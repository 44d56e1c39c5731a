-------------------------- MODULE ProtocolHandlerProofs --------------------------
(***************************************************************************)
(* What the wire formats keep of a message, and what a message that comes  *)
(* from the wire can be relied on to be.                                   *)
(***************************************************************************)
EXTENDS ProtocolHandler, TLAPS

IsRef(v) == v = Null \/ \E s : v = Text(s)

LEMMA RefIsKept ==
  ASSUME NEW ref, IsRef(ref)
  PROVE  AsRef(ref) = ref
BY DEF IsRef, Null, Text, Json, AsRef

\* Version 2: what one side serializes the other side parses into the very same message,
\* whatever the event and the refs are.
THEOREM RoundTripV2 ==
  ASSUME V2, NEW topic, topic # "", NEW name, name # "", NEW payload, IsObject(payload),
         NEW ref, IsRef(ref), NEW joinRef, IsRef(joinRef)
  PROVE  LET m == MakeMessage(topic, name, payload, ref, joinRef)
         IN ParseMessage(SerializeMessage(m)) = m
<1> DEFINE m == MakeMessage(topic, name, payload, ref, joinRef)
           f == <<joinRef, ref, Text(topic), Text(name), payload>>
<1>1. SerializeMessage(m) = Array(f)
  BY DEF SerializeMessage, MakeMessage, ParseEvent
<1>2. /\ Len(f) = 5 /\ f[1] = joinRef /\ f[2] = ref /\ f[3] = Text(topic)
      /\ f[4] = Text(name) /\ f[5] = payload
  OBVIOUS
<1> HIDE DEF f
<1>3. IsArray(Array(f)) /\ Array(f).value = f
  BY DEF IsArray, Array, Json
<1>4. /\ IsName(Text(topic)) /\ IsName(Text(name))
      /\ Text(topic).value = topic /\ Text(name).value = name
  BY DEF IsName, Text, Json
<1>5. AsRef(ref) = ref /\ AsRef(joinRef) = joinRef /\ AsPayload(payload) = payload
  BY RefIsKept DEF AsPayload
<1>6. ParseMessage(Array(f)) = ParseV2(Array(f))
  BY DEF ParseMessage
<1>7. ParseV2(Array(f)) = MakeMessage(topic, name, payload, ref, joinRef)
  BY <1>2, <1>3, <1>4, <1>5 DEF ParseV2
<1> QED
  BY <1>1, <1>6, <1>7

\* Version 1 frames have no join_ref: the message that is read back has lost it.
THEOREM RoundTripV1 ==
  ASSUME ~V2, NEW topic, topic # "", NEW name, name # "", NEW payload, IsObject(payload),
         NEW ref, IsRef(ref), NEW joinRef, IsRef(joinRef)
  PROVE  ParseMessage(SerializeMessage(MakeMessage(topic, name, payload, ref, joinRef)))
           = MakeMessage(topic, name, payload, ref, Null)
<1> DEFINE m == MakeMessage(topic, name, payload, ref, joinRef)
           f == [topic |-> Text(topic), event |-> Text(name), ref |-> ref,
                 payload |-> payload]
<1>1. SerializeMessage(m) = Object(f)
  BY DEF SerializeMessage, MakeMessage, ParseEvent
<1>2. /\ DOMAIN f = {"topic", "event", "ref", "payload"}
      /\ f["topic"] = Text(topic) /\ f["event"] = Text(name) /\ f["ref"] = ref
      /\ f["payload"] = payload
  OBVIOUS
<1> HIDE DEF f
<1>3. IsObject(Object(f)) /\ Object(f).value = f
  BY DEF IsObject, Object, Json
<1>4. /\ Field(Object(f), "topic") = Text(topic) /\ Field(Object(f), "event") = Text(name)
      /\ Field(Object(f), "ref") = ref /\ Field(Object(f), "payload") = payload
      /\ Field(Object(f), "join_ref") = Null
  <2>1. \A k : Field(Object(f), k) = IF k \in DOMAIN f THEN f[k] ELSE Null
    BY <1>3 DEF Field
  <2>2. Field(Object(f), "join_ref") = Null
    BY <1>2, <2>1
  <2>3. \A k \in DOMAIN f : Field(Object(f), k) = f[k]
    BY <2>1
  <2> QED
    BY <1>2, <2>2, <2>3
<1>5. /\ IsName(Text(topic)) /\ IsName(Text(name)) /\ AsPayload(payload) = payload
      /\ Text(topic).value = topic /\ Text(name).value = name
  <2>1. /\ IsName(Text(topic)) /\ IsName(Text(name))
        /\ Text(topic).value = topic /\ Text(name).value = name
    BY DEF IsName, Text, Json
  <2>2. AsPayload(payload) = payload
    BY DEF AsPayload
  <2> QED
    BY <2>1, <2>2
<1>6. ParseV1(Object(f)) = MakeMessage(topic, name, payload, ref, Null)
  BY <1>3, <1>4, <1>5 DEF ParseV1
<1> QED
  BY <1>1, <1>6 DEF ParseMessage

\* Whatever the frame was, a message that gets past parse_message has a topic, an event and
\* an object for payload; in version 2 its refs are None or strings, so the comparison with
\* the join_ref of a subscription is one of strings.
THEOREM ParsedIsUsable ==
  ASSUME NEW v, ParseMessage(v) # Malformed
  PROVE  /\ ParseMessage(v).topic # "" /\ ParseMessage(v).event.name # ""
         /\ IsObject(ParseMessage(v).payload)
         /\ ParseMessage(v).event = ParseEvent(ParseMessage(v).event.name)
         /\ V2 => /\ ParseMessage(v).ref.type \in {"null", "text"}
                  /\ ParseMessage(v).join_ref.type \in {"null", "text"}
<1>1. \A w : IsObject(AsPayload(w))
  BY DEF AsPayload, IsObject, Object, Json
<1>2. \A w : AsRef(w).type \in {"null", "text"}
  BY DEF AsRef, Null, Text, Json
<1>3. CASE V2
  <2>1. ParseMessage(v) = ParseV2(v)
    BY <1>3 DEF ParseMessage
  <2>2. /\ IsName(v.value[3]) /\ IsName(v.value[4])
        /\ ParseMessage(v) = MakeMessage(v.value[3].value, v.value[4].value,
                               AsPayload(v.value[5]), AsRef(v.value[2]), AsRef(v.value[1]))
    BY <2>1 DEF ParseV2
  <2>3. /\ ParseMessage(v).topic = v.value[3].value
        /\ ParseMessage(v).event = ParseEvent(v.value[4].value)
        /\ ParseMessage(v).payload = AsPayload(v.value[5])
        /\ ParseMessage(v).ref = AsRef(v.value[2])
        /\ ParseMessage(v).join_ref = AsRef(v.value[1])
    BY <2>2 DEF MakeMessage
  <2>4. ParseMessage(v).event.name = v.value[4].value
    BY <2>3 DEF ParseEvent
  <2> QED
    BY <1>1, <1>2, <2>2, <2>3, <2>4 DEF IsName
<1>4. CASE ~V2
  <2>1. ParseMessage(v) = ParseV1(v)
    BY <1>4 DEF ParseMessage
  <2>2. /\ IsName(Field(v, "topic")) /\ IsName(Field(v, "event"))
        /\ ParseMessage(v) = MakeMessage(Field(v, "topic").value, Field(v, "event").value,
                               AsPayload(Field(v, "payload")), Field(v, "ref"),
                               Field(v, "join_ref"))
    BY <2>1 DEF ParseV1
  <2>3. /\ ParseMessage(v).topic = Field(v, "topic").value
        /\ ParseMessage(v).event = ParseEvent(Field(v, "event").value)
        /\ ParseMessage(v).payload = AsPayload(Field(v, "payload"))
    BY <2>2 DEF MakeMessage
  <2>4. ParseMessage(v).event.name = Field(v, "event").value
    BY <2>3 DEF ParseEvent
  <2> QED
    BY <1>1, <1>4, <2>2, <2>3, <2>4 DEF IsName
<1> QED
  BY <1>3, <1>4
=================================================================================
