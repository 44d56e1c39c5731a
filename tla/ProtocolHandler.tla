----------------------------- MODULE ProtocolHandler -----------------------------
(***************************************************************************)
(* The wire formats of PHXProtocolHandler, versions 1.0 and 2.0: which     *)
(* frames become messages, and what of a message gets into a frame.        *)
(*                                                                         *)
(* A frame is a value of JSON, decoded: json.dumps and json.loads undo     *)
(* each other on the values used here.  A frame that json.loads rejects is *)
(* Garbage.                                                                *)
(***************************************************************************)
EXTENDS Integers, Sequences, TLC

CONSTANT V2   \* protocol_version is V2, otherwise V1

ASSUME VersionAssumption == V2 \in BOOLEAN

---------------------------------------------------------------------------------
(***************************************************************************)
(* JSON.  The value of an object is a function on the names of its fields; *)
(* where the code only asks for its type the value may be anything.        *)
(***************************************************************************)
Json(type, value) == [type |-> type, value |-> value]

Null       == Json("null", 0)
Text(s)    == Json("text", s)
Number(n)  == Json("number", n)
Array(s)   == Json("array", s)
Object(f)  == Json("object", f)
Garbage    == Json("garbage", 0)
NoFields   == [f \in {} |-> Null]

IsArray(v) == v.type = "array"
IsObject(v) == v.type = "object"
\* A non-empty string: what a topic and an event have to be.
IsName(v)  == v.type = "text" /\ v.value # ""

\* parsed_data.get(name).
Field(v, name) == IF name \in DOMAIN v.value THEN v.value[name] ELSE Null

---------------------------------------------------------------------------------
(***************************************************************************)
(* Messages.                                                               *)
(***************************************************************************)
PHXEvents == {"phx_close", "phx_error", "phx_join", "phx_reply", "phx_leave"}

\* parse_event: one of Phoenix' own events becomes a PHXEvent, which differs from the
\* string of the same text.
ParseEvent(name) == [phx |-> name \in PHXEvents, name |-> name]

\* make_message.
MakeMessage(topic, name, payload, ref, joinRef) ==
  [topic |-> topic, event |-> ParseEvent(name), payload |-> payload,
   ref |-> ref, join_ref |-> joinRef]

\* What parse_message raises is one value.
Malformed == MakeMessage("", "", Null, Null, Null)

---------------------------------------------------------------------------------
\* A payload that is no object is dropped.
AsPayload(v) == IF IsObject(v) THEN v ELSE Object(NoFields)

\* ref if ref is None else str(ref).
AsRef(v) ==
  CASE v.type = "null" -> Null
    [] v.type = "text" -> v
    [] OTHER -> Text(ToString(v.value))

ParseV2(v) ==
  IF IsArray(v) /\ Len(v.value) = 5 /\ IsName(v.value[3]) /\ IsName(v.value[4])
  THEN MakeMessage(v.value[3].value, v.value[4].value, AsPayload(v.value[5]),
                   AsRef(v.value[2]), AsRef(v.value[1]))
  ELSE Malformed

\* Version 1 leaves the refs as they are.
ParseV1(v) ==
  IF IsObject(v) /\ IsName(Field(v, "topic")) /\ IsName(Field(v, "event"))
  THEN MakeMessage(Field(v, "topic").value, Field(v, "event").value,
                   AsPayload(Field(v, "payload")), Field(v, "ref"), Field(v, "join_ref"))
  ELSE Malformed

ParseMessage(v) == IF V2 THEN ParseV2(v) ELSE ParseV1(v)

\* serialize_message; str() of either kind of event is its text.
SerializeMessage(m) ==
  IF V2 THEN Array(<<m.join_ref, m.ref, Text(m.topic), Text(m.event.name), m.payload>>)
  ELSE Object([topic |-> Text(m.topic), event |-> Text(m.event.name), ref |-> m.ref,
               payload |-> m.payload])
=================================================================================
