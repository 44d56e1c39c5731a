---------------------------- MODULE TopicLifeProofs ----------------------------
(***************************************************************************)
(* What a subscription that counts as joined promises: it is joined on the *)
(* server, and TopicRuntime implements SubscriptionLife.                   *)
(***************************************************************************)
EXTENDS TopicProcessorProofs

\* A positive answer to the join with number r is in q.
Confirmed(q, r) == \E i \in 1..Len(q) : q[i].kind = "reply_ok" /\ q[i].ref = r

\* A subscription that counts as joined, or will when the answers on their way are read, is in
\* its topic on the server; no join that is still to be made has been answered.
InForce(x) ==
  /\ Registered(x) /\ ~sub[x].leave /\ sub[x].gen = gen /\ link = "up"
  /\ \/ sub[x].ready = "ok"
     \/ Confirmed(wire, sub[x].ref) \/ Confirmed(sub[x].queue, sub[x].ref)
  => joined[sub[x].name] = sub[x].ref
JoinsAnswered == \A r \in Tasks : Confirmed(wire, r) => r <= refs
JoinInForce   == V2 => JoinsAnswered /\ \A x \in Made : InForce(x)

LEMMA ConfirmedAppend ==
  ASSUME NEW q \in Seq(Messages), NEW m, NEW r, Confirmed(Append(q, m), r)
  PROVE  Confirmed(q, r) \/ (m.kind = "reply_ok" /\ m.ref = r)
<1> DEFINE v == Append(q, m)
<1>1. /\ Len(v) = Len(q) + 1 /\ Len(q) \in Nat /\ v[Len(q) + 1] = m
      /\ \A i \in 1..Len(q) : v[i] = q[i]
  BY AppendProperties
<1> HIDE DEF v
<1>2. PICK i \in 1..Len(v) : v[i].kind = "reply_ok" /\ v[i].ref = r
  BY DEF Confirmed, v
<1>3. i \in 1..Len(q) \/ i = Len(q) + 1
  BY <1>1
<1> QED
  BY <1>1, <1>2, <1>3 DEF Confirmed

LEMMA ConfirmedTail ==
  ASSUME NEW q \in Seq(Messages), NEW r, q # <<>>
  PROVE  /\ Confirmed(Tail(q), r) => Confirmed(q, r)
         /\ Head(q).kind = "reply_ok" /\ Head(q).ref = r => Confirmed(q, r)
<1> DEFINE v == Tail(q)
<1>1. /\ Len(v) = Len(q) - 1 /\ Len(q) \in Nat /\ Len(q) >= 1 /\ Head(q) = q[1]
      /\ \A i \in 1..Len(v) : v[i] = q[i + 1]
  BY HeadTailProperties, EmptySeq
<1> HIDE DEF v
<1>2. \A i \in 1..Len(v) : i + 1 \in 1..Len(q)
  BY <1>1
<1>3. Confirmed(v, r) => Confirmed(q, r)
  BY <1>1, <1>2 DEF Confirmed
<1>4. 1 \in 1..Len(q)
  BY <1>1
<1>5. Head(q).kind = "reply_ok" /\ Head(q).ref = r => Confirmed(q, r)
  BY <1>1, <1>4 DEF Confirmed
<1> QED
  BY <1>3, <1>5 DEF v

LEMMA ConfirmedLoss ==
  ASSUME NEW q \in Seq(Messages), NEW r, NEW k \in 0..Len(q), Confirmed(SubSeq(q, 1, k), r)
  PROVE  Confirmed(q, r)
<1> DEFINE v == SubSeq(q, 1, k)
<1>1. Len(v) = k /\ Len(q) \in Nat /\ \A i \in 1..k : v[i] = q[i]
  OBVIOUS
<1> HIDE DEF v
<1>2. \A i \in 1..Len(v) : i \in 1..Len(q) /\ v[i] = q[i]
  BY <1>1
<1> QED
  BY <1>2 DEF Confirmed, v

LEMMA ConfirmedEnqueue ==
  ASSUME NEW q \in Seq(Messages), NEW m \in Messages, NEW r, Confirmed(Enqueue(q, m), r)
  PROVE  Confirmed(q, r) \/ (m.kind = "reply_ok" /\ m.ref = r)
<1>1. QueueSize \in Nat \ {0} /\ Len(q) \in Nat
  BY TopicAssumption
<1>2. CASE Len(q) >= QueueSize
  <2>1. q # <<>>
    BY <1>1, <1>2
  <2>2. Tail(q) \in Seq(Messages) /\ (Confirmed(Tail(q), r) => Confirmed(q, r))
    BY <2>1, HeadTailProperties, ConfirmedTail
  <2>3. Confirmed(Append(Tail(q), m), r)
    BY <1>2 DEF Enqueue
  <2> QED
    BY <2>2, <2>3, ConfirmedAppend
<1>3. CASE ~(Len(q) >= QueueSize)
  <2>1. Confirmed(Append(q, m), r)
    BY <1>3 DEF Enqueue
  <2> QED
    BY <2>1, ConfirmedAppend
<1> QED
  BY <1>2, <1>3

LEMMA NothingConfirmed ==
  ASSUME NEW r
  PROVE  ~Confirmed(<<>>, r)
BY DEF Confirmed

---------------------------------------------------------------------------------
(***************************************************************************)
(* The server hears of joins and leaves only.                              *)
(***************************************************************************)
\* What it is told of subscription x, and what the connection loses.
AskedToLeave(x) ==
  Registered(x) /\ sub'[x].leave /\ ServerLeaves(sub[x].name, sub[x].ref)
Breaks == link' = "down" /\ \E k \in 0..Len(wire) : wire' = SubSeq(wire, 1, k)

LEMMA AsideServer ==
  ASSUME TypeInv, Aside
  PROVE  UNCHANGED server \/ Breaks \/ \E x \in Made : AskedToLeave(x)
<1>1. CASE PeerLost
  BY <1>1 DEF PeerLost, Breaks
<1>2. CASE ShuttingDown
  <2>1. UNCHANGED server \/ (link' = "down" /\ wire' = <<>>)
    BY <1>2 DEF ShuttingDown, ShutdownAsks, ShutdownUnregisters, ShutdownCancels, ShutdownEnds,
                server
  <2>2. 0 \in 0..Len(wire) /\ SubSeq(wire, 1, 0) = <<>>
    BY OrderTypes
  <2> QED
    BY <2>1, <2>2 DEF Breaks
<1>3. CASE Disconnect \/ ShutdownBegins \/ DrainTimesOut \/ JoinTimesOut \/ JoinRefused
  BY <1>3 DEF Disconnect, ShutdownBegins, DrainTimesOut, JoinTimesOut, JoinRefused, server
<1>4. ASSUME NEW t \in Topics, ChangeHandlers(t)
      PROVE  UNCHANGED server
  BY <1>4 DEF ChangeHandlers, server
<1>5. ASSUME NEW t \in Topics, NEW u \in Leavers, Unsubscribe(u, t)
      PROVE  UNCHANGED server \/ \E x \in Made : AskedToLeave(x)
  <2>1. CASE link # "up"
    BY <1>5, <2>1 DEF Unsubscribe, server
  <2>2. CASE link = "up"
    <3> DEFINE x == registry[t]
    <3>1. x \in Made /\ x \in Subs /\ Registered(x) /\ sub[x].name = t
      BY <1>5, Registers DEF Unsubscribe, Made
    <3>2. ServerLeaves(t, sub[x].ref) /\ sub' = [sub EXCEPT ![x].leave = TRUE]
      BY <1>5, <2>2 DEF Unsubscribe
    <3>3. sub'[x].leave
      BY <3>1, <3>2 DEF TypeInv, InRange, SubsOK, Subscriptions
    <3> QED
      BY <3>1, <3>2, <3>3 DEF AskedToLeave
  <2> QED
    BY <2>1, <2>2
<1>6. ASSUME NEW o \in Tasks, NEW u \in Leavers, CallbackLeaves(o, u)
      PROVE  UNCHANGED server \/ \E x \in Made : AskedToLeave(x)
  <2>1. CASE link # "up"
    BY <1>6, <2>1 DEF CallbackLeaves, server
  <2>2. CASE link = "up"
    <3> DEFINE x == task[o].on
    <3>1. x \in Made /\ x \in Subs /\ Registered(x)
      BY <1>6 DEF CallbackLeaves, Made, TypeInv, TasksMade
    <3>2. ServerLeaves(sub[x].name, sub[x].ref) /\ sub' = [sub EXCEPT ![x].leave = TRUE]
      BY <1>6, <2>2 DEF CallbackLeaves
    <3>3. sub'[x].leave
      BY <3>1, <3>2 DEF TypeInv, InRange, SubsOK, Subscriptions
    <3> QED
      BY <3>1, <3>2, <3>3 DEF AskedToLeave
  <2> QED
    BY <2>1, <2>2
<1>7. ASSUME NEW x \in Subs, Subscribing(x)
      PROVE  UNCHANGED server
  BY <1>7 DEF Subscribing, SubscribeReturns, SubscribeRaises, SubscribeFails, SubscribeTimesOut,
              GiveUp, server
<1>8. ASSUME NEW u \in Leavers, Unsubscribing(u)
      PROVE  UNCHANGED server
  BY <1>8 DEF Unsubscribing, UnsubscribeReturns, LeaveEnds, LeaveTimesOut, unchangedByLeaver, server
<1>9. ASSUME NEW o \in Tasks, Working(o)
      PROVE  UNCHANGED server
  BY <1>9 DEF Working, ProcessorStarts, ProcessorStops, CallbackReturns, CallbackRaises,
              CallbackCancelled, server
<1> QED
  BY <1>1, <1>2, <1>3, <1>4, <1>5, <1>6, <1>7, <1>8, <1>9 DEF Aside, Calling

\* What the answer to a join, or a leave, confirms.
LEMMA LeaveConfirms ==
  ASSUME TypeInv, V2, NEW t \in Topics, NEW ref \in Tasks, ServerLeaves(t, ref), NEW r
  PROVE  /\ Confirmed(wire', r) => Confirmed(wire, r) \/ r = ref
         /\ \A v \in Topics \ {t} : joined'[v] = joined[v]
<1>1. PICK kind \in {"reply_ok", "reply_error"} :
        /\ wire' = Append(wire, Message(kind, t, ref, gen, 0))
        /\ joined' = IF joined[t] = ref \/ ~V2 THEN [joined EXCEPT ![t] = 0] ELSE joined
  BY DEF ServerLeaves
<1>2. Message(kind, t, ref, gen, 0).ref = ref
  BY DEF Message
<1>3. wire \in Seq(Messages) /\ joined \in [Topics -> Tasks \cup {0}]
  BY OrderTypes DEF TypeInv, InRange
<1>4. Confirmed(wire', r) => Confirmed(wire, r) \/ r = ref
  BY <1>1, <1>2, <1>3, ConfirmedAppend
<1>5. \A v \in Topics \ {t} : joined'[v] = joined[v]
  BY <1>1, <1>3
<1> QED
  BY <1>4, <1>5

LEMMA JoinConfirms ==
  ASSUME TypeInv, V2, NEW t \in Topics, NEW ref \in Tasks, NEW g, ServerJoins(t, ref, g), NEW r
  PROVE  /\ Confirmed(wire', r) => Confirmed(wire, r) \/ (r = ref /\ joined'[t] = ref)
         /\ \A v \in Topics \ {t} : joined'[v] = joined[v]
<1>1. wire \in Seq(Messages) /\ joined \in [Topics -> Tasks \cup {0}]
  BY OrderTypes DEF TypeInv, InRange
<1>2. ASSUME wire' = Append(wire, Message("reply_ok", t, ref, g, 0)), joined' = [joined EXCEPT ![t] = ref]
      PROVE  /\ Confirmed(wire', r) => Confirmed(wire, r) \/ (r = ref /\ joined'[t] = ref)
             /\ \A v \in Topics \ {t} : joined'[v] = joined[v]
  <2>1. Message("reply_ok", t, ref, g, 0).ref = ref
    BY DEF Message
  <2>2. Confirmed(wire', r) => Confirmed(wire, r) \/ r = ref
    BY <1>1, <1>2, <2>1, ConfirmedAppend
  <2> QED
    BY <1>1, <1>2, <2>2
<1>3. ASSUME wire' = Append(wire, Message("reply_error", t, ref, g, 0)), joined' = joined
      PROVE  Confirmed(wire', r) => Confirmed(wire, r)
  <2>1. Message("reply_error", t, ref, g, 0).kind # "reply_ok"
    BY DEF Message
  <2> QED
    BY <1>1, <1>3, <2>1, ConfirmedAppend
<1> QED
  BY <1>2, <1>3 DEF ServerJoins

---------------------------------------------------------------------------------
(***************************************************************************)
(* A subscription that counts as joined is joined on the server.           *)
(***************************************************************************)
\* What InForce assumes of x.
Counts(x) ==
  /\ Registered(x) /\ ~sub[x].leave /\ sub[x].gen = gen /\ link = "up"
  /\ \/ sub[x].ready = "ok"
     \/ Confirmed(wire, sub[x].ref) \/ Confirmed(sub[x].queue, sub[x].ref)

LEMMA AllInForce == JoinInForce <=>
  (V2 => JoinsAnswered /\ \A x \in Made : Counts(x) => joined[sub[x].name] = sub[x].ref)
BY DEF JoinInForce, InForce, Counts

\* What counted before and still does, undisturbed by the server.
LEMMA CountsOn ==
  ASSUME JoinInForce, V2, NEW x \in Made, Counts(x), sub'[x].name = sub[x].name,
         sub'[x].ref = sub[x].ref, joined'[sub[x].name] = joined[sub[x].name]
  PROVE  joined'[sub'[x].name] = sub'[x].ref
BY AllInForce

LEMMA InForceAside ==
  ASSUME TypeInv, AllWork, JoinInForce, Aside, V2
  PROVE  JoinInForce'
<1>1. KeepsJoins /\ Disconnects
  BY AsideSteps, AsideKeeps DEF SetAside, StepsAside, AllWork
<1>2. Made' = Made /\ wire \in Seq(Messages) /\ JoinsAnswered
  BY <1>1, NothingMadeAside, OrderTypes DEF JoinInForce
<1>3. ASSUME NEW x \in Made, Counts(x)',
             Confirmed(wire', sub[x].ref) => Confirmed(wire, sub[x].ref)
      PROVE  /\ Counts(x) /\ sub'[x].name = sub[x].name /\ sub'[x].ref = sub[x].ref
             /\ link' # "down" /\ ~sub'[x].leave
  <2>1. Registered(x) /\ sub[x].gen = gen /\ link = "up" /\ ~sub[x].leave
    BY <1>1, <1>3, NothingMadeAside DEF Counts, Disconnects, KeepsJoins, Made
  <2>2. /\ sub'[x].name = sub[x].name /\ sub'[x].ref = sub[x].ref /\ sub'[x].queue = sub[x].queue
        /\ (sub'[x].ready = "ok" => sub[x].ready = "ok")
    BY <1>1 DEF KeepsJoins, Steadily, SameJoin, SameQueue, Made
  <2> QED
    BY <1>3, <2>1, <2>2 DEF Counts
<1>4. CASE UNCHANGED server
  <2>1. wire' = wire /\ joined' = joined /\ refs' = refs
    BY <1>1, <1>4 DEF server, KeepsJoins
  <2>2. \A x \in Made : Counts(x)' => joined'[sub'[x].name] = sub'[x].ref
    BY <1>3, <2>1, CountsOn
  <2>3. JoinsAnswered'
    BY <1>2, <2>1 DEF JoinsAnswered
  <2> QED
    BY <1>2, <2>2, <2>3 DEF JoinInForce, InForce, Counts
<1>5. CASE Breaks
  <2>1. JoinsAnswered'
    BY <1>1, <1>2, <1>5, ConfirmedLoss DEF Breaks, JoinsAnswered, KeepsJoins
  <2>2. \A x : ~Counts(x)'
    BY <1>5 DEF Breaks, Counts
  <2> QED
    BY <2>1, <2>2 DEF JoinInForce, InForce, Counts
<1>6. ASSUME NEW y \in Made, AskedToLeave(y)
      PROVE  JoinInForce'
  <2>1. /\ sub[y].name \in Topics /\ sub[y].ref \in Tasks /\ sub[y].ref <= refs
        /\ ServerLeaves(sub[y].name, sub[y].ref) /\ registry[sub[y].name] = y
    BY <1>6, TaskTypes, ProcessorMade DEF AskedToLeave, Registered, Processor
  <2>2. ASSUME NEW x \in Made, Counts(x)'
        PROVE  joined'[sub'[x].name] = sub'[x].ref
    <3>1. x # y
      BY <1>6, <2>2 DEF AskedToLeave, Counts
    <3>2. sub[x].ref # sub[y].ref
      BY <3>1 DEF TypeInv, Numbered
    <3>3. Confirmed(wire', sub[x].ref) => Confirmed(wire, sub[x].ref)
      BY <2>1, <3>2, LeaveConfirms
    <3>4. Counts(x) /\ sub'[x].name = sub[x].name /\ sub'[x].ref = sub[x].ref
      BY <1>3, <2>2, <3>3
    <3>5. sub[x].name \in Topics /\ sub[x].name # sub[y].name
      BY <2>1, <3>1, <3>4, TaskTypes DEF Counts, Registered
    <3>6. joined'[sub[x].name] = joined[sub[x].name]
      BY <2>1, <3>5, LeaveConfirms
    <3> QED
      BY <3>4, <3>6, CountsOn
  <2>3. JoinsAnswered'
    <3>1. \A r \in Tasks : Confirmed(wire', r) => r <= refs
      BY <1>2, <2>1, LeaveConfirms DEF JoinsAnswered
    <3> QED
      BY <1>1, <3>1 DEF JoinsAnswered, KeepsJoins
  <2> QED
    BY <1>2, <2>2, <2>3 DEF JoinInForce, InForce, Counts
<1> QED
  BY <1>4, <1>5, <1>6, AsideServer

\* A subscription becomes joined by a positive answer to its current join, which starts no callback.
Answers(o, x) ==
  /\ x = task[o].on /\ sub[x].ready # "ok" /\ task' = task
  /\ CurrentJoin(x, Head(sub[x].queue))
  /\ sub'[x].ready = "ok" => Head(sub[x].queue).kind = "reply_ok"

LEMMA DispatchReady ==
  ASSUME TypeInv, NEW o \in Tasks, Dispatch(o)
  PROVE  \A x \in Subs : sub'[x].ready = sub[x].ready \/ Answers(o, x)
<1> DEFINE x == task[o].on
           m == Head(sub[x].queue)
           s == [sub[x] EXCEPT !.queue = Tail(sub[x].queue)]
<1>1. x = task[o].on /\ m = Head(sub[x].queue) /\ s = [sub[x] EXCEPT !.queue = Tail(sub[x].queue)]
  OBVIOUS
<1>2. x \in Subs /\ sub \in [Subs -> Subscriptions]
  BY DEF Dispatch, TypeInv, InRange, SubsOK, TasksMade, Made
<1>3. s.ready = sub[x].ready
  BY <1>2 DEF Subscriptions
<1> HIDE DEF x, m, s
<1>4. /\ m \in Messages /\ s \in Subscriptions
      /\ \/ Ignored(o, x, s) \/ JoinAnswer(o, x, m, s) \/ LeaveAnswer(o, x, m, s)
         \/ CallbackStarts(o, x, m, s)
  BY <1>1, DispatchEffect
<1>5. CASE JoinAnswer(o, x, m, s)
  <2> DEFINE r == JoinResponse(s, m)
  <2>1. m.kind \in {"event", "reply_ok", "reply_error"}
    BY <1>4 DEF Messages
  <2>2. SetReady(s, "refused").ready = "ok" => s.ready = "ok"
    BY <1>4 DEF SetReady, Set, Subscriptions
  <2>3. r.ready = "ok" /\ sub[x].ready # "ok" => m.kind = "reply_ok"
    BY <1>3, <2>1, <2>2 DEF JoinResponse
  <2> HIDE DEF r
  <2>4. sub' = [sub EXCEPT ![x] = r] /\ task' = task /\ sub[x].ready # "ok" /\ CurrentJoin(x, m)
    BY <1>5 DEF JoinAnswer, r
  <2>5. \A y \in Subs : sub'[y] = IF y = x THEN r ELSE sub[y]
    BY <1>2, <2>4
  <2>6. Answers(o, x)
    BY <1>1, <1>2, <2>3, <2>4, <2>5 DEF Answers
  <2> QED
    BY <2>5, <2>6
<1>6. CASE ~JoinAnswer(o, x, m, s)
  <2> DEFINE e == [s EXCEPT !.last = m.id]
  <2>1. e.ready = s.ready /\ LeaveResponse(s, m).ready = s.ready
    BY <1>4 DEF LeaveResponse, Subscriptions
  <2> HIDE DEF e
  <2>2. PICK r : sub' = [sub EXCEPT ![x] = r] /\ r.ready = s.ready
    <3>1. CASE CallbackStarts(o, x, m, s)
      <4>1. sub' = [sub EXCEPT ![x] = IF m.kind = "event" THEN e ELSE s]
        BY <3>1 DEF CallbackStarts, e
      <4> QED
        BY <2>1, <4>1
    <3> QED
      BY <1>4, <1>6, <2>1, <3>1 DEF Ignored, LeaveAnswer
  <2> QED
    BY <1>2, <1>3, <2>2
<1> QED
  BY <1>5, <1>6

LEMMA RouteReady ==
  ASSUME TypeInv, Route
  PROVE  \A x \in Subs : /\ sub'[x].ready = sub[x].ready
                         /\ \/ sub'[x].queue = sub[x].queue
                            \/ sub'[x].queue = Enqueue(sub[x].queue, Head(wire))
<1>1. sub \in [Subs -> Subscriptions]
  BY DEF TypeInv, InRange, SubsOK
<1>2. CASE sub' # sub
  <2> DEFINE m == Head(wire)
  <2>1. PICK x \in Made : sub' = [sub EXCEPT ![x].queue = Enqueue(sub[x].queue, m)]
    BY <1>2, RouteEffect
  <2> DEFINE q == Enqueue(sub[x].queue, m)
  <2> HIDE DEF q
  <2>2. sub' = [sub EXCEPT ![x].queue = q] /\ x \in Subs
    BY <2>1 DEF q, Made
  <2>3. \A y \in Subs : sub'[y].ready = sub[y].ready /\ sub'[y].queue = IF y = x THEN q ELSE sub[y].queue
    BY <1>1, <2>2 DEF Subscriptions
  <2> QED
    BY <2>3 DEF q
<1> QED
  BY <1>2

LEMMA InForceRoute ==
  ASSUME TypeInv, JoinInForce, Route, V2
  PROVE  JoinInForce'
<1>1. /\ wire # <<>> /\ wire \in Seq(Messages) /\ Head(wire) \in Messages /\ wire' = Tail(wire)
      /\ UNCHANGED <<joined, registry, gen, link, refs>>
  BY RouteEffect, OrderTypes, RestKeeps DEF Route
<1>2. \A x \in Subs : SameJoin(sub[x], sub'[x]) /\ sub'[x].leave = sub[x].leave
  BY RestKeeps
<1>3. Made' = Made
  BY <1>2 DEF Made, SameJoin
<1>4. JoinsAnswered'
  BY <1>1, ConfirmedTail DEF JoinInForce, JoinsAnswered
<1>5. ASSUME NEW x \in Made, Counts(x)'
      PROVE  Counts(x)
  <2> DEFINE r == sub[x].ref
  <2>1. x \in Subs /\ sub'[x].ref = r /\ sub[x].queue \in Seq(Messages)
    BY <1>2, OrderTypes DEF SameJoin, Made
  <2>2. Registered(x) /\ ~sub[x].leave /\ sub[x].gen = gen /\ link = "up"
    BY <1>1, <1>2, <1>5, <2>1 DEF Counts, Registered, SameJoin, Made
  <2>3. CASE sub'[x].ready = "ok"
    BY <2>1, <2>2, <2>3, RouteReady DEF Counts
  <2>4. CASE Confirmed(wire', r)
    BY <1>1, <2>2, <2>4, ConfirmedTail DEF Counts
  <2>5. CASE Confirmed(sub'[x].queue, r)
    <3>1. CASE sub'[x].queue = sub[x].queue
      BY <2>2, <2>5, <3>1 DEF Counts
    <3>2. CASE sub'[x].queue = Enqueue(sub[x].queue, Head(wire))
      <4>1. Confirmed(sub[x].queue, r) \/ (Head(wire).kind = "reply_ok" /\ Head(wire).ref = r)
        BY <1>1, <2>1, <2>5, <3>2, ConfirmedEnqueue
      <4>2. Confirmed(sub[x].queue, r) \/ Confirmed(wire, r)
        BY <1>1, <4>1, ConfirmedTail
      <4> QED
        BY <2>2, <4>2 DEF Counts
    <3> QED
      BY <2>1, <3>1, <3>2, RouteReady
  <2> QED
    BY <1>5, <2>1, <2>3, <2>4, <2>5 DEF Counts
<1>6. ASSUME NEW x \in Made, Counts(x)'
      PROVE  joined'[sub'[x].name] = sub'[x].ref
  BY <1>1, <1>2, <1>5, <1>6, CountsOn DEF SameJoin, Made
<1> QED
  BY <1>3, <1>4, <1>6 DEF JoinInForce, InForce, Counts

LEMMA InForcePush ==
  ASSUME TypeInv, JoinInForce, NEW t \in Topics, Push(t), V2
  PROVE  JoinInForce'
<1>1. /\ \E m : m.kind = "event" /\ wire' = Append(wire, m)
      /\ UNCHANGED <<sub, registry, gen, link, refs, joined>> /\ wire \in Seq(Messages)
  BY OrderTypes DEF Push, net, Message
<1>2. \A r : Confirmed(wire', r) => Confirmed(wire, r)
  BY <1>1, ConfirmedAppend
<1>3. Made' = Made /\ JoinsAnswered'
  BY <1>1, <1>2 DEF JoinInForce, JoinsAnswered, Made
<1>4. ASSUME NEW x \in Made, Counts(x)'
      PROVE  Counts(x) /\ sub'[x] = sub[x]
  BY <1>1, <1>2, <1>4 DEF Counts, Registered
<1>5. ASSUME NEW x \in Made, Counts(x)'
      PROVE  joined'[sub'[x].name] = sub'[x].ref
  BY <1>1, <1>4, <1>5, CountsOn
<1> QED
  BY <1>3, <1>5 DEF JoinInForce, InForce, Counts

LEMMA InForceDispatch ==
  ASSUME TypeInv, JoinInForce, NEW o \in Tasks, Dispatch(o), V2
  PROVE  JoinInForce'
<1>1. UNCHANGED <<wire, joined, registry, gen, link, refs>>
  BY RestKeeps, DispatchQueue DEF Dispatch, server
<1>2. \A x \in Subs : SameJoin(sub[x], sub'[x]) /\ sub'[x].leave = sub[x].leave
  BY RestKeeps
<1>3. Made' = Made /\ JoinsAnswered'
  BY <1>1, <1>2 DEF Made, SameJoin, JoinInForce, JoinsAnswered
<1>4. ASSUME NEW x \in Made, Counts(x)'
      PROVE  Counts(x)
  <2> DEFINE r == sub[x].ref
             q == sub[x].queue
  <2>1. x \in Subs /\ sub'[x].ref = r /\ q \in Seq(Messages)
    BY <1>2, OrderTypes DEF SameJoin, Made
  <2>2. Registered(x) /\ ~sub[x].leave /\ sub[x].gen = gen /\ link = "up"
    BY <1>1, <1>2, <1>4, <2>1 DEF Counts, Registered, SameJoin, Made
  <2>3. CASE sub'[x].ready = "ok" /\ sub[x].ready # "ok"
    <3>1. q # <<>> /\ Head(q).kind = "reply_ok" /\ Head(q).ref = r
      BY <2>1, <2>3, DispatchReady, DispatchQueue DEF Answers, CurrentJoin
    <3>2. Confirmed(q, r)
      BY <2>1, <3>1, ConfirmedTail
    <3> QED
      BY <2>2, <3>2 DEF Counts
  <2>4. CASE Confirmed(wire', r)
    BY <1>1, <2>2, <2>4 DEF Counts
  <2>5. CASE Confirmed(sub'[x].queue, r)
    <3>1. sub'[x].queue = q \/ (q # <<>> /\ sub'[x].queue = Tail(q))
      BY <2>1, DispatchQueue
    <3>2. Confirmed(q, r)
      BY <2>1, <2>5, <3>1, ConfirmedTail
    <3> QED
      BY <2>2, <3>2 DEF Counts
  <2>6. CASE sub[x].ready = "ok"
    BY <2>2, <2>6 DEF Counts
  <2> QED
    BY <1>4, <2>1, <2>3, <2>4, <2>5, <2>6 DEF Counts
<1>5. ASSUME NEW x \in Made, Counts(x)'
      PROVE  joined'[sub'[x].name] = sub'[x].ref
  BY <1>1, <1>2, <1>4, <1>5, CountsOn DEF SameJoin, Made
<1> QED
  BY <1>3, <1>5 DEF JoinInForce, InForce, Counts

LEMMA InForceSubscribe ==
  ASSUME TypeInv, TypeInv', JoinInForce, NEW t \in Topics, Subscribe(t), V2
  PROVE  JoinInForce'
<1>1. PICK x \in Subs \ Made :
        /\ refs \in Nat /\ refs + 1 \in Tasks /\ refs' = refs + 1
        /\ sub'[x].name = t /\ sub'[x].ref = refs + 1
        /\ sub'[x].queue = <<>> /\ sub'[x].ready # "ok"
        /\ \A y \in Subs \ {x} : sub'[y] = sub[y]
        /\ Made' = Made \cup {x}
        /\ \/ registry' = [registry EXCEPT ![t] = x] /\ ServerJoins(t, refs + 1, gen)
           \/ UNCHANGED server /\ link = "down"
  BY MakesTasks
<1>2. UNCHANGED <<gen, link>> /\ registry \in [Topics -> Numbers] /\ JoinsAnswered
  BY TaskTypes DEF Subscribe, net, JoinInForce
<1>3. \A r \in Tasks : r \in Nat
  BY ConstantTypes DEF Tasks
<1>4. CASE UNCHANGED server /\ link = "down"
  <2>1. JoinsAnswered'
    BY <1>1, <1>2, <1>3, <1>4 DEF JoinsAnswered, server
  <2>2. \A y : ~Counts(y)'
    BY <1>2, <1>4 DEF Counts
  <2> QED
    BY <2>1, <2>2 DEF JoinInForce, InForce, Counts
<1>5. CASE registry' = [registry EXCEPT ![t] = x] /\ ServerJoins(t, refs + 1, gen)
  <2>1. \A r : Confirmed(wire', r) => Confirmed(wire, r) \/ (r = refs + 1 /\ joined'[t] = refs + 1)
    BY <1>1, <1>5, JoinConfirms
  <2>2. \A v \in Topics \ {t} : joined'[v] = joined[v]
    BY <1>1, <1>5, JoinConfirms
  <2>3. JoinsAnswered'
    BY <1>1, <1>2, <1>3, <2>1 DEF JoinsAnswered
  <2>4. ASSUME Counts(x)'
        PROVE  joined'[sub'[x].name] = sub'[x].ref
    <3>1. Confirmed(wire', refs + 1)
      BY <1>1, <2>4, NothingConfirmed DEF Counts
    <3>2. ~Confirmed(wire, refs + 1)
      BY <1>1, <1>2 DEF JoinsAnswered
    <3> QED
      BY <1>1, <2>1, <3>1, <3>2
  <2>5. ASSUME NEW y \in Made, Counts(y)'
        PROVE  joined'[sub'[y].name] = sub'[y].ref
    <3>1. y \in Subs \ {x} /\ sub'[y] = sub[y] /\ sub[y].name \in Topics
      BY <1>1, TaskTypes
    <3>2. registry'[sub[y].name] = y
      BY <2>5, <3>1 DEF Counts, Registered
    <3>3. sub[y].name # t /\ registry[sub[y].name] = y
      BY <1>2, <1>5, <3>1, <3>2
    <3>4. sub[y].ref \in Tasks /\ sub[y].ref <= refs
      BY ProcessorMade DEF Processor
    <3>5. Confirmed(wire', sub[y].ref) => Confirmed(wire, sub[y].ref)
      BY <1>1, <1>3, <2>1, <3>4
    <3>6. Counts(y)
      BY <1>2, <2>5, <3>1, <3>3, <3>5 DEF Counts, Registered
    <3>7. joined'[sub[y].name] = joined[sub[y].name]
      BY <2>2, <3>1, <3>3
    <3> QED
      BY <3>1, <3>6, <3>7, CountsOn
  <2> QED
    BY <1>1, <2>3, <2>4, <2>5 DEF JoinInForce, InForce, Counts
<1> QED
  BY <1>1, <1>4, <1>5

LEMMA InForceJoin ==
  ASSUME TypeInv, TypeInv', JoinInForce, V2, UNCHANGED registry, NEW x \in Made,
         \A y \in Made : Registered(y) /\ sub[y].name = sub[x].name => y = x,
         NEW rest, NEW g, NEW l, Join(x, rest, g, l), gen' = g, g >= gen,
         link' = l, g = gen => UNCHANGED link
  PROVE  JoinInForce'
<1>1. /\ refs \in Nat /\ refs + 1 \in Tasks
      /\ sub'[x] = Rejoined(x, g) /\ \A y \in Subs \ {x} : sub'[y] = sub[y]
      /\ Rejoined(x, g).name = sub[x].name /\ Rejoined(x, g).ref = refs + 1
      /\ Rejoined(x, g).queue = <<>> /\ Made' = Made
  BY JoinTasks
<1>2. /\ refs' = refs + 1 /\ JoinsAnswered /\ sub'[x].ready = "pending" /\ sub[x].name \in Topics
      /\ gen \in Nat /\ gen' \in Nat
  BY <1>1, RejoinedType, TaskTypes, ConstantTypes DEF Join, JoinInForce, TypeInv, InRange
<1>3. \A r \in Tasks : r \in Nat
  BY ConstantTypes DEF Tasks
<1>4. CASE l # "up"
  <2>1. UNCHANGED wire
    BY <1>4 DEF Join, server
  <2>2. JoinsAnswered'
    <3>1. \A r \in Tasks : Confirmed(wire', r) => r <= refs
      BY <1>2, <2>1 DEF JoinsAnswered
    <3>2. \A r \in Tasks : r <= refs => r <= refs + 1
      BY <1>1, <1>3
    <3> QED
      BY <1>2, <3>1, <3>2 DEF JoinsAnswered
  <2>3. \A y : ~Counts(y)'
    BY <1>4 DEF Counts
  <2> QED
    BY <2>2, <2>3 DEF JoinInForce, InForce, Counts
<1>5. CASE l = "up"
  <2> DEFINE t == sub[x].name
  <2>1. ServerJoins(t, refs + 1, g)
    BY <1>5 DEF Join
  <2>2. \A r : Confirmed(wire', r) => Confirmed(wire, r) \/ (r = refs + 1 /\ joined'[t] = refs + 1)
    BY <1>1, <1>2, <2>1, JoinConfirms
  <2>3. \A v \in Topics \ {t} : joined'[v] = joined[v]
    BY <1>1, <1>2, <2>1, JoinConfirms
  <2>4. JoinsAnswered'
    <3>1. \A r \in Tasks : Confirmed(wire', r) => r <= refs \/ r = refs + 1
      BY <1>2, <2>2 DEF JoinsAnswered
    <3>2. \A r \in Tasks : (r <= refs \/ r = refs + 1) => r <= refs + 1
      BY <1>1, <1>3
    <3> QED
      BY <1>2, <3>1, <3>2 DEF JoinsAnswered
  <2>5. ASSUME Counts(x)'
        PROVE  joined'[sub'[x].name] = sub'[x].ref
    <3>1. Confirmed(wire', refs + 1)
      BY <1>1, <1>2, <2>5, NothingConfirmed DEF Counts
    <3>2. ~Confirmed(wire, refs + 1)
      BY <1>1, <1>2 DEF JoinsAnswered
    <3> QED
      BY <1>1, <2>2, <3>1, <3>2
  <2>6. ASSUME NEW y \in Made \ {x}, Counts(y)'
        PROVE  joined'[sub'[y].name] = sub'[y].ref
    <3>1. y \in Subs \ {x} /\ sub'[y] = sub[y] /\ sub[y].name \in Topics
      BY <1>1, TaskTypes
    <3>2. sub[y].name # t
      BY <2>6, <3>1 DEF Counts, Registered
    <3>3. sub[y].gen = gen /\ link = "up"
      <4>1. sub[y].gen = g
        BY <2>6, <3>1 DEF Counts
      <4>2. sub[y].gen \in 1..gen
        BY DEF TypeInv, Numbered
      <4> QED
        BY <1>2, <1>5, <4>1, <4>2
    <3>4. sub[y].ref \in Tasks /\ sub[y].ref <= refs
      BY ProcessorMade DEF Processor
    <3>5. Confirmed(wire', sub[y].ref) => Confirmed(wire, sub[y].ref)
      BY <1>1, <1>3, <2>2, <3>4
    <3>6. Counts(y)
      BY <2>6, <3>1, <3>3, <3>5 DEF Counts, Registered
    <3>7. joined'[sub[y].name] = joined[sub[y].name]
      BY <2>3, <3>1, <3>2
    <3> QED
      BY <3>1, <3>6, <3>7, CountsOn
  <2> QED
    BY <1>1, <2>4, <2>5, <2>6 DEF JoinInForce, InForce, Counts
<1> QED
  BY <1>4, <1>5

LEMMA InForceMoving ==
  ASSUME TypeInv, TypeInv', NoNameClash, JoinInForce, Moving, V2
  PROVE  JoinInForce'
<1>1. UNCHANGED registry
  BY MovesOnce
<1>2. ASSUME NEW S \in SUBSET Made, NEW g, NEW l, MovesOn(S, g, l), gen' = g, g >= gen,
             link' = l, g = gen => UNCHANGED link,
             \A x \in S : \A y \in Made : Registered(y) /\ sub[y].name = sub[x].name => y = x
      PROVE  JoinInForce'
  <2>1. ASSUME UNCHANGED <<sub, refs, server>>
        PROVE  JoinInForce'
    <3>1. /\ wire' = wire /\ joined' = joined /\ refs' = refs /\ Made' = Made
      BY <2>1 DEF server, Made
    <3>2. ASSUME NEW y \in Made, Counts(y)'
          PROVE  joined'[sub'[y].name] = sub'[y].ref
      <4>1. sub[y].gen = g /\ sub[y].gen \in 1..gen
        BY <1>2, <2>1, <3>2 DEF Counts, TypeInv, Numbered
      <4>2. g = gen
        BY <1>2, <4>1 DEF TypeInv, InRange
      <4>3. Counts(y)
        BY <1>1, <1>2, <2>1, <3>1, <3>2, <4>2 DEF Counts, Registered
      <4> QED
        BY <2>1, <3>1, <4>3, CountsOn
    <3> QED
      BY <3>1, <3>2 DEF JoinInForce, JoinsAnswered, InForce, Counts
  <2>2. ASSUME NEW x \in S, NEW rest, Join(x, rest, g, l)
        PROVE  JoinInForce'
    BY <1>1, <1>2, <2>2, InForceJoin
  <2> QED
    BY <1>2, <2>1, <2>2 DEF MovesOn, Over, Drains, Reaps
<1>3. gen \in Int /\ gen + 1 >= gen /\ gen >= gen /\ gen + 1 # gen
  BY DEF TypeInv, InRange
<1>4. CASE Reconnects
  <2> DEFINE S == {registry[t] : t \in Topics} \ {0}
  <2>1. S \in SUBSET Made
    BY Registers
  <2>2. \A x \in S : \A y \in Made : Registered(y) /\ sub[y].name = sub[x].name => y = x
    BY Registers DEF Registered
  <2> QED
    BY <1>2, <1>3, <1>4, <2>1, <2>2 DEF Reconnects
<1>5. CASE GoesOnHere
  <2>1. ToMove \in SUBSET Made
    BY DEF ToMove, TypeInv, RejoinMade, Resting
  <2>2. \A x \in ToMove : \A y \in Made : Registered(y) /\ sub[y].name = sub[x].name => y = x
    <3>1. \A x \in ToMove : ToBeMoved(x)
      BY <1>5 DEF ToMove, ToBeMoved, GoesOnHere
    <3> QED
      BY <2>1, <3>1 DEF NoNameClash
  <2> QED
    BY <1>2, <1>3, <1>5, <2>1, <2>2 DEF GoesOnHere
<1> QED
  BY <1>4, <1>5, MovingEffect

LEMMA InForceStep ==
  ASSUME TypeInv, NoNameClash, AllWork, JoinInForce, [Next]_vars
  PROVE  JoinInForce'
<1>1. CASE ~V2
  BY <1>1 DEF JoinInForce
<1>2. CASE UNCHANGED vars
  <2>1. UNCHANGED <<sub, registry, gen, link, refs, wire, joined>>
    BY <1>2 DEF vars, net, server
  <2> QED
    BY <2>1 DEF JoinInForce, JoinsAnswered, InForce, Counts, Made, Registered
<1>3. TypeInv'
  BY TypeStep
<1> QED
  BY <1>1, <1>2, <1>3, InForceAside, InForceMoving, InForceRoute, InForcePush, InForceDispatch,
     InForceSubscribe, NextCases

LEMMA InForceInit == Init => JoinInForce
BY NothingConfirmed DEF Init, JoinInForce, JoinsAnswered, InForce, Made, NoSub

\* V2: whatever joins, leaves and late answers cross on the way, a topic that counts as joined on
\* this connection is joined on the server, under the join_ref of its subscription.
THEOREM JoinedInFact == Spec /\ []NoNameClash => []ReadyMeansJoined
<1>1. JoinInForce => ReadyMeansJoined
  BY DEF JoinInForce, InForce, ReadyMeansJoined
<1>2. /\ TypeInv /\ Quietly /\ JoinInForce /\ NoNameClash /\ [Next]_vars
            => TypeInv' /\ Quietly' /\ JoinInForce'
  BY TypeStep, AllWorkStep, RaisedStep, ClosedStep, InForceStep DEF Quietly
<1> QED
  BY <1>1, <1>2, InitType, QuietInit, InForceInit, PTL DEF Spec

---------------------------------------------------------------------------------
(***************************************************************************)
(* The steps of SubscriptionLife.                                          *)
(***************************************************************************)
Runs(x)   == \E o \in Tasks : InCallback(o, x)
Phases    == [x \in Subs |-> Phase(x)]
Running   == [x \in Subs |-> Runs(x)]
LifeSteps == [Life!Next]_<<Phases, Running>>

\* What a step does to the phases and the callbacks, seen one by one.
PhaseKept(x) == Phase(x)' = Phase(x)
RunsKept(x)  == Runs(x)' <=> Runs(x)

LEMMA RunningKept ==
  ASSUME \A x \in Subs : RunsKept(x)
  PROVE  UNCHANGED Running
<1>1. \A x \in Subs : Runs(x)' = Runs(x)
  BY DEF RunsKept, Runs
<1> QED
  BY <1>1, Zenon DEF Running

LEMMA NothingHappens ==
  ASSUME \A x \in Subs : PhaseKept(x) /\ RunsKept(x)
  PROVE  LifeSteps
<1>1. UNCHANGED Phases
  BY DEF Phases, PhaseKept
<1> QED
  BY <1>1, RunningKept DEF LifeSteps

LEMMA OnePhase ==
  ASSUME NEW x \in Subs, NEW p, Phase(x)' = p, \A y \in Subs \ {x} : PhaseKept(y),
         \A y \in Subs : RunsKept(y)
  PROVE  Life!Become(x, p)
<1>1. Phases' = [Phases EXCEPT ![x] = p]
  BY DEF Phases, PhaseKept
<1>2. UNCHANGED Running
  BY RunningKept
<1> QED
  BY <1>1, <1>2 DEF Life!Become, Phases, Running, Runs

LEMMA OneRuns ==
  ASSUME NEW x \in Subs, NEW b \in BOOLEAN, Runs(x)' <=> b, \A y \in Subs \ {x} : RunsKept(y)
  PROVE  Running' = [Running EXCEPT ![x] = b]
<1>1. \A y \in Subs \ {x} : Runs(y)' = Runs(y)
  BY DEF RunsKept, Runs
<1>2. Runs(x)' = b
  BY DEF Runs
<1>3. Running' = [y \in Subs |-> IF y = x THEN b ELSE Runs(y)]
  BY <1>1, <1>2, Zenon DEF Running
<1>4. [Running EXCEPT ![x] = b] = [y \in Subs |-> IF y = x THEN b ELSE Runs(y)]
  BY Zenon DEF Running
<1> QED
  BY <1>3, <1>4

\* Those that go to p go there at once.
LEMMA SomeMove ==
  ASSUME \A y \in Subs : RunsKept(y), NEW from, NEW p,
         \A y \in Subs : PhaseKept(y) \/ (Phase(y) \in from /\ Phase(y)' = p)
  PROVE  \E S \in SUBSET {y \in Subs : Phases[y] \in from} : Life!BecomeAll(S, p)
<1> DEFINE S == {y \in Subs : Phase(y) \in from /\ Phase(y)' = p}
<1>1. S \in SUBSET {y \in Subs : Phases[y] \in from}
  BY DEF Phases
<1>2. \A y \in Subs : Phase(y)' = IF y \in S THEN p ELSE Phases[y]
  BY DEF PhaseKept, Phases
<1> HIDE DEF S
<1>3. Phases' = [y \in Subs |-> IF y \in S THEN p ELSE Phases[y]]
  BY <1>2 DEF Phases
<1>4. UNCHANGED Running
  BY RunningKept
<1> QED
  BY <1>1, <1>3, <1>4 DEF Life!BecomeAll, Phases, Running, Runs

LEMMA SomeGone ==
  ASSUME \A y \in Subs : RunsKept(y),
         \A y \in Subs : \/ PhaseKept(y)
                         \/ Phase(y) \in {"joining", "joined", "leaving"} /\ Phase(y)' = "gone"
  PROVE  LifeSteps
<1>1. Life!Remove
  BY SomeMove DEF Life!Remove, Phases
<1> QED
  BY <1>1 DEF LifeSteps, Life!Next

LEMMA SomeLeave ==
  ASSUME \A y \in Subs : RunsKept(y),
         \A y \in Subs : \/ PhaseKept(y)
                         \/ Phase(y) \in {"joining", "joined"} /\ Phase(y)' = "leaving"
  PROVE  LifeSteps
<1>1. Life!Leave
  BY SomeMove DEF Life!Leave, Phases
<1> QED
  BY <1>1 DEF LifeSteps, Life!Next

LEMMA OneMoves ==
  ASSUME NEW x \in Subs, \A y \in Subs \ {x} : PhaseKept(y), \A y \in Subs : RunsKept(y),
         \/ PhaseKept(x)
         \/ Phase(x) = "none" /\ Phase(x)' \in {"joining", "gone"}
         \/ Phase(x) = "joining" /\ Phase(x)' = "joined"
         \/ Phase(x) = "joined" /\ Phase(x)' = "joining" /\ ~Runs(x)
  PROVE  LifeSteps
<1> DEFINE r == [y \in Subs |-> \E o \in Tasks : InCallback(o, y)]
<1>1. r[x] <=> Runs(x)
  BY DEF Runs
<1>2. CASE PhaseKept(x)
  BY <1>2, NothingHappens
<1>3. CASE Phase(x) = "none" /\ Phase(x)' \in {"joining", "gone"}
  <2>1. Life!Subscribe(x)
    BY <1>3, OnePhase DEF Life!Subscribe
  <2> QED
    BY <2>1 DEF LifeSteps, Life!Next
<1>4. CASE Phase(x) = "joining" /\ Phase(x)' = "joined"
  <2>1. Life!Join(x)
    BY <1>4, OnePhase DEF Life!Join
  <2> QED
    BY <2>1 DEF LifeSteps, Life!Next
<1>5. CASE Phase(x) = "joined" /\ Phase(x)' = "joining" /\ ~Runs(x)
  <2>1. Life!Become(x, "joining")
    BY <1>5, OnePhase
  <2>2. Life!Rejoin(x)
    BY <1>1, <1>5, <2>1 DEF Life!Rejoin
  <2> QED
    BY <2>2 DEF LifeSteps, Life!Next
<1> QED
  BY <1>2, <1>3, <1>4, <1>5

LEMMA CallbackOf ==
  ASSUME NEW x \in Subs, \A y \in Subs : PhaseKept(y), \A y \in Subs \ {x} : RunsKept(y),
         \/ Phase(x) = "joined" /\ ~Runs(x) /\ Runs(x)'
         \/ Runs(x) /\ ~Runs(x)'
  PROVE  LifeSteps
<1>1. UNCHANGED Phases
  BY DEF Phases, PhaseKept
<1>2. CASE Phase(x) = "joined" /\ ~Runs(x) /\ Runs(x)'
  <2>1. Running' = [Running EXCEPT ![x] = TRUE]
    BY <1>2, OneRuns
  <2>2. Phases[x] = "joined" /\ ~Running[x]
    BY <1>2 DEF Phases, Running
  <2>3. Life!CallbackStarts(x)
    BY <1>1, <2>1, <2>2 DEF Life!CallbackStarts, Phases, Running, Runs
  <2> QED
    BY <2>3 DEF LifeSteps, Life!Next
<1>3. CASE Runs(x) /\ ~Runs(x)'
  <2>1. Running' = [Running EXCEPT ![x] = FALSE]
    BY <1>3, OneRuns
  <2>2. Running[x]
    BY <1>3 DEF Running
  <2>3. Life!CallbackEnds(x)
    BY <1>1, <2>1, <2>2 DEF Life!CallbackEnds, Phases, Running, Runs
  <2> QED
    BY <2>3 DEF LifeSteps, Life!Next
<1> QED
  BY <1>2, <1>3

---------------------------------------------------------------------------------
(***************************************************************************)
(* Which steps change a phase, which one starts or ends a callback.        *)
(***************************************************************************)
\* Task o runs the callbacks it ran.
RunsOn(o) == \A x \in Subs : InCallback(o, x)' <=> InCallback(o, x)

LEMMA AllRunOn ==
  ASSUME \A o \in Tasks : RunsOn(o)
  PROVE  \A x \in Subs : RunsKept(x)
BY DEF RunsOn, RunsKept, Runs

LEMMA SameRunsOn ==
  ASSUME NEW o \in Tasks, task'[o] = task[o]
  PROVE  RunsOn(o)
BY DEF RunsOn, InCallback

LEMMA CancelRunsOn ==
  ASSUME TypeInv, NEW o \in Tasks, task'[o] = Cancel(task[o])
  PROVE  RunsOn(o)
<1>1. task[o] \in Processors
  BY TaskTypes
<1>2. Cancel(task[o]).on = task[o].on
  BY <1>1, CancelType
<1>3. Cancel(task[o]).at \in {"callback", "cancelling", "leaving", "stuck"}
        <=> task[o].at \in {"callback", "cancelling", "leaving", "stuck"}
  BY <1>1 DEF Cancel, Processors
<1> QED
  BY <1>2, <1>3 DEF RunsOn, InCallback

LEMMA IdleRunsOn ==
  ASSUME NEW o \in Tasks,
         task[o].at \notin {"callback", "cancelling", "leaving", "stuck"} \/ task[o].on = 0,
         task'[o].at \notin {"callback", "cancelling", "leaving", "stuck"} \/ task'[o].on = 0
  PROVE  RunsOn(o)
<1>1. \A x \in Subs : x # 0
  BY ConstantTypes DEF Subs
<1> QED
  BY <1>1 DEF RunsOn, InCallback

\* Only its processor runs the callbacks of a subscription.
LEMMA OnlyProcessor ==
  ASSUME TypeInv, AllWork, NEW x \in Subs, NEW o \in Tasks, InCallback(o, x)
  PROVE  x \in Made /\ o = Processor(x) /\ Alive(o)
<1>1. Alive(o) /\ task[o].on = x /\ x # 0
  BY ConstantTypes DEF InCallback, Alive, Subs
<1> QED
  BY <1>1 DEF AllWork, Works

LEMMA PhaseIs ==
  ASSUME NEW x \in Subs
  PROVE  /\ sub[x].name = "none" => Phase(x) = "none"
         /\ sub[x].name # "none" /\ ~Registered(x) => Phase(x) = "gone"
         /\ Registered(x) /\ sub[x].leave => Phase(x) = "leaving"
         /\ Registered(x) /\ ~sub[x].leave /\ sub[x].ready = "ok" => Phase(x) = "joined"
         /\ Registered(x) /\ ~sub[x].leave /\ sub[x].ready # "ok" => Phase(x) = "joining"
         /\ Registered(x) => Phase(x) \in {"joining", "joined", "leaving"}
BY DEF Phase, Registered

LEMMA SamePhase ==
  ASSUME NEW x \in Subs, sub'[x].name = sub[x].name,
         Registered(x)' <=> Registered(x), sub'[x].leave <=> sub[x].leave,
         Registered(x) /\ ~sub[x].leave => (sub'[x].ready = "ok" <=> sub[x].ready = "ok")
  PROVE  PhaseKept(x)
BY DEF PhaseKept, Phase, Registered

LEMMA PhaseWillBe ==
  ASSUME NEW x \in Subs
  PROVE  /\ sub'[x].name = "none" => Phase(x)' = "none"
         /\ sub'[x].name # "none" /\ ~Registered(x)' => Phase(x)' = "gone"
         /\ Registered(x)' /\ sub'[x].leave => Phase(x)' = "leaving"
         /\ Registered(x)' /\ ~sub'[x].leave /\ sub'[x].ready = "ok" => Phase(x)' = "joined"
         /\ Registered(x)' /\ ~sub'[x].leave /\ sub'[x].ready # "ok" => Phase(x)' = "joining"
BY DEF Phase, Registered

\* A step aside takes subscriptions out of the registry, or asks some to leave; nothing else
\* changes a phase.
LeaveKept(y) == sub'[y].leave <=> sub[y].leave
Removes      == \A y \in Made : Registered(y)' => LeaveKept(y)

LEMMA AsidePhases ==
  ASSUME TypeInv, KeepsJoins
  PROVE  /\ \A y \in Subs \ Made : PhaseKept(y)
         /\ \A y \in Made : Registered(y)' /\ LeaveKept(y) => PhaseKept(y)
         /\ \A y \in Made : ~Registered(y)' =>
              PhaseKept(y) \/ (Phase(y) \in {"joining", "joined", "leaving"} /\ Phase(y)' = "gone")
         /\ \A y \in Made : Registered(y)' /\ ~LeaveKept(y) =>
              Phase(y) \in {"joining", "joined"} /\ Phase(y)' = "leaving"
<1>1. \A y \in Subs : /\ sub'[y].name = sub[y].name /\ (sub'[y].ready = "ok" <=> sub[y].ready = "ok")
                      /\ (sub[y].leave => sub'[y].leave)
  BY DEF KeepsJoins, Steadily, SameJoin
<1>2. \A y \in Made : Registered(y)' => Registered(y)
  BY NothingMadeAside
<1>3. \A y \in Subs \ Made : PhaseKept(y)
  BY <1>1, PhaseIs, PhaseWillBe DEF PhaseKept, Made
<1>4. ASSUME NEW y \in Made
      PROVE  /\ Registered(y)' /\ LeaveKept(y) => PhaseKept(y)
             /\ ~Registered(y)' => PhaseKept(y) \/ (Phase(y) \in {"joining", "joined", "leaving"}
                                                    /\ Phase(y)' = "gone")
             /\ Registered(y)' /\ ~LeaveKept(y) =>
                  Phase(y) \in {"joining", "joined"} /\ Phase(y)' = "leaving"
  <2>1. y \in Subs /\ sub[y].name # "none" /\ sub'[y].name # "none"
    BY <1>1 DEF Made
  <2>2. CASE Registered(y)' /\ LeaveKept(y)
    BY <1>1, <1>2, <2>1, <2>2, SamePhase DEF LeaveKept
  <2>3. CASE ~Registered(y)'
    BY <2>1, <2>3, PhaseIs, PhaseWillBe DEF PhaseKept
  <2>4. CASE Registered(y)' /\ ~LeaveKept(y)
    <3>1. Registered(y) /\ ~sub[y].leave /\ sub'[y].leave
      BY <1>1, <1>2, <2>1, <2>4 DEF LeaveKept
    <3> QED
      BY <2>1, <2>4, <3>1, PhaseIs, PhaseWillBe
  <2> QED
    BY <2>2, <2>3, <2>4
<1> QED
  BY <1>3, <1>4

LEMMA AsideLife ==
  ASSUME TypeInv, KeepsJoins, \A o \in Tasks : RunsOn(o), Removes \/ UNCHANGED registry
  PROVE  LifeSteps
<1>1. \A y \in Subs : RunsKept(y)
  BY AllRunOn
<1>2. CASE Removes
  <2>1. \A y \in Subs : \/ PhaseKept(y)
                        \/ Phase(y) \in {"joining", "joined", "leaving"} /\ Phase(y)' = "gone"
    BY <1>2, AsidePhases DEF Removes, Made
  <2> QED
    BY <1>1, <2>1, SomeGone
<1>3. CASE UNCHANGED registry
  <2>1. \A y \in Made : y \in Subs /\ sub[y].name # "none" /\ sub'[y].name = sub[y].name
    BY DEF Made, KeepsJoins, Steadily, SameJoin
  <2>2. \A y \in Made : Registered(y)' <=> Registered(y)
    BY <1>3, <2>1 DEF Registered
  <2>3. \A y \in Made : ~Registered(y)' => PhaseKept(y)
    BY <2>1, <2>2, PhaseIs, PhaseWillBe DEF PhaseKept
  <2>4. \A y \in Subs : PhaseKept(y) \/ (Phase(y) \in {"joining", "joined"} /\ Phase(y)' = "leaving")
    BY <2>3, AsidePhases
  <2> QED
    BY <1>1, <2>4, SomeLeave
<1> QED
  BY <1>2, <1>3

\* _unregister_topic cancels, and has one subscription the less.
LEMMA UnregisterLife ==
  ASSUME TypeInv, KeepsJoins, NEW s \in [Subs -> Subscriptions], NEW t \in Topics,
         NEW r \in {"failed", "refused"}, Unregister(s, t, r),
         \A y \in Made : y # registry[t] => (s[y].leave <=> sub[y].leave)
  PROVE  (\A o \in Tasks : RunsOn(o)) /\ Removes
<1> DEFINE x == registry[t]
<1>1. \A o \in Tasks : task'[o] = task[o] \/ task'[o] = Cancel(task[o])
  BY TaskTypes DEF Unregister
<1>2. \A o \in Tasks : RunsOn(o)
  BY <1>1, SameRunsOn, CancelRunsOn
<1>3. \A y \in Made : y \in Subs /\ y # 0 /\ sub'[y].name = sub[y].name
  BY TaskTypes DEF KeepsJoins, Steadily, SameJoin
<1>4. ASSUME NEW y \in Made, Registered(y)'
      PROVE  LeaveKept(y)
  <2>1. Registered(y) /\ registry' = [registry EXCEPT ![t] = 0]
    BY <1>4, NothingMadeAside DEF Unregister
  <2>2. y # x
    <3>1. y = x => sub[y].name = t /\ sub'[y].name = t
      BY <1>3, Registers
    <3>2. registry'[t] = 0
      BY <2>1, TaskTypes
    <3> QED
      BY <1>3, <1>4, <3>1, <3>2 DEF Registered
  <2>3. sub'[y] = s[y]
    BY <1>3, <2>2 DEF Unregister
  <2> QED
    BY <2>2, <2>3 DEF LeaveKept
<1> QED
  BY <1>2, <1>4 DEF Removes

LEMMA NothingLeaves ==
  ASSUME TypeInv, KeepsJoins, \A o \in Tasks : task'[o] = task[o] \/ task'[o] = Cancel(task[o]),
         \A y \in Made : LeaveKept(y)
  PROVE  LifeSteps
<1>1. \A o \in Tasks : RunsOn(o)
  BY SameRunsOn, CancelRunsOn
<1> QED
  BY <1>1, AsideLife DEF Removes

LEMMA SubscribingLife ==
  ASSUME TypeInv, KeepsJoins, NEW x \in Subs, Subscribing(x)
  PROVE  LifeSteps
<1>1. CASE SubscribeReturns(x) \/ SubscribeRaises(x)
  BY <1>1, NothingLeaves DEF SubscribeReturns, SubscribeRaises, LeaveKept
<1>2. CASE SubscribeFails(x) \/ SubscribeTimesOut(x)
  <2>1. PICK s, r : /\ FutureCancelled(x, s) /\ r \in {"failed", "refused"} /\ GiveUp(x, s, r)
                    /\ x \in Made /\ sub[x].name \in Topics
    BY <1>2, SubscribeEndsEffect
  <2>2. Unregister(s, sub[x].name, r) /\ s \in [Subs -> Subscriptions]
    BY <2>1 DEF GiveUp, FutureCancelled
  <2>3. \A y \in Made : s[y].leave <=> sub[y].leave
    BY <2>1 DEF FutureCancelled, Made
  <2> QED
    BY <2>1, <2>2, <2>3, UnregisterLife, AsideLife
<1> QED
  BY <1>1, <1>2 DEF Subscribing

LEMMA UnsubscribingLife ==
  ASSUME TypeInv, KeepsJoins, NEW u \in Leavers, Unsubscribing(u)
  PROVE  LifeSteps
<1>1. CASE UnsubscribeReturns(u)
  BY <1>1, NothingLeaves DEF UnsubscribeReturns, LeaveKept
<1>2. CASE LeaveEnds(u) \/ LeaveTimesOut(u)
  <2> DEFINE x == leaver[u].on
  <2>1. /\ x \in Made /\ sub[x].name \in Topics
        /\ \E s : /\ FutureCancelled(x, s) /\ s[x].ready = sub[x].ready
                  /\ LeaverUnregisters(u, s, sub[x].name)
    BY <1>2, LeaveEndsEffect
  <2> HIDE DEF x
  <2>2. PICK s : FutureCancelled(x, s) /\ LeaverUnregisters(u, s, sub[x].name)
    BY <2>1
  <2>3. Unregister(s, sub[x].name, "failed") /\ s \in [Subs -> Subscriptions]
    BY <2>2 DEF LeaverUnregisters, FutureCancelled
  <2>4. \A y \in Made : s[y].leave <=> sub[y].leave
    BY <2>2 DEF FutureCancelled, Made
  <2> QED
    BY <2>1, <2>3, <2>4, UnregisterLife, AsideLife
<1> QED
  BY <1>1, <1>2 DEF Unsubscribing

LEMMA UnsubscribeLife ==
  ASSUME TypeInv, KeepsJoins, NEW t \in Topics, NEW u \in Leavers, Unsubscribe(u, t)
  PROVE  LifeSteps
<1> DEFINE x == registry[t]
           asked == [sub EXCEPT ![x].leave = TRUE]
<1>1. x \in Made /\ x \in Subs /\ Registered(x)
  BY Registers DEF Unsubscribe, Made
<1>2. asked \in [Subs -> Subscriptions]
  BY <1>1, AskedSteady
<1>3. asked[x].leave /\ \A y \in Made \ {x} : asked[y] = sub[y]
  BY <1>1 DEF TypeInv, InRange, SubsOK, Subscriptions, Made
<1>4. CASE link = "up"
  <2>1. sub' = asked /\ UNCHANGED <<registry, task>>
    BY <1>4 DEF Unsubscribe
  <2> HIDE DEF asked
  <2>2. \A o \in Tasks : RunsOn(o)
    BY <2>1, SameRunsOn
  <2> QED
    BY <2>1, <2>2, AsideLife
<1>5. CASE link # "up"
  <2>1. Unregister(asked, t, "failed")
    BY <1>5 DEF Unsubscribe, LeaverUnregisters
  <2>2. \A y \in Made : y # x => (asked[y].leave <=> sub[y].leave)
    BY <1>3
  <2> HIDE DEF asked
  <2> QED
    BY <1>2, <2>1, <2>2, UnregisterLife, AsideLife
<1> QED
  BY <1>4, <1>5

LEMMA CallbackLeavesLife ==
  ASSUME TypeInv, AllWork, KeepsJoins, NEW o \in Tasks, NEW u \in Leavers, CallbackLeaves(o, u)
  PROVE  LifeSteps
<1>0. PICK x : x = task[o].on
  OBVIOUS
<1>1. /\ task[o].at = "callback" /\ task \in [Tasks -> Processors] /\ Registered(x)
      /\ x \in Made /\ x \in Subs /\ sub \in [Subs -> Subscriptions] /\ sub[x].name \in Topics
      /\ registry \in [Topics -> Numbers] /\ x # 0
  <2>1. task[o].at = "callback" /\ x \in Made /\ Registered(x)
    BY <1>0 DEF CallbackLeaves, TypeInv, TasksMade
  <2> QED
    BY <2>1, TaskTypes DEF TypeInv, InRange, SubsOK
<1>2. \E at \in {"leaving", "stuck"} : task' = [task EXCEPT ![o].at = at]
  BY DEF CallbackLeaves
<1>3. \A p \in Tasks : RunsOn(p)
  <2>1. \A p \in Tasks \ {o} : RunsOn(p)
    BY <1>1, <1>2, SameRunsOn
  <2>2. task'[o].at \in {"leaving", "stuck"} /\ task'[o].on = task[o].on
    BY <1>1, <1>2 DEF Processors
  <2>3. RunsOn(o)
    BY <1>1, <2>2 DEF RunsOn, InCallback
  <2> QED
    BY <2>1, <2>3
<1>4. CASE link = "up"
  <2>1. UNCHANGED registry
    BY <1>4 DEF CallbackLeaves
  <2> QED
    BY <1>3, <2>1, AsideLife
<1>5. CASE link # "up"
  <2>1. \A y \in Made \ {x} : sub'[y] = sub[y]
    BY <1>0, <1>1, <1>5 DEF CallbackLeaves, Made
  <2>2. registry'[sub[x].name] = 0 /\ sub'[x].name = sub[x].name
    BY <1>0, <1>1, <1>5 DEF CallbackLeaves, KeepsJoins, Steadily, SameJoin
  <2>3. ~Registered(x)'
    BY <1>1, <2>2 DEF Registered
  <2>4. Removes
    BY <2>1, <2>3 DEF Removes, LeaveKept
  <2> QED
    BY <1>3, <2>4, AsideLife
<1> QED
  BY <1>4, <1>5

LEMMA ShutdownLife ==
  ASSUME TypeInv, KeepsJoins, ShutdownUnregisters
  PROVE  LifeSteps
<1>1. /\ registry' = [t \in Topics |-> 0]
      /\ task' = [o \in Tasks |-> IF o \in ToStop THEN Cancel(task[o]) ELSE task[o]]
  BY ShutdownUnregistersEffect
<1>2. \A o \in Tasks : RunsOn(o)
  BY <1>1, SameRunsOn, CancelRunsOn
<1>3. \A y \in Made : ~Registered(y)'
  <2> SUFFICES ASSUME NEW y \in Made
               PROVE  ~Registered(y)'
    OBVIOUS
  <2>1. y # 0 /\ sub[y].name \in Topics /\ sub'[y].name = sub[y].name
    BY TaskTypes DEF KeepsJoins, Steadily, SameJoin
  <2> QED
    BY <1>1, <2>1 DEF Registered
<1> QED
  BY <1>2, <1>3, AsideLife DEF Removes

LEMMA WorkingLife ==
  ASSUME TypeInv, AllWork, NEW o \in Tasks, Working(o)
  PROVE  LifeSteps
<1>0. PICK x : x = task[o].on
  OBVIOUS
<1>1. UNCHANGED <<registry, sub>> /\ task \in [Tasks -> Processors]
  BY TaskTypes DEF Working, ProcessorStarts, ProcessorStops, CallbackReturns, CallbackRaises,
                   CallbackCancelled
<1>2. \A y \in Subs : PhaseKept(y)
  BY <1>1 DEF PhaseKept, Phase, Registered
<1>3. CASE ProcessorStarts(o) \/ ProcessorStops(o)
  <2>1. task[o].at \in {"start", "stopping"} /\ \A p \in Tasks \ {o} : task'[p] = task[p]
    BY <1>1, <1>3 DEF ProcessorStarts, ProcessorStops
  <2>2. task'[o].at \in {"get", "done"}
    <3>1. CASE ProcessorStops(o)
      BY <1>1, <3>1 DEF ProcessorStops, Ended
    <3>2. CASE ProcessorStarts(o)
      BY <1>1, <3>2 DEF ProcessorStarts, Ended, Processors
    <3> QED
      BY <1>3, <3>1, <3>2
  <2>3. RunsOn(o)
    BY <2>1, <2>2, IdleRunsOn
  <2>4. \A p \in Tasks : RunsOn(p)
    BY <2>1, <2>3, SameRunsOn
  <2> QED
    BY <1>2, <2>4, AllRunOn, NothingHappens
<1>4. CASE CallbackReturns(o) \/ CallbackRaises(o) \/ CallbackCancelled(o)
  <2>1. /\ task[o].at \in {"callback", "cancelling"} /\ \A p \in Tasks \ {o} : task'[p] = task[p]
        /\ \/ task'[o].at \in {"get", "done"}
           \/ task[o].at = "callback" /\ task'[o].at = task[o].at /\ task'[o].on = task[o].on
    <3>1. task[o] \in Processors
      BY <1>1
    <3>2. CASE NextMessage(o) /\ task[o].at = "callback"
      BY <1>1, <3>1, <3>2 DEF NextMessage, Processors
    <3>3. CASE CallbackCancelled(o)
      BY <1>1, <3>3 DEF CallbackCancelled, Ended, NoTask
    <3>4. CASE task' = [task EXCEPT ![o].todo = {"event"}] /\ task[o].at = "callback"
      BY <1>1, <3>1, <3>4 DEF Processors
    <3> QED
      BY <1>4, <3>2, <3>3, <3>4 DEF CallbackReturns, CallbackRaises
  <2>2. x \in Made /\ x \in Subs /\ InCallback(o, x)
    BY <1>0, <2>1 DEF InCallback, TypeInv, TasksMade, Made
  <2>3. \A p \in Tasks \ {o} : RunsOn(p)
    BY <2>1, SameRunsOn
  <2>4. CASE task'[o].at = "callback"
    <3>1. RunsOn(o)
      BY <2>1, <2>4 DEF RunsOn, InCallback
    <3>2. \A p \in Tasks : RunsOn(p)
      BY <2>3, <3>1
    <3> QED
      BY <1>2, <3>2, AllRunOn, NothingHappens
  <2>5. CASE task'[o].at \in {"get", "done"}
    <3>1. \A y \in Subs : ~InCallback(o, y)'
      BY <2>5 DEF InCallback
    <3>2. \A y \in Subs \ {x} : ~InCallback(o, y)
      BY <1>0 DEF InCallback
    <3>3. \A y \in Subs \ {x} : RunsKept(y)
      BY <2>3, <3>1, <3>2 DEF RunsOn, RunsKept, Runs
    <3>4. \A p \in Tasks \ {o} : ~InCallback(p, x)
      BY <2>2, OnlyProcessor
    <3>5. \A p \in Tasks : ~InCallback(p, x)'
      BY <2>2, <2>3, <3>1, <3>4 DEF RunsOn
    <3>6. Runs(x) /\ ~Runs(x)'
      BY <2>2, <3>5 DEF Runs
    <3> QED
      BY <1>2, <2>2, <3>3, <3>6, CallbackOf
  <2> QED
    BY <2>1, <2>4, <2>5
<1> QED
  BY <1>3, <1>4 DEF Working

LEMMA AsideImplements ==
  ASSUME TypeInv, AllWork, Aside
  PROVE  LifeSteps
<1>1. KeepsJoins
  BY AsideKeeps DEF SetAside
<1>2. CASE PeerLost \/ Disconnect \/ ShutdownBegins \/ ShutdownCancels \/ ShutdownEnds
  <2>1. UNCHANGED <<sub, task>>
    BY <1>2 DEF PeerLost, Disconnect, ShutdownBegins, ShutdownCancels, ShutdownEnds
  <2> QED
    BY <1>1, <2>1, NothingLeaves DEF LeaveKept
<1>3. CASE DrainTimesOut
  <2>1. UNCHANGED sub /\ task' = [task EXCEPT ![rejoin.on] = Cancel(task[rejoin.on])]
    BY <1>3 DEF DrainTimesOut
  <2>2. \A o \in Tasks : task'[o] = task[o] \/ task'[o] = Cancel(task[o])
    BY <2>1, TaskTypes
  <2> QED
    BY <1>1, <2>1, <2>2, NothingLeaves DEF LeaveKept
<1>4. CASE JoinTimesOut
  <2>1. UNCHANGED task /\ sub' = [sub EXCEPT ![rejoin.cur].ready = "cancelled"]
    BY <1>4 DEF JoinTimesOut
  <2>2. \A y \in Made : LeaveKept(y)
    BY <2>1, TaskTypes DEF LeaveKept, TypeInv, InRange, SubsOK, Subscriptions
  <2> QED
    BY <1>1, <2>1, <2>2, NothingLeaves
<1>5. CASE JoinRefused
  <2>1. Unregister(sub, sub[rejoin.cur].name, "refused") /\ sub[rejoin.cur].name \in Topics
    BY <1>5, TaskTypes DEF JoinRefused, TypeInv, RejoinMade, Resting
  <2>2. sub \in [Subs -> Subscriptions]
    BY DEF TypeInv, InRange, SubsOK
  <2> QED
    BY <1>1, <2>1, <2>2, UnregisterLife, AsideLife
<1>6. ASSUME NEW t \in Topics, ChangeHandlers(t)
      PROVE  LifeSteps
  <2>1. UNCHANGED task /\ registry[t] \in Subs
    BY <1>6, Registers DEF ChangeHandlers, Made
  <2>2. \A y \in Made : LeaveKept(y)
    <3>1. PICK h : sub' = [sub EXCEPT ![registry[t]].handlers = IF h \in @ THEN @ \ {h} ELSE @ \cup {h}]
      BY <1>6 DEF ChangeHandlers
    <3> QED
      BY <2>1, <3>1, TaskTypes DEF LeaveKept, TypeInv, InRange, SubsOK, Subscriptions
  <2> QED
    BY <1>1, <2>1, <2>2, NothingLeaves
<1>7. CASE ShutdownAsks
  <2>1. UNCHANGED <<registry, task>>
    BY <1>7, ShutdownAsksEffect
  <2> QED
    BY <1>1, <2>1, SameRunsOn, AsideLife
<1> QED
  BY <1>1, <1>2, <1>3, <1>4, <1>5, <1>6, <1>7, ShutdownLife, SubscribingLife, UnsubscribingLife,
     UnsubscribeLife, CallbackLeavesLife, WorkingLife DEF Aside, Calling, ShuttingDown

LEMMA JoinLife ==
  ASSUME TypeInv, TypeInv', AllWork, UNCHANGED registry, NEW x \in Made, NEW rest, NEW g, NEW l,
         Join(x, rest, g, l), ~Alive(Processor(x))
  PROVE  LifeSteps
<1>1. /\ refs \in Nat /\ refs + 1 \in Tasks /\ task'[refs + 1] = NewTask(sub[x].name)
      /\ \A o \in Tasks \ {refs + 1} : task'[o] = task[o]
      /\ sub'[x] = Rejoined(x, g) /\ \A y \in Subs \ {x} : sub'[y] = sub[y]
      /\ x \in Subs
  BY JoinTasks DEF Made
<1>2. /\ sub'[x].name = sub[x].name /\ (sub'[x].leave <=> sub[x].leave)
      /\ sub'[x].ready = "pending"
  BY <1>1, RejoinedType
<1>3. \A o \in Tasks : RunsOn(o)
  <2>1. task[refs + 1].at = "none" /\ task'[refs + 1].at = "start"
    BY <1>1 DEF TypeInv, TasksMade, NoTask, NewTask
  <2>2. RunsOn(refs + 1)
    BY <1>1, <2>1, IdleRunsOn
  <2> QED
    BY <1>1, <2>2, SameRunsOn
<1>4. ~Runs(x)
  BY <1>1, OnlyProcessor DEF Runs
<1>5. \A y \in Subs : Registered(y)' <=> Registered(y)
  BY <1>1, <1>2 DEF Registered
<1>6. \A y \in Subs \ {x} : PhaseKept(y)
  BY <1>1, <1>5, SamePhase
<1>7. PhaseKept(x) \/ (Phase(x) = "joined" /\ Phase(x)' = "joining")
  <2>1. CASE Registered(x) /\ ~sub[x].leave /\ sub[x].ready = "ok"
    BY <1>1, <1>2, <1>5, <2>1, PhaseIs, PhaseWillBe
  <2>2. CASE ~(Registered(x) /\ ~sub[x].leave /\ sub[x].ready = "ok")
    BY <1>1, <1>2, <1>5, <2>2, SamePhase
  <2> QED
    BY <2>1, <2>2
<1> QED
  BY <1>1, <1>3, <1>4, <1>6, <1>7, AllRunOn, OneMoves

LEMMA IdleLife ==
  ASSUME TypeInv, UNCHANGED <<registry, sub>>, \A o \in Tasks : RunsOn(o)
  PROVE  LifeSteps
<1>1. \A y \in Subs : PhaseKept(y)
  BY DEF PhaseKept, Phase, Registered
<1> QED
  BY <1>1, AllRunOn, NothingHappens

LEMMA MovingLife ==
  ASSUME TypeInv, TypeInv', AllWork, Moving
  PROVE  LifeSteps
<1>1. UNCHANGED registry
  BY MovesOnce
<1>2. PICK S \in SUBSET Made, g \in 1..MaxGen : \E l : MovesOn(S, g, l)
  BY MovesOnce
<1>3. PICK l : MovesOn(S, g, l)
  BY <1>2
<1>4. CASE Over \/ \E x, rest : Drains(x, rest)
  <2>1. UNCHANGED <<sub, task>>
    BY <1>4 DEF Over, Drains
  <2> QED
    BY <1>1, <2>1, SameRunsOn, IdleLife
<1>5. ASSUME NEW x \in S, NEW rest, Reaps(x, rest)
      PROVE  LifeSteps
  <2>1. UNCHANGED sub /\ \A o \in Tasks : task'[o] = task[o] \/ task'[o] = Cancel(task[o])
    BY <1>5, TaskTypes DEF Reaps
  <2> QED
    BY <1>1, <2>1, SameRunsOn, CancelRunsOn, IdleLife
<1>6. ASSUME NEW x \in S, NEW rest, Join(x, rest, g, l), ~Alive(Processor(x))
      PROVE  LifeSteps
  BY <1>1, <1>6, JoinLife
<1> QED
  BY <1>3, <1>4, <1>5, <1>6 DEF MovesOn

LEMMA RouteLife ==
  ASSUME TypeInv, Route \/ \E t \in Topics : Push(t)
  PROVE  LifeSteps
<1>1. UNCHANGED <<registry, task>>
  BY DEF Route, Push
<1>2. \A y \in Subs : /\ sub'[y].name = sub[y].name /\ (sub'[y].leave <=> sub[y].leave)
                      /\ sub'[y].ready = sub[y].ready
  BY RestKeeps, RouteReady DEF SameJoin, Push
<1>3. \A y \in Subs : Registered(y)' <=> Registered(y)
  BY <1>1, <1>2 DEF Registered
<1>4. \A y \in Subs : PhaseKept(y)
  BY <1>2, <1>3, SamePhase
<1> QED
  BY <1>1, <1>4, SameRunsOn, AllRunOn, NothingHappens

LEMMA DispatchLife ==
  ASSUME TypeInv, AllWork, NEW o \in Tasks, Dispatch(o)
  PROVE  LifeSteps
<1>0. PICK x, m, s : x = task[o].on /\ m = Head(sub[x].queue)
                     /\ s = [sub[x] EXCEPT !.queue = Tail(sub[x].queue)]
  OBVIOUS
<1>1. /\ task[o].at = "get" /\ UNCHANGED registry /\ x \in Subs /\ Registered(x)
      /\ task \in [Tasks -> Processors]
  BY <1>0, WorkerOf, TaskTypes, DispatchEffect DEF Dispatch, Made
<1>2. \A y \in Subs : sub'[y].name = sub[y].name /\ (sub'[y].leave <=> sub[y].leave)
  BY RestKeeps DEF SameJoin
<1>3. \A y \in Subs : Registered(y)' <=> Registered(y)
  BY <1>1, <1>2 DEF Registered
<1>4. \A y \in Subs \ {x} : PhaseKept(y)
  BY <1>0, <1>2, <1>3, DispatchReady, SamePhase DEF Answers
<1>5. CASE Answers(o, x)
  <2>1. PhaseKept(x) \/ (Phase(x) = "joining" /\ Phase(x)' = "joined")
    <3>1. sub[x].ready # "ok"
      BY <1>5 DEF Answers
    <3> QED
      BY <1>1, <1>2, <1>3, <3>1, PhaseIs, PhaseWillBe DEF PhaseKept
  <2>2. \A p \in Tasks : RunsOn(p)
    BY <1>5, SameRunsOn DEF Answers
  <2> QED
    BY <1>1, <1>4, <2>1, <2>2, AllRunOn, OneMoves
<1>6. CASE ~Answers(o, x)
  <2>1. \A y \in Subs : PhaseKept(y)
    BY <1>1, <1>2, <1>3, <1>4, <1>6, DispatchReady, SamePhase
  <2>2. \A p \in Tasks \ {o} : task'[p] = task[p]
    BY <1>1 DEF Dispatch
  <2>3. \A p \in Tasks \ {o} : RunsOn(p)
    BY <2>2, SameRunsOn
  <2>4. CASE task' = task \/ task' = [task EXCEPT ![o] = Ended]
    <3>1. task'[o].at \in {"get", "done"}
      BY <1>1, <2>4 DEF Ended, NoTask
    <3>2. RunsOn(o)
      BY <1>1, <3>1, IdleRunsOn
    <3>3. \A p \in Tasks : RunsOn(p)
      BY <2>3, <3>2
    <3> QED
      BY <2>1, <3>3, AllRunOn, NothingHappens
  <2>5. CASE CallbackStarts(o, x, m, s)
    <3>1. Phase(x) = "joined"
      BY <1>1, <2>5, PhaseIs DEF CallbackStarts
    <3>2. task'[o].at = "callback" /\ task'[o].on = x
      BY <1>0, <1>1, <2>5 DEF CallbackStarts, Processors
    <3>3. \A p \in Tasks : ~InCallback(p, x)
      <4>1. Alive(o) /\ x # 0
        BY <1>1, ConstantTypes DEF Alive, Subs
      <4>2. o = Processor(x)
        BY <1>0, <4>1 DEF AllWork, Works
      <4>3. ~InCallback(o, x)
        BY <1>1 DEF InCallback
      <4> QED
        BY <1>1, <4>2, <4>3, OnlyProcessor
    <3>4. ~Runs(x) /\ Runs(x)'
      BY <3>2, <3>3 DEF Runs, InCallback
    <3>5. \A y \in Subs \ {x} : ~InCallback(o, y) /\ ~InCallback(o, y)'
      BY <1>0, <3>2 DEF InCallback
    <3>6. \A y \in Subs \ {x} : RunsKept(y)
      BY <2>3, <3>5 DEF RunsOn, RunsKept, Runs
    <3> QED
      BY <1>1, <2>1, <3>1, <3>4, <3>6, CallbackOf
  <2> QED
    BY <1>0, <2>4, <2>5, DispatchEffect DEF Ignored, JoinAnswer, LeaveAnswer
<1> QED
  BY <1>5, <1>6

LEMMA SubscribeLife ==
  ASSUME TypeInv, NEW t \in Topics, Subscribe(t)
  PROVE  LifeSteps
<1>1. PICK x \in Subs \ Made :
           /\ refs \in Nat /\ refs + 1 \in Tasks
           /\ sub'[x].name = t /\ sub'[x].ready # "ok" /\ ~sub'[x].leave
           /\ \A y \in Subs \ {x} : sub'[y] = sub[y]
           /\ \A o \in Tasks \ {refs + 1} : task'[o] = task[o]
           /\ task'[refs + 1].on = 0
           /\ registry' = [registry EXCEPT ![t] = x] \/ registry' = registry
  BY MakesTasks
<1>2. \A o \in Tasks : RunsOn(o)
  <2>1. task[refs + 1].at = "none"
    BY <1>1 DEF TypeInv, TasksMade, NoTask
  <2>2. RunsOn(refs + 1)
    BY <1>1, <2>1, IdleRunsOn
  <2> QED
    BY <1>1, <2>2, SameRunsOn
<1>3. registry[t] = 0 /\ t # "none" /\ registry \in [Topics -> Numbers] /\ \A y \in Subs : y # 0
  BY TopicAssumption, TaskTypes, ConstantTypes DEF Subscribe, Subs
<1>4. \A y \in Subs \ {x} : Registered(y)' <=> Registered(y)
  <2> SUFFICES ASSUME NEW y \in Subs \ {x}
               PROVE  Registered(y)' <=> Registered(y)
    OBVIOUS
  <2>1. sub'[y] = sub[y] /\ (sub[y].name # "none" => sub[y].name \in Topics)
    BY <1>1, TaskTypes DEF Made
  <2>2. sub[y].name \in Topics => (registry'[sub[y].name] = y <=> registry[sub[y].name] = y)
    BY <1>1, <1>3
  <2> QED
    BY <2>1, <2>2 DEF Registered
<1>5. \A y \in Subs \ {x} : PhaseKept(y)
  BY <1>1, <1>4, SamePhase
<1>6. Phase(x) = "none" /\ Phase(x)' \in {"joining", "gone"}
  BY <1>1, <1>3, PhaseIs, PhaseWillBe DEF Made
<1> QED
  BY <1>1, <1>2, <1>5, <1>6, AllRunOn, OneMoves

LEMMA LifeStep ==
  ASSUME TypeInv, AllWork, [Next]_vars
  PROVE  LifeSteps
<1>1. CASE UNCHANGED vars
  <2>1. UNCHANGED <<registry, sub, task>>
    BY <1>1 DEF vars
  <2> QED
    BY <2>1, SameRunsOn, IdleLife
<1>2. TypeInv'
  BY TypeStep
<1> QED
  BY <1>1, <1>2, AsideImplements, MovingLife, RouteLife, DispatchLife, SubscribeLife, NextCases

LEMMA LifeInit == Init => Life!Init
<1> SUFFICES ASSUME Init
             PROVE  Life!Init
  OBVIOUS
<1>1. \A x \in Subs : Phase(x) = "none"
  BY PhaseIs DEF Init, NoSub
<1>2. \A x \in Subs : ~\E o \in Tasks : InCallback(o, x)
  BY DEF Init, NoTask, InCallback
<1>3. [x \in Subs |-> \E o \in Tasks : InCallback(o, x)] = [x \in Subs |-> FALSE]
  BY <1>2
<1> QED
  BY <1>1, <1>3 DEF Life!Init

\* The queues, futures, tasks and rejoins of TopicRuntime implement SubscriptionLife: callbacks
\* start only between a join and the request to leave, one at a time, a reconnect joins again
\* only when the callback of the old connection has ended, and what is gone stays gone.
THEOREM ImplementsLife == Spec /\ []NoNameClash => LifeSpec
<1>1. TypeInv /\ Quietly /\ [Next]_vars => LifeSteps
  BY LifeStep DEF Quietly
<1> QED
  BY <1>1, QuietSpec, LifeInit, PTL DEF Spec, LifeSpec, Life!Spec, LifeSteps, Phases, Running, Runs

================================================================================
