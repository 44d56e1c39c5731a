---------------------------- MODULE TopicOrderProofs ----------------------------
(***************************************************************************)
(* Two promises of TopicRuntime that hold whatever is subscribed, left and *)
(* subscribed again: the callbacks of a subscription see the events in the *)
(* order in which the server sent them, and a rejoin that has gone through *)
(* has moved every registered topic to the new connection.                 *)
(***************************************************************************)
EXTENDS TopicRuntimeProofs

IsEvent(m) == m.kind = "event"

\* The events of a sequence of messages come in the order in which they were pushed ...
Increasing(q) ==
  \A i, j \in 1..Len(q) : i < j /\ IsEvent(q[i]) /\ IsEvent(q[j]) => q[i].id < q[j].id
\* ... they are later than lo, and no later than hi ...
Within(q, lo, hi) == \A i \in 1..Len(q) : IsEvent(q[i]) => lo < q[i].id /\ q[i].id <= hi
\* ... and all those of q are earlier than those of r.
Before(q, r) ==
  \A i \in 1..Len(q), j \in 1..Len(r) : IsEvent(q[i]) /\ IsEvent(r[j]) => q[i].id < r[j].id

\* The last event seen, those queued and those on their way, of n that were pushed.
Line(last, q, w, n) ==
  /\ last <= n /\ Increasing(q) /\ Within(q, last, n)
  /\ Increasing(w) /\ Within(w, last, n) /\ Before(q, w)

Ordered ==
  /\ Line(0, <<>>, wire, events)
  /\ \A x \in Subs : Line(sub[x].last, sub[x].queue, wire, events)

\* x is yet to be joined again by the rejoin under way.
ToBeMoved(x) ==
  \/ x \in rejoin.todo
  \/ rejoin.at \in {"drain", "drain_cancel", "drained", "reap"} /\ x = rejoin.cur

\* What a rejoin has not moved to the connection it has still before it, or it was broken off.
StillToMove(x) == ~connected \/ rejoin.at \in {"aborted", "killed"} \/ ToBeMoved(x)
RejoinInv ==
  /\ rejoin.at = "idle" => rejoin.todo = {}
  /\ \A x \in Made : Registered(x) /\ ~sub[x].leave /\ sub[x].gen # gen => StillToMove(x)
---------------------------------------------------------------------------------
(***************************************************************************)
(* What happens to the order when a message is added, moved or lost.       *)
(***************************************************************************)
LEMMA MessageIds ==
  ASSUME NEW m \in Messages
  PROVE  m.id \in Int
BY ConstantTypes DEF Messages

LEMMA ReplyInOrder ==
  ASSUME NEW q \in Seq(Messages), NEW w \in Seq(Messages), NEW last \in Nat, NEW n \in Nat,
         Line(last, q, w, n), NEW m \in Messages, m.kind # "event"
  PROVE  Line(last, q, Append(w, m), n)
<1> DEFINE v == Append(w, m)
<1>1. /\ Len(v) = Len(w) + 1 /\ Len(w) \in Nat /\ v[Len(w) + 1] = m
      /\ \A i \in 1..Len(w) : v[i] = w[i]
  BY AppendProperties
<1> HIDE DEF v
<1>2. \A i \in 1..Len(v) : IsEvent(v[i]) => i \in 1..Len(w) /\ v[i] = w[i]
  BY <1>1 DEF IsEvent
<1>3. Increasing(v) /\ Within(v, last, n) /\ Before(q, v)
  BY <1>2 DEF Line, Increasing, Within, Before
<1> QED
  BY <1>3 DEF Line, v

LEMMA EventInOrder ==
  ASSUME NEW q \in Seq(Messages), NEW w \in Seq(Messages), NEW last \in Nat, NEW n \in Nat,
         Line(last, q, w, n), NEW m \in Messages, m.id = n + 1
  PROVE  Line(last, q, Append(w, m), n + 1)
<1> DEFINE v == Append(w, m)
<1>1. /\ Len(v) = Len(w) + 1 /\ Len(w) \in Nat /\ v[Len(w) + 1] = m
      /\ \A i \in 1..Len(w) : v[i] = w[i]
  BY AppendProperties
<1> HIDE DEF v
<1>2. \A i \in 1..Len(w) : w[i].id \in Int /\ (IsEvent(w[i]) => last < w[i].id /\ w[i].id <= n)
  BY MessageIds DEF Line, Within
<1>3. \A i \in 1..Len(q) : q[i].id \in Int /\ (IsEvent(q[i]) => last < q[i].id /\ q[i].id <= n)
  BY MessageIds DEF Line, Within
<1>4. \A i \in 1..Len(v) : (i \in 1..Len(w) /\ v[i] = w[i]) \/ (i = Len(w) + 1 /\ v[i].id = n + 1)
  BY <1>1
<1>5. Increasing(v)
  BY <1>1, <1>2, <1>4 DEF Line, Increasing
<1>6. Within(v, last, n + 1) /\ last <= n + 1
  BY <1>2, <1>4 DEF Line, Within
<1>7. Within(q, last, n + 1)
  BY <1>3 DEF Within
<1>8. Before(q, v)
  BY <1>3, <1>4 DEF Line, Before
<1> QED
  BY <1>5, <1>6, <1>7, <1>8 DEF Line, v

LEMMA LossInOrder ==
  ASSUME NEW q \in Seq(Messages), NEW w \in Seq(Messages), NEW last \in Nat, NEW n \in Nat,
         Line(last, q, w, n), NEW k \in 0..Len(w)
  PROVE  Line(last, q, SubSeq(w, 1, k), n)
<1> DEFINE v == SubSeq(w, 1, k)
<1>1. Len(v) = k /\ Len(w) \in Nat /\ \A i \in 1..k : v[i] = w[i]
  OBVIOUS
<1> HIDE DEF v
<1>2. \A i \in 1..Len(v) : i \in 1..Len(w) /\ v[i] = w[i]
  BY <1>1
<1>3. Increasing(v) /\ Within(v, last, n) /\ Before(q, v)
  BY <1>2 DEF Line, Increasing, Within, Before
<1> QED
  BY <1>3 DEF Line, v

LEMMA EmptyInOrder ==
  ASSUME NEW q \in Seq(Messages), NEW w \in Seq(Messages), NEW last \in Nat, NEW n \in Nat,
         Line(last, q, w, n)
  PROVE  Line(last, <<>>, w, n) /\ Line(last, q, <<>>, n)
BY DEF Line, Increasing, Within, Before

\* The first of q is dispatched, or dropped.
LEMMA TailInOrder ==
  ASSUME NEW q \in Seq(Messages), NEW w \in Seq(Messages), NEW last \in Nat, NEW n \in Nat,
         Line(last, q, w, n), q # <<>>
  PROVE  /\ Line(last, Tail(q), w, n)
         /\ Head(q).kind = "event" => last < Head(q).id /\ Line(Head(q).id, Tail(q), w, n)
<1> DEFINE v == Tail(q)
<1>1. /\ Len(v) = Len(q) - 1 /\ Len(q) \in Nat /\ Len(q) >= 1 /\ Head(q) = q[1]
      /\ \A i \in 1..Len(v) : v[i] = q[i + 1]
  BY HeadTailProperties, EmptySeq
<1> HIDE DEF v
<1>2. \A i \in 1..Len(v) : i + 1 \in 1..Len(q) /\ v[i] = q[i + 1] /\ 1 < i + 1
  BY <1>1
<1>3. Increasing(v)
  <2> SUFFICES ASSUME NEW i \in 1..Len(v), NEW j \in 1..Len(v), i < j, IsEvent(v[i]), IsEvent(v[j])
               PROVE  v[i].id < v[j].id
    BY DEF Increasing
  <2>1. i + 1 < j + 1
    BY <1>1
  <2> QED
    BY <1>2, <2>1 DEF Line, Increasing
<1>4. Within(v, last, n) /\ Before(v, w)
  BY <1>2 DEF Line, Within, Before
<1>5. ASSUME Head(q).kind = "event"
      PROVE  last < Head(q).id /\ Line(Head(q).id, v, w, n)
  <2>1. 1 \in 1..Len(q) /\ IsEvent(q[1]) /\ q[1].id = Head(q).id
    BY <1>1, <1>5 DEF IsEvent
  <2>2. last < q[1].id /\ q[1].id <= n
    BY <2>1 DEF Line, Within
  <2>3. Within(v, q[1].id, n)
    <3>1. \A i \in 1..Len(v) : IsEvent(v[i]) => q[1].id < v[i].id
      BY <1>2, <2>1 DEF Line, Increasing
    <3> QED
      BY <1>4, <3>1 DEF Within
  <2>4. Within(w, q[1].id, n)
    BY <2>1 DEF Line, Within, Before
  <2> QED
    BY <1>3, <1>4, <2>1, <2>2, <2>3, <2>4 DEF Line
<1> QED
  BY <1>3, <1>4, <1>5 DEF Line, v

\* The first on its way is routed to another queue, or dropped ...
LEMMA DropInOrder ==
  ASSUME NEW q \in Seq(Messages), NEW w \in Seq(Messages), NEW last \in Nat, NEW n \in Nat,
         Line(last, q, w, n), w # <<>>
  PROVE  Line(last, q, Tail(w), n)
<1>1. Line(last, <<>>, w, n) /\ <<>> \in Seq(Messages)
  BY EmptyInOrder
<1> DEFINE v == Tail(w)
<1>2. /\ Len(v) = Len(w) - 1 /\ Len(w) \in Nat /\ Len(w) >= 1
      /\ \A i \in 1..Len(v) : v[i] = w[i + 1]
  BY HeadTailProperties, EmptySeq
<1> HIDE DEF v
<1>3. \A i \in 1..Len(v) : i + 1 \in 1..Len(w) /\ v[i] = w[i + 1]
  BY <1>2
<1>4. Increasing(v)
  <2> SUFFICES ASSUME NEW i \in 1..Len(v), NEW j \in 1..Len(v), i < j, IsEvent(v[i]), IsEvent(v[j])
               PROVE  v[i].id < v[j].id
    BY DEF Increasing
  <2>1. i + 1 < j + 1
    BY <1>2
  <2> QED
    BY <1>3, <2>1 DEF Line, Increasing
<1>5. Within(v, last, n) /\ Before(q, v)
  BY <1>3 DEF Line, Within, Before
<1> QED
  BY <1>4, <1>5 DEF Line, v

\* ... or put at the end of this one.
LEMMA AppendInOrder ==
  ASSUME NEW q \in Seq(Messages), NEW w \in Seq(Messages), NEW last \in Nat, NEW n \in Nat,
         Line(last, q, w, n), w # <<>>
  PROVE  Line(last, Append(q, Head(w)), Tail(w), n)
<1> DEFINE v == Tail(w)
           m == Head(w)
           r == Append(q, m)
<1>1. /\ Len(v) = Len(w) - 1 /\ Len(w) \in Nat /\ Len(w) >= 1 /\ m = w[1] /\ m \in Messages
      /\ \A i \in 1..Len(v) : v[i] = w[i + 1]
  BY HeadTailProperties, EmptySeq
<1>2. /\ Len(r) = Len(q) + 1 /\ Len(q) \in Nat /\ r[Len(q) + 1] = m
      /\ \A i \in 1..Len(q) : r[i] = q[i]
  BY <1>1, AppendProperties
<1>3. Line(last, q, v, n)
  BY DropInOrder
<1> HIDE DEF v, m, r
<1>4. \A i \in 1..Len(v) : i + 1 \in 1..Len(w) /\ v[i] = w[i + 1] /\ 1 < i + 1
  BY <1>1
<1>5. 1 \in 1..Len(w) /\ m = w[1]
  BY <1>1
<1>6. \A i \in 1..Len(r) : (i \in 1..Len(q) /\ r[i] = q[i]) \/ (i = Len(q) + 1 /\ r[i] = m)
  BY <1>2
<1>7. \A i \in 1..Len(q) : IsEvent(q[i]) /\ IsEvent(m) => q[i].id < m.id
  BY <1>5 DEF Line, Before
<1>8. IsEvent(m) => last < m.id /\ m.id <= n
  BY <1>5 DEF Line, Within
<1>9. \A j \in 1..Len(v) : IsEvent(m) /\ IsEvent(v[j]) => m.id < v[j].id
  BY <1>4, <1>5 DEF Line, Increasing
<1>10. Increasing(r)
  <2> SUFFICES ASSUME NEW i \in 1..Len(r), NEW j \in 1..Len(r), i < j, IsEvent(r[i]), IsEvent(r[j])
               PROVE  r[i].id < r[j].id
    BY DEF Increasing
  <2>1. i \in 1..Len(q) /\ r[i] = q[i]
    BY <1>2, <1>6
  <2>2. CASE j \in 1..Len(q) /\ r[j] = q[j]
    BY <2>1, <2>2 DEF Line, Increasing
  <2>3. CASE r[j] = m
    BY <1>7, <2>1, <2>3
  <2> QED
    BY <1>6, <2>2, <2>3
<1>11. Within(r, last, n)
  BY <1>6, <1>8 DEF Line, Within
<1>12. Before(r, v)
  BY <1>3, <1>6, <1>9 DEF Line, Before
<1> QED
  BY <1>3, <1>10, <1>11, <1>12 DEF Line, v, m, r

LEMMA EnqueueInOrder ==
  ASSUME NEW q \in Seq(Messages), NEW w \in Seq(Messages), NEW last \in Nat, NEW n \in Nat,
         Line(last, q, w, n), w # <<>>
  PROVE  Line(last, Enqueue(q, Head(w)), Tail(w), n)
<1>1. CASE Len(q) < QueueSize
  <2>1. Enqueue(q, Head(w)) = Append(q, Head(w))
    BY <1>1, TopicAssumption DEF Enqueue
  <2> QED
    BY <2>1, AppendInOrder
<1>2. CASE Len(q) >= QueueSize
  <2>1. q # <<>> /\ Enqueue(q, Head(w)) = Append(Tail(q), Head(w))
    BY <1>2, TopicAssumption DEF Enqueue
  <2>2. Tail(q) \in Seq(Messages) /\ Line(last, Tail(q), w, n)
    BY <2>1, HeadTailProperties, TailInOrder
  <2> QED
    BY <2>1, <2>2, AppendInOrder
<1> QED
  BY <1>1, <1>2, TopicAssumption

---------------------------------------------------------------------------------
(***************************************************************************)
(* Most steps leave the joins and the queues alone.                        *)
(***************************************************************************)
\* r is s, or what an end of its calls and futures makes of it.
Steadily(s, r) ==
  /\ SameJoin(s, r) /\ SameQueue(s, r) /\ (s.leave => r.leave)
  /\ r.ready = "ok" <=> s.ready = "ok"

Calling ==
  \/ \E t \in Topics : ChangeHandlers(t) \/ \E u \in Leavers : Unsubscribe(u, t)
  \/ \E o \in Tasks, u \in Leavers : CallbackLeaves(o, u)
  \/ \E x \in Subs : Subscribing(x)
  \/ \E u \in Leavers : Unsubscribing(u)
Working(o) ==
  \/ ProcessorStarts(o) \/ ProcessorStops(o)
  \/ CallbackReturns(o) \/ CallbackRaises(o) \/ CallbackCancelled(o)
\* The steps that make no subscription, join none, and move no message.
Aside ==
  \/ PeerLost \/ Disconnect \/ ShutdownBegins \/ ShuttingDown
  \/ DrainTimesOut \/ JoinTimesOut \/ JoinRefused
  \/ Calling \/ \E o \in Tasks : Working(o)
\* The others.
Moving == Connect \/ DrainEnds \/ ProcessorStopped \/ JoinEnds \/ TopicGivenUp

\* What they do to the joins and queues, to the messages on their way, and to the rejoin.
KeepsJoins ==
  /\ \A x \in Subs : Steadily(sub[x], sub'[x])
  /\ \A t \in Topics : registry'[t] \in {registry[t], 0}
  /\ UNCHANGED <<gen, refs, events>>
KeepsWire ==
  \/ UNCHANGED wire \/ Replies(gen) \/ \E k \in 0..Len(wire) : wire' = SubSeq(wire, 1, k)
KeepsRejoin ==
  /\ connected' => connected
  /\ \/ rejoin'.at \in {"aborted", "killed"}
     \/ /\ rejoin'.todo = rejoin.todo /\ (rejoin'.at = "idle" => rejoin.at = "idle")
        /\ rejoin.at \in {"aborted", "killed"} => rejoin'.at = rejoin.at
        /\ rejoin.at \in {"drain", "drain_cancel", "drained", "reap"} =>
             /\ rejoin'.cur = rejoin.cur
             /\ rejoin'.at \in {"drain", "drain_cancel", "drained", "reap"}
SetAside == KeepsJoins /\ KeepsWire /\ KeepsRejoin

LEMMA NextCases ==
  ASSUME Next
  PROVE  \/ Aside \/ Moving \/ Route \/ (\E t \in Topics : Push(t) \/ Subscribe(t))
         \/ \E o \in Tasks : Dispatch(o)
BY DEF Next, Aside, Moving, Calling, Working, Rejoining, Application, Processing

LEMMA Steady ==
  ASSUME TypeInv, UNCHANGED <<registry, sub, gen, refs, events>>
  PROVE  KeepsJoins
BY DEF KeepsJoins, Steadily, SameJoin, SameQueue

LEMMA SettleSteady ==
  ASSUME NEW s \in Subscriptions, NEW r \in {"failed", "refused"}
  PROVE  Steadily(s, Settle(s, r))
<1>1. /\ SameJoin(s, Settle(s, r)) /\ SameQueue(s, Settle(s, r))
      /\ Settle(s, r).leave = s.leave
  BY SettleType DEF Futures
<1>2. Settle(s, r).ready = "ok" <=> s.ready = "ok"
  BY DEF Settle, SetReady, Set, Subscriptions
<1> QED
  BY <1>1, <1>2 DEF Steadily

LEMMA OneSteady ==
  ASSUME TypeInv, NEW x \in Subs, NEW s, Steadily(sub[x], s)
  PROVE  \A y \in Subs : Steadily(sub[y], [sub EXCEPT ![x] = s][y])
<1>1. sub \in [Subs -> Subscriptions] /\ \A y \in Subs : Steadily(sub[y], sub[y])
  BY DEF Steadily, SameJoin, SameQueue, TypeInv, InRange, SubsOK
<1> HIDE DEF Steadily
<1> QED
  BY <1>1

\* _unregister_topic, after what the caller has made of sub.
LEMMA UnregisterSteady ==
  ASSUME TypeInv, NEW s \in [Subs -> Subscriptions], NEW t \in Topics,
         NEW r \in {"failed", "refused"}, \A x \in Subs : Steadily(sub[x], s[x]),
         Unregister(s, t, r), UNCHANGED <<gen, refs, events>>
  PROVE  KeepsJoins
<1> DEFINE x == registry[t]
<1>1. registry' = [registry EXCEPT ![t] = 0] /\ registry \in [Topics -> Numbers]
  BY DEF Unregister, TypeInv, InRange
<1>2. \A v \in Topics : registry'[v] \in {registry[v], 0}
  BY <1>1
<1>3. CASE x = 0
  BY <1>2, <1>3 DEF Unregister, KeepsJoins
<1>4. CASE x # 0
  <2>1. x \in Subs /\ sub' = [s EXCEPT ![x] = Settle(s[x], r)]
    BY <1>4, Registers DEF Unregister, Made
  <2>2. Steadily(s[x], Settle(s[x], r))
    BY <2>1, SettleSteady
  <2>3. Steadily(sub[x], Settle(s[x], r))
    BY <2>1, <2>2 DEF Steadily, SameJoin, SameQueue
  <2>4. \A y \in Subs : Steadily(sub[y], sub'[y])
    BY <2>1, <2>3
  <2> QED
    BY <1>2, <2>4 DEF KeepsJoins
<1> QED
  BY <1>3, <1>4

LEMMA CancelledSteady ==
  ASSUME TypeInv, NEW x \in Subs, NEW s, FutureCancelled(x, s)
  PROVE  /\ s \in [Subs -> Subscriptions] /\ \A y \in Subs : Steadily(sub[y], s[y])
BY DEF FutureCancelled, Steadily, SameJoin, SameQueue, TypeInv, InRange, SubsOK

LEMMA AskedSteady ==
  ASSUME TypeInv, NEW x \in Subs, NEW s, s = [sub EXCEPT ![x].leave = TRUE]
  PROVE  s \in [Subs -> Subscriptions] /\ \A y \in Subs : Steadily(sub[y], s[y])
<1>1. sub \in [Subs -> Subscriptions]
  BY DEF TypeInv, InRange, SubsOK
<1> DEFINE a == [sub[x] EXCEPT !.leave = TRUE]
<1>2. a \in Subscriptions /\ Steadily(sub[x], a)
  BY <1>1 DEF Subscriptions, Steadily, SameJoin, SameQueue
<1>3. s = [sub EXCEPT ![x] = a]
  OBVIOUS
<1> HIDE DEF a
<1>4. s \in [Subs -> Subscriptions]
  BY <1>1, <1>2, <1>3
<1> QED
  BY <1>2, <1>3, <1>4, OneSteady

LEMMA RestAside ==
  ASSUME UNCHANGED <<rejoin, connected>>
  PROVE  KeepsRejoin
BY DEF KeepsRejoin

---------------------------------------------------------------------------------
LEMMA SubscribingAside ==
  ASSUME TypeInv, NEW x \in Subs, Subscribing(x)
  PROVE  SetAside
<1>1. CASE SubscribeReturns(x) \/ SubscribeRaises(x)
  BY <1>1, Steady, RestAside
     DEF SubscribeReturns, SubscribeRaises, net, server, KeepsWire, SetAside
<1>2. CASE SubscribeFails(x) \/ SubscribeTimesOut(x)
  <2>1. PICK s, r : /\ FutureCancelled(x, s) /\ r \in {"failed", "refused"} /\ GiveUp(x, s, r)
                    /\ x \in Made /\ sub[x].name \in Topics
    BY <1>2, SubscribeEndsEffect
  <2>2. Unregister(s, sub[x].name, r) /\ UNCHANGED <<rejoin, connected, gen, refs, events, wire>>
    BY <2>1 DEF GiveUp, net, server
  <2>3. KeepsJoins
    BY <2>1, <2>2, CancelledSteady, UnregisterSteady
  <2> QED
    BY <2>2, <2>3, RestAside DEF KeepsWire, SetAside
<1> QED
  BY <1>1, <1>2 DEF Subscribing

LEMMA UnsubscribingAside ==
  ASSUME TypeInv, NEW u \in Leavers, Unsubscribing(u)
  PROVE  SetAside
<1>1. CASE UnsubscribeReturns(u)
  BY <1>1, Steady, RestAside
     DEF UnsubscribeReturns, unchangedByLeaver, net, server, KeepsWire, SetAside
<1>2. CASE LeaveEnds(u) \/ LeaveTimesOut(u)
  <2> DEFINE x == leaver[u].on
  <2>1. /\ x \in Made /\ sub[x].name \in Topics
        /\ UNCHANGED <<call, leaves, changes, rejoin, net, refs, server, events>>
        /\ \E s : /\ FutureCancelled(x, s) /\ s[x].ready = sub[x].ready
                  /\ LeaverUnregisters(u, s, sub[x].name)
    BY <1>2, LeaveEndsEffect
  <2>2. PICK s : FutureCancelled(x, s) /\ LeaverUnregisters(u, s, sub[x].name)
    BY <2>1
  <2>3. /\ Unregister(s, sub[x].name, "failed") /\ x \in Subs
        /\ UNCHANGED <<rejoin, connected, gen, refs, events, wire>>
    BY <2>1, <2>2 DEF LeaverUnregisters, net, server, Made
  <2>4. KeepsJoins
    BY <2>1, <2>2, <2>3, CancelledSteady, UnregisterSteady
  <2> QED
    BY <2>3, <2>4, RestAside DEF KeepsWire, SetAside
<1> QED
  BY <1>1, <1>2 DEF Unsubscribing

LEMMA UnsubscribeAside ==
  ASSUME TypeInv, NEW t \in Topics, NEW u \in Leavers, Unsubscribe(u, t)
  PROVE  SetAside
<1> DEFINE x == registry[t]
           asked == [sub EXCEPT ![x].leave = TRUE]
<1>1. /\ x \in Subs /\ x \in Made /\ sub[x].ref \in Tasks /\ gen \in 1..MaxGen /\ InRange
      /\ UNCHANGED <<rejoin, connected, gen, refs, events>>
  BY Registers, ProcessorMade DEF Unsubscribe, Made, net, TypeInv, InRange, Processor
<1>2. asked \in [Subs -> Subscriptions] /\ \A y \in Subs : Steadily(sub[y], asked[y])
  BY <1>1, AskedSteady
<1>3. CASE link = "up"
  <2>1. sub' = asked /\ ServerLeaves(t, sub[x].ref) /\ UNCHANGED registry
    BY <1>3 DEF Unsubscribe
  <2>2. Replies(gen)
    BY <1>1, <2>1, ServerType
  <2> QED
    BY <1>1, <1>2, <2>1, <2>2, RestAside DEF KeepsWire, KeepsJoins, SetAside
<1>4. CASE link # "up"
  <2>1. Unregister(asked, t, "failed") /\ UNCHANGED wire
    BY <1>4 DEF Unsubscribe, LeaverUnregisters, server
  <2> HIDE DEF asked
  <2>2. KeepsJoins
    BY <1>1, <1>2, <2>1, UnregisterSteady
  <2> QED
    BY <1>1, <2>1, <2>2, RestAside DEF KeepsWire, SetAside
<1> QED
  BY <1>3, <1>4

LEMMA CallbackLeavesAside ==
  ASSUME TypeInv, NEW o \in Tasks, NEW u \in Leavers, CallbackLeaves(o, u)
  PROVE  SetAside
<1> DEFINE x == task[o].on
           a == [sub[x] EXCEPT !.leave = TRUE]
<1>1. /\ x \in Made /\ x \in Subs /\ sub[x] \in Subscriptions /\ sub[x].name \in Topics
      /\ UNCHANGED <<rejoin, connected, gen, refs, events>>
  <2>1. x \in Made
    BY DEF CallbackLeaves, TypeInv, TasksMade
  <2> QED
    BY <2>1 DEF CallbackLeaves, net, Made, TypeInv, InRange, SubsOK, Subscriptions
<1>2. a \in Subscriptions /\ Steadily(sub[x], a)
  BY <1>1 DEF Steadily, SameJoin, SameQueue, Subscriptions
<1>3. CASE link = "up"
  <2>1. /\ sub' = [sub EXCEPT ![x] = a] /\ ServerLeaves(sub[x].name, sub[x].ref)
        /\ UNCHANGED registry
    BY <1>3 DEF CallbackLeaves
  <2>2. sub[x].ref \in Tasks /\ gen \in 1..MaxGen /\ InRange
    BY <1>1, ProcessorMade DEF Processor, TypeInv, InRange
  <2>3. Replies(gen)
    BY <1>1, <2>1, <2>2, ServerType
  <2> HIDE DEF a
  <2>4. KeepsJoins
    BY <1>1, <1>2, <2>1, OneSteady DEF KeepsJoins
  <2> QED
    BY <1>1, <2>3, <2>4, RestAside DEF KeepsWire, SetAside
<1>4. CASE link # "up"
  <2>1. /\ registry' = [registry EXCEPT ![sub[x].name] = 0] /\ UNCHANGED wire
        /\ sub' = [sub EXCEPT ![x] = Settle(a, "failed")]
    BY <1>1, <1>4 DEF CallbackLeaves, server
  <2> HIDE DEF a
  <2>2. Steadily(sub[x], Settle(a, "failed"))
    <3>1. Steadily(a, Settle(a, "failed"))
      BY <1>2, SettleSteady
    <3> QED
      BY <1>2, <3>1 DEF Steadily, SameJoin, SameQueue
  <2>3. \A t \in Topics : registry'[t] \in {registry[t], 0}
    BY <2>1 DEF TypeInv, InRange
  <2>4. KeepsJoins
    BY <1>1, <2>1, <2>2, <2>3, OneSteady DEF KeepsJoins
  <2> QED
    BY <1>1, <2>1, <2>4, RestAside DEF KeepsWire, SetAside
<1> QED
  BY <1>3, <1>4

LEMMA ChangeHandlersAside ==
  ASSUME TypeInv, NEW t \in Topics, ChangeHandlers(t)
  PROVE  SetAside
<1> DEFINE x == registry[t]
<1>1. /\ x \in Subs /\ sub[x] \in Subscriptions
      /\ UNCHANGED <<registry, rejoin, connected, gen, refs, events, wire>>
  BY Registers DEF ChangeHandlers, Made, net, server, TypeInv, InRange, SubsOK
<1>2. PICK h : sub' = [sub EXCEPT ![x].handlers = IF h \in @ THEN @ \ {h} ELSE @ \cup {h}]
  BY DEF ChangeHandlers
<1> DEFINE hs == IF h \in sub[x].handlers THEN sub[x].handlers \ {h} ELSE sub[x].handlers \cup {h}
           s == [sub[x] EXCEPT !.handlers = hs]
<1>3. sub' = [sub EXCEPT ![x] = s]
  BY <1>2
<1> HIDE DEF hs
<1>4. Steadily(sub[x], s)
  BY <1>1 DEF Steadily, SameJoin, SameQueue, Subscriptions
<1> HIDE DEF s
<1>5. KeepsJoins
  BY <1>1, <1>3, <1>4, OneSteady DEF KeepsJoins
<1> QED
  BY <1>1, <1>5, RestAside DEF KeepsWire, SetAside

LEMMA WorkingAside ==
  ASSUME TypeInv, NEW o \in Tasks, Working(o)
  PROVE  SetAside
<1>1. UNCHANGED <<registry, sub, gen, refs, events, wire>>
  BY DEF Working, ProcessorStarts, ProcessorStops, CallbackReturns, CallbackRaises,
         CallbackCancelled, net, server
<1>2. KeepsRejoin
  <2>1. CASE ProcessorStarts(o) \/ ProcessorStops(o)
    BY <2>1, RestAside DEF ProcessorStarts, ProcessorStops, net
  <2>2. ASSUME NEW at \in {"drained", "aborted", "killed"}, Drained(o, at), connected' => connected
        PROVE  KeepsRejoin
    <3>1. CASE rejoin' = rejoin
      BY <2>2, <3>1 DEF KeepsRejoin
    <3>2. CASE /\ rejoin' = [rejoin EXCEPT !.at = "drained", !.on = 0]
               /\ rejoin.at \in {"drain", "drain_cancel"}
      BY <2>2, <3>2 DEF KeepsRejoin, TypeInv, InRange, CallsOK
    <3>3. CASE rejoin' = [at |-> at, cur |-> 0, todo |-> {}, on |-> 0] /\ at # "drained"
      BY <2>2, <3>3 DEF KeepsRejoin
    <3> QED
      BY <2>2, <3>1, <3>2, <3>3 DEF Drained
  <2>3. CASE CallbackReturns(o) \/ CallbackRaises(o) \/ CallbackCancelled(o)
    <3>1. \E at \in {"drained", "aborted", "killed"} : Drained(o, at)
      BY <2>3 DEF CallbackReturns, CallbackRaises, CallbackCancelled
    <3>2. connected' => connected
      BY <2>3 DEF CallbackReturns, CallbackRaises, CallbackCancelled, net
    <3> QED
      BY <2>2, <3>1, <3>2
  <2> QED
    BY <2>1, <2>3 DEF Working
<1> QED
  BY <1>1, <1>2, Steady DEF KeepsWire, SetAside

LEMMA ShutdownAsksAside ==
  ASSUME TypeInv, ShutdownAsks
  PROVE  SetAside
<1>1. /\ TopicsToUnsubscribe \subseteq Made
      /\ sub' = [x \in Subs |-> IF x \in TopicsToUnsubscribe THEN Asked(x) ELSE sub[x]]
      /\ UNCHANGED <<rejoin, registry, gen, refs, wire, events, connected>>
  BY ShutdownAsksEffect
<1>2. \A x \in TopicsToUnsubscribe : Steadily(sub[x], Asked(x))
  <2> SUFFICES ASSUME NEW x \in TopicsToUnsubscribe
               PROVE  Steadily(sub[x], Asked(x))
    OBVIOUS
  <2>1. x \in Made /\ sub[x] \in Subscriptions
    BY <1>1 DEF Made, TypeInv, InRange, SubsOK
  <2>2. /\ Asked(x) \in Subscriptions /\ Asked(x).leave
        /\ SameJoin(sub[x], Asked(x)) /\ SameQueue(sub[x], Asked(x))
    BY <2>1, AskedType
  <2>3. Asked(x).ready = "ok" <=> sub[x].ready = "ok"
    BY <2>1 DEF Asked, Subscriptions
  <2> QED
    BY <2>2, <2>3 DEF Steadily
<1>3. \A x \in Subs : Steadily(sub[x], sub[x])
  BY DEF Steadily, SameJoin, SameQueue
<1>4. \A x \in Subs : Steadily(sub[x], sub'[x])
  BY <1>1, <1>2, <1>3
<1> QED
  BY <1>1, <1>4, RestAside DEF KeepsJoins, KeepsWire, SetAside

LEMMA ShutdownUnregistersAside ==
  ASSUME TypeInv, ShutdownUnregisters
  PROVE  SetAside
<1>1. /\ TopicsToUnsubscribe \subseteq Made /\ registry' = [t \in Topics |-> 0]
      /\ sub' = [x \in Subs |-> IF x \in TopicsToUnsubscribe THEN Settle(sub[x], "failed")
                                ELSE sub[x]]
      /\ UNCHANGED <<rejoin, gen, refs, wire, events, connected>>
  BY ShutdownUnregistersEffect
<1>2. \A x \in TopicsToUnsubscribe : Steadily(sub[x], Settle(sub[x], "failed"))
  BY <1>1, SettleSteady DEF Made, TypeInv, InRange, SubsOK
<1>3. \A x \in Subs : Steadily(sub[x], sub[x])
  BY DEF Steadily, SameJoin, SameQueue
<1>4. \A x \in Subs : Steadily(sub[x], sub'[x])
  BY <1>1, <1>2, <1>3
<1> QED
  BY <1>1, <1>4, RestAside DEF KeepsJoins, KeepsWire, SetAside

LEMMA AsideKeeps ==
  ASSUME TypeInv, Aside
  PROVE  SetAside
<1>1. CASE PeerLost
  BY <1>1, Steady, RestAside DEF PeerLost, KeepsWire, SetAside
<1>2. CASE Disconnect
  BY <1>2, Steady DEF Disconnect, server, KeepsWire, KeepsRejoin, SetAside
<1>3. CASE ShutdownBegins
  BY <1>3, Steady DEF ShutdownBegins, calls, server, KeepsWire, KeepsRejoin, SetAside
<1>4. CASE ShutdownCancels \/ ShutdownEnds
  <2>1. /\ UNCHANGED <<registry, sub, gen, refs, events, connected>>
        /\ rejoin' \in {rejoin, [at |-> "killed", cur |-> 0, todo |-> {}, on |-> 0]}
        /\ wire' \in {wire, <<>>}
    BY <1>4 DEF ShutdownCancels, ShutdownEnds, server
  <2>2. wire \in Seq(Messages) /\ 0 \in 0..Len(wire) /\ SubSeq(wire, 1, 0) = <<>>
    BY Ranges DEF Network
  <2>3. KeepsWire
    BY <2>1, <2>2 DEF KeepsWire
  <2> QED
    BY <2>1, <2>3, Steady DEF KeepsRejoin, SetAside
<1>5. CASE DrainTimesOut
  <2>1. /\ UNCHANGED <<registry, sub, gen, refs, events, connected, wire>>
        /\ rejoin.at = "drain" /\ rejoin' = [rejoin EXCEPT !.at = "drain_cancel"]
    BY <1>5 DEF DrainTimesOut, net, server
  <2> QED
    BY <2>1, Steady DEF KeepsWire, KeepsRejoin, SetAside, TypeInv, InRange, CallsOK
<1>6. CASE JoinTimesOut
  <2> DEFINE x == rejoin.cur
             s == [sub[x] EXCEPT !.ready = "cancelled"]
  <2>1. /\ UNCHANGED <<registry, gen, refs, events, connected, wire>>
        /\ rejoin.at = "joining" /\ rejoin' = [rejoin EXCEPT !.at = "timed_out"]
        /\ sub' = [sub EXCEPT ![x] = s] /\ sub[x].ready = "pending"
    BY <1>6 DEF JoinTimesOut, net, server
  <2>2. x \in Subs /\ sub[x] \in Subscriptions
    BY <2>1 DEF TypeInv, RejoinMade, Resting, Made, InRange, SubsOK
  <2>3. Steadily(sub[x], s)
    BY <2>1, <2>2 DEF Steadily, SameJoin, SameQueue, Subscriptions
  <2> HIDE DEF s
  <2>4. KeepsJoins
    BY <2>1, <2>2, <2>3, OneSteady DEF KeepsJoins
  <2> QED
    BY <2>1, <2>4 DEF KeepsWire, KeepsRejoin, SetAside, TypeInv, InRange, CallsOK
<1>7. CASE JoinRefused
  <2> DEFINE x == rejoin.cur
             a == Awaited(sub[x].name)
  <2>1. /\ UNCHANGED <<gen, refs, events, connected, wire>> /\ rejoin.at = "joining"
        /\ Unregister(sub, sub[x].name, "refused")
        /\ rejoin' = [rejoin EXCEPT !.at = "unregistering", !.on = a]
    BY <1>7 DEF JoinRefused, net, server
  <2> HIDE DEF a
  <2>2. x \in Subs /\ sub \in [Subs -> Subscriptions] /\ sub[x].name \in Topics
    BY <2>1 DEF TypeInv, RejoinMade, Resting, Made, InRange, SubsOK, Subscriptions
  <2>3. \A y \in Subs : Steadily(sub[y], sub[y])
    BY DEF Steadily, SameJoin, SameQueue
  <2>4. KeepsJoins
    BY <2>1, <2>2, <2>3, UnregisterSteady
  <2> QED
    BY <2>1, <2>4 DEF KeepsWire, KeepsRejoin, SetAside, TypeInv, InRange, CallsOK
<1> QED
  BY <1>1, <1>2, <1>3, <1>4, <1>5, <1>6, <1>7, ShutdownAsksAside, ShutdownUnregistersAside,
     SubscribingAside, UnsubscribingAside, UnsubscribeAside, CallbackLeavesAside,
     ChangeHandlersAside, WorkingAside DEF Aside, Calling, ShuttingDown

---------------------------------------------------------------------------------
(***************************************************************************)
(* A rejoin goes on: what it has before it, and what it does with one of   *)
(* them.                                                                   *)
(***************************************************************************)
ToMove == rejoin.todo \cup IF rejoin.at \in {"drained", "reap"} THEN {rejoin.cur} ELSE {}

Reaps(x, rest) ==
  /\ Alive(Processor(x)) /\ task' = [task EXCEPT ![Processor(x)] = Cancel(task[Processor(x)])]
  /\ rejoin' = [at |-> "reap", cur |-> x, todo |-> rest, on |-> 0]
  /\ UNCHANGED <<sub, refs, server>>

\* On connection g, whose link is l, of the subscriptions S: all left to the others but x.
MovesOn(S, g, l) ==
  \/ Over /\ \A x \in S : sub[x].leave
  \/ \E x \in S, rest \in SUBSET S :
       /\ x \notin rest /\ \A y \in S \ rest : y = x \/ sub[y].leave
       /\ \/ Drains(x, rest) \/ Reaps(x, rest)
          \/ Join(x, rest, g, l) /\ ~Alive(Processor(x))

LEMMA StopMoves ==
  ASSUME TypeInv, NEW S \in SUBSET Made, NEW x \in S, NEW rest \in SUBSET S, x \notin rest,
         NEW g, NEW l, StopProcessor(x, rest, g, l),
         \A y \in S \ rest : y = x \/ sub[y].leave
  PROVE  MovesOn(S, g, l)
BY DEF StopProcessor, MovesOn, Reaps

LEMMA ContinueMoves ==
  ASSUME TypeInv, NEW S \in SUBSET Made, NEW g, NEW l, Continue(S, g, l)
  PROVE  MovesOn(S, g, l)
<1>1. CASE Over /\ \A x \in S : sub[x].leave
  BY <1>1 DEF MovesOn
<1>2. ASSUME NEW x \in S, NEW rest \in SUBSET S, GoesOn(S, x, rest, g, l)
      PROVE  MovesOn(S, g, l)
  <2>1. x \notin rest /\ \A y \in S \ rest : y = x \/ sub[y].leave
    BY <1>2 DEF GoesOn
  <2>2. CASE StopProcessor(x, rest, g, l)
    BY <2>1, <2>2, StopMoves
  <2>3. CASE Drains(x, rest)
    BY <2>1, <2>3 DEF MovesOn
  <2> QED
    BY <1>2, <2>2, <2>3 DEF GoesOn
<1> QED
  BY <1>1, <1>2, ContinueEffect

\* The steps of Moving: on a new connection, or on the one there is.
Reconnects ==
  /\ ~connected /\ connected' = TRUE /\ gen' = gen + 1 /\ link' = "up" /\ shutdown.at = "no"
  /\ rejoin.at # "killed"
  /\ MovesOn({registry[t] : t \in Topics} \ {0}, gen + 1, "up")
GoesOnHere ==
  /\ rejoin.at \notin {"idle", "aborted", "killed"} /\ UNCHANGED <<gen, link, connected>>
  /\ rejoin.at \in {"drain", "drain_cancel", "drained", "reap"} =>
       rejoin.at \in {"drained", "reap"}
  /\ MovesOn(ToMove, gen, link)

LEMMA MovingEffect ==
  ASSUME TypeInv, Moving
  PROVE  /\ UNCHANGED <<registry, calls, shutdown, events>>
         /\ Reconnects \/ GoesOnHere
<1>1. UNCHANGED <<registry, calls, shutdown, events>>
  BY DEF Moving, Connect, DrainEnds, ProcessorStopped, JoinEnds, TopicGivenUp, net
<1>2. CASE Connect
  <2> DEFINE S == {registry[t] : t \in Topics} \ {0}
  <2>1. S \in SUBSET Made
    BY Registers
  <2>2. Continue(S, gen + 1, "up")
    BY <1>2 DEF Connect
  <2> HIDE DEF S
  <2>3. MovesOn(S, gen + 1, "up")
    BY <2>1, <2>2, ContinueMoves
  <2> QED
    BY <1>1, <1>2, <2>3 DEF Connect, Reconnects, S
<1>3. CASE JoinEnds \/ TopicGivenUp
  <2>1. /\ rejoin.at \in {"joining", "send_failed", "timed_out", "unregistering"}
        /\ Continue(rejoin.todo, gen, link) /\ UNCHANGED <<gen, link, connected>>
    BY <1>3 DEF JoinEnds, TopicGivenUp, net
  <2>2. rejoin.todo \in SUBSET Made /\ ToMove = rejoin.todo
    BY <2>1 DEF TypeInv, RejoinMade, ToMove
  <2>3. MovesOn(ToMove, gen, link)
    BY <2>1, <2>2, ContinueMoves
  <2> QED
    BY <1>1, <2>1, <2>3 DEF GoesOnHere
<1>4. CASE DrainEnds \/ ProcessorStopped
  <2> DEFINE x == rejoin.cur
             rest == rejoin.todo
  <2>1. rejoin.at \in {"drained", "reap"} /\ UNCHANGED <<gen, link, connected>>
    BY <1>4 DEF DrainEnds, ProcessorStopped, net
  <2>2. /\ ToMove \in SUBSET Made /\ x \in ToMove /\ rest \in SUBSET ToMove /\ x \notin rest
        /\ \A y \in ToMove \ rest : y = x \/ sub[y].leave
    BY <2>1 DEF TypeInv, RejoinMade, ToMove, Resting
  <2>3. CASE DrainEnds
    <3>1. StopProcessor(x, rest, gen, link)
      BY <2>3 DEF DrainEnds
    <3>2. MovesOn(ToMove, gen, link)
      BY <2>2, <3>1, StopMoves
    <3> QED
      BY <1>1, <2>1, <3>2 DEF GoesOnHere
  <2>4. CASE ProcessorStopped
    <3>1. Join(x, rest, gen, link) /\ ~Alive(Processor(x))
      BY <2>4 DEF ProcessorStopped
    <3>2. MovesOn(ToMove, gen, link)
      BY <2>2, <3>1 DEF MovesOn
    <3> QED
      BY <1>1, <2>1, <3>2 DEF GoesOnHere
  <2> QED
    BY <1>4, <2>3, <2>4
<1> QED
  BY <1>2, <1>3, <1>4 DEF Moving

\* What Join makes of the subscription.
Rejoined(x, g) ==
  [sub[x] EXCEPT !.gen = g, !.ref = refs + 1, !.ready = "pending", !.rejoined = TRUE,
                 !.queue = <<>>]

LEMMA MovesSubs ==
  ASSUME TypeInv, NEW S \in SUBSET Made, NEW g \in 1..MaxGen, NEW l, MovesOn(S, g, l)
  PROVE  /\ \A x \in Subs : sub'[x] = sub[x] \/ sub'[x] = Rejoined(x, g)
         /\ UNCHANGED wire \/ Replies(g)
<1>1. CASE UNCHANGED <<sub, server>>
  BY <1>1 DEF server
<1>2. ASSUME NEW x \in S, NEW rest, Join(x, rest, g, l)
      PROVE  /\ \A y \in Subs : sub'[y] = sub[y] \/ sub'[y] = Rejoined(y, g)
             /\ UNCHANGED wire \/ Replies(g)
  <2>1. sub' = [sub EXCEPT ![x] = Rejoined(x, g)]
    BY <1>2 DEF Join, Rejoined
  <2>2. UNCHANGED wire \/ ServerJoins(sub[x].name, refs + 1, g)
    BY <1>2 DEF Join, server
  <2>3. sub \in [Subs -> Subscriptions] /\ x \in Subs /\ sub[x].name \in Topics
    BY DEF Made, TypeInv, InRange, SubsOK, Subscriptions
  <2>4. \A y \in Subs : sub'[y] = sub[y] \/ sub'[y] = Rejoined(y, g)
    BY <2>1, <2>3
  <2>5. ASSUME ServerJoins(sub[x].name, refs + 1, g)
        PROVE  Replies(g)
    <3>1. refs + 1 \in Nat /\ 0 \in 0..MaxEvents
      BY ConstantTypes DEF TypeInv, InRange, Tasks
    <3>2. PICK kind \in {"reply_ok", "reply_error"} :
            wire' = Append(wire, Message(kind, sub[x].name, refs + 1, g, 0))
      BY <2>5 DEF ServerJoins
    <3> DEFINE m == Message(kind, sub[x].name, refs + 1, g, 0)
    <3>3. m \in Messages /\ m.gen = g /\ m.kind = kind
      BY <2>3, <3>1, MessageType
    <3> QED
      BY <3>2, <3>3 DEF Replies
  <2> QED
    BY <2>2, <2>4, <2>5
<1> QED
  BY <1>1, <1>2 DEF MovesOn, Over, Drains, Reaps

---------------------------------------------------------------------------------
(***************************************************************************)
(* The order of events.                                                    *)
(***************************************************************************)
LEMMA OrderTypes ==
  ASSUME TypeInv
  PROVE  /\ wire \in Seq(Messages) /\ events \in Nat
         /\ \A x \in Subs : sub[x].queue \in Seq(Messages) /\ sub[x].last \in Nat
BY ConstantTypes DEF TypeInv, InRange, SubsOK, Subscriptions

\* One line for the wire alone and one for each subscription.
LEMMA EachLine ==
  ASSUME TypeInv, Ordered, NEW w, NEW n,
         \A q \in Seq(Messages), last \in Nat : Line(last, q, wire, events) => Line(last, q, w, n)
  PROVE  /\ Line(0, <<>>, w, n)
         /\ \A x \in Subs : /\ Line(sub[x].last, sub[x].queue, w, n)
                            /\ w \in Seq(Messages) /\ n \in Nat => Line(sub[x].last, <<>>, w, n)
<1>1. <<>> \in Seq(Messages) /\ 0 \in Nat
  OBVIOUS
<1>2. Line(0, <<>>, w, n)
  BY <1>1 DEF Ordered
<1>3. \A x \in Subs : Line(sub[x].last, sub[x].queue, w, n)
  BY OrderTypes DEF Ordered
<1> QED
  BY <1>2, <1>3, OrderTypes, EmptyInOrder

\* A reply more, or a part lost.
LEMMA WireInOrder ==
  ASSUME TypeInv, Ordered, NEW g, wire' \in Seq(Messages),
         \/ UNCHANGED wire \/ Replies(g)
         \/ \E k \in 0..Len(wire) : wire' = SubSeq(wire, 1, k)
  PROVE  /\ Line(0, <<>>, wire', events)
         /\ \A x \in Subs : /\ Line(sub[x].last, sub[x].queue, wire', events)
                            /\ Line(sub[x].last, <<>>, wire', events)
<1>1. events \in Nat /\ wire \in Seq(Messages)
  BY OrderTypes
<1>2. CASE UNCHANGED wire
  BY <1>1, <1>2, EachLine
<1>3. CASE Replies(g)
  <2>1. PICK m \in Messages : m.kind # "event" /\ wire' = Append(wire, m)
    BY <1>3 DEF Replies
  <2>2. \A q \in Seq(Messages), last \in Nat :
          Line(last, q, wire, events) => Line(last, q, wire', events)
    BY <1>1, <2>1, ReplyInOrder
  <2> QED
    BY <1>1, <2>2, EachLine
<1>4. ASSUME NEW k \in 0..Len(wire), wire' = SubSeq(wire, 1, k)
      PROVE  \A q \in Seq(Messages), last \in Nat :
               Line(last, q, wire, events) => Line(last, q, wire', events)
  BY <1>1, <1>4, LossInOrder
<1>5. CASE \E k \in 0..Len(wire) : wire' = SubSeq(wire, 1, k)
  BY <1>1, <1>4, <1>5, EachLine
<1> QED
  BY <1>2, <1>3, <1>5

LEMMA OrderAside ==
  ASSUME TypeInv, Ordered, Aside, wire' \in Seq(Messages)
  PROVE  Ordered' /\ \A x \in Subs : sub'[x].last = sub[x].last
<1>1. SetAside
  BY AsideKeeps
<1>2. /\ Line(0, <<>>, wire', events)
      /\ \A x \in Subs : Line(sub[x].last, sub[x].queue, wire', events)
  BY <1>1, WireInOrder DEF SetAside, KeepsWire
<1>3. events' = events /\ \A x \in Subs : SameQueue(sub[x], sub'[x])
  BY <1>1 DEF SetAside, KeepsJoins, Steadily
<1> QED
  BY <1>2, <1>3 DEF Ordered, SameQueue

LEMMA OrderMoving ==
  ASSUME TypeInv, Ordered, Moving, TypeInv'
  PROVE  Ordered' /\ \A x \in Subs : sub'[x].last = sub[x].last
<1>1. events' = events /\ wire' \in Seq(Messages) /\ gen' \in 1..MaxGen
  BY MovingEffect DEF TypeInv, InRange
<1>2. /\ \A x \in Subs : sub'[x] = sub[x] \/ sub'[x] = Rejoined(x, gen')
      /\ UNCHANGED wire \/ Replies(gen')
  <2>1. CASE Reconnects
    BY <1>1, <2>1, Registers, MovesSubs DEF Reconnects
  <2>2. CASE GoesOnHere
    <3>1. ToMove \in SUBSET Made
      BY <2>2 DEF ToMove, TypeInv, RejoinMade, Resting
    <3> QED
      BY <1>1, <2>2, <3>1, MovesSubs DEF GoesOnHere
  <2> QED
    BY <2>1, <2>2, MovingEffect
<1>3. /\ Line(0, <<>>, wire', events)
      /\ \A x \in Subs : /\ Line(sub[x].last, sub[x].queue, wire', events)
                         /\ Line(sub[x].last, <<>>, wire', events)
  BY <1>1, <1>2, WireInOrder
<1>4. \A x \in Subs : /\ Rejoined(x, gen').last = sub[x].last
                      /\ Rejoined(x, gen').queue = <<>>
  BY DEF Rejoined, TypeInv, InRange, SubsOK, Subscriptions
<1>5. \A x \in Subs : /\ sub'[x].last = sub[x].last
                      /\ sub'[x].queue = sub[x].queue \/ sub'[x].queue = <<>>
  BY <1>2, <1>4
<1> QED
  BY <1>1, <1>3, <1>5 DEF Ordered

LEMMA OrderPush ==
  ASSUME TypeInv, Ordered, NEW t \in Topics, Push(t)
  PROVE  Ordered' /\ \A x \in Subs : sub'[x].last = sub[x].last
<1>1. joined[t] \in Nat /\ gen \in 1..MaxGen /\ events + 1 \in 0..MaxEvents
  BY ConstantTypes DEF TypeInv, InRange, Tasks, Push
<1> DEFINE m == Message("event", t, joined[t], gen, events + 1)
<1>2. m \in Messages /\ m.id = events + 1
  BY <1>1, MessageType
<1>3. wire' = Append(wire, m) /\ events' = events + 1 /\ sub' = sub
  BY DEF Push
<1> HIDE DEF m
<1>4. \A q \in Seq(Messages), last \in Nat :
        Line(last, q, wire, events) => Line(last, q, wire', events')
  BY <1>2, <1>3, OrderTypes, EventInOrder
<1> QED
  BY <1>3, <1>4, EachLine DEF Ordered

LEMMA OrderRoute ==
  ASSUME TypeInv, Ordered, Route
  PROVE  Ordered' /\ \A x \in Subs : sub'[x].last = sub[x].last
<1>1. wire # <<>> /\ wire' = Tail(wire) /\ events' = events
  BY RouteEffect DEF Route
<1>2. \A q \in Seq(Messages), last \in Nat :
        Line(last, q, wire, events) => Line(last, q, wire', events)
  BY <1>1, OrderTypes, DropInOrder
<1>3. /\ Line(0, <<>>, wire', events)
      /\ \A x \in Subs : Line(sub[x].last, sub[x].queue, wire', events)
  BY <1>2, EachLine
<1>4. CASE sub' = sub
  BY <1>1, <1>3, <1>4 DEF Ordered
<1>5. CASE sub' # sub
  <2> DEFINE m == Head(wire)
  <2>1. PICK x \in Made : sub' = [sub EXCEPT ![x].queue = Enqueue(sub[x].queue, m)]
    BY <1>5, RouteEffect
  <2>2. x \in Subs /\ Line(sub[x].last, Enqueue(sub[x].queue, m), wire', events)
    BY <1>1, OrderTypes, EnqueueInOrder DEF Made, Ordered
  <2>3. sub \in [Subs -> Subscriptions]
    BY DEF TypeInv, InRange, SubsOK
  <2> DEFINE q == Enqueue(sub[x].queue, m)
  <2> HIDE DEF q
  <2>4. \A y \in Subs : /\ sub'[y].last = sub[y].last
                        /\ sub'[y].queue = IF y = x THEN q ELSE sub[y].queue
    BY <2>1, <2>2, <2>3 DEF Subscriptions, q
  <2>5. Line(sub[x].last, q, wire', events)
    BY <2>2 DEF q
  <2>6. \A y \in Subs : Line(sub'[y].last, sub'[y].queue, wire', events)
    BY <1>3, <2>4, <2>5
  <2> QED
    BY <1>1, <1>3, <2>4, <2>6 DEF Ordered
<1> QED
  BY <1>4, <1>5

LEMMA OrderDispatch ==
  ASSUME TypeInv, Ordered, NEW o \in Tasks, Dispatch(o)
  PROVE  Ordered' /\ \A x \in Subs : sub[x].last <= sub'[x].last
<1> DEFINE x == task[o].on
           m == Head(sub[x].queue)
           s == [sub[x] EXCEPT !.queue = Tail(sub[x].queue)]
<1>1. x = task[o].on /\ m = Head(sub[x].queue) /\ s = [sub[x] EXCEPT !.queue = Tail(sub[x].queue)]
  OBVIOUS
<1> HIDE DEF x, m, s
<1>2. /\ x \in Made /\ sub[x].queue # <<>> /\ m \in Messages
      /\ s \in Subscriptions /\ s.last = sub[x].last /\ s.queue = Tail(sub[x].queue)
      /\ \/ Ignored(o, x, s) \/ JoinAnswer(o, x, m, s) \/ LeaveAnswer(o, x, m, s)
         \/ CallbackStarts(o, x, m, s)
  BY <1>1, DispatchEffect
<1>3. UNCHANGED <<wire, events>> /\ sub \in [Subs -> Subscriptions] /\ x \in Subs
  BY <1>2 DEF Dispatch, server, TypeInv, InRange, SubsOK, Made
<1>4. /\ Line(sub[x].last, Tail(sub[x].queue), wire, events)
      /\ m.kind = "event" =>
           sub[x].last < m.id /\ Line(m.id, Tail(sub[x].queue), wire, events)
  BY <1>1, <1>2, <1>3, OrderTypes, TailInOrder DEF Ordered
<1>5. PICK r : /\ sub' = [sub EXCEPT ![x] = r] /\ r.queue = Tail(sub[x].queue)
               /\ r.last = sub[x].last \/ (r.last = m.id /\ m.kind = "event")
  <2>1. SameQueue(s, JoinResponse(s, m)) /\ SameQueue(s, LeaveResponse(s, m))
    BY <1>2, ResponseType
  <2>2. CASE Ignored(o, x, s)
    BY <1>2, <2>2 DEF Ignored
  <2>3. CASE JoinAnswer(o, x, m, s)
    BY <1>2, <2>1, <2>3 DEF JoinAnswer, SameQueue
  <2>4. CASE LeaveAnswer(o, x, m, s)
    BY <1>2, <2>1, <2>4 DEF LeaveAnswer, SameQueue
  <2>5. CASE CallbackStarts(o, x, m, s) /\ m.kind = "event"
    <3> DEFINE r == [s EXCEPT !.last = m.id]
    <3>1. r.queue = s.queue /\ r.last = m.id
      BY <1>2 DEF Subscriptions
    <3>2. sub' = [sub EXCEPT ![x] = r]
      BY <2>5 DEF CallbackStarts
    <3> QED
      BY <1>2, <2>5, <3>1, <3>2
  <2>6. CASE CallbackStarts(o, x, m, s) /\ m.kind # "event"
    BY <1>2, <2>6 DEF CallbackStarts
  <2> QED
    BY <1>2, <2>2, <2>3, <2>4, <2>5, <2>6
<1>6. Line(r.last, r.queue, wire, events)
  BY <1>4, <1>5
<1>7. \A y \in Subs : sub'[y] = IF y = x THEN r ELSE sub[y]
  BY <1>3, <1>5
<1>8. \A y \in Subs : Line(sub'[y].last, sub'[y].queue, wire, events)
  BY <1>6, <1>7 DEF Ordered
<1>9. Ordered'
  BY <1>3, <1>8 DEF Ordered
<1>10. \A y \in Subs : sub[y].last <= sub'[y].last
  <2>1. m.id \in Int /\ \A y \in Subs : sub[y].last \in Nat
    BY <1>2, OrderTypes, MessageIds
  <2> QED
    BY <1>4, <1>5, <1>7, <2>1
<1> QED
  BY <1>9, <1>10

LEMMA OrderSubscribe ==
  ASSUME TypeInv, Ordered, NEW t \in Topics, Subscribe(t), wire' \in Seq(Messages)
  PROVE  Ordered' /\ \A x \in Subs : sub[x].last <= sub'[x].last
<1>1. PICK x, handlers : handlers \subseteq HandlerKinds /\ Makes(x, t, handlers)
  BY SubscribeEffect
<1>2. /\ x \in Subs \ Made /\ refs + 1 \in Tasks /\ events' = events
      /\ sub[x] = NoSub /\ sub \in [Subs -> Subscriptions] /\ gen \in 1..MaxGen /\ InRange
  BY <1>1 DEF Makes, Subscribe, TypeInv, Numbered, InRange, SubsOK
<1> DEFINE s == IF link = "up" THEN NewSub(t, handlers) ELSE Settle(NewSub(t, handlers), "failed")
<1>3. sub' = [sub EXCEPT ![x] = s]
  BY <1>1 DEF Makes
<1>4. s \in {NewSub(t, handlers), Settle(NewSub(t, handlers), "failed")}
  OBVIOUS
<1> HIDE DEF s
<1>5. s.queue = <<>> /\ s.last = 0
  <2>1. handlers \in SUBSET HandlerKinds /\ refs + 1 \in Tasks
    BY <1>1, <1>2
  <2> QED
    BY <1>4, <2>1, NewSubType
<1>6. UNCHANGED wire \/ Replies(gen)
  BY <1>1, <1>2, ServerType DEF Makes, server
<1>7. /\ Line(0, <<>>, wire', events)
      /\ \A y \in Subs : Line(sub[y].last, sub[y].queue, wire', events)
  BY <1>6, WireInOrder
<1>8. \A y \in Subs : sub'[y] = IF y = x THEN s ELSE sub[y]
  BY <1>2, <1>3
<1>9. Ordered'
  BY <1>2, <1>5, <1>7, <1>8 DEF Ordered
<1>10. \A y \in Subs : sub[y].last <= sub'[y].last
  <2>1. \A y \in Subs : sub[y].last \in Nat
    BY OrderTypes
  <2> QED
    BY <1>2, <1>5, <1>8, <2>1 DEF NoSub
<1> QED
  BY <1>9, <1>10

LEMMA OrderStep ==
  ASSUME TypeInv, Ordered, [Next]_vars
  PROVE  Ordered' /\ \A x \in Subs : sub[x].last <= sub'[x].last
<1>1. TypeInv' /\ wire' \in Seq(Messages)
  BY TypeStep DEF TypeInv, InRange
<1>2. \A x \in Subs : sub[x].last \in Nat
  BY OrderTypes
<1>3. CASE UNCHANGED vars
  <2>1. UNCHANGED <<sub, wire, events>>
    BY <1>3 DEF vars, server
  <2> QED
    BY <1>2, <2>1 DEF Ordered
<1>4. ASSUME Next
      PROVE  Ordered' /\ \A x \in Subs : sub[x].last <= sub'[x].last
  <2>1. CASE Aside
    BY <1>1, <1>2, <2>1, OrderAside
  <2>2. CASE Moving
    BY <1>1, <1>2, <2>2, OrderMoving
  <2>3. CASE Route
    BY <1>2, <2>3, OrderRoute
  <2>4. CASE \E t \in Topics : Push(t)
    BY <1>2, <2>4, OrderPush
  <2>5. CASE \E t \in Topics : Subscribe(t)
    BY <1>1, <2>5, OrderSubscribe
  <2>6. CASE \E o \in Tasks : Dispatch(o)
    BY <2>6, OrderDispatch
  <2> QED
    BY <1>4, <2>1, <2>2, <2>3, <2>4, <2>5, <2>6, NextCases
<1> QED
  BY <1>3, <1>4

LEMMA OrderInit == Init => Ordered
<1> SUFFICES ASSUME Init
             PROVE  Ordered
  OBVIOUS
<1>1. Line(0, <<>>, <<>>, 0)
  BY DEF Line, Increasing, Within, Before
<1> QED
  BY <1>1 DEF Init, Ordered, NoSub

\* The variables stay in their ranges, the queues within max_topic_queue_size, and no callback
\* has seen an event that was not pushed.
THEOREM TypeCorrect == Spec => []TypeOK
<1>1. TypeInv /\ Ordered => TypeOK
  BY DEF TypeInv, Ordered, Line, TypeOK
<1>2. TypeInv /\ Ordered /\ [Next]_vars => TypeInv' /\ Ordered'
  BY TypeStep, OrderStep
<1> QED
  BY <1>1, <1>2, InitType, OrderInit, PTL DEF Spec

\* The wire and the queues keep the order of the events, whatever is dropped from a full queue,
\* lost with a connection or thrown away by a rejoin; so the callbacks of a subscription see
\* the events in the order in which the server sent them.
THEOREM EventsInOrder == Spec => OrderedDelivery
<1>1. TypeInv /\ Ordered /\ [Next]_vars => TypeInv' /\ Ordered'
  BY TypeStep, OrderStep
<1>2. TypeInv /\ Ordered /\ [Next]_vars => [\A x \in Subs : sub[x].last <= sub'[x].last]_vars
  BY OrderStep
<1> QED
  BY <1>1, <1>2, InitType, OrderInit, PTL DEF Spec, OrderedDelivery

---------------------------------------------------------------------------------
(***************************************************************************)
(* Nothing is forgotten by a rejoin.                                       *)
(***************************************************************************)
LEMMA NothingMadeAside ==
  ASSUME TypeInv, KeepsJoins
  PROVE  /\ Made' = Made
         /\ \A x \in Subs : sub'[x].gen = sub[x].gen /\ (sub[x].leave => sub'[x].leave)
         /\ \A x \in Made : Registered(x)' => Registered(x)
<1>1. \A x \in Subs : SameJoin(sub[x], sub'[x]) /\ (sub[x].leave => sub'[x].leave)
  BY DEF KeepsJoins, Steadily
<1>2. Made' = Made
  BY <1>1 DEF Made, SameJoin
<1>3. ASSUME NEW x \in Made, Registered(x)'
      PROVE  Registered(x)
  <2>1. /\ x \in Subs /\ x # 0 /\ sub[x].name \in Topics
    BY ConstantTypes DEF Made, Subs, TypeInv, InRange, SubsOK, Subscriptions
  <2>2. registry'[sub[x].name] = x
    BY <1>1, <1>3, <2>1 DEF SameJoin, Registered
  <2>3. registry[sub[x].name] = x
    BY <2>1, <2>2 DEF KeepsJoins
  <2> QED
    BY <2>3 DEF Registered, Made
<1> QED
  BY <1>1, <1>2, <1>3 DEF SameJoin

LEMMA RejoinAside ==
  ASSUME TypeInv, RejoinInv, SetAside
  PROVE  \A x \in Made' :
           Registered(x)' /\ ~sub'[x].leave /\ sub'[x].gen # gen' => StillToMove(x)'
<1> SUFFICES ASSUME NEW x \in Made', Registered(x)', ~sub'[x].leave, sub'[x].gen # gen'
             PROVE  StillToMove(x)'
  OBVIOUS
<1>1. /\ x \in Made /\ Registered(x) /\ ~sub[x].leave /\ sub[x].gen # gen
  BY NothingMadeAside DEF SetAside, KeepsJoins, Made
<1>2. StillToMove(x)
  BY <1>1 DEF RejoinInv
<1>3. KeepsRejoin
  BY DEF SetAside
<1> QED
  BY <1>2, <1>3 DEF StillToMove, ToBeMoved, KeepsRejoin

LEMMA RejoinMoving ==
  ASSUME TypeInv, RejoinInv, Moving
  PROVE  RejoinInv'
<1>1. UNCHANGED registry
  BY MovingEffect
<1>2. ASSUME NEW S \in SUBSET Made, NEW g \in 1..MaxGen, NEW l, MovesOn(S, g, l), gen' = g,
             \A x \in Made : Registered(x) /\ ~sub[x].leave /\ sub[x].gen # g => x \in S
      PROVE  RejoinInv'
  <2>1. ASSUME NEW x \in Subs
        PROVE  /\ sub'[x].name = sub[x].name /\ sub'[x].leave = sub[x].leave
               /\ sub'[x].gen # g => sub'[x] = sub[x]
    <3>1. sub'[x] = sub[x] \/ sub'[x] = Rejoined(x, g)
      BY <1>2, MovesSubs
    <3>2. /\ Rejoined(x, g).name = sub[x].name /\ Rejoined(x, g).leave = sub[x].leave
          /\ Rejoined(x, g).gen = g
      BY DEF Rejoined, TypeInv, InRange, SubsOK, Subscriptions
    <3> QED
      BY <3>1, <3>2
  <2>2. ASSUME NEW x \in Made', Registered(x)', ~sub'[x].leave, sub'[x].gen # gen'
        PROVE  x \in S /\ x \in Made /\ ~sub[x].leave
    BY <1>1, <1>2, <2>1, <2>2 DEF Registered, Made
  <2>3. CASE Over /\ \A x \in S : sub[x].leave
    BY <2>2, <2>3 DEF Over, RejoinInv
  <2>4. ASSUME NEW z \in S, NEW rest \in SUBSET S,
               \A y \in S \ rest : y = z \/ sub[y].leave,
               Drains(z, rest) \/ Reaps(z, rest) \/ Join(z, rest, g, l)
        PROVE  RejoinInv'
    <3>1. rejoin'.todo = rest /\ rejoin'.cur = z /\ rejoin'.at # "idle"
      BY <2>4 DEF Drains, Reaps, Join
    <3>2. rejoin'.at \in {"drain", "reap"} \/ sub'[z].gen = g
      <4>1. CASE Join(z, rest, g, l)
        <5>1. sub' = [sub EXCEPT ![z] = Rejoined(z, g)] /\ z \in Subs
          BY <4>1 DEF Join, Rejoined, Made
        <5>2. Rejoined(z, g).gen = g
          BY <5>1 DEF Rejoined, TypeInv, InRange, SubsOK, Subscriptions
        <5> QED
          BY <5>1, <5>2 DEF TypeInv, InRange, SubsOK
      <4> QED
        BY <2>4, <4>1 DEF Drains, Reaps
    <3> QED
      BY <1>2, <2>2, <2>4, <3>1, <3>2 DEF RejoinInv, StillToMove, ToBeMoved
  <2> QED
    BY <1>2, <2>3, <2>4 DEF MovesOn
<1>3. CASE Reconnects
  <2> DEFINE S == {registry[t] : t \in Topics} \ {0}
  <2>1. S \in SUBSET Made
    BY Registers
  <2>2. \A x \in Made : Registered(x) => x \in S
    <3> SUFFICES ASSUME NEW x \in Made, Registered(x)
                 PROVE  x \in S
      OBVIOUS
    <3>1. x \in Subs /\ x # 0 /\ sub[x].name # "none" /\ sub \in [Subs -> Subscriptions]
      BY ConstantTypes DEF Made, Subs, TypeInv, InRange, SubsOK
    <3>2. sub[x].name \in Topics
      BY <3>1 DEF Subscriptions
    <3> QED
      BY <3>1, <3>2 DEF Registered
  <2>3. gen + 1 \in 1..MaxGen /\ gen' = gen + 1
    <3>1. Next /\ gen' = gen + 1
      BY <1>3 DEF Reconnects, Moving, Next, Rejoining
    <3>2. TypeInv'
      BY <3>1, TypeStep
    <3> QED
      BY <3>1, <3>2 DEF TypeInv, InRange
  <2> QED
    BY <1>2, <1>3, <2>1, <2>2, <2>3 DEF Reconnects
<1>4. CASE GoesOnHere
  <2>1. ToMove \in SUBSET Made /\ gen \in 1..MaxGen
    BY DEF ToMove, TypeInv, RejoinMade, Resting, InRange
  <2>2. \A x \in Made : Registered(x) /\ ~sub[x].leave /\ sub[x].gen # gen => x \in ToMove \/ ~connected
    BY <1>4 DEF RejoinInv, StillToMove, ToBeMoved, GoesOnHere, ToMove
  <2>3. CASE connected
    BY <1>2, <1>4, <2>1, <2>2, <2>3 DEF GoesOnHere
  <2>4. CASE ~connected
    <3>1. ~connected'
      BY <1>4, <2>4 DEF GoesOnHere
    <3>2. rejoin'.at = "idle" => rejoin'.todo = {}
      <4>1. Over => rejoin'.todo = {}
        BY DEF Over
      <4>2. \A x, rest : Drains(x, rest) \/ Reaps(x, rest) => rejoin'.at # "idle"
        BY DEF Drains, Reaps
      <4>3. \A x, rest : Join(x, rest, gen, link) => rejoin'.at # "idle"
        BY DEF Join
      <4>4. Over \/ \E x, rest : Drains(x, rest) \/ Reaps(x, rest) \/ Join(x, rest, gen, link)
        BY <1>4 DEF GoesOnHere, MovesOn
      <4> QED
        BY <4>1, <4>2, <4>3, <4>4
    <3> QED
      BY <3>1, <3>2 DEF RejoinInv, StillToMove, ToBeMoved
  <2> QED
    BY <2>3, <2>4
<1> QED
  BY <1>3, <1>4, MovingEffect

LEMMA RejoinSubscribe ==
  ASSUME TypeInv, RejoinInv, NEW t \in Topics, Subscribe(t)
  PROVE  RejoinInv'
<1>1. PICK x, handlers : handlers \subseteq HandlerKinds /\ Makes(x, t, handlers)
  BY SubscribeEffect
<1>2. /\ UNCHANGED <<rejoin, connected, gen>> /\ x \in Subs \ Made
      /\ sub \in [Subs -> Subscriptions] /\ registry \in [Topics -> Numbers]
      /\ refs + 1 \in Tasks /\ registry' \in {registry, [registry EXCEPT ![t] = x]}
  BY <1>1 DEF Makes, Subscribe, net, TypeInv, InRange, SubsOK
<1> DEFINE s == IF link = "up" THEN NewSub(t, handlers) ELSE Settle(NewSub(t, handlers), "failed")
<1>3. sub' = [sub EXCEPT ![x] = s]
  BY <1>1 DEF Makes
<1>4. s \in {NewSub(t, handlers), Settle(NewSub(t, handlers), "failed")}
  OBVIOUS
<1> HIDE DEF s
<1>5. s.gen = gen
  <2>1. handlers \in SUBSET HandlerKinds /\ refs + 1 \in Tasks
    BY <1>1, <1>2
  <2> QED
    BY <1>4, <2>1, NewSubType
<1>6. \A y \in Subs : sub'[y] = IF y = x THEN s ELSE sub[y]
  BY <1>2, <1>3
<1>7. ASSUME NEW y \in Made', Registered(y)', ~sub'[y].leave, sub'[y].gen # gen'
      PROVE  StillToMove(y)'
  <2>1. y \in Subs /\ y # x /\ sub'[y] = sub[y]
    BY <1>2, <1>5, <1>6, <1>7 DEF Made
  <2>2. y \in Made /\ sub[y].name \in Topics
    BY <1>2, <1>7, <2>1 DEF Made, Subscriptions
  <2>3. Registered(y)
    BY <1>2, <1>7, <2>1, <2>2 DEF Registered
  <2>4. StillToMove(y)
    BY <1>2, <1>7, <2>1, <2>2, <2>3 DEF RejoinInv
  <2> QED
    BY <1>2, <2>4 DEF StillToMove, ToBeMoved
<1>8. rejoin'.at = "idle" => rejoin'.todo = {}
  BY <1>2 DEF RejoinInv
<1> QED
  BY <1>7, <1>8 DEF RejoinInv

\* A message may answer futures, it changes nothing else of its subscription.
LEMMA DispatchKeeps ==
  ASSUME TypeInv, NEW o \in Tasks, Dispatch(o)
  PROVE  \A x \in Subs : SameJoin(sub[x], sub'[x]) /\ sub'[x].leave = sub[x].leave
<1> DEFINE x == task[o].on
           m == Head(sub[x].queue)
           s == [sub[x] EXCEPT !.queue = Tail(sub[x].queue)]
<1>1. x = task[o].on /\ m = Head(sub[x].queue) /\ s = [sub[x] EXCEPT !.queue = Tail(sub[x].queue)]
  OBVIOUS
<1> HIDE DEF x, m, s
<1>2. /\ x \in Made /\ m \in Messages /\ s \in Subscriptions /\ SameJoin(sub[x], s)
      /\ s.leave = sub[x].leave
      /\ \/ Ignored(o, x, s) \/ JoinAnswer(o, x, m, s) \/ LeaveAnswer(o, x, m, s)
         \/ CallbackStarts(o, x, m, s)
  BY <1>1, DispatchEffect
<1>3. SameJoin(s, JoinResponse(s, m)) /\ JoinResponse(s, m).leave = s.leave
  <2>1. m.kind \in {"event", "reply_ok", "reply_error"}
    BY <1>2 DEF Messages
  <2>2. JoinResponse(s, m) \in {s, SetReady(s, "ok"), SetReady(s, "refused")}
    BY <2>1 DEF JoinResponse
  <2>3. \A r : SetReady(s, r).leave = s.leave
    BY <1>2 DEF SetReady, Subscriptions
  <2> QED
    BY <1>2, <2>2, <2>3, ResponseType
<1>4. SameJoin(s, LeaveResponse(s, m)) /\ LeaveResponse(s, m).leave = s.leave
  <2>1. LeaveResponse(s, m).leave = s.leave
    BY <1>2 DEF LeaveResponse, Subscriptions
  <2> QED
    BY <1>2, <2>1, ResponseType
<1>5. PICK r : sub' = [sub EXCEPT ![x] = r] /\ SameJoin(s, r) /\ r.leave = s.leave
  <2> DEFINE e == [s EXCEPT !.last = m.id]
  <2>1. SameJoin(s, s) /\ SameJoin(s, e) /\ e.leave = s.leave
    BY <1>2 DEF SameJoin, Subscriptions
  <2> HIDE DEF e
  <2>2. CASE Ignored(o, x, s)
    BY <2>1, <2>2 DEF Ignored
  <2>3. CASE JoinAnswer(o, x, m, s)
    BY <1>3, <2>3 DEF JoinAnswer
  <2>4. CASE LeaveAnswer(o, x, m, s)
    BY <1>4, <2>4 DEF LeaveAnswer
  <2>5. CASE CallbackStarts(o, x, m, s)
    <3>1. sub' = [sub EXCEPT ![x] = IF m.kind = "event" THEN e ELSE s]
      BY <2>5 DEF CallbackStarts, e
    <3> QED
      BY <2>1, <3>1
  <2> QED
    BY <1>2, <2>2, <2>3, <2>4, <2>5
<1>6. \A y \in Subs : sub'[y] = IF y = x THEN r ELSE sub[y]
  BY <1>5 DEF TypeInv, InRange, SubsOK
<1> QED
  BY <1>2, <1>5, <1>6 DEF SameJoin

LEMMA RejoinStep ==
  ASSUME TypeInv, RejoinInv, [Next]_vars
  PROVE  RejoinInv'
<1>1. ASSUME SetAside
      PROVE  RejoinInv'
  <2>1. rejoin'.at = "idle" => rejoin'.todo = {}
    BY <1>1 DEF SetAside, KeepsRejoin, RejoinInv
  <2> QED
    BY <1>1, <2>1, RejoinAside DEF RejoinInv
<1>2. ASSUME UNCHANGED <<rejoin, connected, registry, gen>>,
             \A x \in Subs : /\ sub'[x].name = sub[x].name /\ sub'[x].gen = sub[x].gen
                             /\ sub'[x].leave = sub[x].leave
      PROVE  RejoinInv'
  BY <1>2 DEF RejoinInv, StillToMove, ToBeMoved, Registered, Made
<1>3. CASE UNCHANGED vars
  <2>1. UNCHANGED <<sub, rejoin, connected, registry, gen>>
    BY <1>3 DEF vars, net
  <2> QED
    BY <1>2, <2>1
<1>4. CASE Aside
  BY <1>1, <1>4, AsideKeeps
<1>5. CASE Moving
  BY <1>5, RejoinMoving
<1>6. CASE Route
  <2>1. UNCHANGED <<rejoin, connected, registry, gen>> /\ sub \in [Subs -> Subscriptions]
    BY <1>6 DEF Route, net, TypeInv, InRange, SubsOK
  <2>2. CASE sub' = sub
    BY <1>2, <2>1, <2>2
  <2>3. CASE sub' # sub
    <3>1. PICK x \in Made : \E q : sub' = [sub EXCEPT ![x].queue = q]
      BY <1>6, <2>3, RouteEffect
    <3>2. \A y \in Subs : /\ sub'[y].name = sub[y].name /\ sub'[y].gen = sub[y].gen
                          /\ sub'[y].leave = sub[y].leave
      BY <2>1, <3>1 DEF Subscriptions
    <3> QED
      BY <1>2, <2>1, <3>2
  <2> QED
    BY <2>2, <2>3
<1>7. CASE \E t \in Topics : Push(t)
  BY <1>2, <1>7 DEF Push, net
<1>8. CASE \E t \in Topics : Subscribe(t)
  BY <1>8, RejoinSubscribe
<1>9. ASSUME NEW o \in Tasks, Dispatch(o)
      PROVE  RejoinInv'
  <2>1. UNCHANGED <<rejoin, connected, registry, gen>>
    BY <1>9 DEF Dispatch, net
  <2> QED
    BY <1>2, <1>9, <2>1, DispatchKeeps DEF SameJoin
<1> QED
  BY <1>3, <1>4, <1>5, <1>6, <1>7, <1>8, <1>9, NextCases

LEMMA RejoinInit == Init => RejoinInv
BY DEF Init, RejoinInv, Made, NoSub

\* Whatever is lost, refused, left or timed out on the way, a rejoin that has gone through leaves no
\* registered topic on an earlier connection.
THEOREM RejoinsComplete == Spec => []RejoinComplete
<1>1. TypeInv /\ RejoinInv => RejoinComplete
  BY DEF RejoinComplete, RejoinInv, StillToMove, ToBeMoved, TypeInv, RejoinMade, Resting
<1>2. TypeInv /\ RejoinInv /\ [Next]_vars => TypeInv' /\ RejoinInv'
  BY TypeStep, RejoinStep
<1> QED
  BY <1>1, <1>2, InitType, RejoinInit, PTL DEF Spec

=================================================================================
