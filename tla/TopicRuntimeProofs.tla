--------------------------- MODULE TopicRuntimeProofs ---------------------------
(***************************************************************************)
(* What holds of TopicRuntime for any topics, bounds and interleaving,     *)
(* whether or not a topic is subscribed again: the ranges of the           *)
(* variables, and how subscriptions, joins, tasks and rejoins refer to one *)
(* another.                                                                *)
(***************************************************************************)
EXTENDS TopicRuntime, FiniteSetTheorems, SequenceTheorems, WellFoundedInduction, TLAPS

\* Subscriptions are numbered in the order in which they are made, and each join has a
\* number of its own.
Numbered ==
  /\ Made = 1..Cardinality(Made)
  /\ \A x \in Subs \ Made : sub[x] = NoSub /\ call[x].at = "idle"
  /\ \A x \in Made : sub[x].gen \in 1..gen /\ sub[x].ref \in 1..refs
  /\ \A x, y \in Made : sub[x].ref = sub[y].ref => x = y

Named == \A t \in Topics : registry[t] # 0 => registry[t] \in Made /\ sub[registry[t]].name = t

\* What the tasks, calls and rejoins work on exists.
TasksMade ==
  \A o \in Tasks :
    /\ o > refs => task[o] = NoTask
    /\ task[o].at = "start" => task[o].topic \in Topics
    /\ task[o].at \in {"get", "callback", "cancelling", "leaving", "stuck"} => task[o].on \in Made

LeaversMade ==
  \A u \in Leavers :
    /\ leaver[u].at = "leaving" => leaver[u].on \in Made
    /\ leaver[u].at = "unregistering" => leaver[u].on \in Tasks \cup {0}

\* What a rejoin has still to join is of an earlier connection.
RejoinMade ==
  /\ rejoin.todo \subseteq Made /\ \A x \in rejoin.todo : sub[x].gen < gen
  /\ rejoin.at \notin Resting => rejoin.cur \in Made
  /\ rejoin.at \in {"drain", "drain_cancel", "drained", "reap"} =>
       sub[rejoin.cur].gen < gen /\ rejoin.cur \notin rejoin.todo
  /\ rejoin.at \in {"drain", "drain_cancel"} => rejoin.on \in Tasks /\ rejoin.on <= refs

\* Each connection joins each subscription once, so the join numbers never run out.
JoinedNow(g)   == {x \in Subs : sub[x].gen = g}
RefsBelow(g)   == refs <= (g - 1) * MaxSubs + Cardinality(JoinedNow(g))
RefsBounded    == RefsBelow(gen)

TypeInv == InRange /\ Numbered /\ Named /\ TasksMade /\ LeaversMade /\ RejoinMade /\ RefsBounded
---------------------------------------------------------------------------------
(***************************************************************************)
(* The operators of the model.                                             *)
(***************************************************************************)
LEMMA SetReadyType ==
  ASSUME NEW s \in Subscriptions, NEW r \in Futures
  PROVE  SetReady(s, r) \in Subscriptions
BY DEF SetReady, Set, Subscriptions

\* A subscription after its futures were settled.
SameJoin(s, r)  == r.name = s.name /\ r.gen = s.gen /\ r.ref = s.ref
SameQueue(s, r) == r.queue = s.queue /\ r.last = s.last

LEMMA SettleType ==
  ASSUME NEW s \in Subscriptions, NEW r \in Futures
  PROVE  /\ Settle(s, r) \in Subscriptions
         /\ SameJoin(s, Settle(s, r)) /\ SameQueue(s, Settle(s, r))
         /\ Settle(s, r).leave = s.leave
<1>1. SetReady(s, r) \in Subscriptions
  BY SetReadyType
<1>2. SameJoin(s, SetReady(s, r)) /\ SameQueue(s, SetReady(s, r))
        /\ SetReady(s, r).leave = s.leave
  BY DEF SetReady, SameJoin, SameQueue, Subscriptions
<1>3. Settle(s, r) = [SetReady(s, r) EXCEPT !.left = IF s.leave THEN Set(@, "failed") ELSE @]
  BY DEF Settle
<1>4. \A f \in Futures : Set(f, "failed") \in Futures
  BY DEF Set, Futures
<1> HIDE DEF Futures
<1> DEFINE ready == SetReady(s, r)
<1> HIDE DEF ready
<1> QED
  BY <1>1, <1>2, <1>3, <1>4 DEF SameJoin, SameQueue, Subscriptions, ready

LEMMA CancelType ==
  ASSUME NEW k \in Processors
  PROVE  /\ Cancel(k) \in Processors
         /\ Cancel(k).on = k.on /\ Cancel(k).topic = k.topic /\ Cancel(k).todo = k.todo
         /\ Cancel(k).msg = k.msg
         /\ Cancel(k).at \notin {"start", "get", "callback", "leaving"}
         /\ (Cancel(k).at \in {"cancelling", "stuck"}
               => k.at \in {"callback", "cancelling", "leaving", "stuck"})
         /\ (Cancel(k).at \in {"none", "done"} <=> k.at \in {"none", "done"})
BY DEF Cancel, Processors

LEMMA MessageType ==
  ASSUME NEW kind \in {"event", "reply_ok", "reply_error"}, NEW t \in Topics, NEW ref \in Nat,
         NEW g \in 1..MaxGen, NEW id \in 0..MaxEvents
  PROVE  /\ Message(kind, t, ref, g, id) \in Messages
         /\ Message(kind, t, ref, g, id).gen = g /\ Message(kind, t, ref, g, id).kind = kind
         /\ Message(kind, t, ref, g, id).id = id
BY TopicAssumption DEF Message, Messages

LEMMA ConstantTypes ==
  /\ NoSub \in Subscriptions /\ NoTask \in Processors /\ Ended \in Processors
  /\ \A t \in Topics : NewTask(t) \in Processors
  /\ MaxSubs \in Nat /\ MaxGen \in Nat /\ MaxEvents \in Nat
<1>1. MaxSubs \in Nat /\ MaxGen \in Nat /\ MaxEvents \in Nat
  BY TopicAssumption
<1>2. NoSub \in Subscriptions
  <2>1. <<>> \in Seq(Messages)
    OBVIOUS
  <2> QED
    BY <1>1, <2>1 DEF NoSub, Subscriptions, Futures
<1>3. NoTask \in Processors
  BY <1>1 DEF NoTask, Processors, Numbers
<1>4. Ended \in Processors
  BY <1>3 DEF Ended, Processors
<1>5. \A t \in Topics : NewTask(t) \in Processors
  BY <1>3 DEF NewTask, Processors
<1> QED
  BY <1>1, <1>2, <1>3, <1>4, <1>5

\* What the server answers: one reply more, of the connection it was asked on.
Replies(g) == \E m \in Messages : m.kind # "event" /\ m.gen = g /\ wire' = Append(wire, m)

LEMMA ServerType ==
  ASSUME InRange, NEW t \in Topics, NEW ref \in Tasks, NEW g \in 1..MaxGen,
         ServerJoins(t, ref, g) \/ (ServerLeaves(t, ref) /\ g = gen)
  PROVE  /\ Replies(g) /\ wire' \in Seq(Messages)
         /\ joined' \in [Topics -> Tasks \cup {0}]
<1>1. ref \in Nat /\ 0 \in 0..MaxEvents
  BY ConstantTypes DEF Tasks
<1>2. /\ \E kind \in {"reply_ok", "reply_error"} :
           wire' = Append(wire, Message(kind, t, ref, g, 0))
      /\ joined' \in [Topics -> Tasks \cup {0}]
  BY DEF ServerJoins, ServerLeaves, InRange
<1>3. PICK kind \in {"reply_ok", "reply_error"} : wire' = Append(wire, Message(kind, t, ref, g, 0))
  BY <1>2
<1> DEFINE m == Message(kind, t, ref, g, 0)
<1>4. m \in Messages /\ m.gen = g /\ m.kind = kind
  BY <1>1, MessageType
<1> HIDE DEF m
<1>5. wire' = Append(wire, m) /\ wire \in Seq(Messages)
  BY <1>3 DEF m, InRange
<1> QED
  BY <1>2, <1>4, <1>5 DEF Replies

\* There is a number left for the join of a subscription that has none on connection g.
LEMMA JoinFits ==
  ASSUME InRange, NEW g \in 1..MaxGen, RefsBelow(g), NEW x \in Subs, sub[x].gen # g
  PROVE  /\ refs + 1 \in Tasks
         /\ refs + 1 <= (g - 1) * MaxSubs + Cardinality(JoinedNow(g) \cup {x})
<1>1. MaxSubs \in Nat /\ MaxGen \in Nat /\ refs \in Nat /\ g \in Nat /\ MaxGen - g \in Nat
  BY ConstantTypes DEF InRange, Tasks
<1>2. IsFiniteSet(Subs) /\ Cardinality(Subs) = MaxSubs
  BY <1>1, FS_Interval DEF Subs
<1>3. JoinedNow(g) \in SUBSET Subs /\ JoinedNow(g) \cup {x} \in SUBSET Subs /\ x \notin JoinedNow(g)
  BY DEF JoinedNow
<1>4. IsFiniteSet(JoinedNow(g))
  BY <1>2, <1>3, FS_Subset
<1>5. /\ Cardinality(JoinedNow(g)) \in Nat
      /\ Cardinality(JoinedNow(g) \cup {x}) = Cardinality(JoinedNow(g)) + 1
  BY <1>3, <1>4, FS_AddElement, FS_CardinalityType
<1>6. Cardinality(JoinedNow(g) \cup {x}) <= MaxSubs
  BY <1>2, <1>3, FS_Subset
<1> DEFINE c == Cardinality(JoinedNow(g))
           d == (MaxGen - g) * MaxSubs
           b == (g - 1) * MaxSubs
<1>7. d \in Nat /\ b \in Int /\ b + MaxSubs + d = MaxSubs * MaxGen
  BY <1>1
<1>8. refs <= b + c /\ c \in Nat /\ c + 1 <= MaxSubs
  BY <1>5, <1>6 DEF RefsBelow
<1>9. Tasks = 1..(MaxSubs * MaxGen)
  BY DEF Tasks
<1>10. MaxSubs * MaxGen \in Nat
  BY <1>1
<1> HIDE DEF b, c, d
<1>11. refs + 1 \in Tasks /\ refs + 1 <= b + (c + 1)
  <2> DEFINE limit == MaxSubs * MaxGen
  <2>1. b + MaxSubs + d = limit /\ limit \in Nat /\ Tasks = 1..limit
    BY <1>7, <1>9, <1>10
  <2> HIDE DEF limit
  <2> QED
    BY <2>1, <1>1, <1>7, <1>8
<1> QED
  BY <1>5, <1>11 DEF b, c

\* On a connection that is to come nothing is joined yet.
LEMMA FreshConnection ==
  ASSUME TypeInv
  PROVE  RefsBelow(gen + 1) /\ \A x \in Subs : sub[x].gen < gen + 1
<1>1. \A x \in Subs : sub[x].gen <= gen /\ sub[x].gen \in Nat
  BY ConstantTypes DEF TypeInv, InRange, SubsOK, Subscriptions, Numbered, NoSub
<1>2. MaxSubs \in Nat /\ refs \in Nat /\ gen \in Nat
  BY ConstantTypes DEF TypeInv, InRange, Tasks
<1>3. IsFiniteSet(Subs) /\ Cardinality(Subs) = MaxSubs
  BY <1>2, FS_Interval DEF Subs
<1>4. JoinedNow(gen + 1) = {}
  BY <1>1, <1>2 DEF JoinedNow
<1>5. Cardinality(JoinedNow(gen + 1)) = 0
  BY <1>4, FS_EmptySet
<1>6. JoinedNow(gen) \in SUBSET Subs
  BY DEF JoinedNow
<1>7. Cardinality(JoinedNow(gen)) \in Nat /\ Cardinality(JoinedNow(gen)) <= MaxSubs
  BY <1>3, <1>6, FS_Subset, FS_CardinalityType
<1>8. refs <= (gen - 1) * MaxSubs + Cardinality(JoinedNow(gen))
  BY DEF TypeInv, RefsBounded, RefsBelow
<1> DEFINE b == (gen - 1) * MaxSubs
<1>9. b \in Int /\ b + MaxSubs = ((gen + 1) - 1) * MaxSubs
  BY <1>2
<1> DEFINE c == Cardinality(JoinedNow(gen))
           n == ((gen + 1) - 1) * MaxSubs
<1>10. refs <= b + c /\ b + MaxSubs = n
  BY <1>8, <1>9
<1> HIDE DEF b, c, n
<1>11. refs <= n + 0
  BY <1>2, <1>7, <1>9, <1>10 DEF c
<1> QED
  BY <1>1, <1>2, <1>5, <1>11 DEF n, RefsBelow

---------------------------------------------------------------------------------
(***************************************************************************)
(* Most steps make no subscription and join none.                          *)
(***************************************************************************)
\* Task o exists and does not become one that is still to start, or stays as it is.
TaskGoesOn(o) ==
  \/ task'[o] = task[o]
  \/ /\ o <= refs /\ task'[o].at # "start"
     /\ task'[o].at \in {"get", "callback", "cancelling", "leaving", "stuck"}
          => task'[o].on \in Made

NothingMade ==
  /\ sub' \in [Subs -> Subscriptions] /\ task' \in [Tasks -> Processors]
  /\ \A x \in Made : SameJoin(sub[x], sub'[x])
  /\ \A x \in Subs \ Made : sub'[x] = sub[x] /\ call'[x].at = call[x].at
  /\ registry' \in [Topics -> Numbers] /\ \A t \in Topics : registry'[t] \in {registry[t], 0}
  /\ \A o \in Tasks : TaskGoesOn(o)
  /\ UNCHANGED <<gen, refs>>

LEMMA SameMade ==
  ASSUME TypeInv, NothingMade
  PROVE  /\ Made' = Made /\ Numbered' /\ Named' /\ TasksMade' /\ RefsBounded'
         /\ \A x \in Subs : sub'[x].gen = sub[x].gen
<1> USE DEF TypeInv, NothingMade
<1>1. \A x \in Subs : SameJoin(sub[x], sub'[x])
  BY DEF SameJoin
<1>2. Made' = Made
  BY <1>1 DEF Made, SameJoin
<1>3. Numbered'
  <2>1. Numbered /\ gen' = gen /\ refs' = refs /\ \A x \in Made : x \in Subs
    BY DEF Made
  <2>2. \A x \in Subs \ Made' : sub'[x] = NoSub /\ call'[x].at = "idle"
    BY <1>2, <2>1 DEF Numbered
  <2>3. \A x \in Made' : sub'[x].gen = sub[x].gen /\ sub'[x].ref = sub[x].ref
    BY <1>1, <1>2, <2>1 DEF SameJoin
  <2> QED
    BY <1>2, <2>1, <2>2, <2>3 DEF Numbered
<1>4. Named'
  BY <1>1, <1>2 DEF Named, SameJoin, Made
<1>5. TasksMade'
  <2>1. /\ \A o \in Tasks : o \in Int
        /\ refs \in Int /\ refs' = refs
    BY ConstantTypes DEF Tasks, InRange
  <2> SUFFICES ASSUME NEW o \in Tasks
               PROVE  /\ o > refs => task'[o] = NoTask
                      /\ task'[o].at = "start" => task'[o].topic \in Topics
                      /\ task'[o].at \in {"get", "callback", "cancelling", "leaving", "stuck"}
                           => task'[o].on \in Made
    BY <1>2, <2>1 DEF TasksMade
  <2>2. CASE task'[o] = task[o]
    BY <2>2 DEF TasksMade
  <2>3. CASE task'[o] # task[o]
    BY <2>1, <2>3 DEF TaskGoesOn
  <2> QED
    BY <2>2, <2>3
<1>6. JoinedNow(gen)' = JoinedNow(gen)
  BY <1>1 DEF JoinedNow, SameJoin
<1>7. RefsBounded'
  BY <1>6 DEF RefsBounded, RefsBelow
<1> QED
  BY <1>1, <1>2, <1>3, <1>4, <1>5, <1>7 DEF SameJoin

\* What a task of a subscription is, when it has not ended.
LEMMA ProcessorMade ==
  ASSUME TypeInv, NEW x \in Made
  PROVE  x \in Subs /\ Processor(x) \in Tasks /\ Processor(x) <= refs
<1>1. x \in Subs /\ sub[x].ref \in 1..refs /\ refs \in Tasks \cup {0}
  BY DEF TypeInv, Numbered, Made, InRange
<1>2. MaxSubs * MaxGen \in Int
  BY ConstantTypes
<1> QED
  BY <1>1, <1>2 DEF Tasks, Processor

LEMMA Registers ==
  ASSUME TypeInv, NEW t \in Topics, registry[t] # 0
  PROVE  /\ registry[t] \in Made /\ Registered(registry[t])
         /\ sub[registry[t]].name = t
BY DEF TypeInv, Named, Registered, Made

\* _unregister_topic, given what else the step does to the subscriptions.
LEMMA Unregisters ==
  ASSUME TypeInv, NEW s \in [Subs -> Subscriptions], NEW t \in Topics, NEW r \in Futures,
         \A x \in Made : SameJoin(sub[x], s[x]) /\ SameQueue(sub[x], s[x]),
         \A x \in Subs \ Made : s[x] = sub[x],
         Unregister(s, t, r)
  PROVE  /\ registry' = [registry EXCEPT ![t] = 0] /\ registry' \in [Topics -> Numbers]
         /\ sub' \in [Subs -> Subscriptions] /\ task' \in [Tasks -> Processors]
         /\ \A x \in Made : SameJoin(sub[x], sub'[x]) /\ SameQueue(sub[x], sub'[x])
         /\ \A x \in Subs \ Made : sub'[x] = sub[x]
         /\ \A o \in Tasks : task'[o] = task[o] \/ (task'[o] = Cancel(task[o]) /\ o <= refs)
         /\ Awaited(t) \in Tasks \cup {0}
<1> DEFINE x == registry[t]
<1>1. CASE x = 0
  <2>1. registry' = [registry EXCEPT ![t] = 0] /\ sub' = s /\ task' = task
    BY <1>1 DEF Unregister
  <2>2. registry' \in [Topics -> Numbers]
    BY <2>1, ConstantTypes DEF TypeInv, InRange, Numbers
  <2> QED
    BY <1>1, <2>1, <2>2 DEF Awaited, TypeInv, InRange, TasksOK
<1>2. CASE x # 0
  <2>1. x \in Made /\ x \in Subs /\ Processor(x) \in Tasks /\ Processor(x) <= refs
    BY <1>2, Registers, ProcessorMade
  <2>2. /\ registry' = [registry EXCEPT ![t] = 0]
        /\ sub' = [s EXCEPT ![x] = Settle(s[x], r)]
        /\ task' = [task EXCEPT ![Processor(x)] = Cancel(task[Processor(x)])]
    BY <1>2 DEF Unregister
  <2>3. Awaited(t) \in Tasks \cup {0}
    BY <2>1 DEF Awaited
  <2>4. Settle(s[x], r) \in Subscriptions /\ SameJoin(s[x], Settle(s[x], r))
          /\ SameQueue(s[x], Settle(s[x], r))
    BY <2>1, SettleType
  <2>5. Cancel(task[Processor(x)]) \in Processors
    BY <2>1, CancelType DEF TypeInv, InRange, TasksOK
  <2>6. registry' \in [Topics -> Numbers]
    BY <2>2, ConstantTypes DEF TypeInv, InRange, Numbers
  <2>7. sub' \in [Subs -> Subscriptions]
    BY <2>1, <2>2, <2>4
  <2>8. task' \in [Tasks -> Processors]
    BY <2>1, <2>2, <2>5 DEF TypeInv, InRange, TasksOK
  <2>9. \A y \in Made : SameJoin(sub[y], sub'[y]) /\ SameQueue(sub[y], sub'[y])
    BY <2>1, <2>2, <2>4 DEF SameJoin, SameQueue, Made
  <2>10. \A y \in Subs \ Made : sub'[y] = sub[y]
    BY <2>1, <2>2
  <2>11. \A o \in Tasks : task'[o] = task[o] \/ (task'[o] = Cancel(task[o]) /\ o <= refs)
    <3>1. task \in [Tasks -> Processors]
      BY DEF TypeInv, InRange, TasksOK
    <3> QED
      BY <2>1, <2>2, <3>1
  <2> QED
    BY <2>2, <2>3, <2>6, <2>7, <2>8, <2>9, <2>10, <2>11
<1> QED
  BY <1>1, <1>2

\* The ranges of what a step leaves to be shown when it makes and joins nothing.
Lengths   == \A x \in Subs : Len(sub[x].queue) <= QueueSize
Callbacks == \A o \in Tasks : task[o].at = "callback" => task[o].todo # {}
Network   == /\ link \in {"up", "down"} /\ connected \in BOOLEAN /\ events \in 0..MaxEvents
             /\ wire \in Seq(Messages) /\ joined \in [Topics -> Tasks \cup {0}]

LEMMA Ranges ==
  ASSUME TypeInv
  PROVE  Lengths /\ Callbacks /\ Network
BY DEF TypeInv, InRange, SubsOK, TasksOK, Lengths, Callbacks, Network

LEMMA Keeps ==
  ASSUME TypeInv, NothingMade, Lengths', Callbacks', Network', CallsOK', LeaversMade', RejoinMade'
  PROVE  TypeInv'
<1>1. Numbered' /\ Named' /\ TasksMade' /\ RefsBounded'
  BY SameMade
<1>2. SubsOK' /\ TasksOK'
  BY DEF NothingMade, SubsOK, TasksOK, Lengths, Callbacks
<1>3. InRange'
  BY <1>2 DEF InRange, Network, NothingMade, TypeInv
<1> QED
  BY <1>1, <1>3 DEF TypeInv

\* What is left alone stays in its range.
LEMMA RestKept ==
  ASSUME TypeInv
  PROVE  /\ (NothingMade /\ UNCHANGED rejoin => RejoinMade')
         /\ (NothingMade /\ UNCHANGED leaver => LeaversMade')
         /\ (UNCHANGED <<calls, shutdown, rejoin>> => CallsOK')
         /\ (UNCHANGED <<sub, task, gen, refs, registry>> /\ UNCHANGED call => NothingMade)
         /\ (UNCHANGED sub => Lengths') /\ (UNCHANGED task => Callbacks')
         /\ (UNCHANGED <<link, connected, events, server>> => Network')
<1>1. ASSUME NothingMade, UNCHANGED rejoin
      PROVE  RejoinMade'
  <2>1. Made' = Made /\ gen' = gen /\ refs' = refs /\ \A x \in Subs : sub'[x].gen = sub[x].gen
    BY <1>1, SameMade DEF NothingMade
  <2>2. Made \subseteq Subs
    BY DEF Made
  <2> QED
    BY <1>1, <2>1, <2>2 DEF RejoinMade, TypeInv, Resting
<1>2. ASSUME NothingMade, UNCHANGED leaver
      PROVE  LeaversMade'
  <2>1. Made' = Made
    BY <1>2, SameMade
  <2> QED
    BY <1>2, <2>1 DEF LeaversMade, TypeInv
<1>3. ASSUME UNCHANGED <<calls, shutdown, rejoin>>
      PROVE  CallsOK'
  BY <1>3 DEF CallsOK, TypeInv, InRange, calls
<1>4. ASSUME UNCHANGED <<sub, task, gen, refs, registry>>, UNCHANGED call
      PROVE  NothingMade
  BY <1>4 DEF NothingMade, TypeInv, InRange, SubsOK, TasksOK, SameJoin, TaskGoesOn
<1>5. UNCHANGED sub => Lengths'
  BY Ranges DEF Lengths
<1>6. UNCHANGED task => Callbacks'
  BY Ranges DEF Callbacks
<1>7. UNCHANGED <<link, connected, events, server>> => Network'
  BY Ranges DEF Network, server
<1> QED
  BY <1>1, <1>2, <1>3, <1>4, <1>5, <1>6, <1>7

---------------------------------------------------------------------------------
(***************************************************************************)
(* The steps of the server, the network and the routing task.              *)
(***************************************************************************)
LEMMA PushType ==
  ASSUME TypeInv, NEW t \in Topics, Push(t)
  PROVE  TypeInv'
<1> USE DEF Push, calls, net
<1>1. joined[t] \in Nat /\ gen \in 1..MaxGen /\ events + 1 \in 0..MaxEvents
  BY ConstantTypes DEF TypeInv, InRange, Tasks
<1>2. Message("event", t, joined[t], gen, events + 1) \in Messages
  BY <1>1, MessageType
<1>3. NothingMade
  BY RestKept
<1>4. Network'
  BY <1>1, <1>2, Ranges DEF Network
<1> QED
  BY <1>3, <1>4, Keeps, RestKept

LEMMA PeerLostType ==
  ASSUME TypeInv, PeerLost
  PROVE  TypeInv'
<1> USE DEF PeerLost, calls
<1>1. NothingMade
  BY RestKept
<1>2. wire' \in Seq(Messages)
  BY Ranges, SubSeqProperties DEF Network
<1>3. Network'
  BY <1>2, Ranges DEF Network
<1> QED
  BY <1>1, <1>3, Keeps, RestKept

LEMMA EnqueueType ==
  ASSUME NEW q \in Seq(Messages), NEW m \in Messages, Len(q) <= QueueSize
  PROVE  Enqueue(q, m) \in Seq(Messages) /\ Len(Enqueue(q, m)) <= QueueSize
<1>1. QueueSize \in Nat \ {0} /\ Len(q) \in Nat
  BY TopicAssumption
<1>2. CASE Len(q) < QueueSize
  BY <1>1, <1>2 DEF Enqueue
<1>3. CASE Len(q) >= QueueSize
  <2>1. q # <<>>
    BY <1>1, <1>3
  <2>2. Tail(q) \in Seq(Messages) /\ Len(Tail(q)) = Len(q) - 1
    BY <2>1, HeadTailProperties
  <2> QED
    BY <1>1, <1>3, <2>2 DEF Enqueue
<1> QED
  BY <1>1, <1>2, <1>3

\* What Route does to the subscriptions.
LEMMA RouteEffect ==
  ASSUME TypeInv, Route
  PROVE  /\ wire # <<>> /\ Head(wire) \in Messages
         /\ Tail(wire) \in Seq(Messages) /\ wire' = Tail(wire)
         /\ \/ sub' = sub
            \/ \E x \in Made : /\ Registered(x) /\ sub[x].gen = gen /\ CurrentJoin(x, Head(wire))
                              /\ sub[x].name = Head(wire).topic
                              /\ sub' = [sub EXCEPT ![x].queue = Enqueue(sub[x].queue, Head(wire))]
<1>1. wire # <<>> /\ wire' = Tail(wire) /\ wire \in Seq(Messages)
  BY Ranges DEF Route, Network
<1>2. Head(wire) \in Messages /\ Tail(wire) \in Seq(Messages)
  BY <1>1, HeadTailProperties
<1>3. Head(wire).topic \in Topics
  BY <1>2 DEF Messages
<1>4. registry[Head(wire).topic] # 0
        => /\ registry[Head(wire).topic] \in Made /\ Registered(registry[Head(wire).topic])
           /\ sub[registry[Head(wire).topic]].name = Head(wire).topic
  BY <1>3, Registers
<1> QED
  BY <1>1, <1>2, <1>4 DEF Route

LEMMA RouteType ==
  ASSUME TypeInv, Route
  PROVE  TypeInv'
<1>1. UNCHANGED <<registry, task, call, leaver, calls, rejoin, net, gen, link, connected, shutdown,
                  refs, joined, events>>
  BY DEF Route, calls, net
<1>2. wire' \in Seq(Messages)
  BY RouteEffect
<1>3. sub' \in [Subs -> Subscriptions] /\ Lengths'
      /\ (\A x \in Made : SameJoin(sub[x], sub'[x])) /\ \A x \in Subs \ Made : sub'[x] = sub[x]
  <2>1. sub \in [Subs -> Subscriptions] /\ Lengths /\ Made \subseteq Subs
    BY Ranges DEF TypeInv, InRange, SubsOK, Made
  <2>2. CASE sub' = sub
    BY <1>1, <2>1, <2>2 DEF Lengths, SameJoin
  <2>3. CASE sub' # sub
    <3> DEFINE m == Head(wire)
    <3>1. PICK x \in Made : sub' = [sub EXCEPT ![x].queue = Enqueue(sub[x].queue, m)]
      BY <2>3, RouteEffect
    <3>2. m \in Messages
      BY RouteEffect
    <3>3. sub[x].queue \in Seq(Messages) /\ Len(sub[x].queue) <= QueueSize
      BY <2>1 DEF Lengths, Subscriptions
    <3> DEFINE q == Enqueue(sub[x].queue, m)
    <3>4. q \in Seq(Messages) /\ Len(q) <= QueueSize
      BY <3>2, <3>3, EnqueueType
    <3>5. sub' = [sub EXCEPT ![x].queue = q]
      BY <3>1
    <3> HIDE DEF q, m
    <3>6. [sub[x] EXCEPT !.queue = q] \in Subscriptions
      BY <2>1, <3>4 DEF Subscriptions
    <3>7. sub' \in [Subs -> Subscriptions]
      BY <2>1, <3>5, <3>6
    <3>8. \A y \in Subs : /\ SameJoin(sub[y], sub'[y]) /\ sub'[y].last = sub[y].last
                          /\ sub'[y].queue = IF y = x THEN q ELSE sub[y].queue
      BY <2>1, <3>5 DEF SameJoin, Subscriptions
    <3>9. \A y \in Subs \ Made : sub'[y] = sub[y]
      BY <2>1, <3>5
    <3> QED
      BY <1>1, <2>1, <3>4, <3>7, <3>8, <3>9 DEF Lengths
  <2> QED
    BY <2>2, <2>3
<1>4. NothingMade
  BY <1>1, <1>3 DEF NothingMade, TaskGoesOn, TypeInv, InRange, TasksOK
<1>5. Network'
  BY <1>1, <1>2, Ranges DEF Network
<1> QED
  BY <1>1, <1>3, <1>4, <1>5, Keeps, RestKept

---------------------------------------------------------------------------------
(***************************************************************************)
(* A step of one subscription, or of one task.                             *)
(***************************************************************************)
LEMMA OneSub ==
  ASSUME TypeInv, NEW x \in Made, NEW s \in Subscriptions, SameJoin(sub[x], s),
         Len(s.queue) <= QueueSize, sub' = [sub EXCEPT ![x] = s]
  PROVE  /\ sub' \in [Subs -> Subscriptions]
         /\ \A y \in Made : SameJoin(sub[y], sub'[y])
         /\ \A y \in Subs \ Made : sub'[y] = sub[y]
         /\ Lengths'
<1>1. sub \in [Subs -> Subscriptions] /\ Lengths /\ Made \subseteq Subs
  BY Ranges DEF TypeInv, InRange, SubsOK, Made
<1>2. sub' \in [Subs -> Subscriptions]
  BY <1>1
<1>3. \A y \in Subs : sub'[y] = IF y = x THEN s ELSE sub[y]
  BY <1>1
<1>4. \A y \in Made : SameJoin(sub[y], sub'[y])
  BY <1>1, <1>3 DEF SameJoin
<1>5. \A y \in Subs \ Made : sub'[y] = sub[y]
  BY <1>1, <1>3
<1>6. Lengths'
  BY <1>1, <1>3 DEF Lengths
<1> QED
  BY <1>2, <1>4, <1>5, <1>6

LEMMA OneTask ==
  ASSUME TypeInv, NEW o \in Tasks, task[o].at # "none", NEW k \in Processors, k.at # "start",
         k.at \in {"get", "callback", "cancelling", "leaving", "stuck"} => k.on \in Made,
         k.at = "callback" => k.todo # {}, task' = [task EXCEPT ![o] = k]
  PROVE  /\ task' \in [Tasks -> Processors] /\ Callbacks'
         /\ o <= refs /\ \A p \in Tasks : TaskGoesOn(p)
<1>1. task \in [Tasks -> Processors] /\ Callbacks /\ o \in Int /\ refs \in Int
  BY Ranges, ConstantTypes DEF TypeInv, InRange, TasksOK, Tasks
<1>2. o <= refs
  <2>1. task[o] # NoTask
    BY DEF NoTask
  <2> QED
    BY <1>1, <2>1 DEF TypeInv, TasksMade
<1>3. \A p \in Tasks : task'[p] = IF p = o THEN k ELSE task[p]
  BY <1>1
<1>4. task' \in [Tasks -> Processors]
  BY <1>1
<1>5. Callbacks'
  BY <1>1, <1>3 DEF Callbacks
<1> QED
  BY <1>2, <1>3, <1>4, <1>5 DEF TaskGoesOn

---------------------------------------------------------------------------------
(***************************************************************************)
(* The processors.                                                         *)
(***************************************************************************)
LEMMA ProcessorType ==
  ASSUME TypeInv, NEW o \in Tasks, ProcessorStarts(o) \/ ProcessorStops(o)
  PROVE  TypeInv'
<1>1. /\ UNCHANGED <<registry, sub, call, leaver, calls, rejoin, net, gen, link, connected,
                     shutdown, refs, server, events>>
      /\ task[o].at \in {"start", "stopping"} /\ Made \subseteq Subs
  BY DEF ProcessorStarts, ProcessorStops, calls, net, Made
<1>2. PICK k \in Processors :
        /\ task' = [task EXCEPT ![o] = k] /\ k.at \in {"done", "get"}
        /\ k.at = "get" => k.on \in Made
  <2>1. CASE task' = [task EXCEPT ![o] = Ended]
    <3>1. Ended \in Processors /\ Ended.at = "done"
      BY ConstantTypes DEF Ended, NoTask
    <3> QED
      BY <2>1, <3>1
  <2>2. CASE task' # [task EXCEPT ![o] = Ended]
    <3> DEFINE x == registry[task[o].topic]
               k == [task[o] EXCEPT !.on = x, !.at = "get"]
    <3>1. ProcessorStarts(o) /\ x # 0
      BY <2>2 DEF ProcessorStarts, ProcessorStops
    <3>2. task[o].topic \in Topics
      BY <3>1 DEF TypeInv, TasksMade, ProcessorStarts
    <3>3. x \in Made
      BY <3>1, <3>2, Registers
    <3>4. x \in Numbers
      BY <3>2 DEF TypeInv, InRange
    <3>5. k \in Processors /\ k.at = "get" /\ k.on = x
      BY <3>4 DEF TypeInv, InRange, TasksOK, Processors
    <3>6. task' = [task EXCEPT ![o] = k]
      BY <3>1 DEF ProcessorStarts
    <3> QED
      BY <3>3, <3>5, <3>6
  <2> QED
    BY <2>1, <2>2
<1>3. task' \in [Tasks -> Processors] /\ Callbacks' /\ \A p \in Tasks : TaskGoesOn(p)
  BY <1>1, <1>2, OneTask
<1>4. NothingMade
  BY <1>1, <1>3 DEF NothingMade, TypeInv, InRange, SubsOK, SameJoin
<1> QED
  BY <1>1, <1>3, <1>4, Keeps, RestKept

LEMMA ResponseType ==
  ASSUME NEW s \in Subscriptions, NEW m \in Messages
  PROVE  /\ JoinResponse(s, m) \in Subscriptions /\ LeaveResponse(s, m) \in Subscriptions
         /\ SameJoin(s, JoinResponse(s, m)) /\ SameQueue(s, JoinResponse(s, m))
         /\ SameJoin(s, LeaveResponse(s, m)) /\ SameQueue(s, LeaveResponse(s, m))
<1>1. m.kind \in {"event", "reply_ok", "reply_error"}
  BY DEF Messages
<1>2. \A r \in Futures : SetReady(s, r) \in Subscriptions
  BY SetReadyType
<1>3. \A r \in Futures : SameJoin(s, SetReady(s, r)) /\ SameQueue(s, SetReady(s, r))
  BY DEF SetReady, SameJoin, SameQueue, Subscriptions
<1>4. "ok" \in Futures /\ "refused" \in Futures
  BY DEF Futures
<1>5. JoinResponse(s, m) \in {s, SetReady(s, "ok"), SetReady(s, "refused")}
  BY <1>1 DEF JoinResponse
<1>6. SameJoin(s, s) /\ SameQueue(s, s)
  BY DEF SameJoin, SameQueue
<1>7. JoinResponse(s, m) \in Subscriptions /\ SameJoin(s, JoinResponse(s, m))
        /\ SameQueue(s, JoinResponse(s, m))
  BY <1>2, <1>3, <1>4, <1>5, <1>6
<1> DEFINE left == CASE m.kind = "event"       -> s.left
                     [] m.kind = "reply_ok"    -> Set(s.left, "ok")
                     [] m.kind = "reply_error" -> Set(s.left, "refused")
<1>8. left \in Futures
  BY <1>1 DEF Set, Futures, Subscriptions
<1>9. LeaveResponse(s, m) = [s EXCEPT !.left = left]
  BY DEF LeaveResponse
<1> HIDE DEF left
<1>10. LeaveResponse(s, m) \in Subscriptions /\ SameJoin(s, LeaveResponse(s, m))
        /\ SameQueue(s, LeaveResponse(s, m))
  BY <1>8, <1>9 DEF Subscriptions, SameJoin, SameQueue
<1> QED
  BY <1>7, <1>10

\* What Dispatch does with message m of subscription x: s is the object without m.
Ignored(o, x, s)     == sub' = [sub EXCEPT ![x] = s] /\ task' = task
JoinAnswer(o, x, m, s) ==
  /\ sub[x].ready # "ok" /\ CurrentJoin(x, m)
  /\ sub' = [sub EXCEPT ![x] = JoinResponse(s, m)] /\ task' = task
LeaveAnswer(o, x, m, s) ==
  /\ sub[x].leave /\ sub' = [sub EXCEPT ![x] = LeaveResponse(s, m)]
  /\ task' = task \/ task' = [task EXCEPT ![o] = Ended]
CallbackStarts(o, x, m, s) ==
  /\ CurrentJoin(x, m) /\ sub[x].ready = "ok" /\ ~sub[x].leave /\ Snapshot(s, m) # {}
  /\ sub' = [sub EXCEPT ![x] = IF m.kind = "event" THEN [s EXCEPT !.last = m.id] ELSE s]
  /\ task' = [task EXCEPT ![o] =
                [task[o] EXCEPT !.at = "callback", !.msg = m, !.todo = Snapshot(s, m)]]

LEMMA DispatchEffect ==
  ASSUME TypeInv, NEW o \in Tasks, Dispatch(o), NEW x, x = task[o].on,
         NEW m, m = Head(sub[x].queue), NEW s, s = [sub[x] EXCEPT !.queue = Tail(sub[x].queue)]
  PROVE  /\ x \in Made /\ sub[x].queue # <<>> /\ m \in Messages
         /\ s \in Subscriptions /\ SameJoin(sub[x], s) /\ s.last = sub[x].last
         /\ s.queue = Tail(sub[x].queue) /\ Len(s.queue) <= QueueSize
         /\ s.leave = sub[x].leave /\ s.handlers = sub[x].handlers
         /\ Snapshot(s, m) \subseteq HandlerKinds
         /\ \/ Ignored(o, x, s) \/ JoinAnswer(o, x, m, s) \/ LeaveAnswer(o, x, m, s)
            \/ CallbackStarts(o, x, m, s)
<1>1. x \in Made /\ x \in Subs
  BY DEF TypeInv, TasksMade, Dispatch, Made
<1>2. sub[x] \in Subscriptions /\ Len(sub[x].queue) <= QueueSize
  BY <1>1, Ranges DEF TypeInv, InRange, SubsOK, Lengths
<1>3. sub[x].queue \in Seq(Messages) /\ sub[x].queue # <<>>
  BY <1>2 DEF Dispatch, Subscriptions
<1>4. /\ m \in Messages /\ Tail(sub[x].queue) \in Seq(Messages)
      /\ Len(Tail(sub[x].queue)) = Len(sub[x].queue) - 1 /\ Len(sub[x].queue) \in Nat
  BY <1>3, HeadTailProperties
<1>5. QueueSize \in Nat
  BY TopicAssumption
<1> DEFINE q == Tail(sub[x].queue)
<1>6. q \in Seq(Messages) /\ Len(q) <= QueueSize /\ s = [sub[x] EXCEPT !.queue = q]
  BY <1>2, <1>4, <1>5
<1> HIDE DEF q
<1>7. /\ s \in Subscriptions /\ SameJoin(sub[x], s) /\ s.last = sub[x].last /\ s.queue = q
      /\ s.leave = sub[x].leave /\ s.handlers = sub[x].handlers /\ s.ready = sub[x].ready
  BY <1>2, <1>6 DEF Subscriptions, SameJoin
<1>8. Snapshot(s, m) \subseteq HandlerKinds
  BY DEF Snapshot, HandlerKinds
<1>9. task' = [task EXCEPT ![o] = task[o]] => task' = task
  BY DEF TypeInv, InRange, TasksOK
<1> DEFINE mode == Mode(s, x, m)
           todo == Snapshot(s, m)
           result == CASE mode = "stale" -> s
                       [] mode = "join"  -> JoinResponse(s, m)
                       [] mode = "leave" -> LeaveResponse(s, m)
                       [] OTHER -> IF m.kind = "event" /\ todo # {} THEN [s EXCEPT !.last = m.id]
                                   ELSE s
           next == CASE mode = "normal" /\ todo # {} ->
                          [task[o] EXCEPT !.at = "callback", !.msg = m, !.todo = todo]
                     [] mode = "leave" /\ result.left # "pending" -> Ended
                     [] OTHER -> task[o]
<1>10. sub' = [sub EXCEPT ![x] = result] /\ task' = [task EXCEPT ![o] = next]
  BY DEF Dispatch
<1>11. \/ mode = "stale"
       \/ mode = "join" /\ s.ready # "ok" /\ CurrentJoin(x, m)
       \/ mode = "leave" /\ s.leave
       \/ mode = "normal" /\ s.ready = "ok" /\ ~s.leave /\ CurrentJoin(x, m)
  BY DEF Mode
<1> HIDE DEF mode
<1>12. mode = "stale" => result = s /\ next = task[o]
  OBVIOUS
<1>13. mode = "join" => result = JoinResponse(s, m) /\ next = task[o]
  OBVIOUS
<1>14. mode = "leave" => result = LeaveResponse(s, m) /\ next \in {task[o], Ended}
  OBVIOUS
<1>15. mode = "normal" /\ todo = {} => result = s /\ next = task[o]
  OBVIOUS
<1>16. mode = "normal" /\ todo # {} =>
         /\ result = IF m.kind = "event" THEN [s EXCEPT !.last = m.id] ELSE s
         /\ next = [task[o] EXCEPT !.at = "callback", !.msg = m, !.todo = todo]
  OBVIOUS
<1> HIDE DEF todo, result, next
<1>17. Ignored(o, x, s) \/ JoinAnswer(o, x, m, s) \/ LeaveAnswer(o, x, m, s)
         \/ CallbackStarts(o, x, m, s)
  <2>1. CASE mode = "stale"
    BY <1>9, <1>10, <1>12, <2>1 DEF Ignored
  <2>2. CASE mode = "join" /\ s.ready # "ok" /\ CurrentJoin(x, m)
    BY <1>7, <1>9, <1>10, <1>13, <2>2 DEF JoinAnswer
  <2>3. CASE mode = "leave" /\ s.leave
    BY <1>7, <1>9, <1>10, <1>14, <2>3 DEF LeaveAnswer
  <2>4. CASE mode = "normal" /\ s.ready = "ok" /\ ~s.leave /\ CurrentJoin(x, m) /\ todo = {}
    BY <1>9, <1>10, <1>15, <2>4 DEF Ignored
  <2>5. CASE mode = "normal" /\ s.ready = "ok" /\ ~s.leave /\ CurrentJoin(x, m) /\ todo # {}
    BY <1>7, <1>10, <1>16, <2>5 DEF CallbackStarts, todo
  <2> QED
    BY <1>11, <2>1, <2>2, <2>3, <2>4, <2>5
<1> QED
  BY <1>1, <1>3, <1>4, <1>6, <1>7, <1>8, <1>17 DEF q

LEMMA DispatchType ==
  ASSUME TypeInv, NEW o \in Tasks, Dispatch(o)
  PROVE  TypeInv'
<1>1. UNCHANGED <<registry, call, leaver, calls, rejoin, net, gen, link, connected, shutdown,
                  refs, server, events>>
  BY DEF Dispatch, calls, net
<1> DEFINE x == task[o].on
           m == Head(sub[x].queue)
           s == [sub[x] EXCEPT !.queue = Tail(sub[x].queue)]
<1>2. x = task[o].on /\ m = Head(sub[x].queue) /\ s = [sub[x] EXCEPT !.queue = Tail(sub[x].queue)]
  OBVIOUS
<1>3. /\ x \in Made /\ m \in Messages /\ s \in Subscriptions /\ SameJoin(sub[x], s)
      /\ s.last = sub[x].last /\ Len(s.queue) <= QueueSize
      /\ Snapshot(s, m) \subseteq HandlerKinds
      /\ \/ Ignored(o, x, s) \/ JoinAnswer(o, x, m, s) \/ LeaveAnswer(o, x, m, s)
         \/ CallbackStarts(o, x, m, s)
  BY DispatchEffect
<1> HIDE DEF x, m, s
<1>4. m.id \in 0..MaxEvents
  BY <1>3 DEF Messages
<1>5. task \in [Tasks -> Processors] /\ task[o].at = "get" /\ task[o].on = x
  BY <1>2 DEF TypeInv, InRange, TasksOK, Dispatch
<1>6. PICK r \in Subscriptions :
        sub' = [sub EXCEPT ![x] = r] /\ SameJoin(sub[x], r) /\ Len(r.queue) <= QueueSize
  <2>1. JoinResponse(s, m) \in Subscriptions /\ SameJoin(s, JoinResponse(s, m))
          /\ SameQueue(s, JoinResponse(s, m))
    BY <1>3, ResponseType
  <2>2. LeaveResponse(s, m) \in Subscriptions /\ SameJoin(s, LeaveResponse(s, m))
          /\ SameQueue(s, LeaveResponse(s, m))
    BY <1>3, ResponseType
  <2> DEFINE r == [s EXCEPT !.last = m.id]
  <2>3. r \in Subscriptions /\ SameJoin(s, r) /\ r.queue = s.queue /\ r.last = m.id
    BY <1>3, <1>4 DEF Subscriptions, SameJoin
  <2> HIDE DEF r
  <2>4. CASE Ignored(o, x, s)
    BY <1>3, <2>4 DEF Ignored
  <2>5. CASE JoinAnswer(o, x, m, s)
    BY <1>3, <2>1, <2>5 DEF JoinAnswer, SameJoin, SameQueue
  <2>6. CASE LeaveAnswer(o, x, m, s)
    BY <1>3, <2>2, <2>6 DEF LeaveAnswer, SameJoin, SameQueue
  <2>7. CASE CallbackStarts(o, x, m, s) /\ m.kind = "event"
    <3>1. sub' = [sub EXCEPT ![x] = r]
      BY <2>3, <2>7 DEF CallbackStarts, r
    <3> QED
      BY <1>3, <2>3, <3>1 DEF SameJoin
  <2>8. CASE CallbackStarts(o, x, m, s) /\ m.kind # "event"
    BY <1>3, <2>8 DEF CallbackStarts
  <2> QED
    BY <1>3, <2>4, <2>5, <2>6, <2>7, <2>8
<1>7. PICK k \in Processors :
        /\ task' = [task EXCEPT ![o] = k] /\ k.at \in {"get", "callback", "done"}
        /\ (k.at # "done" => k.on = x) /\ (k.at = "callback" => k.todo # {})
  <2>1. task = [task EXCEPT ![o] = task[o]] /\ task[o] \in Processors
    BY <1>5
  <2> DEFINE k == [task[o] EXCEPT !.at = "callback", !.msg = m, !.todo = Snapshot(s, m)]
  <2>2. k \in Processors /\ k.at = "callback" /\ k.on = x /\ k.todo = Snapshot(s, m)
    BY <1>3, <1>5, <2>1 DEF Processors
  <2>3. Ended \in Processors /\ Ended.at = "done"
    BY ConstantTypes DEF Ended, NoTask
  <2>4. CASE task' = task
    BY <1>5, <2>1, <2>4
  <2>5. CASE task' = [task EXCEPT ![o] = Ended]
    BY <2>3, <2>5
  <2>6. CASE CallbackStarts(o, x, m, s)
    BY <2>2, <2>6 DEF CallbackStarts
  <2> QED
    BY <1>3, <2>4, <2>5, <2>6 DEF Ignored, JoinAnswer, LeaveAnswer
<1>8. task' \in [Tasks -> Processors] /\ Callbacks' /\ \A p \in Tasks : TaskGoesOn(p)
  BY <1>3, <1>5, <1>7, OneTask
<1>9. /\ sub' \in [Subs -> Subscriptions] /\ Lengths'
      /\ \A y \in Made : SameJoin(sub[y], sub'[y])
      /\ \A y \in Subs \ Made : sub'[y] = sub[y]
  BY <1>1, <1>3, <1>6, OneSub
<1>10. NothingMade
  BY <1>1, <1>8, <1>9 DEF NothingMade, TypeInv, InRange
<1> QED
  BY <1>1, <1>8, <1>9, <1>10, Keeps, RestKept

LEMMA DrainedType ==
  ASSUME TypeInv, NothingMade, NEW o \in Tasks, NEW at \in {"drained", "aborted", "killed"},
         Drained(o, at), UNCHANGED <<calls, shutdown>>
  PROVE  RejoinMade' /\ CallsOK'
<1>1. Made' = Made /\ gen' = gen /\ refs' = refs /\ \A x \in Subs : sub'[x].gen = sub[x].gen
  BY SameMade DEF NothingMade
<1>2. Made \subseteq Subs /\ 0 \in Numbers
  BY ConstantTypes DEF Made, Numbers
<1>3. CASE rejoin' = rejoin
  BY <1>3, RestKept
<1>4. CASE rejoin' = [rejoin EXCEPT !.at = at, !.on = 0] /\ at = "drained"
           /\ rejoin.at \in {"drain", "drain_cancel"}
  BY <1>1, <1>2, <1>4 DEF RejoinMade, TypeInv, InRange, CallsOK, Resting, calls
<1>5. CASE rejoin' = [at |-> at, cur |-> 0, todo |-> {}, on |-> 0] /\ at # "drained"
  BY <1>1, <1>2, <1>5 DEF RejoinMade, TypeInv, InRange, CallsOK, Resting, calls
<1> QED
  BY <1>3, <1>4, <1>5 DEF Drained

LEMMA NextMessageType ==
  ASSUME TypeInv, NEW o \in Tasks, task[o].at \in {"callback", "cancelling"}, NextMessage(o)
  PROVE  /\ task' = [task EXCEPT ![o] = [task[o] EXCEPT !.at = "get", !.msg = NoMsg, !.todo = {}]]
         /\ task' \in [Tasks -> Processors] /\ Callbacks' /\ \A p \in Tasks : TaskGoesOn(p)
<1> DEFINE k == [task[o] EXCEPT !.at = "get", !.msg = NoMsg, !.todo = {}]
<1>1. task[o] \in Processors /\ task[o].on \in Made
  BY DEF TypeInv, InRange, TasksOK, TasksMade
<1>2. k \in Processors /\ k.at = "get" /\ k.on = task[o].on
  BY <1>1 DEF Processors
<1>3. task' = [task EXCEPT ![o] = k]
  BY DEF NextMessage
<1> QED
  BY <1>1, <1>2, <1>3, OneTask

LEMMA CallbackType ==
  ASSUME TypeInv, NEW o \in Tasks,
         CallbackReturns(o) \/ CallbackRaises(o) \/ CallbackCancelled(o)
  PROVE  TypeInv'
<1>1. /\ UNCHANGED <<registry, sub, call, leaver, calls, gen, link, shutdown, refs, server, events>>
      /\ connected' \in BOOLEAN /\ Made \subseteq Subs
  BY DEF CallbackReturns, CallbackRaises, CallbackCancelled, calls, net, TypeInv, InRange, Made
<1>2. task' \in [Tasks -> Processors] /\ Callbacks' /\ \A p \in Tasks : TaskGoesOn(p)
  <2>1. CASE NextMessage(o) /\ task[o].at = "callback"
    BY <2>1, NextMessageType
  <2>2. CASE CallbackReturns(o) /\ ~NextMessage(o)
    <3> DEFINE k == [task[o] EXCEPT !.todo = {"event"}]
    <3>1. task[o].at = "callback" /\ task' = [task EXCEPT ![o] = k]
      BY <2>2 DEF CallbackReturns
    <3>2. task[o] \in Processors /\ task[o].on \in Made
      BY <3>1 DEF TypeInv, InRange, TasksOK, TasksMade
    <3>3. {"event"} \in SUBSET HandlerKinds /\ {"event"} # {}
      BY DEF HandlerKinds
    <3>4. k \in Processors /\ k.at = "callback" /\ k.on \in Made /\ k.todo # {}
      BY <3>1, <3>2, <3>3 DEF Processors
    <3> QED
      BY <3>1, <3>4, OneTask
  <2>3. CASE CallbackCancelled(o)
    <3>1. Ended \in Processors /\ Ended.at = "done"
      BY ConstantTypes DEF Ended, NoTask
    <3> QED
      BY <2>3, <3>1, OneTask DEF CallbackCancelled
  <2> QED
    BY <2>1, <2>2, <2>3 DEF CallbackReturns, CallbackRaises
<1>3. NothingMade
  BY <1>1, <1>2 DEF NothingMade, TypeInv, InRange, SubsOK, SameJoin
<1>4. \E at \in {"drained", "aborted", "killed"} : Drained(o, at)
  BY DEF CallbackReturns, CallbackRaises, CallbackCancelled
<1>5. RejoinMade' /\ CallsOK'
  BY <1>1, <1>3, <1>4, DrainedType
<1>6. Network'
  BY <1>1, Ranges DEF Network, server
<1> QED
  BY <1>1, <1>2, <1>3, <1>5, <1>6, Keeps, RestKept

---------------------------------------------------------------------------------
(***************************************************************************)
(* The calls of the application.                                           *)
(***************************************************************************)
\* A step that unregisters a topic and changes the subscriptions no more than s does.
LEMMA UnregisterType ==
  ASSUME TypeInv, NEW s \in [Subs -> Subscriptions], NEW t \in Topics, NEW r \in Futures,
         \A x \in Made : SameJoin(sub[x], s[x]) /\ SameQueue(sub[x], s[x]),
         \A x \in Subs \ Made : s[x] = sub[x] /\ call'[x].at = call[x].at,
         Unregister(s, t, r), UNCHANGED <<gen, refs>>
  PROVE  /\ NothingMade /\ Lengths' /\ Callbacks'
         /\ Awaited(t) \in Tasks \cup {0}
<1>1. /\ registry' = [registry EXCEPT ![t] = 0] /\ registry' \in [Topics -> Numbers]
      /\ sub' \in [Subs -> Subscriptions] /\ task' \in [Tasks -> Processors]
      /\ \A x \in Made : SameJoin(sub[x], sub'[x]) /\ SameQueue(sub[x], sub'[x])
      /\ \A x \in Subs \ Made : sub'[x] = sub[x]
      /\ \A o \in Tasks : task'[o] = task[o] \/ (task'[o] = Cancel(task[o]) /\ o <= refs)
      /\ Awaited(t) \in Tasks \cup {0}
  BY Unregisters
<1>2. \A o \in Tasks :
        /\ TaskGoesOn(o) /\ (task'[o].at = "callback" => task'[o] = task[o])
  <2> SUFFICES ASSUME NEW o \in Tasks, task'[o] # task[o]
               PROVE  TaskGoesOn(o) /\ task'[o].at # "callback"
    BY DEF TaskGoesOn
  <2>1. task'[o] = Cancel(task[o]) /\ o <= refs /\ task[o] \in Processors
    BY <1>1 DEF TypeInv, InRange, TasksOK
  <2>2. /\ Cancel(task[o]).on = task[o].on
        /\ Cancel(task[o]).at \notin {"start", "get", "callback", "leaving"}
        /\ (Cancel(task[o]).at \in {"cancelling", "stuck"}
              => task[o].at \in {"callback", "cancelling", "leaving", "stuck"})
    BY <2>1, CancelType
  <2> QED
    BY <2>1, <2>2 DEF TaskGoesOn, TypeInv, TasksMade
<1>3. Callbacks'
  BY <1>2, Ranges DEF Callbacks
<1>4. Lengths'
  BY <1>1, Ranges DEF Lengths, SameQueue
<1>5. registry \in [Topics -> Numbers]
  BY DEF TypeInv, InRange
<1>6. NothingMade
  BY <1>1, <1>2, <1>5 DEF NothingMade
<1> QED
  BY <1>1, <1>3, <1>4, <1>6

LEMMA SubscribeReturnsType ==
  ASSUME TypeInv, NEW x \in Subs, SubscribeReturns(x) \/ SubscribeRaises(x)
  PROVE  TypeInv'
<1>1. /\ UNCHANGED <<registry, sub, task, leaver, leaves, changes, rejoin, net, gen, link,
                     connected, shutdown, refs, server, events>>
      /\ call[x].at # "idle"
  BY DEF SubscribeReturns, SubscribeRaises, net
<1>2. call' \in [Subs -> [at : {"idle", "joining", "unregistering", "returned", "raised"},
                          on : Tasks \cup {0}]]
      /\ \A y \in Subs \ {x} : call'[y] = call[y]
  BY DEF SubscribeReturns, SubscribeRaises, TypeInv, InRange, CallsOK
<1>3. CallsOK'
  BY <1>1, <1>2 DEF CallsOK, TypeInv, InRange
<1>4. x \in Made
  BY <1>1 DEF TypeInv, Numbered
<1>5. NothingMade
  BY <1>1, <1>2, <1>4
     DEF NothingMade, TypeInv, InRange, SubsOK, TasksOK, SameJoin, TaskGoesOn
<1> QED
  BY <1>1, <1>3, <1>5, Keeps, RestKept

\* s is sub but for a future of x that is cancelled.
FutureCancelled(x, s) ==
  /\ s \in [Subs -> Subscriptions] /\ \A y \in Subs \ {x} : s[y] = sub[y]
  /\ SameJoin(sub[x], s[x]) /\ SameQueue(sub[x], s[x])
  /\ s[x].leave = sub[x].leave /\ s[x].ready \in {sub[x].ready, "cancelled"}
  /\ sub[x].ready # "pending" => s[x].ready = sub[x].ready

LEMMA NothingCancelled ==
  ASSUME TypeInv, NEW x \in Subs
  PROVE  FutureCancelled(x, sub)
BY DEF FutureCancelled, SameJoin, SameQueue, TypeInv, InRange, SubsOK

LEMMA OneFutureCancelled ==
  ASSUME TypeInv, NEW x \in Subs, NEW r \in Subscriptions,
         SameJoin(sub[x], r), SameQueue(sub[x], r),
         r.leave = sub[x].leave, r.ready \in {sub[x].ready, "cancelled"},
         sub[x].ready # "pending" => r.ready = sub[x].ready
  PROVE  FutureCancelled(x, [sub EXCEPT ![x] = r])
<1> DEFINE s == [sub EXCEPT ![x] = r]
<1>1. sub \in [Subs -> Subscriptions]
  BY DEF TypeInv, InRange, SubsOK
<1>2. s \in [Subs -> Subscriptions] /\ s[x] = r /\ \A y \in Subs \ {x} : s[y] = sub[y]
  BY <1>1
<1> HIDE DEF s
<1>3. FutureCancelled(x, s)
  BY <1>2 DEF FutureCancelled
<1> QED
  BY <1>3 DEF s

LEMMA CancelledMade ==
  ASSUME TypeInv, NEW x \in Made, NEW s, FutureCancelled(x, s)
  PROVE  /\ s \in [Subs -> Subscriptions]
         /\ \A y \in Made : SameJoin(sub[y], s[y]) /\ SameQueue(sub[y], s[y])
         /\ \A y \in Subs \ Made : s[y] = sub[y]
BY DEF FutureCancelled, SameJoin, SameQueue, Made

LEMMA SubscribeEndsEffect ==
  ASSUME TypeInv, NEW x \in Subs, SubscribeFails(x) \/ SubscribeTimesOut(x)
  PROVE  /\ x \in Made /\ sub[x].name \in Topics /\ call[x].at = "joining"
         /\ \E s, r : FutureCancelled(x, s) /\ r \in {"failed", "refused"} /\ GiveUp(x, s, r)
<1>1. x \in Made /\ sub[x].name \in Topics /\ sub[x] \in Subscriptions /\ call[x].at = "joining"
  <2>1. x \in Made /\ call[x].at = "joining"
    BY DEF SubscribeFails, SubscribeTimesOut, TypeInv, Numbered
  <2> QED
    BY <2>1 DEF Made, TypeInv, InRange, SubsOK, Subscriptions
<1>2. CASE SubscribeFails(x) \/ (SubscribeTimesOut(x) /\ sub[x].rejoined)
  <2>1. GiveUp(x, sub, "failed") \/ GiveUp(x, sub, "refused")
    BY <1>2 DEF SubscribeFails, SubscribeTimesOut
  <2> QED
    BY <1>1, <2>1, NothingCancelled
<1>3. CASE SubscribeTimesOut(x) /\ ~sub[x].rejoined
  <2> DEFINE n == SetReady(sub[x], "cancelled")
             s == [sub EXCEPT ![x] = n]
  <2>1. n \in Subscriptions
    BY <1>1, SetReadyType DEF Futures
  <2>2. /\ SameJoin(sub[x], n) /\ SameQueue(sub[x], n) /\ n.leave = sub[x].leave
        /\ n.ready \in {sub[x].ready, "cancelled"}
        /\ sub[x].ready # "pending" => n.ready = sub[x].ready
    BY <1>1 DEF SetReady, Set, Subscriptions, SameJoin, SameQueue
  <2>3. GiveUp(x, s, "refused")
    BY <1>3 DEF SubscribeTimesOut
  <2> HIDE DEF n
  <2>4. FutureCancelled(x, s)
    BY <2>1, <2>2, OneFutureCancelled
  <2> HIDE DEF s
  <2> QED
    BY <1>1, <2>3, <2>4
<1> QED
  BY <1>2, <1>3

LEMMA SubscribeEndsType ==
  ASSUME TypeInv, NEW x \in Subs, SubscribeFails(x) \/ SubscribeTimesOut(x)
  PROVE  TypeInv'
<1>1. PICK s, r : /\ FutureCancelled(x, s) /\ r \in {"failed", "refused"} /\ GiveUp(x, s, r)
                  /\ x \in Made /\ sub[x].name \in Topics
  BY SubscribeEndsEffect
<1>2. /\ s \in [Subs -> Subscriptions] /\ r \in Futures
      /\ \A y \in Made : SameJoin(sub[y], s[y]) /\ SameQueue(sub[y], s[y])
      /\ \A y \in Subs \ Made : s[y] = sub[y]
  BY <1>1, CancelledMade DEF Futures
<1>3. /\ Unregister(s, sub[x].name, r)
      /\ call' = [call EXCEPT ![x] = [at |-> "unregistering", on |-> Awaited(sub[x].name)]]
      /\ UNCHANGED <<leaver, leaves, changes, rejoin, net, gen, link, connected, shutdown, refs,
                     server, events>>
  BY <1>1 DEF GiveUp, net
<1>4. \A y \in Subs \ Made : s[y] = sub[y] /\ call'[y].at = call[y].at
  BY <1>1, <1>2, <1>3 DEF TypeInv, InRange, CallsOK
<1>5. NothingMade /\ Lengths' /\ Callbacks' /\ Awaited(sub[x].name) \in Tasks \cup {0}
  BY <1>1, <1>2, <1>3, <1>4, UnregisterType
<1>6. CallsOK'
  BY <1>3, <1>5 DEF CallsOK, TypeInv, InRange
<1> QED
  BY <1>3, <1>5, <1>6, Keeps, RestKept

\* The subscriptions after one of them was asked to leave.
LEMMA LeaveAsked ==
  ASSUME TypeInv, NEW x \in Made, NEW s, s = [sub EXCEPT ![x].leave = TRUE]
  PROVE  /\ s \in [Subs -> Subscriptions]
         /\ \A y \in Made : SameJoin(sub[y], s[y]) /\ SameQueue(sub[y], s[y])
         /\ \A y \in Subs \ Made : s[y] = sub[y]
<1>1. sub \in [Subs -> Subscriptions] /\ Made \subseteq Subs
  BY DEF TypeInv, InRange, SubsOK, Made
<1> DEFINE r == [sub[x] EXCEPT !.leave = TRUE]
<1>2. r \in Subscriptions /\ SameJoin(sub[x], r) /\ SameQueue(sub[x], r)
  BY <1>1 DEF Subscriptions, SameJoin, SameQueue
<1>3. s = [sub EXCEPT ![x] = r]
  OBVIOUS
<1> HIDE DEF r
<1>4. s \in [Subs -> Subscriptions] /\ \A y \in Subs : s[y] = IF y = x THEN r ELSE sub[y]
  BY <1>1, <1>2, <1>3
<1> QED
  BY <1>1, <1>2, <1>4 DEF SameJoin, SameQueue

\* A leave that is sent: nothing but the futures, the caller and the server change.
LEMMA LeaveSentType ==
  ASSUME TypeInv, NEW x \in Made, NEW u \in Leavers, leaves < MaxLeaves, leaves' = leaves + 1,
         sub' = [sub EXCEPT ![x].leave = TRUE],
         leaver' = [leaver EXCEPT ![u] = [at |-> "leaving", on |-> x]],
         ServerLeaves(sub[x].name, sub[x].ref),
         task' \in [Tasks -> Processors], Callbacks', \A o \in Tasks : TaskGoesOn(o),
         UNCHANGED <<registry, call, changes, rejoin, net, refs, events>>
  PROVE  TypeInv'
<1>1. /\ sub' \in [Subs -> Subscriptions]
      /\ \A y \in Made : SameJoin(sub[y], sub'[y]) /\ SameQueue(sub[y], sub'[y])
      /\ \A y \in Subs \ Made : sub'[y] = sub[y]
  BY LeaveAsked
<1>2. UNCHANGED <<gen, link, connected, shutdown>> /\ x \in Subs /\ x \in Numbers
  BY ConstantTypes DEF net, Made, Subs, Numbers
<1>3. NothingMade
  BY <1>1, <1>2 DEF NothingMade, TypeInv, InRange
<1>4. sub[x].name \in Topics /\ sub[x].ref \in Tasks
  BY <1>2, ProcessorMade DEF Processor, Made, TypeInv, InRange, SubsOK, Subscriptions
<1>5. wire' \in Seq(Messages) /\ joined' \in [Topics -> Tasks \cup {0}]
  BY <1>4, ServerType DEF TypeInv, InRange
<1>6. Network'
  BY <1>2, <1>5, Ranges DEF Network
<1>7. Lengths'
  BY <1>1, Ranges DEF Lengths, SameQueue
<1>8. CallsOK'
  <2>1. leaver' \in [Leavers -> [at : {"idle", "leaving", "unregistering"}, on : Tasks \cup Numbers]]
    BY <1>2 DEF CallsOK, TypeInv, InRange
  <2>2. leaves' \in 0..MaxLeaves
    BY TopicAssumption DEF CallsOK, TypeInv, InRange
  <2> QED
    BY <1>2, <2>1, <2>2 DEF CallsOK, TypeInv, InRange
<1>9. LeaversMade'
  <2>1. Made' = Made
    BY <1>3, SameMade
  <2>2. \A v \in Leavers : leaver'[v] = IF v = u THEN [at |-> "leaving", on |-> x] ELSE leaver[v]
    BY DEF TypeInv, InRange, CallsOK
  <2> QED
    BY <2>1, <2>2 DEF LeaversMade, TypeInv
<1> QED
  BY <1>3, <1>6, <1>7, <1>8, <1>9, Keeps, RestKept

LEMMA LeaverUnregistersType ==
  ASSUME TypeInv, NEW u \in Leavers, NEW s \in [Subs -> Subscriptions], NEW t \in Topics,
         \A x \in Made : SameJoin(sub[x], s[x]) /\ SameQueue(sub[x], s[x]),
         \A x \in Subs \ Made : s[x] = sub[x], LeaverUnregisters(u, s, t),
         leaves' \in 0..MaxLeaves,
         UNCHANGED <<call, changes, rejoin, net, refs, server, events>>
  PROVE  TypeInv'
<1>1. /\ Unregister(s, t, "failed") /\ UNCHANGED <<gen, link, connected, shutdown>>
      /\ leaver' = [leaver EXCEPT ![u] = [leaver[u] EXCEPT !.at = "unregistering", !.on = Awaited(t)]]
  BY DEF LeaverUnregisters, net, TypeInv, InRange, CallsOK
<1>2. NothingMade /\ Lengths' /\ Callbacks' /\ Awaited(t) \in Tasks \cup {0}
  BY <1>1, UnregisterType DEF Futures
<1>3. /\ \A v \in Leavers \ {u} : leaver'[v] = leaver[v]
      /\ leaver'[u].at = "unregistering" /\ leaver'[u].on = Awaited(t)
      /\ leaver' \in [Leavers -> [at : {"idle", "leaving", "unregistering"}, on : Tasks \cup Numbers]]
  <2> DEFINE n == Awaited(t)
  <2>1. leaver \in [Leavers -> [at : {"idle", "leaving", "unregistering"}, on : Tasks \cup Numbers]]
    BY DEF TypeInv, InRange, CallsOK
  <2>2. n \in Tasks \cup Numbers
    BY <1>2, ConstantTypes DEF Numbers
  <2>3. leaver' = [leaver EXCEPT ![u] = [leaver[u] EXCEPT !.at = "unregistering", !.on = n]]
    BY <1>1
  <2> HIDE DEF n
  <2> DEFINE k == [leaver[u] EXCEPT !.at = "unregistering", !.on = n]
  <2>4. /\ k \in [at : {"idle", "leaving", "unregistering"}, on : Tasks \cup Numbers]
        /\ k.at = "unregistering" /\ k.on = n
    BY <2>1, <2>2
  <2>5. leaver' = [leaver EXCEPT ![u] = k]
    BY <2>3
  <2> HIDE DEF k
  <2> QED
    BY <2>1, <2>4, <2>5 DEF n
<1>4. CallsOK'
  BY <1>1, <1>3 DEF CallsOK, TypeInv, InRange
<1>5. LeaversMade'
  <2>1. Made' = Made
    BY <1>2, SameMade
  <2> QED
    BY <1>2, <1>3, <2>1 DEF LeaversMade, TypeInv
<1> QED
  BY <1>1, <1>2, <1>4, <1>5, Keeps, RestKept

LEMMA UnsubscribeType ==
  ASSUME TypeInv, NEW u \in Leavers, NEW t \in Topics, Unsubscribe(u, t)
  PROVE  TypeInv'
<1> DEFINE x == registry[t]
           asked == [sub EXCEPT ![x].leave = TRUE]
<1>1. x \in Made /\ sub[x].name = t
  BY Registers DEF Unsubscribe
<1>2. /\ asked \in [Subs -> Subscriptions]
      /\ \A y \in Made : SameJoin(sub[y], asked[y]) /\ SameQueue(sub[y], asked[y])
      /\ \A y \in Subs \ Made : asked[y] = sub[y]
  BY <1>1, LeaveAsked
<1>3. /\ leaves < MaxLeaves /\ leaves' = leaves + 1 /\ leaves' \in 0..MaxLeaves
      /\ UNCHANGED <<call, changes, rejoin, net, refs, events>>
  BY TopicAssumption DEF Unsubscribe, TypeInv, InRange, CallsOK
<1>4. CASE link = "up"
  <2>1. /\ sub' = asked /\ leaver' = [leaver EXCEPT ![u] = [at |-> "leaving", on |-> x]]
        /\ ServerLeaves(t, sub[x].ref) /\ UNCHANGED <<registry, task>>
    BY <1>4 DEF Unsubscribe
  <2>2. task' \in [Tasks -> Processors] /\ Callbacks' /\ \A o \in Tasks : TaskGoesOn(o)
    BY <2>1, RestKept DEF TaskGoesOn, TypeInv, InRange, TasksOK
  <2> QED
    BY <1>1, <1>3, <2>1, <2>2, LeaveSentType
<1>5. CASE link # "up"
  <2>1. LeaverUnregisters(u, asked, t) /\ UNCHANGED server
    BY <1>5 DEF Unsubscribe
  <2> HIDE DEF asked
  <2> QED
    BY <1>2, <1>3, <2>1, LeaverUnregistersType
<1> QED
  BY <1>4, <1>5

LEMMA LeaveEndsEffect ==
  ASSUME TypeInv, NEW u \in Leavers, LeaveEnds(u) \/ LeaveTimesOut(u),
         NEW x, x = leaver[u].on
  PROVE  /\ x \in Made /\ sub[x].name \in Topics
         /\ UNCHANGED <<call, leaves, changes, rejoin, net, refs, server, events>>
         /\ \E s : /\ FutureCancelled(x, s) /\ s[x].ready = sub[x].ready
                   /\ LeaverUnregisters(u, s, sub[x].name)
<1>1. x \in Made /\ x \in Subs /\ sub[x].name \in Topics /\ sub[x] \in Subscriptions
  <2>1. x \in Made
    BY DEF LeaveEnds, LeaveTimesOut, TypeInv, LeaversMade
  <2> QED
    BY <2>1 DEF Made, TypeInv, InRange, SubsOK, Subscriptions
<1>2. UNCHANGED <<call, leaves, changes, rejoin, net, refs, server, events>>
  BY DEF LeaveEnds, LeaveTimesOut, unchangedByLeaver
<1>3. CASE LeaveEnds(u)
  BY <1>1, <1>2, <1>3, NothingCancelled DEF LeaveEnds
<1>4. CASE LeaveTimesOut(u)
  <2> DEFINE n == [sub[x] EXCEPT !.left = "cancelled"]
             s == [sub EXCEPT ![x] = n]
  <2>1. /\ n \in Subscriptions /\ SameJoin(sub[x], n) /\ SameQueue(sub[x], n)
        /\ n.leave = sub[x].leave /\ n.ready = sub[x].ready
    <3>1. "cancelled" \in Futures
      BY DEF Futures
    <3> QED
      BY <1>1, <3>1 DEF Subscriptions, SameJoin, SameQueue
  <2>2. LeaverUnregisters(u, s, sub[x].name)
    BY <1>4 DEF LeaveTimesOut
  <2> HIDE DEF n
  <2>3. FutureCancelled(x, s) /\ s[x] = n
    BY <1>1, <2>1, OneFutureCancelled DEF TypeInv, InRange, SubsOK
  <2> HIDE DEF s
  <2> QED
    BY <1>1, <1>2, <2>1, <2>2, <2>3
<1> QED
  BY <1>3, <1>4

LEMMA LeaveEndsType ==
  ASSUME TypeInv, NEW u \in Leavers, LeaveEnds(u) \/ LeaveTimesOut(u)
  PROVE  TypeInv'
<1> DEFINE x == leaver[u].on
<1>1. PICK s : FutureCancelled(x, s) /\ LeaverUnregisters(u, s, sub[x].name)
  BY LeaveEndsEffect
<1>2. /\ x \in Made /\ sub[x].name \in Topics
      /\ UNCHANGED <<call, leaves, changes, rejoin, net, refs, server, events>>
  BY LeaveEndsEffect
<1> HIDE DEF x
<1>3. /\ s \in [Subs -> Subscriptions]
      /\ \A y \in Made : SameJoin(sub[y], s[y]) /\ SameQueue(sub[y], s[y])
      /\ \A y \in Subs \ Made : s[y] = sub[y]
  BY <1>1, <1>2, CancelledMade
<1>4. leaves' \in 0..MaxLeaves
  BY <1>2 DEF TypeInv, InRange, CallsOK
<1> QED
  BY <1>1, <1>2, <1>3, <1>4, LeaverUnregistersType

LEMMA UnsubscribeReturnsType ==
  ASSUME TypeInv, NEW u \in Leavers, UnsubscribeReturns(u)
  PROVE  TypeInv'
<1>1. /\ UNCHANGED <<registry, sub, task, call, leaves, changes, rejoin, net, gen, link,
                     connected, shutdown, refs, server, events>>
      /\ leaver' = [leaver EXCEPT ![u].at = "idle", ![u].on = 0]
  BY DEF UnsubscribeReturns, unchangedByLeaver, net
<1> DEFINE k == [leaver[u] EXCEPT !.at = "idle", !.on = 0]
<1>2. leaver \in [Leavers -> [at : {"idle", "leaving", "unregistering"}, on : Tasks \cup Numbers]]
  BY DEF TypeInv, InRange, CallsOK
<1>3. k \in [at : {"idle", "leaving", "unregistering"}, on : Tasks \cup Numbers] /\ k.at = "idle"
  <2>1. 0 \in Tasks \cup Numbers
    BY ConstantTypes DEF Numbers
  <2> QED
    BY <1>2, <2>1
<1>4. leaver' = [leaver EXCEPT ![u] = k]
  BY <1>1
<1> HIDE DEF k
<1>5. /\ leaver' \in [Leavers -> [at : {"idle", "leaving", "unregistering"}, on : Tasks \cup Numbers]]
      /\ \A v \in Leavers \ {u} : leaver'[v] = leaver[v]
      /\ leaver'[u].at = "idle"
  BY <1>2, <1>3, <1>4
<1>6. NothingMade
  BY <1>1, RestKept
<1>7. CallsOK'
  BY <1>1, <1>5 DEF CallsOK, TypeInv, InRange
<1>8. LeaversMade'
  <2>1. Made' = Made
    BY <1>6, SameMade
  <2> QED
    BY <1>5, <2>1 DEF LeaversMade, TypeInv
<1> QED
  BY <1>1, <1>6, <1>7, <1>8, Keeps, RestKept

LEMMA CallbackLeavesType ==
  ASSUME TypeInv, NEW o \in Tasks, NEW u \in Leavers, CallbackLeaves(o, u)
  PROVE  TypeInv'
<1> DEFINE x == task[o].on
<1>1. /\ x \in Made /\ x \in Subs /\ sub[x].name \in Topics /\ sub[x] \in Subscriptions
      /\ task[o] \in Processors /\ task[o].at = "callback"
  <2>1. task[o].at = "callback" /\ x \in Made
    BY DEF CallbackLeaves, TypeInv, TasksMade
  <2> QED
    BY <2>1 DEF Made, TypeInv, InRange, SubsOK, TasksOK, Subscriptions
<1>2. /\ leaves < MaxLeaves /\ leaves' = leaves + 1 /\ leaves' \in 0..MaxLeaves
      /\ UNCHANGED <<call, changes, rejoin, net, gen, link, connected, shutdown, refs, events>>
  BY TopicAssumption DEF CallbackLeaves, TypeInv, InRange, CallsOK, net
<1>3. ASSUME NEW at \in {"leaving", "stuck"}, task' = [task EXCEPT ![o].at = at]
      PROVE  task' \in [Tasks -> Processors] /\ Callbacks' /\ \A p \in Tasks : TaskGoesOn(p)
  <2> DEFINE k == [task[o] EXCEPT !.at = at]
  <2>1. k \in Processors /\ k.at = at /\ k.on = x
    BY <1>1 DEF Processors
  <2>2. task' = [task EXCEPT ![o] = k]
    BY <1>3
  <2> HIDE DEF k
  <2> QED
    BY <1>1, <2>1, <2>2, OneTask
<1>4. CASE link = "up"
  <2>1. /\ sub' = [sub EXCEPT ![x].leave = TRUE] /\ task' = [task EXCEPT ![o].at = "leaving"]
        /\ leaver' = [leaver EXCEPT ![u] = [at |-> "leaving", on |-> x]]
        /\ ServerLeaves(sub[x].name, sub[x].ref) /\ UNCHANGED registry
    BY <1>4 DEF CallbackLeaves
  <2>2. task' \in [Tasks -> Processors] /\ Callbacks' /\ \A p \in Tasks : TaskGoesOn(p)
    BY <1>3, <2>1
  <2> QED
    BY <1>1, <1>2, <2>1, <2>2, LeaveSentType
<1>5. CASE link # "up"
  <2> DEFINE a == [sub[x] EXCEPT !.leave = TRUE]
             s == Settle(a, "failed")
  <2>1. /\ registry' = [registry EXCEPT ![sub[x].name] = 0] /\ sub' = [sub EXCEPT ![x] = s]
        /\ task' = [task EXCEPT ![o].at = "stuck"]
        /\ leaver' = [leaver EXCEPT ![u] = [at |-> "unregistering", on |-> o]]
        /\ UNCHANGED server
    BY <1>1, <1>5 DEF CallbackLeaves
  <2>2. a \in Subscriptions /\ SameJoin(sub[x], a) /\ SameQueue(sub[x], a)
    BY <1>1 DEF Subscriptions, SameJoin, SameQueue
  <2> HIDE DEF a
  <2>3. s \in Subscriptions /\ SameJoin(a, s) /\ SameQueue(a, s)
    BY <2>2, SettleType DEF Futures
  <2> HIDE DEF s
  <2>4. SameJoin(sub[x], s) /\ Len(s.queue) <= QueueSize
    BY <1>1, <2>2, <2>3, Ranges DEF SameJoin, SameQueue, Lengths
  <2>5. /\ sub' \in [Subs -> Subscriptions] /\ Lengths'
        /\ \A y \in Made : SameJoin(sub[y], sub'[y])
        /\ \A y \in Subs \ Made : sub'[y] = sub[y]
    BY <1>1, <2>1, <2>3, <2>4, OneSub
  <2>6. task' \in [Tasks -> Processors] /\ Callbacks' /\ \A p \in Tasks : TaskGoesOn(p)
    BY <1>3, <2>1
  <2>7. registry' \in [Topics -> Numbers] /\ \A t \in Topics : registry'[t] \in {registry[t], 0}
    BY <1>1, <2>1, ConstantTypes DEF TypeInv, InRange, Numbers
  <2>8. NothingMade
    BY <1>2, <2>5, <2>6, <2>7 DEF NothingMade
  <2>9. /\ leaver' \in [Leavers -> [at : {"idle", "leaving", "unregistering"}, on : Tasks \cup Numbers]]
        /\ \A v \in Leavers \ {u} : leaver'[v] = leaver[v]
        /\ leaver'[u].at = "unregistering" /\ leaver'[u].on = o
    BY <2>1 DEF TypeInv, InRange, CallsOK
  <2>10. CallsOK'
    BY <1>2, <2>9 DEF CallsOK, TypeInv, InRange
  <2>11. LeaversMade'
    <3>1. Made' = Made
      BY <2>8, SameMade
    <3> QED
      BY <2>9, <3>1 DEF LeaversMade, TypeInv
  <2> QED
    BY <1>2, <2>1, <2>5, <2>6, <2>8, <2>10, <2>11, Keeps, RestKept
<1> QED
  BY <1>4, <1>5

LEMMA ChangeHandlersType ==
  ASSUME TypeInv, NEW t \in Topics, ChangeHandlers(t)
  PROVE  TypeInv'
<1> DEFINE x == registry[t]
<1>1. x \in Made /\ x \in Subs /\ sub[x] \in Subscriptions
  BY Registers DEF ChangeHandlers, Made, TypeInv, InRange, SubsOK
<1>2. UNCHANGED <<registry, task, call, leaver, leaves, rejoin, net, gen, link, connected,
                  shutdown, refs, server, events>>
  BY DEF ChangeHandlers, net
<1>3. PICK h \in HandlerKinds :
        sub' = [sub EXCEPT ![x].handlers = IF h \in @ THEN @ \ {h} ELSE @ \cup {h}]
  BY DEF ChangeHandlers, HandlerKinds
<1> DEFINE hs == IF h \in sub[x].handlers THEN sub[x].handlers \ {h} ELSE sub[x].handlers \cup {h}
           s == [sub[x] EXCEPT !.handlers = hs]
<1>4. sub' = [sub EXCEPT ![x] = s]
  BY <1>3
<1>5. hs \subseteq HandlerKinds
  BY <1>1 DEF Subscriptions
<1> HIDE DEF hs
<1>6. s \in Subscriptions /\ SameJoin(sub[x], s) /\ s.queue = sub[x].queue
  BY <1>1, <1>5 DEF Subscriptions, SameJoin
<1> HIDE DEF s
<1>7. /\ sub' \in [Subs -> Subscriptions] /\ Lengths'
      /\ \A y \in Made : SameJoin(sub[y], sub'[y])
      /\ \A y \in Subs \ Made : sub'[y] = sub[y]
  BY <1>1, <1>4, <1>6, OneSub, Ranges DEF Lengths
<1>8. NothingMade
  BY <1>2, <1>7 DEF NothingMade, TaskGoesOn, TypeInv, InRange, TasksOK
<1>9. CallsOK'
  BY <1>2, TopicAssumption DEF ChangeHandlers, CallsOK, TypeInv, InRange
<1> QED
  BY <1>2, <1>7, <1>8, <1>9, Keeps, RestKept

---------------------------------------------------------------------------------
(***************************************************************************)
(* The steps of a rejoin that join nothing, and of shutdown.               *)
(***************************************************************************)
\* The tasks of O are cancelled, the others go on.
LEMMA Cancels ==
  ASSUME TypeInv, NEW O \in SUBSET Tasks, \A o \in O : o <= refs,
         task' = [o \in Tasks |-> IF o \in O THEN Cancel(task[o]) ELSE task[o]]
  PROVE  /\ task' \in [Tasks -> Processors] /\ Callbacks' /\ \A o \in Tasks : TaskGoesOn(o)
<1>1. task \in [Tasks -> Processors]
  BY DEF TypeInv, InRange, TasksOK
<1>2. \A o \in Tasks :
        /\ Cancel(task[o]) \in Processors /\ Cancel(task[o]).on = task[o].on
        /\ Cancel(task[o]).at \notin {"start", "get", "callback", "leaving"}
        /\ (Cancel(task[o]).at \in {"cancelling", "stuck"}
              => task[o].at \in {"callback", "cancelling", "leaving", "stuck"})
  BY <1>1, CancelType
<1>3. task' \in [Tasks -> Processors]
  BY <1>1, <1>2
<1>4. Callbacks'
  BY <1>2, Ranges DEF Callbacks
<1>5. \A o \in Tasks : TaskGoesOn(o)
  BY <1>2 DEF TaskGoesOn, TypeInv, TasksMade
<1> QED
  BY <1>3, <1>4, <1>5

LEMMA CancelsOne ==
  ASSUME TypeInv, NEW o \in Tasks, o <= refs, task' = [task EXCEPT ![o] = Cancel(task[o])]
  PROVE  /\ task' \in [Tasks -> Processors] /\ Callbacks' /\ \A p \in Tasks : TaskGoesOn(p)
<1>1. task' = [p \in Tasks |-> IF p \in {o} THEN Cancel(task[p]) ELSE task[p]]
  BY DEF TypeInv, InRange, TasksOK
<1> QED
  BY <1>1, Cancels

LEMMA DisconnectType ==
  ASSUME TypeInv, Disconnect
  PROVE  TypeInv'
<1>1. NothingMade
  BY RestKept DEF Disconnect, calls
<1>2. Network'
  BY Ranges DEF Disconnect, Network, server
<1> QED
  BY <1>1, <1>2, Keeps, RestKept DEF Disconnect, calls

LEMMA DrainTimesOutType ==
  ASSUME TypeInv, DrainTimesOut
  PROVE  TypeInv'
<1>1. /\ UNCHANGED <<registry, sub, call, leaver, leaves, changes, net, gen, link,
                     connected, shutdown, refs, server, events>>
      /\ rejoin.at = "drain" /\ rejoin' = [rejoin EXCEPT !.at = "drain_cancel"]
  BY DEF DrainTimesOut, calls, net
<1>2. rejoin.on \in Tasks /\ rejoin.on <= refs
  BY <1>1 DEF TypeInv, RejoinMade
<1>3. task' \in [Tasks -> Processors] /\ Callbacks' /\ \A o \in Tasks : TaskGoesOn(o)
  BY <1>2, CancelsOne DEF DrainTimesOut
<1>4. NothingMade
  BY <1>1, <1>3 DEF NothingMade, TypeInv, InRange, SubsOK, SameJoin
<1>5. Made' = Made
  BY <1>4, SameMade
<1>6. CallsOK' /\ RejoinMade'
  BY <1>1, <1>2, <1>5 DEF CallsOK, RejoinMade, TypeInv, InRange, Resting
<1> QED
  BY <1>1, <1>3, <1>4, <1>6, Keeps, RestKept

LEMMA JoinTimesOutType ==
  ASSUME TypeInv, JoinTimesOut
  PROVE  TypeInv'
<1>1. /\ UNCHANGED <<registry, task, call, leaver, leaves, changes, net, gen, link,
                     connected, shutdown, refs, server, events>>
      /\ rejoin.at = "joining" /\ rejoin' = [rejoin EXCEPT !.at = "timed_out"]
  BY DEF JoinTimesOut, calls, net
<1>2. rejoin.cur \in Made /\ sub[rejoin.cur] \in Subscriptions /\ "cancelled" \in Futures
  BY <1>1 DEF TypeInv, RejoinMade, Resting, InRange, SubsOK, Made, Futures
<1> DEFINE s == [sub[rejoin.cur] EXCEPT !.ready = "cancelled"]
<1>3. s \in Subscriptions /\ SameJoin(sub[rejoin.cur], s) /\ s.queue = sub[rejoin.cur].queue
  BY <1>2 DEF Subscriptions, SameJoin
<1>4. sub' = [sub EXCEPT ![rejoin.cur] = s]
  BY DEF JoinTimesOut
<1>5. Len(s.queue) <= QueueSize
  BY <1>2, <1>3, Ranges DEF Lengths, Made
<1> HIDE DEF s
<1>6. /\ sub' \in [Subs -> Subscriptions] /\ Lengths'
      /\ \A y \in Made : SameJoin(sub[y], sub'[y])
      /\ \A y \in Subs \ Made : sub'[y] = sub[y]
  BY <1>2, <1>3, <1>4, <1>5, OneSub
<1>7. NothingMade
  BY <1>1, <1>6 DEF NothingMade, TaskGoesOn, TypeInv, InRange, TasksOK
<1>8. Made' = Made /\ \A x \in Subs : sub'[x].gen = sub[x].gen
  BY <1>7, SameMade
<1>9. CallsOK'
  BY <1>1 DEF CallsOK, TypeInv, InRange
<1>10. RejoinMade'
  BY <1>1, <1>2, <1>8 DEF RejoinMade, TypeInv, Made
<1> QED
  BY <1>1, <1>6, <1>7, <1>9, <1>10, Keeps, RestKept

LEMMA JoinRefusedType ==
  ASSUME TypeInv, JoinRefused
  PROVE  TypeInv'
<1> DEFINE t == sub[rejoin.cur].name
<1>1. /\ UNCHANGED <<call, leaver, leaves, changes, net, gen, link, connected, shutdown, refs,
                     server, events>>
      /\ rejoin.at = "joining" /\ Unregister(sub, t, "refused")
      /\ rejoin' = [rejoin EXCEPT !.at = "unregistering", !.on = Awaited(t)]
  BY DEF JoinRefused, calls, net
<1>2. rejoin.cur \in Made /\ t \in Topics /\ "refused" \in Futures /\ sub \in [Subs -> Subscriptions]
  BY <1>1 DEF TypeInv, RejoinMade, Resting, InRange, SubsOK, Made, Futures, Subscriptions
<1>3. \A x \in Made : SameJoin(sub[x], sub[x]) /\ SameQueue(sub[x], sub[x])
  BY DEF SameJoin, SameQueue
<1> DEFINE n == Awaited(t)
<1>4. NothingMade /\ Lengths' /\ Callbacks' /\ n \in Tasks \cup {0}
  BY <1>1, <1>2, <1>3, UnregisterType
<1>5. Made' = Made /\ \A x \in Subs : sub'[x].gen = sub[x].gen
  BY <1>4, SameMade
<1>6. rejoin' = [rejoin EXCEPT !.at = "unregistering", !.on = n]
  BY <1>1
<1> HIDE DEF n, t
<1>7. CallsOK'
  BY <1>1, <1>4, <1>6 DEF CallsOK, TypeInv, InRange
<1>8. RejoinMade'
  BY <1>1, <1>2, <1>5, <1>6 DEF RejoinMade, TypeInv, InRange, CallsOK, Made
<1> QED
  BY <1>1, <1>4, <1>7, <1>8, Keeps, RestKept

\* What the calls of shutdown do: everything registered is asked to leave, then unregistered.
Asked(x)   == [sub[x] EXCEPT !.leave = TRUE, !.left = Set(@, "ok")]
ToStop     == {Processor(x) : x \in TopicsToUnsubscribe}

LEMMA ShutdownAsksEffect ==
  ASSUME TypeInv, ShutdownAsks
  PROVE  /\ TopicsToUnsubscribe \subseteq Made
         /\ sub' = [x \in Subs |-> IF x \in TopicsToUnsubscribe THEN Asked(x) ELSE sub[x]]
         /\ shutdown.at = "begun" /\ shutdown' = [shutdown EXCEPT !.at = "asked"]
         /\ UNCHANGED <<registry, task, call, leaver, leaves, changes, rejoin, gen, link,
                        connected, refs, wire, joined, events>>
BY DEF ShutdownAsks, Asked, TopicsToUnsubscribe, Registered, Made, calls, server

LEMMA ShutdownUnregistersEffect ==
  ASSUME TypeInv, ShutdownUnregisters
  PROVE  /\ TopicsToUnsubscribe \subseteq Made /\ ToStop \in SUBSET Tasks
         /\ \A o \in ToStop : o <= refs
         /\ registry' = [t \in Topics |-> 0]
         /\ sub' = [x \in Subs |-> IF x \in TopicsToUnsubscribe THEN Settle(sub[x], "failed")
                                   ELSE sub[x]]
         /\ task' = [o \in Tasks |-> IF o \in ToStop THEN Cancel(task[o]) ELSE task[o]]
         /\ shutdown.at = "asked"
         /\ shutdown' = [at |-> "unsubscribing", on |-> {o \in ToStop : Alive(o)}]
         /\ UNCHANGED <<call, leaver, leaves, changes, rejoin, gen, link, connected, refs, wire,
                        joined, events>>
<1>1. TopicsToUnsubscribe \subseteq Made
  BY DEF TopicsToUnsubscribe, Registered, Made
<1>2. ToStop \in SUBSET Tasks /\ \A o \in ToStop : o <= refs
  BY <1>1, ProcessorMade DEF ToStop
<1>3. \A t \in Topics : registry[t] # 0 => registry[t] \in TopicsToUnsubscribe
  BY Registers DEF TopicsToUnsubscribe, Made
<1>4. registry' = [t \in Topics |-> 0]
  BY <1>3 DEF ShutdownUnregisters
<1> QED
  BY <1>1, <1>2, <1>4 DEF ShutdownUnregisters, ToStop, calls, server

LEMMA AskedType ==
  ASSUME TypeInv, NEW x \in Made
  PROVE  /\ Asked(x) \in Subscriptions /\ Asked(x).leave
         /\ SameJoin(sub[x], Asked(x)) /\ SameQueue(sub[x], Asked(x))
<1>1. sub[x] \in Subscriptions
  BY DEF Made, TypeInv, InRange, SubsOK
<1> DEFINE left == Set(sub[x].left, "ok")
<1>2. left \in Futures
  BY <1>1 DEF Set, Futures, Subscriptions
<1>3. Asked(x) = [sub[x] EXCEPT !.leave = TRUE, !.left = left]
  BY DEF Asked
<1> HIDE DEF left
<1> QED
  BY <1>1, <1>2, <1>3 DEF Subscriptions, SameJoin, SameQueue

LEMMA SettledType ==
  ASSUME TypeInv, NEW x \in Made
  PROVE  /\ Settle(sub[x], "failed") \in Subscriptions
         /\ SameJoin(sub[x], Settle(sub[x], "failed"))
         /\ SameQueue(sub[x], Settle(sub[x], "failed"))
<1>1. sub[x] \in Subscriptions
  BY DEF Made, TypeInv, InRange, SubsOK
<1> QED
  BY <1>1, SettleType DEF Futures

\* What is true of every subscription one by one is true of all that a shutdown changes.
LEMMA ManyChange ==
  ASSUME TypeInv, NEW S \in SUBSET Made, NEW s,
         \A x \in S : s[x] \in Subscriptions /\ SameJoin(sub[x], s[x]) /\ SameQueue(sub[x], s[x]),
         sub' = [x \in Subs |-> IF x \in S THEN s[x] ELSE sub[x]]
  PROVE  /\ sub' \in [Subs -> Subscriptions] /\ Lengths'
         /\ \A x \in Made : SameJoin(sub[x], sub'[x]) /\ SameQueue(sub[x], sub'[x])
         /\ \A x \in Subs \ Made : sub'[x] = sub[x]
<1>1. sub \in [Subs -> Subscriptions] /\ Made \subseteq Subs
  BY DEF TypeInv, InRange, SubsOK, Made
<1>2. /\ sub' \in [Subs -> Subscriptions]
      /\ \A x \in Made : SameJoin(sub[x], sub'[x]) /\ SameQueue(sub[x], sub'[x])
      /\ \A x \in Subs \ Made : sub'[x] = sub[x]
  BY <1>1 DEF SameJoin, SameQueue
<1>3. Lengths'
  BY <1>2, Ranges DEF Lengths, SameQueue
<1> QED
  BY <1>2, <1>3

LEMMA ShutdownAsksType ==
  ASSUME TypeInv, ShutdownAsks
  PROVE  TypeInv'
<1>1. /\ TopicsToUnsubscribe \subseteq Made
      /\ sub' = [x \in Subs |-> IF x \in TopicsToUnsubscribe THEN Asked(x) ELSE sub[x]]
      /\ shutdown' = [shutdown EXCEPT !.at = "asked"]
      /\ UNCHANGED <<registry, task, call, leaver, leaves, changes, rejoin, gen, link,
                     connected, refs, wire, joined, events>>
  BY ShutdownAsksEffect
<1> DEFINE s == [x \in Subs |-> Asked(x)]
<1>2. sub' = [x \in Subs |-> IF x \in TopicsToUnsubscribe THEN s[x] ELSE sub[x]]
  BY <1>1
<1>3. \A x \in TopicsToUnsubscribe :
        s[x] \in Subscriptions /\ SameJoin(sub[x], s[x]) /\ SameQueue(sub[x], s[x])
  BY <1>1, AskedType DEF Made
<1> HIDE DEF s
<1>4. /\ sub' \in [Subs -> Subscriptions] /\ Lengths'
      /\ \A x \in Made : SameJoin(sub[x], sub'[x]) /\ SameQueue(sub[x], sub'[x])
      /\ \A x \in Subs \ Made : sub'[x] = sub[x]
  BY <1>1, <1>2, <1>3, ManyChange
<1>5. NothingMade
  <2>1. task \in [Tasks -> Processors] /\ registry \in [Topics -> Numbers]
    BY DEF TypeInv, InRange, TasksOK
  <2>2. \A o \in Tasks : TaskGoesOn(o)
    BY <1>1 DEF TaskGoesOn
  <2> QED
    BY <1>1, <1>4, <2>1, <2>2 DEF NothingMade
<1>6. CallsOK'
  BY <1>1 DEF CallsOK, TypeInv, InRange
<1> QED
  BY <1>1, <1>4, <1>5, <1>6, Keeps, RestKept DEF server

LEMMA ShutdownUnregistersType ==
  ASSUME TypeInv, ShutdownUnregisters
  PROVE  TypeInv'
<1>1. /\ TopicsToUnsubscribe \subseteq Made /\ ToStop \in SUBSET Tasks
      /\ \A o \in ToStop : o <= refs
      /\ registry' = [t \in Topics |-> 0]
      /\ sub' = [x \in Subs |-> IF x \in TopicsToUnsubscribe THEN Settle(sub[x], "failed")
                                ELSE sub[x]]
      /\ task' = [o \in Tasks |-> IF o \in ToStop THEN Cancel(task[o]) ELSE task[o]]
      /\ shutdown' = [at |-> "unsubscribing", on |-> {o \in ToStop : Alive(o)}]
      /\ UNCHANGED <<call, leaver, leaves, changes, rejoin, gen, link, connected, refs, wire,
                     joined, events>>
  BY ShutdownUnregistersEffect
<1>2. task' \in [Tasks -> Processors] /\ Callbacks' /\ \A o \in Tasks : TaskGoesOn(o)
  BY <1>1, Cancels
<1> DEFINE s == [x \in Subs |-> Settle(sub[x], "failed")]
<1>3. sub' = [x \in Subs |-> IF x \in TopicsToUnsubscribe THEN s[x] ELSE sub[x]]
  BY <1>1
<1>4. \A x \in TopicsToUnsubscribe :
        s[x] \in Subscriptions /\ SameJoin(sub[x], s[x]) /\ SameQueue(sub[x], s[x])
  BY <1>1, SettledType DEF Made
<1> HIDE DEF s
<1>5. /\ sub' \in [Subs -> Subscriptions] /\ Lengths'
      /\ \A x \in Made : SameJoin(sub[x], sub'[x]) /\ SameQueue(sub[x], sub'[x])
      /\ \A x \in Subs \ Made : sub'[x] = sub[x]
  BY <1>1, <1>3, <1>4, ManyChange
<1>6. registry' \in [Topics -> Numbers] /\ \A t \in Topics : registry'[t] \in {registry[t], 0}
  BY <1>1, ConstantTypes DEF Numbers
<1>7. NothingMade
  BY <1>1, <1>2, <1>5, <1>6 DEF NothingMade
<1>8. CallsOK'
  BY <1>1 DEF CallsOK, TypeInv, InRange
<1>9. Network'
  BY <1>1, Ranges DEF Network
<1> QED
  BY <1>1, <1>2, <1>5, <1>7, <1>8, <1>9, Keeps, RestKept

LEMMA ShutdownEndsType ==
  ASSUME TypeInv, ShutdownBegins \/ ShutdownCancels \/ ShutdownEnds
  PROVE  TypeInv'
<1>1. /\ UNCHANGED <<registry, sub, task, call, leaver, leaves, changes, gen, refs, events>>
      /\ shutdown' \in [at : {"no", "begun", "asked", "unsubscribing", "stopping", "done"},
                         on : SUBSET Tasks]
      /\ rejoin' \in {rejoin, [at |-> "killed", cur |-> 0, todo |-> {}, on |-> 0]}
  BY DEF ShutdownBegins, ShutdownCancels, ShutdownEnds, calls, TypeInv, InRange, CallsOK
<1>2. NothingMade
  BY <1>1, RestKept
<1>3. Made' = Made /\ \A x \in Subs : sub'[x].gen = sub[x].gen
  BY <1>2, SameMade
<1>4. RejoinMade'
  <2>1. CASE rejoin' = rejoin
    BY <1>2, <2>1, RestKept
  <2>2. CASE rejoin' = [at |-> "killed", cur |-> 0, todo |-> {}, on |-> 0]
    BY <2>2 DEF RejoinMade, Resting
  <2> QED
    BY <1>1, <2>1, <2>2
<1>5. CallsOK'
  <2>1. 0 \in Numbers
    BY ConstantTypes DEF Numbers
  <2>2. [at |-> "killed", cur |-> 0, todo |-> {}, on |-> 0]
          \in [at : Resting \cup {"drain", "drain_cancel", "drained", "reap", "joining",
                                  "send_failed", "timed_out", "unregistering"},
               cur : Numbers, todo : SUBSET Subs, on : Tasks \cup {0}]
    BY <2>1 DEF Resting
  <2> QED
    BY <1>1, <2>2 DEF CallsOK, TypeInv, InRange
<1>6. Network'
  <2>1. <<>> \in Seq(Messages)
    OBVIOUS
  <2> QED
    BY <1>1, <2>1, Ranges DEF Network, ShutdownBegins, ShutdownCancels, ShutdownEnds, server
<1> QED
  BY <1>1, <1>2, <1>4, <1>5, <1>6, Keeps, RestKept

---------------------------------------------------------------------------------
(***************************************************************************)
(* The steps by which a rejoin goes on to a subscription, or on with it.   *)
(***************************************************************************)
LEMMA MinType ==
  ASSUME NEW S \in SUBSET Nat, S # {}
  PROVE  Min(S) \in S
<1> DEFINE R == {ss \in Nat \X Nat : ss[1] < ss[2]}
<1>1. IsWellFoundedOn(R, Nat)
  BY NatLessThanWellFounded DEF OpToRel
<1>2. PICK x \in S : \A y \in S : <<y, x>> \notin R
  BY <1>1, WFMin
<1>3. \A y \in S : x <= y
  <2> SUFFICES ASSUME NEW y \in S
               PROVE  x <= y
    OBVIOUS
  <2>1. x \in Nat /\ y \in Nat /\ <<y, x>> \in Nat \X Nat
    OBVIOUS
  <2>2. y < x => <<y, x>> \in R
    BY <2>1
  <2> QED
    BY <1>2, <2>1, <2>2
<1> QED
  BY <1>3 DEF Min

\* The loop is over, or goes on to one subscription of its snapshot, rest being the others.
Over ==
  /\ rejoin' = [at |-> "idle", cur |-> 0, todo |-> {}, on |-> 0]
  /\ UNCHANGED <<sub, task, refs, server>>
Drains(x, rest) ==
  /\ UNCHANGED <<sub, task, refs, server>>
  /\ \E o \in Tasks : /\ InCallback(o, x)
                      /\ rejoin' = [at |-> "drain", cur |-> x, todo |-> rest, on |-> o]
GoesOn(S, x, rest, g, l) ==
  /\ ~sub[x].leave /\ rest = {y \in S : ~sub[y].leave} \ {x}
  /\ \/ StopProcessor(x, rest, g, l) /\ \A o \in Tasks : ~InCallback(o, x)
     \/ Drains(x, rest)

LEMMA ContinueEffect ==
  ASSUME TypeInv, NEW S \in SUBSET Made, NEW g, NEW l, Continue(S, g, l)
  PROVE  \/ Over /\ \A x \in S : sub[x].leave
         \/ \E x \in S : \E rest \in SUBSET S : GoesOn(S, x, rest, g, l)
<1> DEFINE left == {x \in S : ~sub[x].leave}
           x == Min(left)
           rest == left \ {x}
           callbacks == {o \in Tasks : InCallback(o, x)}
<1>1. CASE left = {}
  BY <1>1 DEF Continue, Over
<1>2. CASE left # {}
  <2>1. left \in SUBSET Nat
    <3>1. \A y \in Made : y \in Nat
      BY ConstantTypes DEF Made, Subs
    <3> QED
      BY <3>1
  <2>2. x \in left
    BY <1>2, <2>1, MinType
  <2>3. IF callbacks = {} THEN StopProcessor(x, rest, g, l)
        ELSE /\ \E o \in callbacks :
                  rejoin' = [at |-> "drain", cur |-> x, todo |-> rest, on |-> o]
             /\ UNCHANGED <<sub, task, refs, server>>
    BY <1>2 DEF Continue
  <2>4. x \in S /\ ~sub[x].leave /\ rest \in SUBSET S /\ rest = {y \in S : ~sub[y].leave} \ {x}
    BY <2>2
  <2> HIDE DEF x, rest
  <2>5. CASE callbacks = {}
    BY <2>3, <2>4, <2>5 DEF GoesOn
  <2>6. CASE callbacks # {}
    BY <2>3, <2>4, <2>6 DEF GoesOn, Drains
  <2> QED
    BY <2>5, <2>6
<1> QED
  BY <1>1, <1>2

\* On the connection g, the current or the next one, the rejoin waits or is over.
LEMMA RejoinWaits ==
  ASSUME TypeInv, NEW g \in 1..MaxGen, gen <= g, gen' = g, RefsBelow(g),
         link' \in {"up", "down"}, connected' \in BOOLEAN,
         UNCHANGED <<registry, calls, shutdown, events, sub, refs, server>>,
         task' \in [Tasks -> Processors], Callbacks', \A o \in Tasks : TaskGoesOn(o),
         rejoin'.todo \subseteq Made, \A x \in rejoin'.todo : sub[x].gen < g,
         rejoin'.at \in {"idle", "drain", "reap"},
         rejoin'.at # "idle" => /\ rejoin'.cur \in Made /\ sub[rejoin'.cur].gen < g
                               /\ rejoin'.cur \notin rejoin'.todo,
         rejoin'.at = "drain" => rejoin'.on \in Tasks /\ rejoin'.on <= refs,
         CallsOK'
  PROVE  TypeInv'
<1>1. UNCHANGED <<call, leaver, leaves, changes, wire, joined>>
  BY DEF calls, server
<1>2. Made' = Made
  BY DEF Made
<1>3. gen \in Int /\ g \in Int
  BY ConstantTypes DEF TypeInv, InRange
<1>4. Numbered'
  BY <1>1, <1>2, <1>3 DEF Numbered, TypeInv
<1>5. Named'
  BY <1>2 DEF Named, TypeInv
<1>6. TasksMade'
  <2>1. /\ \A o \in Tasks : o \in Int
        /\ refs \in Int /\ refs' = refs
    BY ConstantTypes DEF Tasks, InRange, TypeInv
  <2> SUFFICES ASSUME NEW o \in Tasks
               PROVE  /\ o > refs => task'[o] = NoTask
                      /\ task'[o].at = "start" => task'[o].topic \in Topics
                      /\ task'[o].at \in {"get", "callback", "cancelling", "leaving", "stuck"}
                           => task'[o].on \in Made
    BY <1>2, <2>1 DEF TasksMade
  <2>2. CASE task'[o] = task[o]
    BY <2>2 DEF TasksMade, TypeInv
  <2>3. CASE task'[o] # task[o]
    BY <2>1, <2>3 DEF TaskGoesOn
  <2> QED
    BY <2>2, <2>3
<1>7. LeaversMade'
  BY <1>1, <1>2 DEF LeaversMade, TypeInv
<1>8. RejoinMade'
  BY <1>2 DEF RejoinMade, Resting
<1>9. RefsBounded'
  BY DEF RefsBounded, RefsBelow, JoinedNow
<1>10. InRange'
  BY <1>1 DEF TypeInv, InRange, SubsOK, TasksOK, Callbacks
<1> QED
  BY <1>4, <1>5, <1>6, <1>7, <1>8, <1>9, <1>10 DEF TypeInv

LEMMA JoinType ==
  ASSUME TypeInv, NEW g \in 1..MaxGen, gen <= g, gen' = g, RefsBelow(g),
         link' \in {"up", "down"}, connected' \in BOOLEAN,
         UNCHANGED <<registry, calls, shutdown, events>>,
         NEW x \in Made, sub[x].gen < g, NEW rest \in SUBSET Made,
         \A y \in rest : y # x /\ sub[y].gen < g, NEW l, Join(x, rest, g, l)
  PROVE  TypeInv'
<1> DEFINE new == [sub[x] EXCEPT !.gen = g, !.ref = refs + 1, !.ready = "pending",
                                 !.rejoined = TRUE, !.queue = <<>>]
<1>1. /\ x \in Subs /\ x \in Numbers /\ Made \subseteq Subs
      /\ sub[x] \in Subscriptions /\ sub[x].name \in Topics
  BY ConstantTypes DEF Made, TypeInv, InRange, SubsOK, Subscriptions, Numbers, Subs
<1>2. /\ refs + 1 \in Tasks /\ refs \in Nat /\ g \in Nat /\ gen \in Nat /\ QueueSize \in Nat
      /\ refs + 1 <= (g - 1) * MaxSubs + Cardinality(JoinedNow(g) \cup {x})
  <2>1. QueueSize \in Nat /\ refs \in Nat /\ g \in Nat /\ gen \in Nat
    BY ConstantTypes, TopicAssumption DEF TypeInv, InRange, Tasks
  <2>2. sub[x].gen # g
    BY <2>1
  <2>3. InRange
    BY DEF TypeInv
  <2> QED
    BY <1>1, <2>1, <2>2, <2>3, JoinFits
<1>3. /\ refs' = refs + 1 /\ sub' = [sub EXCEPT ![x] = new]
      /\ task' = [task EXCEPT ![refs + 1] = NewTask(sub[x].name)]
      /\ rejoin' = [at |-> IF l = "up" THEN "joining" ELSE "send_failed",
                    cur |-> x, todo |-> rest, on |-> 0]
      /\ IF l = "up" THEN ServerJoins(sub[x].name, refs + 1, g) ELSE UNCHANGED server
  BY DEF Join
<1>4. /\ new \in Subscriptions /\ new.name = sub[x].name /\ new.gen = g /\ new.ref = refs + 1
      /\ new.queue = <<>>
  <2>1. <<>> \in Seq(Messages) /\ "pending" \in Futures /\ g \in 0..MaxGen
    BY <1>2, ConstantTypes DEF Futures
  <2> QED
    BY <1>1, <1>2, <2>1 DEF Subscriptions
<1> HIDE DEF new
<1>5. sub \in [Subs -> Subscriptions] /\ task \in [Tasks -> Processors]
  BY DEF TypeInv, InRange, SubsOK, TasksOK
<1>6. sub' \in [Subs -> Subscriptions] /\ \A y \in Subs : sub'[y] = IF y = x THEN new ELSE sub[y]
  BY <1>3, <1>4, <1>5
<1>7. Made' = Made
  BY <1>1, <1>4, <1>6 DEF Made
<1>8. NewTask(sub[x].name) \in Processors /\ NewTask(sub[x].name).at = "start"
        /\ NewTask(sub[x].name).topic = sub[x].name
  BY <1>1, ConstantTypes DEF NewTask, NoTask
<1>9. /\ task' \in [Tasks -> Processors]
      /\ \A o \in Tasks : task'[o] = IF o = refs + 1 THEN NewTask(sub[x].name) ELSE task[o]
  BY <1>2, <1>3, <1>5, <1>8
<1>10. UNCHANGED <<call, leaver, leaves, changes>>
  BY DEF calls
<1>11. Numbered'
  <2>1. \A y \in Made \ {x} : sub[y].gen \in 1..g /\ sub[y].ref \in 1..refs
    BY <1>2 DEF TypeInv, Numbered
  <2>2. \A y \in Made : sub'[y].gen \in 1..g /\ sub'[y].ref \in 1..(refs + 1)
    BY <1>1, <1>2, <1>4, <1>6, <2>1
  <2>3. ASSUME NEW y \in Made, NEW z \in Made, sub'[y].ref = sub'[z].ref
        PROVE  y = z
    BY <1>1, <1>2, <1>4, <1>6, <2>1, <2>3 DEF TypeInv, Numbered
  <2>4. \A y \in Subs \ Made : sub'[y] = NoSub /\ call'[y].at = "idle"
    BY <1>6, <1>10 DEF TypeInv, Numbered
  <2> QED
    BY <1>3, <1>7, <2>2, <2>3, <2>4 DEF Numbered, TypeInv
<1>12. Named'
  BY <1>1, <1>4, <1>6, <1>7 DEF Named, TypeInv
<1>13. TasksMade'
  <2>1. \A o \in Tasks : o \in Int
    BY ConstantTypes DEF Tasks
  <2> SUFFICES ASSUME NEW o \in Tasks
               PROVE  /\ o > refs + 1 => task'[o] = NoTask
                      /\ task'[o].at = "start" => task'[o].topic \in Topics
                      /\ task'[o].at \in {"get", "callback", "cancelling", "leaving", "stuck"}
                           => task'[o].on \in Made
    BY <1>3, <1>7 DEF TasksMade
  <2>2. CASE o = refs + 1
    BY <1>1, <1>2, <1>8, <1>9, <2>2
  <2>3. CASE o # refs + 1
    BY <1>2, <1>9, <2>1, <2>3 DEF TasksMade, TypeInv
  <2> QED
    BY <2>2, <2>3
<1>14. LeaversMade'
  BY <1>7, <1>10 DEF LeaversMade, TypeInv
<1>15. RejoinMade'
  BY <1>1, <1>3, <1>6, <1>7 DEF RejoinMade, Resting
<1>16. RefsBounded'
  <2>1. JoinedNow(g)' = JoinedNow(g) \cup {x}
    BY <1>1, <1>4, <1>6 DEF JoinedNow
  <2> QED
    BY <1>2, <1>3, <2>1 DEF RefsBounded, RefsBelow
<1>17. SubsOK'
  <2>1. \A y \in Subs : Len(sub'[y].queue) <= QueueSize
    BY <1>2, <1>4, <1>6, Ranges DEF Lengths
  <2> QED
    BY <1>6, <2>1 DEF SubsOK
<1>18. TasksOK'
  BY <1>8, <1>9, Ranges DEF TasksOK, Callbacks
<1>19. CallsOK'
  BY <1>1, <1>3, <1>10 DEF CallsOK, TypeInv, InRange, Resting
<1>20. wire' \in Seq(Messages) /\ joined' \in [Topics -> Tasks \cup {0}]
  BY <1>1, <1>2, <1>3, ServerType, Ranges DEF server, Network, TypeInv
<1>21. InRange'
  BY <1>2, <1>3, <1>17, <1>18, <1>19, <1>20 DEF InRange, TypeInv
<1> QED
  BY <1>11, <1>12, <1>13, <1>14, <1>15, <1>16, <1>21 DEF TypeInv

LEMMA StopType ==
  ASSUME TypeInv, NEW g \in 1..MaxGen, gen <= g, gen' = g, RefsBelow(g),
         link' \in {"up", "down"}, connected' \in BOOLEAN,
         UNCHANGED <<registry, calls, shutdown, events>>,
         NEW x \in Made, sub[x].gen < g, NEW rest \in SUBSET Made,
         \A y \in rest : y # x /\ sub[y].gen < g, NEW l, StopProcessor(x, rest, g, l)
  PROVE  TypeInv'
<1>1. CASE Alive(Processor(x))
  <2>1. /\ task' = [task EXCEPT ![Processor(x)] = Cancel(task[Processor(x)])]
        /\ rejoin' = [at |-> "reap", cur |-> x, todo |-> rest, on |-> 0]
        /\ UNCHANGED <<sub, refs, server>>
    BY <1>1 DEF StopProcessor
  <2>2. Processor(x) \in Tasks /\ Processor(x) <= refs /\ x \in Numbers /\ Made \subseteq Subs
    BY ProcessorMade, ConstantTypes DEF Made, Subs, Numbers
  <2>3. task' \in [Tasks -> Processors] /\ Callbacks' /\ \A o \in Tasks : TaskGoesOn(o)
    BY <2>1, <2>2, CancelsOne
  <2>4. CallsOK'
    BY <2>1, <2>2 DEF CallsOK, TypeInv, InRange, calls
  <2> QED
    BY <2>1, <2>3, <2>4, RejoinWaits
<1>2. CASE ~Alive(Processor(x))
  BY <1>2, JoinType DEF StopProcessor
<1> QED
  BY <1>1, <1>2

LEMMA ContinueType ==
  ASSUME TypeInv, NEW g \in 1..MaxGen, gen <= g, gen' = g, RefsBelow(g),
         link' \in {"up", "down"}, connected' \in BOOLEAN,
         UNCHANGED <<registry, calls, shutdown, events>>,
         NEW S \in SUBSET Made, \A y \in S : sub[y].gen < g, NEW l, Continue(S, g, l)
  PROVE  TypeInv'
<1>1. Made \subseteq Subs /\ Made \subseteq Numbers /\ 0 \in Numbers
  BY ConstantTypes DEF Made, Subs, Numbers
<1>2. UNCHANGED task =>
        task' \in [Tasks -> Processors] /\ Callbacks' /\ \A o \in Tasks : TaskGoesOn(o)
  BY RestKept DEF TaskGoesOn, TypeInv, InRange, TasksOK
<1>3. CASE Over
  <2>1. CallsOK'
    BY <1>1, <1>3 DEF Over, CallsOK, TypeInv, InRange, calls, Resting
  <2> QED
    BY <1>2, <1>3, <2>1, RejoinWaits DEF Over
<1>4. ASSUME NEW x \in S, NEW rest \in SUBSET S, GoesOn(S, x, rest, g, l)
      PROVE  TypeInv'
  <2>1. x \notin rest
    BY <1>4 DEF GoesOn
  <2>2. CASE StopProcessor(x, rest, g, l)
    BY <2>1, <2>2, StopType
  <2>3. CASE Drains(x, rest)
    <3>1. PICK o \in Tasks : /\ InCallback(o, x)
                             /\ rejoin' = [at |-> "drain", cur |-> x, todo |-> rest, on |-> o]
      BY <2>3 DEF Drains
    <3>2. o <= refs
      <4>1. task[o] # NoTask
        BY <3>1 DEF InCallback, NoTask
      <4>2. o \in Int /\ refs \in Int
        BY ConstantTypes DEF Tasks, TypeInv, InRange
      <4> QED
        BY <4>1, <4>2 DEF TypeInv, TasksMade
    <3>3. CallsOK'
      BY <1>1, <3>1 DEF CallsOK, TypeInv, InRange, calls
    <3> QED
      BY <1>2, <2>1, <2>3, <3>1, <3>2, <3>3, RejoinWaits DEF Drains
  <2> QED
    BY <1>4, <2>2, <2>3 DEF GoesOn
<1> QED
  BY <1>3, <1>4, ContinueEffect

\* A step of the rejoin on the connection as it is.
LEMMA RejoiningType ==
  ASSUME TypeInv, DrainEnds \/ ProcessorStopped \/ JoinEnds \/ TopicGivenUp
  PROVE  TypeInv'
<1>1. /\ UNCHANGED <<registry, calls, gen, link, connected, shutdown, events>>
      /\ gen \in 1..MaxGen /\ gen <= gen /\ RefsBelow(gen)
      /\ link' \in {"up", "down"} /\ connected' \in BOOLEAN
  BY ConstantTypes
     DEF DrainEnds, ProcessorStopped, JoinEnds, TopicGivenUp, net, TypeInv, InRange, RefsBounded
<1>2. rejoin.todo \in SUBSET Made /\ \A y \in rejoin.todo : sub[y].gen < gen
  BY DEF TypeInv, RejoinMade
<1>3. CASE JoinEnds \/ TopicGivenUp
  <2>1. Continue(rejoin.todo, gen, link)
    BY <1>3 DEF JoinEnds, TopicGivenUp
  <2> QED
    BY <1>1, <1>2, <2>1, ContinueType
<1>4. CASE DrainEnds \/ ProcessorStopped
  <2>1. rejoin.cur \in Made /\ sub[rejoin.cur].gen < gen /\ rejoin.cur \notin rejoin.todo
    BY <1>4 DEF TypeInv, RejoinMade, Resting, DrainEnds, ProcessorStopped
  <2>2. CASE DrainEnds
    BY <1>1, <1>2, <2>1, <2>2, StopType DEF DrainEnds
  <2>3. CASE ProcessorStopped
    BY <1>1, <1>2, <2>1, <2>3, JoinType DEF ProcessorStopped
  <2> QED
    BY <1>4, <2>2, <2>3
<1> QED
  BY <1>3, <1>4

LEMMA ConnectType ==
  ASSUME TypeInv, Connect
  PROVE  TypeInv'
<1> DEFINE S == {registry[t] : t \in Topics} \ {0}
<1>1. /\ UNCHANGED <<registry, calls, shutdown, events>> /\ gen' = gen + 1
      /\ link' \in {"up", "down"} /\ connected' \in BOOLEAN
      /\ Continue(S, gen + 1, "up")
  BY DEF Connect
<1>2. gen + 1 \in 1..MaxGen /\ gen <= gen + 1
  BY ConstantTypes DEF Connect, TypeInv, InRange
<1>3. S \in SUBSET Made
  BY Registers
<1>4. RefsBelow(gen + 1) /\ \A y \in S : sub[y].gen < gen + 1
  BY <1>3, FreshConnection DEF Made
<1> HIDE DEF S
<1> QED
  BY <1>1, <1>2, <1>3, <1>4, ContinueType

---------------------------------------------------------------------------------
(***************************************************************************)
(* A subscription is made.                                                 *)
(***************************************************************************)
NewSub(t, handlers) ==
  [NoSub EXCEPT !.name = t, !.gen = gen, !.ref = refs + 1, !.handlers = handlers]

\* Subscription x and its processor are new; the rest is as it was.
Makes(x, t, handlers) ==
  /\ x = Cardinality(Made) + 1 /\ x \in Subs \ Made
  /\ refs' = refs + 1 /\ refs + 1 \in Tasks
  /\ \/ /\ link = "up" /\ registry' = [registry EXCEPT ![t] = x]
        /\ sub' = [sub EXCEPT ![x] = NewSub(t, handlers)]
        /\ task' = [task EXCEPT ![refs + 1] = NewTask(t)]
        /\ call' = [call EXCEPT ![x].at = "joining"]
        /\ ServerJoins(t, refs + 1, gen)
     \/ /\ link # "up" /\ UNCHANGED <<registry, server>>
        /\ sub' = [sub EXCEPT ![x] = Settle(NewSub(t, handlers), "failed")]
        /\ task' = [task EXCEPT ![refs + 1] = Cancel(NewTask(t))]
        /\ call' = [call EXCEPT ![x] = [at |-> "unregistering", on |-> refs + 1]]

LEMMA SubscribeEffect ==
  ASSUME TypeInv, NEW t \in Topics, Subscribe(t)
  PROVE  /\ \E x, handlers : /\ handlers \subseteq HandlerKinds /\ Makes(x, t, handlers)
         /\ UNCHANGED <<leaver, leaves, changes, rejoin, net, events>>
         /\ registry[t] = 0 /\ refs + 1 <= (gen - 1) * MaxSubs + Cardinality(JoinedNow(gen)) + 1
<1> DEFINE x == Cardinality(Made) + 1
<1>1. PICK handlers \in FirstHandlers :
        /\ x \in Subs /\ refs' = refs + 1
        /\ IF link = "up"
           THEN /\ registry' = [registry EXCEPT ![t] = x]
                /\ sub' = [sub EXCEPT ![x] = NewSub(t, handlers)]
                /\ task' = [task EXCEPT ![refs + 1] = NewTask(t)]
                /\ call' = [call EXCEPT ![x].at = "joining"]
                /\ ServerJoins(t, refs + 1, gen)
           ELSE /\ sub' = [sub EXCEPT ![x] = Settle(NewSub(t, handlers), "failed")]
                /\ task' = [task EXCEPT ![refs + 1] = Cancel(NewTask(t))]
                /\ call' = [call EXCEPT ![x] = [at |-> "unregistering", on |-> refs + 1]]
                /\ UNCHANGED <<registry, server>>
  BY DEF Subscribe, NewSub
<1>2. handlers \subseteq HandlerKinds
  BY TopicAssumption DEF HandlerKinds
<1>3. x \notin Made
  <2>1. Made = 1..Cardinality(Made) /\ Cardinality(Made) \in Nat
    <3>1. IsFiniteSet(Subs) /\ Made \in SUBSET Subs
      BY ConstantTypes, FS_Interval DEF Subs, Made
    <3> QED
      BY <3>1, FS_Subset, FS_CardinalityType DEF TypeInv, Numbered
  <2> QED
    BY <2>1
<1>4. sub[x].gen # gen /\ sub[x] = NoSub
  BY <1>1, <1>3, ConstantTypes DEF TypeInv, Numbered, NoSub, InRange
<1>5. /\ refs + 1 \in Tasks
      /\ refs + 1 <= (gen - 1) * MaxSubs + Cardinality(JoinedNow(gen) \cup {x})
  BY <1>1, <1>4, JoinFits DEF TypeInv, InRange, RefsBounded
<1>6. Cardinality(JoinedNow(gen) \cup {x}) = Cardinality(JoinedNow(gen)) + 1
  <2>1. x \notin JoinedNow(gen)
    BY <1>4 DEF JoinedNow
  <2>2. IsFiniteSet(Subs) /\ JoinedNow(gen) \in SUBSET Subs
    BY ConstantTypes, FS_Interval DEF Subs, JoinedNow
  <2>3. IsFiniteSet(JoinedNow(gen))
    BY <2>2, FS_Subset
  <2> QED
    BY <2>1, <2>3, FS_AddElement
<1>7. Makes(x, t, handlers)
  BY <1>1, <1>3, <1>5 DEF Makes
<1>8. (gen - 1) * MaxSubs + Cardinality(JoinedNow(gen) \cup {x})
        = (gen - 1) * MaxSubs + Cardinality(JoinedNow(gen)) + 1
  <2> DEFINE a == (gen - 1) * MaxSubs
             c == Cardinality(JoinedNow(gen))
  <2>1. a \in Int /\ c \in Int
    <3>1. IsFiniteSet(Subs) /\ JoinedNow(gen) \in SUBSET Subs
      BY ConstantTypes, FS_Interval DEF Subs, JoinedNow
    <3> QED
      BY <3>1, FS_Subset, FS_CardinalityType, ConstantTypes DEF TypeInv, InRange
  <2> HIDE DEF a, c
  <2> QED
    BY <1>6, <2>1 DEF a, c
<1> QED
  BY <1>2, <1>5, <1>7, <1>8 DEF Subscribe

LEMMA NewSubType ==
  ASSUME TypeInv, NEW t \in Topics, NEW handlers \in SUBSET HandlerKinds, refs + 1 \in Tasks,
         NEW s \in {NewSub(t, handlers), Settle(NewSub(t, handlers), "failed")}
  PROVE  /\ s \in Subscriptions /\ s.name = t /\ s.gen = gen /\ s.ref = refs + 1
         /\ s.queue = <<>> /\ s.last = 0 /\ s.leave = FALSE /\ s.ready # "ok"
<1> DEFINE n == NewSub(t, handlers)
<1>1. gen \in 0..MaxGen /\ "failed" \in Futures
  BY ConstantTypes DEF TypeInv, InRange, Futures
<1>2. /\ n \in Subscriptions /\ n.name = t /\ n.gen = gen /\ n.ref = refs + 1
      /\ n.queue = <<>> /\ n.last = 0 /\ n.leave = FALSE /\ n.ready = "pending"
  <2>1. NoSub \in Subscriptions
    BY ConstantTypes
  <2>2. n \in Subscriptions
    BY <1>1, <2>1 DEF NewSub, Subscriptions
  <2>3. /\ n.name = t /\ n.gen = gen /\ n.ref = refs + 1
        /\ n.queue = <<>> /\ n.last = 0 /\ n.leave = FALSE /\ n.ready = "pending"
    BY DEF NewSub, NoSub
  <2> QED
    BY <2>2, <2>3
<1> HIDE DEF n
<1>3. /\ Settle(n, "failed") \in Subscriptions /\ SameJoin(n, Settle(n, "failed"))
      /\ SameQueue(n, Settle(n, "failed")) /\ Settle(n, "failed").leave = n.leave
  BY <1>1, <1>2, SettleType
<1>4. Settle(n, "failed").ready # "ok"
  BY <1>2 DEF Settle, SetReady, Set, Subscriptions
<1> QED
  BY <1>2, <1>3, <1>4 DEF SameJoin, SameQueue, n

LEMMA NewTaskType ==
  ASSUME NEW t \in Topics, NEW k, k = NewTask(t) \/ k = Cancel(NewTask(t))
  PROVE  k \in Processors /\ k.at \in {"start", "stopping"} /\ k.topic = t
<1>1. NewTask(t) \in Processors
  BY ConstantTypes
<1>2. NewTask(t).at = "start" /\ NewTask(t).topic = t
  BY DEF NewTask, NoTask
<1>3. Cancel(NewTask(t)) \in Processors /\ Cancel(NewTask(t)).topic = NewTask(t).topic
  BY <1>1, CancelType
<1>4. Cancel(NewTask(t)).at = "stopping"
  BY <1>1, <1>2 DEF Cancel, Processors
<1> QED
  BY <1>1, <1>2, <1>3, <1>4

LEMMA MakesType ==
  ASSUME TypeInv, NEW t \in Topics, NEW x \in Subs \ Made, x = Cardinality(Made) + 1,
         NEW s \in Subscriptions, s.name = t, s.gen = gen, s.ref = refs + 1, s.queue = <<>>,
         NEW k \in Processors, k.at \in {"start", "stopping"}, k.topic = t,
         refs' = refs + 1, refs + 1 \in Tasks,
         refs + 1 <= (gen - 1) * MaxSubs + Cardinality(JoinedNow(gen)) + 1,
         sub' = [sub EXCEPT ![x] = s], task' = [task EXCEPT ![refs + 1] = k],
         registry' \in {registry, [registry EXCEPT ![t] = x]}, CallsOK',
         \A y \in Subs \ {x} : call'[y] = call[y],
         wire' \in Seq(Messages), joined' \in [Topics -> Tasks \cup {0}],
         UNCHANGED <<leaver, rejoin, gen, link, connected, events>>
  PROVE  TypeInv'
<1>1. sub \in [Subs -> Subscriptions] /\ task \in [Tasks -> Processors] /\ Made \subseteq Subs
  BY DEF TypeInv, InRange, SubsOK, TasksOK, Made
<1>2. sub' \in [Subs -> Subscriptions] /\ \A y \in Subs : sub'[y] = IF y = x THEN s ELSE sub[y]
  BY <1>1
<1>3. task' \in [Tasks -> Processors] /\ \A o \in Tasks : task'[o] = IF o = refs + 1 THEN k ELSE task[o]
  BY <1>1
<1>4. Made' = Made \cup {x}
  BY <1>1, <1>2, TopicAssumption DEF Made
<1>5. /\ refs \in Nat /\ gen \in Nat /\ gen >= 1 /\ QueueSize \in Nat
      /\ \A o \in Tasks : o \in Int
  BY ConstantTypes, TopicAssumption DEF TypeInv, InRange, Tasks
<1>6. IsFiniteSet(Subs) /\ IsFiniteSet(Made) /\ Cardinality(Made) \in Nat
  <2>1. IsFiniteSet(Subs)
    BY ConstantTypes, FS_Interval DEF Subs
  <2> QED
    BY <1>1, <2>1, FS_Subset, FS_CardinalityType
<1>7. Numbered'
  <2>1. Cardinality(Made \cup {x}) = Cardinality(Made) + 1
    BY <1>6, FS_AddElement
  <2>2. Made \cup {x} = 1..(Cardinality(Made) + 1)
    <3>1. Made = 1..Cardinality(Made)
      BY DEF TypeInv, Numbered
    <3> QED
      BY <1>6, <3>1
  <2>3. \A y \in Made : sub[y].gen \in 1..gen /\ sub[y].ref \in 1..refs
    BY DEF TypeInv, Numbered
  <2>4. \A y \in Made \cup {x} : sub'[y].gen \in 1..gen /\ sub'[y].ref \in 1..(refs + 1)
    BY <1>1, <1>2, <1>5, <2>3
  <2>5. ASSUME NEW y \in Made \cup {x}, NEW z \in Made \cup {x}, sub'[y].ref = sub'[z].ref
        PROVE  y = z
    <3>1. \A v \in Made : v \in Subs /\ v # x /\ sub'[v].ref = sub[v].ref /\ sub[v].ref # refs + 1
      BY <1>1, <1>2, <1>5, <2>3
    <3>2. sub'[x].ref = refs + 1
      BY <1>2
    <3> QED
      BY <2>5, <3>1, <3>2 DEF TypeInv, Numbered
  <2>6. \A y \in Subs \ (Made \cup {x}) : sub'[y] = NoSub /\ call'[y].at = "idle"
    BY <1>2 DEF TypeInv, Numbered
  <2> QED
    BY <1>4, <2>1, <2>2, <2>4, <2>5, <2>6 DEF Numbered
<1>8. Named'
  <2>1. registry \in [Topics -> Numbers]
    BY DEF TypeInv, InRange
  <2>2. \A r \in Topics : registry[r] # 0 => registry[r] \in Made /\ sub'[registry[r]].name = r
    BY <1>1, <1>2 DEF TypeInv, Named
  <2> QED
    BY <1>2, <1>4, <2>1, <2>2 DEF Named
<1>9. TasksMade'
  <2> SUFFICES ASSUME NEW o \in Tasks
               PROVE  /\ o > refs + 1 => task'[o] = NoTask
                      /\ task'[o].at = "start" => task'[o].topic \in Topics
                      /\ task'[o].at \in {"get", "callback", "cancelling", "leaving", "stuck"}
                           => task'[o].on \in Made \cup {x}
    BY <1>4 DEF TasksMade
  <2>1. CASE o = refs + 1
    BY <1>3, <1>5, <2>1
  <2>2. CASE o # refs + 1
    BY <1>3, <1>5, <2>2 DEF TasksMade, TypeInv
  <2> QED
    BY <2>1, <2>2
<1>10. LeaversMade'
  BY <1>4 DEF LeaversMade, TypeInv
<1>11. RejoinMade'
  <2>1. \A y \in Made : sub'[y] = sub[y] /\ y \in Made'
    BY <1>1, <1>2, <1>4
  <2>2. rejoin.on <= refs /\ rejoin.on \in Tasks => rejoin.on <= refs + 1
    BY <1>5
  <2>3. RejoinMade
    BY DEF TypeInv
  <2> QED
    BY <2>1, <2>2, <2>3 DEF RejoinMade, Resting
<1>12. RefsBounded'
  <2>1. JoinedNow(gen)' = JoinedNow(gen) \cup {x} /\ x \notin JoinedNow(gen)
    <3>1. sub[x].gen # gen
      BY <1>5 DEF TypeInv, Numbered, NoSub
    <3> QED
      BY <1>2, <3>1 DEF JoinedNow
  <2>2. IsFiniteSet(JoinedNow(gen))
    BY <1>6, FS_Subset DEF JoinedNow
  <2>3. Cardinality(JoinedNow(gen) \cup {x}) = Cardinality(JoinedNow(gen)) + 1
          /\ Cardinality(JoinedNow(gen)) \in Nat
    BY <2>1, <2>2, FS_AddElement, FS_CardinalityType
  <2> DEFINE a == (gen - 1) * MaxSubs
             c == Cardinality(JoinedNow(gen))
  <2>4. a \in Int /\ c \in Nat /\ refs' <= a + c + 1 /\ c + 1 = Cardinality(JoinedNow(gen)')
    BY <1>5, <2>1, <2>3, ConstantTypes
  <2>5. (gen' - 1) * MaxSubs = a
    OBVIOUS
  <2> HIDE DEF a, c
  <2>6. refs' <= a + (c + 1)
    BY <1>5, <2>4
  <2> QED
    BY <2>4, <2>5, <2>6 DEF RefsBounded, RefsBelow
<1>13. InRange'
  <2>1. SubsOK'
    <3>1. \A y \in Subs : Len(sub'[y].queue) <= QueueSize
      BY <1>2, <1>5, Ranges DEF Lengths
    <3> QED
      BY <1>2, <3>1 DEF SubsOK
  <2>2. TasksOK'
    BY <1>3, Ranges DEF TasksOK, Callbacks
  <2>3. registry' \in [Topics -> Numbers]
    BY DEF TypeInv, InRange, Subs, Numbers
  <2> QED
    BY <2>1, <2>2, <2>3 DEF InRange, TypeInv
<1> QED
  BY <1>7, <1>8, <1>9, <1>10, <1>11, <1>12, <1>13 DEF TypeInv

LEMMA SubscribeType ==
  ASSUME TypeInv, NEW t \in Topics, Subscribe(t)
  PROVE  TypeInv'
<1>1. PICK x, handlers : handlers \subseteq HandlerKinds /\ Makes(x, t, handlers)
  BY SubscribeEffect
<1>2. /\ UNCHANGED <<leaver, leaves, changes, rejoin, net, gen, link, connected, shutdown, events>>
      /\ refs + 1 <= (gen - 1) * MaxSubs + Cardinality(JoinedNow(gen)) + 1
  BY SubscribeEffect DEF net
<1>3. /\ x = Cardinality(Made) + 1 /\ x \in Subs \ Made
      /\ refs' = refs + 1 /\ refs + 1 \in Tasks
  BY <1>1 DEF Makes
<1> DEFINE s == IF link = "up" THEN NewSub(t, handlers) ELSE Settle(NewSub(t, handlers), "failed")
           k == IF link = "up" THEN NewTask(t) ELSE Cancel(NewTask(t))
<1>4. sub' = [sub EXCEPT ![x] = s] /\ task' = [task EXCEPT ![refs + 1] = k]
  BY <1>1 DEF Makes
<1>5. /\ s \in {NewSub(t, handlers), Settle(NewSub(t, handlers), "failed")}
      /\ k = NewTask(t) \/ k = Cancel(NewTask(t))
  OBVIOUS
<1> HIDE DEF s, k
<1>6. s \in Subscriptions /\ s.name = t /\ s.gen = gen /\ s.ref = refs + 1 /\ s.queue = <<>>
  <2>1. handlers \in SUBSET HandlerKinds
    BY <1>1
  <2> QED
    <3>1. s \in {NewSub(t, handlers), Settle(NewSub(t, handlers), "failed")} /\ refs + 1 \in Tasks
      BY <1>3, <1>5
    <3> QED
      BY <2>1, <3>1, NewSubType
<1>7. k \in Processors /\ k.at \in {"start", "stopping"} /\ k.topic = t
  BY <1>5, NewTaskType
<1>8. /\ \A y \in Subs \ {x} : call'[y] = call[y]
      /\ call' \in [Subs -> [at : {"idle", "joining", "unregistering", "returned", "raised"},
                            on : Tasks \cup {0}]]
  <2>1. call \in [Subs -> [at : {"idle", "joining", "unregistering", "returned", "raised"},
                          on : Tasks \cup {0}]]
    BY DEF TypeInv, InRange, CallsOK
  <2>2. CASE call' = [call EXCEPT ![x].at = "joining"]
    BY <2>1, <2>2
  <2>3. CASE call' = [call EXCEPT ![x] = [at |-> "unregistering", on |-> refs + 1]]
    BY <1>3, <2>1, <2>3
  <2> QED
    BY <1>1, <2>2, <2>3 DEF Makes
<1>9. CallsOK'
  BY <1>2, <1>8 DEF CallsOK, TypeInv, InRange
<1>10. registry' \in {registry, [registry EXCEPT ![t] = x]}
  BY <1>1 DEF Makes
<1>11. wire' \in Seq(Messages) /\ joined' \in [Topics -> Tasks \cup {0}]
  <2>1. gen \in 1..MaxGen
    BY DEF TypeInv, InRange
  <2> QED
    BY <1>1, <1>3, <2>1, ServerType, Ranges DEF Makes, server, Network, TypeInv
<1> QED
  BY <1>2, <1>3, <1>4, <1>8, <1>9, <1>10, <1>11, <1>6, <1>7, MakesType

---------------------------------------------------------------------------------
LEMMA InitType == Init => TypeInv
<1> SUFFICES ASSUME Init
             PROVE  TypeInv
  OBVIOUS
<1>1. /\ MaxSubs \in Nat /\ MaxGen \in Nat \ {0} /\ MaxEvents \in Nat /\ MaxLeaves \in Nat
      /\ MaxChanges \in Nat /\ QueueSize \in Nat
  BY TopicAssumption
<1>2. Made = {} /\ Cardinality(Made) = 0
  <2>1. Made = {}
    BY DEF Init, Made, NoSub
  <2> QED
    BY <2>1, FS_EmptySet
<1>3. Numbered
  <2>1. Made = 1..Cardinality(Made)
    BY <1>2
  <2> QED
    BY <1>2, <2>1 DEF Numbered, Init
<1>4. Named /\ TasksMade /\ LeaversMade /\ RejoinMade
  BY DEF Named, TasksMade, LeaversMade, RejoinMade, Init, NoTask, Resting
<1>5. RefsBounded
  <2>1. JoinedNow(gen) = {}
    BY DEF Init, JoinedNow, NoSub
  <2>2. Cardinality(JoinedNow(gen)) = 0
    BY <2>1, FS_EmptySet
  <2>3. refs = 0 /\ (gen - 1) * MaxSubs = 0
    BY <1>1 DEF Init
  <2> QED
    BY <2>2, <2>3 DEF RefsBounded, RefsBelow
<1>6. SubsOK
  <2>1. Len(NoSub.queue) = 0
    BY DEF NoSub
  <2> QED
    BY <1>1, <2>1, ConstantTypes DEF Init, SubsOK
<1>7. TasksOK
  BY ConstantTypes DEF Init, TasksOK, NoTask
<1>8. CallsOK
  BY <1>1 DEF Init, CallsOK, Numbers, Resting
<1>9. InRange
  BY <1>1, <1>6, <1>7, <1>8 DEF Init, InRange, Numbers
<1> QED
  BY <1>3, <1>4, <1>5, <1>9 DEF TypeInv

LEMMA TypeStep == TypeInv /\ [Next]_vars => TypeInv'
<1> SUFFICES ASSUME TypeInv, [Next]_vars
             PROVE  TypeInv'
  OBVIOUS
<1>1. CASE UNCHANGED vars
  <2>1. UNCHANGED <<registry, sub, task, call, leaver, leaves, changes, rejoin, gen, link,
                    connected, shutdown, refs, wire, joined, events>>
    BY <1>1 DEF vars, calls, net, server
  <2>2. NothingMade
    BY <2>1, RestKept
  <2> QED
    BY <2>1, <2>2, Keeps, RestKept DEF calls, server
<1>2. CASE PeerLost
  BY <1>2, PeerLostType
<1>3. CASE Route
  BY <1>3, RouteType
<1>4. CASE Connect
  BY <1>4, ConnectType
<1>5. CASE Disconnect
  BY <1>5, DisconnectType
<1>6. CASE Rejoining
  BY <1>6, DrainTimesOutType, RejoiningType, JoinTimesOutType, JoinRefusedType DEF Rejoining
<1>7. CASE ShuttingDown
  BY <1>7, ShutdownAsksType, ShutdownUnregistersType, ShutdownEndsType DEF ShuttingDown
<1>8. CASE Application
  BY <1>8, SubscribeType, ChangeHandlersType, UnsubscribeType, CallbackLeavesType,
     ShutdownEndsType DEF Application
<1>9. CASE \E t \in Topics : Push(t)
  BY <1>9, PushType
<1>10. CASE \E o \in Tasks : Processing(o)
  BY <1>10, ProcessorType, DispatchType, CallbackType DEF Processing
<1>11. CASE \E x \in Subs : Subscribing(x)
  BY <1>11, SubscribeReturnsType, SubscribeEndsType DEF Subscribing
<1>12. CASE \E u \in Leavers : Unsubscribing(u)
  BY <1>12, LeaveEndsType, UnsubscribeReturnsType DEF Unsubscribing
<1> QED
  BY <1>1, <1>2, <1>3, <1>4, <1>5, <1>6, <1>7, <1>8, <1>9, <1>10, <1>11, <1>12 DEF Next

\* Whatever the interleaving of calls, callbacks, messages and connections: the tasks, calls and
\* rejoins work on objects that exist, every name maps to an object of that name, a rejoin has
\* before it only subscriptions of an earlier connection, and no join shares a join_ref.
THEOREM TopicStructure == Spec => []TypeInv
<1> QED
  BY InitType, TypeStep, PTL DEF Spec

=================================================================================
