-------------------------- MODULE TopicProcessorProofs --------------------------
(***************************************************************************)
(* Who works on the messages of a subscription, and on which messages.     *)
(***************************************************************************)
EXTENDS TopicOrderProofs

\* No topic is subscribed again while the rejoin still holds the subscription it had, or before
\* that one's processor has started. The code does not see to this: a rejoin joins from its list
\* a subscription that was unregistered meanwhile, and the processor it makes finds its
\* subscription by name, so it would work for the new one, beside the new one's own.
NoNameClash ==
  \A x, y \in Made : /\ Registered(y) /\ sub[x].name = sub[y].name
                     /\ ToBeMoved(x) \/ task[Processor(x)].at = "start"
                     => x = y

\* A task that has found its subscription is that one's processor, and works on messages only
\* while the subscription is registered; one that is still to start will find its subscription.
Works(o) ==
  Alive(o) /\ task[o].on # 0 =>
    /\ task[o].on \in Made /\ o = Processor(task[o].on)
    /\ task[o].at \in {"get", "callback", "leaving"} => Registered(task[o].on)
WillWork(o) ==
  task[o].at = "start" =>
    \E x \in Made : o = Processor(x) /\ task[o].topic = sub[x].name
AllWork == \A o \in Tasks : Works(o) /\ WillWork(o)

Raised == \A x \in Subs : call[x].at \in {"unregistering", "raised"} => ~Registered(x)

\* A shutdown unregisters in the turn that follows the one in which it asks everything to leave.
Asking == {"no", "begun", "asked"}
Closed ==
  /\ shutdown.at # "no" => ~connected
  /\ shutdown.at \notin Asking => \A t \in Topics : registry[t] = 0

\* The messages on their way are of this connection, those of a queue or a callback of the
\* connection of their subscription.
OfConnection(q, g) == \A i \in 1..Len(q) : q[i].gen = g
LostIsLost ==
  ~connected /\ shutdown.at = "no" /\ rejoin.at # "killed" => link = "down" /\ wire = <<>>
Fresh ==
  /\ OfConnection(wire, gen) /\ LostIsLost
  /\ \A x \in Made : OfConnection(sub[x].queue, sub[x].gen)

Quietly == AllWork /\ Raised /\ Closed

---------------------------------------------------------------------------------
(***************************************************************************)
(* What a step does to the tasks, when it makes none.                      *)
(***************************************************************************)
AtWork == {"get", "callback", "leaving"}
AtMessage == {"callback", "cancelling"}

\* Task o stops, goes on, or finds its subscription.
TaskStep(o) ==
  \/ task'[o].at \in {"none", "done"}
  \/ /\ Alive(o) /\ task'[o].on = task[o].on /\ task'[o].topic = task[o].topic
     /\ task'[o].at = "start" => task[o].at = "start"
     /\ task'[o].at \in AtWork => task[o].at \in AtWork
     /\ task'[o].at \in AtMessage => task[o].at \in AtMessage /\ task'[o].msg = task[o].msg
  \/ /\ task[o].at = "start" /\ registry[task[o].topic] # 0 /\ UNCHANGED registry
     /\ task'[o].at = "get" /\ task'[o].on = registry[task[o].topic]

\* Or it takes a message to a callback.
StartsCallback(o) ==
  /\ task[o].at = "get" /\ task'[o].at = "callback" /\ task'[o].on = task[o].on
  /\ sub[task[o].on].queue # <<>> /\ task'[o].msg = Head(sub[task[o].on].queue)

\* The processor of a subscription that is unregistered is cancelled.
DropsCancelled ==
  \A x \in Made : Registered(x) /\ ~Registered(x)'
                    => task'[Processor(x)].at \notin AtWork \cup {"start"}
TasksStep == DropsCancelled /\ \A o \in Tasks : TaskStep(o)

CallsKept ==
  \A x \in Subs : call'[x].at \in {"unregistering", "raised"}
                    => call[x].at \in {"unregistering", "raised"} \/ ~Registered(x)'
ShutsDown ==
  /\ shutdown.at # "no" => shutdown'.at # "no"
  /\ shutdown.at \notin Asking => shutdown'.at \notin Asking
  /\ shutdown.at = "no" /\ shutdown'.at # "no" => ~connected'
  /\ shutdown.at \in Asking /\ shutdown'.at \notin Asking => \A t \in Topics : registry'[t] = 0
Disconnects ==
  /\ link' \in {link, "down"} /\ (wire = <<>> => connected \/ wire' = <<>>)
  /\ (rejoin.at = "killed" => rejoin'.at = "killed") /\ (rejoin.at \in Resting => rejoin'.at \in Resting)
  /\ connected /\ ~connected' =>
       shutdown'.at # "no" \/ rejoin'.at = "killed" \/ (link' = "down" /\ wire' = <<>>)
StepsAside == TasksStep /\ CallsKept /\ ShutsDown /\ Disconnects

LEMMA TaskTypes ==
  ASSUME TypeInv
  PROVE  /\ task \in [Tasks -> Processors] /\ registry \in [Topics -> Numbers]
         /\ \A x \in Made : /\ x \in Subs /\ x # 0 /\ Processor(x) \in Tasks
                            /\ sub[x].name \in Topics /\ sub[x] \in Subscriptions
<1>1. \A x \in Made : /\ x \in Subs /\ x # 0 /\ sub[x].name \in Topics /\ sub[x] \in Subscriptions
  BY ConstantTypes DEF Made, Subs, TypeInv, InRange, SubsOK, Subscriptions
<1> QED
  BY <1>1, ProcessorMade DEF TypeInv, InRange, TasksOK

LEMMA IdleTasks ==
  ASSUME TypeInv, UNCHANGED <<registry, task>>, UNCHANGED sub \/ KeepsJoins
  PROVE  TasksStep
<1>1. \A o \in Tasks : TaskStep(o)
  BY DEF TaskStep, Alive
<1>2. \A x \in Made : Registered(x) => Registered(x)'
  BY DEF KeepsJoins, Steadily, SameJoin, Registered, Made
<1> QED
  BY <1>1, <1>2 DEF TasksStep, DropsCancelled

LEMMA CancelledTask ==
  ASSUME TypeInv, NEW o \in Tasks, task'[o] = Cancel(task[o])
  PROVE  TaskStep(o) /\ task'[o].at \notin AtWork \cup {"start"}
<1>1. task[o] \in Processors
  BY TaskTypes
<1>2. /\ Cancel(task[o]).on = task[o].on /\ Cancel(task[o]).topic = task[o].topic
      /\ Cancel(task[o]).at \notin {"start", "get", "callback", "leaving"}
      /\ (Cancel(task[o]).at \in {"none", "done"} <=> task[o].at \in {"none", "done"})
      /\ Cancel(task[o]).msg = task[o].msg
  BY <1>1, CancelType
<1>3. Cancel(task[o]).at \in AtMessage => task[o].at \in AtMessage
  BY <1>1 DEF Cancel, Processors, AtMessage
<1> QED
  BY <1>2, <1>3 DEF TaskStep, Alive, AtWork

LEMMA SameTask ==
  ASSUME NEW o \in Tasks, task'[o] = task[o]
  PROVE  TaskStep(o)
BY DEF TaskStep, Alive

LEMMA UnregisterTasks ==
  ASSUME TypeInv, KeepsJoins, NEW s, NEW t \in Topics, NEW r, Unregister(s, t, r)
  PROVE  TasksStep /\ registry'[t] = 0
<1> DEFINE x == registry[t]
<1>1. /\ registry' = [registry EXCEPT ![t] = 0]
      /\ task' = IF x = 0 THEN task ELSE [task EXCEPT ![Processor(x)] = Cancel(task[Processor(x)])]
      /\ task \in [Tasks -> Processors] /\ registry \in [Topics -> Numbers]
  BY TaskTypes DEF Unregister
<1>2. CASE x = 0
  <2>1. registry' = registry /\ task' = task
    BY <1>1, <1>2
  <2> QED
    BY <1>2, <2>1, IdleTasks
<1>3. CASE x # 0
  <2>1. x \in Made /\ sub[x].name = t /\ Processor(x) \in Tasks
    BY <1>3, Registers, TaskTypes
  <2>2. \A o \in Tasks : task'[o] = IF o = Processor(x) THEN Cancel(task[o]) ELSE task[o]
    BY <1>1, <1>3, <2>1
  <2>3. \A o \in Tasks : TaskStep(o)
    BY <2>2, SameTask, CancelledTask
  <2>4. \A y \in Made : Registered(y) /\ ~Registered(y)' => y = x
    BY <1>1, TaskTypes DEF KeepsJoins, Steadily, SameJoin, Registered, Made
  <2>5. DropsCancelled
    BY <2>1, <2>2, <2>4, CancelledTask DEF DropsCancelled
  <2> QED
    BY <1>1, <2>3, <2>5 DEF TasksStep
<1> QED
  BY <1>2, <1>3

LEMMA OneTaskStep ==
  ASSUME TypeInv, UNCHANGED <<registry, sub>>, NEW o \in Tasks, NEW k, task' = [task EXCEPT ![o] = k],
         TaskStep(o)
  PROVE  TasksStep
<1>1. \A p \in Tasks \ {o} : task'[p] = task[p]
  BY TaskTypes
<1>2. \A p \in Tasks : TaskStep(p)
  BY <1>1, SameTask
<1>3. \A x \in Made : Registered(x) => Registered(x)'
  BY DEF Registered
<1> QED
  BY <1>2, <1>3 DEF TasksStep, DropsCancelled

\* What leaves the calls, the shutdown or the network alone.
LEMMA RestSteps ==
  ASSUME TypeInv
  PROVE  /\ (UNCHANGED call => CallsKept) /\ (UNCHANGED shutdown => ShutsDown)
         /\ (UNCHANGED <<link, wire, rejoin, connected>> => Disconnects)
         /\ (UNCHANGED <<link, wire, connected>> /\ (rejoin.at = "killed" => rejoin'.at = "killed")
               /\ (rejoin.at \in Resting => rejoin'.at \in Resting) => Disconnects)
BY DEF CallsKept, ShutsDown, Disconnects

LEMMA WorkingSteps ==
  ASSUME TypeInv, NEW o \in Tasks, Working(o)
  PROVE  StepsAside
<1>1. UNCHANGED <<registry, sub, call, shutdown, link, wire>>
  BY DEF Working, ProcessorStarts, ProcessorStops, CallbackReturns, CallbackRaises,
         CallbackCancelled, calls, net, server
<1>2. task[o] \in Processors /\ task \in [Tasks -> Processors]
  BY TaskTypes
<1>3. TasksStep
  <2>1. \E k : task' = [task EXCEPT ![o] = k]
    BY DEF Working, ProcessorStarts, ProcessorStops, CallbackReturns, CallbackRaises,
           CallbackCancelled, NextMessage
  <2>2. TaskStep(o)
    <3>1. CASE task' = [task EXCEPT ![o] = Ended]
      BY <1>2, <3>1 DEF Ended, NoTask, TaskStep
    <3>2. CASE ProcessorStarts(o) /\ task' # [task EXCEPT ![o] = Ended]
      <4> DEFINE x == registry[task[o].topic]
      <4>1. x # 0 /\ task[o].at = "start" /\ task' = [task EXCEPT ![o] = [task[o] EXCEPT !.on = x, !.at = "get"]]
        BY <3>2 DEF ProcessorStarts
      <4> HIDE DEF x
      <4>2. task'[o].on = x /\ task'[o].at = "get"
        BY <1>2, <4>1 DEF Processors
      <4> QED
        BY <1>1, <4>1, <4>2 DEF TaskStep, x
    <3>3. CASE task[o].at = "callback" /\ NextMessage(o)
      <4>1. task'[o] = [task[o] EXCEPT !.at = "get", !.msg = NoMsg, !.todo = {}]
        BY <1>2, <3>3 DEF NextMessage
      <4>2. /\ task'[o].on = task[o].on /\ task'[o].topic = task[o].topic /\ task'[o].at = "get"
        BY <1>2, <4>1 DEF Processors
      <4> QED
        BY <3>3, <4>2 DEF TaskStep, Alive, AtWork, AtMessage
    <3>4. CASE task[o].at = "callback" /\ task' = [task EXCEPT ![o].todo = {"event"}]
      <4>1. task'[o] = [task[o] EXCEPT !.todo = {"event"}]
        BY <1>2, <3>4
      <4>2. /\ task'[o].on = task[o].on /\ task'[o].topic = task[o].topic /\ task'[o].at = task[o].at
            /\ task'[o].msg = task[o].msg
        BY <1>2, <4>1 DEF Processors
      <4> QED
        BY <3>4, <4>2 DEF TaskStep, Alive, AtWork
    <3> QED
      BY <3>1, <3>2, <3>3, <3>4 DEF Working, ProcessorStops, CallbackReturns, CallbackRaises,
                                    CallbackCancelled
  <2> QED
    BY <1>1, <2>1, <2>2, OneTaskStep
<1>4. Disconnects
  <2>1. CASE ProcessorStarts(o) \/ ProcessorStops(o)
    BY <2>1, RestSteps DEF ProcessorStarts, ProcessorStops, net, server
  <2>2. ASSUME NEW at \in {"drained", "aborted", "killed"}, Drained(o, at)
        PROVE  /\ (rejoin.at = "killed" => rejoin'.at = "killed")
               /\ (rejoin.at \in Resting => rejoin'.at \in Resting)
    BY <2>2 DEF Drained, Resting
  <2>3. CASE CallbackReturns(o) \/ CallbackRaises(o)
    <3>1. UNCHANGED connected /\ \E at \in {"drained", "aborted", "killed"} : Drained(o, at)
      BY <2>3 DEF CallbackReturns, CallbackRaises, net
    <3> QED
      BY <1>1, <2>2, <3>1, RestSteps
  <2>4. CASE CallbackCancelled(o)
    <3>1. \E at \in {"drained", "aborted", "killed"} : Drained(o, at)
      BY <2>4 DEF CallbackCancelled
    <3>2. connected /\ ~connected' => rejoin'.at = "killed"
      BY <2>4 DEF CallbackCancelled
    <3> QED
      BY <1>1, <2>2, <3>1, <3>2 DEF Disconnects
  <2> QED
    BY <2>1, <2>3, <2>4 DEF Working
<1> QED
  BY <1>1, <1>3, <1>4, RestSteps DEF StepsAside

LEMMA SubscribingSteps ==
  ASSUME TypeInv, KeepsJoins, NEW x \in Subs, Subscribing(x)
  PROVE  StepsAside
<1>1. UNCHANGED <<shutdown, link, connected, wire, rejoin>>
  BY DEF Subscribing, SubscribeReturns, SubscribeRaises, SubscribeFails, SubscribeTimesOut, GiveUp,
         net, server
<1>2. CASE SubscribeReturns(x) \/ SubscribeRaises(x)
  <2>1. UNCHANGED <<registry, task, sub>>
    BY <1>2 DEF SubscribeReturns, SubscribeRaises
  <2>2. /\ \A y \in Subs \ {x} : call'[y] = call[y]
        /\ call'[x].at = "returned" \/ call[x].at = "unregistering"
    BY <1>2 DEF SubscribeReturns, SubscribeRaises, TypeInv, InRange, CallsOK
  <2>3. CallsKept
    BY <2>2 DEF CallsKept
  <2> QED
    BY <1>1, <2>1, <2>3, IdleTasks, RestSteps DEF StepsAside
<1>3. CASE SubscribeFails(x) \/ SubscribeTimesOut(x)
  <2>1. PICK s, r : /\ FutureCancelled(x, s) /\ r \in {"failed", "refused"} /\ GiveUp(x, s, r)
                    /\ x \in Made /\ sub[x].name \in Topics
    BY <1>3, SubscribeEndsEffect
  <2>2. TasksStep /\ registry'[sub[x].name] = 0
    BY <2>1, UnregisterTasks DEF GiveUp
  <2>3. ~Registered(x)'
    <3>1. sub'[x].name = sub[x].name /\ x # 0
      BY <2>1, TaskTypes DEF KeepsJoins, Steadily, SameJoin
    <3> QED
      BY <2>2, <3>1 DEF Registered
  <2>4. \A y \in Subs \ {x} : call'[y] = call[y]
    BY <2>1 DEF GiveUp, TypeInv, InRange, CallsOK
  <2>5. CallsKept
    BY <2>3, <2>4 DEF CallsKept
  <2> QED
    BY <1>1, <2>2, <2>5, RestSteps DEF StepsAside
<1> QED
  BY <1>2, <1>3 DEF Subscribing

LEMMA UnsubscribingSteps ==
  ASSUME TypeInv, KeepsJoins, NEW u \in Leavers, Unsubscribing(u)
  PROVE  StepsAside
<1>1. UNCHANGED <<call, shutdown, link, connected, wire, rejoin>>
  BY DEF Unsubscribing, UnsubscribeReturns, LeaveEnds, LeaveTimesOut, unchangedByLeaver, net, server
<1>2. CASE UnsubscribeReturns(u)
  <2>1. UNCHANGED <<registry, task, sub>>
    BY <1>2 DEF UnsubscribeReturns
  <2> QED
    BY <1>1, <2>1, IdleTasks, RestSteps DEF StepsAside
<1>3. CASE LeaveEnds(u) \/ LeaveTimesOut(u)
  <2> DEFINE x == leaver[u].on
  <2>1. sub[x].name \in Topics /\ \E s : LeaverUnregisters(u, s, sub[x].name)
    BY <1>3, LeaveEndsEffect
  <2> HIDE DEF x
  <2>2. TasksStep
    BY <2>1, UnregisterTasks DEF LeaverUnregisters
  <2> QED
    BY <1>1, <2>2, RestSteps DEF StepsAside
<1> QED
  BY <1>2, <1>3 DEF Unsubscribing

LEMMA UnsubscribeSteps ==
  ASSUME TypeInv, KeepsJoins, NEW t \in Topics, NEW u \in Leavers, Unsubscribe(u, t)
  PROVE  StepsAside
<1>1. UNCHANGED <<call, shutdown, link, connected, rejoin>> /\ connected
  BY DEF Unsubscribe, net
<1>2. TasksStep
  <2>1. CASE link = "up"
    <3>1. UNCHANGED <<registry, task>>
      BY <2>1 DEF Unsubscribe
    <3> QED
      BY <3>1, IdleTasks
  <2>2. CASE link # "up"
    <3>1. \E s : Unregister(s, t, "failed")
      BY <2>2 DEF Unsubscribe, LeaverUnregisters
    <3> QED
      BY <3>1, UnregisterTasks
  <2> QED
    BY <2>1, <2>2
<1>3. Disconnects
  BY <1>1 DEF Disconnects
<1> QED
  BY <1>1, <1>2, <1>3, RestSteps DEF StepsAside

LEMMA CallbackLeavesSteps ==
  ASSUME TypeInv, KeepsJoins, NEW o \in Tasks, NEW u \in Leavers, CallbackLeaves(o, u), Works(o)
  PROVE  StepsAside
<1> DEFINE x == task[o].on
<1>1. UNCHANGED <<call, shutdown, link, connected, rejoin>> /\ connected
  BY DEF CallbackLeaves, net
<1>2. /\ task \in [Tasks -> Processors] /\ task[o].at = "callback" /\ x \in Made
      /\ x # 0 /\ o = Processor(x)
  <2>1. task[o].at = "callback" /\ x \in Made
    BY DEF CallbackLeaves, TypeInv, TasksMade
  <2> QED
    BY <2>1, TaskTypes DEF Works, Alive
<1>3. PICK at \in {"leaving", "stuck"} :
        /\ task' = [task EXCEPT ![o].at = at]
        /\ (at = "leaving" /\ UNCHANGED registry) \/
           (at = "stuck" /\ registry' = [registry EXCEPT ![sub[x].name] = 0])
  BY DEF CallbackLeaves
<1>4. \A p \in Tasks : TaskStep(p) /\ task'[o].at = at
  <2>1. task'[o].at = at /\ task'[o].on = task[o].on /\ task'[o].topic = task[o].topic
    BY <1>2, <1>3 DEF Processors
  <2>2. TaskStep(o)
    BY <1>2, <2>1 DEF TaskStep, Alive, AtWork, AtMessage
  <2>3. \A p \in Tasks \ {o} : task'[p] = task[p]
    BY <1>2, <1>3
  <2> QED
    BY <2>1, <2>2, <2>3, SameTask
<1>5. DropsCancelled
  <2>1. \A y \in Made : Registered(y) /\ ~Registered(y)' => y = x /\ at = "stuck"
    BY <1>2, <1>3, TaskTypes DEF KeepsJoins, Steadily, SameJoin, Registered, CallbackLeaves
  <2> QED
    BY <1>2, <1>4, <2>1 DEF DropsCancelled, AtWork
<1>6. Disconnects
  BY <1>1 DEF Disconnects
<1> QED
  BY <1>1, <1>4, <1>5, <1>6, RestSteps DEF StepsAside, TasksStep

LEMMA ShutdownSteps ==
  ASSUME TypeInv, KeepsJoins, ShutdownUnregisters
  PROVE  StepsAside
<1>1. /\ registry' = [t \in Topics |-> 0] /\ ToStop \in SUBSET Tasks
      /\ task' = [o \in Tasks |-> IF o \in ToStop THEN Cancel(task[o]) ELSE task[o]]
      /\ shutdown.at = "asked" /\ shutdown'.at = "unsubscribing"
      /\ UNCHANGED <<call, rejoin, link, wire, connected>>
  BY ShutdownUnregistersEffect
<1>2. \A o \in Tasks : TaskStep(o)
  BY <1>1, SameTask, CancelledTask
<1>3. DropsCancelled
  <2>1. \A x \in Made : Registered(x) => Processor(x) \in ToStop
    BY DEF ToStop, TopicsToUnsubscribe, Made
  <2> QED
    BY <1>1, <2>1, CancelledTask DEF DropsCancelled
<1>4. ShutsDown /\ Disconnects
  BY <1>1 DEF ShutsDown, Disconnects, Asking
<1> QED
  BY <1>1, <1>2, <1>3, <1>4, RestSteps DEF StepsAside, TasksStep

LEMMA AsideSteps ==
  ASSUME TypeInv, \A o \in Tasks : Works(o), Aside
  PROVE  StepsAside
<1>1. KeepsJoins
  BY AsideKeeps DEF SetAside
<1>2. CASE PeerLost
  <2>1. /\ UNCHANGED <<registry, task, sub, call, shutdown, connected, rejoin>> /\ link' = "down"
        /\ \E n \in 0..Len(wire) : wire' = SubSeq(wire, 1, n)
    BY <1>2 DEF PeerLost, calls
  <2>2. wire = <<>> => wire' = <<>>
    BY <2>1
  <2> QED
    BY <2>1, <2>2, IdleTasks, RestSteps DEF StepsAside, Disconnects
<1>3. CASE Disconnect
  <2>1. /\ UNCHANGED <<registry, task, sub, call, shutdown, rejoin, link, wire>>
        /\ link = "down" /\ wire = <<>>
    BY <1>3 DEF Disconnect, calls, server
  <2> QED
    BY <2>1, IdleTasks, RestSteps DEF StepsAside, Disconnects
<1>4. CASE ShutdownCancels \/ ShutdownEnds
  <2>1. /\ UNCHANGED <<registry, task, sub, call, connected>>
        /\ rejoin' \in {rejoin, [at |-> "killed", cur |-> 0, todo |-> {}, on |-> 0]}
        /\ wire' \in {wire, <<>>} /\ link' \in {link, "down"}
        /\ shutdown.at \notin Asking /\ shutdown'.at \notin Asking
    BY <1>4 DEF Asking, ShutdownCancels, ShutdownEnds, server, calls, TypeInv, InRange, CallsOK
  <2> QED
    BY <2>1, IdleTasks, RestSteps DEF StepsAside, Disconnects, ShutsDown, Asking, Resting
<1>5. CASE DrainTimesOut
  <2> DEFINE o == rejoin.on
  <2>1. /\ UNCHANGED <<registry, sub, call, shutdown, connected, link, wire>>
        /\ rejoin.at = "drain" /\ rejoin'.at = "drain_cancel"
        /\ task' = [task EXCEPT ![o] = Cancel(task[o])]
    BY <1>5 DEF DrainTimesOut, calls, net, server, TypeInv, InRange, CallsOK
  <2>2. o \in Tasks
    BY <2>1 DEF TypeInv, RejoinMade
  <2>3. task'[o] = Cancel(task[o])
    BY <2>1, <2>2, TaskTypes
  <2>4. TasksStep
    BY <2>1, <2>2, <2>3, CancelledTask, OneTaskStep
  <2> QED
    BY <2>1, <2>4, RestSteps DEF StepsAside, Resting
<1>6. CASE JoinTimesOut
  <2>1. /\ UNCHANGED <<registry, task, call, shutdown, connected, link, wire>>
        /\ rejoin.at = "joining"
    BY <1>6 DEF JoinTimesOut, calls, net, server
  <2> QED
    BY <1>1, <2>1, IdleTasks, RestSteps DEF StepsAside, Resting
<1>7. CASE JoinRefused
  <2>1. /\ UNCHANGED <<call, shutdown, connected, link, wire>> /\ rejoin.at = "joining"
        /\ \E r : Unregister(sub, sub[rejoin.cur].name, r)
    BY <1>7 DEF JoinRefused, calls, net, server
  <2>2. rejoin.cur \in Made /\ sub[rejoin.cur].name \in Topics
    BY <2>1, TaskTypes DEF TypeInv, RejoinMade, Resting
  <2>3. TasksStep
    BY <1>1, <2>1, <2>2, UnregisterTasks
  <2> QED
    BY <2>1, <2>3, RestSteps DEF StepsAside, Resting
<1>8. ASSUME NEW t \in Topics, ChangeHandlers(t)
      PROVE  StepsAside
  <2>1. UNCHANGED <<registry, task, call, shutdown, connected, link, wire, rejoin>>
    BY <1>8 DEF ChangeHandlers, net, server
  <2> QED
    BY <1>1, <2>1, IdleTasks, RestSteps DEF StepsAside
<1>9. CASE ShutdownBegins
  <2>1. /\ UNCHANGED <<registry, task, sub, call, link, wire, rejoin>> /\ ~connected'
        /\ shutdown.at = "no" /\ shutdown'.at = "begun"
    BY <1>9 DEF ShutdownBegins, calls, server, TypeInv, InRange, CallsOK
  <2> QED
    BY <2>1, IdleTasks, RestSteps DEF StepsAside, Disconnects, ShutsDown, Asking
<1>10. CASE ShutdownAsks
  <2>1. /\ UNCHANGED <<registry, task, call, connected, link, wire, rejoin>>
        /\ shutdown.at = "begun" /\ shutdown'.at = "asked"
    BY <1>10, ShutdownAsksEffect DEF TypeInv, InRange, CallsOK
  <2> QED
    BY <1>1, <2>1, IdleTasks, RestSteps DEF StepsAside, Disconnects, ShutsDown, Asking
<1> QED
  BY <1>1, <1>2, <1>3, <1>4, <1>5, <1>6, <1>7, <1>8, <1>9, <1>10, ShutdownSteps, SubscribingSteps,
     UnsubscribingSteps, UnsubscribeSteps, CallbackLeavesSteps, WorkingSteps
     DEF Aside, Calling, ShuttingDown

---------------------------------------------------------------------------------
(***************************************************************************)
(* One processor for each subscription.                                    *)
(***************************************************************************)
LEMMA WorksKept ==
  ASSUME TypeInv, NoNameClash, AllWork, \A x \in Subs : SameJoin(sub[x], sub'[x]),
         \A t \in Topics : registry'[t] \in {registry[t], 0}, DropsCancelled,
         \A o \in Tasks : TaskStep(o) \/ StartsCallback(o)
  PROVE  AllWork'
<1>1. Made' = Made
  BY DEF SameJoin, Made
<1>2. \A x \in Made : /\ sub'[x].name = sub[x].name /\ Processor(x)' = Processor(x)
                      /\ Registered(x) /\ ~Registered(x)' =>
                           task'[Processor(x)].at \notin AtWork \cup {"start"}
  BY DEF SameJoin, Processor, Made, DropsCancelled
<1> SUFFICES ASSUME NEW o \in Tasks
             PROVE  Works(o)' /\ WillWork(o)'
  BY DEF AllWork
<1>3. Works(o) /\ WillWork(o) /\ (TaskStep(o) \/ StartsCallback(o))
  BY DEF AllWork
<1>4. CASE task'[o].at \in {"none", "done"}
  BY <1>4 DEF Works, WillWork, Alive
<1>5. CASE /\ Alive(o) /\ task'[o].on = task[o].on /\ task'[o].topic = task[o].topic
           /\ task'[o].at = "start" => task[o].at = "start"
           /\ task'[o].at \in AtWork => task[o].at \in AtWork
  <2>1. Works(o)'
    BY <1>1, <1>2, <1>3, <1>5 DEF Works, AtWork
  <2>2. WillWork(o)'
    <3> SUFFICES ASSUME task'[o].at = "start"
                 PROVE  \E x \in Made' : o = Processor(x)' /\ task'[o].topic = sub'[x].name
      BY DEF WillWork
    <3>1. PICK x \in Made : o = Processor(x) /\ task[o].topic = sub[x].name
      BY <1>3, <1>5 DEF WillWork
    <3> QED
      BY <1>1, <1>2, <1>5, <3>1
  <2> QED
    BY <2>1, <2>2
<1>6. CASE /\ task[o].at = "start" /\ registry[task[o].topic] # 0 /\ UNCHANGED registry
           /\ task'[o].at = "get" /\ task'[o].on = registry[task[o].topic]
  <2>1. PICK x \in Made : o = Processor(x) /\ task[o].topic = sub[x].name
    BY <1>3, <1>6 DEF WillWork
  <2>2. PICK y \in Made : y = registry[task[o].topic] /\ sub[y].name = task[o].topic /\ Registered(y)
    BY <1>6, <2>1, TaskTypes, Registers
  <2>3. x = y
    BY <1>6, <2>1, <2>2 DEF NoNameClash
  <2>4. Registered(y)'
    BY <1>2, <1>6, <2>2 DEF Registered, Made
  <2>5. task'[o].on = y /\ y \in Made' /\ o = sub'[y].ref
    BY <1>1, <1>2, <1>6, <2>1, <2>2, <2>3 DEF Processor
  <2>6. Works(o)'
    <3>1. task'[o].on \in Made' /\ o = sub'[task'[o].on].ref
      BY <2>5
    <3>2. Registered(task[o].on)'
      BY <2>4, <2>5 DEF Registered
    <3> QED
      BY <3>1, <3>2 DEF Works, Processor
  <2>7. WillWork(o)'
    BY <1>6 DEF WillWork
  <2> QED
    BY <2>6, <2>7
<1>7. CASE StartsCallback(o)
  <2>1. Works(o)'
    BY <1>1, <1>2, <1>3, <1>7 DEF Works, AtWork, StartsCallback, Alive
  <2>2. WillWork(o)'
    BY <1>7 DEF WillWork, StartsCallback
  <2> QED
    BY <2>1, <2>2
<1> QED
  BY <1>3, <1>4, <1>5, <1>6, <1>7 DEF TaskStep

\* A join makes a task of its own, once the processor there was has ended.
LEMMA JoinTasks ==
  ASSUME TypeInv, TypeInv', NEW x \in Made, NEW rest, NEW g, NEW l, Join(x, rest, g, l)
  PROVE  /\ refs \in Nat /\ refs + 1 \in Tasks
         /\ task'[refs + 1] = NewTask(sub[x].name)
         /\ \A o \in Tasks \ {refs + 1} : task'[o] = task[o]
         /\ sub'[x] = Rejoined(x, g) /\ \A y \in Subs \ {x} : sub'[y] = sub[y]
         /\ Rejoined(x, g).name = sub[x].name /\ Rejoined(x, g).ref = refs + 1
         /\ Rejoined(x, g).gen = g /\ Rejoined(x, g).queue = <<>> /\ Made' = Made
<1>1. refs \in Nat /\ refs' = refs + 1 /\ refs' \in Tasks \cup {0}
  BY ConstantTypes DEF TypeInv, InRange, Tasks, Join
<1>2. refs + 1 \in Tasks
  BY <1>1
<1>3. /\ task' = [task EXCEPT ![refs + 1] = NewTask(sub[x].name)]
      /\ sub' = [sub EXCEPT ![x] = Rejoined(x, g)]
  BY DEF Join, Rejoined
<1>4. task \in [Tasks -> Processors] /\ sub \in [Subs -> Subscriptions] /\ x \in Subs
  BY TaskTypes DEF TypeInv, InRange, SubsOK
<1>5. /\ Rejoined(x, g).name = sub[x].name /\ Rejoined(x, g).ref = refs + 1
      /\ Rejoined(x, g).gen = g /\ Rejoined(x, g).queue = <<>>
  BY <1>4 DEF Rejoined, Subscriptions
<1>6. sub'[x] = Rejoined(x, g) /\ \A y \in Subs \ {x} : sub'[y] = sub[y]
  BY <1>3, <1>4
<1>7. Made' = Made
  BY <1>5, <1>6 DEF Made
<1> QED
  BY <1>1, <1>2, <1>3, <1>4, <1>5, <1>6, <1>7

LEMMA JoinWorks ==
  ASSUME TypeInv, TypeInv', AllWork, UNCHANGED registry, NEW x \in Made,
         NEW rest, NEW g, NEW l, Join(x, rest, g, l), ~Alive(Processor(x))
  PROVE  AllWork'
<1>1. /\ refs \in Nat /\ refs + 1 \in Tasks
      /\ task'[refs + 1] = NewTask(sub[x].name)
      /\ \A o \in Tasks \ {refs + 1} : task'[o] = task[o]
      /\ sub'[x].name = sub[x].name /\ sub'[x].ref = refs + 1
      /\ \A y \in Subs \ {x} : sub'[y] = sub[y]
      /\ Made' = Made
  BY JoinTasks
<1>2. \A y \in Made : Registered(y)' = Registered(y)
  BY <1>1 DEF Registered, Made
<1>3. \A y \in Made \ {x} : sub'[y] = sub[y] /\ Processor(y)' = Processor(y)
  BY <1>1, TaskTypes DEF Processor
<1>4. \A o \in Tasks \ {refs + 1} : Works(o)' /\ WillWork(o)'
  <2> SUFFICES ASSUME NEW o \in Tasks \ {refs + 1}
               PROVE  Works(o)' /\ WillWork(o)'
    OBVIOUS
  <2>1. Works(o) /\ WillWork(o) /\ task'[o] = task[o]
    BY <1>1 DEF AllWork
  <2>2. ASSUME NEW y \in Made, o = Processor(y), Alive(o)
        PROVE  y \in Made \ {x}
    BY <2>2
  <2>3. Works(o)'
    BY <1>1, <1>2, <1>3, <2>1, <2>2 DEF Works, Alive
  <2>4. WillWork(o)'
    BY <1>1, <1>2, <1>3, <2>1, <2>2 DEF WillWork, Alive
  <2> QED
    BY <2>3, <2>4
<1>5. PICK p \in Tasks : p = refs + 1
  BY <1>1
<1>6. Works(p)' /\ WillWork(p)'
  <2>1. task'[p].on = 0 /\ task'[p].topic = sub[x].name
    BY <1>1, <1>5 DEF NewTask, NoTask
  <2>2. x \in Made' /\ p = Processor(x)' /\ task'[p].topic = sub'[x].name
    BY <1>1, <1>5, <2>1 DEF Processor
  <2>3. Works(p)'
    BY <2>1 DEF Works
  <2>4. WillWork(p)'
    BY <2>2 DEF WillWork
  <2> QED
    BY <2>3, <2>4
<1> QED
  BY <1>4, <1>5, <1>6 DEF AllWork

\* A new subscription and its processor.
LEMMA MakesTasks ==
  ASSUME TypeInv, NEW t \in Topics, Subscribe(t)
  PROVE  \E x \in Subs \ Made :
           /\ refs \in Nat /\ refs + 1 \in Tasks /\ refs' = refs + 1
           /\ sub'[x].name = t /\ sub'[x].ref = refs + 1 /\ sub'[x].gen = gen
           /\ sub'[x].queue = <<>> /\ sub'[x].ready # "ok" /\ ~sub'[x].leave
           /\ \A y \in Subs \ {x} : sub'[y] = sub[y] /\ call'[y] = call[y]
           /\ Made' = Made \cup {x}
           /\ \A o \in Tasks \ {refs + 1} : task'[o] = task[o]
           /\ task'[refs + 1].on = 0 /\ task'[refs + 1].topic = t
           /\ \/ /\ registry' = [registry EXCEPT ![t] = x] /\ call'[x].at = "joining"
                 /\ task'[refs + 1].at = "start" /\ ServerJoins(t, refs + 1, gen) /\ link = "up"
              \/ /\ registry' = registry /\ call'[x].at = "unregistering"
                 /\ task'[refs + 1].at = "stopping" /\ UNCHANGED server /\ link = "down"
<1>1. PICK x, handlers : handlers \subseteq HandlerKinds /\ Makes(x, t, handlers)
  BY SubscribeEffect
<1>2. /\ x \in Subs \ Made /\ refs \in Nat /\ refs' = refs + 1 /\ refs + 1 \in Tasks
      /\ sub \in [Subs -> Subscriptions] /\ task \in [Tasks -> Processors]
      /\ link \in {"up", "down"}
      /\ call \in [Subs -> [at : {"idle", "joining", "unregistering", "returned", "raised"},
                           on : Tasks \cup {0}]]
  BY <1>1, ConstantTypes DEF Makes, TypeInv, InRange, SubsOK, TasksOK, CallsOK, Tasks
<1> DEFINE s == IF link = "up" THEN NewSub(t, handlers) ELSE Settle(NewSub(t, handlers), "failed")
           k == IF link = "up" THEN NewTask(t) ELSE Cancel(NewTask(t))
<1>3. sub' = [sub EXCEPT ![x] = s] /\ task' = [task EXCEPT ![refs + 1] = k]
  BY <1>1 DEF Makes
<1>4. s \in {NewSub(t, handlers), Settle(NewSub(t, handlers), "failed")}
  OBVIOUS
<1>5. /\ k.on = 0 /\ k.topic = t /\ k.at = IF link = "up" THEN "start" ELSE "stopping"
  <2>1. NewTask(t).on = 0 /\ NewTask(t).topic = t /\ NewTask(t).at = "start" /\ NewTask(t) \in Processors
    BY ConstantTypes DEF NewTask, NoTask
  <2>2. Cancel(NewTask(t)).on = 0 /\ Cancel(NewTask(t)).topic = t /\ Cancel(NewTask(t)).at = "stopping"
    BY <2>1, CancelType DEF Cancel, Processors
  <2> QED
    BY <2>1, <2>2
<1> HIDE DEF s, k
<1>6. /\ s.name = t /\ s.ref = refs + 1 /\ s.gen = gen /\ s.queue = <<>> /\ s.ready # "ok"
      /\ s.leave = FALSE
  <2>1. handlers \in SUBSET HandlerKinds /\ refs + 1 \in Tasks
    BY <1>1, <1>2
  <2> QED
    BY <1>4, <2>1, NewSubType
<1>7. sub'[x] = s /\ \A y \in Subs \ {x} : sub'[y] = sub[y]
  BY <1>2, <1>3
<1>8. task'[refs + 1] = k /\ \A o \in Tasks \ {refs + 1} : task'[o] = task[o]
  BY <1>2, <1>3
<1>9. Made' = Made \cup {x}
  BY <1>2, <1>6, <1>7, TopicAssumption DEF Made
<1>10. /\ \A y \in Subs \ {x} : call'[y] = call[y]
       /\ \/ /\ registry' = [registry EXCEPT ![t] = x] /\ call'[x].at = "joining"
             /\ ServerJoins(t, refs + 1, gen) /\ link = "up"
          \/ /\ registry' = registry /\ call'[x].at = "unregistering" /\ UNCHANGED server
             /\ link = "down"
  <2>1. CASE link = "up"
    BY <1>1, <1>2, <2>1 DEF Makes
  <2>2. CASE link # "up"
    BY <1>1, <1>2, <2>2 DEF Makes
  <2> QED
    BY <2>1, <2>2
<1> QED
  BY <1>2, <1>5, <1>6, <1>7, <1>8, <1>9, <1>10

LEMMA SubscribeWorks ==
  ASSUME TypeInv, AllWork, NEW t \in Topics, Subscribe(t)
  PROVE  AllWork'
<1>1. PICK x \in Subs \ Made :
        /\ refs \in Nat /\ refs + 1 \in Tasks
        /\ sub'[x].name = t /\ sub'[x].ref = refs + 1
        /\ \A y \in Subs \ {x} : sub'[y] = sub[y]
        /\ Made' = Made \cup {x}
        /\ \A o \in Tasks \ {refs + 1} : task'[o] = task[o]
        /\ task'[refs + 1].on = 0 /\ task'[refs + 1].topic = t
        /\ \/ registry' = [registry EXCEPT ![t] = x] /\ task'[refs + 1].at = "start"
           \/ registry' = registry /\ task'[refs + 1].at = "stopping"
  BY MakesTasks
<1>2. registry[t] = 0 /\ registry \in [Topics -> Numbers]
  BY TaskTypes DEF Subscribe
<1>3. \A y \in Made : sub'[y] = sub[y] /\ Processor(y)' = Processor(y) /\ (Registered(y) => Registered(y)')
  <2>1. \A y \in Made : sub'[y] = sub[y] /\ y # 0
    BY <1>1, TaskTypes
  <2> QED
    BY <1>1, <1>2, <2>1, TaskTypes DEF Registered, Processor
<1>4. \A o \in Tasks \ {refs + 1} : Works(o)' /\ WillWork(o)'
  <2> SUFFICES ASSUME NEW o \in Tasks \ {refs + 1}
               PROVE  Works(o)' /\ WillWork(o)'
    OBVIOUS
  <2>1. Works(o) /\ WillWork(o) /\ task'[o] = task[o]
    BY <1>1 DEF AllWork
  <2>2. Works(o)'
    BY <1>1, <1>3, <2>1 DEF Works, Alive
  <2>3. WillWork(o)'
    BY <1>1, <1>3, <2>1 DEF WillWork, Alive
  <2> QED
    BY <2>2, <2>3
<1>5. PICK p \in Tasks : p = refs + 1
  BY <1>1
<1>6. Works(p)' /\ WillWork(p)'
  <2>1. Works(p)'
    BY <1>1, <1>5 DEF Works
  <2>2. CASE registry' = [registry EXCEPT ![t] = x]
    <3>1. registry'[t] = x
      BY <1>2, <2>2
    <3>2. x \in Made' /\ Registered(x)'
      BY <1>1, <3>1, TopicAssumption DEF Registered
    <3>3. p = Processor(x)' /\ task'[p].topic = sub'[x].name
      BY <1>1, <1>5 DEF Processor
    <3>4. WillWork(p)'
      BY <3>2, <3>3 DEF WillWork
    <3> QED
      BY <2>1, <3>4
  <2>3. CASE task'[refs + 1].at = "stopping"
    <3>1. task'[p].at = "stopping"
      BY <1>5, <2>3
    <3> QED
      BY <2>1, <3>1 DEF WillWork
  <2> QED
    BY <1>1, <2>2, <2>3
<1> QED
  BY <1>4, <1>5, <1>6 DEF AllWork

---------------------------------------------------------------------------------
(***************************************************************************)
(* The other steps: messages that are routed, pushed or dispatched, and    *)
(* the moves of a rejoin.                                                  *)
(***************************************************************************)
LEMMA RestKeeps ==
  ASSUME TypeInv, Route \/ (\E t \in Topics : Push(t)) \/ \E o \in Tasks : Dispatch(o)
  PROVE  /\ UNCHANGED <<registry, calls, rejoin, gen, link, connected, shutdown, refs>>
         /\ \A x \in Subs : SameJoin(sub[x], sub'[x]) /\ sub'[x].leave = sub[x].leave
<1>1. UNCHANGED <<registry, calls, rejoin, gen, link, connected, shutdown, refs>>
  BY DEF Route, Push, Dispatch, net
<1>2. sub' = sub => \A x \in Subs : SameJoin(sub[x], sub'[x]) /\ sub'[x].leave = sub[x].leave
  BY DEF SameJoin
<1>3. CASE Route /\ sub' # sub
  <2>1. PICK x \in Made : \E q : sub' = [sub EXCEPT ![x].queue = q]
    BY <1>3, RouteEffect
  <2> QED
    BY <1>1, <2>1 DEF SameJoin, TypeInv, InRange, SubsOK, Subscriptions
<1>4. CASE \E t \in Topics : Push(t)
  BY <1>1, <1>2, <1>4 DEF Push
<1> QED
  BY <1>1, <1>2, <1>3, <1>4, DispatchKeeps

LEMMA DispatchTasks ==
  ASSUME TypeInv, NEW o \in Tasks, Dispatch(o)
  PROVE  DropsCancelled /\ \A p \in Tasks : TaskStep(p) \/ StartsCallback(p)
<1> DEFINE x == task[o].on
           m == Head(sub[x].queue)
           s == [sub[x] EXCEPT !.queue = Tail(sub[x].queue)]
<1>1. x = task[o].on /\ m = Head(sub[x].queue) /\ s = [sub[x] EXCEPT !.queue = Tail(sub[x].queue)]
  OBVIOUS
<1> HIDE DEF x, m, s
<1>2. \/ task' = task \/ task' = [task EXCEPT ![o] = Ended]
      \/ \E todo : task' = [task EXCEPT ![o] = [task[o] EXCEPT !.at = "callback", !.msg = m, !.todo = todo]]
  <2>1. \/ Ignored(o, x, s) \/ JoinAnswer(o, x, m, s) \/ LeaveAnswer(o, x, m, s)
        \/ CallbackStarts(o, x, m, s)
    BY <1>1, DispatchEffect
  <2> QED
    BY <2>1 DEF Ignored, JoinAnswer, LeaveAnswer, CallbackStarts
<1>3. /\ UNCHANGED registry /\ task[o].at = "get" /\ task \in [Tasks -> Processors]
      /\ \A y \in Subs : SameJoin(sub[y], sub'[y])
      /\ sub[x].queue # <<>>
  BY <1>1, RestKeeps, TaskTypes DEF Dispatch
<1>4. (TaskStep(o) \/ StartsCallback(o)) /\ \A p \in Tasks \ {o} : task'[p] = task[p]
  <2>1. CASE task' = task
    BY <2>1, SameTask
  <2>2. CASE task' = [task EXCEPT ![o] = Ended]
    BY <1>3, <2>2 DEF Ended, NoTask, TaskStep
  <2>3. ASSUME NEW todo,
               task' = [task EXCEPT ![o] = [task[o] EXCEPT !.at = "callback", !.msg = m, !.todo = todo]]
        PROVE  StartsCallback(o) /\ \A p \in Tasks \ {o} : task'[p] = task[p]
    <3>1. task'[o] = [task[o] EXCEPT !.at = "callback", !.msg = m, !.todo = todo]
      BY <1>3, <2>3
    <3>2. task'[o].at = "callback" /\ task'[o].on = task[o].on /\ task'[o].msg = m
      BY <1>3, <3>1 DEF Processors
    <3> QED
      BY <1>1, <1>3, <2>3, <3>2 DEF StartsCallback
  <2> QED
    BY <1>2, <2>1, <2>2, <2>3
<1>5. \A p \in Tasks : TaskStep(p) \/ StartsCallback(p)
  BY <1>4, SameTask
<1>6. \A y \in Made : Registered(y) => Registered(y)'
  BY <1>3 DEF Registered, SameJoin, Made
<1> QED
  BY <1>5, <1>6 DEF DropsCancelled

LEMMA MovesOnce ==
  ASSUME TypeInv, Moving
  PROVE  /\ UNCHANGED <<registry, call, shutdown>>
         /\ \E S \in SUBSET Made, g \in 1..MaxGen : \E l : gen' = g /\ MovesOn(S, g, l)
         /\ \A x \in Subs : sub'[x] = sub[x] \/ sub'[x] = Rejoined(x, gen')
<1>1. UNCHANGED <<registry, call, shutdown>> /\ gen' \in 1..MaxGen /\ gen \in 1..MaxGen
  BY MovingEffect, TypeStep DEF calls, Next, Moving, Rejoining, TypeInv, InRange
<1>2. \E S \in SUBSET Made : \E l : MovesOn(S, gen', l)
  <2>1. CASE Reconnects
    <3> DEFINE S == {registry[t] : t \in Topics} \ {0}
    <3>1. S \in SUBSET Made
      BY Registers
    <3> QED
      BY <2>1, <3>1 DEF Reconnects
  <2>2. CASE GoesOnHere
    <3>1. ToMove \in SUBSET Made
      BY DEF ToMove, TypeInv, RejoinMade, Resting
    <3> QED
      BY <2>2, <3>1 DEF GoesOnHere
  <2> QED
    BY <2>1, <2>2, MovingEffect
<1>3. PICK S \in SUBSET Made : \E l : MovesOn(S, gen', l)
  BY <1>2
<1>4. \A x \in Subs : sub'[x] = sub[x] \/ sub'[x] = Rejoined(x, gen')
  BY <1>1, <1>3, MovesSubs
<1> QED
  BY <1>1, <1>3, <1>4

LEMMA RejoinedType ==
  ASSUME TypeInv, NEW x \in Subs, NEW g
  PROVE  /\ Rejoined(x, g).name = sub[x].name /\ Rejoined(x, g).gen = g
         /\ Rejoined(x, g).leave = sub[x].leave /\ Rejoined(x, g).queue = <<>>
         /\ Rejoined(x, g).ready = "pending"
BY DEF Rejoined, TypeInv, InRange, SubsOK, Subscriptions

LEMMA AllWorkStep ==
  ASSUME TypeInv, NoNameClash, AllWork, [Next]_vars
  PROVE  AllWork'
<1>1. TypeInv'
  BY TypeStep
<1>2. CASE UNCHANGED vars
  <2>1. UNCHANGED <<task, sub, registry>>
    BY <1>2 DEF vars
  <2> QED
    BY <2>1 DEF AllWork, Works, WillWork, Alive, Made, Processor, Registered
<1>3. CASE Aside
  <2>1. TasksStep /\ KeepsJoins
    BY <1>3, AsideSteps, AsideKeeps DEF StepsAside, SetAside, AllWork
  <2> QED
    BY <2>1, WorksKept DEF KeepsJoins, Steadily, TasksStep
<1>4. CASE Moving
  <2>1. UNCHANGED registry
    BY <1>4, MovesOnce
  <2>2. PICK S \in SUBSET Made, g \in 1..MaxGen : \E l : MovesOn(S, g, l)
    BY <1>4, MovesOnce
  <2>3. CASE UNCHANGED <<sub, task>>
    <3>1. TasksStep
      BY <2>1, <2>3, IdleTasks
    <3> QED
      BY <2>1, <2>3, <3>1, WorksKept DEF SameJoin, TasksStep
  <2>4. ASSUME NEW x \in S, NEW rest, Reaps(x, rest)
        PROVE  AllWork'
    <3>1. /\ Processor(x) \in Tasks /\ sub' = sub
          /\ task' = [task EXCEPT ![Processor(x)] = Cancel(task[Processor(x)])]
      BY <2>4, TaskTypes DEF Reaps
    <3>2. task'[Processor(x)] = Cancel(task[Processor(x)])
      BY <3>1, TaskTypes
    <3>3. TaskStep(Processor(x))
      BY <3>1, <3>2, CancelledTask
    <3>4. TasksStep
      BY <2>1, <3>1, <3>3, OneTaskStep
    <3> QED
      BY <2>1, <3>1, <3>4, WorksKept DEF SameJoin, TasksStep
  <2>5. ASSUME NEW x \in S, NEW rest, NEW l, Join(x, rest, g, l), ~Alive(Processor(x))
        PROVE  AllWork'
    BY <1>1, <2>1, <2>5, JoinWorks
  <2> QED
    BY <2>2, <2>3, <2>4, <2>5 DEF MovesOn, Over, Drains
<1>5. CASE Route \/ (\E t \in Topics : Push(t)) \/ \E o \in Tasks : Dispatch(o)
  <2>1. UNCHANGED registry /\ \A x \in Subs : SameJoin(sub[x], sub'[x])
    BY <1>5, RestKeeps
  <2>2. DropsCancelled /\ \A o \in Tasks : TaskStep(o) \/ StartsCallback(o)
    <3>1. CASE Route \/ \E t \in Topics : Push(t)
      <4>1. UNCHANGED task
        BY <3>1 DEF Route, Push
      <4>2. \A o \in Tasks : TaskStep(o)
        BY <4>1, SameTask
      <4> QED
        BY <2>1, <4>2 DEF DropsCancelled, Registered, SameJoin, Made
    <3> QED
      BY <1>5, <3>1, DispatchTasks
  <2> QED
    BY <2>1, <2>2, WorksKept
<1>6. CASE \E t \in Topics : Subscribe(t)
  BY <1>6, SubscribeWorks
<1> QED
  BY <1>2, <1>3, <1>4, <1>5, <1>6, NextCases

---------------------------------------------------------------------------------
(***************************************************************************)
(* What was given up is not registered, and after a shutdown nothing is.   *)
(***************************************************************************)
LEMMA RaisedStep ==
  ASSUME TypeInv, AllWork, Raised, [Next]_vars
  PROVE  Raised'
<1>1. ASSUME CallsKept, \A x \in Subs : sub'[x].name = sub[x].name,
             \A t \in Topics : registry'[t] \in {registry[t], 0}
      PROVE  Raised'
  <2> SUFFICES ASSUME NEW x \in Subs, call'[x].at \in {"unregistering", "raised"}, ~(~Registered(x)')
               PROVE  FALSE
    BY DEF Raised
  <2>1. call[x].at \in {"unregistering", "raised"}
    BY <1>1 DEF CallsKept
  <2>2. sub[x].name # "none" /\ registry'[sub[x].name] = x
    BY <1>1 DEF Registered
  <2>3. x # 0 /\ sub[x].name \in Topics
    <3>1. x # 0 /\ sub \in [Subs -> Subscriptions]
      BY ConstantTypes DEF TypeInv, InRange, SubsOK, Subs
    <3> QED
      BY <2>2, <3>1 DEF Subscriptions
  <2>4. Registered(x)
    BY <1>1, <2>2, <2>3 DEF Registered
  <2> QED
    BY <2>1, <2>4 DEF Raised
<1>2. ASSUME UNCHANGED <<call, registry>>, \A x \in Subs : sub'[x].name = sub[x].name
      PROVE  Raised'
  BY <1>1, <1>2 DEF CallsKept
<1>3. CASE UNCHANGED vars
  <2>1. UNCHANGED <<call, sub, registry>>
    BY <1>3 DEF vars, calls
  <2> QED
    BY <1>2, <2>1
<1>4. CASE Aside
  <2>1. CallsKept /\ KeepsJoins
    BY <1>4, AsideSteps, AsideKeeps DEF StepsAside, SetAside, AllWork
  <2> QED
    BY <1>1, <2>1 DEF KeepsJoins, Steadily, SameJoin
<1>5. CASE Moving
  BY <1>2, <1>5, MovesOnce, RejoinedType
<1>6. CASE Route \/ (\E t \in Topics : Push(t)) \/ \E o \in Tasks : Dispatch(o)
  BY <1>2, <1>6, RestKeeps DEF SameJoin, calls
<1>7. ASSUME NEW t \in Topics, Subscribe(t)
      PROVE  Raised'
  <2>1. PICK x \in Subs \ Made :
          /\ sub'[x].name = t /\ \A y \in Subs \ {x} : sub'[y] = sub[y] /\ call'[y] = call[y]
          /\ \/ registry' = [registry EXCEPT ![t] = x] /\ call'[x].at = "joining"
             \/ registry' = registry
    BY <1>7, MakesTasks
  <2>2. registry[t] = 0 /\ registry \in [Topics -> Numbers] /\ x # 0
    BY <1>7, TaskTypes, ConstantTypes DEF Subscribe, Subs
  <2>3. ASSUME NEW y \in Subs \ {x}, Registered(y)'
        PROVE  Registered(y)
    <3>1. sub[y].name \in Topics /\ registry'[sub[y].name] = y
      BY <2>1, <2>3 DEF Registered, TypeInv, InRange, SubsOK, Subscriptions
    <3>2. registry[sub[y].name] = y
      BY <2>1, <2>2, <2>3, <3>1
    <3> QED
      BY <2>1, <2>3, <3>2 DEF Registered
  <2>4. CASE registry' = registry
    <3>1. ~Registered(x)'
      BY <2>1, <2>2, <2>4 DEF Registered
    <3> QED
      BY <2>1, <2>3, <3>1 DEF Raised
  <2>5. CASE call'[x].at = "joining"
    BY <2>1, <2>3, <2>5 DEF Raised
  <2> QED
    BY <2>1, <2>4, <2>5
<1> QED
  BY <1>3, <1>4, <1>5, <1>6, <1>7, NextCases

LEMMA ClosedStep ==
  ASSUME TypeInv, AllWork, Closed, [Next]_vars
  PROVE  Closed'
<1>1. CASE UNCHANGED vars
  <2>1. UNCHANGED <<shutdown, connected, registry>>
    BY <1>1 DEF vars, net
  <2> QED
    BY <2>1 DEF Closed
<1>2. CASE Aside
  <2>1. ShutsDown /\ KeepsJoins /\ KeepsRejoin
    BY <1>2, AsideSteps, AsideKeeps DEF StepsAside, SetAside, AllWork
  <2>2. shutdown'.at # "no" => ~connected'
    BY <2>1 DEF ShutsDown, KeepsRejoin, Closed
  <2>3. shutdown'.at \notin Asking => \A t \in Topics : registry'[t] = 0
    BY <2>1 DEF ShutsDown, KeepsJoins, Closed
  <2> QED
    BY <2>2, <2>3 DEF Closed, Asking
<1>3. CASE Moving
  <2>1. UNCHANGED <<registry, shutdown>> /\ (Reconnects \/ UNCHANGED connected)
    BY <1>3, MovingEffect DEF GoesOnHere
  <2> QED
    BY <2>1 DEF Closed, Reconnects, Asking
<1>4. CASE Route \/ (\E t \in Topics : Push(t)) \/ \E o \in Tasks : Dispatch(o)
  BY <1>4, RestKeeps DEF Closed
<1>5. ASSUME NEW t \in Topics, Subscribe(t)
      PROVE  Closed'
  <2>1. connected /\ UNCHANGED <<connected, shutdown>>
    BY <1>5 DEF Subscribe, net
  <2> QED
    BY <2>1 DEF Closed, Asking
<1> QED
  BY <1>1, <1>2, <1>3, <1>4, <1>5, NextCases

LEMMA QuietInit == Init => Quietly
BY DEF Init, Quietly, AllWork, Works, WillWork, Alive, Raised, Closed, Asking, Made, NoSub, NoTask

\* With the typing, the invariant behind the theorems below.
LEMMA QuietSpec == Spec /\ []NoNameClash => [](TypeInv /\ Quietly)
<1>1. TypeInv /\ Quietly /\ NoNameClash /\ [Next]_vars => TypeInv' /\ Quietly'
  BY TypeStep, AllWorkStep, RaisedStep, ClosedStep DEF Quietly
<1> QED
  BY <1>1, InitType, QuietInit, PTL DEF Spec

LEMMA WorkerOf ==
  ASSUME TypeInv, AllWork, NEW o \in Tasks, task[o].at \in {"get", "callback"}
  PROVE  Registered(task[o].on) /\ task[o].on # 0 /\ sub[task[o].on].name \in Topics
<1>1. task[o].on \in Made
  BY DEF TypeInv, TasksMade
<1> QED
  BY <1>1, TaskTypes DEF AllWork, Works, Alive

\* However a topic is rejoined, left and refused at the same time, its subscription has one live
\* processor: callbacks of one topic never run side by side.
THEOREM ProcessorAlone == Spec /\ []NoNameClash => []OneProcessor
<1>1. TypeInv /\ Quietly => OneProcessor
  <2> SUFFICES ASSUME TypeInv, AllWork, NEW x \in Subs, NEW o \in Tasks, NEW p \in Tasks,
                      task[o].on = x, Alive(o), task[p].on = x, Alive(p)
               PROVE  o = p
    BY DEF OneProcessor, Quietly
  <2>1. x # 0
    BY ConstantTypes DEF Subs
  <2> QED
    BY <2>1 DEF AllWork, Works
<1> QED
  BY <1>1, QuietSpec, PTL

\* Whoever unregisters a topic has cancelled the callback it found running.
THEOREM UnregisteredStops == Spec /\ []NoNameClash => []UnregisteredQuiet
<1>1. TypeInv /\ Quietly => UnregisteredQuiet
  BY WorkerOf DEF UnregisteredQuiet, Quietly
<1> QED
  BY <1>1, QuietSpec, PTL

\* A subscribe_to_topic that raises leaves neither the topic registered nor a processor at work,
\* even when the topic was rejoined, left or shut down while the call waited.
THEOREM FailedSubscribeStops == Spec /\ []NoNameClash => []FailedSubscribeGone
<1>1. TypeInv /\ Quietly => FailedSubscribeGone
  BY WorkerOf DEF FailedSubscribeGone, Quietly, Raised
<1> QED
  BY <1>1, QuietSpec, PTL

\* A shutdown that has returned leaves no topic and no processor at work, whatever was under way.
THEOREM ShutdownStops == Spec /\ []NoNameClash => []ShutdownQuiet
<1>1. TypeInv /\ Quietly => ShutdownQuiet
  BY WorkerOf DEF ShutdownQuiet, Quietly, Closed, Asking, Registered
<1> QED
  BY <1>1, QuietSpec, PTL

---------------------------------------------------------------------------------
(***************************************************************************)
(* No message of an earlier connection is worked on.                       *)
(***************************************************************************)
LEMMA AppendOfConnection ==
  ASSUME NEW q \in Seq(Messages), NEW m \in Messages, NEW g, OfConnection(q, g), m.gen = g
  PROVE  OfConnection(Append(q, m), g)
<1> DEFINE v == Append(q, m)
<1>1. /\ Len(v) = Len(q) + 1 /\ Len(q) \in Nat /\ v[Len(q) + 1] = m
      /\ \A i \in 1..Len(q) : v[i] = q[i]
  BY AppendProperties
<1> HIDE DEF v
<1>2. \A i \in 1..Len(v) : i \in 1..Len(q) \/ i = Len(q) + 1
  BY <1>1
<1>3. \A i \in 1..Len(v) : v[i].gen = g
  BY <1>1, <1>2 DEF OfConnection
<1> QED
  BY <1>3 DEF OfConnection, v

LEMMA TailOfConnection ==
  ASSUME NEW q \in Seq(Messages), NEW g, OfConnection(q, g), q # <<>>
  PROVE  OfConnection(Tail(q), g) /\ Head(q).gen = g
<1> DEFINE v == Tail(q)
<1>1. /\ Len(v) = Len(q) - 1 /\ Len(q) \in Nat /\ Len(q) >= 1 /\ Head(q) = q[1]
      /\ \A i \in 1..Len(v) : v[i] = q[i + 1]
  BY HeadTailProperties, EmptySeq
<1> HIDE DEF v
<1>2. \A i \in 1..Len(v) : i + 1 \in 1..Len(q)
  BY <1>1
<1>3. \A i \in 1..Len(v) : v[i].gen = g
  BY <1>1, <1>2 DEF OfConnection
<1>4. Head(q).gen = g
  BY <1>1 DEF OfConnection
<1> QED
  BY <1>3, <1>4 DEF OfConnection, v

LEMMA EnqueueOfConnection ==
  ASSUME NEW q \in Seq(Messages), NEW m \in Messages, NEW g, OfConnection(q, g), m.gen = g
  PROVE  OfConnection(Enqueue(q, m), g)
<1>1. QueueSize \in Nat \ {0} /\ Len(q) \in Nat
  BY TopicAssumption
<1>2. CASE Len(q) >= QueueSize
  <2>1. q # <<>>
    BY <1>1, <1>2
  <2>2. Tail(q) \in Seq(Messages) /\ OfConnection(Tail(q), g)
    BY <2>1, HeadTailProperties, TailOfConnection
  <2> QED
    BY <1>2, <2>2, AppendOfConnection DEF Enqueue
<1>3. CASE ~(Len(q) >= QueueSize)
  BY <1>3, AppendOfConnection DEF Enqueue
<1> QED
  BY <1>2, <1>3

LEMMA LossOfConnection ==
  ASSUME NEW q \in Seq(Messages), NEW g, OfConnection(q, g), NEW k \in 0..Len(q)
  PROVE  OfConnection(SubSeq(q, 1, k), g)
<1> DEFINE v == SubSeq(q, 1, k)
<1>1. Len(v) = k /\ Len(q) \in Nat /\ \A i \in 1..k : v[i] = q[i]
  OBVIOUS
<1> HIDE DEF v
<1>2. \A i \in 1..Len(v) : i \in 1..Len(q) /\ v[i] = q[i]
  BY <1>1
<1> QED
  BY <1>2 DEF OfConnection, v

LEMMA EmptyOfConnection ==
  ASSUME NEW g
  PROVE  OfConnection(<<>>, g)
BY DEF OfConnection

LEMMA RepliesOfConnection ==
  ASSUME TypeInv, NEW g, OfConnection(wire, g),
         UNCHANGED wire \/ Replies(g) \/ \E k \in 0..Len(wire) : wire' = SubSeq(wire, 1, k)
  PROVE  OfConnection(wire', g)
<1>1. wire \in Seq(Messages)
  BY OrderTypes
<1>2. CASE UNCHANGED wire
  BY <1>2
<1>3. CASE Replies(g)
  BY <1>1, <1>3, AppendOfConnection DEF Replies
<1>4. CASE \E k \in 0..Len(wire) : wire' = SubSeq(wire, 1, k)
  BY <1>1, <1>4, LossOfConnection
<1> QED
  BY <1>2, <1>3, <1>4

LEMMA FreshAside ==
  ASSUME TypeInv, AllWork, Fresh, Aside
  PROVE  Fresh'
<1>1. SetAside /\ StepsAside
  BY AsideSteps, AsideKeeps DEF AllWork
<1>2. OfConnection(wire', gen')
  BY <1>1, RepliesOfConnection DEF SetAside, KeepsWire, KeepsJoins, Fresh, LostIsLost
<1>3. LostIsLost'
  <2> SUFFICES ASSUME ~connected', shutdown'.at = "no", rejoin'.at # "killed"
               PROVE  link' = "down" /\ wire' = <<>>
    BY DEF LostIsLost
  <2>1. shutdown.at = "no" /\ rejoin.at # "killed" /\ Disconnects
    BY <1>1 DEF StepsAside, ShutsDown, Disconnects
  <2>2. CASE connected
    BY <2>1, <2>2 DEF Disconnects
  <2>3. CASE ~connected
    <3>1. link = "down" /\ wire = <<>>
      BY <2>1, <2>3 DEF Fresh, LostIsLost
    <3> QED
      BY <2>1, <2>3, <3>1 DEF Disconnects
  <2> QED
    BY <2>2, <2>3
<1>4. ASSUME NEW x \in Made'
      PROVE  OfConnection(sub'[x].queue, sub'[x].gen)
  <2>1. x \in Made /\ sub'[x].queue = sub[x].queue /\ sub'[x].gen = sub[x].gen
    BY <1>1 DEF SetAside, KeepsJoins, Steadily, SameJoin, SameQueue, Made
  <2> QED
    BY <2>1 DEF Fresh, LostIsLost
<1> QED
  BY <1>2, <1>3, <1>4 DEF Fresh, LostIsLost

LEMMA FreshMoving ==
  ASSUME TypeInv, Fresh, Moving
  PROVE  Fresh'
<1>1. \A x \in Subs : sub'[x] = sub[x] \/ sub'[x] = Rejoined(x, gen')
  BY MovesOnce
<1>2. ASSUME NEW x \in Made'
      PROVE  OfConnection(sub'[x].queue, sub'[x].gen)
  <2>1. x \in Subs
    BY DEF Made
  <2>2. CASE sub'[x] = sub[x]
    BY <2>2 DEF Fresh, LostIsLost, Made
  <2>3. CASE sub'[x] = Rejoined(x, gen')
    BY <2>1, <2>3, RejoinedType, EmptyOfConnection
  <2> QED
    BY <1>1, <2>1, <2>2, <2>3
<1>3. CASE Reconnects
  <2>1. wire = <<>> /\ OfConnection(wire, gen + 1) /\ gen' = gen + 1 /\ connected'
    BY <1>3, EmptyOfConnection DEF Reconnects, Fresh, LostIsLost
  <2>2. UNCHANGED wire \/ Replies(gen + 1)
    <3>1. {registry[t] : t \in Topics} \ {0} \in SUBSET Made
      BY Registers
    <3>2. gen + 1 \in 1..MaxGen
      BY <1>3, TypeStep DEF Reconnects, Next, Moving, Rejoining, TypeInv, InRange
    <3> QED
      BY <1>3, <3>1, <3>2, MovesSubs DEF Reconnects
  <2>3. OfConnection(wire', gen')
    BY <2>1, <2>2, RepliesOfConnection
  <2> QED
    BY <1>2, <2>1, <2>3 DEF Fresh, LostIsLost
<1>4. CASE GoesOnHere
  <2>1. /\ ToMove \in SUBSET Made /\ gen \in 1..MaxGen /\ MovesOn(ToMove, gen, link)
        /\ rejoin.at # "killed" /\ UNCHANGED <<gen, link, connected, shutdown>>
    BY <1>4, MovesOnce DEF GoesOnHere, ToMove, TypeInv, RejoinMade, Resting, InRange
  <2>2. UNCHANGED wire \/ Replies(gen)
    BY <2>1, MovesSubs
  <2>3. OfConnection(wire', gen')
    BY <2>1, <2>2, RepliesOfConnection DEF Fresh, LostIsLost
  <2>4. link # "up" => UNCHANGED wire
    BY <2>1 DEF MovesOn, Over, Drains, Reaps, Join, server
  <2>5. LostIsLost'
    <3> SUFFICES ASSUME ~connected', shutdown'.at = "no"
                 PROVE  link' = "down" /\ wire' = <<>>
      BY DEF LostIsLost
    <3>1. ~connected /\ shutdown.at = "no"
      BY <2>1
    <3>2. link = "down" /\ wire = <<>>
      BY <2>1, <3>1 DEF Fresh, LostIsLost
    <3> QED
      BY <2>1, <2>4, <3>2
  <2> QED
    BY <1>2, <2>3, <2>5 DEF Fresh, LostIsLost
<1> QED
  BY <1>3, <1>4, MovingEffect

LEMMA FreshRoute ==
  ASSUME TypeInv, Fresh, Route
  PROVE  Fresh'
<1>1. /\ wire # <<>> /\ wire \in Seq(Messages) /\ Head(wire) \in Messages /\ wire' = Tail(wire)
      /\ UNCHANGED <<gen, link, connected, shutdown, rejoin>>
  BY RouteEffect, OrderTypes, RestKeeps
<1>2. OfConnection(wire', gen') /\ Head(wire).gen = gen
  BY <1>1, TailOfConnection DEF Fresh
<1>3. LostIsLost'
  BY <1>1 DEF LostIsLost, Fresh
<1>4. ASSUME NEW y \in Made'
      PROVE  OfConnection(sub'[y].queue, sub'[y].gen)
  <2>1. y \in Made /\ y \in Subs /\ sub'[y].gen = sub[y].gen
    BY RestKeeps DEF SameJoin, Made
  <2>2. CASE sub' = sub
    BY <2>1, <2>2 DEF Fresh
  <2>3. CASE sub' # sub
    <3> DEFINE m == Head(wire)
    <3>1. PICK x \in Made : sub[x].gen = gen /\ sub' = [sub EXCEPT ![x].queue = Enqueue(sub[x].queue, m)]
      BY <2>3, RouteEffect
    <3> DEFINE q == Enqueue(sub[x].queue, m)
    <3>2. OfConnection(q, gen)
      <4>1. sub[x].queue \in Seq(Messages) /\ OfConnection(sub[x].queue, gen) /\ m \in Messages /\ m.gen = gen
        BY <1>1, <1>2, <3>1, OrderTypes DEF Fresh, Made
      <4> HIDE DEF m
      <4> QED
        BY <4>1, EnqueueOfConnection
    <3> HIDE DEF q
    <3>3. sub'[y].queue = IF y = x THEN q ELSE sub[y].queue
      BY <2>1, <3>1 DEF q, TypeInv, InRange, SubsOK, Subscriptions
    <3> QED
      BY <2>1, <3>1, <3>2, <3>3 DEF Fresh
  <2> QED
    BY <2>2, <2>3
<1> QED
  BY <1>2, <1>3, <1>4 DEF Fresh

LEMMA FreshPush ==
  ASSUME TypeInv, Fresh, NEW t \in Topics, Push(t)
  PROVE  Fresh'
<1>1. joined[t] \in Nat /\ gen \in 1..MaxGen /\ events + 1 \in 0..MaxEvents /\ link = "up"
  BY ConstantTypes DEF TypeInv, InRange, Tasks, Push
<1> DEFINE m == Message("event", t, joined[t], gen, events + 1)
<1>2. m \in Messages /\ m.gen = gen
  BY <1>1, MessageType
<1>3. /\ wire' = Append(wire, m) /\ wire \in Seq(Messages)
      /\ UNCHANGED <<sub, gen, link, connected, shutdown, rejoin>>
  BY OrderTypes DEF Push, net
<1> HIDE DEF m
<1>4. OfConnection(wire', gen')
  BY <1>2, <1>3, AppendOfConnection DEF Fresh
<1>5. LostIsLost'
  BY <1>1, <1>3 DEF LostIsLost, Fresh
<1> QED
  BY <1>3, <1>4, <1>5 DEF Fresh, Made

LEMMA DispatchQueue ==
  ASSUME TypeInv, NEW o \in Tasks, Dispatch(o)
  PROVE  /\ task[o].on \in Made /\ UNCHANGED wire
         /\ \A x \in Subs : sub'[x].queue = IF x = task[o].on THEN Tail(sub[x].queue) ELSE sub[x].queue
         /\ sub[task[o].on].queue # <<>>
<1> DEFINE x == task[o].on
           m == Head(sub[x].queue)
           s == [sub[x] EXCEPT !.queue = Tail(sub[x].queue)]
<1>1. x = task[o].on /\ m = Head(sub[x].queue) /\ s = [sub[x] EXCEPT !.queue = Tail(sub[x].queue)]
  OBVIOUS
<1> HIDE DEF x, m, s
<1>2. /\ x \in Made /\ sub[x].queue # <<>> /\ m \in Messages
      /\ s \in Subscriptions /\ s.queue = Tail(sub[x].queue)
      /\ \/ Ignored(o, x, s) \/ JoinAnswer(o, x, m, s) \/ LeaveAnswer(o, x, m, s)
         \/ CallbackStarts(o, x, m, s)
  BY <1>1, DispatchEffect
<1>3. PICK r : sub' = [sub EXCEPT ![x] = r] /\ r.queue = s.queue
  <2>1. SameQueue(s, JoinResponse(s, m)) /\ SameQueue(s, LeaveResponse(s, m))
    BY <1>2, ResponseType
  <2> DEFINE e == [s EXCEPT !.last = m.id]
  <2>2. e.queue = s.queue
    BY <1>2 DEF Subscriptions
  <2> HIDE DEF e
  <2>3. CASE CallbackStarts(o, x, m, s)
    <3>1. sub' = [sub EXCEPT ![x] = IF m.kind = "event" THEN e ELSE s]
      BY <2>3 DEF CallbackStarts, e
    <3> QED
      BY <2>2, <3>1
  <2> QED
    BY <1>2, <2>1, <2>3 DEF Ignored, JoinAnswer, LeaveAnswer, SameQueue
<1>4. sub \in [Subs -> Subscriptions] /\ x \in Subs /\ UNCHANGED wire
  BY <1>2 DEF Dispatch, server, TypeInv, InRange, SubsOK, Made
<1>5. \A y \in Subs : sub'[y] = IF y = x THEN r ELSE sub[y]
  BY <1>3, <1>4
<1>6. \A y \in Subs : sub'[y].queue = IF y = x THEN Tail(sub[y].queue) ELSE sub[y].queue
  BY <1>2, <1>3, <1>5
<1> QED
  BY <1>1, <1>2, <1>4, <1>6

LEMMA FreshDispatch ==
  ASSUME TypeInv, Fresh, NEW o \in Tasks, Dispatch(o)
  PROVE  Fresh'
<1> DEFINE x == task[o].on
<1>1. x \in Made /\ UNCHANGED wire /\ sub[x].queue # <<>>
  BY DispatchQueue
<1>2. UNCHANGED <<gen, link, connected, shutdown, rejoin>>
  BY RestKeeps
<1>3. \A y \in Subs : sub'[y].queue = IF y = x THEN Tail(sub[y].queue) ELSE sub[y].queue
  BY DispatchQueue
<1> HIDE DEF x
<1>4. ASSUME NEW y \in Made'
      PROVE  OfConnection(sub'[y].queue, sub'[y].gen)
  <2>1. y \in Made /\ y \in Subs /\ sub'[y].gen = sub[y].gen
    BY RestKeeps DEF SameJoin, Made
  <2>2. OfConnection(sub[y].queue, sub[y].gen) /\ sub[y].queue \in Seq(Messages)
    BY <2>1, OrderTypes DEF Fresh
  <2> QED
    BY <1>1, <1>3, <2>1, <2>2, TailOfConnection
<1>5. OfConnection(wire', gen') /\ LostIsLost'
  BY <1>1, <1>2 DEF Fresh, LostIsLost
<1> QED
  BY <1>4, <1>5 DEF Fresh

LEMMA FreshSubscribe ==
  ASSUME TypeInv, Fresh, NEW t \in Topics, Subscribe(t)
  PROVE  Fresh'
<1>1. /\ connected /\ UNCHANGED <<gen, link, connected, shutdown, rejoin>> /\ gen \in 1..MaxGen
  BY DEF Subscribe, net, TypeInv, InRange
<1>2. PICK x \in Subs \ Made :
        /\ refs + 1 \in Tasks /\ sub'[x].queue = <<>>
        /\ \A y \in Subs \ {x} : sub'[y] = sub[y]
        /\ Made' = Made \cup {x}
        /\ UNCHANGED server \/ ServerJoins(t, refs + 1, gen)
  BY MakesTasks
<1>3. UNCHANGED wire \/ Replies(gen)
  BY <1>1, <1>2, ServerType DEF server, TypeInv
<1>4. OfConnection(wire', gen')
  BY <1>1, <1>3, RepliesOfConnection DEF Fresh
<1>5. ASSUME NEW y \in Made'
      PROVE  OfConnection(sub'[y].queue, sub'[y].gen)
  <2>1. CASE y = x
    BY <1>2, <2>1, EmptyOfConnection
  <2>2. CASE y # x
    BY <1>2, <2>2 DEF Fresh, Made
  <2> QED
    BY <2>1, <2>2
<1> QED
  BY <1>1, <1>4, <1>5 DEF Fresh, LostIsLost

LEMMA FreshStep ==
  ASSUME TypeInv, AllWork, Fresh, [Next]_vars
  PROVE  Fresh'
<1>1. CASE UNCHANGED vars
  <2>1. UNCHANGED <<sub, wire, gen, link, connected, shutdown, rejoin>>
    BY <1>1 DEF vars, net, server
  <2> QED
    BY <2>1 DEF Fresh, LostIsLost, Made
<1> QED
  BY <1>1, FreshAside, FreshMoving, FreshRoute, FreshPush, FreshDispatch, FreshSubscribe, NextCases

\* A step of the tasks that leaves the connections of the subscriptions they work on alone.
LEMMA CallbacksKept ==
  ASSUME TypeInv, NoStaleCallback, \A o \in Tasks : TaskStep(o),
         \A x \in Made : sub'[x].gen = sub[x].gen
  PROVE  NoStaleCallback'
<1> SUFFICES ASSUME NEW o \in Tasks, task'[o].at \in AtMessage
             PROVE  task'[o].msg.gen = sub'[task'[o].on].gen
  BY DEF NoStaleCallback, AtMessage
<1>1. task[o].at \in AtMessage /\ task'[o].on = task[o].on /\ task'[o].msg = task[o].msg
  BY DEF TaskStep, AtMessage
<1>2. task[o].on \in Made
  BY <1>1 DEF AtMessage, TypeInv, TasksMade
<1> QED
  BY <1>1, <1>2 DEF NoStaleCallback, AtMessage

LEMMA CallbackJoin ==
  ASSUME TypeInv, TypeInv', AllWork, NoStaleCallback, NEW x \in Made, NEW rest, NEW g, NEW l,
         Join(x, rest, g, l), ~Alive(Processor(x))
  PROVE  NoStaleCallback'
<1>1. /\ refs + 1 \in Tasks /\ task'[refs + 1] = NewTask(sub[x].name)
      /\ \A o \in Tasks \ {refs + 1} : task'[o] = task[o]
      /\ \A y \in Subs \ {x} : sub'[y] = sub[y]
  BY JoinTasks
<1> SUFFICES ASSUME NEW o \in Tasks, task'[o].at \in AtMessage
             PROVE  task'[o].msg.gen = sub'[task'[o].on].gen
  BY DEF NoStaleCallback, AtMessage
<1>2. o # refs + 1
  BY <1>1 DEF NewTask, NoTask, AtMessage
<1>3. task'[o] = task[o] /\ task[o].at \in AtMessage
  BY <1>1, <1>2
<1>4. task[o].on \in Made /\ task[o].on \in Subs /\ task[o].on # 0
  BY <1>3, TaskTypes DEF AtMessage, TypeInv, TasksMade
<1>5. o = Processor(task[o].on) /\ Alive(o)
  BY <1>3, <1>4 DEF AllWork, Works, Alive, AtMessage
<1>6. task[o].on # x
  BY <1>5
<1> QED
  BY <1>1, <1>3, <1>4, <1>6 DEF NoStaleCallback, AtMessage

LEMMA CallbackStep ==
  ASSUME TypeInv, AllWork, Fresh, NoStaleCallback, [Next]_vars
  PROVE  NoStaleCallback'
<1>1. TypeInv'
  BY TypeStep
<1>2. ASSUME UNCHANGED task, \A x \in Made : sub'[x].gen = sub[x].gen
      PROVE  NoStaleCallback'
  BY <1>2, SameTask, CallbacksKept
<1>3. CASE UNCHANGED vars
  BY <1>2, <1>3 DEF vars
<1>4. CASE Aside
  <2>1. TasksStep /\ KeepsJoins
    BY <1>4, AsideSteps, AsideKeeps DEF StepsAside, SetAside, AllWork
  <2> QED
    BY <2>1, CallbacksKept DEF TasksStep, KeepsJoins, Steadily, SameJoin, Made
<1>5. CASE Moving
  <2>1. PICK S \in SUBSET Made, g \in 1..MaxGen : \E l : MovesOn(S, g, l)
    BY <1>5, MovesOnce
  <2>2. CASE UNCHANGED <<sub, task>>
    BY <1>2, <2>2
  <2>3. ASSUME NEW x \in S, NEW rest, Reaps(x, rest)
        PROVE  NoStaleCallback'
    <3>1. /\ Processor(x) \in Tasks /\ sub' = sub
          /\ task' = [task EXCEPT ![Processor(x)] = Cancel(task[Processor(x)])]
      BY <2>3, TaskTypes DEF Reaps
    <3>2. \A o \in Tasks : task'[o] = IF o = Processor(x) THEN Cancel(task[o]) ELSE task[o]
      BY <3>1, TaskTypes
    <3>3. \A o \in Tasks : TaskStep(o)
      BY <3>2, CancelledTask, SameTask
    <3> QED
      BY <3>1, <3>3, CallbacksKept
  <2>4. ASSUME NEW x \in S, NEW rest, NEW l, Join(x, rest, g, l), ~Alive(Processor(x))
        PROVE  NoStaleCallback'
    BY <1>1, <2>4, CallbackJoin
  <2> QED
    BY <2>1, <2>2, <2>3, <2>4 DEF MovesOn, Over, Drains
<1>6. CASE Route \/ \E t \in Topics : Push(t)
  <2>1. UNCHANGED task
    BY <1>6 DEF Route, Push
  <2> QED
    BY <1>2, <1>6, <2>1, RestKeeps DEF SameJoin, Made
<1>7. ASSUME NEW t \in Topics, Subscribe(t)
      PROVE  NoStaleCallback'
  <2>1. PICK x \in Subs \ Made :
          /\ refs + 1 \in Tasks /\ \A y \in Subs \ {x} : sub'[y] = sub[y]
          /\ \A o \in Tasks \ {refs + 1} : task'[o] = task[o]
          /\ task'[refs + 1].at \in {"start", "stopping"}
    BY <1>7, MakesTasks
  <2> SUFFICES ASSUME NEW o \in Tasks, task'[o].at \in AtMessage
               PROVE  task'[o].msg.gen = sub'[task'[o].on].gen
    BY DEF NoStaleCallback, AtMessage
  <2>2. task'[o] = task[o] /\ task[o].at \in AtMessage
    BY <2>1 DEF AtMessage
  <2>3. task[o].on \in Made
    BY <2>2 DEF AtMessage, TypeInv, TasksMade
  <2> QED
    BY <2>1, <2>2, <2>3 DEF NoStaleCallback, AtMessage, Made
<1>8. ASSUME NEW o \in Tasks, Dispatch(o)
      PROVE  NoStaleCallback'
  <2>1. \A p \in Tasks : TaskStep(p) \/ StartsCallback(p)
    BY <1>8, DispatchTasks
  <2>2. \A x \in Made : sub'[x].gen = sub[x].gen
    BY <1>8, RestKeeps DEF SameJoin, Made
  <2> SUFFICES ASSUME NEW p \in Tasks, task'[p].at \in AtMessage
               PROVE  task'[p].msg.gen = sub'[task'[p].on].gen
    BY DEF NoStaleCallback, AtMessage
  <2>3. CASE TaskStep(p)
    <3>1. task[p].at \in AtMessage /\ task'[p].on = task[p].on /\ task'[p].msg = task[p].msg
      BY <2>3 DEF TaskStep, AtMessage
    <3>2. task[p].on \in Made
      BY <3>1 DEF AtMessage, TypeInv, TasksMade
    <3> QED
      BY <2>2, <3>1, <3>2 DEF NoStaleCallback, AtMessage
  <2>4. CASE StartsCallback(p)
    <3>1. /\ task[p].on \in Made /\ task'[p].on = task[p].on /\ sub[task[p].on].queue # <<>>
          /\ task'[p].msg = Head(sub[task[p].on].queue)
      BY <2>4 DEF StartsCallback, TypeInv, TasksMade
    <3>2. /\ sub[task[p].on].queue \in Seq(Messages)
          /\ OfConnection(sub[task[p].on].queue, sub[task[p].on].gen)
      BY <3>1, OrderTypes DEF Fresh, Made
    <3>3. Head(sub[task[p].on].queue).gen = sub[task[p].on].gen
      BY <3>1, <3>2, TailOfConnection
    <3> QED
      BY <2>2, <3>1, <3>3
  <2> QED
    BY <2>1, <2>3, <2>4
<1> QED
  BY <1>3, <1>4, <1>5, <1>6, <1>7, <1>8, NextCases

LEMMA FreshInit == Init => Fresh /\ NoStaleCallback
BY EmptyOfConnection DEF Init, Fresh, LostIsLost, NoStaleCallback, Made, NoSub, NoTask

\* After a reconnect no callback is left that works on a message of the earlier connection once its
\* topic has been moved: the messages on their way, in the queues and at the callbacks are of the
\* connection they belong to.
THEOREM MessagesFresh == Spec /\ []NoNameClash => []NoStaleCallback
<1>1. /\ TypeInv /\ Quietly /\ Fresh /\ NoStaleCallback /\ NoNameClash /\ [Next]_vars
            => TypeInv' /\ Quietly' /\ Fresh' /\ NoStaleCallback'
  BY TypeStep, AllWorkStep, RaisedStep, ClosedStep, FreshStep, CallbackStep DEF Quietly
<1> QED
  BY <1>1, InitType, QuietInit, FreshInit, PTL DEF Spec

---------------------------------------------------------------------------------
(***************************************************************************)
(* When names never clash.                                                 *)
(***************************************************************************)
\* A topic that was unregistered is not subscribed again, or there is no reconnect.
Once == Reuse => MaxGen = 1

\* Then no two subscriptions have a name in common, or no rejoin begins and whoever is still to
\* start was not unregistered.
NamesOnce == \A x, y \in Made : sub[x].name = sub[y].name => x = y
StaysPut ==
  rejoin.at \in Resting /\ \A x \in Made : task[Processor(x)].at = "start" => Registered(x)
Names == (~Reuse => NamesOnce) /\ (MaxGen = 1 => StaysPut)

LEMMA NoClash ==
  ASSUME TypeInv, Once, Names
  PROVE  NoNameClash
<1>1. CASE ~Reuse
  BY <1>1 DEF Names, NamesOnce, NoNameClash
<1>2. CASE MaxGen = 1
  <2>1. rejoin.at \in Resting /\ rejoin.todo = {}
    <3>1. gen \in 1..1 /\ rejoin.todo \subseteq Made /\ \A x \in rejoin.todo : sub[x].gen < gen
      BY <1>2 DEF TypeInv, InRange, RejoinMade
    <3>2. \A x \in Made : sub[x].gen \in 1..gen
      BY DEF TypeInv, Numbered
    <3> QED
      BY <1>2, <3>1, <3>2 DEF Names, StaysPut
  <2>2. \A x : ~ToBeMoved(x)
    BY <2>1 DEF ToBeMoved, Resting
  <2> QED
    BY <1>2, <2>2 DEF Names, StaysPut, NoNameClash, Registered
<1> QED
  BY <1>1, <1>2 DEF Once

LEMMA MovesMean ==
  ASSUME TypeInv, Moving
  PROVE  MaxGen = 1 => ~StaysPut
<1>1. CASE Reconnects
  <2>1. gen' \in 1..MaxGen /\ gen \in 1..MaxGen /\ gen' = gen + 1
    BY <1>1, TypeStep DEF Reconnects, Next, Moving, Rejoining, TypeInv, InRange
  <2> QED
    BY <2>1, ConstantTypes
<1>2. CASE GoesOnHere
  BY <1>2 DEF GoesOnHere, StaysPut, Resting
<1> QED
  BY <1>1, <1>2, MovingEffect

LEMMA NamesOnceStep ==
  ASSUME TypeInv, ~Reuse, NamesOnce, AllWork, [Next]_vars
  PROVE  NamesOnce'
<1>1. ASSUME \A x \in Subs : sub'[x].name = sub[x].name
      PROVE  NamesOnce'
  BY <1>1 DEF NamesOnce, Made
<1>2. CASE UNCHANGED vars
  <2>1. UNCHANGED sub
    BY <1>2 DEF vars
  <2> QED
    BY <1>1, <2>1
<1>3. CASE Aside
  <2>1. KeepsJoins
    BY <1>3, AsideKeeps DEF SetAside
  <2> QED
    BY <1>1, <2>1 DEF KeepsJoins, Steadily, SameJoin
<1>4. CASE Moving
  BY <1>1, <1>4, MovesOnce, RejoinedType
<1>5. CASE Route \/ (\E t \in Topics : Push(t)) \/ \E o \in Tasks : Dispatch(o)
  BY <1>1, <1>5, RestKeeps DEF SameJoin
<1>6. ASSUME NEW t \in Topics, Subscribe(t)
      PROVE  NamesOnce'
  <2>1. PICK x \in Subs \ Made :
          sub'[x].name = t /\ (\A y \in Subs \ {x} : sub'[y] = sub[y]) /\ Made' = Made \cup {x}
    BY <1>6, MakesTasks
  <2>2. \A y \in Made : sub'[y] = sub[y] /\ sub[y].name # t
    BY <1>6, <2>1 DEF Made, Subscribe
  <2> QED
    BY <2>1, <2>2 DEF NamesOnce
<1> QED
  BY <1>2, <1>3, <1>4, <1>5, <1>6, NextCases

LEMMA StaysPutStep ==
  ASSUME TypeInv, MaxGen = 1, StaysPut, AllWork, [Next]_vars
  PROVE  StaysPut'
<1>1. ASSUME rejoin'.at \in Resting, \A x \in Subs : SameJoin(sub[x], sub'[x]), DropsCancelled,
             \A o \in Tasks : TaskStep(o) \/ StartsCallback(o)
      PROVE  StaysPut'
  <2> SUFFICES ASSUME NEW x \in Made', task'[Processor(x)'].at = "start"
               PROVE  Registered(x)'
    BY <1>1 DEF StaysPut
  <2>1. x \in Made /\ Processor(x)' = Processor(x) /\ Processor(x) \in Tasks
    BY <1>1, TaskTypes DEF SameJoin, Made, Processor
  <2>2. task[Processor(x)].at = "start"
    BY <1>1, <2>1 DEF TaskStep, StartsCallback
  <2> QED
    BY <1>1, <2>1, <2>2 DEF StaysPut, DropsCancelled
<1>2. CASE UNCHANGED vars
  <2>1. UNCHANGED <<sub, task, registry, rejoin>>
    BY <1>2 DEF vars
  <2> QED
    BY <2>1 DEF StaysPut, Made, Processor, Registered
<1>3. CASE Aside
  <2>1. TasksStep /\ KeepsJoins /\ Disconnects
    BY <1>3, AsideSteps, AsideKeeps DEF StepsAside, SetAside, AllWork
  <2> QED
    BY <1>1, <2>1 DEF KeepsJoins, Steadily, TasksStep, Disconnects, StaysPut
<1>4. CASE Moving
  BY <1>4, MovesMean
<1>5. CASE Route \/ (\E t \in Topics : Push(t)) \/ \E o \in Tasks : Dispatch(o)
  <2>1. /\ UNCHANGED <<registry, rejoin>> /\ \A x \in Subs : SameJoin(sub[x], sub'[x])
        /\ rejoin'.at \in Resting
    BY <1>5, RestKeeps DEF StaysPut
  <2>2. DropsCancelled /\ \A o \in Tasks : TaskStep(o) \/ StartsCallback(o)
    <3>1. CASE Route \/ \E t \in Topics : Push(t)
      <4>1. UNCHANGED task
        BY <3>1 DEF Route, Push
      <4>2. \A o \in Tasks : TaskStep(o)
        BY <4>1, SameTask
      <4> QED
        BY <2>1, <4>2 DEF DropsCancelled, Registered, SameJoin, Made
    <3> QED
      BY <1>5, <3>1, DispatchTasks
  <2> QED
    BY <1>1, <2>1, <2>2
<1>6. ASSUME NEW t \in Topics, Subscribe(t)
      PROVE  StaysPut'
  <2>1. PICK x \in Subs \ Made :
          /\ refs \in Nat /\ sub'[x].name = t /\ sub'[x].ref = refs + 1
          /\ \A y \in Subs \ {x} : sub'[y] = sub[y]
          /\ Made' = Made \cup {x}
          /\ \A o \in Tasks \ {refs + 1} : task'[o] = task[o]
          /\ \/ registry' = [registry EXCEPT ![t] = x]
             \/ registry' = registry /\ task'[refs + 1].at = "stopping"
    BY <1>6, MakesTasks
  <2>2. registry[t] = 0 /\ registry \in [Topics -> Numbers] /\ rejoin' = rejoin /\ x # 0
    BY <1>6, TaskTypes, ConstantTypes DEF Subscribe, Subs
  <2>3. ASSUME NEW y \in Made, task'[Processor(y)'].at = "start"
        PROVE  Registered(y)'
    <3>1. y # x /\ sub'[y] = sub[y] /\ Processor(y)' = Processor(y) /\ y # 0 /\ sub[y].name \in Topics
      BY <2>1, TaskTypes DEF Processor
    <3>2. Processor(y) \in Tasks \ {refs + 1}
      <4>1. Processor(y) \in Tasks /\ Processor(y) <= refs
        BY <2>3, ProcessorMade
      <4> QED
        BY <2>1, <4>1 DEF Tasks
    <3>3. registry[sub[y].name] = y
      BY <2>1, <2>3, <3>1, <3>2 DEF StaysPut, Registered
    <3> QED
      <4>1. sub'[y].name = sub[y].name /\ sub[y].name # "none" /\ sub[y].name # t
        BY <2>2, <3>1, <3>3, TopicAssumption
      <4>2. registry'[sub[y].name] = y
        BY <2>1, <2>2, <3>1, <3>3, <4>1
      <4> QED
        BY <4>1, <4>2 DEF Registered
  <2>4. task'[Processor(x)'].at = "start" => Registered(x)'
    <3>1. sub'[x].name # "none" /\ Processor(x)' = refs + 1
      BY <2>1, TopicAssumption DEF Processor
    <3>2. CASE registry' = [registry EXCEPT ![t] = x]
      BY <2>1, <2>2, <3>1, <3>2 DEF Registered
    <3>3. CASE task'[refs + 1].at = "stopping"
      BY <3>1, <3>3
    <3> QED
      BY <2>1, <3>2, <3>3
  <2> QED
    BY <2>1, <2>2, <2>3, <2>4 DEF StaysPut
<1> QED
  BY <1>2, <1>3, <1>4, <1>5, <1>6, NextCases

\* Names do not clash when an application never subscribes a topic again, or is never reconnected:
\* there the theorems hold of every behaviour.
THEOREM NamesApart ==
  ASSUME Once
  PROVE  Spec => []NoNameClash
<1>1. Init => Names
  BY DEF Init, Names, NamesOnce, StaysPut, Made, NoSub, Resting
<1>2. TypeInv /\ AllWork /\ Names /\ [Next]_vars => TypeInv' /\ AllWork' /\ Names'
  BY TypeStep, NoClash, AllWorkStep, NamesOnceStep, StaysPutStep DEF Names
<1>3. TypeInv /\ Names => NoNameClash
  BY NoClash
<1> QED
  BY <1>1, <1>2, <1>3, InitType, QuietInit, PTL DEF Spec, Quietly

=================================================================================
