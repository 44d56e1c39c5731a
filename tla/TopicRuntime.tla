------------------------------ MODULE TopicRuntime ------------------------------
(***************************************************************************)
(* Topic subscriptions: subscribe_to_topic, unsubscribe_from_topic, the    *)
(* processor task of each subscription and its callbacks, the routing of   *)
(* messages into the topic queues, _rejoin_topics after a reconnect, the   *)
(* registration of handlers, and what shutdown does to all of these.       *)
(*                                                                         *)
(* asyncio runs one task at a time: an action is the code a task runs      *)
(* between two awaits.  _topics_lock is never held across an await, so no  *)
(* task ever waits for it.  Subscriptions are objects; the registry maps a *)
(* topic name to the current one, and an object can outlive its entry.     *)
(*                                                                         *)
(* User callbacks return, raise, or end when they are cancelled (they do   *)
(* not suppress CancelledError).  The one call of the client they make is  *)
(* unsubscribe_from_topic for their own topic.                             *)
(***************************************************************************)
EXTENDS Integers, Sequences, FiniteSets, FiniteSetsExt

CONSTANTS
  Topics,        \* topic names
  Leavers,       \* concurrent calls of unsubscribe_from_topic
  V2,            \* protocol_version is V2: messages carry a join_ref
  QueueSize,     \* max_topic_queue_size
  FirstHandlers, \* the handlers a subscription may start with
  CallbackMayRaise, CallbackMayLeave, MayShutdown,
  MaxSubs,       \* bound: subscriptions ever created
  MaxGen,        \* bound: connections
  MaxEvents,     \* bound: events the server pushes
  MaxLeaves,     \* bound: calls of unsubscribe_from_topic
  MaxChanges,    \* bound: handlers set and removed
  Reuse          \* bound: a topic may be subscribed again after it was unregistered

ASSUME TopicAssumption ==
  /\ "none" \notin Topics
  /\ {V2, Reuse, CallbackMayRaise, CallbackMayLeave, MayShutdown} \subseteq BOOLEAN
  /\ QueueSize \in Nat \ {0} /\ FirstHandlers \subseteq SUBSET {"message", "event"}
  /\ MaxSubs \in Nat /\ MaxGen \in Nat \ {0} /\ MaxEvents \in Nat
  /\ MaxLeaves \in Nat /\ MaxChanges \in Nat

\* Bound: callbacks leave their topic where nobody else can cancel them meanwhile.
ASSUME LeaveAssumption ==
  CallbackMayLeave => MaxGen = 1 /\ Cardinality(Leavers) = 1 /\ ~MayShutdown

VARIABLES
  registry,   \* _topic_subscriptions: the object of each topic, 0 = none
  sub,        \* the TopicSubscription objects
  task,       \* the processor tasks; every join makes one: it has the number of its join_ref
  call,       \* per object, the subscribe_to_topic call that made it; on: the task it awaits
  leaver,     \* the unsubscribe_from_topic calls; on: the object, then the task it awaits
  leaves,     \* how many there were
  changes,    \* handlers set and removed so far
  rejoin,     \* _rejoin_topics
  gen,        \* _conn_generation
  link,       \* the websocket of that generation: "up" or "down"
  connected,  \* _state is CONNECTED and connection is not None
  shutdown,   \* shutdown; on: the processors its unsubscribe_from_topic calls await
  refs,       \* _ref_counter, counting joins only
  wire,       \* messages on their way from the server, oldest first
  joined,     \* the server: join_ref under which this socket is in a topic, 0 = not
  events      \* events pushed so far

net   == <<gen, link, connected, shutdown>>
calls == <<call, leaver, leaves, changes>>
server == <<wire, joined>>
vars  == <<registry, sub, task, calls, rejoin, net, refs, server, events>>

Subs    == 1..MaxSubs
Tasks   == 1..(MaxSubs * MaxGen)
Futures == {"pending", "ok", "refused", "failed", "cancelled"}
Resting == {"idle", "aborted", "killed"}

\* ready is current_join_ready.  first is the future the subscribe call awaits: the same
\* one until a rejoin replaces current_join_ready (rejoined).  left is
\* unsubscribe_completed.  "refused" stands for a PHXTopicError, "failed" for another error.
NoSub  == [name |-> "none", gen |-> 0, ref |-> 0, ready |-> "pending", first |-> "pending",
           rejoined |-> FALSE, leave |-> FALSE, left |-> "pending", handlers |-> {},
           queue |-> <<>>, last |-> 0]
NoMsg  == [kind |-> "none", topic |-> "none", ref |-> 0, gen |-> 0, id |-> 0]
\* topic: the name it was made with; on: the object it found under that name; at: where it
\* is suspended ("leaving": in a callback that calls unsubscribe_from_topic; "stuck": in one
\* that waits for this task); todo: the handlers of msg that have not returned.
NoTask == [at |-> "none", topic |-> "none", on |-> 0, msg |-> NoMsg, todo |-> {}]
NewTask(t) == [NoTask EXCEPT !.at = "start", !.topic = t]
Ended      == [NoTask EXCEPT !.at = "done"]

Made       == {x \in Subs : sub[x].name # "none"}
Registered(x) == sub[x].name # "none" /\ registry[sub[x].name] = x
Alive(o)   == task[o].at \notin {"none", "done"}
Processor(x) == sub[x].ref     \* process_topic_messages_task
\* Task o runs a callback of subscription x, cancelled or not.
InCallback(o, x) ==
  task[o].on = x /\ task[o].at \in {"callback", "cancelling", "leaving", "stuck"}

Init ==
  /\ registry = [t \in Topics |-> 0]
  /\ sub = [x \in Subs |-> NoSub] /\ task = [o \in Tasks |-> NoTask]
  /\ call = [x \in Subs |-> [at |-> "idle", on |-> 0]]
  /\ leaver = [u \in Leavers |-> [at |-> "idle", on |-> 0]] /\ leaves = 0 /\ changes = 0
  /\ rejoin = [at |-> "idle", cur |-> 0, todo |-> {}, on |-> 0]
  /\ gen = 1 /\ link = "up" /\ connected = TRUE
  /\ shutdown = [at |-> "no", on |-> {}]
  /\ refs = 0 /\ wire = <<>> /\ joined = [t \in Topics |-> 0] /\ events = 0

---------------------------------------------------------------------------------
(***************************************************************************)
(* The server (external) answers what it is sent in order; a connection    *)
(* keeps that order and loses a suffix when it breaks.  Replies and events *)
(* carry the join_ref of the join that put the socket in the topic (V2).   *)
(***************************************************************************)
Message(kind, t, ref, g, id) ==
  [kind |-> kind, topic |-> t, ref |-> IF V2 THEN ref ELSE 0, gen |-> g, id |-> id]

ServerJoins(t, ref, g) ==
  \E ok \in BOOLEAN :
    /\ joined' = IF ok THEN [joined EXCEPT ![t] = ref] ELSE joined
    /\ wire' = Append(wire, Message(IF ok THEN "reply_ok" ELSE "reply_error", t, ref, g, 0))

ServerLeaves(t, ref) ==
  \E kind \in {"reply_ok", "reply_error"} :
    /\ wire' = Append(wire, Message(kind, t, ref, gen, 0))
    /\ joined' = IF joined[t] = ref \/ ~V2 THEN [joined EXCEPT ![t] = 0] ELSE joined

Push(t) ==
  /\ link = "up" /\ joined[t] # 0 /\ events < MaxEvents
  /\ events' = events + 1
  /\ wire' = Append(wire, Message("event", t, joined[t], gen, events + 1))
  /\ UNCHANGED <<registry, sub, task, calls, rejoin, net, refs, joined>>

PeerLost ==
  /\ link = "up"
  /\ link' = "down"
  /\ joined' = [t \in Topics |-> 0]
  /\ \E n \in 0..Len(wire) : wire' = SubSeq(wire, 1, n)
  /\ UNCHANGED <<registry, sub, task, calls, rejoin, gen, connected, shutdown, refs, events>>

---------------------------------------------------------------------------------
(***************************************************************************)
(* process_websocket_messages: the routing task.                           *)
(***************************************************************************)
EnqueueUnbounded(q, m) == Append(q, m)                          \* mutant
EnqueueNewestFirst(q, m) ==                                    \* mutant
  <<m>> \o IF Len(q) >= QueueSize THEN Tail(q) ELSE q
\* The drop-oldest policy of a full queue.
Enqueue(q, m) == Append(IF Len(q) >= QueueSize THEN Tail(q) ELSE q, m)

AnyJoin(x, m) == TRUE                                          \* mutant
\* V2 only: the message belongs to the current join of subscription x.
CurrentJoin(x, m) == V2 => m.ref = sub[x].ref

Route ==
  /\ wire # <<>> /\ shutdown.at # "done"
  /\ wire' = Tail(wire)
  /\ LET m == Head(wire)
         x == registry[m.topic]
     IN IF x # 0 /\ sub[x].gen = gen /\ CurrentJoin(x, m)
        THEN sub' = [sub EXCEPT ![x].queue = Enqueue(@, m)]
        ELSE UNCHANGED sub
  /\ UNCHANGED <<registry, task, calls, rejoin, net, refs, joined, events>>

---------------------------------------------------------------------------------
(***************************************************************************)
(* Futures and tasks.                                                      *)
(***************************************************************************)
Set(future, r) == IF future = "pending" THEN r ELSE future

\* _set_subscription_ready / _set_subscription_error.
SetReady(s, r) ==
  [s EXCEPT !.ready = Set(@, r), !.first = IF s.rejoined THEN @ ELSE Set(@, r)]

\* _complete_pending_futures.
Settle(s, r) == [SetReady(s, r) EXCEPT !.left = IF s.leave THEN Set(@, "failed") ELSE @]

\* task.cancel(): delivered at the await; a callback that runs is cancelled with it.
Cancel(k) ==
  [k EXCEPT !.at = CASE k.at \in {"start", "get"} -> "stopping"
                     [] k.at = "callback" -> "cancelling"
                     [] k.at = "leaving" -> "stuck"
                     [] OTHER -> k.at]

UnregisterOnly(s, t, r) ==                                     \* mutant
  LET x == registry[t]
  IN /\ registry' = [registry EXCEPT ![t] = 0] /\ UNCHANGED task
     /\ sub' = IF x = 0 THEN s ELSE [s EXCEPT ![x] = Settle(@, r)]
\* _unregister_topic: whatever object has the name now is popped, its futures fail with r,
\* its processor is cancelled (s is what the caller has made of sub) ...
Unregister(s, t, r) ==
  LET x == registry[t]
  IN /\ registry' = [registry EXCEPT ![t] = 0]
     /\ sub'  = IF x = 0 THEN s ELSE [s EXCEPT ![x] = Settle(@, r)]
     /\ task' = IF x = 0 THEN task ELSE [task EXCEPT ![Processor(x)] = Cancel(@)]

\* ... and awaited, if it was still alive.
Awaited(t) ==
  LET x == registry[t] IN IF x # 0 /\ Alive(Processor(x)) THEN Processor(x) ELSE 0

---------------------------------------------------------------------------------
(***************************************************************************)
(* subscribe_to_topic.                                                     *)
(***************************************************************************)
\* The object, its processor and the join.  If the link is down the send fails at once: the
\* object is unregistered again and its processor, which never ran, awaited.
Subscribe(t) ==
  /\ connected /\ registry[t] = 0
  /\ Reuse \/ \A y \in Made : sub[y].name # t
  /\ \E handlers \in FirstHandlers :
       LET x   == Cardinality(Made) + 1
           new == [NoSub EXCEPT !.name = t, !.gen = gen, !.ref = refs + 1,
                                !.handlers = handlers]
       IN /\ x \in Subs
          /\ refs' = refs + 1
          /\ IF link = "up"
             THEN /\ registry' = [registry EXCEPT ![t] = x]
                  /\ sub' = [sub EXCEPT ![x] = new]
                  /\ task' = [task EXCEPT ![refs + 1] = NewTask(t)]
                  /\ call' = [call EXCEPT ![x].at = "joining"]
                  /\ ServerJoins(t, refs + 1, gen)
             ELSE /\ sub' = [sub EXCEPT ![x] = Settle(new, "failed")]
                  /\ task' = [task EXCEPT ![refs + 1] = Cancel(NewTask(t))]
                  /\ call' = [call EXCEPT ![x] = [at |-> "unregistering", on |-> refs + 1]]
                  /\ UNCHANGED <<registry, server>>
  /\ UNCHANGED <<leaver, leaves, changes, rejoin, net, events>>

SubscribeReturns(x) ==
  /\ call[x].at = "joining" /\ sub[x].first = "ok"
  /\ call' = [call EXCEPT ![x].at = "returned"]
  /\ UNCHANGED <<registry, sub, task, leaver, leaves, changes, rejoin, net, refs, server, events>>

RaiseOnly(x, s, r) ==                                          \* mutant
  /\ call' = [call EXCEPT ![x] = [at |-> "raised", on |-> 0]] /\ sub' = s
  /\ UNCHANGED <<registry, task, leaver, leaves, changes, rejoin, net, refs, server, events>>
\* The except branches: unregister by name, wait for the processor, raise.
GiveUp(x, s, r) ==
  /\ Unregister(s, sub[x].name, r)
  /\ call' = [call EXCEPT ![x] = [at |-> "unregistering", on |-> Awaited(sub[x].name)]]
  /\ UNCHANGED <<leaver, leaves, changes, rejoin, net, refs, server, events>>

SubscribeFails(x) ==
  /\ call[x].at = "joining" /\ sub[x].first \in {"refused", "failed"}
  /\ GiveUp(x, sub, "failed")

\* wait_for cancels the future it waited for.
SubscribeTimesOut(x) ==
  /\ call[x].at = "joining" /\ sub[x].first = "pending"
  /\ GiveUp(x, IF sub[x].rejoined THEN sub
               ELSE [sub EXCEPT ![x] = SetReady(@, "cancelled")], "refused")

SubscribeRaises(x) ==
  /\ call[x].at = "unregistering"
  /\ call[x].on # 0 => ~Alive(call[x].on)
  /\ call' = [call EXCEPT ![x] = [at |-> "raised", on |-> 0]]
  /\ UNCHANGED <<registry, sub, task, leaver, leaves, changes, rejoin, net, refs, server, events>>

---------------------------------------------------------------------------------
(***************************************************************************)
(* unsubscribe_from_topic, called while connected (otherwise it raises and *)
(* changes nothing).                                                       *)
(***************************************************************************)
\* The `finally`: unregister by name and wait for the processor.
LeaverUnregisters(u, s, t) ==
  /\ Unregister(s, t, "failed")
  /\ leaver' = [leaver EXCEPT ![u].at = "unregistering", ![u].on = Awaited(t)]

\* The leave is sent, or, the link being down, cannot be.
Unsubscribe(u, t) ==
  /\ leaver[u].at = "idle" /\ leaves < MaxLeaves
  /\ connected /\ registry[t] # 0
  /\ leaves' = leaves + 1
  /\ LET x == registry[t]
         asked == [sub EXCEPT ![x].leave = TRUE]
     IN IF link = "up"
        THEN /\ sub' = asked
             /\ leaver' = [leaver EXCEPT ![u] = [at |-> "leaving", on |-> x]]
             /\ ServerLeaves(t, sub[x].ref)
             /\ UNCHANGED <<registry, task>>
        ELSE LeaverUnregisters(u, asked, t) /\ UNCHANGED server
  /\ UNCHANGED <<call, changes, rejoin, net, refs, events>>

unchangedByLeaver == <<call, leaves, changes, rejoin, net, refs, server, events>>

\* unsubscribe_completed is done.
LeaveEnds(u) ==
  /\ leaver[u].at = "leaving" /\ sub[leaver[u].on].left # "pending"
  /\ LeaverUnregisters(u, sub, sub[leaver[u].on].name)
  /\ UNCHANGED unchangedByLeaver

\* wait_for cancels unsubscribe_completed.
LeaveTimesOut(u) ==
  /\ leaver[u].at = "leaving" /\ sub[leaver[u].on].left = "pending"
  /\ LeaverUnregisters(u, [sub EXCEPT ![leaver[u].on].left = "cancelled"],
                       sub[leaver[u].on].name)
  /\ UNCHANGED unchangedByLeaver

UnsubscribeReturns(u) ==
  /\ leaver[u].at = "unregistering"
  /\ leaver[u].on # 0 => ~Alive(leaver[u].on)
  /\ leaver' = [leaver EXCEPT ![u].at = "idle", ![u].on = 0]
  /\ UNCHANGED <<registry, sub, task, unchangedByLeaver>>

---------------------------------------------------------------------------------
(***************************************************************************)
(* _process_topic_messages: one task per subscription, started again by    *)
(* every rejoin.  Between two messages of a queue that is not empty the    *)
(* code does not suspend; the model lets others run there too.             *)
(***************************************************************************)
\* The task finds its subscription by name, once, when it first runs.
ProcessorStarts(o) ==
  /\ task[o].at = "start"
  /\ LET x == registry[task[o].topic]
     IN task' = [task EXCEPT ![o] = IF x = 0 THEN Ended ELSE [@ EXCEPT !.on = x, !.at = "get"]]
  /\ UNCHANGED <<registry, sub, calls, rejoin, net, refs, server, events>>

ProcessorStops(o) ==
  /\ task[o].at = "stopping"
  /\ task' = [task EXCEPT ![o] = Ended]
  /\ UNCHANGED <<registry, sub, calls, rejoin, net, refs, server, events>>

\* _handle_join_response_mode.
JoinResponse(s, m) ==
  CASE m.kind = "event"       -> s
    [] m.kind = "reply_ok"    -> SetReady(s, "ok")
    [] m.kind = "reply_error" -> SetReady(s, "refused")

\* _handle_leave_mode.
LeaveResponse(s, m) ==
  [s EXCEPT !.left = CASE m.kind = "event"       -> @
                       [] m.kind = "reply_ok"    -> Set(@, "ok")
                       [] m.kind = "reply_error" -> Set(@, "refused")]

\* What the code does with a message depends on the futures as they are now.
Mode(s, x, m) ==
  CASE ~CurrentJoin(x, m) -> "stale"
    [] CurrentJoin(x, m) /\ s.ready # "ok" -> "join"
    [] CurrentJoin(x, m) /\ s.ready = "ok" /\ s.leave -> "leave"
    [] OTHER -> "normal"

\* _snapshot_handlers: the handlers message m goes to.  Replies have no event handler.
Snapshot(s, m) == s.handlers \cap (IF m.kind = "event" THEN {"message", "event"} ELSE {"message"})

\* A message that no handler takes is only logged.
Dispatch(o) ==
  /\ task[o].at = "get" /\ sub[task[o].on].queue # <<>>
  /\ LET x == task[o].on
         m == Head(sub[x].queue)
         s == [sub[x] EXCEPT !.queue = Tail(@)]
         mode == Mode(s, x, m)
         todo == Snapshot(s, m)
         result == CASE mode = "stale" -> s
                     [] mode = "join"  -> JoinResponse(s, m)
                     [] mode = "leave" -> LeaveResponse(s, m)
                     [] OTHER -> IF m.kind = "event" /\ todo # {} THEN [s EXCEPT !.last = m.id]
                                 ELSE s
     IN /\ sub' = [sub EXCEPT ![x] = result]
        /\ task' = [task EXCEPT ![o] =
             CASE mode = "normal" /\ todo # {} ->
                    [@ EXCEPT !.at = "callback", !.msg = m, !.todo = todo]
               [] mode = "leave" /\ result.left # "pending" -> Ended
               [] OTHER -> @]
  /\ UNCHANGED <<registry, calls, rejoin, net, refs, server, events>>

\* What _rejoin_topics sees when the callback of task o ends, if that is what it awaits.
Drained(o, at) ==
  rejoin' = IF rejoin.at \in {"drain", "drain_cancel"} /\ rejoin.on = o
            THEN IF at = "drained" THEN [rejoin EXCEPT !.at = at, !.on = 0]
                 ELSE [at |-> at, cur |-> 0, todo |-> {}, on |-> 0]
            ELSE rejoin

NextMessage(o) ==
  task' = [task EXCEPT ![o] = [@ EXCEPT !.at = "get", !.msg = NoMsg, !.todo = {}]]

\* The message handler returns: the event handler is next; or both are done.
CallbackReturns(o) ==
  /\ task[o].at = "callback"
  /\ IF task[o].todo = {"message", "event"} THEN task' = [task EXCEPT ![o].todo = {"event"}]
     ELSE NextMessage(o)
  /\ Drained(o, "drained")
  /\ UNCHANGED <<registry, sub, calls, net, refs, server, events>>

\* It raises: logged by the processor, an event handler still to come is skipped, and the
\* error also ends a rejoin that drains it.
CallbackRaises(o) ==
  /\ CallbackMayRaise /\ task[o].at = "callback"
  /\ NextMessage(o)
  /\ Drained(o, "aborted")
  /\ UNCHANGED <<registry, sub, calls, net, refs, server, events>>

\* It ends by CancelledError, and its processor with it.  A rejoin that cancelled it goes
\* on; one that was draining it gets the CancelledError, which ends the supervisor.
CallbackCancelled(o) ==
  /\ task[o].at = "cancelling"
  /\ task' = [task EXCEPT ![o] = Ended]
  /\ Drained(o, IF rejoin.at = "drain" THEN "killed" ELSE "drained")
  /\ connected' = (connected /\ rejoin'.at # "killed")
  /\ UNCHANGED <<registry, sub, calls, gen, link, shutdown, refs, server, events>>

\* It calls unsubscribe_from_topic for its own topic.  Only its processor could read the
\* answer; when the call unregisters the topic, it waits for the processor that waits for it.
CallbackLeaves(o, u) ==
  /\ CallbackMayLeave /\ task[o].at = "callback" /\ leaver[u].at = "idle" /\ leaves < MaxLeaves
  /\ connected /\ Registered(task[o].on)
  /\ leaves' = leaves + 1
  /\ LET x == task[o].on
     IN IF link = "up"
        THEN /\ sub' = [sub EXCEPT ![x].leave = TRUE]
             /\ task' = [task EXCEPT ![o].at = "leaving"]
             /\ leaver' = [leaver EXCEPT ![u] = [at |-> "leaving", on |-> x]]
             /\ ServerLeaves(sub[x].name, sub[x].ref)
             /\ UNCHANGED registry
        ELSE /\ registry' = [registry EXCEPT ![sub[x].name] = 0]
             /\ sub' = [sub EXCEPT ![x] = Settle([@ EXCEPT !.leave = TRUE], "failed")]
             /\ task' = [task EXCEPT ![o].at = "stuck"]
             /\ leaver' = [leaver EXCEPT ![u] = [at |-> "unregistering", on |-> o]]
             /\ UNCHANGED server
  /\ UNCHANGED <<call, changes, rejoin, net, refs, events>>

\* set_message_handler, remove_message_handler, add_event_handler, remove_event_handler; to
\* replace a handler, or remove one that is not there, changes nothing here.
ChangeHandlers(t) ==
  /\ registry[t] # 0 /\ changes < MaxChanges
  /\ changes' = changes + 1
  /\ \E h \in {"message", "event"} :
       sub' = [sub EXCEPT ![registry[t]].handlers = IF h \in @ THEN @ \ {h} ELSE @ \cup {h}]
  /\ UNCHANGED <<registry, task, call, leaver, leaves, rejoin, net, refs, server, events>>

---------------------------------------------------------------------------------
(***************************************************************************)
(* _rejoin_topics, run by the supervisor on every new connection: for each *)
(* subscription, oldest first, drain its callback, stop its processor,     *)
(* join again.                                                             *)
(***************************************************************************)
\* The second half of the loop body, up to the wait for the answer.
Join(x, rest, g, l) ==
  /\ refs' = refs + 1
  /\ sub' = [sub EXCEPT ![x] = [@ EXCEPT !.gen = g, !.ref = refs + 1, !.ready = "pending",
                                         !.rejoined = TRUE, !.queue = <<>>]]
  /\ task' = [task EXCEPT ![refs + 1] = NewTask(sub[x].name)]
  /\ rejoin' = [at |-> IF l = "up" THEN "joining" ELSE "send_failed",
                cur |-> x, todo |-> rest, on |-> 0]
  /\ IF l = "up" THEN ServerJoins(sub[x].name, refs + 1, g) ELSE UNCHANGED server

LeaveProcessor(x, rest, g, l) == Join(x, rest, g, l)           \* mutant
StopProcessor(x, rest, g, l) ==
  IF Alive(Processor(x))
  THEN /\ task' = [task EXCEPT ![Processor(x)] = Cancel(@)]
       /\ rejoin' = [at |-> "reap", cur |-> x, todo |-> rest, on |-> 0]
       /\ UNCHANGED <<sub, refs, server>>
  ELSE Join(x, rest, g, l)

JoinAtOnce(S, g, l) ==                                          \* mutant
  IF S = {} THEN /\ rejoin' = [at |-> "idle", cur |-> 0, todo |-> {}, on |-> 0]
                 /\ UNCHANGED <<sub, task, refs, server>>
  ELSE Join(Min(S), S \ {Min(S)}, g, l)
\* The loop goes on with the subscriptions S of its snapshot.
Continue(S, g, l) ==
  LET left == {x \in S : ~sub[x].leave}
  IN IF left = {}
     THEN /\ rejoin' = [at |-> "idle", cur |-> 0, todo |-> {}, on |-> 0]
          /\ UNCHANGED <<sub, task, refs, server>>
     ELSE LET x == Min(left)
              rest == left \ {x}
              callbacks == {o \in Tasks : InCallback(o, x)}
          IN IF callbacks = {} THEN StopProcessor(x, rest, g, l)
             ELSE /\ \E o \in callbacks :
                       rejoin' = [at |-> "drain", cur |-> x, todo |-> rest, on |-> o]
                  /\ UNCHANGED <<sub, task, refs, server>>

\* A new connection (the old one has been noticed and cleaned up).
Connect ==
  /\ ~connected /\ gen < MaxGen /\ rejoin.at # "killed" /\ shutdown.at = "no"
  /\ gen' = gen + 1 /\ link' = "up" /\ connected' = TRUE
  /\ Continue({registry[t] : t \in Topics} \ {0}, gen + 1, "up")
  /\ UNCHANGED <<registry, calls, shutdown, events>>

\* The routing task has ended and the supervisor is there to see it.
Disconnect ==
  /\ connected /\ link = "down" /\ wire = <<>> /\ rejoin.at \in Resting
  /\ connected' = FALSE
  /\ UNCHANGED <<registry, sub, task, calls, rejoin, gen, link, shutdown, refs, server, events>>

\* callback_drain_timeout_s: cancel the callback and wait for it.
DrainTimesOut ==
  /\ rejoin.at = "drain"
  /\ rejoin' = [rejoin EXCEPT !.at = "drain_cancel"]
  /\ task' = [task EXCEPT ![rejoin.on] = Cancel(@)]
  /\ UNCHANGED <<registry, sub, calls, net, refs, server, events>>

DrainEnds ==
  /\ rejoin.at = "drained"
  /\ StopProcessor(rejoin.cur, rejoin.todo, gen, link)
  /\ UNCHANGED <<registry, calls, net, events>>

ProcessorStopped ==
  /\ rejoin.at = "reap" /\ ~Alive(Processor(rejoin.cur))
  /\ Join(rejoin.cur, rejoin.todo, gen, link)
  /\ UNCHANGED <<registry, calls, net, events>>

\* Joined; or unregistered meanwhile, or the join could not be sent: logged.  During a
\* shutdown a refusal is logged too.
JoinEnds ==
  /\ \/ rejoin.at = "send_failed"
     \/ rejoin.at = "joining" /\ sub[rejoin.cur].ready \in {"ok", "failed"}
     \/ rejoin.at = "joining" /\ sub[rejoin.cur].ready = "refused" /\ shutdown.at # "no"
  /\ Continue(rejoin.todo, gen, link)
  /\ UNCHANGED <<registry, calls, net, events>>

NoJoinTimeout == FALSE /\ UNCHANGED vars                        \* mutant
\* No answer in join_timeout_s: wait_for cancels current_join_ready; logged.
JoinTimesOut ==
  /\ rejoin.at = "joining" /\ sub[rejoin.cur].ready = "pending"
  /\ rejoin' = [rejoin EXCEPT !.at = "timed_out"]
  /\ sub' = [sub EXCEPT ![rejoin.cur].ready = "cancelled"]
  /\ UNCHANGED <<registry, task, calls, net, refs, server, events>>

\* A PHXTopicError: whatever has the name now is unregistered.
JoinRefused ==
  /\ rejoin.at = "joining" /\ sub[rejoin.cur].ready = "refused" /\ shutdown.at = "no"
  /\ Unregister(sub, sub[rejoin.cur].name, "refused")
  /\ rejoin' = [rejoin EXCEPT !.at = "unregistering", !.on = Awaited(sub[rejoin.cur].name)]
  /\ UNCHANGED <<calls, net, refs, server, events>>

GiveUpAll ==                                                   \* mutant
  /\ \/ rejoin.at = "timed_out"
     \/ rejoin.at = "unregistering" /\ (rejoin.on # 0 => ~Alive(rejoin.on))
  /\ rejoin' = [at |-> "idle", cur |-> 0, todo |-> {}, on |-> 0]
  /\ UNCHANGED <<registry, sub, task, calls, net, refs, server, events>>
TopicGivenUp ==
  /\ \/ rejoin.at = "timed_out"
     \/ rejoin.at = "unregistering" /\ (rejoin.on # 0 => ~Alive(rejoin.on))
  /\ Continue(rejoin.todo, gen, link)
  /\ UNCHANGED <<registry, calls, net, events>>

---------------------------------------------------------------------------------
(***************************************************************************)
(* shutdown, for the topics: unsubscribe_from_topic for each registered    *)
(* one; then the supervisor is cancelled and awaited, and the connection   *)
(* cleaned up.  The calls run side by side, in step: all start in the next *)
(* turn of the loop, and all go on in one when wait_for has seen that what *)
(* they wait for is done (no leave is sent, so it is done when they start; *)
(* from Python 3.12 on wait_for does not even suspend then, and the second *)
(* turn is the first).                                                     *)
(***************************************************************************)
\* The state is no longer CONNECTED: nothing is subscribed or sent from here on, except by
\* a rejoin that goes on.
ShutdownBegins ==
  /\ MayShutdown /\ shutdown.at = "no"
  /\ connected' = FALSE /\ shutdown' = [shutdown EXCEPT !.at = "begun"]
  /\ UNCHANGED <<registry, sub, task, calls, rejoin, gen, link, refs, server, events>>

JoinedTopics == {x \in Subs : Registered(x) /\ sub[x].ready = "ok"}    \* mutant
\* A topic that is unregistered in the meantime is not found, or has been popped.
TopicsToUnsubscribe == {x \in Subs : Registered(x)}

ShutdownAsks ==
  /\ shutdown.at = "begun"
  /\ shutdown' = [shutdown EXCEPT !.at = "asked"]
  /\ sub' = [x \in Subs |->
               IF x \in TopicsToUnsubscribe
               THEN [sub[x] EXCEPT !.leave = TRUE, !.left = Set(@, "ok")] ELSE sub[x]]
  /\ UNCHANGED <<registry, task, calls, rejoin, gen, link, connected, refs, server, events>>

ShutdownUnregisters ==
  /\ shutdown.at = "asked"
  /\ LET closed == TopicsToUnsubscribe
         stopped == {Processor(x) : x \in closed}
     IN /\ registry' = [t \in Topics |-> IF registry[t] \in closed THEN 0 ELSE registry[t]]
        /\ sub' = [x \in Subs |-> IF x \in closed THEN Settle(sub[x], "failed") ELSE sub[x]]
        /\ task' = [o \in Tasks |-> IF o \in stopped THEN Cancel(task[o]) ELSE task[o]]
        /\ shutdown' = [at |-> "unsubscribing", on |-> {o \in stopped : Alive(o)}]
  /\ UNCHANGED <<calls, rejoin, gen, link, connected, refs, server, events>>

\* The calls have returned; the supervisor is cancelled.  A rejoin that waits for a task it
\* has cancelled suppresses that and goes on; so may one whose wait is just over.
ShutdownCancels ==
  /\ shutdown.at = "unsubscribing" /\ \A o \in shutdown.on : ~Alive(o)
  /\ shutdown' = [at |-> "stopping", on |-> {}]
  /\ \/ /\ rejoin.at \notin {"drain_cancel", "reap", "unregistering"}
        /\ rejoin' = [at |-> "killed", cur |-> 0, todo |-> {}, on |-> 0]
     \/ /\ \/ rejoin.at \in {"drain_cancel", "reap", "unregistering", "drained", "send_failed"}
           \/ rejoin.at = "joining" /\ sub[rejoin.cur].ready # "pending"
        /\ UNCHANGED rejoin
  /\ UNCHANGED <<registry, sub, task, calls, gen, link, connected, refs, server, events>>

\* The supervisor has ended; _cleanup_connection.
ShutdownEnds ==
  /\ shutdown.at = "stopping"
  /\ rejoin.at = "killed" \/ (rejoin.at \in Resting /\ link = "down" /\ wire = <<>>)
  /\ shutdown' = [shutdown EXCEPT !.at = "done"]
  /\ link' = "down" /\ wire' = <<>> /\ joined' = [t \in Topics |-> 0]
  /\ UNCHANGED <<registry, sub, task, calls, rejoin, gen, connected, refs, events>>

---------------------------------------------------------------------------------
Rejoining ==
  \/ DrainTimesOut \/ DrainEnds \/ ProcessorStopped
  \/ JoinEnds \/ JoinTimesOut \/ JoinRefused \/ TopicGivenUp

Processing(o) ==
  \/ ProcessorStarts(o) \/ ProcessorStops(o) \/ Dispatch(o)
  \/ CallbackReturns(o) \/ CallbackRaises(o) \/ CallbackCancelled(o)

ShuttingDown ==
  \/ ShutdownAsks \/ ShutdownUnregisters \/ ShutdownCancels \/ ShutdownEnds

Subscribing(x) ==
  \/ SubscribeReturns(x) \/ SubscribeFails(x) \/ SubscribeTimesOut(x) \/ SubscribeRaises(x)

Unsubscribing(u) == LeaveEnds(u) \/ LeaveTimesOut(u) \/ UnsubscribeReturns(u)

Application ==
  \/ \E t \in Topics : \/ Subscribe(t) \/ ChangeHandlers(t)
                       \/ \E u \in Leavers : Unsubscribe(u, t)
  \/ \E o \in Tasks, u \in Leavers : CallbackLeaves(o, u)
  \/ ShutdownBegins

Next ==
  \/ PeerLost \/ Route \/ Connect \/ Disconnect \/ Rejoining \/ ShuttingDown \/ Application
  \/ \E t \in Topics : Push(t)
  \/ \E o \in Tasks : Processing(o)
  \/ \E x \in Subs : Subscribing(x)
  \/ \E u \in Leavers : Unsubscribing(u)

(***************************************************************************)
(* Fairness: the event loop runs every task that can go on, waits for the  *)
(* server have timeouts, callbacks return.  Nothing obliges the server,    *)
(* the network or the application.                                         *)
(***************************************************************************)
Fairness ==
  /\ WF_vars(Route) /\ WF_vars(Disconnect) /\ WF_vars(Rejoining)
  /\ \A o \in Tasks : WF_vars(Processing(o))
  /\ \A x \in Subs : WF_vars(Subscribing(x))
  /\ \A u \in Leavers : WF_vars(Unsubscribing(u))

Spec == Init /\ [][Next]_vars
FairSpec == Spec /\ Fairness
---------------------------------------------------------------------------------
Numbers      == 0..MaxSubs
HandlerKinds == {"message", "event"}
Messages     == [kind : {"event", "reply_ok", "reply_error"}, topic : Topics, ref : Nat,
                 gen : 1..MaxGen, id : 0..MaxEvents]
Subscriptions ==
  [name : Topics \cup {"none"}, gen : 0..MaxGen, ref : Tasks \cup {0}, ready : Futures,
   first : Futures, rejoined : BOOLEAN, leave : BOOLEAN, left : Futures,
   handlers : SUBSET HandlerKinds, queue : Seq(Messages), last : 0..MaxEvents]
Processors ==
  [at : {"none", "start", "get", "callback", "cancelling", "leaving", "stuck", "stopping",
         "done"},
   topic : Topics \cup {"none"}, on : Numbers, msg : Messages \cup {NoMsg},
   todo : SUBSET HandlerKinds]

SubsOK ==
  /\ sub \in [Subs -> Subscriptions]
  /\ \A x \in Subs : Len(sub[x].queue) <= QueueSize

TasksOK ==
  /\ task \in [Tasks -> Processors]
  /\ \A o \in Tasks : task[o].at = "callback" => task[o].todo # {}

CallsOK ==
  /\ call \in [Subs -> [at : {"idle", "joining", "unregistering", "returned", "raised"},
                        on : Tasks \cup {0}]]
  /\ leaver \in [Leavers -> [at : {"idle", "leaving", "unregistering"}, on : Tasks \cup Numbers]]
  /\ leaves \in 0..MaxLeaves /\ changes \in 0..MaxChanges
  /\ shutdown \in [at : {"no", "begun", "asked", "unsubscribing", "stopping", "done"},
                   on : SUBSET Tasks]
  /\ rejoin \in [at : Resting \cup {"drain", "drain_cancel", "drained", "reap", "joining",
                                    "send_failed", "timed_out", "unregistering"},
                 cur : Numbers, todo : SUBSET Subs, on : Tasks \cup {0}]

\* The queue of a topic never exceeds max_topic_queue_size.
InRange ==
  /\ registry \in [Topics -> Numbers] /\ SubsOK /\ TasksOK /\ CallsOK
  /\ gen \in 1..MaxGen /\ link \in {"up", "down"} /\ connected \in BOOLEAN
  /\ refs \in Tasks \cup {0} /\ wire \in Seq(Messages) /\ joined \in [Topics -> Tasks \cup {0}]
  /\ events \in 0..MaxEvents

\* The ranges of the variables; a callback has seen no event that was not pushed.
TypeOK == InRange /\ \A x \in Subs : sub[x].last <= events

\* No callback runs for a message of an earlier connection once its subscription has been
\* moved to the new one: the rejoin has drained or cancelled it and emptied the queue.
NoStaleCallback ==
  \A o \in Tasks :
    task[o].at \in {"callback", "cancelling"} => task[o].msg.gen = sub[task[o].on].gen

\* A subscription has one processor, so its callbacks never run side by side.
OneProcessor ==
  \A x \in Subs : \A o, p \in {q \in Tasks : task[q].on = x /\ Alive(q)} : o = p

\* V2: a subscription that counts as joined on this connection is joined on the server,
\* under its own join_ref, whatever late or evicted replies did to the futures.
ReadyMeansJoined ==
  V2 => \A x \in Made :
    Registered(x) /\ sub[x].ready = "ok" /\ ~sub[x].leave /\ sub[x].gen = gen /\ link = "up"
      => joined[sub[x].name] = sub[x].ref

\* A subscription that is no longer registered has no callback that runs on uncancelled.
UnregisteredQuiet ==
  \A o \in Tasks : task[o].at = "callback" => Registered(task[o].on)

\* A subscribe call that has raised has left nothing behind that still works on messages.
FailedSubscribeGone ==
  \A x \in Subs : call[x].at = "raised" =>
    ~Registered(x) /\ \A o \in Tasks : task[o].on = x => task[o].at \notin {"get", "callback"}

\* When shutdown has returned, no topic is left and no processor works on, whatever calls,
\* callbacks and rejoins were under way when it began.
ShutdownQuiet ==
  shutdown.at = "done" =>
    /\ \A t \in Topics : registry[t] = 0
    /\ \A o \in Tasks : task[o].at \notin {"get", "callback"}

\* When a rejoin has gone through, every registered topic has been moved to the connection.
RejoinComplete ==
  connected /\ rejoin.at = "idle" =>
    \A x \in Made : Registered(x) /\ ~sub[x].leave => sub[x].gen = gen

\* The callbacks of a subscription see the events in the order the server sent them.
OrderedDelivery == [][\A x \in Subs : sub[x].last <= sub'[x].last]_vars

\* After a reconnect no callback starts for a message of an earlier connection.
StaleMessagesDropped ==
  [][\A o \in Tasks : task[o].at # "callback" /\ task'[o].at = "callback"
                       => task'[o].msg.gen = gen]_vars

\* A rejoin joins no subscription whose leave was requested.
LeavingNotRejoined ==
  [][\A x \in Made : sub'[x].ref # sub[x].ref => ~sub[x].leave]_vars

\* The queues, futures, processors and rejoins keep the promise of SubscriptionLife.
Phase(x) ==
  CASE sub[x].name = "none" -> "none"
    [] sub[x].name # "none" /\ ~Registered(x) -> "gone"
    [] Registered(x) /\ sub[x].leave -> "leaving"
    [] OTHER -> IF sub[x].ready = "ok" THEN "joined" ELSE "joining"
Life == INSTANCE SubscriptionLife WITH
          phase <- [x \in Subs |-> Phase(x)],
          running <- [x \in Subs |-> \E o \in Tasks : InCallback(o, x)]
LifeSpec == Life!Spec

\* subscribe_to_topic and unsubscribe_from_topic return or raise, whatever happens to the
\* connection, to their topic and to the answer they wait for.
CallsEnd ==
  /\ \A x \in Subs : []<>(call[x].at \in {"idle", "returned", "raised"})
  /\ \A u \in Leavers : []<>(leaver[u].at = "idle")

\* A connection lost in the middle of a rejoin is noticed in the end: the rejoin does not
\* wait for ever for answers that cannot come.  (Only Connect, after that, brings a link up.)
LossNoticed == []<>(~connected \/ link = "up")
=================================================================================
