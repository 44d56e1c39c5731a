------------------------------- MODULE Supervisor -------------------------------
(***************************************************************************)
(* The connection supervisor of a PHXChannelsClient, with everything that  *)
(* starts and stops it: __aenter__, __aexit__, run_forever, shutdown and   *)
(* close_connection.                                                       *)
(*                                                                         *)
(* asyncio runs one task at a time, so an action is the code one task runs *)
(* between two awaits.  pc[a] is the await at which task a is suspended.   *)
(* Topics are only counted here: TopicRuntime models what they do, and the *)
(* supervisor sees of them how long a rejoin takes and how it ends.        *)
(*                                                                         *)
(* Both on_reconnect and on_disconnect are registered (a client without    *)
(* them has fewer interleavings), and user callbacks return.  How long the *)
(* loop waits, and that it can work it out, is in ReconnectController.     *)
(***************************************************************************)
EXTENDS Integers, FiniteSets

CONSTANTS
  Callers,                    \* tasks that use the client
  Main,                       \* the task that owns the `async with` block
  Sup,                        \* the supervisor task
  AutoReconnect,              \* auto_reconnect
  HeartbeatOn,                \* heartbeat_interval_s is not None
  ReconnectOnNormalClose,     \* policy.reconnect_on_normal_close
  PolicyViolationIsTerminal,  \* policy.policy_violation_is_terminal
  WaitForDropsCancel,         \* Python 3.11, see WaitOver
  SuppressCount,              \* policy.rapid_suppress_disconnect_count, 0 = never
  MaxTopics,                  \* bound: topics subscribed at a time
  MaxGen,                     \* bound: connections opened over all sessions
  MaxSessions                 \* bound: how often Main enters the context

ASSUME SupervisorAssumption ==
  /\ Main \in Callers
  /\ Sup \notin Callers
  /\ AutoReconnect \in BOOLEAN /\ HeartbeatOn \in BOOLEAN
  /\ ReconnectOnNormalClose \in BOOLEAN /\ PolicyViolationIsTerminal \in BOOLEAN
  /\ WaitForDropsCancel \in BOOLEAN
  /\ SuppressCount \in Nat /\ MaxTopics \in Nat /\ MaxSessions \in Nat /\ MaxGen \in Nat

\* The model follows one supervisor task.  Were other tasks still inside shutdown when
\* Main enters again, they would force the new session to CLOSED, and the client could
\* then be entered a third time next to a live supervisor: either there is one session
\* or only Main uses the client.
ASSUME OneSupervisor == MaxSessions > 1 => Callers = {Main}

VARIABLES
  state,           \* _state
  shutdownEvent,   \* _shutdown_event.is_set()
  connectedEvent,  \* _connected_event.is_set()
  initFut,         \* _initial_connection_future
  terminalError,   \* _terminal_error is not None
  rapid,           \* len(_rapid_disconnects)
  gen,             \* _conn_generation
  connection,      \* connection: the generation that opened it, 0 = None
  link,            \* per generation, the websocket: see LinkStatus
  routing,         \* _message_routing_task
  heartbeat,       \* _heartbeat_task
  forced,          \* _forced_close_pending
  topics,          \* len(_topic_subscriptions)
  todo,            \* topics _rejoin_topics has not reached yet
  closeCode,       \* close_code of the last disconnect of this session
  wasForced,       \* forced_close of the last disconnect
  held,            \* per task, the connection local of its _cleanup_connection
  pc,              \* per task, the await it is suspended at
  supCancel,       \* cancel() was called on the supervisor and not yet delivered
  sessions,        \* history: times Main entered the context
  forcedFor,       \* history: generations close_connection was called on
  notified,        \* history: generation of the last on_disconnect call
  lostCancel       \* history: a cancellation of the supervisor was swallowed

futures  == <<initFut, terminalError, rapid>>
sockets  == <<gen, link>>
tasks    == <<routing, heartbeat>>
locals   == <<closeCode, wasForced>>
forcing  == <<forced, forcedFor>>
history  == <<sessions, notified, lostCancel>>
vars == <<state, shutdownEvent, connectedEvent, futures, sockets, connection, tasks,
          forcing, topics, todo, locals, held, pc, supCancel, history>>

Lifecycle == INSTANCE ClientStateMachine

Actors      == Callers \cup {Sup}
Generations == 1..MaxGen
CloseCodes  == {"normal", "violation", "other"}  \* 1000/1001, 1008, any other or none
\* "closing": this client has sent its close frame; "closed": it has seen the handshake end.
LinkStatus  == {"none", "up", "closing", "closed"} \cup CloseCodes
SupIdle     == {"none", "done", "cancelled", "error"}
SupBusy     == {"start", "connecting", "backoff", "drain", "reaping", "joining",
                "unregistering", "on_reconnect", "routing", "cleanup", "closing",
                "on_disconnect"}
InShutdown  == {"unsubscribing", "join_supervisor", "cleanup", "closing"}
CallerPC    == {"idle", "entering", "inside", "run_forever", "signalled"} \cup InShutdown

Running(a) == pc[a] \in SupBusy
\* The supervisor resumes normally at await p: a pending cancel() would win over it.
At(p) == pc[Sup] = p /\ ~supCancel
\* It resumes at a wait_for that is over.  That of Python 3.11 drops a cancel() which comes
\* between the end of what it waits for and the next run of the task; that of 3.12 and
\* later delivers it.  (pyproject.toml asks for 3.11 or later.)
WaitOver(p) == pc[Sup] = p /\ (supCancel => WaitForDropsCancel)
GoTo(a, p) == pc' = [pc EXCEPT ![a] = p]
RapidCap == IF SuppressCount = 0 THEN 1 ELSE SuppressCount

Init ==
  /\ state = "CLOSED" /\ shutdownEvent = FALSE /\ connectedEvent = FALSE
  /\ initFut = "none" /\ terminalError = FALSE /\ rapid = 0
  /\ gen = 0 /\ connection = 0 /\ link = [g \in Generations |-> "none"]
  /\ routing = "none" /\ heartbeat = "none"
  /\ forced = FALSE /\ topics = 0 /\ todo = 0
  /\ closeCode = "none" /\ wasForced = FALSE
  /\ held = [a \in Actors |-> 0]
  /\ pc = [a \in Actors |-> IF a = Sup THEN "none" ELSE "idle"]
  /\ supCancel = FALSE
  /\ sessions = 0 /\ forcedFor = {} /\ notified = 0 /\ lostCancel = FALSE

---------------------------------------------------------------------------------
(***************************************************************************)
(* _cleanup_connection, run by the supervisor after a disconnect and by    *)
(* every shutdown: take the connection, cancel and await the heartbeat and *)
(* routing tasks, close the socket.                                        *)
(***************************************************************************)
\* The shutdown that called _cleanup_connection returns: CLOSED, whatever the state was.
ReturnFromShutdown(c) == GoTo(c, "idle") /\ state' = "CLOSED"

AfterCleanupUnlessForced(a, s) ==                              \* mutant
  IF a = Sup THEN /\ GoTo(Sup, "on_disconnect") /\ state' = s
                  /\ notified' = IF wasForced THEN notified ELSE gen
             ELSE ReturnFromShutdown(a) /\ UNCHANGED notified

\* What follows the cleanup of task a; s is the state in which it cleaned up.
AfterCleanup(a, s) ==
  IF a = Sup THEN GoTo(Sup, "on_disconnect") /\ notified' = gen /\ state' = s
             ELSE ReturnFromShutdown(a) /\ UNCHANGED notified

CloseNothing(a, c, s) == AfterCleanup(a, s) /\ UNCHANGED <<tasks, link>>   \* mutant

CloseUnawaited(a, c, s) ==                                     \* mutant
  /\ routing' = "none" /\ heartbeat' = "none"
  /\ AfterCleanup(a, s)
  /\ link' = IF c = 0 \/ link[c] # "up" THEN link ELSE [link EXCEPT ![c] = "closing"]

\* Both tasks are gone; connection.close() is awaited unless there is no connection.
CloseSocket(a, c, s) ==
  /\ routing' = "none" /\ heartbeat' = "none"
  /\ IF c = 0
     THEN AfterCleanup(a, s) /\ UNCHANGED link
     ELSE /\ GoTo(a, "closing")
          /\ link' = [link EXCEPT ![c] = IF @ = "up" THEN "closing" ELSE @]
          /\ state' = s /\ UNCHANGED notified

BeginCleanup(a, s) ==
  /\ connection' = 0 /\ connectedEvent' = FALSE
  /\ held' = [held EXCEPT ![a] = connection]
  /\ IF "running" \in {routing, heartbeat}
     THEN GoTo(a, "cleanup") /\ state' = s /\ UNCHANGED <<tasks, link, notified>>
     ELSE CloseSocket(a, connection, s)

\* shutdown clears _connected_event once more before it returns.
ClearOnReturn(a) ==
  connectedEvent' = (connectedEvent /\ (a = Sup \/ pc'[a] # "idle"))

\* A cancel() that arrives while the supervisor awaits a task it has itself cancelled is
\* suppressed together with that task's own CancelledError; wait_for may drop one too.
SwallowCancel ==
  /\ supCancel' = FALSE
  /\ lostCancel' = (lostCancel \/ supCancel)

TasksCleanedUp(a) ==
  /\ pc[a] = "cleanup"
  /\ CloseSocket(a, held[a], state)
  /\ ClearOnReturn(a)
  /\ IF a = Sup THEN SwallowCancel ELSE UNCHANGED <<supCancel, lostCancel>>
  /\ UNCHANGED <<shutdownEvent, futures, gen, connection, forcing, topics, todo,
                 locals, held, sessions>>

\* The close handshake is over, or its timeout is.  (A supervisor that is cancelled here
\* leaves it to the websocket: see SupervisorCancelled.)
SocketClosed(a) ==
  /\ pc[a] = "closing" /\ (a = Sup => ~supCancel)
  /\ AfterCleanup(a, state)
  /\ link' = [g \in Generations |->
                IF g = held[a] /\ link[g] = "closing" THEN "closed" ELSE link[g]]
  /\ ClearOnReturn(a)
  /\ held' = [held EXCEPT ![a] = 0]
  /\ UNCHANGED <<shutdownEvent, futures, gen, connection, tasks, forcing, topics, todo,
                 locals, supCancel, sessions, lostCancel>>

---------------------------------------------------------------------------------
(***************************************************************************)
(* _supervisor_loop.                                                       *)
(***************************************************************************)
FinishForgets(how) == GoTo(Sup, how) /\ UNCHANGED <<connectedEvent, state>>   \* mutant

\* The `finally` of the loop, however it is left.
Finish(how) ==
  /\ GoTo(Sup, how)
  /\ connectedEvent' = FALSE
  /\ state' = IF state = "SHUTTING_DOWN" THEN state ELSE "CLOSED"

LeaveLoopSilently == Finish("done") /\ UNCHANGED initFut       \* mutant
ContinueLoop == GoTo(Sup, "connecting") /\ UNCHANGED <<state, connectedEvent, initFut>>  \* mutant

\* break, or the while condition is false: whoever waits in __aenter__ is told.
LeaveLoop ==
  /\ Finish("done")
  /\ initFut' = IF initFut = "pending" THEN "failed" ELSE initFut

NextIteration ==
  IF shutdownEvent THEN LeaveLoop
  ELSE GoTo(Sup, "connecting") /\ UNCHANGED <<state, connectedEvent, initFut>>

SupervisorStarts ==
  /\ At("start")
  /\ NextIteration
  /\ UNCHANGED <<shutdownEvent, terminalError, rapid, sockets, connection, tasks, forcing,
                 topics, todo, locals, held, supCancel, history>>

\* The delay is over, or _shutdown_event is set: in that case wait_for may drop the
\* cancel() that comes with it, and the loop ends all the same.
BackoffEnds ==
  /\ WaitOver("backoff") /\ (supCancel => shutdownEvent)
  /\ supCancel' = FALSE
  /\ NextIteration
  /\ UNCHANGED <<shutdownEvent, terminalError, rapid, sockets, connection, tasks, forcing,
                 topics, todo, locals, held, history>>

\* _record_disconnect: a short connection is counted, the window drops old ones.
\* Where nothing is ever suppressed (SuppressCount = 0) only "none" and "some" are told apart.
RapidAfter(short) ==
  IF ~short THEN 0..rapid
  ELSE IF SuppressCount = 0 THEN {1} ELSE 1..(rapid + 1)

SuppressedLate(n) == SuppressCount > 0 /\ n > SuppressCount   \* mutant
Suppressed(n) == SuppressCount > 0 /\ n >= SuppressCount

RetryAnyState == "RECONNECTING"                                \* mutant
\* After a failed attempt only a client that is CONNECTING becomes RECONNECTING.
RetryState == IF state = "CONNECTING" THEN "RECONNECTING" ELSE state

\* A failed attempt counts as rapid unless rapid_disconnect_uptime_s is 0.
ConnectFails ==
  /\ At("connecting")
  /\ IF AutoReconnect
     THEN /\ \E short \in BOOLEAN : rapid' \in RapidAfter(short)
          /\ IF Suppressed(rapid')
             THEN terminalError' = TRUE /\ LeaveLoop
             ELSE /\ state' = RetryState
                  /\ GoTo(Sup, "backoff")
                  /\ UNCHANGED <<terminalError, initFut, connectedEvent>>
     ELSE LeaveLoop /\ UNCHANGED <<rapid, terminalError>>
  /\ UNCHANGED <<shutdownEvent, sockets, connection, tasks, forcing, topics, todo, locals,
                 held, supCancel, history>>

\* _rejoin_topics has returned: __aenter__ may return, on_reconnect is called.
AfterRejoin(g) ==
  /\ todo' = 0
  /\ initFut' = IF initFut = "pending" THEN "ok" ELSE initFut
  /\ GoTo(Sup, IF g > 1 THEN "on_reconnect" ELSE "routing")

\* _rejoin_topics goes on with n topics: it skips those with leave_requested, and
\* suspends on the next one to drain its callback, reap its processor or join it.
Rejoin(n, g) ==
  \E skipped \in 0..n :
    IF skipped = n THEN AfterRejoin(g)
    ELSE /\ todo' = n - skipped - 1
         /\ \E p \in {"drain", "reaping", "joining"} : GoTo(Sup, p)
         /\ UNCHANGED initFut

StartTasksOnce ==                                              \* mutant
  /\ routing' = IF gen = 0 THEN "running" ELSE routing
  /\ heartbeat' = IF HeartbeatOn THEN "running" ELSE heartbeat
StartTasks ==
  /\ routing' = "running"
  /\ heartbeat' = IF HeartbeatOn THEN "running" ELSE heartbeat

ConnectSucceeds ==
  /\ At("connecting") /\ gen < MaxGen
  /\ gen' = gen + 1 /\ connection' = gen + 1
  /\ link' = [link EXCEPT ![gen + 1] = "up"]
  /\ IF Lifecycle!MayTransition(state, "CONNECTED")
     THEN /\ state' = "CONNECTED" /\ connectedEvent' = TRUE
          /\ StartTasks
          /\ Rejoin(topics, gen + 1)
     ELSE Finish("error") /\ UNCHANGED <<tasks, todo, initFut>>
  /\ UNCHANGED <<shutdownEvent, terminalError, rapid, forcing, topics, locals, held,
                 supCancel, history>>

unchangedByRejoin == <<shutdownEvent, terminalError, rapid, sockets, connection, tasks,
                       forcing, locals, held, sessions, notified>>

\* The callback being drained returns, or times out and is cancelled.
DrainEnds ==
  /\ WaitOver("drain")
  /\ SwallowCancel
  /\ \E p \in {"reaping", "joining"} : GoTo(Sup, p)
  /\ UNCHANGED <<state, connectedEvent, initFut, topics, todo, unchangedByRejoin>>

\* The callback being drained raises: the error leaves _rejoin_topics, which is logged.
DrainRaises ==
  /\ WaitOver("drain")
  /\ SwallowCancel
  /\ AfterRejoin(gen)
  /\ UNCHANGED <<state, connectedEvent, topics, unchangedByRejoin>>

\* Somebody else cancels the callback being drained: CancelledError leaves the loop.
DrainCancelled ==
  /\ WaitOver("drain")
  /\ Finish("cancelled")
  /\ todo' = 0
  /\ supCancel' = FALSE
  /\ UNCHANGED <<initFut, topics, lostCancel, unchangedByRejoin>>

\* The cancelled callback or processor ends (and with it a cancel() of the supervisor).
ProcessorReaped ==
  /\ pc[Sup] = "reaping"
  /\ SwallowCancel
  /\ GoTo(Sup, "joining")
  /\ UNCHANGED <<state, connectedEvent, initFut, topics, todo, unchangedByRejoin>>

\* The join is answered with ok, times out, or the socket fails.
JoinEnds ==
  /\ WaitOver("joining")
  /\ SwallowCancel
  /\ Rejoin(todo, gen)
  /\ UNCHANGED <<state, connectedEvent, topics, unchangedByRejoin>>

\* The join is refused: the topic is unregistered, unless the client shuts down.
JoinRefused ==
  /\ WaitOver("joining") /\ ~shutdownEvent
  /\ SwallowCancel
  /\ \/ topics > 0 /\ topics' = topics - 1
     \/ UNCHANGED topics                            \* it was unregistered meanwhile
  /\ \/ GoTo(Sup, "unregistering") /\ UNCHANGED <<initFut, todo>>
     \/ Rejoin(todo, gen)                           \* no processor to wait for
  /\ UNCHANGED <<state, connectedEvent, unchangedByRejoin>>

TopicUnregistered ==
  /\ pc[Sup] = "unregistering"
  /\ SwallowCancel
  /\ Rejoin(todo, gen)
  /\ UNCHANGED <<state, connectedEvent, topics, unchangedByRejoin>>

OnReconnectReturns ==
  /\ At("on_reconnect")
  /\ GoTo(Sup, "routing")
  /\ UNCHANGED <<state, connectedEvent, initFut, topics, todo, supCancel, lostCancel,
                 unchangedByRejoin>>

KeepForced == wasForced' = forced /\ UNCHANGED forced          \* mutant
TakeForced == wasForced' = forced /\ forced' = FALSE

\* The routing task has ended: take note of how, and clean up.
ConnectionLost ==
  /\ At("routing") /\ routing = "done"
  /\ closeCode' = IF link[gen] \in CloseCodes THEN link[gen] ELSE "other"
  /\ TakeForced
  /\ BeginCleanup(Sup, state)
  /\ UNCHANGED <<shutdownEvent, futures, gen, forcedFor, topics, todo, supCancel, sessions,
                 lostCancel>>

\* _classify_disconnect, or the bypass for a forced close.
Classify(code, isForced) ==
  CASE isForced -> "reconnect"
    [] ~isForced /\ code = "normal" /\ ~ReconnectOnNormalClose -> "stop"
    [] ~isForced /\ code = "violation" /\ PolicyViolationIsTerminal -> "terminal"
    [] OTHER -> "reconnect"

\* The state moves to RECONNECTING, if the table allows it, and the delay begins.
Reconnect ==
  /\ IF Lifecycle!MayTransition(state, "RECONNECTING")
     THEN state' = "RECONNECTING" /\ GoTo(Sup, "backoff") /\ UNCHANGED connectedEvent
     ELSE Finish("error")
  /\ UNCHANGED <<terminalError, initFut>>

\* on_disconnect has returned: reconnect after a delay, or leave the loop.
AfterDisconnect ==
  /\ At("on_disconnect")
  /\ LET verdict == Classify(closeCode, wasForced)
     IN IF shutdownEvent \/ ~AutoReconnect \/ verdict # "reconnect"
        THEN /\ LeaveLoop
             /\ terminalError' = (terminalError \/ ( /\ ~shutdownEvent /\ AutoReconnect
                                                     /\ verdict = "terminal" ))
             /\ UNCHANGED rapid
        ELSE \E short, stable \in BOOLEAN : \E n \in RapidAfter(short) :
               IF Suppressed(n)
               THEN terminalError' = TRUE /\ rapid' = n /\ LeaveLoop
               ELSE /\ rapid' = IF stable THEN 0 ELSE n
                    /\ Reconnect
  /\ UNCHANGED <<shutdownEvent, sockets, connection, tasks, forcing, topics, todo, locals,
                 held, supCancel, history>>

\* CancelledError is thrown at an await that does not suppress it.  A task cancelled
\* before its first step never enters the loop, so its `finally` does not run; one that is
\* cancelled in connection.close() no longer enforces the timeout of the close handshake.
SupervisorCancelled ==
  /\ supCancel /\ Running(Sup)
  /\ pc[Sup] \notin {"reaping", "unregistering", "cleanup"}
  /\ supCancel' = FALSE
  /\ IF pc[Sup] = "start"
     THEN GoTo(Sup, "cancelled") /\ UNCHANGED <<connectedEvent, state>>
     ELSE Finish("cancelled")
  /\ todo' = 0
  /\ held' = [held EXCEPT ![Sup] = 0]
  /\ routing' = IF pc[Sup] = "routing" /\ routing = "running" THEN "done" ELSE routing
  /\ UNCHANGED <<shutdownEvent, futures, sockets, connection, heartbeat, forcing, topics,
                 locals, history>>

---------------------------------------------------------------------------------
(***************************************************************************)
(* __aenter__, shutdown, __aexit__, run_forever, close_connection.         *)
(***************************************************************************)
\* __aenter__ of a CLOSED client (of any other it raises and changes nothing).
Enter ==
  /\ pc[Main] = "idle" /\ sessions < MaxSessions /\ state = "CLOSED"
  /\ state' = "CONNECTING"
  /\ shutdownEvent' = FALSE /\ connectedEvent' = FALSE
  /\ rapid' = 0 /\ terminalError' = FALSE /\ initFut' = "pending"
  /\ pc' = [pc EXCEPT ![Main] = "entering", ![Sup] = "start"]
  /\ supCancel' = FALSE /\ closeCode' = "none" /\ wasForced' = FALSE
  /\ sessions' = sessions + 1 /\ notified' = 0 /\ lostCancel' = FALSE
  /\ UNCHANGED <<sockets, connection, tasks, forcing, topics, todo, held>>

EnterReturns ==
  /\ pc[Main] = "entering" /\ initFut = "ok"
  /\ GoTo(Main, "inside")
  /\ UNCHANGED <<state, shutdownEvent, connectedEvent, futures, sockets, connection, tasks,
                 forcing, topics, todo, locals, held, supCancel, history>>

unchangedByShutdown == <<futures, gen, forcing, todo, locals, sessions, lostCancel>>

StopWithoutJoin(c, s) == BeginCleanup(c, s) /\ UNCHANGED supCancel   \* mutant
JoinWithoutCancel(c, s) ==                                     \* mutant
  IF Running(Sup)
  THEN /\ GoTo(c, "join_supervisor") /\ state' = s
       /\ UNCHANGED <<supCancel, connectedEvent, connection, held, tasks, link, notified>>
  ELSE BeginCleanup(c, s) /\ UNCHANGED supCancel

\* shutdown, once the topics are gone: cancel a live supervisor and wait for it, else
\* clean up at once; s is the state in which it does so.
StopSupervisor(c, s) ==
  IF Running(Sup)
  THEN /\ supCancel' = TRUE /\ state' = s
       /\ GoTo(c, "join_supervisor")
       /\ UNCHANGED <<connectedEvent, connection, held, tasks, link, notified>>
  ELSE BeginCleanup(c, s) /\ UNCHANGED supCancel

\* shutdown, up to its first await.
Shutdown(c) ==
  /\ IF state = "CLOSED" /\ topics = 0 /\ connection = 0
     THEN /\ GoTo(c, "idle")
          /\ UNCHANGED <<state, shutdownEvent, connectedEvent, link, connection, tasks,
                         held, supCancel, notified>>
     ELSE LET stopping == IF state = "CLOSED" THEN "CLOSED" ELSE "SHUTTING_DOWN"
          IN /\ shutdownEvent' = TRUE
             /\ IF topics > 0
                THEN /\ GoTo(c, "unsubscribing") /\ state' = stopping
                     /\ UNCHANGED <<connectedEvent, link, connection, tasks, held,
                                    supCancel, notified>>
                ELSE StopSupervisor(c, stopping)
  /\ UNCHANGED <<topics, unchangedByShutdown>>

\* The unsubscribe tasks have all ended; each has unregistered its topic.
TopicsUnsubscribed(c) ==
  /\ pc[c] = "unsubscribing"
  /\ topics' = 0
  /\ StopSupervisor(c, state)
  /\ UNCHANGED <<shutdownEvent, unchangedByShutdown>>

\* The supervisor shutdown waits for has ended.  Only its CancelledError is caught:
\* any other exception ends shutdown here.
SupervisorJoined(c) ==
  /\ pc[c] = "join_supervisor" /\ ~Running(Sup)
  /\ IF pc[Sup] = "error"
     THEN /\ GoTo(c, "idle")
          /\ UNCHANGED <<state, connectedEvent, connection, held, tasks, link, notified>>
     ELSE BeginCleanup(c, state)
  /\ UNCHANGED <<shutdownEvent, topics, supCancel, unchangedByShutdown>>

\* Any other task may call shutdown; __aexit__ does, and so does an __aenter__ whose
\* initial connection failed.
CallShutdown(c) == c # Main /\ pc[c] = "idle" /\ Shutdown(c)
Exit == pc[Main] = "inside" /\ Shutdown(Main)
EnterFails == pc[Main] = "entering" /\ initFut = "failed" /\ Shutdown(Main)

unchangedByRunForever == <<state, shutdownEvent, connectedEvent, futures, sockets, connection,
                           tasks, forcing, topics, todo, locals, held, history>>

RunForever ==
  /\ pc[Main] = "inside"
  /\ GoTo(Main, "run_forever")
  /\ UNCHANGED <<supCancel, unchangedByRunForever>>

\* The supervisor has ended by itself: run_forever returns or raises, into __aexit__.
RunForeverEnds ==
  /\ pc[Main] = "run_forever" /\ ~Running(Sup)
  /\ GoTo(Main, "inside")
  /\ UNCHANGED <<supCancel, unchangedByRunForever>>

\* SIGINT or SIGTERM: the supervisor is cancelled, without setting _shutdown_event ...
Signal ==
  /\ pc[Main] = "run_forever" /\ Running(Sup)
  /\ GoTo(Main, "signalled")
  /\ supCancel' = TRUE
  /\ UNCHANGED unchangedByRunForever

\* ... and shutdown is called when it has ended.
SignalHandled == pc[Main] = "signalled" /\ ~Running(Sup) /\ Shutdown(Main)

\* close_connection: a no-op without a connection.  The peer's echo need not carry the
\* code that was sent, so any close code may come back.
CloseConnection(c) ==
  /\ pc[c] \in {"idle", "inside"} /\ connection # 0
  /\ forced' = TRUE /\ forcedFor' = forcedFor \cup {connection}
  /\ IF link[connection] = "up"
     THEN \E code \in CloseCodes : link' = [link EXCEPT ![connection] = code]
     ELSE UNCHANGED link
  /\ UNCHANGED <<state, shutdownEvent, connectedEvent, futures, gen, connection, tasks,
                 topics, todo, locals, held, pc, supCancel, history>>
---------------------------------------------------------------------------------
(***************************************************************************)
(* The peer, the routing and heartbeat tasks, and the number of topics.    *)
(***************************************************************************)
PeerCloses(g) ==
  /\ link[g] = "up"
  /\ \E code \in CloseCodes : link' = [link EXCEPT ![g] = code]
  /\ UNCHANGED <<state, shutdownEvent, connectedEvent, futures, gen, connection, tasks,
                 forcing, topics, todo, locals, held, pc, supCancel, history>>

unchangedByTasks == <<state, shutdownEvent, connectedEvent, futures, sockets, connection,
                      forcing, todo, locals, held, pc, supCancel, history>>

\* The routing task reads the end of its connection ...
RoutingEnds ==
  /\ routing = "running" /\ link[gen] # "up"
  /\ routing' = "done"
  /\ UNCHANGED <<heartbeat, topics, unchangedByTasks>>

\* ... or fails on a message it cannot parse.
RoutingFails ==
  /\ routing = "running"
  /\ routing' = "done"
  /\ UNCHANGED <<heartbeat, topics, unchangedByTasks>>

\* The heartbeat loop ends: a send failed, or it saw _shutdown_event.
HeartbeatEnds ==
  /\ heartbeat = "running" /\ (shutdownEvent \/ link[gen] # "up")
  /\ heartbeat' = "done"
  /\ UNCHANGED <<routing, topics, unchangedByTasks>>

\* subscribe_to_topic registers a topic; _unregister_topic removes one.
TopicRegistered ==
  /\ state = "CONNECTED" /\ connection # 0 /\ topics < MaxTopics
  /\ topics' = topics + 1
  /\ UNCHANGED <<tasks, unchangedByTasks>>

TopicRemoved ==
  /\ topics > 0
  /\ topics' = topics - 1
  /\ UNCHANGED <<tasks, unchangedByTasks>>
---------------------------------------------------------------------------------
Rejoining ==
  \/ DrainEnds \/ DrainRaises \/ DrainCancelled
  \/ ProcessorReaped \/ JoinEnds \/ JoinRefused \/ TopicUnregistered

SupervisorStep ==
  \/ SupervisorStarts \/ ConnectFails \/ ConnectSucceeds \/ BackoffEnds
  \/ Rejoining \/ OnReconnectReturns \/ ConnectionLost \/ AfterDisconnect
  \/ SupervisorCancelled

CleanupStep(a) == TasksCleanedUp(a) \/ SocketClosed(a)

ShutdownStep(c) == TopicsUnsubscribed(c) \/ SupervisorJoined(c)

MainStep == EnterReturns \/ EnterFails \/ SignalHandled

Application ==
  \/ Enter \/ Exit \/ RunForever \/ RunForeverEnds \/ Signal
  \/ TopicRegistered \/ TopicRemoved
  \/ \E c \in Callers : CallShutdown(c) \/ CloseConnection(c)

Peer == RoutingFails \/ \E g \in Generations : PeerCloses(g)

Next ==
  \/ SupervisorStep \/ MainStep \/ Application \/ Peer
  \/ RoutingEnds \/ HeartbeatEnds
  \/ \E a \in Actors : CleanupStep(a)
  \/ \E c \in Callers : ShutdownStep(c)

(***************************************************************************)
(* Fairness: the event loop runs every task that can go on, and everything *)
(* a task awaits has a timeout (connect, join, drain, close) or is a user  *)
(* callback, assumed to return.  Nothing obliges the peer to close, or the *)
(* application to call anything.                                           *)
(***************************************************************************)
Fairness ==
  /\ WF_vars(SupervisorStep) /\ WF_vars(MainStep)
  /\ WF_vars(RoutingEnds)
  /\ \A a \in Actors : WF_vars(CleanupStep(a))
  /\ \A c \in Callers : WF_vars(ShutdownStep(c))

Spec == Init /\ [][Next]_vars
FairSpec == Spec /\ Fairness
---------------------------------------------------------------------------------
FlagsOK ==
  /\ shutdownEvent \in BOOLEAN /\ connectedEvent \in BOOLEAN /\ terminalError \in BOOLEAN
  /\ forced \in BOOLEAN /\ wasForced \in BOOLEAN
  /\ supCancel \in BOOLEAN /\ lostCancel \in BOOLEAN

CountersOK ==
  /\ rapid \in 0..RapidCap
  /\ gen \in 0..MaxGen /\ connection \in 0..MaxGen /\ notified \in 0..MaxGen
  /\ held \in [Actors -> 0..MaxGen]
  /\ forcedFor \subseteq Generations
  /\ topics \in 0..MaxTopics /\ todo \in 0..MaxTopics
  /\ sessions \in 0..MaxSessions

StatusOK ==
  /\ state \in Lifecycle!ClientState
  /\ initFut \in {"none", "pending", "ok", "failed"}
  /\ link \in [Generations -> LinkStatus]
  /\ routing \in {"none", "running", "done"} /\ heartbeat \in {"none", "running", "done"}
  /\ closeCode \in CloseCodes \cup {"none"}
  /\ pc \in [Actors -> SupIdle \cup SupBusy \cup CallerPC]
  /\ pc[Sup] \in SupIdle \cup SupBusy
  /\ \A c \in Callers : pc[c] \in CallerPC

\* The ranges of the variables.  That rapid stays below its cap is the only bound the
\* code itself has to keep: it stops connecting when the threshold is met.
TypeOK == FlagsOK /\ CountersOK /\ StatusOK

\* Outside a shutdown the published state says whether a supervisor is alive: CLOSED
\* means it has ended, the three live states that it has not.
Supervised ==
  state # "SHUTTING_DOWN" =>
    (Running(Sup) <=> state \in {"CONNECTING", "CONNECTED", "RECONNECTING"})

\* No websocket is forgotten: one that is up is client.connection, or the local of a
\* cleanup that is about to close it, whatever was cancelled or raised in between.
SocketOwned ==
  \A g \in Generations :
    link[g] = "up" => connection = g \/ \E a \in Actors : held[a] = g /\ pc[a] = "cleanup"

\* Nor are the routing and heartbeat tasks of a connection that was taken down.
TasksOwned ==
  "running" \in {routing, heartbeat} => connection # 0 \/ \E a \in Actors : pc[a] = "cleanup"

\* A close handshake this client has begun is seen through by a cleanup, however cleanups
\* of several tasks overlap; only a supervisor cancelled in it leaves one behind, and the
\* shutdown that cancelled it returns without it: the connection was taken from the client.
\* (One session: a later supervisor is not the one that was cancelled.)
ClosingAwaited ==
  \A g \in Generations :
    link[g] = "closing" =>
      (\E a \in Actors : held[a] = g /\ pc[a] = "closing") \/ pc[Sup] = "cancelled"

\* _connected_event is set only while there is a connection and a supervisor for it.
ConnectedSignal == connectedEvent => connection # 0 /\ Running(Sup)

\* When __aexit__ has returned (and no other task is in shutdown) nothing is left over.
SessionEndsClean ==
  pc[Main] = "idle" /\ (\A c \in Callers : pc[c] \notin InShutdown) =>
    /\ state = "CLOSED" /\ ~Running(Sup) /\ topics = 0 /\ connection = 0
    /\ "running" \notin {routing, heartbeat}
    /\ \A g \in Generations : link[g] # "up"

\* Once a terminal error is recorded the supervisor never tries again in this session.
TerminalErrorIsFinal == terminalError => ~Running(Sup)

\* A close the policy calls final stops the reconnecting, unless it was the
\* application's own close_connection that closed that connection.
FinalCloseStops ==
  /\ pc[Sup] \in {"connecting", "backoff"}
  /\ gen \notin forcedFor
  => /\ closeCode = "violation" => ~PolicyViolationIsTerminal
     /\ closeCode = "normal" => ReconnectOnNormalClose

\* on_reconnect is called only after on_disconnect was, for the connection it replaces.
ReconnectFollowsDisconnect == pc[Sup] = "on_reconnect" => notified = gen - 1

\* __aenter__ never waits for a supervisor that has ended: the loop resolves the
\* initial connection future on every way out.
EnterNeverStranded == initFut = "pending" => Running(Sup)

\* A connection that is gone is noticed: it is dropped, or the client is CLOSED.
LossNoticed ==
  \A g \in Generations :
    connection = g /\ link[g] # "up" ~> connection # g \/ state = "CLOSED"

\* shutdown returns, in every state of the client and whoever else calls it.
ShutdownAlwaysReturns ==
  \A c \in Callers : pc[c] \in InShutdown ~> pc[c] \notin InShutdown

\* What the code does achieve: shutdown returns unless the one cancel() it sends to the
\* supervisor is swallowed (see SwallowCancel).
ShutdownReturns ==
  \A c \in Callers : pc[c] \in InShutdown ~> pc[c] \notin InShutdown \/ lostCancel

\* Whatever the tasks do, _state moves only along the table of client_state_machine.py.
LifecycleSpec == Lifecycle!Spec
=================================================================================
