---------------------------- MODULE SupervisorProofs ----------------------------
(***************************************************************************)
(* What Supervisor guarantees for any number of tasks, topics, connections *)
(* and sessions (one session, or one task: OneSupervisor), proved.         *)
(*                                                                         *)
(* IInv is the inductive invariant.  It ties the published state and the   *)
(* connection to the place where the supervisor and each shutdown stand;   *)
(* the properties of Supervisor follow from it.  Each lemma ...Next shows  *)
(* that one part of it survives every action.                              *)
(***************************************************************************)
EXTENDS Supervisor, TLAPS

\* The steps the actions are put together from, and the tuples of variables.
USE DEF Rejoin, AfterRejoin, NextIteration, LeaveLoop, Finish, Reconnect, StartTasks,
    TakeForced, SwallowCancel, ClearOnReturn, BeginCleanup, CloseSocket, AfterCleanup,
    ReturnFromShutdown, Shutdown, StopSupervisor, GoTo, At, WaitOver,
    vars, futures, sockets, tasks, locals, forcing, history, unchangedByRejoin,
    unchangedByShutdown, unchangedByRunForever, unchangedByTasks

\* While the supervisor is alive the suppression threshold has not been met.
RapidOK == Running(Sup) /\ SuppressCount > 0 => rapid < SuppressCount

---------------------------------------------------------------------------------
\* Type correctness, in three parts: the flags, the counters with RapidOK, the rest.
LEMMA FlagsNext == FlagsOK /\ [Next]_vars => FlagsOK'
<1> SUFFICES ASSUME FlagsOK, [Next]_vars PROVE FlagsOK'
  OBVIOUS
<1> USE DEF FlagsOK
<1>1. CASE SupervisorStarts
  BY <1>1 DEF SupervisorStarts
<1>2. CASE ConnectFails
  BY <1>2 DEF ConnectFails
<1>3. CASE ConnectSucceeds
  BY <1>3 DEF ConnectSucceeds
<1>4. CASE BackoffEnds
  BY <1>4 DEF BackoffEnds
<1>5. CASE DrainEnds
  BY <1>5 DEF DrainEnds
<1>6. CASE DrainRaises
  BY <1>6 DEF DrainRaises
<1>7. CASE DrainCancelled
  BY <1>7 DEF DrainCancelled
<1>8. CASE ProcessorReaped
  BY <1>8 DEF ProcessorReaped
<1>9. CASE JoinEnds
  BY <1>9 DEF JoinEnds
<1>10. CASE JoinRefused
  BY <1>10 DEF JoinRefused
<1>11. CASE TopicUnregistered
  BY <1>11 DEF TopicUnregistered
<1>12. CASE OnReconnectReturns
  BY <1>12 DEF OnReconnectReturns
<1>13. CASE ConnectionLost
  BY <1>13 DEF ConnectionLost
<1>14. CASE AfterDisconnect
  BY <1>14 DEF AfterDisconnect
<1>15. CASE SupervisorCancelled
  BY <1>15 DEF SupervisorCancelled
<1>16. CASE EnterReturns
  BY <1>16 DEF EnterReturns
<1>17. CASE EnterFails
  BY <1>17 DEF EnterFails
<1>18. CASE SignalHandled
  BY <1>18 DEF SignalHandled
<1>19. CASE Enter
  BY <1>19 DEF Enter
<1>20. CASE Exit
  BY <1>20 DEF Exit
<1>21. CASE RunForever
  BY <1>21 DEF RunForever
<1>22. CASE RunForeverEnds
  BY <1>22 DEF RunForeverEnds
<1>23. CASE Signal
  BY <1>23 DEF Signal
<1>24. CASE TopicRegistered
  BY <1>24 DEF TopicRegistered
<1>25. CASE TopicRemoved
  BY <1>25 DEF TopicRemoved
<1>26. CASE RoutingFails
  BY <1>26 DEF RoutingFails
<1>27. CASE RoutingEnds
  BY <1>27 DEF RoutingEnds
<1>28. CASE HeartbeatEnds
  BY <1>28 DEF HeartbeatEnds
<1>29. ASSUME NEW c \in Callers, CallShutdown(c) PROVE FlagsOK'
  BY <1>29 DEF CallShutdown
<1>30. ASSUME NEW c \in Callers, CloseConnection(c) PROVE FlagsOK'
  BY <1>30 DEF CloseConnection
<1>31. ASSUME NEW g \in Generations, PeerCloses(g) PROVE FlagsOK'
  BY <1>31 DEF PeerCloses
<1>32. ASSUME NEW a \in Actors, TasksCleanedUp(a) PROVE FlagsOK'
  BY <1>32 DEF TasksCleanedUp
<1>33. ASSUME NEW a \in Actors, SocketClosed(a) PROVE FlagsOK'
  BY <1>33 DEF SocketClosed
<1>34. ASSUME NEW c \in Callers, TopicsUnsubscribed(c) PROVE FlagsOK'
  BY <1>34 DEF TopicsUnsubscribed
<1>35. ASSUME NEW c \in Callers, SupervisorJoined(c) PROVE FlagsOK'
  BY <1>35 DEF SupervisorJoined
<1>36. CASE UNCHANGED vars
  BY <1>36
<1>37. QED
  BY <1>1, <1>2, <1>3, <1>4, <1>5, <1>6, <1>7, <1>8, <1>9, <1>10, <1>11, <1>12, <1>13,
     <1>14, <1>15, <1>16, <1>17, <1>18, <1>19, <1>20, <1>21, <1>22, <1>23, <1>24, <1>25,
     <1>26, <1>27, <1>28, <1>29, <1>30, <1>31, <1>32, <1>33, <1>34, <1>35, <1>36
  DEF Next, SupervisorStep, Rejoining, MainStep, Application, Peer, CleanupStep, ShutdownStep

\* No counter leaves its bound; in particular the list of rapid disconnects never grows
\* past the threshold at which _should_suppress_reconnect ends the loop.
LEMMA CountersNext == TypeOK /\ RapidOK /\ [Next]_vars => CountersOK' /\ RapidOK'
<1> SUFFICES ASSUME TypeOK, RapidOK, [Next]_vars PROVE (CountersOK /\ RapidOK)'
  OBVIOUS
<1> USE SupervisorAssumption DEF TypeOK, CountersOK, RapidOK, StatusOK, Actors,
    Generations, Running, SupBusy, SupIdle, RapidCap, Suppressed, RapidAfter,
    SupervisorAssumption
<1>1. CASE SupervisorStarts
  BY <1>1 DEF SupervisorStarts
<1>2. CASE ConnectFails
  BY <1>2 DEF ConnectFails
<1>3. CASE ConnectSucceeds
  BY <1>3 DEF ConnectSucceeds
<1>4. CASE BackoffEnds
  BY <1>4 DEF BackoffEnds
<1>5. CASE DrainEnds
  BY <1>5 DEF DrainEnds
<1>6. CASE DrainRaises
  BY <1>6 DEF DrainRaises
<1>7. CASE DrainCancelled
  BY <1>7 DEF DrainCancelled
<1>8. CASE ProcessorReaped
  BY <1>8 DEF ProcessorReaped
<1>9. CASE JoinEnds
  BY <1>9 DEF JoinEnds
<1>10. CASE JoinRefused
  BY <1>10 DEF JoinRefused
<1>11. CASE TopicUnregistered
  BY <1>11 DEF TopicUnregistered
<1>12. CASE OnReconnectReturns
  BY <1>12 DEF OnReconnectReturns
<1>13. CASE ConnectionLost
  BY <1>13 DEF ConnectionLost
<1>14. CASE AfterDisconnect
  BY <1>14 DEF AfterDisconnect
<1>15. CASE SupervisorCancelled
  BY <1>15 DEF SupervisorCancelled
<1>16. CASE EnterReturns
  BY <1>16 DEF EnterReturns
<1>17. CASE EnterFails
  BY <1>17 DEF EnterFails
<1>18. CASE SignalHandled
  BY <1>18, SMTT(30) DEF SignalHandled
<1>19. CASE Enter
  BY <1>19 DEF Enter
<1>20. CASE Exit
  BY <1>20 DEF Exit
<1>21. CASE RunForever
  BY <1>21 DEF RunForever
<1>22. CASE RunForeverEnds
  BY <1>22 DEF RunForeverEnds
<1>23. CASE Signal
  BY <1>23 DEF Signal
<1>24. CASE TopicRegistered
  BY <1>24 DEF TopicRegistered
<1>25. CASE TopicRemoved
  BY <1>25 DEF TopicRemoved
<1>26. CASE RoutingFails
  BY <1>26 DEF RoutingFails
<1>27. CASE RoutingEnds
  BY <1>27 DEF RoutingEnds
<1>28. CASE HeartbeatEnds
  BY <1>28 DEF HeartbeatEnds
<1>29. ASSUME NEW c \in Callers, CallShutdown(c) PROVE (CountersOK /\ RapidOK)'
  BY <1>29 DEF CallShutdown
<1>30. ASSUME NEW c \in Callers, CloseConnection(c) PROVE (CountersOK /\ RapidOK)'
  BY <1>30 DEF CloseConnection
<1>31. ASSUME NEW g \in Generations, PeerCloses(g) PROVE (CountersOK /\ RapidOK)'
  BY <1>31 DEF PeerCloses
<1>32. ASSUME NEW a \in Actors, TasksCleanedUp(a) PROVE (CountersOK /\ RapidOK)'
  BY <1>32 DEF TasksCleanedUp
<1>33. ASSUME NEW a \in Actors, SocketClosed(a) PROVE (CountersOK /\ RapidOK)'
  BY <1>33 DEF SocketClosed
<1>34. ASSUME NEW c \in Callers, TopicsUnsubscribed(c) PROVE (CountersOK /\ RapidOK)'
  <2>1. CountersOK'
    BY <1>34 DEF TopicsUnsubscribed
  <2>2. RapidOK'
    BY <1>34 DEF TopicsUnsubscribed
  <2> QED  BY <2>1, <2>2
<1>35. ASSUME NEW c \in Callers, SupervisorJoined(c) PROVE (CountersOK /\ RapidOK)'
  <2>1. CountersOK'
    <3>1. /\ UNCHANGED <<rapid, gen, topics, todo, sessions, forcedFor>>
          /\ connection' \in {connection, 0} /\ notified' = notified
      BY <1>35 DEF SupervisorJoined
    <3>2. held' \in {held, [held EXCEPT ![c] = connection]}
      BY <1>35 DEF SupervisorJoined
    <3> QED  BY <3>1, <3>2, SMTT(30)
  <2>2. RapidOK'
    BY <1>35 DEF SupervisorJoined
  <2> QED  BY <2>1, <2>2
<1>36. CASE UNCHANGED vars
  BY <1>36
<1>37. QED
  BY <1>1, <1>2, <1>3, <1>4, <1>5, <1>6, <1>7, <1>8, <1>9, <1>10, <1>11, <1>12, <1>13,
     <1>14, <1>15, <1>16, <1>17, <1>18, <1>19, <1>20, <1>21, <1>22, <1>23, <1>24, <1>25,
     <1>26, <1>27, <1>28, <1>29, <1>30, <1>31, <1>32, <1>33, <1>34, <1>35, <1>36
  DEF Next, SupervisorStep, Rejoining, MainStep, Application, Peer, CleanupStep, ShutdownStep

\* The life-cycle state, the futures, tasks, sockets and program counters stay in range.
LEMMA StatusNext == TypeOK /\ [Next]_vars => StatusOK'
<1> SUFFICES ASSUME TypeOK, [Next]_vars PROVE StatusOK'
  OBVIOUS
<1> USE SupervisorAssumption DEF TypeOK, CountersOK, StatusOK, Actors, Generations,
    SupBusy, SupIdle, CallerPC, InShutdown, CloseCodes, LinkStatus,
    Lifecycle!ClientState, RetryState, SupervisorAssumption
<1>1. CASE SupervisorStarts
  BY <1>1 DEF SupervisorStarts
<1>2. CASE ConnectFails
  <2>1. UNCHANGED <<link, routing, heartbeat, closeCode>> /\ state' \in Lifecycle!ClientState
    BY <1>2 DEF ConnectFails
  <2>2. initFut' \in {initFut, "failed"} /\ \E p \in {"done", "backoff"} : GoTo(Sup, p)
    BY <1>2 DEF ConnectFails
  <2> QED  BY <2>1, <2>2
<1>3. CASE ConnectSucceeds
  BY <1>3, SMTT(30) DEF ConnectSucceeds
<1>4. CASE BackoffEnds
  BY <1>4 DEF BackoffEnds
<1>5. CASE DrainEnds
  BY <1>5 DEF DrainEnds
<1>6. CASE DrainRaises
  BY <1>6 DEF DrainRaises
<1>7. CASE DrainCancelled
  BY <1>7 DEF DrainCancelled
<1>8. CASE ProcessorReaped
  BY <1>8 DEF ProcessorReaped
<1>9. CASE JoinEnds
  BY <1>9 DEF JoinEnds
<1>10. CASE JoinRefused
  BY <1>10 DEF JoinRefused
<1>11. CASE TopicUnregistered
  BY <1>11 DEF TopicUnregistered
<1>12. CASE OnReconnectReturns
  BY <1>12 DEF OnReconnectReturns
<1>13. CASE ConnectionLost
  BY <1>13 DEF ConnectionLost
<1>14. CASE AfterDisconnect
  BY <1>14 DEF AfterDisconnect
<1>15. CASE SupervisorCancelled
  BY <1>15 DEF SupervisorCancelled
<1>16. CASE EnterReturns
  BY <1>16 DEF EnterReturns
<1>17. CASE EnterFails
  BY <1>17 DEF EnterFails
<1>18. CASE SignalHandled
  BY <1>18, SMTT(30) DEF SignalHandled
<1>19. CASE Enter
  BY <1>19 DEF Enter
<1>20. CASE Exit
  BY <1>20 DEF Exit
<1>21. CASE RunForever
  BY <1>21 DEF RunForever
<1>22. CASE RunForeverEnds
  BY <1>22 DEF RunForeverEnds
<1>23. CASE Signal
  BY <1>23 DEF Signal
<1>24. CASE TopicRegistered
  BY <1>24 DEF TopicRegistered
<1>25. CASE TopicRemoved
  BY <1>25 DEF TopicRemoved
<1>26. CASE RoutingFails
  BY <1>26 DEF RoutingFails
<1>27. CASE RoutingEnds
  BY <1>27 DEF RoutingEnds
<1>28. CASE HeartbeatEnds
  BY <1>28 DEF HeartbeatEnds
<1>29. ASSUME NEW c \in Callers, CallShutdown(c) PROVE StatusOK'
  BY <1>29, SMTT(30) DEF CallShutdown
<1>30. ASSUME NEW c \in Callers, CloseConnection(c) PROVE StatusOK'
  <2>1. link' \in [Generations -> LinkStatus]
    BY <1>30 DEF CloseConnection
  <2> QED  BY <1>30, <2>1 DEF CloseConnection
<1>31. ASSUME NEW g \in Generations, PeerCloses(g) PROVE StatusOK'
  BY <1>31 DEF PeerCloses
<1>32. ASSUME NEW a \in Actors, TasksCleanedUp(a) PROVE StatusOK'
  BY <1>32, SMTT(30) DEF TasksCleanedUp
<1>33. ASSUME NEW a \in Actors, SocketClosed(a) PROVE StatusOK'
  BY <1>33 DEF SocketClosed
<1>34. ASSUME NEW c \in Callers, TopicsUnsubscribed(c) PROVE StatusOK'
  BY <1>34, SMTT(30) DEF TopicsUnsubscribed
<1>35. ASSUME NEW c \in Callers, SupervisorJoined(c) PROVE StatusOK'
  BY <1>35 DEF SupervisorJoined
<1>36. CASE UNCHANGED vars
  BY <1>36
<1>37. QED
  BY <1>1, <1>2, <1>3, <1>4, <1>5, <1>6, <1>7, <1>8, <1>9, <1>10, <1>11, <1>12, <1>13,
     <1>14, <1>15, <1>16, <1>17, <1>18, <1>19, <1>20, <1>21, <1>22, <1>23, <1>24, <1>25,
     <1>26, <1>27, <1>28, <1>29, <1>30, <1>31, <1>32, <1>33, <1>34, <1>35, <1>36
  DEF Next, SupervisorStep, Rejoining, MainStep, Application, Peer, CleanupStep, ShutdownStep

TypeInv == TypeOK /\ RapidOK

\* The initial state has the right types.
LEMMA TypeInit == Init => TypeInv
<1>1. Init => FlagsOK
  BY DEF Init, FlagsOK
<1>2. Init => CountersOK /\ RapidOK
  BY SupervisorAssumption
  DEF Init, CountersOK, RapidOK, SupervisorAssumption, RapidCap, Actors, Running, SupBusy
<1>3. Init => StatusOK
  BY SupervisorAssumption
  DEF Init, StatusOK, Actors, Generations, LinkStatus, SupIdle, CallerPC, Lifecycle!ClientState
<1> QED
  BY <1>1, <1>2, <1>3 DEF TypeInv, TypeOK

\* Type correctness is inductive together with RapidOK.
LEMMA TypeNext == TypeInv /\ [Next]_vars => TypeInv'
BY FlagsNext, CountersNext, StatusNext DEF TypeInv, TypeOK

\* Every variable of the client keeps its range, for all values of the constants.
THEOREM TypeCorrect == Spec => []TypeOK
<1>1. TypeInv => TypeOK
  BY DEF TypeInv
<1> QED
  BY <1>1, TypeInit, TypeNext, PTL DEF Spec

---------------------------------------------------------------------------------
\* Where the supervisor has no connection.
Disconnected == {"start", "connecting", "backoff", "cleanup", "closing", "on_disconnect"}

\* The supervisor: it has no connection where it cannot have one, the state tells that it
\* is alive, and it is cancelled before its first step only by a shutdown.
LoopInv ==
  /\ pc[Sup] \in Disconnected => connection = 0
  /\ Supervised
  /\ pc[Sup] = "start" => /\ initFut = "pending" /\ pc[Main] = "entering"
                          /\ supCancel => state = "SHUTTING_DOWN"
\* Every shutdown: the state stays SHUTTING_DOWN or CLOSED while one is under way, none
\* cleans up beside a live supervisor, and before the first session there is nothing.
CallerInv ==
  /\ \A c \in Callers : pc[c] \in InShutdown => state \in {"SHUTTING_DOWN", "CLOSED"}
  /\ \A c \in Callers : pc[c] \in {"cleanup", "closing"} => ~Running(Sup)
  /\ sessions = 0 => /\ state = "CLOSED" /\ topics = 0 /\ connection = 0
                     /\ pc[Sup] = "none" /\ \A c \in Callers : pc[c] = "idle"
\* Main's own shutdown joins a supervisor that cannot end in an error (its connect is
\* cancelled first), and leaves neither topics nor a connection behind.
MainInv ==
  /\ pc[Main] \in {"unsubscribing", "join_supervisor"} => shutdownEvent
  /\ pc[Main] = "join_supervisor" =>
       /\ pc[Sup] # "error"
       /\ pc[Sup] \in {"start", "connecting", "backoff"} => supCancel
  /\ pc[Main] \in {"join_supervisor", "cleanup", "closing", "idle"} => topics = 0
  /\ pc[Main] \in {"cleanup", "closing", "idle"} => connection = 0
  /\ pc[Main] = "idle" => state = "CLOSED"
\* Nothing that runs is forgotten.
OwnInv == SocketOwned /\ TasksOwned /\ ConnectedSignal

IInv == TypeInv /\ LoopInv /\ CallerInv /\ MainInv /\ OwnInv

\* The supervisor's part survives every action.
LEMMA LoopNext == IInv /\ [Next]_vars => LoopInv'
<1> SUFFICES ASSUME IInv, [Next]_vars PROVE LoopInv'
  OBVIOUS
<1> USE SupervisorAssumption, OneSupervisor DEF IInv, TypeInv, TypeOK, StatusOK,
    CountersOK, LoopInv, CallerInv, MainInv, Supervised, Disconnected, Actors,
    Generations, SupBusy, SupIdle, CallerPC, InShutdown, Running, Lifecycle!ClientState,
    RetryState, Lifecycle!MayTransition, Lifecycle!AllowedTransitions,
    SupervisorAssumption, OneSupervisor
<1>1. CASE SupervisorStarts
  BY <1>1 DEF SupervisorStarts
<1>2. CASE ConnectFails
  BY <1>2 DEF ConnectFails
<1>3. CASE ConnectSucceeds
  BY <1>3 DEF ConnectSucceeds
<1>4. CASE BackoffEnds
  BY <1>4 DEF BackoffEnds
<1>5. CASE DrainEnds
  BY <1>5 DEF DrainEnds
<1>6. CASE DrainRaises
  BY <1>6 DEF DrainRaises
<1>7. CASE DrainCancelled
  BY <1>7 DEF DrainCancelled
<1>8. CASE ProcessorReaped
  BY <1>8 DEF ProcessorReaped
<1>9. CASE JoinEnds
  BY <1>9 DEF JoinEnds
<1>10. CASE JoinRefused
  BY <1>10 DEF JoinRefused
<1>11. CASE TopicUnregistered
  BY <1>11 DEF TopicUnregistered
<1>12. CASE OnReconnectReturns
  BY <1>12 DEF OnReconnectReturns
<1>13. CASE ConnectionLost
  BY <1>13 DEF ConnectionLost
<1>14. CASE AfterDisconnect
  BY <1>14 DEF AfterDisconnect
<1>15. CASE SupervisorCancelled
  BY <1>15 DEF SupervisorCancelled
<1>16. CASE EnterReturns
  BY <1>16 DEF EnterReturns
<1>17. CASE EnterFails
  BY <1>17 DEF EnterFails
<1>18. CASE SignalHandled
  BY <1>18 DEF SignalHandled
<1>19. CASE Enter
  BY <1>19 DEF Enter
<1>20. CASE Exit
  BY <1>20 DEF Exit
<1>21. CASE RunForever
  BY <1>21 DEF RunForever
<1>22. CASE RunForeverEnds
  BY <1>22 DEF RunForeverEnds
<1>23. CASE Signal
  BY <1>23 DEF Signal
<1>24. CASE TopicRegistered
  BY <1>24 DEF TopicRegistered
<1>25. CASE TopicRemoved
  BY <1>25 DEF TopicRemoved
<1>26. CASE RoutingFails
  BY <1>26 DEF RoutingFails
<1>27. CASE RoutingEnds
  BY <1>27 DEF RoutingEnds
<1>28. CASE HeartbeatEnds
  BY <1>28 DEF HeartbeatEnds
<1>29. ASSUME NEW c \in Callers, CallShutdown(c) PROVE LoopInv'
  BY <1>29 DEF CallShutdown
<1>30. ASSUME NEW c \in Callers, CloseConnection(c) PROVE LoopInv'
  BY <1>30 DEF CloseConnection
<1>31. ASSUME NEW g \in Generations, PeerCloses(g) PROVE LoopInv'
  BY <1>31 DEF PeerCloses
<1>32. ASSUME NEW a \in Actors, TasksCleanedUp(a) PROVE LoopInv'
  BY <1>32 DEF TasksCleanedUp
<1>33. ASSUME NEW a \in Actors, SocketClosed(a) PROVE LoopInv'
  BY <1>33 DEF SocketClosed
<1>34. ASSUME NEW c \in Callers, TopicsUnsubscribed(c) PROVE LoopInv'
  BY <1>34 DEF TopicsUnsubscribed
<1>35. ASSUME NEW c \in Callers, SupervisorJoined(c) PROVE LoopInv'
  BY <1>35 DEF SupervisorJoined
<1>36. CASE UNCHANGED vars
  BY <1>36
<1>37. QED
  BY <1>1, <1>2, <1>3, <1>4, <1>5, <1>6, <1>7, <1>8, <1>9, <1>10, <1>11, <1>12, <1>13,
     <1>14, <1>15, <1>16, <1>17, <1>18, <1>19, <1>20, <1>21, <1>22, <1>23, <1>24, <1>25,
     <1>26, <1>27, <1>28, <1>29, <1>30, <1>31, <1>32, <1>33, <1>34, <1>35, <1>36
  DEF Next, SupervisorStep, Rejoining, MainStep, Application, Peer, CleanupStep, ShutdownStep

\* The part of the shutdowns does.
LEMMA CallerNext == IInv /\ [Next]_vars => CallerInv'
<1> SUFFICES ASSUME IInv, [Next]_vars PROVE CallerInv'
  OBVIOUS
<1> USE SupervisorAssumption, OneSupervisor DEF IInv, TypeInv, TypeOK, StatusOK,
    CountersOK, LoopInv, CallerInv, MainInv, Supervised, Disconnected, Actors,
    Generations, SupBusy, SupIdle, CallerPC, InShutdown, Running, Lifecycle!ClientState,
    RetryState, Lifecycle!MayTransition, Lifecycle!AllowedTransitions,
    SupervisorAssumption, OneSupervisor
<1>1. CASE SupervisorStarts
  BY <1>1 DEF SupervisorStarts
<1>2. CASE ConnectFails
  BY <1>2 DEF ConnectFails
<1>3. CASE ConnectSucceeds
  BY <1>3 DEF ConnectSucceeds
<1>4. CASE BackoffEnds
  BY <1>4 DEF BackoffEnds
<1>5. CASE DrainEnds
  BY <1>5 DEF DrainEnds
<1>6. CASE DrainRaises
  BY <1>6 DEF DrainRaises
<1>7. CASE DrainCancelled
  BY <1>7 DEF DrainCancelled
<1>8. CASE ProcessorReaped
  BY <1>8 DEF ProcessorReaped
<1>9. CASE JoinEnds
  BY <1>9 DEF JoinEnds
<1>10. CASE JoinRefused
  BY <1>10 DEF JoinRefused
<1>11. CASE TopicUnregistered
  BY <1>11 DEF TopicUnregistered
<1>12. CASE OnReconnectReturns
  BY <1>12 DEF OnReconnectReturns
<1>13. CASE ConnectionLost
  BY <1>13 DEF ConnectionLost
<1>14. CASE AfterDisconnect
  BY <1>14 DEF AfterDisconnect
<1>15. CASE SupervisorCancelled
  BY <1>15 DEF SupervisorCancelled
<1>16. CASE EnterReturns
  BY <1>16 DEF EnterReturns
<1>17. CASE EnterFails
  BY <1>17 DEF EnterFails
<1>18. CASE SignalHandled
  BY <1>18 DEF SignalHandled
<1>19. CASE Enter
  BY <1>19, SMTT(30) DEF Enter
<1>20. CASE Exit
  BY <1>20 DEF Exit
<1>21. CASE RunForever
  BY <1>21 DEF RunForever
<1>22. CASE RunForeverEnds
  BY <1>22 DEF RunForeverEnds
<1>23. CASE Signal
  BY <1>23 DEF Signal
<1>24. CASE TopicRegistered
  BY <1>24 DEF TopicRegistered
<1>25. CASE TopicRemoved
  BY <1>25 DEF TopicRemoved
<1>26. CASE RoutingFails
  BY <1>26 DEF RoutingFails
<1>27. CASE RoutingEnds
  BY <1>27 DEF RoutingEnds
<1>28. CASE HeartbeatEnds
  BY <1>28 DEF HeartbeatEnds
<1>29. ASSUME NEW c \in Callers, CallShutdown(c) PROVE CallerInv'
  BY <1>29 DEF CallShutdown
<1>30. ASSUME NEW c \in Callers, CloseConnection(c) PROVE CallerInv'
  BY <1>30 DEF CloseConnection
<1>31. ASSUME NEW g \in Generations, PeerCloses(g) PROVE CallerInv'
  BY <1>31 DEF PeerCloses
<1>32. ASSUME NEW a \in Actors, TasksCleanedUp(a) PROVE CallerInv'
  BY <1>32 DEF TasksCleanedUp
<1>33. ASSUME NEW a \in Actors, SocketClosed(a) PROVE CallerInv'
  BY <1>33 DEF SocketClosed
<1>34. ASSUME NEW c \in Callers, TopicsUnsubscribed(c) PROVE CallerInv'
  BY <1>34 DEF TopicsUnsubscribed
<1>35. ASSUME NEW c \in Callers, SupervisorJoined(c) PROVE CallerInv'
  BY <1>35 DEF SupervisorJoined
<1>36. CASE UNCHANGED vars
  BY <1>36
<1>37. QED
  BY <1>1, <1>2, <1>3, <1>4, <1>5, <1>6, <1>7, <1>8, <1>9, <1>10, <1>11, <1>12, <1>13,
     <1>14, <1>15, <1>16, <1>17, <1>18, <1>19, <1>20, <1>21, <1>22, <1>23, <1>24, <1>25,
     <1>26, <1>27, <1>28, <1>29, <1>30, <1>31, <1>32, <1>33, <1>34, <1>35, <1>36
  DEF Next, SupervisorStep, Rejoining, MainStep, Application, Peer, CleanupStep, ShutdownStep

\* Main's part does.
LEMMA MainNext == IInv /\ [Next]_vars => MainInv'
<1> SUFFICES ASSUME IInv, [Next]_vars PROVE MainInv'
  OBVIOUS
<1> USE SupervisorAssumption, OneSupervisor DEF IInv, TypeInv, TypeOK, StatusOK,
    CountersOK, LoopInv, CallerInv, MainInv, Supervised, Disconnected, Actors,
    Generations, SupBusy, SupIdle, CallerPC, InShutdown, Running, Lifecycle!ClientState,
    RetryState, Lifecycle!MayTransition, Lifecycle!AllowedTransitions,
    SupervisorAssumption, OneSupervisor
<1>1. CASE SupervisorStarts
  BY <1>1 DEF SupervisorStarts
<1>2. CASE ConnectFails
  BY <1>2 DEF ConnectFails
<1>3. CASE ConnectSucceeds
  BY <1>3 DEF ConnectSucceeds
<1>4. CASE BackoffEnds
  BY <1>4 DEF BackoffEnds
<1>5. CASE DrainEnds
  BY <1>5 DEF DrainEnds
<1>6. CASE DrainRaises
  BY <1>6 DEF DrainRaises
<1>7. CASE DrainCancelled
  BY <1>7 DEF DrainCancelled
<1>8. CASE ProcessorReaped
  BY <1>8 DEF ProcessorReaped
<1>9. CASE JoinEnds
  BY <1>9 DEF JoinEnds
<1>10. CASE JoinRefused
  BY <1>10 DEF JoinRefused
<1>11. CASE TopicUnregistered
  BY <1>11 DEF TopicUnregistered
<1>12. CASE OnReconnectReturns
  BY <1>12 DEF OnReconnectReturns
<1>13. CASE ConnectionLost
  BY <1>13 DEF ConnectionLost
<1>14. CASE AfterDisconnect
  BY <1>14 DEF AfterDisconnect
<1>15. CASE SupervisorCancelled
  BY <1>15 DEF SupervisorCancelled
<1>16. CASE EnterReturns
  BY <1>16 DEF EnterReturns
<1>17. CASE EnterFails
  BY <1>17 DEF EnterFails
<1>18. CASE SignalHandled
  BY <1>18 DEF SignalHandled
<1>19. CASE Enter
  BY <1>19 DEF Enter
<1>20. CASE Exit
  BY <1>20 DEF Exit
<1>21. CASE RunForever
  BY <1>21 DEF RunForever
<1>22. CASE RunForeverEnds
  BY <1>22 DEF RunForeverEnds
<1>23. CASE Signal
  BY <1>23 DEF Signal
<1>24. CASE TopicRegistered
  BY <1>24 DEF TopicRegistered
<1>25. CASE TopicRemoved
  BY <1>25 DEF TopicRemoved
<1>26. CASE RoutingFails
  BY <1>26 DEF RoutingFails
<1>27. CASE RoutingEnds
  BY <1>27 DEF RoutingEnds
<1>28. CASE HeartbeatEnds
  BY <1>28 DEF HeartbeatEnds
<1>29. ASSUME NEW c \in Callers, CallShutdown(c) PROVE MainInv'
  BY <1>29 DEF CallShutdown
<1>30. ASSUME NEW c \in Callers, CloseConnection(c) PROVE MainInv'
  BY <1>30 DEF CloseConnection
<1>31. ASSUME NEW g \in Generations, PeerCloses(g) PROVE MainInv'
  BY <1>31 DEF PeerCloses
<1>32. ASSUME NEW a \in Actors, TasksCleanedUp(a) PROVE MainInv'
  BY <1>32 DEF TasksCleanedUp
<1>33. ASSUME NEW a \in Actors, SocketClosed(a) PROVE MainInv'
  BY <1>33 DEF SocketClosed
<1>34. ASSUME NEW c \in Callers, TopicsUnsubscribed(c) PROVE MainInv'
  BY <1>34 DEF TopicsUnsubscribed
<1>35. ASSUME NEW c \in Callers, SupervisorJoined(c) PROVE MainInv'
  BY <1>35 DEF SupervisorJoined
<1>36. CASE UNCHANGED vars
  BY <1>36
<1>37. QED
  BY <1>1, <1>2, <1>3, <1>4, <1>5, <1>6, <1>7, <1>8, <1>9, <1>10, <1>11, <1>12, <1>13,
     <1>14, <1>15, <1>16, <1>17, <1>18, <1>19, <1>20, <1>21, <1>22, <1>23, <1>24, <1>25,
     <1>26, <1>27, <1>28, <1>29, <1>30, <1>31, <1>32, <1>33, <1>34, <1>35, <1>36
  DEF Next, SupervisorStep, Rejoining, MainStep, Application, Peer, CleanupStep, ShutdownStep

\* No action orphans a socket or a task.
LEMMA OwnNext == IInv /\ [Next]_vars => OwnInv'
<1> SUFFICES ASSUME IInv, [Next]_vars PROVE OwnInv'
  OBVIOUS
<1> USE DEF OwnInv, SocketOwned, TasksOwned, ConnectedSignal
<1> USE SupervisorAssumption, OneSupervisor DEF IInv, TypeInv, TypeOK, StatusOK,
    CountersOK, LoopInv, CallerInv, MainInv, Supervised, Disconnected, Actors,
    Generations, SupBusy, SupIdle, CallerPC, InShutdown, Running, Lifecycle!ClientState,
    RetryState, Lifecycle!MayTransition, Lifecycle!AllowedTransitions,
    SupervisorAssumption, OneSupervisor
<1>1. CASE SupervisorStarts
  BY <1>1 DEF SupervisorStarts
<1>2. CASE ConnectFails
  BY <1>2 DEF ConnectFails
<1>3. CASE ConnectSucceeds
  <2>1. SocketOwned'
    BY <1>3, SMTT(30) DEF ConnectSucceeds
  <2>2. TasksOwned'
    BY <1>3 DEF ConnectSucceeds
  <2>3. ConnectedSignal'
    BY <1>3, SMTT(30) DEF ConnectSucceeds
  <2> QED  BY <2>1, <2>2, <2>3
<1>4. CASE BackoffEnds
  BY <1>4 DEF BackoffEnds
<1>5. CASE DrainEnds
  BY <1>5 DEF DrainEnds
<1>6. CASE DrainRaises
  BY <1>6 DEF DrainRaises
<1>7. CASE DrainCancelled
  BY <1>7 DEF DrainCancelled
<1>8. CASE ProcessorReaped
  BY <1>8 DEF ProcessorReaped
<1>9. CASE JoinEnds
  BY <1>9 DEF JoinEnds
<1>10. CASE JoinRefused
  BY <1>10 DEF JoinRefused
<1>11. CASE TopicUnregistered
  BY <1>11 DEF TopicUnregistered
<1>12. CASE OnReconnectReturns
  BY <1>12 DEF OnReconnectReturns
<1>13. CASE ConnectionLost
  BY <1>13 DEF ConnectionLost
<1>14. CASE AfterDisconnect
  BY <1>14 DEF AfterDisconnect
<1>15. CASE SupervisorCancelled
  BY <1>15 DEF SupervisorCancelled
<1>16. CASE EnterReturns
  BY <1>16 DEF EnterReturns
<1>17. CASE EnterFails
  BY <1>17, SMTT(30) DEF EnterFails
<1>18. CASE SignalHandled
  BY <1>18, SMTT(30) DEF SignalHandled
<1>19. CASE Enter
  BY <1>19 DEF Enter
<1>20. CASE Exit
  BY <1>20, SMTT(30) DEF Exit
<1>21. CASE RunForever
  BY <1>21 DEF RunForever
<1>22. CASE RunForeverEnds
  BY <1>22 DEF RunForeverEnds
<1>23. CASE Signal
  BY <1>23 DEF Signal
<1>24. CASE TopicRegistered
  BY <1>24 DEF TopicRegistered
<1>25. CASE TopicRemoved
  BY <1>25 DEF TopicRemoved
<1>26. CASE RoutingFails
  BY <1>26 DEF RoutingFails
<1>27. CASE RoutingEnds
  BY <1>27 DEF RoutingEnds
<1>28. CASE HeartbeatEnds
  BY <1>28 DEF HeartbeatEnds
<1>29. ASSUME NEW c \in Callers, CallShutdown(c) PROVE OwnInv'
  BY <1>29, SMTT(30) DEF CallShutdown
<1>30. ASSUME NEW c \in Callers, CloseConnection(c) PROVE OwnInv'
  BY <1>30 DEF CloseConnection
<1>31. ASSUME NEW g \in Generations, PeerCloses(g) PROVE OwnInv'
  BY <1>31 DEF PeerCloses
<1>32. ASSUME NEW a \in Actors, TasksCleanedUp(a) PROVE OwnInv'
  <2>1. SocketOwned'
    BY <1>32 DEF TasksCleanedUp
  <2>2. TasksOwned'
    BY <1>32 DEF TasksCleanedUp
  <2>3. ConnectedSignal'
    BY <1>32 DEF TasksCleanedUp
  <2> QED  BY <2>1, <2>2, <2>3
<1>33. ASSUME NEW a \in Actors, SocketClosed(a) PROVE OwnInv'
  <2>1. SocketOwned'
    <3>1. pc[a] = "closing" /\ UNCHANGED connection
      BY <1>33 DEF SocketClosed
    <3>2. \A g \in Generations : link'[g] = "up" => link[g] = "up"
      BY <1>33 DEF SocketClosed
    <3>3. ASSUME NEW b \in Actors, pc[b] = "cleanup"
          PROVE  pc'[b] = pc[b] /\ held'[b] = held[b]
      <4>1. b # a
        BY <3>1, <3>3
      <4>2. held'[b] = held[b]
        BY <4>1, <1>33 DEF SocketClosed
      <4>3. pc'[b] = pc[b]
        BY <4>1, <1>33 DEF SocketClosed
      <4> QED  BY <4>2, <4>3
    <3> QED  BY <3>1, <3>2, <3>3 DEF SocketOwned
  <2>2. TasksOwned'
    BY <1>33 DEF SocketClosed
  <2>3. ConnectedSignal'
    BY <1>33 DEF SocketClosed
  <2> QED  BY <2>1, <2>2, <2>3
<1>34. ASSUME NEW c \in Callers, TopicsUnsubscribed(c) PROVE OwnInv'
  <2>1. SocketOwned'
    BY <1>34, SMTT(60) DEF TopicsUnsubscribed
  <2>2. TasksOwned'
    BY <1>34 DEF TopicsUnsubscribed
  <2>3. ConnectedSignal'
    BY <1>34 DEF TopicsUnsubscribed
  <2> QED  BY <2>1, <2>2, <2>3
<1>35. ASSUME NEW c \in Callers, SupervisorJoined(c) PROVE OwnInv'
  <2>1. SocketOwned'
    BY <1>35 DEF SupervisorJoined
  <2>2. TasksOwned'
    BY <1>35 DEF SupervisorJoined
  <2>3. ConnectedSignal'
    BY <1>35 DEF SupervisorJoined
  <2> QED  BY <2>1, <2>2, <2>3
<1>36. CASE UNCHANGED vars
  BY <1>36
<1>37. QED
  BY <1>1, <1>2, <1>3, <1>4, <1>5, <1>6, <1>7, <1>8, <1>9, <1>10, <1>11, <1>12, <1>13,
     <1>14, <1>15, <1>16, <1>17, <1>18, <1>19, <1>20, <1>21, <1>22, <1>23, <1>24, <1>25,
     <1>26, <1>27, <1>28, <1>29, <1>30, <1>31, <1>32, <1>33, <1>34, <1>35, <1>36
  DEF Next, SupervisorStep, Rejoining, MainStep, Application, Peer, CleanupStep, ShutdownStep

\* IInv is an invariant of every client.
THEOREM Invariant == Spec => []IInv
<1>1. Init => IInv
  <2> SUFFICES ASSUME Init PROVE IInv
    OBVIOUS
  <2>1. LoopInv /\ CallerInv /\ MainInv
    BY SupervisorAssumption DEF Init, LoopInv, CallerInv, MainInv, Supervised, Running, SupBusy,
      Actors, InShutdown, SupervisorAssumption
  <2>2. OwnInv
    BY DEF Init, OwnInv, SocketOwned, TasksOwned, ConnectedSignal
  <2> QED
    BY <2>1, <2>2, TypeInit DEF IInv
<1>2. IInv /\ [Next]_vars => IInv'
  BY TypeNext, LoopNext, CallerNext, MainNext, OwnNext DEF IInv
<1> QED
  BY <1>1, <1>2, PTL DEF Spec

---------------------------------------------------------------------------------
\* While __aenter__ of a lone user waits, the supervisor is on its way to a first
\* connection and nobody has cancelled it.
EnterInv ==
  Callers = {Main} /\ initFut = "pending" =>
    /\ pc[Sup] \in {"start", "connecting", "backoff"} /\ ~supCancel
    /\ pc[Main] = "entering" /\ topics = 0 /\ state \in {"CONNECTING", "RECONNECTING"}

\* In a single session _forced_close_pending is only ever set for the current connection,
\* and consumed with it.
ForceInv ==
  /\ Running(Sup) /\ pc[Sup] \notin Disconnected => connection = gen /\ gen # 0
  /\ MaxSessions <= 1 =>
       /\ sessions = 0 => ~forced
       /\ Running(Sup) /\ pc[Sup] \in Disconnected => ~forced
       /\ forced /\ connection # 0 => connection \in forcedFor
       /\ pc[Sup] \in {"cleanup", "closing", "on_disconnect"} /\ wasForced => gen \in forcedFor
       /\ pc[Sup] = "start" => closeCode = "none"
       /\ FinalCloseStops

\* In a single session every connection but the current one was reported lost.
NotifyInv ==
  MaxSessions <= 1 =>
    /\ sessions = 0 => gen = 0
    /\ pc[Sup] \in {"start", "connecting", "backoff", "on_disconnect"} => notified = gen
    /\ Running(Sup) /\ pc[Sup] \notin {"start", "connecting", "backoff", "on_disconnect"} =>
         notified = gen - 1

\* Every action preserves EnterInv: the first rejoin has no topics to wait for.
LEMMA EnterNext == IInv /\ EnterInv /\ [Next]_vars => EnterInv'
<1> SUFFICES ASSUME IInv, EnterInv, [Next]_vars PROVE EnterInv'
  OBVIOUS
<1> USE SupervisorAssumption, OneSupervisor DEF EnterInv, IInv, TypeInv, TypeOK,
    StatusOK, CountersOK, LoopInv, CallerInv, MainInv, Supervised, Disconnected, Actors,
    Generations, SupBusy, SupIdle, CallerPC, InShutdown, Running, Lifecycle!ClientState,
    RetryState, SupervisorAssumption, OneSupervisor
<1>1. CASE SupervisorStarts
  BY <1>1 DEF SupervisorStarts
<1>2. CASE ConnectFails
  BY <1>2 DEF ConnectFails
<1>3. CASE ConnectSucceeds
  <2> SUFFICES ASSUME Callers = {Main}, initFut = "pending" PROVE initFut' = "ok"
    BY <1>3 DEF ConnectSucceeds
  <2>1. Lifecycle!MayTransition(state, "CONNECTED")
    BY DEF Lifecycle!MayTransition, Lifecycle!AllowedTransitions
  <2>2. Rejoin(0, gen + 1)
    BY <1>3, <2>1 DEF ConnectSucceeds
  <2> QED  BY <2>2
<1>4. CASE BackoffEnds
  BY <1>4 DEF BackoffEnds
<1>5. CASE DrainEnds
  BY <1>5 DEF DrainEnds
<1>6. CASE DrainRaises
  BY <1>6 DEF DrainRaises
<1>7. CASE DrainCancelled
  BY <1>7 DEF DrainCancelled
<1>8. CASE ProcessorReaped
  BY <1>8 DEF ProcessorReaped
<1>9. CASE JoinEnds
  BY <1>9 DEF JoinEnds
<1>10. CASE JoinRefused
  BY <1>10 DEF JoinRefused
<1>11. CASE TopicUnregistered
  BY <1>11 DEF TopicUnregistered
<1>12. CASE OnReconnectReturns
  BY <1>12 DEF OnReconnectReturns
<1>13. CASE ConnectionLost
  BY <1>13 DEF ConnectionLost
<1>14. CASE AfterDisconnect
  BY <1>14 DEF AfterDisconnect
<1>15. CASE SupervisorCancelled
  BY <1>15 DEF SupervisorCancelled
<1>16. CASE EnterReturns
  BY <1>16 DEF EnterReturns
<1>17. CASE EnterFails
  BY <1>17 DEF EnterFails
<1>18. CASE SignalHandled
  BY <1>18 DEF SignalHandled
<1>19. CASE Enter
  BY <1>19 DEF Enter
<1>20. CASE Exit
  BY <1>20 DEF Exit
<1>21. CASE RunForever
  BY <1>21 DEF RunForever
<1>22. CASE RunForeverEnds
  BY <1>22 DEF RunForeverEnds
<1>23. CASE Signal
  BY <1>23 DEF Signal
<1>24. CASE TopicRegistered
  BY <1>24 DEF TopicRegistered
<1>25. CASE TopicRemoved
  BY <1>25 DEF TopicRemoved
<1>26. CASE RoutingFails
  BY <1>26 DEF RoutingFails
<1>27. CASE RoutingEnds
  BY <1>27 DEF RoutingEnds
<1>28. CASE HeartbeatEnds
  BY <1>28 DEF HeartbeatEnds
<1>29. ASSUME NEW c \in Callers, CallShutdown(c) PROVE EnterInv'
  BY <1>29 DEF CallShutdown
<1>30. ASSUME NEW c \in Callers, CloseConnection(c) PROVE EnterInv'
  BY <1>30 DEF CloseConnection
<1>31. ASSUME NEW g \in Generations, PeerCloses(g) PROVE EnterInv'
  BY <1>31 DEF PeerCloses
<1>32. ASSUME NEW a \in Actors, TasksCleanedUp(a) PROVE EnterInv'
  BY <1>32 DEF TasksCleanedUp
<1>33. ASSUME NEW a \in Actors, SocketClosed(a) PROVE EnterInv'
  BY <1>33 DEF SocketClosed
<1>34. ASSUME NEW c \in Callers, TopicsUnsubscribed(c) PROVE EnterInv'
  BY <1>34 DEF TopicsUnsubscribed
<1>35. ASSUME NEW c \in Callers, SupervisorJoined(c) PROVE EnterInv'
  BY <1>35 DEF SupervisorJoined
<1>36. CASE UNCHANGED vars
  BY <1>36
<1>37. QED
  BY <1>1, <1>2, <1>3, <1>4, <1>5, <1>6, <1>7, <1>8, <1>9, <1>10, <1>11, <1>12, <1>13,
     <1>14, <1>15, <1>16, <1>17, <1>18, <1>19, <1>20, <1>21, <1>22, <1>23, <1>24, <1>25,
     <1>26, <1>27, <1>28, <1>29, <1>30, <1>31, <1>32, <1>33, <1>34, <1>35, <1>36
  DEF Next, SupervisorStep, Rejoining, MainStep, Application, Peer, CleanupStep, ShutdownStep

\* Every action preserves ForceInv.
LEMMA ForceNext == IInv /\ ForceInv /\ [Next]_vars => ForceInv'
<1> SUFFICES ASSUME IInv, ForceInv, [Next]_vars PROVE ForceInv'
  OBVIOUS
<1> USE SupervisorAssumption, OneSupervisor DEF ForceInv, FinalCloseStops, Classify,
    IInv, TypeInv, TypeOK, StatusOK, CountersOK, LoopInv, CallerInv, MainInv,
    Supervised, Disconnected, Actors, Generations, SupBusy, SupIdle, CallerPC,
    InShutdown, Running, Lifecycle!ClientState, RetryState, SupervisorAssumption,
    OneSupervisor
<1>1. CASE SupervisorStarts
  BY <1>1 DEF SupervisorStarts
<1>2. CASE ConnectFails
  BY <1>2 DEF ConnectFails
<1>3. CASE ConnectSucceeds
  BY <1>3 DEF ConnectSucceeds
<1>4. CASE BackoffEnds
  BY <1>4 DEF BackoffEnds
<1>5. CASE DrainEnds
  BY <1>5 DEF DrainEnds
<1>6. CASE DrainRaises
  BY <1>6 DEF DrainRaises
<1>7. CASE DrainCancelled
  BY <1>7 DEF DrainCancelled
<1>8. CASE ProcessorReaped
  BY <1>8 DEF ProcessorReaped
<1>9. CASE JoinEnds
  BY <1>9 DEF JoinEnds
<1>10. CASE JoinRefused
  BY <1>10 DEF JoinRefused
<1>11. CASE TopicUnregistered
  BY <1>11 DEF TopicUnregistered
<1>12. CASE OnReconnectReturns
  BY <1>12 DEF OnReconnectReturns
<1>13. CASE ConnectionLost
  <2>1. /\ connection = gen /\ forced' = FALSE /\ wasForced' = forced
        /\ UNCHANGED <<gen, forcedFor, sessions>>
    BY <1>13 DEF ConnectionLost
  <2>2. pc'[Sup] \in {"cleanup", "closing", "on_disconnect"}
    BY <1>13 DEF ConnectionLost
  <2>3. gen # 0 => (MaxSessions <= 1 /\ wasForced' => gen \in forcedFor)
    BY <2>1
  <2>4. gen # 0
    BY <1>13 DEF ConnectionLost
  <2> QED  BY <2>1, <2>2, <2>3, <2>4
<1>14. CASE AfterDisconnect
  BY <1>14 DEF AfterDisconnect
<1>15. CASE SupervisorCancelled
  BY <1>15 DEF SupervisorCancelled
<1>16. CASE EnterReturns
  BY <1>16 DEF EnterReturns
<1>17. CASE EnterFails
  BY <1>17 DEF EnterFails
<1>18. CASE SignalHandled
  BY <1>18 DEF SignalHandled
<1>19. CASE Enter
  BY <1>19 DEF Enter
<1>20. CASE Exit
  BY <1>20 DEF Exit
<1>21. CASE RunForever
  BY <1>21 DEF RunForever
<1>22. CASE RunForeverEnds
  BY <1>22 DEF RunForeverEnds
<1>23. CASE Signal
  BY <1>23 DEF Signal
<1>24. CASE TopicRegistered
  BY <1>24 DEF TopicRegistered
<1>25. CASE TopicRemoved
  BY <1>25 DEF TopicRemoved
<1>26. CASE RoutingFails
  BY <1>26 DEF RoutingFails
<1>27. CASE RoutingEnds
  BY <1>27 DEF RoutingEnds
<1>28. CASE HeartbeatEnds
  BY <1>28 DEF HeartbeatEnds
<1>29. ASSUME NEW c \in Callers, CallShutdown(c) PROVE ForceInv'
  BY <1>29 DEF CallShutdown
<1>30. ASSUME NEW c \in Callers, CloseConnection(c) PROVE ForceInv'
  BY <1>30 DEF CloseConnection
<1>31. ASSUME NEW g \in Generations, PeerCloses(g) PROVE ForceInv'
  BY <1>31 DEF PeerCloses
<1>32. ASSUME NEW a \in Actors, TasksCleanedUp(a) PROVE ForceInv'
  BY <1>32 DEF TasksCleanedUp
<1>33. ASSUME NEW a \in Actors, SocketClosed(a) PROVE ForceInv'
  BY <1>33 DEF SocketClosed
<1>34. ASSUME NEW c \in Callers, TopicsUnsubscribed(c) PROVE ForceInv'
  BY <1>34 DEF TopicsUnsubscribed
<1>35. ASSUME NEW c \in Callers, SupervisorJoined(c) PROVE ForceInv'
  BY <1>35 DEF SupervisorJoined
<1>36. CASE UNCHANGED vars
  BY <1>36
<1>37. QED
  BY <1>1, <1>2, <1>3, <1>4, <1>5, <1>6, <1>7, <1>8, <1>9, <1>10, <1>11, <1>12, <1>13,
     <1>14, <1>15, <1>16, <1>17, <1>18, <1>19, <1>20, <1>21, <1>22, <1>23, <1>24, <1>25,
     <1>26, <1>27, <1>28, <1>29, <1>30, <1>31, <1>32, <1>33, <1>34, <1>35, <1>36
  DEF Next, SupervisorStep, Rejoining, MainStep, Application, Peer, CleanupStep, ShutdownStep

\* In a single session a close handshake is abandoned only with the supervisor.
ClosingInv == MaxSessions <= 1 => ClosingAwaited

\* Only the supervisor records a terminal error, in a step that ends it, and a session
\* that starts the next one has reset it.
LEMMA TerminalNext == IInv /\ TerminalErrorIsFinal /\ [Next]_vars => TerminalErrorIsFinal'
<1> SUFFICES ASSUME IInv, TerminalErrorIsFinal, [Next]_vars PROVE TerminalErrorIsFinal'
  OBVIOUS
<1> USE SupervisorAssumption, OneSupervisor DEF TerminalErrorIsFinal, Classify,
    IInv, TypeInv, TypeOK, StatusOK, CountersOK, LoopInv, CallerInv, MainInv,
    Supervised, Disconnected, Actors, Generations, SupBusy, SupIdle, CallerPC,
    InShutdown, Running, Lifecycle!ClientState, RetryState, SupervisorAssumption,
    OneSupervisor
<1>1. CASE SupervisorStarts
  BY <1>1 DEF SupervisorStarts
<1>2. CASE ConnectFails
  BY <1>2 DEF ConnectFails
<1>3. CASE ConnectSucceeds
  BY <1>3 DEF ConnectSucceeds
<1>4. CASE BackoffEnds
  BY <1>4 DEF BackoffEnds
<1>5. CASE DrainEnds
  BY <1>5 DEF DrainEnds
<1>6. CASE DrainRaises
  BY <1>6 DEF DrainRaises
<1>7. CASE DrainCancelled
  BY <1>7 DEF DrainCancelled
<1>8. CASE ProcessorReaped
  BY <1>8 DEF ProcessorReaped
<1>9. CASE JoinEnds
  BY <1>9 DEF JoinEnds
<1>10. CASE JoinRefused
  BY <1>10 DEF JoinRefused
<1>11. CASE TopicUnregistered
  BY <1>11 DEF TopicUnregistered
<1>12. CASE OnReconnectReturns
  BY <1>12 DEF OnReconnectReturns
<1>13. CASE ConnectionLost
  BY <1>13 DEF ConnectionLost
<1>14. CASE AfterDisconnect
  BY <1>14 DEF AfterDisconnect
<1>15. CASE SupervisorCancelled
  BY <1>15 DEF SupervisorCancelled
<1>16. CASE EnterReturns
  BY <1>16 DEF EnterReturns
<1>17. CASE EnterFails
  BY <1>17 DEF EnterFails
<1>18. CASE SignalHandled
  BY <1>18 DEF SignalHandled
<1>19. CASE Enter
  BY <1>19 DEF Enter
<1>20. CASE Exit
  BY <1>20 DEF Exit
<1>21. CASE RunForever
  BY <1>21 DEF RunForever
<1>22. CASE RunForeverEnds
  BY <1>22 DEF RunForeverEnds
<1>23. CASE Signal
  BY <1>23 DEF Signal
<1>24. CASE TopicRegistered
  BY <1>24 DEF TopicRegistered
<1>25. CASE TopicRemoved
  BY <1>25 DEF TopicRemoved
<1>26. CASE RoutingFails
  BY <1>26 DEF RoutingFails
<1>27. CASE RoutingEnds
  BY <1>27 DEF RoutingEnds
<1>28. CASE HeartbeatEnds
  BY <1>28 DEF HeartbeatEnds
<1>29. ASSUME NEW c \in Callers, CallShutdown(c) PROVE TerminalErrorIsFinal'
  BY <1>29 DEF CallShutdown
<1>30. ASSUME NEW c \in Callers, CloseConnection(c) PROVE TerminalErrorIsFinal'
  BY <1>30 DEF CloseConnection
<1>31. ASSUME NEW g \in Generations, PeerCloses(g) PROVE TerminalErrorIsFinal'
  BY <1>31 DEF PeerCloses
<1>32. ASSUME NEW a \in Actors, TasksCleanedUp(a) PROVE TerminalErrorIsFinal'
  BY <1>32 DEF TasksCleanedUp
<1>33. ASSUME NEW a \in Actors, SocketClosed(a) PROVE TerminalErrorIsFinal'
  BY <1>33 DEF SocketClosed
<1>34. ASSUME NEW c \in Callers, TopicsUnsubscribed(c) PROVE TerminalErrorIsFinal'
  BY <1>34 DEF TopicsUnsubscribed
<1>35. ASSUME NEW c \in Callers, SupervisorJoined(c) PROVE TerminalErrorIsFinal'
  BY <1>35 DEF SupervisorJoined
<1>36. CASE UNCHANGED vars
  BY <1>36
<1>37. QED
  BY <1>1, <1>2, <1>3, <1>4, <1>5, <1>6, <1>7, <1>8, <1>9, <1>10, <1>11, <1>12, <1>13,
     <1>14, <1>15, <1>16, <1>17, <1>18, <1>19, <1>20, <1>21, <1>22, <1>23, <1>24, <1>25,
     <1>26, <1>27, <1>28, <1>29, <1>30, <1>31, <1>32, <1>33, <1>34, <1>35, <1>36
  DEF Next, SupervisorStep, Rejoining, MainStep, Application, Peer, CleanupStep, ShutdownStep

\* Every action preserves NotifyInv.
LEMMA NotifyNext == IInv /\ NotifyInv /\ [Next]_vars => NotifyInv'
<1> SUFFICES ASSUME IInv, NotifyInv, [Next]_vars PROVE NotifyInv'
  OBVIOUS
<1> USE SupervisorAssumption, OneSupervisor DEF NotifyInv, IInv, TypeInv, TypeOK,
    StatusOK, CountersOK, LoopInv, CallerInv, MainInv, Supervised, Disconnected, Actors,
    Generations, SupBusy, SupIdle, CallerPC, InShutdown, Running, Lifecycle!ClientState,
    RetryState, SupervisorAssumption, OneSupervisor
<1>1. CASE SupervisorStarts
  BY <1>1 DEF SupervisorStarts
<1>2. CASE ConnectFails
  BY <1>2 DEF ConnectFails
<1>3. CASE ConnectSucceeds
  BY <1>3 DEF ConnectSucceeds
<1>4. CASE BackoffEnds
  BY <1>4 DEF BackoffEnds
<1>5. CASE DrainEnds
  BY <1>5 DEF DrainEnds
<1>6. CASE DrainRaises
  BY <1>6 DEF DrainRaises
<1>7. CASE DrainCancelled
  BY <1>7 DEF DrainCancelled
<1>8. CASE ProcessorReaped
  BY <1>8 DEF ProcessorReaped
<1>9. CASE JoinEnds
  BY <1>9 DEF JoinEnds
<1>10. CASE JoinRefused
  BY <1>10 DEF JoinRefused
<1>11. CASE TopicUnregistered
  BY <1>11 DEF TopicUnregistered
<1>12. CASE OnReconnectReturns
  BY <1>12 DEF OnReconnectReturns
<1>13. CASE ConnectionLost
  BY <1>13 DEF ConnectionLost
<1>14. CASE AfterDisconnect
  BY <1>14 DEF AfterDisconnect
<1>15. CASE SupervisorCancelled
  BY <1>15 DEF SupervisorCancelled
<1>16. CASE EnterReturns
  BY <1>16 DEF EnterReturns
<1>17. CASE EnterFails
  BY <1>17 DEF EnterFails
<1>18. CASE SignalHandled
  BY <1>18 DEF SignalHandled
<1>19. CASE Enter
  BY <1>19 DEF Enter
<1>20. CASE Exit
  BY <1>20 DEF Exit
<1>21. CASE RunForever
  BY <1>21 DEF RunForever
<1>22. CASE RunForeverEnds
  BY <1>22 DEF RunForeverEnds
<1>23. CASE Signal
  BY <1>23 DEF Signal
<1>24. CASE TopicRegistered
  BY <1>24 DEF TopicRegistered
<1>25. CASE TopicRemoved
  BY <1>25 DEF TopicRemoved
<1>26. CASE RoutingFails
  BY <1>26 DEF RoutingFails
<1>27. CASE RoutingEnds
  BY <1>27 DEF RoutingEnds
<1>28. CASE HeartbeatEnds
  BY <1>28 DEF HeartbeatEnds
<1>29. ASSUME NEW c \in Callers, CallShutdown(c) PROVE NotifyInv'
  BY <1>29 DEF CallShutdown
<1>30. ASSUME NEW c \in Callers, CloseConnection(c) PROVE NotifyInv'
  BY <1>30 DEF CloseConnection
<1>31. ASSUME NEW g \in Generations, PeerCloses(g) PROVE NotifyInv'
  BY <1>31 DEF PeerCloses
<1>32. ASSUME NEW a \in Actors, TasksCleanedUp(a) PROVE NotifyInv'
  BY <1>32 DEF TasksCleanedUp
<1>33. ASSUME NEW a \in Actors, SocketClosed(a) PROVE NotifyInv'
  BY <1>33 DEF SocketClosed
<1>34. ASSUME NEW c \in Callers, TopicsUnsubscribed(c) PROVE NotifyInv'
  BY <1>34 DEF TopicsUnsubscribed
<1>35. ASSUME NEW c \in Callers, SupervisorJoined(c) PROVE NotifyInv'
  BY <1>35 DEF SupervisorJoined
<1>36. CASE UNCHANGED vars
  BY <1>36
<1>37. QED
  BY <1>1, <1>2, <1>3, <1>4, <1>5, <1>6, <1>7, <1>8, <1>9, <1>10, <1>11, <1>12, <1>13,
     <1>14, <1>15, <1>16, <1>17, <1>18, <1>19, <1>20, <1>21, <1>22, <1>23, <1>24, <1>25,
     <1>26, <1>27, <1>28, <1>29, <1>30, <1>31, <1>32, <1>33, <1>34, <1>35, <1>36
  DEF Next, SupervisorStep, Rejoining, MainStep, Application, Peer, CleanupStep, ShutdownStep

\* Every action preserves ClosingInv.
LEMMA ClosingNext == IInv /\ ClosingInv /\ [Next]_vars => ClosingInv'
<1> SUFFICES ASSUME IInv, ClosingInv, [Next]_vars PROVE ClosingInv'
  OBVIOUS
<1> USE SupervisorAssumption, OneSupervisor DEF ClosingInv, ClosingAwaited, IInv, TypeInv, TypeOK,
    StatusOK, CountersOK, LoopInv, CallerInv, MainInv, Supervised, Disconnected, Actors,
    Generations, SupBusy, SupIdle, CallerPC, InShutdown, Running, Lifecycle!ClientState,
    RetryState, SupervisorAssumption, OneSupervisor
<1>1. CASE SupervisorStarts
  BY <1>1 DEF SupervisorStarts
<1>2. CASE ConnectFails
  BY <1>2 DEF ConnectFails
<1>3. CASE ConnectSucceeds
  BY <1>3 DEF ConnectSucceeds
<1>4. CASE BackoffEnds
  BY <1>4 DEF BackoffEnds
<1>5. CASE DrainEnds
  BY <1>5 DEF DrainEnds
<1>6. CASE DrainRaises
  BY <1>6 DEF DrainRaises
<1>7. CASE DrainCancelled
  BY <1>7 DEF DrainCancelled
<1>8. CASE ProcessorReaped
  BY <1>8 DEF ProcessorReaped
<1>9. CASE JoinEnds
  BY <1>9 DEF JoinEnds
<1>10. CASE JoinRefused
  BY <1>10 DEF JoinRefused
<1>11. CASE TopicUnregistered
  BY <1>11 DEF TopicUnregistered
<1>12. CASE OnReconnectReturns
  BY <1>12 DEF OnReconnectReturns
<1>13. CASE ConnectionLost
  BY <1>13 DEF ConnectionLost
<1>14. CASE AfterDisconnect
  BY <1>14 DEF AfterDisconnect
<1>15. CASE SupervisorCancelled
  BY <1>15 DEF SupervisorCancelled
<1>16. CASE EnterReturns
  BY <1>16 DEF EnterReturns
<1>17. CASE EnterFails
  <2>1. pc[Main] # "closing" /\ pc'[Sup] = pc[Sup] /\ Main \in Actors
    BY <1>17 DEF EnterFails
  <2>2. \A g \in Generations :
          link'[g] = "closing" => link[g] = "closing" \/ (held'[Main] = g /\ pc'[Main] = "closing")
    BY <1>17, SMTT(30) DEF EnterFails
  <2>3. \A b \in Actors : b # Main => pc'[b] = pc[b] /\ held'[b] = held[b]
    BY <1>17, SMTT(30) DEF EnterFails
  <2> QED  BY <2>1, <2>2, <2>3 DEF ClosingInv, ClosingAwaited
<1>18. CASE SignalHandled
  BY <1>18 DEF SignalHandled
<1>19. CASE Enter
  BY <1>19 DEF Enter
<1>20. CASE Exit
  BY <1>20 DEF Exit
<1>21. CASE RunForever
  BY <1>21 DEF RunForever
<1>22. CASE RunForeverEnds
  BY <1>22 DEF RunForeverEnds
<1>23. CASE Signal
  BY <1>23 DEF Signal
<1>24. CASE TopicRegistered
  BY <1>24 DEF TopicRegistered
<1>25. CASE TopicRemoved
  BY <1>25 DEF TopicRemoved
<1>26. CASE RoutingFails
  BY <1>26 DEF RoutingFails
<1>27. CASE RoutingEnds
  BY <1>27 DEF RoutingEnds
<1>28. CASE HeartbeatEnds
  BY <1>28 DEF HeartbeatEnds
<1>29. ASSUME NEW c \in Callers, CallShutdown(c) PROVE ClosingInv'
  BY <1>29 DEF CallShutdown
<1>30. ASSUME NEW c \in Callers, CloseConnection(c) PROVE ClosingInv'
  <2>1. UNCHANGED <<pc, held>> /\ \A h \in Generations : link'[h] = "closing" => link[h] = "closing"
    BY <1>30 DEF CloseConnection, CloseCodes
  <2> QED  BY <2>1
<1>31. ASSUME NEW g \in Generations, PeerCloses(g) PROVE ClosingInv'
  <2>1. UNCHANGED <<pc, held>> /\ \A h \in Generations : link'[h] = "closing" => link[h] = "closing"
    BY <1>31 DEF PeerCloses, CloseCodes
  <2> QED  BY <2>1
<1>32. ASSUME NEW a \in Actors, TasksCleanedUp(a) PROVE ClosingInv'
  BY <1>32 DEF TasksCleanedUp
<1>33. ASSUME NEW a \in Actors, SocketClosed(a) PROVE ClosingInv'
  BY <1>33 DEF SocketClosed
<1>34. ASSUME NEW c \in Callers, TopicsUnsubscribed(c) PROVE ClosingInv'
  BY <1>34 DEF TopicsUnsubscribed
<1>35. ASSUME NEW c \in Callers, SupervisorJoined(c) PROVE ClosingInv'
  <2>1. pc[c] # "closing" /\ pc'[Sup] = pc[Sup] /\ c \in Actors
    BY <1>35 DEF SupervisorJoined
  <2>2. \A g \in Generations :
          link'[g] = "closing" => link[g] = "closing" \/ (held'[c] = g /\ pc'[c] = "closing")
    BY <1>35, SMTT(30) DEF SupervisorJoined
  <2>3. \A b \in Actors : b # c => pc'[b] = pc[b] /\ held'[b] = held[b]
    BY <1>35, SMTT(30) DEF SupervisorJoined
  <2> QED  BY <2>1, <2>2, <2>3 DEF ClosingInv, ClosingAwaited
<1>36. CASE UNCHANGED vars
  BY <1>36
<1>37. QED
  BY <1>1, <1>2, <1>3, <1>4, <1>5, <1>6, <1>7, <1>8, <1>9, <1>10, <1>11, <1>12, <1>13,
     <1>14, <1>15, <1>16, <1>17, <1>18, <1>19, <1>20, <1>21, <1>22, <1>23, <1>24, <1>25,
     <1>26, <1>27, <1>28, <1>29, <1>30, <1>31, <1>32, <1>33, <1>34, <1>35, <1>36
  DEF Next, SupervisorStep, Rejoining, MainStep, Application, Peer, CleanupStep, ShutdownStep

\* The published state tells whether a supervisor is alive (see Supervised).
THEOREM StateTellsSupervisor == Spec => []Supervised
<1>1. IInv => Supervised
  BY DEF IInv, LoopInv
<1> QED
  BY <1>1, Invariant, PTL

\* No open socket is ever lost: it is the client's, or somebody is closing it.
THEOREM SocketsOwned == Spec => []SocketOwned
<1>1. IInv => SocketOwned
  BY DEF IInv, OwnInv
<1> QED
  BY <1>1, Invariant, PTL

\* Nor is a routing or heartbeat task.
THEOREM TasksNeverOrphaned == Spec => []TasksOwned
<1>1. IInv => TasksOwned
  BY DEF IInv, OwnInv
<1> QED
  BY <1>1, Invariant, PTL

\* Whoever finds _connected_event set finds a connection and a supervisor for it.
THEOREM SignalIsTrue == Spec => []ConnectedSignal
<1>1. IInv => ConnectedSignal
  BY DEF IInv, OwnInv
<1> QED
  BY <1>1, Invariant, PTL

\* When __aexit__ has returned the client is CLOSED and empty-handed.
THEOREM SessionsEndClean == Spec => []SessionEndsClean
<1>1. IInv => SessionEndsClean
  <2> SUFFICES ASSUME IInv, pc[Main] = "idle", \A c \in Callers : pc[c] \notin InShutdown
               PROVE  /\ state = "CLOSED" /\ ~Running(Sup) /\ topics = 0 /\ connection = 0
                      /\ "running" \notin {routing, heartbeat}
                      /\ \A g \in Generations : link[g] # "up"
    BY DEF SessionEndsClean
  <2>1. state = "CLOSED" /\ topics = 0 /\ connection = 0
    BY DEF IInv, MainInv
  <2>2. ~Running(Sup)
    BY <2>1 DEF IInv, LoopInv, Supervised
  <2>3. \A a \in Actors : pc[a] # "cleanup"
    BY <2>2 DEF Running, SupBusy, Actors, InShutdown
  <2>4. \A g \in Generations : g # 0
    BY DEF Generations
  <2> QED
    BY <2>1, <2>2, <2>3, <2>4 DEF IInv, OwnInv, SocketOwned, TasksOwned
<1> QED
  BY <1>1, Invariant, PTL

\* The moves the actions of Supervisor make.
StateMoves ==
  \/ UNCHANGED state
  \/ state' = "CLOSED"
  \/ state \in {"CONNECTING", "CONNECTED", "RECONNECTING"} /\ state' = "SHUTTING_DOWN"
  \/ state = "CLOSED" /\ state' = "CONNECTING"
  \/ Lifecycle!MayTransition(state, state')

\* Every step of every task makes one of these moves.
LEMMA StateMovesStep == IInv /\ [Next]_vars => StateMoves
<1> SUFFICES ASSUME IInv, [Next]_vars PROVE StateMoves
  OBVIOUS
<1> USE DEF StateMoves, IInv, TypeInv, TypeOK, StatusOK, CallerInv, InShutdown,
    RetryState, Lifecycle!MayTransition, Lifecycle!AllowedTransitions,
    Lifecycle!ClientState
<1>1. CASE SupervisorStarts
  BY <1>1 DEF SupervisorStarts
<1>2. CASE ConnectFails
  BY <1>2 DEF ConnectFails
<1>3. CASE ConnectSucceeds
  BY <1>3 DEF ConnectSucceeds
<1>4. CASE BackoffEnds
  BY <1>4 DEF BackoffEnds
<1>5. CASE DrainEnds
  BY <1>5 DEF DrainEnds
<1>6. CASE DrainRaises
  BY <1>6 DEF DrainRaises
<1>7. CASE DrainCancelled
  BY <1>7 DEF DrainCancelled
<1>8. CASE ProcessorReaped
  BY <1>8 DEF ProcessorReaped
<1>9. CASE JoinEnds
  BY <1>9 DEF JoinEnds
<1>10. CASE JoinRefused
  BY <1>10 DEF JoinRefused
<1>11. CASE TopicUnregistered
  BY <1>11 DEF TopicUnregistered
<1>12. CASE OnReconnectReturns
  BY <1>12 DEF OnReconnectReturns
<1>13. CASE ConnectionLost
  BY <1>13 DEF ConnectionLost
<1>14. CASE AfterDisconnect
  BY <1>14 DEF AfterDisconnect
<1>15. CASE SupervisorCancelled
  BY <1>15 DEF SupervisorCancelled
<1>16. CASE EnterReturns
  BY <1>16 DEF EnterReturns
<1>17. CASE EnterFails
  BY <1>17 DEF EnterFails
<1>18. CASE SignalHandled
  BY <1>18 DEF SignalHandled
<1>19. CASE Enter
  BY <1>19 DEF Enter
<1>20. CASE Exit
  BY <1>20 DEF Exit
<1>21. CASE RunForever
  BY <1>21 DEF RunForever
<1>22. CASE RunForeverEnds
  BY <1>22 DEF RunForeverEnds
<1>23. CASE Signal
  BY <1>23 DEF Signal
<1>24. CASE TopicRegistered
  BY <1>24 DEF TopicRegistered
<1>25. CASE TopicRemoved
  BY <1>25 DEF TopicRemoved
<1>26. CASE RoutingFails
  BY <1>26 DEF RoutingFails
<1>27. CASE RoutingEnds
  BY <1>27 DEF RoutingEnds
<1>28. CASE HeartbeatEnds
  BY <1>28 DEF HeartbeatEnds
<1>29. ASSUME NEW c \in Callers, CallShutdown(c) PROVE StateMoves
  BY <1>29 DEF CallShutdown
<1>30. ASSUME NEW c \in Callers, CloseConnection(c) PROVE StateMoves
  BY <1>30 DEF CloseConnection
<1>31. ASSUME NEW g \in Generations, PeerCloses(g) PROVE StateMoves
  BY <1>31 DEF PeerCloses
<1>32. ASSUME NEW a \in Actors, TasksCleanedUp(a) PROVE StateMoves
  BY <1>32 DEF TasksCleanedUp
<1>33. ASSUME NEW a \in Actors, SocketClosed(a) PROVE StateMoves
  BY <1>33 DEF SocketClosed
<1>34. ASSUME NEW c \in Callers, TopicsUnsubscribed(c) PROVE StateMoves
  BY <1>34 DEF TopicsUnsubscribed
<1>35. ASSUME NEW c \in Callers, SupervisorJoined(c) PROVE StateMoves
  BY <1>35 DEF SupervisorJoined
<1>36. CASE UNCHANGED vars
  BY <1>36
<1>37. QED
  BY <1>1, <1>2, <1>3, <1>4, <1>5, <1>6, <1>7, <1>8, <1>9, <1>10, <1>11, <1>12, <1>13,
     <1>14, <1>15, <1>16, <1>17, <1>18, <1>19, <1>20, <1>21, <1>22, <1>23, <1>24, <1>25,
     <1>26, <1>27, <1>28, <1>29, <1>30, <1>31, <1>32, <1>33, <1>34, <1>35, <1>36
  DEF Next, SupervisorStep, Rejoining, MainStep, Application, Peer, CleanupStep, ShutdownStep

\* The supervisor implements the life cycle: whatever the tasks do, _state moves only
\* along the table of client_state_machine.py.
THEOREM ImplementsLifecycle == Spec => LifecycleSpec
<1>1. Init => Lifecycle!Init
  BY DEF Init, Lifecycle!Init
<1>2. IInv /\ [Next]_vars => [Lifecycle!Next]_state
  BY StateMovesStep DEF StateMoves, IInv, TypeInv, TypeOK, StatusOK, Lifecycle!Next,
    Lifecycle!ClientState, Lifecycle!AllowedTransitions, Lifecycle!MayTransition
<1> QED
  BY <1>1, <1>2, Invariant, PTL DEF Spec, LifecycleSpec, Lifecycle!Spec

\* Once a terminal error is recorded in a session, its supervisor never runs again.
THEOREM TerminalErrorsEndIt == Spec => []TerminalErrorIsFinal
<1>1. Init => TerminalErrorIsFinal
  BY DEF Init, TerminalErrorIsFinal, Running, SupBusy, Actors
<1> QED
  BY <1>1, TerminalNext, Invariant, PTL DEF Spec

\* With one session, a final close that was not forced by the application is obeyed, ...
THEOREM FinalCloseObeyed ==
  ASSUME MaxSessions <= 1 PROVE Spec => []FinalCloseStops
<1>1. Init => ForceInv
  BY DEF Init, ForceInv, FinalCloseStops, Running, SupBusy, Actors
<1>2. ForceInv => FinalCloseStops
  BY DEF ForceInv
<1> QED
  BY <1>1, <1>2, ForceNext, Invariant, PTL DEF Spec

\* ... and on_reconnect is only ever called after on_disconnect.
THEOREM CallbacksPaired ==
  ASSUME MaxSessions <= 1 PROVE Spec => []ReconnectFollowsDisconnect
<1>1. Init => NotifyInv
  BY DEF Init, NotifyInv, Running, SupBusy, Actors
<1>2. NotifyInv => ReconnectFollowsDisconnect
  BY DEF NotifyInv, ReconnectFollowsDisconnect, Running, SupBusy
<1> QED
  BY <1>1, <1>2, NotifyNext, Invariant, PTL DEF Spec

\* With one session, a close handshake that has begun is seen through, unless the
\* supervisor was cancelled in it.
THEOREM ClosesAwaited ==
  ASSUME MaxSessions <= 1 PROVE Spec => []ClosingAwaited
<1>1. Init => ClosingInv
  BY DEF Init, ClosingInv, ClosingAwaited
<1>2. ClosingInv => ClosingAwaited
  BY DEF ClosingInv
<1> QED
  BY <1>1, <1>2, ClosingNext, Invariant, PTL DEF Spec

\* A task that is alone in using the client never waits in __aenter__ for a dead supervisor.
THEOREM EnterAnswered ==
  ASSUME Callers = {Main} PROVE Spec => []EnterNeverStranded
<1>1. Init => EnterInv
  BY DEF Init, EnterInv
<1>2. EnterInv => EnterNeverStranded
  BY DEF EnterInv, EnterNeverStranded, Running, SupBusy
<1> QED
  BY <1>1, <1>2, EnterNext, Invariant, PTL DEF Spec
=================================================================================
