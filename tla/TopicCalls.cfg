\* Subscribe and unsubscribe calls across a reconnect, and a shutdown at any await.
SPECIFICATION FairSpec
CONSTANTS
  Topics = {a}
  Leavers = {u}
  V2 = FALSE
  QueueSize = 1
  FirstHandlers = {{"message"}}
  CallbackMayRaise = TRUE
  CallbackMayLeave = FALSE
  MayShutdown = TRUE
  MaxSubs = 1
  MaxGen = 2
  MaxEvents = 1
  MaxLeaves = 1
  MaxChanges = 0
  Reuse = FALSE
INVARIANTS NoStaleCallback UnregisteredQuiet ShutdownQuiet
PROPERTIES CallsEnd LossNoticed LifeSpec
\* Nothing obliges the application or the network to do anything more.
CHECK_DEADLOCK FALSE
