\* unsubscribe_from_topic during a rejoin.
SPECIFICATION Spec
CONSTANTS
  Topics = {a}
  Leavers = {u}
  V2 = TRUE
  QueueSize = 1
  FirstHandlers = {{"message"}}
  CallbackMayRaise = FALSE
  CallbackMayLeave = FALSE
  MayShutdown = FALSE
  MaxSubs = 1
  MaxGen = 2
  MaxEvents = 0
  MaxLeaves = 1
  MaxChanges = 0
  Reuse = FALSE
PROPERTY LeavingNotRejoined
\* Nothing obliges the application or the network to do anything more.
CHECK_DEADLOCK FALSE
