\* A callback that returns while a rejoin drains it.
SPECIFICATION Spec
CONSTANTS
  Topics = {a}
  Leavers = {u}
  V2 = TRUE
  QueueSize = 1
  FirstHandlers = {{"message"}}
  CallbackMayRaise = FALSE
  CallbackMayLeave = FALSE
  MayShutdown = FALSE
  MaxSubs = 1
  MaxGen = 2
  MaxEvents = 2
  MaxLeaves = 0
  MaxChanges = 0
  Reuse = FALSE
PROPERTY StaleMessagesDropped
\* Nothing obliges the application or the network to do anything more.
CHECK_DEADLOCK FALSE
