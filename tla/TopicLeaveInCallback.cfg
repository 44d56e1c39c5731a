\* A callback that unsubscribes from its own topic.
SPECIFICATION FairSpec
CONSTANTS
  Topics = {a}
  Leavers = {u}
  V2 = TRUE
  QueueSize = 1
  FirstHandlers = {{"message"}}
  CallbackMayRaise = FALSE
  CallbackMayLeave = TRUE
  MayShutdown = FALSE
  MaxSubs = 1
  MaxGen = 1
  MaxEvents = 1
  MaxLeaves = 1
  MaxChanges = 0
  Reuse = FALSE
PROPERTY CallsEnd
\* Nothing obliges the application or the network to do anything more.
CHECK_DEADLOCK FALSE
