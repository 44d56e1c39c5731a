\* One topic, subscribed, left and subscribed again on one connection.
SPECIFICATION Spec
CONSTANTS
  Topics = {a}
  Leavers = {u}
  V2 = TRUE
  QueueSize = 2
  FirstHandlers = {{"message"}}
  CallbackMayRaise = FALSE
  CallbackMayLeave = TRUE
  MayShutdown = FALSE
  MaxSubs = 2
  MaxGen = 1
  MaxEvents = 2
  MaxLeaves = 1
  MaxChanges = 1
  Reuse = TRUE
INVARIANTS ReadyMeansJoined UnregisteredQuiet FailedSubscribeGone
PROPERTY OrderedDelivery
\* Nothing obliges the application or the network to do anything more.
CHECK_DEADLOCK FALSE
