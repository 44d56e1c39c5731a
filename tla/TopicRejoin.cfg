\* Two topics and a reconnect.
SPECIFICATION Spec
CONSTANTS
  Topics = {a, b}
  Leavers = {u}
  V2 = FALSE
  QueueSize = 1
  FirstHandlers = {{"message"}}
  CallbackMayRaise = TRUE
  CallbackMayLeave = FALSE
  MayShutdown = FALSE
  MaxSubs = 2
  MaxGen = 2
  MaxEvents = 1
  MaxLeaves = 0
  MaxChanges = 0
  Reuse = FALSE
SYMMETRY TopicSymmetry
INVARIANTS TypeOK RejoinComplete OneProcessor
\* Nothing obliges the application or the network to do anything more.
CHECK_DEADLOCK FALSE
