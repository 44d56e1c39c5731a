\* A forced close that outlives its session.
SPECIFICATION Spec
CONSTANTS
  Callers = {main}
  Main = main
  Sup = sup
  AutoReconnect = TRUE
  HeartbeatOn = TRUE
  ReconnectOnNormalClose = FALSE
  PolicyViolationIsTerminal = TRUE
  WaitForDropsCancel = TRUE
  SuppressCount = 2
  MaxTopics = 1
  MaxGen = 2
  MaxSessions = 2
INVARIANT FinalCloseStops
\* The client is used for a bounded number of sessions and then not again.
CHECK_DEADLOCK FALSE
