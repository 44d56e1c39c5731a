\* Two sessions of the task that owns the client, under fairness.
SPECIFICATION FairSpec
CONSTANTS
  Callers = {main}
  Main = main
  Sup = sup
  AutoReconnect = TRUE
  HeartbeatOn = TRUE
  ReconnectOnNormalClose = FALSE
  PolicyViolationIsTerminal = TRUE
  WaitForDropsCancel = TRUE
  SuppressCount = 2
  MaxTopics = 1
  MaxGen = 2
  MaxSessions = 2
INVARIANTS Supervised SessionEndsClean EnterNeverStranded
PROPERTIES LossNoticed ShutdownReturns
\* The client is used for a bounded number of sessions and then not again.
CHECK_DEADLOCK FALSE
