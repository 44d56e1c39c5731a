\* shutdown while the supervisor reaps a processor or unregisters a topic.
SPECIFICATION FairSpec
CONSTANTS
  Callers = {main}
  Main = main
  Sup = sup
  AutoReconnect = TRUE
  HeartbeatOn = TRUE
  ReconnectOnNormalClose = FALSE
  PolicyViolationIsTerminal = TRUE
  WaitForDropsCancel = FALSE
  SuppressCount = 2
  MaxTopics = 1
  MaxGen = 2
  MaxSessions = 1
PROPERTY ShutdownAlwaysReturns
\* The client is used for one session and then not again.
CHECK_DEADLOCK FALSE
