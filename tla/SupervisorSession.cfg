\* One session, two tasks that may shut the client down or close its connection.
SPECIFICATION Spec
CONSTANTS
  Callers = {main, other}
  Main = main
  Sup = sup
  AutoReconnect = TRUE
  HeartbeatOn = TRUE
  ReconnectOnNormalClose = FALSE
  PolicyViolationIsTerminal = TRUE
  WaitForDropsCancel = TRUE
  SuppressCount = 2
  MaxTopics = 2
  MaxGen = 2
  MaxSessions = 1
INVARIANTS TypeOK Supervised SocketOwned  TasksOwned ConnectedSignal
  SessionEndsClean TerminalErrorIsFinal FinalCloseStops ReconnectFollowsDisconnect
PROPERTY LifecycleSpec
\* The client is used for one session and then not again.
CHECK_DEADLOCK FALSE
