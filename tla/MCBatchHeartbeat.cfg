SPECIFICATION HeartbeatSpec
CONSTANTS
  Interval = 3
  RpcDeadline = 2
  StaleAfter = 18
  MaxCreate = 3
  MaxAge = 36
CHECK_DEADLOCK FALSE
INVARIANTS SilenceExplained DelayedPassRecovers
