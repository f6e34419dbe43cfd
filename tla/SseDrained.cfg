SPECIFICATION Spec
CONSTANTS
  AutoReconnect = TRUE
  MaxReconnectAttempts = 1
  ErrorsGoOn = FALSE
  MaxData = 2
  MaxConnections = 2
  MaxTorn = 0
  MaxWaiting = 1
INVARIANT DrainedBeforeEnd
CHECK_DEADLOCK FALSE
