SPECIFICATION Spec
CONSTANTS
  AutoReconnect = TRUE
  MaxReconnectAttempts = 2
  ErrorsGoOn = FALSE
  MaxData = 2
  MaxConnections = 3
  MaxTorn = 2
  MaxWaiting = 2
INVARIANTS
  NoForgottenNext
  OpenIsAlive
  ResumesExactly
CHECK_DEADLOCK FALSE
