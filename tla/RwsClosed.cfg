SPECIFICATION Spec
CONSTANTS
  Msgs = {m1}
  Sockets = {s1, s2}
  NoSocket = NoSocket
  AutoReconnect = TRUE
  MaxReconnectAttempts = 1
  MaxQueueSize = 1
  QueueFullBehavior = "error"
  HeartbeatEnabled = TRUE
  AuthOutcomes = {"token"}
  NativeDispatch = FALSE
  CallbacksReenter = FALSE
  MaxIn = 0
  MaxReceives = 1
  MaxOrphans = 1
CONSTRAINT FewOrphans
PROPERTY ClosedIsFinal
CHECK_DEADLOCK FALSE
