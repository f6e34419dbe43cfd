SPECIFICATION Spec
CONSTANTS
  Msgs = {m1, m2, m3}
  Sockets = {s1, s2, s3}
  NoSocket = NoSocket
  AutoReconnect = TRUE
  MaxReconnectAttempts = 1
  MaxQueueSize = 2
  QueueFullBehavior = "error"
  HeartbeatEnabled = TRUE
  AuthOutcomes = {"token", "fail"}
  NativeDispatch = TRUE
  CallbacksReenter = TRUE
  MaxIn = 0
  MaxReceives = 0
  MaxOrphans = 1
SYMMETRY Symmetry
CONSTRAINT FewOrphans
INVARIANTS
  FlushedWhenUsable
  ConnectedOrder
PROPERTIES
  AuthFirst
CHECK_DEADLOCK FALSE
