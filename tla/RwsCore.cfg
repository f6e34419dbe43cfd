SPECIFICATION FairSpec
CONSTANTS
  Msgs = {m1, m2}
  Sockets = {s1, s2}
  NoSocket = NoSocket
  AutoReconnect = TRUE
  MaxReconnectAttempts = 2
  MaxQueueSize = 1
  QueueFullBehavior = "drop-oldest"
  HeartbeatEnabled = TRUE
  AuthOutcomes = {}
  NativeDispatch = FALSE
  CallbacksReenter = FALSE
  MaxIn = 2
  MaxReceives = 1
  MaxOrphans = 0
INVARIANTS
  QueuesBounded
  InboundInOrder
  NoLostWakeup
  StateMatchesSocket
  NoLeakedSocket
  TimerMatchesState
PROPERTIES
  ImplementsOutbox
  ClosedIsFinal
  SendSettles
  QueueDrains
CHECK_DEADLOCK FALSE
