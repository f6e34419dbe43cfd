SPECIFICATION FairSpec
CONSTANTS
  BufferSize = 2
  AutoReconnect = TRUE
  MaxReconnectAttempts = 2
  MaxIn = 4
  MaxWaiting = 2
INVARIANTS
  TypeOK
  NoForgottenNext
  ActiveIsAlive
  OneSocket
PROPERTIES
  ImplementsFeed
  SubscribeSettles
  ReconnectEnds
CHECK_DEADLOCK FALSE
