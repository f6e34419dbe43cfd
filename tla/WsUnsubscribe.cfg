SPECIFICATION Spec
CONSTANTS
  BufferSize = 1
  AutoReconnect = TRUE
  MaxReconnectAttempts = 1
  MaxIn = 0
  MaxWaiting = 1
PROPERTY EndIsFinal
CHECK_DEADLOCK FALSE
