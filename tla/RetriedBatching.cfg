SPECIFICATION FairSpec
CONSTANTS
  MaxBatchSize = 2
  OnBatchThrows = FALSE
  Calls = {a, b}
  MaxAttempts = 3
  MaxId = 6
INVARIANTS
  OneAttemptAtATime
  NobodyForgotten
  OwnResult
PROPERTIES
  ImplementsRemoteCalls
  CallsSettle
CHECK_DEADLOCK FALSE
