SPECIFICATION Spec
CONSTANTS
  Components = {c1, c2}
  Keys = {k1, k2}
  MaxRequests = 3
  MaxWrites = 1
  MaxFetches = 3
SYMMETRY Symmetry
INVARIANTS LoadingAccounted EntryIsLive
PROPERTIES NeverGoesBack
CHECK_DEADLOCK FALSE
