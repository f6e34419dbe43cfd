SPECIFICATION Spec
CONSTANTS
  Requests = {q1, q2}
  Messages = {m1}
  None = None
  MaxHibernations = 0
  MaxStrays = 0
SYMMETRY Symmetry
INVARIANT OwnRequest
CHECK_DEADLOCK FALSE
