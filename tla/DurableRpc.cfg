SPECIFICATION Spec
CONSTANTS
  Requests = {q1, q2, q3}
  Messages = {m1, m2}
  None = None
  MaxHibernations = 1
  MaxStrays = 1
SYMMETRY Symmetry
INVARIANTS OwnSession NothingKept OwnWhenAlone HooksBalanced
CHECK_DEADLOCK FALSE
