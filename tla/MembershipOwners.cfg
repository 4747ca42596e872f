SPECIFICATION Spec
CONSTANTS
  Users = {u1, u2, u3}
  Requests = {r1, r2}
  None = None
SYMMETRY Symmetry
INVARIANT AtLeastOneOwner
CHECK_DEADLOCK FALSE
