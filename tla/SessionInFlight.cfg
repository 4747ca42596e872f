SPECIFICATION Spec
CONSTANTS
  Users = {u1}
  Tokens = {t1, t2, t3}
  Requests = {r1}
  JwtTtl = 2
  RefreshTtl = 3
  Grace = 2
  MaxTime = 4
  Outages = FALSE
  None = None
SYMMETRY TokenSymmetry
INVARIANT RemovedLoseAccess
CHECK_DEADLOCK FALSE
