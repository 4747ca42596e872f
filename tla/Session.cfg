SPECIFICATION Spec
CONSTANTS
  Users = {u1}
  Tokens = {t1, t2, t3}
  Requests = {r1, r2}
  JwtTtl = 2
  RefreshTtl = 3
  Grace = 2
  MaxTime = 4
  Outages = TRUE
  None = None
SYMMETRY Symmetry
INVARIANTS TypeOK RevokedTokensRejected RemovedHaveNoRefreshTokens SuccessorsWithinGrace
PROPERTIES NoSessionAfterRemoval KeepsTokenLife
CHECK_DEADLOCK FALSE
