SPECIFICATION Spec
CONSTANTS
  Clients = {r1, r2, r3}
  PoolSize = 2
  MaxGuards = 1
  MaxCalls = 1
  NoJob = NoJob
  u1 = u1
  u2 = u2
  k1 = k1
  k2 = k2
  k3 = k3
  k4 = k4
  r1 = r1
  r2 = r2
  c1 = c1
  c2 = c2
  s1 = s1
  tab = tab
  None = None
  NoToken = NoToken
  NoRequest = NoRequest
INVARIANTS CPTypeOK StarvedOnlyByNesting
PROPERTIES RefreshAnswered RequestsEnd CallsAnswered LoadingEnds
CHECK_DEADLOCK FALSE
