SPECIFICATION MCSpec
CONSTANTS
  Tables = {b1}
  Queries = {q1, q2}
  Requests = {r1, r2}
  MaxItems = 2
  MaxCommits = 3
  None = None
  Tabs = {a, b}
  Calls = {}
  Tokens = {t1, t2, t3, t4}
  MaxLogins = 1
  NoToken = NoToken
  NoRequest = NoRequest
  Users = {u1, u2}
  Checkouts = {s1}
  PollAttempts = 3
  ErrorAttempts = 2
  MaxLate = 1
  Null = Null
  Warehouses = {w1, w2}
  Roles = {"admin", "staff"}
  MaxCalls = 1
  MaxChanges = 1
  Patient = TRUE
  Unset = Unset
SYMMETRY Symmetry
INVARIANTS
  TypeOK TableIsCurrent NothingOutlivesWarehouse
  HonestTabsKeepSession LoggedOutStaysOut
  TypesOK ViewCatchesUp SuccessPageAsksForSession ActsOnHeading RowsOfHeading
PROPERTIES DeletesOnce 
CHECK_DEADLOCK FALSE
