SPECIFICATION Spec
CONSTANTS
  Emails = {e1}
  Usernames = {n1, n2}
  Tokens = {t1, t2, t3, t4}
  Accounts = {a1, a2}
  Requests = {r1, r2}
  None = None
SYMMETRY Symmetry
INVARIANTS TypeOK OneAccountPerInvite NothingOutlivesOrganization
CHECK_DEADLOCK FALSE
