SPECIFICATION Spec
CONSTANTS
  Emails = {e1}
  Usernames = {n1}
  Tokens = {t1}
  Accounts = {a1}
  Requests = {r1, r2}
  None = None
SYMMETRY Symmetry
INVARIANT NoOrphans
CHECK_DEADLOCK FALSE
