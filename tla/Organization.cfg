SPECIFICATION MCSpec
CONSTANTS
  Users = {u1, u2, u3}
  Requests = {r1, r2}
  Members = {m1, m2}
  Invites = {i1}
  New = New
  MaxWrites = 1
  MaxChanges = 1
  Patient = TRUE
  Null = Null
  None = None
SYMMETRY Symmetry
INVARIANTS TypeOK PagesTypeOK OwnRoleIsCurrent PageIsCurrent
PROPERTY RoleChangesAuthorized
CHECK_DEADLOCK FALSE
