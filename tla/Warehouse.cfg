SPECIFICATION Spec
CONSTANTS
  Users = {u1, u2, u3}
  Warehouses = {w1}
  Requests = {r1, r2}
  None = None
SYMMETRY Symmetry
INVARIANTS TypeOK RolesWithinOrganization
PROPERTY OnlyAdminsPromote
CHECK_DEADLOCK FALSE
