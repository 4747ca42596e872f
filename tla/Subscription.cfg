SPECIFICATION Spec
CONSTANTS
  Sessions = {c1, c2}
  Plans = {starter, growth}
  Handlers = {h1, h2}
  Switches = TRUE
  Renames = FALSE
  Deletes = FALSE
  None = None
SYMMETRY Symmetry
INVARIANTS TypeOK PlanWasPaid
PROPERTY OnlyEndedLoseAccess
CHECK_DEADLOCK FALSE
