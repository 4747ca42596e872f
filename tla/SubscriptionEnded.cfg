SPECIFICATION Spec
CONSTANTS
  Sessions = {c1, c2}
  Plans = {starter, growth}
  Handlers = {h1, h2}
  Switches = FALSE
  Renames = FALSE
  Deletes = FALSE
  None = None
SYMMETRY Symmetry
INVARIANT EndedLosesPlan
CHECK_DEADLOCK FALSE
