SPECIFICATION FairSpec
CONSTANTS
  Sessions = {c1}
  Plans = {starter, growth}
  Handlers = {h1, h2}
  Switches = FALSE
  Renames = TRUE
  Deletes = TRUE
  None = None
PROPERTIES DeletionCancels PaidIsActivated
CHECK_DEADLOCK FALSE
