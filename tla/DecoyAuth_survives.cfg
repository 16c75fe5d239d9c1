CONSTANTS
  NULL = NULL
  NumPasswords = 2
  Worlds <- Forgets
  AllowedGroups = {19}
  SaeSync = 0
  MaxOwnScalars = 2
  MaxScalars = 2
SPECIFICATION Spec
INVARIANTS
  Survives
CHECK_DEADLOCK FALSE
