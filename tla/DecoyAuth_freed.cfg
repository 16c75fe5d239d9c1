CONSTANTS
  NULL = NULL
  NumPasswords = 2
  Worlds <- Repeats
  AllowedGroups = {19}
  SaeSync = 0
  MaxOwnScalars = 3
  MaxScalars = 3
SPECIFICATION Spec
INVARIANTS
  NoFreedUse
CHECK_DEADLOCK FALSE
