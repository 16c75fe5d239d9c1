CONSTANTS
  NULL = NULL
  NumPasswords = 2
  Worlds <- Faults
  AllowedGroups = {19}
  SaeSync = 0
  MaxOwnScalars = 2
  MaxScalars = 2
SPECIFICATION Spec
INVARIANTS
  PmkStable
PROPERTIES
  Agrees
CHECK_DEADLOCK FALSE
