CONSTANTS
  NULL = NULL
  NumPasswords = 2
  Worlds <- Negotiation
  AllowedGroups = {19}
  SaeSync = 0
  MaxOwnScalars = 3
  MaxScalars = 4
SPECIFICATION Spec
INVARIANTS
  TypeOK
  AcceptsOnlyShared
  PmkStable
CHECK_DEADLOCK FALSE
