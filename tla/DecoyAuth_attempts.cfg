CONSTANTS
  NULL = NULL
  NumPasswords = 3
  Worlds <- Attempts
  AllowedGroups = {19}
  SaeSync = 0
  MaxOwnScalars = 8
  MaxScalars = 8
SPECIFICATION FairSpec
PROPERTIES
  Connects
  DecoyFails
CHECK_DEADLOCK FALSE
