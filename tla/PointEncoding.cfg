CONSTANTS
  Prime = 19
  A = 16
  B = 9
  MaxTries = 2
  NULL = NULL
SPECIFICATION Spec
INVARIANTS
  RoundTrip
  DecoysLookReal
  AllPreimages
CHECK_DEADLOCK FALSE
