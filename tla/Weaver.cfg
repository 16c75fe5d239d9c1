CONSTANTS
  Prime = 5
  N = 4
  XValues <- Hashes
SPECIFICATION Spec
INVARIANTS
  TypeOK
  MasterPolynomial
  WovenThrough
CHECK_DEADLOCK FALSE
