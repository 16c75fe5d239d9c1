SPECIFICATION FairSpec
CONSTANTS
  NULL = NULL
  s1 = s1
  s2 = s2
  p = p
  Sae = {s1, s2}
  Pasn = {p}
  Key = {1, 2, 3, 4, 5, 6, 7, 8}
  Slot = {1, 2}
  KeyLifetime = 0
  MaxNow = 1
  Configs <- Networks
INVARIANTS
  TypeOK
  PaidFor
  Honoured
PROPERTIES
  EveryoneThrough
CHECK_DEADLOCK FALSE
