SPECIFICATION FairSpec
CONSTANTS
  NULL = NULL
  b1 = b1
  b2 = b2
  s1 = s1
  s2 = s2
  s3 = s3
  Bss = {b1, b2}
  Spa = {s1, s2, s3}
  Entry = {1, 2, 3}
  Pmk = {1, 2, 3, 4, 5, 6, 7}
  PmkidHash <- SharedHash
  pmksa_cache_max_entries = 2
  Lifetimes = {1, 2}
  MaxNow = 3
  Configs <- Installations
INVARIANTS
  TypeOK
  TimeoutSet
  OnePerSupplicant
  Bounded
  FullAuthentication
  NoDangling
  Linked
PROPERTIES
  EveryEntryExpires
CHECK_DEADLOCK FALSE
