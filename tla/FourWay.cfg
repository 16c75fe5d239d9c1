SPECIFICATION FairSpec
CONSTANTS
  NULL = NULL
  RSNA_MAX_EAPOL_RETRIES = 4
  UpdateCounts = {1, 2}
  wpa_group_update_count = 2
  MaxEvents <- EventsByCount
  MaxANonce = 2
INVARIANTS
  TypeOK
  KeysAgree
  InstalledOnce
  GtksIncrease
  GKeyDoneCounts
  Settled
PROPERTIES
  HandshakeEnds
CHECK_DEADLOCK FALSE
