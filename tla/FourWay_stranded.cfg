SPECIFICATION FairSpec
CONSTANTS
  NULL = NULL
  RSNA_MAX_EAPOL_RETRIES = 4
  UpdateCounts = {1}
  wpa_group_update_count = 1
  MaxEvents <- EventsByCount
  MaxANonce = 2
PROPERTIES
  GroupUpdateEnds
CHECK_DEADLOCK FALSE
