SPECIFICATION FairSpec
CONSTANTS
  MaxRetries = 0
  Configs <- MCConfigs
PROPERTIES RepairBounded
CHECK_DEADLOCK FALSE
