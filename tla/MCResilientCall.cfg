SPECIFICATION FairSpec
CONSTANTS
  MaxRetries = 2
  Configs <- MCConfigs
INVARIANTS StagesInOrder OutcomeHonest KillSwitchHolds
PROPERTIES NoRetryAfterRejection UnrepairedReturns
CHECK_DEADLOCK FALSE
