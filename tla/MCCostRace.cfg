SPECIFICATION Spec
CONSTANTS
  w1 = w1
  w2 = w2
  t1 = t1
  t2 = t2
  NoKey = NoKey
  Threads = {t1, t2}
  Wrappers = {w1, w2}
  Scopes <- MCScopes
  ScopesOf <- MCScopesOf
  Keys <- MCKeys
  Limit <- MCLimit
  MaxRecords = 3
  MaxFailures = 0
  MaxRearms = 0
  Polling = FALSE
INVARIANTS ExactlyOncePerCrossing
CHECK_DEADLOCK FALSE
