SPECIFICATION FairSpec
CONSTANTS
  run1 = run1
  run2 = run2
  NoTrace = NoTrace
  Traces = {run1}
  Last = 3
  Ask = 1
  MaxTraces = 1
  PerTrace = 4
  MaxPolls = 2
  MaxDrops = 2
INVARIANTS OncePerEnvelope
PROPERTIES NeverAsksAgain LastShown
CHECK_DEADLOCK FALSE
