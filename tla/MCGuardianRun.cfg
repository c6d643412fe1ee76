SPECIFICATION FairSpec
CONSTANTS
  r1 = r1
  r2 = r2
  t1 = t1
  annotate = annotate
  note = note
  prio = prio
  NoRun = NoRun
  NoAct = NoAct
  Undecided = Undecided
  Runs = {r1}
  Traces = {t1}
  TraceOf <- OneTrace
  WriteActs = {annotate, note}
  PrioActs = {}
  MaxAttempts = 2
  MaxCopies = 2
  MaxReleases = 2
  MaxStalls = 1
INVARIANTS TypeOK NoSilentDrop ReceiptsAccount StatusHonest
PROPERTIES StatusSettles RunSettles WorkerEnds ContractSpec
CHECK_DEADLOCK FALSE
