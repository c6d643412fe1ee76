SPECIFICATION Spec
CONSTANTS
  r1 = r1
  r2 = r2
  t1 = t1
  annotate = annotate
  note = note
  prio = prio
  NoRun = NoRun
  NoAct = NoAct
  Undecided = Undecided
  Runs = {r1, r2}
  Traces = {t1}
  TraceOf <- OneTrace
  WriteActs = {annotate}
  PrioActs = {prio}
  MaxAttempts = 1
  MaxCopies = 1
  MaxReleases = 3
  MaxStalls = 1
INVARIANTS WritesApproved AnsweredOnce
CHECK_DEADLOCK FALSE
