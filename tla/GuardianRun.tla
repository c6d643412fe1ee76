----------------------------- MODULE GuardianRun -----------------------------
(***************************************************************************)
(* A diagnosis run from POST /api/run to its stored result.                *)
(*                                                                         *)
(* Three actors share the session table: the server's event loop           *)
(* (engine/api/sessions.py and the handlers of engine/api/app.py), one     *)
(* worker thread per run (_run_in_worker driving run_diagnosis), and the   *)
(* reviewer who posts approvals.  The worker blocks on the approval gate,  *)
(* whose asyncio task lives on the server loop, then writes the approved   *)
(* actions to Grafana through the retrying guard, then stores the result.  *)
(*                                                                         *)
(* Time is abstract: the gate's 120 s timer may fire in any state in which *)
(* the loop is free, the worker's 150 s timer only while the loop is       *)
(* stalled (a handler that blocks, such as the seed handler), because a    *)
(* free loop serves the earlier timer first.                               *)
(***************************************************************************)
EXTENDS Integers, FiniteSets

CONSTANTS
  Runs,         \* accepted POST /api/run calls, one worker thread each
  Traces,       \* trace ids; a caller may send the same one twice
  TraceOf,      \* [Runs -> Traces]
  WriteActs,    \* ids of annotate and incident_note actions (need approval)
  PrioActs,     \* ids of reprioritize actions (local, need no approval)
  NoRun,        \* "no session object" / "no result"
  NoAct,        \* "no write in progress"
  Undecided,    \* the contract's "no decision yet"
  MaxAttempts,  \* guard attempts for one write: retries + 1
  MaxCopies,    \* how often one id may occur in a posted approval list
  MaxReleases,  \* bound on POST /api/approve calls
  MaxStalls     \* bound on stalls of the server loop

Acts == WriteActs \union PrioActs

ASSUME ConstantsAssumption ==
  /\ TraceOf \in [Runs -> Traces]
  /\ NoRun \notin Runs
  /\ WriteActs \cap PrioActs = {}
  /\ NoAct \notin Acts
  /\ \A A \in SUBSET Acts : A # Undecided
  /\ MaxAttempts \in Nat \ {0}
  /\ MaxCopies \in Nat
  /\ MaxReleases \in Nat
  /\ MaxStalls \in Nat

VARIABLES
  (* the server loop: SESSIONS and the session objects it maps to; the     *)
  (* object created by run s is named s                                    *)
  cur,        \* cur[t]: the session object SESSIONS[t], or NoRun
  status,     \* status[s]: session["status"]
  offered,    \* offered[s]: session["actions"]
  approved,   \* approved[s]: session["approved"], as id -> multiplicity
  result,     \* result[s]: the run whose RunResult session["result"] holds
  gate,       \* gate[r]: state of r's HttpApprovalGate.wait task
  gateSess,   \* gateSess[r]: the session object that task holds
  releasing,  \* the release call between its check and its writes
  stalled,    \* a handler is blocking the loop
  (* the worker threads *)
  pc,         \* where run_diagnosis / _main is
  acts,       \* acts[r]: proposed action ids
  ids,        \* ids[r]: the approved list the gate returned
  left,       \* left[r]: the part of it the write loop has not reached
  writing,    \* writing[r]: the action whose guarded write is in progress
  tries,      \* tries[r]: failed attempts of that write
  receipts,   \* receipts[r]: <<action, kind>> pairs appended so far
  degraded,   \* degraded[r]: degraded_reasons is not empty
  (* the outside world and history *)
  landed,     \* landed[r][a]: annotations r created in Grafana for a
  granted,    \* granted[r]: ids that releases recorded during r's wait
  waits,      \* waits[s]: how often a gate put s in "awaiting-approval"
  acks,       \* acks[s]: releases that found s in that status
  releases,   \* POST /api/approve calls so far
  stalls      \* stalls so far

sessionVars == <<cur, status, offered, approved, result>>
loopVars == <<gate, gateSess, releasing, stalled>>
workerVars == <<pc, acts, ids, left, writing, tries, receipts, degraded>>
worldVars == <<landed, granted, waits, acks, releases, stalls>>
vars == <<sessionVars, loopVars, workerVars, worldVars>>

NoList == [a \in Acts |-> 0]
Lists == [Acts -> 0..MaxCopies]
Idle == [sess |-> NoRun, list |-> NoList]

Statuses == {"none", "running", "awaiting-approval", "done", "error"}
GateStates == {"none", "waiting", "woken", "expired", "cancelled", "late"}
Points == {"idle", "diagnosing", "asking", "blocked", "writing", "summary",
           "returned", "raised", "stored", "failed", "closed"}
ReceiptKinds == {"ok", "failed", "degraded"}
Receipts == Acts \X ReceiptKinds

\* A handler or task can run only while nothing else occupies the loop.
LoopFree == ~stalled /\ releasing = Idle

\* propose_remediation: the top finding always yields its annotation and its
\* note; each finding may add a reprioritisation; no finding, no action.
Proposals == {{}} \union {WriteActs \union p : p \in SUBSET PrioActs}

-----------------------------------------------------------------------------
Init ==
  /\ cur = [t \in Traces |-> NoRun]
  /\ status = [s \in Runs |-> "none"]
  /\ offered = [s \in Runs |-> {}]
  /\ approved = [s \in Runs |-> NoList]
  /\ result = [s \in Runs |-> NoRun]
  /\ gate = [r \in Runs |-> "none"]
  /\ gateSess = [r \in Runs |-> NoRun]
  /\ releasing = Idle
  /\ stalled = FALSE
  /\ pc = [r \in Runs |-> "idle"]
  /\ acts = [r \in Runs |-> {}]
  /\ ids = [r \in Runs |-> NoList]
  /\ left = [r \in Runs |-> NoList]
  /\ writing = [r \in Runs |-> NoAct]
  /\ tries = [r \in Runs |-> 0]
  /\ receipts = [r \in Runs |-> {}]
  /\ degraded = [r \in Runs |-> FALSE]
  /\ landed = [r \in Runs |-> NoList]
  /\ granted = [r \in Runs |-> {}]
  /\ waits = [s \in Runs |-> 0]
  /\ acks = [s \in Runs |-> 0]
  /\ releases = 0
  /\ stalls = 0

-----------------------------------------------------------------------------
(* The server loop *)

\* POST /api/run: a fresh session object replaces whatever the trace id
\* mapped to, and the worker thread starts.
PostRun(r) ==
  /\ LoopFree
  /\ pc[r] = "idle"
  /\ cur' = [cur EXCEPT ![TraceOf[r]] = r]
  /\ status' = [status EXCEPT ![r] = "running"]
  /\ pc' = [pc EXCEPT ![r] = "diagnosing"]
  /\ UNCHANGED <<offered, approved, result, loopVars, acts, ids, left, writing,
                 tries, receipts, degraded, worldVars>>

\* HttpApprovalGate.wait up to its await: it looks the session up now, so a
\* trace id posted twice hands it the newer session object.
Ask(r, state) ==
  LET s == cur[TraceOf[r]] IN
  /\ LoopFree
  /\ status' = [status EXCEPT ![s] = "awaiting-approval"]
  /\ offered' = [offered EXCEPT ![s] = acts[r]]
  /\ approved' = [approved EXCEPT ![s] = NoList]
  /\ gate' = [gate EXCEPT ![r] = state]
  /\ gateSess' = [gateSess EXCEPT ![r] = s]
  /\ waits' = [waits EXCEPT ![s] = @ + 1]
  /\ UNCHANGED <<cur, result, releasing, stalled, acts, ids, left, writing,
                 tries, receipts, degraded, landed, granted, acks, releases, stalls>>

GateWait(r) ==
  /\ pc[r] = "asking"
  /\ pc' = [pc EXCEPT ![r] = "blocked"]
  /\ Ask(r, "waiting")

\* The worker gave up before the loop got to the task: its first step was
\* scheduled ahead of the cancellation, so the session asks all the same.
GateWaitLate(r) ==
  /\ gate[r] = "late"
  /\ Ask(r, "cancelled")
  /\ UNCHANGED pc

\* Variant (fault injection): the wait has no timeout.
GateExpireNever(r) == FALSE

\* The 120 s timer of asyncio.wait_for fires: the task is cancelled, but its
\* TimeoutError branch runs in a later step.  A task that release has already
\* woken and that has not resumed yet is cancelled all the same.
GateExpire(r) ==
  /\ LoopFree
  /\ gate[r] \in {"waiting", "woken"}
  /\ gate' = [gate EXCEPT ![r] = "expired"]
  /\ UNCHANGED <<sessionVars, gateSess, releasing, stalled, workerVars, worldVars>>

\* The worker receives a list from the gate: an empty one is reported as
\* "approval-timeout", and the write loop starts.
Receive(r, list) ==
  /\ pc' = [pc EXCEPT ![r] = "writing"]
  /\ ids' = [ids EXCEPT ![r] = list]
  /\ left' = [left EXCEPT ![r] = list]
  /\ degraded' = [degraded EXCEPT ![r] = @ \/ list = NoList]
  /\ UNCHANGED <<acts, writing, tries, receipts>>

\* wait resumes after the event was set and returns session["approved"].
GateReturn(r) ==
  /\ LoopFree
  /\ gate[r] = "woken"
  /\ gate' = [gate EXCEPT ![r] = "none"]
  /\ Receive(r, approved[gateSess[r]])
  /\ UNCHANGED <<sessionVars, gateSess, releasing, stalled, worldVars>>

\* wait's TimeoutError branch.
GateTimeout(r) ==
  LET s == gateSess[r] IN
  /\ LoopFree
  /\ gate[r] = "expired"
  /\ gate' = [gate EXCEPT ![r] = "none"]
  /\ status' = [status EXCEPT ![s] = "running"]
  /\ offered' = [offered EXCEPT ![s] = {}]
  /\ Receive(r, NoList)
  /\ UNCHANGED <<cur, approved, result, gateSess, releasing, stalled, worldVars>>

\* The worker gave up waiting: the task is cancelled at its await and runs no
\* more code, so the session keeps the status it has, "awaiting-approval" for
\* good if the worker had stored its end before a late first step.
GateCancelled(r) ==
  /\ LoopFree
  /\ gate[r] = "cancelled"
  /\ gate' = [gate EXCEPT ![r] = "none"]
  /\ UNCHANGED <<sessionVars, gateSess, releasing, stalled, workerVars, worldVars>>

\* POST /api/approve for a known trace whose session is not awaiting: release
\* returns 0 and changes nothing.
ReleaseRefused(t) ==
  /\ LoopFree
  /\ releases < MaxReleases
  /\ cur[t] # NoRun
  /\ status[cur[t]] # "awaiting-approval"
  /\ releases' = releases + 1
  /\ UNCHANGED <<sessionVars, loopVars, workerVars, landed, granted, waits, acks, stalls>>

\* Variant (fault injection): release has no status check.
ReleaseBeginUnchecked(t) ==
  /\ LoopFree
  /\ releases < MaxReleases
  /\ cur[t] # NoRun
  /\ \E list \in Lists : releasing' = [sess |-> cur[t], list |-> list]
  /\ releases' = releases + 1
  /\ UNCHANGED <<sessionVars, gate, gateSess, stalled, workerVars, landed,
                 granted, waits, acks, stalls>>

\* release passed its status check.  A worker thread may run before it writes.
ReleaseBegin(t) ==
  /\ LoopFree
  /\ releases < MaxReleases
  /\ cur[t] # NoRun
  /\ status[cur[t]] = "awaiting-approval"
  /\ \E list \in Lists : releasing' = [sess |-> cur[t], list |-> list]
  /\ releases' = releases + 1
  /\ UNCHANGED <<sessionVars, gate, gateSess, stalled, workerVars, landed,
                 granted, waits, acks, stalls>>

\* Only ids of offered actions count; the list keeps its duplicates.
ValidIds(s, list) == [a \in Acts |-> IF a \in offered[s] THEN list[a] ELSE 0]

\* The rest of release: record the approved ids, set the event (which wakes
\* every task waiting on this session object), and leave the awaiting status.
ReleaseEnd ==
  LET s == releasing.sess
      list == ValidIds(s, releasing.list)
  IN
  /\ ~stalled
  /\ releasing # Idle
  /\ approved' = [approved EXCEPT ![s] = list]
  /\ gate' = [r \in Runs |-> IF gate[r] = "waiting" /\ gateSess[r] = s
                             THEN "woken" ELSE gate[r]]
  /\ status' = [status EXCEPT ![s] = "running"]
  /\ releasing' = Idle
  /\ granted' = [r \in Runs |-> IF gate[r] # "none" /\ gateSess[r] = s
                                THEN granted[r] \union {a \in Acts : list[a] > 0}
                                ELSE granted[r]]
  /\ acks' = [acks EXCEPT ![s] = @ + 1]
  /\ UNCHANGED <<cur, offered, result, gateSess, stalled, workerVars, landed,
                 waits, releases, stalls>>

\* A handler that blocks the loop: post_seed calls load_corpus, minutes of
\* BigQuery I/O, with no await.
StallBegin ==
  /\ LoopFree
  /\ stalls < MaxStalls
  /\ stalled' = TRUE
  /\ stalls' = stalls + 1
  /\ UNCHANGED <<sessionVars, gate, gateSess, releasing, workerVars, landed,
                 granted, waits, acks, releases>>

StallEnd ==
  /\ stalled
  /\ stalled' = FALSE
  /\ UNCHANGED <<sessionVars, gate, gateSess, releasing, workerVars, worldVars>>

-----------------------------------------------------------------------------
(* The worker thread *)

\* run_diagnosis fails before A1: its import, or the agent it builds first.
StartFails(r) ==
  /\ pc[r] = "diagnosing"
  /\ pc' = [pc EXCEPT ![r] = "raised"]
  /\ UNCHANGED <<sessionVars, loopVars, acts, ids, left, writing, tries, receipts,
                 degraded, worldVars>>

\* A1-A6 end with a proposal; A7 asks the gate only if an action needs it.
Diagnose(r) ==
  /\ pc[r] = "diagnosing"
  /\ \E p \in Proposals :
       /\ acts' = [acts EXCEPT ![r] = p]
       /\ pc' = [pc EXCEPT ![r] = IF p \cap WriteActs = {} THEN "summary" ELSE "asking"]
  /\ \E d \in BOOLEAN : degraded' = [degraded EXCEPT ![r] = d]
  /\ UNCHANGED <<sessionVars, loopVars, ids, left, writing, tries, receipts, worldVars>>

\* The worker cancels its gate task: at its await, or before the loop has run
\* the task's first step.
GivesUp(r) ==
  gate' = [gate EXCEPT ![r] = IF pc[r] = "blocked" THEN "cancelled" ELSE "late"]

\* Variant (fault injection): the worker's own timeout leaves no degraded reason.
WorkerTimeoutSilent(r) ==
  /\ stalled
  /\ pc[r] \in {"asking", "blocked"}
  /\ pc' = [pc EXCEPT ![r] = "summary"]
  /\ GivesUp(r)
  /\ UNCHANGED <<sessionVars, gateSess, releasing, stalled, acts, ids, left,
                 writing, tries, receipts, degraded, worldVars>>

\* _ThreadGate's own 150 s timer: TimeoutError inside A7, which degrades to
\* "write-back: ..." with no receipts; the pending gate task is cancelled.
WorkerTimeout(r) ==
  /\ stalled
  /\ pc[r] \in {"asking", "blocked"}
  /\ pc' = [pc EXCEPT ![r] = "summary"]
  /\ GivesUp(r)
  /\ degraded' = [degraded EXCEPT ![r] = TRUE]
  /\ UNCHANGED <<sessionVars, gateSess, releasing, stalled, acts, ids, left,
                 writing, tries, receipts, worldVars>>

\* by_id.get(aid) is None, or a kind that is not written: continue.
SkipId(r, a) ==
  /\ pc[r] = "writing"
  /\ writing[r] = NoAct
  /\ left[r][a] > 0
  /\ a \notin acts[r] \cap WriteActs
  /\ left' = [left EXCEPT ![r][a] = @ - 1]
  /\ UNCHANGED <<sessionVars, loopVars, pc, acts, ids, writing, tries, receipts,
                 degraded, worldVars>>

\* Variant (fault injection): the loop walks the proposed actions, not the approved ids.
StartWriteUnasked(r, a) ==
  /\ pc[r] = "writing"
  /\ writing[r] = NoAct
  /\ a \in acts[r] \cap WriteActs
  /\ left' = [left EXCEPT ![r] = NoList]
  /\ writing' = [writing EXCEPT ![r] = a]
  /\ UNCHANGED <<sessionVars, loopVars, pc, acts, ids, tries, receipts, degraded, worldVars>>

StartWrite(r, a) ==
  /\ pc[r] = "writing"
  /\ writing[r] = NoAct
  /\ left[r][a] > 0
  /\ a \in acts[r] \cap WriteActs
  /\ left' = [left EXCEPT ![r][a] = @ - 1]
  /\ writing' = [writing EXCEPT ![r] = a]
  /\ UNCHANGED <<sessionVars, loopVars, pc, acts, ids, tries, receipts, degraded, worldVars>>

\* Variant (fault injection): only a successful write leaves a receipt.
ReturnOnlyOk(r, kind) ==
  /\ receipts' = [receipts EXCEPT ![r] = IF kind = "ok" THEN @ \union {<<writing[r], kind>>} ELSE @]
  /\ writing' = [writing EXCEPT ![r] = NoAct]
  /\ tries' = [tries EXCEPT ![r] = 0]

\* The guarded write returned: append what it returned to the receipts.
Return(r, kind) ==
  /\ receipts' = [receipts EXCEPT ![r] = @ \union {<<writing[r], kind>>}]
  /\ writing' = [writing EXCEPT ![r] = NoAct]
  /\ tries' = [tries EXCEPT ![r] = 0]

\* Variant (fault injection): the guard counts one attempt too many.
WriteAttemptOnceMore(r) ==
  /\ pc[r] = "writing"
  /\ writing[r] # NoAct
  /\ \E arrived \in {0, 1} :
       /\ landed' = [landed EXCEPT ![r][writing[r]] = @ + arrived]
       /\ \/ arrived = 1 /\ Return(r, "ok")
          \/ Return(r, "failed")
          \/ /\ tries[r] < MaxAttempts
             /\ tries' = [tries EXCEPT ![r] = @ + 1]
             /\ UNCHANGED <<receipts, writing>>
          \/ tries[r] = MaxAttempts /\ Return(r, "degraded")
  /\ UNCHANGED <<sessionVars, loopVars, pc, acts, ids, left, degraded, granted,
                 waits, acks, releases, stalls>>

\* One attempt of mcp_write_annotation / mcp_write_incident_note under the
\* guard.  It answers with a receipt (MCP, or the REST fallback), with a
\* receipt that says the REST call failed, or it raises (MCP session or call
\* error, or the post-join deadline).  Only the first proves that Grafana has
\* the annotation; the others may have lost the answer of a write that landed.
WriteAttempt(r) ==
  /\ pc[r] = "writing"
  /\ writing[r] # NoAct
  /\ \E arrived \in {0, 1} :
       /\ landed' = [landed EXCEPT ![r][writing[r]] = @ + arrived]
       /\ \/ arrived = 1 /\ Return(r, "ok")
          \/ Return(r, "failed")
          \/ /\ tries[r] + 1 < MaxAttempts
             /\ tries' = [tries EXCEPT ![r] = @ + 1]
             /\ UNCHANGED <<receipts, writing>>
          \/ tries[r] + 1 = MaxAttempts /\ Return(r, "degraded")
  /\ UNCHANGED <<sessionVars, loopVars, pc, acts, ids, left, degraded, granted,
                 waits, acks, releases, stalls>>

HasDegradedReceipt(r) == \E a \in Acts : <<a, "degraded">> \in receipts[r]

\* persist_remediation (guarded, never raises) and the write-back envelope:
\* serialising a DegradedResult as a receipt fails, which is one more reason.
EndWriteBack(r) ==
  /\ pc[r] = "writing"
  /\ writing[r] = NoAct
  /\ left[r] = NoList
  /\ degraded' = [degraded EXCEPT ![r] = @ \/ HasDegradedReceipt(r)]
  /\ pc' = [pc EXCEPT ![r] = "summary"]
  /\ UNCHANGED <<sessionVars, loopVars, acts, ids, left, writing, tries, receipts, worldVars>>

\* A8: RunResult rejects a receipt that is not a WriteReceipt, and that
\* ValidationError leaves run_diagnosis.
Summarize(r) ==
  /\ pc[r] = "summary"
  /\ pc' = [pc EXCEPT ![r] = IF HasDegradedReceipt(r) THEN "raised" ELSE "returned"]
  /\ UNCHANGED <<sessionVars, loopVars, acts, ids, left, writing, tries, receipts,
                 degraded, worldVars>>

\* Variant (fault injection): the result is dropped.
StoreResultForgotten(r) ==
  /\ pc[r] = "returned"
  /\ pc' = [pc EXCEPT ![r] = "stored"]
  /\ UNCHANGED <<sessionVars, loopVars, acts, ids, left, writing, tries, receipts,
                 degraded, worldVars>>

\* _main stores the result and the status in two steps, in this order.
StoreResult(r) ==
  /\ pc[r] = "returned"
  /\ result' = [result EXCEPT ![cur[TraceOf[r]]] = r]
  /\ pc' = [pc EXCEPT ![r] = "stored"]
  /\ UNCHANGED <<cur, status, offered, approved, loopVars, acts, ids, left,
                 writing, tries, receipts, degraded, worldVars>>

StoreDone(r) ==
  /\ pc[r] = "stored"
  /\ status' = [status EXCEPT ![cur[TraceOf[r]]] = "done"]
  /\ pc' = [pc EXCEPT ![r] = "closed"]
  /\ UNCHANGED <<cur, offered, approved, result, loopVars, acts, ids, left,
                 writing, tries, receipts, degraded, worldVars>>

\* Variant (fault injection): an exception in the worker leaves the status alone.
StoreErrorForgotten(r) ==
  /\ pc[r] = "raised"
  /\ pc' = [pc EXCEPT ![r] = "failed"]
  /\ UNCHANGED <<sessionVars, loopVars, acts, ids, left, writing, tries, receipts,
                 degraded, worldVars>>

\* The except branch of _main: status first, then the result is cleared.
StoreError(r) ==
  /\ pc[r] = "raised"
  /\ status' = [status EXCEPT ![cur[TraceOf[r]]] = "error"]
  /\ pc' = [pc EXCEPT ![r] = "failed"]
  /\ UNCHANGED <<cur, offered, approved, result, loopVars, acts, ids, left,
                 writing, tries, receipts, degraded, worldVars>>

ClearResult(r) ==
  /\ pc[r] = "failed"
  /\ result' = [result EXCEPT ![cur[TraceOf[r]]] = NoRun]
  /\ pc' = [pc EXCEPT ![r] = "closed"]
  /\ UNCHANGED <<cur, status, offered, approved, loopVars, acts, ids, left,
                 writing, tries, receipts, degraded, worldVars>>

-----------------------------------------------------------------------------
GateStep(r) ==
  GateWait(r) \/ GateWaitLate(r) \/ GateReturn(r) \/ GateTimeout(r) \/ GateCancelled(r)

WorkerStep(r) ==
  \/ StartFails(r)
  \/ Diagnose(r)
  \/ \E a \in Acts : SkipId(r, a) \/ StartWrite(r, a)
  \/ WriteAttempt(r)
  \/ EndWriteBack(r)
  \/ Summarize(r)
  \/ StoreResult(r)
  \/ StoreDone(r)
  \/ StoreError(r)
  \/ ClearResult(r)

Next ==
  \/ \E r \in Runs :
       PostRun(r) \/ GateExpire(r) \/ GateStep(r) \/ WorkerStep(r) \/ WorkerTimeout(r)
  \/ \E t \in Traces : ReleaseRefused(t) \/ ReleaseBegin(t)
  \/ ReleaseEnd
  \/ StallBegin
  \/ StallEnd

\* The loop and the threads are scheduled, timers fire, and a blocking
\* handler returns; nobody has to start a run or to answer the gate.
Fairness ==
  /\ \A r \in Runs : WF_vars(GateStep(r)) /\ WF_vars(GateExpire(r)) /\ WF_vars(WorkerStep(r))
  /\ WF_vars(ReleaseEnd)
  /\ WF_vars(StallEnd)

Spec == Init /\ [][Next]_vars
FairSpec == Spec /\ Fairness

-----------------------------------------------------------------------------
(* Properties *)

\* Every variable stays in its type; the history counters stay in their bounds.
TypeOK ==
  /\ cur \in [Traces -> Runs \union {NoRun}]
  /\ status \in [Runs -> Statuses]
  /\ offered \in [Runs -> SUBSET Acts]
  /\ approved \in [Runs -> Lists]
  /\ result \in [Runs -> Runs \union {NoRun}]
  /\ gate \in [Runs -> GateStates]
  /\ gateSess \in [Runs -> Runs \union {NoRun}]
  /\ releasing \in [sess : Runs \union {NoRun}, list : Lists]
  /\ stalled \in BOOLEAN
  /\ pc \in [Runs -> Points]
  /\ acts \in [Runs -> SUBSET Acts]
  /\ ids \in [Runs -> Lists]
  /\ left \in [Runs -> Lists]
  /\ writing \in [Runs -> Acts \union {NoAct}]
  /\ tries \in [Runs -> 0..(MaxAttempts - 1)]
  /\ receipts \in [Runs -> SUBSET Receipts]
  /\ degraded \in [Runs -> BOOLEAN]
  /\ landed \in [Runs -> [Acts -> Nat]]
  /\ granted \in [Runs -> SUBSET Acts]
  /\ waits \in [Runs -> Nat]
  /\ acks \in [Runs -> Nat]
  /\ releases \in 0..MaxReleases
  /\ stalls \in 0..MaxStalls

\* The gate is the sole gate for human approval (sessions.py:2): whatever a run
\* writes to Grafana is an action it proposed itself, of a kind that is
\* written, and was approved by a release made during that run's own wait.
WritesApproved ==
  \A r \in Runs, a \in Acts :
    landed[r][a] > 0 => a \in granted[r] \cap acts[r] \cap WriteActs

\* One answer per question (UC-06, UC-11): a wait is answered by at most one
\* release, so a late or repeated POST /api/approve returns 0.
AnsweredOnce == \A s \in Runs : acks[s] <= waits[s]

\* An approval that POST /api/approve acknowledged is written or the run says
\* it is degraded: losing the race against a timer is never silent.
NoSilentDrop ==
  \A r \in Runs :
    pc[r] \in {"returned", "stored", "closed"} /\ ~degraded[r] =>
      \A a \in granted[r] \cap acts[r] \cap WriteActs :
        \E kind \in ReceiptKinds : <<a, kind>> \in receipts[r]

\* Once the write loop is over, the receipts account for Grafana: every
\* annotation that landed has a receipt, and a receipt with ok = true is not
\* a lie.
ReceiptsAccount ==
  \A r \in Runs, a \in Acts :
    /\ <<a, "ok">> \in receipts[r] => landed[r][a] > 0
    /\ landed[r][a] > 0 /\ writing[r] # a =>
         \E kind \in ReceiptKinds : <<a, kind>> \in receipts[r]

\* What the UI polls is true.  A session that is "done" has the run's own
\* result; and while the UI is told to ask, somebody waits for the answer: no
\* session is left awaiting by a gate that is gone.  (A gate cancelled while
\* the loop stalled leaves its session awaiting until the worker ends, or for
\* good if the worker's end comes before the gate's late first step.)
StatusHonest ==
  \A s \in Runs :
    /\ status[s] = "done" => result[s] = s
    /\ stalls = 0 /\ status[s] = "awaiting-approval" =>
         \E r \in Runs : gateSess[r] = s /\ gate[r] \in {"waiting", "expired"}

\* A finished session stays finished: no late release, timer or gate turns it
\* back to "running" (the UI polls the status until it is final).  A stalled
\* server loop can break this: the worker's timer then cancels the gate, and
\* the worker may finish between the check and the write of a release, or
\* before the gate's late first step.
StatusSettles ==
  [][\A s \in Runs :
       stalls = 0 /\ status[s] \in {"done", "error"} => status'[s] = status[s]]_vars

\* "Never leave the UI hanging" (app.py:98): a run that was accepted gets a
\* final status and keeps it, whatever the reviewer, Grafana or the timers do,
\* as long as the server loop does not stall.
RunSettles ==
  \A s \in Runs :
    pc[s] = "diagnosing" ~> [](stalls > 0 \/ status[s] \in {"done", "error"})

\* The worker thread itself always ends, also when its session was replaced
\* or the server loop stalls.
WorkerEnds == \A r \in Runs : pc[r] = "diagnosing" ~> pc[r] = "closed"

\* run_diagnosis "Never raises: degrades into RunResult" (agent.py:308), asked
\* here only of runs that got as far as a proposal.
NeverRaises == \A r \in Runs : acts[r] # {} => pc[r] # "raised"

\* The contract of the gate, read off this model: the decision is the list the
\* worker received, and an action is written once Grafana has it.
Contract == INSTANCE ApprovalContract WITH
  decision <- [r \in Runs |-> IF pc[r] \in {"idle", "diagnosing", "asking", "blocked"}
                              THEN Undecided ELSE {a \in Acts : ids[r][a] > 0}],
  written <- [r \in Runs |-> {a \in Acts : landed[r][a] > 0}]
ContractSpec == Contract!Spec
=============================================================================
