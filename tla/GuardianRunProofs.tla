-------------------------- MODULE GuardianRunProofs --------------------------
(***************************************************************************)
(* Theorems about GuardianRun, for any runs, traces, actions and bounds.   *)
(***************************************************************************)
EXTENDS GuardianRun, TLAPS

\* Every look-up of a session finds one: a worker that was started has a
\* session under its trace id, a gate task holds one, a release has one.
SessionsKnown ==
  /\ \A r \in Runs : pc[r] # "idle" => cur[TraceOf[r]] \in Runs
  /\ \A r \in Runs : gate[r] \notin {"none", "late"} => gateSess[r] \in Runs
  /\ releasing # Idle => releasing.sess \in Runs

\* A worker is blocked on the gate exactly while its gate task is pending, and
\* a task without its first step belongs to a worker that has given up.
GateBlocks ==
  \A r \in Runs :
    /\ gate[r] \in {"waiting", "woken", "expired"} <=> pc[r] = "blocked"
    /\ gate[r] = "late" => pc[r] \notin {"idle", "diagnosing", "asking", "blocked"}

TypeInv == TypeOK /\ SessionsKnown /\ GateBlocks

\* The empty list is a list.
LEMMA NoListIsList == NoList \in Lists
  BY ConstantsAssumption DEF NoList, Lists

LEMMA InitTypes == Init => TypeInv
<1> SUFFICES ASSUME Init PROVE TypeInv
  OBVIOUS
<1> USE NoListIsList, ConstantsAssumption DEF Init
<1>1. landed \in [Runs -> [Acts -> Nat]]
  BY DEF NoList
<1>2. releasing \in [sess : Runs \union {NoRun}, list : Lists]
  BY DEF Idle
<1>3. tries \in [Runs -> 0..(MaxAttempts - 1)] /\ releases \in 0..MaxReleases /\ stalls \in 0..MaxStalls
  OBVIOUS
<1>4. SessionsKnown
  BY DEF SessionsKnown
<1>5. GateBlocks
  BY DEF GateBlocks
<1> QED
  BY <1>1, <1>2, <1>3, <1>4, <1>5 DEF TypeInv, TypeOK, Statuses, GateStates, Points

LEMMA NextTypes == TypeInv /\ [Next]_vars => TypeInv'
<1> SUFFICES ASSUME TypeInv, [Next]_vars PROVE TypeInv'
  OBVIOUS
<1> USE NoListIsList, ConstantsAssumption DEF TypeInv, TypeOK, SessionsKnown, GateBlocks
<1>1. ASSUME NEW r \in Runs, PostRun(r) PROVE TypeInv'
  BY <1>1 DEF PostRun, LoopFree, loopVars, worldVars, Statuses, Points
<1>2. ASSUME NEW r \in Runs, GateWait(r) \/ GateWaitLate(r) PROVE TypeInv'
  <2>1. CASE GateWait(r)
    BY <2>1 DEF GateWait, Ask, LoopFree, Statuses, Points, GateStates
  <2>2. CASE GateWaitLate(r)
    BY <2>2 DEF GateWaitLate, Ask, LoopFree, Statuses, Points, GateStates
  <2> QED
    BY <1>2, <2>1, <2>2
<1>3. ASSUME NEW r \in Runs, GateExpire(r) PROVE TypeInv'
  BY <1>3 DEF GateExpire, sessionVars, workerVars, worldVars, GateStates
<1>4. ASSUME NEW r \in Runs, GateReturn(r) PROVE TypeInv'
  <2>1. approved[gateSess[r]] \in Lists
    BY <1>4 DEF GateReturn
  <2>2. degraded' \in [Runs -> BOOLEAN]
    BY <1>4 DEF GateReturn, Receive
  <2>3. ids' \in [Runs -> Lists] /\ left' \in [Runs -> Lists]
    BY <1>4, <2>1 DEF GateReturn, Receive
  <2>4. /\ pc' = [pc EXCEPT ![r] = "writing"]
        /\ gate' = [gate EXCEPT ![r] = "none"]
        /\ UNCHANGED <<sessionVars, gateSess, releasing, stalled, worldVars,
                       acts, writing, tries, receipts>>
    BY <1>4 DEF GateReturn, Receive
  <2> QED
    BY <1>4, <2>2, <2>3, <2>4 DEF GateReturn, sessionVars, worldVars, GateStates, Points
<1>5. ASSUME NEW r \in Runs, GateTimeout(r) PROVE TypeInv'
  <2>1. degraded' \in [Runs -> BOOLEAN]
    BY <1>5 DEF GateTimeout, Receive
  <2>2. ids' \in [Runs -> Lists] /\ left' \in [Runs -> Lists]
    BY <1>5 DEF GateTimeout, Receive
  <2>3. /\ pc' = [pc EXCEPT ![r] = "writing"]
        /\ gate' = [gate EXCEPT ![r] = "none"]
        /\ status' = [status EXCEPT ![gateSess[r]] = "running"]
        /\ offered' = [offered EXCEPT ![gateSess[r]] = {}]
        /\ UNCHANGED <<cur, approved, result, gateSess, releasing, stalled, worldVars,
                       acts, writing, tries, receipts>>
    BY <1>5 DEF GateTimeout, Receive
  <2> QED
    BY <1>5, <2>1, <2>2, <2>3 DEF GateTimeout, worldVars, GateStates, Points, Statuses
<1>6. ASSUME NEW r \in Runs, GateCancelled(r) PROVE TypeInv'
  BY <1>6 DEF GateCancelled, sessionVars, workerVars, worldVars, GateStates
<1>7. ASSUME NEW t \in Traces, ReleaseRefused(t) PROVE TypeInv'
  BY <1>7 DEF ReleaseRefused, sessionVars, loopVars, workerVars
<1>8. ASSUME NEW t \in Traces, ReleaseBegin(t) PROVE TypeInv'
  BY <1>8 DEF ReleaseBegin, sessionVars, workerVars, Lists
<1>9. ASSUME ReleaseEnd PROVE TypeInv'
  BY <1>9 DEF ReleaseEnd, workerVars, ValidIds, Lists, Idle, Statuses, GateStates
<1>10. ASSUME StallBegin PROVE TypeInv'
  BY <1>10 DEF StallBegin, sessionVars, workerVars
<1>11. ASSUME StallEnd PROVE TypeInv'
  BY <1>11 DEF StallEnd, sessionVars, workerVars, worldVars
<1>12. ASSUME NEW r \in Runs, Diagnose(r) PROVE TypeInv'
  <2> USE <1>12 DEF Diagnose
  <2>1. acts' \in [Runs -> SUBSET Acts]
    BY DEF Proposals, Acts
  <2>2. pc' \in [Runs -> Points]
    BY DEF Points
  <2>3. degraded' \in [Runs -> BOOLEAN]
    OBVIOUS
  <2> QED
    BY <2>1, <2>2, <2>3 DEF sessionVars, loopVars, worldVars
<1>13. ASSUME NEW r \in Runs, WorkerTimeout(r) PROVE TypeInv'
  <2>1. degraded' \in [Runs -> BOOLEAN]
    BY <1>13 DEF WorkerTimeout
  <2>2. /\ pc[r] \in {"asking", "blocked"}
        /\ pc' = [pc EXCEPT ![r] = "summary"]
        /\ gate' = [gate EXCEPT ![r] = IF pc[r] = "blocked" THEN "cancelled" ELSE "late"]
        /\ UNCHANGED <<sessionVars, gateSess, releasing, stalled, acts, ids, left,
                       writing, tries, receipts, worldVars>>
    BY <1>13 DEF WorkerTimeout, GivesUp
  <2> QED
    BY <2>1, <2>2 DEF sessionVars, worldVars, Points, GateStates
<1>14. ASSUME NEW r \in Runs, NEW a \in Acts, SkipId(r, a) PROVE TypeInv'
  BY <1>14 DEF SkipId, sessionVars, loopVars, worldVars, Lists
<1>15. ASSUME NEW r \in Runs, NEW a \in Acts, StartWrite(r, a) PROVE TypeInv'
  BY <1>15 DEF StartWrite, sessionVars, loopVars, worldVars, Lists
<1>16. ASSUME NEW r \in Runs, WriteAttempt(r) PROVE TypeInv'
  <2>1. writing[r] \in Acts
    BY <1>16 DEF WriteAttempt
  <2>2. landed' \in [Runs -> [Acts -> Nat]]
    BY <1>16, <2>1 DEF WriteAttempt
  <2>3. \/ \E kind \in ReceiptKinds : Return(r, kind)
        \/ /\ tries[r] + 1 < MaxAttempts
           /\ tries' = [tries EXCEPT ![r] = @ + 1]
           /\ UNCHANGED <<receipts, writing>>
    BY <1>16 DEF WriteAttempt, ReceiptKinds
  <2>4. /\ receipts' \in [Runs -> SUBSET Receipts]
        /\ tries' \in [Runs -> 0..(MaxAttempts - 1)]
        /\ writing' \in [Runs -> Acts \union {NoAct}]
    <3>1. CASE \E kind \in ReceiptKinds : Return(r, kind)
      BY <2>1, <3>1 DEF Return, Receipts
    <3>2. CASE /\ tries[r] + 1 < MaxAttempts
               /\ tries' = [tries EXCEPT ![r] = @ + 1]
               /\ UNCHANGED <<receipts, writing>>
      BY <3>2
    <3> QED
      BY <2>3, <3>1, <3>2
  <2> QED
    BY <1>16, <2>2, <2>4 DEF WriteAttempt, sessionVars, loopVars
<1>17. ASSUME NEW r \in Runs, EndWriteBack(r) PROVE TypeInv'
  BY <1>17 DEF EndWriteBack, HasDegradedReceipt, sessionVars, loopVars, worldVars, Points
<1>18. ASSUME NEW r \in Runs, Summarize(r) PROVE TypeInv'
  BY <1>18 DEF Summarize, sessionVars, loopVars, worldVars, Points
<1>19. ASSUME NEW r \in Runs, StoreResult(r) PROVE TypeInv'
  BY <1>19 DEF StoreResult, loopVars, worldVars, Points
<1>20. ASSUME NEW r \in Runs, StoreDone(r) PROVE TypeInv'
  BY <1>20 DEF StoreDone, loopVars, worldVars, Points, Statuses
<1>21. ASSUME NEW r \in Runs, StoreError(r) PROVE TypeInv'
  BY <1>21 DEF StoreError, loopVars, worldVars, Points, Statuses
<1>22. ASSUME NEW r \in Runs, ClearResult(r) PROVE TypeInv'
  BY <1>22 DEF ClearResult, loopVars, worldVars, Points
<1>23. ASSUME NEW r \in Runs, StartFails(r) PROVE TypeInv'
  BY <1>23 DEF StartFails, sessionVars, loopVars, worldVars, Points
<1>24. CASE UNCHANGED vars
  BY <1>24 DEF vars, sessionVars, loopVars, workerVars, worldVars
<1> QED
  BY <1>1, <1>2, <1>3, <1>4, <1>5, <1>6, <1>7, <1>8, <1>9, <1>10, <1>11, <1>12,
     <1>13, <1>14, <1>15, <1>16, <1>17, <1>18, <1>19, <1>20, <1>21, <1>22, <1>23, <1>24
  DEF Next, GateStep, WorkerStep

\* Type correctness of every reachable state.
THEOREM TypeCorrect == Spec => []TypeOK
<1>1. Init => TypeInv
  BY InitTypes
<1>2. TypeInv /\ [Next]_vars => TypeInv'
  BY NextTypes
<1>3. TypeInv => TypeOK
  BY DEF TypeInv
<1> QED
  BY <1>1, <1>2, <1>3, PTL DEF Spec

-----------------------------------------------------------------------------
(* Consent: nothing reaches Grafana that was not approved *)

\* What run r has done so far lies inside what was approved for it.  An
\* approval travels from the session to the worker's list, to the write in
\* progress, to Grafana; each stage is covered by the one before it.
Covered(r) ==
  /\ gate[r] = "woken" =>
       \A a \in Acts : approved[gateSess[r]][a] > 0 => a \in granted[r]
  /\ \A a \in Acts : ids[r][a] > 0 => a \in granted[r]
  /\ \A a \in Acts : left[r][a] <= ids[r][a]
  /\ writing[r] # NoAct =>
       writing[r] \in acts[r] \cap WriteActs /\ ids[r][writing[r]] > 0
  /\ \A a \in Acts : landed[r][a] > 0 => a \in acts[r] \cap WriteActs /\ ids[r][a] > 0

\* Until the worker has an answer it holds no approval and has written nothing.
Unanswered(r) ==
  pc[r] \in {"idle", "diagnosing", "asking", "blocked"} =>
    ids[r] = NoList /\ writing[r] = NoAct /\ landed[r] = NoList

Consent == \A r \in Runs : Covered(r) /\ Unanswered(r)

LEMMA InitConsent == Init => Consent
  BY ConstantsAssumption DEF Init, Consent, Covered, Unanswered, NoList

\* A step that touches neither the gate's answer nor the worker's writes.
LEMMA ConsentFrame ==
  ASSUME Consent,
         UNCHANGED <<approved, gateSess, granted, ids, left, writing, acts, landed>>,
         \A r \in Runs : gate'[r] = "woken" => gate[r] = "woken",
         \A r \in Runs : pc'[r] \in {"idle", "diagnosing", "asking", "blocked"} =>
                           pc[r] \in {"idle", "diagnosing", "asking", "blocked"}
  PROVE  Consent'
  BY DEF Consent, Covered, Unanswered

LEMMA NextConsent == TypeInv /\ Consent /\ [Next]_vars => Consent'
<1> SUFFICES ASSUME TypeInv, Consent, [Next]_vars PROVE Consent'
  OBVIOUS
<1> USE ConstantsAssumption DEF TypeInv, TypeOK, SessionsKnown, GateBlocks
<1>1. ASSUME NEW r \in Runs, PostRun(r) PROVE Consent'
  BY <1>1, ConsentFrame DEF PostRun, loopVars, worldVars
<1>2. ASSUME NEW r \in Runs, GateWait(r) \/ GateWaitLate(r) PROVE Consent'
  BY <1>2 DEF GateWait, GateWaitLate, Ask, Consent, Covered, Unanswered, NoList
<1>3. ASSUME NEW r \in Runs, GateExpire(r) PROVE Consent'
  BY <1>3, ConsentFrame DEF GateExpire, sessionVars, workerVars, worldVars
<1>4. ASSUME NEW r \in Runs, GateReturn(r) PROVE Consent'
  <2> DEFINE list == approved[gateSess[r]]
  <2>1. /\ gate[r] = "woken"
        /\ gate' = [gate EXCEPT ![r] = "none"]
        /\ pc' = [pc EXCEPT ![r] = "writing"]
        /\ ids' = [ids EXCEPT ![r] = list]
        /\ left' = [left EXCEPT ![r] = list]
        /\ UNCHANGED <<approved, gateSess, granted, writing, acts, landed>>
    BY <1>4 DEF GateReturn, Receive, sessionVars, worldVars
  <2>2. \A a \in Acts : list[a] \in Nat /\ (list[a] > 0 => a \in granted[r])
    BY <2>1 DEF Consent, Covered, Lists
  <2>3. pc[r] = "blocked" /\ writing[r] = NoAct /\ landed[r] = NoList
    BY <2>1 DEF Consent, Unanswered
  <2> HIDE DEF list
  <2> QED
    BY <2>1, <2>2, <2>3 DEF Consent, Covered, Unanswered, NoList
<1>5. ASSUME NEW r \in Runs, GateTimeout(r) PROVE Consent'
  <2>1. /\ gate' = [gate EXCEPT ![r] = "none"]
        /\ pc' = [pc EXCEPT ![r] = "writing"]
        /\ ids' = [ids EXCEPT ![r] = NoList]
        /\ left' = [left EXCEPT ![r] = NoList]
        /\ pc[r] = "blocked"
        /\ UNCHANGED <<approved, gateSess, granted, writing, acts, landed>>
    BY <1>5 DEF GateTimeout, Receive, worldVars
  <2> QED
    BY <2>1 DEF Consent, Covered, Unanswered, NoList
<1>6. ASSUME NEW r \in Runs, GateCancelled(r) PROVE Consent'
  BY <1>6, ConsentFrame DEF GateCancelled, sessionVars, workerVars, worldVars
<1>7. ASSUME NEW t \in Traces, ReleaseRefused(t) PROVE Consent'
  BY <1>7, ConsentFrame DEF ReleaseRefused, sessionVars, loopVars, workerVars
<1>8. ASSUME NEW t \in Traces, ReleaseBegin(t) PROVE Consent'
  BY <1>8, ConsentFrame DEF ReleaseBegin, sessionVars, workerVars
<1>9. ASSUME ReleaseEnd PROVE Consent'
  BY <1>9 DEF ReleaseEnd, workerVars, ValidIds, Consent, Covered, Unanswered
<1>10. ASSUME StallBegin PROVE Consent'
  BY <1>10, ConsentFrame DEF StallBegin, sessionVars, workerVars
<1>11. ASSUME StallEnd PROVE Consent'
  BY <1>11, ConsentFrame DEF StallEnd, sessionVars, workerVars, worldVars
<1>12. ASSUME NEW r \in Runs, Diagnose(r) PROVE Consent'
  BY <1>12 DEF Diagnose, sessionVars, loopVars, worldVars, Consent, Covered, Unanswered, NoList
<1>13. ASSUME NEW r \in Runs, WorkerTimeout(r) PROVE Consent'
  BY <1>13, ConsentFrame DEF WorkerTimeout, GivesUp, sessionVars, worldVars
<1>14. ASSUME NEW r \in Runs, NEW a \in Acts, SkipId(r, a) PROVE Consent'
  BY <1>14 DEF SkipId, sessionVars, loopVars, worldVars, Lists, Consent, Covered, Unanswered
<1>15. ASSUME NEW r \in Runs, NEW a \in Acts, StartWrite(r, a) PROVE Consent'
  BY <1>15 DEF StartWrite, sessionVars, loopVars, worldVars, Lists, Consent, Covered, Unanswered
<1>16. ASSUME NEW r \in Runs, WriteAttempt(r) PROVE Consent'
  <2>1. /\ writing[r] \in acts[r] \cap WriteActs
        /\ ids[r][writing[r]] > 0
        /\ pc[r] = "writing"
    BY <1>16 DEF WriteAttempt, Consent, Covered
  <2>2. PICK arrived \in {0, 1} : landed' = [landed EXCEPT ![r][writing[r]] = @ + arrived]
    BY <1>16 DEF WriteAttempt
  <2>3. /\ \A q \in Runs : writing'[q] \in {writing[q], NoAct}
        /\ UNCHANGED <<approved, gate, gateSess, pc, acts, ids, left, granted>>
    BY <1>16 DEF WriteAttempt, Return, sessionVars, loopVars
  <2>4. \A q \in Runs, a \in Acts :
          landed'[q][a] > 0 => landed[q][a] > 0 \/ (q = r /\ a = writing[r])
    BY <2>1, <2>2
  <2>5. \A q \in Runs : pc[q] # "writing" => landed'[q] = landed[q]
    BY <2>1, <2>2
  <2> QED
    BY <2>1, <2>3, <2>4, <2>5 DEF Consent, Covered, Unanswered
<1>17. ASSUME NEW r \in Runs, EndWriteBack(r) PROVE Consent'
  BY <1>17, ConsentFrame DEF EndWriteBack, sessionVars, loopVars, worldVars
<1>18. ASSUME NEW r \in Runs, Summarize(r) PROVE Consent'
  BY <1>18, ConsentFrame DEF Summarize, sessionVars, loopVars, worldVars
<1>19. ASSUME NEW r \in Runs, StoreResult(r) PROVE Consent'
  BY <1>19, ConsentFrame DEF StoreResult, loopVars, worldVars
<1>20. ASSUME NEW r \in Runs, StoreDone(r) PROVE Consent'
  BY <1>20, ConsentFrame DEF StoreDone, loopVars, worldVars
<1>21. ASSUME NEW r \in Runs, StoreError(r) PROVE Consent'
  BY <1>21, ConsentFrame DEF StoreError, loopVars, worldVars
<1>22. ASSUME NEW r \in Runs, ClearResult(r) PROVE Consent'
  BY <1>22, ConsentFrame DEF ClearResult, loopVars, worldVars
<1>23. ASSUME NEW r \in Runs, StartFails(r) PROVE Consent'
  BY <1>23, ConsentFrame DEF StartFails, sessionVars, loopVars, worldVars
<1>24. CASE UNCHANGED vars
  BY <1>24, ConsentFrame DEF vars, sessionVars, loopVars, workerVars, worldVars
<1> QED
  BY <1>1, <1>2, <1>3, <1>4, <1>5, <1>6, <1>7, <1>8, <1>9, <1>10, <1>11, <1>12,
     <1>13, <1>14, <1>15, <1>16, <1>17, <1>18, <1>19, <1>20, <1>21, <1>22, <1>23, <1>24
  DEF Next, GateStep, WorkerStep

\* The gate is the sole gate for human approval (sessions.py): whatever a run
\* has in Grafana was proposed by that run, is of a kind that is written, and
\* was approved by a release made while that run was waiting, however runs
\* that share a trace id, timers, retries and repeated approvals interleave.
THEOREM ApprovalIsSoleGate == Spec => []WritesApproved
<1>1. Init => TypeInv /\ Consent
  BY InitTypes, InitConsent
<1>2. TypeInv /\ Consent /\ [Next]_vars => (TypeInv /\ Consent)'
  BY NextTypes, NextConsent
<1>3. TypeInv /\ Consent => WritesApproved
  BY DEF Consent, Covered, WritesApproved
<1> QED
  BY <1>1, <1>2, <1>3, PTL DEF Spec

-----------------------------------------------------------------------------
(* One answer per question *)

\* A session that asks has been asked once more than it has been answered,
\* and a release that passed its check keeps that margin until it writes.
Answers ==
  /\ \A s \in Runs : acks[s] <= waits[s]
  /\ \A s \in Runs : status[s] = "awaiting-approval" => acks[s] < waits[s]
  /\ releasing # Idle => acks[releasing.sess] < waits[releasing.sess]

LEMMA InitAnswers == Init => Answers
  BY DEF Init, Answers

\* A step that leaves the counters and the release alone and asks nobody.
LEMMA AnswersFrame ==
  ASSUME Answers,
         UNCHANGED <<acks, waits, releasing>>,
         \A s \in Runs : status'[s] = "awaiting-approval" => status[s] = "awaiting-approval"
  PROVE  Answers'
  BY DEF Answers, Idle

LEMMA NextAnswers == TypeInv /\ Answers /\ [Next]_vars => Answers'
<1> SUFFICES ASSUME TypeInv, Answers, [Next]_vars PROVE Answers'
  OBVIOUS
<1> USE ConstantsAssumption DEF TypeInv, TypeOK, SessionsKnown
<1>1. ASSUME NEW r \in Runs, PostRun(r) PROVE Answers'
  BY <1>1, AnswersFrame DEF PostRun, loopVars, worldVars
<1>2. ASSUME NEW r \in Runs, GateWait(r) \/ GateWaitLate(r) PROVE Answers'
  <2>1. PICK s \in Runs :
          /\ status' = [status EXCEPT ![s] = "awaiting-approval"]
          /\ waits' = [waits EXCEPT ![s] = @ + 1]
          /\ UNCHANGED <<acks, releasing>>
          /\ releasing = Idle
    BY <1>2 DEF GateWait, GateWaitLate, Ask, LoopFree, GateBlocks
  <2> QED
    BY <2>1 DEF Answers, Idle
<1>3. ASSUME NEW r \in Runs, GateExpire(r) PROVE Answers'
  BY <1>3, AnswersFrame DEF GateExpire, sessionVars, worldVars
<1>4. ASSUME NEW r \in Runs, GateReturn(r) PROVE Answers'
  BY <1>4, AnswersFrame DEF GateReturn, sessionVars, worldVars
<1>5. ASSUME NEW r \in Runs, GateTimeout(r) PROVE Answers'
  BY <1>5, AnswersFrame DEF GateTimeout, worldVars
<1>6. ASSUME NEW r \in Runs, GateCancelled(r) PROVE Answers'
  BY <1>6, AnswersFrame DEF GateCancelled, sessionVars, worldVars
<1>7. ASSUME NEW t \in Traces, ReleaseRefused(t) PROVE Answers'
  BY <1>7, AnswersFrame DEF ReleaseRefused, sessionVars, loopVars
<1>8. ASSUME NEW t \in Traces, ReleaseBegin(t) PROVE Answers'
  BY <1>8 DEF ReleaseBegin, sessionVars, Answers
<1>9. ASSUME ReleaseEnd PROVE Answers'
  BY <1>9 DEF ReleaseEnd, Answers
<1>10. ASSUME StallBegin PROVE Answers'
  BY <1>10, AnswersFrame DEF StallBegin, sessionVars
<1>11. ASSUME StallEnd PROVE Answers'
  BY <1>11, AnswersFrame DEF StallEnd, sessionVars, worldVars
<1>12. ASSUME NEW r \in Runs, WorkerTimeout(r) PROVE Answers'
  BY <1>12, AnswersFrame DEF WorkerTimeout, sessionVars, worldVars
<1>13. ASSUME NEW r \in Runs, WorkerStep(r) PROVE Answers'
  <2>1. UNCHANGED <<acks, waits, releasing>>
    BY <1>13 DEF WorkerStep, StartFails, Diagnose, SkipId, StartWrite, WriteAttempt, EndWriteBack,
       Summarize, StoreResult, StoreDone, StoreError, ClearResult, loopVars, worldVars
  <2>2. \/ status' = status
        \/ \E s \in Runs, final \in {"done", "error"} : status' = [status EXCEPT ![s] = final]
    BY <1>13 DEF WorkerStep, StartFails, Diagnose, SkipId, StartWrite, WriteAttempt, EndWriteBack,
       Summarize, StoreResult, StoreDone, StoreError, ClearResult, sessionVars
  <2> QED
    BY <2>1, <2>2, AnswersFrame
<1>14. CASE UNCHANGED vars
  BY <1>14, AnswersFrame DEF vars, sessionVars, loopVars, worldVars
<1> QED
  BY <1>1, <1>2, <1>3, <1>4, <1>5, <1>6, <1>7, <1>8, <1>9, <1>10, <1>11, <1>12,
     <1>13, <1>14
  DEF Next, GateStep

\* A wait is answered by at most one release (UC-06, UC-11), whatever timers
\* fire between a release's check and its writes.
THEOREM OneAnswerPerQuestion == Spec => []AnsweredOnce
<1>1. Init => TypeInv /\ Answers
  BY InitTypes, InitAnswers
<1>2. TypeInv /\ Answers /\ [Next]_vars => (TypeInv /\ Answers)'
  BY NextTypes, NextAnswers
<1>3. Answers => AnsweredOnce
  BY DEF Answers, AnsweredOnce
<1> QED
  BY <1>1, <1>2, <1>3, PTL DEF Spec

-----------------------------------------------------------------------------
(* The run implements the approval contract *)

\* The refinement mapping of Contract, by name.
Decision ==
  [r \in Runs |-> IF pc[r] \in {"idle", "diagnosing", "asking", "blocked"}
                  THEN Undecided ELSE {a \in Acts : ids[r][a] > 0}]
Written == [r \in Runs |-> {a \in Acts : landed[r][a] > 0}]

LEMMA InitRefines == Init => Contract!Init
  BY DEF Init, Contract!Init, NoList

\* A step that neither answers a worker nor reaches Grafana is a stutter.
LEMMA RefinesFrame ==
  ASSUME UNCHANGED <<ids, landed>>,
         \A r \in Runs : pc'[r] \in {"idle", "diagnosing", "asking", "blocked"} <=>
                           pc[r] \in {"idle", "diagnosing", "asking", "blocked"}
  PROVE  Decision' = Decision /\ Written' = Written
  BY DEF Decision, Written

\* The worker leaves the gate, with an answer or by its own timer: a decision.
LEMMA RefinesDecide ==
  ASSUME TypeInv,
         NEW r \in Runs,
         pc[r] \in {"diagnosing", "asking", "blocked"},
         \E p \in {"writing", "summary", "raised"} : pc' = [pc EXCEPT ![r] = p],
         \A q \in Runs \ {r} : ids'[q] = ids[q],
         landed' = landed
  PROVE  \E approvedIds \in SUBSET Acts : Contract!Decide(r, approvedIds)
<1>0. PICK chosen \in SUBSET Acts : chosen = {a \in Acts : ids'[r][a] > 0}
  OBVIOUS
<1>1. Decision[r] = Undecided
  BY DEF Decision
<1>2. Decision' = [Decision EXCEPT ![r] = chosen]
  BY <1>0 DEF Decision, TypeInv, TypeOK
<1>3. Written' = Written
  BY DEF Written
<1>4. Contract!Decide(r, chosen)
  BY <1>1, <1>2, <1>3 DEF Contract!Decide, Decision, Written
<1> QED
  BY <1>4

\* An attempt writes only the action in progress, which was approved.
LEMMA RefinesWrite ==
  ASSUME TypeInv, Consent, NEW r \in Runs, WriteAttempt(r)
  PROVE  (\E a \in Acts : Contract!Write(r, a)) \/ (Decision' = Decision /\ Written' = Written)
<1>0. PICK a \in Acts : a = writing[r]
  BY DEF WriteAttempt, TypeInv, TypeOK
<1>1. a \in Acts /\ ids[r][a] > 0 /\ pc[r] = "writing"
  BY <1>0 DEF WriteAttempt, TypeInv, TypeOK, Consent, Covered
<1>2. PICK arrived \in {0, 1} : landed' = [landed EXCEPT ![r][a] = @ + arrived]
  BY <1>0 DEF WriteAttempt
<1>3. UNCHANGED <<pc, ids>>
  BY DEF WriteAttempt
<1>4. Decision' = Decision
  BY <1>3 DEF Decision
<1>5. CASE arrived = 0
  <2>1. landed' = landed
    BY <1>1, <1>2, <1>5 DEF TypeInv, TypeOK
  <2> QED
    BY <1>4, <2>1 DEF Written
<1>6. CASE arrived = 1
  <2>1. \A q \in Runs, b \in Acts :
          landed'[q][b] > 0 <=> landed[q][b] > 0 \/ (q = r /\ b = a)
    BY <1>1, <1>2, <1>6 DEF TypeInv, TypeOK
  <2>2. Written' = [Written EXCEPT ![r] = @ \union {a}]
    BY <1>1, <2>1 DEF Written
  <2>3. Decision[r] = {b \in Acts : ids[r][b] > 0}
    BY <1>1 DEF Decision
  <2>4. Decision[r] # Undecided /\ a \in Decision[r]
    BY <1>1, <2>3, ConstantsAssumption
  <2>5. Contract!Write(r, a)
    BY <1>4, <2>2, <2>4 DEF Contract!Write, Decision, Written
  <2> QED
    BY <1>1, <2>5
<1> QED
  BY <1>2, <1>5, <1>6

LEMMA NextRefines ==
  TypeInv /\ Consent /\ [Next]_vars => [Contract!Next]_<<Decision, Written>>
<1> SUFFICES ASSUME TypeInv, Consent, [Next]_vars
             PROVE  Contract!Next \/ (Decision' = Decision /\ Written' = Written)
  OBVIOUS
<1> DEFINE Stutters == Decision' = Decision /\ Written' = Written
<1>1. ASSUME NEW r \in Runs, PostRun(r) PROVE Stutters
  BY <1>1, RefinesFrame DEF PostRun, worldVars, TypeInv, TypeOK
<1>2. ASSUME NEW r \in Runs, GateWait(r) \/ GateWaitLate(r) PROVE Stutters
  BY <1>2, RefinesFrame DEF GateWait, GateWaitLate, Ask, TypeInv, TypeOK
<1>3. ASSUME NEW r \in Runs, GateExpire(r) \/ GateCancelled(r) PROVE Stutters
  BY <1>3, RefinesFrame DEF GateExpire, GateCancelled, workerVars, worldVars
<1>4. ASSUME NEW r \in Runs, GateReturn(r) \/ GateTimeout(r) PROVE Contract!Next
  <2>1. pc[r] = "blocked"
    BY <1>4 DEF GateReturn, GateTimeout, TypeInv, GateBlocks
  <2>2. /\ pc' = [pc EXCEPT ![r] = "writing"]
        /\ \A q \in Runs \ {r} : ids'[q] = ids[q]
        /\ landed' = landed
    BY <1>4 DEF GateReturn, GateTimeout, Receive, worldVars, TypeInv, TypeOK
  <2> QED
    BY <2>1, <2>2, RefinesDecide DEF Contract!Next
<1>5. ASSUME NEW t \in Traces, ReleaseRefused(t) \/ ReleaseBegin(t) PROVE Stutters
  BY <1>5, RefinesFrame DEF ReleaseRefused, ReleaseBegin, workerVars
<1>6. ASSUME ReleaseEnd \/ StallBegin \/ StallEnd PROVE Stutters
  BY <1>6, RefinesFrame DEF ReleaseEnd, StallBegin, StallEnd, workerVars, worldVars
<1>7. ASSUME NEW r \in Runs, WorkerTimeout(r) PROVE Contract!Next
  <2>1. /\ pc[r] \in {"asking", "blocked"}
        /\ pc' = [pc EXCEPT ![r] = "summary"]
        /\ ids' = ids
        /\ landed' = landed
    BY <1>7 DEF WorkerTimeout, worldVars
  <2> QED
    BY <2>1, RefinesDecide DEF Contract!Next
<1>8. ASSUME NEW r \in Runs, StartFails(r) \/ Diagnose(r) PROVE Contract!Next \/ Stutters
  <2>1. /\ pc[r] = "diagnosing"
        /\ \/ pc' = [pc EXCEPT ![r] = "summary"]
           \/ pc' = [pc EXCEPT ![r] = "raised"]
           \/ pc' = [pc EXCEPT ![r] = "asking"]
        /\ ids' = ids
        /\ landed' = landed
    BY <1>8 DEF StartFails, Diagnose, worldVars
  <2>2. CASE pc' = [pc EXCEPT ![r] = "summary"] \/ pc' = [pc EXCEPT ![r] = "raised"]
    BY <2>1, <2>2, RefinesDecide DEF Contract!Next
  <2>3. CASE pc' = [pc EXCEPT ![r] = "asking"]
    BY <2>1, <2>3, RefinesFrame DEF TypeInv, TypeOK
  <2> QED
    BY <2>1, <2>2, <2>3
<1>9. ASSUME NEW r \in Runs, WriteAttempt(r) PROVE Contract!Next \/ Stutters
  BY <1>9, RefinesWrite DEF Contract!Next
<1>10. ASSUME NEW r \in Runs,
              \/ \E a \in Acts : SkipId(r, a) \/ StartWrite(r, a)
              \/ EndWriteBack(r) \/ Summarize(r) \/ StoreResult(r) \/ StoreDone(r)
              \/ StoreError(r) \/ ClearResult(r)
       PROVE Stutters
  <2>1. UNCHANGED <<ids, landed>>
    BY <1>10 DEF SkipId, StartWrite, EndWriteBack, Summarize, StoreResult, StoreDone,
       StoreError, ClearResult, worldVars
  <2>2. \/ UNCHANGED pc
        \/ /\ pc[r] \in {"writing", "summary", "returned", "stored", "raised", "failed"}
           /\ \E p \in {"summary", "returned", "stored", "raised", "failed", "closed"} :
                pc' = [pc EXCEPT ![r] = p]
    BY <1>10 DEF SkipId, StartWrite, EndWriteBack, Summarize, StoreResult, StoreDone,
       StoreError, ClearResult
  <2> QED
    BY <2>1, <2>2, RefinesFrame DEF TypeInv, TypeOK
<1>11. CASE UNCHANGED vars
  BY <1>11, RefinesFrame DEF vars, workerVars, worldVars
<1> QED
  BY <1>1, <1>2, <1>3, <1>4, <1>5, <1>6, <1>7, <1>8, <1>9, <1>10, <1>11
  DEF Next, GateStep, WorkerStep

\* The detailed run, with its threads, timers, retries and shared sessions,
\* implements the approval contract.
THEOREM RunImplementsContract == Spec => ContractSpec
<1>1. Init => TypeInv /\ Consent
  BY InitTypes, InitConsent
<1>2. TypeInv /\ Consent /\ [Next]_vars => (TypeInv /\ Consent)'
  BY NextTypes, NextConsent
<1>3. Init => Contract!Init
  BY InitRefines
<1>4. TypeInv /\ Consent /\ [Next]_vars => [Contract!Next]_(Contract!contractVars)
  BY NextRefines DEF Contract!contractVars, Decision, Written
<1> QED
  BY <1>1, <1>2, <1>3, <1>4, PTL DEF Spec, ContractSpec, Contract!Spec

-----------------------------------------------------------------------------
(* The receipts account for Grafana *)

LEMMA AttemptAccounts ==
  ASSUME TypeInv, ReceiptsAccount, NEW r \in Runs, WriteAttempt(r)
  PROVE  ReceiptsAccount'
<1>0. PICK w \in Acts : w = writing[r]
  BY DEF WriteAttempt, TypeInv, TypeOK
<1>1. PICK arrived \in {0, 1} :
        /\ landed' = [landed EXCEPT ![r][w] = @ + arrived]
        /\ \/ arrived = 1 /\ Return(r, "ok")
           \/ Return(r, "failed") \/ Return(r, "degraded")
           \/ UNCHANGED <<receipts, writing>>
  BY <1>0 DEF WriteAttempt
<1>2. \A q \in Runs, a \in Acts :
        /\ landed[q][a] > 0 => landed'[q][a] > 0
        /\ landed'[q][a] > 0 => landed[q][a] > 0 \/ (q = r /\ a = w)
  BY <1>1 DEF TypeInv, TypeOK
<1>3. arrived = 1 => landed'[r][w] > 0
  BY <1>1 DEF TypeInv, TypeOK
<1>4. CASE UNCHANGED <<receipts, writing>>
  BY <1>0, <1>2, <1>4 DEF ReceiptsAccount
<1>5. CASE \E kind \in ReceiptKinds : (kind = "ok" => arrived = 1) /\ Return(r, kind)
  <2>1. PICK kind \in ReceiptKinds : (kind = "ok" => arrived = 1) /\ Return(r, kind)
    BY <1>5
  <2>2. /\ receipts' = [receipts EXCEPT ![r] = @ \union {<<w, kind>>}]
        /\ writing' = [writing EXCEPT ![r] = NoAct]
    BY <1>0, <2>1 DEF Return
  <2>3. \A q \in Runs, a \in Acts, k \in ReceiptKinds :
          <<a, k>> \in receipts'[q] <=>
            <<a, k>> \in receipts[q] \/ (q = r /\ a = w /\ k = kind)
    BY <2>2 DEF TypeInv, TypeOK
  <2>4. \A q \in Runs : q # r => writing'[q] = writing[q]
    BY <2>2 DEF TypeInv, TypeOK
  <2> QED
    BY <1>0, <1>2, <1>3, <2>1, <2>3, <2>4 DEF ReceiptsAccount, ReceiptKinds
<1> QED
  BY <1>1, <1>4, <1>5 DEF ReceiptKinds

LEMMA NextAccounts == TypeInv /\ ReceiptsAccount /\ [Next]_vars => ReceiptsAccount'
<1> SUFFICES ASSUME TypeInv, ReceiptsAccount, [Next]_vars PROVE ReceiptsAccount'
  OBVIOUS
<1>1. ASSUME NEW r \in Runs, WriteAttempt(r) PROVE ReceiptsAccount'
  BY <1>1, AttemptAccounts
<1>2. ASSUME NEW r \in Runs, NEW a \in Acts, StartWrite(r, a) PROVE ReceiptsAccount'
  BY <1>2, ConstantsAssumption DEF StartWrite, worldVars, ReceiptsAccount, TypeInv, TypeOK
<1>3. ASSUME UNCHANGED <<landed, receipts, writing>> PROVE ReceiptsAccount'
  BY <1>3 DEF ReceiptsAccount
<1>4. ASSUME NEW r \in Runs,
             \/ PostRun(r) \/ GateExpire(r) \/ GateStep(r) \/ WorkerTimeout(r)
             \/ StartFails(r) \/ Diagnose(r) \/ EndWriteBack(r) \/ Summarize(r) \/ StoreResult(r)
             \/ StoreDone(r) \/ StoreError(r) \/ ClearResult(r)
             \/ \E a \in Acts : SkipId(r, a)
      PROVE UNCHANGED <<landed, receipts, writing>>
  BY <1>4 DEF PostRun, GateExpire, GateStep, GateWait, GateWaitLate, Ask, GateReturn, GateTimeout, Receive,
     GateCancelled, WorkerTimeout, StartFails, Diagnose, EndWriteBack, Summarize, StoreResult,
     StoreDone, StoreError, ClearResult, SkipId, workerVars, worldVars
<1>5. ASSUME NEW t \in Traces, ReleaseRefused(t) \/ ReleaseBegin(t)
      PROVE UNCHANGED <<landed, receipts, writing>>
  BY <1>5 DEF ReleaseRefused, ReleaseBegin, workerVars
<1>6. ASSUME ReleaseEnd \/ StallBegin \/ StallEnd \/ UNCHANGED vars
      PROVE UNCHANGED <<landed, receipts, writing>>
  BY <1>6 DEF ReleaseEnd, StallBegin, StallEnd, vars, workerVars, worldVars
<1> QED
  BY <1>1, <1>2, <1>3, <1>4, <1>5, <1>6 DEF Next, WorkerStep

\* What a run reports about Grafana is true: an "ok" receipt has its
\* annotation, and every annotation made by a finished write has a receipt.
THEOREM ReceiptsAreTrue == Spec => []ReceiptsAccount
<1>1. Init => TypeInv /\ ReceiptsAccount
  BY InitTypes DEF Init, ReceiptsAccount, NoList
<1>2. TypeInv /\ ReceiptsAccount /\ [Next]_vars => (TypeInv /\ ReceiptsAccount)'
  BY NextTypes, NextAccounts
<1> QED
  BY <1>1, <1>2, PTL DEF Spec
-----------------------------------------------------------------------------
(* Runs that do not share a trace id *)

\* Each accepted POST /api/run has a trace id of its own.  The UI draws one per
\* run; a caller who sends one twice makes two runs share a session object, and
\* then an approval, a result or a status can land in the wrong run.
OneRunPerTrace == \A r, q \in Runs : TraceOf[r] = TraceOf[q] => r = q

\* A started worker and a gate task each work on the session of their own run.
OwnSession ==
  \A r \in Runs :
    /\ pc[r] # "idle" => cur[TraceOf[r]] = r
    /\ gateSess[r] \in {NoRun, r}
    /\ gate[r] \notin {"none", "late"} => gateSess[r] = r

LEMMA InitOwn == Init => OwnSession
  BY DEF Init, OwnSession

LEMMA OwnFrame ==
  ASSUME OwnSession,
         UNCHANGED <<cur, gateSess>>,
         \A r \in Runs : pc'[r] # "idle" => pc[r] # "idle",
         \A r \in Runs : gate'[r] \notin {"none", "late"} => gate[r] \notin {"none", "late"}
  PROVE  OwnSession'
  BY DEF OwnSession

LEMMA NextOwn ==
  ASSUME OneRunPerTrace, TypeInv, OwnSession, [Next]_vars
  PROVE  OwnSession'
<1> USE ConstantsAssumption DEF TypeInv, TypeOK
<1>1. ASSUME NEW r \in Runs, PostRun(r) PROVE OwnSession'
  BY <1>1 DEF PostRun, loopVars, OwnSession, OneRunPerTrace
<1>2. ASSUME NEW r \in Runs, GateWait(r) \/ GateWaitLate(r) PROVE OwnSession'
  <2>1. cur[TraceOf[r]] = r
    BY <1>2 DEF GateWait, GateWaitLate, OwnSession, GateBlocks
  <2> QED
    BY <1>2, <2>1 DEF GateWait, GateWaitLate, Ask, OwnSession
<1>3. ASSUME NEW r \in Runs, GateExpire(r) PROVE OwnSession'
  BY <1>3, OwnFrame DEF GateExpire, sessionVars, workerVars
<1>4. ASSUME NEW r \in Runs, GateReturn(r) \/ GateTimeout(r) PROVE OwnSession'
  BY <1>4, OwnFrame DEF GateReturn, GateTimeout, Receive, sessionVars, GateBlocks
<1>5. ASSUME NEW r \in Runs, GateCancelled(r) PROVE OwnSession'
  BY <1>5, OwnFrame DEF GateCancelled, sessionVars, workerVars
<1>6. ASSUME NEW t \in Traces, ReleaseRefused(t) \/ ReleaseBegin(t) PROVE OwnSession'
  BY <1>6, OwnFrame DEF ReleaseRefused, ReleaseBegin, sessionVars, loopVars, workerVars
<1>7. ASSUME ReleaseEnd PROVE OwnSession'
  BY <1>7, OwnFrame DEF ReleaseEnd, workerVars
<1>8. ASSUME StallBegin \/ StallEnd PROVE OwnSession'
  BY <1>8, OwnFrame DEF StallBegin, StallEnd, sessionVars, workerVars
<1>9. ASSUME NEW r \in Runs, WorkerTimeout(r) PROVE OwnSession'
  BY <1>9, OwnFrame DEF WorkerTimeout, GivesUp, sessionVars, GateBlocks
<1>10. ASSUME NEW r \in Runs, WorkerStep(r) PROVE OwnSession'
  <2>1. UNCHANGED <<cur, gate, gateSess>>
    BY <1>10 DEF WorkerStep, StartFails, Diagnose, SkipId, StartWrite, WriteAttempt, EndWriteBack,
       Summarize, StoreResult, StoreDone, StoreError, ClearResult, sessionVars, loopVars
  <2>2. pc' = pc \/ (pc[r] # "idle" /\ \E p \in Points : pc' = [pc EXCEPT ![r] = p])
    BY <1>10 DEF WorkerStep, StartFails, Diagnose, SkipId, StartWrite, WriteAttempt, EndWriteBack,
       Summarize, StoreResult, StoreDone, StoreError, ClearResult, Points
  <2> QED
    BY <2>1, <2>2, OwnFrame
<1>11. CASE UNCHANGED vars
  BY <1>11, OwnFrame DEF vars, sessionVars, loopVars, workerVars
<1> QED
  BY <1>1, <1>2, <1>3, <1>4, <1>5, <1>6, <1>7, <1>8, <1>9, <1>10, <1>11 DEF Next, GateStep

-----------------------------------------------------------------------------
(* The polled status is true and final *)

\* While a session asks, or a release is between its check and its writes, the
\* gate of that session is still there; only a stalled loop can cancel it.
Asked ==
  /\ stalled => stalls > 0
  /\ releasing # Idle => ~stalled
  /\ \A r \in Runs :
       /\ gate[r] \in {"cancelled", "late"} => stalls > 0
       /\ status[r] = "awaiting-approval" \/ releasing.sess = r =>
            \/ gate[r] \in {"waiting", "expired"}
            \/ stalls > 0 /\ gate[r] # "woken"

\* A final status belongs to a worker that has nothing left to write to its
\* session, and "done" to one whose result is in place.
Settled ==
  \A s \in Runs :
    /\ status[s] \in {"done", "error"} => pc[s] \in {"failed", "closed"}
    /\ status[s] = "done" => pc[s] = "closed"
    /\ pc[s] = "stored" \/ status[s] = "done" => result[s] = s

SessionInv == TypeInv /\ OwnSession /\ Asked /\ Settled

LEMMA InitSettles == Init => Asked /\ Settled
  BY ConstantsAssumption DEF Init, Asked, Settled, Idle

LEMMA AskedFrame ==
  ASSUME Asked,
         UNCHANGED <<releasing, stalled, stalls>>,
         \A r \in Runs : status'[r] = "awaiting-approval" => status[r] = "awaiting-approval",
         \A r \in Runs : gate'[r] # gate[r] =>
                           /\ gate'[r] \in {"none", "expired"}
                           /\ gate'[r] = "none" => /\ status'[r] # "awaiting-approval" \/ stalls > 0
                                                   /\ releasing.sess # r \/ stalls > 0
  PROVE  Asked'
  BY DEF Asked

LEMMA NextAsked ==
  ASSUME TypeInv, OwnSession, Asked, [Next]_vars
  PROVE  Asked'
<1> USE ConstantsAssumption DEF TypeInv, TypeOK
<1>1. ASSUME NEW r \in Runs, PostRun(r) PROVE Asked'
  BY <1>1, AskedFrame DEF PostRun, loopVars, worldVars
<1>2. ASSUME NEW r \in Runs, GateWait(r) \/ GateWaitLate(r) PROVE Asked'
  <2>1. cur[TraceOf[r]] = r
    BY <1>2 DEF GateWait, GateWaitLate, OwnSession, GateBlocks
  <2>2. PICK g \in {"waiting", "cancelled"} :
          /\ gate' = [gate EXCEPT ![r] = g]
          /\ g = "cancelled" => gate[r] = "late"
          /\ status' = [status EXCEPT ![r] = "awaiting-approval"]
          /\ releasing = Idle
          /\ UNCHANGED <<releasing, stalled, stalls>>
    BY <1>2, <2>1 DEF GateWait, GateWaitLate, Ask, LoopFree
  <2> QED
    BY <2>2 DEF Idle, Asked
<1>3. ASSUME NEW r \in Runs, GateExpire(r) PROVE Asked'
  BY <1>3, AskedFrame DEF GateExpire, sessionVars, worldVars
<1>4. ASSUME NEW r \in Runs, GateReturn(r) PROVE Asked'
  <2>1. /\ gate' = [gate EXCEPT ![r] = "none"]
        /\ gate[r] = "woken"
        /\ UNCHANGED <<status, releasing, stalled, stalls>>
    BY <1>4 DEF GateReturn, sessionVars, worldVars
  <2> QED
    BY <2>1, AskedFrame DEF Asked
<1>5. ASSUME NEW r \in Runs, GateTimeout(r) PROVE Asked'
  <2>1. /\ gate' = [gate EXCEPT ![r] = "none"]
        /\ status' = [status EXCEPT ![r] = "running"]
        /\ UNCHANGED <<releasing, stalled, stalls>>
        /\ releasing = Idle
    BY <1>5 DEF GateTimeout, worldVars, OwnSession, LoopFree
  <2> QED
    BY <2>1, AskedFrame DEF Idle
<1>6. ASSUME NEW r \in Runs, GateCancelled(r) PROVE Asked'
  BY <1>6, AskedFrame DEF GateCancelled, sessionVars, worldVars, Asked
<1>7. ASSUME NEW t \in Traces, ReleaseRefused(t) PROVE Asked'
  BY <1>7, AskedFrame DEF ReleaseRefused, sessionVars, loopVars
<1>8. ASSUME NEW t \in Traces, ReleaseBegin(t) PROVE Asked'
  BY <1>8 DEF ReleaseBegin, LoopFree, sessionVars, Asked
<1>9. ASSUME ReleaseEnd PROVE Asked'
  <2> DEFINE s == releasing.sess
  <2>1. /\ s \in Runs
        /\ status' = [status EXCEPT ![s] = "running"]
        /\ gate' = [q \in Runs |-> IF gate[q] = "waiting" /\ gateSess[q] = s
                                   THEN "woken" ELSE gate[q]]
        /\ releasing' = Idle
        /\ ~stalled
        /\ UNCHANGED <<stalled, stalls>>
    BY <1>9 DEF ReleaseEnd, SessionsKnown
  <2>2. \A q \in Runs : q # s => gate'[q] = gate[q] /\ status'[q] = status[q]
    BY <2>1 DEF OwnSession
  <2>3. \A q \in Runs : gate'[q] \in {"cancelled", "late"} => gate'[q] = gate[q]
    BY <2>1
  <2> QED
    BY <2>1, <2>2, <2>3 DEF Asked, Idle
<1>10. ASSUME StallBegin PROVE Asked'
  BY <1>10 DEF StallBegin, LoopFree, sessionVars, Asked
<1>11. ASSUME StallEnd PROVE Asked'
  BY <1>11 DEF StallEnd, sessionVars, worldVars, Asked
<1>12. ASSUME NEW r \in Runs, WorkerTimeout(r) PROVE Asked'
  BY <1>12 DEF WorkerTimeout, GivesUp, sessionVars, worldVars, Asked, GateBlocks
<1>13. ASSUME NEW r \in Runs, WorkerStep(r) PROVE Asked'
  <2>1. UNCHANGED <<gate, releasing, stalled, stalls>>
    BY <1>13 DEF WorkerStep, StartFails, Diagnose, SkipId, StartWrite, WriteAttempt, EndWriteBack,
       Summarize, StoreResult, StoreDone, StoreError, ClearResult, loopVars, worldVars
  <2>2. \/ status' = status
        \/ \E s \in Runs, final \in {"done", "error"} : status' = [status EXCEPT ![s] = final]
    BY <1>13 DEF WorkerStep, StartFails, Diagnose, SkipId, StartWrite, WriteAttempt, EndWriteBack,
       Summarize, StoreResult, StoreDone, StoreError, ClearResult, sessionVars, SessionsKnown
  <2> QED
    BY <2>1, <2>2, AskedFrame
<1>14. CASE UNCHANGED vars
  BY <1>14, AskedFrame DEF vars, sessionVars, loopVars, worldVars
<1> QED
  BY <1>1, <1>2, <1>3, <1>4, <1>5, <1>6, <1>7, <1>8, <1>9, <1>10, <1>11, <1>12, <1>13, <1>14
  DEF Next, GateStep

\* A step that leaves a settled session alone.
LEMMA SettledFrame ==
  ASSUME Settled,
         UNCHANGED <<pc, result>>,
         \A s \in Runs : status'[s] \in {"done", "error"} => status'[s] = status[s]
  PROVE  Settled'
  BY DEF Settled

\* The worker's last steps write to the worker's own session only.
LEMMA StoreSettles ==
  ASSUME SessionInv, NEW r \in Runs,
         StoreResult(r) \/ StoreDone(r) \/ StoreError(r) \/ ClearResult(r)
  PROVE  Settled'
<1> USE DEF SessionInv, TypeInv, TypeOK
<1>1. cur[TraceOf[r]] = r
  BY DEF StoreResult, StoreDone, StoreError, ClearResult, OwnSession
<1>2. CASE StoreResult(r)
  BY <1>1, <1>2 DEF StoreResult, Settled
<1>3. CASE StoreDone(r)
  BY <1>1, <1>3 DEF StoreDone, Settled
<1>4. CASE StoreError(r)
  BY <1>1, <1>4 DEF StoreError, Settled
<1>5. CASE ClearResult(r)
  BY <1>1, <1>5 DEF ClearResult, Settled
<1> QED
  BY <1>2, <1>3, <1>4, <1>5

LEMMA NextSettled ==
  ASSUME SessionInv, [Next]_vars
  PROVE  Settled'
<1> USE DEF SessionInv, TypeInv, TypeOK
<1>1. ASSUME NEW r \in Runs, PostRun(r) PROVE Settled'
  BY <1>1 DEF PostRun, Settled
<1>2. ASSUME NEW r \in Runs, GateWait(r) \/ GateWaitLate(r) PROVE Settled'
  <2>1. PICK s \in Runs : status' = [status EXCEPT ![s] = "awaiting-approval"]
    BY <1>2 DEF GateWait, GateWaitLate, Ask, SessionsKnown, GateBlocks
  <2>2. result' = result
    BY <1>2 DEF GateWait, GateWaitLate, Ask
  <2>3. CASE GateWaitLate(r)
    BY <2>1, <2>2, <2>3, SettledFrame DEF GateWaitLate
  <2>4. CASE GateWait(r)
    BY <2>1, <2>2, <2>4 DEF GateWait, Settled
  <2> QED
    BY <1>2, <2>3, <2>4
<1>3. ASSUME NEW r \in Runs, GateExpire(r) \/ GateCancelled(r) PROVE Settled'
  BY <1>3, SettledFrame DEF GateExpire, GateCancelled, sessionVars, workerVars
<1>4. ASSUME NEW r \in Runs, GateReturn(r) \/ GateTimeout(r) PROVE Settled'
  <2>1. pc[r] = "blocked" /\ gateSess[r] = r
    BY <1>4 DEF GateReturn, GateTimeout, GateBlocks, OwnSession
  <2>2. /\ pc' = [pc EXCEPT ![r] = "writing"]
        /\ result' = result
        /\ status' = status \/ status' = [status EXCEPT ![r] = "running"]
    BY <1>4, <2>1 DEF GateReturn, GateTimeout, Receive, sessionVars
  <2> QED
    BY <2>1, <2>2 DEF Settled
<1>5. ASSUME NEW t \in Traces, ReleaseRefused(t) \/ ReleaseBegin(t) PROVE Settled'
  BY <1>5, SettledFrame DEF ReleaseRefused, ReleaseBegin, sessionVars, workerVars
<1>6. ASSUME ReleaseEnd PROVE Settled'
  BY <1>6, SettledFrame DEF ReleaseEnd, workerVars
<1>7. ASSUME StallBegin \/ StallEnd PROVE Settled'
  BY <1>7, SettledFrame DEF StallBegin, StallEnd, sessionVars, workerVars
<1>8. ASSUME NEW r \in Runs, StoreResult(r) \/ StoreDone(r) \/ StoreError(r) \/ ClearResult(r)
      PROVE Settled'
  BY <1>8, StoreSettles
<1>9. ASSUME NEW r \in Runs,
             \/ StartFails(r) \/ Diagnose(r) \/ WorkerTimeout(r) \/ WriteAttempt(r)
             \/ \E a \in Acts : SkipId(r, a) \/ StartWrite(r, a)
             \/ EndWriteBack(r) \/ Summarize(r)
      PROVE Settled'
  <2>1. UNCHANGED <<status, result>>
    BY <1>9 DEF StartFails, Diagnose, WorkerTimeout, SkipId, StartWrite, WriteAttempt,
       EndWriteBack, Summarize, sessionVars
  <2>2. \/ UNCHANGED pc
        \/ /\ pc[r] \in {"diagnosing", "asking", "blocked", "writing", "summary"}
           /\ \E p \in {"asking", "summary", "raised", "returned"} : pc' = [pc EXCEPT ![r] = p]
    BY <1>9 DEF StartFails, Diagnose, WorkerTimeout, SkipId, StartWrite, WriteAttempt,
       EndWriteBack, Summarize
  <2> QED
    BY <2>1, <2>2 DEF Settled
<1>10. CASE UNCHANGED vars
  BY <1>10, SettledFrame DEF vars, sessionVars, workerVars
<1> QED
  BY <1>1, <1>2, <1>3, <1>4, <1>5, <1>6, <1>7, <1>8, <1>9, <1>10 DEF Next, GateStep, WorkerStep

LEMMA SessionsHold == ASSUME OneRunPerTrace PROVE Spec => []SessionInv
<1>1. Init => SessionInv
  BY InitTypes, InitOwn, InitSettles DEF SessionInv
<1>2. SessionInv /\ [Next]_vars => SessionInv'
  BY NextTypes, NextOwn, NextAsked, NextSettled DEF SessionInv
<1> QED
  BY <1>1, <1>2, PTL DEF Spec

\* What the UI polls is true when runs do not share a trace id: "done" comes
\* with the run's own result, and a session asks only while a gate waits for
\* the answer, unless the server loop has stalled.
THEOREM PolledStatusIsTrue == ASSUME OneRunPerTrace PROVE Spec => []StatusHonest
<1>1. SessionInv => StatusHonest
  BY DEF SessionInv, TypeInv, OwnSession, Asked, Settled, StatusHonest
<1> QED
  BY <1>1, SessionsHold, PTL

\* Outside a stall no step takes a final status back: not a late release, not
\* a timer, not a gate that resumes after its worker has gone.
LEMMA StepSettles ==
  ASSUME SessionInv, [Next]_vars, NEW s \in Runs, stalls = 0, status[s] \in {"done", "error"}
  PROVE  status'[s] = status[s]
<1> USE DEF SessionInv, TypeInv, TypeOK
<1>0. pc[s] \in {"failed", "closed"} /\ gate[s] \in {"none", "cancelled"}
  BY DEF Settled, GateBlocks, GateStates, Asked
<1>1. ASSUME NEW r \in Runs, PostRun(r) PROVE status'[s] = status[s]
  BY <1>0, <1>1 DEF PostRun
<1>2. ASSUME NEW r \in Runs, GateWait(r) \/ GateWaitLate(r) PROVE status'[s] = status[s]
  <2>1. r # s /\ cur[TraceOf[r]] = r
    BY <1>0, <1>2 DEF GateWait, GateWaitLate, OwnSession, GateBlocks
  <2> QED
    BY <1>2, <2>1 DEF GateWait, GateWaitLate, Ask
<1>3. ASSUME NEW r \in Runs, GateTimeout(r) PROVE status'[s] = status[s]
  BY <1>0, <1>3 DEF GateTimeout, OwnSession
<1>4. ASSUME ReleaseEnd PROVE status'[s] = status[s]
  <2>1. ~(stalls > 0)
    OBVIOUS
  <2>2. releasing.sess = s => gate[s] \in {"waiting", "expired"}
    BY <2>1, Zenon DEF Asked
  <2>3. releasing.sess # s
    BY <1>0, <2>2
  <2> QED
    BY <1>4, <2>3 DEF ReleaseEnd
<1>5. ASSUME NEW r \in Runs, WorkerStep(r) PROVE status'[s] = status[s]
  <2>1. \/ status' = status
        \/ /\ pc[r] \in {"stored", "raised"}
           /\ \E final \in {"done", "error"} : status' = [status EXCEPT ![cur[TraceOf[r]]] = final]
    BY <1>5 DEF WorkerStep, StartFails, Diagnose, SkipId, StartWrite, WriteAttempt, EndWriteBack,
       Summarize, StoreResult, StoreDone, StoreError, ClearResult, sessionVars
  <2> QED
    BY <1>0, <2>1 DEF OwnSession
<1>6. ASSUME NEW r \in Runs,
             GateExpire(r) \/ GateReturn(r) \/ GateCancelled(r) \/ WorkerTimeout(r)
      PROVE status'[s] = status[s]
  BY <1>6 DEF GateExpire, GateReturn, GateCancelled, WorkerTimeout, sessionVars
<1>7. ASSUME NEW t \in Traces, ReleaseRefused(t) \/ ReleaseBegin(t) PROVE status'[s] = status[s]
  BY <1>7 DEF ReleaseRefused, ReleaseBegin, sessionVars
<1>8. ASSUME StallBegin \/ StallEnd \/ UNCHANGED vars PROVE status'[s] = status[s]
  BY <1>8 DEF StallBegin, StallEnd, vars, sessionVars
<1> QED
  BY <1>1, <1>2, <1>3, <1>4, <1>5, <1>6, <1>7, <1>8 DEF Next, GateStep

\* A finished session stays finished while the server loop has not stalled.
THEOREM FinishedStaysFinished == ASSUME OneRunPerTrace PROVE Spec => StatusSettles
<1>1. SessionInv /\ [Next]_vars =>
        [\A s \in Runs :
           stalls = 0 /\ status[s] \in {"done", "error"} => status'[s] = status[s]]_vars
  BY StepSettles
<1> QED
  BY <1>1, SessionsHold, PTL DEF Spec, StatusSettles

-----------------------------------------------------------------------------
(* An acknowledged approval is not dropped silently *)

\* Approved for run r, proposed by it, and of a kind that is written.
Due(r) == granted[r] \cap acts[r] \cap WriteActs

HasReceipt(r, a) == \E kind \in ReceiptKinds : <<a, kind>> \in receipts[r]

\* Where an approval is on its way from the release to its receipt.  Until the
\* run asks there is none; a woken gate finds all of it in the session; an
\* expired or cancelled gate makes the run degraded; the write loop has it
\* ahead, in progress or behind.
Heard(r) ==
  /\ pc[r] \in {"idle", "diagnosing", "asking"} => gate[r] = "none" /\ granted[r] = {}
  /\ gate[r] = "waiting" => granted[r] = {}
  /\ gate[r] = "woken" => \A a \in granted[r] : approved[r][a] > 0
  /\ gate[r] \in {"cancelled", "late"} => degraded[r]
  /\ pc[r] = "writing" /\ ~degraded[r] =>
       \A a \in Due(r) : left[r][a] > 0 \/ writing[r] = a \/ HasReceipt(r, a)
  /\ pc[r] \notin {"idle", "diagnosing", "asking", "blocked", "writing"} /\ ~degraded[r] =>
       \A a \in Due(r) : HasReceipt(r, a)

HeardInv == SessionInv /\ \A r \in Runs : Heard(r)

LEMMA InitHeard == Init => \A r \in Runs : Heard(r)
  BY DEF Init, Heard

\* A step that leaves run q and what was approved for it alone.
LEMMA HeardFrame ==
  ASSUME NEW q \in Runs, Heard(q),
         pc'[q] = pc[q], acts'[q] = acts[q], left'[q] = left[q], writing'[q] = writing[q],
         receipts'[q] = receipts[q], granted'[q] = granted[q],
         approved'[q] = approved[q], degraded'[q] = degraded[q],
         \/ gate'[q] \in {gate[q], "none"}
         \/ gate'[q] = "expired" /\ pc[q] = "blocked"
  PROVE  Heard(q)'
  BY DEF Heard, Due, HasReceipt

\* The worker leaves the gate: with the session's list, or degraded.
LEMMA HeardReceive ==
  ASSUME HeardInv, NEW r \in Runs, GateReturn(r) \/ GateTimeout(r)
  PROVE  \A q \in Runs : Heard(q)'
<1> USE DEF HeardInv, SessionInv, TypeInv, TypeOK
<1>1. gateSess[r] = r /\ pc[r] = "blocked"
  BY DEF GateReturn, GateTimeout, OwnSession, GateBlocks
<1>2. PICK list \in Lists :
        /\ gate[r] = "woken" => list = approved[r]
        /\ gate[r] = "expired" => list = NoList
        /\ gate[r] \in {"woken", "expired"}
        /\ Receive(r, list)
  BY <1>1, NoListIsList DEF GateReturn, GateTimeout
<1>3. /\ gate' = [gate EXCEPT ![r] = "none"]
      /\ UNCHANGED <<approved, granted, acts, writing, receipts>>
  BY DEF GateReturn, GateTimeout, Receive, sessionVars, worldVars
<1>4. /\ pc' = [pc EXCEPT ![r] = "writing"]
      /\ left' = [left EXCEPT ![r] = list]
      /\ degraded' = [degraded EXCEPT ![r] = @ \/ list = NoList]
  BY <1>2 DEF Receive
<1>5. Heard(r)'
  <2>1. pc'[r] = "writing" /\ gate'[r] = "none" /\ left'[r] = list
    BY <1>3, <1>4
  <2>2. list = NoList => degraded'[r]
    BY <1>4, Zenon
  <2>3. CASE gate[r] = "woken"
    BY <1>2, <1>3, <2>1, <2>3 DEF Heard, Due
  <2>4. CASE gate[r] = "expired"
    BY <1>2, <2>1, <2>2, <2>4 DEF Heard
  <2> QED
    BY <1>2, <2>3, <2>4
<1>6. ASSUME NEW q \in Runs, q # r PROVE Heard(q)'
  <2>1. pc'[q] = pc[q] /\ left'[q] = left[q] /\ gate'[q] = gate[q]
    BY <1>3, <1>4, <1>6
  <2>2. degraded'[q] = degraded[q]
    BY <1>4, <1>6, Zenon
  <2> QED
    BY <1>3, <2>1, <2>2, HeardFrame
<1> QED
  BY <1>5, <1>6

\* A release reaches the run whose session it answers.
LEMMA HeardRelease ==
  ASSUME HeardInv, ReleaseEnd
  PROVE  \A q \in Runs : Heard(q)'
<1> USE DEF HeardInv, SessionInv, TypeInv, TypeOK
<1>0. PICK s \in Runs : s = releasing.sess
  BY DEF ReleaseEnd, SessionsKnown
<1> DEFINE list == ValidIds(s, releasing.list)
<1>1. /\ gate[s] # "woken"
      /\ approved' = [approved EXCEPT ![s] = list]
      /\ gate' = [q \in Runs |-> IF gate[q] = "waiting" /\ gateSess[q] = s
                                 THEN "woken" ELSE gate[q]]
      /\ granted' = [q \in Runs |-> IF gate[q] # "none" /\ gateSess[q] = s
                                    THEN granted[q] \union {a \in Acts : list[a] > 0}
                                    ELSE granted[q]]
      /\ UNCHANGED <<pc, acts, left, writing, receipts, degraded>>
  BY <1>0 DEF ReleaseEnd, Asked, workerVars
<1>2. ASSUME NEW q \in Runs, q # s PROVE Heard(q)'
  <2>1. gate'[q] = gate[q] /\ granted'[q] = granted[q] /\ approved'[q] = approved[q]
    BY <1>0, <1>1, <1>2, ConstantsAssumption DEF OwnSession
  <2> QED
    BY <1>1, <2>1, HeardFrame
<1>3. Heard(s)'
  <2> HIDE DEF list
  <2>1. approved'[s] = list
    BY <1>1
  <2>2. CASE gate[s] = "none"
    <3>1. gate'[s] = "none" /\ granted'[s] = granted[s]
      BY <1>1, <2>2
    <3> QED
      BY <1>1, <3>1 DEF Heard, Due, HasReceipt
  <2>3. CASE gate[s] = "waiting"
    <3>1. gate'[s] = "woken" /\ granted'[s] = {a \in Acts : list[a] > 0} /\ pc'[s] = "blocked"
      BY <1>1, <2>3 DEF OwnSession, Heard, GateBlocks
    <3> QED
      BY <2>1, <3>1 DEF Heard
  <2>4. CASE gate[s] = "expired"
    <3>1. gate'[s] = "expired" /\ pc'[s] = "blocked"
      BY <1>1, <2>4 DEF GateBlocks
    <3> QED
      BY <3>1 DEF Heard
  <2>5. CASE gate[s] \in {"cancelled", "late"}
    <3>1. gate'[s] = gate[s] /\ degraded'[s] /\ pc'[s] = pc[s]
      BY <1>1, <2>5 DEF Heard
    <3> QED
      BY <2>5, <3>1 DEF Heard
  <2> QED
    BY <1>1, <2>2, <2>3, <2>4, <2>5 DEF GateStates
<1> QED
  BY <1>1, <1>2, <1>3

\* The write loop: an id leaves the list only for the write in progress or
\* because it needs no write, and a write ends with a receipt.
LEMMA HeardWrite ==
  ASSUME HeardInv, NEW r \in Runs,
         \/ \E a \in Acts : SkipId(r, a) \/ StartWrite(r, a)
         \/ WriteAttempt(r)
  PROVE  \A q \in Runs : Heard(q)'
<1> USE DEF HeardInv, SessionInv, TypeInv, TypeOK
<1>1. /\ pc[r] = "writing"
      /\ UNCHANGED <<pc, gate, approved, granted, acts, degraded>>
  BY DEF SkipId, StartWrite, WriteAttempt, sessionVars, loopVars, worldVars
<1>2. \A q \in Runs \ {r} :
        left'[q] = left[q] /\ writing'[q] = writing[q] /\ receipts'[q] = receipts[q]
  BY DEF SkipId, StartWrite, WriteAttempt, Return
<1>3. ASSUME NEW q \in Runs, q # r PROVE Heard(q)'
  BY <1>1, <1>2, <1>3, HeardFrame
<1>4. \A b \in Due(r) :
        left[r][b] > 0 \/ writing[r] = b \/ HasReceipt(r, b) =>
          left'[r][b] > 0 \/ writing'[r] = b \/ HasReceipt(r, b)'
  <2>1. ASSUME NEW a \in Acts, SkipId(r, a), NEW b \in Due(r)
        PROVE  left[r][b] > 0 \/ writing[r] = b \/ HasReceipt(r, b) =>
                 left'[r][b] > 0 \/ writing'[r] = b \/ HasReceipt(r, b)'
    <3>1. b \in Acts /\ b # a
      BY <2>1 DEF SkipId, Due
    <3>2. left'[r][b] = left[r][b] /\ UNCHANGED <<writing, receipts>>
      BY <2>1, <3>1 DEF SkipId, Lists
    <3> QED
      BY <3>2 DEF HasReceipt
  <2>2. ASSUME NEW a \in Acts, StartWrite(r, a), NEW b \in Due(r)
        PROVE  left[r][b] > 0 \/ writing[r] = b \/ HasReceipt(r, b) =>
                 left'[r][b] > 0 \/ writing'[r] = b \/ HasReceipt(r, b)'
    <3>1. b \in Acts /\ b # NoAct /\ a # NoAct
      BY ConstantsAssumption DEF Due, Acts
    <3> QED
      BY <2>2, <3>1 DEF StartWrite, HasReceipt
  <2>3. ASSUME WriteAttempt(r), NEW b \in Due(r)
        PROVE  left[r][b] > 0 \/ writing[r] = b \/ HasReceipt(r, b) =>
                 left'[r][b] > 0 \/ writing'[r] = b \/ HasReceipt(r, b)'
    <3>1. \/ UNCHANGED <<left, writing, receipts>>
          \/ /\ left' = left
             /\ \E kind \in ReceiptKinds :
                  receipts' = [receipts EXCEPT ![r] = @ \union {<<writing[r], kind>>}]
      BY <2>3 DEF WriteAttempt, Return, ReceiptKinds
    <3> QED
      BY <3>1 DEF HasReceipt
  <2> QED
    BY <2>1, <2>2, <2>3
<1>5. Heard(r)'
  BY <1>1, <1>4 DEF Heard, Due, GateBlocks
<1> QED
  BY <1>3, <1>5

LEMMA NextHeard ==
  ASSUME HeardInv, [Next]_vars
  PROVE  \A q \in Runs : Heard(q)'
<1> USE DEF HeardInv, SessionInv, TypeInv, TypeOK
<1>1. ASSUME NEW r \in Runs, PostRun(r) PROVE \A q \in Runs : Heard(q)'
  <2>1. ASSUME NEW q \in Runs, q # r PROVE Heard(q)'
    BY <1>1, <2>1, HeardFrame DEF PostRun, loopVars, worldVars
  <2>2. Heard(r)'
    BY <1>1 DEF PostRun, loopVars, worldVars, Heard
  <2> QED
    BY <2>1, <2>2
<1>2. ASSUME NEW r \in Runs, GateWait(r) \/ GateWaitLate(r) PROVE \A q \in Runs : Heard(q)'
  <2>1. cur[TraceOf[r]] = r
    BY <1>2 DEF GateWait, GateWaitLate, OwnSession, GateBlocks
  <2>2. ASSUME NEW q \in Runs, q # r PROVE Heard(q)'
    BY <1>2, <2>1, <2>2, HeardFrame DEF GateWait, GateWaitLate, Ask
  <2>3. Heard(r)'
    <3>1. CASE GateWait(r)
      BY <3>1 DEF GateWait, Ask, Heard
    <3>2. CASE GateWaitLate(r)
      <4>1. /\ gate'[r] = "cancelled" /\ degraded[r]
            /\ pc[r] \notin {"idle", "diagnosing", "asking"}
            /\ UNCHANGED <<pc, acts, left, writing, receipts, granted, degraded>>
        BY <3>2 DEF GateWaitLate, Ask, Heard, GateBlocks
      <4> QED
        BY <4>1 DEF Heard
    <3> QED
      BY <1>2, <3>1, <3>2
  <2> QED
    BY <2>2, <2>3
<1>3. ASSUME NEW r \in Runs, GateExpire(r) PROVE \A q \in Runs : Heard(q)'
  BY <1>3, HeardFrame DEF GateExpire, sessionVars, workerVars, worldVars, GateBlocks
<1>4. ASSUME NEW r \in Runs, GateReturn(r) \/ GateTimeout(r) PROVE \A q \in Runs : Heard(q)'
  BY <1>4, HeardReceive
<1>5. ASSUME NEW r \in Runs, GateCancelled(r) PROVE \A q \in Runs : Heard(q)'
  BY <1>5, HeardFrame DEF GateCancelled, sessionVars, workerVars, worldVars
<1>6. ASSUME NEW t \in Traces, ReleaseRefused(t) \/ ReleaseBegin(t) PROVE \A q \in Runs : Heard(q)'
  BY <1>6, HeardFrame DEF ReleaseRefused, ReleaseBegin, sessionVars, loopVars, workerVars
<1>7. ASSUME ReleaseEnd PROVE \A q \in Runs : Heard(q)'
  BY <1>7, HeardRelease
<1>8. ASSUME StallBegin \/ StallEnd \/ UNCHANGED vars PROVE \A q \in Runs : Heard(q)'
  BY <1>8, HeardFrame DEF StallBegin, StallEnd, vars, sessionVars, loopVars, workerVars, worldVars
<1>9. ASSUME NEW r \in Runs, WorkerTimeout(r) PROVE \A q \in Runs : Heard(q)'
  <2>1. /\ pc[r] \in {"asking", "blocked"}
        /\ pc' = [pc EXCEPT ![r] = "summary"]
        /\ degraded' = [degraded EXCEPT ![r] = TRUE]
        /\ gate' = [gate EXCEPT ![r] = IF pc[r] = "blocked" THEN "cancelled" ELSE "late"]
        /\ UNCHANGED <<approved, acts, left, writing, receipts, granted>>
    BY <1>9 DEF WorkerTimeout, GivesUp, sessionVars, worldVars
  <2>2. ASSUME NEW q \in Runs, q # r PROVE Heard(q)'
    BY <2>1, <2>2, HeardFrame
  <2>3. Heard(r)'
    <3>1. pc'[r] = "summary" /\ degraded'[r] /\ gate'[r] \in {"cancelled", "late"}
      BY <2>1
    <3> QED
      BY <3>1 DEF Heard
  <2> QED
    BY <2>2, <2>3
<1>10. ASSUME NEW r \in Runs, Diagnose(r) PROVE \A q \in Runs : Heard(q)'
  <2>1. /\ pc[r] = "diagnosing"
        /\ pc' = [pc EXCEPT ![r] = "summary"] \/ pc' = [pc EXCEPT ![r] = "asking"]
        /\ UNCHANGED <<approved, gate, left, writing, receipts, granted>>
        /\ \A q \in Runs \ {r} : acts'[q] = acts[q] /\ degraded'[q] = degraded[q]
    BY <1>10 DEF Diagnose, sessionVars, loopVars, worldVars
  <2>2. ASSUME NEW q \in Runs, q # r PROVE Heard(q)'
    BY <2>1, <2>2, HeardFrame
  <2>3. Heard(r)'
    <3>1. gate'[r] = "none" /\ granted'[r] = {} /\ pc'[r] \in {"asking", "summary"}
      BY <2>1 DEF Heard
    <3> QED
      BY <3>1 DEF Heard, Due
  <2> QED
    BY <2>2, <2>3
<1>11. ASSUME NEW r \in Runs,
              \/ \E a \in Acts : SkipId(r, a) \/ StartWrite(r, a)
              \/ WriteAttempt(r)
       PROVE \A q \in Runs : Heard(q)'
  BY <1>11, HeardWrite
<1>12. ASSUME NEW r \in Runs, EndWriteBack(r) PROVE \A q \in Runs : Heard(q)'
  <2>1. /\ pc[r] = "writing" /\ writing[r] = NoAct /\ left[r] = NoList
        /\ pc' = [pc EXCEPT ![r] = "summary"]
        /\ UNCHANGED <<approved, gate, acts, left, writing, receipts, granted>>
    BY <1>12 DEF EndWriteBack, sessionVars, loopVars, worldVars
  <2>2. /\ \A q \in Runs \ {r} : degraded'[q] = degraded[q]
        /\ degraded[r] => degraded'[r]
    BY <1>12, Zenon DEF EndWriteBack
  <2>3. ASSUME NEW q \in Runs, q # r PROVE Heard(q)'
    BY <2>1, <2>2, <2>3, HeardFrame
  <2>4. ASSUME ~degraded'[r], NEW a \in Due(r) PROVE HasReceipt(r, a)
    <3>1. a # NoAct /\ ~(left[r][a] > 0)
      BY <2>1, ConstantsAssumption DEF Due, Acts, NoList
    <3> QED
      BY <2>1, <2>2, <2>4, <3>1 DEF Heard
  <2>5. Heard(r)'
    <3>1. pc'[r] = "summary" /\ gate'[r] = gate[r] /\ granted'[r] = granted[r] /\ acts'[r] = acts[r]
          /\ receipts' = receipts
      BY <2>1
    <3>2. gate[r] \notin {"waiting", "woken"} /\ (gate[r] \in {"cancelled", "late"} => degraded'[r])
      BY <2>1, <2>2 DEF Heard, GateBlocks
    <3> QED
      BY <2>4, <3>1, <3>2 DEF Heard, Due, HasReceipt
  <2> QED
    BY <2>3, <2>5
<1>13. ASSUME NEW r \in Runs,
              \/ StartFails(r) \/ Summarize(r) \/ StoreResult(r) \/ StoreDone(r)
              \/ StoreError(r) \/ ClearResult(r)
       PROVE \A q \in Runs : Heard(q)'
  <2>1. /\ pc[r] \in {"diagnosing", "summary", "returned", "stored", "raised", "failed"}
        /\ \E p \in {"returned", "raised", "stored", "failed", "closed"} :
             pc' = [pc EXCEPT ![r] = p]
        /\ UNCHANGED <<approved, gate, acts, left, writing, receipts, granted, degraded>>
    BY <1>13 DEF StartFails, Summarize, StoreResult, StoreDone, StoreError, ClearResult,
       sessionVars, loopVars, worldVars
  <2>2. ASSUME NEW q \in Runs, q # r PROVE Heard(q)'
    BY <2>1, <2>2, HeardFrame
  <2>3. Heard(r)'
    BY <2>1 DEF Heard, Due, HasReceipt
  <2> QED
    BY <2>2, <2>3
<1> QED
  BY <1>1, <1>2, <1>3, <1>4, <1>5, <1>6, <1>7, <1>8, <1>9, <1>10, <1>11, <1>12, <1>13
  DEF Next, GateStep, WorkerStep

\* An approval that POST /api/approve acknowledged is written or the run says
\* it is degraded, whichever of release, timers and stalled loop wins: it holds
\* for runs that do not share a trace id.
THEOREM ApprovalNotDroppedSilently == ASSUME OneRunPerTrace PROVE Spec => []NoSilentDrop
<1>1. Init => HeardInv
  BY InitTypes, InitOwn, InitSettles, InitHeard DEF HeardInv, SessionInv
<1>2. HeardInv /\ [Next]_vars => HeardInv'
  BY NextTypes, NextOwn, NextAsked, NextSettled, NextHeard DEF HeardInv, SessionInv
<1>3. HeardInv => NoSilentDrop
  BY DEF HeardInv, Heard, NoSilentDrop, Due, HasReceipt
<1> QED
  BY <1>1, <1>2, <1>3, PTL DEF Spec
=============================================================================
