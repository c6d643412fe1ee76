------------------------------ MODULE Rehearsal ------------------------------
(***************************************************************************)
(* `faqdef rehearse' (src/ideation/faqdef/rehearse.ts): asks some of the   *)
(* questions of a sheet, each under a time budget, and has a model judge   *)
(* the answers.  A timer is never cancelled, only ignored once its         *)
(* question is settled, and it keeps the process alive.                    *)
(***************************************************************************)
EXTENDS Naturals, FiniteSets

CONSTANT MaxAsked  \* questions drawn from the sheet

VARIABLES
  rPc, rQuestion, rLast,
  rTimers,   \* questions whose timer has not fired
  rExpired,  \* history: questions submitted unanswered
  rLog       \* questions with a line in the session log

rehearsalVars == <<rPc, rQuestion, rLast, rTimers, rExpired, rLog>>

RehearsalInit ==
  /\ rPc = "idle" /\ rQuestion = 0 /\ rLast = 0
  /\ rTimers = {} /\ rExpired = {} /\ rLog = {}

Ask(i) == rPc' = "asking" /\ rQuestion' = i /\ rTimers' = rTimers \union {i}

(* Without a readable sheet, or with none of its questions about the axes  *)
(* asked for, there is no session.                                         *)
RehearseStart ==
  /\ rPc = "idle"
  /\ \/ rLast' \in 1..MaxAsked /\ Ask(1)
     \/ rPc' = "ended" /\ UNCHANGED <<rQuestion, rLast, rTimers>>
  /\ UNCHANGED <<rExpired, rLog>>

(* Answered with the return key; the timer keeps running.                  *)
AnswerLine ==
  /\ rPc = "asking" /\ rPc' = "judging"
  /\ UNCHANGED <<rQuestion, rLast, rTimers, rExpired, rLog>>

\* Variant (fault injection): whatever timer fires submits the question being asked.
TimerFires_Any ==
  /\ rTimers # {}
  /\ LET i == CHOOSE i \in rTimers : \A j \in rTimers : i <= j IN
     /\ rTimers' = rTimers \ {i}
     /\ IF rPc = "asking"
        THEN rPc' = "judging" /\ rExpired' = rExpired \union {rQuestion}
        ELSE UNCHANGED <<rPc, rExpired>>
  /\ UNCHANGED <<rQuestion, rLast, rLog>>

(* Timers of one budget fire in the order they were set; that of an        *)
(* answered question finds it settled.  What had been typed is lost: the   *)
(* question is submitted empty.                                            *)
TimerFires ==
  /\ rTimers # {}
  /\ LET i == CHOOSE i \in rTimers : \A j \in rTimers : i <= j IN
     /\ rTimers' = rTimers \ {i}
     /\ IF rPc = "asking" /\ i = rQuestion
        THEN rPc' = "judging" /\ rExpired' = rExpired \union {i}
        ELSE UNCHANGED <<rPc, rExpired>>
  /\ UNCHANGED <<rQuestion, rLast, rLog>>

(* The judge's call is bounded by the wrapper.  An answer no score can be  *)
(* parsed from is logged and passed over.                                  *)
Judged ==
  /\ rPc = "judging"
  /\ rLog' = rLog \union {rQuestion}
  /\ IF rQuestion < rLast THEN Ask(rQuestion + 1)
     ELSE rPc' = "draining" /\ UNCHANGED <<rQuestion, rTimers>>
  /\ UNCHANGED <<rLast, rExpired>>

(* The wrapper degraded: the session is over, and its log is not written.  *)
JudgeUnavailable ==
  /\ rPc = "judging" /\ rPc' = "draining" /\ rLog' = {}
  /\ UNCHANGED <<rQuestion, rLast, rTimers, rExpired>>

(* The exit code is only set: pending timers keep the process.             *)
RehearsalOver ==
  /\ rPc = "draining" /\ rTimers = {} /\ rPc' = "ended"
  /\ UNCHANGED <<rQuestion, rLast, rTimers, rExpired, rLog>>

Interrupted ==
  /\ rPc \in {"asking", "judging", "draining"}
  /\ rPc' = "ended" /\ rTimers' = {} /\ rLog' = {}
  /\ UNCHANGED <<rQuestion, rLast, rExpired>>

RehearsalNext ==
  RehearseStart \/ AnswerLine \/ TimerFires \/ Judged \/ JudgeUnavailable \/ RehearsalOver \/ Interrupted

RehearsalSpec == RehearsalInit /\ [][RehearsalNext]_rehearsalVars

(* Timers fire and calls return; whether the participant answers is open.  *)
RehearsalFairness ==
  /\ WF_rehearsalVars(TimerFires)
  /\ WF_rehearsalVars(Judged \/ JudgeUnavailable)
  /\ WF_rehearsalVars(RehearsalOver)

RehearsalTypeOK ==
  /\ rPc \in {"idle", "asking", "judging", "draining", "ended"}
  /\ rTimers \subseteq 1..rQuestion /\ rExpired \subseteq 1..rQuestion
  /\ rLog \subseteq 1..rQuestion /\ rQuestion <= rLast /\ rLast <= MaxAsked

(* FAQDEF-05: a question is submitted unanswered only when its own time is *)
(* up; the timers of questions answered early do not shorten later ones.   *)
FullBudget == rExpired \intersect rTimers = {}

(* A rehearsal ends, whether or not anybody answers.                       *)
RehearsalEnds == rPc = "asking" ~> rPc = "ended"
===============================================================================
