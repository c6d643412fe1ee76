------------------------------ MODULE ToolProofs ------------------------------
(***************************************************************************)
(* Theorems about the tools of src/ideation and src/provenance, for any    *)
(* number of questions, steps, runs and faults, and any plan, manifest,    *)
(* draft or repository: the rehearsal, the demo capture, the FAQ sheet,    *)
(* the deck, the script, the disclosure and the hygiene report; and that   *)
(* the four tools keep the contract of ToolRun.                            *)
(***************************************************************************)
EXTENDS Rehearsal, DemoDrive, MCTools, FiniteSetTheorems, WellFoundedInduction, TLAPS

-----------------------------------------------------------------------------
(* The rehearsal. *)

(* No timer and no expiry is of a question that has not been asked yet, so *)
(* that a question is new to both when it is asked.                        *)
AskedOnly ==
  /\ rQuestion \in Nat
  /\ rPc = "idle" => rQuestion = 0
  /\ rPc = "asking" => rQuestion >= 1
  /\ rTimers \subseteq 1..rQuestion
  /\ rExpired \subseteq 1..rQuestion

BudgetInv == AskedOnly /\ FullBudget

LEMMA BudgetAtFirst == RehearsalInit => BudgetInv
BY SMT DEF RehearsalInit, BudgetInv, AskedOnly, FullBudget

(* Asking the question after the current one keeps the invariant.          *)
LEMMA AskingKeeps ==
  ASSUME BudgetInv, Ask(rQuestion + 1), UNCHANGED rExpired
  PROVE  BudgetInv'
<1>1. /\ rPc' = "asking" /\ rQuestion' = rQuestion + 1
      /\ rTimers' = rTimers \union {rQuestion + 1}
      /\ rQuestion \in Nat
  BY DEF BudgetInv, AskedOnly, Ask
<1>2. AskedOnly'
  BY <1>1, SMT DEF BudgetInv, AskedOnly
<1>3. rQuestion + 1 \notin rExpired
  BY <1>1, SMT DEF BudgetInv, AskedOnly
<1>4. FullBudget'
  BY <1>1, <1>3 DEF BudgetInv, FullBudget
<1> QED BY <1>2, <1>4 DEF BudgetInv

LEMMA BudgetKept == BudgetInv /\ [RehearsalNext]_rehearsalVars => BudgetInv'
<1> SUFFICES ASSUME BudgetInv, [RehearsalNext]_rehearsalVars
             PROVE  BudgetInv'
  OBVIOUS
<1> USE DEF BudgetInv, AskedOnly, FullBudget
<1>1. CASE RehearseStart /\ Ask(1)
  <2>1. rQuestion + 1 = 1
    BY <1>1, SMT DEF RehearseStart
  <2> QED BY <1>1, <2>1, AskingKeeps DEF RehearseStart
<1>2. CASE RehearseStart /\ ~Ask(1)
  BY <1>2 DEF RehearseStart
<1>3. CASE AnswerLine
  BY <1>3 DEF AnswerLine
<1>4. CASE TimerFires
  <2> DEFINE i == CHOOSE i \in rTimers : \A j \in rTimers : i <= j
  <2>1. rTimers' = rTimers \ {i} /\ rQuestion' = rQuestion
    BY <1>4 DEF TimerFires
  <2>2. CASE rPc = "asking" /\ i = rQuestion
    <3>1. rPc' = "judging" /\ rExpired' = rExpired \union {rQuestion}
      BY <1>4, <2>2 DEF TimerFires
    <3>2. rQuestion \in 1..rQuestion
      BY <2>2, SMT
    <3> HIDE DEF i
    <3> QED BY <2>1, <2>2, <3>1, <3>2
  <2>3. CASE ~(rPc = "asking" /\ i = rQuestion)
    <3>1. rPc' = rPc /\ rExpired' = rExpired
      BY <1>4, <2>3 DEF TimerFires
    <3> HIDE DEF i
    <3> QED BY <2>1, <3>1
  <2> QED BY <2>2, <2>3
<1>5. CASE Judged
  <2>1. CASE rQuestion < rLast
    BY <1>5, <2>1, AskingKeeps DEF Judged
  <2>2. CASE ~(rQuestion < rLast)
    BY <1>5, <2>2 DEF Judged
  <2> QED BY <2>1, <2>2
<1>6. CASE JudgeUnavailable
  BY <1>6 DEF JudgeUnavailable
<1>7. CASE RehearsalOver
  BY <1>7 DEF RehearsalOver
<1>8. CASE Interrupted
  BY <1>8 DEF Interrupted
<1>9. CASE UNCHANGED rehearsalVars
  BY <1>9 DEF rehearsalVars
<1> QED
  BY <1>1, <1>2, <1>3, <1>4, <1>5, <1>6, <1>7, <1>8, <1>9 DEF RehearsalNext

(* FAQDEF-05 for any number of questions: no question is submitted         *)
(* unanswered while its own timer still runs, although the timers of       *)
(* earlier ones are never cancelled.                                       *)
THEOREM NobodyCutShort == RehearsalSpec => []FullBudget
<1>1. BudgetInv => FullBudget
  BY DEF BudgetInv
<1> QED
  BY <1>1, BudgetAtFirst, BudgetKept, PTL DEF RehearsalSpec

-----------------------------------------------------------------------------
(* The demo capture. *)

(* Before the last step is over, failed or the setup has failed. *)
Early == {"idle", "setup", "step", "caught", "report"}

Complete == "whole" \in {mVideo, mRecording}

(* Screenshots are those of the steps before the current one, and of that  *)
(* one only once no step follows.                                          *)
ShotsInOrder ==
  /\ mShots = 1..(mStep - 1) \/ (mShots = 1..mStep /\ mPc \notin Early)
  /\ mPc \in Early => mExit = 0

Unclosed == "close" \in mRefused
Answering == mHandler \in {"closing", "closed", "written"}

(* Unless a close was refused, a recording is partial only as long as its  *)
(* context is open, a context that was closed has completed it, and it is  *)
(* moved once, afterwards.                                                 *)
RecordingKept ==
  /\ mVideo # None => mPc \in {"stop", "over", "ended"} /\ (mVideo = "whole" \/ Unclosed)
  /\ mRecording = "partial" => mContext = "open" \/ Unclosed
  /\ mContext = "closed" => Complete \/ Unclosed
  /\ mContext = "open" =>
       /\ mPc \in {"setup", "step", "caught", "close", "ended"}
       /\ mHandler \notin {"closed", "written"} /\ (mPc = "ended" => mExit = 2)
  /\ mPc \in {"step", "caught"} => mContext \in {"open", "closed"}
  /\ mPc = "report" => mContext = "closed"
  /\ mPc = "idle" => mContext = None

(* The handler is at work only between the start of a capture and its end, *)
(* and the exit codes of a signal come with the end.                       *)
SignalCourse ==
  /\ Answering => mPc \notin {"idle", "ended"} /\ (mPc = "setup" => mContext # None)
  /\ mHandler = "spent" => mPc \in {"idle", "over", "ended"}
  /\ mHandler = "spent" /\ mPc = "over" => mExit = 1
  /\ mPc = "idle" => mHandler = "spent"
  /\ mExit \in {2, 130} => mPc = "ended"

(* A sentinel names the step that failed, or the signal; it is missing     *)
(* after a failed step or a signal only if it was refused.                 *)
SentinelNames ==
  /\ mSentinel \notin {None, 0} =>
       mSentinel = mStep /\ mShots = 1..(mStep - 1) /\ mPc \notin Early /\ mExit # 0 /\ (Complete \/ Unclosed)
  /\ mHandler = "written" \/ (mExit = 1 /\ mShots # {}) => mSentinel # None \/ "sentinel" \in mRefused
  /\ mSentinel = 0 => mHandler = "written" \/ mExit \in {2, 130}

(* What success, a failed step and an interrupt have in hand.              *)
EndingCourse ==
  /\ mPc \in {"idle", "setup"} => mStep = 1
  /\ mPc \notin Early /\ mExit = 0 /\ ~Answering =>
       mShots = AllSteps /\ (Complete \/ Unclosed \/ (mContext = "open" /\ mPc = "close"))
  /\ mExit = 1 /\ mShots # {} => Complete \/ Unclosed
  /\ mPc = "ended" /\ mExit = 130 => mSentinel # None \/ "sentinel" \in mRefused

CaptureInv ==
  /\ DemoTypeOK /\ ShotsInOrder /\ RecordingKept /\ SignalCourse /\ SentinelNames /\ EndingCourse

LEMMA CaptureAtFirst == DemoInit => CaptureInv
<1> SUFFICES ASSUME DemoInit PROVE CaptureInv
  OBVIOUS
<1> USE DemoAssumption DEF DemoInit, Early, Complete, AllSteps, Unclosed, Answering
<1>1. DemoTypeOK
  BY SMT DEF DemoTypeOK
<1>2. ShotsInOrder
  BY SMT DEF ShotsInOrder
<1>3. RecordingKept /\ SignalCourse /\ EndingCourse
  BY SMT DEF RecordingKept, SignalCourse, EndingCourse
<1>4. SentinelNames
  BY SMT DEF SentinelNames
<1> QED BY <1>1, <1>2, <1>3, <1>4 DEF CaptureInv

(* What closing the context and writing the sentinel may come to.          *)
ClosedWhole == mContext = "open" /\ mContext' = "closed" /\ mRecording' = "whole" /\ mRefused' = mRefused
ClosedNot ==
  /\ mContext = "open" /\ mContext' = "closed" /\ mRecording' = mRecording
  /\ mRefused' = mRefused \union {"close"}
NothingOpen == mContext # "open" /\ UNCHANGED <<mContext, mRecording, mRefused>>

LEMMA Closing == CloseContext => ClosedWhole \/ ClosedNot \/ NothingOpen
<1>1. CASE mContext = "open"
  BY <1>1 DEF CloseContext, ClosedWhole, ClosedNot
<1>2. CASE mContext # "open"
  BY <1>2 DEF CloseContext, NothingOpen
<1> QED BY <1>1, <1>2

LEMMA CaptureKept == CaptureInv /\ [DemoNext]_demoVars => CaptureInv'
<1> SUFFICES ASSUME CaptureInv, [DemoNext]_demoVars PROVE CaptureInv'
  OBVIOUS
<1> USE DemoAssumption
    DEF CaptureInv, DemoTypeOK, ShotsInOrder, RecordingKept, SignalCourse, SentinelNames,
        EndingCourse, Early, Complete, AllSteps, Unclosed, Answering, diskVars
<1>1. CASE CaptureStart
  BY <1>1, SMT DEF CaptureStart
<1>2. CASE SetUp
  BY <1>2, SMT DEF SetUp
<1>3. CASE StepDone
  BY <1>3, SMT DEF StepDone
<1>4. CASE StepFails
  BY <1>4, SMT DEF StepFails
<1>5. CASE StepCaught
  <2>1. CASE ClosedWhole
    <3>1. DemoTypeOK'
      BY <1>5, <2>1, SMT DEF StepCaught, ClosedWhole
    <3>2. ShotsInOrder'
      BY <1>5, <2>1, SMT DEF StepCaught, ClosedWhole
    <3>3. RecordingKept'
      BY <1>5, <2>1, SMT DEF StepCaught, ClosedWhole
    <3>4. SignalCourse'
      BY <1>5, <2>1, SMT DEF StepCaught, ClosedWhole
    <3>5. SentinelNames'
      BY <1>5, <2>1, SMT DEF StepCaught, ClosedWhole
    <3>6. EndingCourse'
      BY <1>5, <2>1, SMT DEF StepCaught, ClosedWhole
    <3> QED BY <3>1, <3>2, <3>3, <3>4, <3>5, <3>6
  <2>2. CASE ClosedNot
    <3>1. DemoTypeOK'
      BY <1>5, <2>2, SMT DEF StepCaught, ClosedNot
    <3>2. ShotsInOrder'
      BY <1>5, <2>2, SMT DEF StepCaught, ClosedNot
    <3>3. RecordingKept'
      BY <1>5, <2>2, SMT DEF StepCaught, ClosedNot
    <3>4. SignalCourse'
      BY <1>5, <2>2, SMT DEF StepCaught, ClosedNot
    <3>5. SentinelNames'
      BY <1>5, <2>2, SMT DEF StepCaught, ClosedNot
    <3>6. EndingCourse'
      BY <1>5, <2>2, SMT DEF StepCaught, ClosedNot
    <3> QED BY <3>1, <3>2, <3>3, <3>4, <3>5, <3>6
  <2>3. CASE NothingOpen
    <3>1. DemoTypeOK'
      BY <1>5, <2>3, SMT DEF StepCaught, NothingOpen
    <3>2. ShotsInOrder'
      BY <1>5, <2>3, SMT DEF StepCaught, NothingOpen
    <3>3. RecordingKept'
      BY <1>5, <2>3, SMT DEF StepCaught, NothingOpen
    <3>4. SignalCourse'
      BY <1>5, <2>3, SMT DEF StepCaught, NothingOpen
    <3>5. SentinelNames'
      BY <1>5, <2>3, SMT DEF StepCaught, NothingOpen
    <3>6. EndingCourse'
      BY <1>5, <2>3, SMT DEF StepCaught, NothingOpen
    <3> QED BY <3>1, <3>2, <3>3, <3>4, <3>5, <3>6
  <2> QED BY <1>5, <2>1, <2>2, <2>3, Closing DEF StepCaught
<1>6. CASE StepReported
  <2>1. CASE mSentinel' = mStep /\ UNCHANGED mRefused
    <3>1. DemoTypeOK'
      BY <1>6, <2>1, SMT DEF StepReported
    <3>2. ShotsInOrder'
      BY <1>6, <2>1, SMT DEF StepReported
    <3>3. RecordingKept'
      BY <1>6, <2>1, SMT DEF StepReported
    <3>4. SignalCourse'
      BY <1>6, <2>1, SMT DEF StepReported
    <3>5. SentinelNames'
      BY <1>6, <2>1, SMT DEF StepReported
    <3>6. EndingCourse'
      BY <1>6, <2>1, SMT DEF StepReported
    <3> QED BY <3>1, <3>2, <3>3, <3>4, <3>5, <3>6
  <2>2. CASE mRefused' = mRefused \union {"sentinel"} /\ UNCHANGED mSentinel
    <3>1. DemoTypeOK'
      BY <1>6, <2>2, SMT DEF StepReported
    <3>2. ShotsInOrder'
      BY <1>6, <2>2, SMT DEF StepReported
    <3>3. RecordingKept'
      BY <1>6, <2>2, SMT DEF StepReported
    <3>4. SignalCourse'
      BY <1>6, <2>2, SMT DEF StepReported
    <3>5. SentinelNames'
      BY <1>6, <2>2, SMT DEF StepReported
    <3>6. EndingCourse'
      BY <1>6, <2>2, SMT DEF StepReported
    <3> QED BY <3>1, <3>2, <3>3, <3>4, <3>5, <3>6
  <2> QED BY <1>6, <2>1, <2>2 DEF StepReported, WriteSentinel
<1>7. CASE ContextClosed
  <2>1. CASE ClosedWhole
    <3>1. DemoTypeOK'
      BY <1>7, <2>1, SMT DEF ContextClosed, ClosedWhole
    <3>2. ShotsInOrder'
      BY <1>7, <2>1, SMT DEF ContextClosed, ClosedWhole
    <3>3. RecordingKept'
      BY <1>7, <2>1, SMT DEF ContextClosed, ClosedWhole
    <3>4. SignalCourse'
      BY <1>7, <2>1, SMT DEF ContextClosed, ClosedWhole
    <3>5. SentinelNames'
      BY <1>7, <2>1, SMT DEF ContextClosed, ClosedWhole
    <3>6. EndingCourse'
      BY <1>7, <2>1, SMT DEF ContextClosed, ClosedWhole
    <3> QED BY <3>1, <3>2, <3>3, <3>4, <3>5, <3>6
  <2>2. CASE ClosedNot
    <3>1. DemoTypeOK'
      BY <1>7, <2>2, SMT DEF ContextClosed, ClosedNot
    <3>2. ShotsInOrder'
      BY <1>7, <2>2, SMT DEF ContextClosed, ClosedNot
    <3>3. RecordingKept'
      BY <1>7, <2>2, SMT DEF ContextClosed, ClosedNot
    <3>4. SignalCourse'
      BY <1>7, <2>2, SMT DEF ContextClosed, ClosedNot
    <3>5. SentinelNames'
      BY <1>7, <2>2, SMT DEF ContextClosed, ClosedNot
    <3>6. EndingCourse'
      BY <1>7, <2>2, SMT DEF ContextClosed, ClosedNot
    <3> QED BY <3>1, <3>2, <3>3, <3>4, <3>5, <3>6
  <2>3. CASE NothingOpen
    <3>1. DemoTypeOK'
      BY <1>7, <2>3, SMT DEF ContextClosed, NothingOpen
    <3>2. ShotsInOrder'
      BY <1>7, <2>3, SMT DEF ContextClosed, NothingOpen
    <3>3. RecordingKept'
      BY <1>7, <2>3, SMT DEF ContextClosed, NothingOpen
    <3>4. SignalCourse'
      BY <1>7, <2>3, SMT DEF ContextClosed, NothingOpen
    <3>5. SentinelNames'
      BY <1>7, <2>3, SMT DEF ContextClosed, NothingOpen
    <3>6. EndingCourse'
      BY <1>7, <2>3, SMT DEF ContextClosed, NothingOpen
    <3> QED BY <3>1, <3>2, <3>3, <3>4, <3>5, <3>6
  <2> QED BY <1>7, <2>1, <2>2, <2>3, Closing DEF ContextClosed
<1>8. CASE BrowserClosed
  <2>0. \/ mVideo' = mRecording /\ mRecording' = None
        \/ mVideo' = mVideo /\ mRecording' = mRecording
    BY <1>8 DEF BrowserClosed
  <2>1. DemoTypeOK'
    BY <1>8, <2>0, SMT DEF BrowserClosed
  <2>2. ShotsInOrder'
    BY <1>8, <2>0, SMT DEF BrowserClosed
  <2>3. RecordingKept'
    BY <1>8, <2>0, SMT DEF BrowserClosed
  <2>4. SignalCourse'
    BY <1>8, <2>0, SMT DEF BrowserClosed
  <2>5. SentinelNames'
    BY <1>8, <2>0, SMT DEF BrowserClosed
  <2>6. EndingCourse'
    BY <1>8, <2>0, SMT DEF BrowserClosed
  <2> QED BY <2>1, <2>2, <2>3, <2>4, <2>5, <2>6
<1>9. CASE FeederStopped
  BY <1>9, SMT DEF FeederStopped
<1>10. CASE ProcessOver
  BY <1>10, SMT DEF ProcessOver
<1>11. CASE Sigint
  <2>1. CASE mSentinel' = 0 /\ UNCHANGED mRefused
    <3>1. DemoTypeOK'
      BY <1>11, <2>1, SMT DEF Sigint, Capturing, EndProcess
    <3>2. ShotsInOrder'
      BY <1>11, <2>1, SMT DEF Sigint, Capturing, EndProcess
    <3>3. RecordingKept'
      BY <1>11, <2>1, SMT DEF Sigint, Capturing, EndProcess
    <3>4. SignalCourse'
      BY <1>11, <2>1, SMT DEF Sigint, Capturing, EndProcess
    <3>5. SentinelNames'
      BY <1>11, <2>1, SMT DEF Sigint, Capturing, EndProcess
    <3>6. EndingCourse'
      BY <1>11, <2>1, SMT DEF Sigint, Capturing, EndProcess
    <3> QED BY <3>1, <3>2, <3>3, <3>4, <3>5, <3>6
  <2>2. CASE mRefused' = mRefused \union {"sentinel"} /\ UNCHANGED mSentinel
    <3>1. DemoTypeOK'
      BY <1>11, <2>2, SMT DEF Sigint, Capturing, EndProcess
    <3>2. ShotsInOrder'
      BY <1>11, <2>2, SMT DEF Sigint, Capturing, EndProcess
    <3>3. RecordingKept'
      BY <1>11, <2>2, SMT DEF Sigint, Capturing, EndProcess
    <3>4. SignalCourse'
      BY <1>11, <2>2, SMT DEF Sigint, Capturing, EndProcess
    <3>5. SentinelNames'
      BY <1>11, <2>2, SMT DEF Sigint, Capturing, EndProcess
    <3>6. EndingCourse'
      BY <1>11, <2>2, SMT DEF Sigint, Capturing, EndProcess
    <3> QED BY <3>1, <3>2, <3>3, <3>4, <3>5, <3>6
  <2>3. CASE UNCHANGED <<mSentinel, mRefused>> /\ mContext # None
    <3>1. DemoTypeOK'
      BY <1>11, <2>3, SMT DEF Sigint, Capturing, EndProcess
    <3>2. ShotsInOrder'
      BY <1>11, <2>3, SMT DEF Sigint, Capturing, EndProcess
    <3>3. RecordingKept'
      BY <1>11, <2>3, SMT DEF Sigint, Capturing, EndProcess
    <3>4. SignalCourse'
      BY <1>11, <2>3, SMT DEF Sigint, Capturing, EndProcess
    <3>5. SentinelNames'
      BY <1>11, <2>3, SMT DEF Sigint, Capturing, EndProcess
    <3>6. EndingCourse'
      BY <1>11, <2>3, SMT DEF Sigint, Capturing, EndProcess
    <3> QED BY <3>1, <3>2, <3>3, <3>4, <3>5, <3>6
  <2> QED BY <1>11, <2>1, <2>2, <2>3 DEF Sigint, WriteSentinel
<1>12. CASE SigintClosed
  <2>1. CASE ClosedWhole
    <3>1. DemoTypeOK'
      BY <1>12, <2>1, SMT DEF SigintClosed, Capturing, ClosedWhole
    <3>2. ShotsInOrder'
      BY <1>12, <2>1, SMT DEF SigintClosed, Capturing, ClosedWhole
    <3>3. RecordingKept'
      BY <1>12, <2>1, SMT DEF SigintClosed, Capturing, ClosedWhole
    <3>4. SignalCourse'
      BY <1>12, <2>1, SMT DEF SigintClosed, Capturing, ClosedWhole
    <3>5. SentinelNames'
      BY <1>12, <2>1, SMT DEF SigintClosed, Capturing, ClosedWhole
    <3>6. EndingCourse'
      BY <1>12, <2>1, SMT DEF SigintClosed, Capturing, ClosedWhole
    <3> QED BY <3>1, <3>2, <3>3, <3>4, <3>5, <3>6
  <2>2. CASE ClosedNot
    <3>1. DemoTypeOK'
      BY <1>12, <2>2, SMT DEF SigintClosed, Capturing, ClosedNot
    <3>2. ShotsInOrder'
      BY <1>12, <2>2, SMT DEF SigintClosed, Capturing, ClosedNot
    <3>3. RecordingKept'
      BY <1>12, <2>2, SMT DEF SigintClosed, Capturing, ClosedNot
    <3>4. SignalCourse'
      BY <1>12, <2>2, SMT DEF SigintClosed, Capturing, ClosedNot
    <3>5. SentinelNames'
      BY <1>12, <2>2, SMT DEF SigintClosed, Capturing, ClosedNot
    <3>6. EndingCourse'
      BY <1>12, <2>2, SMT DEF SigintClosed, Capturing, ClosedNot
    <3> QED BY <3>1, <3>2, <3>3, <3>4, <3>5, <3>6
  <2>3. CASE NothingOpen
    <3>1. DemoTypeOK'
      BY <1>12, <2>3, SMT DEF SigintClosed, Capturing, NothingOpen
    <3>2. ShotsInOrder'
      BY <1>12, <2>3, SMT DEF SigintClosed, Capturing, NothingOpen
    <3>3. RecordingKept'
      BY <1>12, <2>3, SMT DEF SigintClosed, Capturing, NothingOpen
    <3>4. SignalCourse'
      BY <1>12, <2>3, SMT DEF SigintClosed, Capturing, NothingOpen
    <3>5. SentinelNames'
      BY <1>12, <2>3, SMT DEF SigintClosed, Capturing, NothingOpen
    <3>6. EndingCourse'
      BY <1>12, <2>3, SMT DEF SigintClosed, Capturing, NothingOpen
    <3> QED BY <3>1, <3>2, <3>3, <3>4, <3>5, <3>6
  <2> QED BY <1>12, <2>1, <2>2, <2>3, Closing DEF SigintClosed
<1>13. CASE SigintWrites
  <2>1. CASE mSentinel' = 0 /\ UNCHANGED mRefused
    <3>1. DemoTypeOK'
      BY <1>13, <2>1, SMT DEF SigintWrites, Capturing
    <3>2. ShotsInOrder'
      BY <1>13, <2>1, SMT DEF SigintWrites, Capturing
    <3>3. RecordingKept'
      BY <1>13, <2>1, SMT DEF SigintWrites, Capturing
    <3>4. SignalCourse'
      BY <1>13, <2>1, SMT DEF SigintWrites, Capturing
    <3>5. SentinelNames'
      BY <1>13, <2>1, SMT DEF SigintWrites, Capturing
    <3>6. EndingCourse'
      BY <1>13, <2>1, SMT DEF SigintWrites, Capturing
    <3> QED BY <3>1, <3>2, <3>3, <3>4, <3>5, <3>6
  <2>2. CASE mRefused' = mRefused \union {"sentinel"} /\ UNCHANGED mSentinel
    <3>1. DemoTypeOK'
      BY <1>13, <2>2, SMT DEF SigintWrites, Capturing
    <3>2. ShotsInOrder'
      BY <1>13, <2>2, SMT DEF SigintWrites, Capturing
    <3>3. RecordingKept'
      BY <1>13, <2>2, SMT DEF SigintWrites, Capturing
    <3>4. SignalCourse'
      BY <1>13, <2>2, SMT DEF SigintWrites, Capturing
    <3>5. SentinelNames'
      BY <1>13, <2>2, SMT DEF SigintWrites, Capturing
    <3>6. EndingCourse'
      BY <1>13, <2>2, SMT DEF SigintWrites, Capturing
    <3> QED BY <3>1, <3>2, <3>3, <3>4, <3>5, <3>6
  <2> QED BY <1>13, <2>1, <2>2 DEF SigintWrites, WriteSentinel
<1>14. CASE SigintExits
  BY <1>14, SMT DEF SigintExits, Capturing, EndProcess
<1>15. CASE Killed
  BY <1>15, SMT DEF Killed, Capturing
<1>16. CASE UNCHANGED demoVars
  BY <1>16, SMT DEF demoVars
<1> QED
  BY <1>1, <1>2, <1>3, <1>4, <1>5, <1>6, <1>7, <1>8, <1>9, <1>10, <1>11, <1>12,
     <1>13, <1>14, <1>15, <1>16
  DEF DemoNext, Drive, Handle

(* DEMODRIVE-RES-01 for any number of steps: what a capture leaves behind  *)
(* is what its exit code says, wherever a step failed and whenever it was  *)
(* interrupted.                                                            *)
THEOREM CaptureIsHonest == DemoSpec => []CaptureHonest
<1>1. CaptureInv => CaptureHonest
  <2> SUFFICES ASSUME CaptureInv, mPc = "ended" PROVE CaptureHonest
    BY DEF CaptureHonest
  <2> USE DemoAssumption
      DEF CaptureInv, DemoTypeOK, ShotsInOrder, RecordingKept, SignalCourse, SentinelNames,
          EndingCourse, Early, Complete, AllSteps, Unclosed, Answering
  <2>1. PICK n \in 0..DemoSteps : mShots = 1..n
    BY SMT
  <2>2. Cardinality(mShots) = n
    BY <2>1, FS_Interval, SMT
  <2>3. mExit = 0 => mShots = AllSteps /\ mSentinel = None
    BY SMT
  <2>4. mExit = 1 /\ mSentinel # None => mSentinel = mStep /\ mShots = 1..(mStep - 1)
    BY SMT
  <2>5. mExit = 1 /\ mShots # {} => mSentinel # None \/ "sentinel" \in mRefused
    BY SMT
  <2>6. mExit = 130 /\ mSentinel # None => mSentinel \in {0} \union (AllSteps \ mShots)
    BY SMT
  <2>7. mExit = 130 /\ mSentinel = None => "sentinel" \in mRefused
    BY SMT
  <2>8. ~Unclosed /\ (mExit = 0 \/ (mExit = 1 /\ (mShots # {} \/ mSentinel # None))) => Complete
    BY SMT
  <2>9. ~Unclosed /\ mExit # 2 => mVideo # "partial" /\ mRecording # "partial"
    BY SMT
  <2> HIDE DEF CaptureInv, DemoTypeOK, ShotsInOrder, RecordingKept, SignalCourse, SentinelNames,
               EndingCourse
  <2> QED BY <2>1, <2>2, <2>3, <2>4, <2>5, <2>6, <2>7, <2>8, <2>9 DEF CaptureHonest
<1> QED BY <1>1, CaptureAtFirst, CaptureKept, PTL DEF DemoSpec

-----------------------------------------------------------------------------
(* The question sheet. *)

Entries == [axes : SUBSET Axes, sponsor : BOOLEAN, basis : {"plain", "plan", "disclosure"},
            gap : BOOLEAN]

(* A sheet whose answers have been held against the inputs.                *)
Sheet(s) == s \in Seq(Entries) /\ Len(s) >= MinQuestions

(* A short draft is padded to the minimum. *)
LEMMA PaddingFills ==
  ASSUME NEW n \in Nat, NEW s \in [1..n -> FaqDrafts]
  PROVE  /\ Padded(s) \in Seq(FaqDrafts \union {Placeholder})
         /\ Len(Padded(s)) >= MinQuestions
<1> DEFINE D == FaqDrafts \union {Placeholder}
           pad == [i \in 1..(MinQuestions - Len(s)) |-> Placeholder]
<1>1. s \in Seq(D) /\ Len(s) = n
  OBVIOUS
<1>2. CASE MinQuestions >= n
  <2>1. MinQuestions - n \in Nat
    BY <1>2, FaqAssumption
  <2>2. pad \in Seq(D) /\ Len(pad) = MinQuestions - n
    BY <1>1, <2>1
  <2>3. Padded(s) = s \o pad
    BY DEF Padded
  <2> HIDE DEF pad
  <2>4. s \o pad \in Seq(D) /\ Len(s \o pad) = n + (MinQuestions - n)
    BY <1>1, <2>2
  <2> QED BY <2>3, <2>4, FaqAssumption
<1>3. CASE MinQuestions < n
  <2>1. 1..(MinQuestions - n) = 1..0
    BY <1>3, FaqAssumption
  <2>2. pad = [i \in 1..0 |-> Placeholder]
    BY <1>1, <2>1
  <2>3. Padded(s) = s \o pad
    BY DEF Padded
  <2> HIDE DEF pad
  <2>4. pad \in Seq(D) /\ Len(pad) = 0
    BY <2>2
  <2>5. s \o pad \in Seq(D) /\ Len(s \o pad) = n + 0
    BY <1>1, <2>4
  <2> QED BY <1>3, <2>3, <2>5, FaqAssumption
<1> QED BY <1>2, <1>3, FaqAssumption

(* What comes out of the grounding check has no unsupported answer.        *)
LEMMA GroundingSupports ==
  ASSUME NEW s \in Seq(FaqDrafts \union {Placeholder}), Len(s) >= MinQuestions, NEW d \in BOOLEAN
  PROVE  Sheet(Grounded(s, d))
<1> DEFINE g == Grounded(s, d)
<1>1. DOMAIN s = 1..Len(s) /\ Len(s) \in Nat
  OBVIOUS
<1>2. ASSUME NEW i \in DOMAIN s PROVE g[i] \in Entries
  <2>1. s[i] \in [axes : SUBSET Axes, sponsor : BOOLEAN,
                  basis : {"plain", "plan", "disclosure", "nowhere"}, gap : BOOLEAN]
    <3>1. s[i] \in FaqDrafts \union {Placeholder}
      BY <1>2
    <3>2. CASE s[i] = Placeholder
      BY <3>2, FaqAssumption DEF Placeholder
    <3>3. CASE s[i] \in FaqDrafts
      <4>1. DraftShape(s[i])
        BY <3>3, FaqAssumption
      <4> QED BY <4>1 DEF DraftShape
    <3> QED BY <3>1, <3>2, <3>3
  <2>2. g[i] = IF Supported(s[i], d) THEN s[i] ELSE [s[i] EXCEPT !.basis = "plain", !.gap = TRUE]
    BY DEF Grounded
  <2>3. CASE Supported(s[i], d)
    BY <2>1, <2>2, <2>3 DEF Supported, Entries
  <2>4. CASE ~Supported(s[i], d)
    BY <2>1, <2>2, <2>4 DEF Entries
  <2> QED BY <2>3, <2>4
<1>3. g = [i \in 1..Len(s) |-> g[i]]
  BY <1>1 DEF Grounded
<1> HIDE DEF g
<1>4. g \in Seq(Entries) /\ Len(g) = Len(s)
  BY <1>1, <1>2, <1>3
<1> QED BY <1>4 DEF Sheet, g

(* How many questions an axis has is a number.                             *)
LEMMA AxisCountIsNumber ==
  ASSUME NEW s \in Seq(Entries), NEW a
  PROVE  /\ IsFiniteSet({i \in DOMAIN s : a \in s[i].axes})
         /\ AxisCount(s, a) \in Nat
<1>1. IsFiniteSet(1..Len(s)) /\ DOMAIN s = 1..Len(s)
  BY FS_Interval
<1>2. {i \in DOMAIN s : a \in s[i].axes} \in SUBSET (1..Len(s))
  BY <1>1
<1>3. IsFiniteSet({i \in DOMAIN s : a \in s[i].axes})
  BY <1>1, <1>2, FS_Subset
<1> QED BY <1>3, FS_CardinalityType DEF AxisCount

(* Giving a question another axis uncovers none, if the axis it is taken   *)
(* from has more than it needs.                                            *)
LEMMA RetaggingCovers ==
  ASSUME NEW s, Sheet(s), NEW axis \in Axes, NEW i \in Donors(s),
         \A j \in Donors(s) : i <= j, NEW from \in Spare(s, i)
  PROVE  Sheet(Retagged(s, axis, from)) /\ Covered(s) \subseteq Covered(Retagged(s, axis, from))
<1> DEFINE t == Retagged(s, axis, from)
           new == (s[i].axes \ {from}) \union {axis}
<1>1. s \in Seq(Entries) /\ DOMAIN s = 1..Len(s) /\ i \in DOMAIN s /\ s[i] \in Entries
  BY DEF Sheet, Donors
<1>2. (CHOOSE k \in Donors(s) : \A j \in Donors(s) : k <= j) = i
  <2>1. ASSUME NEW k \in Donors(s), \A j \in Donors(s) : k <= j PROVE k = i
    <3>1. k <= i /\ i <= k /\ k \in Int /\ i \in Int
      BY <1>1, <2>1 DEF Donors
    <3> QED BY <3>1
  <2> QED BY <2>1
<1>3. t = [s EXCEPT ![i] = [s[i] EXCEPT !.axes = new]]
  BY <1>2 DEF Retagged
<1>4. [s[i] EXCEPT !.axes = new] \in Entries /\ [s[i] EXCEPT !.axes = new].axes = new
  BY <1>1 DEF Entries
<1>5. t \in Seq(Entries) /\ Len(t) = Len(s) /\ DOMAIN t = DOMAIN s
  BY <1>1, <1>3, <1>4
<1>6. t[i].axes = new /\ \A j \in DOMAIN s \ {i} : t[j] = s[j]
  BY <1>1, <1>3, <1>4
<1>7. AxisCount(s, from) > 2
  BY DEF Spare
<1> HIDE DEF t
<1>8. ASSUME NEW a \in Covered(s) PROVE a \in Covered(t)
  <2> DEFINE P == {j \in DOMAIN s : a \in s[j].axes}
             Q == {j \in DOMAIN t : a \in t[j].axes}
  <2>1. /\ IsFiniteSet(P) /\ IsFiniteSet(Q) /\ Cardinality(P) \in Nat /\ Cardinality(Q) \in Nat
        /\ Cardinality(P) >= 2 /\ a \in Axes
    BY <1>1, <1>5, <1>8, AxisCountIsNumber DEF Covered, AxisCount
  <2>2. P \ {i} \subseteq Q
    BY <1>5, <1>6
  <2>3. Cardinality(P \ {i}) = IF i \in P THEN Cardinality(P) - 1 ELSE Cardinality(P)
    BY <2>1, FS_RemoveElement
  <2>4. CASE a = from
    <3>1. Cardinality(P) > 2
      BY <1>7, <2>4 DEF AxisCount
    <3>2. Cardinality(P \ {i}) <= Cardinality(Q)
      BY <2>1, <2>2, FS_Subset
    <3>3. Cardinality(Q) >= 2
      BY <2>1, <2>3, <3>1, <3>2
    <3> QED BY <2>1, <3>3 DEF Covered, AxisCount
  <2>5. CASE a # from
    <3>1. P \subseteq Q
      BY <1>1, <1>5, <1>6, <2>5
    <3>2. Cardinality(P) <= Cardinality(Q)
      BY <2>1, <3>1, FS_Subset
    <3>3. Cardinality(Q) >= 2
      BY <2>1, <3>2
    <3> QED BY <2>1, <3>3 DEF Covered, AxisCount
  <2> QED BY <2>4, <2>5
<1>9. Sheet(t)
  BY <1>5 DEF Sheet
<1> QED BY <1>8, <1>9 DEF t

SheetInv ==
  /\ fPc \in {"idle", "ask", "fallback", "balance", "json", "md"}
  /\ fDisclosure \in BOOLEAN /\ fFaults \in Nat /\ fAxis \in DOMAIN AxisOrder
  /\ fPc \in {"idle", "ask", "fallback"} => fCovered = {}
  /\ fPc \in {"balance", "json", "md"} => Sheet(fSheet) /\ fCovered \subseteq Covered(fSheet)
  /\ fJson = None \/ Sheet(fJson)
  /\ fPc = "md" => fJson = fSheet
  /\ fFaults = 0 /\ fPc # "md" => fMd = fJson

LEMMA AxisAfterAxis ==
  /\ 1 \in DOMAIN AxisOrder
  /\ \A k \in DOMAIN AxisOrder : k < Len(AxisOrder) => k + 1 \in DOMAIN AxisOrder
<1>1. AxisOrder \in Seq(Axes) /\ DOMAIN AxisOrder = 1..Len(AxisOrder) /\ Len(AxisOrder) \in Nat
  BY FaqAssumption
<1>2. DOMAIN AxisOrder # {}
  BY FaqAssumption DEF Axes
<1> QED BY <1>1, <1>2

LEMMA SheetAtFirst == FaqInit => SheetInv
<1> SUFFICES ASSUME FaqInit PROVE SheetInv
  OBVIOUS
<1>1. fAxis \in DOMAIN AxisOrder
  BY AxisAfterAxis DEF FaqInit
<1>2. fPc = "idle" /\ fDisclosure \in BOOLEAN /\ fFaults \in Nat /\ fCovered = {} /\ fJson = None /\ fMd = None
  BY DEF FaqInit
<1> QED BY <1>1, <1>2 DEF SheetInv

LEMMA SheetKept == SheetInv /\ [FaqNext]_faqVars => SheetInv'
<1> SUFFICES ASSUME SheetInv, [FaqNext]_faqVars PROVE SheetInv'
  OBVIOUS
<1>0. 1 \in DOMAIN AxisOrder /\ \A k \in DOMAIN AxisOrder : k < Len(AxisOrder) => k + 1 \in DOMAIN AxisOrder
  BY AxisAfterAxis
<1>1. CASE FaqStart
  <2>1. CASE FaqEnd("refused")
    BY <1>0, <1>1, <2>1 DEF FaqStart, FaqEnd, SheetInv
  <2>2. CASE fPc' = "ask" /\ UNCHANGED <<fSheet, fAxis, fCovered>>
    BY <1>1, <2>2 DEF FaqStart, SheetInv
  <2> QED BY <1>1, <2>1, <2>2 DEF FaqStart
<1>7. CASE FaqFallsBack
  BY <1>7 DEF FaqFallsBack, SheetInv
<1>8. CASE FaqRejected
  BY <1>0, <1>8 DEF FaqRejected, FaqEnd, SheetInv
<1>2. CASE FaqDrafted
  <2>1. PICK n \in 0..MaxQuestions : \E s \in [1..n -> FaqDrafts] :
          /\ fSheet' = Grounded(Padded(s), fDisclosure)
          /\ fCovered' = Covered(Grounded(Padded(s), fDisclosure))
    BY <1>2 DEF FaqDrafted
  <2>2. n \in Nat
    BY FaqAssumption
  <2>3. Sheet(fSheet') /\ fCovered' = Covered(fSheet')
    BY <2>1, <2>2, PaddingFills, GroundingSupports DEF SheetInv
  <2> QED BY <1>2, <2>3 DEF FaqDrafted, SheetInv
<1>3. CASE FaqBalance
  <2>1. CASE AxisCount(fSheet, AxisOrder[fAxis]) < 2 /\ Donors(fSheet) # {}
    <3>1. PICK i \in Donors(fSheet) :
            /\ \A j \in Donors(fSheet) : i <= j
            /\ \E from \in Spare(fSheet, i) : fSheet' = Retagged(fSheet, AxisOrder[fAxis], from)
      BY <1>3, <2>1 DEF FaqBalance
    <3>2. Sheet(fSheet) /\ AxisOrder[fAxis] \in Axes
      BY <1>3 DEF FaqBalance, SheetInv, Axes
    <3>3. Sheet(fSheet') /\ Covered(fSheet) \subseteq Covered(fSheet')
      BY <3>1, <3>2, RetaggingCovers
    <3> QED BY <1>3, <2>1, <3>3 DEF FaqBalance, SheetInv
  <2>2. CASE ~(AxisCount(fSheet, AxisOrder[fAxis]) < 2 /\ Donors(fSheet) # {})
    BY <1>0, <1>3, <2>2 DEF FaqBalance, SheetInv
  <2> QED BY <2>1, <2>2
<1>4. CASE FaqWriteFallback \/ FaqWriteJson \/ FaqWriteMd
  BY <1>0, <1>4 DEF FaqWriteFallback, FaqWriteJson, FaqWriteMd, FaqEnd, SheetInv
<1>5. CASE FaqBreaksOff
  BY <1>0, <1>5 DEF FaqBreaksOff, FaqEnd, SheetInv
<1>6. CASE UNCHANGED faqVars
  BY <1>6 DEF faqVars, SheetInv
<1> QED BY <1>1, <1>2, <1>3, <1>4, <1>5, <1>6, <1>7, <1>8 DEF FaqNext

(* Whatever a model drafts: covering a judging axis uncovers no other, the *)
(* sheet has its minimum of questions and no unsupported answer, and JSON  *)
(* and Markdown are one sheet unless a run broke off between them          *)
(* (faqdef/generate.ts, grounding.ts).                                     *)
THEOREM SheetIsSound == FaqSpec => []SheetSound
<1>1. SheetInv => SheetSound
  <2> SUFFICES ASSUME SheetInv PROVE SheetSound
    OBVIOUS
  <2>1. fPc # "idle" => fCovered \subseteq Covered(fSheet)
    BY DEF SheetInv
  <2>2. ASSUME Sheet(fJson), NEW i \in DOMAIN fJson PROVE fJson[i].basis # "nowhere"
    <3>1. fJson[i] \in Entries
      BY <2>2 DEF Sheet
    <3> QED BY <3>1 DEF Entries
  <2>3. fJson # None => Len(fJson) >= MinQuestions /\ \A i \in DOMAIN fJson : fJson[i].basis # "nowhere"
    BY <2>2 DEF SheetInv, Sheet
  <2> QED BY <2>1, <2>3 DEF SheetInv, SheetSound
<1> QED BY <1>1, SheetAtFirst, SheetKept, PTL DEF FaqSpec

-----------------------------------------------------------------------------
(* The deck: what a queue of writes leaves behind. *)

Items(q) == {q[i] : i \in DOMAIN q}
FilesOf(q) == {w.file : w \in Items(q)}

(* A sequence of writes in which no file is written twice.                 *)
Orderly(q) ==
  /\ q \in Seq(Items(q))
  /\ \A i, j \in DOMAIN q : q[i].file = q[j].file => i = j

LEMMA SeqOfItems ==
  ASSUME NEW S, NEW s \in Seq(S) PROVE s \in Seq(Items(s))
<1>1. s = [i \in 1..Len(s) |-> s[i]] /\ Len(s) \in Nat /\ DOMAIN s = 1..Len(s)
  OBVIOUS
<1>2. \A i \in 1..Len(s) : s[i] \in Items(s)
  BY <1>1 DEF Items
<1>3. [i \in 1..Len(s) |-> s[i]] \in Seq(Items(s))
  BY <1>1, <1>2
<1> QED BY <1>1, <1>3

LEMMA JoinIsOrderly ==
  ASSUME NEW a, NEW b, Orderly(a), Orderly(b), FilesOf(a) \intersect FilesOf(b) = {}
  PROVE  Orderly(a \o b) /\ Items(a \o b) = Items(a) \union Items(b)
<1> DEFINE U == Items(a) \union Items(b)
           q == a \o b
           m == Len(a)
           n == Len(b)
<1>1. a \in Seq(U) /\ b \in Seq(U)
  BY DEF Orderly
<1>2. /\ m \in Nat /\ n \in Nat /\ DOMAIN a = 1..m /\ DOMAIN b = 1..n
      /\ q \in Seq(U) /\ Len(q) = m + n /\ DOMAIN q = 1..(m + n)
      /\ \A i \in 1..(m + n) : q[i] = IF i <= m THEN a[i] ELSE b[i - m]
  BY <1>1
<1> HIDE DEF q, m, n
<1>3. \A i \in 1..m : q[i] = a[i] /\ i \in 1..(m + n)
  BY <1>2
<1>4. \A i \in 1..n : q[m + i] = b[i] /\ m + i \in 1..(m + n)
  BY <1>2
<1>5. ASSUME NEW i \in 1..(m + n)
      PROVE  (i \in 1..m /\ q[i] = a[i]) \/ (i - m \in 1..n /\ q[i] = b[i - m])
  BY <1>2
<1>6. Items(q) = U
  <2>1. \A x \in Items(a) : x \in Items(q)
    BY <1>2, <1>3 DEF Items
  <2>3. ASSUME NEW k \in 1..n PROVE b[k] \in Items(q)
    <3>1. q[m + k] = b[k] /\ m + k \in DOMAIN q
      BY <1>2, <1>4
    <3> QED BY <3>1 DEF Items
  <2>2. \A x \in Items(q) : x \in U
    BY <1>2, <1>5 DEF Items
  <2> QED BY <1>2, <2>1, <2>2, <2>3 DEF Items
<1>7. ASSUME NEW i \in 1..(m + n), NEW j \in 1..(m + n), q[i].file = q[j].file PROVE i = j
  <2>1. \A k \in 1..m, l \in 1..n : a[k].file # b[l].file
    BY <1>2 DEF FilesOf, Items
  <2>2. CASE i \in 1..m /\ j \in 1..m
    BY <1>2, <1>3, <1>7, <2>2 DEF Orderly
  <2>3. CASE i - m \in 1..n /\ j - m \in 1..n /\ q[i] = b[i - m] /\ q[j] = b[j - m]
    <3>1. i - m = j - m
      BY <1>2, <1>7, <2>3 DEF Orderly
    <3> QED BY <1>2, <3>1
  <2> QED BY <1>5, <1>7, <2>1, <2>2, <2>3
<1>8. Orderly(q)
  BY <1>2, <1>6, <1>7 DEF Orderly
<1> QED BY <1>6, <1>8 DEF q

LEMMA OneIsOrderly ==
  ASSUME NEW w PROVE Orderly(<<w>>) /\ Items(<<w>>) = {w}
<1>1. DOMAIN <<w>> = {1} /\ <<w>>[1] = w
  OBVIOUS
<1>2. Items(<<w>>) = {w}
  BY <1>1 DEF Items
<1>3. <<w>> \in Seq({w})
  OBVIOUS
<1> QED BY <1>1, <1>2, <1>3 DEF Orderly

LEMMA NoneIsOrderly == Orderly(<<>>) /\ Items(<<>>) = {}
<1>1. DOMAIN <<>> = {}
  OBVIOUS
<1>2. Items(<<>>) = {}
  BY <1>1 DEF Items
<1>3. <<>> \in Seq({})
  OBVIOUS
<1> QED BY <1>1, <1>2, <1>3 DEF Orderly

LEMMA WhenIsOrderly ==
  ASSUME NEW c \in BOOLEAN, NEW w
  PROVE  Orderly(When(c, <<w>>)) /\ Items(When(c, <<w>>)) = IF c THEN {w} ELSE {}
<1>1. CASE c
  BY <1>1, OneIsOrderly DEF When
<1>2. CASE ~c
  BY <1>2, NoneIsOrderly DEF When
<1> QED BY <1>1, <1>2

(* What a file is after the writes.                                        *)
LEMMA AppliedFile ==
  ASSUME NEW q, Orderly(q), NEW dir, NEW f \in Files
  PROVE  /\ \A w \in Items(q) : w.file = f => Apply(dir, q)[f] = w.content
         /\ f \notin FilesOf(q) => Apply(dir, q)[f] = dir[f]
<1>1. Apply(dir, q)[f] = IF \E i \in DOMAIN q : q[i].file = f
                         THEN q[CHOOSE i \in DOMAIN q : q[i].file = f].content ELSE dir[f]
  BY DEF Apply
<1>2. ASSUME NEW w \in Items(q), w.file = f PROVE Apply(dir, q)[f] = w.content
  <2>1. PICK k \in DOMAIN q : q[k] = w
    BY DEF Items
  <2>2. (CHOOSE i \in DOMAIN q : q[i].file = f) = k
    BY <1>2, <2>1 DEF Orderly
  <2> QED BY <1>1, <1>2, <2>1, <2>2
<1>3. ASSUME f \notin FilesOf(q) PROVE Apply(dir, q)[f] = dir[f]
  BY <1>1, <1>3 DEF FilesOf, Items
<1> QED BY <1>2, <1>3

(* Stopping before a write and going on after it comes to leaving it out.  *)
PassedOver(q, dir, i, p, d) ==
  d = Apply(dir, SubSeq(q, 1, i - 1)) /\ p = SubSeq(q, i + 1, Len(q))

LeftOut(q, dir, file, p, d) ==
  /\ Orderly(p) /\ Items(p) \subseteq Items(q)
  /\ \A f \in Files : Apply(d, p)[f] = IF f = file THEN dir[f] ELSE Apply(dir, q)[f]

LEMMA PassingOver ==
  ASSUME NEW q, Orderly(q), NEW dir, NEW i \in DOMAIN q, NEW p, NEW d, PassedOver(q, dir, i, p, d)
  PROVE  LeftOut(q, dir, q[i].file, p, d)
<1>0. d = Apply(dir, SubSeq(q, 1, i - 1)) /\ p = SubSeq(q, i + 1, Len(q))
  BY DEF PassedOver
<1> DEFINE n == Len(q)
           h == SubSeq(q, 1, i - 1)
<1>1. q \in Seq(Items(q)) /\ n \in Nat /\ DOMAIN q = 1..n /\ i \in 1..n /\ i \in Int
  BY DEF Orderly
<1>2. /\ Len(p) = n - i /\ DOMAIN p = 1..(n - i)
      /\ \A j \in 1..(n - i) : p[j] = q[i + j] /\ i + j \in 1..n
  BY <1>0, <1>1
<1>3. /\ DOMAIN h = 1..(i - 1) /\ Len(h) = i - 1
      /\ \A j \in 1..(i - 1) : h[j] = q[j] /\ j \in 1..n
  BY <1>1
<1>4. p \in Seq(Items(p))
  <2>1. p \in Seq(Items(q))
    BY <1>0, <1>1
  <2> QED BY <2>1, SeqOfItems
<1>5. h \in Seq(Items(h))
  <2>1. h \in Seq(Items(q))
    BY <1>1
  <2> QED BY <2>1, SeqOfItems
<1> HIDE DEF n, h
<1>6. Orderly(p)
  <2>1. ASSUME NEW j \in 1..(n - i), NEW k \in 1..(n - i), p[j].file = p[k].file PROVE j = k
    <3>1. i + j = i + k
      BY <1>1, <1>2, <2>1 DEF Orderly
    <3> QED BY <1>1, <3>1
  <2> QED BY <1>2, <1>4, <2>1 DEF Orderly
<1>7. Orderly(h)
  <2>1. ASSUME NEW j \in 1..(i - 1), NEW k \in 1..(i - 1), h[j].file = h[k].file PROVE j = k
    BY <1>1, <1>3, <2>1 DEF Orderly
  <2> QED BY <1>3, <1>5, <2>1 DEF Orderly
<1>8. Items(p) \subseteq Items(q) /\ Items(h) \subseteq Items(q)
  BY <1>1, <1>2, <1>3 DEF Items
<1>9. \A w \in Items(p) \union Items(h) : w.file # q[i].file
  <2>1. ASSUME NEW j \in 1..(n - i) PROVE p[j].file # q[i].file
    <3>1. i + j # i
      BY <1>1
    <3> QED BY <1>1, <1>2, <3>1 DEF Orderly
  <2>2. ASSUME NEW j \in 1..(i - 1) PROVE h[j].file # q[i].file
    <3>1. j # i
      BY <1>1
    <3> QED BY <1>1, <1>3, <3>1 DEF Orderly
  <2> QED BY <1>2, <1>3, <2>1, <2>2 DEF Items
<1>10. Items(q) = Items(p) \union Items(h) \union {q[i]}
  <2>1. ASSUME NEW j \in 1..n PROVE q[j] \in Items(p) \union Items(h) \union {q[i]}
    <3>1. CASE j < i
      <4>1. j \in 1..(i - 1)
        BY <1>1, <3>1
      <4> QED BY <1>3, <4>1 DEF Items
    <3>2. CASE j > i
      <4>1. j - i \in 1..(n - i) /\ i + (j - i) = j
        BY <1>1, <3>2
      <4> QED BY <1>2, <4>1 DEF Items
    <3> QED BY <1>1, <3>1, <3>2
  <2> QED BY <1>1, <1>8, <2>1 DEF Items
<1>11. ASSUME NEW f \in Files PROVE Apply(d, p)[f] = IF f = q[i].file THEN dir[f] ELSE Apply(dir, q)[f]
  <2>0. d = Apply(dir, h)
    BY <1>0 DEF h
  <2>1. CASE f = q[i].file
    <3>1. f \notin FilesOf(p) /\ f \notin FilesOf(h)
      BY <1>9, <2>1 DEF FilesOf
    <3>2. Apply(d, p)[f] = d[f] /\ d[f] = dir[f]
      BY <1>6, <1>7, <2>0, <3>1, AppliedFile
    <3> QED BY <2>1, <3>2
  <2>2. CASE f # q[i].file /\ f \in FilesOf(p)
    <3>1. PICK w \in Items(p) : w.file = f
      BY <2>2 DEF FilesOf
    <3>2. Apply(d, p)[f] = w.content
      BY <1>6, <3>1, AppliedFile
    <3>3. Apply(dir, q)[f] = w.content
      BY <1>8, <3>1, AppliedFile
    <3> QED BY <2>2, <3>2, <3>3
  <2>3. CASE f # q[i].file /\ f \notin FilesOf(p) /\ f \in FilesOf(h)
    <3>1. PICK w \in Items(h) : w.file = f
      BY <2>3 DEF FilesOf
    <3>2. Apply(d, p)[f] = d[f]
      BY <1>6, <2>3, AppliedFile
    <3>3. d[f] = w.content
      BY <1>7, <2>0, <3>1, AppliedFile
    <3>4. Apply(dir, q)[f] = w.content
      BY <1>8, <3>1, AppliedFile
    <3> QED BY <2>3, <3>2, <3>3, <3>4
  <2>4. CASE f # q[i].file /\ f \notin FilesOf(p) /\ f \notin FilesOf(h)
    <3>1. f \notin FilesOf(q)
      BY <1>10, <2>4 DEF FilesOf
    <3>2. Apply(d, p)[f] = d[f] /\ d[f] = dir[f] /\ Apply(dir, q)[f] = dir[f]
      BY <1>6, <1>7, <2>0, <2>4, <3>1, AppliedFile
    <3> QED BY <2>4, <3>2
  <2> QED BY <2>1, <2>2, <2>3, <2>4
<1> QED BY <1>6, <1>8, <1>11 DEF LeftOut

(* The queues of a run. *)

Written(f, content) == [file |-> f, content |-> content, optional |-> FALSE]

(* What may be passed over is neither a slot nor the deck, and a diagram   *)
(* or chart only if there is none to be made.                              *)
Tame(q) ==
  \A w \in Items(q) : w.optional =>
    w.file \notin SlotNames \union {"deck.md"} /\ (w.file \in Derived => w.content = None)

LEMMA SlotNamesAre ==
  SlotNames = {"pitch", "demo", "architecture", "value", "ask", "disclosure"}
BY DEF SlotNames, Slots

LEMMA FilesAre ==
  /\ SlotNames \subseteq Files /\ Derived \subseteq Files
  /\ "deck.md" \in Files /\ "appendix" \in Files /\ "copy" \in Files
  /\ SlotNames \intersect Derived = {}
  /\ {"deck.md", "appendix", "copy"} \intersect (SlotNames \union Derived) = {}
BY SlotNamesAre DEF Files, Derived

LEMMA SlotWritesAre ==
  ASSUME NEW deck
  PROVE  /\ Orderly(SlotWrites(deck))
         /\ Items(SlotWrites(deck)) = {Written(s, deck[s]) : s \in SlotNames}
<1> DEFINE q == SlotWrites(deck)
<1>1. DOMAIN Slots = 1..6 /\ \A i, j \in 1..6 : Slots[i] = Slots[j] => i = j
  BY DEF Slots
<1>2. q = [i \in 1..6 |-> Written(Slots[i], deck[Slots[i]])]
  BY <1>1 DEF SlotWrites, Write, Written
<1> HIDE DEF q
<1>3. q \in Seq({q[i] : i \in 1..6}) /\ DOMAIN q = 1..6
  BY <1>2
<1>4. Orderly(q)
  BY <1>1, <1>2, <1>3 DEF Orderly, Items, Written
<1>5. Items(q) = {Written(s, deck[s]) : s \in SlotNames}
  BY <1>1, <1>2, <1>3 DEF Items, SlotNames
<1> QED BY <1>4, <1>5 DEF q

LEMMA DeckFileIs ==
  ASSUME NEW deck
  PROVE  /\ Orderly(DeckFile(deck)) /\ FilesOf(DeckFile(deck)) = {"deck.md", "appendix"}
         /\ Written("deck.md", deck) \in Items(DeckFile(deck))
         /\ \A w \in Items(DeckFile(deck)) : w.optional => w.file = "appendix"
<1> DEFINE w1 == Written("deck.md", deck)
           w2 == [file |-> "appendix", content |-> "appendix", optional |-> TRUE]
<1>1. DeckFile(deck) = <<w1>> \o <<w2>>
  BY DEF DeckFile, Write, Copy, Written
<1>2. w1.file = "deck.md" /\ w2.file = "appendix" /\ w1.optional = FALSE
  BY DEF Written
<1> HIDE DEF w1, w2
<1>0. /\ Orderly(<<w1>>) /\ Items(<<w1>>) = {w1}
      /\ Orderly(<<w2>>) /\ Items(<<w2>>) = {w2}
  BY OneIsOrderly
<1>3. FilesOf(<<w1>>) \intersect FilesOf(<<w2>>) = {}
  <2>1. FilesOf(<<w1>>) = {"deck.md"} /\ FilesOf(<<w2>>) = {"appendix"}
    BY <1>0, <1>2 DEF FilesOf
  <2> QED BY <2>1
<1>4. Orderly(DeckFile(deck)) /\ Items(DeckFile(deck)) = {w1} \union {w2}
  <2>1. Orderly(<<w1>> \o <<w2>>) /\ Items(<<w1>> \o <<w2>>) = Items(<<w1>>) \union Items(<<w2>>)
    BY <1>0, <1>3, JoinIsOrderly
  <2> QED BY <1>0, <1>1, <2>1
<1> QED BY <1>2, <1>4 DEF FilesOf, w1

(* The diagram and the charts: each is written or dropped.                 *)
LEMMA EmittedAre ==
  ASSUME NEW made
  PROVE  /\ Orderly(Emitted(made))
         /\ Items(Emitted(made)) = {Written(f, made[f]) : f \in {f \in Derived : made[f] # None}}
<1> DEFINE w(f) == Written(f, made[f])
           e(f) == When(made[f] # None, <<w(f)>>)
<1>1. Emitted(made) = e("diagram.mmd") \o e("chart-tam.svg") \o e("chart-revenue.svg")
  BY DEF Emitted, Write, Written
<1>2. ASSUME NEW f PROVE Orderly(e(f)) /\ Items(e(f)) = IF made[f] # None THEN {w(f)} ELSE {}
  BY WhenIsOrderly
<1>3. ASSUME NEW f PROVE w(f).file = f
  BY DEF Written
<1> HIDE DEF e, w
<1>4. ASSUME NEW f PROVE FilesOf(e(f)) \subseteq {f}
  BY <1>2, <1>3 DEF FilesOf
<1>5. /\ Orderly(e("diagram.mmd") \o e("chart-tam.svg"))
      /\ Items(e("diagram.mmd") \o e("chart-tam.svg")) = Items(e("diagram.mmd")) \union Items(e("chart-tam.svg"))
  <2>1. FilesOf(e("diagram.mmd")) \intersect FilesOf(e("chart-tam.svg")) = {}
    BY <1>4
  <2> QED BY <1>2, <2>1, JoinIsOrderly
<1>6. FilesOf(e("diagram.mmd") \o e("chart-tam.svg")) \intersect FilesOf(e("chart-revenue.svg")) = {}
  <2>1. FilesOf(e("diagram.mmd") \o e("chart-tam.svg")) = FilesOf(e("diagram.mmd")) \union FilesOf(e("chart-tam.svg"))
    BY <1>5 DEF FilesOf
  <2> QED BY <1>4, <2>1
<1>7. /\ Orderly(Emitted(made))
      /\ Items(Emitted(made)) = Items(e("diagram.mmd")) \union Items(e("chart-tam.svg")) \union Items(e("chart-revenue.svg"))
  BY <1>1, <1>2, <1>5, <1>6, JoinIsOrderly
<1>8. Items(Emitted(made)) = {w(f) : f \in {f \in Derived : made[f] # None}}
  BY <1>2, <1>7 DEF Derived
<1> QED BY <1>7, <1>8 DEF w

LEMMA StaleAre ==
  ASSUME NEW made
  PROVE  /\ Orderly(Stale(made))
         /\ Items(Stale(made)) =
              {[file |-> f, content |-> None, optional |-> TRUE] : f \in {f \in Derived : made[f] = None}}
<1> DEFINE w(f) == [file |-> f, content |-> None, optional |-> TRUE]
           e(f) == When(made[f] = None, <<w(f)>>)
<1>1. Stale(made) = e("diagram.mmd") \o e("chart-tam.svg") \o e("chart-revenue.svg")
  BY DEF Stale, Drop
<1>2. ASSUME NEW f PROVE Orderly(e(f)) /\ Items(e(f)) = IF made[f] = None THEN {w(f)} ELSE {}
  BY WhenIsOrderly
<1>3. ASSUME NEW f PROVE w(f).file = f
  OBVIOUS
<1> HIDE DEF e, w
<1>4. ASSUME NEW f PROVE FilesOf(e(f)) \subseteq {f}
  BY <1>2, <1>3 DEF FilesOf
<1>5. /\ Orderly(e("diagram.mmd") \o e("chart-tam.svg"))
      /\ Items(e("diagram.mmd") \o e("chart-tam.svg")) = Items(e("diagram.mmd")) \union Items(e("chart-tam.svg"))
  <2>1. FilesOf(e("diagram.mmd")) \intersect FilesOf(e("chart-tam.svg")) = {}
    BY <1>4
  <2> QED BY <1>2, <2>1, JoinIsOrderly
<1>6. FilesOf(e("diagram.mmd") \o e("chart-tam.svg")) \intersect FilesOf(e("chart-revenue.svg")) = {}
  <2>1. FilesOf(e("diagram.mmd") \o e("chart-tam.svg")) = FilesOf(e("diagram.mmd")) \union FilesOf(e("chart-tam.svg"))
    BY <1>5 DEF FilesOf
  <2> QED BY <1>4, <2>1
<1>7. /\ Orderly(Stale(made))
      /\ Items(Stale(made)) = Items(e("diagram.mmd")) \union Items(e("chart-tam.svg")) \union Items(e("chart-revenue.svg"))
  BY <1>1, <1>2, <1>5, <1>6, JoinIsOrderly
<1>8. Items(Stale(made)) = {w(f) : f \in {f \in Derived : made[f] = None}}
  BY <1>2, <1>7 DEF Derived
<1> QED BY <1>7, <1>8 DEF w

(* A queue that writes a deck: every slot, and the deck they make.         *)
Makes(q, deck) ==
  /\ Orderly(q) /\ Tame(q)
  /\ Written("deck.md", deck) \in Items(q)
  /\ \A s \in SlotNames : Written(s, deck[s]) \in Items(q)

LEMMA MadeDeck ==
  ASSUME NEW q, NEW deck, Makes(q, deck), NEW dir
  PROVE  /\ Apply(dir, q)["deck.md"] = deck
         /\ \A s \in SlotNames : Apply(dir, q)[s] = deck[s]
         /\ q[CHOOSE i \in DOMAIN q : q[i].file = "deck.md"].content = deck
<1>1. \A f, c : Written(f, c).file = f /\ Written(f, c).content = c
  BY DEF Written
<1>2. Apply(dir, q)["deck.md"] = deck
  BY <1>1, FilesAre, AppliedFile DEF Makes
<1>3. \A s \in SlotNames : Apply(dir, q)[s] = deck[s]
  <2>1. ASSUME NEW s \in SlotNames PROVE Apply(dir, q)[s] = deck[s]
    <3>1. s \in Files /\ Written(s, deck[s]) \in Items(q)
      BY FilesAre DEF Makes
    <3> QED BY <1>1, <3>1, AppliedFile DEF Makes
  <2> QED BY <2>1
<1>4. Apply(dir, q)["deck.md"] = q[CHOOSE i \in DOMAIN q : q[i].file = "deck.md"].content
  <2>1. \E i \in DOMAIN q : q[i].file = "deck.md"
    BY <1>1 DEF Makes, Items
  <2> QED BY <2>1, FilesAre DEF Apply
<1> QED BY <1>2, <1>3, <1>4

LEMMA SkeletonMakes ==
  ASSUME NEW manifest
  PROVE  Makes(SkeletonQueue(manifest), Skeleton) /\ "copy" \notin FilesOf(SkeletonQueue(manifest))
<1> DEFINE S == SlotWrites(Skeleton)
           w == Written("diagram.mmd", IF manifest = None THEN None ELSE DiagramOf(manifest))
           G == When(manifest # None, <<w>>)
           D == DeckFile(Skeleton)
<1>1. SkeletonQueue(manifest) = S \o G \o D
  BY DEF SkeletonQueue, Write, Written
<1>2. /\ Orderly(S) /\ Items(S) = {Written(s, Skeleton[s]) : s \in SlotNames}
      /\ Orderly(G) /\ Items(G) \subseteq {w}
      /\ Orderly(D) /\ FilesOf(D) = {"deck.md", "appendix"} /\ Written("deck.md", Skeleton) \in Items(D)
      /\ \A x \in Items(D) : x.optional => x.file = "appendix"
  BY SlotWritesAre, WhenIsOrderly, DeckFileIs
<1>3. (\A f, c : Written(f, c).file = f /\ Written(f, c).optional = FALSE)
      /\ w.file = "diagram.mmd" /\ w.optional = FALSE
  BY DEF Written
<1> HIDE DEF S, G, D, w
<1>4. FilesOf(S) = SlotNames /\ FilesOf(G) \subseteq {"diagram.mmd"}
  BY <1>2, <1>3 DEF FilesOf
<1>5. Orderly(S \o G) /\ Items(S \o G) = Items(S) \union Items(G)
  BY <1>2, <1>4, FilesAre, JoinIsOrderly DEF Derived
<1>6. FilesOf(S \o G) = FilesOf(S) \union FilesOf(G)
  BY <1>5 DEF FilesOf
<1>7. Orderly(S \o G \o D) /\ Items(S \o G \o D) = Items(S) \union Items(G) \union Items(D)
  BY <1>2, <1>4, <1>5, <1>6, FilesAre, JoinIsOrderly DEF Derived
<1>8. FilesOf(S \o G \o D) = FilesOf(S) \union FilesOf(G) \union FilesOf(D)
  BY <1>7 DEF FilesOf
<1>9. Tame(S \o G \o D)
  BY <1>2, <1>3, <1>7, FilesAre DEF Tame
<1>10. Makes(S \o G \o D, Skeleton)
  BY <1>2, <1>7, <1>9 DEF Makes
<1> QED BY <1>1, <1>2, <1>4, <1>8, <1>10, FilesAre DEF Derived

DeckOf(in) == [slot \in SlotNames |-> Interior(in, slot)]

LEMMA PopulateMakes ==
  ASSUME NEW in
  PROVE  /\ Makes(PopulateQueue(in), DeckOf(in)) /\ "copy" \notin FilesOf(PopulateQueue(in))
         /\ \A f \in Derived : \E w \in Items(PopulateQueue(in)) : w.file = f /\ w.content = Made(in)[f]
<1> DEFINE made == Made(in)
           S == SlotWrites(DeckOf(in))
           E == Emitted(made)
           T == Stale(made)
           D == DeckFile(DeckOf(in))
<1>1. PopulateQueue(in) = S \o E \o T \o D
  BY DEF PopulateQueue, DeckOf
<1>2. /\ Orderly(S) /\ Items(S) = {Written(s, DeckOf(in)[s]) : s \in SlotNames}
      /\ Orderly(D) /\ FilesOf(D) = {"deck.md", "appendix"} /\ Written("deck.md", DeckOf(in)) \in Items(D)
      /\ \A x \in Items(D) : x.optional => x.file = "appendix"
  BY SlotWritesAre, DeckFileIs
<1>3. /\ Orderly(E) /\ Orderly(T)
      /\ Items(E) = {Written(f, made[f]) : f \in {f \in Derived : made[f] # None}}
      /\ Items(T) = {[file |-> f, content |-> None, optional |-> TRUE] : f \in {f \in Derived : made[f] = None}}
  BY EmittedAre, StaleAre
<1>4. \A f, c : Written(f, c).file = f /\ Written(f, c).optional = FALSE /\ Written(f, c).content = c
  BY DEF Written
<1> HIDE DEF S, E, T, D, made
<1>5. /\ FilesOf(S) = SlotNames
      /\ \A f \in FilesOf(E) : f \in Derived /\ made[f] # None
      /\ \A f \in FilesOf(T) : f \in Derived /\ made[f] = None
  BY <1>2, <1>3, <1>4 DEF FilesOf
<1>6. Orderly(S \o E) /\ Items(S \o E) = Items(S) \union Items(E)
  <2>1. FilesOf(S) \intersect FilesOf(E) = {}
    BY <1>5, FilesAre
  <2> QED BY <1>2, <1>3, <2>1, JoinIsOrderly
<1>7. Orderly(S \o E \o T) /\ Items(S \o E \o T) = Items(S) \union Items(E) \union Items(T)
  <2>1. FilesOf(S \o E) \intersect FilesOf(T) = {}
    <3>1. FilesOf(S \o E) = FilesOf(S) \union FilesOf(E)
      BY <1>6 DEF FilesOf
    <3> QED BY <1>5, <3>1, FilesAre
  <2> QED BY <1>3, <1>6, <2>1, JoinIsOrderly
<1>8. /\ Orderly(S \o E \o T \o D)
      /\ Items(S \o E \o T \o D) = Items(S) \union Items(E) \union Items(T) \union Items(D)
  <2>1. FilesOf(S \o E \o T) \intersect FilesOf(D) = {}
    <3>1. FilesOf(S \o E \o T) = FilesOf(S) \union FilesOf(E) \union FilesOf(T)
      BY <1>7 DEF FilesOf
    <3> QED BY <1>2, <1>5, <3>1, FilesAre
  <2> QED BY <1>2, <1>7, <2>1, JoinIsOrderly
<1>9. FilesOf(S \o E \o T \o D) = FilesOf(S) \union FilesOf(E) \union FilesOf(T) \union FilesOf(D)
  BY <1>8 DEF FilesOf
<1>10. Tame(S \o E \o T \o D)
  <2>1. ASSUME NEW w \in Items(S) \union Items(E), w.optional PROVE FALSE
    BY <1>2, <1>3, <1>4, <2>1
  <2>2. ASSUME NEW w \in Items(T) PROVE w.file \in Derived /\ w.content = None
    BY <1>3, <2>2
  <2> QED BY <1>2, <1>8, <2>1, <2>2, FilesAre DEF Tame
<1>11. Makes(S \o E \o T \o D, DeckOf(in))
  BY <1>2, <1>8, <1>10 DEF Makes
<1>12. ASSUME NEW f \in Derived PROVE \E w \in Items(E) \union Items(T) : w.file = f /\ w.content = made[f]
  <2>1. CASE made[f] # None
    BY <1>3, <1>4, <2>1
  <2>2. CASE made[f] = None
    <3>1. [file |-> f, content |-> None, optional |-> TRUE] \in Items(T)
      BY <1>3, <2>2
    <3> QED BY <2>2, <3>1
  <2> QED BY <2>1, <2>2
<1>13. \A f \in Derived : \E w \in Items(S \o E \o T \o D) : w.file = f /\ w.content = made[f]
  BY <1>8, <1>12
<1>14. "copy" \notin FilesOf(S \o E \o T \o D)
  BY <1>2, <1>5, <1>9, FilesAre
<1> QED BY <1>1, <1>11, <1>13, <1>14 DEF made

(* What a directory must be for a deck to be presented, and for it to be   *)
(* the one of these inputs.                                                *)
WholeDir(dir) ==
  /\ dir["deck.md"] = [s \in SlotNames |-> dir[s]]
  /\ \A s \in SlotNames : dir[s].refs \subseteq Derived /\ \A a \in dir[s].refs : dir[a] # None

CurrentDir(in, dir) ==
  /\ dir["diagram.mmd"] = IF in.manifest = None THEN None ELSE DiagramOf(in.manifest)
  /\ dir["chart-tam.svg"] = IF in.plan.tam = "amount" THEN "amount" ELSE None
  /\ dir["chart-revenue.svg"] = in.plan.revenue
  /\ dir["value"].figures \subseteq PlanFigures(in.plan)

InputsOK(in) ==
  /\ in \in [plan : DeckPlans, manifest : DeckManifests \union {None}, phrased : Phrasings,
             disclosure : {None, "disclosed"}, single : BOOLEAN]
  /\ in.manifest # None => in.manifest \subseteq DOMAIN Deps

LEMMA SkeletonIsWhole ==
  ASSUME NEW q, Makes(q, Skeleton), NEW dir
  PROVE  WholeDir(Apply(dir, q))
<1>1. Skeleton = [s \in SlotNames |-> Skeleton[s]] /\ \A s \in SlotNames : Skeleton[s].refs = {}
  BY DEF Skeleton, Text
<1> HIDE DEF Skeleton
<1>2. Apply(dir, q)["deck.md"] = Skeleton /\ \A s \in SlotNames : Apply(dir, q)[s] = Skeleton[s]
  BY MadeDeck
<1> QED BY <1>1, <1>2 DEF WholeDir

(* A slot refers only to what is made.                                     *)
LEMMA RefsAreMade ==
  ASSUME NEW in, InputsOK(in), NEW s \in SlotNames
  PROVE  Interior(in, s).refs \subseteq {f \in Derived : Made(in)[f] # None}
<1>1. \A t : Text(t).refs = {}
  BY DEF Text
<1>2. CASE s = "pitch"
  BY <1>1, <1>2 DEF Interior, PitchSlot
<1>3. CASE s = "demo"
  BY <1>1, <1>3 DEF Interior
<1>4. CASE s = "ask"
  BY <1>1, <1>4 DEF Interior
<1>5. CASE s = "disclosure"
  BY <1>1, <1>5, SlotNamesAre DEF Interior, DisclosureSlot, Skeleton
<1>6. CASE s = "architecture"
  <2>1. Interior(in, s) = [Text("plan") EXCEPT !.refs = IF in.manifest # None THEN {"diagram.mmd"} ELSE {}]
    BY <1>6 DEF Interior
  <2>2. Interior(in, s).refs = IF in.manifest # None THEN {"diagram.mmd"} ELSE {}
    BY <2>1 DEF Text
  <2>3. in.manifest # None => DiagramOf(in.manifest) # None
    BY DeckAssumption DEF InputsOK
  <2>4. in.manifest # None => Made(in)["diagram.mmd"] # None
    BY <2>3 DEF Made, Derived
  <2> QED BY <2>2, <2>4 DEF Derived
<1>7. CASE s = "value"
  <2>1. Interior(in, s) = ValueSlot(in)
    BY <1>7 DEF Interior
  <2>2. Interior(in, s).refs \subseteq Charts(in.plan)
    BY <1>1, <2>1 DEF ValueSlot
  <2>3. ASSUME NEW f \in Charts(in.plan) PROVE f \in Derived /\ Made(in)[f] # None
    <3>1. CASE f = "chart-tam.svg"
      <4>1. in.plan.tam = "amount"
        BY <2>3, <3>1 DEF Charts
      <4> QED BY <2>3, <3>1, <4>1, DeckAssumption DEF Made, Derived
    <3>2. CASE f = "chart-revenue.svg"
      <4>1. in.plan.revenue # None
        BY <2>3, <3>2 DEF Charts
      <4> QED BY <2>3, <3>2, <4>1 DEF Made, Derived
    <3> QED BY <2>3, <3>1, <3>2 DEF Charts
  <2> QED BY <2>2, <2>3
<1> QED BY <1>2, <1>3, <1>4, <1>5, <1>6, <1>7, SlotNamesAre

(* Slot 06 states no figure that the plan lacks, whatever was phrased.     *)
LEMMA ValueIsQuoted ==
  ASSUME NEW in PROVE ValueSlot(in).figures \subseteq PlanFigures(in.plan)
<1> DEFINE quoted == PlanFigures(in.plan)
           stated == IF in.phrased = "inventing" THEN quoted \union {"invented"} ELSE quoted
           excerpt == IF in.plan.bv = "frozen" THEN quoted ELSE {}
<1>1. excerpt \subseteq quoted /\ \A t : Text(t).figures = {}
  BY DEF Text
<1>2. ValueSlot(in) =
        IF in.phrased = "failed" /\ in.plan.bv # "frozen" THEN Text("todo")
        ELSE IF in.phrased \in {"faithful", "inventing"} /\ stated \subseteq excerpt
        THEN [text |-> "phrased", figures |-> stated, refs |-> Charts(in.plan)]
        ELSE [text |-> "quoted", figures |-> quoted, refs |-> Charts(in.plan)]
  BY DEF ValueSlot
<1> HIDE DEF quoted, stated, excerpt
<1> QED BY <1>1, <1>2 DEF quoted

LEMMA PopulatedIsWhole ==
  ASSUME NEW in, InputsOK(in), NEW q, Makes(q, DeckOf(in)), NEW dir,
         \A f \in Derived : \E w \in Items(q) : w.file = f /\ w.content = Made(in)[f]
  PROVE  WholeDir(Apply(dir, q)) /\ CurrentDir(in, Apply(dir, q))
<1> DEFINE d == Apply(dir, q)
<1>1. d["deck.md"] = DeckOf(in) /\ \A s \in SlotNames : d[s] = Interior(in, s)
  BY MadeDeck DEF DeckOf
<1>2. \A f \in Derived : d[f] = Made(in)[f]
  <2>1. ASSUME NEW f \in Derived PROVE d[f] = Made(in)[f]
    <3>1. PICK w \in Items(q) : w.file = f /\ w.content = Made(in)[f]
      OBVIOUS
    <3>2. f \in Files
      BY FilesAre
    <3> QED BY <3>1, <3>2, AppliedFile DEF Makes
  <2> QED BY <2>1
<1> HIDE DEF d
<1>3. WholeDir(d)
  BY <1>1, <1>2, RefsAreMade DEF WholeDir, DeckOf
<1>4. d["value"].figures \subseteq PlanFigures(in.plan)
  BY <1>1, ValueIsQuoted, SlotNamesAre DEF Interior
<1>5. d["diagram.mmd"] = IF in.manifest = None THEN None ELSE DiagramOf(in.manifest)
  BY <1>2 DEF Made, Derived
<1>6. d["chart-tam.svg"] = IF in.plan.tam = "amount" THEN "amount" ELSE None
  BY <1>2 DEF Made, Derived, Charts
<1>7. d["chart-revenue.svg"] = in.plan.revenue
  BY <1>2 DEF Made, Derived, Charts
<1> QED BY <1>3, <1>4, <1>5, <1>6, <1>7 DEF CurrentDir, d

(* The whole queue of a run, with the copy in one file.                    *)
LEMMA QueueMakes ==
  ASSUME NEW in, InputsOK(in), NEW dir
  PROVE  /\ Orderly(Queue(in)) /\ Tame(Queue(in)) /\ WholeDir(Apply(dir, Queue(in)))
         /\ ~SkeletonMode(in) => CurrentDir(in, Apply(dir, Queue(in)))
<1> DEFINE q == IF SkeletonMode(in) THEN SkeletonQueue(in.manifest) ELSE PopulateQueue(in)
           deck == IF SkeletonMode(in) THEN Skeleton ELSE DeckOf(in)
           c == When(in.single, <<Written("copy", deck)>>)
<1>1. /\ Makes(q, deck) /\ "copy" \notin FilesOf(q)
      /\ ~SkeletonMode(in) => \A f \in Derived : \E w \in Items(q) : w.file = f /\ w.content = Made(in)[f]
  BY SkeletonMakes, PopulateMakes
<1>2. Queue(in) = q \o c
  <2>1. q[CHOOSE i \in DOMAIN q : q[i].file = "deck.md"].content = deck
    BY <1>1, MadeDeck
  <2>2. Queue(in) = q \o DeckCopy(in, q[CHOOSE i \in DOMAIN q : q[i].file = "deck.md"].content)
    BY DEF Queue
  <2> HIDE DEF q, deck
  <2> QED BY <2>1, <2>2 DEF DeckCopy, Write, Written
<1>3. Orderly(c) /\ Items(c) \subseteq {Written("copy", deck)}
  <2>1. in.single \in BOOLEAN
    BY DEF InputsOK
  <2> QED BY <2>1, WhenIsOrderly
<1>4. \A f, x : Written(f, x).file = f /\ Written(f, x).optional = FALSE
  BY DEF Written
<1>5. SkeletonMode(in) => deck = Skeleton
  OBVIOUS
<1>6. ~SkeletonMode(in) => deck = DeckOf(in)
  OBVIOUS
<1> HIDE DEF q, deck, c
<1>7. FilesOf(q) \intersect FilesOf(c) = {}
  BY <1>1, <1>3, <1>4 DEF FilesOf
<1>8. Orderly(q \o c) /\ Items(q \o c) = Items(q) \union Items(c)
  BY <1>1, <1>3, <1>7, JoinIsOrderly DEF Makes
<1>9. Tame(q \o c)
  BY <1>1, <1>3, <1>4, <1>8 DEF Makes, Tame
<1>10. Makes(q \o c, deck)
  BY <1>1, <1>8, <1>9 DEF Makes
<1>11. CASE SkeletonMode(in)
  BY <1>2, <1>5, <1>8, <1>9, <1>10, <1>11, SkeletonIsWhole
<1>12. CASE ~SkeletonMode(in)
  <2>1. Makes(q \o c, DeckOf(in))
    BY <1>6, <1>10, <1>12
  <2>2. \A f \in Derived : \E w \in Items(q \o c) : w.file = f /\ w.content = Made(in)[f]
    BY <1>1, <1>8, <1>12
  <2>3. WholeDir(Apply(dir, q \o c)) /\ CurrentDir(in, Apply(dir, q \o c))
    BY <2>1, <2>2, PopulatedIsWhole
  <2> QED BY <1>2, <1>8, <1>9, <2>3
<1> QED BY <1>11, <1>12

(* What a run still has to write makes a directory that holds together,    *)
(* and, as long as nothing was passed over, the one of its inputs.         *)
Running ==
  dStatus = "running" =>
    /\ Orderly(dQueue) /\ Tame(dQueue) /\ WholeDir(Apply(dDir, dQueue))
    /\ dMend = "none" /\ ~SkeletonMode(dIn) => CurrentDir(dIn, Apply(dDir, dQueue))

Ended ==
  /\ dStatus \in {"ok", "mended"} => WholeDir(dDir)
  /\ dStatus = "ok" /\ ~SkeletonMode(dIn) => CurrentDir(dIn, dDir)

DeckInv == Running /\ Ended

LEMMA DeckAtFirst == DeckInit => DeckInv
BY DEF DeckInit, DeckInv, Running, Ended

(* The skeleton is whole over whatever the directory is left with.         *)
LEMMA SkeletonQueueOK ==
  ASSUME NEW manifest, NEW dir
  PROVE  /\ Orderly(SkeletonQueue(manifest)) /\ Tame(SkeletonQueue(manifest))
         /\ WholeDir(Apply(dir, SkeletonQueue(manifest)))
<1>1. Makes(SkeletonQueue(manifest), Skeleton)
  BY SkeletonMakes
<1> QED BY <1>1, SkeletonIsWhole DEF Makes

LEMMA StartKeeps == DeckInv /\ DeckStart => DeckInv'
<1> SUFFICES ASSUME DeckInv, DeckStart PROVE DeckInv'
  OBVIOUS
<1>1. CASE DeckEnd("refused") \/ DeckEnd("checked")
  BY <1>1 DEF DeckEnd, DeckInv, Running, Ended
<1>2. CASE ~(DeckEnd("refused") \/ DeckEnd("checked"))
  <2>0. PICK plan \in DeckPlans, manifest \in DeckManifests \union {None}, phrased \in Phrasings,
             disclosure \in {None, "disclosed"}, single \in BOOLEAN, screens \in BOOLEAN :
          /\ manifest # None => manifest \subseteq DOMAIN Deps
          /\ LET in == [plan |-> plan, manifest |-> manifest, phrased |-> phrased,
                        disclosure |-> disclosure, single |-> single]
             IN /\ dIn' = in /\ dStatus' = "running"
                /\ IF ShowsUi(manifest) /\ ~screens /\ ~SkeletonMode(in)
                   THEN dQueue' = SkeletonQueue(None) /\ dMend' = "skeleton"
                   ELSE dQueue' = Queue(in) /\ dMend' = "none"
    BY <1>2, Zenon DEF DeckStart
  <2> DEFINE in == [plan |-> plan, manifest |-> manifest, phrased |-> phrased,
                    disclosure |-> disclosure, single |-> single]
  <2>1. /\ dIn' = in /\ dStatus' = "running"
        /\ \/ dQueue' = SkeletonQueue(None) /\ dMend' = "skeleton"
           \/ dQueue' = Queue(dIn') /\ dMend' = "none"
    BY <2>0
  <2>2. InputsOK(dIn')
    <3>1. InputsOK(in)
      BY <2>0 DEF InputsOK
    <3> QED BY <2>1, <3>1
  <2>3. dDir' = dDir
    BY DEF DeckStart
  <2>4. CASE dQueue' = SkeletonQueue(None) /\ dMend' = "skeleton"
    <3>1. /\ Orderly(dQueue') /\ Tame(dQueue')
          /\ WholeDir(Apply(dDir', dQueue'))
      BY <2>4, SkeletonQueueOK
    <3> QED BY <2>1, <2>4, <3>1 DEF DeckInv, Running, Ended
  <2>5. CASE dQueue' = Queue(dIn') /\ dMend' = "none"
    <3>1. /\ Orderly(dQueue') /\ Tame(dQueue')
          /\ WholeDir(Apply(dDir', dQueue'))
          /\ ~SkeletonMode(dIn') => CurrentDir(dIn', Apply(dDir', dQueue'))
      BY <2>2, <2>5, QueueMakes
    <3> QED BY <2>1, <2>5, <3>1 DEF DeckInv, Running, Ended, SkeletonMode
  <2> QED BY <2>1, <2>4, <2>5
<1> QED BY <1>1, <1>2

(* A write that is passed over is of nothing that holds the deck together. *)
LEMMA PassedOverIsWhole ==
  ASSUME NEW q, Orderly(q), Tame(q), NEW dir, WholeDir(Apply(dir, q)), NEW i \in DOMAIN q, q[i].optional,
         NEW p, NEW d, PassedOver(q, dir, i, p, d)
  PROVE  Orderly(p) /\ Tame(p) /\ WholeDir(Apply(d, p))
<1> DEFINE old == Apply(dir, q)
           new == Apply(d, p)
<1>1. /\ Orderly(p) /\ Items(p) \subseteq Items(q)
      /\ \A f \in Files : new[f] = IF f = q[i].file THEN dir[f] ELSE old[f]
  <2>1. LeftOut(q, dir, q[i].file, p, d)
    BY PassingOver
  <2> QED BY <2>1 DEF LeftOut
<1>2. q[i] \in Items(q)
  BY DEF Items
<1>3. q[i].file \notin SlotNames \union {"deck.md"} /\ (q[i].file \in Derived => q[i].content = None)
  BY <1>2 DEF Tame
<1>4. q[i].file \in Derived => old[q[i].file] = None
  BY <1>2, <1>3, FilesAre, AppliedFile
<1>5. WholeDir(old)
  OBVIOUS
<1>6. Tame(p)
  BY <1>1 DEF Tame
<1> HIDE DEF old, new
<1>7. new["deck.md"] = old["deck.md"] /\ \A s \in SlotNames : new[s] = old[s]
  BY <1>1, <1>3, FilesAre
<1>8. ASSUME NEW s \in SlotNames, NEW a \in new[s].refs PROVE a \in Derived /\ new[a] # None
  <2>1. a \in Derived /\ old[a] # None
    BY <1>5, <1>7, <1>8 DEF WholeDir
  <2>2. a # q[i].file
    BY <1>4, <2>1
  <2> QED BY <1>1, <2>1, <2>2, FilesAre
<1>9. [s \in SlotNames |-> new[s]] = [s \in SlotNames |-> old[s]]
  BY <1>7
<1>10. WholeDir(new)
  BY <1>5, <1>7, <1>8, <1>9 DEF WholeDir
<1> QED BY <1>1, <1>6, <1>10 DEF new

LEMMA WriteFailsKeeps == DeckInv /\ DeckWriteFails => DeckInv'
<1> SUFFICES ASSUME DeckInv, DeckWriteFails PROVE DeckInv'
  OBVIOUS
<1>1. PICK i \in DOMAIN dQueue :
        /\ dDir' = Apply(dDir, SubSeq(dQueue, 1, i - 1))
        /\ IF dQueue[i].optional
           THEN /\ dQueue' = SubSeq(dQueue, i + 1, Len(dQueue))
                /\ dMend' = IF dMend = "none" THEN "passed over" ELSE dMend
                /\ UNCHANGED <<dIn, dStatus>>
           ELSE IF dMend # "skeleton"
           THEN dQueue' = SkeletonQueue(None) /\ dMend' = "skeleton" /\ UNCHANGED <<dIn, dStatus>>
           ELSE DeckEnd("claimed")
  BY DEF DeckWriteFails
<1>2. dStatus = "running" /\ Orderly(dQueue) /\ Tame(dQueue) /\ WholeDir(Apply(dDir, dQueue))
  BY DEF DeckWriteFails, DeckInv, Running
<1>3. CASE dQueue[i].optional
  <2>1. /\ Orderly(dQueue') /\ Tame(dQueue')
        /\ WholeDir(Apply(dDir', dQueue'))
    <3>1. PassedOver(dQueue, dDir, i, dQueue', dDir')
      BY <1>1, <1>3 DEF PassedOver
    <3> QED BY <1>2, <1>3, <3>1, PassedOverIsWhole
  <2>2. dMend' # "none" /\ dStatus' = "running"
    BY <1>1, <1>2, <1>3
  <2> QED BY <2>1, <2>2 DEF DeckInv, Running, Ended
<1>4. CASE ~dQueue[i].optional /\ dMend # "skeleton"
  <2>1. dQueue' = SkeletonQueue(None) /\ dMend' = "skeleton" /\ dStatus' = "running"
    BY <1>1, <1>2, <1>4
  <2>2. /\ Orderly(dQueue') /\ Tame(dQueue')
        /\ WholeDir(Apply(dDir', dQueue'))
    BY <2>1, SkeletonQueueOK
  <2> QED BY <2>1, <2>2 DEF DeckInv, Running, Ended
<1>5. CASE ~dQueue[i].optional /\ dMend = "skeleton"
  BY <1>1, <1>5 DEF DeckEnd, DeckInv, Running, Ended
<1> QED BY <1>3, <1>4, <1>5

LEMMA DeckKept == DeckInv /\ [DeckNext]_deckVars => DeckInv'
<1> SUFFICES ASSUME DeckInv, [DeckNext]_deckVars PROVE DeckInv'
  OBVIOUS
<1>1. CASE DeckStart
  BY <1>1, StartKeeps
<1>2. CASE DeckDiagram
  BY <1>2 DEF DeckDiagram, DeckEnd, DeckInv, Running, Ended
<1>3. CASE DeckWrite
  <2>1. /\ dDir' = Apply(dDir, dQueue) /\ WholeDir(Apply(dDir, dQueue))
        /\ dMend = "none" /\ ~SkeletonMode(dIn) => CurrentDir(dIn, Apply(dDir, dQueue))
    BY <1>3 DEF DeckWrite, DeckInv, Running
  <2>2. /\ dStatus' = IF dMend = "none" THEN "ok" ELSE "mended"
        /\ dMend = "none" => dIn' = dIn
    BY <1>3 DEF DeckWrite, DeckEnd
  <2>3. WholeDir(dDir') /\ (dMend = "none" /\ ~SkeletonMode(dIn) => CurrentDir(dIn, dDir'))
    BY <2>1
  <2>4. Running'
    BY <2>2 DEF Running
  <2>5. Ended'
    <3>1. CASE dMend = "none"
      BY <2>2, <2>3, <3>1 DEF Ended, SkeletonMode
    <3>2. CASE dMend # "none"
      BY <2>2, <2>3, <3>2 DEF Ended
    <3> QED BY <3>1, <3>2
  <2> QED BY <2>4, <2>5 DEF DeckInv
<1>4. CASE DeckWriteFails
  BY <1>4, WriteFailsKeeps
<1>5. CASE DeckDies
  BY <1>5 DEF DeckDies, DeckEnd, DeckInv, Running, Ended
<1>6. CASE UNCHANGED deckVars
  <2>1. dIn' = dIn /\ dQueue' = dQueue /\ dMend' = dMend /\ dDir' = dDir /\ dStatus' = dStatus
    BY <1>6 DEF deckVars
  <2> QED BY <2>1 DEF DeckInv, Running, Ended, SkeletonMode
<1> QED BY <1>1, <1>2, <1>3, <1>4, <1>5, <1>6 DEF DeckNext

(* A deck that is presented holds together: deck.md is the slots beside    *)
(* it, and every diagram or chart a slot refers to is there, whichever     *)
(* writes were refused and wherever an earlier run died (populate.ts).     *)
THEOREM DeckIsWhole == DeckSpec => []DeckWhole
<1>1. DeckInv => DeckWhole
  BY DEF DeckInv, Ended, WholeDir, DeckWhole, SlotNames
<1> QED BY <1>1, DeckAtFirst, DeckKept, PTL DEF DeckSpec

(* Nothing of an earlier run is presented: after a run without faults the  *)
(* diagram, the charts and the figures of slot 06 are those of its inputs. *)
THEOREM DeckIsCurrent == DeckSpec => []DeckCurrent
<1>1. DeckInv => DeckCurrent
  BY DEF DeckInv, Ended, CurrentDir, DeckCurrent
<1> QED BY <1>1, DeckAtFirst, DeckKept, PTL DEF DeckSpec

-----------------------------------------------------------------------------
(* The pitch script. *)

(* What is asked of a row, and of the file made of them.                   *)
RowHonest(r, plan, manifest) ==
  /\ r.kind = "value" /\ ~r.todo => r.figures \subseteq plan.figures
  /\ r.cues # <<>> => Head(r.cues) \in (IF manifest = "ui" THEN {"TODO", "screen"} ELSE {"TODO"})
  /\ r.live /\ ~r.label => r.cues = <<"TODO">>

BodyHonest(s) ==
  /\ \A i \in DOMAIN s.rows : RowHonest(s.rows[i], s.plan, s.manifest)
  /\ ~s.degraded => \E i \in DOMAIN s.rows : s.rows[i].live

ScriptInv ==
  /\ sPc \in {"ask", "write"} => sIn.timing \in Timings /\ TimingValid(sIn.timing)
  /\ sPc = "write" => BodyHonest(sNew)
  /\ sFile # NoFile => BodyHonest(sFile.body)


(* A row made from a spoken cell that begins as a TODO, or states no other *)
(* figures than those the plan has, is honest, whatever cue it comes with. *)
LEMMA RowsAreHonest ==
  ASSUME NEW in, NEW i, NEW live, NEW spoken,
         in.timing.secs[i].kind = "value" => spoken.todo \/ spoken.figures \subseteq in.plan.figures
  PROVE  /\ RowHonest(ScriptRow(in, i, live, spoken), in.plan, in.manifest)
         /\ ScriptRow(in, i, live, spoken).live = live
<1> DEFINE cues == spoken.cues \o VisualCue(live, in.manifest, in.screens)
           r == [from |-> EndOf(in.timing, i - 1), to |-> EndOf(in.timing, i), kind |-> in.timing.secs[i].kind,
                 live |-> live, label |-> live, figures |-> spoken.figures, todo |-> spoken.todo,
                 cues |-> cues]
           e == EnforceVisuals(r, in.manifest, in.screens)
<1>1. ScriptRow(in, i, live, spoken) = e
  BY DEF ScriptRow
<1>2. r.kind = in.timing.secs[i].kind /\ r.live = live /\ r.label = live
      /\ r.figures = spoken.figures /\ r.todo = spoken.todo
  OBVIOUS
<1>3. \/ e = r /\ (r.cues = <<>> \/ CueValid(Head(r.cues), in.manifest, in.screens))
      \/ e = [r EXCEPT !.cues = <<"TODO">>, !.label = FALSE]
  BY DEF EnforceVisuals
<1>4. LET c == [r EXCEPT !.cues = <<"TODO">>, !.label = FALSE]
      IN /\ c.kind = r.kind /\ c.live = r.live /\ c.figures = r.figures /\ c.todo = r.todo
         /\ c.cues = <<"TODO">>
  OBVIOUS
<1> HIDE DEF e, r
<1>5. \A cue : CueValid(cue, in.manifest, in.screens) =>
        cue \in (IF in.manifest = "ui" THEN {"TODO", "screen"} ELSE {"TODO"})
  BY DEF CueValid
<1>6. e.kind = in.timing.secs[i].kind /\ e.live = live /\ e.figures = spoken.figures
      /\ e.todo = spoken.todo
  BY <1>2, <1>3, <1>4
<1>7. e.cues # <<>> => Head(e.cues) \in (IF in.manifest = "ui" THEN {"TODO", "screen"} ELSE {"TODO"})
  <2>1. CASE e = r /\ (r.cues = <<>> \/ CueValid(Head(r.cues), in.manifest, in.screens))
    BY <1>5, <2>1
  <2>2. CASE e = [r EXCEPT !.cues = <<"TODO">>, !.label = FALSE]
    <3>1. e.cues = <<"TODO">> /\ Head(<<"TODO">>) = "TODO"
      BY <1>4, <2>2
    <3> QED BY <3>1
  <2> QED BY <1>3, <2>1, <2>2
<1>8. e.live /\ ~e.label => e.cues = <<"TODO">>
  BY <1>2, <1>3, <1>4
<1> QED BY <1>1, <1>6, <1>7, <1>8 DEF RowHonest

(* The audit leaves no foreign figure in a value row but behind a TODO.    *)
LEMMA AuditQuotes ==
  ASSUME NEW sec, NEW spoken, NEW plan, sec.kind = "value"
  PROVE  Audit(sec, spoken, plan).todo \/ Audit(sec, spoken, plan).figures \subseteq plan.figures
BY DEF Audit, Todo

(* Some number of a bounded set is its least: there is one that has as few *)
(* below it as can be.                                                     *)
LEMMA LeastOfBounded ==
  ASSUME NEW n \in Nat, NEW S \in SUBSET (1..n), S # {}
  PROVE  \E k \in S : \A j \in S : k <= j
<1> DEFINE Below(x) == {y \in S : y < x}
           U == {Below(x) : x \in S}
           R == StrictSubsetOrdering(S)
<1>1. IsFiniteSet(1..n) /\ \A y \in S : y \in Int
  BY FS_Interval
<1>2. IsFiniteSet(S)
  BY <1>1, FS_Subset
<1>3. \A x : Below(x) \in FiniteSubsetsOf(S)
  BY <1>2, FS_Subset DEF FiniteSubsetsOf
<1>4. U \subseteq FiniteSubsetsOf(S) /\ U # {}
  BY <1>3
<1>5. \E a \in U : \A b \in U : ~(<<b, a>> \in R)
  BY <1>4, FS_StrictSubsetOrderingWellFounded, WFMin
<1>6. PICK x \in S : \A b \in U : ~(<<b, Below(x)>> \in R)
  BY <1>5
<1>7. ASSUME NEW y \in S, y < x PROVE FALSE
  <2>1. Below(y) \in U /\ Below(x) \in SUBSET S /\ Below(y) \in SUBSET S
    OBVIOUS
  <2>2. x \in Int /\ y \in Int /\ \A z \in S : z < y => z < x
    BY <1>1, <1>7
  <2>3. Below(y) \subseteq Below(x)
    BY <2>2
  <2>4. y \in Below(x)
    BY <1>7
  <2>5. y \notin Below(y)
    BY <2>2
  <2>6. <<Below(y), Below(x)>> \in R
    BY <2>1, <2>3, <2>4, <2>5 DEF StrictSubsetOrdering
  <2> QED BY <1>6, <2>1, <2>6
<1> QED BY <1>1, <1>7

(* There is a live section, flagged or assigned.                           *)
LEMMA SomeSectionIsLive ==
  ASSUME NEW t \in Timings, TimingValid(t)
  PROVE  \E i \in DOMAIN t.secs : i \in LiveSections(t)
<1> DEFINE open == {i \in DOMAIN t.secs : t.secs[i].kind # "problem"}
           n == Len(t.secs)
<1>1. n \in Nat /\ DOMAIN t.secs = 1..n /\ t.secs # <<>>
  BY ScriptAssumption DEF TimingValid
<1>2. n >= 1
  BY <1>1, ScriptAssumption
<1>3. CASE Flagged(t) # {}
  BY <1>3 DEF LiveSections, Flagged
<1>4. CASE Flagged(t) = {} /\ open = {}
  <2>1. LiveSections(t) = {n}
    BY <1>4 DEF LiveSections
  <2> QED BY <1>1, <1>2, <2>1
<1>5. CASE Flagged(t) = {} /\ open # {}
  <2>1. open \in SUBSET (1..n) /\ open # {}
    BY <1>1, <1>5
  <2>3. LiveSections(t) = {CHOOSE i \in open : \A j \in open : i <= j}
    BY <1>5 DEF LiveSections
  <2> HIDE DEF open, n
  <2>2. PICK k \in open : \A j \in open : k <= j
    BY <1>1, <2>1, LeastOfBounded
  <2>4. (CHOOSE i \in open : \A j \in open : i <= j) \in open
    BY <2>2
  <2> QED BY <1>1, <2>1, <2>3, <2>4
<1> QED BY <1>3, <1>4, <1>5

LEMMA ScriptIsHonest ==
  ASSUME NEW in, in.timing \in Timings, TimingValid(in.timing), NEW draft
  PROVE  BodyHonest(Script(in, draft))
<1> DEFINE raw(i) == IF i \in DOMAIN draft THEN draft[i] ELSE FallbackSpoken(in.timing.secs[i], in.plan)
           spoken(i) == Audit(in.timing.secs[i], raw(i), in.plan)
           live(i) == i \in LiveSections(in.timing)
           rows == [i \in DOMAIN in.timing.secs |-> ScriptRow(in, i, live(i), spoken(i))]
           s == Script(in, draft)
<1>1. s.rows = rows /\ s.plan = in.plan /\ s.manifest = in.manifest /\ s.degraded = FALSE
  BY DEF Script, Compose
<1>2. \A i : in.timing.secs[i].kind = "value" =>
              spoken(i).todo \/ spoken(i).figures \subseteq in.plan.figures
  BY AuditQuotes
<1> HIDE DEF s, spoken, live
<1>3. ASSUME NEW i \in DOMAIN in.timing.secs
      PROVE  RowHonest(rows[i], in.plan, in.manifest) /\ rows[i].live = live(i)
  BY <1>2, RowsAreHonest
<1>4. PICK i \in DOMAIN in.timing.secs : live(i)
  BY SomeSectionIsLive DEF live
<1>5. DOMAIN rows = DOMAIN in.timing.secs
  OBVIOUS
<1> HIDE DEF rows
<1> QED BY <1>1, <1>3, <1>4, <1>5 DEF BodyHonest, s

LEMMA BlankIsHonest ==
  ASSUME NEW in PROVE BodyHonest(BlankTemplate(in))
<1> DEFINE rows == [i \in DOMAIN in.timing.secs |-> ScriptRow(in, i, i \in Flagged(in.timing), Todo)]
           s == BlankTemplate(in)
<1>1. s.rows = rows /\ s.plan = in.plan /\ s.manifest = in.manifest /\ s.degraded = TRUE
  BY DEF BlankTemplate, Compose
<1>2. Todo.figures \subseteq in.plan.figures
  BY DEF Todo
<1> HIDE DEF s
<1>3. \A i \in DOMAIN in.timing.secs : RowHonest(rows[i], in.plan, in.manifest)
  BY <1>2, RowsAreHonest
<1>4. DOMAIN rows = DOMAIN in.timing.secs
  OBVIOUS
<1> HIDE DEF rows
<1> QED BY <1>1, <1>3, <1>4 DEF BodyHonest, s

LEMMA ScriptAtFirst == ScriptInit => ScriptInv
BY DEF ScriptInit, ScriptInv

LEMMA ScriptKept == ScriptInv /\ [ScriptNext]_scriptVars => ScriptInv'
<1> SUFFICES ASSUME ScriptInv, [ScriptNext]_scriptVars PROVE ScriptInv'
  OBVIOUS
<1>0. \A status : ScriptEnd(status) /\ sFile' = sFile => ScriptInv'
  BY DEF ScriptEnd, ScriptInv
<1>1. CASE ScriptStart
  <2>1. sFile' = sFile
    BY <1>1 DEF ScriptStart
  <2>2. PICK cmd \in {"generate", "validate"}, plan \in ScriptPlans, manifest \in ScriptManifests,
             timing \in Timings \union {None}, profile \in Profiles \union {None}, screens \in {TRUE, FALSE, None} :
          LET in == [cmd |-> cmd, plan |-> plan, manifest |-> manifest, timing |-> timing,
                     profile |-> profile, screens |-> screens] IN
          IF timing = None \/ (timing # None /\ ~TimingValid(timing)) \/ (cmd = "generate" /\ screens = None)
          THEN ScriptEnd("refused")
          ELSE IF cmd = "validate" THEN ScriptEnd("checked")
          ELSE sIn' = in /\ sPc' = "ask" /\ sStatus' = "running" /\ sNew' = None
    BY <1>1, Zenon DEF ScriptStart
  <2>3. CASE ScriptEnd("refused") \/ ScriptEnd("checked")
    BY <1>0, <2>1, <2>3
  <2>4. CASE sIn'.timing = timing /\ sPc' = "ask" /\ timing \in Timings /\ TimingValid(timing)
    BY <2>1, <2>4 DEF ScriptInv
  <2>5. ScriptEnd("refused") \/ ScriptEnd("checked")
          \/ (sIn'.timing = timing /\ sPc' = "ask" /\ timing \in Timings /\ TimingValid(timing))
    BY <2>2
  <2> QED BY <2>3, <2>4, <2>5
<1>2. CASE ScriptAsk
  <2>1. sPc = "ask" /\ sPc' = "write" /\ sIn' = sIn /\ sFile' = sFile
    BY <1>2 DEF ScriptAsk
  <2>2. sIn.timing \in Timings /\ TimingValid(sIn.timing)
    BY <2>1 DEF ScriptInv
  <2>3. (\E draft : sNew' = Script(sIn, draft)) \/ sNew' = BlankTemplate(sIn)
    BY <1>2 DEF ScriptAsk
  <2>4. BodyHonest(sNew')
    BY <2>2, <2>3, ScriptIsHonest, BlankIsHonest
  <2> QED BY <2>1, <2>2, <2>4 DEF ScriptInv
<1>3. CASE ScriptWrite
  <2>1. sPc' = "exit" /\ BodyHonest(sNew) /\ sFile' = ReconcileGeneratedAt(sNew, sRuns)
    BY <1>3 DEF ScriptWrite, ScriptInv
  <2>2. sFile'.body = sNew
    BY <2>1 DEF ReconcileGeneratedAt
  <2> QED BY <2>1, <2>2 DEF ScriptInv
<1>4. CASE ScriptExit
  BY <1>0, <1>4 DEF ScriptExit
<1>5. CASE ScriptWriteFails
  <2>1. sPc = "write" /\ sFile' = sFile
    BY <1>5 DEF ScriptWriteFails
  <2>2. CASE ScriptEnd("broken")
    BY <1>0, <2>1, <2>2
  <2>3. CASE sNew' = BlankTemplate(sIn) /\ UNCHANGED <<sIn, sPc, sStatus>>
    <3>1. BodyHonest(sNew')
      BY <2>3, BlankIsHonest
    <3> QED BY <2>1, <2>3, <3>1 DEF ScriptInv
  <2> QED BY <1>5, <2>2, <2>3 DEF ScriptWriteFails
<1>6. CASE ScriptDies
  BY <1>0, <1>6 DEF ScriptDies
<1>7. CASE UNCHANGED scriptVars
  BY <1>7 DEF scriptVars, ScriptInv
<1> QED BY <1>1, <1>2, <1>3, <1>4, <1>5, <1>6, <1>7 DEF ScriptNext

(* The script on disk is honest, whatever the model phrased: a value row   *)
(* that does not begin as a TODO states no figure the plan lacks, the      *)
(* first cue of a row names a screen only if the manifest has the UI, a    *)
(* live row without its label shows none, and a script that is not         *)
(* degraded has a live row (generate.ts, validateVisuals.ts, timing.ts).   *)
THEOREM ScriptFileIsHonest == ScriptSpec => []ScriptHonest
<1>1. ScriptInv => ScriptHonest
  BY DEF ScriptInv, BodyHonest, RowHonest, ScriptHonest
<1> QED BY <1>1, ScriptAtFirst, ScriptKept, PTL DEF ScriptSpec

-----------------------------------------------------------------------------
(* Disclosure and submission. *)

(* What was written before a run broke off.                                *)
LEMMA PrefixIsOrderly ==
  ASSUME NEW q, Orderly(q), NEW n \in 0..Len(q)
  PROVE  Orderly(SubSeq(q, 1, n)) /\ Items(SubSeq(q, 1, n)) \subseteq Items(q)
<1> DEFINE h == SubSeq(q, 1, n)
<1>1. q \in Seq(Items(q)) /\ Len(q) \in Nat /\ DOMAIN q = 1..Len(q)
  BY DEF Orderly
<1>2. h \in Seq(Items(q)) /\ DOMAIN h = 1..n /\ \A j \in 1..n : h[j] = q[j] /\ j \in 1..Len(q)
  BY <1>1
<1>3. h \in Seq(Items(h))
  BY <1>2, SeqOfItems
<1> HIDE DEF h
<1>4. Items(h) \subseteq Items(q)
  BY <1>1, <1>2 DEF Items
<1>5. \A j, k \in DOMAIN h : h[j].file = h[k].file => j = k
  BY <1>1, <1>2 DEF Orderly
<1>6. Orderly(h)
  BY <1>3, <1>5 DEF Orderly
<1> QED BY <1>4, <1>6 DEF h

LEMMA AppliedProv ==
  ASSUME NEW q, Orderly(q), NEW dir, NEW f \in ProvFiles
  PROVE  /\ \A w \in Items(q) : w.file = f => ApplyProv(dir, q)[f] = w.content
         /\ f \notin FilesOf(q) => ApplyProv(dir, q)[f] = dir[f]
<1>1. ApplyProv(dir, q)[f] = IF \E i \in DOMAIN q : q[i].file = f
                             THEN q[CHOOSE i \in DOMAIN q : q[i].file = f].content ELSE dir[f]
  BY DEF ApplyProv
<1>2. ASSUME NEW w \in Items(q), w.file = f PROVE ApplyProv(dir, q)[f] = w.content
  <2>1. PICK k \in DOMAIN q : q[k] = w
    BY DEF Items
  <2>2. (CHOOSE i \in DOMAIN q : q[i].file = f) = k
    BY <1>2, <2>1 DEF Orderly
  <2> QED BY <1>1, <1>2, <2>1, <2>2
<1>3. ASSUME f \notin FilesOf(q) PROVE ApplyProv(dir, q)[f] = dir[f]
  BY <1>1, <1>3 DEF FilesOf, Items
<1> QED BY <1>2, <1>3

Placed(f, content) == [file |-> f, content |-> content]

LEMMA TwoPlaced ==
  ASSUME NEW f, NEW g, f # g, NEW c, NEW d
  PROVE  /\ Orderly(ProvWrite(f, c) \o ProvWrite(g, d))
         /\ Items(ProvWrite(f, c) \o ProvWrite(g, d)) = {Placed(f, c), Placed(g, d)}
<1> DEFINE a == Placed(f, c)
           b == Placed(g, d)
<1>1. ProvWrite(f, c) = <<a>> /\ ProvWrite(g, d) = <<b>> /\ a.file = f /\ b.file = g
  BY DEF ProvWrite, Placed
<1> HIDE DEF a, b
<1>2. Orderly(<<a>>) /\ Items(<<a>>) = {a} /\ Orderly(<<b>>) /\ Items(<<b>>) = {b}
  BY OneIsOrderly
<1>3. FilesOf(<<a>>) \intersect FilesOf(<<b>>) = {}
  <2>1. FilesOf(<<a>>) = {f} /\ FilesOf(<<b>>) = {g}
    BY <1>1, <1>2 DEF FilesOf
  <2> QED BY <2>1
<1>4. Orderly(<<a>> \o <<b>>) /\ Items(<<a>> \o <<b>>) = Items(<<a>>) \union Items(<<b>>)
  BY <1>2, <1>3, JoinIsOrderly
<1>5. Items(<<a>> \o <<b>>) = {a, b}
  BY <1>2, <1>4
<1> QED BY <1>1, <1>4, <1>5 DEF a, b

SummaryFiles == {"architecture-summary.md", "architecture_summary.txt"}

LEMMA SummaryQueueIs ==
  ASSUME NEW m
  PROVE  /\ Orderly(SummaryQueue(m))
         /\ Items(SummaryQueue(m)) = {Placed(f, Summary(m)) : f \in SummaryFiles}
<1>1. "architecture-summary.md" # "architecture_summary.txt"
  OBVIOUS
<1> QED BY <1>1, TwoPlaced DEF SummaryQueue, SummaryFiles

LEMMA GenerateQueueIs ==
  ASSUME NEW m, NEW log
  PROVE  /\ Orderly(GenerateQueue(m, log))
         /\ Items(GenerateQueue(m, log)) = {Placed("disclosure.md", Disclosure(m, log))}
                                             \union {Placed(f, Summary(m)) : f \in SummaryFiles}
<1> DEFINE w == Placed("disclosure.md", Disclosure(m, log))
           q == SummaryQueue(m)
<1>1. GenerateQueue(m, log) = <<w>> \o q
  BY DEF GenerateQueue, ProvWrite, Placed
<1>2. Orderly(q) /\ Items(q) = {Placed(f, Summary(m)) : f \in SummaryFiles}
  BY SummaryQueueIs
<1>3. w.file = "disclosure.md" /\ \A f, c : Placed(f, c).file = f
  BY DEF Placed
<1> HIDE DEF w, q
<1>4. Orderly(<<w>>) /\ Items(<<w>>) = {w}
  BY OneIsOrderly
<1>5. FilesOf(<<w>>) \intersect FilesOf(q) = {}
  <2>1. FilesOf(<<w>>) = {"disclosure.md"} /\ FilesOf(q) \subseteq SummaryFiles
    BY <1>2, <1>3, <1>4 DEF FilesOf
  <2> QED BY <2>1 DEF SummaryFiles
<1>6. Orderly(<<w>> \o q) /\ Items(<<w>> \o q) = Items(<<w>>) \union Items(q)
  BY <1>2, <1>4, <1>5, JoinIsOrderly
<1> QED BY <1>1, <1>2, <1>4, <1>6 DEF w

(* A disclosure names what its manifest includes, from the catalog.        *)
TrueDisclosure(d) ==
  /\ {d.bullets[i].id : i \in DOMAIN d.bullets} = {d.of[i].id : i \in {i \in DOMAIN d.of : d.of[i].included}}
  /\ \A i \in DOMAIN d.bullets : d.bullets[i].entry \in Catalogued

TrueSubmission(s) ==
  IF s.disclosure = None THEN "disclosure" \in s.gaps ELSE TrueDisclosure(s.disclosure)

LEMMA DisclosureIsTrue ==
  ASSUME NEW m, Catalogues(m), NEW log
  PROVE  TrueDisclosure(Disclosure(m, log)) /\ Disclosure(m, log).of = m
<1> DEFINE d == Disclosure(m, log)
<1>1. d.of = m /\ d.bullets = Bullets(m)
  BY DEF Disclosure
<1> HIDE DEF d
<1>2. DOMAIN Bullets(m) = Included(m) /\ Included(m) = {i \in DOMAIN m : m[i].included}
  BY DEF Bullets, Included
<1>3. \A i \in Included(m) : Bullets(m)[i].id = m[i].id /\ Bullets(m)[i].entry = CatalogEntry(m[i])
  BY DEF Bullets
<1>4. {d.bullets[i].id : i \in DOMAIN d.bullets} = {d.of[i].id : i \in {i \in DOMAIN d.of : d.of[i].included}}
  BY <1>1, <1>2, <1>3
<1>5. \A c : CatalogEntry(c) # None => CatalogEntry(c) \in Catalogued
  BY DEF CatalogEntry
<1>6. \A i \in DOMAIN d.bullets : d.bullets[i].entry \in Catalogued
  BY <1>1, <1>2, <1>3, <1>5 DEF Catalogues
<1> QED BY <1>1, <1>4, <1>6 DEF TrueDisclosure, d

(* What is about to be written may be.                                     *)
Pending ==
  pStatus = "running" =>
    /\ Orderly(pQueue)
    /\ \A w \in Items(pQueue) :
         /\ w.file = "disclosure.md" => TrueDisclosure(w.content)
         /\ w.file = "submission.md" => TrueSubmission(w.content)
    /\ pCmd = "generate" =>
         \E m : \A f \in SummaryFiles \union {"disclosure.md"} :
           \E w \in Items(pQueue) : w.file = f /\ w.content.of = m

OnDisk(dir) ==
  /\ dir["disclosure.md"] # None => TrueDisclosure(dir["disclosure.md"])
  /\ dir["submission.md"] # None => TrueSubmission(dir["submission.md"])

OneManifest ==
  pCmd = "generate" /\ pStatus = "ok" => \A f \in SummaryFiles : pDir[f].of = pDir["disclosure.md"].of

ProvInv == Pending /\ OnDisk(pDir) /\ OneManifest

LEMMA ProvFilesAre ==
  {"disclosure.md", "submission.md", "architecture-summary.md", "architecture_summary.txt"} \subseteq ProvFiles
BY DEF ProvFiles

LEMMA ProvAtFirst == ProvInit => ProvInv
BY ProvFilesAre DEF ProvInit, ProvInv, Pending, OnDisk, OneManifest

(* Writing the queue, or some of it, keeps what is on disk true.           *)
LEMMA WritingKeepsTrue ==
  ASSUME NEW q, Orderly(q), NEW dir, OnDisk(dir),
         \A w \in Items(q) : /\ w.file = "disclosure.md" => TrueDisclosure(w.content)
                             /\ w.file = "submission.md" => TrueSubmission(w.content)
  PROVE  OnDisk(ApplyProv(dir, q))
<1> DEFINE d == ApplyProv(dir, q)
<1>1. ASSUME NEW f \in {"disclosure.md", "submission.md"}
      PROVE  d[f] = dir[f] \/ \E w \in Items(q) : w.file = f /\ d[f] = w.content
  <2>1. CASE f \in FilesOf(q)
    <3>1. PICK w \in Items(q) : w.file = f
      BY <2>1 DEF FilesOf
    <3>2. d[f] = w.content
      BY <3>1, ProvFilesAre, AppliedProv
    <3> QED BY <3>1, <3>2
  <2>2. CASE f \notin FilesOf(q)
    BY <2>2, ProvFilesAre, AppliedProv
  <2> QED BY <2>1, <2>2
<1> HIDE DEF d
<1>2. d["disclosure.md"] # None => TrueDisclosure(d["disclosure.md"])
  BY <1>1 DEF OnDisk
<1>3. d["submission.md"] # None => TrueSubmission(d["submission.md"])
  BY <1>1 DEF OnDisk
<1> QED BY <1>2, <1>3 DEF OnDisk, d

LEMMA SomeWritesKeepTrue ==
  ASSUME NEW q, Orderly(q), NEW dir, OnDisk(dir), NEW n \in 0..Len(q),
         \A w \in Items(q) : /\ w.file = "disclosure.md" => TrueDisclosure(w.content)
                             /\ w.file = "submission.md" => TrueSubmission(w.content)
  PROVE  OnDisk(ApplyProv(dir, SubSeq(q, 1, n)))
<1> DEFINE h == SubSeq(q, 1, n)
<1>1. Orderly(h) /\ Items(h) \subseteq Items(q)
  BY PrefixIsOrderly
<1> HIDE DEF h
<1>2. OnDisk(ApplyProv(dir, h))
  BY <1>1, WritingKeepsTrue
<1> QED BY <1>2 DEF h

LEMMA ProvoKeeps == ProvInv /\ Provo => ProvInv'
<1> SUFFICES ASSUME ProvInv, Provo PROVE ProvInv'
  OBVIOUS
<1>0. OnDisk(pDir)' /\ pDir' = pDir
  BY DEF Provo, ProvInv, OnDisk
<1>1. PICK cmd \in {"generate", "summary"}, manifest \in ProvManifests \union {None},
           log \in SUBSET {"tool", "malformed"} :
        /\ StartRun(cmd)
        /\ IF manifest # None /\ Catalogues(manifest)
           THEN RunWith(IF cmd = "generate" THEN GenerateQueue(manifest, log) ELSE SummaryQueue(manifest))
           ELSE pStatus' = "refused" /\ pQueue' = <<>>
  BY DEF Provo
<1>2. CASE pStatus' = "refused"
  BY <1>0, <1>2 DEF ProvInv, Pending, OneManifest
<1>3. CASE Catalogues(manifest) /\ cmd = "generate" /\ RunWith(GenerateQueue(manifest, log))
  <2>1. pQueue' = GenerateQueue(manifest, log) /\ pStatus' = "running"
    BY <1>3 DEF RunWith
  <2>2. /\ Orderly(pQueue')
        /\ Items(pQueue') = {Placed("disclosure.md", Disclosure(manifest, log))}
                              \union {Placed(f, Summary(manifest)) : f \in SummaryFiles}
    BY <2>1, GenerateQueueIs
  <2>3. \A f, c : Placed(f, c).file = f /\ Placed(f, c).content = c
    BY DEF Placed
  <2>4. "disclosure.md" \notin SummaryFiles /\ "submission.md" \notin SummaryFiles
    BY DEF SummaryFiles
  <2>5. TrueDisclosure(Disclosure(manifest, log)) /\ Disclosure(manifest, log).of = manifest
    BY <1>3, DisclosureIsTrue
  <2>6. Summary(manifest).of = manifest
    BY DEF Summary
  <2>7. \A w \in Items(pQueue') :
          /\ w.file = "disclosure.md" => TrueDisclosure(w.content)
          /\ w.file = "submission.md" => TrueSubmission(w.content)
    BY <2>2, <2>3, <2>4, <2>5
  <2>8. ASSUME NEW f \in SummaryFiles \union {"disclosure.md"}
        PROVE  \E w \in Items(pQueue') : w.file = f /\ w.content.of = manifest
    <3>1. CASE f = "disclosure.md"
      BY <2>2, <2>3, <2>5, <3>1
    <3>2. CASE f \in SummaryFiles
      BY <2>2, <2>3, <2>6, <3>2
    <3> QED BY <3>1, <3>2
  <2>9. Pending'
    BY <2>2, <2>7, <2>8 DEF Pending
  <2> QED BY <1>0, <2>1, <2>9 DEF ProvInv, OneManifest
<1>4. CASE cmd = "summary" /\ RunWith(SummaryQueue(manifest))
  <2>1. pQueue' = SummaryQueue(manifest) /\ pStatus' = "running" /\ pCmd' = "summary"
    BY <1>1, <1>4 DEF RunWith, StartRun
  <2>2. Orderly(pQueue') /\ Items(pQueue') = {Placed(f, Summary(manifest)) : f \in SummaryFiles}
    BY <2>1, SummaryQueueIs
  <2>3. \A w \in Items(pQueue') : w.file # "disclosure.md" /\ w.file # "submission.md"
    BY <2>2 DEF Placed, SummaryFiles
  <2>4. Pending'
    BY <2>1, <2>2, <2>3 DEF Pending
  <2> QED BY <1>0, <2>1, <2>4 DEF ProvInv, OneManifest
<1> QED BY <1>1, <1>2, <1>3, <1>4

LEMMA FormatKeeps == ProvInv /\ SubmitFormat => ProvInv'
<1> SUFFICES ASSUME ProvInv, SubmitFormat PROVE ProvInv'
  OBVIOUS
<1>0. OnDisk(pDir)' /\ OnDisk(pDir)
  BY DEF SubmitFormat, ProvInv, OnDisk
<1>1. PICK sources, providers, label, report :
        RunWith(ProvWrite("submission.md", Submission(sources, providers, label, report)))
  BY DEF SubmitFormat
<1> DEFINE s == Submission(sources, providers, label, report)
           w == Placed("submission.md", s)
<1>2. s.disclosure = pDir["disclosure.md"] /\ (pDir["disclosure.md"] = None => "disclosure" \in s.gaps)
  BY DEF Submission
<1>3. pQueue' = <<w>> /\ pStatus' = "running" /\ pCmd' = "format"
  BY <1>1 DEF RunWith, ProvWrite, Placed, SubmitFormat, StartRun
<1>4. w.file = "submission.md" /\ w.content = s
  BY DEF Placed
<1> HIDE DEF s, w
<1>5. TrueSubmission(s)
  BY <1>0, <1>2 DEF TrueSubmission, OnDisk
<1>6. Orderly(pQueue') /\ Items(pQueue') = {w}
  BY <1>3, OneIsOrderly
<1>7. Pending'
  BY <1>3, <1>4, <1>5, <1>6 DEF Pending
<1> QED BY <1>0, <1>3, <1>7 DEF ProvInv, OneManifest

LEMMA HygieneKeeps == ProvInv /\ SubmitHygiene => ProvInv'
<1> SUFFICES ASSUME ProvInv, SubmitHygiene PROVE ProvInv'
  OBVIOUS
<1>0. OnDisk(pDir)'
  BY DEF SubmitHygiene, ProvInv, OnDisk
<1>1. PICK report : RunWith(HygieneQueue(report))
  BY DEF SubmitHygiene
<1>2. pQueue' = HygieneQueue(report) /\ pStatus' = "running" /\ pCmd' = "hygiene"
  BY <1>1 DEF RunWith, SubmitHygiene, StartRun
<1>3. /\ Orderly(HygieneQueue(report))
      /\ Items(HygieneQueue(report)) = {Placed("hygiene-report.json", report), Placed("hygiene-report.md", report)}
  BY TwoPlaced DEF HygieneQueue
<1>4. \A w \in Items(pQueue') : w.file # "disclosure.md" /\ w.file # "submission.md"
  BY <1>2, <1>3 DEF Placed
<1>5. Pending'
  BY <1>2, <1>3, <1>4 DEF Pending
<1> QED BY <1>0, <1>2, <1>5 DEF ProvInv, OneManifest

LEMMA ProvKept == ProvInv /\ [ProvNext]_provVars => ProvInv'
<1> SUFFICES ASSUME ProvInv, [ProvNext]_provVars PROVE ProvInv'
  OBVIOUS
<1>1. CASE ProvWrites
  <2>1. /\ pStatus = "running" /\ pDir' = ApplyProv(pDir, pQueue) /\ pCmd' = pCmd
        /\ pStatus' = ProvExit(pQueue)
    BY <1>1 DEF ProvWrites
  <2>2. pStatus' # "running"
    BY <2>1 DEF ProvExit
  <2>3. /\ Orderly(pQueue) /\ OnDisk(pDir)
        /\ \A w \in Items(pQueue) :
             /\ w.file = "disclosure.md" => TrueDisclosure(w.content)
             /\ w.file = "submission.md" => TrueSubmission(w.content)
    BY <2>1 DEF ProvInv, Pending
  <2>4. OnDisk(pDir')
    BY <2>1, <2>3, WritingKeepsTrue
  <2>5. ASSUME pCmd = "generate" PROVE \A f \in SummaryFiles : pDir'[f].of = pDir'["disclosure.md"].of
    <3>1. PICK m : \A f \in SummaryFiles \union {"disclosure.md"} :
                     \E w \in Items(pQueue) : w.file = f /\ w.content.of = m
      BY <2>1, <2>5 DEF ProvInv, Pending
    <3>2. ASSUME NEW f \in SummaryFiles \union {"disclosure.md"} PROVE pDir'[f].of = m
      <4>1. PICK w \in Items(pQueue) : w.file = f /\ w.content.of = m
        BY <3>1
      <4>2. f \in ProvFiles
        BY ProvFilesAre DEF SummaryFiles
      <4>3. pDir'[f] = w.content
        BY <2>1, <2>3, <4>1, <4>2, AppliedProv
      <4> QED BY <4>1, <4>3
    <3> QED BY <3>2
  <2> QED BY <2>1, <2>2, <2>4, <2>5 DEF ProvInv, Pending, OnDisk, OneManifest
<1>2. CASE ProvBreaks
  <2>1. /\ pStatus = "running" /\ pStatus' = "broken"
        /\ \E n \in 0..Len(pQueue) : pDir' = ApplyProv(pDir, SubSeq(pQueue, 1, n))
    BY <1>2 DEF ProvBreaks
  <2>2. PICK n \in 0..Len(pQueue) : pDir' = ApplyProv(pDir, SubSeq(pQueue, 1, n))
    BY <2>1
  <2>3. OnDisk(pDir')
    <3>1. /\ Orderly(pQueue) /\ OnDisk(pDir)
          /\ \A w \in Items(pQueue) :
               /\ w.file = "disclosure.md" => TrueDisclosure(w.content)
               /\ w.file = "submission.md" => TrueSubmission(w.content)
      BY <2>1 DEF ProvInv, Pending
    <3>2. OnDisk(ApplyProv(pDir, SubSeq(pQueue, 1, n)))
      BY <3>1, SomeWritesKeepTrue
    <3> QED BY <2>2, <3>2
  <2> QED BY <2>1, <2>3 DEF ProvInv, Pending, OnDisk, OneManifest
<1>3. CASE UNCHANGED provVars
  BY <1>3 DEF provVars, ProvInv, Pending, OnDisk, OneManifest
<1> QED BY <1>1, <1>2, <1>3, ProvoKeeps, FormatKeeps, HygieneKeeps DEF ProvNext

(* A disclosure names exactly the components its manifest includes, each   *)
(* described from the catalog, on disk and where a submission embeds it,   *)
(* and after a whole run both summaries are of its manifest (provo, submit). *)
THEOREM DisclosureIsKeptTrue == ProvSpec => []DisclosureTrue
<1>1. ProvInv => DisclosureTrue
  BY DEF ProvInv, OnDisk, OneManifest, TrueDisclosure, TrueSubmission, SummaryFiles, DisclosureTrue
<1> QED BY <1>1, ProvAtFirst, ProvKept, PTL DEF ProvSpec

-----------------------------------------------------------------------------
(* The hygiene check. *)

(* What a report that says clean vouches for.                              *)
HonestReport(r) ==
  r.overall = "clean" =>
    /\ r.of.lists /\ r.of.logs
    /\ \A f \in r.of.files :
         f.seen = "tracked" /\ ~f.gitPath => f.content = "unreadable" \/ (f.content # "secret" /\ ~f.credentialName)
    /\ Total(r.of) > 1 =>
         \A i \in Dated(r.of) : 20000 * Alongside(r.of, i) < 16001 * Total(r.of)

(* What the rounding of a share lets pass.                                 *)
LEMMA RatioBounds ==
  ASSUME NEW count \in Nat, NEW total \in Nat, total > 1, ~(Ratio(count, total) > 8000)
  PROVE  20000 * count < 16001 * total
BY SMT DEF Ratio

LEMMA CountsAreNumbers ==
  ASSUME NEW repo, RepoShape(repo)
  PROVE  Total(repo) \in Nat /\ \A i : Alongside(repo, i) \in Nat
<1>1. DOMAIN repo.commits = 1..Len(repo.commits) /\ Len(repo.commits) \in Nat
  BY DEF RepoShape
<1>2. IsFiniteSet(DOMAIN repo.commits)
  BY <1>1, FS_Interval
<1>3. Dated(repo) \subseteq DOMAIN repo.commits
  BY DEF Dated
<1>4. IsFiniteSet(Dated(repo))
  BY <1>2, <1>3, FS_Subset
<1>5. ASSUME NEW i PROVE Alongside(repo, i) \in Nat
  <2> DEFINE A == {j \in Dated(repo) : repo.commits[j] = repo.commits[i]}
  <2>1. A \subseteq Dated(repo)
    OBVIOUS
  <2> HIDE DEF A
  <2>2. Cardinality(A) \in Nat
    BY <1>4, <2>1, FS_Subset, FS_CardinalityType
  <2> QED BY <2>2 DEF Alongside, A
<1> QED BY <1>4, <1>5, FS_CardinalityType DEF Total

LEMMA ReportIsHonest ==
  ASSUME NEW repo \in Repos, NEW unstaged \in BOOLEAN
  PROVE  HonestReport(HygieneReport(repo, unstaged)) /\ HygieneReport(repo, unstaged) # None
<1> DEFINE r == HygieneReport(repo, unstaged)
           scan == SecretScan(repo, unstaged)
           dist == CommitDistribution(repo)
<1>1. r.of = repo /\ r.overall = OverallVerdict(scan, dist)
  BY DEF HygieneReport
<1>2. RepoShape(repo) /\ r # None
  BY ProvAssumption
<1> HIDE DEF r
<1>3. ASSUME r.overall = "clean"
      PROVE  /\ repo.lists /\ repo.logs
             /\ \A f \in repo.files :
                  f.seen = "tracked" /\ ~f.gitPath => f.content = "unreadable" \/ (f.content # "secret" /\ ~f.credentialName)
             /\ Total(repo) > 1 => \A i \in Dated(repo) : 20000 * Alongside(repo, i) < 16001 * Total(repo)
  <2>1. scan = "clean" /\ dist = "clean"
    <3>1. scan \in {"clean", "flagged", "unavailable"} /\ dist \in {"clean", "flagged", "unavailable"}
      BY DEF SecretScan, CommitDistribution
    <3> HIDE DEF scan, dist
    <3> QED BY <1>1, <1>3, <3>1 DEF OverallVerdict
  <2>2. repo.lists /\ ~ \E f \in Candidates(repo, unstaged) : Hit(f)
    BY <2>1 DEF SecretScan
  <2>3. ASSUME NEW f \in repo.files, f.seen = "tracked", ~f.gitPath
        PROVE  f.content = "unreadable" \/ (f.content # "secret" /\ ~f.credentialName)
    <3>1. f \in Candidates(repo, unstaged) /\ f.seen # "ignored"
      BY <2>3 DEF Candidates
    <3> QED BY <2>2, <3>1 DEF Hit
  <2>4. /\ repo.logs
        /\ Total(repo) > 1 => \A i \in Dated(repo) : ~(Ratio(Alongside(repo, i), Total(repo)) > 8000)
    BY <2>1 DEF CommitDistribution
  <2>5. ASSUME Total(repo) > 1, NEW i \in Dated(repo) PROVE 20000 * Alongside(repo, i) < 16001 * Total(repo)
    <3>1. Total(repo) \in Nat /\ Alongside(repo, i) \in Nat
      BY <1>2, CountsAreNumbers
    <3> QED BY <2>4, <2>5, <3>1, RatioBounds
  <2> QED BY <2>2, <2>3, <2>4, <2>5
<1>4. HonestReport(r)
  BY <1>1, <1>3 DEF HonestReport
<1> QED BY <1>2, <1>4 DEF r

(* What is about to be reported, and what is on disk.                      *)
ReportFiles == {"hygiene-report.json", "hygiene-report.md"}

Vouched(r) == r = None \/ HonestReport(r)

WriteVouched(w) ==
  /\ w.file \in ReportFiles => Vouched(w.content)
  /\ w.file = "submission.md" => Vouched(w.content.hygiene)

Reporting ==
  pStatus = "running" =>
    /\ Orderly(pQueue) /\ \A w \in Items(pQueue) : WriteVouched(w)
    /\ pCmd = "format" =>
         \E w \in Items(pQueue) :
           w.file = "submission.md"
             /\ (pVerdict = "flagged" <=> w.content.hygiene # None /\ w.content.hygiene.overall = "flagged")
    /\ pCmd = "hygiene" =>
         1 \in DOMAIN pQueue /\ pQueue[1].file = "hygiene-report.json" /\ pQueue[1].content # None

Reported(dir) ==
  /\ \A f \in ReportFiles : Vouched(dir[f])
  /\ dir["submission.md"] # None => Vouched(dir["submission.md"].hygiene)

Verdict ==
  LET written == IF pCmd = "format" THEN pDir["submission.md"].hygiene ELSE pDir["hygiene-report.json"]
  IN pCmd \in {"format", "hygiene"} /\ pStatus \in {"ok", "flagged"} =>
       (pStatus = "flagged" <=> written # None /\ written.overall = "flagged")

HygieneInv == Reporting /\ Reported(pDir) /\ Verdict

LEMMA ReportFilesAre == ReportFiles \union {"submission.md"} \subseteq ProvFiles
BY DEF ReportFiles, ProvFiles

LEMMA HygieneAtFirst == ProvInit => HygieneInv
BY ReportFilesAre DEF ProvInit, HygieneInv, Reporting, Reported, Vouched, Verdict

LEMMA WritingVouches ==
  ASSUME NEW q, Orderly(q), \A w \in Items(q) : WriteVouched(w), NEW dir, Reported(dir)
  PROVE  Reported(ApplyProv(dir, q))
<1> DEFINE d == ApplyProv(dir, q)
<1>1. ASSUME NEW f \in ReportFiles \union {"submission.md"}
      PROVE  d[f] = dir[f] \/ \E w \in Items(q) : w.file = f /\ d[f] = w.content
  <2>1. f \in ProvFiles
    BY ReportFilesAre
  <2>2. CASE f \in FilesOf(q)
    <3>1. PICK w \in Items(q) : w.file = f
      BY <2>2 DEF FilesOf
    <3>2. d[f] = w.content
      BY <2>1, <3>1, AppliedProv
    <3> QED BY <3>1, <3>2
  <2>3. CASE f \notin FilesOf(q)
    BY <2>1, <2>3, AppliedProv
  <2> QED BY <2>2, <2>3
<1> HIDE DEF d
<1>2. ASSUME NEW f \in ReportFiles PROVE Vouched(d[f])
  BY <1>1 DEF Reported, WriteVouched
<1>3. d["submission.md"] # None => Vouched(d["submission.md"].hygiene)
  BY <1>1 DEF Reported, WriteVouched
<1> QED BY <1>2, <1>3 DEF Reported, d

LEMMA HygieneKept == HygieneInv /\ [ProvNext]_provVars => HygieneInv'
<1> SUFFICES ASSUME HygieneInv, [ProvNext]_provVars PROVE HygieneInv'
  OBVIOUS
<1>0. \A f, c : Placed(f, c).file = f /\ Placed(f, c).content = c
  BY DEF Placed
<1>1. CASE Provo
  <2>1. pDir' = pDir /\ pStatus' \in {"running", "refused"} /\ pCmd' \in {"generate", "summary"}
    BY <1>1 DEF Provo, StartRun, RunWith
  <2>2. ASSUME pStatus' = "running" PROVE Orderly(pQueue') /\ \A w \in Items(pQueue') : WriteVouched(w)
    <3>1. PICK m, log : pQueue' = GenerateQueue(m, log) \/ pQueue' = SummaryQueue(m)
      BY <1>1, <2>2 DEF Provo, RunWith
    <3>2. Orderly(pQueue') /\ \A w \in Items(pQueue') : w.file \in SummaryFiles \union {"disclosure.md"}
      BY <1>0, <3>1, GenerateQueueIs, SummaryQueueIs
    <3> QED BY <3>2 DEF SummaryFiles, ReportFiles, WriteVouched
  <2> QED BY <2>1, <2>2 DEF HygieneInv, Reporting, Reported, Verdict
<1>2. CASE SubmitFormat
  <2>1. pDir' = pDir /\ pStatus' = "running" /\ pCmd' = "format"
    BY <1>2 DEF SubmitFormat, StartRun, RunWith
  <2>2. PICK plan \in PlanTexts \union {{}}, frontmatter \in BOOLEAN, own \in BOOLEAN, profile \in BOOLEAN,
             checked \in BOOLEAN, manifest \in ProvManifests \union {<<>>}, repo \in Repos :
          LET report == IF checked THEN HygieneReport(repo, FALSE) ELSE None IN
          /\ pVerdict' = ResetVerdict(report)
          /\ RunWith(ProvWrite("submission.md",
               Submission(Usable(plan, frontmatter), Providers(manifest), FieldLabel(own, profile), report)))
    BY <1>2, Zenon DEF SubmitFormat
  <2> DEFINE report == IF checked THEN HygieneReport(repo, FALSE) ELSE None
             s == Submission(Usable(plan, frontmatter), Providers(manifest), FieldLabel(own, profile), report)
             w == Placed("submission.md", s)
  <2>3. Vouched(report)
    BY ReportIsHonest DEF Vouched
  <2>4. pVerdict' = "flagged" <=> report # None /\ report.overall = "flagged"
    <3>1. pVerdict' = ResetVerdict(report)
      BY <2>2
    <3> HIDE DEF report
    <3> QED BY <3>1, ProvAssumption DEF ResetVerdict
  <2>5. pQueue' = <<w>>
    BY <2>2 DEF RunWith, ProvWrite, Placed
  <2> HIDE DEF report
  <2>6. w.file = "submission.md" /\ w.content.hygiene = report
    BY DEF Placed, Submission
  <2> HIDE DEF w, s
  <2>7. Orderly(pQueue') /\ Items(pQueue') = {w}
    BY <2>5, OneIsOrderly
  <2>8. WriteVouched(w)
    BY <2>3, <2>6 DEF WriteVouched, ReportFiles
  <2> QED BY <2>1, <2>4, <2>6, <2>7, <2>8 DEF HygieneInv, Reporting, Reported, Verdict
<1>3. CASE SubmitHygiene
  <2>1. pDir' = pDir /\ pStatus' = "running" /\ pCmd' = "hygiene"
    BY <1>3 DEF SubmitHygiene, StartRun, RunWith
  <2>2. PICK repo \in Repos, unstaged \in BOOLEAN : pQueue' = HygieneQueue(HygieneReport(repo, unstaged))
    BY <1>3 DEF SubmitHygiene, RunWith
  <2> DEFINE r == HygieneReport(repo, unstaged)
             a == Placed("hygiene-report.json", r)
             b == Placed("hygiene-report.md", r)
  <2>3. HonestReport(r) /\ r # None
    BY ReportIsHonest
  <2>4. pQueue' = HygieneQueue(r)
    BY <2>2
  <2> HIDE DEF r
  <2>5. Orderly(pQueue') /\ Items(pQueue') = {a, b}
    BY <2>4, TwoPlaced DEF HygieneQueue
  <2>6. pQueue' = <<a>> \o <<b>>
    BY <2>4 DEF HygieneQueue, ProvWrite, Placed
  <2>7. a.file = "hygiene-report.json" /\ a.content = r /\ b.file = "hygiene-report.md" /\ b.content = r
    BY <1>0
  <2> HIDE DEF a, b
  <2>8. 1 \in DOMAIN pQueue' /\ pQueue'[1] = a
    BY <2>6
  <2>9. WriteVouched(a) /\ WriteVouched(b)
    BY <2>3, <2>7 DEF WriteVouched, Vouched
  <2> QED BY <2>1, <2>3, <2>5, <2>7, <2>8, <2>9 DEF HygieneInv, Reporting, Reported, Verdict
<1>4. CASE ProvWrites
  <2>1. /\ pStatus = "running" /\ pDir' = ApplyProv(pDir, pQueue) /\ pCmd' = pCmd
        /\ pStatus' = ProvExit(pQueue)
    BY <1>4 DEF ProvWrites
  <2>2. Orderly(pQueue) /\ (\A w \in Items(pQueue) : WriteVouched(w)) /\ Reported(pDir)
    BY <2>1 DEF HygieneInv, Reporting
  <2>3. Reported(pDir')
    BY <2>1, <2>2, WritingVouches
  <2>4. CASE pCmd = "format"
    <3>1. PICK w \in Items(pQueue) :
            w.file = "submission.md"
              /\ (pVerdict = "flagged" <=> w.content.hygiene # None /\ w.content.hygiene.overall = "flagged")
      BY <2>1, <2>4 DEF HygieneInv, Reporting
    <3>2. pDir'["submission.md"] = w.content
      BY <2>1, <2>2, <3>1, ReportFilesAre, AppliedProv
    <3>3. pStatus' = IF pVerdict = "flagged" THEN "flagged" ELSE "ok"
      BY <2>1, <2>4 DEF ProvExit
    <3>4. Verdict'
      BY <2>1, <2>4, <3>1, <3>2, <3>3 DEF Verdict
    <3> QED BY <2>3, <3>3, <3>4 DEF HygieneInv, Reporting, Reported
  <2>5. CASE pCmd = "hygiene"
    <3>1. 1 \in DOMAIN pQueue /\ pQueue[1].file = "hygiene-report.json" /\ pQueue[1].content # None
      BY <2>1, <2>5 DEF HygieneInv, Reporting
    <3>2. pDir'["hygiene-report.json"] = pQueue[1].content
      <4>1. pQueue[1] \in Items(pQueue) /\ "hygiene-report.json" \in ProvFiles
        BY <3>1, ReportFilesAre DEF Items, ReportFiles
      <4> QED BY <2>1, <2>2, <3>1, <4>1, AppliedProv
    <3>3. pStatus' = IF pQueue[1].content.overall = "flagged" THEN "flagged" ELSE "ok"
      BY <2>1, <2>5 DEF ProvExit
    <3>4. Verdict'
      BY <2>1, <2>5, <3>1, <3>2, <3>3 DEF Verdict
    <3> QED BY <2>3, <3>3, <3>4 DEF HygieneInv, Reporting, Reported
  <2>6. CASE pCmd \notin {"format", "hygiene"}
    <3>1. pStatus' = "ok"
      BY <2>1, <2>6 DEF ProvExit
    <3> QED BY <2>1, <2>3, <2>6, <3>1 DEF HygieneInv, Reporting, Reported, Verdict
  <2> QED BY <2>4, <2>5, <2>6
<1>5. CASE ProvBreaks
  <2>1. pStatus = "running" /\ pStatus' = "broken"
    BY <1>5 DEF ProvBreaks
  <2>2. PICK n \in 0..Len(pQueue) : pDir' = ApplyProv(pDir, SubSeq(pQueue, 1, n))
    BY <1>5 DEF ProvBreaks
  <2> DEFINE h == SubSeq(pQueue, 1, n)
  <2>3. Orderly(pQueue) /\ (\A w \in Items(pQueue) : WriteVouched(w)) /\ Reported(pDir)
    BY <2>1 DEF HygieneInv, Reporting
  <2>4. Orderly(h) /\ Items(h) \subseteq Items(pQueue) /\ pDir' = ApplyProv(pDir, h)
    BY <2>2, <2>3, PrefixIsOrderly
  <2> HIDE DEF h
  <2>5. Reported(pDir')
    BY <2>3, <2>4, WritingVouches
  <2> QED BY <2>1, <2>5 DEF HygieneInv, Reporting, Reported, Verdict
<1>6. CASE UNCHANGED provVars
  BY <1>6 DEF provVars, HygieneInv, Reporting, Reported, Verdict
<1> QED BY <1>1, <1>2, <1>3, <1>4, <1>5, <1>6 DEF ProvNext

(* A run reports a flagged repository exactly when what it wrote says so,  *)
(* and a report that says clean, in whichever file, looked at files and    *)
(* history and found neither one crowded bucket nor, in what it scans, a   *)
(* secret: paths with ".git/" in them and what cannot be read it does not  *)
(* scan (hygiene.ts).                                                      *)
THEOREM HygieneIsHonest == ProvSpec => []HygieneHonest
<1>1. HygieneInv => HygieneHonest
  <2> SUFFICES ASSUME HygieneInv PROVE HygieneHonest
    OBVIOUS
  <2> DEFINE reports == {pDir["hygiene-report.json"], pDir["hygiene-report.md"]}
                          \union (IF pDir["submission.md"] = None THEN {} ELSE {pDir["submission.md"].hygiene})
  <2>1. \A r \in reports \ {None} : HonestReport(r)
    BY DEF HygieneInv, Reported, ReportFiles, Vouched
  <2>2. Verdict
    BY DEF HygieneInv
  <2> QED BY <2>1, <2>2 DEF HygieneHonest, HonestReport, Verdict
<1> QED BY <1>1, HygieneAtFirst, HygieneKept, PTL DEF ProvSpec

-----------------------------------------------------------------------------
(* The contract of a tool run. *)

(* A step of ToolRun, from status s and artifact o to t and p, w being     *)
(* what the run makes, and r whether that is its last resort.              *)
RunStep(s, t, w, o, p, r) ==
  \/ s # "running" /\ t = "running" /\ p = o
  \/ s = "running" /\ t = s /\ p \in {o, w}
  \/ s = "running" /\ t \in {"ok", "mended", "flagged"} /\ p = w /\ (r => t = "mended")
  \/ s = "running" /\ r /\ t = "claimed" /\ p \in {o, w}
  \/ s # "running" /\ t \in {"refused", "checked"} /\ p = o
  \/ s = "running" /\ t = "broken" /\ p \in {o, w}

LEMMA RunStepIsContract ==
  RunStep(ToolStatus, ToolStatus', ToolWant, ToolOutput, ToolOutput', ToolLastResort) => Contract!Next
BY DEF RunStep, Contract!Next, Contract!Begin, Contract!Decide, Contract!Publish, Contract!Succeed,
       Contract!Overclaim, Contract!Refuse, Contract!BreakOff

(* The script: a run is on from its start to its exit, which finds the     *)
(* script on disk.                                                         *)
ScriptOn ==
  /\ sStatus = "running" <=> sPc # "idle"
  /\ sPc = "exit" => sFile.body = sNew

LEMMA ScriptOnKept == ScriptOn /\ [ScriptNext]_scriptVars => ScriptOn'
<1> SUFFICES ASSUME ScriptOn, [ScriptNext]_scriptVars PROVE ScriptOn'
  OBVIOUS
<1>0. \A status : status # "running" /\ ScriptEnd(status) => ScriptOn'
  BY DEF ScriptEnd, ScriptOn
<1>1. CASE ScriptStart
  <2>1. ScriptEnd("refused") \/ ScriptEnd("checked") \/ (sPc' = "ask" /\ sStatus' = "running")
    BY <1>1 DEF ScriptStart
  <2> QED BY <1>0, <2>1 DEF ScriptOn
<1>2. CASE ScriptAsk
  <2>1. sPc = "ask" /\ sPc' = "write" /\ sStatus' = sStatus
    BY <1>2 DEF ScriptAsk
  <2> QED BY <2>1 DEF ScriptOn
<1>3. CASE ScriptWrite
  <2>1. sPc = "write" /\ sPc' = "exit" /\ sStatus' = sStatus /\ sNew' = sNew /\ sFile'.body = sNew
    BY <1>3 DEF ScriptWrite, ReconcileGeneratedAt
  <2> QED BY <2>1 DEF ScriptOn
<1>4. CASE ScriptExit
  BY <1>0, <1>4 DEF ScriptExit
<1>5. CASE ScriptWriteFails
  <2>1. sPc = "write" /\ (ScriptEnd("broken") \/ UNCHANGED <<sPc, sStatus>>)
    BY <1>5 DEF ScriptWriteFails
  <2> QED BY <1>0, <2>1 DEF ScriptOn
<1>6. CASE ScriptDies
  BY <1>0, <1>6 DEF ScriptDies
<1>7. CASE UNCHANGED scriptVars
  BY <1>7 DEF scriptVars, ScriptOn
<1> QED BY <1>1, <1>2, <1>3, <1>4, <1>5, <1>6, <1>7 DEF ScriptNext

LEMMA ScriptSteps ==
  ScriptOn /\ ScriptNext => RunStep(sStatus, sStatus', <<sNew>>, <<sFile.body>>, <<sFile'.body>>, FALSE)
<1> SUFFICES ASSUME ScriptOn, ScriptNext
             PROVE  RunStep(sStatus, sStatus', <<sNew>>, <<sFile.body>>, <<sFile'.body>>, FALSE)
  OBVIOUS
<1>1. CASE ScriptStart
  <2>1. sPc = "idle" /\ sFile' = sFile /\ sStatus' \in {"refused", "checked", "running"}
    BY <1>1 DEF ScriptStart, ScriptEnd
  <2> QED BY <2>1 DEF ScriptOn, RunStep
<1>2. CASE ScriptAsk
  BY <1>2 DEF ScriptAsk, ScriptOn, RunStep
<1>3. CASE ScriptWrite
  <2>1. sPc = "write" /\ sStatus' = sStatus /\ sFile'.body = sNew
    BY <1>3 DEF ScriptWrite, ReconcileGeneratedAt
  <2> QED BY <2>1 DEF ScriptOn, RunStep
<1>4. CASE ScriptExit
  <2>1. sPc = "exit" /\ sStatus' = "ok" /\ sFile' = sFile
    BY <1>4 DEF ScriptExit, ScriptEnd
  <2> QED BY <2>1 DEF ScriptOn, RunStep
<1>5. CASE ScriptWriteFails
  <2>1. sPc = "write" /\ sFile' = sFile /\ (sStatus' = "broken" \/ sStatus' = sStatus)
    BY <1>5 DEF ScriptWriteFails, ScriptEnd
  <2> QED BY <2>1 DEF ScriptOn, RunStep
<1>6. CASE ScriptDies
  <2>1. sPc # "idle" /\ sFile' = sFile /\ sStatus' = "broken"
    BY <1>6 DEF ScriptDies, ScriptEnd
  <2> QED BY <2>1 DEF ScriptOn, RunStep
<1> QED BY <1>1, <1>2, <1>3, <1>4, <1>5, <1>6 DEF ScriptNext

(* The sheet: likewise, its JSON being on disk before its Markdown.        *)
FaqOn ==
  /\ fStatus = "running" <=> fPc # "idle"
  /\ fPc = "md" => fJson = fSheet

LEMMA FaqOnKept == FaqOn /\ [FaqNext]_faqVars => FaqOn'
<1> SUFFICES ASSUME FaqOn, [FaqNext]_faqVars PROVE FaqOn'
  OBVIOUS
<1>1. CASE FaqStart \/ FaqRejected \/ FaqWriteFallback \/ FaqWriteMd \/ FaqBreaksOff
  BY <1>1 DEF FaqStart, FaqRejected, FaqWriteFallback, FaqWriteMd, FaqBreaksOff, FaqEnd, FaqOn
<1>2. CASE FaqFallsBack \/ FaqDrafted \/ FaqWriteJson
  BY <1>2 DEF FaqFallsBack, FaqDrafted, FaqWriteJson, FaqOn
<1>3. CASE FaqBalance
  <2>1. fPc = "balance" /\ fPc' \in {"balance", "json"} /\ fStatus' = fStatus
    BY <1>3 DEF FaqBalance
  <2> QED BY <2>1 DEF FaqOn
<1>4. CASE UNCHANGED faqVars
  BY <1>4 DEF faqVars, FaqOn
<1> QED BY <1>1, <1>2, <1>3, <1>4 DEF FaqNext

LEMMA FaqSteps ==
  FaqOn /\ FaqNext =>
    RunStep(fStatus, fStatus', SheetWanted, <<fJson, fFallback>>, <<fJson', fFallback'>>, FALSE)
<1> SUFFICES ASSUME FaqOn, FaqNext
             PROVE  RunStep(fStatus, fStatus', SheetWanted, <<fJson, fFallback>>, <<fJson', fFallback'>>, FALSE)
  OBVIOUS
<1>1. CASE FaqStart
  BY <1>1 DEF FaqStart, FaqEnd, FaqOn, RunStep
<1>2. CASE FaqFallsBack \/ FaqDrafted
  BY <1>2 DEF FaqFallsBack, FaqDrafted, FaqOn, RunStep
<1>3. CASE FaqRejected \/ FaqBreaksOff
  BY <1>3 DEF FaqRejected, FaqBreaksOff, FaqEnd, FaqOn, RunStep
<1>4. CASE FaqBalance
  <2>1. fPc = "balance" /\ fStatus' = fStatus /\ fJson' = fJson /\ fFallback' = fFallback
    BY <1>4 DEF FaqBalance
  <2> QED BY <2>1 DEF FaqOn, RunStep
<1>5. CASE FaqWriteFallback
  BY <1>5 DEF FaqWriteFallback, FaqEnd, FaqOn, RunStep, SheetWanted
<1>6. CASE FaqWriteJson
  BY <1>6 DEF FaqWriteJson, FaqOn, RunStep, SheetWanted
<1>7. CASE FaqWriteMd
  BY <1>7 DEF FaqWriteMd, FaqEnd, FaqOn, RunStep, SheetWanted
<1> QED BY <1>1, <1>2, <1>3, <1>4, <1>5, <1>6, <1>7 DEF FaqNext

(* The deck.                                                               *)
DeckOn == DeckInv /\ DOMAIN dDir = Files

LEMMA DeckOnKept == DeckOn /\ [DeckNext]_deckVars => DeckOn'
<1> SUFFICES ASSUME DeckOn, [DeckNext]_deckVars PROVE DeckOn'
  OBVIOUS
<1> SUFFICES DOMAIN dDir' = Files
  BY DeckKept DEF DeckOn
<1>1. \A q : DOMAIN Apply(dDir, q) = Files
  BY DEF Apply
<1>2. CASE DeckStart \/ UNCHANGED deckVars
  BY <1>2 DEF DeckStart, deckVars, DeckOn
<1>3. CASE DeckDiagram
  <2>1. \E m : dDir' = [dDir EXCEPT !["diagram.mmd"] = DiagramOf(m)]
    BY <1>3 DEF DeckDiagram
  <2> QED BY <2>1 DEF DeckOn
<1>4. CASE DeckWrite \/ DeckWriteFails \/ DeckDies
  <2>1. \E q : dDir' = Apply(dDir, q)
    BY <1>4 DEF DeckWrite, DeckWriteFails, DeckDies
  <2> QED BY <1>1, <2>1
<1> QED BY <1>2, <1>3, <1>4 DEF DeckNext

LEMMA PartOfDeck ==
  ASSUME NEW q, Orderly(q), NEW n \in 0..Len(q), NEW dir
  PROVE  Apply(dir, SubSeq(q, 1, n))["deck.md"] \in {dir["deck.md"], Apply(dir, q)["deck.md"]}
<1> DEFINE h == SubSeq(q, 1, n)
<1>1. Orderly(h) /\ Items(h) \subseteq Items(q)
  BY PrefixIsOrderly
<1> HIDE DEF h
<1>2. CASE "deck.md" \in FilesOf(h)
  <2>1. PICK w \in Items(h) : w.file = "deck.md"
    BY <1>2 DEF FilesOf
  <2>2. Apply(dir, h)["deck.md"] = w.content
    BY <1>1, <2>1, FilesAre, AppliedFile
  <2>3. Apply(dir, q)["deck.md"] = w.content
    BY <1>1, <2>1, FilesAre, AppliedFile
  <2> QED BY <2>2, <2>3 DEF h
<1>3. CASE "deck.md" \notin FilesOf(h)
  <2>1. Apply(dir, h)["deck.md"] = dir["deck.md"]
    BY <1>1, <1>3, FilesAre, AppliedFile
  <2> QED BY <2>1 DEF h
<1> QED BY <1>2, <1>3

LEMMA DeckSteps ==
  DeckOn /\ DeckNext =>
    RunStep(dStatus, dStatus', <<IF dStatus = "running" THEN DeckWanted ELSE None>>,
            <<dDir["deck.md"]>>, <<dDir'["deck.md"]>>, dMend = "skeleton")
<1> SUFFICES ASSUME DeckOn, DeckNext
             PROVE  RunStep(dStatus, dStatus', <<IF dStatus = "running" THEN DeckWanted ELSE None>>,
                            <<dDir["deck.md"]>>, <<dDir'["deck.md"]>>, dMend = "skeleton")
  OBVIOUS
<1> DEFINE o == dDir["deck.md"]
           p == dDir'["deck.md"]
<1>1. Apply(dDir, dQueue)["deck.md"] = DeckWanted
  BY FilesAre DEF Apply, DeckWanted
<1>2. ASSUME dStatus = "running", NEW n \in 0..Len(dQueue), dDir' = Apply(dDir, SubSeq(dQueue, 1, n))
      PROVE  p \in {o, DeckWanted}
  <2>1. Orderly(dQueue)
    BY <1>2 DEF DeckOn, DeckInv, Running
  <2> QED BY <1>1, <1>2, <2>1, PartOfDeck
<1>3. CASE DeckStart
  <2>1. dStatus # "running" /\ dStatus' \in {"refused", "checked", "running"} /\ dDir' = dDir
    BY <1>3 DEF DeckStart, DeckEnd
  <2> QED BY <2>1 DEF RunStep
<1>4. CASE DeckDiagram
  <2>1. PICK m : dDir' = [dDir EXCEPT !["diagram.mmd"] = DiagramOf(m)]
    BY <1>4 DEF DeckDiagram
  <2>2. p = o
    BY <2>1, FilesAre DEF DeckOn
  <2>3. dStatus # "running" /\ dStatus' = "checked"
    BY <1>4 DEF DeckDiagram, DeckEnd
  <2> QED BY <2>2, <2>3 DEF RunStep
<1>5. CASE DeckWrite
  <2>1. /\ dStatus = "running" /\ dDir' = Apply(dDir, dQueue) /\ dStatus' \in {"ok", "mended"}
        /\ dMend = "skeleton" => dStatus' = "mended"
    BY <1>5 DEF DeckWrite, DeckEnd
  <2> QED BY <1>1, <2>1 DEF RunStep
<1>6. CASE DeckWriteFails
  <2>1. dStatus = "running" /\ (dStatus' = dStatus \/ (dStatus' = "claimed" /\ dMend = "skeleton"))
    BY <1>6 DEF DeckWriteFails, DeckEnd
  <2>2. PICK i \in DOMAIN dQueue : dDir' = Apply(dDir, SubSeq(dQueue, 1, i - 1))
    BY <1>6 DEF DeckWriteFails
  <2>3. i - 1 \in 0..Len(dQueue)
    BY <2>1 DEF DeckOn, DeckInv, Running, Orderly
  <2>4. p \in {o, DeckWanted}
    BY <1>2, <2>1, <2>2, <2>3
  <2> QED BY <2>1, <2>4 DEF RunStep
<1>7. CASE DeckDies
  <2>1. dStatus = "running" /\ dStatus' = "broken"
    BY <1>7 DEF DeckDies, DeckEnd
  <2>2. PICK i \in DOMAIN dQueue : dDir' = Apply(dDir, SubSeq(dQueue, 1, i))
    BY <1>7 DEF DeckDies
  <2>3. i \in 0..Len(dQueue)
    BY <2>1 DEF DeckOn, DeckInv, Running, Orderly
  <2>4. p \in {o, DeckWanted}
    BY <1>2, <2>1, <2>2, <2>3
  <2> QED BY <2>1, <2>4 DEF RunStep
<1> QED BY <1>3, <1>4, <1>5, <1>6, <1>7 DEF DeckNext

(* Disclosure or submission, the one a run makes, is what it writes first. *)
Leads(q) ==
  /\ Orderly(q) /\ Items(q) # {}
  /\ \A i \in DOMAIN q : q[i].file \in {"disclosure.md", "submission.md"} => i = 1

ProvOn == pStatus = "running" => Leads(pQueue)

LEMMA NoneLeads ==
  ASSUME NEW q, Orderly(q), Items(q) # {}, {"disclosure.md", "submission.md"} \intersect FilesOf(q) = {}
  PROVE  Leads(q)
BY DEF Leads, FilesOf, Items

LEMMA OneLeads ==
  ASSUME NEW w PROVE Leads(<<w>>)
<1>1. Orderly(<<w>>) /\ Items(<<w>>) = {w} /\ DOMAIN <<w>> = {1}
  BY OneIsOrderly
<1> QED BY <1>1 DEF Leads

LEMMA DisclosureLeads ==
  ASSUME NEW m, NEW log PROVE Leads(GenerateQueue(m, log))
<1> DEFINE w == Placed("disclosure.md", Disclosure(m, log))
           r == SummaryQueue(m)
           q == GenerateQueue(m, log)
<1>1. q = <<w>> \o r /\ w.file = "disclosure.md"
  BY DEF GenerateQueue, ProvWrite, Placed
<1>2. /\ Orderly(q)
      /\ Items(q) = {w} \union {Placed(f, Summary(m)) : f \in SummaryFiles}
  BY GenerateQueueIs
<1>3. Orderly(r)
  BY SummaryQueueIs
<1>4. \A f, c : f \in SummaryFiles => Placed(f, c).file \notin {"disclosure.md", "submission.md"}
  BY DEF Placed, SummaryFiles
<1> HIDE DEF w, r, q
<1>5. 1 \in DOMAIN q /\ q[1] = w
  BY <1>1, <1>3 DEF Orderly
<1>6. ASSUME NEW i \in DOMAIN q, q[i].file \in {"disclosure.md", "submission.md"} PROVE i = 1
  <2>1. q[i] \in Items(q)
    BY DEF Items
  <2>2. q[i] = w
    BY <1>2, <1>4, <1>6, <2>1
  <2> QED BY <1>2, <1>5, <2>2 DEF Orderly
<1> QED BY <1>2, <1>6 DEF Leads, q

LEMMA ProvOnKept == ProvOn /\ [ProvNext]_provVars => ProvOn'
<1> SUFFICES ASSUME ProvOn, [ProvNext]_provVars, pStatus' = "running" PROVE Leads(pQueue')
  BY DEF ProvOn
<1>1. CASE Provo
  <2>1. PICK m, log : pQueue' = GenerateQueue(m, log) \/ pQueue' = SummaryQueue(m)
    BY <1>1 DEF Provo, RunWith
  <2>2. Leads(SummaryQueue(m))
    <3>1. Orderly(SummaryQueue(m)) /\ Items(SummaryQueue(m)) = {Placed(f, Summary(m)) : f \in SummaryFiles}
      BY SummaryQueueIs
    <3>2. \A f, c : Placed(f, c).file = f
      BY DEF Placed
    <3>3. FilesOf(SummaryQueue(m)) = SummaryFiles
      BY <3>1, <3>2 DEF FilesOf
    <3> QED BY <3>1, <3>3, NoneLeads DEF SummaryFiles
  <2> QED BY <2>1, <2>2, DisclosureLeads
<1>2. CASE SubmitFormat
  <2>1. \E s : pQueue' = ProvWrite("submission.md", s)
    BY <1>2 DEF SubmitFormat, RunWith
  <2> QED BY <2>1, OneLeads DEF ProvWrite
<1>3. CASE SubmitHygiene
  <2>1. PICK r : pQueue' = HygieneQueue(r)
    BY <1>3 DEF SubmitHygiene, RunWith
  <2>2. /\ Orderly(HygieneQueue(r))
        /\ Items(HygieneQueue(r)) = {Placed("hygiene-report.json", r), Placed("hygiene-report.md", r)}
    BY TwoPlaced DEF HygieneQueue
  <2>3. \A f, c : Placed(f, c).file = f
    BY DEF Placed
  <2>4. FilesOf(HygieneQueue(r)) = {"hygiene-report.json", "hygiene-report.md"}
    BY <2>2, <2>3 DEF FilesOf
  <2> QED BY <2>1, <2>2, <2>4, NoneLeads
<1>4. CASE ProvWrites \/ ProvBreaks
  BY <1>4 DEF ProvWrites, ProvBreaks, ProvExit
<1>5. CASE UNCHANGED provVars
  BY <1>5 DEF provVars, ProvOn
<1> QED BY <1>1, <1>2, <1>3, <1>4, <1>5 DEF ProvNext

(* What some of the writes of a run leave of a file it writes first, if    *)
(* it writes it at all.                                                    *)
LEMMA LeadingWrites ==
  ASSUME NEW q, Leads(q), NEW n \in 0..Len(q), NEW dir, NEW f \in {"disclosure.md", "submission.md"},
         NEW d, d = ApplyProv(dir, SubSeq(q, 1, n))
  PROVE  d[f] = IF n # 0 /\ q[1].file = f THEN q[1].content ELSE dir[f]
<1> DEFINE h == SubSeq(q, 1, n)
<1>0. d = ApplyProv(dir, h)
  OBVIOUS
<1>1. q \in Seq(Items(q)) /\ Len(q) \in Nat /\ DOMAIN q = 1..Len(q)
  BY DEF Leads, Orderly
<1>2. DOMAIN h = 1..n /\ \A j \in 1..n : h[j] = q[j] /\ j \in DOMAIN q
  BY <1>1
<1>3. Orderly(h)
  BY PrefixIsOrderly DEF Leads
<1> HIDE DEF h
<1>4. CASE n # 0 /\ q[1].file = f
  <2>1. h[1] = q[1] /\ h[1] \in Items(h)
    BY <1>1, <1>2, <1>4 DEF Items
  <2>2. ApplyProv(dir, h)[f] = h[1].content
    BY <1>3, <1>4, <2>1, ProvFilesAre, AppliedProv
  <2> QED BY <1>0, <1>4, <2>1, <2>2
<1>5. CASE ~(n # 0 /\ q[1].file = f)
  <2>1. ASSUME NEW j \in DOMAIN h, h[j].file = f PROVE FALSE
    <3>1. q[j].file = f /\ j \in DOMAIN q /\ j \in 1..n
      BY <1>2, <2>1
    <3>2. j = 1
      BY <3>1 DEF Leads
    <3> QED BY <1>1, <1>5, <3>1, <3>2
  <2>2. f \notin FilesOf(h)
    BY <2>1 DEF FilesOf, Items
  <2>3. ApplyProv(dir, h)[f] = dir[f]
    BY <1>3, <2>2, ProvFilesAre, AppliedProv
  <2> QED BY <1>0, <1>5, <2>3
<1> QED BY <1>4, <1>5

LEMMA ProvSteps ==
  ProvOn /\ ProvNext =>
    RunStep(pStatus, pStatus', <<ProvWanted("disclosure.md"), ProvWanted("submission.md")>>,
            <<pDir["disclosure.md"], pDir["submission.md"]>>, <<pDir'["disclosure.md"], pDir'["submission.md"]>>, FALSE)
<1> DEFINE w == <<ProvWanted("disclosure.md"), ProvWanted("submission.md")>>
           o == <<pDir["disclosure.md"], pDir["submission.md"]>>
           p == <<pDir'["disclosure.md"], pDir'["submission.md"]>>
<1> SUFFICES ASSUME ProvOn, ProvNext PROVE RunStep(pStatus, pStatus', w, o, p, FALSE)
  OBVIOUS
<1>1. CASE Provo \/ SubmitFormat \/ SubmitHygiene
  <2>1. pStatus # "running" /\ pDir' = pDir /\ pStatus' \in {"running", "refused"}
    BY <1>1 DEF Provo, SubmitFormat, SubmitHygiene, StartRun, RunWith
  <2> QED BY <2>1 DEF RunStep
<1>2. ASSUME pStatus = "running", NEW n \in 0..Len(pQueue), pDir' = ApplyProv(pDir, SubSeq(pQueue, 1, n))
      PROVE  p = IF n = 0 THEN o ELSE w
  <2>1. Leads(pQueue)
    BY <1>2 DEF ProvOn
  <2>2. ASSUME NEW f \in {"disclosure.md", "submission.md"}
        PROVE  pDir'[f] = IF n = 0 THEN pDir[f] ELSE ProvWanted(f)
    <3>1. pDir'[f] = IF n # 0 /\ pQueue[1].file = f THEN pQueue[1].content ELSE pDir[f]
      BY <1>2, <2>1, LeadingWrites
    <3> QED BY <1>2, <3>1 DEF ProvWanted
  <2> QED BY <2>2
<1>3. CASE ProvWrites
  <2>1. pStatus = "running" /\ pDir' = ApplyProv(pDir, pQueue) /\ pStatus' \in {"ok", "flagged"}
    BY <1>3 DEF ProvWrites, ProvExit
  <2>2. pQueue \in Seq(Items(pQueue)) /\ Items(pQueue) # {}
    BY <2>1 DEF ProvOn, Leads, Orderly
  <2>3. SubSeq(pQueue, 1, Len(pQueue)) = pQueue /\ Len(pQueue) \in 0..Len(pQueue)
    BY <2>2
  <2>4. Len(pQueue) # 0
    BY <2>2 DEF Items
  <2>5. p = w
    BY <1>2, <2>1, <2>3, <2>4
  <2> QED BY <2>1, <2>5 DEF RunStep
<1>4. CASE ProvBreaks
  <2>1. pStatus = "running" /\ pStatus' = "broken"
    BY <1>4 DEF ProvBreaks
  <2>2. PICK n \in 0..Len(pQueue) : pDir' = ApplyProv(pDir, SubSeq(pQueue, 1, n))
    BY <1>4 DEF ProvBreaks
  <2>3. p \in {o, w}
    BY <1>2, <2>1, <2>2
  <2> QED BY <2>1, <2>3 DEF RunStep
<1> QED BY <1>1, <1>3, <1>4 DEF ProvNext

(* The tools side by side: each takes its own steps or none.               *)
LEMMA EachToolSteps ==
  Spec => ScriptSpec /\ DeckSpec /\ FaqSpec /\ ProvSpec
<1>1. Init => ScriptInit /\ DeckInit /\ FaqInit /\ ProvInit
  BY DEF Init
<1>2. [Next]_vars => [ScriptNext]_scriptVars /\ [DeckNext]_deckVars /\ [FaqNext]_faqVars /\ [ProvNext]_provVars
  BY DEF Next, vars
<1> QED BY <1>1, <1>2, PTL DEF Spec, ScriptSpec, DeckSpec, FaqSpec, ProvSpec

ToolsOn == ScriptOn /\ DeckOn /\ FaqOn /\ ProvOn

LEMMA ToolsOnAlways == Spec => []ToolsOn
<1>1. Init => ToolsOn
  <2>1. ScriptInit => ScriptOn
    BY DEF ScriptInit, ScriptOn
  <2>2. DeckInit => DeckOn
    BY DeckAtFirst DEF DeckInit, DeckOn
  <2>3. FaqInit => FaqOn
    BY DEF FaqInit, FaqOn
  <2>4. ProvInit => ProvOn
    BY DEF ProvInit, ProvOn
  <2> QED BY <2>1, <2>2, <2>3, <2>4 DEF Init, ToolsOn
<1>2. ToolsOn /\ [Next]_vars => ToolsOn'
  <2>1. [Next]_vars => [ScriptNext]_scriptVars /\ [DeckNext]_deckVars /\ [FaqNext]_faqVars /\ [ProvNext]_provVars
    BY DEF Next, vars
  <2> QED BY <2>1, ScriptOnKept, DeckOnKept, FaqOnKept, ProvOnKept DEF ToolsOn
<1> QED BY <1>1, <1>2, PTL DEF Spec

(* Whatever writes are refused and wherever a run dies: an artifact is of  *)
(* one run, a refused run leaves what was there, and a run that reports    *)
(* success leaves what it settled on, for all four tools; only a deck      *)
(* whose skeleton was refused as well ends in a success that is claimed    *)
(* (deckgen cli.ts, runPopulate).                                          *)
THEOREM ToolsKeepContract == Spec => KeepsContract
<1>1. Init => ToolStatus = "idle"
  BY DEF Init, ScriptInit, DeckInit, FaqInit, ProvInit, ToolStatus
<1>2. ASSUME ToolsOn, Next
      PROVE  RunStep(ToolStatus, ToolStatus', ToolWant, ToolOutput, ToolOutput', ToolLastResort)
  <2>1. CASE tool = "script" /\ ScriptNext /\ tool' = tool
    <3>1. /\ ToolStatus = sStatus /\ ToolStatus' = sStatus' /\ ToolWant = <<sNew>>
          /\ ToolOutput = <<sFile.body>> /\ ToolOutput' = <<sFile'.body>> /\ ToolLastResort = FALSE
      BY <2>1 DEF ToolStatus, ToolWant, ToolOutput, ToolLastResort
    <3> QED BY <1>2, <2>1, <3>1, ScriptSteps DEF ToolsOn
  <2>2. CASE tool = "deck" /\ DeckNext /\ tool' = tool
    <3>1. /\ ToolStatus = dStatus /\ ToolStatus' = dStatus'
          /\ ToolWant = <<IF dStatus = "running" THEN DeckWanted ELSE None>>
          /\ ToolOutput = <<dDir["deck.md"]>> /\ ToolOutput' = <<dDir'["deck.md"]>>
          /\ ToolLastResort = (dMend = "skeleton")
      BY <2>2 DEF ToolStatus, ToolWant, ToolOutput, ToolLastResort
    <3> QED BY <1>2, <2>2, <3>1, DeckSteps DEF ToolsOn
  <2>3. CASE tool = "faq" /\ FaqNext /\ tool' = tool
    <3>1. /\ ToolStatus = fStatus /\ ToolStatus' = fStatus' /\ ToolWant = SheetWanted
          /\ ToolOutput = <<fJson, fFallback>> /\ ToolOutput' = <<fJson', fFallback'>>
          /\ ToolLastResort = FALSE
      BY <2>3 DEF ToolStatus, ToolWant, ToolOutput, ToolLastResort
    <3> QED BY <1>2, <2>3, <3>1, FaqSteps DEF ToolsOn
  <2>4. CASE tool = "provenance" /\ ProvNext /\ tool' = tool
    <3>1. /\ ToolStatus = pStatus /\ ToolStatus' = pStatus'
          /\ ToolWant = <<ProvWanted("disclosure.md"), ProvWanted("submission.md")>>
          /\ ToolOutput = <<pDir["disclosure.md"], pDir["submission.md"]>>
          /\ ToolOutput' = <<pDir'["disclosure.md"], pDir'["submission.md"]>> /\ ToolLastResort = FALSE
      BY <2>4 DEF ToolStatus, ToolWant, ToolOutput, ToolLastResort
    <3> QED BY <1>2, <2>4, <3>1, ProvSteps DEF ToolsOn
  <2> QED BY <1>2, <2>1, <2>2, <2>3, <2>4 DEF Next
<1>3. ToolsOn /\ [Next]_vars => [Contract!Next]_<<ToolStatus, ToolWant, ToolOutput>>
  <2>1. CASE Next
    BY <1>2, <2>1, RunStepIsContract
  <2>2. CASE UNCHANGED vars
    BY <2>2 DEF vars, scriptVars, deckVars, faqVars, provVars, ToolStatus, ToolWant, ToolOutput,
                DeckWanted, SheetWanted, ProvWanted
  <2> QED BY <2>1, <2>2
<1> QED BY <1>1, <1>3, ToolsOnAlways, PTL DEF Spec, KeepsContract, Contract!Spec

(* So whatever holds of each tool holds when they are run side by side.    *)
COROLLARY ToolsAreSound ==
  Spec => [](ScriptHonest /\ DeckWhole /\ DeckCurrent /\ SheetSound /\ DisclosureTrue /\ HygieneHonest)
BY EachToolSteps, ScriptFileIsHonest, DeckIsWhole, DeckIsCurrent, SheetIsSound, DisclosureIsKeptTrue,
   HygieneIsHonest, PTL
===============================================================================
