------------------------------ MODULE DemoDrive ------------------------------
(***************************************************************************)
(* The demo capture (src/ideation/demodrive): a local server feeds mock or *)
(* cached events to the UI, a headless browser is driven through the steps *)
(* of a script and records a video and a screenshot per step.  A SIGINT    *)
(* handler runs between the awaits of the driver.                          *)
(***************************************************************************)
EXTENDS NoValue, Naturals, FiniteSets

CONSTANT DemoSteps  \* number of steps of the script; one without steps captures nothing

ASSUME DemoAssumption ==
  DemoSteps \in Nat \ {0} /\ None \notin Nat /\ None \notin {"open", "closed", "partial", "whole"}

VARIABLES
  mPc,         \* where the driver is
  mStep,       \* the step being driven
  mExit,       \* the exit code the driver is about to return
  mContext,    \* the browser context: None (not opened, or given up), "open", "closed"
  mRecording,  \* the raw recording: None, "partial" or "whole"
  mBrowser,    \* the browser runs
  mFeeder,     \* the event server listens
  mVideo,      \* video.webm, where the recording is moved
  mShots,      \* steps with a screenshot
  mSentinel,   \* demodrive-error.json: the step it names, 0 for an interrupt
  mHandler,    \* "armed", "closing", "closed", "written", or "spent" when nothing handles the signal
  mRefused     \* history: "close" and "sentinel", when one of them failed

diskVars == <<mVideo, mShots, mSentinel>>
demoVars == <<mPc, mStep, mExit, mContext, mRecording, mBrowser, mFeeder, diskVars, mHandler, mRefused>>

AllSteps == 1..DemoSteps

DemoInit ==
  /\ mPc = "idle" /\ mStep = 1 /\ mExit = 0
  /\ mContext = None /\ mRecording = None /\ mBrowser = FALSE /\ mFeeder = FALSE
  /\ mVideo = None /\ mShots = {} /\ mSentinel = None /\ mHandler = "spent"
  /\ mRefused = {}

(* The script is validated, the directories made, the handler installed.   *)
CaptureStart ==
  /\ mPc = "idle"
  /\ \/ mPc' = "setup" /\ mHandler' = "armed" /\ UNCHANGED mExit
     \/ mPc' = "over" /\ mExit' = 1 /\ UNCHANGED mHandler
  /\ UNCHANGED <<mStep, mContext, mRecording, mBrowser, mFeeder, diskVars, mRefused>>

(* Server, browser, context with guards, page, preflight: each may fail,   *)
(* which leaves what was brought up before it.  A cache miss does not.     *)
SetUp ==
  /\ mPc = "setup"
  /\ \/ ~mFeeder /\ mFeeder' = TRUE /\ UNCHANGED <<mPc, mBrowser, mContext, mRecording, mExit>>
     \/ mFeeder /\ ~mBrowser /\ mBrowser' = TRUE /\ UNCHANGED <<mPc, mFeeder, mContext, mRecording, mExit>>
     \/ /\ mBrowser /\ mContext = None
        /\ mContext' = "open" /\ mRecording' = "partial" /\ UNCHANGED <<mPc, mBrowser, mFeeder, mExit>>
     \/ mContext = "open" /\ mPc' = "step" /\ UNCHANGED <<mBrowser, mFeeder, mContext, mRecording, mExit>>
     \/ mPc' = "close" /\ mExit' = 1 /\ UNCHANGED <<mBrowser, mFeeder, mContext, mRecording>>
  /\ UNCHANGED <<mStep, diskVars, mHandler, mRefused>>

(* The actions of a step, its pause and its screenshot.  `interrupted' is  *)
(* looked at between steps.                                                *)
StepDone ==
  /\ mPc = "step" /\ mContext = "open"
  /\ mShots' = mShots \union {mStep}
  /\ IF mStep = DemoSteps \/ mHandler # "armed"
     THEN mPc' = "close" /\ UNCHANGED mStep
     ELSE mStep' = mStep + 1 /\ UNCHANGED mPc
  /\ UNCHANGED <<mExit, mContext, mRecording, mBrowser, mFeeder, mVideo, mSentinel, mHandler, mRefused>>

\* Variant (fault injection): a step that fails is passed over.
StepFails_PassedOver ==
  /\ mPc = "step"
  /\ IF mStep = DemoSteps THEN mPc' = "close" /\ UNCHANGED mStep
     ELSE mStep' = mStep + 1 /\ UNCHANGED mPc
  /\ UNCHANGED <<mExit, mContext, mRecording, mBrowser, mFeeder, diskVars, mHandler, mRefused>>

(* An action times out, finds nothing, or finds the context closed.        *)
StepFails ==
  /\ mPc = "step" /\ mPc' = "caught"
  /\ UNCHANGED <<mStep, mExit, mContext, mRecording, mBrowser, mFeeder, diskVars, mHandler, mRefused>>

(* context?.close(): a context closes once, and that completes the         *)
(* recording.  A rejection is swallowed wherever this is called.           *)
CloseContext ==
  /\ mContext' = IF mContext = "open" THEN "closed" ELSE mContext
  /\ \/ mRecording' = (IF mContext = "open" THEN "whole" ELSE mRecording) /\ UNCHANGED mRefused
     \/ mContext = "open" /\ mRefused' = mRefused \union {"close"} /\ UNCHANGED mRecording

(* writeErrorSentinel replaces what is there, or throws and leaves it.     *)
WriteSentinel(n) ==
  \/ mSentinel' = n /\ UNCHANGED mRefused
  \/ mRefused' = mRefused \union {"sentinel"} /\ UNCHANGED mSentinel

(* The context is closed first, which completes the recording.             *)
StepCaught ==
  /\ mPc = "caught" /\ CloseContext /\ mPc' = "report"
  /\ UNCHANGED <<mStep, mExit, mBrowser, mFeeder, diskVars, mHandler>>

(* A sentinel that cannot be written ends the run with the same code.      *)
StepReported ==
  /\ mPc = "report" /\ mPc' = "close"
  /\ mContext' = None /\ mExit' = 1 /\ WriteSentinel(mStep)
  /\ UNCHANGED <<mStep, mRecording, mBrowser, mFeeder, mVideo, mShots, mHandler>>

(* finally: context, browser, recording, server; one await each.           *)
ContextClosed ==
  /\ mPc = "close" /\ CloseContext /\ mPc' = "quit"
  /\ UNCHANGED <<mStep, mExit, mBrowser, mFeeder, diskVars, mHandler>>

BrowserClosed ==
  /\ mPc = "quit" /\ mBrowser' = FALSE /\ mPc' = "stop"
  /\ \/ mVideo' = mRecording /\ mRecording' = None
     \/ UNCHANGED <<mVideo, mRecording>>  \* the rename is refused
  /\ UNCHANGED <<mStep, mExit, mContext, mFeeder, mShots, mSentinel, mHandler, mRefused>>

\* Variant (fault injection): the event server is left listening.
FeederStopped_Left ==
  /\ mPc = "stop" /\ mPc' = "over"
  /\ UNCHANGED <<mStep, mExit, mContext, mRecording, mBrowser, mFeeder, diskVars, mHandler, mRefused>>

FeederStopped ==
  /\ mPc = "stop" /\ mFeeder' = FALSE /\ mPc' = "over"
  /\ UNCHANGED <<mStep, mExit, mContext, mRecording, mBrowser, diskVars, mHandler, mRefused>>

(* The exit code is set; the process ends when nothing keeps it.           *)
ProcessOver ==
  /\ mPc = "over" /\ ~mBrowser /\ ~mFeeder /\ mHandler \in {"armed", "spent"}
  /\ mPc' = "ended"
  /\ UNCHANGED <<mStep, mExit, mContext, mRecording, mBrowser, mFeeder, diskVars, mHandler, mRefused>>

-----------------------------------------------------------------------------
Capturing == mPc \notin {"idle", "ended"}

EndProcess(code) == mPc' = "ended" /\ mExit' = code /\ mHandler' = "spent"

(* The first SIGINT.  Without a context there is nothing to wait for.      *)
Sigint ==
  /\ Capturing /\ mHandler = "armed"
  /\ IF mContext = None
     THEN WriteSentinel(0) /\ EndProcess(130)
     ELSE mHandler' = "closing" /\ UNCHANGED <<mSentinel, mRefused, mPc, mExit>>
  /\ UNCHANGED <<mStep, mContext, mRecording, mBrowser, mFeeder, mVideo, mShots>>

SigintClosed ==
  /\ Capturing /\ mHandler = "closing" /\ CloseContext
  /\ mHandler' = "closed"
  /\ UNCHANGED <<mPc, mStep, mExit, mBrowser, mFeeder, diskVars>>

SigintWrites ==
  /\ Capturing /\ mHandler = "closed" /\ WriteSentinel(0)
  /\ mHandler' = "written"
  /\ UNCHANGED <<mPc, mStep, mExit, mContext, mRecording, mBrowser, mFeeder, mVideo, mShots>>

(* process.exit comes in a finally: also when the sentinel was refused.    *)
SigintExits ==
  /\ Capturing /\ mHandler = "written" /\ EndProcess(130)
  /\ UNCHANGED <<mStep, mContext, mRecording, mBrowser, mFeeder, diskVars, mRefused>>

(* A second one, and one before the handler is there, finds no handler.    *)
Killed ==
  /\ Capturing /\ mHandler # "armed" /\ mPc' = "ended" /\ mExit' = 2 /\ mHandler' = "spent"
  /\ UNCHANGED <<mStep, mContext, mRecording, mBrowser, mFeeder, diskVars, mRefused>>

Drive ==
  \/ SetUp \/ StepDone \/ StepFails \/ StepCaught \/ StepReported
  \/ ContextClosed \/ BrowserClosed \/ FeederStopped \/ ProcessOver

Handle == SigintClosed \/ SigintWrites \/ SigintExits

DemoNext == CaptureStart \/ Drive \/ Sigint \/ Handle \/ Killed

DemoSpec == DemoInit /\ [][DemoNext]_demoVars

(* Every wait of the driver has a timeout; the handler is not starved.     *)
DemoFairness == WF_demoVars(Drive) /\ WF_demoVars(Handle)

-----------------------------------------------------------------------------
DemoTypeOK ==
  /\ mPc \in {"idle", "setup", "step", "caught", "report", "close", "quit", "stop", "over", "ended"}
  /\ mStep \in AllSteps /\ mShots \subseteq AllSteps /\ mExit \in {0, 1, 2, 130}
  /\ mContext \in {None, "open", "closed"} /\ mSentinel \in {None} \union (0..DemoSteps)
  /\ {mRecording, mVideo} \subseteq {None, "partial", "whole"}
  /\ mHandler \in {"armed", "closing", "closed", "written", "spent"} /\ mRefused \subseteq {"close", "sentinel"}

(* DEMODRIVE-RES-01, as far as it goes: what a capture leaves behind is    *)
(* what its exit code says, wherever a step failed and whenever it was     *)
(* interrupted.  Success is every screenshot and no sentinel; after a step *)
(* failed, the screenshots of the steps before it and a sentinel that      *)
(* names it; after an interrupt, those of a prefix and a sentinel that     *)
(* names the signal or a step that was cut off.  Unless the browser        *)
(* refused to close the context, the recording of a run that drove a step  *)
(* is complete, and none is partial; unless the file system refused it,    *)
(* the sentinel is there.  The exit code tells neither refusal.            *)
CaptureHonest ==
  mPc = "ended" =>
    LET recordings == {mVideo, mRecording}
        unwritten == mSentinel = None /\ "sentinel" \in mRefused
        drove == mExit = 0 \/ (mExit = 1 /\ (mShots # {} \/ mSentinel # None))
    IN
    /\ mShots = 1..Cardinality(mShots)
    /\ mExit = 0 => mShots = AllSteps /\ mSentinel = None
    /\ mExit = 1 /\ mShots # {} => mSentinel = mStep \/ unwritten
    /\ mExit = 1 /\ mSentinel # None => mSentinel = mStep /\ mShots = 1..(mStep - 1)
    /\ mExit = 130 => mSentinel \in {0} \union (AllSteps \ mShots) \/ unwritten
    /\ "close" \notin mRefused =>
         /\ drove => "whole" \in recordings
         /\ mExit # 2 => "partial" \notin recordings

(* A capture that is started ends, interrupted or not. *)
CaptureEnds == mPc # "idle" ~> mPc = "ended"
===============================================================================
