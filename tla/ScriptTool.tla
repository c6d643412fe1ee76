------------------------------ MODULE ScriptTool ------------------------------
(***************************************************************************)
(* The pitch-script generator (src/ideation/script): timing, plan,         *)
(* manifest and event profile become one file, script.md, a table with a   *)
(* row per section.  A language model phrases the spoken cells when the    *)
(* caller passes a transport; the command line passes none.  Runs follow   *)
(* one another; the inputs are edited in between.                          *)
(*                                                                         *)
(* A figure is a numeric token, a cue what follows `Visual:' in a row.     *)
(***************************************************************************)
EXTENDS NoValue, Integers, FiniteSets, Sequences, SequencesExt

CONSTANTS
  Timings,   \* timing files that parse: [total, secs], a section being [kind, minutes, live]
  Figures, Profiles,
  MaxLines, MaxScriptRuns, MaxScriptFaults

(* Lengths are counted in the smallest unit the file can state.            *)
ASSUME ScriptAssumption ==
  /\ \A t \in Timings : t.secs \in Seq([kind : STRING, minutes : Nat, live : BOOLEAN])
  /\ MaxScriptRuns \in Nat /\ MaxScriptFaults \in Nat

VARIABLES sIn, sPc, sNew, sFile, sStatus, sRuns, sFaults

scriptVars == <<sIn, sPc, sNew, sFile, sStatus, sRuns, sFaults>>

NoInput == [cmd |-> None]

ScriptPlans == [silent : {FALSE}, figures : SUBSET Figures, whyAi : SUBSET Figures]
         \union {[silent |-> TRUE, figures |-> {}, whyAi |-> {}]}
ScriptManifests == {"ui", "headless"}  \* headless: no UI component, or no manifest that can be used
SpokenDrafts ==  \* a cell may begin as a TODO and go on with anything
  [figures : SUBSET Figures, cues : {<<>>, <<"screen">>, <<"invented">>}, todo : BOOLEAN]

-----------------------------------------------------------------------------
Minutes(t) == FoldSeq(LAMBDA sec, n : sec.minutes + n, 0, t.secs)
EndOf(t, i) == FoldSeq(LAMBDA sec, n : sec.minutes + n, 0, SubSeq(t.secs, 1, i))

(* validateTiming: the stated total is the sum of the sections. *)
TimingValid(t) == t.secs # <<>> /\ t.total \in {None, Minutes(t)}

ResolveTotal(t, profile) ==
  IF t.total # None THEN t.total ELSE IF profile # None THEN profile ELSE 3

Flagged(t) == {i \in DOMAIN t.secs : t.secs[i].live}

(* Without a live section the earliest one that is not the problem is it.  *)
LiveSections(t) ==
  LET open == {i \in DOMAIN t.secs : t.secs[i].kind # "problem"} IN
  IF Flagged(t) # {} THEN Flagged(t)
  ELSE IF open = {} THEN {Len(t.secs)}
  ELSE {CHOOSE i \in open : \A j \in open : i <= j}

Todo == [figures |-> {}, cues |-> <<>>, todo |-> TRUE]

(* Spoken text quoted from the plan where the draft has no line for it.    *)
FallbackSpoken(sec, plan) ==
  IF sec.kind = "value" /\ ~plan.silent
  THEN [figures |-> plan.figures \union plan.whyAi, cues |-> <<>>, todo |-> FALSE]
  ELSE Todo

(* A value cell with a figure the plan's tam_figure and revenue_model do   *)
(* not have is rewritten as a whole, unless it begins as a TODO.           *)
Audit(sec, spoken, plan) ==
  IF sec.kind # "value" \/ spoken.todo \/ spoken.figures \subseteq plan.figures THEN spoken ELSE Todo

(* The cue the tool derives for a row; a live row carries the label and,   *)
(* when there are screens to show, no cue.                                 *)
VisualCue(live, manifest, screens) ==
  IF manifest # "ui" \/ (~live /\ ~screens) THEN <<"TODO">>
  ELSE IF live THEN <<>> ELSE <<"screen">>

\* Variant (fault injection): guard 3 is dropped, the catalog alone decides.
CueValid_Catalog(cue, manifest, screens) == cue = "TODO" \/ (cue = "screen" /\ screens)

CueValid(cue, manifest, screens) ==
  cue = "TODO" \/ (cue = "screen" /\ screens /\ manifest = "ui")

(* enforceVisuals looks at the first cue of a row, which may stand in the  *)
(* spoken cell; what it rejects is cut from there to the end of the row,   *)
(* the label of a live row included.                                       *)
EnforceVisuals(r, manifest, screens) ==
  IF r.cues = <<>> \/ CueValid(Head(r.cues), manifest, screens) THEN r
  ELSE [r EXCEPT !.cues = <<"TODO">>, !.label = FALSE]

ScriptRow(in, i, live, spoken) ==
  EnforceVisuals(
    [from |-> EndOf(in.timing, i - 1), to |-> EndOf(in.timing, i), kind |-> in.timing.secs[i].kind,
     live |-> live, label |-> live, figures |-> spoken.figures, todo |-> spoken.todo,
     cues |-> spoken.cues \o VisualCue(live, in.manifest, in.screens)],
    in.manifest, in.screens)

Compose(in, rows, degraded) ==
  [rows |-> rows, total |-> ResolveTotal(in.timing, in.profile), plan |-> in.plan,
   manifest |-> in.manifest, degraded |-> degraded]

Script(in, draft) ==
  Compose(in, [i \in DOMAIN in.timing.secs |->
    LET sec == in.timing.secs[i]
        raw == IF i \in DOMAIN draft THEN draft[i] ELSE FallbackSpoken(sec, in.plan)
    IN ScriptRow(in, i, i \in LiveSections(in.timing), Audit(sec, raw, in.plan))], FALSE)

(* The windows are computed again, so an assigned live section is lost.    *)
BlankTemplate(in) ==
  Compose(in, [i \in DOMAIN in.timing.secs |-> ScriptRow(in, i, i \in Flagged(in.timing), Todo)], TRUE)

-----------------------------------------------------------------------------
NoFile == [stamp |-> 0, body |-> None]

(* An unchanged script keeps the time it was generated at. *)
ReconcileGeneratedAt(body, now) ==
  IF sFile.body = body THEN sFile ELSE [stamp |-> now, body |-> body]

ScriptInit ==
  /\ sIn = NoInput /\ sPc = "idle" /\ sNew = None
  /\ sFile = NoFile /\ sStatus = "idle"
  /\ sRuns = 0 /\ sFaults = 0

ScriptEnd(status) == sPc' = "idle" /\ sStatus' = status /\ sNew' = None /\ sIn' = NoInput

(* Timing is a hard gate: a file that is missing, does not parse or does   *)
(* not add up ends the run, as does a screen catalog that cannot be read.  *)
ScriptStart ==
  /\ sPc = "idle" /\ sRuns < MaxScriptRuns
  /\ sRuns' = sRuns + 1
  /\ \E cmd \in {"generate", "validate"}, plan \in ScriptPlans, manifest \in ScriptManifests,
        timing \in Timings \union {None}, profile \in Profiles \union {None}, screens \in {TRUE, FALSE, None} :
       LET in == [cmd |-> cmd, plan |-> plan, manifest |-> manifest, timing |-> timing,
                  profile |-> profile, screens |-> screens] IN
       IF timing = None \/ (timing # None /\ ~TimingValid(timing)) \/ (cmd = "generate" /\ screens = None)
       THEN ScriptEnd("refused")
       ELSE IF cmd = "validate" THEN ScriptEnd("checked")
       ELSE sIn' = in /\ sPc' = "ask" /\ sStatus' = "running" /\ sNew' = None
  /\ UNCHANGED <<sFile, sFaults>>

(* The whole script is one guarded call; without a transport, and when it  *)
(* fails, the blank template is written.                                   *)
ScriptAsk ==
  /\ sPc = "ask" /\ sPc' = "write"
  /\ \/ \E lines \in SUBSET DOMAIN sIn.timing.secs :
          /\ Cardinality(lines) <= MaxLines
          /\ \E draft \in [lines -> SpokenDrafts] : sNew' = Script(sIn, draft)
     \/ sNew' = BlankTemplate(sIn)
  /\ UNCHANGED <<sIn, sFile, sStatus, sRuns, sFaults>>

(* Skipped when the bytes are the same, otherwise a temporary file and a   *)
(* rename.                                                                 *)
ScriptWrite ==
  /\ sPc = "write" /\ sPc' = "exit"
  /\ sFile' = ReconcileGeneratedAt(sNew, sRuns)
  /\ UNCHANGED <<sIn, sNew, sStatus, sRuns, sFaults>>

ScriptExit == sPc = "exit" /\ ScriptEnd("ok") /\ UNCHANGED <<sFile, sRuns, sFaults>>

\* Variant (fault injection): the blank template that cannot be written either is let pass.
ScriptWriteFails_Swallowed ==
  /\ sPc = "write" /\ sFile.body # sNew /\ sFaults < MaxScriptFaults
  /\ sFaults' = sFaults + 1
  /\ IF sNew.degraded THEN sPc' = "exit" /\ UNCHANGED <<sIn, sNew, sStatus>>
     ELSE sNew' = BlankTemplate(sIn) /\ UNCHANGED <<sIn, sPc, sStatus>>
  /\ UNCHANGED <<sFile, sRuns>>

(* A script that cannot be written is taken for a failed generation: the   *)
(* blank template is tried in its place, and only then the run gives up.   *)
ScriptWriteFails ==
  /\ sPc = "write" /\ sFile.body # sNew /\ sFaults < MaxScriptFaults
  /\ sFaults' = sFaults + 1
  /\ IF sNew.degraded THEN ScriptEnd("broken")
     ELSE sNew' = BlankTemplate(sIn) /\ UNCHANGED <<sIn, sPc, sStatus>>
  /\ UNCHANGED <<sFile, sRuns>>

ScriptDies ==
  /\ sPc # "idle" /\ sFaults < MaxScriptFaults
  /\ sFaults' = sFaults + 1 /\ ScriptEnd("broken")
  /\ UNCHANGED <<sFile, sRuns>>

ScriptNext == ScriptStart \/ ScriptAsk \/ ScriptWrite \/ ScriptExit \/ ScriptWriteFails \/ ScriptDies

ScriptSpec == ScriptInit /\ [][ScriptNext]_scriptVars

-----------------------------------------------------------------------------
ScriptTypeOK ==
  /\ sPc \in {"idle", "ask", "write", "exit"}
  /\ sStatus \in {"idle", "running", "ok", "refused", "checked", "broken"}
  /\ sFile = NoFile \/ (sFile.stamp \in 1..sRuns /\ sFile.body # None)
  /\ sRuns \in 0..MaxScriptRuns /\ sFaults \in 0..MaxScriptFaults

(* SCRIPT-02, SCRIPT-03 and SCRIPT-04 over the file on disk, as far as     *)
(* they go, whatever the model phrased: a value row that does not begin as *)
(* a TODO states no figure the plan lacks, the first cue of a row names a  *)
(* screen only if the manifest the script was made from has the UI, a      *)
(* script that is not degraded has a live row, and a live row without its  *)
(* label has no other cue than a TODO.                                     *)
ScriptHonest ==
  sFile # NoFile =>
    LET s == sFile.body IN
    /\ \A i \in DOMAIN s.rows :
         LET r == s.rows[i] IN
         /\ r.kind = "value" /\ ~r.todo => r.figures \subseteq s.plan.figures
         /\ r.cues # <<>> => Head(r.cues) \in (IF s.manifest = "ui" THEN {"TODO", "screen"} ELSE {"TODO"})
         /\ r.live /\ ~r.label => r.cues = <<"TODO">>
    /\ ~s.degraded => \E i \in DOMAIN s.rows : s.rows[i].live
===============================================================================
