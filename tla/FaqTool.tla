------------------------------- MODULE FaqTool -------------------------------
(***************************************************************************)
(* The judge Q&A tool (src/ideation/faqdef): `generate' has a language     *)
(* model draft questions and answers, replaces answers the inputs do not   *)
(* support, sees to it that every judging axis is covered, and writes the  *)
(* sheet as JSON and as Markdown, or a static checklist when there is no   *)
(* usable draft.  Its other command, `rehearse', is module Rehearsal.      *)
(***************************************************************************)
EXTENDS NoValue, Integers, Sequences, FiniteSets

CONSTANTS
  AxisOrder,     \* the judging axes
  FaqDrafts,        \* questions a model may draft, see DraftShape
  MinQuestions, MaxQuestions,  \* 5 and 30
  MaxFaqRuns, MaxFaqFaults

VARIABLES
  fPc, fDisclosure, fSheet,
  fAxis,      \* the axis being seen to
  fCovered,   \* history: axes with their two questions before that
  fJson, fMd, fFallback, fStatus, fRuns, fFaults

faqVars == <<fPc, fDisclosure, fSheet, fAxis, fCovered, fJson, fMd, fFallback, fStatus, fRuns, fFaults>>

Axes == {AxisOrder[i] : i \in DOMAIN AxisOrder}

(* basis: where the figures of the answer stand, "nowhere" included. *)
DraftShape(d) ==
  d \in [axes : SUBSET Axes, sponsor : BOOLEAN,
         basis : {"plain", "plan", "disclosure", "nowhere"}, gap : {FALSE}]

ASSUME FaqAssumption ==
  /\ AxisOrder \in Seq(Axes) /\ "presentation" \in Axes
  /\ \A d \in FaqDrafts : DraftShape(d)
  /\ MinQuestions \in Nat /\ MaxQuestions \in Nat
  /\ MaxFaqRuns \in Nat /\ MaxFaqFaults \in Nat

-----------------------------------------------------------------------------
Placeholder == [axes |-> {"presentation"}, sponsor |-> FALSE, basis |-> "plain", gap |-> TRUE]

Padded(s) == s \o [i \in 1..(MinQuestions - Len(s)) |-> Placeholder]

Supported(e, disclosure) == e.basis \in {"plain", "plan"} \/ (e.basis = "disclosure" /\ disclosure)

(* validateGrounding: an answer with an unsupported figure becomes a gap.  *)
Grounded(s, disclosure) ==
  [i \in DOMAIN s |-> IF Supported(s[i], disclosure) THEN s[i]
                      ELSE [s[i] EXCEPT !.basis = "plain", !.gap = TRUE]]

AxisCount(s, axis) == Cardinality({i \in DOMAIN s : axis \in s[i].axes})
Covered(s) == {a \in Axes : AxisCount(s, a) >= 2}

\* Variant (fault injection): an axis with just its two questions gives one away.
Spare_Floor(s, i) == IF s[i].sponsor THEN {a \in s[i].axes : AxisCount(s, a) >= 2} ELSE {}

(* The axes a question of a sponsor track can be taken from.               *)
Spare(s, i) == IF s[i].sponsor THEN {a \in s[i].axes : AxisCount(s, a) > 2} ELSE {}

Donors(s) == {i \in DOMAIN s : Spare(s, i) # {}}

Retagged(s, axis, from) ==
  LET i == CHOOSE i \in Donors(s) : \A j \in Donors(s) : i <= j
  IN [s EXCEPT ![i].axes = (@ \ {from}) \union {axis}]

-----------------------------------------------------------------------------
FaqInit ==
  /\ fPc = "idle" /\ fDisclosure = FALSE /\ fSheet = <<>> /\ fAxis = 1 /\ fCovered = {}
  /\ fJson = None /\ fMd = None /\ fFallback = None
  /\ fStatus = "idle" /\ fRuns = 0 /\ fFaults = 0

FaqEnd(status) ==
  fPc' = "idle" /\ fStatus' = status /\ fSheet' = <<>> /\ fAxis' = 1 /\ fCovered' = {}

(* generate needs a plan and a manifest that exist; a disclosure may.      *)
FaqStart ==
  /\ fPc = "idle" /\ fRuns < MaxFaqRuns
  /\ fRuns' = fRuns + 1
  /\ fDisclosure' \in BOOLEAN
  /\ \/ FaqEnd("refused")
     \/ fPc' = "ask" /\ fStatus' = "running" /\ UNCHANGED <<fSheet, fAxis, fCovered>>
  /\ UNCHANGED <<fJson, fMd, fFallback, fFaults>>

(* No usable draft: degraded, not JSON, no questions.                      *)
FaqFallsBack ==
  /\ fPc = "ask" /\ fPc' = "fallback"
  /\ UNCHANGED <<fDisclosure, fSheet, fAxis, fCovered, fJson, fMd, fFallback, fStatus, fRuns, fFaults>>

FaqDrafted ==
  /\ fPc = "ask" /\ fPc' = "balance"
  /\ \E n \in 0..MaxQuestions : \E s \in [1..n -> FaqDrafts] :
       LET t == Grounded(Padded(s), fDisclosure) IN fSheet' = t /\ fCovered' = Covered(t)
  /\ UNCHANGED <<fDisclosure, fAxis, fJson, fMd, fFallback, fStatus, fRuns, fFaults>>

(* A question without the expected fields throws, a sheet that does not    *)
(* validate is rejected: nothing has been written yet.                     *)
FaqRejected ==
  /\ fPc \in {"ask", "balance"}
  /\ FaqEnd("broken")
  /\ UNCHANGED <<fDisclosure, fJson, fMd, fFallback, fRuns, fFaults>>

(* enforceAxisCoverage: axis after axis, as long as it lacks questions and *)
(* the first donor has an axis to spare.  The donor may be one that has    *)
(* the wanted axis already; it then loses the other for nothing.           *)
FaqBalance ==
  /\ fPc = "balance"
  /\ IF AxisCount(fSheet, AxisOrder[fAxis]) < 2 /\ Donors(fSheet) # {}
     THEN /\ \E i \in Donors(fSheet) :
               /\ \A j \in Donors(fSheet) : i <= j
               /\ \E from \in Spare(fSheet, i) : fSheet' = Retagged(fSheet, AxisOrder[fAxis], from)
          /\ UNCHANGED <<fPc, fAxis>>
     ELSE /\ UNCHANGED fSheet
          /\ IF fAxis < Len(AxisOrder) THEN fAxis' = fAxis + 1 /\ UNCHANGED fPc
             ELSE fPc' = "json" /\ UNCHANGED fAxis
  /\ UNCHANGED <<fDisclosure, fCovered, fJson, fMd, fFallback, fStatus, fRuns, fFaults>>

FaqWriteFallback ==
  /\ fPc = "fallback" /\ fFallback' = "checklist"
  /\ FaqEnd("ok")
  /\ UNCHANGED <<fDisclosure, fJson, fMd, fRuns, fFaults>>

FaqWriteJson ==
  /\ fPc = "json" /\ fJson' = fSheet /\ fPc' = "md"
  /\ UNCHANGED <<fDisclosure, fSheet, fAxis, fCovered, fMd, fFallback, fStatus, fRuns, fFaults>>

FaqWriteMd ==
  /\ fPc = "md" /\ fMd' = fSheet
  /\ FaqEnd("ok")
  /\ UNCHANGED <<fDisclosure, fJson, fFallback, fRuns, fFaults>>

(* A write is refused or the process dies: the two sheets may differ.      *)
FaqBreaksOff ==
  /\ fPc # "idle" /\ fFaults < MaxFaqFaults
  /\ fFaults' = fFaults + 1
  /\ FaqEnd("broken")
  /\ UNCHANGED <<fDisclosure, fJson, fMd, fFallback, fRuns>>

FaqNext ==
  \/ FaqStart \/ FaqFallsBack \/ FaqDrafted \/ FaqRejected \/ FaqBalance
  \/ FaqWriteFallback \/ FaqWriteJson \/ FaqWriteMd \/ FaqBreaksOff

FaqSpec == FaqInit /\ [][FaqNext]_faqVars

-----------------------------------------------------------------------------
FaqTypeOK ==
  /\ fPc \in {"idle", "ask", "fallback", "balance", "json", "md"}
  /\ fStatus \in {"idle", "running", "ok", "refused", "broken"}
  /\ fAxis \in DOMAIN AxisOrder /\ fCovered \subseteq Axes /\ fFallback \in {None, "checklist"}
  /\ fRuns \in 0..MaxFaqRuns /\ fFaults \in 0..MaxFaqFaults

(* FAQDEF-01: covering an axis uncovers no other, whatever the draft; the  *)
(* sheet has its minimum of questions, and on disk JSON and Markdown are   *)
(* one sheet unless a run broke off between them.                          *)
SheetSound ==
  /\ fPc # "idle" => fCovered \subseteq Covered(fSheet)
  /\ fJson # None => Len(fJson) >= MinQuestions /\ \A i \in DOMAIN fJson : fJson[i].basis # "nowhere"
  /\ fFaults = 0 /\ fPc = "idle" => fMd = fJson
===============================================================================
