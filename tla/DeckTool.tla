------------------------------- MODULE DeckTool -------------------------------
(***************************************************************************)
(* The pitch-deck generator (src/ideation/deckgen): plan, manifest and     *)
(* disclosure become slot files, the diagram and charts they refer to, and *)
(* deck.md, their concatenation.  Every file is replaced atomically, one   *)
(* after the other; nothing but the process reads them, so a run is one    *)
(* step unless a write is refused or the process dies part of the way.     *)
(*                                                                         *)
(* Slot `pitch' stands for 01, 02 and 03, which are made alike.            *)
(***************************************************************************)
EXTENDS NoValue, Integers, Sequences

CONSTANTS
  DeckPlans,      \* [mode, bv, tam, revenue], see PlanShape
  DeckManifests,  \* the sets of components a valid manifest may include
  Deps,           \* component catalog: what each known component depends on
  MaxDeckRuns, MaxDeckFaults

VARIABLES
  dIn,      \* the inputs of the last run that populated
  dQueue,   \* the writes left to do
  dMend,    \* "none", an optional write was "passed over", or the "skeleton" was resorted to
  dDir,     \* the output directory
  dStatus, dRuns, dFaults

deckVars == <<dIn, dQueue, dMend, dDir, dStatus, dRuns, dFaults>>

Slots == <<"pitch", "demo", "architecture", "value", "ask", "disclosure">>
SlotNames == {Slots[i] : i \in DOMAIN Slots}
Derived == {"diagram.mmd", "chart-tam.svg", "chart-revenue.svg"}
Files == SlotNames \union Derived \union {"deck.md", "appendix", "copy"}

(* mode: the plan cannot be read, has no frozen heading, or has some.  bv: *)
(* its Business Value heading has level 2 (the frozen one), another, or is *)
(* missing.  A tam_figure may state an amount or only words.               *)
PlanShape(p) ==
  /\ p.mode \in {"missing", "empty", "some"}
  /\ p.bv \in {None, "frozen", "deep"}
  /\ p.tam \in {None, "words", "amount"} /\ p.revenue \in {None, "model"}

(* What the phraser makes of every slot it is asked for: not asked         *)
(* (--no-llm), failed (always, without a transport), or the figures of the *)
(* bullets it returns.                                                     *)
Phrasings == {"off", "failed", "faithful", "inventing"}

-----------------------------------------------------------------------------
(* generateDiagram: nodes, dependencies between them, the envelope edge.   *)
DiagramOf(included) ==
  [nodes |-> included,
   edges |-> {e \in included \X included : e[1] \in Deps[e[2]] /\ e[1] # e[2]},
   envelope |-> "platform" \in included /\ included \intersect {"resilience", "context", "platform/ui"} # {}]

ASSUME DeckAssumption ==
  /\ \A p \in DeckPlans : PlanShape(p)
  /\ \A m \in DeckManifests : m # None /\ (m \subseteq DOMAIN Deps => DiagramOf(m) # None)
  /\ None # "amount"
  /\ MaxDeckRuns \in Nat /\ MaxDeckFaults \in Nat

ShowsUi(manifest) == manifest # None /\ manifest \intersect {"platform", "platform/ui"} # {}

(* A chart needs its figure, and the market size an amount in it.          *)
Charts(plan) ==
  (IF plan.tam = "amount" THEN {"chart-tam.svg"} ELSE {})
    \union (IF plan.revenue # None THEN {"chart-revenue.svg"} ELSE {})

PlanFigures(plan) == {plan.tam, plan.revenue} \ {None}

Text(t) == [text |-> t, figures |-> {}, refs |-> {}]
Skeleton == [slot \in SlotNames |-> Text("skeleton")]

(* The excerpt bullets are held against is the body of the frozen heading; *)
(* the figures quoted otherwise are found under a heading of any level.  A *)
(* figure is in the excerpt here if it is one of its figures; the code     *)
(* looks for its digits anywhere in the text.                              *)
ValueSlot(in) ==
  LET quoted == PlanFigures(in.plan)
      stated == IF in.phrased = "inventing" THEN quoted \union {"invented"} ELSE quoted
      excerpt == IF in.plan.bv = "frozen" THEN quoted ELSE {}
  IN IF in.phrased = "failed" /\ in.plan.bv # "frozen" THEN Text("todo")
     ELSE IF in.phrased \in {"faithful", "inventing"} /\ stated \subseteq excerpt
     THEN [text |-> "phrased", figures |-> stated, refs |-> Charts(in.plan)]
     ELSE [text |-> "quoted", figures |-> quoted, refs |-> Charts(in.plan)]

PitchSlot(in) ==
  Text(CASE in.phrased = "off" -> "quoted" [] in.phrased = "failed" -> "todo and excerpt" [] OTHER -> "phrased")

DisclosureSlot(in) == IF in.disclosure = None THEN Skeleton["disclosure"] ELSE Text(in.disclosure)

Interior(in, slot) ==
  CASE slot = "pitch" -> PitchSlot(in)
    [] slot = "demo" -> Text(IF ShowsUi(in.manifest) THEN "screens" ELSE "todo")
    [] slot = "architecture" -> [Text("plan") EXCEPT !.refs = IF in.manifest # None THEN {"diagram.mmd"} ELSE {}]
    [] slot = "value" -> ValueSlot(in)
    [] slot = "ask" -> Text("plan")
    [] slot = "disclosure" -> DisclosureSlot(in)

-----------------------------------------------------------------------------
Write(f, content) == <<[file |-> f, content |-> content, optional |-> FALSE]>>
Copy(f, content) == <<[file |-> f, content |-> content, optional |-> TRUE]>>
Drop(f) == <<[file |-> f, content |-> None, optional |-> TRUE]>>
When(c, q) == IF c THEN q ELSE <<>>

SlotWrites(deck) == [i \in DOMAIN Slots |-> Write(Slots[i], deck[Slots[i]])[1]]
(* deck.md is the concatenation of the slots: the slots it was made of.    *)
DeckFile(deck) == Write("deck.md", deck) \o Copy("appendix", "appendix")
DeckCopy(in, deck) == When(in.single, Write("copy", deck))

\* Variant (fault injection): deck.md is passed over if it cannot be written.
SkeletonQueue_NoDeck(manifest) ==
  SlotWrites(Skeleton) \o Copy("deck.md", Skeleton) \o Copy("appendix", "appendix")

(* populateSkeletonOnly: charts of earlier runs are left.                  *)
SkeletonQueue(manifest) ==
  SlotWrites(Skeleton)
    \o When(manifest # None, Write("diagram.mmd", IF manifest = None THEN None ELSE DiagramOf(manifest)))
    \o DeckFile(Skeleton)

(* What becomes of the diagram and the charts: their content, or None.     *)
Made(in) ==
  [f \in Derived |->
     CASE f = "diagram.mmd" -> IF in.manifest = None THEN None ELSE DiagramOf(in.manifest)
       [] f = "chart-tam.svg" -> IF f \in Charts(in.plan) THEN in.plan.tam ELSE None
       [] f = "chart-revenue.svg" -> IF f \in Charts(in.plan) THEN in.plan.revenue ELSE None]

Emitted(made) ==
  LET emit(f) == When(made[f] # None, Write(f, made[f]))
  IN emit("diagram.mmd") \o emit("chart-tam.svg") \o emit("chart-revenue.svg")

\* Variant (fault injection): artifacts whose source is gone are not removed.
Stale_Kept(made) == <<>>

Stale(made) ==
  LET drop(f) == When(made[f] = None, Drop(f))
  IN drop("diagram.mmd") \o drop("chart-tam.svg") \o drop("chart-revenue.svg")

(* Slots, diagram and charts, the removal of stale ones, then deck.md.     *)
PopulateQueue(in) ==
  LET deck == [slot \in SlotNames |-> Interior(in, slot)]
  IN SlotWrites(deck) \o Emitted(Made(in)) \o Stale(Made(in))
       \o DeckFile(deck)

SkeletonMode(in) == in.plan.mode \in {"missing", "empty"}

Queue(in) ==
  LET q == IF SkeletonMode(in) THEN SkeletonQueue(in.manifest) ELSE PopulateQueue(in)
      deck == q[CHOOSE i \in DOMAIN q : q[i].file = "deck.md"].content
  IN q \o DeckCopy(in, deck)

Apply(dir, q) ==
  [f \in Files |-> IF \E i \in DOMAIN q : q[i].file = f
                   THEN q[CHOOSE i \in DOMAIN q : q[i].file = f].content ELSE dir[f]]

-----------------------------------------------------------------------------
NoInputs == [plan |-> None]

DeckInit ==
  /\ dIn = NoInputs /\ dQueue = <<>> /\ dMend = "none"
  /\ dDir = [f \in Files |-> None]
  /\ dStatus = "idle" /\ dRuns = 0 /\ dFaults = 0

DeckEnd(status) ==
  /\ dQueue' = <<>> /\ dMend' = "none" /\ dStatus' = status
  /\ dIn' = IF status = "ok" THEN dIn ELSE NoInputs

(* A manifest that does not validate, or that names a component the        *)
(* catalog does not have, ends the run, whatever the command.              *)
DeckStart ==
  /\ dStatus # "running" /\ dRuns < MaxDeckRuns
  /\ dRuns' = dRuns + 1
  /\ \/ DeckEnd("refused")
     \/ DeckEnd("checked")  \* validate, --validate
     \/ \E plan \in DeckPlans, manifest \in DeckManifests \union {None}, phrased \in Phrasings,
           disclosure \in {None, "disclosed"}, single, screens \in BOOLEAN :
          /\ manifest # None => manifest \subseteq DOMAIN Deps
          /\ LET in == [plan |-> plan, manifest |-> manifest, phrased |-> phrased,
                        disclosure |-> disclosure, single |-> single]
             IN /\ dIn' = in /\ dStatus' = "running"
                \* Without a screen catalog the slots cannot be made: the skeleton is.
                /\ IF ShowsUi(manifest) /\ ~screens /\ ~SkeletonMode(in)
                   THEN dQueue' = SkeletonQueue(None) /\ dMend' = "skeleton"
                   ELSE dQueue' = Queue(in) /\ dMend' = "none"
  /\ UNCHANGED <<dDir, dFaults>>

(* deckgen diagram --out <dir>/diagram.mmd *)
DeckDiagram ==
  /\ dStatus # "running" /\ dRuns < MaxDeckRuns
  /\ dRuns' = dRuns + 1
  /\ \E manifest \in DeckManifests :
       manifest \subseteq DOMAIN Deps /\ dDir' = [dDir EXCEPT !["diagram.mmd"] = DiagramOf(manifest)]
  /\ DeckEnd("checked")
  /\ UNCHANGED dFaults

DeckWrite ==
  /\ dStatus = "running"
  /\ dDir' = Apply(dDir, dQueue)
  /\ DeckEnd(IF dMend = "none" THEN "ok" ELSE "mended")
  /\ UNCHANGED <<dRuns, dFaults>>

(* A refused write: of a copy or removal that is optional, it is passed    *)
(* over; otherwise the skeleton is tried over whatever has been written,   *)
(* once, without manifest and disclosure.  The exit code is 0 all the      *)
(* same, also of a run that could not write the skeleton either: success   *)
(* is then only claimed.  The bound does not count what is refused to the  *)
(* skeleton.                                                               *)
DeckWriteFails ==
  /\ dStatus = "running" /\ (dFaults < MaxDeckFaults \/ dMend = "skeleton")
  /\ dFaults' = IF dMend = "skeleton" THEN dFaults ELSE dFaults + 1
  /\ \E i \in DOMAIN dQueue :
       /\ dDir' = Apply(dDir, SubSeq(dQueue, 1, i - 1))
       /\ IF dQueue[i].optional
          THEN /\ dQueue' = SubSeq(dQueue, i + 1, Len(dQueue))
               /\ dMend' = IF dMend = "none" THEN "passed over" ELSE dMend
               /\ UNCHANGED <<dIn, dStatus>>
          ELSE IF dMend # "skeleton"
          THEN dQueue' = SkeletonQueue(None) /\ dMend' = "skeleton" /\ UNCHANGED <<dIn, dStatus>>
          ELSE DeckEnd("claimed")
  /\ UNCHANGED dRuns

DeckDies ==
  /\ dStatus = "running" /\ dFaults < MaxDeckFaults
  /\ dFaults' = dFaults + 1
  /\ \E i \in DOMAIN dQueue : dDir' = Apply(dDir, SubSeq(dQueue, 1, i))
  /\ DeckEnd("broken")
  /\ UNCHANGED dRuns

DeckNext == DeckStart \/ DeckDiagram \/ DeckWrite \/ DeckWriteFails \/ DeckDies

DeckSpec == DeckInit /\ [][DeckNext]_deckVars

-----------------------------------------------------------------------------
DeckTypeOK ==
  /\ DOMAIN dDir = Files
  /\ dStatus \in {"idle", "running", "ok", "refused", "checked", "mended", "claimed", "broken"}
  /\ dMend \in {"none", "passed over", "skeleton"}
  /\ dRuns \in 0..MaxDeckRuns /\ dFaults \in 0..MaxDeckFaults

(* A deck that is presented holds together: after a run that ends with     *)
(* exit code 0 and was not refused the skeleton too, deck.md is the slots  *)
(* that lie beside it, and every diagram or chart a slot refers to is      *)
(* there, also when an earlier run was cut short or this one fell back to  *)
(* the skeleton half way.  Nothing is said of a success that is claimed.   *)
DeckWhole ==
  dStatus \in {"ok", "mended"} =>
    /\ dDir["deck.md"] = [s \in SlotNames |-> dDir[s]]
    /\ \A i \in DOMAIN Slots :
         \A a \in dDir[Slots[i]].refs : dDir[a] # None

(* Nothing of an earlier run is presented: after a run without faults the  *)
(* diagram and the charts are those this plan and manifest make, the ones  *)
(* they do not make are gone, and slot 06 has no figure the plan lacks,    *)
(* one that is part of another counting as lacking here but not there.     *)
DeckCurrent ==
  dStatus = "ok" /\ ~SkeletonMode(dIn) =>
    /\ dDir["diagram.mmd"] = IF dIn.manifest = None THEN None ELSE DiagramOf(dIn.manifest)
    /\ dDir["chart-tam.svg"] = IF dIn.plan.tam = "amount" THEN "amount" ELSE None
    /\ dDir["chart-revenue.svg"] = dIn.plan.revenue
    /\ dDir["value"].figures \subseteq PlanFigures(dIn.plan)
===============================================================================
