------------------------------- MODULE MCTools -------------------------------
(***************************************************************************)
(* The tools of src/ideation and src/provenance that write artifacts, side *)
(* by side: the first state chooses the one that is run, so the state      *)
(* spaces add up.  All of them are held against one contract, ToolRun.     *)
(***************************************************************************)
EXTENDS ScriptTool, DeckTool, FaqTool, ProvenanceTool

VARIABLE tool  \* the tool that is run

vars == <<tool, scriptVars, deckVars, faqVars, provVars>>

Init ==
  /\ tool \in {"script", "deck", "faq", "provenance"}
  /\ ScriptInit /\ DeckInit /\ FaqInit /\ ProvInit

Next ==
  /\ UNCHANGED tool
  /\ \/ tool = "script" /\ ScriptNext /\ UNCHANGED <<deckVars, faqVars, provVars>>
     \/ tool = "deck" /\ DeckNext /\ UNCHANGED <<scriptVars, faqVars, provVars>>
     \/ tool = "faq" /\ FaqNext /\ UNCHANGED <<scriptVars, deckVars, provVars>>
     \/ tool = "provenance" /\ ProvNext /\ UNCHANGED <<scriptVars, deckVars, faqVars>>

Spec == Init /\ [][Next]_vars

-----------------------------------------------------------------------------
\* The instance that is checked: a script whose timing adds up with a live
\* section, one without, one that does not add up.
Sec(k, m, l) == [kind |-> k, minutes |-> m, live |-> l]
MCTimings ==
  {[total |-> 3, secs |-> <<Sec("problem", 1, FALSE), Sec("value", 2, TRUE)>>],
   [total |-> None, secs |-> <<Sec("problem", 1, FALSE), Sec("value", 1, FALSE)>>],
   [total |-> 3, secs |-> <<Sec("other", 2, TRUE)>>]}

\* Plans that lack the frozen Business Value heading, an amount, or everything.
PlanOf(m, b, t, r) == [mode |-> m, bv |-> b, tam |-> t, revenue |-> r]
MCDeckPlans ==
  {PlanOf("missing", None, None, None), PlanOf("some", "frozen", "amount", "model"),
   PlanOf("some", "deep", "amount", None)}
MCDeckManifests == {{"platform", "resilience"}, {"resilience"}, {"unlisted"}}
MCDeps == [c \in {"platform", "resilience"} |-> IF c = "platform" THEN {"resilience"} ELSE {}]

\* A draft that covers one axis with a sponsor's questions, one that covers
\* both, one without support.
Draft(a, s, b) == [axes |-> a, sponsor |-> s, basis |-> b, gap |-> FALSE]
MCAxes == <<"presentation", "value">>
MCFaqDrafts ==
  {Draft({"value"}, TRUE, "plain"), Draft({"presentation"}, FALSE, "nowhere"),
   Draft({"presentation", "value"}, FALSE, "disclosure")}

\* A component of a group, excluded ones, one the catalog does not have.
Comp(i, p, inc, prov) == [id |-> i, parent |-> p, included |-> inc, providers |-> prov]
MCProvManifests ==
  {<<Comp("media/stt", "media", TRUE, {"openai"}), Comp("cost", "cost", FALSE, {})>>,
   <<Comp("cost", "cost", TRUE, {})>>, <<Comp("new", "new", TRUE, {})>>}

\* Repositories at the threshold of the distribution, above it, without a
\* log, without git, with files that are not looked at and an unreadable date;
\* one with a secret among its tracked files, one with a credential file.
File(s, c, n) == [seen |-> s, content |-> c, credentialName |-> n, gitPath |-> FALSE]
UnderGit(f) == [f EXCEPT !.gitPath = TRUE]
Repo(fs, l, g, c) == [files |-> fs, lists |-> l, logs |-> g, commits |-> c]
MCRepos ==
  {Repo({File("tracked", "plain", FALSE), File("untracked", "secret", FALSE),
         UnderGit(File("tracked", "secret", FALSE))}, TRUE, TRUE, <<1, 1, 2, 1, 1>>),
   Repo({File("tracked", "plain", FALSE), File("tracked", "secret", FALSE)}, TRUE, TRUE, <<1, 2>>),
   Repo({File("tracked", "plain", FALSE), File("tracked", "binary", TRUE)}, TRUE, TRUE, <<1, 2>>),
   Repo({File("tracked", "plain", FALSE)}, TRUE, FALSE, <<>>),
   Repo({File("tracked", "unreadable", TRUE), File("ignored", "secret", FALSE)}, TRUE, TRUE, <<1, None, 1, 1, 2, 1, 1>>),
   Repo({}, FALSE, FALSE, <<>>)}

-----------------------------------------------------------------------------
\* The type invariants of the four tools.
TypeOK == ScriptTypeOK /\ DeckTypeOK /\ FaqTypeOK /\ ProvTypeOK

\* What the run of a tool is making: the script; deck.md, once it is queued;
\* the question sheet or the static checklist; disclosure and submission.
DeckWanted ==
  IF \E i \in DOMAIN dQueue : dQueue[i].file = "deck.md"
  THEN dQueue[CHOOSE i \in DOMAIN dQueue : dQueue[i].file = "deck.md"].content
  ELSE dDir["deck.md"]
SheetWanted == IF fPc = "fallback" THEN <<fJson, "checklist">> ELSE <<fSheet, fFallback>>
ProvWanted(f) == IF pStatus = "running" /\ pQueue[1].file = f THEN pQueue[1].content ELSE pDir[f]

ToolStatus ==
  CASE tool = "script" -> sStatus [] tool = "deck" -> dStatus
    [] tool = "faq" -> fStatus [] tool = "provenance" -> pStatus
ToolWant ==
  CASE tool = "script" -> <<sNew>>
    [] tool = "deck" -> <<IF dStatus = "running" THEN DeckWanted ELSE None>>
    [] tool = "faq" -> SheetWanted
    [] tool = "provenance" -> <<ProvWanted("disclosure.md"), ProvWanted("submission.md")>>
ToolOutput ==
  CASE tool = "script" -> <<sFile.body>>
    [] tool = "deck" -> <<dDir["deck.md"]>>
    [] tool = "faq" -> <<fJson, fFallback>>
    [] tool = "provenance" -> <<pDir["disclosure.md"], pDir["submission.md"]>>

\* Only the deck generator ends with success although its skeleton was refused.
ToolLastResort == tool = "deck" /\ dMend = "skeleton"

Contract ==
  INSTANCE ToolRun WITH status <- ToolStatus, want <- ToolWant, output <- ToolOutput,
                        lastResort <- ToolLastResort

\* Every tool implements the contract of a tool run: artifacts are whole and of
\* one run, a refused run leaves what was there, and a run that reports success
\* leaves what it settled on, which is a substitute only if it says so.  A deck
\* whose skeleton was refused as well is the exception the contract names.
KeepsContract == Contract!Spec
===============================================================================
