---------------------------- MODULE ProvenanceTool ----------------------------
(***************************************************************************)
(* Provenance and submission (src/provenance).  `provo' turns the manifest *)
(* into the disclosure and the architecture summary; `submit format' turns *)
(* plan, manifest and that disclosure into the submission copy, with the   *)
(* verdict of a hygiene check of the repository in it; `submit hygiene'    *)
(* writes the verdict as JSON and Markdown.  Every file is replaced        *)
(* atomically, one after the other.  Runs may share a process.             *)
(***************************************************************************)
EXTENDS NoValue, Integers, Sequences, FiniteSets

CONSTANTS
  ProvManifests,  \* valid manifests: sequences of [id, parent, included, providers]
  Catalogued,     \* ids with an entry in the component catalog
  PlanTexts,      \* plans: the sources of fields they have
  Repos,          \* repositories, see RepoShape
  MaxProvRuns, MaxProvFaults

VARIABLES
  pQueue,    \* writes left to do
  pVerdict,  \* lastOverallVerdict, which outlives a run
  pDir, pCmd, pStatus, pRuns, pFaults

provVars == <<pQueue, pVerdict, pDir, pCmd, pStatus, pRuns, pFaults>>

ProvFiles == {"disclosure.md", "architecture-summary.md", "architecture_summary.txt",
              "submission.md", "hygiene-report.json", "hygiene-report.md"}

(* A file of the repository.  seen: tracked or staged, "untracked", or     *)
(* ignored by the configuration.  gitPath: ".git/" is part of its path, as *)
(* it is of a tracked mirror.git/creds.  Its listing and its log may each  *)
(* fail.                                                                   *)
RepoShape(r) ==
  /\ \A f \in r.files : /\ f.seen \in {"tracked", "untracked", "ignored"}
                        /\ f.content \in {"plain", "secret", "binary", "unreadable"}
                        /\ {f.credentialName, f.gitPath} \subseteq BOOLEAN
  /\ {r.lists, r.logs} \subseteq BOOLEAN
  /\ r.commits \in Seq(Nat \union {None})  \* per commit its bucket, if the date can be read

-----------------------------------------------------------------------------
(* Components are told apart by their place in the manifest.               *)
Included(manifest) == {i \in DOMAIN manifest : manifest[i].included}

\* Variant (fault injection): a component the catalog lacks is described by its id.
CatalogEntry_Invented(c) == IF c.id \in Catalogued THEN c.id ELSE IF c.parent \in Catalogued THEN c.parent ELSE c.id

(* The entry of the component, or that of its group. *)
CatalogEntry(c) == IF c.id \in Catalogued THEN c.id ELSE IF c.parent \in Catalogued THEN c.parent ELSE None

Catalogues(manifest) == \A i \in Included(manifest) : CatalogEntry(manifest[i]) # None

Bullets(manifest) ==
  [i \in Included(manifest) |-> [id |-> manifest[i].id, entry |-> CatalogEntry(manifest[i])]]

(* Malformed entries of the AI-tool log are skipped, an empty section is   *)
(* left out.                                                               *)
AiSection(log) == IF log \ {"malformed"} = {} THEN None ELSE log \ {"malformed"}

Disclosure(manifest, log) == [of |-> manifest, bullets |-> Bullets(manifest), ai |-> AiSection(log)]
Summary(manifest) == [of |-> manifest, bullets |-> Bullets(manifest)]

ProvWrite(f, content) == <<[file |-> f, content |-> content]>>

SummaryQueue(manifest) ==
  ProvWrite("architecture-summary.md", Summary(manifest))
    \o ProvWrite("architecture_summary.txt", Summary(manifest))

GenerateQueue(manifest, log) ==
  ProvWrite("disclosure.md", Disclosure(manifest, log)) \o SummaryQueue(manifest)

-----------------------------------------------------------------------------
(* listCandidateFiles, scanSecrets: a path with ".git/" in it is dropped,  *)
(* an ignored file is passed over, and so is, with a warning only, one     *)
(* that cannot be read; of a binary file only the name is looked at.       *)
Candidates(repo, unstaged) ==
  {f \in repo.files : ~f.gitPath /\ (f.seen # "untracked" \/ unstaged)}

\* Variant (fault injection): binary files are skipped before their name is looked at.
Hit_BinaryFirst(f) ==
  f.seen # "ignored" /\ f.content \notin {"unreadable", "binary"} /\ (f.credentialName \/ f.content = "secret")

Hit(f) ==
  f.seen # "ignored" /\ f.content # "unreadable" /\ (f.credentialName \/ f.content = "secret")

SecretScan(repo, unstaged) ==
  IF ~repo.lists THEN "unavailable"
  ELSE IF \E f \in Candidates(repo, unstaged) : Hit(f) THEN "flagged"
  ELSE IF Candidates(repo, unstaged) = {} THEN "unavailable" ELSE "clean"

(* Rounded to four places before it is held against the threshold, 0.8.    *)
Ratio(count, total) == (20000 * count + total) \div (2 * total)

Dated(repo) == {i \in DOMAIN repo.commits : repo.commits[i] # None}
Total(repo) == Cardinality(Dated(repo))
Alongside(repo, i) == Cardinality({j \in Dated(repo) : repo.commits[j] = repo.commits[i]})

(* The largest bucket is above the threshold exactly if some bucket is.    *)
CommitDistribution(repo) ==
  IF ~repo.logs THEN "unavailable"
  ELSE IF Total(repo) > 1 /\ \E i \in Dated(repo) : Ratio(Alongside(repo, i), Total(repo)) > 8000
  THEN "flagged" ELSE "clean"

OverallVerdict(scan, dist) ==
  IF "flagged" \in {scan, dist} THEN "flagged"
  ELSE IF "unavailable" \in {scan, dist} THEN "unavailable" ELSE "clean"

HygieneReport(repo, unstaged) ==
  LET scan == SecretScan(repo, unstaged)
      dist == CommitDistribution(repo)
  IN [of |-> repo, unstaged |-> unstaged, scan |-> scan, dist |-> dist, overall |-> OverallVerdict(scan, dist)]

ASSUME ProvAssumption ==
  /\ \A r \in Repos : RepoShape(r) /\ \A unstaged \in BOOLEAN : HygieneReport(r, unstaged) # None
  /\ None # "flagged"

HygieneQueue(report) ==
  ProvWrite("hygiene-report.json", report) \o ProvWrite("hygiene-report.md", report)

-----------------------------------------------------------------------------
(* extractFields: where a field is looked for, in this order.              *)
FieldSources ==
  [tagline |-> <<"title", "pitch">>,
   target_user |-> <<"persona", "specific_user", "target persona">>,
   why_ai |-> <<"why now", "why_ai">>]

(* Frontmatter that does not validate is not used. *)
Usable(plan, frontmatter) == IF frontmatter THEN plan ELSE plan \ {"title", "persona"}

Providers(manifest) ==
  UNION {manifest[i].providers : i \in Included(manifest)}

FieldOf(name, sources, providers) ==
  IF name = "tech_stack"
  THEN IF providers = {} /\ "tags" \notin sources THEN None ELSE providers \union (sources \intersect {"tags"})
  ELSE LET found == SelectSeq(FieldSources[name], LAMBDA s : s \in sources)
       IN IF found = <<>> THEN None ELSE Head(found)

(* The label of the configuration, of the event profile, or the generic.   *)
FieldLabel(own, profile) == IF own THEN "config" ELSE IF profile THEN "event profile" ELSE "generic"

Submission(sources, providers, label, report) ==
  LET fields == [n \in DOMAIN FieldSources \union {"tech_stack"} |-> FieldOf(n, sources, providers)]
      disclosure == pDir["disclosure.md"]
  IN [fields |-> fields, label |-> label, disclosure |-> disclosure, hygiene |-> report,
      gaps |-> {n \in DOMAIN fields : fields[n] = None}
                 \union (IF disclosure = None THEN {"disclosure"} ELSE {})]

-----------------------------------------------------------------------------
ApplyProv(dir, q) ==
  [f \in ProvFiles |-> IF \E i \in DOMAIN q : q[i].file = f
                       THEN q[CHOOSE i \in DOMAIN q : q[i].file = f].content ELSE dir[f]]

ProvInit ==
  /\ pQueue = <<>> /\ pVerdict = None /\ pDir = [f \in ProvFiles |-> None]
  /\ pCmd = None /\ pStatus = "idle" /\ pRuns = 0 /\ pFaults = 0

StartRun(cmd) ==
  pStatus # "running" /\ pRuns < MaxProvRuns /\ pRuns' = pRuns + 1 /\ pCmd' = cmd

RunWith(q) == pQueue' = q /\ pStatus' = "running"

(* Accuracy over availability: a manifest that cannot be read or does not  *)
(* validate, or a component the catalog does not cover, and nothing is     *)
(* written.                                                                *)
Provo ==
  /\ \E cmd \in {"generate", "summary"}, manifest \in ProvManifests \union {None},
        log \in SUBSET {"tool", "malformed"} :
       /\ StartRun(cmd)
       /\ IF manifest # None /\ Catalogues(manifest)
          THEN RunWith(IF cmd = "generate" THEN GenerateQueue(manifest, log) ELSE SummaryQueue(manifest))
          ELSE pStatus' = "refused" /\ pQueue' = <<>>
  /\ UNCHANGED <<pVerdict, pDir, pFaults>>

(* The verdict is reset before each format, and set if the check is on.    *)
ResetVerdict(report) == IF report = None THEN None ELSE report.overall

(* Nothing that is missing stops the formatter; it leaves gaps.            *)
SubmitFormat ==
  /\ StartRun("format")
  /\ \E plan \in PlanTexts \union {{}}, frontmatter, own, profile, checked \in BOOLEAN,
        manifest \in ProvManifests \union {<<>>}, repo \in Repos :
       LET report == IF checked THEN HygieneReport(repo, FALSE) ELSE None IN
       /\ pVerdict' = ResetVerdict(report)
       /\ RunWith(ProvWrite("submission.md",
                    Submission(Usable(plan, frontmatter), Providers(manifest), FieldLabel(own, profile), report)))
  /\ UNCHANGED <<pDir, pFaults>>

SubmitHygiene ==
  /\ StartRun("hygiene")
  /\ \E repo \in Repos, unstaged \in BOOLEAN : RunWith(HygieneQueue(HygieneReport(repo, unstaged)))
  /\ UNCHANGED <<pVerdict, pDir, pFaults>>

(* `hygiene' exits by its report, `format' by the verdict of the process.  *)
ProvExit(q) ==
  CASE pCmd = "format" -> IF pVerdict = "flagged" THEN "flagged" ELSE "ok"
    [] pCmd = "hygiene" -> IF q[1].content.overall = "flagged" THEN "flagged" ELSE "ok"
    [] OTHER -> "ok"

ProvWrites ==
  /\ pStatus = "running" /\ pDir' = ApplyProv(pDir, pQueue)
  /\ pStatus' = ProvExit(pQueue) /\ pQueue' = <<>>
  /\ UNCHANGED <<pVerdict, pCmd, pRuns, pFaults>>

(* A write is refused or the process dies: what was written stays.         *)
ProvBreaks ==
  /\ pStatus = "running" /\ pFaults < MaxProvFaults /\ pFaults' = pFaults + 1
  /\ \E n \in 0..Len(pQueue) : pDir' = ApplyProv(pDir, SubSeq(pQueue, 1, n))
  /\ pStatus' = "broken" /\ pQueue' = <<>>
  /\ UNCHANGED <<pVerdict, pCmd, pRuns>>

ProvNext == Provo \/ SubmitFormat \/ SubmitHygiene \/ ProvWrites \/ ProvBreaks

ProvSpec == ProvInit /\ [][ProvNext]_provVars

-----------------------------------------------------------------------------
ProvTypeOK ==
  /\ DOMAIN pDir = ProvFiles
  /\ pVerdict \in {None, "flagged", "clean", "unavailable"}
  /\ pCmd \in {None, "generate", "summary", "format", "hygiene"}
  /\ pStatus \in {"idle", "running", "ok", "flagged", "refused", "broken"}
  /\ pRuns \in 0..MaxProvRuns /\ pFaults \in 0..MaxProvFaults

(* PROV-01, PROV-05, SUBMIT-02: a disclosure on disk, and the one a        *)
(* submission embeds, names exactly the components its manifest includes,  *)
(* each described from the catalog; a submission without one says so; and  *)
(* after a run that was not cut short disclosure and both summaries are of *)
(* one manifest, whatever an earlier run had left.                         *)
DisclosureTrue ==
  LET True(d) ==
        /\ {d.bullets[i].id : i \in DOMAIN d.bullets} = {d.of[i].id : i \in {i \in DOMAIN d.of : d.of[i].included}}
        /\ \A i \in DOMAIN d.bullets : d.bullets[i].entry \in Catalogued
      sub == pDir["submission.md"]
  IN /\ pDir["disclosure.md"] # None => True(pDir["disclosure.md"])
     /\ sub # None => IF sub.disclosure = None THEN "disclosure" \in sub.gaps ELSE True(sub.disclosure)
     /\ pCmd = "generate" /\ pStatus = "ok" =>
          \A f \in {"architecture-summary.md", "architecture_summary.txt"} : pDir[f].of = pDir["disclosure.md"].of

(* SUBMIT-05: a run reports a flagged repository exactly when what it      *)
(* wrote says so, and a report that says clean, in whichever file, looked  *)
(* at the files and at the history and found, among the tracked files that *)
(* can be read and have no ".git/" in their path, no text with a secret    *)
(* and no credential file, nor more than four fifths of the commits in one *)
(* bucket, but for what the rounding to four places lets pass.             *)
HygieneHonest ==
  LET written == IF pCmd = "format" THEN pDir["submission.md"].hygiene ELSE pDir["hygiene-report.json"]
      reports == {pDir["hygiene-report.json"], pDir["hygiene-report.md"]}
                   \union (IF pDir["submission.md"] = None THEN {} ELSE {pDir["submission.md"].hygiene})
  IN /\ pCmd \in {"format", "hygiene"} /\ pStatus \in {"ok", "flagged"} =>
          (pStatus = "flagged" <=> written # None /\ written.overall = "flagged")
     /\ \A r \in reports \ {None} : r.overall = "clean" =>
          /\ r.of.lists /\ r.of.logs
          /\ \A f \in r.of.files :
               f.seen = "tracked" /\ ~f.gitPath => f.content = "unreadable" \/ (f.content # "secret" /\ ~f.credentialName)
          /\ Total(r.of) > 1 =>
               \A i \in Dated(r.of) : 20000 * Alongside(r.of, i) < 16001 * Total(r.of)
===============================================================================
