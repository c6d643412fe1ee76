# CineOps Guardian: formal models

TLA+ models of this repository, model-checked with TLC, with theorems proved by
TLAPS. Paths below are relative to the repository root; note that the
repository has a directory of its own named `src/` (TypeScript and the Python
"chassis"), beside `engine/` (the Python agent). PROJECT.json, next to this
file, lists the checks and says of every definition which lines it models.

## 1. The system

CineOps Guardian diagnoses production incidents. A browser posts a run; a worker
thread plans queries, collects evidence from Grafana over MCP, correlates it by
rules, proposes remediations, **waits for a human to approve them**, writes the
approved ones to Grafana, and stores a result. Meanwhile it publishes numbered
envelopes that the browser receives over SSE and, as a safety net, by polling.
All provider calls go through a resilience wrapper and a cost guardrail.

Beside the engine lies a chassis of command-line tools: generators of a pitch
script, a deck, a judge Q&A sheet, synthetic data, provenance and submission
texts, and the drivers of a rehearsal and of a recorded demo. They run one at a
time, but over files that earlier runs left and inputs that were edited since.

### Inventory

| Part | State it keeps | Operations | Hard behaviour | What makes it correct |
|---|---|---|---|---|
| HTTP API and approval sessions (`engine/api/app.py`, `sessions.py`) | `SESSIONS`: trace id to session dict with status, actions, approved list, event, result | start run, gate wait, release, status and result reads, worker's stores | server loop, worker threads and reviewer share a dict without a lock; two timers (120 s on the loop, 150 s in the worker); one trace id may be posted twice | nothing is written without consent; one answer per question; an acknowledged approval is not lost silently; statuses settle; the worker ends |
| Agent pipeline (`engine/agents/agent.py`) | a run's findings, actions, receipts, degraded reasons | steps A1 to A8 | any step may degrade; a write whose answer is lost may have landed | receipts match Grafana; a run ends in a result |
| Event stream (`engine/api/events.py`, `src/platform/transport/stream_router.py`) | sequence counters, `RECENT` ring buffers, attached queues | publish, remember, broadcast, replay | overflow, eviction, idle time-outs, lost connections | what is replayed has no holes |
| Run screen (`src/cineops/ui/App.tsx`, `useEventStream.ts`, `subscriber.ts`) | applied numbers, merged envelopes, status, approval | effects, poller, reconnect, approve, reset | live and replayed envelopes in any order, stale effects, late polls | no envelope twice, none lost, an answered question is not asked again, the end is shown |
| Resilience wrapper (`src/resilience/wrapper.ts`, `wrapper.py`) and its configuration (`config.ts`) | per call: attempt, last error, position in the chain | normalise and layer three sources; retries, validation with repair, secondary provider, cache, replay, degraded result | malformed sources, time-outs, late or wrong answers, failing stages | stages in order, honest reasons, the kill switch holds, validated answers, calls end |
| Golden cache (`src/resilience/cache/store.ts`) | JSON files and a manifest | get with quarantine, put, delete, clear, list | several processes share the files; refused writes, damage, death between file and manifest | reads see an atomic map; the manifest accounts for it |
| Cost guardrail (`src/cost/store.py`, `meter.py`) | usage records, edge state of thresholds, fresh edges | meter, check budget, emit, acknowledge, reset, persist | the lock is released between append, check and emit | one warning per crossing |
| MCP client (`engine/mcp/grafana_mcp.py`) | one session on a runner loop, pinned transport, tool list | connect with fallback, disconnect, call, health | threads submit coroutines to one loop; callers time out and coroutines go on | a session that is handed out is open |
| Gemini provider, BigQuery loader | health answer with a time to live; none | generate, health; load, append | stale health; retried appends | health is at most its time to live old; rows appear once |
| Transport publisher (`src/platform/transport/publisher.ts`, `adapters/*.ts`) | sequence, envelopes per trace, client sets | publish, collect, attach, remove, close | backpressure and lost clients during a fan-out | no client misses or reorders; publish returns |
| Context manager (`src/context`) | none; the caller keeps the buffer | fit, append, two strategies | budgets that change under a growing conversation; oversized and pinned messages | within budget, in order, nothing pinned lost |
| Synthetic data generator (`src/data`) | fixture files, golden entries | generate records and documents, mark, write, cache, replay | repairs, offline replays of marked data under another header or shape | everything that leaves it is marked, once |
| Script, deck and FAQ generators (`src/ideation/script`, `deckgen`, `faqdef`) | artifact files | generate, validate, diagram | untruthful or missing model, refused writes and deaths between files, artifacts of earlier runs | artifacts are whole and claim only what the inputs support |
| Rehearsal (`src/ideation/faqdef/rehearse.ts`) | the current question, its timer, a log | ask, answer, expire, judge | timers that are never cancelled | every question has its full time; a session ends |
| Demo capture (`src/ideation/demodrive`) | browser, feeder, recording, screenshots, sentinel | set up, steps, report, clean up, SIGINT handler | the handler runs between any two awaits of the driver | what is left on disk says truly how it ended |
| Provenance and submission (`src/provenance`) | disclosure, summaries, submission, hygiene report; the last verdict | generate, summarise, format, hygiene | a stale disclosure or verdict, missing git, unreadable files | what is claimed is what the manifest includes; clean means looked at |
| Diagnosis rules, remediation, normalisation, prompt budget (`engine/diagnose`, `engine/ingest`, `engine/runtime/budget.py`) | none | pure functions | first match wins; boundaries | as their reference definitions |
| Assembly, deployment, UI widgets, scripts, contracts | configuration | one-off commands, rendering | none that outlives a call | |

The worker blocks on the gate, whose task lives on the server's loop; the gate's
outcome decides what the pipeline writes; the pipeline's writes go through the
guard (resilience wrapper around cost meter around MCP client); each step
publishes an envelope, which reaches the run screen; the screen's approval comes
back through the API. The TypeScript publisher is the chassis's own transport,
used by the demo driver; the engine has its Python counterpart. The data
generator calls the wrapper and writes the golden cache it later replays from;
the submission embeds the disclosure that another command wrote; the demo
driver films the run screen while a feeder publishes events to it.

## 2. The modules

| Module | Models | In short |
|---|---|---|
| `ApprovalContract` | abstract | a run is decided once and writes inside its decision |
| `GuardianRun`, `GuardianRunProofs` | API, sessions, gate, write-back, guard | server loop, worker threads and reviewer |
| `McpSession`, `McpSessionProofs` | the session part of `grafana_mcp.py` | coroutines that connect, fail and disconnect around one session |
| `Recent` | `engine/api/events.py` | numbering and the replay buffer |
| `EventReplay`, `EventReplayProofs` | `Recent` with the SSE hub and the run screen | one browser |
| `ResilienceConfig` | `config.ts` | file, caller and environment become one configuration |
| `ResilientCall`, `ResilientProofs` | `wrapper.ts`, `wrapper.py` | one call through a wrapper so configured |
| `KeyValue` | abstract | a map with atomic operations |
| `GoldenStore` | `cache/store.ts` | processes that share a directory; implements `KeyValue` |
| `CostWarnings`, `CostWarningsProofs` | `store.py`, `meter.py` | threads that share a store |
| `Publisher`, `PublisherProofs` | `publisher.ts`, `sse.ts`, `websocket.ts` | calls and clients |
| `ContextFit` | `src/context` | a conversation that is fitted after each append |
| `SyntheticData` | `src/data` | generations that follow one another |
| `Rehearsal` | `rehearse.ts` | one timed session |
| `DemoDrive` | `demodrive/driver.ts` | one recorded demo |
| `ToolRun` | abstract | what a run of a tool owes to whoever starts it |
| `ScriptTool`, `DeckTool`, `FaqTool`, `ProvenanceTool` | `src/ideation`, `src/provenance` | runs of a tool over edited inputs; implement `ToolRun` |
| `ChassisProofs` | proofs | about `GoldenStore`, `SyntheticData` and `ContextFit` |
| `ToolProofs` | proofs | about `Rehearsal`, `DemoDrive` and the four tools |
| `NoValue` | | the constant `None` |
| `MCGuardianRun`, `MCEventReplay`, `MCResilientCall`, `MCCostWarnings` | | constants for TLC |
| `MCPlatform` | `Recent`, `Publisher`, `ContextFit`, `GoldenStore`, `Rehearsal`, `DemoDrive`, `SyntheticData`, `McpSession` | eight components that do not interact, one of which moves |
| `MCTools` | the four tools | one of which is run; all are held against `ToolRun` |

Operators whose comment says "Variant (fault injection)" are plausible mistakes
in the code. They are used nowhere: each stands in for the operator after it to
confirm that a property notices the mistake. Variables and operators have a
prefix for their module where modules are put side by side (`q` session, `r`
rehearsal, `m` demo, `g` data, `s`, `d`, `f` and `p` the tools).

### GuardianRun

A session object is named after the run that created it; `cur[t]` is
`SESSIONS[t]`. The steps follow the awaits and the thread boundaries:

* Loop: `PostRun`; the gate's task `GateWait` (up to its await, `Ask`), `GateExpire`
  (its timer), `GateReturn`, `GateTimeout`, `GateCancelled`; `GateWaitLate` is
  its first step when the worker gave up before the loop got to it; a release is
  `ReleaseRefused`, or `ReleaseBegin` followed by `ReleaseEnd`. Release has no await, but a
  worker thread can write the same session between its check and its writes,
  so the two halves are separate steps with the loop occupied.
* Worker: `Diagnose` is A1 to A7, with any proposal `propose_remediation` can make; the
  gate blocks it; `StartWrite` and `SkipId` walk the approved list in any order, `WriteAttempt`
  is one try of the guard, whose answer may be lost after the write has landed;
  `Summarize`, `StoreResult`, `StoreDone` and `StoreError` are the two-step
  ending in `_run_in_worker`, and `WorkerTimeout` is its 150 s timer.
* `StallBegin` and `StallEnd`: a handler that blocks the loop. Time is abstract;
  the worker's timer can beat the gate's only while the loop is stalled.

The approved list is a bag (`id -> multiplicity`), because a caller may repeat an
id and the code writes once per occurrence.

### McpSession

A call is a coroutine on the runner's loop. Between awaits it runs alone, so a
step is the stretch from one await to the next: `Ensure` finds the session or
starts a connect, `Connected` and `ConnectFails` are the two ends of that, `Closed`
the end of a disconnect, `CallEnds` the end of the tool call. `ConnectFails`
decides by `NextLeg` whether a pinned transport is tried once more or "auto" goes
over to stdio, and takes whatever session is current with it: that is
`Disconnect`, which forgets before it closes. Connections are numbered;
`qOpen` are those nobody has closed. `qOverlap` is history.

### Recent and EventReplay

`Emit` is `publish` of `make_publisher`, which does not await: number, validate, remember. `Void`
is an envelope whose validation fails after its number is used up. `EventReplay`
adds the broadcast, the connection as a FIFO that may break anywhere, and the
App's effects as separate steps: `IngestHook`, `Recompute`, the poller's `PollAsk`,
`PollServe`, `PollReturn` and `PollFail`. `Switch` is a change of `run.traceId`, including the render
in which the old buffer is merged after the reset. The envelopes of a run are
numbers; three are special: the one that asks, the one after it, the last one.
`Approve` is `onApprove` up to its await, `ApproveReturns` and `ApproveFails` what
comes after, whatever run is on the screen by then; `posts` are those under way.
`ShowResult` is the effect that goes over to the result screen. `overtaken` is
history: a POST's answer set the status of an end not shown yet.

### ResilienceConfig and ResilientCall

A field of a source is unset, malformed, or good with a value. `Resolve` is the
whole path of `config.ts`: each source is normalised, the chain is merged group
by group, the environment comes last. `ResolverIsTotal` is an assumption that TLC
evaluates over every combination of sources: no malformed field gets through.
A wrapper is then created with what came out, its dependencies, a validation
hook and one of three variants: the async runtime, which is the same in both
languages, and the sync ones of Python and of TypeScript.
Each callable may answer conformingly or not, raise, or time out. `faults`, `asked` and
`tried` are history.

### GoldenStore

Methods of one process never await, so the steps between which others get in
are those on the file system: `PutFile`, `DeleteFile`, `Get` and `Quarantine` on an
entry, `ReadIndex` and `WriteIndex` on the manifest. `Refuse` is a write the file
system refuses; `Damage` and `LoseIndex` come from outside; a process may die
anywhere. As a map, the store holds what is readable: a torn
entry counts as absent (`IsAtomicMap`).

### CostWarnings

`Meter`, `Check`, `Callback` or `Skip`, and `Notify` are the stretches of a metered call between which
the store's lock is free. A warning is its key, scope and level; `used` is what
aggregation returns. Budgets are counted in requests, and all wrappers have the
same ones. `due` and `heard` count crossings and notifications.

### Publisher

`Publish` is everything before its first await: number, collect, and one write
to each client of the transport. A write to a client whose buffer is full
returns false and the call waits (`waits`) until `Drain`. `Lose` and `OnClose` separate a client's going away from the
server's noticing. What a client was sent is `got`.

### ContextFit

Messages are well-formed or not, pinned or not, and have a cost. `AppendMessage` is
`append`, with a strategy and a budget chosen anew each time, and the caller keeps
the result. A token is a position in the buffer and a place in its message, and what messages
cost is how many tokens they have. `Fit` has the order of checks in `core.ts`. "Newest first while they fit" is stated as
the set of positions that fit together with everything newer.

### SyntheticData

A batch is what its elements have in common: objects or not, the synthetic
flag, and the headers in front of their text. A generation is `DataStart`, then
wrapper, judge, repair, mark, file and cache as separate steps, each of which
may fail or be the last before the process dies. `DataReplay` hands what an
earlier generation cached, marked under its header and shape, to a later one
with another. `DataJudge` leaves open what a caller's schema says, except that a
closed schema does not admit the flag.

### Rehearsal and DemoDrive

In `Rehearsal` the timers of answered questions stay in `rTimers`: the code never
clears them, it only ignores them once their question is settled.

In `DemoDrive` the driver's steps are the stretches between its awaits, in the order
of `try`, `catch` and `finally`; `Sigint`, `SigintClosed`, `SigintWrites` and `SigintExits` are the handler, whose own awaits
interleave with the driver's. Both close the same context (`CloseContext`) and write the same
sentinel (`WriteSentinel`), and either may be refused, which `mRefused` remembers.

### The tools

A tool's run is `running` from the moment its inputs have passed until it ends
`ok`, `mended` (exit 0 with a fallback artifact), `flagged` (exit 0 or 1 with a finding in the
artifact), `refused`, `checked`, `broken` or `claimed` (exit 0 although the fallback was
refused as well, which only the deck has). Inputs are chosen anew for each run, the
artifacts of the last one stay. Every file is replaced atomically; what is not
atomic is the set of them, so `DeckTool` and `ProvenanceTool` keep the writes left
in a queue, with a refused write or a death possible at each. `ScriptTool` and `FaqTool`
have a model draft anything at all and then run the audits over it; a drafted
cell that begins as a TODO (`todo`) is not audited for figures. A file of a
repository is tracked or not, has a name, a content and perhaps ".git/" in its
path (`gitPath`), which keeps it from being looked at. A figure is
a token with a source; a deck slot is its text, its figures and the files it
refers to; a submission field is where it was taken from.

`ToolRun` says in seven actions what they have in common: artifacts appear whole,
a refused run changes nothing, a run that reports success leaves what its
inputs make, or the substitute it fell back to. The exception has an action of
its own, `Overclaim`: a run whose last resort is refused too may report success
over the old artifact. The refinement `Contract` in `MCTools` maps status, wanted and present
artifact of each, and says that only a deck that writes its skeleton is at its last resort.

## 3. What the runs check

| Run | Instance | Shows |
|---|---|---|
| `guardian_run` | one run, two writable actions, ids posted up to twice, two releases, two attempts, one stall; 90 thousand states, with fairness | `TypeOK`, `NoSilentDrop`, `ReceiptsAccount`, `StatusHonest`, `StatusSettles`, `RunSettles`, `WorkerEnds`, and that the run implements `ApprovalContract` (`ContractSpec`) |
| `guardian_reuse` | two runs under one trace id, one writable and one local action, three releases, one attempt, one stall; 7 million states | `WritesApproved`, `AnsweredOnce` although the session is replaced and gates may be cancelled or ask late |
| `guardian_raises` | violation | `NeverRaises` |
| `event_replay` | one run of four envelopes, two polls in flight, two losses (of connections, polls or the approval's POST) | `OncePerEnvelope`, `NeverAsksAgain`, `LastShown` |
| `event_gap` | violation | `NeverLoses` |
| `resilient_call` | every configuration that the sources of `MCResilientCall` resolve to, with up to two retries and three chain orders | `StagesInOrder`, `OutcomeHonest`, `KillSwitchHolds`, `NoRetryAfterRejection`, `UnrepairedReturns` |
| `resilient_hang` | violation | `RepairBounded` |
| `cost_warnings` | two threads, two wrappers, three thresholds, three records, a failure, a re-arming, polls | `AtMostOncePerCrossing`, `FreshIsActive`, `AloneExactlyOnce` |
| `cost_race` | violation | `ExactlyOncePerCrossing` |
| `platform` | eight components, see below; 417 thousand states | `ReplayIsSuffix`; `Contiguous`, `CollectExact`, `LiveClientsReturn`; `NothingLost`; `ListAccounts`, `IsAtomicMap`; `FullBudget`, `CaptureHonest`, `SessionsEnd`; `SyntheticMarked`; `SessionSound` |
| `publish_hang` | violation | `PublishReturns` |
| `tools` | two runs and one fault of each tool; 2 million states | `ScriptHonest`; `DeckWhole`, `DeckCurrent`; `SheetSound`; `DisclosureTrue`, `HygieneHonest`; `KeepsContract` |

Each property is stated in words above its definition. Every module has a type
invariant; the runs check the one of `GuardianRun`, and theorems state those of `GuardianRun`
and `CostWarnings`.

**Bounds.** They are the smallest at which the hazard in question occurs.

* Approval: two runs under one trace id are enough for a session to be replaced under a waiting gate;
  two releases for a late or repeated answer; two copies of an id for a repeated
  write; two attempts for a write that lands without its answer and is retried.
* `RECENT`: a trace of two envelopes with a run of three or four overflows and, with a second run, is
  evicted and comes back.
* Cost: one re-arming and three records cross two thresholds and cross one again.
* Publisher: two calls that wait for one client, and one slow and one
  lost client, need two of each, and three envelopes of two traces.
* Context: four messages of cost 1 or 2; budget 0, a budget equal to a message's cost and one in
  between are the boundaries of `fit`.
* Store: two processes, two keys, three operations and two faults are a get that
  overlaps a put and a delete of the same key, with the manifest damaged and a
  write refused.
* Rehearsal: three questions, so that the timers of two answered ones are
  pending during a third. Capture: three steps, a first, a middle and a last
  one to fail or be interrupted in.
* Data: two generations and two headers are a marked batch that comes back
  under another shape or header.
* MCP: three calls and three connections are a disconnect that takes the
  connection a second call made while a third uses it. `McpSessionProofs` has no bounds.
* Tools: two runs are an artifact of other inputs that is still there; one fault
  separates any two writes. Timings that add up with a live section, add up
  without one, and do not; plans that lack the frozen heading, an amount or
  everything; drafts that cover two axes, one and are unsupported; commits at
  four fifths in one bucket and above; six repositories, among them one with a
  tracked text that holds a secret, one with a tracked binary file of a
  credential's name, and one whose secret lies below a `.git/`.

Bounds are CONSTANTS that occur in guards
(`MaxReleases`, `MaxStalls`, `MaxCopies`, `MaxAttempts`, `MaxPolls`, `MaxDrops`, `MaxRecords`,
`MaxFailures`, `MaxRearms`, `MaxPublishes`, `MaxMessages`, `Last`, `MaxOps`, `MaxFaults`, `MaxAsked`,
`MaxGenerations`, `MaxConnects`, and `Max...Runs` and `Max...Faults` of the tools). Because they end every
behaviour, deadlock is not checked: a run that has finished does stop. That
nobody waits for ever is checked as liveness.

**Fairness.** `GuardianRun`: the loop and the threads are scheduled, timers
fire, and a blocking handler returns; nobody has to post a run or answer the
gate. `EventReplay`: the browser's effects and its poller run and the server
answers polls; the SSE connection, the runs, the user and the answer to an
approval's POST promise nothing.
`ResilientCall`: the wrapper's own steps are taken, and the two providers of the async
variant answer or time out, because `wait_for` bounds them (for a callable that
does not block the loop); nothing bounds a repair or a
sync callable. `Publisher`: a client that stays connected drains what it was sent, and
the server learns in the end that a client has gone. `Rehearsal`: timers fire and
the judge's call, which goes through the wrapper, returns; the participant
owes nothing. `DemoDrive`: every wait of the driver has a time-out, and its
handler is not starved. The other modules state safety only and assume no fairness.

## 4. Findings

1. `NeverRaises`: run_diagnosis "Never raises: degrades into RunResult"
   (`engine/agents/agent.py:308`), but a write whose guard gives up puts a
   degraded-result dict among the receipts, which `RunResult` refuses; the run ends
   in error and its receipts are lost, although writes may have landed.
2. `NeverLoses`: "reconnects [...] can never lose or duplicate an envelope"
   (`src/cineops/ui/App.tsx:228`), but the poller asks only for what follows the
   highest number applied, so a gap below it is never filled. `LastShown` shows
   that the end of the run arrives all the same, unless the approval's POST
   overtakes it (see below).
3. `RepairBounded`: timeout_ms should abort a repair
   (`src/resilience/README.md:53`), which runs outside `wait_for`.
4. `ExactlyOncePerCrossing`: listeners should "fire exactly once per
   threshold crossing" (`src/cost/store.py:126`), but a second thread's check discards
   the first one's fresh edge before it is emitted.
5. `PublishReturns`: publish "Resolves after the transport flush"
   (`src/platform/transport/publisher.ts:55`), but a client that leaves, or `close()`, while
   it awaits "drain" leaves it pending.

Seen while reading and not given a run:

Engine and run screen
* `App.tsx` 350-360 sets the status to "running" when the approval's POST returns,
  whatever it was. An end that was merged during the POST and not rendered yet is
  overwritten, and since no further envelope comes the run screen stays. Once
  the result screen is rendered it stays, but the poller goes on. An answer that
  arrives after a reset and a new start marks the new run as approved.
* The worker's timer may fire before the loop has run the gate's first step
  (`app.py` 86-89): that step still sets "awaiting-approval", after a stall even on
  a session that is "done", and nobody hears the answer.
* The SSE hub ignores the trace id a subscription asks for
  (`src/platform/transport/stream_router.py:40`, against `subscriber.ts:24`): a second run's envelopes
  reach the screen.
* `useEventStream.ts`: `disposedRef` is reset by the next subscription, so a fallback
  fetch of the previous trace may still fill it; the fallback leaves the
  EventSource open, which reconnects by itself beside it; `degraded` is never reset.
* `engine/mcp/grafana_mcp.py`: a session whose server has died is never
  replaced; when connects overlap, a failing one closes the session another
  call uses, and the connection of the one that is overtaken stays open. `SessionSound`
  says what holds without overlap.
* `engine/runtime/guard.py:66` looks golden answers up under a label and
  records them under a derived key (85), so none is ever replayed.
* `engine/diagnose/rules.py` 366-377: the rule R-FANOUT cannot be reached.

Chassis services
* `wrapper.py` run_sync returns the secondary provider's value unvalidated
  (403, against 598); run_async lets a failing secondary provider overwrite
  `last_error` (337). `OutcomeHonest` says where it stops.
* `wrapper.ts`: the kill switch is said to be refreshed per invocation (203), but
  the configuration is resolved once at creation; an error rethrown by
  `resolveRuntime` is outside the outermost guard.
* Explicit cache keys are "hashed once" by the schema
  (`src/contracts/resilience-config.schema.json:77`) and by the recorder, but `resolveBaseKey`
  (`wrapper.ts:143`) returns the raw key, which the store's pattern refuses: the
  explicit strategy never hits.
* `config.ts`: `profile ?? {}` makes the fallback for an unknown profile unreachable.
* `store.ts`: a lost update of the manifest hides an entry from `list()`; a quarantined
  one stays listed.
* `meter.py:433`: a wrapper's own set of fired keys is never cleared, so a
  crossing after an acknowledgement or reset goes unheard (`store.py:329`).
  A failed attempt (477) is recorded without a budget check.
* `src/context/core.ts:241` counts a pinned newest message twice and rejects one
  that fits exactly; 225 reports no eviction when all unpinned messages are
  dropped; the strategies lose a copy of an object that is in the buffer twice.
* `publisher.ts`: `createPublisher` ignores its argument; a client attached after
  `close()` is never ended.

Tools
* `src/data/generate.ts:15` promises at most two calls; two retries
  (`defaults.json:8`) and a repair make four. Cached records that carry `synthetic` fail a
  closed schema; a header changed back and forth is stacked; one explicit key
  serves different shapes; `config.watermark.enabled` is not read. The
  contracts it loads are not in the repository, so that as it stands it refuses.
* Script: a drafted value cell that begins with `> **TODO:` is not audited
  (`src/ideation/script/generate.ts:208`), so it may state any figure, against SCRIPT-04
  (`src/ideation/script/README.md`, Guarantees). A rejected cue in the spoken cell cuts the row behind it, the live
  label included, which "must survive every rewrite" (`validateVisuals.ts:161`, SCRIPT-03).
* Script, too: the blank template computes its windows again and loses an
  automatically chosen live section; only the first `Visual:` of a row is
  checked; a refused write is taken for a failed generation.
* Deck: the rescue skeleton ends with exit 0 even if it fails too (`deckgen/cli.ts` 279-294),
  with the deck of an earlier run or none, after a line that says it was written; "an output
  file always exists" (239) and is "guaranteed on disk" (16-17). Figures are
  searched for as digits in the excerpt (`populate.ts` 247-250), so that `4` is
  grounded by `$40M`. A failed copy of
  the single file rewrites everything; skeleton mode leaves charts of an earlier run.
* FAQ: `enforceAxisCoverage` "never drops tags" but does, from a donor with a tag to
  spare; an expired question submits "" because nothing fills its buffer; stale
  timers keep the process alive; the two sheets are written one after the other.
* Demo: a `context.close()` that is rejected is swallowed (`driver.ts` 197-201, 283-287, 313-317),
  so that a recording which is "never partial/corrupt" (282) may be just that, with the
  exit code unchanged; a sentinel that cannot be written is missing, also under exit code 130
  (154). A sentinel "SIGINT" and one that names a step may overwrite each other;
  an interrupt after the last step still writes one; the handler is installed
  once per process; two runs within a second share a directory.
* Hygiene: every path with `.git/` in it is dropped (`hygiene.ts:172`), tracked ones such as
  `mirror.git/creds` included, and of binary files only the name is looked at;
  unreadable files give a warning and may end in "clean"; in `globToRegex` `**` behaves as `*`; placeholders inside the embedded disclosure
  are substituted; the ratio is rounded before it meets its threshold.

## 5. What is proved

`GuardianRunProofs`, for any runs, traces, actions and bounds that satisfy
`ConstantsAssumption`:

* `TypeCorrect`: `TypeOK`. It is not inductive alone: a look-up must find a session
  and a gate task must belong to a blocked worker, or to one that gave up. `TypeInv` adds
  `SessionsKnown` and `GateBlocks`.
* `ApprovalIsSoleGate`: `WritesApproved`. Consent travels from a release through the
  session's list, the gate task and the worker's list to Grafana; `Consent`
  says of each of these places that what it holds was granted, and
  that nothing was granted or received before the wait.
* `OneAnswerPerQuestion`: `AnsweredOnce`. `Answers` counts: a session that awaits has one more wait than
  answers, and a release in progress is the answer to it.
* `RunImplementsContract`: every step of a run is a decision, a write inside it,
  or nothing to `ApprovalContract`.
* `ReceiptsAreTrue`: `ReceiptsAccount`, which is inductive on top of `TypeInv`.
* Under `OneRunPerTrace`, which the screen sees to by drawing a trace id for each run, and
  without which an approval, a result or a status lands in another run:
  `PolledStatusIsTrue` (`StatusHonest`) and `FinishedStaysFinished` (`StatusSettles`) from `SessionInv`: worker and
  gate work on their own session (`OwnSession`), which asks only while its gate waits (`Asked`) and is final only
  when the worker has ended it (`Settled`); and `ApprovalNotDroppedSilently` (`NoSilentDrop`) from
  `HeardInv`: what was granted is in the session's list while the gate wakes, then in the
  worker's list or in its hands, then among its receipts, or the run is degraded.

`CostWarningsProofs`, for any threads, wrappers, scopes, thresholds and bounds
that satisfy `CostAssumption`:

* `TypesAndEdges` and `NoSpam`: `TypeOK`, `FreshIsActive` and
  `AtMostOncePerCrossing`. `WarningInv` adds `Account`: what was heard, and what a
  thread or the store still owes, is at most what is due.
* `AloneIsExact`: `AloneExactlyOnce`. While calls succeed one after the other at most one is in
  progress, it remembers what it has emitted, its fresh edges are in its hands,
  and the account is exact (`AloneInv`).

`PublisherProofs`, for any clients, calls, traces and number of envelopes:

* `NoClientMisses`: `Contiguous`. `SegmentInv` adds types and that a client never
  attached is in no hub and was sent nothing; `WriteExtends` is the one step
  that both transports share.
* `SnapshotIsExact`: `CollectExact`, with `Numbered`: what was collected has a
  number that was already given out, so the next one is new everywhere.

`McpSessionProofs`, for any calls and number of connections that satisfy
`McpAssumption`:

* `NoClosedSession`: `SessionSound`. `McpInv` adds `Forgotten`, what a call is closing is
  nobody's current session any more (which is why `Disconnect` must forget
  first), and `OneAtATime`, that without overlap a connect finds no session and
  no connection left open.

`EventReplayProofs`, for any traces, capacities, number of envelopes, polls and losses:

* `ReplayHasNoHoles`: `ReplayIsSuffix`, of `Recent` alone. `RecentInv` adds that no trace is listed
  twice and that what is buffered was numbered (`NoDouble`, `Numbered`).
  `StreamImplementsRecent` carries it over to the stream with hub and screen.
* `ScreenIsTyped`: `TypeOK` of `EventReplay`. `TypeInv` relates `applied` to what was
  merged (`IngestInv`).
* `EnvelopesCountOnce`: `OncePerEnvelope`, under `OneRun`.
* `AnsweredStaysAnswered`: `NeverAsksAgain`, under `OneRun`, `RoomForRun` and `TwoAfterAsking`. `ScreenInv`
  follows every place an envelope can be in: the connection is in order, and what it brings is new or
  already applied (`LinkOrder`, `LinkAhead`); a poll asked from what was known, and its answer has no hole above
  that (`PollsAhead`); so from the question on only later envelopes can still arrive, and a
  change the status has not seen yet settles the question (`AfterAsk`, `Answered`). A question counts as
  answered from the click on (`Answering`): its POST may return at any time, of a run
  that was seen (`PostsSeen`).

The hypotheses are limits of the statements, not of the model, and TLC finds
each result false without them. `OneRun`: the hub broadcasts the envelopes of every
run, whose numbers collide in the browser. `RoomForRun`: `RECENT` keeps 1000
envelopes per trace (`events.py:42`), a run sends some dozens. `TwoAfterAsking`: after its
question a run sends receipts and summary and ends (`agent.py:439-503`).

`ResilientProofs`, for any set of legal configurations:

* `StagesAreInOrder`, `OutcomeIsHonest` and `RejectionEndsPrimary`: `StagesInOrder`, `OutcomeHonest` and
  `NoRetryAfterRejection`. `CallInv` is one invariant for the three: `AnswersKnown` (what is under validation
  is the primary's or, in the async variant, the secondary provider's answer), `PrimaryCourse` (attempts against retries),
  `ChainCourse` (the stages consulted are the usable ones before the position) and
  `ErrorCourse` (the last error is one of the faults of this call).
* `ResolutionIsTotal`: whatever the three sources say, a legal configuration comes out, for
  any set of strings; `ResolverIsTotal`, which TLC evaluates, is its small instance.
* `KillSwitchReachesEveryStage`: `KillSwitchHolds`, when every configuration is
  one that `Resolve` and `Wrapper` make of some sources (`Made`), as they all are in the code.

`ChassisProofs`, for any processes, keys, values, headers, costs, budgets and number of operations:

* `StoreIsAtomicMap`: `GoldenStore` implements `KeyValue` (`IsAtomicMap`). `StoreInv` adds
  that an operation follows the course its name has and that a torn file was
  spoiled; then every step is one of the map's operations or `Stutters`.
* `ManifestAccounts`: `ListAccounts`. `ListInv`: while operations do not overlap at most one is
  in progress (`OneAtATime`), and the manifest is off by at most the key that one has
  in hand (`Balance`).
* `DataIsMarked`: `SyntheticMarked`. `DataInv` says that the batch in hand, every file and every
  cached entry is marked, and that no header stands in front of itself, which is
  what marking a replayed batch again could break.
* `NothingIsLost`: `ContextTypeOK` and `NothingLost`. `ContextInv` says that the buffer is what is left of
  the conversation (`WhatIsLeft`); `AppendKeeps`, `CleanKeeps` and `AtKeeps` carry it through `append`
  and every way `fit` ends. Costs are the size of a set of tokens, not a recursive sum:
  that what either strategy retains fits (`RetainedIs`) is then a matter of subsets,
  disjoint unions and injections.

`ToolProofs`, for any inputs that satisfy the assumptions of the tools, and
any number of questions, steps, runs and faults:

* `NobodyCutShort`: `FullBudget`. `AskedOnly` adds that no timer or expiry is of a
  question that has not been asked yet, so a question is new to both when it is.
* `CaptureIsHonest`: `CaptureHonest`, which speaks of a complete recording only if no closing of the
  context was refused, and of the sentinel only if writing it was not. `CaptureInv` follows screenshots, recording and sentinel along
  the driver's steps and, apart from them, along the handler's, and says at
  which of the former the latter may have begun (`SignalCourse`).
* `SheetIsSound`: `SheetSound`. The lemma behind it is that rebalancing takes an axis only from
  a question that can spare it, so no covered axis is lost; `SheetInv` carries it
  through the steps.
* `DeckIsWhole` and `DeckIsCurrent`: `DeckWhole` and `DeckCurrent`. Neither says anything of a success that is
  only claimed. `DeckInv` says that what is on disk, overwritten by
  what is left in the queue, is the deck of these inputs (`Running`), so that an
  empty queue is the claim (`Ended`).
* `ScriptFileIsHonest`: `ScriptHonest`. However it was drafted, a script is honest as far as the
  audits reach, which run on every row (`ScriptInv`): they pass over the figures of a cell that begins as
  a TODO and over all cues of a row but the first, and may cut a live label.
* `DisclosureIsKeptTrue`: `DisclosureTrue`. `Pending` says it of the writes in the queue, `OneManifest` that
  disclosure and summaries in it are of one manifest.
* `HygieneIsHonest`: `HygieneHonest`, about the tracked files that can be read and have no `.git/` in their path. `Reporting` and `Reported` follow a report from the scan into the
  queue, the files and the submission, `Verdict` the remembered verdict. It rests on arithmetic: a
  share that rounds to at most 0.8 is below 0.80005.
* `ToolsKeepContract`: every step of every tool is a step of `ToolRun` or leaves it alone
  (`KeepsContract`), `Overclaim` included, with `ToolsOn` for what a running tool has in hand.

The proofs rest on the named assumptions about constants and on the hypotheses
given here, and on nothing else.
They are about the models: that a model is faithful is what the map of lines is
for. `GuardianRunProofs`, `CostWarningsProofs`, `PublisherProofs`, `McpSessionProofs`, `EventReplayProofs` and
`ResilientProofs` are about the specifications that the runs check; `ChassisProofs` and
`ToolProofs` are about the specification of each component, which in `MCPlatform`
and `MCTools` is one of those that move.

Only model-checked: liveness (`RunSettles`, `WorkerEnds`, `LastShown`, `UnrepairedReturns`,
`LiveClientsReturn`, `SessionsEnd`), which TLAPS cannot prove under fairness. Every safety
property of the passing runs is a theorem, six of them under the hypotheses named above.

## 6. Abstractions and limits

* Envelopes, answers, messages and records are reduced to what the properties
  distinguish. Texts, prompts, evidence and wording are left out.
* `GuardianRun`: envelopes are in `EventReplay`, connecting is in `McpSession`. The guard's cost meter and cache
  are in their own modules. With a stalled loop, a worker's final status may be
  turned back to "running" or "awaiting-approval"; the properties about settling say so. In Python
  3.11, `wait_for` may drop an answer that arrives with its time-out; the run is
  then degraded, as `NoSilentDrop` allows.
* `McpSession`: tool resolution and the pinning of the transport by health
  checks are left out, the transport does not change during a behaviour. A call's 25 s
  are the end of nothing here: its coroutine goes on.
* `EventReplay`: the TypeScript fallback GET /events does not exist on the
  engine's server and fails there; it is the failing second reconnect.
* `ResilientCall`: backoff lengths and the schema compiler are left out; a look-up hits, misses
  or fails, what is stored is `GoldenStore`'s. A call begins after its wrapper is
  made.
* `GoldenStore`: the directory's file system replaces a file atomically, as
  `rename` does. An entry's metadata and the recorder script are left out.
* `CostWarnings`: units other than requests and scopes whose budgets differ between
  wrappers are left out.
* `Publisher`: schema validation is left out, as a malformed envelope throws before any change.
  TRANSPORT is read at each publish and taken not to change.
* `ContextFit`: tokenizers, warning thresholds, compaction and provider adapters
  are left out; each message object is appended once.
* `SyntheticData`: model profiles and batch sizes are left out; no header is the
  beginning of another.
* `DemoDrive`: a second close of a context that is already closing is taken to
  return when the first has completed.
* `DeckTool`: a figure is in the excerpt if it is one of its figures, where the code
  looks for its digits (section 4); `DeckCurrent` is about figures as wholes.
* Assumptions on constants give inputs their shape and nothing more
  (`StoreAssumption`, `DataAssumption`, `DemoAssumption`, `ScriptAssumption`, `DeckAssumption`, `FaqAssumption`,
  `ProvAssumption`): which values stand for "absent" or "torn", what a plan, a
  manifest, a draft or a repository consists of, and that bounds are numbers.
* `ProvenanceTool`: a commit is the bucket its date falls into, or one whose date cannot be
  read. The share is rounded to four places before it meets the threshold, so
  that up to 80.005 % pass; `HygieneHonest` allows for that.
* Tools: parsing, phrasing, drawing and layout are left out, as are the patterns
  and templates: what a parser yields is an input. Nobody else writes their
  files during a run.

Not modelled, each with its reason in PROJECT.json: the prompt budget and the guard's binding of
wrapper, meter and cache (the three are modelled apart); the Gemini provider
and the BigQuery loader (a call per request, a short-lived health answer, a
retried append); diagnosis rules, remediation and ingest (pure functions and
text handling, the first of them planned); assembly and deployment
(sequential external commands); UI widgets other than the run screen;
scripts, contracts and seeds (data and one-off I/O). The fallback of
`useEventStream` is a fetch of a buffer that the engine does not serve.

Hazards without a property, each with a note in PROJECT.json: the hub's
indifference to trace ids, the shared temporary file of cost snapshots,
budgets that differ between wrappers, the status of a pinned message that fits
exactly, a message object appended twice, and the guard's two cache keys. The
engine configures neither snapshots nor differing budgets; for the others a
model would only restate the line in question.

## 7. Plan

Done: everything section 2 lists; every safety property of the passing runs is
proved.

1. `RunPipeline`: A1 to A8 with their degradations and envelopes, composed with
   the gate.
2. Pure parts side by side under one MC module: rules, remediation, normalisation,
   prompt budget, each against a reference definition.
3. `useEventStream`'s fallback on top of `Publisher`; persistence of cost snapshots;
   Gemini's health cache.
