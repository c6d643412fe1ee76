----------------------------- MODULE EventReplay -----------------------------
(***************************************************************************)
(* Envelopes on their way from a run to one browser.                       *)
(*                                                                         *)
(* make_publisher numbers a run's envelopes, remembers them in RECENT and  *)
(* broadcasts them to the attached SSE queues (engine/api/events.py,       *)
(* stream_router.py).  The browser holds what its current subscription has *)
(* delivered (useEventStream), polls GET /api/events/recent for what it    *)
(* missed, and merges both by sequence number (App.tsx).  The SSE hub      *)
(* broadcasts the envelopes of every run to every browser.                 *)
(*                                                                         *)
(* An envelope is a pair <<trace, sequence>>.  Of a run's envelopes the    *)
(* model tells three apart: the one that asks for approval, the one that   *)
(* says the asking is over, and the last one, after which the run is done. *)
(***************************************************************************)
EXTENDS Recent

CONSTANTS
  NoTrace,    \* no run on the screen
  Ask,        \* sequence of "write-back started" that awaits approval
  MaxPolls,   \* bound on polls in flight
  MaxDrops    \* bound on lost connections, lost requests and rejected envelopes

ASSUME EventAssumption ==
  /\ NoTrace \notin Traces
  /\ Ask \in Nat /\ Ask + 1 < Last
  /\ MaxPolls \in Nat
  /\ MaxDrops \in Nat

NumbersOf(S) == {e[2] : e \in S}

VARIABLES
  (* the connection *)
  attached,   \* the browser's queue is in the hub
  wire,       \* envelopes in that queue or on the connection
  (* browser: useEventStream *)
  retried,    \* the one automatic reconnect has been used
  hookBuf,    \* envelopes
  (* browser: App *)
  traceId,    \* run.traceId
  status,     \* run.status
  screen,     \* which screen is rendered
  applied,    \* appliedSeqRef
  maxSeq,     \* maxSeqRef
  shown,      \* shown[e]: how often e occurs in merged
  stale,      \* merged has changed since run was computed from it
  approved,   \* an approval was posted and answered
  approving,  \* the approval buttons are disabled while a POST is under way
  posts,      \* posts[t]: approvals of t under way
  seen,       \* runs that have been on the screen
  asked,      \* polls sent: the "after" each one carries
  replies,    \* poll answers on their way back
  overtaken,  \* history: an approval's answer undid an end not rendered yet
  drops       \* history

linkVars == <<attached, wire, retried, hookBuf>>
ingestVars == <<applied, maxSeq, shown, stale>>
runVars == <<traceId, status, screen, seen, approved, approving, posts, overtaken>>
pollVars == <<asked, replies>>
vars == <<recentVars, linkVars, ingestVars, runVars, pollVars, drops>>

Merged == {e \in Envelopes : shown[e] > 0}

MaxOf(S) == CHOOSE x \in S : \A y \in S : y <= x

Init ==
  /\ RecentInit
  /\ attached = FALSE
  /\ wire = <<>>
  /\ retried = FALSE
  /\ hookBuf = {}
  /\ traceId = NoTrace
  /\ status = "idle"
  /\ screen = "ingest"
  /\ applied = {}
  /\ maxSeq = -1
  /\ shown = [e \in Envelopes |-> 0]
  /\ stale = FALSE
  /\ approved = FALSE
  /\ approving = FALSE
  /\ posts = [t \in Traces |-> 0]
  /\ overtaken = FALSE
  /\ seen = {}
  /\ asked = {}
  /\ replies = {}
  /\ drops = 0

-----------------------------------------------------------------------------
(* Server *)

\* publish: number, validate, remember, broadcast.  It never yields in between.
Publish(t) ==
  /\ Emit(t)
  /\ wire' = IF attached THEN Append(wire, <<t, next[t]>>) ELSE wire
  /\ UNCHANGED <<attached, retried, hookBuf, ingestVars, runVars, pollVars, drops>>

Reject(t) ==
  /\ Void(t)
  /\ drops < MaxDrops
  /\ drops' = drops + 1
  /\ UNCHANGED <<linkVars, ingestVars, runVars, pollVars>>

-----------------------------------------------------------------------------
(* The SSE connection *)

\* A connection is accepted: its queue sees envelopes from now on.
Attach ==
  /\ ~attached
  /\ attached' = TRUE
  /\ UNCHANGED <<recentVars, wire, retried, hookBuf, ingestVars, runVars,
                 pollVars, drops>>

Deliver ==
  /\ wire # <<>>
  /\ hookBuf' = hookBuf \union {Head(wire)}
  /\ wire' = Tail(wire)
  /\ UNCHANGED <<recentVars, attached, retried, ingestVars, runVars, pollVars, drops>>

\* The connection ends or cannot be made: the server closes an idle stream
\* after 15 s, or the network breaks.  What it still carried is lost.  The first error opens a
\* fresh subscription, which empties the hook's buffer; the next one only
\* tries GET /events, which the engine does not serve, and leaves the
\* EventSource to reconnect by itself.
Disconnect ==
  /\ drops < MaxDrops
  /\ attached' = FALSE
  /\ wire' = <<>>
  /\ retried' = TRUE
  /\ hookBuf' = IF retried THEN hookBuf ELSE {}
  /\ drops' = drops + 1
  /\ UNCHANGED <<recentVars, ingestVars, runVars, pollVars>>

\* The reconnect button: a fresh subscription and a fresh budget.
Reconnect ==
  /\ traceId # NoTrace
  /\ drops < MaxDrops
  /\ attached' = FALSE
  /\ wire' = <<>>
  /\ retried' = FALSE
  /\ hookBuf' = {}
  /\ drops' = drops + 1
  /\ UNCHANGED <<recentVars, ingestVars, runVars, pollVars>>

-----------------------------------------------------------------------------
(* The App *)

\* Variant (fault injection): nothing is filtered.
IngestAll(S) ==
  /\ applied' = applied \union NumbersOf(S)
  /\ maxSeq' = IF S = {} THEN maxSeq ELSE MaxOf({maxSeq} \union NumbersOf(S))
  /\ shown' = [e \in Envelopes |-> shown[e] + (IF e \in S THEN 1 ELSE 0)]
  /\ stale' = (stale \/ S # {})

\* ingest: what has a number not applied yet joins merged.
Ingest(S) ==
  LET fresh == {e \in S : e[2] \notin applied}
      added == {e \in fresh : e[2] \notin NumbersOf(Merged)}
  IN
  /\ applied' = applied \union NumbersOf(fresh)
  /\ maxSeq' = IF fresh = {} THEN maxSeq ELSE MaxOf({maxSeq} \union NumbersOf(fresh))
  /\ shown' = [e \in Envelopes |-> shown[e] + (IF e \in added THEN 1 ELSE 0)]
  /\ stale' = (stale \/ fresh # {})

\* The effect on the hook's envelopes.
IngestHook ==
  /\ \E e \in hookBuf : e[2] \notin applied
  /\ Ingest(hookBuf)
  /\ UNCHANGED <<recentVars, linkVars, runVars, pollVars, drops>>

\* reduceEnvelope over merged, as far as the status goes.
Reduced(S) ==
  LET has(n) == n \in NumbersOf(S) IN
  IF has(Last) THEN "done"
  ELSE IF has(Ask) /\ ~has(Ask + 1) THEN "awaiting"
  ELSE "running"

\* The poller's effect runs again when the status changes: polls under way
\* are cancelled, and their answers will be ignored.
SetStatus(st) ==
  /\ status' = st
  /\ asked' = IF st = status THEN asked ELSE {}
  /\ replies' = IF st = status THEN replies ELSE {}

\* The effect on merged recomputes the run from scratch.
Recompute ==
  /\ stale
  /\ stale' = FALSE
  /\ IF traceId = NoTrace THEN UNCHANGED <<status, pollVars>>
                          ELSE SetStatus(Reduced(Merged))
  /\ UNCHANGED <<recentVars, linkVars, applied, maxSeq, shown, traceId, screen,
                 seen, approved, approving, posts, overtaken, drops>>

\* The effect on the status, which sees only what was rendered.
ShowResult ==
  /\ status = "done"
  /\ screen # "result"
  /\ screen' = "result"
  /\ UNCHANGED <<recentVars, linkVars, ingestVars, traceId, status, seen, approved,
                 approving, posts, overtaken, pollVars, drops>>

Polling == traceId # NoTrace /\ status \in {"running", "awaiting"}

\* Variant (fault injection): every poll asks for the whole run.
PollAskAll ==
  /\ Polling
  /\ Cardinality(asked) + Cardinality(replies) < MaxPolls
  /\ asked' = asked \union {-1}
  /\ UNCHANGED <<recentVars, linkVars, ingestVars, runVars, replies, drops>>

\* tick: at once and then every 3 s, whether or not the last one came back.
PollAsk ==
  /\ Polling
  /\ Cardinality(asked) + Cardinality(replies) < MaxPolls
  /\ asked' = asked \union {maxSeq}
  /\ UNCHANGED <<recentVars, linkVars, ingestVars, runVars, replies, drops>>

\* Variant (fault injection): the replay starts one envelope too late.
PollServeLate ==
  \E after \in asked :
    /\ asked' = asked \ {after}
    /\ replies' = replies \union {Replay(traceId, after + 1)}
    /\ UNCHANGED <<recentVars, linkVars, ingestVars, runVars, drops>>

PollServe ==
  \E after \in asked :
    /\ asked' = asked \ {after}
    /\ replies' = replies \union {Replay(traceId, after)}
    /\ UNCHANGED <<recentVars, linkVars, ingestVars, runVars, drops>>

PollReturn ==
  \E S \in replies :
    /\ replies' = replies \ {S}
    /\ Ingest(S)
    /\ UNCHANGED <<recentVars, linkVars, runVars, asked, drops>>

\* A poll fails on its way; failures are silent.
PollFail ==
  /\ drops < MaxDrops
  /\ \/ \E after \in asked : asked' = asked \ {after} /\ UNCHANGED replies
     \/ \E S \in replies : replies' = replies \ {S} /\ UNCHANGED asked
  /\ drops' = drops + 1
  /\ UNCHANGED <<recentVars, linkVars, ingestVars, runVars>>

\* A new run.traceId (or none) reopens the subscription, resets what was
\* merged and stops the polls.  If the last delivery is rendered together with
\* the new trace id, its effect runs after the reset and merges the old buffer.
Switch(t, st, scr) ==
  /\ traceId' = t
  /\ status' = st
  /\ screen' = scr
  /\ attached' = FALSE
  /\ wire' = <<>>
  /\ retried' = FALSE
  /\ hookBuf' = {}
  /\ \E old \in {{}, hookBuf} :
       /\ applied' = NumbersOf(old)
       /\ maxSeq' = IF old = {} THEN -1 ELSE MaxOf(NumbersOf(old))
       /\ shown' = [e \in Envelopes |-> IF e \in old THEN 1 ELSE 0]
       /\ stale' = (old # {})
  /\ asked' = {}
  /\ replies' = {}

\* onStart after its POST (and upload): the run has been publishing meanwhile.
Start(t) ==
  /\ traceId = NoTrace
  /\ t \notin seen
  /\ seen' = seen \union {t}
  /\ approved' = FALSE
  /\ approving' = FALSE
  /\ Switch(t, "running", "run")
  /\ UNCHANGED <<recentVars, posts, overtaken, drops>>

\* onReset: back to the ingest screen; the run goes on, and so does an
\* approval that is being posted.
Reset ==
  /\ traceId # NoTrace
  /\ Switch(NoTrace, "idle", "ingest")
  /\ UNCHANGED <<recentVars, seen, approved, approving, posts, overtaken, drops>>

\* onApprove up to its await.
Approve ==
  /\ screen = "run" /\ status = "awaiting"
  /\ ~approved /\ ~approving
  /\ approving' = TRUE
  /\ posts' = [posts EXCEPT ![traceId] = @ + 1]
  /\ UNCHANGED <<recentVars, linkVars, ingestVars, traceId, status, screen, seen,
                 approved, overtaken, pollVars, drops>>

\* onApprove after its await: the answer counts as an answer to the run that is
\* on the screen by now, if any, and the status becomes "running" whatever it
\* was.  "done" is lost when it has not been rendered yet.
ApproveReturns(t) ==
  /\ posts[t] > 0
  /\ posts' = [posts EXCEPT ![t] = @ - 1]
  /\ approving' = FALSE
  /\ approved' = TRUE
  /\ SetStatus("running")
  /\ overtaken' = (overtaken \/ (status = "done" /\ screen # "result"))
  /\ UNCHANGED <<recentVars, linkVars, ingestVars, traceId, screen, seen, drops>>

\* The POST fails: only the buttons come back.
ApproveFails(t) ==
  /\ posts[t] > 0
  /\ drops < MaxDrops
  /\ posts' = [posts EXCEPT ![t] = @ - 1]
  /\ approving' = FALSE
  /\ drops' = drops + 1
  /\ UNCHANGED <<recentVars, linkVars, ingestVars, traceId, status, screen, seen,
                 approved, overtaken, pollVars>>

-----------------------------------------------------------------------------
Next ==
  \/ \E t \in Traces : \/ Publish(t) \/ Reject(t) \/ Start(t)
                        \/ ApproveReturns(t) \/ ApproveFails(t)
  \/ Attach \/ Deliver \/ Disconnect \/ Reconnect
  \/ IngestHook \/ Recompute \/ ShowResult
  \/ PollAsk \/ PollServe \/ PollReturn \/ PollFail
  \/ Approve \/ Reset

\* The browser's timers and effects run and the server answers; the SSE
\* connection, the runs and the user promise nothing.
Fairness ==
  /\ WF_vars(Recompute)
  /\ WF_vars(ShowResult)
  /\ WF_vars(PollAsk)
  /\ WF_vars(PollServe)
  /\ WF_vars(PollReturn)

Spec == Init /\ [][Next]_vars
FairSpec == Spec /\ Fairness

-----------------------------------------------------------------------------
(* Properties *)

TypeOK ==
  /\ RecentTypeOK
  /\ attached \in BOOLEAN
  /\ wire \in Seq(Envelopes)
  /\ retried \in BOOLEAN
  /\ hookBuf \subseteq Envelopes
  /\ traceId \in Traces \union {NoTrace}
  /\ status \in {"idle", "running", "awaiting", "done"}
  /\ screen \in {"ingest", "run", "result"}
  /\ applied \subseteq Numbers
  /\ maxSeq \in -1..Last
  /\ shown \in [Envelopes -> Nat]
  /\ stale \in BOOLEAN
  /\ approved \in BOOLEAN
  /\ approving \in BOOLEAN
  /\ posts \in [Traces -> Nat]
  /\ overtaken \in BOOLEAN
  /\ seen \subseteq Traces
  /\ asked \subseteq -1..Last
  /\ replies \subseteq SUBSET Envelopes
  /\ drops \in 0..MaxDrops

\* "Reconnects can never [...] duplicate an envelope" (App.tsx:228): live
\* delivery and replay of the same envelope are applied once.  A duplicate
\* would be counted twice in the totals and appended twice to the deltas.
OncePerEnvelope ==
  \A e, f \in Merged : shown[e] = 1 /\ (e[2] = f[2] => e = f)

\* Once the reviewer has answered, the screen never asks again: recomputing the
\* run from scratch does not undo the answer while the run is still writing.
NeverAsksAgain ==
  [][approved /\ traceId' = traceId /\ status' = "awaiting" => status = "awaiting"]_status

\* A run that has published its last envelope ends on the result screen, even if
\* the SSE connection never works and however long the approval's POST takes,
\* unless the POST is answered just after the end was merged and before it was
\* rendered: then the end is overwritten and never shown.
LastShown ==
  \A t \in Traces :
    traceId = t /\ <<t, Last>> \in sent ~> (screen = "result" \/ traceId # t \/ overtaken)

\* "Reconnects can never lose [...] an envelope" (App.tsx:228): once the run's
\* first envelope is applied, an envelope older than the newest applied one is
\* applied or still on its way, however often the subscription is reopened.
NeverLoses ==
  \A n \in Numbers :
    0 \in applied /\ <<traceId, n>> \in sent /\ n < maxSeq =>
      \/ n \in applied
      \/ <<traceId, n>> \in hookBuf
      \/ \E i \in DOMAIN wire : wire[i] = <<traceId, n>>
      \/ \E S \in replies : <<traceId, n>> \in S
=============================================================================
