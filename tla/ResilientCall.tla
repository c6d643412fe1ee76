---------------------------- MODULE ResilientCall ----------------------------
(***************************************************************************)
(* One call through withResilience (src/resilience/wrapper.ts and its      *)
(* Python twin wrapper.py): the retry loop over the primary callable, the  *)
(* validation hook with its single repair, the fallback chain, and the     *)
(* DegradedResult at its end.                                              *)
(*                                                                         *)
(* A wrapper is created once with a configuration.  The runtime exists in  *)
(* three copies of one algorithm: the async one (the same in TypeScript    *)
(* and Python), the sync one of Python and the sync one of TypeScript,     *)
(* which cannot read the golden cache; they differ in what they do with    *)
(* the stages of the chain.                                                *)
(* The answers of the callables are external: each may return in time,     *)
(* conforming to the schema or not, raise, or be too late.                 *)
(***************************************************************************)
EXTENDS ResilienceConfig

CONSTANT Configs  \* the wrappers considered

LegalConfig(c) ==
  /\ c.variant \in {"async", "sync", "sync_ts"}
  /\ c.retries \in Nat
  /\ c.forced \in BOOLEAN
  /\ c.order \in Seq(Steps)
  /\ c.enabled \subseteq Steps
  /\ c.secondary \in BOOLEAN  \* deps hold a secondary_provider
  /\ c.key \in {"none", "hash", "name"}  \* the base key, and whether entries have such names
  /\ c.killed \in BOOLEAN     \* RES_FORCED_DEGRADED=1 when the wrapper was made
  /\ c.hook \in {"none", "strict", "repair", "repair_async"}
       (* no validation, validation without, with a plain, with an async repair_llm *)

ASSUME ConfigAssumption == \A c \in Configs : LegalConfig(c)

VARIABLES
  cfg,
  pc,        \* where the call is
  attempt,   \* the retry loop's counter
  step,      \* position in fallback_chain.order
  err,       \* last_error: "none" or what it stands for
  raw,       \* the answer under validation: its source, and whether it conforms
  out,       \* what the caller gets
  (* history *)
  asked,     \* how often each external callable was called
  tried,     \* positions of the chain that were consulted
  faults     \* <<callable, error>> of every failed answer

vars == <<cfg, pc, attempt, step, err, raw, out, asked, tried, faults>>

NoAnswer == [from |-> "none", conforms |-> FALSE]
Pending == [kind |-> "pending", from |-> "none", conforms |-> FALSE, reason |-> "none"]

Async == cfg.variant = "async"

Init ==
  /\ cfg \in Configs
  /\ pc = "start"
  /\ attempt = 0
  /\ step = 1
  /\ err = "none"
  /\ raw = NoAnswer
  /\ out = Pending
  /\ asked = [x \in {"primary", "secondary", "repair"} |-> 0]
  /\ tried = {}
  /\ faults = {}

Ask(x) == asked' = [asked EXCEPT ![x] = @ + 1]
Fault(x, e) == faults' = faults \union {<<x, e>>}

(* The wrapper hands a value to its caller. *)
Give(from, conforms) ==
  /\ out' = [kind |-> "value", from |-> from, conforms |-> conforms, reason |-> "none"]
  /\ pc' = "returned"
  /\ UNCHANGED <<attempt, step, err>>

-----------------------------------------------------------------------------
(* The kill switch replaces the primary stage by an error. *)
Begin ==
  /\ pc = "start"
  /\ IF cfg.forced THEN pc' = "chain" /\ err' = "skipped"
                   ELSE pc' = "primary" /\ err' = err
  /\ UNCHANGED <<cfg, attempt, step, raw, out, asked, tried, faults>>

\* Variant (fault injection): a failed repair is retried like any other error.
PrimaryFailed_Repeats(e) ==
  /\ err' = e
  /\ Fault("primary", e)
  /\ pc' = IF attempt < cfg.retries THEN "backoff" ELSE "chain"
  /\ UNCHANGED <<attempt, step, out>>

(* The except branch of the retry loop: a failed repair ends the stage. *)
PrimaryFailed(e) ==
  /\ err' = e
  /\ Fault("primary", e)
  /\ pc' = IF e # "invalid" /\ attempt < cfg.retries THEN "backoff" ELSE "chain"
  /\ UNCHANGED <<attempt, step, out>>

Backoff ==
  /\ pc = "backoff"
  /\ attempt' = attempt + 1
  /\ pc' = "primary"
  /\ UNCHANGED <<cfg, step, err, raw, out, asked, tried, faults>>

(* In time: the answer goes to the validation hook. *)
PrimaryReturns(ok) ==
  /\ pc = "primary"
  /\ raw' = [from |-> "primary", conforms |-> ok]
  /\ pc' = "judge"
  /\ Ask("primary")
  /\ UNCHANGED <<cfg, attempt, step, err, out, tried, faults>>

(* It raises, or its answer comes after timeout_ms: wait_for abandons it   *)
(* (async), or the deadline is checked once it has joined (sync).          *)
PrimaryRaises(e) ==
  /\ pc = "primary"
  /\ Ask("primary")
  /\ PrimaryFailed(e)
  /\ UNCHANGED <<cfg, raw, tried>>

(* The sync variant cannot join an awaitable and hands it out as it is. *)
PrimaryAwaitable ==
  /\ pc = "primary"
  /\ ~Async
  /\ out' = [Pending EXCEPT !.kind = "awaitable", !.from = "primary"]
  /\ pc' = "returned"
  /\ Ask("primary")
  /\ UNCHANGED <<cfg, attempt, step, err, raw, tried, faults>>

-----------------------------------------------------------------------------
(* A stage of the chain is over without a value. *)
NextStage ==
  /\ step' = step + 1
  /\ pc' = "chain"
  /\ UNCHANGED <<attempt, out>>

\* Variant (fault injection): the sync variant remembers the error as well.
SecondaryFailed_Recorded(e) ==
  /\ err' = e
  /\ Fault("secondary", e)
  /\ NextStage

(* Only the async variant remembers the secondary provider's error. *)
SecondaryFailed(e) ==
  /\ err' = IF Async THEN e ELSE err
  /\ Fault("secondary", e)
  /\ NextStage

Rejected == IF raw.from = "primary" THEN PrimaryFailed("invalid") ELSE SecondaryFailed("invalid")

(* Without repair_llm, or with one the sync variant cannot await, a        *)
(* non-conforming answer is rejected; otherwise it is repaired, once.  The *)
(* sync variant of TypeScript has asked an async repair_llm by then.       *)
Repairable == cfg.hook = "repair" \/ (cfg.hook = "repair_async" /\ Async)

Accept ==
  /\ pc = "judge"
  /\ cfg.hook = "none" \/ raw.conforms
  /\ Give(raw.from, raw.conforms)
  /\ UNCHANGED <<cfg, raw, asked, tried, faults>>

Reject ==
  /\ pc = "judge"
  /\ cfg.hook # "none" /\ ~raw.conforms /\ ~Repairable
  /\ Rejected
  /\ IF cfg.variant = "sync_ts" /\ cfg.hook = "repair_async" THEN Ask("repair")
                                                            ELSE UNCHANGED asked
  /\ UNCHANGED <<cfg, raw, tried>>

AskRepair ==
  /\ pc = "judge"
  /\ ~raw.conforms /\ Repairable
  /\ Ask("repair")
  /\ pc' = "repair"
  /\ UNCHANGED <<cfg, attempt, step, err, raw, out, tried, faults>>

RepairReturns ==
  /\ pc = "repair"
  /\ Give(raw.from, TRUE)
  /\ UNCHANGED <<cfg, raw, asked, tried, faults>>

(* It raises, or what it returns does not conform either. *)
RepairFails ==
  /\ pc = "repair"
  /\ Rejected
  /\ UNCHANGED <<cfg, raw, asked, tried>>

-----------------------------------------------------------------------------
(* The fallback chain. *)
AtEnd == ~(step <= Len(cfg.order) /\ cfg.order[step] # "none")

Usable(s) ==
  /\ s \in cfg.enabled
  /\ IF s = "secondary_provider" THEN cfg.secondary /\ ~cfg.forced
                              ELSE cfg.key # "none" /\ cfg.variant # "sync_ts"

\* Variant (fault injection): an unusable stage ends the chain.
Skip_Ends ==
  /\ pc = "chain" /\ ~AtEnd
  /\ ~Usable(cfg.order[step])
  /\ step' = Len(cfg.order) + 1
  /\ pc' = "chain"
  /\ UNCHANGED <<cfg, attempt, err, raw, out, asked, tried, faults>>

\* Variant (fault injection): an unusable stage is tried again and again.
Skip_Stays ==
  /\ pc = "chain" /\ ~AtEnd
  /\ ~Usable(cfg.order[step])
  /\ UNCHANGED vars

Skip ==
  /\ pc = "chain" /\ ~AtEnd
  /\ ~Usable(cfg.order[step])
  /\ NextStage
  /\ UNCHANGED <<cfg, err, raw, asked, tried, faults>>

(* GoldenCache.get never raises: the stage hits or misses, and under a     *)
(* key that is not a hash it always misses.                                *)
LookUp(hit) ==
  /\ pc = "chain" /\ ~AtEnd
  /\ hit => cfg.key = "hash"
  /\ cfg.order[step] \in {"cache", "replay"} /\ Usable(cfg.order[step])
  /\ tried' = tried \union {step}
  /\ \/ hit /\ Give(cfg.order[step], FALSE)
     \/ ~hit /\ NextStage /\ err' = err
  /\ UNCHANGED <<cfg, raw, asked, faults>>

CallSecondary ==
  /\ pc = "chain" /\ ~AtEnd
  /\ cfg.order[step] = "secondary_provider" /\ Usable(cfg.order[step])
  /\ tried' = tried \union {step}
  /\ Ask("secondary")
  /\ pc' = "secondary"
  /\ UNCHANGED <<cfg, attempt, step, err, raw, out, faults>>

(* The async variant validates the secondary provider's answer, the sync   *)
(* variant returns it as it is.                                            *)
SecondaryReturns(ok) ==
  /\ pc = "secondary"
  /\ IF Async
     THEN /\ raw' = [from |-> "secondary_provider", conforms |-> ok]
          /\ pc' = "judge"
          /\ UNCHANGED <<attempt, step, err, out>>
     ELSE /\ Give("secondary_provider", ok)
          /\ UNCHANGED raw
  /\ UNCHANGED <<cfg, asked, tried, faults>>

(* Too late only when it is awaited: the sync variant has no deadline here. *)
SecondaryRaises(e) ==
  /\ pc = "secondary"
  /\ e = "timeout" => Async
  /\ SecondaryFailed(e)
  /\ UNCHANGED <<cfg, raw, asked, tried>>

SecondaryAwaitable ==
  /\ pc = "secondary"
  /\ ~Async
  /\ NextStage
  /\ UNCHANGED <<cfg, err, raw, asked, tried, faults>>

(* _terminal's reason. *)
Reason ==
  CASE err = "invalid" -> "validation_repair_failed"
    [] err # "invalid" /\ cfg.forced -> "forced_degraded"
    [] err = "timeout" /\ ~cfg.forced -> "primary_timeout"
    [] err \notin {"invalid", "timeout"} /\ ~cfg.forced -> "primary_failed"

Degrade ==
  /\ pc = "chain" /\ AtEnd
  /\ out' = [Pending EXCEPT !.kind = "degraded", !.reason = Reason]
  /\ pc' = "returned"
  /\ UNCHANGED <<cfg, attempt, step, err, raw, asked, tried, faults>>

-----------------------------------------------------------------------------
Primary ==
  \/ \E ok \in BOOLEAN : PrimaryReturns(ok)
  \/ \E e \in {"error", "timeout"} : PrimaryRaises(e)
  \/ PrimaryAwaitable

Secondary ==
  \/ \E ok \in BOOLEAN : SecondaryReturns(ok)
  \/ \E e \in {"error", "timeout"} : SecondaryRaises(e)
  \/ SecondaryAwaitable

Repair == RepairReturns \/ RepairFails

Internal ==
  \/ Begin \/ Backoff
  \/ Accept \/ Reject \/ AskRepair
  \/ Skip \/ CallSecondary \/ Degrade
  \/ \E hit \in BOOLEAN : LookUp(hit)

Next == Internal \/ Primary \/ Secondary \/ Repair

Spec == Init /\ [][Next]_vars

(* The wrapper's own steps are taken.  A callable is sure to answer only   *)
(* where wait_for bounds it, which is the async variant's two providers;   *)
(* nothing bounds a sync callable or a repair.                             *)
Fairness ==
  /\ WF_vars(Internal)
  /\ WF_vars(Async /\ (Primary \/ Secondary))

FairSpec == Spec /\ Fairness

-----------------------------------------------------------------------------
PrimaryRejected == <<"primary", "invalid">> \in faults

(* Once an answer of the primary callable was rejected after its repair,   *)
(* the primary callable is never asked again.                              *)
NoRetryAfterRejection ==
  [][PrimaryRejected => asked'["primary"] = asked["primary"]]_vars

(* RES-02, RES-03: stages are taken in order and none is passed    *)
(* over.  The primary callable is given up only when its retries are used  *)
(* up or a repair has failed; whatever ends the call, every usable stage   *)
(* before the one that answered was consulted, and none behind a "none".   *)
Answering == IF out.kind = "degraded" THEN Len(cfg.order) + 1 ELSE step
StagesInOrder ==
  /\ asked["primary"] <= cfg.retries + 1
  /\ pc = "chain" /\ ~cfg.forced =>
       asked["primary"] = cfg.retries + 1 \/ PrimaryRejected
  /\ pc = "returned" /\ out.from # "primary" =>
       tried \ {Answering} =
         {i \in 1..Len(cfg.order) :
            /\ i < Answering
            /\ \A j \in 1..i : cfg.order[j] # "none"
            /\ Usable(cfg.order[i])}

(* RES-07: whatever defaults.json and the call's configuration say, well   *)
(* or malformed, RES_FORCED_DEGRADED=1 keeps every provider out of every   *)
(* stage and is what a degraded result gives as its reason.                *)
KillSwitchHolds ==
  cfg.killed =>
    /\ \A x \in DOMAIN asked : asked[x] = 0
    /\ out.kind = "degraded" => out.reason = "forced_degraded"

(* What the caller gets is true of this call.  The reason of a degraded    *)
(* result names a rejection, the kill switch, an answer that was too late, *)
(* or another failure of a provider; and in the sync variant a rejection   *)
(* of the primary answer is never hidden by what failed after it.  A value *)
(* that a provider returned through an async wrapper with validation       *)
(* conforms, whichever provider it was and whether or not it had to be     *)
(* repaired.  (The sync variant hands out its secondary provider's value   *)
(* unvalidated.)                                                           *)
OutcomeHonest ==
  /\ out.kind = "degraded" =>
       /\ out.reason = "validation_repair_failed" => \E f \in faults : f[2] = "invalid"
       /\ out.reason = "forced_degraded" <=> cfg.forced
       /\ out.reason = "primary_timeout" => \E f \in faults : f[2] = "timeout"
       /\ out.reason = "primary_failed" => \E f \in faults : f[2] = "error"
       /\ ~Async /\ PrimaryRejected => out.reason = "validation_repair_failed"
  /\ Async /\ cfg.hook # "none" /\ out.kind = "value"
       /\ out.from \in {"primary", "secondary_provider"} => out.conforms

(* timeout_ms bounds the repair of an async wrapper too. *)
RepairBounded == Async /\ cfg.hook = "repair_async" ~> pc = "returned"

(* Where nothing is repaired the timeouts bound every async call. *)
UnrepairedReturns == Async /\ cfg.hook \in {"none", "strict"} ~> pc = "returned"
=============================================================================
