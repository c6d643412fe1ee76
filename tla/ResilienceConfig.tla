--------------------------- MODULE ResilienceConfig ---------------------------
(***************************************************************************)
(* How a wrapper's effective configuration comes about                     *)
(* (src/resilience/config.ts): defaults.json, the configuration of the     *)
(* call and the environment, each of them possibly missing or malformed    *)
(* in any field.  Fields the call's course does not depend on (the         *)
(* timeout, the backoff) resolve in the same way and are left out.         *)
(*                                                                         *)
(* A field of a source is a cell: unset, malformed, or good with a value.  *)
(***************************************************************************)
EXTENDS Naturals, Sequences

Steps == {"secondary_provider", "cache", "replay", "none"}

Unset == [is |-> "unset"]
Bad == [is |-> "bad"]
Good(x) == [is |-> "good", v |-> x]

Pick(cell, default) == IF cell.is = "good" THEN cell.v ELSE default

RetriesMax == 5
CheckedRetries(cell) == IF cell.is = "good" /\ cell.v \notin 0..RetriesMax THEN Bad ELSE cell
CheckedOrder(cell) ==
  IF cell.is = "good" /\ ~(\A i \in DOMAIN cell.v : cell.v[i] \in Steps) THEN Bad ELSE cell

(* FALLBACK_DEFAULTS *)
HardChain ==
  [order |-> <<"cache", "replay", "none">>, secondary |-> FALSE, cache |-> TRUE, replay |-> TRUE]
HardRetries == 2

(* Whatever is missing or malformed comes from the hard-coded defaults: a  *)
(* chain that is given replaces the whole chain, and a strategy without a  *)
(* usable key falls back to "auto".                                        *)
Normalize(config) ==
  LET chain == IF config.chain.is = "good" THEN config.chain.v ELSE [f \in {} |-> Unset]
      Part(f) ==
        IF f \notin DOMAIN chain THEN HardChain[f]
        ELSE Pick(IF f = "order" THEN CheckedOrder(chain[f]) ELSE chain[f], HardChain[f])
      key == Pick(config.key, "")
      strategy == Pick(config.strategy, "auto")
  IN [retries |-> Pick(CheckedRetries(config.retries), HardRetries),
      chain |-> [f \in DOMAIN HardChain |-> Part(f)],
      strategy |-> IF strategy = "explicit" /\ key = "" THEN "auto" ELSE strategy,
      key |-> key,
      forced |-> Pick(config.forced, FALSE)]

(* An effective configuration read as a source again. *)
AsSource(eff) ==
  [f \in DOMAIN eff |->
     Good(IF f = "chain" THEN [g \in DOMAIN eff.chain |-> Good(eff.chain[g])] ELSE eff[f])]

(* The shallow merge: a field the call sets wins, malformed or not. *)
Merge(globals, call) ==
  [f \in DOMAIN call |-> IF call[f].is = "unset" THEN globals[f] ELSE call[f]]

(* applyEnvOverrides: only "1" switches, only on; RES_RETRIES in range. *)
Override(eff, env) ==
  [eff EXCEPT !.forced = @ \/ (env.forced.is = "good"),
              !.retries = Pick(CheckedRetries(env.retries), @)]

\* Variant (fault injection): the configuration of the call is merged last.
Resolve_EnvFirst(file, call, env) ==
  Normalize(Merge(AsSource(Override(Normalize(file), env)), call))

(* loadGlobalDefaults and resolveConfig. *)
Resolve(file, call, env) == Override(Normalize(Merge(AsSource(Normalize(file)), call)), env)

NoConfig == [retries |-> Unset, chain |-> Unset, strategy |-> Unset, key |-> Unset, forced |-> Unset]

(* resolveBaseKey: a key in the dependencies, the explicit key as it is    *)
(* written, or one derived from key material.  The store looks an entry up *)
(* under a hash only.                                                      *)
BaseKey(eff, deps) ==
  IF deps.cacheKey # "none" THEN deps.cacheKey
  ELSE IF eff.strategy = "explicit" THEN "name"
  ELSE IF deps.keyInput THEN "hash" ELSE "none"

(* resolveRuntime: what one wrapper works with, for good. *)
Wrapper(eff, env, deps, variant, hook) ==
  [variant |-> variant, hook |-> hook,
   retries |-> eff.retries, forced |-> eff.forced, order |-> eff.chain.order,
   enabled |-> {s \in Steps : s = "none" \/ eff.chain[
                  CASE s = "secondary_provider" -> "secondary" [] OTHER -> s]},
   secondary |-> deps.secondary,
   key |-> BaseKey(eff, deps),
   killed |-> env.forced.is = "good"]

(* Strings: what a source can name a key. *)
EffectiveConfigs(Strings) ==
  [retries : 0..RetriesMax,
   chain : [order : Seq(Steps), secondary : BOOLEAN, cache : BOOLEAN, replay : BOOLEAN],
   strategy : {"auto", "explicit"}, key : Strings, forced : BOOLEAN]
===============================================================================
