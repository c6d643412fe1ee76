--------------------------- MODULE MCResilientCall ---------------------------
(***************************************************************************)
(* Instances of ResilientCall for TLC: the wrappers that come out of every *)
(* combination of sources, dependencies and variants.  The orders of the   *)
(* chain are the shipped one, the README's, one that ends early and one    *)
(* that never says "none".                                                 *)
(***************************************************************************)
EXTENDS ResilientCall

CONSTANT MaxRetries

Orders ==
  {<<"secondary_provider", "cache", "replay", "none">>,
   <<"secondary_provider", "none", "cache">>,
   <<"replay", "secondary_provider", "cache">>}

Chains ==
  [order : {Good(o) : o \in Orders}, secondary : {Good(TRUE), Good(FALSE)},
   cache : {Good(FALSE), Unset}, replay : {Bad, Good(FALSE)}]

Files ==
  {NoConfig,
   [NoConfig EXCEPT !.forced = Good(TRUE), !.retries = Bad, !.strategy = Good("explicit")],
   [NoConfig EXCEPT !.retries = Good(1), !.key = Good("named"),
                    !.chain = Good([secondary |-> Good(TRUE)])]}

Calls ==
  [retries : {Unset, Bad, Good(RetriesMax + 1), Good(0), Good(MaxRetries)},
   chain : {Unset, Bad, Good([order |-> Good(<<"retry">>)])} \union {Good(c) : c \in Chains},
   strategy : {Good("explicit")},
   key : {Unset, Good("named")},
   forced : {Unset, Good(FALSE)}]

Envs == [retries : {Unset, Bad, Good(1)}, forced : {Bad, Good(TRUE)}]

Resolved ==
  {<<Resolve(f, c, e), e>> : f \in Files, c \in Calls, e \in Envs}

(* Resolution never fails and never lets a malformed field through. *)
ASSUME ResolverIsTotal == \A r \in Resolved : r[1] \in EffectiveConfigs(STRING)

Deps == [secondary : BOOLEAN, cacheKey : {"none", "hash"}, keyInput : {FALSE}]
        \union [secondary : {TRUE}, cacheKey : {"none"}, keyInput : {TRUE}]

MCConfigs ==
  {Wrapper(r[1], r[2], d, v, h) :
     r \in Resolved, d \in Deps, v \in {"async", "sync", "sync_ts"},
     h \in {"none", "strict", "repair", "repair_async"}}
=============================================================================
