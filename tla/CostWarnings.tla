---------------------------- MODULE CostWarnings ----------------------------
(***************************************************************************)
(* Budget warnings of the cost guardrail (src/cost).  Threads call metered *)
(* functions; every wrapper appends a usage record to the one CostStore,   *)
(* checks the budgets and fans fresh warnings out to its own callback and  *)
(* to the store's listeners.  Between these steps the store's lock is      *)
(* released, so the steps of several threads interleave, and so do polls   *)
(* of check_budget, acknowledgements and resets.                           *)
(*                                                                         *)
(* A warning is identified by its key <<scope, level>>.  Budgets are in    *)
(* the unit "requests": every record, of a success or of a failure, adds   *)
(* one to each scope it counts in.  All wrappers have the same budgets.    *)
(***************************************************************************)
EXTENDS Naturals, FiniteSets

CONSTANTS
  Threads,
  Wrappers,
  Scopes,       \* "global" and the providers that have a budget
  ScopesOf,     \* ScopesOf[w]: the scopes the records of w count in
  Keys,         \* the <<scope, level>> with a threshold
  NoKey,        \* no key
  Limit,        \* Limit[k]: budget * threshold
  MaxRecords,   \* bound on records per scope
  MaxFailures,  \* bound on calls whose inner function raises
  MaxRearms,    \* bound on acknowledgements and resets
  Polling       \* whether anyone else calls check_budget

ASSUME CostAssumption ==
  /\ ScopesOf \in [Wrappers -> SUBSET Scopes]
  /\ \A k \in Keys : k[1] \in Scopes
  /\ NoKey \notin Keys
  /\ Limit \in [Keys -> Nat \ {0}]
  /\ MaxRecords \in Nat /\ MaxFailures \in Nat /\ MaxRearms \in Nat
  /\ Polling \in BOOLEAN

VARIABLES
  (* the store *)
  used,      \* used[s]: what _aggregate adds up for scope s
  active,    \* the keys that _fired holds as True
  fresh,     \* _fresh_edges
  (* each wrapper *)
  emitted,   \* emitted[w]: its own "fired" set
  (* each thread *)
  pc,
  wrapper,   \* whose call the thread is in
  todo,      \* keys of the warnings check_budget returned, still to be emitted
  at,        \* the key whose turn it is, or NoKey
  (* history *)
  due,       \* due[k]: crossings and re-armings of k that are to be heard of
  heard,     \* heard[k]: notifications of k to the store's listeners
  failures,
  rearms,
  alone      \* so far no call has failed or overlapped with anything, and
             \* nothing was acknowledged or reset

storeVars == <<used, active, fresh>>
threadVars == <<pc, wrapper, todo, at>>
historyVars == <<due, heard, failures, rearms, alone>>
vars == <<storeVars, emitted, threadVars, historyVars>>

Quiet == \A t \in Threads : pc[t] = "idle"

CrossedAt(u) == {k \in Keys : u[k[1]] >= Limit[k]}
Crossed == CrossedAt(used)

Init ==
  /\ used = [s \in Scopes |-> 0]
  /\ active = {}
  /\ fresh = {}
  /\ emitted = [w \in Wrappers |-> {}]
  /\ pc = [t \in Threads |-> "idle"]
  /\ wrapper \in [Threads -> Wrappers]
  /\ todo = [t \in Threads |-> {}]
  /\ at = [t \in Threads |-> NoKey]
  /\ due = [k \in Keys |-> 0]
  /\ heard = [k \in Keys |-> 0]
  /\ failures = 0
  /\ rearms = 0
  /\ alone = TRUE

-----------------------------------------------------------------------------
(* store.append: one more record in every scope of the wrapper. *)
Append(w) ==
  /\ \A s \in ScopesOf[w] : used[s] < MaxRecords
  /\ used' = [s \in Scopes |-> IF s \in ScopesOf[w] THEN used[s] + 1 ELSE used[s]]
  /\ due' = [k \in Keys |-> IF k \in CrossedAt(used') \ Crossed THEN due[k] + 1 ELSE due[k]]

\* Variant (fault injection): the wrapper does not check the budgets.
Meter_Unchecked(t, w) ==
  /\ pc[t] = "idle"
  /\ Append(w)
  /\ wrapper' = [wrapper EXCEPT ![t] = w]
  /\ alone' = (alone /\ Quiet)
  /\ UNCHANGED <<active, fresh, emitted, pc, todo, at, heard, failures, rearms>>

(* The inner call returned: metered_call appends, then goes on to check. *)
Meter(t, w) ==
  /\ pc[t] = "idle"
  /\ Append(w)
  /\ pc' = [pc EXCEPT ![t] = "check"]
  /\ wrapper' = [wrapper EXCEPT ![t] = w]
  /\ alone' = (alone /\ Quiet)
  /\ UNCHANGED <<active, fresh, emitted, todo, at, heard, failures, rearms>>

(* The inner call raised: _meter_failure appends and checks nothing. *)
MeterFailure(t, w) ==
  /\ pc[t] = "idle"
  /\ failures < MaxFailures
  /\ Append(w)
  /\ failures' = failures + 1
  /\ alone' = FALSE
  /\ UNCHANGED <<active, fresh, emitted, threadVars, heard, rearms>>

(* check_budget, under the store's lock: edges are fresh until the next    *)
(* check, a key that is no longer crossed is no longer active.             *)
CheckBudget ==
  /\ active' = Crossed
  /\ fresh' = Crossed \ active

Check(t) ==
  /\ pc[t] = "check"
  /\ CheckBudget
  /\ todo' = [todo EXCEPT ![t] = Crossed]
  /\ pc' = [pc EXCEPT ![t] = IF Crossed = {} THEN "idle" ELSE "emit"]
  /\ UNCHANGED <<used, emitted, wrapper, at, historyVars>>

(* A turn of the loop over the warnings: a key this wrapper has emitted    *)
(* before is skipped, another one it remembers, calls its callback for,    *)
(* and passes on to the store.                                             *)
Callback(t, k) ==
  LET w == wrapper[t] IN
  /\ pc[t] = "emit"
  /\ k \in todo[t] \ emitted[w]
  /\ emitted' = [emitted EXCEPT ![w] = @ \union {k}]
  /\ todo' = [todo EXCEPT ![t] = @ \ {k}]
  /\ at' = [at EXCEPT ![t] = k]
  /\ pc' = [pc EXCEPT ![t] = "notify"]
  /\ UNCHANGED <<storeVars, wrapper, historyVars>>

Skip(t) ==
  /\ pc[t] = "emit"
  /\ todo[t] \subseteq emitted[wrapper[t]]
  /\ todo' = [todo EXCEPT ![t] = {}]
  /\ pc' = [pc EXCEPT ![t] = "idle"]
  /\ UNCHANGED <<storeVars, emitted, wrapper, at, historyVars>>

\* Variant (fault injection): an edge stays fresh after its notification.
EmitWarning_Keeps(k) ==
  /\ heard' = IF k \in fresh THEN [heard EXCEPT ![k] = @ + 1] ELSE heard
  /\ fresh' = fresh

(* emit_warning: the listeners hear of a fresh crossing only. *)
EmitWarning(k) ==
  /\ heard' = IF k \in fresh THEN [heard EXCEPT ![k] = @ + 1] ELSE heard
  /\ fresh' = fresh \ {k}

Notify(t) ==
  /\ pc[t] = "notify"
  /\ EmitWarning(at[t])
  /\ at' = [at EXCEPT ![t] = NoKey]
  /\ pc' = [pc EXCEPT ![t] = "emit"]
  /\ UNCHANGED <<used, active, emitted, wrapper, todo, due, failures, rearms, alone>>

-----------------------------------------------------------------------------
(* A poll: render_summary, or a caller that consults check_budget. *)
Poll ==
  /\ Polling
  /\ CheckBudget
  /\ alone' = (alone /\ Quiet)
  /\ UNCHANGED <<used, emitted, threadVars, due, heard, failures, rearms>>

(* A crossing no listener has heard of yet is withdrawn. *)
Unheard == fresh \union (Crossed \ active)

\* Variant (fault injection): the acknowledged edge stays fresh.
Acknowledge_KeepsEdge(k) ==
  /\ rearms < MaxRearms
  /\ rearms' = rearms + 1
  /\ alone' = FALSE
  /\ active' = active \ {k}
  /\ due' = [due EXCEPT ![k] = IF k \in Crossed \ Unheard THEN @ + 1 ELSE @]
  /\ UNCHANGED <<used, fresh, emitted, threadVars, heard, failures>>

Acknowledge(k) ==
  /\ rearms < MaxRearms
  /\ rearms' = rearms + 1
  /\ alone' = FALSE
  /\ active' = active \ {k}
  /\ fresh' = fresh \ {k}
  /\ due' = [due EXCEPT ![k] = IF k \in Crossed \ Unheard THEN @ + 1 ELSE @]
  /\ UNCHANGED <<used, emitted, threadVars, heard, failures>>

Reset ==
  /\ rearms < MaxRearms
  /\ rearms' = rearms + 1
  /\ alone' = FALSE
  /\ used' = [s \in Scopes |-> 0]
  /\ active' = {}
  /\ fresh' = {}
  /\ due' = [k \in Keys |-> IF k \in Unheard THEN due[k] - 1 ELSE due[k]]
  /\ UNCHANGED <<emitted, threadVars, heard, failures>>

-----------------------------------------------------------------------------
Next ==
  \/ \E t \in Threads, w \in Wrappers : Meter(t, w)
  \/ \E t \in Threads, w \in Wrappers : MeterFailure(t, w)
  \/ \E t \in Threads : Check(t)
  \/ \E t \in Threads, k \in Keys : Callback(t, k)
  \/ \E t \in Threads : Skip(t)
  \/ \E t \in Threads : Notify(t)
  \/ Poll
  \/ \E k \in Keys : Acknowledge(k)
  \/ Reset

Spec == Init /\ [][Next]_vars

-----------------------------------------------------------------------------
(* Types. *)
TypeOK ==
  /\ used \in [Scopes -> 0..MaxRecords]
  /\ active \subseteq Keys /\ fresh \subseteq Keys
  /\ emitted \in [Wrappers -> SUBSET Keys]
  /\ pc \in [Threads -> {"idle", "check", "emit", "notify"}]
  /\ wrapper \in [Threads -> Wrappers]
  /\ todo \in [Threads -> SUBSET Keys]
  /\ at \in [Threads -> Keys \union {NoKey}]
  /\ \A t \in Threads : pc[t] = "notify" <=> at[t] # NoKey
  /\ due \in [Keys -> Nat] /\ heard \in [Keys -> Nat]
  /\ failures \in 0..MaxFailures /\ rearms \in 0..MaxRearms
  /\ alone \in BOOLEAN

(* The listeners are never notified more often than a threshold was        *)
(* crossed or re-armed, however calls, polls, acknowledgements and resets  *)
(* interleave: calls above a threshold do not spam.                        *)
AtMostOncePerCrossing == \A k \in Keys : heard[k] <= due[k]

(* No listener hears of a crossing the store no longer counts as active: a *)
(* warning that was acknowledged or reset is not delivered late.           *)
FreshIsActive == fresh \subseteq active

(* When no call is in progress and the last check saw what is crossed, the *)
(* listeners have been notified exactly once of every crossing.            *)
ExactlyOncePerCrossing == Quiet /\ active = Crossed => heard = due

(* So it is for calls that succeed one after the other, whoever polls      *)
(* between them, and then a check has seen every crossing before the next  *)
(* call starts.                                                            *)
AloneExactlyOnce == alone /\ Quiet => heard = due /\ active = Crossed
=============================================================================
