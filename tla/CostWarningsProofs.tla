-------------------------- MODULE CostWarningsProofs --------------------------
(***************************************************************************)
(* Theorems about CostWarnings, for any threads, wrappers, scopes, keys,   *)
(* thresholds and bounds.                                                  *)
(***************************************************************************)
EXTENDS CostWarnings, TLAPS

\* What is still owed of a key: the crossing nobody has heard of yet.
Owed(k) == IF k \in Unheard THEN 1 ELSE 0

\* Every notification that was sent, and every one still owed, is one that is due.
Account == \A k \in Keys : heard[k] + Owed(k) <= due[k]

WarningInv == TypeOK /\ FreshIsActive /\ Account

LEMMA InitInv == Init => WarningInv
<1> SUFFICES ASSUME Init PROVE WarningInv
  OBVIOUS
<1> USE CostAssumption DEF Init
<1>1. TypeOK
  BY DEF TypeOK
<1>2. Crossed = {}
  BY DEF Crossed, CrossedAt
<1>3. Account
  BY <1>2 DEF Account, Owed, Unheard
<1> QED
  BY <1>1, <1>3 DEF WarningInv, FreshIsActive

\* A record only adds crossings, and each of them is due.
LEMMA AppendAccounts ==
  ASSUME WarningInv, NEW w \in Wrappers, Append(w),
         active' = active, fresh' = fresh, heard' = heard
  PROVE  /\ used' \in [Scopes -> 0..MaxRecords]
         /\ due' \in [Keys -> Nat]
         /\ Crossed \subseteq Crossed'
         /\ Account'
<1> USE CostAssumption DEF WarningInv, TypeOK
<1>1. /\ used' \in [Scopes -> 0..MaxRecords]
      /\ \A s \in Scopes : used'[s] >= used[s]
  BY DEF Append
<1>2. Crossed \subseteq Crossed'
  BY <1>1 DEF Crossed, CrossedAt
<1>3. \A k \in Keys : due'[k] = IF k \in Crossed' \ Crossed THEN due[k] + 1 ELSE due[k]
  BY DEF Append, Crossed
<1>4. due' \in [Keys -> Nat]
  BY DEF Append
<1>5. \A k \in Keys : heard'[k] + Owed(k)' <= due'[k]
  BY <1>2, <1>3 DEF Account, Owed, Unheard
<1> QED
  BY <1>1, <1>2, <1>4, <1>5 DEF Account

\* A check turns the crossings it finds into fresh edges and owes no more.
LEMMA CheckAccounts ==
  ASSUME WarningInv, CheckBudget, used' = used, heard' = heard, due' = due
  PROVE  /\ active' \subseteq Keys /\ fresh' \subseteq Keys
         /\ FreshIsActive'
         /\ Account'
<1> USE DEF WarningInv, TypeOK
<1>1. Crossed' = Crossed /\ Crossed \subseteq Keys
  BY DEF Crossed, CrossedAt
<1>2. Unheard' \subseteq Unheard
  BY <1>1 DEF CheckBudget, Unheard
<1>3. Account'
  BY <1>2 DEF Account, Owed
<1> QED
  BY <1>1, <1>3 DEF CheckBudget, FreshIsActive

LEMMA NextInv == WarningInv /\ [Next]_vars => WarningInv'
<1> SUFFICES ASSUME WarningInv, [Next]_vars PROVE WarningInv'
  OBVIOUS
<1> USE CostAssumption DEF WarningInv
<1>1. ASSUME NEW t \in Threads, NEW w \in Wrappers, Meter(t, w) PROVE WarningInv'
  <2>1. Append(w) /\ active' = active /\ fresh' = fresh /\ heard' = heard
    BY <1>1 DEF Meter
  <2> QED
    BY <1>1, <2>1, AppendAccounts DEF Meter, TypeOK, FreshIsActive, Quiet
<1>2. ASSUME NEW t \in Threads, NEW w \in Wrappers, MeterFailure(t, w) PROVE WarningInv'
  <2>1. Append(w) /\ active' = active /\ fresh' = fresh /\ heard' = heard
    BY <1>2 DEF MeterFailure
  <2>2. TypeOK'
    <3>1. failures' \in 0..MaxFailures
      BY <1>2 DEF MeterFailure, TypeOK
    <3>2. alone' \in BOOLEAN /\ UNCHANGED <<active, fresh, emitted, threadVars, heard, rearms>>
      BY <1>2 DEF MeterFailure
    <3> QED
      BY <2>1, <3>1, <3>2, AppendAccounts DEF TypeOK, threadVars
  <2> QED
    BY <2>1, <2>2, AppendAccounts DEF FreshIsActive
<1>3. ASSUME NEW t \in Threads, Check(t) PROVE WarningInv'
  <2>1. CheckBudget /\ used' = used /\ heard' = heard /\ due' = due
    BY <1>3 DEF Check, historyVars
  <2>2. Crossed \subseteq Keys
    BY DEF Crossed, CrossedAt
  <2>3. TypeOK'
    BY <1>3, <2>1, <2>2, CheckAccounts DEF Check, TypeOK, historyVars
  <2> QED
    BY <2>1, <2>3, CheckAccounts
<1>4. ASSUME NEW t \in Threads, NEW k \in Keys, Callback(t, k) PROVE WarningInv'
  BY <1>4 DEF Callback, TypeOK, FreshIsActive, Account, Owed, Unheard, Crossed, storeVars, historyVars
<1>5. ASSUME NEW t \in Threads, Skip(t) PROVE WarningInv'
  BY <1>5 DEF Skip, TypeOK, FreshIsActive, Account, Owed, Unheard, Crossed, storeVars, historyVars
<1>6. ASSUME NEW t \in Threads, Notify(t) PROVE WarningInv'
  <2>1. at[t] \in Keys
    BY <1>6 DEF Notify, TypeOK
  <2>2. TypeOK' /\ FreshIsActive'
    BY <1>6, <2>1 DEF Notify, EmitWarning, TypeOK, FreshIsActive
  <2>3. Crossed' = Crossed
    BY <1>6 DEF Notify, Crossed
  <2>4. \A k \in Keys : heard'[k] + Owed(k)' <= due'[k]
    BY <1>6, <2>1, <2>3 DEF Notify, EmitWarning, TypeOK, FreshIsActive, Account, Owed, Unheard
  <2> QED
    BY <2>2, <2>4 DEF Account
<1>7. ASSUME Poll PROVE WarningInv'
  <2>1. CheckBudget /\ used' = used /\ heard' = heard /\ due' = due
    BY <1>7 DEF Poll
  <2>2. TypeOK'
    BY <1>7, <2>1, CheckAccounts DEF Poll, TypeOK, threadVars, Quiet
  <2> QED
    BY <2>1, <2>2, CheckAccounts
<1>8. ASSUME NEW k \in Keys, Acknowledge(k) PROVE WarningInv'
  <2>1. TypeOK' /\ FreshIsActive'
    <3>1. due' \in [Keys -> Nat] /\ rearms' \in 0..MaxRearms
      BY <1>8 DEF Acknowledge, TypeOK
    <3>2. /\ alone' = FALSE
          /\ active' = active \ {k} /\ fresh' = fresh \ {k}
          /\ UNCHANGED <<used, emitted, threadVars, heard, failures>>
      BY <1>8 DEF Acknowledge
    <3> QED
      BY <3>1, <3>2 DEF TypeOK, FreshIsActive, threadVars
  <2>2. Crossed' = Crossed
    BY <1>8 DEF Acknowledge, Crossed
  <2>3. \A j \in Keys : heard'[j] + Owed(j)' <= due'[j]
    BY <1>8, <2>2 DEF Acknowledge, TypeOK, Account, Owed, Unheard
  <2> QED
    BY <2>1, <2>3 DEF Account
<1>9. ASSUME Reset PROVE WarningInv'
  <2>1. Crossed' = {}
    BY <1>9 DEF Reset, Crossed, CrossedAt
  <2>2. \A k \in Keys : due'[k] \in Nat /\ heard'[k] + Owed(k)' <= due'[k]
    BY <1>9, <2>1 DEF Reset, TypeOK, Account, Owed, Unheard
  <2>3. TypeOK'
    <3>1. due' \in [Keys -> Nat] /\ rearms' \in 0..MaxRearms
      BY <1>9, <2>2 DEF Reset, TypeOK
    <3>2. used' \in [Scopes -> 0..MaxRecords]
      BY <1>9 DEF Reset
    <3>3. /\ alone' = FALSE
          /\ active' = {} /\ fresh' = {}
          /\ UNCHANGED <<emitted, threadVars, heard, failures>>
      BY <1>9 DEF Reset
    <3> QED
      BY <3>1, <3>2, <3>3 DEF TypeOK, threadVars
  <2> QED
    BY <1>9, <2>2, <2>3 DEF Reset, FreshIsActive, Account
<1>10. ASSUME UNCHANGED vars PROVE WarningInv'
  BY <1>10 DEF vars, storeVars, threadVars, historyVars, TypeOK, FreshIsActive, Account, Owed,
               Unheard, Crossed
<1> QED
  BY <1>1, <1>2, <1>3, <1>4, <1>5, <1>6, <1>7, <1>8, <1>9, <1>10 DEF Next

\* The state of the store and of every thread has its type, and a fresh
\* edge belongs to an active warning: nothing withdrawn is delivered late.
THEOREM TypesAndEdges == Spec => [](TypeOK /\ FreshIsActive)
<1>1. WarningInv => TypeOK /\ FreshIsActive
  BY DEF WarningInv
<1> QED
  BY <1>1, InitInv, NextInv, PTL DEF Spec

\* However many threads meter calls, poll, acknowledge and reset: the
\* listeners of a CostStore never hear more of a threshold than was due.
THEOREM NoSpam == Spec => []AtMostOncePerCrossing
<1>1. WarningInv => AtMostOncePerCrossing
  BY DEF WarningInv, TypeOK, Account, Owed, AtMostOncePerCrossing
<1> QED
  BY <1>1, InitInv, NextInv, PTL DEF Spec

-----------------------------------------------------------------------------
\* At most one thread is in a call, and when none is, every crossing was heard.
OneCall ==
  /\ \A t, u \in Threads : pc[t] # "idle" /\ pc[u] # "idle" => t = u
  /\ Quiet => fresh = {} /\ active = Crossed

\* A wrapper remembers only what the store still counts as active, so a
\* crossing that is found by a check is new to the wrapper as well.
Remembered == \A w \in Wrappers : emitted[w] \subseteq active

\* The call in progress still has every fresh edge on its list.
EdgesInHand ==
  \A t \in Threads :
    /\ pc[t] = "check" => fresh = {}
    /\ pc[t] \in {"emit", "notify"} =>
         /\ active = Crossed
         /\ todo[t] \subseteq active
         /\ fresh \subseteq todo[t] \union {at[t]}
         /\ fresh \intersect emitted[wrapper[t]] \subseteq {at[t]}

AloneInv ==
  alone =>
    /\ OneCall
    /\ Remembered
    /\ EdgesInHand
    /\ active \subseteq Crossed
    /\ \A k \in Keys : heard[k] + Owed(k) = due[k]

FullInv == WarningInv /\ AloneInv

LEMMA InitAlone == Init => AloneInv
<1> SUFFICES ASSUME Init PROVE AloneInv
  OBVIOUS
<1> USE CostAssumption DEF Init
<1>1. Crossed = {}
  BY DEF Crossed, CrossedAt
<1>2. \A k \in Keys : heard[k] + Owed(k) = due[k]
  BY <1>1 DEF Owed, Unheard
<1> QED
  BY <1>1, <1>2 DEF AloneInv, OneCall, Remembered, EdgesInHand

\* What a call does that starts while no other is in progress: it owes
\* exactly what its record has crossed.
LEMMA MeterAlone ==
  ASSUME FullInv, NEW t \in Threads, NEW w \in Wrappers, Meter(t, w), alone'
  PROVE  AloneInv'
<1> USE CostAssumption DEF FullInv, WarningInv
<1>1. alone /\ Quiet /\ fresh = {} /\ active = Crossed
  BY DEF Meter, AloneInv, OneCall
<1>2. Append(w) /\ active' = active /\ fresh' = fresh /\ heard' = heard /\ emitted' = emitted
  BY DEF Meter
<1>3. Crossed \subseteq Crossed'
  BY <1>2, AppendAccounts
<1>4. \A k \in Keys : heard'[k] + Owed(k)' = due'[k]
  <2>1. \A k \in Keys : due'[k] = IF k \in Crossed' \ Crossed THEN due[k] + 1 ELSE due[k]
    BY <1>2 DEF Append, Crossed
  <2>2. \A k \in Keys : Owed(k) = 0
    BY <1>1 DEF Owed, Unheard
  <2>3. \A k \in Keys : heard[k] = due[k]
    BY <1>1, <2>2 DEF AloneInv, TypeOK
  <2>4. Unheard' = Crossed' \ Crossed
    BY <1>1, <1>2 DEF Unheard
  <2> QED
    BY <1>2, <2>1, <2>3, <2>4 DEF Owed, TypeOK
<1>5. /\ pc' = [pc EXCEPT ![t] = "check"]
      /\ \A u \in Threads : u # t => pc'[u] = "idle"
      /\ pc'[t] = "check"
  BY <1>1 DEF Meter, Quiet, TypeOK
<1>6. OneCall' /\ EdgesInHand'
  BY <1>1, <1>2, <1>5 DEF OneCall, EdgesInHand, Quiet
<1> QED
  BY <1>1, <1>2, <1>3, <1>4, <1>6 DEF AloneInv, Remembered

\* The check of the only call in progress finds what the call has crossed.
LEMMA CheckAlone ==
  ASSUME FullInv, NEW t \in Threads, Check(t), alone'
  PROVE  AloneInv'
<1> USE CostAssumption DEF FullInv, WarningInv
<1>1. /\ alone /\ fresh = {} /\ active \subseteq Crossed /\ Remembered
      /\ \A u \in Threads : u # t => pc[u] = "idle"
  BY DEF Check, historyVars, AloneInv, OneCall, EdgesInHand
<1>2. /\ active' = Crossed /\ fresh' = Crossed \ active /\ Crossed' = Crossed
      /\ emitted' = emitted /\ wrapper' = wrapper /\ heard' = heard /\ due' = due
  BY DEF Check, CheckBudget, historyVars, Crossed
<1>3. Unheard' = Unheard
  BY <1>1, <1>2 DEF Unheard
<1>4. /\ \A u \in Threads : u # t => pc'[u] = "idle"
      /\ pc'[t] = IF Crossed = {} THEN "idle" ELSE "emit"
      /\ todo'[t] = Crossed
  BY <1>1 DEF Check, TypeOK
<1>5. OneCall'
  BY <1>2, <1>4 DEF OneCall, Quiet
<1>6. EdgesInHand'
  <2>1. fresh' \intersect emitted'[wrapper'[t]] = {}
    BY <1>1, <1>2 DEF Remembered, TypeOK
  <2> QED
    BY <1>2, <1>4, <2>1 DEF EdgesInHand
<1> QED
  BY <1>1, <1>2, <1>3, <1>5, <1>6 DEF AloneInv, Remembered, Owed

\* Its turns of the loop work its fresh edges off, one by one.
LEMMA LoopAlone ==
  ASSUME FullInv, NEW t \in Threads, alone',
         (\E k \in Keys : Callback(t, k)) \/ Skip(t) \/ Notify(t)
  PROVE  AloneInv'
<1> USE CostAssumption DEF FullInv, WarningInv
<1>1. /\ alone /\ pc[t] \in {"emit", "notify"} /\ active = Crossed
      /\ \A u \in Threads : u # t => pc[u] = "idle"
      /\ todo[t] \subseteq active
      /\ fresh \subseteq todo[t] \union {at[t]}
      /\ fresh \intersect emitted[wrapper[t]] \subseteq {at[t]}
  <2>1. alone
    BY DEF Callback, Skip, Notify, historyVars
  <2>2. pc[t] \in {"emit", "notify"}
    BY DEF Callback, Skip, Notify
  <2> QED
    BY <2>1, <2>2 DEF AloneInv, OneCall, EdgesInHand
<1>2. Crossed' = Crossed /\ active' = active /\ wrapper' = wrapper /\ due' = due
  BY DEF Callback, Skip, Notify, Crossed, storeVars, historyVars
<1>3. \A u \in Threads : u # t => pc'[u] = "idle"
  BY <1>1 DEF Callback, Skip, Notify, TypeOK
<1>4. Remembered /\ \A k \in Keys : heard[k] + Owed(k) = due[k]
  BY <1>1 DEF AloneInv
<1>5. Unheard = fresh
  BY <1>1 DEF Unheard
<1>6. ASSUME NEW k \in Keys, Callback(t, k) PROVE AloneInv'
  <2>1. /\ fresh' = fresh /\ heard' = heard /\ k \in todo[t] /\ at[t] = NoKey
        /\ pc'[t] = "notify" /\ at'[t] = k /\ todo'[t] = todo[t] \ {k}
        /\ emitted'[wrapper[t]] = emitted[wrapper[t]] \union {k}
        /\ \A w \in Wrappers : w # wrapper[t] => emitted'[w] = emitted[w]
    BY <1>6 DEF Callback, TypeOK, storeVars, historyVars
  <2>2. Remembered'
    BY <1>1, <1>2, <1>4, <2>1 DEF Remembered
  <2>3. OneCall'
    BY <1>3, <2>1 DEF OneCall, Quiet
  <2>4. EdgesInHand'
    BY <1>1, <1>2, <1>3, <2>1 DEF EdgesInHand, TypeOK
  <2>5. Unheard' = Unheard
    BY <1>2, <2>1 DEF Unheard
  <2> QED
    BY <1>1, <1>2, <1>4, <2>1, <2>2, <2>3, <2>4, <2>5 DEF AloneInv, Owed
<1>7. ASSUME Skip(t) PROVE AloneInv'
  <2>1. /\ fresh' = fresh /\ heard' = heard /\ emitted' = emitted
        /\ at[t] = NoKey /\ todo[t] \subseteq emitted[wrapper[t]] /\ pc'[t] = "idle"
    BY <1>7 DEF Skip, TypeOK, storeVars, historyVars
  <2>2. fresh = {}
    BY <1>1, <2>1 DEF TypeOK
  <2>3. OneCall' /\ EdgesInHand'
    BY <1>1, <1>2, <1>3, <2>1, <2>2 DEF OneCall, EdgesInHand, Quiet
  <2>4. Unheard' = Unheard
    BY <1>2, <2>1 DEF Unheard
  <2> QED
    BY <1>1, <1>2, <1>4, <2>1, <2>3, <2>4 DEF AloneInv, Owed, Remembered
<1>8. ASSUME Notify(t) PROVE AloneInv'
  <2>1. /\ fresh' = fresh \ {at[t]} /\ emitted' = emitted /\ todo' = todo
        /\ pc'[t] = "emit" /\ at'[t] = NoKey /\ at[t] \in Keys
        /\ heard' = IF at[t] \in fresh THEN [heard EXCEPT ![at[t]] = @ + 1] ELSE heard
    BY <1>8 DEF Notify, EmitWarning, TypeOK
  <2>2. OneCall'
    BY <1>3, <2>1 DEF OneCall, Quiet
  <2>3. EdgesInHand'
    BY <1>1, <1>2, <1>3, <2>1 DEF EdgesInHand
  <2>4. Unheard' = fresh'
    BY <1>1, <1>2 DEF Unheard
  <2>5. \A k \in Keys : heard'[k] + Owed(k)' = due'[k]
    BY <1>2, <1>4, <1>5, <2>1, <2>4 DEF Owed, TypeOK
  <2> QED
    BY <1>1, <1>2, <1>4, <2>1, <2>2, <2>3, <2>5 DEF AloneInv, Remembered
<1> QED
  BY <1>6, <1>7, <1>8

\* A poll between two calls finds what the last check has found.
LEMMA PollAlone ==
  ASSUME FullInv, Poll, alone'
  PROVE  AloneInv'
<1> USE DEF FullInv, WarningInv
<1>1. alone /\ Quiet /\ fresh = {} /\ active = Crossed
  BY DEF Poll, AloneInv, OneCall
<1>2. /\ active' = active /\ fresh' = {} /\ Crossed' = Crossed
      /\ UNCHANGED <<emitted, threadVars, due, heard>>
  BY <1>1 DEF Poll, CheckBudget, Crossed
<1>3. Unheard' = Unheard
  BY <1>1, <1>2 DEF Unheard
<1>4. OneCall' /\ EdgesInHand'
  BY <1>1, <1>2 DEF OneCall, EdgesInHand, Quiet, threadVars
<1> QED
  BY <1>1, <1>2, <1>3, <1>4 DEF AloneInv, Remembered, Owed

LEMMA NextAlone == FullInv /\ [Next]_vars => AloneInv'
<1> SUFFICES ASSUME FullInv, [Next]_vars, alone' PROVE AloneInv'
  BY DEF AloneInv
<1>1. ASSUME NEW t \in Threads, NEW w \in Wrappers, Meter(t, w) PROVE AloneInv'
  BY <1>1, MeterAlone
<1>2. ASSUME NEW t \in Threads, NEW w \in Wrappers, MeterFailure(t, w) PROVE AloneInv'
  BY <1>2 DEF MeterFailure
<1>3. ASSUME NEW t \in Threads, Check(t) PROVE AloneInv'
  BY <1>3, CheckAlone
<1>4. ASSUME NEW t \in Threads, (\E k \in Keys : Callback(t, k)) \/ Skip(t) \/ Notify(t)
      PROVE  AloneInv'
  BY <1>4, LoopAlone
<1>5. ASSUME Poll PROVE AloneInv'
  BY <1>5, PollAlone
<1>6. ASSUME NEW k \in Keys, Acknowledge(k) PROVE AloneInv'
  BY <1>6 DEF Acknowledge
<1>7. ASSUME Reset PROVE AloneInv'
  BY <1>7 DEF Reset
<1>8. ASSUME UNCHANGED vars PROVE AloneInv'
  BY <1>8 DEF FullInv, AloneInv, OneCall, Remembered, EdgesInHand, Owed, Unheard, Crossed, Quiet,
              vars, storeVars, threadVars, historyVars
<1> QED
  BY <1>1, <1>2, <1>3, <1>4, <1>5, <1>6, <1>7, <1>8 DEF Next

\* Calls that succeed one after the other are reported exactly: when the
\* last one is over, the listeners have heard of every crossing once.
THEOREM AloneIsExact == Spec => []AloneExactlyOnce
<1>1. Init => FullInv
  BY InitInv, InitAlone DEF FullInv
<1>2. FullInv /\ [Next]_vars => FullInv'
  BY NextInv, NextAlone DEF FullInv
<1>3. FullInv => AloneExactlyOnce
  <2> SUFFICES ASSUME FullInv, alone, Quiet PROVE heard = due /\ active = Crossed
    BY DEF AloneExactlyOnce
  <2>1. active = Crossed /\ fresh = {}
    BY DEF FullInv, AloneInv, OneCall
  <2>2. \A k \in Keys : Owed(k) = 0
    BY <2>1 DEF Owed, Unheard
  <2>3. heard \in [Keys -> Nat] /\ due \in [Keys -> Nat]
    BY DEF FullInv, WarningInv, TypeOK
  <2>4. \A k \in Keys : heard[k] = due[k]
    BY <2>2, <2>3 DEF FullInv, AloneInv
  <2> QED
    BY <2>1, <2>3, <2>4
<1> QED
  BY <1>1, <1>2, <1>3, PTL DEF Spec
=============================================================================
