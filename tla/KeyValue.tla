------------------------------- MODULE KeyValue -------------------------------
(***************************************************************************)
(* What the golden cache promises its readers: a map whose operations are  *)
(* atomic.  Entries disappear because somebody asked for it, or because    *)
(* they had been damaged from outside; a read may always miss.             *)
(***************************************************************************)
CONSTANTS Keys, Values, Absent, Procs

VARIABLES
  kv,      \* the value of every key
  asked,   \* keys whose removal is being asked for (input)
  spoiled, \* keys that were damaged from outside
  got      \* what each process read last

Put(k, v) == kv' = [kv EXCEPT ![k] = v] /\ UNCHANGED <<spoiled, got>>

Remove(K) ==
  /\ K \subseteq asked
  /\ kv' = [k \in Keys |-> IF k \in K THEN Absent ELSE kv[k]]
  /\ UNCHANGED <<spoiled, got>>

Read(p, k) == got' = [got EXCEPT ![p] = kv[k]] /\ UNCHANGED <<kv, spoiled>>
Miss(p) == got' = [got EXCEPT ![p] = Absent] /\ UNCHANGED <<kv, spoiled>>

Spoil(k) ==
  /\ kv' = [kv EXCEPT ![k] = Absent]
  /\ spoiled' = spoiled \union {k}
  /\ UNCHANGED got

Forget(k) ==
  /\ k \in spoiled
  /\ kv' = [kv EXCEPT ![k] = Absent]
  /\ UNCHANGED <<spoiled, got>>

Init ==
  /\ kv = [k \in Keys |-> Absent]
  /\ asked = {} /\ spoiled = {}
  /\ got = [p \in Procs |-> Absent]

Next ==
  \/ \E k \in Keys :
       \/ \E v \in Values : Put(k, v)
       \/ \E p \in Procs : Read(p, k)
       \/ Spoil(k) \/ Forget(k)
  \/ \E K \in SUBSET Keys : Remove(K)
  \/ \E p \in Procs : Miss(p)

Spec == Init /\ [][Next]_<<kv, spoiled, got>>
===============================================================================
