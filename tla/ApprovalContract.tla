-------------------------- MODULE ApprovalContract --------------------------
(***************************************************************************)
(* What the approval gate promises, with no HTTP, thread or retry in it:   *)
(* a run is decided at most once, and what the run writes to Grafana lies  *)
(* inside that decision.                                                   *)
(***************************************************************************)
CONSTANTS Runs, Acts, Undecided

VARIABLES
  decision,  \* decision[r]: the actions a human approved, or Undecided
  written    \* written[r]: the actions of r that exist in Grafana

contractVars == <<decision, written>>

Init ==
  /\ decision = [r \in Runs |-> Undecided]
  /\ written = [r \in Runs |-> {}]

Decide(r, approved) ==
  /\ decision[r] = Undecided
  /\ decision' = [decision EXCEPT ![r] = approved]
  /\ UNCHANGED written

Write(r, a) ==
  /\ decision[r] # Undecided
  /\ a \in decision[r]
  /\ written' = [written EXCEPT ![r] = @ \union {a}]
  /\ UNCHANGED decision

Next ==
  \E r \in Runs :
    \/ \E approved \in SUBSET Acts : Decide(r, approved)
    \/ \E a \in Acts : Write(r, a)

Spec == Init /\ [][Next]_contractVars
=============================================================================
