---------------------------- MODULE MCGuardianRun ----------------------------
(***************************************************************************)
(* Instances of GuardianRun for TLC.                                       *)
(***************************************************************************)
EXTENDS GuardianRun

CONSTANTS r1, r2, t1, annotate, note, prio

OneTrace == [r \in Runs |-> t1]
=============================================================================
