---------------------------- MODULE MCEventReplay ----------------------------
(***************************************************************************)
(* Instances of EventReplay for TLC.                                       *)
(***************************************************************************)
EXTENDS EventReplay

CONSTANTS run1, run2
=============================================================================
