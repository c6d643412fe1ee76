------------------------------- MODULE ToolRun -------------------------------
(***************************************************************************)
(* What every command-line tool of src/ideation and src/provenance owes to *)
(* whoever runs it after editing the inputs: its main artifact is always   *)
(* whole and made by one run; a run whose inputs were refused leaves what  *)
(* was there; a run that reports success, or reports that it flagged or    *)
(* mended something, leaves exactly what it settled on, which is what its  *)
(* inputs make, or else the substitute it resorted to.  A last resort that *)
(* is refused as well may be reported as a success; only then does success *)
(* mean nothing but that the artifact is the old one or the new.           *)
(***************************************************************************)
VARIABLES
  status,  \* "idle", "running", or how the last run ended
  want,    \* what the inputs of the run make, once it knows
  output,  \* the artifact on disk
  lastResort  \* the run writes a substitute whose failure it does not report

Begin == status # "running" /\ status' = "running" /\ UNCHANGED output
Decide == status = "running" /\ UNCHANGED <<status, output>>
Publish == status = "running" /\ output' = want /\ UNCHANGED status

Succeed ==
  /\ status = "running" /\ output' = want
  /\ status' \in (IF lastResort THEN {"mended"} ELSE {"ok", "mended", "flagged"})

(* The substitute was refused too, and the exit code is that of success.   *)
Overclaim ==
  /\ status = "running" /\ lastResort
  /\ status' = "claimed" /\ output' \in {output, want}

(* Stopped by a gate, or asked only to check: the run ends as it began. *)
Refuse ==
  /\ status # "running"
  /\ status' \in {"refused", "checked"}
  /\ UNCHANGED output

(* A write refused by the file system, or the death of the process. *)
BreakOff == status = "running" /\ status' = "broken" /\ output' \in {output, want}

Next ==
  \/ Begin \/ Decide \/ Publish \/ Succeed \/ Overclaim \/ Refuse \/ BreakOff

Spec == status = "idle" /\ [][Next]_<<status, want, output>>
===============================================================================
