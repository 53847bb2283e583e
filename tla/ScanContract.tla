------------------------------ MODULE ScanContract -----------------------------
(***************************************************************************)
(* What the orchestrator promises about one scan, without runners, leases  *)
(* or transactions: planned stages are only ever closed, never reopened;   *)
(* the scan is closed once no stage is open; a report follows a closed     *)
(* scan.  StageRunner implements it (StageRunner!Contract).                *)
(***************************************************************************)
EXTENDS Naturals

CONSTANT Planned   \* the planned stages

VARIABLES
  open,       \* stages not yet closed
  closed,     \* the scan reached a terminal status
  reported    \* a report exists

vars == <<open, closed, reported>>

Init ==
  /\ open = Planned
  /\ closed = FALSE
  /\ reported = FALSE

\* Stages finish, time out, or are blocked or cancelled behind another one.
CloseStages ==
  /\ ~closed
  /\ open' \in SUBSET open
  /\ UNCHANGED <<closed, reported>>

\* The scan is closed, together with whatever stages it still cancels.
CloseScan ==
  /\ ~closed
  /\ open' = {}
  /\ closed' = TRUE
  /\ UNCHANGED reported

Report ==
  /\ closed
  /\ reported' = TRUE
  /\ UNCHANGED <<open, closed>>

Next == CloseStages \/ CloseScan \/ Report

Spec == Init /\ [][Next]_vars
================================================================================
