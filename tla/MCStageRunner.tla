----------------------------- MODULE MCStageRunner -----------------------------
(***************************************************************************)
(* StageRunner for TLC.  Runners are interchangeable: the model never      *)
(* chooses one, so their permutations are sound for the safety runs.       *)
(***************************************************************************)
EXTENDS StageRunner, TLC

Symmetry == Permutations(Runners)
================================================================================
