-------------------------- MODULE MCStageScheduler --------------------------
(* Small instances of StageScheduler. *)
EXTENDS StageScheduler, TLC

RequestSymmetry == Permutations(Requests)
=============================================================================
