-------------------------- MODULE MCStagePipeline ---------------------------
(* StagePipeline for TLC: every prompt, chunk and output length up to the bounds. *)
EXTENDS StagePipeline
=============================================================================
