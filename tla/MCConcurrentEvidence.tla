------------------------ MODULE MCConcurrentEvidence ------------------------
(* Two hosts, CUDA and MLX. *)
EXTENDS ConcurrentEvidence

MCBackends == <<"cuda", "mlx">>
=============================================================================
