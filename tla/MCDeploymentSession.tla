------------------------ MODULE MCDeploymentSession -------------------------
(* Two sessions, one of them measured, that share the workers of two stages. *)
(* They were given the same plan, or one plan each.                          *)
EXTENDS DeploymentSession

CONSTANTS a, b, p, q

EitherPlan == {[s \in Sessions |-> p], [s \in Sessions |-> IF s = a THEN p ELSE q]}
=============================================================================
