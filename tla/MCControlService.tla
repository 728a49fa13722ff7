-------------------------- MODULE MCControlService --------------------------
(***************************************************************************)
(* Small instances of ControlService.  A "short" reservation holds one     *)
(* unit of cache and works in one, a "long" one holds two and works in     *)
(* three; the weights are four.                                            *)
(***************************************************************************)
EXTENDS ControlService, TLC

CONSTANTS Short, Long

MCCacheBytes(s) == IF s = Long THEN 2 ELSE 1
MCWorkspaceBytes(s) == IF s = Long THEN 3 ELSE 1
MCCachedTokens(s) == IF s = Long THEN 2 ELSE 1

AddressSymmetry ==
  Permutations(Objects) \cup Permutations(Calls) \cup Permutations(Deployments)
    \cup Permutations(Ids)
=============================================================================
