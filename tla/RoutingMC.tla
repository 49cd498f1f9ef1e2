------------------------------- MODULE RoutingMC -------------------------------
(***************************************************************************)
(* Routing with few thread ids, all alike: fewer than there are threads in *)
(* the life of the process.                                                *)
(***************************************************************************)
EXTENDS Routing, TLC

Symmetry == Permutations(Tids)
==============================================================================
