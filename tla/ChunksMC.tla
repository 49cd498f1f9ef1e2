------------------------------- MODULE ChunksMC -------------------------------
(***************************************************************************)
(* Chunks with few threads and addresses, all alike.                       *)
(***************************************************************************)
EXTENDS Chunks, TLC

Symmetry == Permutations(Threads) \cup Permutations(Chunks)
==============================================================================
