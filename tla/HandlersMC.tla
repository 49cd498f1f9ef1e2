------------------------------- MODULE HandlersMC -------------------------------
(***************************************************************************)
(* Handlers with few threads: the one that loads the plugin calls it too,  *)
(* the others, an audio thread and a user interface's, are interchangeable. *)
(***************************************************************************)
EXTENDS Handlers, TLC

CONSTANTS main, t1, t2

AllThreads == {main, t1, t2}
Symmetry == Permutations({t1, t2})
==============================================================================
