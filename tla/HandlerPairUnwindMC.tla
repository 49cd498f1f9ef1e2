------------------------- MODULE HandlerPairUnwindMC -------------------------
(***************************************************************************)
(* The messages of HandlerPairMC, with a host that catches exceptions.     *)
(***************************************************************************)
EXTENDS HandlerPairMC, HandlerPairUnwind
==============================================================================
