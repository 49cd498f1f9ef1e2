---------------------------- MODULE HandlerPairMC ----------------------------
(***************************************************************************)
(* Message sets for HandlerPair.  Sizes are small stand-ins for the VST    *)
(* constants: none of them keeps an offset aligned.                        *)
(***************************************************************************)
EXTENDS HandlerPair

\* Strings, aligned to nothing: effCanDo, effSetProgramName, effGetVendorString
\* and, from the server, audioMasterCanDo and audioMasterGetTime.
StringEffectCalls == {[kind |-> "str_in", size |-> 5], [kind |-> "str_out", size |-> 3]}
StringHostCalls   == {[kind |-> "str_in", size |-> 2], [kind |-> "none"]}

\* A string of odd length around effGetChunk.
MixedEffectCalls == {[kind |-> "str_in", size |-> 5], [kind |-> "chunk", size |-> 24]}
MixedHostCalls   == {[kind |-> "none"]}

==============================================================================
