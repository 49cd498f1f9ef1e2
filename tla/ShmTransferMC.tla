----------------------------- MODULE ShmTransferMC -----------------------------
(***************************************************************************)
(* Payloads for ShmTransfer: every kind, with sizes around the alignments. *)
(***************************************************************************)
EXTENDS ShmTransfer

Strings ==
  [kind : {"none", "str_null"}] \cup [kind : {"str_in", "str_out"}, size : {1, 2, 3, 5, 8, 24}]

Structures ==
  [kind : {"inout"}, size : {16}, align : {1, 4, 8}]
    \cup [kind : {"chunk"}, size : {0, 1, 7, 8, 9, 24}]
    \cup [kind : {"rect"}, present : BOOLEAN]

Audio ==
  [kind : {"process"}, sample : {4, 8}, samples : 0 .. 3, ins : 0 .. 2, outs : 0 .. 2,
   accumulating : BOOLEAN]

Midi == [type |-> "midi"]
Sysex(n) == [type |-> "sysex", dump |-> n]

\* Event lists whose system exclusive messages, except a last one, are a
\* multiple of 8 bytes long.
EventLists ==
  LET Inner == {Midi, Sysex(8), Sysex(16)}
      Final == Inner \cup {Sysex(0), Sysex(1), Sysex(6)}
  IN  [kind : {"events"},
       events : {<<>>} \cup {<<z>> : z \in Final}
                  \cup {<<x, z>> : x \in Inner, z \in Final}
                  \cup {<<x, y, z>> : x \in Inner, y \in Inner, z \in Final}]

AlignedPayloads == Strings \cup Structures \cup Audio \cup EventLists
AlignedBases == {0, 8, 24}

\* Strings have no alignment, and audio arrays establish their own.
AnywherePayloads == Strings \cup Audio
AnyBases == 0 .. 9

AllTransfers == [payload : AlignedPayloads, base : AlignedBases]
                  \cup [payload : AnywherePayloads, base : AnyBases]

\* Ordinary universal system exclusive messages: a GM reset, 6 bytes long,
\* and a note in the same buffer.
SysexTransfers ==
  {[base |-> 0, payload |-> [kind |-> "events", events |-> <<Sysex(6), Midi>>]]}
==============================================================================
