------------------------- MODULE HandlerPairRegionMC -------------------------
(***************************************************************************)
(* Handler pairs whose payloads have the sizes of the message tables and   *)
(* keep an offset that is a multiple of 8 one, with buffers and a chunk    *)
(* that fill the region to its last byte.                                  *)
(***************************************************************************)
EXTENDS HandlerPairRegion, MessageTables, TLC

\* A system exclusive message and a note.
BufferedEvents == [kind |-> "events",
                   events |-> <<[type |-> "sysex", dump |-> 8], [type |-> "midi"]>>]

\* Two channels in and out, in doubles, 32 * (samples + 1) bytes: twice as many
\* fit, around one callback with events.
LargeBuffers == [kind |-> "process", sample |-> 8, samples |-> 16378,
                 ins |-> 2, outs |-> 2, accumulating |-> FALSE]

SizeOf(p) == Total(WriteRequest(p), 0)

\* A chunk that fills what large buffers and a callback leave of the region.
LargestChunk == {initial_size - SizeOf(LargeBuffers) - SizeOf(BufferedEvents)}
NoStrings    == {}
SomeEvents   == {BufferedEvents.events}

\* effGetProgramName, effGetParameterProperties, effEditGetRect, effGetChunk
\* and processDoubleReplacing; from the server audioMasterProcessEvents and
\* audioMasterGetVendorString.
AlignedEffectCalls ==
  StrOut(ProgNameLen) \cup InOut(ParamProperties) \cup RectPtr \cup ChunkPtr \cup {LargeBuffers}
AlignedHostCalls == EventsPtr \cup StrOut(VendorStrLen)

Symmetry == Permutations(Data)

\* Where calls of these payloads start.
Starts ==
  LET starts[n \in 1 .. MaxDepth + 1] ==
        IF n = 1 THEN {0}
        ELSE {o + Total(WriteRequest(m), o) : o \in starts[n - 1], m \in CallsAt(n - 1)}
  IN  starts

\* The payloads fit, the largest at the last byte.
ASSUME StartsFit == CallsFit(Starts)
==============================================================================
