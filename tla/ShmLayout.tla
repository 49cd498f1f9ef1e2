------------------------------ MODULE ShmLayout ------------------------------
(***************************************************************************)
(* How the arguments of one call are laid out in the shared memory of a    *)
(* handler.  The four cursors of a call - the caller writing the request,  *)
(* the callee mapping it, the callee writing the response, the caller      *)
(* reading it - are four sequences of msg::io::buf operations over the     *)
(* same memory, starting from the offset of the handler.  Nothing but the  *)
(* equality of the offsets ties them together.                             *)
(*                                                                         *)
(* Source: common/msg/io/{base,buf,audio,msg}.hpp and                      *)
(* common/msg/payload/request.hpp.  A payload is a record: its kind and    *)
(* the sizes the layout depends on, never its bytes.                       *)
(***************************************************************************)
EXTENDS Naturals, Sequences, SequencesExt

\* Sizes of the 64-bit build; the VST SDK's header gives those of the events.
IntSize       == 4
PtrSize       == 8
EventSize     == 32   \* VstEvent, VstMidiEvent: alignment 4
SysexSize     == 48   \* VstMidiSysexEvent: alignment 8
RectSize      == 8    \* ERect: four 16-bit integers
EvHeaderSize  == 16   \* vst_events_header: a VstInt32 and a VstIntPtr

------------------------------------------------------------------------------
\* Cursor operations.  "write" and "read" copy at the cursor as it stands;
\* "skip" and "map" move it to the type's alignment first.
Step(op, field, size, align) ==
  [op |-> op, field |-> field, size |-> size, align |-> align]

Write(f, size)       == Step("write", f, size, 1)
Read(f, size)        == Step("read", f, size, 1)
Skip(f, size, align) == Step("skip", f, size, align)
MapTo(f, size, align) == Step("map", f, size, align)

\* The mask (offset + a - 1) & ~(a - 1), for a power of two a.
AlignOffset(offset, a) == ((offset + a - 1) \div a) * a

\* Where the datum of a step lies when the cursor is at offset.
StartOf(c, offset) ==
  IF c.op \in {"skip", "map"} THEN AlignOffset(offset, c.align) ELSE offset

\* The cursor after the first k steps.
Cursor(steps, offset) ==
  LET at[k \in 0 .. Len(steps)] ==
        IF k = 0 THEN offset ELSE StartOf(steps[k], at[k-1]) + steps[k].size
  IN  at

FieldAt(steps, offset, k) == StartOf(steps[k], Cursor(steps, offset)[k-1])

\* buf::total.
Total(steps, offset) == Cursor(steps, offset)[Len(steps)] - offset

------------------------------------------------------------------------------
\* A field is named by a pair, so that the i-th event and the i-th channel
\* have names of their own.
F(name)      == <<name, 0>>
FI(name, i)  == <<name, i>>

ForEach(n, Steps(_)) == FlattenSeq([i \in 1 .. n |-> Steps(i)])

\* Mistakes the properties notice, see HandlerPair: a table that holds the
\* pointers and no more; a cursor that forgets the array of pointers.
WriteEvents_bug(evs) ==
  <<Write(F("header"), EvHeaderSize), Skip(F("ptrs"), PtrSize * Len(evs), PtrSize)>>
  \o ForEach(Len(evs), LAMBDA i : <<Write(FI("event", i), EventSize)>>)
WriteAudio_bug(f, p, n) == ForEach(n, LAMBDA i : <<Write(FI(f, i), p.sample * p.samples)>>)
SkipAudio_bug(f, p, n)  == <<Skip(F(f), p.sample * p.samples * n, p.sample)>>
ReadAudio_bug(f, p, n)  == ForEach(n, LAMBDA i : <<Read(FI(f, i), p.sample * p.samples)>>)
MapAudio_bug(f, p, n)   ==
  ForEach(n, LAMBDA i : <<MapTo(FI(f, i), p.sample * p.samples, p.sample)>>)

\* write_request of vst_events_out: events are copied one after the other.
WriteEvents(evs) ==
  <<Write(F("header"), EvHeaderSize), Skip(F("ptrs"), EventSize * Len(evs), 4)>>
  \o ForEach(Len(evs), LAMBDA i :
       IF evs[i].type = "midi"
         THEN <<Write(FI("event", i), EventSize)>>
         ELSE <<Write(FI("event", i), SysexSize), Write(FI("dump", i), evs[i].dump)>>)

\* read_request: a map of length 0 finds the type, then the event is mapped.
MapEvents(evs) ==
  <<MapTo(F("header"), EvHeaderSize, 8), Skip(F("ptrs"), EventSize * Len(evs), 4)>>
  \o ForEach(Len(evs), LAMBDA i :
       <<MapTo(FI("event", i), 0, 4)>> \o
       IF evs[i].type = "midi"
         THEN <<MapTo(FI("event", i), EventSize, 4)>>
         ELSE <<MapTo(FI("event", i), SysexSize, 8), MapTo(FI("dump", i), evs[i].dump, 1)>>)

SkipEvents(evs) ==
  <<Skip(F("header"), EvHeaderSize, 8), Skip(F("ptrs"), EventSize * Len(evs), 4)>>
  \o ForEach(Len(evs), LAMBDA i :
       IF evs[i].type = "midi"
         THEN <<Skip(FI("event", i), EventSize, 4)>>
         ELSE <<Skip(FI("event", i), SysexSize, 8), Skip(FI("dump", i), evs[i].dump, 1)>>)

\* The audio arrays: an array of pointers, then one array per channel.
WriteAudio(f, p, n) ==
  <<Skip(F(f), PtrSize * n, PtrSize)>>
  \o ForEach(n, LAMBDA i : <<Write(FI(f, i), p.sample * p.samples)>>)
MapAudio(f, p, n) ==
  <<MapTo(F(f), PtrSize * n, PtrSize)>>
  \o ForEach(n, LAMBDA i : <<MapTo(FI(f, i), p.sample * p.samples, p.sample)>>)
SkipAudio(f, p, n) ==
  <<Skip(F(f), PtrSize * n, PtrSize), Skip(F(f), p.sample * p.samples * n, p.sample)>>
ReadAudio(f, p, n) ==
  <<Skip(F(f), PtrSize * n, PtrSize)>>
  \o ForEach(n, LAMBDA i : <<Read(FI(f, i), p.sample * p.samples)>>)

------------------------------------------------------------------------------
\* The four cursors of a payload: the caller writes the request, the callee
\* maps it, the callee writes the response, the caller reads it.
Cursors(write, map, answer, read) ==
  [write |-> write, map |-> map, answer |-> answer, read |-> read]

\* C strings and blocks of bytes from the caller, which may be null.
SizedInArray(p) ==
  LET size == Read(F("size"), IntSize)
  IN  IF p.kind = "str_null"
        THEN Cursors(<<Write(F("size"), IntSize)>>, <<size>>, <<size>>, <<size>>)
        ELSE Cursors(<<Write(F("size"), IntSize), Write(F("data"), p.size)>>,
                     <<size, MapTo(F("data"), p.size, 1)>>,
                     <<size, Skip(F("data"), p.size, 1)>>,
                     <<size, Skip(F("data"), p.size, 1)>>)

\* Strings from the callee; structures it may read and change.
ShmArray(p) ==
  LET align == IF p.kind = "str_out" THEN 1 ELSE p.align
  IN  Cursors(<<IF p.kind = "str_out" THEN Skip(F("data"), p.size, 1)
                                      ELSE Write(F("data"), p.size)>>,
              <<MapTo(F("data"), p.size, align)>>,
              <<Skip(F("data"), p.size, align)>>,
              <<Read(F("data"), p.size)>>)

\* A pointer that the callee sets; its target travels with the answer.
ChunkOut(p) ==
  Cursors(<<Write(F("ptr"), PtrSize)>>, <<MapTo(F("ptr"), PtrSize, PtrSize)>>,
          <<Write(F("chunk"), p.size)>>, <<Read(F("chunk"), p.size)>>)
RectOut(p) ==
  Cursors(<<Write(F("ptr"), PtrSize)>>, <<MapTo(F("ptr"), PtrSize, PtrSize)>>,
          <<Skip(F("ptr"), PtrSize, PtrSize)>> \o
            (IF p.present THEN <<Write(F("rect"), RectSize)>> ELSE <<>>),
          <<Read(F("ptr"), PtrSize)>> \o
            (IF p.present THEN <<Read(F("rect"), RectSize)>> ELSE <<>>))

VstEventsOut(p) ==
  Cursors(WriteEvents(p.events), MapEvents(p.events),
          SkipEvents(p.events), SkipEvents(p.events))

\* The outputs of process are added to, those of processReplacing are not sent.
AudioArrays(p) ==
  Cursors(WriteAudio("in", p, p.ins) \o
            (IF p.accumulating THEN WriteAudio("out", p, p.outs)
                               ELSE SkipAudio("out", p, p.outs)),
          MapAudio("in", p, p.ins) \o MapAudio("out", p, p.outs),
          SkipAudio("in", p, p.ins) \o SkipAudio("out", p, p.outs),
          SkipAudio("in", p, p.ins) \o ReadAudio("out", p, p.outs))

Payload(p) ==
  CASE p.kind = "none"                   -> Cursors(<<>>, <<>>, <<>>, <<>>)
    [] p.kind \in {"str_null", "str_in"} -> SizedInArray(p)
    [] p.kind \in {"str_out", "inout"}   -> ShmArray(p)
    [] p.kind = "chunk"                  -> ChunkOut(p)
    [] p.kind = "rect"                   -> RectOut(p)
    [] p.kind = "events"                 -> VstEventsOut(p)
    [] p.kind = "process"                -> AudioArrays(p)

WriteRequest(p)  == Payload(p).write
MapRequest(p)    == Payload(p).map
WriteResponse(p) == Payload(p).answer
ReadResponse(p)  == Payload(p).read

------------------------------------------------------------------------------
\* What the two programs put into the memory, and where each looks for it.
Fields(steps, ops) ==
  {steps[k].field : k \in {j \in DOMAIN steps : steps[j].op \in ops}}

PlacesOf(steps, offset, ops, fields) ==
  {[lo |-> FieldAt(steps, offset, k),
    hi |-> FieldAt(steps, offset, k) + steps[k].size] :
     k \in {j \in DOMAIN steps : /\ steps[j].op \in ops
                                /\ steps[j].field \in fields
                                /\ steps[j].size > 0}}

\* The fields the callee's code fills through the pointer it is given.
Outputs(p) ==
  CASE p.kind \in {"str_out", "inout"} -> {F("data")}
    [] p.kind \in {"chunk", "rect"}    -> {F("ptr")}
    [] p.kind = "process"              -> {FI("out", i) : i \in 1 .. p.outs}
    [] OTHER                           -> {}

\* Written by the caller; seen by the callee; filled by the callee's code;
\* written with the answer; read by the caller from the answer.
RequestPlaces(p, offset) ==
  PlacesOf(WriteRequest(p), offset, {"write"}, Fields(WriteRequest(p), {"write"}))
ArgumentPlaces(p, offset) ==
  PlacesOf(MapRequest(p), offset, {"read", "map"}, Fields(WriteRequest(p), {"write"}))
OutputPlaces(p, offset) ==
  PlacesOf(MapRequest(p), offset, {"map"}, Outputs(p))
AnswerPlaces(p, offset) ==
  PlacesOf(WriteResponse(p), offset, {"write"}, Fields(WriteResponse(p), {"write"}))
ResultPlaces(p, offset) ==
  PlacesOf(ReadResponse(p), offset, {"read"}, Outputs(p) \cup {F("chunk"), F("rect")})

------------------------------------------------------------------------------
\* The shared memory as a set of extents, the bytes written last with the
\* value they carry.  Writing at a place forgets what overlapped it.
Overlap(p, q) == p.lo < q.hi /\ q.lo < p.hi

Put(m, places, d) ==
  {e \in m : \A p \in places : ~Overlap(e, p)}
    \cup {[lo |-> p.lo, hi |-> p.hi, val |-> d] : p \in places}
==============================================================================
