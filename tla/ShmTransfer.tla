------------------------------ MODULE ShmTransfer ------------------------------
(***************************************************************************)
(* The data of one call, field by field.  HandlerPair takes a request or   *)
(* an answer as one step; here its four cursors move one operation at a    *)
(* time, over bytes that know which field they belong to: the caller's     *)
(* write_request, the callee's read_request, the plugin's or host's code,  *)
(* the callee's write_response and the caller's read_response.             *)
(*                                                                         *)
(* The callee relocates while it maps: it stores its own pointers into the *)
(* arrays of pointers that the caller left room for.  And it trusts what   *)
(* it finds: the number of events, the type of an event, the length of a   *)
(* string decide which operation comes next.                               *)
(*                                                                         *)
(* Source: common/msg/io/{msg,audio,buf,base}.hpp, payload/request.hpp.    *)
(***************************************************************************)
EXTENDS ShmLayout

\* Calls to look at: a payload of ShmLayout, and the offset of the handler when
\* the call is made.
CONSTANT Transfers

ASSUME TransfersAssumption == \A c \in Transfers : c.base \in Nat

VARIABLES payload,
          base,      \* the _shm_offset on both sides
          phase,     \* whose turn it is, see Phases
          step,      \* the number of the next operation of the cursor
          cursor,    \* its buf::offset
          size,      \* the caller's shm_push
          mem,       \* the shared memory
          mapped,    \* field |-> place: pointers the callee's code holds
          result     \* what read_response has found for the caller

vars == <<payload, base, phase, step, cursor, size, mem, mapped, result>>

Phases == {"write", "map", "code", "answer", "read", "done", "lost"}

Steps ==
  CASE phase = "write"  -> WriteRequest(payload)
    [] phase = "map"    -> MapRequest(payload)
    [] phase = "answer" -> WriteResponse(payload)
    [] phase = "read"   -> ReadResponse(payload)
    [] OTHER            -> <<>>

\* What a field's bytes are: what the caller passed, what the callee returned,
\* or a pointer the callee has stored for its own use.
Sent(f)    == [kind |-> "sent", field |-> f]
Result(f)  == [kind |-> "result", field |-> f]
Pointer(f) == [kind |-> "pointer", field |-> f]

Holds(p, val) == [lo |-> p.lo, hi |-> p.hi, val |-> val] \in mem
StartsWith(p, val) == \E e \in mem : e.lo = p.lo /\ e.val = val

TypeOK ==
  /\ [payload |-> payload, base |-> base] \in Transfers
  /\ phase \in Phases
  /\ step \in Nat /\ cursor \in Nat /\ size \in Nat
  /\ \A e \in mem : e.lo \in Nat /\ e.hi \in Nat /\ e.lo < e.hi
                    /\ e.val.kind \in {"sent", "result", "pointer"}
  /\ \A f \in DOMAIN mapped : mapped[f].lo \in Nat /\ mapped[f].hi \in Nat
  /\ result \subseteq Outputs(payload) \cup {F("chunk"), F("rect")}

Init ==
  /\ \E c \in Transfers : payload = c.payload /\ base = c.base
  /\ phase = "write" /\ step = 1 /\ cursor = base
  /\ size = 0 /\ mem = {} /\ mapped = <<>> /\ result = {}

------------------------------------------------------------------------------
\* The next operation, and the bytes it is about.
Op == Steps[step]
Here == [lo |-> StartOf(Op, cursor), hi |-> StartOf(Op, cursor) + Op.size]

Ready(ops) == step <= Len(Steps) /\ Op.op \in ops
Advance ==
  /\ cursor' = Here.hi
  /\ step' = step + 1
  /\ UNCHANGED <<payload, base, size>>

Store(places, val) == mem' = Put(mem, {p \in places : p.lo < p.hi}, val)

\* write_data, write_data_array.
CopyIn ==
  /\ Ready({"write"})
  /\ Store({Here}, IF phase = "write" THEN Sent(Op.field) ELSE Result(Op.field))
  /\ Advance
  /\ UNCHANGED <<phase, mapped, result>>

\* skip_data, skip_data_array.
Pass ==
  /\ Ready({"skip"})
  /\ Advance
  /\ UNCHANGED <<phase, mem, mapped, result>>

\* Where the callee keeps its pointer to a field: in the array of pointers of
\* the audio arrays, in VstEvents::events; nowhere in memory for the others.
Slot(f) ==
  CASE f[1] \in {"in", "out"} /\ f[2] > 0 ->
         LET array == mapped[F(f[1])].lo + PtrSize * (f[2] - 1)
         IN  {[lo |-> array, hi |-> array + PtrSize]}
    [] f[1] = "event" ->
         LET array == mapped[F("header")].lo + EvHeaderSize + PtrSize * (f[2] - 1)
         IN  {[lo |-> array, hi |-> array + PtrSize]}
    [] OTHER -> {}

Bind(f, p) == [g \in DOMAIN mapped \cup {f} |-> IF g = f THEN p ELSE mapped[g]]

\* map_data, map_data_array.  The header and the type of each event tell how
\* to go on, so the callee is lost when they are not where it looks.
Map ==
  /\ Ready({"map"})
  /\ Store(Slot(Op.field), Pointer(Op.field))
  /\ mapped' = Bind(Op.field, Here)
  /\ phase' = IF Op.field[1] \in {"header", "event"} /\ ~StartsWith(Here, Sent(Op.field))
                THEN "lost" ELSE phase
  /\ Advance
  /\ UNCHANGED result

\* read_data, read_data_array.  A length or a null pointer that is not found
\* is fatal as well.
CopyOut ==
  /\ Ready({"read"})
  /\ phase' = IF \/ Op.field = F("size") /\ ~Holds(Here, Sent(Op.field))
                 \/ payload.kind = "rect" /\ Op.field = F("ptr") /\ ~Holds(Here, Result(Op.field))
                THEN "lost" ELSE phase
  /\ result' = IF phase = "read" /\ Op.size > 0 /\ Holds(Here, Result(Op.field))
                 THEN result \cup {Op.field} ELSE result
  /\ Advance
  /\ UNCHANGED <<mem, mapped>>

------------------------------------------------------------------------------
\* The turns.  Every cursor starts from the same offset.
Turn(from, to) ==
  /\ phase = from /\ step > Len(Steps)
  /\ phase' = to /\ step' = 1 /\ cursor' = base
  /\ UNCHANGED <<payload, base, mapped, result>>

\* The difference the wrong way round.
SendRequest_bug == Turn("write", "map") /\ size' = base - cursor /\ UNCHANGED mem

\* The caller has written its request and sends it.
SendRequest == Turn("write", "map") /\ size' = cursor - base /\ UNCHANGED mem

\* The callee calls the function; how far its cursor got is its shm_push.
Call ==
  /\ phase = "map" /\ step > Len(Steps)
  /\ phase' = "code"
  /\ UNCHANGED <<payload, base, step, cursor, size, mem, mapped, result>>

\* The function stores its outputs through the pointers it was given.
Run ==
  /\ Turn("code", "answer")
  /\ mem' = {e \in mem : \A f \in Outputs(payload) : ~Overlap(e, mapped[f])}
              \cup {[lo |-> mapped[f].lo, hi |-> mapped[f].hi, val |-> Result(f)] :
                      f \in {g \in Outputs(payload) : mapped[g].lo < mapped[g].hi}}
  /\ UNCHANGED size

SendResponse == Turn("answer", "read") /\ UNCHANGED <<size, mem>>
Complete     == Turn("read", "done") /\ UNCHANGED <<size, mem>>

Finished == phase \in {"done", "lost"} /\ UNCHANGED vars

Next ==
  \/ CopyIn \/ Pass \/ Map \/ CopyOut
  \/ SendRequest \/ Call \/ Run \/ SendResponse \/ Complete
  \/ Finished

Spec == Init /\ [][Next]_vars

------------------------------------------------------------------------------
\* When the function is called, every field the caller wrote is found, whole,
\* where the callee has mapped it, and relocation has damaged neither a field
\* nor a pointer: write_request and read_request describe the same layout,
\* each in its own words, and nothing checks one against the other.
RequestArrives ==
  /\ phase # "lost"
  /\ phase = "code" =>
       \A f \in DOMAIN mapped :
         /\ f \in Fields(WriteRequest(payload), {"write"}) /\ mapped[f].lo < mapped[f].hi =>
              Holds(mapped[f], Sent(f))
         /\ \A p \in Slot(f) : Holds(p, Pointer(f))

\* The callee's shm_push equals the caller's: the next call, whichever side
\* makes it, starts at the same offset on both.
CursorsMeet == phase = "code" => cursor = base + size

\* What the callee returned is what the caller gets, every output of it, and
\* appending a chunk or a rectangle to the answer does not damage the rest.
ResultArrives ==
  phase = "done" =>
    \A k \in DOMAIN ReadResponse(payload) :
      LET s == ReadResponse(payload)[k]
      IN  s.op = "read" /\ s.size > 0 /\ s.field # F("size") => s.field \in result
==============================================================================
