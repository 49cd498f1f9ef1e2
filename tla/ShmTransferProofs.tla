--------------------------- MODULE ShmTransferProofs ---------------------------
(***************************************************************************)
(* The data of one call, field by field.  First what the four cursors have *)
(* to have in common for a request and its answer to arrive (Described),   *)
(* and that they do whenever it holds; then that it holds of strings of    *)
(* any length at every offset, and at multiples of 8 of the payloads whose *)
(* parts end on one, however many parts there are.                         *)
(***************************************************************************)
EXTENDS ShmTransfer, ShmLayoutProofs

------------------------------------------------------------------------------
(* Marks: what a cursor does to a field, and where *)

Mark(c, lo) == [op |-> c.op, field |-> c.field, lo |-> lo, size |-> c.size]
MarkAt(steps, o, k) == Mark(steps[k], FieldAt(steps, o, k))
Marks(steps, o) == {MarkAt(steps, o, k) : k \in DOMAIN steps}

Span(x) == [lo |-> x.lo, hi |-> x.lo + x.size]
Before(x, y) == x.lo + x.size <= y.lo

\* The same field in the same bytes.
Alike(x, y) == x.field = y.field /\ x.lo = y.lo /\ x.size = y.size

\* The fields whose pointers the callee stores in memory, and where: in the
\* array of pointers of the audio arrays, or of VstEvents.
Numbered   == {"event", "in", "out"} \X Nat
HasSlot(f) == f[1] = "event" \/ (f[1] \in {"in", "out"} /\ f[2] > 0)
Home(f)    == IF f[1] = "event" THEN F("header") ELSE F(f[1])
Shift(f)   == PtrSize * (f[2] - 1) + (IF f[1] = "event" THEN EvHeaderSize ELSE 0)
SlotIn(h, f) == [lo |-> h.lo + Shift(f), hi |-> h.lo + Shift(f) + PtrSize]

------------------------------------------------------------------------------
(* What the four descriptions of one layout have to agree on *)

\* What the steps of each cursor may be.
Doing(ops) == {c \in AnyStep : c.op \in ops}
Kinds(m) ==
  /\ WriteRequest(m)  \in Seq(Doing({"write", "skip"}))
  /\ MapRequest(m)    \in Seq(Doing({"read", "map", "skip"}))
  /\ WriteResponse(m) \in Seq(Doing({"read", "write", "skip"}))
  /\ ReadResponse(m)  \in Seq(Doing({"read", "skip"}))

\* What the callee looks at the caller has written, and so it has what tells
\* the callee how to go on.
RequestFound(m, o) ==
  LET written == {y \in Marks(WriteRequest(m), o) : y.op = "write"}
  IN  \A x \in Marks(MapRequest(m), o) :
        /\ x.op \in {"read", "map"} /\ x.field \in Fields(WriteRequest(m), {"write"}) /\ x.size > 0 =>
             \E y \in written : Alike(x, y)
        /\ x.op = "map" /\ x.field[1] \in {"header", "event"} =>
             \E y \in written : x.field = y.field /\ x.lo = y.lo /\ y.size > 0

\* A length is read where it was written, and nothing else is then.
LengthsFound(m, o) ==
  \A x \in Marks(MapRequest(m), o) \cup Marks(WriteResponse(m), o) \cup Marks(ReadResponse(m), o) :
    x.op = "read" /\ x.field = F("size") =>
      /\ Outputs(m) = {}
      /\ \A a \in Marks(WriteResponse(m), o) : a.op # "write"
      /\ \E y \in Marks(WriteRequest(m), o) : y.op = "write" /\ Alike(x, y) /\ y.size > 0

\* Each output is mapped; each result is written with the answer, or stored
\* where the output is mapped, apart from the answer.
ResultsFound(m, o) ==
  LET answered == {a \in Marks(WriteResponse(m), o) : a.op = "write"}
  IN  /\ \A f \in Outputs(m) : \E x \in Marks(MapRequest(m), o) : x.op = "map" /\ x.field = f
      /\ \A a \in answered : a.field \in {F("chunk"), F("rect")}
      /\ \A r \in Marks(ReadResponse(m), o) :
           r.op = "read" /\ r.size > 0 /\ r.field # F("size") =>
             /\ r.field \in Outputs(m) \cup {F("chunk"), F("rect")}
             /\ \/ \E a \in answered : Alike(r, a)
                \/ /\ r.field \in Outputs(m)
                   /\ \A x \in Marks(MapRequest(m), o) :
                        x.op = "map" /\ x.field = r.field => Alike(r, x)
                   /\ \A a \in answered : ~Overlap(Span(a), Span(r))

\* The pointer of a rectangle is read by the caller only.
RectsRead(m, o) ==
  m.kind = "rect" =>
    /\ \A x \in Marks(MapRequest(m), o) \cup Marks(WriteResponse(m), o) : x.op # "read"
    /\ \A r \in Marks(ReadResponse(m), o) : r.op = "read" => r.size > 0

\* The callee's own pointers have room: their array is mapped before what they
\* point to, over bytes that the caller has skipped, and no two share any.
RoomForPointers(m, o) ==
  LET maps == {x \in Marks(MapRequest(m), o) : x.op = "map"}
      pointing == {x \in maps : HasSlot(x.field)}
      homes(x) == {h \in maps : h.field = Home(x.field)}
  IN  \A x \in pointing :
        /\ x.field \in Numbered /\ homes(x) # {}
        /\ \A h \in homes(x) :
             /\ h.lo <= SlotIn(h, x.field).lo /\ SlotIn(h, x.field).hi <= x.lo
             /\ \A y \in Marks(WriteRequest(m), o) :
                  y.op = "write" => ~Overlap(Span(y), SlotIn(h, x.field))
             /\ \A z \in pointing : z.field # x.field =>
                  \A g \in homes(z) : ~Overlap(SlotIn(h, x.field), SlotIn(g, z.field))

\* All that.
Described(m, o) ==
  /\ Kinds(m)
  /\ Total(MapRequest(m), o) = Total(WriteRequest(m), o)
  /\ RequestFound(m, o) /\ LengthsFound(m, o) /\ ResultsFound(m, o)
  /\ RectsRead(m, o) /\ RoomForPointers(m, o)

------------------------------------------------------------------------------
(* The inductive invariant, of transfers whose cursors agree *)

\* The operations of a cursor before its n-th.
Passed(steps, o, n) == {MarkAt(steps, o, k) : k \in {j \in DOMAIN steps : j < n}}

\* What the caller has written, the callee mapped, the callee answered and the
\* caller read by now.
Written  == IF phase = "write" THEN Passed(WriteRequest(payload), base, step)
                               ELSE Marks(WriteRequest(payload), base)
Looked   == CASE phase = "write" -> {}
              [] phase = "map"   -> Passed(MapRequest(payload), base, step)
              [] OTHER           -> Marks(MapRequest(payload), base)
Answered == CASE phase \in {"write", "map", "code"} -> {}
              [] phase = "answer" -> Passed(WriteResponse(payload), base, step)
              [] OTHER            -> Marks(WriteResponse(payload), base)
Reread   == CASE phase = "read" -> Passed(ReadResponse(payload), base, step)
              [] phase = "done" -> Marks(ReadResponse(payload), base)
              [] OTHER          -> {}

\* Each cursor is where its operations have brought it.
Walked ==
  /\ [payload |-> payload, base |-> base] \in Transfers
  /\ base \in Nat /\ Described(payload, base)
  /\ phase \in Phases \ {"lost"}
  /\ phase \in {"write", "map", "answer", "read"} =>
       step \in 1 .. Len(Steps) + 1 /\ cursor = Cursor(Steps, base)[step - 1]
  /\ step \in Nat /\ step > 0
  /\ phase = "code" => cursor = base + Total(MapRequest(payload), base)
  /\ phase = "done" => cursor \in Nat
  /\ size = IF phase = "write" THEN 0 ELSE Total(WriteRequest(payload), base)

MemTyped ==
  \A e \in mem : /\ e.lo \in Nat /\ e.hi \in Nat /\ e.lo < e.hi
                 /\ \/ e.val.kind \in {"sent", "pointer"}
                    \/ \E f \in Outputs(payload) \cup {F("chunk"), F("rect")} : e.val = Result(f)

\* The callee's pointers are the places of what it has mapped.
Mapped ==
  /\ DOMAIN mapped = {x.field : x \in {y \in Looked : y.op = "map"}}
  /\ \A f \in DOMAIN mapped : \E x \in Looked : x.op = "map" /\ x.field = f /\ mapped[f] = Span(x)

\* The request is there until the function runs, and where neither it nor the
\* answer writes anything, as behind a length, until the end.
Untouched ==
  \/ phase \in {"write", "map", "code"}
  \/ Outputs(payload) = {} /\ \A a \in Marks(WriteResponse(payload), base) : a.op # "write"

RequestKept ==
  Untouched => \A y \in Written : y.op = "write" /\ y.size > 0 => Holds(Span(y), Sent(y.field))

PointersKept ==
  phase \in {"map", "code"} => \A f \in DOMAIN mapped : \A p \in Slot(f) : Holds(p, Pointer(f))

\* The answer is there, and what the function has stored where it is not.
Spared(p) == \A a \in Marks(WriteResponse(payload), base) : a.op = "write" => ~Overlap(Span(a), p)

AnswerKept ==
  /\ \A a \in Answered : a.op = "write" /\ a.size > 0 => Holds(Span(a), Result(a.field))
  /\ phase \in {"answer", "read"} =>
       \A f \in Outputs(payload) :
         mapped[f].lo < mapped[f].hi /\ Spared(mapped[f]) => Holds(mapped[f], Result(f))

ResultsRead ==
  /\ result \subseteq Outputs(payload) \cup {F("chunk"), F("rect")}
  /\ \A r \in Reread : r.op = "read" /\ r.size > 0 /\ r.field # F("size") => r.field \in result

IInv == Walked /\ MemTyped /\ Mapped /\ RequestKept /\ PointersKept /\ AnswerKept /\ ResultsRead

\* The transfers to look at are of that kind.
Transferable ==
  \A c \in Transfers :
    c = [payload |-> c.payload, base |-> c.base] /\ Described(c.payload, c.base)

------------------------------------------------------------------------------
(* Marks and cursors *)

\* A cursor leaves one mark after the other.
LEMMA MarksInOrder ==
  ASSUME NEW steps \in Seq(AnyStep), NEW o \in Nat
  PROVE  /\ Len(steps) \in Nat /\ DOMAIN steps = 1 .. Len(steps)
         /\ \A k \in 1 .. Len(steps) :
              /\ MarkAt(steps, o, k) \in Marks(steps, o)
              /\ MarkAt(steps, o, k).op = steps[k].op
              /\ MarkAt(steps, o, k).field = steps[k].field
              /\ MarkAt(steps, o, k).size = steps[k].size /\ steps[k].size \in Nat
              /\ MarkAt(steps, o, k).lo = FieldAt(steps, o, k) /\ FieldAt(steps, o, k) \in Nat
              /\ o <= FieldAt(steps, o, k)
              /\ FieldAt(steps, o, k) + steps[k].size = Cursor(steps, o)[k]
              /\ FieldAt(steps, o, k) + steps[k].size \in Nat
         /\ \A j, k \in 1 .. Len(steps) : j < k => Before(MarkAt(steps, o, j), MarkAt(steps, o, k))
<1>1. /\ Len(steps) \in Nat /\ DOMAIN steps = 1 .. Len(steps)
      /\ \A k \in 1 .. Len(steps) : steps[k] \in AnyStep
      /\ \A k \in 1 .. Len(steps) :
           /\ o <= FieldAt(steps, o, k)
           /\ FieldAt(steps, o, k) \in Nat
           /\ FieldAt(steps, o, k) + steps[k].size = Cursor(steps, o)[k]
      /\ \A j, k \in 1 .. Len(steps) :
           j < k => FieldAt(steps, o, j) + steps[j].size <= FieldAt(steps, o, k)
  BY Ends
<1>2. \A k \in 1 .. Len(steps) : steps[k].size \in Nat /\ FieldAt(steps, o, k) + steps[k].size \in Nat
  BY <1>1 DEF AnyStep
<1>3. \A k : /\ MarkAt(steps, o, k).op = steps[k].op
             /\ MarkAt(steps, o, k).field = steps[k].field
             /\ MarkAt(steps, o, k).size = steps[k].size
             /\ MarkAt(steps, o, k).lo = FieldAt(steps, o, k)
  BY DEF MarkAt, Mark
<1>4. \A k \in 1 .. Len(steps) : MarkAt(steps, o, k) \in Marks(steps, o)
  BY <1>1 DEF Marks
<1> QED
  BY <1>1, <1>2, <1>3, <1>4 DEF Before

LEMMA MarkIs ==
  ASSUME NEW steps \in Seq(AnyStep), NEW o \in Nat, NEW k \in 1 .. Len(steps), NEW x,
         x = MarkAt(steps, o, k)
  PROVE  /\ x \in Marks(steps, o)
         /\ x.op = steps[k].op /\ x.field = steps[k].field /\ x.size = steps[k].size
         /\ x.lo = FieldAt(steps, o, k) /\ x.lo + x.size = Cursor(steps, o)[k]
         /\ x.lo \in Nat /\ x.size \in Nat /\ x.field \in FieldName /\ o <= x.lo
<1>1. steps[k] \in AnyStep
  BY ElementOfSeq
<1>2. steps[k].field \in FieldName /\ steps[k].size \in Nat
  BY <1>1 DEF AnyStep
<1>3. x.op = steps[k].op /\ x.field = steps[k].field /\ x.size = steps[k].size
      /\ x.lo = FieldAt(steps, o, k)
  BY DEF MarkAt, Mark
<1>4. x \in Marks(steps, o)
  BY LenProperties DEF Marks
<1>5. o <= FieldAt(steps, o, k) /\ FieldAt(steps, o, k) \in Nat
      /\ FieldAt(steps, o, k) + steps[k].size = Cursor(steps, o)[k]
  BY Ends
<1> QED
  BY <1>2, <1>3, <1>4, <1>5

LEMMA MarksOrdered ==
  ASSUME NEW steps \in Seq(AnyStep), NEW o \in Nat, NEW j \in 1 .. Len(steps), NEW k \in 1 .. Len(steps),
         j < k
  PROVE  Before(MarkAt(steps, o, j), MarkAt(steps, o, k))
BY MarksInOrder

\* A mark is the mark of some step, and lies behind the start.
LEMMA MarkTypes ==
  ASSUME NEW steps \in Seq(AnyStep), NEW o \in Nat, NEW x \in Marks(steps, o)
  PROVE  /\ \E k \in 1 .. Len(steps) : x = MarkAt(steps, o, k)
         /\ x.lo \in Nat /\ x.size \in Nat /\ o <= x.lo /\ x.field \in FieldName
         /\ Span(x).lo = x.lo /\ Span(x).hi = x.lo + x.size
<1>1. PICK k \in 1 .. Len(steps) : x = MarkAt(steps, o, k)
  BY LenProperties DEF Marks
<1>2. x.lo \in Nat /\ x.size \in Nat /\ o <= x.lo /\ x.field \in FieldName
  BY <1>1, MarkIs
<1> QED
  BY <1>1, <1>2 DEF Span

\* The marks that are passed, step by step: none, one more, all, and those
\* behind the cursor.
LEMMA Passing ==
  ASSUME NEW steps \in Seq(AnyStep), NEW o \in Nat
  PROVE  /\ Passed(steps, o, 1) = {}
         /\ \A n \in 1 .. Len(steps) : Passed(steps, o, n + 1) = Passed(steps, o, n) \cup {MarkAt(steps, o, n)}
         /\ \A n \in Nat : n > Len(steps) => Passed(steps, o, n) = Marks(steps, o)
         /\ \A n \in Nat : Passed(steps, o, n) \subseteq Marks(steps, o)
         /\ \A n \in 1 .. Len(steps) : \A x \in Passed(steps, o, n) : Before(x, MarkAt(steps, o, n))
<1>1. Len(steps) \in Nat /\ DOMAIN steps = 1 .. Len(steps)
  BY LenProperties
<1>2. Passed(steps, o, 1) = {}
  BY <1>1 DEF Passed
<1>3. \A n \in 1 .. Len(steps) : Passed(steps, o, n + 1) = Passed(steps, o, n) \cup {MarkAt(steps, o, n)}
  <2> SUFFICES ASSUME NEW n \in 1 .. Len(steps)
               PROVE  Passed(steps, o, n + 1) = Passed(steps, o, n) \cup {MarkAt(steps, o, n)}
    OBVIOUS
  <2>1. {j \in DOMAIN steps : j < n + 1} = {j \in DOMAIN steps : j < n} \cup {n}
    BY <1>1
  <2> QED
    BY <2>1 DEF Passed
<1>4. \A n \in Nat : n > Len(steps) => Passed(steps, o, n) = Marks(steps, o)
  <2> SUFFICES ASSUME NEW n \in Nat, n > Len(steps)
               PROVE  Passed(steps, o, n) = Marks(steps, o)
    OBVIOUS
  <2>1. {j \in DOMAIN steps : j < n} = DOMAIN steps
    BY <1>1
  <2> QED
    BY <2>1 DEF Passed, Marks
<1>5. \A n \in Nat : Passed(steps, o, n) \subseteq Marks(steps, o)
  BY DEF Passed, Marks
<1>6. \A n \in 1 .. Len(steps) : \A x \in Passed(steps, o, n) : Before(x, MarkAt(steps, o, n))
  BY <1>1, MarksInOrder DEF Passed
<1> QED
  BY <1>2, <1>3, <1>4, <1>5, <1>6

------------------------------------------------------------------------------
(* The memory *)

InMem(p, v, m) == [lo |-> p.lo, hi |-> p.hi, val |-> v] \in m

\* What is written is there, what it does not overlap stays, nothing else is.
LEMMA Stored ==
  ASSUME NEW m, NEW places, NEW d
  PROVE  /\ \A p \in places : InMem(p, d, Put(m, places, d))
         /\ \A p, v : InMem(p, v, m) /\ (\A q \in places : ~Overlap(p, q)) => InMem(p, v, Put(m, places, d))
         /\ \A e \in Put(m, places, d) :
              e \in m \/ \E p \in places : e.lo = p.lo /\ e.hi = p.hi /\ e.val = d
<1>1. \A p \in places : InMem(p, d, Put(m, places, d))
  BY DEF InMem, Put
<1>2. ASSUME NEW p, NEW v, InMem(p, v, m), \A q \in places : ~Overlap(p, q)
      PROVE  InMem(p, v, Put(m, places, d))
  <2> DEFINE e == [lo |-> p.lo, hi |-> p.hi, val |-> v]
  <2>1. \A q \in places : ~Overlap(e, q)
    BY <1>2 DEF Overlap
  <2> QED
    BY <1>2, <2>1 DEF InMem, Put
<1>3. \A e \in Put(m, places, d) :
        e \in m \/ \E p \in places : e.lo = p.lo /\ e.hi = p.hi /\ e.val = d
  BY DEF Put
<1> QED
  BY <1>1, <1>2, <1>3

\* Fields that follow each other share no byte.
LEMMA BeforeApart ==
  ASSUME NEW x, NEW y, x.lo \in Nat, x.size \in Nat, y.lo \in Nat, y.size \in Nat, Before(x, y)
  PROVE  ~Overlap(Span(x), Span(y)) /\ ~Overlap(Span(y), Span(x))
BY DEF Before, Overlap, Span

\* Fields that are alike take the same bytes.
LEMMA SpanOf ==
  ASSUME NEW x, NEW y, Alike(x, y)
  PROVE  Span(x) = Span(y) /\ x.field = y.field /\ x.size = y.size
BY DEF Alike, Span

------------------------------------------------------------------------------
(* One operation of a cursor *)

Cursing == {"write", "map", "answer", "read"}

\* Steps of some kinds are steps.
LEMMA SeqWithin ==
  ASSUME NEW S, NEW T, S \subseteq T, NEW q \in Seq(S)
  PROVE  q \in Seq(T) /\ \A k \in 1 .. Len(q) : q[k] \in S
BY ElementOfSeq, LenProperties, SeqDef

\* The steps of every cursor are steps, and each of its kind.
LEMMA KindsKnown ==
  ASSUME NEW m, Kinds(m)
  PROVE  /\ WriteRequest(m) \in Seq(AnyStep) /\ MapRequest(m) \in Seq(AnyStep)
         /\ WriteResponse(m) \in Seq(AnyStep) /\ ReadResponse(m) \in Seq(AnyStep)
         /\ \A k \in 1 .. Len(WriteRequest(m))  : WriteRequest(m)[k].op  \in {"write", "skip"}
         /\ \A k \in 1 .. Len(MapRequest(m))    : MapRequest(m)[k].op    \in {"read", "map", "skip"}
         /\ \A k \in 1 .. Len(WriteResponse(m)) : WriteResponse(m)[k].op \in {"read", "write", "skip"}
         /\ \A k \in 1 .. Len(ReadResponse(m))  : ReadResponse(m)[k].op  \in {"read", "skip"}
<1>1. \A ops, q : q \in Seq(Doing(ops)) =>
        q \in Seq(AnyStep) /\ \A k \in 1 .. Len(q) : q[k].op \in ops
  <2> SUFFICES ASSUME NEW ops, NEW q \in Seq(Doing(ops))
               PROVE  q \in Seq(AnyStep) /\ \A k \in 1 .. Len(q) : q[k].op \in ops
    OBVIOUS
  <2>1. Doing(ops) \subseteq AnyStep /\ \A c \in Doing(ops) : c.op \in ops
    BY DEF Doing
  <2>2. q \in Seq(AnyStep) /\ \A k \in 1 .. Len(q) : q[k] \in Doing(ops)
    BY <2>1, SeqWithin
  <2> QED
    BY <2>1, <2>2
<1> QED
  BY <1>1 DEF Kinds

\* The mark of the next operation.
Current == MarkAt(Steps, base, step)

\* The next operation is the mark of the current step.
LEMMA CurrentIs ==
  ASSUME Walked, NEW ops, Ready(ops)
  PROVE  /\ phase \in Cursing /\ Steps \in Seq(AnyStep) /\ step \in 1 .. Len(Steps)
         /\ Current \in Marks(Steps, base)
         /\ Op = Steps[step]
         /\ Current.op = Op.op /\ Current.field = Op.field /\ Current.size = Op.size
         /\ Current.op \in ops
         /\ Current.lo \in Nat /\ Current.size \in Nat /\ Current.field \in FieldName
         /\ Here = Span(Current) /\ Here.lo \in Nat /\ Here.hi \in Nat
         /\ Here.lo = Current.lo /\ Here.hi = Current.lo + Current.size
         /\ Here.hi = Cursor(Steps, base)[step]
<1> DEFINE x == Current
<1>1. phase \in Cursing
  <2>1. phase \notin Cursing => Steps = <<>>
    BY DEF Steps, Cursing
  <2> QED
    BY <2>1 DEF Ready, Walked
<1>2. Steps \in Seq(AnyStep) /\ base \in Nat
  BY <1>1, KindsKnown DEF Steps, Cursing, Walked, Described
<1>3. step \in 1 .. Len(Steps) /\ cursor = Cursor(Steps, base)[step - 1] /\ Op = Steps[step]
      /\ Op.op \in ops
  BY <1>1, <1>2 DEF Walked, Ready, Op, Cursing
<1>4. StartOf(Op, cursor) = FieldAt(Steps, base, step)
  BY <1>3 DEF FieldAt
<1>5. x = MarkAt(Steps, base, step)
  BY DEF Current
<1> HIDE DEF x
<1>6. /\ x \in Marks(Steps, base)
      /\ x.op = Op.op /\ x.field = Op.field /\ x.size = Op.size
      /\ x.lo = FieldAt(Steps, base, step)
      /\ x.lo + x.size = Cursor(Steps, base)[step]
      /\ x.lo \in Nat /\ x.size \in Nat /\ x.field \in FieldName
  BY <1>2, <1>3, <1>5, MarkIs
<1>7. Here = Span(x)
  BY <1>4, <1>6 DEF Here, Span
<1>8. Here.lo = x.lo /\ Here.hi = x.lo + x.size /\ Here.lo \in Nat /\ Here.hi \in Nat
  BY <1>6, <1>7 DEF Span
<1> QED
  BY <1>1, <1>2, <1>3, <1>6, <1>7, <1>8 DEF x

\* What has been passed grows by the current operation, which comes after it.
LEMMA CurrentPassed ==
  ASSUME Walked, NEW ops, Ready(ops)
  PROVE  /\ Passed(Steps, base, step + 1) = Passed(Steps, base, step) \cup {Current}
         /\ \A y \in Passed(Steps, base, step) :
              y \in Marks(Steps, base) /\ Before(y, Current) /\ y.lo \in Nat /\ y.size \in Nat
<1>1. /\ phase \in Cursing /\ Steps \in Seq(AnyStep) /\ step \in 1 .. Len(Steps)
      /\ base \in Nat /\ step \in Nat
  BY CurrentIs DEF Walked
<1>2. /\ Passed(Steps, base, step + 1) = Passed(Steps, base, step) \cup {Current}
      /\ \A y \in Passed(Steps, base, step) : Before(y, Current)
  BY <1>1, Passing DEF Current
<1>3. Passed(Steps, base, step) \subseteq Marks(Steps, base)
  BY <1>1, Passing
<1>4. \A y \in Marks(Steps, base) : y.lo \in Nat /\ y.size \in Nat
  BY <1>1, MarkTypes
<1> QED
  BY <1>2, <1>3, <1>4

\* A cursor that moves on, in the same phase.
LEMMA Advancing ==
  ASSUME Walked, NEW ops, Ready(ops), Advance, phase' = phase
  PROVE  /\ Walked'
         /\ Written'  = Written  \cup (IF phase = "write"  THEN {Current} ELSE {})
         /\ Looked'   = Looked   \cup (IF phase = "map"    THEN {Current} ELSE {})
         /\ Answered' = Answered \cup (IF phase = "answer" THEN {Current} ELSE {})
         /\ Reread'   = Reread   \cup (IF phase = "read"   THEN {Current} ELSE {})
<1>1. /\ phase \in Cursing /\ Steps \in Seq(AnyStep) /\ step \in 1 .. Len(Steps)
      /\ Here.hi = Cursor(Steps, base)[step]
  BY CurrentIs
<1>2. /\ payload' = payload /\ base' = base /\ size' = size /\ step' = step + 1
      /\ cursor' = Cursor(Steps, base)[step]
  BY <1>1 DEF Advance
<1>3. Steps' = Steps
  BY <1>2 DEF Steps
<1>4. Passed(Steps, base, step + 1) = Passed(Steps, base, step) \cup {Current}
  BY CurrentPassed
<1>5. Walked'
  <2>1. step' \in Nat /\ step' > 0 /\ step' \in 1 .. Len(Steps) + 1 /\ step' - 1 = step
    BY <1>1, <1>2, LenProperties
  <2> QED
    BY <1>1, <1>2, <1>3, <2>1 DEF Walked, Cursing
<1>6. Written' = Written \cup (IF phase = "write" THEN {Current} ELSE {})
  BY <1>2, <1>4 DEF Written, Steps
<1>7. Looked' = Looked \cup (IF phase = "map" THEN {Current} ELSE {})
  BY <1>1, <1>2, <1>4 DEF Looked, Steps, Cursing
<1>8. Answered' = Answered \cup (IF phase = "answer" THEN {Current} ELSE {})
  BY <1>1, <1>2, <1>4 DEF Answered, Steps, Cursing
<1>9. Reread' = Reread \cup (IF phase = "read" THEN {Current} ELSE {})
  BY <1>1, <1>2, <1>4 DEF Reread, Steps, Cursing
<1> QED
  BY <1>5, <1>6, <1>7, <1>8, <1>9

\* What each cursor has passed are marks of its own.
LEMMA PassedTyped ==
  ASSUME Walked
  PROVE  /\ Written  \subseteq Marks(WriteRequest(payload), base)
         /\ Looked   \subseteq Marks(MapRequest(payload), base)
         /\ Answered \subseteq Marks(WriteResponse(payload), base)
         /\ Reread   \subseteq Marks(ReadResponse(payload), base)
         /\ \A y \in Written \cup Looked \cup Answered \cup Reread :
              y.lo \in Nat /\ y.size \in Nat /\ y.field \in FieldName
<1>1. /\ WriteRequest(payload) \in Seq(AnyStep) /\ MapRequest(payload) \in Seq(AnyStep)
      /\ WriteResponse(payload) \in Seq(AnyStep) /\ ReadResponse(payload) \in Seq(AnyStep)
      /\ base \in Nat /\ step \in Nat
  BY KindsKnown DEF Walked, Described
<1>2. \A steps \in Seq(AnyStep) :
        /\ Passed(steps, base, step) \subseteq Marks(steps, base)
        /\ \A y \in Marks(steps, base) : y.lo \in Nat /\ y.size \in Nat /\ y.field \in FieldName
  BY <1>1, Passing, MarkTypes
<1>3. /\ Written  \subseteq Marks(WriteRequest(payload), base)
      /\ Looked   \subseteq Marks(MapRequest(payload), base)
      /\ Answered \subseteq Marks(WriteResponse(payload), base)
      /\ Reread   \subseteq Marks(ReadResponse(payload), base)
  BY <1>1, <1>2 DEF Written, Looked, Answered, Reread
<1> QED
  BY <1>1, <1>2, <1>3

\* Which cursors write, map and read.
LEMMA OperationsOf ==
  ASSUME Walked, NEW ops, Ready(ops)
  PROVE  /\ phase = "write"  => Current.op \in {"write", "skip"}
         /\ phase = "map"    => Current.op \in {"read", "map", "skip"}
         /\ phase = "answer" => Current.op \in {"read", "write", "skip"}
         /\ phase = "read"   => Current.op \in {"read", "skip"}
<1>1. /\ step \in 1 .. Len(Steps) /\ Current.op = Steps[step].op
  BY CurrentIs
<1>2. Kinds(payload)
  BY DEF Walked, Described
<1> QED
  BY <1>1, <1>2, KindsKnown DEF Steps

------------------------------------------------------------------------------
(* write_data *)

\* write_data writes over neither a field nor a pointer of the other passes.
LEMMA CopyInKeeps ==
  ASSUME IInv, CopyIn
  PROVE  IInv'
<1> DEFINE x == Current
           v == IF phase = "write" THEN Sent(Op.field) ELSE Result(Op.field)
           places == {p \in {Here} : p.lo < p.hi}
<1>1. /\ Walked /\ Ready({"write"}) /\ Advance /\ mem' = Put(mem, places, v)
      /\ phase' = phase /\ mapped' = mapped /\ result' = result /\ payload' = payload /\ base' = base
  BY DEF CopyIn, Store, IInv, Advance
<1>2. /\ x.op = "write" /\ x.field = Op.field /\ Here = Span(x)
      /\ Here.lo = x.lo /\ Here.hi = x.lo + x.size /\ x.lo \in Nat /\ x.size \in Nat
      /\ x \in Marks(Steps, base)
  BY <1>1, CurrentIs
<1>3. phase \in {"write", "answer"}
  BY <1>1, <1>2, OperationsOf, CurrentIs DEF Cursing
<1> HIDE DEF x
<1>4. /\ Walked'
      /\ Written'  = Written  \cup (IF phase = "write"  THEN {x} ELSE {})
      /\ Looked'   = Looked
      /\ Answered' = Answered \cup (IF phase = "answer" THEN {x} ELSE {})
      /\ Reread'   = Reread
  BY <1>1, <1>3, Advancing DEF x
<1>5. \A y \in Passed(Steps, base, step) :
        Before(y, x) /\ ~Overlap(Span(y), Here) /\ y.lo \in Nat /\ y.size \in Nat
  BY <1>1, <1>2, CurrentPassed, BeforeApart DEF x
<1>6. /\ x.size > 0 => InMem(Here, v, mem')
      /\ \A p, u : InMem(p, u, mem) /\ ~Overlap(p, Here) => InMem(p, u, mem')
      /\ \A e \in mem' : e \in mem \/ (e.lo = Here.lo /\ e.hi = Here.hi /\ e.val = v /\ x.size > 0)
  <2>1. x.size > 0 <=> Here.lo < Here.hi
    BY <1>2
  <2> HIDE DEF v
  <2>2. x.size > 0 => Here \in places
    BY <2>1
  <2>3. \A p \in places : p = Here /\ x.size > 0
    BY <2>1
  <2> HIDE DEF places
  <2> QED
    BY <1>1, <2>2, <2>3, Stored
<1>7. MemTyped'
  <2>1. phase = "answer" => x.field \in {F("chunk"), F("rect")}
    BY <1>1, <1>2 DEF Walked, Described, ResultsFound, Steps
  <2>2. phase = "write" => v.kind = "sent"
    BY DEF Sent
  <2>3. phase = "answer" => v = Result(x.field)
    BY <1>2
  <2> HIDE DEF v
  <2>4. v.kind \in {"sent", "pointer"} \/ \E f \in Outputs(payload) \cup {F("chunk"), F("rect")} : v = Result(f)
    BY <1>3, <2>1, <2>2, <2>3
  <2> QED
    BY <1>1, <1>2, <1>6, <2>4 DEF IInv, MemTyped
<1>8. Mapped'
  BY <1>1, <1>4 DEF IInv, Mapped
<1>9. RequestKept'
  <2>1. CASE phase = "write"
    <3>1. ASSUME NEW y \in Written', y.op = "write", y.size > 0
          PROVE  InMem(Span(y), Sent(y.field), mem')
      <4>1. CASE y = x
        BY <1>2, <1>6, <2>1, <3>1, <4>1
      <4>2. CASE y # x
        <5>1. y \in Written /\ y \in Passed(Steps, base, step)
          BY <1>4, <2>1, <4>2, <3>1 DEF Written, Steps
        <5>2. InMem(Span(y), Sent(y.field), mem)
          BY <2>1, <3>1, <5>1 DEF IInv, RequestKept, Untouched, Holds, InMem
        <5> QED
          BY <1>5, <1>6, <5>1, <5>2
      <4> QED
        BY <4>1, <4>2
    <3> QED
      BY <3>1 DEF RequestKept, Holds, InMem
  <2>2. CASE phase = "answer"
    BY <1>1, <1>2, <2>2 DEF RequestKept, Untouched, Steps
  <2> QED
    BY <1>3, <2>1, <2>2
<1>10. PointersKept'
  BY <1>1, <1>3, <1>4 DEF PointersKept, Mapped, IInv, Looked
<1>11. AnswerKept'
  <2>1. CASE phase = "write"
    BY <1>1, <1>4, <2>1 DEF AnswerKept, Answered
  <2>2. CASE phase = "answer"
    <3>1. ASSUME NEW a \in Answered', a.op = "write", a.size > 0
          PROVE  InMem(Span(a), Result(a.field), mem')
      <4>1. CASE a = x
        BY <1>2, <1>6, <2>2, <3>1, <4>1
      <4>2. CASE a # x
        <5>1. a \in Answered /\ a \in Passed(Steps, base, step)
          BY <1>4, <2>2, <4>2, <3>1 DEF Answered, Steps
        <5>2. InMem(Span(a), Result(a.field), mem)
          BY <2>2, <3>1, <5>1 DEF IInv, AnswerKept, Holds, InMem
        <5> QED
          BY <1>5, <1>6, <5>1, <5>2
      <4> QED
        BY <4>1, <4>2
    <3>2. ASSUME NEW f \in Outputs(payload), mapped[f].lo < mapped[f].hi, Spared(mapped[f])
          PROVE  InMem(mapped[f], Result(f), mem')
      <4>1. ~Overlap(mapped[f], Here)
        <5>1. x \in Marks(WriteResponse(payload), base)
          BY <1>2, <2>2 DEF Steps
        <5>2. ~Overlap(Span(x), mapped[f])
          BY <1>2, <3>2, <5>1 DEF Spared
        <5> QED
          BY <1>2, <5>2 DEF Overlap
      <4>2. InMem(mapped[f], Result(f), mem)
        BY <2>2, <3>2 DEF IInv, AnswerKept, Holds, InMem
      <4> QED
        BY <1>6, <4>1, <4>2
    <3>3. \A f : Spared(mapped[f])' => Spared(mapped[f])
      BY <1>1 DEF Spared
    <3> QED
      BY <1>1, <3>1, <3>2, <3>3 DEF AnswerKept, Holds, InMem
  <2> QED
    BY <1>3, <2>1, <2>2
<1>12. ResultsRead'
  BY <1>1, <1>4 DEF IInv, ResultsRead
<1> QED
  BY <1>4, <1>7, <1>8, <1>9, <1>10, <1>11, <1>12 DEF IInv

------------------------------------------------------------------------------
(* skip_data *)

\* skip_data only moves the cursor.
LEMMA PassKeeps ==
  ASSUME IInv, Pass
  PROVE  IInv'
<1> DEFINE x == Current
<1>1. /\ Walked /\ Ready({"skip"}) /\ Advance /\ mem' = mem
      /\ phase' = phase /\ mapped' = mapped /\ result' = result /\ payload' = payload /\ base' = base
  BY DEF Pass, IInv, Advance
<1>2. x.op = "skip"
  BY <1>1, CurrentIs
<1> HIDE DEF x
<1>3. /\ Walked'
      /\ Written  \subseteq Written'  /\ Written'  \subseteq Written  \cup {x}
      /\ Looked   \subseteq Looked'   /\ Looked'   \subseteq Looked   \cup {x}
      /\ Answered \subseteq Answered' /\ Answered' \subseteq Answered \cup {x}
      /\ Reread   \subseteq Reread'   /\ Reread'   \subseteq Reread   \cup {x}
  BY <1>1, Advancing DEF x
<1>4. MemTyped'
  BY <1>1 DEF IInv, MemTyped
<1>5. Mapped'
  <2>1. {y \in Looked' : y.op = "map"} = {y \in Looked : y.op = "map"}
    BY <1>2, <1>3
  <2> QED
    BY <1>1, <2>1 DEF IInv, Mapped
<1>6. RequestKept'
  BY <1>1, <1>2, <1>3 DEF IInv, RequestKept, Untouched, Holds
<1>7. PointersKept'
  BY <1>1 DEF IInv, PointersKept, Slot, Holds
<1>8. AnswerKept'
  BY <1>1, <1>2, <1>3 DEF IInv, AnswerKept, Spared, Holds
<1>9. ResultsRead'
  BY <1>1, <1>2, <1>3 DEF IInv, ResultsRead
<1> QED
  BY <1>3, <1>4, <1>5, <1>6, <1>7, <1>8, <1>9 DEF IInv

------------------------------------------------------------------------------
(* read_data *)

\* While the request is there, a length is what the caller has written.
LEMMA LengthFound ==
  ASSUME IInv, NEW x, x.op = "read", x.field = F("size"), phase # "write",
         x \in Marks(MapRequest(payload), base) \cup Marks(WriteResponse(payload), base)
                 \cup Marks(ReadResponse(payload), base)
  PROVE  Holds(Span(x), Sent(x.field))
<1>1. /\ Outputs(payload) = {}
      /\ \A a \in Marks(WriteResponse(payload), base) : a.op # "write"
      /\ \E y \in Marks(WriteRequest(payload), base) : y.op = "write" /\ Alike(x, y) /\ y.size > 0
  BY DEF IInv, Walked, Described, LengthsFound
<1>2. PICK y \in Marks(WriteRequest(payload), base) : y.op = "write" /\ Alike(x, y) /\ y.size > 0
  BY <1>1
<1>3. y \in Written /\ Untouched
  BY <1>1 DEF Written, Untouched
<1>4. Holds(Span(y), Sent(y.field))
  BY <1>2, <1>3 DEF IInv, RequestKept
<1> QED
  BY <1>2, <1>4, SpanOf

\* While the caller reads, every result is where it looks.
LEMMA ResultFound ==
  ASSUME IInv, phase = "read", NEW r \in Marks(ReadResponse(payload), base),
         r.op = "read", r.size > 0, r.field # F("size")
  PROVE  /\ Holds(Span(r), Result(r.field))
         /\ r.field \in Outputs(payload) \cup {F("chunk"), F("rect")}
<1> DEFINE answered == {a \in Marks(WriteResponse(payload), base) : a.op = "write"}
<1>1. /\ r.field \in Outputs(payload) \cup {F("chunk"), F("rect")}
      /\ \/ \E a \in answered : Alike(r, a)
         \/ /\ r.field \in Outputs(payload)
            /\ \A x \in Marks(MapRequest(payload), base) :
                 x.op = "map" /\ x.field = r.field => Alike(r, x)
            /\ \A a \in answered : ~Overlap(Span(a), Span(r))
      /\ \A f \in Outputs(payload) : \E x \in Marks(MapRequest(payload), base) : x.op = "map" /\ x.field = f
  BY DEF IInv, Walked, Described, ResultsFound
<1>2. CASE \E a \in answered : Alike(r, a)
  <2>1. PICK a \in answered : Alike(r, a)
    BY <1>2
  <2>2. a \in Answered /\ a.op = "write" /\ a.size > 0
    BY <2>1 DEF Answered, Alike
  <2>3. Holds(Span(a), Result(a.field))
    BY <2>2 DEF IInv, AnswerKept
  <2> QED
    BY <1>1, <2>1, <2>3, SpanOf
<1>3. CASE /\ r.field \in Outputs(payload)
           /\ \A x \in Marks(MapRequest(payload), base) :
                x.op = "map" /\ x.field = r.field => Alike(r, x)
           /\ \A a \in answered : ~Overlap(Span(a), Span(r))
  <2>1. Looked = Marks(MapRequest(payload), base)
    BY DEF Looked
  <2>2. r.field \in DOMAIN mapped
    BY <1>1, <1>3, <2>1 DEF IInv, Mapped
  <2>3. PICK x \in Looked : x.op = "map" /\ x.field = r.field /\ mapped[r.field] = Span(x)
    BY <2>2 DEF IInv, Mapped
  <2>4. mapped[r.field] = Span(r)
    BY <1>3, <2>1, <2>3, SpanOf
  <2>5. Spared(mapped[r.field])
    BY <1>3, <2>4 DEF Spared
  <2>6. r.lo \in Nat /\ r.size \in Nat
    BY KindsKnown, MarkTypes DEF IInv, Walked, Described
  <2>7. mapped[r.field].lo < mapped[r.field].hi
    BY <2>4, <2>6 DEF Span
  <2>8. Holds(mapped[r.field], Result(r.field))
    BY <1>3, <2>5, <2>7 DEF IInv, AnswerKept
  <2> QED
    BY <1>1, <2>4, <2>8
<1> QED
  BY <1>1, <1>2, <1>3

\* read_data finds the lengths and null pointers, and takes results only.
LEMMA CopyOutKeeps ==
  ASSUME IInv, CopyOut
  PROVE  IInv'
<1> DEFINE x == Current
<1>1. /\ Walked /\ Ready({"read"}) /\ Advance /\ mem' = mem
      /\ mapped' = mapped /\ payload' = payload /\ base' = base
  BY DEF CopyOut, IInv, Advance
<1>2. /\ x.op = "read" /\ x.field = Op.field /\ x.size = Op.size /\ Here = Span(x)
      /\ x \in Marks(Steps, base) /\ phase \in Cursing
  BY <1>1, CurrentIs
<1>3. phase \in {"map", "answer", "read"}
  BY <1>1, <1>2, OperationsOf DEF Cursing
<1> HIDE DEF x
<1>4. x \in Marks(MapRequest(payload), base) \cup Marks(WriteResponse(payload), base)
              \cup Marks(ReadResponse(payload), base)
  BY <1>2, <1>3 DEF Steps
<1>5. Op.field = F("size") => Holds(Here, Sent(Op.field))
  BY <1>2, <1>3, <1>4, LengthFound
<1>6. payload.kind = "rect" /\ Op.field = F("ptr") => Holds(Here, Result(Op.field))
  <2> SUFFICES ASSUME payload.kind = "rect", Op.field = F("ptr")
               PROVE  Holds(Here, Result(Op.field))
    OBVIOUS
  <2>1. /\ x \notin Marks(MapRequest(payload), base) \cup Marks(WriteResponse(payload), base)
        /\ x \in Marks(ReadResponse(payload), base) => x.size > 0
    BY <1>2 DEF IInv, Walked, Described, RectsRead
  <2>2. phase = "read" /\ x \in Marks(ReadResponse(payload), base)
    BY <1>2, <1>3, <2>1 DEF Steps
  <2>3. F("ptr") # F("size")
    BY DEF F
  <2> QED
    BY <1>2, <2>1, <2>2, <2>3, ResultFound
<1>7. phase' = phase
  BY <1>5, <1>6 DEF CopyOut
<1>8. /\ Walked'
      /\ Written' = Written
      /\ Looked   \subseteq Looked'   /\ Looked'   \subseteq Looked   \cup {x}
      /\ Answered \subseteq Answered' /\ Answered' \subseteq Answered \cup {x}
      /\ Reread' = Reread \cup (IF phase = "read" THEN {x} ELSE {})
  BY <1>1, <1>3, <1>7, Advancing DEF x
<1>9. MemTyped'
  BY <1>1 DEF IInv, MemTyped
<1>10. Mapped'
  <2>1. {y \in Looked' : y.op = "map"} = {y \in Looked : y.op = "map"}
    BY <1>2, <1>8
  <2> QED
    BY <1>1, <2>1 DEF IInv, Mapped
<1>11. RequestKept'
  BY <1>1, <1>7, <1>8 DEF IInv, RequestKept, Untouched, Holds
<1>12. PointersKept'
  BY <1>1, <1>7 DEF IInv, PointersKept, Slot, Holds
<1>13. AnswerKept'
  BY <1>1, <1>2, <1>7, <1>8 DEF IInv, AnswerKept, Spared, Holds
<1>14. ResultsRead'
  <2>1. CASE phase # "read"
    BY <1>1, <1>8, <2>1 DEF IInv, ResultsRead, CopyOut
  <2>2. CASE phase = "read"
    <3>1. x \in Marks(ReadResponse(payload), base)
      BY <1>2, <2>2 DEF Steps
    <3>2. x.size > 0 /\ x.field # F("size") =>
            Holds(Here, Result(x.field)) /\ x.field \in Outputs(payload) \cup {F("chunk"), F("rect")}
      BY <1>2, <2>2, <3>1, ResultFound
    <3>3. Holds(Here, Result(x.field)) => x.field \in Outputs(payload) \cup {F("chunk"), F("rect")}
      <4> SUFFICES ASSUME Holds(Here, Result(x.field))
                   PROVE  x.field \in Outputs(payload) \cup {F("chunk"), F("rect")}
        OBVIOUS
      <4>1. PICK e \in mem : e.val = Result(x.field)
        BY DEF Holds
      <4>2. e.val.kind = "result" /\ e.val.field = x.field
        BY <4>1 DEF Result
      <4>3. \E f \in Outputs(payload) \cup {F("chunk"), F("rect")} : e.val = Result(f)
        BY <4>2 DEF IInv, MemTyped
      <4> QED
        BY <4>2, <4>3 DEF Result
    <3>4. result' = IF x.size > 0 /\ Holds(Here, Result(x.field)) THEN result \cup {x.field} ELSE result
      BY <1>2, <2>2 DEF CopyOut
    <3>5. /\ result \subseteq Outputs(payload) \cup {F("chunk"), F("rect")}
          /\ \A r \in Reread : r.op = "read" /\ r.size > 0 /\ r.field # F("size") => r.field \in result
      BY DEF IInv, ResultsRead
    <3>6. result' \subseteq Outputs(payload) \cup {F("chunk"), F("rect")} /\ result \subseteq result'
      BY <3>3, <3>4, <3>5
    <3>7. x.size > 0 /\ x.field # F("size") => x.field \in result'
      BY <3>2, <3>4
    <3>8. Reread' = Reread \cup {x}
      BY <1>8, <2>2
    <3> QED
      BY <1>1, <3>5, <3>6, <3>7, <3>8 DEF ResultsRead
  <2> QED
    BY <2>1, <2>2
<1> QED
  BY <1>8, <1>9, <1>10, <1>11, <1>12, <1>13, <1>14 DEF IInv

------------------------------------------------------------------------------
(* map_data *)

Maps     == {x \in Marks(MapRequest(payload), base) : x.op = "map"}
Homes(f) == {h \in Maps : h.field = Home(f)}
Wrote(y) == y \in Marks(WriteRequest(payload), base) /\ y.op = "write"

\* Where the pointer to a numbered field is, from the start of its array.
LEMMA ShiftTyped ==
  ASSUME NEW f \in Numbered
  PROVE  /\ f[1] \in {"event", "in", "out"} /\ f[2] \in Nat
         /\ Shift(f) \in Int /\ (Home(f) # f \/ ~HasSlot(f))
         /\ \A h : h.lo \in Nat =>
              /\ SlotIn(h, f).lo = h.lo + Shift(f) /\ SlotIn(h, f).hi = h.lo + Shift(f) + PtrSize
              /\ SlotIn(h, f).lo < SlotIn(h, f).hi /\ SlotIn(h, f).lo \in Int /\ SlotIn(h, f).hi \in Int
<1>1. f[1] \in {"event", "in", "out"} /\ f[2] \in Nat
  BY DEF Numbered
<1>2. Shift(f) \in Int
  BY <1>1 DEF Shift, PtrSize, EvHeaderSize
<1>3. Home(f) # f \/ ~HasSlot(f)
  BY DEF Home, HasSlot, F
<1>4. \A h : h.lo \in Nat =>
        /\ SlotIn(h, f).lo = h.lo + Shift(f) /\ SlotIn(h, f).hi = h.lo + Shift(f) + PtrSize
        /\ SlotIn(h, f).lo < SlotIn(h, f).hi /\ SlotIn(h, f).lo \in Int /\ SlotIn(h, f).hi \in Int
  BY <1>2 DEF SlotIn, PtrSize
<1> QED
  BY <1>1, <1>2, <1>3, <1>4

\* What RoomForPointers says of one field, with the numbers.
LEMMA RoomFor ==
  ASSUME Walked, NEW x \in Maps, HasSlot(x.field)
  PROVE  /\ Homes(x.field) # {} /\ x.field \in Numbered
         /\ \A h \in Homes(x.field) :
              /\ h \in Maps /\ h.field = Home(x.field) /\ h.lo \in Nat /\ h.lo < x.lo
              /\ SlotIn(h, x.field).lo \in Nat /\ SlotIn(h, x.field).hi \in Nat
              /\ SlotIn(h, x.field).lo < SlotIn(h, x.field).hi
              /\ \A y : Wrote(y) => ~Overlap(Span(y), SlotIn(h, x.field))
              /\ \A z \in Maps : HasSlot(z.field) /\ z.field # x.field =>
                   \A g \in Homes(z.field) : ~Overlap(SlotIn(h, x.field), SlotIn(g, z.field))
<1>1. \A z \in Maps : z.lo \in Nat /\ z.size \in Nat
  BY KindsKnown, MarkTypes DEF Maps, Walked, Described
<1>2. /\ Homes(x.field) # {} /\ x.field \in Numbered
      /\ \A h \in Homes(x.field) :
           /\ h.lo <= SlotIn(h, x.field).lo /\ SlotIn(h, x.field).hi <= x.lo
           /\ \A y : Wrote(y) => ~Overlap(Span(y), SlotIn(h, x.field))
           /\ \A z \in Maps : HasSlot(z.field) /\ z.field # x.field =>
                \A g \in Homes(z.field) : ~Overlap(SlotIn(h, x.field), SlotIn(g, z.field))
  BY DEF Walked, Described, RoomForPointers, Maps, Homes, Wrote
<1>3. \A h \in Homes(x.field) : h \in Maps /\ h.field = Home(x.field)
  BY DEF Homes
<1>4. ASSUME NEW h \in Homes(x.field)
      PROVE  /\ h.lo \in Nat /\ h.lo < x.lo
             /\ SlotIn(h, x.field).lo \in Nat /\ SlotIn(h, x.field).hi \in Nat
             /\ SlotIn(h, x.field).lo < SlotIn(h, x.field).hi
  <2>1. h.lo \in Nat /\ x.lo \in Nat
    BY <1>1, <1>3
  <2>2. /\ SlotIn(h, x.field).lo < SlotIn(h, x.field).hi
        /\ SlotIn(h, x.field).lo \in Int /\ SlotIn(h, x.field).hi \in Int
    BY <1>2, <2>1, ShiftTyped
  <2> QED
    BY <1>2, <2>1, <2>2
<1> QED
  BY <1>1, <1>2, <1>3, <1>4

\* What lies before a field that has been mapped has been looked at.
LEMMA Earlier ==
  ASSUME Walked, phase = "map", Ready({"map"}), NEW z \in Looked \cup {Current},
         NEW h \in Marks(MapRequest(payload), base), h.lo < z.lo
  PROVE  h \in Looked
<1>1. /\ Steps = MapRequest(payload) /\ Steps \in Seq(AnyStep) /\ base \in Nat /\ step \in Nat
      /\ step \in 1 .. Len(Steps) /\ Len(Steps) \in Nat /\ DOMAIN Steps = 1 .. Len(Steps)
  BY CurrentIs, LenProperties DEF Steps, Walked
<1>2. Looked = Passed(Steps, base, step)
  BY <1>1 DEF Looked
<1>3. PICK k \in 1 .. step : z = MarkAt(Steps, base, k)
  BY <1>1, <1>2 DEF Passed, Current
<1>4. PICK j \in 1 .. Len(Steps) : h = MarkAt(Steps, base, j)
  BY <1>1 DEF Marks
<1>5. h.lo \in Nat /\ z.lo \in Nat /\ z.size \in Nat
  BY <1>1, <1>3, <1>4, MarkIs
<1>6. k < j => Before(z, h)
  <2>1. k \in 1 .. Len(Steps)
    BY <1>1
  <2> QED
    BY <1>1, <1>3, <1>4, <2>1, MarksOrdered
<1>7. ~(k < j) /\ j # k
  BY <1>3, <1>4, <1>5, <1>6 DEF Before
<1>8. j \in DOMAIN Steps /\ j < step
  BY <1>1, <1>3, <1>7
<1> QED
  BY <1>2, <1>4, <1>8 DEF Passed

\* So the array that a pointer is stored in has been mapped, and stays where it is.
LEMMA HomeMapped ==
  ASSUME IInv, phase = "map", Ready({"map"}), NEW z \in Looked \cup {Current}, z.op = "map",
         HasSlot(z.field)
  PROVE  /\ z \in Maps /\ Home(z.field) \in DOMAIN mapped /\ Home(z.field) # Current.field
         /\ \E h \in Homes(z.field) : /\ mapped[Home(z.field)] = Span(h)
                                      /\ Slot(z.field) = {SlotIn(h, z.field)}
<1>1. Walked /\ Mapped /\ Steps = MapRequest(payload)
  BY DEF IInv, Steps
<1>2. z \in Maps
  BY <1>1, PassedTyped, CurrentIs DEF Maps
<1>3. /\ Homes(z.field) # {} /\ z.field \in Numbered
      /\ \A h \in Homes(z.field) : h \in Maps /\ h.field = Home(z.field) /\ h.lo \in Nat /\ h.lo < z.lo
  BY <1>1, <1>2, RoomFor
<1>4. PICK g \in Homes(z.field) : TRUE
  BY <1>3
<1>5. g \in Looked /\ g.op = "map" /\ g.field = Home(z.field)
  <2>1. g \in Marks(MapRequest(payload), base) /\ g.op = "map" /\ g.lo < z.lo
    BY <1>3 DEF Maps
  <2> QED
    BY <1>1, <1>3, <2>1, Earlier
<1>6. Home(z.field) \in DOMAIN mapped
  BY <1>1, <1>5 DEF Mapped
<1>7. PICK h \in Looked : h.op = "map" /\ h.field = Home(z.field) /\ mapped[Home(z.field)] = Span(h)
  BY <1>1, <1>6 DEF Mapped
<1>8. h \in Homes(z.field) /\ h.lo \in Nat
  <2>1. h \in Maps
    BY <1>1, <1>7, PassedTyped DEF Maps
  <2> QED
    BY <1>3, <1>7, <2>1 DEF Homes
<1>9. Slot(z.field) = {SlotIn(h, z.field)}
  <2> DEFINE f == z.field
  <2>1. mapped[Home(f)].lo = h.lo
    BY <1>7 DEF Span
  <2>2. f[1] \in {"event", "in", "out"} /\ f[2] \in Nat
    BY <1>3, ShiftTyped
  <2> HIDE DEF f
  <2>3. CASE f[1] = "event"
    <3>1. mapped[F("header")].lo = h.lo
      BY <2>1, <2>3 DEF Home
    <3> DEFINE a == h.lo + EvHeaderSize + PtrSize * (f[2] - 1)
    <3>2. Slot(f) = {[lo |-> a, hi |-> a + PtrSize]}
      BY <2>3, <3>1 DEF Slot
    <3>3. a = h.lo + Shift(f)
      BY <1>8, <2>2, <2>3 DEF Shift, EvHeaderSize, PtrSize
    <3> HIDE DEF a
    <3> QED
      BY <3>2, <3>3 DEF SlotIn, f
  <2>4. CASE f[1] # "event"
    <3>1. f[1] \in {"in", "out"} /\ f[2] > 0 /\ mapped[F(f[1])].lo = h.lo
      BY <2>1, <2>4 DEF Home, HasSlot, f
    <3> DEFINE a == h.lo + PtrSize * (f[2] - 1)
    <3>2. Slot(f) = {[lo |-> a, hi |-> a + PtrSize]}
      BY <3>1 DEF Slot
    <3>3. a = h.lo + Shift(f)
      BY <1>8, <2>2, <2>4 DEF Shift, PtrSize
    <3> HIDE DEF a
    <3> QED
      BY <3>2, <3>3 DEF SlotIn, f
  <2> QED
    BY <2>3, <2>4 DEF f
<1>10. Home(z.field) # Current.field
  <2> SUFFICES ASSUME Home(z.field) = Current.field
               PROVE  FALSE
    OBVIOUS
  <2>1. /\ Current \in Marks(MapRequest(payload), base) /\ Current.op = "map"
        /\ Current.lo \in Nat /\ Current.size \in Nat
    BY <1>1, CurrentIs
  <2>2. Current \in Homes(z.field)
    BY <2>1 DEF Homes, Maps
  <2>3. Current.lo < z.lo
    BY <1>3, <2>2
  <2>4. z \in Looked => Before(z, Current) /\ z.lo \in Nat /\ z.size \in Nat
    BY <1>1, CurrentPassed DEF Looked
  <2> QED
    BY <2>1, <2>3, <2>4 DEF Before
<1> QED
  BY <1>2, <1>6, <1>7, <1>8, <1>9, <1>10

\* Overlap is symmetric.
LEMMA OverlapBoth ==
  ASSUME NEW p, NEW q
  PROVE  Overlap(p, q) <=> Overlap(q, p)
BY DEF Overlap

\* The pointer to a field outside the arrays is not in memory.
LEMMA NoSlot ==
  ASSUME NEW f, ~HasSlot(f)
  PROVE  Slot(f) = {} /\ Slot(f)' = {}
BY DEF Slot, HasSlot

\* What a pointer is stored over: room that the caller has left, for it alone.
LEMMA SlotFree ==
  ASSUME IInv, phase = "map", Ready({"map"}), Current.op = "map",
         NEW q \in Slot(Current.field)
  PROVE  /\ q.lo \in Nat /\ q.hi \in Nat /\ q.lo < q.hi
         /\ \A y : Wrote(y) => ~Overlap(Span(y), q)
         /\ \A f \in DOMAIN mapped : f # Current.field => \A p \in Slot(f) : ~Overlap(p, q)
<1> DEFINE x == Current
<1>1. Walked /\ Mapped /\ HasSlot(x.field)
  BY NoSlot DEF IInv
<1>2. PICK h \in Homes(x.field) : Slot(x.field) = {SlotIn(h, x.field)}
  BY <1>1, HomeMapped
<1>3. x \in Maps
  BY <1>1, HomeMapped
<1>4. q = SlotIn(h, x.field)
  BY <1>2
<1> HIDE DEF x
<1>5. /\ q.lo \in Nat /\ q.hi \in Nat /\ q.lo < q.hi
      /\ \A y : Wrote(y) => ~Overlap(Span(y), q)
      /\ \A z \in Maps : HasSlot(z.field) /\ z.field # x.field =>
           \A g \in Homes(z.field) : ~Overlap(q, SlotIn(g, z.field))
  BY <1>1, <1>3, <1>4, RoomFor
<1>6. ASSUME NEW f \in DOMAIN mapped, f # x.field, NEW p \in Slot(f)
      PROVE  ~Overlap(p, q)
  <2>1. HasSlot(f)
    BY <1>6, NoSlot
  <2>2. PICK z \in Looked : z.op = "map" /\ z.field = f
    BY <1>1, <1>6 DEF Mapped
  <2>3. z \in Maps /\ \E g \in Homes(z.field) : Slot(z.field) = {SlotIn(g, z.field)}
    BY <2>1, <2>2, HomeMapped
  <2>4. PICK g \in Homes(z.field) : Slot(z.field) = {SlotIn(g, z.field)}
    BY <2>3
  <2>5. p = SlotIn(g, z.field)
    BY <1>6, <2>2, <2>4
  <2>6. ~Overlap(q, SlotIn(g, z.field))
    BY <1>5, <1>6, <2>1, <2>2, <2>3
  <2> QED
    BY <2>5, <2>6, OverlapBoth
<1> QED
  BY <1>5, <1>6 DEF x

\* No pointer moves when another is mapped.
LEMMA SlotStays ==
  ASSUME IInv, phase = "map", Ready({"map"}), Current.op = "map",
         mapped' = Bind(Current.field, Here), NEW f \in DOMAIN mapped \cup {Current.field}
  PROVE  Slot(f)' = Slot(f)
<1>1. CASE ~HasSlot(f)
  BY <1>1, NoSlot
<1>2. CASE HasSlot(f)
  <2>1. PICK z \in Looked \cup {Current} : z.op = "map" /\ z.field = f
    BY DEF IInv, Mapped
  <2>2. Home(f) \in DOMAIN mapped /\ Home(f) # Current.field
    BY <1>2, <2>1, HomeMapped
  <2>3. mapped'[Home(f)] = mapped[Home(f)]
    BY <2>2 DEF Bind
  <2> QED
    BY <1>2, <2>3 DEF Slot, Home, HasSlot
<1> QED
  BY <1>1, <1>2

\* map_data stores its pointer where nothing is that is still needed.
LEMMA MapKeeps ==
  ASSUME IInv, Map
  PROVE  IInv'
<1> DEFINE x == Current
           s == Slot(x.field)
           v == Pointer(x.field)
<1>1. /\ Walked /\ Ready({"map"}) /\ Advance
      /\ result' = result /\ payload' = payload /\ base' = base
  BY DEF Map, IInv, Advance
<1>2. /\ x.op = "map" /\ x.field = Op.field /\ Here = Span(x)
      /\ x \in Marks(Steps, base) /\ phase \in Cursing
  BY <1>1, CurrentIs
<1>3. phase = "map"
  BY <1>1, <1>2, OperationsOf DEF Cursing
<1>4. \A q \in s : q.lo < q.hi /\ \A y : Wrote(y) => ~Overlap(Span(y), q)
  BY <1>1, <1>2, <1>3, SlotFree
<1>5. \A q \in s, f \in DOMAIN mapped : f # x.field => \A p \in Slot(f) : ~Overlap(p, q)
  BY <1>1, <1>2, <1>3, SlotFree
<1>6. mapped' = Bind(x.field, Here)
  BY <1>2 DEF Map
<1>7. \A f \in DOMAIN mapped \cup {x.field} : Slot(f)' = Slot(f)
  BY <1>1, <1>2, <1>3, <1>6, SlotStays
<1> HIDE DEF x
<1>8. phase' = phase
  <2>1. CASE x.field[1] \in {"header", "event"}
    <3>1. PICK y \in Marks(WriteRequest(payload), base) :
            y.op = "write" /\ x.field = y.field /\ x.lo = y.lo /\ y.size > 0
      BY <1>2, <1>3, <2>1 DEF IInv, Walked, Described, RequestFound, Steps
    <3>2. y \in Written
      BY <1>3 DEF Written
    <3>3. Holds(Span(y), Sent(y.field))
      BY <1>3, <3>1, <3>2 DEF IInv, RequestKept, Untouched
    <3>4. StartsWith(Here, Sent(Op.field))
      BY <1>2, <3>1, <3>3 DEF Holds, StartsWith, Span
    <3> QED
      BY <3>4 DEF Map
  <2>2. CASE x.field[1] \notin {"header", "event"}
    BY <1>2, <2>2 DEF Map
  <2> QED
    BY <2>1, <2>2
<1>9. /\ Walked'
      /\ Written' = Written /\ Answered' = Answered /\ Reread' = Reread
      /\ Looked' = Looked \cup {x}
  BY <1>1, <1>3, <1>8, Advancing DEF x
<1>10. mem' = Put(mem, s, v)
  <2>1. {p \in s : p.lo < p.hi} = s
    BY <1>4
  <2> QED
    BY <1>2, <2>1 DEF Map, Store
<1> HIDE DEF s, v
<1>11. /\ \A q \in s : InMem(q, v, mem')
       /\ \A p, u : InMem(p, u, mem) /\ (\A q \in s : ~Overlap(p, q)) => InMem(p, u, mem')
       /\ \A e \in mem' : e \in mem \/ \E p \in s : e.lo = p.lo /\ e.hi = p.hi /\ e.val = v
  BY <1>10, Stored
<1>12. MemTyped'
  <2>1. \A q \in s : q.lo \in Nat /\ q.hi \in Nat /\ q.lo < q.hi
    BY <1>1, <1>2, <1>3, SlotFree DEF s, x
  <2>2. v.kind = "pointer"
    BY DEF v, Pointer
  <2> QED
    BY <1>1, <1>11, <2>1, <2>2 DEF IInv, MemTyped
<1>13. Mapped'
  <2>1. {y.field : y \in {z \in Looked' : z.op = "map"}}
          = {y.field : y \in {z \in Looked : z.op = "map"}} \cup {x.field}
    BY <1>2, <1>9
  <2>2. DOMAIN mapped' = DOMAIN mapped \cup {x.field}
    BY <1>6 DEF Bind
  <2>3. \A f \in DOMAIN mapped' : mapped'[f] = IF f = x.field THEN Span(x) ELSE mapped[f]
    BY <1>2, <1>6, <2>2 DEF Bind
  <2>4. \A f \in DOMAIN mapped' : \E y \in Looked' : y.op = "map" /\ y.field = f /\ mapped'[f] = Span(y)
    BY <1>2, <1>9, <2>2, <2>3 DEF IInv, Mapped
  <2> QED
    BY <2>1, <2>2, <2>4 DEF IInv, Mapped
<1>14. RequestKept'
  <2>1. ASSUME NEW y \in Written, y.op = "write", y.size > 0
        PROVE  InMem(Span(y), Sent(y.field), mem')
    <3>1. InMem(Span(y), Sent(y.field), mem)
      BY <1>3, <2>1 DEF IInv, RequestKept, Untouched, Holds, InMem
    <3>2. Wrote(y)
      BY <1>1, <2>1, PassedTyped DEF Wrote
    <3> QED
      BY <1>4, <1>11, <3>1, <3>2 DEF s
  <2> QED
    BY <1>9, <2>1 DEF RequestKept, Holds, InMem
<1>15. PointersKept'
  <2>1. ASSUME NEW f \in DOMAIN mapped', NEW p \in Slot(f)
        PROVE  InMem(p, Pointer(f), mem')
    <3>1. f \in DOMAIN mapped \cup {x.field}
      BY <1>6 DEF Bind
    <3>2. CASE f = x.field
      BY <1>11, <2>1, <3>2 DEF s, v
    <3>3. CASE f # x.field
      <4>1. InMem(p, Pointer(f), mem)
        BY <1>3, <2>1, <3>1, <3>3 DEF IInv, PointersKept, Holds, InMem
      <4>2. \A q \in s : ~Overlap(p, q)
        BY <1>5, <2>1, <3>1, <3>3 DEF s
      <4> QED
        BY <1>11, <4>1, <4>2
    <3> QED
      BY <3>2, <3>3
  <2>2. \A f \in DOMAIN mapped' : Slot(f)' = Slot(f)
    BY <1>6, <1>7 DEF Bind
  <2> QED
    BY <2>1, <2>2 DEF PointersKept, Holds, InMem
<1>16. AnswerKept'
  BY <1>3, <1>8, <1>9 DEF AnswerKept, Answered
<1>17. ResultsRead'
  BY <1>1, <1>9 DEF IInv, ResultsRead
<1> QED
  BY <1>9, <1>12, <1>13, <1>14, <1>15, <1>16, <1>17 DEF IInv

------------------------------------------------------------------------------
(* The turns *)

\* A cursor that has passed its last operation.
LEMMA CursorDone ==
  ASSUME Walked, phase \in Cursing, step > Len(Steps)
  PROVE  /\ Steps \in Seq(AnyStep) /\ base \in Nat
         /\ cursor = base + Total(Steps, base) /\ cursor \in Nat /\ Total(Steps, base) \in Nat
         /\ Passed(Steps, base, step) = Marks(Steps, base)
<1>1. Steps \in Seq(AnyStep) /\ base \in Nat /\ step \in Nat
  BY KindsKnown DEF Steps, Cursing, Walked, Described
<1>2. step - 1 = Len(Steps) /\ cursor = Cursor(Steps, base)[step - 1]
  BY <1>1, LenProperties DEF Walked, Cursing
<1>3. /\ Cursor(Steps, base)[Len(Steps)] = base + Total(Steps, base)
      /\ Total(Steps, base) \in Nat /\ base + Total(Steps, base) \in Nat
  BY <1>1, EndOf
<1>4. Passed(Steps, base, step) = Marks(Steps, base)
  BY <1>1, Passing
<1> QED
  BY <1>1, <1>2, <1>3, <1>4

\* The next cursor starts where this one did.
LEMMA NextCursor ==
  ASSUME NEW steps \in Seq(AnyStep), NEW o \in Nat
  PROVE  /\ 1 \in 1 .. Len(steps) + 1 /\ o = Cursor(steps, o)[1 - 1]
         /\ Passed(steps, o, 1) = {}
<1>1. Len(steps) \in Nat
  BY LenProperties
<1>2. Cursor(steps, o)[0] = o
  BY CursorRuns DEF Runs
<1> QED
  BY <1>1, <1>2, Passing

\* From one cursor to the next: the caller has written all, the callee has none.
LEMMA SendRequestKeeps ==
  ASSUME IInv, SendRequest
  PROVE  IInv'
<1>1. /\ Walked /\ phase = "write" /\ step > Len(Steps) /\ Steps = WriteRequest(payload)
      /\ phase' = "map" /\ step' = 1 /\ cursor' = base /\ size' = cursor - base
      /\ payload' = payload /\ base' = base /\ mapped' = mapped /\ result' = result /\ mem' = mem
      /\ MapRequest(payload) \in Seq(AnyStep) /\ base \in Nat
  BY KindsKnown DEF SendRequest, Turn, IInv, Steps, Walked, Described
<1>2. /\ cursor = base + Total(Steps, base) /\ Total(Steps, base) \in Nat
      /\ Passed(Steps, base, step) = Marks(Steps, base)
  BY <1>1, CursorDone DEF Cursing
<1>3. size' = Total(WriteRequest(payload), base)
  BY <1>1, <1>2
<1>4. /\ 1 \in 1 .. Len(MapRequest(payload)) + 1
      /\ cursor' = Cursor(MapRequest(payload), base)[1 - 1]
      /\ Passed(MapRequest(payload), base, 1) = {}
  BY <1>1, NextCursor
<1>5. Walked'
  BY <1>1, <1>3, <1>4 DEF Walked, Steps, Phases
<1>6. Written' = Written /\ Looked' = {} /\ Answered' = {} /\ Reread' = {}
      /\ Looked = {} /\ Answered = {} /\ Reread = {}
  BY <1>1, <1>2, <1>4 DEF Written, Looked, Answered, Reread
<1>7. MemTyped' /\ Mapped' /\ ResultsRead'
  BY <1>1, <1>6 DEF IInv, MemTyped, Mapped, ResultsRead
<1>8. RequestKept'
  BY <1>1, <1>6 DEF IInv, RequestKept, Untouched, Holds
<1>9. PointersKept'
  BY <1>6, <1>7 DEF PointersKept, Mapped
<1>10. AnswerKept'
  BY <1>1, <1>6 DEF AnswerKept
<1> QED
  BY <1>5, <1>7, <1>8, <1>9, <1>10 DEF IInv

\* The function is called with everything mapped,
LEMMA CallKeeps ==
  ASSUME IInv, Call
  PROVE  IInv'
<1>1. /\ Walked /\ phase = "map" /\ step > Len(Steps) /\ Steps = MapRequest(payload)
      /\ phase' = "code" /\ step' = step /\ cursor' = cursor /\ size' = size
      /\ payload' = payload /\ base' = base /\ mapped' = mapped /\ result' = result /\ mem' = mem
  BY DEF Call, IInv, Steps
<1>2. /\ cursor = base + Total(Steps, base)
      /\ Passed(Steps, base, step) = Marks(Steps, base)
  BY <1>1, CursorDone DEF Cursing
<1>3. Walked'
  BY <1>1, <1>2 DEF Walked, Phases
<1>4. Written' = Written /\ Looked' = Looked /\ Answered' = {} /\ Reread' = Reread
  BY <1>1, <1>2 DEF Written, Looked, Answered, Reread
<1>5. MemTyped' /\ Mapped' /\ ResultsRead'
  BY <1>1, <1>4 DEF IInv, MemTyped, Mapped, ResultsRead
<1>6. RequestKept'
  BY <1>1, <1>4 DEF IInv, RequestKept, Untouched, Holds
<1>7. PointersKept'
  BY <1>1 DEF IInv, PointersKept, Slot, Holds
<1>8. AnswerKept'
  BY <1>1, <1>4 DEF AnswerKept
<1> QED
  BY <1>3, <1>5, <1>6, <1>7, <1>8 DEF IInv

\* Every output is mapped, and so the function stores it where a place is.
LEMMA OutputMapped ==
  ASSUME IInv, phase \in {"code", "answer", "read"}, NEW f \in Outputs(payload)
  PROVE  /\ f \in DOMAIN mapped /\ mapped[f].lo \in Nat /\ mapped[f].hi \in Nat
<1>1. Looked = Marks(MapRequest(payload), base)
  BY DEF Looked
<1>2. \E x \in Looked : x.op = "map" /\ x.field = f
  BY <1>1 DEF IInv, Walked, Described, ResultsFound
<1>3. f \in DOMAIN mapped
  BY <1>2 DEF IInv, Mapped
<1>4. PICK x \in Looked : mapped[f] = Span(x)
  BY <1>3 DEF IInv, Mapped
<1>5. x.lo \in Nat /\ x.size \in Nat
  BY PassedTyped DEF IInv
<1> QED
  BY <1>3, <1>4, <1>5 DEF Span

\* and stores its outputs where they are mapped.
LEMMA RunKeeps ==
  ASSUME IInv, Run
  PROVE  IInv'
<1>1. /\ Walked /\ phase = "code" /\ phase' = "answer" /\ step' = 1 /\ cursor' = base /\ size' = size
      /\ payload' = payload /\ base' = base /\ mapped' = mapped /\ result' = result
      /\ WriteResponse(payload) \in Seq(AnyStep) /\ base \in Nat
  BY KindsKnown DEF Run, Turn, IInv, Walked, Described
<1>2. /\ 1 \in 1 .. Len(WriteResponse(payload)) + 1
      /\ cursor' = Cursor(WriteResponse(payload), base)[1 - 1]
      /\ Passed(WriteResponse(payload), base, 1) = {}
  BY <1>1, NextCursor
<1>3. Walked'
  BY <1>1, <1>2 DEF Walked, Steps, Phases
<1>4. Written' = Written /\ Looked' = Looked /\ Answered' = {} /\ Reread' = {} /\ Reread = {}
  BY <1>1, <1>2 DEF Written, Looked, Answered, Reread
<1> DEFINE stored == {[lo |-> mapped[f].lo, hi |-> mapped[f].hi, val |-> Result(f)] :
                        f \in {g \in Outputs(payload) : mapped[g].lo < mapped[g].hi}}
           kept == {e \in mem : \A f \in Outputs(payload) : ~Overlap(e, mapped[f])}
<1>5. mem' = kept \cup stored
  BY DEF Run
<1>6. \A e \in kept : e \in mem
  OBVIOUS
<1>7. \A e \in stored : /\ e.lo \in Nat /\ e.hi \in Nat /\ e.lo < e.hi
                        /\ \E f \in Outputs(payload) : e.val = Result(f)
  BY <1>1, OutputMapped
<1>8. Outputs(payload) = {} => mem' = mem
  BY <1>5
<1>9. \A f \in Outputs(payload) : mapped[f].lo < mapped[f].hi => InMem(mapped[f], Result(f), stored)
  BY DEF InMem
<1> HIDE DEF kept, stored
<1>10. MemTyped'
  BY <1>1, <1>5, <1>6, <1>7 DEF IInv, MemTyped
<1>11. Mapped' /\ ResultsRead'
  BY <1>1, <1>4 DEF IInv, Mapped, ResultsRead
<1>12. RequestKept'
  <2>1. Untouched' => Outputs(payload) = {}
    BY <1>1 DEF Untouched
  <2> QED
    BY <1>1, <1>4, <1>8, <2>1 DEF IInv, RequestKept, Untouched, Holds
<1>13. PointersKept'
  BY <1>1 DEF PointersKept
<1>14. AnswerKept'
  <2>1. \A f \in Outputs(payload) : mapped[f].lo < mapped[f].hi => InMem(mapped[f], Result(f), mem')
    BY <1>5, <1>9 DEF InMem
  <2> QED
    BY <1>1, <1>4, <2>1 DEF AnswerKept, Holds, InMem
<1> QED
  BY <1>3, <1>10, <1>11, <1>12, <1>13, <1>14 DEF IInv

\* The callee has answered all, the caller has none.
LEMMA SendResponseKeeps ==
  ASSUME IInv, SendResponse
  PROVE  IInv'
<1>1. /\ Walked /\ phase = "answer" /\ step > Len(Steps) /\ Steps = WriteResponse(payload)
      /\ phase' = "read" /\ step' = 1 /\ cursor' = base /\ size' = size
      /\ payload' = payload /\ base' = base /\ mapped' = mapped /\ result' = result /\ mem' = mem
      /\ ReadResponse(payload) \in Seq(AnyStep) /\ base \in Nat
  BY KindsKnown DEF SendResponse, Turn, IInv, Steps, Walked, Described
<1>2. Passed(Steps, base, step) = Marks(Steps, base)
  BY <1>1, CursorDone DEF Cursing
<1>3. /\ 1 \in 1 .. Len(ReadResponse(payload)) + 1
      /\ cursor' = Cursor(ReadResponse(payload), base)[1 - 1]
      /\ Passed(ReadResponse(payload), base, 1) = {}
  BY <1>1, NextCursor
<1>4. Walked'
  BY <1>1, <1>3 DEF Walked, Steps, Phases
<1>5. Written' = Written /\ Looked' = Looked /\ Answered' = Answered /\ Reread' = {}
  BY <1>1, <1>2, <1>3 DEF Written, Looked, Answered, Reread
<1>6. MemTyped' /\ Mapped' /\ ResultsRead'
  BY <1>1, <1>5 DEF IInv, MemTyped, Mapped, ResultsRead
<1>7. RequestKept'
  BY <1>1, <1>5 DEF IInv, RequestKept, Untouched, Holds
<1>8. PointersKept'
  BY <1>1 DEF PointersKept
<1>9. AnswerKept'
  BY <1>1, <1>5 DEF IInv, AnswerKept, Spared, Holds
<1> QED
  BY <1>4, <1>6, <1>7, <1>8, <1>9 DEF IInv

\* The caller has all.
LEMMA CompleteKeeps ==
  ASSUME IInv, Complete
  PROVE  IInv'
<1>1. /\ Walked /\ phase = "read" /\ step > Len(Steps) /\ Steps = ReadResponse(payload)
      /\ phase' = "done" /\ step' = 1 /\ cursor' = base /\ size' = size
      /\ payload' = payload /\ base' = base /\ mapped' = mapped /\ result' = result /\ mem' = mem
      /\ base \in Nat
  BY DEF Complete, Turn, IInv, Steps, Walked
<1>2. Passed(Steps, base, step) = Marks(Steps, base)
  BY <1>1, CursorDone DEF Cursing
<1>3. Walked'
  BY <1>1 DEF Walked, Phases
<1>4. Written' = Written /\ Looked' = Looked /\ Answered' = Answered /\ Reread' = Reread
  BY <1>1, <1>2 DEF Written, Looked, Answered, Reread
<1>5. MemTyped' /\ Mapped' /\ ResultsRead'
  BY <1>1, <1>4 DEF IInv, MemTyped, Mapped, ResultsRead
<1>6. RequestKept'
  BY <1>1, <1>4 DEF IInv, RequestKept, Untouched, Holds
<1>7. PointersKept' /\ AnswerKept'
  BY <1>1, <1>4 DEF IInv, PointersKept, AnswerKept, Holds
<1> QED
  BY <1>3, <1>5, <1>6, <1>7 DEF IInv

------------------------------------------------------------------------------
(* The properties *)

\* Nothing is in memory at first.
LEMMA InitInvariant ==
  ASSUME Transferable, Init
  PROVE  IInv
<1>1. PICK c \in Transfers : payload = c.payload /\ base = c.base
  BY DEF Init
<1>2. [payload |-> payload, base |-> base] \in Transfers /\ Described(payload, base) /\ base \in Nat
  BY <1>1, TransfersAssumption DEF Transferable
<1>3. /\ phase = "write" /\ step = 1 /\ cursor = base /\ size = 0 /\ mem = {}
      /\ mapped = <<>> /\ result = {}
  BY DEF Init
<1>4. WriteRequest(payload) \in Seq(AnyStep)
  BY <1>2, KindsKnown DEF Described
<1>5. /\ 1 \in 1 .. Len(WriteRequest(payload)) + 1
      /\ base = Cursor(WriteRequest(payload), base)[1 - 1]
      /\ Passed(WriteRequest(payload), base, 1) = {}
  BY <1>2, <1>4, NextCursor
<1>6. Walked
  BY <1>2, <1>3, <1>5 DEF Walked, Steps, Phases
<1>7. Written = {} /\ Looked = {} /\ Answered = {} /\ Reread = {}
  BY <1>3, <1>5 DEF Written, Looked, Answered, Reread
<1>8. MemTyped /\ RequestKept /\ PointersKept /\ AnswerKept /\ ResultsRead
  BY <1>3, <1>7 DEF MemTyped, RequestKept, PointersKept, AnswerKept, ResultsRead
<1>9. Mapped
  BY <1>3, <1>7 DEF Mapped
<1> QED
  BY <1>6, <1>8, <1>9 DEF IInv

\* Every step of a transfer keeps the invariant.
LEMMA NextInvariant ==
  ASSUME IInv, [Next]_vars
  PROVE  IInv'
<1>1. CASE UNCHANGED vars
  BY <1>1 DEF vars, IInv, Walked, MemTyped, Mapped, RequestKept, PointersKept, AnswerKept, ResultsRead,
              Written, Looked, Answered, Reread, Steps, Untouched, Slot, Spared, Holds
<1>2. CASE Next
  <2>1. CASE Finished
    BY <1>1, <2>1 DEF Finished
  <2> QED
    BY <1>2, <2>1, CopyInKeeps, PassKeeps, MapKeeps, CopyOutKeeps, SendRequestKeeps, CallKeeps,
       RunKeeps, SendResponseKeeps, CompleteKeeps DEF Next
<1> QED
  BY <1>1, <1>2

\* What the invariant is for.
LEMMA InvariantSuffices ==
  ASSUME IInv
  PROVE  TypeOK /\ RequestArrives /\ CursorsMeet /\ ResultArrives
<1>1. /\ Walked /\ phase \in Phases /\ phase # "lost" /\ base \in Nat /\ step \in Nat
      /\ Kinds(payload)
  BY DEF IInv, Walked, Described
<1>2. /\ WriteRequest(payload) \in Seq(AnyStep) /\ MapRequest(payload) \in Seq(AnyStep)
      /\ WriteResponse(payload) \in Seq(AnyStep) /\ ReadResponse(payload) \in Seq(AnyStep)
  BY <1>1, KindsKnown
<1>3. /\ Total(WriteRequest(payload), base) \in Nat /\ Total(MapRequest(payload), base) \in Nat
  BY <1>1, <1>2, EndOf
<1>4. TypeOK
  <2>1. cursor \in Nat
    <3>1. CASE phase \in Cursing
      <4>1. Steps \in Seq(AnyStep)
        BY <1>2 DEF Steps
      <4>2. /\ step \in 1 .. Len(Steps) + 1 /\ cursor = Cursor(Steps, base)[step - 1]
            /\ Len(Steps) \in Nat
        BY <1>1, <3>1, <4>1, LenProperties DEF Walked, Cursing
      <4>3. Runs(Cursor(Steps, base), Steps, base, Len(Steps))
        BY <1>1, <4>1, CursorRuns
      <4>4. step - 1 \in 0 .. Len(Steps)
        BY <1>1, <4>2
      <4> QED
        BY <4>2, <4>3, <4>4 DEF Runs
    <3>2. CASE phase \notin Cursing
      <4>1. phase \in {"code", "done"}
        BY <1>1, <3>2 DEF Cursing, Phases
      <4>2. phase = "code" => cursor = base + Total(MapRequest(payload), base)
        BY <1>1 DEF Walked
      <4>3. phase = "done" => cursor \in Nat
        BY <1>1 DEF Walked
      <4> QED
        BY <1>1, <1>3, <4>1, <4>2, <4>3
    <3> QED
      BY <3>1, <3>2
  <2>2. size \in Nat
    BY <1>1, <1>3 DEF Walked
  <2>3. \A e \in mem : e.lo \in Nat /\ e.hi \in Nat /\ e.lo < e.hi
                       /\ e.val.kind \in {"sent", "result", "pointer"}
    <3>1. \A f : Result(f).kind = "result"
      BY DEF Result
    <3> QED
      BY <3>1 DEF IInv, MemTyped
  <2>4. \A f \in DOMAIN mapped : mapped[f].lo \in Nat /\ mapped[f].hi \in Nat
    <3> SUFFICES ASSUME NEW f \in DOMAIN mapped
                 PROVE  mapped[f].lo \in Nat /\ mapped[f].hi \in Nat
      OBVIOUS
    <3>1. PICK x \in Looked : mapped[f] = Span(x)
      BY DEF IInv, Mapped
    <3>2. x.lo \in Nat /\ x.size \in Nat
      BY <1>1, PassedTyped
    <3> QED
      BY <3>1, <3>2 DEF Span
  <2> QED
    BY <1>1, <2>1, <2>2, <2>3, <2>4 DEF TypeOK, IInv, Walked, ResultsRead
<1>5. RequestArrives
  <2> SUFFICES ASSUME phase = "code", NEW f \in DOMAIN mapped
               PROVE  /\ f \in Fields(WriteRequest(payload), {"write"}) /\ mapped[f].lo < mapped[f].hi =>
                           Holds(mapped[f], Sent(f))
                      /\ \A p \in Slot(f) : Holds(p, Pointer(f))
    BY <1>1 DEF RequestArrives
  <2>1. ASSUME f \in Fields(WriteRequest(payload), {"write"}), mapped[f].lo < mapped[f].hi
        PROVE  Holds(mapped[f], Sent(f))
    <3>1. PICK x \in Looked : x.op = "map" /\ x.field = f /\ mapped[f] = Span(x)
      BY DEF IInv, Mapped
    <3>2. x.lo \in Nat /\ x.size \in Nat /\ x \in Marks(MapRequest(payload), base)
      BY <1>1, PassedTyped
    <3>3. x.size > 0
      BY <2>1, <3>1, <3>2 DEF Span
    <3>4. PICK y \in Marks(WriteRequest(payload), base) : y.op = "write" /\ Alike(x, y)
      BY <1>1, <2>1, <3>1, <3>2, <3>3 DEF Walked, Described, RequestFound
    <3>5. y \in Written /\ y.size > 0 /\ Untouched
      BY <3>3, <3>4 DEF Written, Untouched, Alike
    <3>6. Holds(Span(y), Sent(y.field))
      BY <3>4, <3>5 DEF IInv, RequestKept
    <3> QED
      BY <3>1, <3>4, <3>6, SpanOf
  <2>2. \A p \in Slot(f) : Holds(p, Pointer(f))
    BY DEF IInv, PointersKept
  <2> QED
    BY <2>1, <2>2
<1>6. CursorsMeet
  <2>1. Total(MapRequest(payload), base) = Total(WriteRequest(payload), base)
    BY <1>1 DEF Walked, Described
  <2> QED
    BY <1>1, <2>1 DEF CursorsMeet, Walked
<1>7. ResultArrives
  <2> SUFFICES ASSUME phase = "done", NEW k \in DOMAIN ReadResponse(payload),
                      ReadResponse(payload)[k].op = "read", ReadResponse(payload)[k].size > 0,
                      ReadResponse(payload)[k].field # F("size")
               PROVE  ReadResponse(payload)[k].field \in result
    BY DEF ResultArrives
  <2> DEFINE x == MarkAt(ReadResponse(payload), base, k)
  <2>1. k \in 1 .. Len(ReadResponse(payload))
    BY <1>2, LenProperties
  <2>2. /\ x \in Marks(ReadResponse(payload), base)
        /\ x.op = ReadResponse(payload)[k].op /\ x.field = ReadResponse(payload)[k].field
        /\ x.size = ReadResponse(payload)[k].size
    BY <1>1, <1>2, <2>1, MarkIs
  <2> HIDE DEF x
  <2>3. x \in Reread
    BY <2>2 DEF Reread
  <2> QED
    BY <2>2, <2>3 DEF IInv, ResultsRead
<1> QED
  BY <1>4, <1>5, <1>6, <1>7

------------------------------------------------------------------------------
(* Marks of sequences put together *)

\* The marks of no steps, of one, of two, and of steps behind others.
LEMMA MarksNone ==
  ASSUME NEW o
  PROVE  Marks(<<>>, o) = {}
BY DEF Marks

LEMMA MarksOne ==
  ASSUME NEW c \in AnyStep, NEW o \in Nat
  PROVE  /\ <<c>> \in Seq(AnyStep) /\ Marks(<<c>>, o) = {Mark(c, StartOf(c, o))}
         /\ o + Total(<<c>>, o) = StartOf(c, o) + c.size
<1> DEFINE steps == <<c>>
<1>1. steps \in Seq(AnyStep) /\ Len(steps) = 1 /\ DOMAIN steps = {1} /\ steps[1] = c
  OBVIOUS
<1> HIDE DEF steps
<1>2. Cursor(steps, o)[0] = o
  BY <1>1, CursorRuns DEF Runs
<1>3. FieldAt(steps, o, 1) = StartOf(c, o)
  <2>1. 1 - 1 = 0
    OBVIOUS
  <2> QED
    BY <1>1, <1>2, <2>1 DEF FieldAt
<1>4. Marks(steps, o) = {Mark(c, StartOf(c, o))}
  BY <1>1, <1>3 DEF Marks, MarkAt
<1> QED
  BY <1>1, <1>4, OnePlace DEF steps

LEMMA MarksConcat ==
  ASSUME NEW a \in Seq(AnyStep), NEW b \in Seq(AnyStep), NEW o \in Nat
  PROVE  /\ a \o b \in Seq(AnyStep) /\ o + Total(a, o) \in Nat
         /\ Marks(a \o b, o) = Marks(a, o) \cup Marks(b, o + Total(a, o))
         /\ o + Total(a \o b, o) = (o + Total(a, o)) + Total(b, o + Total(a, o))
<1> DEFINE ab == a \o b
           n == Len(a)
           m == Len(b)
           x == o + Total(a, o)
<1>1. /\ ab \in Seq(AnyStep) /\ Len(ab) = n + m
      /\ \A k \in 1 .. n : ab[k] = a[k]
      /\ \A k \in 1 .. m : ab[n + k] = b[k]
      /\ \A k \in 0 .. n : Cursor(ab, o)[k] = Cursor(a, o)[k]
      /\ \A k \in 0 .. m : Cursor(ab, o)[n + k] = Cursor(b, x)[k]
  BY CursorOfConcat
<1>2. n \in Nat /\ m \in Nat /\ DOMAIN a = 1 .. n /\ DOMAIN b = 1 .. m /\ x \in Nat
      /\ Total(a, o) \in Nat
  BY EndOf
<1>3. /\ Total(ab, o) = Total(a, o) + Total(b, x) /\ Total(b, x) \in Nat
  BY <1>2, PlacesOfConcat, EndOf
<1>11. o + Total(ab, o) = x + Total(b, x)
  <2>1. o + Total(ab, o) = o + (Total(a, o) + Total(b, x))
    BY <1>3
  <2> HIDE DEF ab
  <2> QED
    BY <1>2, <1>3, <2>1
<1> HIDE DEF ab, x
<1>4. DOMAIN ab = 1 .. n + m
  BY <1>1, LenProperties
<1> HIDE DEF n, m
<1>5. \A k \in 1 .. n : MarkAt(ab, o, k) = MarkAt(a, o, k)
  <2>1. \A k \in 1 .. n : k - 1 \in 0 .. n
    BY <1>2
  <2> QED
    BY <1>1, <2>1 DEF FieldAt, MarkAt
<1>6. ASSUME NEW k \in 1 .. m
      PROVE  MarkAt(ab, o, n + k) = MarkAt(b, x, k)
  <2>1. k - 1 \in 0 .. m /\ (n + k) - 1 = n + (k - 1)
    BY <1>2
  <2>2. Cursor(ab, o)[(n + k) - 1] = Cursor(b, x)[k - 1]
    BY <1>1, <2>1
  <2> QED
    BY <1>1, <2>2 DEF FieldAt, MarkAt
<1>7. /\ \A p : p \in Marks(ab, o) <=> \E k \in 1 .. n + m : p = MarkAt(ab, o, k)
      /\ \A p : p \in Marks(a, o) <=> \E k \in 1 .. n : p = MarkAt(a, o, k)
      /\ \A p : p \in Marks(b, x) <=> \E k \in 1 .. m : p = MarkAt(b, x, k)
  BY <1>2, <1>4 DEF Marks
<1>8. \A p \in Marks(ab, o) : p \in Marks(a, o) \cup Marks(b, x)
  <2> SUFFICES ASSUME NEW k \in 1 .. n + m
               PROVE  MarkAt(ab, o, k) \in Marks(a, o) \cup Marks(b, x)
    BY <1>7
  <2>1. CASE k <= n
    BY <1>2, <1>5, <1>7, <2>1
  <2>2. CASE k > n
    <3>1. k - n \in 1 .. m /\ n + (k - n) = k
      BY <1>2, <2>2
    <3> QED
      BY <1>6, <1>7, <3>1
  <2> QED
    BY <1>2, <2>1, <2>2
<1>9. \A p \in Marks(a, o) \cup Marks(b, x) : p \in Marks(ab, o)
  <2>1. \A k \in 1 .. n : k \in 1 .. n + m
    BY <1>2
  <2>2. \A k \in 1 .. m : n + k \in 1 .. n + m
    BY <1>2
  <2> QED
    BY <1>5, <1>6, <1>7, <2>1, <2>2
<1>10. Marks(ab, o) = Marks(a, o) \cup Marks(b, x)
  BY <1>8, <1>9
<1> QED
  BY <1>1, <1>2, <1>10, <1>11 DEF ab, x

LEMMA MarksTwo ==
  ASSUME NEW c \in AnyStep, NEW d \in AnyStep, NEW o \in Nat, NEW x, x = StartOf(c, o) + c.size
  PROVE  /\ <<c, d>> \in Seq(AnyStep)
         /\ Marks(<<c, d>>, o) = {Mark(c, StartOf(c, o)), Mark(d, StartOf(d, x))}
         /\ o + Total(<<c, d>>, o) = StartOf(d, x) + d.size
<1> DEFINE a == <<c>>
           b == <<d>>
<1>1. a \in Seq(AnyStep) /\ b \in Seq(AnyStep)
  BY TwoSteps
<1>2. Marks(a, o) = {Mark(c, StartOf(c, o))} /\ x = o + Total(a, o)
  BY MarksOne
<1>3. x \in Nat
  <2>1. Total(a, o) \in Nat
    BY <1>1, EndOf
  <2> QED
    BY <1>2, <2>1
<1>4. Marks(b, x) = {Mark(d, StartOf(d, x))} /\ x + Total(b, x) = StartOf(d, x) + d.size
  BY <1>3, MarksOne
<1> HIDE DEF a, b
<1>5. /\ a \o b \in Seq(AnyStep) /\ Marks(a \o b, o) = Marks(a, o) \cup Marks(b, x)
      /\ o + Total(a \o b, o) = x + Total(b, x)
  <2>1. /\ a \o b \in Seq(AnyStep)
        /\ Marks(a \o b, o) = Marks(a, o) \cup Marks(b, o + Total(a, o))
        /\ o + Total(a \o b, o) = (o + Total(a, o)) + Total(b, o + Total(a, o))
    BY <1>1, MarksConcat
  <2> QED
    BY <1>2, <2>1
<1>6. <<c, d>> = a \o b
  BY TwoSteps DEF a, b
<1> QED
  BY <1>2, <1>4, <1>5, <1>6

\* Two operations of a cursor have no byte in common.
LEMMA MarksApart ==
  ASSUME NEW steps \in Seq(AnyStep), NEW o \in Nat, NEW x \in Marks(steps, o), NEW y \in Marks(steps, o)
  PROVE  x = y \/ ~Overlap(Span(x), Span(y))
<1>1. Len(steps) \in Nat
  BY LenProperties
<1>2. PICK j \in 1 .. Len(steps) : x = MarkAt(steps, o, j)
  BY MarkTypes
<1>3. PICK k \in 1 .. Len(steps) : y = MarkAt(steps, o, k)
  BY MarkTypes
<1>4. x.lo \in Nat /\ x.size \in Nat /\ y.lo \in Nat /\ y.size \in Nat
  BY MarkTypes
<1>5. j < k => Before(x, y)
  BY <1>2, <1>3, MarksOrdered
<1>6. k < j => Before(y, x)
  BY <1>2, <1>3, MarksOrdered
<1>7. j = k => x = y
  BY <1>2, <1>3
<1>8. j < k \/ k < j \/ j = k
  BY <1>1
<1> QED
  BY <1>4, <1>5, <1>6, <1>7, <1>8, BeforeApart

\* The fields of a cursor, by their marks.
LEMMA FieldsMarked ==
  ASSUME NEW steps \in Seq(AnyStep), NEW o \in Nat, NEW ops, NEW f \in Fields(steps, ops)
  PROVE  \E y \in Marks(steps, o) : y.op \in ops /\ y.field = f
<1>1. PICK k \in DOMAIN steps : steps[k].op \in ops /\ steps[k].field = f
  BY DEF Fields
<1>2. k \in 1 .. Len(steps)
  BY <1>1, LenProperties
<1> DEFINE y == MarkAt(steps, o, k)
<1>3. y \in Marks(steps, o) /\ y.op = steps[k].op /\ y.field = steps[k].field
  BY <1>2, MarkIs
<1> QED
  BY <1>1, <1>3

------------------------------------------------------------------------------
(* Payloads of one or two steps *)

At(op, f, lo, n) == [op |-> op, field |-> f, lo |-> lo, size |-> n]

\* The parts of a mark and of the name of a field.
LEMMA AtParts ==
  ASSUME NEW op, NEW f, NEW lo, NEW n
  PROVE  At(op, f, lo, n).op = op /\ At(op, f, lo, n).field = f
           /\ At(op, f, lo, n).lo = lo /\ At(op, f, lo, n).size = n
BY DEF At

LEMMA FieldParts ==
  ASSUME NEW name, NEW i
  PROVE  F(name)[1] = name /\ F(name)[2] = 0 /\ FI(name, i)[1] = name /\ FI(name, i)[2] = i
BY DEF F, FI

\* A step whose start is aligned as it stands.
Settled(a, o) == a = 1 \/ o \in Aligned

\* The mark of a step that needs no padding; one such step, and two.
LEMMA StepAt ==
  ASSUME NEW op \in Ops, NEW f \in FieldName, NEW n \in Nat, NEW a \in Alignments, NEW o \in Nat,
         Settled(a, o), NEW c, c = Step(op, f, n, a)
  PROVE  /\ c \in AnyStep /\ c.op = op /\ c.field = f /\ c.size = n
         /\ StartOf(c, o) = o /\ Mark(c, o) = At(op, f, o, n)
         /\ \A ops : op \in ops => c \in Doing(ops)
<1>1. c \in AnyStep /\ c.op = op /\ c.field = f /\ c.size = n /\ c.align = a
  BY DEF Step, AnyStep, Alignments, Ops
<1>2. Mark(c, o) = At(op, f, o, n)
  BY <1>1 DEF Mark, At
<1>3. StartOf(c, o) = o
  BY <1>1, Starts DEF Settled, Aligned
<1> QED
  BY <1>1, <1>2, <1>3 DEF Doing

LEMMA AtOne ==
  ASSUME NEW op \in Ops, NEW f \in FieldName, NEW n \in Nat, NEW a \in Alignments, NEW o \in Nat,
         Settled(a, o), NEW ops, op \in ops
  PROVE  /\ <<Step(op, f, n, a)>> \in Seq(Doing(ops))
         /\ Marks(<<Step(op, f, n, a)>>, o) = {At(op, f, o, n)}
         /\ o + Total(<<Step(op, f, n, a)>>, o) = o + n
<1> DEFINE c == Step(op, f, n, a)
<1>1. /\ c \in AnyStep /\ c.size = n /\ StartOf(c, o) = o /\ Mark(c, o) = At(op, f, o, n)
      /\ c \in Doing(ops)
  BY StepAt
<1> HIDE DEF c
<1>2. Marks(<<c>>, o) = {At(op, f, o, n)} /\ o + Total(<<c>>, o) = o + n
  BY <1>1, MarksOne
<1>3. <<c>> \in Seq(Doing(ops))
  BY <1>1
<1> QED
  BY <1>2, <1>3 DEF c

LEMMA AtTwo ==
  ASSUME NEW op \in Ops, NEW f \in FieldName, NEW n \in Nat, NEW a \in Alignments, NEW o \in Nat,
         Settled(a, o), NEW ops, op \in ops,
         NEW op2 \in Ops, NEW f2 \in FieldName, NEW n2 \in Nat, NEW a2 \in Alignments,
         Settled(a2, o + n), op2 \in ops
  PROVE  /\ <<Step(op, f, n, a), Step(op2, f2, n2, a2)>> \in Seq(Doing(ops))
         /\ Marks(<<Step(op, f, n, a), Step(op2, f2, n2, a2)>>, o)
              = {At(op, f, o, n), At(op2, f2, o + n, n2)}
         /\ o + Total(<<Step(op, f, n, a), Step(op2, f2, n2, a2)>>, o) = o + n + n2
<1> DEFINE c == Step(op, f, n, a)
           d == Step(op2, f2, n2, a2)
           x == o + n
<1>1. /\ c \in AnyStep /\ c.size = n /\ StartOf(c, o) = o /\ Mark(c, o) = At(op, f, o, n)
      /\ c \in Doing(ops)
  BY StepAt
<1>2. x \in Nat
  OBVIOUS
<1> HIDE DEF x
<1>3. /\ d \in AnyStep /\ d.size = n2 /\ StartOf(d, x) = x /\ Mark(d, x) = At(op2, f2, x, n2)
      /\ d \in Doing(ops)
  BY <1>2, StepAt DEF x
<1> HIDE DEF c, d
<1>4. x = StartOf(c, o) + c.size
  BY <1>1 DEF x
<1>5. /\ Marks(<<c, d>>, o) = {Mark(c, StartOf(c, o)), Mark(d, StartOf(d, x))}
      /\ o + Total(<<c, d>>, o) = StartOf(d, x) + d.size
  BY <1>1, <1>3, <1>4, MarksTwo
<1>6. <<c, d>> \in Seq(Doing(ops))
  BY <1>1, <1>3
<1> QED
  BY <1>1, <1>3, <1>5, <1>6 DEF c, d, x

\* Where nothing that is mapped has a pointer in memory.
LEMMA NoPointers ==
  ASSUME NEW m, NEW o, \A x \in Marks(MapRequest(m), o) : x.op = "map" => ~HasSlot(x.field)
  PROVE  RoomForPointers(m, o)
BY DEF RoomForPointers

\* A length, and nothing behind it: a null pointer.
LEMMA NullDescribed ==
  ASSUME NEW m, m.kind = "str_null", NEW o \in Nat,
         Total(MapRequest(m), o) = Total(WriteRequest(m), o)
  PROVE  Described(m, o)
<1> DEFINE f == F("size")
           w == At("write", f, o, IntSize)
           r == At("read", f, o, IntSize)
<1>1. f \in FieldName /\ IntSize \in Nat /\ IntSize > 0 /\ f[1] = "size"
  BY FieldNames, FieldParts DEF IntSize
<1>2. /\ WriteRequest(m) = <<Step("write", f, IntSize, 1)>>
      /\ MapRequest(m) = <<Step("read", f, IntSize, 1)>>
      /\ WriteResponse(m) = <<Step("read", f, IntSize, 1)>>
      /\ ReadResponse(m) = <<Step("read", f, IntSize, 1)>>
  BY DEF WriteRequest, MapRequest, WriteResponse, ReadResponse, Payload, Cursors, SizedInArray, Write, Read
<1> HIDE DEF f
<1>3. 1 \in Alignments /\ Settled(1, o) /\ Ops = {"write", "read", "skip", "map"}
  BY DEF Alignments, Settled, Ops
<1>4. \A op \in Ops : \A ops : op \in ops =>
        /\ <<Step(op, f, IntSize, 1)>> \in Seq(Doing(ops))
        /\ Marks(<<Step(op, f, IntSize, 1)>>, o) = {At(op, f, o, IntSize)}
  BY <1>1, <1>3, AtOne
<1>5. Kinds(m)
  BY <1>2, <1>3, <1>4 DEF Kinds
<1>6. /\ Marks(WriteRequest(m), o) = {w} /\ Marks(MapRequest(m), o) = {r}
      /\ Marks(WriteResponse(m), o) = {r} /\ Marks(ReadResponse(m), o) = {r}
  BY <1>2, <1>3, <1>4
<1>7. /\ w.op = "write" /\ w.field = f /\ w.lo = o /\ w.size = IntSize
      /\ r.op = "read" /\ r.field = f /\ r.lo = o /\ r.size = IntSize
  BY AtParts
<1> HIDE DEF w, r
<1>8. Outputs(m) = {}
  BY DEF Outputs
<1>9. RequestFound(m, o)
  BY <1>6, <1>7 DEF RequestFound, Alike
<1>10. LengthsFound(m, o)
  BY <1>1, <1>6, <1>7, <1>8 DEF LengthsFound, Alike
<1>11. ResultsFound(m, o)
  BY <1>6, <1>7, <1>8 DEF ResultsFound, f
<1>12. RectsRead(m, o)
  BY DEF RectsRead
<1>13. RoomForPointers(m, o)
  BY <1>6, <1>7, NoPointers
<1> QED
  BY <1>5, <1>9, <1>10, <1>11, <1>12, <1>13 DEF Described

\* Nothing is passed.
LEMMA NoneDescribed ==
  ASSUME NEW m, m.kind = "none", NEW o \in Nat
  PROVE  Described(m, o)
<1>1. /\ WriteRequest(m) = <<>> /\ MapRequest(m) = <<>>
      /\ WriteResponse(m) = <<>> /\ ReadResponse(m) = <<>> /\ Outputs(m) = {}
  BY DEF WriteRequest, MapRequest, WriteResponse, ReadResponse, Payload, Cursors, Outputs
<1>2. Kinds(m)
  BY <1>1 DEF Kinds
<1>3. Marks(<<>>, o) = {}
  BY MarksNone
<1> QED
  BY <1>1, <1>2, <1>3 DEF Described, RequestFound, LengthsFound, ResultsFound, RectsRead, RoomForPointers

\* A string to the callee: its length and its bytes.
LEMMA StringDescribed ==
  ASSUME NEW m, m.kind = "str_in", NEW n \in Nat, m.size = n, NEW o \in Nat,
         Total(MapRequest(m), o) = Total(WriteRequest(m), o)
  PROVE  Described(m, o)
<1> DEFINE f == F("size")
           g == F("data")
           w == At("write", f, o, IntSize)
           r == At("read", f, o, IntSize)
           v == At("write", g, o + IntSize, n)
           p == At("map", g, o + IntSize, n)
           s == At("skip", g, o + IntSize, n)
           Both(op, op2) == <<Step(op, f, IntSize, 1), Step(op2, g, n, 1)>>
<1>1. /\ f \in FieldName /\ g \in FieldName /\ IntSize \in Nat /\ IntSize > 0
      /\ f[1] = "size" /\ g[1] = "data" /\ f # g
  BY FieldNames, FieldParts DEF IntSize, F
<1>2. /\ WriteRequest(m) = Both("write", "write")
      /\ MapRequest(m) = Both("read", "map")
      /\ WriteResponse(m) = Both("read", "skip")
      /\ ReadResponse(m) = Both("read", "skip")
  BY DEF WriteRequest, MapRequest, WriteResponse, ReadResponse, Payload, Cursors, SizedInArray,
         Write, Read, MapTo, Skip
<1> HIDE DEF f, g
<1>3. 1 \in Alignments /\ (\A x : Settled(1, x)) /\ Ops = {"write", "read", "skip", "map"}
  BY DEF Alignments, Settled, Ops
<1>4. \A op \in Ops, op2 \in Ops : \A ops : op \in ops /\ op2 \in ops =>
        /\ Both(op, op2) \in Seq(Doing(ops))
        /\ Marks(Both(op, op2), o) = {At(op, f, o, IntSize), At(op2, g, o + IntSize, n)}
  <2> TAKE op \in Ops, op2 \in Ops
  <2> TAKE ops
  <2> HAVE op \in ops /\ op2 \in ops
  <2>1. Settled(1, o) /\ Settled(1, o + IntSize)
    BY <1>3
  <2> QED
    BY <1>1, <1>3, <2>1, AtTwo
<1> HIDE DEF Both
<1>5. Kinds(m)
  <2>1. Both("write", "write") \in Seq(Doing({"write", "skip"}))
    BY <1>3, <1>4
  <2>2. Both("read", "map") \in Seq(Doing({"read", "map", "skip"}))
    BY <1>3, <1>4
  <2>3. Both("read", "skip") \in Seq(Doing({"read", "write", "skip"}))
    BY <1>3, <1>4
  <2>4. Both("read", "skip") \in Seq(Doing({"read", "skip"}))
    BY <1>3, <1>4
  <2> QED
    BY <1>2, <2>1, <2>2, <2>3, <2>4 DEF Kinds
<1>6. /\ Marks(WriteRequest(m), o) = {w, v} /\ Marks(MapRequest(m), o) = {r, p}
      /\ Marks(WriteResponse(m), o) = {r, s} /\ Marks(ReadResponse(m), o) = {r, s}
  <2>1. \A op \in Ops, op2 \in Ops :
          Marks(Both(op, op2), o) = {At(op, f, o, IntSize), At(op2, g, o + IntSize, n)}
    <3> TAKE op \in Ops, op2 \in Ops
    <3>1. \E ops : op \in ops /\ op2 \in ops
      OBVIOUS
    <3> QED
      BY <1>4, <3>1
  <2> QED
    BY <1>2, <1>3, <2>1
<1>7. /\ w.op = "write" /\ w.field = f /\ w.lo = o /\ w.size = IntSize
      /\ r.op = "read" /\ r.field = f /\ r.lo = o /\ r.size = IntSize
      /\ v.op = "write" /\ v.field = g /\ v.lo = o + IntSize /\ v.size = n
      /\ p.op = "map" /\ p.field = g /\ p.lo = o + IntSize /\ p.size = n
      /\ s.op = "skip" /\ s.field = g
  BY AtParts
<1> HIDE DEF w, r, v, p, s
<1>8. Outputs(m) = {}
  BY DEF Outputs
<1>9. RequestFound(m, o)
  BY <1>1, <1>6, <1>7 DEF RequestFound, Alike
<1>10. LengthsFound(m, o)
  BY <1>1, <1>6, <1>7, <1>8 DEF LengthsFound, Alike
<1>11. ResultsFound(m, o)
  BY <1>6, <1>7, <1>8 DEF ResultsFound, f
<1>12. RectsRead(m, o)
  BY DEF RectsRead
<1>13. RoomForPointers(m, o)
  BY <1>1, <1>6, <1>7, NoPointers DEF HasSlot
<1> QED
  BY <1>5, <1>9, <1>10, <1>11, <1>12, <1>13 DEF Described

\* One datum that the callee fills, or changes: a string from it, a structure.
LEMMA DatumDescribed ==
  ASSUME NEW m, NEW n \in Nat, NEW a \in Alignments, NEW o \in Nat, Settled(a, o),
         \/ m.kind = "str_out" /\ a = 1
         \/ m.kind = "inout" /\ m.align = a,
         m.size = n, Total(MapRequest(m), o) = Total(WriteRequest(m), o)
  PROVE  Described(m, o)
<1> DEFINE g == F("data")
           wop == IF m.kind = "str_out" THEN "skip" ELSE "write"
           w == At(wop, g, o, n)
           p == At("map", g, o, n)
           s == At("skip", g, o, n)
           r == At("read", g, o, n)
           One(op, b) == <<Step(op, g, n, b)>>
<1>1. g \in FieldName /\ g[1] = "data" /\ g # F("size")
  BY FieldNames, FieldParts DEF F
<1>2. /\ WriteRequest(m) = One(wop, 1)
      /\ MapRequest(m) = One("map", a)
      /\ WriteResponse(m) = One("skip", a)
      /\ ReadResponse(m) = One("read", 1)
  BY DEF WriteRequest, MapRequest, WriteResponse, ReadResponse, Payload, Cursors, ShmArray,
         Write, Read, MapTo, Skip
<1> HIDE DEF g
<1>3. /\ 1 \in Alignments /\ Settled(1, o) /\ Ops = {"write", "read", "skip", "map"}
      /\ wop \in {"write", "skip"}
  BY DEF Alignments, Settled, Ops
<1> HIDE DEF wop
<1>4. \A op \in Ops, b \in {1, a} : \A ops : op \in ops =>
        /\ One(op, b) \in Seq(Doing(ops)) /\ Marks(One(op, b), o) = {At(op, g, o, n)}
  BY <1>1, <1>3, AtOne
<1> HIDE DEF One
<1>5. Kinds(m)
  BY <1>2, <1>3, <1>4 DEF Kinds
<1>6. /\ Marks(WriteRequest(m), o) = {w} /\ Marks(MapRequest(m), o) = {p}
      /\ Marks(WriteResponse(m), o) = {s} /\ Marks(ReadResponse(m), o) = {r}
  BY <1>2, <1>3, <1>4
<1>7. /\ w.op = wop /\ w.field = g /\ w.lo = o /\ w.size = n
      /\ r.op = "read" /\ r.field = g /\ r.lo = o /\ r.size = n
      /\ p.op = "map" /\ p.field = g /\ p.lo = o /\ p.size = n
      /\ s.op = "skip" /\ s.field = g
  BY AtParts
<1> HIDE DEF w, r, p, s
<1>8. Outputs(m) = {g}
  BY DEF Outputs, g
<1>9. RequestFound(m, o)
  <2>1. g \in Fields(WriteRequest(m), {"write"}) => wop = "write"
    <3> SUFFICES ASSUME g \in Fields(WriteRequest(m), {"write"})
                 PROVE  wop = "write"
      OBVIOUS
    <3>1. WriteRequest(m) \in Seq(AnyStep)
      BY <1>5, KindsKnown
    <3>2. \E y \in Marks(WriteRequest(m), o) : y.op \in {"write"} /\ y.field = g
      BY <3>1, FieldsMarked
    <3> QED
      BY <1>6, <1>7, <3>2
  <2> QED
    BY <1>1, <1>6, <1>7, <2>1 DEF RequestFound, Alike
<1>10. LengthsFound(m, o)
  BY <1>1, <1>6, <1>7 DEF LengthsFound
<1>11. ResultsFound(m, o)
  BY <1>1, <1>6, <1>7, <1>8 DEF ResultsFound, Alike
<1>12. RectsRead(m, o)
  BY DEF RectsRead
<1>13. RoomForPointers(m, o)
  BY <1>1, <1>6, <1>7, NoPointers DEF HasSlot
<1> QED
  BY <1>5, <1>9, <1>10, <1>11, <1>12, <1>13 DEF Described

\* A pointer that the callee sets, and a chunk that takes its place.
LEMMA ChunkDescribed ==
  ASSUME NEW m, m.kind = "chunk", NEW n \in Nat, m.size = n, NEW o \in Aligned,
         Total(MapRequest(m), o) = Total(WriteRequest(m), o)
  PROVE  Described(m, o)
<1> DEFINE f == F("ptr")
           g == F("chunk")
           w == At("write", f, o, PtrSize)
           p == At("map", f, o, PtrSize)
           v == At("write", g, o, n)
           r == At("read", g, o, n)
<1>1. /\ f \in FieldName /\ g \in FieldName /\ PtrSize \in Nat /\ PtrSize \in Alignments
      /\ f[1] = "ptr" /\ g # F("size") /\ f # F("size")
  BY FieldNames, FieldParts DEF PtrSize, F, Alignments
<1>2. /\ WriteRequest(m) = <<Step("write", f, PtrSize, 1)>>
      /\ MapRequest(m) = <<Step("map", f, PtrSize, PtrSize)>>
      /\ WriteResponse(m) = <<Step("write", g, n, 1)>>
      /\ ReadResponse(m) = <<Step("read", g, n, 1)>>
  BY DEF WriteRequest, MapRequest, WriteResponse, ReadResponse, Payload, Cursors, ChunkOut,
         Write, Read, MapTo
<1>3. Outputs(m) = {f}
  BY DEF Outputs
<1> HIDE DEF f, g
<1>4. /\ 1 \in Alignments /\ (\A b : Settled(b, o)) /\ Ops = {"write", "read", "skip", "map"} /\ o \in Nat
  BY DEF Alignments, Settled, Ops, Aligned
<1>5. \A op \in Ops, h \in FieldName, k \in Nat, b \in Alignments : \A ops : op \in ops =>
        /\ <<Step(op, h, k, b)>> \in Seq(Doing(ops)) /\ Marks(<<Step(op, h, k, b)>>, o) = {At(op, h, o, k)}
  BY <1>4, AtOne
<1>6. Kinds(m)
  BY <1>1, <1>2, <1>4, <1>5 DEF Kinds
<1>7. /\ Marks(WriteRequest(m), o) = {w} /\ Marks(MapRequest(m), o) = {p}
      /\ Marks(WriteResponse(m), o) = {v} /\ Marks(ReadResponse(m), o) = {r}
  BY <1>1, <1>2, <1>4, <1>5
<1>8. /\ w.op = "write" /\ w.field = f /\ w.lo = o /\ w.size = PtrSize
      /\ p.op = "map" /\ p.field = f /\ p.lo = o /\ p.size = PtrSize
      /\ v.op = "write" /\ v.field = g /\ v.lo = o /\ v.size = n
      /\ r.op = "read" /\ r.field = g /\ r.lo = o /\ r.size = n
  BY AtParts
<1> HIDE DEF w, p, v, r
<1>9. RequestFound(m, o)
  BY <1>1, <1>7, <1>8 DEF RequestFound, Alike
<1>10. LengthsFound(m, o)
  BY <1>1, <1>7, <1>8 DEF LengthsFound
<1>11. ResultsFound(m, o)
  BY <1>1, <1>3, <1>7, <1>8 DEF ResultsFound, Alike, g
<1>12. RectsRead(m, o)
  BY DEF RectsRead
<1>13. RoomForPointers(m, o)
  BY <1>1, <1>7, <1>8, NoPointers DEF HasSlot
<1> QED
  BY <1>6, <1>9, <1>10, <1>11, <1>12, <1>13 DEF Described

\* A step and what may follow it.
LEMMA ThenNothing ==
  ASSUME NEW c \in AnyStep
  PROVE  <<c>> \o <<>> = <<c>> /\ \A d \in AnyStep : <<c>> \o <<d>> = <<c, d>>
<1>1. <<c>> \o <<>> = <<c>>
  <2>1. <<c>> \in Seq(AnyStep)
    OBVIOUS
  <2> QED
    BY <2>1, ConcatEmptySeq
<1> QED
  BY <1>1, TwoSteps

\* A pointer that the callee sets, and a rectangle behind it if it is not null.
LEMMA RectDescribed ==
  ASSUME NEW m, m.kind = "rect", m.present \in BOOLEAN, NEW o \in Aligned,
         Total(MapRequest(m), o) = Total(WriteRequest(m), o)
  PROVE  Described(m, o)
<1> DEFINE f == F("ptr")
           g == F("rect")
           w == At("write", f, o, PtrSize)
           p == At("map", f, o, PtrSize)
           s == At("skip", f, o, PtrSize)
           r == At("read", f, o, PtrSize)
           v == At("write", g, o + PtrSize, RectSize)
           q == At("read", g, o + PtrSize, RectSize)
           more == IF m.present THEN {v} ELSE {}
           rest == IF m.present THEN {q} ELSE {}
           K == Step("skip", f, PtrSize, PtrSize)
           R == Step("read", f, PtrSize, 1)
           V == Step("write", g, RectSize, 1)
           Q == Step("read", g, RectSize, 1)
<1>1. /\ f \in FieldName /\ g \in FieldName /\ PtrSize \in Nat /\ PtrSize \in Alignments
      /\ f[1] = "ptr" /\ f # F("size") /\ g # F("size") /\ RectSize \in Nat /\ f # g
      /\ PtrSize > 0 /\ RectSize > 0
  BY FieldNames, FieldParts DEF PtrSize, F, Alignments, RectSize
<1>2. /\ WriteRequest(m) = <<Step("write", f, PtrSize, 1)>>
      /\ MapRequest(m) = <<Step("map", f, PtrSize, PtrSize)>>
      /\ WriteResponse(m) = <<K>> \o (IF m.present THEN <<V>> ELSE <<>>)
      /\ ReadResponse(m) = <<R>> \o (IF m.present THEN <<Q>> ELSE <<>>)
  BY DEF WriteRequest, MapRequest, WriteResponse, ReadResponse, Payload, Cursors, RectOut,
         Write, Read, MapTo, Skip
<1>3. Outputs(m) = {f} /\ {F("chunk"), F("rect")} = {F("chunk"), g}
  BY DEF Outputs
<1>4. /\ 1 \in Alignments /\ (\A b, x : b = 1 \/ x = o => Settled(b, x))
      /\ Ops = {"write", "read", "skip", "map"} /\ o \in Nat
  BY DEF Alignments, Settled, Ops, Aligned
<1>5. /\ m.present => WriteResponse(m) = <<K, V>> /\ ReadResponse(m) = <<R, Q>>
      /\ ~m.present => WriteResponse(m) = <<K>> /\ ReadResponse(m) = <<R>>
  <2>1. K \in AnyStep /\ V \in AnyStep /\ R \in AnyStep /\ Q \in AnyStep
    <3>1. \A op \in Ops, h \in FieldName, n \in Nat, a \in Alignments : Step(op, h, n, a) \in AnyStep
      BY DEF Step, AnyStep, Alignments, Ops
    <3> HIDE DEF f, g
    <3> QED
      BY <1>1, <1>4, <3>1
  <2> HIDE DEF K, V, R, Q
  <2> QED
    BY <1>2, <2>1, ThenNothing
<1> HIDE DEF f, g
<1>6. \A op \in Ops, b \in Alignments : \A ops : op \in ops =>
        /\ <<Step(op, f, PtrSize, b)>> \in Seq(Doing(ops))
        /\ Marks(<<Step(op, f, PtrSize, b)>>, o) = {At(op, f, o, PtrSize)}
  BY <1>1, <1>4, AtOne
<1>7. ASSUME NEW op \in Ops, NEW op2 \in Ops, NEW b \in Alignments, NEW ops, op \in ops, op2 \in ops
      PROVE  /\ <<Step(op, f, PtrSize, b), Step(op2, g, RectSize, 1)>> \in Seq(Doing(ops))
             /\ Marks(<<Step(op, f, PtrSize, b), Step(op2, g, RectSize, 1)>>, o)
                  = {At(op, f, o, PtrSize), At(op2, g, o + PtrSize, RectSize)}
  <2>1. Settled(b, o) /\ Settled(1, o + PtrSize) /\ 1 \in Alignments /\ o \in Nat
    BY <1>4
  <2>2. f \in FieldName /\ g \in FieldName /\ PtrSize \in Nat /\ RectSize \in Nat
    BY <1>1
  <2> QED
    BY <1>7, <2>1, <2>2, AtTwo
<1> DEFINE answers == {"read", "write", "skip"}
           reads == {"read", "skip"}
<1>8. /\ WriteResponse(m) \in Seq(Doing(answers))
      /\ Marks(WriteResponse(m), o) = {s} \cup more
  <2>1. "skip" \in Ops /\ "write" \in Ops /\ "skip" \in answers /\ "write" \in answers
    BY <1>4
  <2> HIDE DEF answers
  <2>2. CASE m.present
    <3>1. <<K, V>> \in Seq(Doing(answers)) /\ Marks(<<K, V>>, o) = {s, v}
      BY <1>1, <1>7, <2>1
    <3> QED
      BY <1>5, <2>2, <3>1
  <2>3. CASE ~m.present
    <3>1. <<K>> \in Seq(Doing(answers)) /\ Marks(<<K>>, o) = {s}
      BY <1>1, <1>6, <2>1
    <3> QED
      BY <1>5, <2>3, <3>1
  <2> QED
    BY <2>2, <2>3
<1>9. /\ ReadResponse(m) \in Seq(Doing(reads))
      /\ Marks(ReadResponse(m), o) = {r} \cup rest
  <2>1. "read" \in Ops /\ "read" \in reads
    BY <1>4
  <2> HIDE DEF reads
  <2>2. CASE m.present
    <3>1. <<R, Q>> \in Seq(Doing(reads)) /\ Marks(<<R, Q>>, o) = {r, q}
      BY <1>4, <1>7, <2>1
    <3> QED
      BY <1>5, <2>2, <3>1
  <2>3. CASE ~m.present
    <3>1. <<R>> \in Seq(Doing(reads)) /\ Marks(<<R>>, o) = {r}
      BY <1>4, <1>6, <2>1
    <3> QED
      BY <1>5, <2>3, <3>1
  <2> QED
    BY <2>2, <2>3
<1>10. Kinds(m)
  BY <1>1, <1>2, <1>4, <1>6, <1>8, <1>9 DEF Kinds
<1>11. Marks(WriteRequest(m), o) = {w} /\ Marks(MapRequest(m), o) = {p}
  BY <1>1, <1>2, <1>4, <1>6
<1>12. /\ w.op = "write" /\ w.field = f /\ w.lo = o /\ w.size = PtrSize
       /\ p.op = "map" /\ p.field = f /\ p.lo = o /\ p.size = PtrSize
       /\ s.op = "skip" /\ s.field = f
       /\ r.op = "read" /\ r.field = f /\ r.lo = o /\ r.size = PtrSize
       /\ v.op = "write" /\ v.field = g /\ v.lo = o + PtrSize /\ v.size = RectSize
       /\ q.op = "read" /\ q.field = g /\ q.lo = o + PtrSize /\ q.size = RectSize
  BY AtParts
<1> HIDE DEF w, p, s, r, v, q
<1>13. RequestFound(m, o)
  BY <1>1, <1>11, <1>12 DEF RequestFound, Alike
<1>14. LengthsFound(m, o)
  BY <1>1, <1>8, <1>9, <1>11, <1>12 DEF LengthsFound
<1>15. ~Overlap(Span(v), Span(r))
  BY <1>1, <1>4, <1>12 DEF Overlap, Span
<1>16. ResultsFound(m, o)
  <2>1. \A a \in Marks(WriteResponse(m), o) : a.op = "write" => a = v /\ m.present
    BY <1>8, <1>12
  <2>2. \A x \in Marks(ReadResponse(m), o) : x = r \/ (x = q /\ m.present)
    BY <1>9
  <2>3. Alike(q, v) /\ Alike(r, p)
    BY <1>12 DEF Alike
  <2>4. m.present => v \in Marks(WriteResponse(m), o)
    BY <1>8
  <2>5. ASSUME NEW x \in Marks(ReadResponse(m), o)
        PROVE  /\ x.field \in Outputs(m) \cup {F("chunk"), F("rect")}
               /\ \/ \E a \in {b \in Marks(WriteResponse(m), o) : b.op = "write"} : Alike(x, a)
                  \/ /\ x.field \in Outputs(m)
                     /\ \A y \in Marks(MapRequest(m), o) : y.op = "map" /\ y.field = x.field => Alike(x, y)
                     /\ \A a \in {b \in Marks(WriteResponse(m), o) : b.op = "write"} : ~Overlap(Span(a), Span(x))
    <3>1. CASE x = r
      BY <1>3, <1>11, <1>12, <1>15, <2>1, <2>3, <3>1
    <3>2. CASE x = q /\ m.present
      BY <1>3, <1>12, <2>3, <2>4, <3>2
    <3> QED
      BY <2>2, <3>1, <3>2
  <2>6. \A z \in Outputs(m) : \E x \in Marks(MapRequest(m), o) : x.op = "map" /\ x.field = z
    BY <1>3, <1>11, <1>12
  <2>7. \A a \in Marks(WriteResponse(m), o) : a.op = "write" => a.field \in {F("chunk"), F("rect")}
    BY <1>3, <1>12, <2>1
  <2> QED
    BY <2>5, <2>6, <2>7 DEF ResultsFound
<1>17. RectsRead(m, o)
  BY <1>1, <1>8, <1>9, <1>11, <1>12 DEF RectsRead
<1>18. RoomForPointers(m, o)
  BY <1>1, <1>11, <1>12, NoPointers DEF HasSlot
<1> QED
  BY <1>10, <1>13, <1>14, <1>16, <1>17, <1>18 DEF Described

------------------------------------------------------------------------------
(* Blocks of steps one after the other *)

\* Where each block starts.
BlocksAt(at, ms, o, n) ==
  /\ n > 0 => at[1] = o
  /\ \A i \in 1 .. n : at[i] \in Aligned /\ o <= at[i]
  /\ \A i \in 1 .. n : i > 1 => at[i] = at[i-1] + Total(ms[i-1], at[i-1])

BlocksAligned(ms, n) ==
  \A i \in 1 .. n : ms[i] \in Seq(AnyStep) /\ \A x \in Aligned : Total(ms[i], x) \in Aligned

\* The marks of n blocks.
BlockMarks(S, ms, at, n) == \A p : p \in S <=> \E i \in 1 .. n : p \in Marks(ms[i], at[i])

\* The marks of blocks are those of each, from where it starts;
LEMMA MarksOfBlocks ==
  ASSUME NEW n \in Nat, NEW ms, ms = [i \in 1 .. n |-> ms[i]], NEW o \in Aligned, BlocksAligned(ms, n)
  PROVE  /\ FlattenSeq(ms) \in Seq(AnyStep)
         /\ \E at : BlocksAt(at, ms, o, n) /\ BlockMarks(Marks(FlattenSeq(ms), o), ms, at, n)
<1>1. Len(ms) = n /\ o \in Nat
  BY DEF Aligned
<1>2. CASE n = 0
  <2>1. ms = <<>>
    BY <1>2
  <2>2. FlattenSeq(ms) = <<>>
    BY <1>1, <1>2, <2>1, FlattenedNone
  <2>3. Marks(<<>>, o) = {} /\ <<>> \in Seq(AnyStep)
    BY MarksNone
  <2>4. \A at : BlocksAt(at, ms, o, n) /\ BlockMarks({}, ms, at, n)
    BY <1>2 DEF BlocksAt, BlockMarks
  <2> QED
    BY <2>2, <2>3, <2>4
<1>3. CASE n # 0
  <2>1. PICK f : Joins(f, ms, n) /\ FlattenSeq(ms) = f[n]
    BY <1>1, <1>3, Flattened
  <2> DEFINE at == [i \in 1 .. n |-> IF i = 1 THEN o ELSE o + Total(f[i-1], o)]
             Good(i) == /\ f[i] \in Seq(AnyStep) /\ at[i] \in Aligned
                        /\ o + Total(f[i], o) = at[i] + Total(ms[i], at[i])
                        /\ o + Total(f[i], o) \in Aligned
                        /\ BlockMarks(Marks(f[i], o), ms, at, i)
             T == {i \in Nat : i >= 1 /\ i <= n /\ ~Good(i)}
  <2>2. at[1] = o
    BY <1>3
  <2>3. \A i \in 2 .. n : at[i] = o + Total(f[i-1], o)
    OBVIOUS
  <2>4. Good(1)
    <3>1. f[1] = ms[1] /\ ms[1] \in Seq(AnyStep) /\ Total(ms[1], o) \in Aligned
      BY <1>3, <2>1 DEF Joins, BlocksAligned
    <3>2. o + Total(ms[1], o) \in Aligned
      BY <3>1, AlignedSum
    <3>3. BlockMarks(Marks(f[1], o), ms, at, 1)
      <4> HIDE DEF at
      <4>1. \A i \in 1 .. 1 : i = 1
        OBVIOUS
      <4> QED
        BY <2>2, <3>1, <4>1 DEF BlockMarks
    <3> HIDE DEF at
    <3> QED
      BY <2>2, <3>1, <3>2, <3>3
  <2> HIDE DEF at
  <2>5. ASSUME NEW i \in 2 .. n, Good(i - 1)
        PROVE  Good(i)
    <3> DEFINE x == at[i]
               F1 == f[i-1]
               B == ms[i]
    <3>7. i \in 1 .. n
      OBVIOUS
    <3>8. B \in Seq(AnyStep) /\ \A y \in Aligned : Total(B, y) \in Aligned
      BY <3>7 DEF BlocksAligned
    <3>9. f[i] = F1 \o B
      BY <2>1 DEF Joins
    <3>10. /\ F1 \in Seq(AnyStep) /\ o + Total(F1, o) \in Aligned
           /\ BlockMarks(Marks(F1, o), ms, at, i - 1)
      BY <2>5
    <3>11. x = o + Total(F1, o)
      BY <2>3
    <3> HIDE DEF x, F1, B, Good
    <3>1. x \in Aligned /\ Total(B, x) \in Aligned
      BY <3>8, <3>10, <3>11
    <3>12. F1 \in Seq(AnyStep) /\ B \in Seq(AnyStep) /\ o \in Nat
      BY <1>1, <3>8, <3>10
    <3>2. /\ F1 \o B \in Seq(AnyStep)
          /\ Marks(F1 \o B, o) = Marks(F1, o) \cup Marks(B, o + Total(F1, o))
          /\ o + Total(F1 \o B, o) = (o + Total(F1, o)) + Total(B, o + Total(F1, o))
      BY <3>12, MarksConcat
    <3>3. /\ f[i] \in Seq(AnyStep) /\ Marks(f[i], o) = Marks(F1, o) \cup Marks(B, x)
          /\ o + Total(f[i], o) = x + Total(B, x)
      BY <3>2, <3>9, <3>11
    <3>4. o + Total(f[i], o) \in Aligned
      <4>1. x + Total(B, x) \in Aligned
        BY <3>1, AlignedSum
      <4> QED
        BY <3>3, <4>1
    <3>5. BlockMarks(Marks(f[i], o), ms, at, i)
      <4>1. \A j : j \in 1 .. i <=> j \in 1 .. i - 1 \/ j = i
        OBVIOUS
      <4> QED
        BY <3>3, <3>10, <4>1 DEF BlockMarks, x, B
    <3> QED
      BY <3>1, <3>3, <3>4, <3>5 DEF Good, x, B
  <2>6. T = {}
    <3> SUFFICES ASSUME T # {}
                 PROVE  FALSE
      OBVIOUS
    <3>1. PICK i \in T : \A k \in T : i <= k
      <4> HIDE DEF Good
      <4> QED
        BY LeastNat
    <3> HIDE DEF Good
    <3>2. i # 1
      BY <2>4, <3>1
    <3>3. i \in 2 .. n /\ i - 1 \in Nat /\ i - 1 >= 1 /\ i - 1 <= n /\ i - 1 < i
      BY <3>1, <3>2
    <3>4. Good(i - 1)
      BY <3>1, <3>3
    <3> QED
      BY <2>5, <3>1, <3>3, <3>4
  <2>7. \A i \in 1 .. n : Good(i)
    <3> HIDE DEF Good
    <3> QED
      BY <2>6
  <2>8. BlocksAt(at, ms, o, n)
    <3>1. \A i \in 1 .. n : at[i] \in Aligned
      BY <2>7
    <3>3. ASSUME NEW i \in 1 .. n
          PROVE  o <= at[i]
      <4>1. CASE i = 1
        BY <1>1, <2>2, <4>1
      <4>2. CASE i # 1
        <5>1. i \in 2 .. n /\ i - 1 \in 1 .. n
          BY <4>2
        <5>2. f[i-1] \in Seq(AnyStep)
          BY <2>7, <5>1
        <5>3. Total(f[i-1], o) \in Nat
          BY <1>1, <5>2, EndOf
        <5> QED
          BY <1>1, <2>3, <5>1, <5>3
      <4> QED
        BY <4>1, <4>2
    <3>2. ASSUME NEW i \in 1 .. n, i > 1
          PROVE  at[i] = at[i-1] + Total(ms[i-1], at[i-1])
      <4>1. i \in 2 .. n /\ i - 1 \in 1 .. n
        BY <3>2
      <4>2. Good(i - 1)
        <5> HIDE DEF Good
        <5> QED
          BY <2>7, <4>1
      <4> QED
        BY <2>3, <4>1, <4>2
    <3> QED
      BY <2>2, <3>1, <3>2, <3>3 DEF BlocksAt
  <2>9. n \in 1 .. n
    BY <1>3
  <2>10. f[n] \in Seq(AnyStep) /\ BlockMarks(Marks(f[n], o), ms, at, n)
    BY <2>7, <2>9
  <2> QED
    BY <2>1, <2>8, <2>10
<1> QED
  BY <1>2, <1>3

\* Blocks that are as long as each other start in the same places,
LEMMA PlacesEqual ==
  ASSUME NEW n \in Nat, NEW o, NEW ms, NEW ws, NEW at, NEW bt,
         BlocksAt(at, ms, o, n), BlocksAt(bt, ws, o, n),
         \A i \in 1 .. n : \A x \in Aligned : Total(ms[i], x) = Total(ws[i], x)
  PROVE  \A i \in 1 .. n : at[i] = bt[i]
<1> DEFINE T == {i \in Nat : i >= 1 /\ i <= n /\ at[i] # bt[i]}
<1> SUFFICES ASSUME T # {}
             PROVE  FALSE
  OBVIOUS
<1>1. PICK i \in T : \A k \in T : i <= k
  BY LeastNat
<1>2. i # 1
  BY <1>1 DEF BlocksAt
<1>3. i - 1 \in 1 .. n /\ i \in 1 .. n /\ i > 1 /\ at[i-1] = bt[i-1] /\ at[i] # bt[i]
  BY <1>1, <1>2
<1>4. /\ at[i-1] \in Aligned /\ at[i] = at[i-1] + Total(ms[i-1], at[i-1])
      /\ bt[i] = bt[i-1] + Total(ws[i-1], bt[i-1])
  BY <1>3 DEF BlocksAt
<1> QED
  BY <1>3, <1>4

\* and at equal distances if each is as long as the other.
LEMMA PlacesSteady ==
  ASSUME NEW n \in Nat, NEW o \in Nat, NEW ms, NEW at, BlocksAt(at, ms, o, n),
         NEW z \in Nat, BlocksMeasure(ms, z, n)
  PROVE  \A i \in 1 .. n : at[i] = o + (i - 1) * z
<1> DEFINE T == {i \in Nat : i >= 1 /\ i <= n /\ at[i] # o + (i - 1) * z}
<1> SUFFICES ASSUME T # {}
             PROVE  FALSE
  OBVIOUS
<1>1. PICK i \in T : \A k \in T : i <= k
  BY LeastNat
<1>2. i # 1
  <2>1. (1 - 1) * z = 0
    OBVIOUS
  <2> QED
    BY <1>1, <2>1 DEF BlocksAt
<1>3. i - 1 \in 1 .. n /\ i \in 1 .. n /\ i > 1 /\ i - 1 \in Nat /\ i - 1 >= 1 /\ i - 1 < i
  BY <1>1, <1>2
<1>4. at[i-1] = o + ((i - 1) - 1) * z
  BY <1>1, <1>3
<1>5. at[i-1] \in Aligned /\ at[i] = at[i-1] + Total(ms[i-1], at[i-1])
  BY <1>3 DEF BlocksAt
<1>6. Total(ms[i-1], at[i-1]) = z
  BY <1>3, <1>5 DEF BlocksMeasure
<1>7. ((i - 1) - 1) * z + z = (i - 1) * z
  BY <1>3, OneMore
<1> DEFINE a == ((i - 1) - 1) * z
           b == (i - 1) * z
<1>8. a \in Int /\ b \in Int
  BY <1>3
<1>9. at[i] = (o + a) + z /\ a + z = b /\ at[i] # o + b
  BY <1>1, <1>4, <1>5, <1>6, <1>7
<1> HIDE DEF a, b
<1> QED
  BY <1>8, <1>9

HeadMarks(S, H, ms, at, n) ==
  \A p : p \in S <=> p \in H \/ \E i \in 1 .. n : p \in Marks(ms[i], at[i])

\* The marks of blocks behind a head.
LEMMA HeadedMarks ==
  ASSUME NEW h \in Seq(AnyStep), NEW n \in Nat, NEW ms, ms = [i \in 1 .. n |-> ms[i]],
         NEW o \in Nat, o + Total(h, o) \in Aligned, BlocksAligned(ms, n)
  PROVE  /\ h \o FlattenSeq(ms) \in Seq(AnyStep)
         /\ \E at : /\ BlocksAt(at, ms, o + Total(h, o), n)
                    /\ HeadMarks(Marks(h \o FlattenSeq(ms), o), Marks(h, o), ms, at, n)
<1> DEFINE b == FlattenSeq(ms)
           x == o + Total(h, o)
<1>2. b \in Seq(AnyStep) /\ \E at : BlocksAt(at, ms, x, n) /\ BlockMarks(Marks(b, x), ms, at, n)
  <2>1. x \in Aligned
    OBVIOUS
  <2> HIDE DEF x
  <2> QED
    BY <2>1, MarksOfBlocks
<1>1. PICK at : BlocksAt(at, ms, x, n) /\ BlockMarks(Marks(b, x), ms, at, n)
  BY <1>2
<1> HIDE DEF b
<1>3. /\ h \o b \in Seq(AnyStep)
      /\ Marks(h \o b, o) = Marks(h, o) \cup Marks(b, x)
  BY <1>2, MarksConcat
<1>4. HeadMarks(Marks(h \o b, o), Marks(h, o), ms, at, n)
  BY <1>1, <1>3 DEF BlockMarks, HeadMarks
<1> QED
  BY <1>1, <1>3, <1>4 DEF b

\* Blocks that do one thing each, behind a head that does too.
LEMMA HeadedKind ==
  ASSUME NEW ops, NEW h \in Seq(Doing(ops)), NEW n \in Nat, NEW ms, ms = [i \in 1 .. n |-> ms[i]],
         \A i \in 1 .. n : ms[i] \in Seq(Doing(ops))
  PROVE  h \o FlattenSeq(ms) \in Seq(Doing(ops))
<1> DEFINE T == Doing(ops)
<1> HIDE DEF T
<1>1. FlattenSeq(ms) \in Seq(T)
  BY FlattenedIn DEF T
<1>2. h \in Seq(T)
  BY DEF T
<1>3. h \o FlattenSeq(ms) \in Seq(T)
  BY <1>1, <1>2, ConcatProperties
<1> QED
  BY <1>3 DEF T

\* The marks of steps of some kinds are of these kinds.
LEMMA MarksDo ==
  ASSUME NEW ops, NEW steps \in Seq(Doing(ops)), NEW o \in Nat, NEW x \in Marks(steps, o)
  PROVE  x.op \in ops
<1>1. Doing(ops) \subseteq AnyStep /\ \A c \in Doing(ops) : c.op \in ops
  BY DEF Doing
<1>2. steps \in Seq(AnyStep) /\ \A k \in 1 .. Len(steps) : steps[k] \in Doing(ops)
  BY <1>1, SeqWithin
<1>3. PICK k \in 1 .. Len(steps) : x = MarkAt(steps, o, k)
  BY <1>2, MarkTypes
<1>4. x.op = steps[k].op
  BY <1>2, <1>3, MarkIs
<1> QED
  BY <1>1, <1>2, <1>4

------------------------------------------------------------------------------
(* Events *)

EventLength(e) == IF e.type = "midi" THEN EventSize ELSE SysexSize

\* The marks of an event, and of the dump behind it.
EventMarks(op, e, i, x) ==
  {At(op, FI("event", i), x, EventLength(e))}
    \cup IF e.type = "midi" THEN {} ELSE {At(op, FI("dump", i), x + SysexSize, e.dump)}

\* An event as it is written, mapped and skipped.
LEMMA EventMarked ==
  ASSUME NEW e \in Events, NEW i \in Nat, NEW x \in Aligned
  PROVE  /\ WrittenEvent(e, i) \in Seq(Doing({"write"}))
         /\ MappedEvent(e, i) \in Seq(Doing({"map"}))
         /\ SkippedEvent(e, i) \in Seq(Doing({"skip"}))
         /\ WrittenEvent(e, i) \in Seq(AnyStep) /\ MappedEvent(e, i) \in Seq(AnyStep)
         /\ Marks(WrittenEvent(e, i), x) = EventMarks("write", e, i, x)
         /\ Marks(MappedEvent(e, i), x) =
              {At("map", FI("event", i), x, 0)} \cup EventMarks("map", e, i, x)
         /\ Total(MappedEvent(e, i), x) = Total(WrittenEvent(e, i), x)
         /\ Total(WrittenEvent(e, i), x) \in Aligned
<1> DEFINE f == FI("event", i)
           g == FI("dump", i)
           w == {"write"}
           p == {"map"}
           k == {"skip"}
           zero == Step("map", f, 0, 4)
<1>1. /\ MappedEvent(e, i) \in Seq(AnyStep) /\ WrittenEvent(e, i) \in Seq(AnyStep)
      /\ Finds(MappedEvent(e, i), {"read", "map"}, WrittenEvent(e, i), {"write"}, x, {})
      /\ Total(WrittenEvent(e, i), x) \in Aligned
  BY EventsMeet
<1>2. Total(MappedEvent(e, i), x) = Total(WrittenEvent(e, i), x)
  BY <1>1 DEF Finds
<1>3. /\ f \in FieldName /\ g \in FieldName /\ EventSize \in Nat /\ SysexSize \in Nat /\ 0 \in Nat
      /\ 4 \in Alignments /\ 8 \in Alignments /\ 1 \in Alignments
      /\ x \in Nat /\ SysexSize \in Aligned /\ Ops = {"write", "read", "skip", "map"}
  BY FieldNames DEF EventSize, SysexSize, Aligned, Alignments, Ops
<1>4. \A a : Settled(a, x) /\ Settled(a, x + SysexSize)
  BY <1>3, AlignedSum DEF Settled
<1> HIDE DEF f, g
<1>5. \A op \in Ops, n \in Nat, a \in Alignments : \A ops : op \in ops =>
        /\ <<Step(op, f, n, a)>> \in Seq(Doing(ops))
        /\ Marks(<<Step(op, f, n, a)>>, x) = {At(op, f, x, n)}
        /\ x + Total(<<Step(op, f, n, a)>>, x) = x + n
  BY <1>3, <1>4, AtOne
<1>6. /\ <<zero>> \in Seq(Doing(p)) /\ Marks(<<zero>>, x) = {At("map", f, x, 0)}
      /\ x + Total(<<zero>>, x) = x /\ <<zero>> \in Seq(AnyStep)
  <2>1. "map" \in Ops /\ x + 0 = x
    BY <1>3
  <2>2. /\ <<zero>> \in Seq(Doing(p)) /\ Marks(<<zero>>, x) = {At("map", f, x, 0)}
        /\ x + Total(<<zero>>, x) = x
    BY <1>3, <1>5, <2>1
  <2>3. Doing(p) \subseteq AnyStep
    BY DEF Doing
  <2> QED
    BY <2>2, <2>3, SeqWithin
<1>7. ASSUME NEW q, q \in Seq(Doing(p))
      PROVE  /\ <<zero>> \o q \in Seq(Doing(p))
             /\ Marks(<<zero>> \o q, x) = {At("map", f, x, 0)} \cup Marks(q, x)
  <2> DEFINE T == Doing(p)
             z == <<zero>>
  <2>1. T \subseteq AnyStep
    BY DEF Doing
  <2>2. z \in Seq(T) /\ q \in Seq(T) /\ z \in Seq(AnyStep)
    BY <1>6, <1>7
  <2> HIDE DEF T, z
  <2>3. q \in Seq(AnyStep) /\ z \o q \in Seq(T)
    BY <2>1, <2>2, SeqWithin, ConcatProperties
  <2>4. Marks(z \o q, x) = Marks(z, x) \cup Marks(q, x + Total(z, x))
    BY <1>3, <2>2, <2>3, MarksConcat
  <2> QED
    BY <1>6, <2>3, <2>4 DEF T, z
<1> HIDE DEF zero, w, p, k
<1>8. CASE e.type = "midi"
  <2> DEFINE W == <<Step("write", f, EventSize, 1)>>
             M == <<Step("map", f, EventSize, 4)>>
             K == <<Step("skip", f, EventSize, 4)>>
  <2>1. WrittenEvent(e, i) = W /\ MappedEvent(e, i) = <<zero>> \o M /\ SkippedEvent(e, i) = K
    BY <1>8 DEF WrittenEvent, MappedEvent, SkippedEvent, Write, MapTo, Skip, f, zero
  <2>2. /\ "write" \in Ops /\ "map" \in Ops /\ "skip" \in Ops
        /\ "write" \in w /\ "map" \in p /\ "skip" \in k
    BY <1>3 DEF w, p, k
  <2>3. W \in Seq(Doing(w)) /\ Marks(W, x) = {At("write", f, x, EventSize)}
    BY <1>3, <1>5, <2>2
  <2>4. M \in Seq(Doing(p)) /\ Marks(M, x) = {At("map", f, x, EventSize)}
    BY <1>3, <1>5, <2>2
  <2>5. K \in Seq(Doing(k))
    BY <1>3, <1>5, <2>2
  <2> HIDE DEF W, M, K
  <2>6. <<zero>> \o M \in Seq(Doing(p)) /\ Marks(<<zero>> \o M, x) = {At("map", f, x, 0)} \cup Marks(M, x)
    BY <1>7, <2>4
  <2>7. \A op : EventMarks(op, e, i, x) = {At(op, f, x, EventSize)}
    BY <1>8 DEF EventMarks, EventLength, f
  <2> QED
    BY <1>1, <1>2, <2>1, <2>3, <2>4, <2>5, <2>6, <2>7 DEF w, p, k, f
<1>9. CASE e.type # "midi"
  <2> DEFINE d == e.dump
             Two(op, a, b) == <<Step(op, f, SysexSize, a), Step(op, g, d, b)>>
             W == Two("write", 1, 1)
             M == Two("map", 8, 1)
             K == Two("skip", 8, 1)
  <2>1. WrittenEvent(e, i) = W /\ MappedEvent(e, i) = <<zero>> \o M /\ SkippedEvent(e, i) = K
    BY <1>9 DEF WrittenEvent, MappedEvent, SkippedEvent, Write, MapTo, Skip, f, g, zero
  <2>2. /\ "write" \in Ops /\ "map" \in Ops /\ "skip" \in Ops
        /\ "write" \in w /\ "map" \in p /\ "skip" \in k
    BY <1>3 DEF w, p, k
  <2>3. d \in Nat
    BY <1>9 DEF Events, Aligned
  <2>4. \A op : EventMarks(op, e, i, x) = {At(op, f, x, SysexSize), At(op, g, x + SysexSize, d)}
    BY <1>9 DEF EventMarks, EventLength, f, g
  <2> HIDE DEF d
  <2>5. ASSUME NEW op \in Ops, NEW a \in Alignments, NEW b \in Alignments, NEW ops, op \in ops
        PROVE  /\ Two(op, a, b) \in Seq(Doing(ops))
               /\ Marks(Two(op, a, b), x) = {At(op, f, x, SysexSize), At(op, g, x + SysexSize, d)}
    <3>1. Settled(a, x) /\ Settled(b, x + SysexSize)
      BY <1>4
    <3>2. f \in FieldName /\ g \in FieldName /\ SysexSize \in Nat /\ x \in Nat
      BY <1>3
    <3> QED
      BY <2>3, <2>5, <3>1, <3>2, AtTwo
  <2> HIDE DEF Two
  <2>6. /\ W \in Seq(Doing(w)) /\ Marks(W, x) = {At("write", f, x, SysexSize), At("write", g, x + SysexSize, d)}
    BY <1>3, <2>2, <2>5
  <2>7. /\ M \in Seq(Doing(p)) /\ Marks(M, x) = {At("map", f, x, SysexSize), At("map", g, x + SysexSize, d)}
    BY <1>3, <2>2, <2>5
  <2>8. K \in Seq(Doing(k))
    BY <1>3, <2>2, <2>5
  <2> HIDE DEF W, M, K
  <2>9. <<zero>> \o M \in Seq(Doing(p)) /\ Marks(<<zero>> \o M, x) = {At("map", f, x, 0)} \cup Marks(M, x)
    BY <1>7, <2>7
  <2> QED
    BY <1>1, <1>2, <2>1, <2>4, <2>6, <2>7, <2>8, <2>9 DEF w, p, k, f
<1> QED
  BY <1>8, <1>9

\* A mark of an event is of the event itself or of its dump.
LEMMA EventParts ==
  ASSUME NEW op, NEW e, NEW i, NEW x, NEW p \in EventMarks(op, e, i, x)
  PROVE  /\ p.op = op
         /\ \/ p.field = FI("event", i) /\ p.lo = x /\ p.size = EventLength(e)
            \/ /\ e.type # "midi"
               /\ p.field = FI("dump", i) /\ p.lo = x + SysexSize /\ p.size = e.dump
BY AtParts DEF EventMarks

\* What is done to an event by one cursor and another.
LEMMA EventAlike ==
  ASSUME NEW op, NEW op2, NEW e, NEW i, NEW x, NEW p \in EventMarks(op, e, i, x)
  PROVE  \E q \in EventMarks(op2, e, i, x) : Alike(p, q)
<1> DEFINE a == At(op2, FI("event", i), x, EventLength(e))
           d == At(op2, FI("dump", i), x + SysexSize, e.dump)
<1>1. /\ a \in EventMarks(op2, e, i, x)
      /\ e.type # "midi" => d \in EventMarks(op2, e, i, x)
  BY DEF EventMarks
<1>2. /\ a.field = FI("event", i) /\ a.lo = x /\ a.size = EventLength(e)
      /\ d.field = FI("dump", i) /\ d.lo = x + SysexSize /\ d.size = e.dump
  BY AtParts
<1> HIDE DEF a, d
<1> QED
  BY <1>1, <1>2, EventParts DEF Alike

\* The events of a host or a plugin, whose pointers take the room before them.
LEMMA EventsDescribed ==
  ASSUME NEW m \in EventPayloads, NEW o \in Aligned,
         Total(MapRequest(m), o) = Total(WriteRequest(m), o)
  PROVE  Described(m, o)
<1> DEFINE evs == m.events
           n == Len(evs)
           room == EventSize * n
           ms == [i \in 1 .. n |-> MappedEvent(evs[i], i)]
           ws == [i \in 1 .. n |-> WrittenEvent(evs[i], i)]
           ks == [i \in 1 .. n |-> SkippedEvent(evs[i], i)]
           P == Step("skip", F("ptrs"), room, 4)
           hw == <<Step("write", F("header"), EvHeaderSize, 1), P>>
           hm == <<Step("map", F("header"), EvHeaderSize, 8), P>>
           hk == <<Step("skip", F("header"), EvHeaderSize, 8), P>>
           puts == {"write", "skip"}
           maps == {"map", "skip"}
           x == o + EvHeaderSize + room
           w == At("write", F("header"), o, EvHeaderSize)
           p == At("map", F("header"), o, EvHeaderSize)
           s == At("skip", F("ptrs"), o + EvHeaderSize, room)
<1>1. /\ evs \in Seq(Events) /\ n \in Nat /\ m.kind = "events"
      /\ \A i \in 1 .. n : evs[i] \in Events
  <2>1. evs \in Seq(Events) /\ m.kind = "events"
    BY DEF EventPayloads
  <2> HIDE DEF evs
  <2>2. n \in Nat
    BY <2>1, LenProperties
  <2> QED
    BY <2>1, <2>2, ElementOfSeq
<1>2. /\ WriteRequest(m) = hw \o FlattenSeq(ws)
      /\ MapRequest(m) = hm \o FlattenSeq(ms)
      /\ WriteResponse(m) = hk \o FlattenSeq(ks)
      /\ ReadResponse(m) = hk \o FlattenSeq(ks)
  <2>1. /\ WriteRequest(m) = WriteEvents(evs) /\ MapRequest(m) = MapEvents(evs)
        /\ WriteResponse(m) = SkipEvents(evs) /\ ReadResponse(m) = SkipEvents(evs)
    BY <1>1 DEF WriteRequest, MapRequest, WriteResponse, ReadResponse, Payload, Cursors, VstEventsOut
  <2> QED
    BY <2>1, EventSteps DEF Write, MapTo, Skip
<1>3. /\ room \in Nat /\ room \in Aligned /\ EvHeaderSize \in Nat /\ EvHeaderSize \in Aligned
      /\ F("header") \in FieldName /\ F("ptrs") \in FieldName /\ o \in Nat
      /\ 1 \in Alignments /\ 4 \in Alignments /\ 8 \in Alignments
      /\ Ops = {"write", "read", "skip", "map"}
  <2> HIDE DEF n
  <2>1. room \in Nat /\ room % 8 = 0
    BY <1>1 DEF EventSize
  <2> QED
    BY <2>1, FieldNames DEF EvHeaderSize, Aligned, Alignments, Ops
<1>4. x \in Aligned /\ \A a : Settled(a, o) /\ Settled(a, o + EvHeaderSize)
  BY <1>3, AlignedSum DEF Settled
<1>5. ms = [i \in 1 .. n |-> ms[i]] /\ ws = [i \in 1 .. n |-> ws[i]] /\ ks = [i \in 1 .. n |-> ks[i]]
  OBVIOUS
<1>6. \A i \in 1 .. n : /\ ms[i] = MappedEvent(evs[i], i) /\ ws[i] = WrittenEvent(evs[i], i)
                        /\ ks[i] = SkippedEvent(evs[i], i) /\ evs[i] \in Events /\ i \in Nat
  BY <1>1
<1> HIDE DEF evs, room, ms, ws, ks
<1>7. ASSUME NEW op \in Ops, NEW a \in Alignments, NEW ops, op \in ops, "skip" \in ops
      PROVE  /\ <<Step(op, F("header"), EvHeaderSize, a), P>> \in Seq(Doing(ops))
             /\ Marks(<<Step(op, F("header"), EvHeaderSize, a), P>>, o)
                  = {At(op, F("header"), o, EvHeaderSize), s}
             /\ o + Total(<<Step(op, F("header"), EvHeaderSize, a), P>>, o) = x
  <2>1. "skip" \in Ops /\ Settled(a, o) /\ Settled(4, o + EvHeaderSize)
    BY <1>3, <1>4
  <2>2. F("header") \in FieldName /\ F("ptrs") \in FieldName /\ EvHeaderSize \in Nat /\ room \in Nat
        /\ 4 \in Alignments /\ o \in Nat
    BY <1>3
  <2> QED
    BY <1>7, <2>1, <2>2, AtTwo
<1> HIDE DEF P, n
<1>8. hw \in Seq(Doing(puts)) /\ Marks(hw, o) = {w, s} /\ o + Total(hw, o) = x
  <2>1. "write" \in Ops /\ 1 \in Alignments /\ "write" \in puts /\ "skip" \in puts
    BY <1>3
  <2> HIDE DEF s, x, puts
  <2> QED
    BY <1>7, <2>1
<1>9. hm \in Seq(Doing(maps)) /\ Marks(hm, o) = {p, s} /\ o + Total(hm, o) = x
  <2>1. "map" \in Ops /\ 8 \in Alignments /\ "map" \in maps /\ "skip" \in maps
    BY <1>3
  <2> HIDE DEF s, x, maps
  <2> QED
    BY <1>7, <2>1
<1>10. hk \in Seq(Doing({"skip"}))
  <2> DEFINE skips == {"skip"}
  <2>1. "skip" \in Ops /\ 8 \in Alignments /\ "skip" \in skips
    BY <1>3
  <2> HIDE DEF skips
  <2>2. hk \in Seq(Doing(skips))
    BY <1>7, <2>1
  <2> QED
    BY <2>2 DEF skips
<1>11. /\ \A i \in 1 .. n : ws[i] \in Seq(Doing(puts)) /\ ms[i] \in Seq(Doing(maps))
                             /\ ks[i] \in Seq(Doing({"skip"}))
       /\ BlocksAligned(ms, n) /\ BlocksAligned(ws, n)
       /\ \A i \in 1 .. n : \A y \in Aligned : Total(ms[i], y) = Total(ws[i], y)
  <2>1. \A i \in 1 .. n : \A y \in Aligned :
          /\ ws[i] \in Seq(Doing({"write"})) /\ ms[i] \in Seq(Doing({"map"}))
          /\ ks[i] \in Seq(Doing({"skip"}))
          /\ ws[i] \in Seq(AnyStep) /\ ms[i] \in Seq(AnyStep)
          /\ Total(ms[i], y) = Total(ws[i], y) /\ Total(ws[i], y) \in Aligned
    BY <1>6, EventMarked
  <2>2. o \in Aligned /\ Doing({"write"}) \subseteq Doing(puts) /\ Doing({"map"}) \subseteq Doing(maps)
    BY DEF Doing
  <2> HIDE DEF puts, maps
  <2>3. \A i \in 1 .. n : ws[i] \in Seq(Doing(puts)) /\ ms[i] \in Seq(Doing(maps))
    BY <2>1, <2>2, SeqWithin
  <2> QED
    BY <2>1, <2>2, <2>3 DEF BlocksAligned
<1>12. hw \in Seq(AnyStep) /\ hm \in Seq(AnyStep)
  <2>1. Doing(puts) \subseteq AnyStep /\ Doing(maps) \subseteq AnyStep
    BY DEF Doing
  <2> HIDE DEF puts, maps, hw, hm
  <2> QED
    BY <1>8, <1>9, <2>1, SeqWithin
<1> HIDE DEF hw, hm, hk, x
\* The marks of the request and of its map.
<1>13. PICK at : /\ BlocksAt(at, ms, x, n)
                 /\ \A y : y \in Marks(hm \o FlattenSeq(ms), o) <=>
                      y \in Marks(hm, o) \/ \E i \in 1 .. n : y \in Marks(ms[i], at[i])
  <2>1. /\ hm \in Seq(AnyStep) /\ o + Total(hm, o) = x /\ o \in Nat /\ n \in Nat
        /\ o + Total(hm, o) \in Aligned
    BY <1>1, <1>3, <1>4, <1>9, <1>12
  <2>2. ms = [i \in 1 .. n |-> ms[i]] /\ BlocksAligned(ms, n)
    BY <1>5, <1>11
  <2>3. \E a : /\ BlocksAt(a, ms, o + Total(hm, o), n)
               /\ HeadMarks(Marks(hm \o FlattenSeq(ms), o), Marks(hm, o), ms, a, n)
    BY <2>1, <2>2, HeadedMarks
  <2> QED
    BY <2>1, <2>3 DEF HeadMarks
<1>14. PICK bt : /\ BlocksAt(bt, ws, x, n)
                 /\ \A y : y \in Marks(hw \o FlattenSeq(ws), o) <=>
                      y \in Marks(hw, o) \/ \E i \in 1 .. n : y \in Marks(ws[i], bt[i])
  <2>1. /\ hw \in Seq(AnyStep) /\ o + Total(hw, o) = x /\ o \in Nat /\ n \in Nat
        /\ o + Total(hw, o) \in Aligned
    BY <1>1, <1>3, <1>4, <1>8, <1>12
  <2>2. ws = [i \in 1 .. n |-> ws[i]] /\ BlocksAligned(ws, n)
    BY <1>5, <1>11
  <2>3. \E a : /\ BlocksAt(a, ws, o + Total(hw, o), n)
               /\ HeadMarks(Marks(hw \o FlattenSeq(ws), o), Marks(hw, o), ws, a, n)
    BY <2>1, <2>2, HeadedMarks
  <2> QED
    BY <2>1, <2>3 DEF HeadMarks
<1>15. \A i \in 1 .. n : at[i] = bt[i]
  BY <1>1, <1>11, <1>13, <1>14, PlacesEqual
<1>16. \A i \in 1 .. n : at[i] \in Aligned /\ at[i] \in Nat /\ x <= at[i]
  BY <1>13 DEF BlocksAt, Aligned
<1>17. \A y : y \in Marks(MapRequest(m), o) <=>
         \/ y = p \/ y = s
         \/ \E i \in 1 .. n : y = At("map", FI("event", i), at[i], 0)
                                \/ y \in EventMarks("map", evs[i], i, at[i])
  <2>1. \A i \in 1 .. n : Marks(ms[i], at[i]) =
          {At("map", FI("event", i), at[i], 0)} \cup EventMarks("map", evs[i], i, at[i])
    BY <1>6, <1>16, EventMarked
  <2>2. \A i \in 1 .. n : \A y : y \in Marks(ms[i], at[i]) <=>
          y = At("map", FI("event", i), at[i], 0) \/ y \in EventMarks("map", evs[i], i, at[i])
    BY <2>1
  <2> HIDE DEF p, s
  <2>3. \A y : y \in Marks(hm, o) <=> y = p \/ y = s
    BY <1>9
  <2>4. \A y : y \in Marks(MapRequest(m), o) <=>
          y \in Marks(hm, o) \/ \E i \in 1 .. n : y \in Marks(ms[i], at[i])
    BY <1>2, <1>13
  <2> QED
    BY <2>2, <2>3, <2>4
<1>18. \A y : y \in Marks(WriteRequest(m), o) <=>
         \/ y = w \/ y = s
         \/ \E i \in 1 .. n : y \in EventMarks("write", evs[i], i, at[i])
  <2>1. \A i \in 1 .. n : Marks(ws[i], bt[i]) = EventMarks("write", evs[i], i, at[i])
    BY <1>6, <1>15, <1>16, EventMarked
  <2> HIDE DEF w, s
  <2> QED
    BY <1>2, <1>8, <1>14, <2>1
<1>19. /\ WriteRequest(m) \in Seq(Doing(puts)) /\ MapRequest(m) \in Seq(Doing(maps))
       /\ WriteResponse(m) \in Seq(Doing({"skip"})) /\ ReadResponse(m) \in Seq(Doing({"skip"}))
  <2> DEFINE skips == {"skip"}
  <2> HIDE DEF skips, puts, maps
  <2>1. hw \o FlattenSeq(ws) \in Seq(Doing(puts))
    BY <1>1, <1>5, <1>8, <1>11, HeadedKind
  <2>2. hm \o FlattenSeq(ms) \in Seq(Doing(maps))
    BY <1>1, <1>5, <1>9, <1>11, HeadedKind
  <2>3. hk \o FlattenSeq(ks) \in Seq(Doing(skips))
    <3>1. hk \in Seq(Doing(skips)) /\ \A i \in 1 .. n : ks[i] \in Seq(Doing(skips))
      BY <1>10, <1>11 DEF skips
    <3> QED
      BY <1>1, <1>5, <3>1, HeadedKind
  <2> QED
    BY <1>2, <2>1, <2>2, <2>3 DEF skips
<1>20. Kinds(m)
  <2>1. /\ Doing(maps) \subseteq Doing({"read", "map", "skip"})
        /\ Doing({"skip"}) \subseteq Doing({"read", "write", "skip"})
        /\ Doing({"skip"}) \subseteq Doing({"read", "skip"})
    BY DEF Doing
  <2>2. MapRequest(m) \in Seq(Doing({"read", "map", "skip"}))
    BY <1>19, <2>1, SeqWithin
  <2>3. WriteResponse(m) \in Seq(Doing({"read", "write", "skip"}))
    BY <1>19, <2>1, SeqWithin
  <2>4. ReadResponse(m) \in Seq(Doing({"read", "skip"}))
    BY <1>19, <2>1, SeqWithin
  <2> QED
    BY <1>19, <2>2, <2>3, <2>4 DEF Kinds
<1>21. /\ \A y \in Marks(MapRequest(m), o) : y.op \in maps
       /\ \A y \in Marks(WriteResponse(m), o) \cup Marks(ReadResponse(m), o) : y.op = "skip"
  <2>1. \A y \in Marks(MapRequest(m), o) : y.op \in maps
    BY <1>3, <1>19, MarksDo
  <2>2. \A y \in Marks(WriteResponse(m), o) : y.op \in {"skip"}
    BY <1>3, <1>19, MarksDo
  <2>3. \A y \in Marks(ReadResponse(m), o) : y.op \in {"skip"}
    BY <1>3, <1>19, MarksDo
  <2> QED
    BY <2>1, <2>2, <2>3
<1>22. Outputs(m) = {}
  BY <1>1 DEF Outputs
<1>23. LengthsFound(m, o) /\ ResultsFound(m, o) /\ RectsRead(m, o)
  BY <1>1, <1>21, <1>22 DEF LengthsFound, ResultsFound, RectsRead
<1>24. /\ w.op = "write" /\ w.field = F("header") /\ w.lo = o /\ w.size = EvHeaderSize
       /\ p.op = "map" /\ p.field = F("header") /\ p.lo = o /\ p.size = EvHeaderSize
       /\ s.op = "skip" /\ EvHeaderSize > 0
       /\ \A e \in Events : EventLength(e) > 0
  BY AtParts DEF EvHeaderSize, EventLength, EventSize, SysexSize
<1> HIDE DEF w, p, s
<1>25. RequestFound(m, o)
  <2> DEFINE written == {y \in Marks(WriteRequest(m), o) : y.op = "write"}
  <2>1. ASSUME NEW i \in 1 .. n, NEW y \in EventMarks("map", evs[i], i, at[i])
        PROVE  \E q \in written : Alike(y, q)
    <3>1. PICK q \in EventMarks("write", evs[i], i, at[i]) : Alike(y, q)
      BY EventAlike
    <3>2. q.op = "write"
      BY EventParts
    <3> QED
      BY <1>18, <3>1, <3>2
  <2>2. ASSUME NEW i \in 1 .. n
        PROVE  \E q \in written : q.field = FI("event", i) /\ q.lo = at[i] /\ q.size > 0
    <3> DEFINE q == At("write", FI("event", i), at[i], EventLength(evs[i]))
    <3>1. q \in EventMarks("write", evs[i], i, at[i])
      BY DEF EventMarks
    <3>2. q.op = "write" /\ q.field = FI("event", i) /\ q.lo = at[i] /\ q.size = EventLength(evs[i])
      BY AtParts
    <3> HIDE DEF q
    <3> QED
      BY <1>6, <1>18, <1>24, <3>1, <3>2
  <2>3. w \in written /\ Alike(p, w) /\ w.size > 0
    BY <1>18, <1>24 DEF Alike
  <2> SUFFICES ASSUME NEW y \in Marks(MapRequest(m), o)
               PROVE  /\ y.op \in {"read", "map"} /\ y.size > 0 => \E q \in written : Alike(y, q)
                      /\ y.op = "map" /\ y.field[1] \in {"header", "event"} =>
                           \E q \in written : y.field = q.field /\ y.lo = q.lo /\ q.size > 0
    BY DEF RequestFound
  <2> HIDE DEF written
  <2>4. CASE y = p
    BY <2>3, <2>4 DEF Alike
  <2>5. CASE y = s
    BY <1>24, <2>5
  <2>6. ASSUME NEW i \in 1 .. n, y = At("map", FI("event", i), at[i], 0)
        PROVE  y.size = 0 /\ \E q \in written : y.field = q.field /\ y.lo = q.lo /\ q.size > 0
    BY <2>2, <2>6, AtParts
  <2>7. ASSUME NEW i \in 1 .. n, y \in EventMarks("map", evs[i], i, at[i])
        PROVE  /\ \E q \in written : Alike(y, q)
               /\ y.field[1] \in {"header", "event"} =>
                    \E q \in written : y.field = q.field /\ y.lo = q.lo /\ q.size > 0
    <3>1. FI("dump", i)[1] = "dump"
      BY FieldParts
    <3>2. \/ y.field = FI("event", i) /\ y.lo = at[i]
          \/ y.field = FI("dump", i)
      BY <2>7, EventParts
    <3> QED
      BY <2>1, <2>2, <2>7, <3>1, <3>2
  <2> QED
    BY <1>17, <2>4, <2>5, <2>6, <2>7
<1>26. RoomForPointers(m, o)
  <2> DEFINE mapped_ == {y \in Marks(MapRequest(m), o) : y.op = "map"}
             Place(i) == [lo |-> o + Shift(FI("event", i)), hi |-> o + Shift(FI("event", i)) + PtrSize]
  <2>1. \A i \in 1 .. n : /\ Place(i).lo = o + EvHeaderSize + PtrSize * (i - 1)
                          /\ Place(i).hi = o + EvHeaderSize + PtrSize * (i - 1) + PtrSize
    BY <1>1, <1>3, FieldParts DEF Shift, PtrSize, EvHeaderSize
  <2>2. ASSUME NEW i \in 1 .. n, NEW j \in 1 .. n, i # j
        PROVE  ~Overlap(Place(i), Place(j))
    <3> HIDE DEF Place
    <3> QED
      BY <1>3, <2>1, <2>2 DEF Overlap, PtrSize, EvHeaderSize
  <2>3. ASSUME NEW i \in 1 .. n
        PROVE  o + EvHeaderSize <= Place(i).lo /\ Place(i).hi <= x /\ Place(i).lo \in Nat /\ Place(i).hi \in Nat
    <3> HIDE DEF Place
    <3>1. x = o + 16 + 32 * n /\ EvHeaderSize = 16
      BY DEF x, room, EvHeaderSize, EventSize
    <3>2. Place(i).lo = o + 16 + 8 * (i - 1) /\ Place(i).hi = o + 16 + 8 * (i - 1) + 8
      BY <2>1 DEF EvHeaderSize, PtrSize
    <3> QED
      BY <1>1, <1>3, <3>1, <3>2
  <2>4. \A y \in mapped_ : y.field = F("header") => y = p
    <3> SUFFICES ASSUME NEW y \in mapped_, y.field = F("header"), y # p
                 PROVE  FALSE
      OBVIOUS
    <3>1. y # s
      BY <1>24
    <3>2. PICK i \in 1 .. n : y = At("map", FI("event", i), at[i], 0) \/ y \in EventMarks("map", evs[i], i, at[i])
      BY <1>17, <3>1
    <3>3. y.field = FI("event", i) \/ y.field = FI("dump", i)
      BY <3>2, AtParts, EventParts
    <3> QED
      BY <3>3, FieldParts
  <2>5. p \in mapped_
    BY <1>17, <1>24
  <2>6. ASSUME NEW y \in mapped_, HasSlot(y.field)
        PROVE  \E i \in 1 .. n : y.field = FI("event", i) /\ y.lo = at[i]
    <3>1. y # p /\ y # s
      BY <1>24, <2>6, FieldParts DEF HasSlot
    <3>2. PICK i \in 1 .. n : y = At("map", FI("event", i), at[i], 0) \/ y \in EventMarks("map", evs[i], i, at[i])
      BY <1>17, <3>1
    <3>3. (y.field = FI("event", i) /\ y.lo = at[i]) \/ y.field = FI("dump", i)
      BY <3>2, AtParts, EventParts
    <3> QED
      BY <2>6, <3>3, FieldParts DEF HasSlot
  <2>7. ASSUME NEW i \in 1 .. n
        PROVE  /\ Home(FI("event", i)) = F("header") /\ FI("event", i) \in Numbered
               /\ SlotIn(p, FI("event", i)) = Place(i)
    <3>1. FI("event", i) \in Numbered
      BY <1>1 DEF FI, Numbered
    <3>2. FI("event", i)[1] = "event"
      BY FieldParts
    <3> QED
      BY <1>24, <3>1, <3>2 DEF Home, SlotIn
  <2>8. ASSUME NEW i \in 1 .. n, NEW y \in Marks(WriteRequest(m), o), y.op = "write"
        PROVE  ~Overlap(Span(y), Place(i))
    <3>1. y # s
      BY <1>24, <2>8
    <3>2. CASE y = w
      BY <1>3, <1>24, <2>3, <3>2 DEF Overlap, Span
    <3>3. ASSUME NEW j \in 1 .. n, y \in EventMarks("write", evs[j], j, at[j])
          PROVE  ~Overlap(Span(y), Place(i))
      <4>1. y.lo = at[j] \/ y.lo = at[j] + SysexSize
        BY <3>3, EventParts
      <4>2. x <= y.lo /\ y.lo \in Nat
        BY <1>4, <1>16, <4>1 DEF SysexSize, Aligned
      <4> HIDE DEF Place
      <4> QED
        BY <1>4, <2>3, <4>2 DEF Overlap, Span, Aligned
    <3> QED
      BY <1>18, <3>1, <3>2, <3>3
  <2> HIDE DEF Place
  <2> SUFFICES ASSUME NEW y \in mapped_, HasSlot(y.field)
               PROVE  /\ y.field \in Numbered /\ {h \in mapped_ : h.field = Home(y.field)} # {}
                      /\ \A h \in mapped_ : h.field = Home(y.field) =>
                           /\ h.lo <= SlotIn(h, y.field).lo /\ SlotIn(h, y.field).hi <= y.lo
                           /\ \A v \in Marks(WriteRequest(m), o) :
                                v.op = "write" => ~Overlap(Span(v), SlotIn(h, y.field))
                           /\ \A z \in mapped_ : HasSlot(z.field) /\ z.field # y.field =>
                                \A g \in mapped_ : g.field = Home(z.field) =>
                                  ~Overlap(SlotIn(h, y.field), SlotIn(g, z.field))
    BY DEF RoomForPointers
  <2> HIDE DEF mapped_
  <2>9. PICK i \in 1 .. n : y.field = FI("event", i) /\ y.lo = at[i]
    BY <2>6
  <2>10. y.field \in Numbered /\ {h \in mapped_ : h.field = Home(y.field)} # {}
    BY <1>24, <2>5, <2>7, <2>9
  <2>11. ASSUME NEW h \in mapped_, h.field = Home(y.field)
         PROVE  h = p /\ SlotIn(h, y.field) = Place(i)
    BY <2>4, <2>7, <2>9, <2>11
  <2>12. p.lo <= Place(i).lo /\ Place(i).hi <= y.lo
    BY <1>3, <1>4, <1>16, <1>24, <2>3, <2>9 DEF Aligned
  <2>13. ASSUME NEW z \in mapped_, HasSlot(z.field), z.field # y.field,
                NEW g \in mapped_, g.field = Home(z.field)
         PROVE  ~Overlap(Place(i), SlotIn(g, z.field))
    <3>1. PICK j \in 1 .. n : z.field = FI("event", j)
      BY <2>6, <2>13
    <3>2. i # j /\ g = p /\ SlotIn(g, z.field) = Place(j)
      BY <2>4, <2>7, <2>9, <2>13, <3>1
    <3> QED
      BY <2>2, <3>2
  <2> QED
    BY <2>8, <2>10, <2>11, <2>12, <2>13
<1> QED
  BY <1>20, <1>23, <1>25, <1>26 DEF Described

------------------------------------------------------------------------------
(* The audio arrays *)

\* How far a number of channels reach.
LEMMA NatTimes ==
  ASSUME NEW i \in Nat, NEW z \in Nat
  PROVE  i * z \in Nat
OBVIOUS

\* Where the i-th channel is, behind the array of pointers at o.
ChannelAt(o, z, n, i) == (o + PtrSize * n) + (i - 1) * z

\* Every channel is behind the array of pointers.
LEMMA ChannelAfter ==
  ASSUME NEW o \in Nat, NEW z \in Nat, NEW n \in Nat, NEW i \in 1 .. n
  PROVE  ChannelAt(o, z, n, i) \in Nat /\ o + PtrSize * n <= ChannelAt(o, z, n, i)
<1> DEFINE a == (i - 1) * z
           b == PtrSize * n
<1>1. a \in Nat
  <2>1. i - 1 \in Nat
    OBVIOUS
  <2> QED
    BY <2>1, NatTimes
<1>2. b \in Nat
  BY DEF PtrSize
<1>3. ChannelAt(o, z, n, i) = (o + b) + a
  BY DEF ChannelAt
<1> HIDE DEF a, b
<1>4. (o + b) + a \in Nat /\ o + b <= (o + b) + a
  BY <1>1, <1>2
<1> QED
  BY <1>3, <1>4 DEF b

\* Audio arrays: the pointers, and each channel where ChannelAt says.
LEMMA AudioMarked ==
  ASSUME NEW h \in Ops, NEW op \in Ops, NEW f \in AudioNames, NEW z \in Aligned,
         NEW a \in Alignments, NEW n \in Nat, NEW o \in Aligned, NEW ops, h \in ops, op \in ops
  PROVE  /\ Audio(h, op, f, z, a, n) \in Seq(Doing(ops))
         /\ \A p : p \in Marks(Audio(h, op, f, z, a, n), o) <=>
              \/ p = At(h, F(f), o, PtrSize * n)
              \/ \E i \in 1 .. n : p = At(op, FI(f, i), ChannelAt(o, z, n, i), z)
<1> DEFINE ms == Channels(op, f, z, a, n)
           y == PtrSize * n
           hd == <<Step(h, F(f), y, PtrSize)>>
           x == o + y
           one(i) == <<Step(op, FI(f, i), z, a)>>
<1>1. /\ y \in Aligned /\ y \in Nat /\ z \in Nat /\ o \in Nat /\ PtrSize \in Alignments
      /\ F(f) \in FieldName /\ \A i \in 1 .. n : FI(f, i) \in FieldName
  BY ChannelSteps, FieldNames DEF Aligned, AudioNames, PtrSize, Alignments
<1>2. Audio(h, op, f, z, a, n) = hd \o FlattenSeq(ms)
  BY DEF Audio
<1>3. ms = [i \in 1 .. n |-> ms[i]] /\ \A i \in 1 .. n : ms[i] = one(i)
  BY DEF Channels
<1> HIDE DEF ms, y
<1>4. hd \in Seq(Doing(ops)) /\ Marks(hd, o) = {At(h, F(f), o, y)} /\ o + Total(hd, o) = x
  <2>1. Settled(PtrSize, o)
    BY DEF Settled
  <2> QED
    BY <1>1, <2>1, AtOne
<1>5. x \in Aligned
  BY <1>1, AlignedSum
<1>6. ASSUME NEW i \in 1 .. n, NEW v \in Aligned
      PROVE  /\ one(i) \in Seq(Doing(ops)) /\ one(i) \in Seq(AnyStep)
             /\ Marks(one(i), v) = {At(op, FI(f, i), v, z)} /\ Total(one(i), v) = z
  <2>1. v \in Nat /\ Settled(a, v)
    BY DEF Settled, Aligned
  <2>2. /\ one(i) \in Seq(Doing(ops)) /\ Marks(one(i), v) = {At(op, FI(f, i), v, z)}
        /\ v + Total(one(i), v) = v + z
    BY <1>1, <2>1, AtOne
  <2>3. Doing(ops) \subseteq AnyStep
    BY DEF Doing
  <2> DEFINE q == one(i)
  <2> HIDE DEF q
  <2>4. q \in Seq(AnyStep)
    BY <2>2, <2>3, SeqWithin DEF q
  <2>5. Total(q, v) \in Nat
    BY <2>1, <2>4, EndOf
  <2>6. v + Total(q, v) = v + z
    BY <2>2 DEF q
  <2>7. Total(q, v) = z
    BY <1>1, <2>1, <2>5, <2>6
  <2> QED
    BY <2>2, <2>4, <2>7 DEF q
<1> HIDE DEF one
<1>7. hd \in Seq(AnyStep)
  <2>1. Doing(ops) \subseteq AnyStep
    BY DEF Doing
  <2> HIDE DEF hd
  <2> QED
    BY <1>4, <2>1, SeqWithin
<1> HIDE DEF hd, x
<1>8. BlocksAligned(ms, n) /\ BlocksMeasure(ms, z, n)
  BY <1>3, <1>6 DEF BlocksAligned, BlocksMeasure
<1>9. PICK at : BlocksAt(at, ms, x, n) /\ HeadMarks(Marks(hd \o FlattenSeq(ms), o), Marks(hd, o), ms, at, n)
  <2>1. /\ o + Total(hd, o) \in Aligned /\ o \in Nat /\ ms = [i \in 1 .. n |-> ms[i]]
        /\ BlocksAligned(ms, n) /\ hd \in Seq(AnyStep)
    BY <1>1, <1>3, <1>4, <1>5, <1>7, <1>8
  <2>2. \E at : /\ BlocksAt(at, ms, o + Total(hd, o), n)
                /\ HeadMarks(Marks(hd \o FlattenSeq(ms), o), Marks(hd, o), ms, at, n)
    BY <2>1, HeadedMarks
  <2> QED
    BY <1>4, <2>2
<1>10. \A i \in 1 .. n : at[i] = x + (i - 1) * z /\ at[i] \in Aligned
  <2>1. x \in Nat
    BY <1>5 DEF Aligned
  <2>2. \A i \in 1 .. n : at[i] = x + (i - 1) * z
    BY <1>1, <1>8, <1>9, <2>1, PlacesSteady
  <2> QED
    BY <1>9, <2>2 DEF BlocksAt
<1>11. \A i \in 1 .. n : at[i] = ChannelAt(o, z, n, i)
  BY <1>10 DEF ChannelAt, x, y
<1>12. \A i \in 1 .. n : Marks(ms[i], at[i]) = {At(op, FI(f, i), ChannelAt(o, z, n, i), z)}
  BY <1>3, <1>6, <1>10, <1>11
<1>13. \A p : p \in Marks(hd \o FlattenSeq(ms), o) <=>
              \/ p = At(h, F(f), o, y)
              \/ \E i \in 1 .. n : p = At(op, FI(f, i), ChannelAt(o, z, n, i), z)
  <2>1. \A p : p \in Marks(hd, o) <=> p = At(h, F(f), o, y)
    BY <1>4
  <2>2. \A i \in 1 .. n : \A p : p \in Marks(ms[i], at[i]) <=> p = At(op, FI(f, i), ChannelAt(o, z, n, i), z)
    BY <1>12
  <2> QED
    BY <1>9, <2>1, <2>2 DEF HeadMarks
<1>14. hd \o FlattenSeq(ms) \in Seq(Doing(ops))
  <2>1. \A i \in 1 .. n : ms[i] \in Seq(Doing(ops))
    BY <1>3, <1>5, <1>6
  <2> QED
    BY <1>3, <1>4, <2>1, HeadedKind
<1> QED
  BY <1>2, <1>13, <1>14 DEF y

\* What is skipped of them is skipped as a whole.
LEMMA SkippedMarks ==
  ASSUME NEW f \in AudioNames, NEW p \in AudioPayloads, NEW n \in Nat, NEW o \in Aligned,
         NEW ops, "skip" \in ops
  PROVE  /\ SkipAudio(f, p, n) \in Seq(Doing(ops))
         /\ At("skip", F(f), o, PtrSize * n) \in Marks(SkipAudio(f, p, n), o)
         /\ \A x \in Marks(SkipAudio(f, p, n), o) : x.op = "skip"
<1> DEFINE y == PtrSize * n
           k == ChannelSize(p) * n
           steps == SkipAudio(f, p, n)
<1>1. steps = <<Step("skip", F(f), y, PtrSize), Step("skip", F(f), k, p.sample)>>
  BY DEF SkipAudio, ChannelSize, Skip
<1>2. /\ y \in Aligned /\ y \in Nat /\ o \in Nat /\ PtrSize \in Alignments /\ p.sample \in Alignments
      /\ F(f) \in FieldName /\ k \in Nat /\ "skip" \in Ops
  <2>1. ChannelSize(p) \in Nat /\ p.sample \in Alignments
    BY DEF AudioPayloads, ChannelSize, Aligned, Alignments
  <2> DEFINE z == ChannelSize(p)
  <2> HIDE DEF z
  <2>2. z * n \in Nat
    BY <2>1, NatTimes DEF z
  <2>3. y \in Nat /\ y % 8 = 0
    BY DEF PtrSize
  <2>4. F(f) \in FieldName
    BY FieldNames DEF AudioNames
  <2> QED
    BY <2>1, <2>2, <2>3, <2>4 DEF Aligned, PtrSize, Alignments, Ops, z
<1>3. Settled(PtrSize, o) /\ Settled(p.sample, o + y)
  BY <1>2, AlignedSum DEF Settled
<1> HIDE DEF y, k, steps
<1>4. /\ steps \in Seq(Doing(ops))
      /\ Marks(steps, o) = {At("skip", F(f), o, y), At("skip", F(f), o + y, k)}
  BY <1>1, <1>2, <1>3, AtTwo
<1> QED
  BY <1>4, AtParts DEF steps, y

\* What lies within places that are apart is apart.
Within(p, q) == q.lo <= p.lo /\ p.hi <= q.hi

LEMMA WithinApart ==
  ASSUME NEW p, NEW q, NEW r, NEW s,
         p.lo \in Int, p.hi \in Int, q.lo \in Int, q.hi \in Int,
         r.lo \in Int, r.hi \in Int, s.lo \in Int, s.hi \in Int,
         Within(p, q), Within(r, s), ~Overlap(q, s)
  PROVE  ~Overlap(p, r)
BY DEF Within, Overlap

\* Samples, whose pointers take the room that both sides skip.
LEMMA AudioDescribed ==
  ASSUME NEW m \in AudioPayloads, NEW o \in Aligned,
         Total(MapRequest(m), o) = Total(WriteRequest(m), o)
  PROVE  Described(m, o)
<1> DEFINE z == ChannelSize(m)
           x == o + (PtrSize * m.ins + m.ins * z)
           base_(f) == IF f = "in" THEN o ELSE x
           count(f) == IF f = "in" THEN m.ins ELSE m.outs
           Table(op, f) == At(op, F(f), base_(f), PtrSize * count(f))
           Chan(op, f, i) == At(op, FI(f, i), ChannelAt(base_(f), z, count(f), i), z)
           sent(f) == f = "in" \/ m.accumulating
           WI == WriteAudio("in", m, m.ins)
           WO == IF m.accumulating THEN WriteAudio("out", m, m.outs) ELSE SkipAudio("out", m, m.outs)
           MI == MapAudio("in", m, m.ins)
           MO == MapAudio("out", m, m.outs)
           SI == SkipAudio("in", m, m.ins)
           SO == SkipAudio("out", m, m.outs)
           RO == ReadAudio("out", m, m.outs)
           puts == {"write", "skip"}
           maps == {"map"}
           skips == {"skip"}
           reads == {"read", "skip"}
<1>1. /\ m.kind = "process" /\ m.ins \in Nat /\ m.outs \in Nat /\ m.accumulating \in BOOLEAN
      /\ z \in Aligned /\ z \in Nat /\ m.sample \in Alignments /\ 1 \in Alignments /\ o \in Nat
      /\ "in" \in AudioNames /\ "out" \in AudioNames /\ Ops = {"write", "read", "skip", "map"}
  BY DEF AudioPayloads, ChannelSize, Aligned, Alignments, AudioNames, Ops
<1>2. /\ WriteRequest(m) = WI \o WO /\ MapRequest(m) = MI \o MO
      /\ WriteResponse(m) = SI \o SO /\ ReadResponse(m) = SI \o RO
  BY <1>1 DEF WriteRequest, MapRequest, WriteResponse, ReadResponse, Payload, Cursors, AudioArrays
<1>3. /\ WI = Audio("skip", "write", "in", z, 1, m.ins)
      /\ WriteAudio("out", m, m.outs) = Audio("skip", "write", "out", z, 1, m.outs)
      /\ MI = Audio("map", "map", "in", z, m.sample, m.ins)
      /\ MO = Audio("map", "map", "out", z, m.sample, m.outs)
      /\ RO = Audio("skip", "read", "out", z, 1, m.outs)
  BY <1>1, AudioSteps
<1>4. Outputs(m) = {FI("out", i) : i \in 1 .. m.outs}
  BY <1>1 DEF Outputs
<1> HIDE DEF z
<1>5. /\ o + Total(WI, o) = x /\ o + Total(MI, o) = x /\ o + Total(SI, o) = x /\ x \in Aligned /\ x \in Nat
  <2>1. /\ Total(WI, o) = PtrSize * m.ins + m.ins * z /\ Total(WI, o) \in Aligned
        /\ Total(MI, o) = PtrSize * m.ins + m.ins * z
    BY <1>1, <1>3, AudioTotal
  <2>2. Total(SI, o) = PtrSize * m.ins + m.ins * z
    BY <1>1, SkippedAudio DEF z
  <2>3. o + Total(WI, o) \in Aligned
    BY <2>1, AlignedSum
  <2> QED
    BY <2>1, <2>2, <2>3 DEF Aligned
<1> HIDE DEF x
<1>6. /\ base_("in") = o /\ count("in") = m.ins /\ base_("out") = x /\ count("out") = m.outs
      /\ \A f \in AudioNames : base_(f) \in Aligned /\ base_(f) \in Nat /\ count(f) \in Nat
  BY <1>1, <1>5
<1> HIDE DEF base_, count, WI, MI, MO, SI, SO, RO, puts, maps, skips, reads
\* The marks of each half.
<1>7. ASSUME NEW h \in Ops, NEW op \in Ops, NEW f \in AudioNames, NEW a \in Alignments,
             NEW ops, h \in ops, op \in ops
      PROVE  /\ Audio(h, op, f, z, a, count(f)) \in Seq(Doing(ops))
             /\ \A p : p \in Marks(Audio(h, op, f, z, a, count(f)), base_(f)) <=>
                  p = Table(h, f) \/ \E i \in 1 .. count(f) : p = Chan(op, f, i)
  <2> DEFINE b == base_(f)
             n == count(f)
  <2>1. z \in Aligned /\ b \in Aligned /\ n \in Nat /\ h \in ops /\ op \in ops
    BY <1>1, <1>6, <1>7
  <2> HIDE DEF b, n, Table, Chan
  <2>2. /\ Audio(h, op, f, z, a, n) \in Seq(Doing(ops))
        /\ \A p : p \in Marks(Audio(h, op, f, z, a, n), b) <=>
             \/ p = At(h, F(f), b, PtrSize * n)
             \/ \E i \in 1 .. n : p = At(op, FI(f, i), ChannelAt(b, z, n, i), z)
    BY <2>1, AudioMarked
  <2> QED
    BY <2>2 DEF Table, Chan, b, n
<1> HIDE DEF Table, Chan
<1>8. /\ WI \in Seq(Doing(puts))
      /\ \A p : p \in Marks(WI, o) <=>
           p = Table("skip", "in") \/ \E i \in 1 .. count("in") : p = Chan("write", "in", i)
  <2>1. "skip" \in Ops /\ "write" \in Ops /\ "skip" \in puts /\ "write" \in puts
    BY <1>1 DEF puts
  <2> DEFINE q == Audio("skip", "write", "in", z, 1, count("in"))
  <2>2. /\ q \in Seq(Doing(puts))
        /\ \A p : p \in Marks(q, base_("in")) <=>
             p = Table("skip", "in") \/ \E i \in 1 .. count("in") : p = Chan("write", "in", i)
    <3>1. "in" \in AudioNames /\ 1 \in Alignments
      BY <1>1
    <3> QED
      BY <1>7, <2>1, <3>1
  <2>3. WI = q /\ base_("in") = o
    BY <1>3, <1>6
  <2> QED
    BY <2>2, <2>3
<1>9. /\ MI \in Seq(Doing(maps)) /\ MO \in Seq(Doing(maps))
      /\ \A p : p \in Marks(MI, o) <=>
           p = Table("map", "in") \/ \E i \in 1 .. count("in") : p = Chan("map", "in", i)
      /\ \A p : p \in Marks(MO, x) <=>
           p = Table("map", "out") \/ \E i \in 1 .. count("out") : p = Chan("map", "out", i)
  <2>1. "map" \in Ops /\ "map" \in maps
    BY <1>1 DEF maps
  <2> DEFINE q(f) == Audio("map", "map", f, z, m.sample, count(f))
  <2>2. ASSUME NEW f \in AudioNames
        PROVE  /\ q(f) \in Seq(Doing(maps))
               /\ \A p : p \in Marks(q(f), base_(f)) <=>
                    p = Table("map", f) \/ \E i \in 1 .. count(f) : p = Chan("map", f, i)
    <3>1. m.sample \in Alignments
      BY <1>1
    <3> QED
      BY <1>7, <2>1, <3>1
  <2>3. MI = q("in") /\ base_("in") = o /\ MO = q("out") /\ base_("out") = x
    BY <1>3, <1>6
  <2> HIDE DEF q
  <2> QED
    BY <1>1, <2>2, <2>3
<1>10. /\ RO \in Seq(Doing(reads))
       /\ \A p : p \in Marks(RO, x) <=>
            p = Table("skip", "out") \/ \E i \in 1 .. count("out") : p = Chan("read", "out", i)
  <2>1. "skip" \in Ops /\ "read" \in Ops /\ "skip" \in reads /\ "read" \in reads
    BY <1>1 DEF reads
  <2> DEFINE q == Audio("skip", "read", "out", z, 1, count("out"))
  <2>2. /\ q \in Seq(Doing(reads))
        /\ \A p : p \in Marks(q, base_("out")) <=>
             p = Table("skip", "out") \/ \E i \in 1 .. count("out") : p = Chan("read", "out", i)
    <3>1. "out" \in AudioNames /\ 1 \in Alignments
      BY <1>1
    <3> QED
      BY <1>7, <2>1, <3>1
  <2>3. RO = q /\ base_("out") = x
    BY <1>3, <1>6
  <2> QED
    BY <2>2, <2>3
<1>11. /\ WO \in Seq(Doing(puts))
       /\ Table("skip", "out") \in Marks(WO, x)
       /\ \A p \in Marks(WO, x) : p.op = "write" =>
            m.accumulating /\ \E i \in 1 .. count("out") : p = Chan("write", "out", i)
       /\ m.accumulating => \A i \in 1 .. count("out") : Chan("write", "out", i) \in Marks(WO, x)
  <2>1. CASE m.accumulating
    <3>1. "skip" \in Ops /\ "write" \in Ops /\ "skip" \in puts /\ "write" \in puts
      BY <1>1 DEF puts
    <3>2. WO = Audio("skip", "write", "out", z, 1, count("out"))
      BY <1>3, <1>6, <2>1
    <3> HIDE DEF WO
    <3>3. /\ WO \in Seq(Doing(puts))
          /\ \A p : p \in Marks(WO, x) <=>
               p = Table("skip", "out") \/ \E i \in 1 .. count("out") : p = Chan("write", "out", i)
      <4> DEFINE q == Audio("skip", "write", "out", z, 1, count("out"))
      <4>1. /\ q \in Seq(Doing(puts))
            /\ \A p : p \in Marks(q, base_("out")) <=>
                 p = Table("skip", "out") \/ \E i \in 1 .. count("out") : p = Chan("write", "out", i)
        <5>1. "out" \in AudioNames /\ 1 \in Alignments
          BY <1>1
        <5> QED
          BY <1>7, <3>1, <5>1
      <4>2. base_("out") = x
        BY <1>6
      <4> QED
        BY <3>2, <4>1, <4>2
    <3>4. Table("skip", "out").op = "skip"
      BY AtParts DEF Table
    <3> QED
      BY <2>1, <3>3, <3>4
  <2>2. CASE ~m.accumulating
    <3>1. "skip" \in puts
      BY DEF puts
    <3>2. WO = SkipAudio("out", m, m.outs)
      BY <2>2
    <3> HIDE DEF WO
    <3>3. /\ WO \in Seq(Doing(puts)) /\ At("skip", F("out"), x, PtrSize * m.outs) \in Marks(WO, x)
          /\ \A p \in Marks(WO, x) : p.op = "skip"
      <4>1. "out" \in AudioNames /\ m.outs \in Nat
        BY <1>1
      <4> DEFINE n == m.outs
                 q == SkipAudio("out", m, n)
      <4>2. n \in Nat
        BY <4>1
      <4> HIDE DEF n
      <4>3. /\ q \in Seq(Doing(puts)) /\ At("skip", F("out"), x, PtrSize * n) \in Marks(q, x)
            /\ \A p \in Marks(q, x) : p.op = "skip"
        BY <1>5, <3>1, <4>1, <4>2, SkippedMarks
      <4> QED
        BY <3>2, <4>3 DEF n
    <3>4. Table("skip", "out") = At("skip", F("out"), x, PtrSize * m.outs)
      BY <1>6 DEF Table
    <3> QED
      BY <2>2, <3>3, <3>4
  <2> QED
    BY <2>1, <2>2
<1> HIDE DEF WO
<1>12. /\ SI \in Seq(Doing(skips)) /\ SO \in Seq(Doing(skips)) /\ SI \in Seq(Doing(reads))
       /\ \A p \in Marks(SI, o) : p.op = "skip"
  <2>1. "skip" \in skips /\ "skip" \in reads
    BY DEF skips, reads
  <2> DEFINE n == m.ins
             k == m.outs
  <2>2. n \in Nat /\ k \in Nat /\ "in" \in AudioNames /\ "out" \in AudioNames
    BY <1>1
  <2> HIDE DEF n, k
  <2>3. \A ops : "skip" \in ops =>
          /\ SkipAudio("in", m, n) \in Seq(Doing(ops)) /\ SkipAudio("out", m, k) \in Seq(Doing(ops))
          /\ \A p \in Marks(SkipAudio("in", m, n), o) : p.op = "skip"
    BY <2>2, SkippedMarks
  <2>4. SI = SkipAudio("in", m, n) /\ SO = SkipAudio("out", m, k)
    BY DEF SI, SO, n, k
  <2> QED
    BY <2>1, <2>3, <2>4
<1>13. \A ops : Doing(ops) \subseteq AnyStep
  BY DEF Doing
<1>14. /\ WI \in Seq(AnyStep) /\ WO \in Seq(AnyStep) /\ MI \in Seq(AnyStep) /\ MO \in Seq(AnyStep)
       /\ SI \in Seq(AnyStep) /\ SO \in Seq(AnyStep) /\ RO \in Seq(AnyStep)
  BY <1>8, <1>9, <1>10, <1>11, <1>12, <1>13, SeqWithin
<1>15. ASSUME NEW ops, NEW a \in Seq(Doing(ops)), NEW b \in Seq(Doing(ops))
       PROVE  a \o b \in Seq(Doing(ops))
  <2> DEFINE T == Doing(ops)
  <2> HIDE DEF T
  <2>1. a \in Seq(T) /\ b \in Seq(T)
    BY DEF T
  <2>2. a \o b \in Seq(T)
    BY <2>1, ConcatProperties
  <2> QED
    BY <2>2 DEF T
<1>16. /\ WriteRequest(m) \in Seq(Doing(puts)) /\ MapRequest(m) \in Seq(Doing(maps))
       /\ WriteResponse(m) \in Seq(Doing(skips)) /\ ReadResponse(m) \in Seq(Doing(reads))
  BY <1>2, <1>8, <1>9, <1>10, <1>11, <1>12, <1>15
<1>17. Kinds(m)
  <2>1. /\ Doing(maps) \subseteq Doing({"read", "map", "skip"})
        /\ Doing(skips) \subseteq Doing({"read", "write", "skip"})
    BY DEF Doing, maps, skips
  <2>2. MapRequest(m) \in Seq(Doing({"read", "map", "skip"}))
    BY <1>16, <2>1, SeqWithin
  <2>3. WriteResponse(m) \in Seq(Doing({"read", "write", "skip"}))
    BY <1>16, <2>1, SeqWithin
  <2> QED
    BY <1>16, <2>2, <2>3 DEF Kinds, puts, reads
\* The marks of each cursor.
<1>18. /\ Marks(WriteRequest(m), o) = Marks(WI, o) \cup Marks(WO, x)
       /\ Marks(MapRequest(m), o) = Marks(MI, o) \cup Marks(MO, x)
       /\ Marks(ReadResponse(m), o) = Marks(SI, o) \cup Marks(RO, x)
  <2>1. Marks(WI \o WO, o) = Marks(WI, o) \cup Marks(WO, o + Total(WI, o))
    BY <1>1, <1>14, MarksConcat
  <2>2. Marks(MI \o MO, o) = Marks(MI, o) \cup Marks(MO, o + Total(MI, o))
    BY <1>1, <1>14, MarksConcat
  <2>3. Marks(SI \o RO, o) = Marks(SI, o) \cup Marks(RO, o + Total(SI, o))
    BY <1>1, <1>14, MarksConcat
  <2> QED
    BY <1>2, <1>5, <2>1, <2>2, <2>3
<1>19. \A op, f, i : /\ Table(op, f).op = op /\ Table(op, f).field = F(f)
                     /\ Table(op, f).lo = base_(f) /\ Table(op, f).size = PtrSize * count(f)
                     /\ Chan(op, f, i).op = op /\ Chan(op, f, i).field = FI(f, i)
                     /\ Chan(op, f, i).lo = ChannelAt(base_(f), z, count(f), i) /\ Chan(op, f, i).size = z
  BY AtParts DEF Table, Chan
<1>20. \A p : p \in Marks(MapRequest(m), o) <=>
         \E f \in AudioNames : p = Table("map", f) \/ \E i \in 1 .. count(f) : p = Chan("map", f, i)
  BY <1>9, <1>18 DEF AudioNames
<1>21. /\ \A f \in AudioNames : Table("skip", f) \in Marks(WriteRequest(m), o)
       /\ \A f \in AudioNames : sent(f) => \A i \in 1 .. count(f) : Chan("write", f, i) \in Marks(WriteRequest(m), o)
       /\ \A p \in Marks(WriteRequest(m), o) : p.op = "write" =>
            \E f \in AudioNames : sent(f) /\ \E i \in 1 .. count(f) : p = Chan("write", f, i)
  <2>1. Table("skip", "in").op # "write"
    BY <1>19
  <2> QED
    BY <1>8, <1>11, <1>18, <2>1 DEF AudioNames
<1>22. \A p \in Marks(ReadResponse(m), o) : p.op = "read" => \E i \in 1 .. count("out") : p = Chan("read", "out", i)
  <2>1. Table("skip", "out").op # "read"
    BY <1>19
  <2> QED
    BY <1>10, <1>12, <1>18, <2>1
<1>23. \A p \in Marks(WriteResponse(m), o) : p.op = "skip"
  <2>1. \A p \in Marks(WriteResponse(m), o) : p.op \in skips
    BY <1>1, <1>16, MarksDo
  <2> QED
    BY <2>1 DEF skips
\* Names.
<1>24. ASSUME NEW f \in AudioNames, NEW i \in 1 .. count(f)
       PROVE  /\ FI(f, i)[1] = f /\ FI(f, i)[2] = i /\ i > 0 /\ FI(f, i) \in Numbered
              /\ FI(f, i) # F("size") /\ \A g : FI(f, i) # F(g)
  <2>1. i \in Nat /\ i > 0
    BY <1>6
  <2>2. FI(f, i) \in Numbered
    BY <2>1 DEF FI, Numbered, AudioNames
  <2> QED
    BY <2>1, <2>2, FieldParts
<1>25. RequestFound(m, o)
  <2> SUFFICES ASSUME NEW y \in Marks(MapRequest(m), o)
               PROVE  /\ y.field \in Fields(WriteRequest(m), {"write"}) =>
                           \E q \in Marks(WriteRequest(m), o) : q.op = "write" /\ Alike(y, q)
                      /\ ~(y.field[1] \in {"header", "event"})
    BY DEF RequestFound
  <2>1. PICK f \in AudioNames : y = Table("map", f) \/ \E i \in 1 .. count(f) : y = Chan("map", f, i)
    BY <1>20
  <2>2. ~(y.field[1] \in {"header", "event"})
    BY <1>19, <2>1, FieldParts DEF AudioNames
  <2>3. ASSUME y.field \in Fields(WriteRequest(m), {"write"})
        PROVE  \E q \in Marks(WriteRequest(m), o) : q.op = "write" /\ Alike(y, q)
    <3>1. WriteRequest(m) \in Seq(AnyStep)
      BY <1>13, <1>16, SeqWithin
    <3>2. \E q \in Marks(WriteRequest(m), o) : q.op \in {"write"} /\ q.field = y.field
      BY <1>1, <2>3, <3>1, FieldsMarked
    <3>3. PICK g \in AudioNames : sent(g) /\ \E j \in 1 .. count(g) : y.field = FI(g, j)
      BY <1>19, <1>21, <3>2
    <3>4. y # Table("map", f)
      BY <1>19, <1>24, <3>3
    <3>5. PICK i \in 1 .. count(f) : y = Chan("map", f, i)
      BY <2>1, <3>4
    <3>6. sent(f)
      BY <1>19, <1>24, <3>3, <3>5
    <3>7. Chan("write", f, i) \in Marks(WriteRequest(m), o)
      BY <1>21, <3>6
    <3>8. Chan("write", f, i).op = "write" /\ Alike(y, Chan("write", f, i))
      BY <1>19, <3>5 DEF Alike
    <3> QED
      BY <3>7, <3>8
  <2> QED
    BY <2>2, <2>3
<1>26. LengthsFound(m, o)
  <2>1. \A y \in Marks(MapRequest(m), o) : y.op # "read"
    BY <1>19, <1>20
  <2>2. \A y \in Marks(ReadResponse(m), o) : y.op = "read" => y.field # F("size")
    BY <1>1, <1>19, <1>22, <1>24
  <2> QED
    BY <1>23, <2>1, <2>2 DEF LengthsFound
<1>27. ResultsFound(m, o)
  <2>1. ASSUME NEW f \in Outputs(m)
        PROVE  \E y \in Marks(MapRequest(m), o) : y.op = "map" /\ y.field = f
    <3>1. PICK i \in 1 .. count("out") : f = FI("out", i)
      BY <1>4, <1>6
    <3>2. Chan("map", "out", i) \in Marks(MapRequest(m), o)
      BY <1>1, <1>20
    <3> QED
      BY <1>19, <3>1, <3>2
  <2>2. ASSUME NEW r \in Marks(ReadResponse(m), o), r.op = "read"
        PROVE  /\ r.field \in Outputs(m)
               /\ \A y \in Marks(MapRequest(m), o) : y.field = r.field => Alike(r, y)
    <3>1. PICK i \in 1 .. count("out") : r = Chan("read", "out", i)
      BY <1>22, <2>2
    <3>2. r.field = FI("out", i)
      BY <1>19, <3>1
    <3>3. r.field \in Outputs(m)
      BY <1>4, <1>6, <3>2
    <3>4. ASSUME NEW y \in Marks(MapRequest(m), o), y.field = r.field
          PROVE  Alike(r, y)
      <4>1. PICK f \in AudioNames : y = Table("map", f) \/ \E j \in 1 .. count(f) : y = Chan("map", f, j)
        BY <1>20
      <4>2. y # Table("map", f)
        BY <1>1, <1>19, <1>24, <3>2, <3>4
      <4>3. PICK j \in 1 .. count(f) : y = Chan("map", f, j)
        BY <4>1, <4>2
      <4>4. f = "out" /\ j = i
        BY <1>1, <1>19, <1>24, <3>2, <3>4, <4>3
      <4> QED
        BY <1>19, <3>1, <4>3, <4>4 DEF Alike
    <3> QED
      BY <3>3, <3>4
  <2> QED
    BY <1>23, <2>1, <2>2 DEF ResultsFound
<1>28. RectsRead(m, o)
  BY <1>1 DEF RectsRead
<1>29. RoomForPointers(m, o)
  <2> DEFINE looked == {y \in Marks(MapRequest(m), o) : y.op = "map"}
             Place(f, i) == [lo |-> base_(f) + PtrSize * (i - 1), hi |-> base_(f) + PtrSize * (i - 1) + PtrSize]
  <2>1. ASSUME NEW f \in AudioNames, NEW i \in 1 .. count(f)
        PROVE  /\ Home(FI(f, i)) = F(f) /\ SlotIn(Table("map", f), FI(f, i)) = Place(f, i)
               /\ Place(f, i).lo \in Nat /\ Place(f, i).hi \in Nat
               /\ Place(f, i).lo = base_(f) + PtrSize * (i - 1)
               /\ Place(f, i).hi = base_(f) + PtrSize * (i - 1) + PtrSize
               /\ Place(f, i).hi <= base_(f) + PtrSize * count(f)
               /\ \A op : Within(Place(f, i), Span(Table(op, f)))
               /\ Place(f, i).hi <= Chan("map", f, i).lo
    <3>1. FI(f, i)[1] = f /\ FI(f, i)[2] = i /\ f # "event"
      BY <1>24 DEF AudioNames
    <3>2. Home(FI(f, i)) = F(f) /\ Shift(FI(f, i)) = PtrSize * (i - 1) + 0
      BY <3>1 DEF Home, Shift
    <3>3. base_(f) \in Nat /\ count(f) \in Nat
      BY <1>6
    <3>4. Shift(FI(f, i)) = PtrSize * (i - 1)
      BY <3>2, <3>3 DEF PtrSize
    <3>5. SlotIn(Table("map", f), FI(f, i)) = Place(f, i)
      BY <1>19, <3>4 DEF SlotIn
    <3>6. /\ Place(f, i).lo = base_(f) + PtrSize * (i - 1)
          /\ Place(f, i).hi = base_(f) + PtrSize * (i - 1) + PtrSize
      OBVIOUS
    <3> HIDE DEF Place
    <3>7. /\ Place(f, i).lo \in Nat /\ Place(f, i).hi \in Nat
          /\ base_(f) <= Place(f, i).lo /\ Place(f, i).hi <= base_(f) + PtrSize * count(f)
      BY <3>3, <3>6 DEF PtrSize
    <3>8. \A op : Within(Place(f, i), Span(Table(op, f)))
      BY <1>19, <3>7 DEF Within, Span
    <3>9. base_(f) + PtrSize * count(f) <= Chan("map", f, i).lo /\ Chan("map", f, i).lo \in Nat
      <4> DEFINE b == base_(f)
                 n == count(f)
      <4>1. b \in Nat /\ n \in Nat /\ z \in Nat /\ i \in 1 .. n
        BY <1>1, <3>3
      <4>2. Chan("map", f, i).lo = ChannelAt(b, z, n, i)
        BY <1>19
      <4> HIDE DEF b, n
      <4>3. ChannelAt(b, z, n, i) \in Nat /\ b + PtrSize * n <= ChannelAt(b, z, n, i)
        BY <4>1, ChannelAfter
      <4> QED
        BY <4>2, <4>3 DEF b, n
    <3>10. Place(f, i).hi <= Chan("map", f, i).lo
      BY <3>3, <3>7, <3>9 DEF PtrSize
    <3> QED
      BY <3>2, <3>5, <3>6, <3>7, <3>8, <3>10
  <2>2. ASSUME NEW f \in AudioNames, NEW i \in 1 .. count(f), NEW j \in 1 .. count(f), i # j
        PROVE  ~Overlap(Place(f, i), Place(f, j))
    <3>1. base_(f) \in Nat /\ count(f) \in Nat
      BY <1>6
    <3> QED
      BY <2>2, <3>1 DEF Overlap, PtrSize
  <2> HIDE DEF Place
  <2>3. ASSUME NEW y \in looked, HasSlot(y.field)
        PROVE  \E f \in AudioNames : \E i \in 1 .. count(f) : y = Chan("map", f, i)
    <3>1. PICK f \in AudioNames : y = Table("map", f) \/ \E i \in 1 .. count(f) : y = Chan("map", f, i)
      BY <1>20
    <3>2. y # Table("map", f)
      <4>1. ~HasSlot(F(f))
        BY FieldParts DEF HasSlot, AudioNames
      <4> QED
        BY <1>19, <2>3, <4>1
    <3> QED
      BY <3>1, <3>2
  <2>4. ASSUME NEW f \in AudioNames, NEW h \in looked, h.field = F(f)
        PROVE  h = Table("map", f)
    <3>1. PICK g \in AudioNames : h = Table("map", g) \/ \E i \in 1 .. count(g) : h = Chan("map", g, i)
      BY <1>20
    <3>2. ~\E i \in 1 .. count(g) : h = Chan("map", g, i)
      BY <1>19, <1>24, <2>4
    <3>3. F(f)[1] = f /\ F(g)[1] = g
      BY FieldParts
    <3> QED
      BY <1>19, <2>4, <3>1, <3>2, <3>3
  <2>5. \A f \in AudioNames : Table("map", f) \in looked
    BY <1>19, <1>20
  <2>6. WriteRequest(m) \in Seq(AnyStep) /\ MapRequest(m) \in Seq(AnyStep)
    BY <1>13, <1>16, SeqWithin
  <2>7. ASSUME NEW f \in AudioNames, NEW i \in 1 .. count(f),
               NEW v \in Marks(WriteRequest(m), o), v.op = "write"
        PROVE  ~Overlap(Span(v), Place(f, i))
    <3> DEFINE s == Table("skip", f)
    <3>1. s \in Marks(WriteRequest(m), o) /\ s.op = "skip"
      BY <1>19, <1>21
    <3> HIDE DEF s
    <3>2. ~Overlap(Span(v), Span(s))
      BY <1>1, <2>6, <2>7, <3>1, MarksApart
    <3>3. /\ Span(v).lo \in Int /\ Span(v).hi \in Int /\ Span(s).lo \in Int /\ Span(s).hi \in Int
      <4>1. v.lo \in Nat /\ v.size \in Nat
        BY <1>1, <2>6, MarkTypes
      <4>2. s.lo \in Nat /\ s.size \in Nat
        BY <1>1, <2>6, <3>1, MarkTypes
      <4> QED
        BY <4>1, <4>2 DEF Span
    <3>4. Within(Place(f, i), Span(s)) /\ Place(f, i).lo \in Int /\ Place(f, i).hi \in Int
      BY <2>1 DEF s
    <3>5. Within(Span(v), Span(v))
      BY <3>3 DEF Within
    <3> QED
      BY <3>2, <3>3, <3>4, <3>5, WithinApart
  <2>8. ASSUME NEW f \in AudioNames, NEW g \in AudioNames, f # g,
               NEW i \in 1 .. count(f), NEW j \in 1 .. count(g)
        PROVE  ~Overlap(Place(f, i), Place(g, j))
    <3> DEFINE s == Table("map", f)
               t == Table("map", g)
    <3>1. s \in Marks(MapRequest(m), o) /\ t \in Marks(MapRequest(m), o)
      BY <2>5
    <3>2. s # t
      <4>1. F(f)[1] = f /\ F(g)[1] = g
        BY FieldParts
      <4> QED
        BY <1>19, <2>8, <4>1
    <3>3. Within(Place(f, i), Span(s)) /\ Within(Place(g, j), Span(t))
      BY <2>1
    <3>4. /\ Place(f, i).lo \in Int /\ Place(f, i).hi \in Int
          /\ Place(g, j).lo \in Int /\ Place(g, j).hi \in Int
      BY <2>1
    <3> HIDE DEF s, t
    <3>5. ~Overlap(Span(s), Span(t))
      BY <1>1, <2>6, <3>1, <3>2, MarksApart
    <3>6. /\ Span(s).lo \in Int /\ Span(s).hi \in Int /\ Span(t).lo \in Int /\ Span(t).hi \in Int
      <4>1. s.lo \in Nat /\ s.size \in Nat
        BY <1>1, <2>6, <3>1, MarkTypes
      <4>2. t.lo \in Nat /\ t.size \in Nat
        BY <1>1, <2>6, <3>1, MarkTypes
      <4> QED
        BY <4>1, <4>2 DEF Span
    <3> QED
      BY <3>3, <3>4, <3>5, <3>6, WithinApart
  <2> SUFFICES ASSUME NEW y \in looked, HasSlot(y.field)
               PROVE  /\ y.field \in Numbered /\ {h \in looked : h.field = Home(y.field)} # {}
                      /\ \A h \in looked : h.field = Home(y.field) =>
                           /\ h.lo <= SlotIn(h, y.field).lo /\ SlotIn(h, y.field).hi <= y.lo
                           /\ \A v \in Marks(WriteRequest(m), o) :
                                v.op = "write" => ~Overlap(Span(v), SlotIn(h, y.field))
                           /\ \A u \in looked : HasSlot(u.field) /\ u.field # y.field =>
                                \A g \in looked : g.field = Home(u.field) =>
                                  ~Overlap(SlotIn(h, y.field), SlotIn(g, u.field))
    BY DEF RoomForPointers
  <2> HIDE DEF looked
  <2>9. PICK f \in AudioNames : \E i \in 1 .. count(f) : y = Chan("map", f, i)
    BY <2>3
  <2>10. PICK i \in 1 .. count(f) : y = Chan("map", f, i)
    BY <2>9
  <2>11. y.field = FI(f, i) /\ y.field \in Numbered /\ Home(y.field) = F(f)
    BY <1>19, <1>24, <2>1, <2>10
  <2>12. {h \in looked : h.field = Home(y.field)} # {}
    BY <1>19, <2>5, <2>11
  <2>13. ASSUME NEW h \in looked, h.field = Home(y.field)
         PROVE  h = Table("map", f) /\ SlotIn(h, y.field) = Place(f, i)
    BY <2>1, <2>4, <2>11, <2>13
  <2>14. Table("map", f).lo <= Place(f, i).lo /\ Place(f, i).hi <= y.lo
    <3>1. Table("map", f).lo = Span(Table("map", f)).lo
      BY DEF Span
    <3> QED
      BY <2>1, <2>10, <3>1 DEF Within
  <2>15. ASSUME NEW u \in looked, HasSlot(u.field), u.field # y.field,
                NEW g \in looked, g.field = Home(u.field)
         PROVE  ~Overlap(Place(f, i), SlotIn(g, u.field))
    <3>1. PICK e \in AudioNames : \E j \in 1 .. count(e) : u = Chan("map", e, j)
      BY <2>3, <2>15
    <3>2. PICK j \in 1 .. count(e) : u = Chan("map", e, j)
      BY <3>1
    <3>3. u.field = FI(e, j) /\ Home(u.field) = F(e)
      BY <1>19, <2>1, <3>2
    <3>4. SlotIn(g, u.field) = Place(e, j)
      BY <2>1, <2>4, <2>15, <3>3
    <3>5. e # f \/ (e = f /\ i # j)
      BY <2>11, <2>15, <3>3
    <3> QED
      BY <2>2, <2>8, <3>4, <3>5
  <2> QED
    BY <2>7, <2>11, <2>12, <2>13, <2>14, <2>15
<1> QED
  BY <1>17, <1>25, <1>26, <1>27, <1>28, <1>29 DEF Described

------------------------------------------------------------------------------
(* The properties of a transfer *)

\* The cursors agree on strings, wherever they start,
LEMMA StringsDescribed ==
  ASSUME NEW m \in StringPayloads, NEW o \in Nat
  PROVE  Described(m, o)
<1>1. Total(MapRequest(m), o) = Total(WriteRequest(m), o)
  BY StringsAgree DEF Agreed
<1>2. CASE m.kind = "none"
  BY <1>2, NoneDescribed
<1>3. CASE m.kind = "str_null"
  BY <1>1, <1>3, NullDescribed
<1>4. CASE m.kind \in {"str_in", "str_out"}
  <2>1. m.size \in Nat
    BY <1>4 DEF StringPayloads
  <2>2. 1 \in Alignments /\ Settled(1, o)
    BY DEF Alignments, Settled
  <2>3. CASE m.kind = "str_in"
    BY <1>1, <2>1, <2>3, StringDescribed
  <2>4. CASE m.kind = "str_out"
    BY <1>1, <2>1, <2>2, <2>4, DatumDescribed
  <2> QED
    BY <1>4, <2>3, <2>4
<1> QED
  BY <1>2, <1>3, <1>4 DEF StringPayloads

\* and on everything else at multiples of 8.
LEMMA AlignedDescribed ==
  ASSUME NEW m \in AlignedPayloads, NEW o \in Aligned
  PROVE  Described(m, o)
<1>1. o \in Nat /\ Total(MapRequest(m), o) = Total(WriteRequest(m), o)
  BY AlignedAgree DEF Agreed, Aligned
<1>2. CASE m \in StringPayloads
  BY <1>1, <1>2, StringsDescribed
<1>3. CASE m \in [kind : {"inout"}, size : Aligned, align : Alignments]
  <2>1. /\ m.kind = "inout" /\ m.size \in Nat /\ m.align \in Alignments /\ Settled(m.align, o)
    BY <1>3 DEF Aligned, Settled
  <2> QED
    BY <1>1, <2>1, DatumDescribed
<1>4. CASE m \in [kind : {"chunk"}, size : Nat]
  BY <1>1, <1>4, ChunkDescribed
<1>5. CASE m \in [kind : {"rect"}, present : BOOLEAN]
  BY <1>1, <1>5, RectDescribed
<1>6. CASE m \in EventPayloads
  BY <1>1, <1>6, EventsDescribed
<1>7. CASE m \in AudioPayloads
  BY <1>1, <1>7, AudioDescribed
<1>8. /\ [kind : {"none"}] \subseteq StringPayloads
      /\ {p \in [kind : {"str_in"}, size : Nat] : IntSize + p.size \in Aligned} \subseteq StringPayloads
      /\ [kind : {"str_out"}, size : Aligned] \subseteq StringPayloads
  BY DEF StringPayloads, Aligned
<1> QED
  BY <1>2, <1>3, <1>4, <1>5, <1>6, <1>7, <1>8 DEF AlignedPayloads

\* Strings start anywhere; a call with anything else in it starts at a multiple
\* of 8, and everything it passes ends on one.
Layouts == [payload : StringPayloads, base : Nat] \cup [payload : AlignedPayloads, base : Aligned]

\* So every call that passes a payload of Layouts can be made, and the
\* invariant holds of it.
LEMMA LayoutsTransferable ==
  ASSUME Transfers \subseteq Layouts
  PROVE  Transferable
<1> SUFFICES ASSUME NEW c \in Transfers
             PROVE  c = [payload |-> c.payload, base |-> c.base] /\ Described(c.payload, c.base)
  BY DEF Transferable
<1>1. CASE c \in [payload : StringPayloads, base : Nat]
  <2>1. c.payload \in StringPayloads /\ c.base \in Nat /\ c = [payload |-> c.payload, base |-> c.base]
    BY <1>1
  <2> QED
    BY <2>1, StringsDescribed
<1>2. CASE c \in [payload : AlignedPayloads, base : Aligned]
  <2>1. c.payload \in AlignedPayloads /\ c.base \in Aligned /\ c = [payload |-> c.payload, base |-> c.base]
    BY <1>2
  <2> QED
    BY <2>1, AlignedDescribed
<1> QED
  BY <1>1, <1>2 DEF Layouts

LEMMA SpecInvariant ==
  ASSUME Transfers \subseteq Layouts
  PROVE  Spec => []IInv
<1>1. Init => IInv
  BY LayoutsTransferable, InitInvariant
<1>2. IInv /\ [Next]_vars => IInv'
  BY NextInvariant
<1> QED
  BY <1>1, <1>2, PTL DEF Spec

\* Whatever msg::io::buf passes of these payloads, no cursor runs into bytes
\* that are not a field, and what the caller gets are results of the call.
THEOREM TransferTyped ==
  ASSUME Transfers \subseteq Layouts
  PROVE  Spec => []TypeOK
<1>1. IInv => TypeOK
  BY InvariantSuffices
<1> QED
  BY <1>1, SpecInvariant, PTL

\* What write_request has put into the memory is where read_request finds it, and
\* the pointers that the callee stores as it goes damage neither a field nor one
\* another: of strings of any length at any offset, and at multiples of 8 of any
\* number of events and channels, if the system exclusive dumps and the channels
\* are multiples of 8 long.  A dump of another length may send read_request astray.
THEOREM RequestsArrive ==
  ASSUME Transfers \subseteq Layouts
  PROVE  Spec => []RequestArrives
<1>1. IInv => RequestArrives
  BY InvariantSuffices
<1> QED
  BY <1>1, SpecInvariant, PTL

\* Both sides' shm_push are equal when the function is called.
THEOREM PushesMeet ==
  ASSUME Transfers \subseteq Layouts
  PROVE  Spec => []CursorsMeet
<1>1. IInv => CursorsMeet
  BY InvariantSuffices
<1> QED
  BY <1>1, SpecInvariant, PTL

\* The caller's read_response gets every output that the function has stored
\* and everything that write_response has appended.
THEOREM ResultsArrive ==
  ASSUME Transfers \subseteq Layouts
  PROVE  Spec => []ResultArrives
<1>1. IInv => ResultArrives
  BY InvariantSuffices
<1> QED
  BY <1>1, SpecInvariant, PTL
==============================================================================
