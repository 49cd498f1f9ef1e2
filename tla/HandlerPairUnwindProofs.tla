----------------------- MODULE HandlerPairUnwindProofs -----------------------
(***************************************************************************)
(* HandlerPairUnwind for any number of exceptions: a request is still      *)
(* mapped where it was written, and the memory of running functions stays  *)
(* what it was.  The argument is that of a pair without exceptions, told   *)
(* of another stack: the client has not popped what the frames it has left *)
(* had pushed, so its offset is that of the stack on which those frames    *)
(* still lie below the others.                                             *)
(***************************************************************************)
EXTENDS HandlerPairUnwind, HandlerPairProofs

\* The client's calls and those it has lost track of.
Whole == [stack EXCEPT !["client"] = left \o @]

P == INSTANCE HandlerPairProofs WITH stack <- Whole

------------------------------------------------------------------------------
\* What lies on top is typed as the whole is.
LEMMA TopTyped ==
  ASSUME NEW S, NEW T, NEW l \in Seq(S), NEW q \in Seq(T), l \o q \in Seq(S)
  PROVE  q \in Seq(S)
<1> DEFINE U == S \cup T
<1>0. Len(l) \in Nat /\ Len(q) \in Nat /\ q \in [1 .. Len(q) -> T]
  BY LenProperties
<1>1. l \in Seq(U) /\ q \in Seq(U)
  BY SeqMonotonic
<1> HIDE DEF U
<1>2. /\ Len(l \o q) = Len(l) + Len(q)
      /\ \A i \in 1 .. Len(l) + Len(q) : (l \o q)[i] = IF i <= Len(l) THEN l[i] ELSE q[i - Len(l)]
  BY <1>1, ConcatProperties
<1>3. ASSUME NEW i \in 1 .. Len(q)
      PROVE  q[i] \in S
  <2>1. Len(l) + i \in 1 .. Len(l) + Len(q) /\ ~(Len(l) + i <= Len(l)) /\ (Len(l) + i) - Len(l) = i
    BY <1>0
  <2>2. q[i] = (l \o q)[Len(l) + i]
    BY <1>2, <2>1
  <2>3. Len(l) + i \in 1 .. Len(l \o q)
    BY <1>2, <2>1
  <2>4. (l \o q)[Len(l) + i] \in S
    BY <2>3, ElementOfSeq
  <2> QED
    BY <2>2, <2>4
<1>4. q \in [1 .. Len(q) -> S]
  BY <1>0, <1>3
<1> QED
  BY <1>0, <1>4, SeqDef

------------------------------------------------------------------------------
(* The operators do not depend on the stack *)

LEMMA SamePayload ==
  /\ \A m : P!WriteRequest(m) = WriteRequest(m)
  /\ \A m : P!MapRequest(m) = MapRequest(m)
  /\ \A m : P!WriteResponse(m) = WriteResponse(m)
  /\ \A m : P!ReadResponse(m) = ReadResponse(m)
  /\ \A m : P!Outputs(m) = Outputs(m)
<1>1. /\ \A m : P!SizedInArray(m) = SizedInArray(m)
      /\ \A m : P!ShmArray(m) = ShmArray(m)
      /\ \A m : P!ChunkOut(m) = ChunkOut(m)
      /\ \A m : P!RectOut(m) = RectOut(m)
      /\ \A m : P!VstEventsOut(m) = VstEventsOut(m)
      /\ \A m : P!AudioArrays(m) = AudioArrays(m)
  BY DEF
    P!Cursors, Cursors, P!SizedInArray, SizedInArray, P!ShmArray, ShmArray,
    P!ChunkOut, ChunkOut, P!RectOut, RectOut, P!VstEventsOut, VstEventsOut, P!AudioArrays, AudioArrays,
    P!WriteEvents, WriteEvents, P!MapEvents, MapEvents, P!SkipEvents, SkipEvents,
    P!WriteAudio, WriteAudio, P!MapAudio, MapAudio, P!SkipAudio, SkipAudio, P!ReadAudio, ReadAudio,
    P!ForEach, ForEach, P!Step, Step, P!Write, Write, P!Read, Read, P!Skip, Skip, P!MapTo, MapTo,
    P!F, F, P!FI, FI, P!IntSize, IntSize, P!PtrSize, PtrSize, P!EventSize, EventSize,
    P!SysexSize, SysexSize, P!EvHeaderSize, EvHeaderSize, P!RectSize, RectSize, P!FlattenSeq, FlattenSeq
<1>2. P!Cursors(<<>>, <<>>, <<>>, <<>>) = Cursors(<<>>, <<>>, <<>>, <<>>)
  BY DEF P!Cursors, Cursors
<1>3. \A m : P!Payload(m) = Payload(m)
  BY <1>1, <1>2 DEF P!Payload, Payload
<1>4. \A m : P!Outputs(m) = Outputs(m)
  BY DEF P!Outputs, Outputs, P!F, F, P!FI, FI
<1> QED
  BY <1>3, <1>4 DEF P!WriteRequest, WriteRequest, P!MapRequest, MapRequest,
     P!WriteResponse, WriteResponse, P!ReadResponse, ReadResponse

LEMMA SamePlaces ==
  /\ \A steps, o : P!Total(steps, o) = Total(steps, o)
  /\ \A m, o : P!RequestPlaces(m, o) = RequestPlaces(m, o)
  /\ \A m, o : P!ArgumentPlaces(m, o) = ArgumentPlaces(m, o)
  /\ \A m, o : P!OutputPlaces(m, o) = OutputPlaces(m, o)
  /\ \A m, o : P!AnswerPlaces(m, o) = AnswerPlaces(m, o)
  /\ \A m, o : P!ResultPlaces(m, o) = ResultPlaces(m, o)
<1>1. \A c, o : P!StartOf(c, o) = StartOf(c, o)
  BY DEF P!StartOf, StartOf, P!AlignOffset, AlignOffset
<1>2. \A steps, o : P!Cursor(steps, o) = Cursor(steps, o)
  BY <1>1 DEF P!Cursor, Cursor
<1>3. \A steps, o : P!Total(steps, o) = Total(steps, o)
  BY <1>2 DEF P!Total, Total
<1>4. \A steps, o, k : P!FieldAt(steps, o, k) = FieldAt(steps, o, k)
  BY <1>1, <1>2 DEF P!FieldAt, FieldAt
<1>5. \A steps, ops : P!Fields(steps, ops) = Fields(steps, ops)
  BY DEF P!Fields, Fields
<1>6. \A steps, o, ops, fields : P!PlacesOf(steps, o, ops, fields) = PlacesOf(steps, o, ops, fields)
  BY <1>4 DEF P!PlacesOf, PlacesOf
<1>7. P!F("chunk") = F("chunk") /\ P!F("rect") = F("rect")
  BY DEF P!F, F
<1> QED
  BY <1>3, <1>5, <1>6, <1>7, SamePayload DEF P!RequestPlaces, RequestPlaces, P!ArgumentPlaces, ArgumentPlaces,
     P!OutputPlaces, OutputPlaces, P!AnswerPlaces, AnswerPlaces, P!ResultPlaces, ResultPlaces

LEMMA SameMemory ==
  /\ \A m, places, d : P!Put(m, places, d) = Put(m, places, d)
  /\ \A m, places : P!ReadAt(m, places) = ReadAt(m, places)
<1>1. \A m, p : P!At(m, p) = At(m, p)
  BY DEF P!At, At
<1>2. \A e, p : P!Overlap(e, p) <=> Overlap(e, p)
  BY DEF P!Overlap, Overlap
<1> QED
  BY <1>1, <1>2 DEF P!Put, Put, P!ReadAt, ReadAt

LEMMA SameEnds ==
  /\ P!Sides = Sides /\ P!Messages = Messages /\ P!Values = Values
  /\ P!Frame = Frame /\ P!Packet = Packet /\ P!Answerless = Answerless
  /\ \A s : P!Peer(s) = Peer(s)
  /\ \A s : P!CallsOf(s) = CallsOf(s)
  /\ \A s : P!Up(s) <=> Up(s)
  /\ \A s : P!Gone(s) <=> Gone(s)
  /\ \A s : P!InCode(s) <=> InCode(s)
  /\ \A s : P!Incoming(s) = Incoming(s)
  /\ \A s, packet : P!Transmit(s, packet) <=> Transmit(s, packet)
  /\ \A s, n : P!ShmPush(s, n) <=> ShmPush(s, n)
  /\ \A s, n : P!ShmPop(s, n) <=> ShmPop(s, n)
  /\ \A s, type : P!Take(s, type) <=> Take(s, type)
<1>1. /\ P!Sides = Sides /\ P!Answerless = Answerless /\ P!Instantiate = Instantiate
      /\ P!Values = Values
      /\ \A s : P!Peer(s) = Peer(s)
      /\ \A s : P!Up(s) <=> Up(s)
      /\ \A s : P!Incoming(s) = Incoming(s)
      /\ \A s, n : P!ShmPush(s, n) <=> ShmPush(s, n)
      /\ \A s, n : P!ShmPop(s, n) <=> ShmPop(s, n)
  BY DEF P!Sides, Sides, P!Answerless, Answerless, P!Instantiate, Instantiate, P!Values, Values,
     P!Peer, Peer, P!Up, Up, P!Incoming, Incoming, P!ShmPush, ShmPush, P!ShmPop, ShmPop
<1>2. /\ P!Messages = Messages
      /\ \A s : P!CallsOf(s) = CallsOf(s)
      /\ \A s : P!Gone(s) <=> Gone(s)
      /\ \A s : P!InCode(s) <=> InCode(s)
      /\ \A s, type : P!Take(s, type) <=> Take(s, type)
  BY <1>1 DEF P!Messages, Messages, P!CallsOf, CallsOf, P!Gone, Gone, P!InCode, InCode, P!Take, Take
<1>3. P!Frame = Frame /\ P!Packet = Packet
  BY <1>1, <1>2 DEF P!Frame, Frame, P!Packet, Packet
<1>4. \A s, packet : P!Transmit(s, packet) <=> Transmit(s, packet)
  BY <1>1, <1>2 DEF P!Transmit, Transmit
<1> QED
  BY <1>1, <1>2, <1>3, <1>4

LEMMA SameHypotheses ==
  ASSUME NEW R
  PROVE  LayoutsAgree(R) <=> P!LayoutsAgree(R)
BY SameEnds, SamePayload, SamePlaces DEF LayoutsAgree, P!LayoutsAgree

LEMMA SamePlacesAgree ==
  ASSUME NEW R
  PROVE  PlacesAgree(R) <=> P!PlacesAgree(R)
<1>1. \A e, p : P!Overlap(e, p) <=> Overlap(e, p)
  BY DEF P!Overlap, Overlap
<1>2. /\ \A a, b : P!Apart(a, b) <=> Apart(a, b)
      /\ \A a, lo, hi : P!Inside(a, lo, hi) <=> Inside(a, lo, hi)
  BY <1>1 DEF P!Apart, Apart, P!Inside, Inside
<1> QED
  BY <1>2, SameEnds, SamePayload, SamePlaces DEF PlacesAgree, P!PlacesAgree

LEMMA SameStack ==
  ASSUME NEW R, NEW q
  PROVE  P!Well(R, q) <=> Well(R, q)
<1>1. P!Alternating(q) <=> Alternating(q)
  BY DEF P!Alternating, Alternating
<1>2. P!Sized(q) <=> Sized(q)
  BY SamePayload, SamePlaces DEF P!Sized, Sized
<1>3. P!Stacked(q) <=> Stacked(q)
  BY DEF P!Stacked, Stacked
<1> QED
  BY <1>1, <1>2, <1>3, SameEnds DEF P!Well, Well

LEMMA SameSafety ==
  ASSUME NEW m
  PROVE  /\ P!Sound(m) <=> Sound(m)
         /\ \A q : P!Safe(m, q) <=> Safe(m, q)
<1>1. \A places, d : P!Holds(m, places, d) <=> Holds(m, places, d)
  BY DEF P!Holds, Holds
<1>2. \A f : P!Kept(m, f) <=> Kept(m, f)
  BY <1>1, SamePlaces DEF P!Kept, Kept
<1> QED
  BY <1>2 DEF P!Sound, Sound, P!Safe, Safe

------------------------------------------------------------------------------
(* What an end does on its stack it does on the whole *)

Joined == stack \in [Sides -> Seq(Frame)] /\ left \in Seq(Frame)

Lost(s) == IF s = "client" THEN left ELSE <<>>

LEMMA WholeIs ==
  ASSUME Joined
  PROVE  /\ DOMAIN Whole = Sides
         /\ \A s \in Sides : Lost(s) \in Seq(Frame) /\ Whole[s] = Lost(s) \o stack[s]
<1>1. <<>> \in Seq(Frame)
  BY EmptySeq
<1>2. stack["server"] = <<>> \o stack["server"]
  BY ConcatEmptySeq DEF Joined, Sides
<1> QED
  BY <1>1, <1>2 DEF Joined, Whole, Lost, Sides

LEMMA OnWhole ==
  ASSUME Joined, NEW s \in Sides, NEW f
  PROVE  /\ Append(Whole[s], f) = Lost(s) \o Append(stack[s], f)
         /\ stack[s] # <<>> =>
              /\ Whole[s] # <<>> /\ Last(Whole[s]) = Last(stack[s])
              /\ Front(Whole[s]) = Lost(s) \o Front(stack[s])
              /\ Append(Front(Whole[s]), f) = Lost(s) \o Append(Front(stack[s]), f)
<1> DEFINE l == Lost(s)
           q == stack[s]
<1>a. l \in Seq(Frame) /\ q \in Seq(Frame) /\ Whole[s] = l \o q
  BY WholeIs DEF Joined
<1> HIDE DEF l, q
<1> DEFINE T == Frame \cup {f}
<1>1. l \in Seq(T) /\ q \in Seq(T) /\ f \in T
  BY <1>a, SeqMonotonic
<1> HIDE DEF T
<1>2. /\ Len(l) \in Nat /\ Len(q) \in Nat
      /\ l \o q \in Seq(T) /\ Len(l \o q) = Len(l) + Len(q)
      /\ \A i \in 1 .. Len(l) + Len(q) : (l \o q)[i] = IF i <= Len(l) THEN l[i] ELSE q[i - Len(l)]
  BY <1>1, ConcatProperties, LenProperties
<1>3. ASSUME NEW r \in Seq(T)
      PROVE  Append(l \o r, f) = l \o Append(r, f)
  <2>1. /\ <<f>> \in Seq(T) /\ Append(l \o r, f) = (l \o r) \o <<f>>
        /\ Append(r, f) = r \o <<f>>
    BY <1>1, <1>3, ConcatProperties, AppendIsConcat
  <2> QED
    BY <1>1, <1>3, <2>1, ConcatAssociative
<1>4. l \o q = <<>> <=> l = <<>> /\ q = <<>>
  BY <1>1, ConcatEqualIffEmpty
<1>6. ASSUME q # <<>>
      PROVE  /\ Last(l \o q) = Last(q)
             /\ Front(l \o q) = l \o Front(q)
             /\ Front(q) \in Seq(T)
  <2>1. /\ Len(q) >= 1 /\ Last(q) = q[Len(q)]
        /\ Front(q) \in Seq(T) /\ Len(Front(q)) = Len(q) - 1
        /\ \A i \in 1 .. Len(q) - 1 : Front(q)[i] = q[i]
    BY <1>1, <1>6, FrontProperties
  <2>2. l \o q # <<>>
    BY <1>4, <1>6
  <2>3. /\ Last(l \o q) = (l \o q)[Len(l \o q)]
        /\ Front(l \o q) \in Seq(T) /\ Len(Front(l \o q)) = Len(l \o q) - 1
        /\ \A i \in 1 .. Len(l \o q) - 1 : Front(l \o q)[i] = (l \o q)[i]
    BY <1>2, <2>2, FrontProperties
  <2>4. Last(l \o q) = Last(q)
    <3>1. /\ Len(l) + Len(q) \in 1 .. Len(l) + Len(q) /\ ~(Len(l) + Len(q) <= Len(l))
          /\ (Len(l) + Len(q)) - Len(l) = Len(q)
      BY <1>2, <2>1
    <3>2. (l \o q)[Len(l) + Len(q)] = q[Len(q)]
      BY <1>2, <3>1
    <3> QED
      BY <1>2, <2>1, <2>3, <3>2
  <2> DEFINE w == l \o q
             p == Front(q)
             u == l \o p
             v == Front(w)
             n == Len(l) + Len(p)
  <2>5. /\ u \in Seq(T) /\ Len(u) = n
        /\ \A i \in 1 .. n : u[i] = IF i <= Len(l) THEN l[i] ELSE p[i - Len(l)]
    <3> HIDE DEF p
    <3>1. p \in Seq(T)
      BY <2>1 DEF p
    <3> QED
      BY <1>1, <3>1, ConcatProperties
  <2>6. /\ n = Len(l) + Len(q) - 1 /\ n \in Nat /\ Len(w) = Len(l) + Len(q)
        /\ v \in Seq(T) /\ Len(v) = n
        /\ \A i \in 1 .. n : v[i] = w[i]
        /\ \A i \in 1 .. n : w[i] = IF i <= Len(l) THEN l[i] ELSE q[i - Len(l)]
        /\ \A i \in 1 .. n : i <= Len(l) \/ i - Len(l) \in 1 .. Len(q) - 1
        /\ \A i \in 1 .. Len(q) - 1 : p[i] = q[i]
    <3>1. /\ n = Len(l) + Len(q) - 1 /\ n \in Nat /\ Len(w) = n + 1 /\ Len(w) - 1 = n
          /\ Len(w) = Len(l) + Len(q)
      BY <1>2, <2>1
    <3>2. /\ \A i \in 1 .. n : i \in 1 .. Len(l) + Len(q)
          /\ \A i \in 1 .. n : i <= Len(l) \/ i - Len(l) \in 1 .. Len(q) - 1
      BY <1>2, <3>1
    <3> HIDE DEF n, p, v
    <3>3. Len(v) = n /\ \A i \in 1 .. n : v[i] = w[i]
      BY <2>3, <3>1 DEF v
    <3> QED
      BY <1>2, <2>1, <2>3, <3>1, <3>2, <3>3 DEF p, v
  <2> HIDE DEF w, p, u, v, n
  <2>7. \A i \in 1 .. n : v[i] = u[i]
    BY <2>5, <2>6
  <2>8. v = u
    BY <2>5, <2>6, <2>7, SeqEqual
  <2> QED
    BY <2>1, <2>4, <2>8 DEF u, v, w, p
<1>7. q # <<>> => Append(Front(l \o q), f) = l \o Append(Front(q), f)
  BY <1>3, <1>6
<1> QED
  BY <1>a, <1>1, <1>3, <1>4, <1>6, <1>7 DEF l, q

\* The stack of s becomes r.
Becomes(s, r) == left' = left /\ stack' = [stack EXCEPT ![s] = r]

LEMMA WholeNext ==
  ASSUME Joined, NEW s \in Sides, NEW T, NEW r \in Seq(T), Becomes(s, r)
  PROVE  Whole' = [Whole EXCEPT ![s] = Lost(s) \o r]
<1>0. left' = left /\ stack' = [stack EXCEPT ![s] = r]
  BY DEF Becomes
<1>1. r = <<>> \o r
  BY ConcatEmptySeq
<1>2. CASE s = "client"
  <2>1. Whole' = [stack EXCEPT !["client"] = left \o r]
    BY <1>0, <1>2 DEF Joined, Whole, Sides
  <2> QED
    BY <1>2, <2>1 DEF Joined, Whole, Lost, Sides
<1>3. CASE s = "server"
  <2>1. /\ stack'["client"] = stack["client"] /\ stack'["server"] = r
        /\ stack' \in [Sides -> {stack["client"], r}]
    BY <1>0, <1>3 DEF Joined, Sides
  <2>2. /\ Whole'["client"] = Whole["client"] /\ Whole'["server"] = r
        /\ DOMAIN Whole' = Sides
    BY <1>0, <2>1 DEF Joined, Whole, Sides
  <2>3. Whole' = [x \in Sides |-> Whole'[x]]
    BY <1>0, <2>1 DEF Whole
  <2>4. Whole = [x \in Sides |-> Whole[x]]
    BY DEF Joined, Whole
  <2> QED
    BY <1>1, <1>3, <2>2, <2>3, <2>4 DEF Lost, Sides
<1> QED
  BY <1>2, <1>3 DEF Sides

LEMMA WholeSame ==
  ASSUME stack' = stack, left' = left
  PROVE  Whole' = Whole
BY DEF Whole

LEMMA TypedAgain ==
  ASSUME Joined, NEW s \in Sides, NEW T, NEW r \in Seq(T), Becomes(s, r),
         Whole' \in [Sides -> Seq(Frame)]
  PROVE  Joined'
<1>1. Lost(s) \in Seq(Frame) /\ DOMAIN Whole = Sides
  BY WholeIs
<1>2. Lost(s) \o r \in Seq(Frame)
  <2>1. Whole' = [Whole EXCEPT ![s] = Lost(s) \o r]
    BY WholeNext
  <2>2. Whole'[s] = Lost(s) \o r /\ Whole'[s] \in Seq(Frame)
    BY <1>1, <2>1
  <2> QED
    BY <2>2
<1>3. r \in Seq(Frame)
  BY <1>1, <1>2, TopTyped
<1> QED
  BY <1>3 DEF Joined, Becomes

LEMMA SendIsSend ==
  ASSUME Joined, left' = left, NEW s \in Sides, NEW m, NEW d, SendMessage(s, m, d)
  PROVE  /\ P!SendMessage(s, m, d)
         /\ Whole' \in [Sides -> Seq(Frame)] => Joined'
<1> DEFINE off  == offset[s]
           size == Total(WriteRequest(m), off)
           f == [role |-> "call", msg |-> m, off |-> off, size |-> size,
                 arg |-> d, seen |-> {}, res |-> None]
           r == Append(stack[s], f)
           T == Frame \cup {f}
<1>1. Becomes(s, r)
  BY DEF Becomes, SendMessage
<1>2. /\ stack[s] \in Seq(Frame) /\ Lost(s) \in Seq(Frame) /\ DOMAIN Whole = Sides
      /\ Whole[s] = Lost(s) \o stack[s]
  BY WholeIs DEF Joined
<1>3. r \in Seq(T)
  <2>1. stack[s] \in Seq(T) /\ f \in T
    BY <1>2, SeqMonotonic
  <2> HIDE DEF f, T
  <2> QED
    BY <2>1, AppendProperties
<1>4. Whole' = [Whole EXCEPT ![s] = Append(@, f)]
  <2> HIDE DEF f
  <2>1. Append(Whole[s], f) = Lost(s) \o r
    BY OnWhole
  <2> HIDE DEF r, T
  <2> QED
    BY <1>1, <1>2, <1>3, <2>1, WholeNext
<1>5. Whole' \in [Sides -> Seq(Frame)] => Joined'
  <2> HIDE DEF r, T
  <2> QED
    BY <1>1, <1>3, TypedAgain
<1>6. f = [role |-> "call", msg |-> m, off |-> offset[s],
           size |-> P!Total(P!WriteRequest(m), offset[s]), arg |-> d, seen |-> {}, res |-> None]
  BY SamePlaces, SamePayload
<1>7. /\ P!InCode(s)
      /\ mem' = P!Put(mem, P!RequestPlaces(m, off), d)
      /\ P!ShmPush(s, P!Total(P!WriteRequest(m), off))
      /\ P!Transmit(s, [type |-> "request", msg |-> m, arg |-> d])
      /\ pc' = [pc EXCEPT ![s] = "receive"]
      /\ got' = {} /\ primary' = primary /\ created' = created
  BY SamePlaces, SamePayload, SameMemory, SameEnds DEF SendMessage
<1> HIDE DEF f
<1> QED
  BY <1>4, <1>5, <1>6, <1>7 DEF P!SendMessage

LEMMA ReceiveIsReceive ==
  ASSUME Joined, left' = left, NEW s \in Sides, Receive(s)
  PROVE  /\ P!Receive(s)
         /\ Whole' \in [Sides -> Seq(Frame)] => Joined'
<1> DEFINE off  == offset[s]
           m == Incoming(s).msg
           size == Total(MapRequest(m), off)
           f == [role |-> "proc", msg |-> m, off |-> off, size |-> size,
                 arg |-> Incoming(s).arg,
                 seen |-> {Incoming(s).arg} \cup ReadAt(mem, ArgumentPlaces(m, off)),
                 res |-> None]
           r == Append(stack[s], f)
           T == Frame \cup {f}
<1>1. Becomes(s, r)
  BY DEF Becomes, Receive
<1>2. /\ stack[s] \in Seq(Frame) /\ Lost(s) \in Seq(Frame) /\ DOMAIN Whole = Sides
      /\ Whole[s] = Lost(s) \o stack[s]
  BY WholeIs DEF Joined
<1>3. r \in Seq(T)
  <2>1. stack[s] \in Seq(T) /\ f \in T
    BY <1>2, SeqMonotonic
  <2> HIDE DEF f, T
  <2> QED
    BY <2>1, AppendProperties
<1>4. Whole' = [Whole EXCEPT ![s] = Append(@, f)]
  <2> HIDE DEF f
  <2>1. Append(Whole[s], f) = Lost(s) \o r
    BY OnWhole
  <2> HIDE DEF r, T
  <2> QED
    BY <1>1, <1>2, <1>3, <2>1, WholeNext
<1>5. Whole' \in [Sides -> Seq(Frame)] => Joined'
  <2> HIDE DEF r, T
  <2> QED
    BY <1>1, <1>3, TypedAgain
<1>6. f = [role |-> "proc", msg |-> P!Incoming(s).msg, off |-> offset[s],
           size |-> P!Total(P!MapRequest(P!Incoming(s).msg), offset[s]),
           arg |-> P!Incoming(s).arg,
           seen |-> {P!Incoming(s).arg} \cup P!ReadAt(mem, P!ArgumentPlaces(P!Incoming(s).msg, offset[s])),
           res |-> None]
  BY SamePlaces, SamePayload, SameMemory, SameEnds
<1>7. /\ P!Take(s, "request")
      /\ P!ShmPush(s, P!Total(P!MapRequest(P!Incoming(s).msg), offset[s]))
      /\ pc' = [pc EXCEPT ![s] = "code"]
      /\ got' = {} /\ mem' = mem /\ created' = created
  BY SamePlaces, SamePayload, SameEnds DEF Receive
<1> HIDE DEF f
<1> QED
  BY <1>4, <1>5, <1>6, <1>7 DEF P!Receive

LEMMA DecideIsDecide ==
  ASSUME Joined, left' = left, NEW s \in Sides, NEW d, Decide(s, d)
  PROVE  /\ P!Decide(s, d)
         /\ Whole' \in [Sides -> Seq(Frame)] => Joined'
<1> DEFINE q == stack[s]
           f == [Last(q) EXCEPT !.res = d]
           r == Append(Front(q), f)
           T == Frame \cup {f}
<1>1. Becomes(s, r) /\ q # <<>>
  BY DEF Becomes, Decide, Called
<1>2. /\ q \in Seq(Frame) /\ Lost(s) \in Seq(Frame) /\ DOMAIN Whole = Sides
      /\ Whole[s] = Lost(s) \o q
  BY WholeIs DEF Joined
<1>3. r \in Seq(T)
  <2>1. Front(q) \in Seq(Frame)
    BY <1>1, <1>2, FrontProperties
  <2>2. Front(q) \in Seq(T) /\ f \in T
    BY <2>1, SeqMonotonic
  <2> HIDE DEF f, T, q
  <2> QED
    BY <2>2, AppendProperties
<1>4. Last(Whole[s]) = Last(q) /\ Whole[s] # <<>>
  BY <1>1, OnWhole
<1>5. Whole' = [Whole EXCEPT ![s] = Append(Front(@), [Last(@) EXCEPT !.res = d])]
  <2>1. Append(Front(Whole[s]), f) = Lost(s) \o r
    <3> HIDE DEF f
    <3> QED
      BY <1>1, OnWhole
  <2>2. f = [Last(Whole[s]) EXCEPT !.res = d]
    BY <1>4
  <2> HIDE DEF r, T, f
  <2> QED
    BY <1>1, <1>2, <1>3, <2>1, <2>2, WholeNext
<1>6. Whole' \in [Sides -> Seq(Frame)] => Joined'
  <2> HIDE DEF r, T
  <2> QED
    BY <1>1, <1>3, TypedAgain
<1>7. P!Last(Whole[s]) = Last(Whole[s]) /\ P!Front(Whole[s]) = Front(Whole[s])
  BY DEF P!Last, Last, P!Front, Front
<1>8. /\ P!InCode(s) /\ P!Top(s) = Top(s) /\ Top(s).res = None
      /\ mem' = P!Put(mem, P!OutputPlaces(Top(s).msg, Top(s).off), d)
      /\ got' = {} /\ primary' = primary /\ created' = created /\ pc' = pc
      /\ health' = health /\ pipe' = pipe /\ offset' = offset
  BY <1>4, <1>7, SamePlaces, SameMemory, SameEnds DEF Decide, Called, Top, P!Top
<1> QED
  BY <1>4, <1>5, <1>6, <1>7, <1>8 DEF P!Decide, P!Called

LEMMA ReplyIsReply ==
  ASSUME Joined, left' = left, NEW s \in Sides, Reply(s)
  PROVE  /\ P!Reply(s)
         /\ Whole' \in [Sides -> Seq(Frame)] => Joined'
<1> DEFINE q == stack[s]
<1>1. /\ q # <<>>
      /\ Gone(Peer(s)) => stack' = stack /\ got' = got
      /\ ~Gone(Peer(s)) => Becomes(s, Front(q)) /\ got' = {}
  BY DEF Becomes, Reply, Called, Pop
<1>2. /\ q \in Seq(Frame) /\ Lost(s) \in Seq(Frame) /\ DOMAIN Whole = Sides
      /\ Whole[s] = Lost(s) \o q
  BY WholeIs DEF Joined
<1>3. Front(q) \in Seq(Frame)
  BY <1>1, <1>2, FrontProperties
<1>4. Last(Whole[s]) = Last(q) /\ Whole[s] # <<>> /\ Front(Whole[s]) = Lost(s) \o Front(q)
  BY <1>1, OnWhole
<1> HIDE DEF q
<1>5. ~Gone(Peer(s)) => Whole' = [Whole EXCEPT ![s] = Front(@)]
  BY <1>1, <1>2, <1>3, <1>4, WholeNext
<1>6. Gone(Peer(s)) => Whole' = Whole
  BY <1>1, WholeSame
<1>7. Joined'
  BY <1>1, <1>3 DEF Joined, Becomes
<1>8. P!Last(Whole[s]) = Last(Whole[s]) /\ P!Front(Whole[s]) = Front(Whole[s])
  BY DEF P!Last, Last, P!Front, Front
<1>9. /\ P!InCode(s) /\ P!Top(s) = Top(s) /\ Top(s).res # None
      /\ mem' = P!Put(mem, P!AnswerPlaces(Top(s).msg, Top(s).off), Top(s).res)
      /\ P!ShmPop(s, Top(s).size)
      /\ P!Transmit(s, [type |-> "return", res |-> Top(s).res])
      /\ P!Gone(P!Peer(s)) <=> Gone(Peer(s))
      /\ primary' = primary /\ created' = created /\ pc' = [pc EXCEPT ![s] = "receive"]
  BY <1>4, <1>8, SamePlaces, SameMemory, SameEnds DEF Reply, Called, Top, P!Top, q
<1> QED
  BY <1>1, <1>4, <1>5, <1>6, <1>7, <1>8, <1>9 DEF P!Reply, P!Called, P!Pop

LEMMA ReturnIsReturn ==
  ASSUME Joined, left' = left, NEW s \in Sides, Return(s)
  PROVE  /\ P!Return(s)
         /\ Whole' \in [Sides -> Seq(Frame)] => Joined'
<1> DEFINE q == stack[s]
<1>1. /\ q # <<>>
      /\ Becomes(s, Front(q))
  BY DEF Becomes, Return, Pop
<1>2. /\ q \in Seq(Frame) /\ Lost(s) \in Seq(Frame) /\ DOMAIN Whole = Sides
      /\ Whole[s] = Lost(s) \o q
  BY WholeIs DEF Joined
<1>3. Front(q) \in Seq(Frame)
  BY <1>1, <1>2, FrontProperties
<1>4. Last(Whole[s]) = Last(q) /\ Whole[s] # <<>> /\ Front(Whole[s]) = Lost(s) \o Front(q)
  BY <1>1, OnWhole
<1> HIDE DEF q
<1>5. Whole' = [Whole EXCEPT ![s] = Front(@)]
  BY <1>1, <1>2, <1>3, <1>4, WholeNext
<1>6. Joined'
  BY <1>1, <1>3 DEF Joined, Becomes
<1>7. P!Last(Whole[s]) = Last(Whole[s]) /\ P!Front(Whole[s]) = Front(Whole[s])
  BY DEF P!Last, Last, P!Front, Front
<1>8. P!Top(s) = Top(s)
  BY <1>4, <1>7 DEF Top, P!Top, q
<1>9. /\ P!Take(s, "return")
      /\ got' = {P!Incoming(s).res} \cup P!ReadAt(mem, P!ResultPlaces(P!Top(s).msg, P!AnswerAt(s)))
      /\ mem' = {e \in mem : e.hi <= P!Top(s).off}
      /\ P!ShmPop(s, P!Top(s).size)
      /\ pc' = [pc EXCEPT ![s] = "code"] /\ created' = created
  BY <1>8, SamePlaces, SameMemory, SameEnds DEF Return, AnswerAt, P!AnswerAt
<1> QED
  BY <1>4, <1>5, <1>6, <1>7, <1>9 DEF P!Return, P!Pop

LEMMA FailureIsFailure ==
  ASSUME left' = left, NEW s \in Sides, ReadEof(s) \/ Crash(s)
  PROVE  (P!ReadEof(s) \/ P!Crash(s)) /\ (Joined => Joined')
<1>1. stack' = stack
  BY DEF ReadEof, Crash
<1> QED
  BY <1>1, WholeSame, SameEnds DEF ReadEof, Crash, P!ReadEof, P!Crash, Joined

------------------------------------------------------------------------------
(* The invariant *)

\* An end that has finished has read what it was sent.
Quiet == \A s \in Sides : pc[s] = "done" => pipe[s] = <<>>

\* The two ends agree on the whole stack.
Together(R) ==
  /\ Joined /\ Quiet
  /\ left # <<>> => Last(left).role = "proc"
  /\ P!IInv(R)

\* effClose after an exception: the server takes its return for the answer of
\* the callback, and goes on without the client.
ClientClosed ==
  /\ DOMAIN pc = Sides /\ DOMAIN pipe = Sides
  /\ pc["client"] = "done"
  /\ pipe["client"] = <<>>
  /\ pipe["server"] \in {<<>>, <<Answerless>>}

UInv(R) == Together(R) \/ ClientClosed

LEMMA WholeTyped ==
  ASSUME NEW R, P!IInv(R)
  PROVE  /\ Whole \in [Sides -> Seq(Frame)]
         /\ pipe \in [Sides -> Seq(Packet)]
         /\ pc \in [Sides -> {"code", "receive", "done"}]
         /\ got \subseteq Values
BY SameEnds DEF P!IInv, P!TypeOK

LEMMA TransmitQuiet ==
  ASSUME Quiet, pipe \in [Sides -> Seq(Packet)], NEW s \in Sides, NEW packet,
         Transmit(s, packet), pc'[Peer(s)] = pc[Peer(s)]
  PROVE  /\ pipe'[s] = pipe[s]
         /\ pc'[Peer(s)] = "done" => pipe'[Peer(s)] = <<>>
<1>1. Peer(s) \in Sides /\ Peer(s) # s
  BY DEF Sides, Peer
<1>2. CASE Gone(Peer(s))
  BY <1>1, <1>2 DEF Transmit, Quiet
<1>3. CASE ~Gone(Peer(s))
  BY <1>1, <1>3 DEF Transmit, Gone
<1> QED
  BY <1>2, <1>3

LEMMA EndStepKeepsInv ==
  ASSUME NEW R, LayoutsAgree(R), Joined, P!IInv(R), left' = left, NEW s \in Sides, EndStep(s)
  PROVE  P!IInv(R)' /\ Joined'
<1>0. P!LayoutsAgree(R) /\ s \in P!Sides
  BY SameHypotheses, SameEnds
<1>1. CASE \E m \in CallsOf(s), d \in Data : Send(s, m, d)
  <2>1. PICK m \in CallsOf(s), d \in Data : SendMessage(s, m, d)
    BY <1>1 DEF Send
  <2>2. m \in P!CallsOf(s) /\ P!SendMessage(s, m, d)
    BY <2>1, SendIsSend, SameEnds
  <2>3. P!IInv(R)'
    BY <1>0, <2>2, P!SendKeepsInv, NoneAssumption, DepthAssumption
  <2>4. Whole' \in [Sides -> Seq(Frame)]
    BY <2>3, SameEnds DEF P!IInv, P!TypeOK
  <2> QED
    BY <2>1, <2>3, <2>4, SendIsSend
<1>2. CASE Receive(s)
  <2>1. P!IInv(R)'
    BY <1>0, <1>2, ReceiveIsReceive, P!ReceiveKeepsInv, NoneAssumption, DepthAssumption
  <2>2. Whole' \in [Sides -> Seq(Frame)]
    BY <2>1, SameEnds DEF P!IInv, P!TypeOK
  <2> QED
    BY <1>2, <2>1, <2>2, ReceiveIsReceive
<1>3. CASE \E d \in Data : Decide(s, d)
  <2>1. P!IInv(R)'
    BY <1>0, <1>3, DecideIsDecide, P!DecideKeepsInv, NoneAssumption, DepthAssumption
  <2>2. Whole' \in [Sides -> Seq(Frame)]
    BY <2>1, SameEnds DEF P!IInv, P!TypeOK
  <2> QED
    BY <1>3, <2>1, <2>2, DecideIsDecide
<1>4. CASE Reply(s)
  <2>1. P!IInv(R)'
    BY <1>0, <1>4, ReplyIsReply, P!ReplyKeepsInv, NoneAssumption, DepthAssumption
  <2>2. Whole' \in [Sides -> Seq(Frame)]
    BY <2>1, SameEnds DEF P!IInv, P!TypeOK
  <2> QED
    BY <1>4, <2>1, <2>2, ReplyIsReply
<1>5. CASE Return(s)
  <2>1. P!IInv(R)'
    BY <1>0, <1>5, ReturnIsReturn, P!ReturnKeepsInv, NoneAssumption, DepthAssumption
  <2>2. Whole' \in [Sides -> Seq(Frame)]
    BY <2>1, SameEnds DEF P!IInv, P!TypeOK
  <2> QED
    BY <1>5, <2>1, <2>2, ReturnIsReturn
<1>6. CASE ReadEof(s) \/ Crash(s)
  BY <1>0, <1>6, FailureIsFailure, P!FailuresKeepInv, NoneAssumption, DepthAssumption
<1> QED
  BY <1>1, <1>2, <1>3, <1>4, <1>5, <1>6 DEF EndStep

LEMMA EndStepKeepsQuiet ==
  ASSUME NEW R, P!IInv(R), Quiet, NEW s \in Sides, EndStep(s)
  PROVE  Quiet'
<1>1. /\ pipe \in [Sides -> Seq(Packet)] /\ pc \in [Sides -> {"code", "receive", "done"}]
  BY WholeTyped
<1>2. Peer(s) \in Sides /\ Peer(s) # s /\ \A t \in Sides : t = s \/ t = Peer(s)
  BY DEF Sides, Peer
<1>3. CASE (\E m \in CallsOf(s), d \in Data : Send(s, m, d)) \/ Reply(s)
  <2>1. pc' = [pc EXCEPT ![s] = "receive"] /\ \E packet : Transmit(s, packet)
    BY <1>3 DEF Send, SendMessage, Reply
  <2>2. pc'[s] = "receive" /\ pc'[Peer(s)] = pc[Peer(s)]
    BY <1>1, <1>2, <2>1
  <2>3. pc'[Peer(s)] = "done" => pipe'[Peer(s)] = <<>>
    BY <1>1, <2>1, <2>2, TransmitQuiet
  <2> QED
    BY <1>2, <2>2, <2>3 DEF Quiet
<1>4. CASE Receive(s) \/ Return(s)
  BY <1>1, <1>2, <1>4 DEF Receive, Return, Take, Quiet
<1>5. CASE (\E d \in Data : Decide(s, d)) \/ ReadEof(s) \/ Crash(s)
  BY <1>5 DEF Decide, ReadEof, Crash, Quiet
<1> QED
  BY <1>3, <1>4, <1>5 DEF EndStep

\* The client waits for an answer in a frame of its own: a frame that it has
\* left is not a call.
LEMMA EmptyHanded ==
  ASSUME NEW R, Together(R), Take("client", "return"), stack["client"] = <<>>
  PROVE  left = <<>>
<1>1. Whole["client"] = left \o stack["client"] /\ left \in Seq(Frame)
  BY WholeIs DEF Together, Joined, Lost, Sides
<1>2. Whole["client"] = left
  BY <1>1, ConcatEmptySeq
<1>3. /\ "client" \in P!Sides /\ P!Up("client") /\ pipe["client"] # <<>>
      /\ pc["client"] = "receive" /\ P!Incoming("client").type = "return"
  BY SameEnds DEF Take, Sides
<1>4. P!Answered("client") \/ P!Handover("client")
  BY <1>3, P!TurnOfReader, NoneAssumption, DepthAssumption DEF Together
<1>5. P!Answered("client") => Last(left).role = "call"
  BY <1>2 DEF P!Answered, P!Waiting, P!Top, P!Last, Last
<1>6. CASE P!Answered("client")
  <2>1. Len(Whole["client"]) = Len(Whole["server"]) + 1 /\ "server" \in Sides
    BY <1>6, SameEnds DEF P!Answered, P!Waiting, Peer, Sides
  <2>2. Len(Whole["server"]) \in Nat
    BY <2>1, WholeTyped, LenProperties DEF Together
  <2> QED
    BY <1>5, <1>6 DEF Together
<1>7. CASE P!Handover("client")
  BY <1>2, <1>7 DEF P!Handover
<1> QED
  BY <1>4, <1>6, <1>7

LEMMA HandoverIsHandover ==
  ASSUME NEW R, Together(R), left' = left,
         ReturnEffect \/ WaitForEffect \/ Stop \/ (Close /\ left = <<>>)
  PROVE  /\ P!ReturnEffect \/ P!WaitForEffect \/ P!Close \/ P!Stop
         /\ Joined'
<1>1. /\ Whole["client"] = left \o stack["client"] /\ Whole["server"] = <<>> \o stack["server"]
      /\ left \in Seq(Frame) /\ stack["client"] \in Seq(Frame) /\ stack["server"] \in Seq(Frame)
  BY WholeIs DEF Together, Joined, Lost, Sides
<1>2. Whole["server"] = stack["server"]
  BY <1>1, ConcatEmptySeq
<1>3. left = <<>> => Whole["client"] = stack["client"]
  BY <1>1, ConcatEmptySeq
<1>4. stack' = stack /\ Whole' = Whole /\ Joined'
  BY WholeSame DEF ReturnEffect, WaitForEffect, Stop, Close, Together, Joined
<1>5. P!ReturnEffect \/ P!WaitForEffect \/ P!Close \/ P!Stop
  <2>1. CASE ReturnEffect
    BY <1>2, <1>4, <2>1, SameEnds DEF ReturnEffect, P!ReturnEffect, Idle, P!Idle
  <2>2. CASE WaitForEffect
    <3>1. Take("client", "return") /\ stack["client"] = <<>>
      BY <2>2 DEF WaitForEffect
    <3>2. left = <<>>
      BY <3>1, EmptyHanded
    <3> QED
      BY <1>3, <1>4, <2>2, <3>2, SameEnds DEF WaitForEffect, P!WaitForEffect
  <2>3. CASE Stop
    BY <1>2, <1>4, <2>3, SameEnds DEF Stop, P!Stop
  <2>4. CASE Close /\ left = <<>>
    BY <1>3, <1>4, <2>4, SameEnds DEF Close, P!Close, Idle, P!Idle
  <2> QED
    BY <2>1, <2>2, <2>3, <2>4
<1> QED
  BY <1>4, <1>5

LEMMA HandoversKeepTogether ==
  ASSUME NEW R, LayoutsAgree(R), Together(R), left' = left,
         ReturnEffect \/ WaitForEffect \/ Stop \/ (Close /\ left = <<>>)
  PROVE  Together(R)'
<1>1. Joined' /\ left' = left
  BY HandoverIsHandover
<1>2. P!ReturnEffect \/ P!WaitForEffect \/ P!Close \/ P!Stop
  BY HandoverIsHandover
<1>3. P!IInv(R)'
  BY <1>2, P!HandoversKeepInv, NoneAssumption, DepthAssumption DEF Together
<1>4. Quiet'
  <2>1. /\ pipe \in [Sides -> Seq(Packet)] /\ pc \in [Sides -> {"code", "receive", "done"}]
    BY WholeTyped DEF Together
  <2>2. CASE ReturnEffect
    <3>1. /\ Transmit("server", Answerless)
          /\ pc'["server"] = "receive" /\ pc'["client"] = pc["client"]
      BY <2>1, <2>2 DEF ReturnEffect, Sides
    <3>2. pc'["client"] = "done" => pipe'["client"] = <<>>
      BY <2>1, <3>1, TransmitQuiet DEF Together, Peer, Sides
    <3> QED
      BY <3>1, <3>2 DEF Quiet, Sides
  <2>3. CASE WaitForEffect \/ Stop
    BY <2>1, <2>3 DEF WaitForEffect, Stop, Take, Together, Quiet, Sides
  <2>4. CASE Close
    <3>1. InCode("client") /\ Transmit("client", Answerless) /\ pc'["server"] = pc["server"]
      BY <2>1, <2>4 DEF Close, Idle, Sides
    <3>2. P!InCode("client") /\ "client" \in P!Sides /\ P!IInv(R)
      BY <3>1, SameEnds DEF Sides, Together
    <3>3. pipe["client"] = <<>>
      BY <3>2, P!CodeFacts, NoneAssumption, DepthAssumption
    <3>4. pipe'["client"] = <<>> /\ (pc'["server"] = "done" => pipe'["server"] = <<>>)
      BY <2>1, <3>1, <3>3, TransmitQuiet DEF Together, Peer, Sides
    <3> QED
      BY <3>4 DEF Quiet, Sides
  <2> QED
    BY <2>2, <2>3, <2>4
<1> QED
  BY <1>1, <1>3, <1>4 DEF Together

\* With frames left behind, effClose leaves the server alone.
LEMMA CloseLeavesServer ==
  ASSUME NEW R, Together(R), Close
  PROVE  ClientClosed'
<1>1. /\ pipe \in [Sides -> Seq(Packet)] /\ pc \in [Sides -> {"code", "receive", "done"}]
  BY WholeTyped DEF Together
<1>2. InCode("client") /\ Transmit("client", Answerless) /\ pc'["client"] = "done"
  BY <1>1 DEF Close, Idle, Sides
<1>3. P!InCode("client") /\ "client" \in P!Sides /\ P!IInv(R)
  BY <1>2, SameEnds DEF Sides, Together
<1>4. pipe["client"] = <<>> /\ pipe[P!Peer("client")] = <<>>
  BY <1>3, P!CodeFacts, NoneAssumption, DepthAssumption
<1>5. pipe["server"] = <<>>
  BY <1>4, SameEnds DEF Peer
<1>6. DOMAIN pc' = Sides /\ DOMAIN pipe' = Sides /\ pipe'["client"] = <<>>
  BY <1>1, <1>2, <1>4 DEF Close, Transmit, Peer, Sides
<1>7. pipe'["server"] \in {<<>>, <<Answerless>>}
  <2>1. Append(<<>>, Answerless) = <<Answerless>>
    OBVIOUS
  <2> QED
    BY <1>1, <1>2, <1>5, <2>1 DEF Transmit, Peer, Sides
<1> QED
  BY <1>2, <1>6, <1>7 DEF ClientClosed, Answerless

LEMMA UnwindKeepsWhole ==
  ASSUME Joined, Unwind
  PROVE  Whole' = Whole /\ Joined'
<1>1. left' = left \o stack["client"] /\ stack' = [stack EXCEPT !["client"] = <<>>]
  BY DEF Unwind, Unwinding
<1>2. left \in Seq(Frame) /\ stack["client"] \in Seq(Frame) /\ "client" \in Sides
  BY DEF Joined, Sides
<1>3. left' \in Seq(Frame) /\ left' \o <<>> = left' /\ <<>> \in Seq(Frame)
  <2>1. left' \in Seq(Frame)
    BY <1>1, <1>2, ConcatProperties
  <2> QED
    BY <2>1, ConcatEmptySeq, EmptySeq
<1> QED
  BY <1>1, <1>2, <1>3 DEF Whole, Joined

LEMMA UnwindKeepsTogether ==
  ASSUME NEW R, Together(R), Unwind
  PROVE  Together(R)'
<1>1. /\ InCode("client") /\ stack["client"] # <<>> /\ "client" \in Sides
      /\ left' = left \o stack["client"] /\ got' = {}
      /\ UNCHANGED <<primary, created, pc, health, pipe, offset, mem>>
  BY DEF Unwind, Unwinding, Called, Sides
<1>2. Whole' = Whole /\ Joined'
  BY UnwindKeepsWhole DEF Together
<1>3. /\ Whole["client"] = left' /\ Whole["client"] # <<>>
  <2>1. Whole["client"] = left'
    BY <1>1, WholeIs DEF Together, Lost
  <2>2. Whole["client"] # <<>>
    BY <1>1, OnWhole DEF Together
  <2> QED
    BY <2>1, <2>2
<1>4. Quiet'
  BY <1>1 DEF Quiet, Together
<1>5. Last(left').role = "proc"
  <2>1. P!InCode("client") /\ "client" \in P!Sides /\ P!IInv(R)
    BY <1>1, SameEnds DEF Together
  <2>2. Whole["client"] # <<>> => P!Top("client").role = "proc"
    BY <2>1, P!CodeFacts, NoneAssumption, DepthAssumption
  <2> QED
    BY <1>3, <2>2 DEF P!Top, P!Last, Last
<1>6. P!IInv(R)'
  <2>1. got' \subseteq P!Values
    BY <1>1
  <2> QED
    BY <1>1, <1>2, <2>1, P!ForgettingKeepsInv, NoneAssumption, DepthAssumption DEF Together
<1> QED
  BY <1>2, <1>4, <1>5, <1>6 DEF Together

\* Nothing reaches a client that has closed, and it takes no further step.
LEMMA ClosedStaysClosed ==
  ASSUME ClientClosed, [Next]_vars \/ Unwind
  PROVE  ClientClosed'
<1>1. Gone("client") /\ ~InCode("client") /\ pc["client"] # "receive"
  BY DEF ClientClosed, Gone, InCode
<1>2. CASE UNCHANGED vars \/ Finished \/ Unwind
  BY <1>1, <1>2 DEF vars, Finished, Unwind, Unwinding, Called, ClientClosed
<1>3. ASSUME pc'["client"] = "done", DOMAIN pc' = Sides, DOMAIN pipe' = Sides,
             pipe'["client"] = <<>>, pipe'["server"] = pipe["server"] \/ pipe'["server"] = <<>>
      PROVE  ClientClosed'
  BY <1>3 DEF ClientClosed, Answerless
<1>4. CASE \E packet : Transmit("server", packet) /\ pc' = [pc EXCEPT !["server"] = "receive"]
  BY <1>1, <1>3, <1>4 DEF Transmit, Peer, ClientClosed
<1>5. CASE /\ pipe' = [pipe EXCEPT !["server"] = <<>>]
           /\ pc' = [pc EXCEPT !["server"] = "code"] \/ pc' = [pc EXCEPT !["server"] = "done"]
  BY <1>3, <1>5 DEF ClientClosed, Sides
<1>6. CASE pipe' = pipe /\ pc' = pc
  BY <1>3, <1>6 DEF ClientClosed
<1>8. CASE EndStep("server") \/ ReturnEffect \/ Stop
  BY <1>4, <1>5, <1>6, <1>8 DEF EndStep, Send, SendMessage, Receive, Decide, Reply, Return,
                                ReadEof, Crash, Take, ReturnEffect, Stop
<1>9. CASE EndStep("client")
  BY <1>1, <1>6, <1>9 DEF EndStep, Send, SendMessage, Receive, Decide, Reply, Return,
                          ReadEof, Crash, Called, Take
<1>7. CASE WaitForEffect \/ Close
  BY <1>1, <1>7 DEF WaitForEffect, Close, Idle, Take
<1> QED
  BY <1>2, <1>7, <1>8, <1>9 DEF Next, Sides

LEMMA StutterKeepsTogether ==
  ASSUME NEW R, Together(R), left' = left, UNCHANGED vars \/ Finished
  PROVE  Together(R)'
<1>1. Whole' = Whole /\ UNCHANGED vars
  BY WholeSame DEF vars, Finished
<1>2. P!IInv(R)'
  <2>1. got' \subseteq P!Values
    BY <1>1 DEF vars, Together, P!IInv, P!TypeOK
  <2> QED
    BY <1>1, <2>1, P!ForgettingKeepsInv, NoneAssumption, DepthAssumption DEF Together, vars
<1> QED
  BY <1>1, <1>2 DEF vars, Together, Joined, Quiet

LEMMA UnwindNextKeepsInv ==
  ASSUME NEW R, LayoutsAgree(R), UInv(R), [UnwindNext]_unwindVars
  PROVE  UInv(R)'
<1>1. CASE ClientClosed
  <2>1. [Next]_vars \/ Unwind
    BY DEF UnwindNext, unwindVars
  <2> QED
    BY <1>1, <2>1, ClosedStaysClosed DEF UInv
<1>2. CASE Together(R)
  <2>1. CASE Unwind
    BY <1>2, <2>1, UnwindKeepsTogether DEF UInv
  <2>2. CASE left' = left /\ (UNCHANGED vars \/ Finished)
    BY <1>2, <2>2, StutterKeepsTogether DEF UInv
  <2>3. CASE left' = left /\ \E s \in Sides : EndStep(s)
    BY <1>2, <2>3, EndStepKeepsInv, EndStepKeepsQuiet DEF UInv, Together
  <2>4. CASE left' = left /\ (ReturnEffect \/ WaitForEffect \/ Stop \/ (Close /\ left = <<>>))
    BY <1>2, <2>4, HandoversKeepTogether DEF UInv
  <2>5. CASE Close
    BY <1>2, <2>5, CloseLeavesServer DEF UInv
  <2> QED
    BY <2>1, <2>2, <2>3, <2>4, <2>5 DEF UnwindNext, unwindVars, Next
<1> QED
  BY <1>1, <1>2 DEF UInv

LEMMA UnwindInitTogether ==
  ASSUME NEW R, LayoutsAgree(R), UnwindInit
  PROVE  Together(R) /\ P!Init
<1>1. Init /\ left = <<>> /\ stack = [s \in Sides |-> <<>>]
  BY DEF UnwindInit, Init
<1>2. <<>> \in Seq(Frame) /\ <<>> \o <<>> = <<>>
  BY EmptySeq, ConcatEmptySeq
<1>3. Whole = [s \in Sides |-> <<>>]
  BY <1>1, <1>2 DEF Whole
<1>4. P!Init
  BY <1>1, <1>3, SameEnds DEF Init, P!Init
<1>5. P!IInv(R)
  BY <1>4, SameHypotheses, P!InitInv, NoneAssumption, DepthAssumption
<1>6. Quiet
  BY <1>1 DEF Init, Quiet
<1> QED
  BY <1>1, <1>2, <1>4, <1>5, <1>6 DEF Together, Joined

------------------------------------------------------------------------------
(* The shared memory *)

\* When the client has closed, the server still has the memory of its calls.
Alone(R) ==
  /\ DOMAIN stack = Sides /\ DOMAIN health = Sides
  /\ stack["client"] = <<>>
  /\ Up("server") => /\ Well(R, stack["server"])
                     /\ Sound(mem) /\ Safe(mem, stack["server"])

MemUInv(R) == (Together(R) /\ P!MemInv) \/ (ClientClosed /\ Alone(R))

LEMMA SafeOnTop ==
  ASSUME NEW m, NEW l \in Seq(Frame), NEW q \in Seq(Frame), Safe(m, l \o q)
  PROVE  Safe(m, q)
<1> SUFFICES ASSUME NEW i \in DOMAIN q, q[i].role = "proc"
             PROVE  Kept(m, q[i])
  BY DEF Safe
<1>1. /\ Len(l) \in Nat /\ Len(q) \in Nat /\ DOMAIN q = 1 .. Len(q)
      /\ l \o q \in Seq(Frame) /\ Len(l \o q) = Len(l) + Len(q)
      /\ \A k \in 1 .. Len(l) + Len(q) : (l \o q)[k] = IF k <= Len(l) THEN l[k] ELSE q[k - Len(l)]
  BY ConcatProperties, LenProperties
<1>2. DOMAIN (l \o q) = 1 .. Len(l) + Len(q)
  BY <1>1, LenProperties
<1>3. /\ Len(l) + i \in 1 .. Len(l) + Len(q) /\ ~(Len(l) + i <= Len(l))
      /\ (Len(l) + i) - Len(l) = i
  BY <1>1
<1>4. (l \o q)[Len(l) + i] = q[i]
  BY <1>1, <1>3
<1> QED
  BY <1>2, <1>3, <1>4 DEF Safe

LEMMA EndStepKeepsMem ==
  ASSUME NEW R, LayoutsAgree(R), PlacesAgree(R), Joined, P!IInv(R), P!MemInv, left' = left,
         NEW s \in Sides, EndStep(s)
  PROVE  P!MemInv'
<1>0. P!LayoutsAgree(R) /\ P!PlacesAgree(R) /\ s \in P!Sides
  BY SameHypotheses, SamePlacesAgree, SameEnds
<1>1. CASE \E m \in CallsOf(s), d \in Data : Send(s, m, d)
  <2>1. PICK m \in CallsOf(s), d \in Data : SendMessage(s, m, d)
    BY <1>1 DEF Send
  <2>2. m \in P!CallsOf(s) /\ P!SendMessage(s, m, d)
    BY <2>1, SendIsSend, SameEnds
  <2> QED
    BY <1>0, <2>2, P!SendKeepsMem, NoneAssumption, DepthAssumption
<1>2. CASE Receive(s)
  BY <1>0, <1>2, ReceiveIsReceive, P!ReceiveKeepsMem, NoneAssumption, DepthAssumption
<1>3. CASE \E d \in Data : Decide(s, d)
  BY <1>0, <1>3, DecideIsDecide, P!DecideKeepsMem, NoneAssumption, DepthAssumption
<1>4. CASE Reply(s)
  BY <1>0, <1>4, ReplyIsReply, P!ReplyKeepsMem, NoneAssumption, DepthAssumption
<1>5. CASE Return(s)
  BY <1>0, <1>5, ReturnIsReturn, P!ReturnKeepsMem, NoneAssumption, DepthAssumption
<1>6. CASE ReadEof(s) \/ Crash(s)
  BY <1>0, <1>6, FailureIsFailure, P!OthersKeepMem, NoneAssumption, DepthAssumption
<1> QED
  BY <1>1, <1>2, <1>3, <1>4, <1>5, <1>6 DEF EndStep

LEMMA CloseKeepsMem ==
  ASSUME NEW R, Together(R), P!MemInv, Close
  PROVE  Alone(R)'
<1>1. /\ stack["client"] = <<>> /\ stack' = stack /\ mem' = mem
      /\ health' = health \/ health' = [health EXCEPT !["client"] = "failed"]
  BY DEF Close, Idle, Transmit
<1>2. DOMAIN stack = Sides /\ DOMAIN health = Sides /\ "server" \in Sides
  BY SameEnds DEF Together, Joined, P!IInv, P!TypeOK, Sides
<1>3. Whole["server"] = stack["server"]
  BY DEF Whole, Together, Joined, Sides
<1>4. ASSUME Up("server")'
      PROVE  Well(R, stack["server"]) /\ Sound(mem) /\ Safe(mem, stack["server"])
  <2>1. P!Up("server") /\ "server" \in P!Sides
    BY <1>1, <1>2, <1>4, SameEnds DEF Up
  <2>2. P!Well(R, Whole["server"]) /\ P!Sound(mem) /\ P!Safe(mem, Whole["server"])
    BY <2>1 DEF Together, P!IInv, P!MemInv
  <2> QED
    BY <1>3, <2>2, SameStack, SameSafety
<1> QED
  BY <1>1, <1>2, <1>4 DEF Alone

\* What the server still does with its frames disturbs none of those below.
LEMMA AloneStaysAlone ==
  ASSUME NEW R, LayoutsAgree(R), PlacesAgree(R), ClientClosed, Alone(R), [Next]_vars \/ Unwind
  PROVE  Alone(R)'
<1> DEFINE q == stack["server"]
<1>1. Gone("client") /\ ~InCode("client") /\ pc["client"] # "receive"
  BY DEF ClientClosed, Gone, InCode
<1>2. ASSUME NEW r, stack' = stack \/ stack' = [stack EXCEPT !["server"] = r],
             health' = health \/ health' = [health EXCEPT !["server"] = health'["server"]],
             Up("server")' => /\ Well(R, stack'["server"])
                              /\ Sound(mem') /\ Safe(mem', stack'["server"])
      PROVE  Alone(R)'
  BY <1>2 DEF Alone, Sides
<1>3. CASE stack' = stack /\ mem' = mem /\ health' = health
  BY <1>2, <1>3 DEF Alone, Up
<1>4. ASSUME NEW x, x # "up", health' = [health EXCEPT !["server"] = x],
             NEW r, stack' = stack \/ stack' = [stack EXCEPT !["server"] = r]
      PROVE  Alone(R)'
  <2>1. ~Up("server")'
    BY <1>4 DEF Alone, Up, Sides
  <2> QED
    BY <1>2, <1>4, <2>1 DEF Alone, Sides
<1>5. ASSUME NEW packet, Transmit("server", packet),
             NEW r, stack' = stack \/ stack' = [stack EXCEPT !["server"] = r]
      PROVE  Alone(R)'
  <2>1. health' = [health EXCEPT !["server"] = "failed"]
    BY <1>1, <1>5 DEF Transmit, Peer
  <2> QED
    BY <1>4, <1>5, <2>1
<1>6. CASE UNCHANGED vars \/ Finished \/ Stop
  BY <1>3, <1>6 DEF vars, Finished, Stop, Take
<1>7. CASE (\E m \in CallsOf("server"), d \in Data : Send("server", m, d)) \/ ReturnEffect
  BY <1>5, <1>7 DEF Send, SendMessage, ReturnEffect
<1>8. CASE Reply("server")
  BY <1>1, <1>5, <1>8 DEF Reply, Peer
<1>9. CASE Receive("server")
  BY <1>9 DEF Receive, Take, Incoming, ClientClosed, Answerless
<1>10. CASE ReadEof("server") \/ Crash("server")
  BY <1>4, <1>10 DEF ReadEof, Crash
<1>11. CASE \E d \in Data : Decide("server", d)
  <2>1. PICK d \in Data : Decide("server", d)
    BY <1>11
  <2> DEFINE t == Last(q)
             f == [t EXCEPT !.res = d]
             r == Append(Front(q), f)
  <2>2. /\ q # <<>> /\ t.res = None /\ Up("server")
        /\ mem' = Put(mem, OutputPlaces(t.msg, t.off), d)
        /\ stack' = [stack EXCEPT !["server"] = r]
        /\ health' = health
    BY <2>1 DEF Decide, Called, InCode, Top
  <2>3. Well(R, q) /\ Sound(mem) /\ Safe(mem, q)
    BY <2>2 DEF Alone
  <2>4. Sound(mem') /\ Safe(mem', r)
    <3> HIDE DEF q
    <3> QED
      BY <2>2, <2>3, StoreKeepsSafe
  <2>5. Well(R, r)
    <3> HIDE DEF q
    <3> QED
      BY <2>2, <2>3, StoreWell DEF Values
  <2> HIDE DEF r
  <2>6. stack'["server"] = r
    BY <2>2 DEF Alone, Sides
  <2> QED
    BY <1>2, <2>2, <2>4, <2>5, <2>6
<1>12. CASE Return("server")
  <2> DEFINE t == Last(q)
             r == Front(q)
  <2>1. /\ q # <<>> /\ Up("server")
        /\ mem' = {e \in mem : e.hi <= t.off}
        /\ stack' = [stack EXCEPT !["server"] = r]
        /\ health' = health
    BY <1>12 DEF Return, Take, Top, Pop
  <2>2. Well(R, q) /\ Sound(mem) /\ Safe(mem, q)
    BY <2>1 DEF Alone
  <2>3. Well(R, r) /\ End(r) = t.off
    BY <2>1, <2>2, PopWell
  <2>4. Safe(mem, r)
    BY <2>1, <2>2, SafePopped
  <2> HIDE DEF r, t
  <2>5. Sound(mem') /\ Safe(mem', r)
    <3>1. Sound(mem')
      BY <2>1, <2>2 DEF Sound
    <3> QED
      BY <2>1, <2>3, <2>4, <3>1, SafeUnderCut
  <2>6. stack'["server"] = r
    BY <2>1 DEF Alone, Sides
  <2> QED
    BY <1>2, <2>1, <2>3, <2>5, <2>6
<1>13. CASE EndStep("client") \/ WaitForEffect \/ Close \/ Unwind
  BY <1>1, <1>13 DEF EndStep, Send, SendMessage, Receive, Decide, Reply, Return, ReadEof, Crash,
                     Called, Take, WaitForEffect, Close, Idle, Unwind, Unwinding, ClientClosed
<1> QED
  BY <1>6, <1>7, <1>8, <1>9, <1>10, <1>11, <1>12, <1>13 DEF Next, EndStep, Sides

LEMMA UnwindNextKeepsMem ==
  ASSUME NEW R, LayoutsAgree(R), PlacesAgree(R), MemUInv(R), [UnwindNext]_unwindVars
  PROVE  MemUInv(R)'
<1>0. UInv(R)'
  BY UnwindNextKeepsInv DEF MemUInv, UInv
<1>1. CASE ClientClosed /\ Alone(R)
  <2>1. [Next]_vars \/ Unwind
    BY DEF UnwindNext, unwindVars
  <2> QED
    BY <1>1, <2>1, ClosedStaysClosed, AloneStaysAlone DEF MemUInv
<1>2. CASE Together(R) /\ P!MemInv
  <2>1. CASE Unwind
    <3>1. Whole' = Whole /\ UNCHANGED <<pc, health, pipe, mem>>
      BY <1>2, <2>1, UnwindKeepsWhole DEF Unwind, Together
    <3>2. P!MemInv'
      BY <1>2, <3>1, P!ForgettingKeepsMem, NoneAssumption, DepthAssumption
    <3> QED
      BY <1>2, <2>1, <3>2, UnwindKeepsTogether DEF MemUInv
  <2>2. CASE left' = left /\ (UNCHANGED vars \/ Finished)
    <3>1. Whole' = Whole /\ UNCHANGED <<pc, health, pipe, mem>>
      BY <2>2, WholeSame DEF vars, Finished
    <3>2. P!MemInv'
      BY <1>2, <3>1, P!ForgettingKeepsMem, NoneAssumption, DepthAssumption
    <3> QED
      BY <1>2, <2>2, <3>2, StutterKeepsTogether DEF MemUInv
  <2>3. CASE left' = left /\ \E s \in Sides : EndStep(s)
    BY <1>2, <2>3, EndStepKeepsInv, EndStepKeepsQuiet, EndStepKeepsMem DEF MemUInv, Together
  <2>4. CASE left' = left /\ (ReturnEffect \/ WaitForEffect \/ Stop \/ (Close /\ left = <<>>))
    <3>1. P!ReturnEffect \/ P!WaitForEffect \/ P!Close \/ P!Stop
      BY <1>2, <2>4, HandoverIsHandover
    <3>2. P!MemInv'
      BY <1>2, <3>1, P!OthersKeepMem, NoneAssumption, DepthAssumption DEF Together
    <3> QED
      BY <1>2, <2>4, <3>2, HandoversKeepTogether DEF MemUInv
  <2>5. CASE Close
    BY <1>2, <2>5, CloseLeavesServer, CloseKeepsMem DEF MemUInv
  <2> QED
    BY <2>1, <2>2, <2>3, <2>4, <2>5 DEF UnwindNext, unwindVars, Next
<1> QED
  BY <1>1, <1>2 DEF MemUInv

LEMMA UnwindInitMem ==
  ASSUME NEW R, LayoutsAgree(R), UnwindInit
  PROVE  MemUInv(R)
<1>1. Together(R) /\ P!Init
  BY UnwindInitTogether
<1>2. P!MemInv
  BY <1>1, P!InitMem, NoneAssumption, DepthAssumption
<1> QED
  BY <1>1, <1>2 DEF MemUInv

------------------------------------------------------------------------------
(* The theorems *)

LEMMA MeetingPlace ==
  ASSUME NEW R, UInv(R)
  PROVE  RequestsMeet
<1> SUFFICES ASSUME NEW s \in Sides, Up(s), pipe[s] # <<>>, Incoming(s).type = "request"
             PROVE  offset[s] = Top(Peer(s)).off
  BY DEF RequestsMeet
<1>1. CASE ClientClosed
  BY <1>1 DEF ClientClosed, Sides, Incoming, Answerless
<1>2. CASE Together(R)
  <2>1. pc[s] = "receive"
    <3>1. pc[s] # "done"
      BY <1>2 DEF Together, Quiet
    <3>2. pc[s] # "code"
      <4>1. s \in P!Sides /\ P!IInv(R)
        BY <1>2, SameEnds DEF Together
      <4>2. pc[s] = "code" => P!InCode(s)
        BY SameEnds DEF InCode
      <4> QED
        BY <4>1, <4>2, P!CodeFacts, NoneAssumption, DepthAssumption
    <3> QED
      BY <1>2, <3>1, <3>2, WholeTyped DEF Together
  <2>2. /\ s \in P!Sides /\ P!Up(s) /\ P!Incoming(s).type = "request" /\ P!IInv(R)
    BY <1>2, SameEnds DEF Together
  <2>3. P!Asked(P!Peer(s))
    BY <2>1, <2>2, P!TurnOfReader, NoneAssumption, DepthAssumption
  <2> DEFINE p == Peer(s)
  <2>4. P!Peer(s) = p /\ p \in Sides /\ P!Peer(p) = s /\ p \in P!Sides
    BY SameEnds DEF Sides, Peer
  <2>5. Len(Whole[p]) = Len(Whole[s]) + 1 /\ Last(Whole[p]).role = "call"
    BY <2>3, <2>4 DEF P!Asked, P!Waiting, P!Top, P!Last, Last
  <2>6. /\ P!Well(R, Whole[p]) /\ P!Well(R, Whole[s]) /\ P!Agree(Whole[p], Whole[s])
        /\ offset[s] = P!End(Whole[s])
    <3>1. P!Agree(Whole[p], Whole[s])
      BY <2>2, <2>4, P!AgreeBothWays, NoneAssumption, DepthAssumption
    <3> QED
      BY <2>2, <2>4, <3>1 DEF P!IInv
  <2>7. Whole[p] # <<>> /\ Last(Whole[p]).off = offset[s]
    <3>1. Whole[p] # <<>> /\ P!Last(Whole[p]).off = P!End(Whole[s])
      BY <2>5, <2>6, P!AgreeEnds, NoneAssumption, DepthAssumption
    <3> QED
      BY <2>6, <3>1 DEF P!Last, Last
  <2>8. stack[p] # <<>>
    <3>1. Lost(p) \in Seq(Frame) /\ Whole[p] = Lost(p) \o stack[p]
      BY <1>2, <2>4, WholeIs DEF Together
    <3>2. stack[p] = <<>> => Whole[p] = Lost(p)
      BY <3>1, ConcatEmptySeq
    <3>3. Lost(p) # <<>> => Last(Lost(p)).role = "proc"
      BY <1>2 DEF Together, Lost
    <3> QED
      BY <2>5, <2>7, <3>2, <3>3
  <2>9. Last(Whole[p]) = Last(stack[p])
    BY <1>2, <2>4, <2>8, OnWhole DEF Together
  <2> QED
    BY <2>7, <2>9 DEF Top
<1> QED
  BY <1>1, <1>2 DEF UInv

\* However many exceptions the host catches, a request is mapped where it was
\* written: the offsets that the exceptions leave behind stay in step, because
\* neither end goes back below them.
THEOREM RequestsKeepMeeting ==
  ASSUME NEW R, LayoutsAgree(R)
  PROVE  UnwindSpec => []RequestsMeet
<1>1. UnwindInit => UInv(R)
  BY UnwindInitTogether DEF UInv
<1>2. UInv(R) /\ [UnwindNext]_unwindVars => UInv(R)'
  BY UnwindNextKeepsInv
<1>3. UInv(R) => RequestsMeet
  BY MeetingPlace
<1> QED
  BY <1>1, <1>2, <1>3, PTL DEF UnwindSpec

\* With strings, or payloads that end on a multiple of 8, nothing is assumed.
THEOREM RegularRequestsKeepMeeting ==
  ASSUME RegularPayloads
  PROVE  UnwindSpec => []RequestsMeet
<1>1. PICK R \in {Nat, Aligned} : LayoutsAgree(R)
  BY RegularLayouts
<1> QED
  BY <1>1, RequestsKeepMeeting

LEMMA FramesIntact ==
  ASSUME NEW R, MemUInv(R)
  PROVE  ArgumentsIntact /\ OutputsIntact
<1> SUFFICES ASSUME NEW s \in Sides, Up(s), stack[s] # <<>>
             PROVE  stack[s] \in Seq(Frame) /\ Sound(mem) /\ Safe(mem, stack[s])
  BY MemoryIntact
<1>1. CASE ClientClosed /\ Alone(R)
  <2>1. s = "server"
    BY <1>1 DEF Alone, Sides
  <2> QED
    BY <1>1, <2>1 DEF Alone, Well
<1>2. CASE Together(R) /\ P!MemInv
  <2>1. P!Safe(mem, Whole[s]) /\ P!Sound(mem)
    BY <1>2, SameEnds DEF P!MemInv
  <2>2. Safe(mem, Whole[s]) /\ Sound(mem)
    BY <2>1, SameSafety
  <2>3. Lost(s) \in Seq(Frame) /\ stack[s] \in Seq(Frame) /\ Whole[s] = Lost(s) \o stack[s]
    BY <1>2, WholeIs DEF Together, Joined
  <2> QED
    BY <2>2, <2>3, SafeOnTop
<1> QED
  BY <1>1, <1>2 DEF MemUInv

\* The same of the memory: what a running function was given, and what it has
\* stored, stays where it is, whatever calls the host leaves by exceptions.
THEOREM ArgumentsKeptThroughExceptions ==
  ASSUME NEW R, LayoutsAgree(R), PlacesAgree(R)
  PROVE  UnwindSpec => []ArgumentsIntact
<1>1. UnwindInit => MemUInv(R)
  BY UnwindInitMem
<1>2. MemUInv(R) /\ [UnwindNext]_unwindVars => MemUInv(R)'
  BY UnwindNextKeepsMem
<1>3. MemUInv(R) => ArgumentsIntact
  BY FramesIntact
<1> QED
  BY <1>1, <1>2, <1>3, PTL DEF UnwindSpec

\* And the outputs it has stored before it calls back.
THEOREM OutputsKeptThroughExceptions ==
  ASSUME NEW R, LayoutsAgree(R), PlacesAgree(R)
  PROVE  UnwindSpec => []OutputsIntact
<1>1. UnwindInit => MemUInv(R)
  BY UnwindInitMem
<1>2. MemUInv(R) /\ [UnwindNext]_unwindVars => MemUInv(R)'
  BY UnwindNextKeepsMem
<1>3. MemUInv(R) => OutputsIntact
  BY FramesIntact
<1> QED
  BY <1>1, <1>2, <1>3, PTL DEF UnwindSpec

\* With strings, or payloads that end on a multiple of 8, nothing is assumed of
\* the layout.
THEOREM RegularMemoryThroughExceptions ==
  ASSUME RegularPayloads
  PROVE  UnwindSpec => [](ArgumentsIntact /\ OutputsIntact)
<1>1. PICK R \in {Nat, Aligned} : LayoutsAgree(R) /\ PlacesAgree(R)
  BY RegularPlaces
<1>2. UnwindSpec => []ArgumentsIntact
  BY <1>1, ArgumentsKeptThroughExceptions
<1>3. UnwindSpec => []OutputsIntact
  BY <1>1, OutputsKeptThroughExceptions
<1> QED
  BY <1>2, <1>3, PTL
==============================================================================
