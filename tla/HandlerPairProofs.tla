-------------------------- MODULE HandlerPairProofs --------------------------
(***************************************************************************)
(* HandlerPair for every nesting depth, every set of data and every set of *)
(* messages whose request the caller's and the callee's cursor measure     *)
(* alike: both ends always agree on the open calls, their offsets and      *)
(* sizes, and there is never more than one packet under way.               *)
(*   From this, what the shared memory holds while calls are nested in it: *)
(* the arguments a side reads are the ones the other wrote, the results it *)
(* reads are the ones of the call it made, and the two processes together  *)
(* run nothing but nested calls.  Under hypotheses on cursors and places   *)
(* first, then for payloads of which ShmLayoutProofs shows them; last,     *)
(* where the region ends.                                                  *)
(***************************************************************************)
EXTENDS HandlerPairRegion, ShmLayoutProofs, SequenceTheorems, TLAPS

\* What the code takes for granted of its payloads, at the offsets of R: the
\* callee's cursor ends where the caller's did, at an offset of R again.
LayoutsAgree(R) ==
  /\ 0 \in R /\ R \subseteq Nat
  /\ \A m \in Messages, o \in R :
       /\ Total(WriteRequest(m), o) \in Nat
       /\ Total(MapRequest(m), o) = Total(WriteRequest(m), o)
       /\ o + Total(WriteRequest(m), o) \in R
       /\ RequestPlaces(m, o) \cup OutputPlaces(m, o) \cup AnswerPlaces(m, o)
            \subseteq [lo : Nat, hi : Nat]

\* The stack of one end.
Well(R, frames) ==
  /\ frames \in Seq(Frame)
  /\ Alternating(frames) /\ Sized(frames) /\ Stacked(frames)
  /\ \A i \in DOMAIN frames : frames[i].off \in R

IInv(R) ==
  /\ TypeOK
  /\ \A s \in Sides : Well(R, stack[s]) /\ (Up(s) => offset[s] = End(stack[s]))
  /\ Agree(stack["client"], stack["server"])
  /\ OneInFlight
  /\ Turn

------------------------------------------------------------------------------
(* Stacks *)

LEMMA PushWell ==
  ASSUME NEW R, NEW q, Well(R, q), NEW f \in Frame,
         f.off = End(q), f.off \in R, f.size = Total(WriteRequest(f.msg), f.off),
         q # <<>> => Last(q).role # f.role
  PROVE  Well(R, Append(q, f)) /\ End(Append(q, f)) = f.off + f.size
<1> DEFINE r == Append(q, f)
<1>1. q \in Seq(Frame)
  BY DEF Well
<1>2. /\ r \in Seq(Frame) /\ r # <<>> /\ Len(q) \in Nat
      /\ DOMAIN q = 1 .. Len(q) /\ DOMAIN r = 1 .. Len(q) + 1
      /\ \A i \in 1 .. Len(q) : r[i] = q[i]
      /\ r[Len(q) + 1] = f /\ Last(r) = f
  BY <1>1, AppendedProperties
<1>3. q # <<>> => Len(q) >= 1 /\ Last(q) = q[Len(q)]
  BY <1>1, FrontProperties
<1>4. q = <<>> => Len(q) = 0
  OBVIOUS
<1> HIDE DEF r
<1>5. Alternating(r)
  BY <1>2, <1>3, <1>4 DEF Well, Alternating
<1>6. Sized(r)
  BY <1>2 DEF Well, Sized
<1>7. Stacked(r)
  BY <1>2, <1>3, <1>4 DEF Well, Stacked, End
<1>8. \A i \in DOMAIN r : r[i].off \in R
  BY <1>2 DEF Well
<1>9. End(r) = f.off + f.size
  BY <1>2 DEF End
<1> QED
  BY <1>2, <1>5, <1>6, <1>7, <1>8, <1>9 DEF Well, r

LEMMA PopWell ==
  ASSUME NEW R, NEW q, Well(R, q), q # <<>>
  PROVE  /\ Well(R, Front(q))
         /\ End(Front(q)) = Last(q).off
         /\ Len(Front(q)) = Len(q) - 1
         /\ Front(q) # <<>> => Last(Front(q)).role # Last(q).role
<1> DEFINE r == Front(q)
           n == Len(q)
<1>1. q \in Seq(Frame)
  BY DEF Well
<1>2. /\ r \in Seq(Frame) /\ n \in Nat /\ n >= 1 /\ Len(r) = n - 1
      /\ DOMAIN q = 1 .. n /\ DOMAIN r = 1 .. n - 1
      /\ \A i \in 1 .. n - 1 : r[i] = q[i]
      /\ Last(q) = q[n]
  BY <1>1, FrontProperties
<1>3. r # <<>> => n - 1 >= 1 /\ Last(r) = r[n - 1]
  BY <1>2, FrontProperties
<1>4. r = <<>> => n = 1
  BY <1>2
<1> HIDE DEF r, n
<1>5. Alternating(r)
  BY <1>2 DEF Well, Alternating
<1>6. Sized(r)
  BY <1>2 DEF Well, Sized
<1>7. Stacked(r)
  <2>1. \A i \in 1 .. n : q[i].off = IF i = 1 THEN 0 ELSE q[i-1].off + q[i-1].size
    BY <1>2 DEF Well, Stacked
  <2>2. \A i \in 1 .. n - 1 : i \in 1 .. n /\ r[i] = q[i]
    BY <1>2
  <2>3. \A i \in 1 .. n - 1 : i # 1 => r[i-1] = q[i-1]
    BY <1>2
  <2>4. \A i \in 1 .. n - 1 : r[i].off = IF i = 1 THEN 0 ELSE r[i-1].off + r[i-1].size
    BY <2>1, <2>2, <2>3
  <2> QED
    BY <1>2, <2>4 DEF Stacked
<1>8. \A i \in DOMAIN r : r[i].off \in R
  BY <1>2 DEF Well
<1>9. End(r) = Last(q).off
  <2>1. q[n].off = IF n = 1 THEN 0 ELSE q[n-1].off + q[n-1].size
    BY <1>2 DEF Well, Stacked
  <2>2. CASE r = <<>>
    BY <1>2, <1>4, <2>1, <2>2 DEF End
  <2>3. CASE r # <<>>
    <3>1. n # 1 /\ r[n-1] = q[n-1]
      BY <1>2, <1>3, <2>3
    <3> QED
      BY <1>2, <1>3, <2>1, <2>3, <3>1 DEF End
  <2> QED
    BY <2>2, <2>3
<1>10. r # <<>> => Last(r).role # Last(q).role
  <2>1. r # <<>> => n # 1 /\ n \in 1 .. n /\ r[n-1] = q[n-1]
    BY <1>2, <1>3
  <2>2. \A i \in 1 .. n : i # 1 => q[i].role # q[i-1].role
    BY <1>2 DEF Well, Alternating
  <2> QED
    BY <1>2, <1>3, <2>1, <2>2
<1> QED
  BY <1>2, <1>5, <1>6, <1>7, <1>8, <1>9, <1>10 DEF Well, r, n

LEMMA LastOfWell ==
  ASSUME NEW R, NEW q, Well(R, q), q # <<>>
  PROVE  /\ Last(q) \in Frame /\ Last(q).msg \in Messages
         /\ Last(q).off \in R
         /\ Last(q).size = Total(WriteRequest(Last(q).msg), Last(q).off)
<1>1. q \in Seq(Frame)
  BY DEF Well
<1>2. Last(q) = q[Len(q)] /\ Len(q) \in DOMAIN q /\ Last(q) \in Frame
  BY <1>1, FrontProperties
<1>3. Last(q).msg \in Messages
  BY <1>2 DEF Frame
<1> QED
  BY <1>2, <1>3 DEF Well, Sized

LEMMA EndInR ==
  ASSUME NEW R, LayoutsAgree(R), NEW q, Well(R, q)
  PROVE  End(q) \in R
<1>1. CASE q = <<>>
  BY <1>1 DEF End, LayoutsAgree
<1>2. CASE q # <<>>
  <2>1. /\ Last(q).msg \in Messages /\ Last(q).off \in R
        /\ Last(q).size = Total(WriteRequest(Last(q).msg), Last(q).off)
    BY <1>2, LastOfWell
  <2>2. Last(q).off + Last(q).size \in R
    BY <2>1 DEF LayoutsAgree
  <2> QED
    BY <1>2, <2>2 DEF End
<1> QED
  BY <1>1, <1>2

\* A frame whose result is stored keeps its place.
LEMMA StoreWell ==
  ASSUME NEW R, NEW q, Well(R, q), q # <<>>, NEW d \in Values
  PROVE  LET r == Append(Front(q), [Last(q) EXCEPT !.res = d])
         IN  /\ Well(R, r) /\ End(r) = End(q) /\ Len(r) = Len(q) /\ r # <<>>
             /\ DOMAIN r = DOMAIN q
             /\ Last(r).role = Last(q).role
             /\ \A i \in DOMAIN q : /\ i \in DOMAIN r
                                    /\ r[i].role = q[i].role /\ r[i].msg = q[i].msg
                                    /\ r[i].arg = q[i].arg /\ r[i].off = q[i].off
                                    /\ r[i].size = q[i].size
<1> DEFINE f == [Last(q) EXCEPT !.res = d]
           p == Front(q)
           n == Len(q)
<1>1. q \in Seq(Frame)
  BY DEF Well
<1>2. /\ p \in Seq(Frame) /\ n \in Nat /\ n >= 1 /\ Len(p) = n - 1
      /\ DOMAIN q = 1 .. n /\ DOMAIN p = 1 .. n - 1
      /\ \A i \in 1 .. n - 1 : p[i] = q[i]
      /\ Last(q) = q[n] /\ Last(q) \in Frame
  BY <1>1, FrontProperties
<1>3. /\ f \in Frame /\ f.role = Last(q).role /\ f.msg = Last(q).msg /\ f.arg = Last(q).arg
      /\ f.off = Last(q).off /\ f.size = Last(q).size
  BY <1>2 DEF Frame
<1>4. /\ Well(R, p) /\ End(p) = Last(q).off
      /\ p # <<>> => Last(p).role # Last(q).role
  BY PopWell
<1>5. f.off \in R /\ f.size = Total(WriteRequest(f.msg), f.off)
  <2>1. n \in DOMAIN q
    BY <1>2
  <2> QED
    BY <1>2, <1>3, <2>1 DEF Well, Sized
<1>6. Well(R, Append(p, f)) /\ End(Append(p, f)) = f.off + f.size
  BY <1>3, <1>4, <1>5, PushWell
<1>7. /\ Append(p, f) # <<>>
      /\ Len(Append(p, f)) = n
      /\ DOMAIN Append(p, f) = 1 .. n
      /\ \A i \in 1 .. n - 1 : Append(p, f)[i] = p[i]
      /\ Append(p, f)[n] = f /\ Last(Append(p, f)) = f
  BY <1>2, <1>3, AppendedProperties
<1>8. End(q) = f.off + f.size
  BY <1>3 DEF End
<1>9. ASSUME NEW i \in DOMAIN q
      PROVE  /\ i \in DOMAIN Append(p, f)
             /\ Append(p, f)[i].role = q[i].role /\ Append(p, f)[i].msg = q[i].msg
             /\ Append(p, f)[i].arg = q[i].arg /\ Append(p, f)[i].off = q[i].off
             /\ Append(p, f)[i].size = q[i].size
  <2>1. CASE i = n
    BY <1>2, <1>3, <1>7, <2>1
  <2>2. CASE i # n
    <3>1. i \in 1 .. n - 1
      BY <1>2, <2>2
    <3> QED
      BY <1>2, <1>7, <3>1
  <2> QED
    BY <2>1, <2>2
<1> QED
  BY <1>2, <1>3, <1>6, <1>7, <1>8, <1>9

------------------------------------------------------------------------------
(* Two stacks that agree *)

LEMMA AgreeSymmetric ==
  ASSUME NEW q, NEW r, Agree(q, r)
  PROVE  Agree(r, q)
BY DEF Agree

LEMMA AgreeAfterPush ==
  ASSUME NEW R, NEW q, NEW r, Well(R, q), Well(R, r), Agree(q, r),
         Len(q) = Len(r), NEW f \in Frame
  PROVE  Agree(Append(q, f), r)
<1>1. q \in Seq(Frame) /\ r \in Seq(Frame)
  BY DEF Well
<1>2. /\ DOMAIN q = 1 .. Len(q) /\ \A i \in 1 .. Len(q) : Append(q, f)[i] = q[i]
  BY <1>1, AppendedProperties
<1>3. DOMAIN r = 1 .. Len(q)
  BY <1>1, LenProperties
<1> QED
  BY <1>2, <1>3 DEF Agree

LEMMA AgreeAfterPop ==
  ASSUME NEW R, NEW q, NEW r, Well(R, q), q # <<>>, Agree(q, r)
  PROVE  Agree(Front(q), r)
<1>1. /\ DOMAIN q = 1 .. Len(q) /\ Len(q) \in Nat
      /\ DOMAIN Front(q) = 1 .. Len(q) - 1
      /\ \A i \in 1 .. Len(q) - 1 : Front(q)[i] = q[i]
  BY FrontProperties DEF Well
<1>2. \A i \in 1 .. Len(q) - 1 : i \in 1 .. Len(q)
  BY <1>1
<1> QED
  BY <1>1, <1>2 DEF Agree

\* The callee's new frame is the caller's innermost call.
LEMMA AgreeAfterEntry ==
  ASSUME NEW R, NEW q, NEW r, Well(R, q), Well(R, r), Agree(q, r),
         Len(q) = Len(r) + 1, Last(q).role = "call",
         NEW f \in Frame, f.role = "proc", f.msg = Last(q).msg, f.arg = Last(q).arg,
         f.off = Last(q).off, f.size = Last(q).size
  PROVE  Agree(q, Append(r, f))
<1>1. q \in Seq(Frame) /\ r \in Seq(Frame)
  BY DEF Well
<1>2. /\ Len(r) \in Nat
      /\ DOMAIN r = 1 .. Len(r) /\ DOMAIN Append(r, f) = 1 .. Len(r) + 1
      /\ \A i \in 1 .. Len(r) : Append(r, f)[i] = r[i]
      /\ Append(r, f)[Len(r) + 1] = f
  BY <1>1, AppendedProperties
<1>3. DOMAIN q = 1 .. Len(r) + 1 /\ Last(q) = q[Len(r) + 1]
  BY <1>1, LenProperties DEF Last
<1>4. SUFFICES ASSUME NEW i \in 1 .. Len(r) + 1
               PROVE  LET g == q[i]
                          h == Append(r, f)[i]
                      IN  /\ {g.role, h.role} = {"call", "proc"}
                          /\ g.msg = h.msg /\ g.arg = h.arg /\ g.off = h.off /\ g.size = h.size
  BY <1>2, <1>3 DEF Agree
<1>5. CASE i = Len(r) + 1
  BY <1>2, <1>3, <1>5
<1>6. CASE i # Len(r) + 1
  <2>1. i \in 1 .. Len(r)
    BY <1>2, <1>6
  <2> QED
    BY <1>2, <1>3, <2>1 DEF Agree
<1> QED
  BY <1>5, <1>6

LEMMA AgreeAfterStore ==
  ASSUME NEW q, NEW r, NEW t, Agree(q, r), Len(t) = Len(q),
         DOMAIN t = DOMAIN q,
         \A i \in DOMAIN q : /\ t[i].role = q[i].role /\ t[i].msg = q[i].msg
                             /\ t[i].arg = q[i].arg /\ t[i].off = q[i].off
                             /\ t[i].size = q[i].size
  PROVE  Agree(t, r)
BY DEF Agree

\* Equally deep stacks end at the same offset, the innermost frames opposite;
\* of a stack one deeper, the innermost call starts where the other ends.
LEMMA AgreeEnds ==
  ASSUME NEW R, NEW q, NEW r, Well(R, q), Well(R, r), Agree(q, r)
  PROVE  /\ Len(q) = Len(r) => End(q) = End(r)
         /\ Len(q) = Len(r) /\ q # <<>> =>
              r # <<>> /\ {Last(q).role, Last(r).role} = {"call", "proc"}
         /\ Len(q) = Len(r) + 1 => q # <<>> /\ Last(q).off = End(r)
<1>1. q \in Seq(Frame) /\ r \in Seq(Frame)
  BY DEF Well
<1>2. /\ Len(q) \in Nat /\ Len(r) \in Nat
      /\ DOMAIN q = 1 .. Len(q) /\ DOMAIN r = 1 .. Len(r)
      /\ (q = <<>>) <=> (Len(q) = 0)
      /\ (r = <<>>) <=> (Len(r) = 0)
      /\ Last(q) = q[Len(q)] /\ Last(r) = r[Len(r)]
  BY <1>1, LenProperties, EmptySeq DEF Last
<1>3. \A i \in DOMAIN q \cap DOMAIN r :
        /\ {q[i].role, r[i].role} = {"call", "proc"}
        /\ q[i].off = r[i].off /\ q[i].size = r[i].size
  BY DEF Agree
<1>4. ASSUME Len(q) = Len(r)
      PROVE  /\ End(q) = End(r)
             /\ q # <<>> => r # <<>> /\ {Last(q).role, Last(r).role} = {"call", "proc"}
  <2>1. CASE q = <<>>
    BY <1>2, <1>4, <2>1 DEF End
  <2>2. CASE q # <<>>
    <3>1. Len(q) \in DOMAIN q \cap DOMAIN r
      BY <1>2, <1>4, <2>2
    <3> QED
      BY <1>2, <1>3, <1>4, <2>2, <3>1 DEF End
  <2> QED
    BY <2>1, <2>2
<1>5. ASSUME Len(q) = Len(r) + 1
      PROVE  q # <<>> /\ Last(q).off = End(r)
  <2>1. Last(q).off = IF Len(q) = 1 THEN 0 ELSE q[Len(q)-1].off + q[Len(q)-1].size
    <3>1. Len(q) \in DOMAIN q
      BY <1>2, <1>5
    <3> QED
      BY <1>2, <3>1 DEF Well, Stacked
  <2>2. CASE r = <<>>
    BY <1>2, <1>5, <2>1, <2>2 DEF End
  <2>3. CASE r # <<>>
    <3>1. Len(q) # 1 /\ Len(q) - 1 = Len(r) /\ Len(r) \in DOMAIN q \cap DOMAIN r
      BY <1>2, <1>5, <2>3
    <3> QED
      BY <1>2, <1>3, <1>5, <2>1, <2>3, <3>1 DEF End
  <2> QED
    BY <2>2, <2>3, <1>2, <1>5
<1> QED
  BY <1>4, <1>5

------------------------------------------------------------------------------
(* Whose turn it is *)

LEMMA TurnOfCode ==
  ASSUME NEW R, IInv(R), NEW s \in Sides, InCode(s)
  PROVE  Running(s)
<1>1. ~Gone(s) /\ pc[s] = "code"
  BY DEF InCode, Gone
<1>2. \E t \in Sides : Running(t) \/ Asked(t) \/ Answered(t) \/ Handover(t)
  BY <1>1 DEF IInv, Turn
<1>3. PICK t \in Sides : Running(t) \/ Asked(t) \/ Answered(t) \/ Handover(t)
  BY <1>2
<1>4. s = t \/ s = Peer(t)
  BY DEF Sides, Peer
<1>5. pc[Peer(t)] # "code" /\ (~Running(t) => pc[t] # "code")
  BY <1>3 DEF Running, Asked, Answered, Waiting, Handover
<1> QED
  BY <1>1, <1>3, <1>4, <1>5

LEMMA TurnOfReader ==
  ASSUME NEW R, IInv(R), NEW s \in Sides, Up(s), pc[s] = "receive", pipe[s] # <<>>
  PROVE  /\ Incoming(s).type = "request" => Asked(Peer(s))
         /\ Incoming(s).type = "return" => Answered(s) \/ Handover(s)
<1>1. ~Gone(s)
  BY DEF Gone
<1>2. \E t \in Sides : Running(t) \/ Asked(t) \/ Answered(t) \/ Handover(t)
  BY <1>1 DEF IInv, Turn
<1>3. PICK t \in Sides : Running(t) \/ Asked(t) \/ Answered(t) \/ Handover(t)
  BY <1>2
<1>4. (s = t /\ t = Peer(Peer(s))) \/ (s = Peer(t) /\ t = Peer(s))
  BY DEF Sides, Peer
<1>5. CASE Running(t)
  BY <1>4, <1>5 DEF Running
<1>6. CASE Asked(t)
  <2>1. s = Peer(t) /\ t = Peer(s)
    BY <1>4, <1>6 DEF Asked
  <2>2. Incoming(s).type = "request"
    BY <1>6, <2>1 DEF Asked, Incoming
  <2> QED
    BY <1>6, <2>1, <2>2
<1>7. CASE Answered(t)
  <2>1. s = t
    BY <1>4, <1>7 DEF Answered
  <2>2. Incoming(s).type = "return"
    BY <1>7, <2>1 DEF Answered, Incoming
  <2> QED
    BY <1>7, <2>1, <2>2
<1>8. CASE Handover(t)
  <2>1. s = t
    BY <1>4, <1>8 DEF Handover
  <2>2. Incoming(s).type = "return"
    BY <1>8, <2>1 DEF Handover, Incoming, Answerless
  <2> QED
    BY <1>8, <2>1, <2>2
<1> QED
  BY <1>3, <1>5, <1>6, <1>7, <1>8

LEMMA AgreeBothWays ==
  ASSUME NEW R, IInv(R), NEW s \in Sides
  PROVE  /\ Peer(s) \in Sides /\ Peer(s) # s /\ Peer(Peer(s)) = s
         /\ Agree(stack[s], stack[Peer(s)])
<1>1. Peer(s) \in Sides /\ Peer(s) # s /\ Peer(Peer(s)) = s
  BY DEF Sides, Peer
<1>2. CASE s = "client"
  BY <1>1, <1>2 DEF IInv, Peer
<1>3. CASE s = "server"
  BY <1>1, <1>3, AgreeSymmetric DEF IInv, Peer
<1> QED
  BY <1>1, <1>2, <1>3 DEF Sides

LEMMA PutType ==
  ASSUME NEW m, m \subseteq Extent, NEW places, places \subseteq [lo : Nat, hi : Nat],
         NEW d \in Values
  PROVE  Put(m, places, d) \subseteq Extent
<1>1. ASSUME NEW p \in places
      PROVE  [lo |-> p.lo, hi |-> p.hi, val |-> d] \in Extent
  BY DEF Extent
<1> QED
  BY <1>1 DEF Put

\* The parts of the invariant that an action on the end s must restore; the
\* stack of the other end and its offset stay as they are.
LEMMA Restored ==
  ASSUME NEW R, IInv(R), NEW s \in Sides,
         TypeOK', OneInFlight', Turn',
         Well(R, stack'[s]), stack'[Peer(s)] = stack[Peer(s)],
         Agree(stack'[s], stack[Peer(s)]),
         health'[s] = "up" => offset'[s] = End(stack'[s]),
         offset'[Peer(s)] = offset[Peer(s)],
         health'[Peer(s)] = "up" => health[Peer(s)] = "up"
  PROVE  IInv(R)'
<1>1. ASSUME NEW t \in Sides
      PROVE  Well(R, stack'[t]) /\ (Up(t)' => offset'[t] = End(stack'[t]))
  <2>1. t = s \/ t = Peer(s)
    BY DEF Sides, Peer
  <2>2. Well(R, stack[Peer(s)]) /\ (Up(Peer(s)) => offset[Peer(s)] = End(stack[Peer(s)]))
    BY AgreeBothWays DEF IInv
  <2> QED
    BY <2>1, <2>2 DEF Up
<1>2. Agree(stack'["client"], stack'["server"])
  BY AgreeSymmetric DEF Sides, Peer
<1> QED
  BY <1>1, <1>2 DEF IInv

------------------------------------------------------------------------------
(* The actions *)

\* What is known at an end whose code runs.
LEMMA CodeFacts ==
  ASSUME NEW R, IInv(R), NEW s \in Sides, InCode(s)
  PROVE  /\ Well(R, stack[s]) /\ Well(R, stack[Peer(s)])
         /\ offset[s] = End(stack[s])
         /\ health[s] = "up" /\ pc[s] = "code" /\ pc[Peer(s)] = "receive"
         /\ pipe[s] = <<>> /\ pipe[Peer(s)] = <<>>
         /\ Len(stack[s]) = Len(stack[Peer(s)])
         /\ stack[s] # <<>> => Top(s).role = "proc"
BY TurnOfCode, AgreeBothWays DEF IInv, Running, InCode, Up

\* message_write keeps the pipes typed, at most one packet in them, and leaves
\* both ends gone when it fails.
LEMMA Transmitted ==
  ASSUME NEW R, IInv(R), NEW s \in Sides, health[s] = "up",
         pipe[s] = <<>>, pipe[Peer(s)] = <<>>, pc[Peer(s)] = "receive",
         NEW packet \in Packet, Transmit(s, packet),
         pc'[s] \in {"receive", "done"}, pc'[Peer(s)] = pc[Peer(s)]
  PROVE  /\ pipe' \in [Sides -> Seq(Packet)]
         /\ health' \in [Sides -> {"up", "failed", "dead"}]
         /\ OneInFlight'
         /\ health'[Peer(s)] = health[Peer(s)]
         /\ \/ (\A t \in Sides : Gone(t))' /\ Gone(Peer(s))
            \/ pipe'[s] = <<>> /\ pipe'[Peer(s)] = <<packet>> /\ ~Gone(Peer(s))
<1>1. Peer(s) \in Sides /\ Peer(s) # s /\ \A t \in Sides : t = s \/ t = Peer(s)
  BY DEF Sides, Peer
<1>2. /\ pipe \in [Sides -> Seq(Packet)]
      /\ health \in [Sides -> {"up", "failed", "dead"}]
  BY DEF IInv, TypeOK
<1>3. \A t \in Sides : pc'[t] # "code"
  BY <1>1
<1>4. CASE Gone(Peer(s))
  <2>1. pipe' = pipe /\ health' = [health EXCEPT ![s] = "failed"]
    BY <1>4 DEF Transmit
  <2>2. /\ health'[s] = "failed" /\ health'[Peer(s)] = health[Peer(s)]
        /\ health' \in [Sides -> {"up", "failed", "dead"}]
    BY <1>1, <1>2, <2>1
  <2>3. (\A t \in Sides : Gone(t))'
    BY <1>1, <1>4, <2>2 DEF Gone, Up
  <2>4. OneInFlight'
    BY <1>3, <2>1 DEF IInv, OneInFlight
  <2> QED
    BY <1>2, <1>4, <2>1, <2>2, <2>3, <2>4
<1>5. CASE ~Gone(Peer(s))
  <2>1. /\ pipe' = [pipe EXCEPT ![Peer(s)] = Append(@, packet)]
        /\ health' = health
    BY <1>5 DEF Transmit
  <2>2. /\ pipe'[s] = <<>> /\ pipe'[Peer(s)] = <<packet>>
        /\ pipe' \in [Sides -> Seq(Packet)]
    BY <1>1, <1>2, <2>1
  <2>3. Len(pipe'[s]) = 0 /\ Len(pipe'[Peer(s)]) = 1
    BY <2>2
  <2>4. Len(pipe'["client"]) + Len(pipe'["server"]) <= 1
    <3>1. \/ s = "client" /\ Peer(s) = "server"
          \/ s = "server" /\ Peer(s) = "client"
      BY DEF Sides, Peer
    <3>2. \/ Len(pipe'["client"]) = 0 /\ Len(pipe'["server"]) = 1
          \/ Len(pipe'["client"]) = 1 /\ Len(pipe'["server"]) = 0
      BY <2>3, <3>1
    <3>3. \A a, b \in Nat : (a = 0 /\ b = 1) \/ (a = 1 /\ b = 0) => a + b <= 1
      OBVIOUS
    <3> QED
      BY <3>2, <3>3
  <2>5. OneInFlight'
    BY <1>3, <2>4 DEF OneInFlight
  <2> QED
    BY <1>2, <1>5, <2>1, <2>2, <2>5
<1> QED
  BY <1>4, <1>5

LEMMA SendKeepsInv ==
  ASSUME NEW R, LayoutsAgree(R), IInv(R), NEW s \in Sides,
         NEW m \in CallsOf(s), NEW d \in Data, SendMessage(s, m, d)
  PROVE  IInv(R)'
<1> DEFINE off  == offset[s]
           size == Total(WriteRequest(m), off)
           f == [role |-> "call", msg |-> m, off |-> off, size |-> size,
                 arg |-> d, seen |-> {}, res |-> None]
           packet == [type |-> "request", msg |-> m, arg |-> d]
<1>1. /\ stack' = [stack EXCEPT ![s] = Append(@, f)]
      /\ offset' = [offset EXCEPT ![s] = @ + size]
      /\ mem' = Put(mem, RequestPlaces(m, off), d)
      /\ pc' = [pc EXCEPT ![s] = "receive"]
      /\ Transmit(s, packet)
      /\ got' = {} /\ primary' = primary /\ created' = created
      /\ InCode(s)
  BY DEF SendMessage, ShmPush
<1>2. /\ Well(R, stack[s]) /\ Well(R, stack[Peer(s)])
      /\ offset[s] = End(stack[s])
      /\ health[s] = "up" /\ pc[s] = "code" /\ pc[Peer(s)] = "receive"
      /\ pipe[s] = <<>> /\ pipe[Peer(s)] = <<>>
      /\ Len(stack[s]) = Len(stack[Peer(s)])
      /\ stack[s] # <<>> => Top(s).role = "proc"
  BY <1>1, CodeFacts
<1>3. Peer(s) \in Sides /\ Peer(s) # s /\ Agree(stack[s], stack[Peer(s)])
  BY AgreeBothWays
<1>4. TypeOK
  BY DEF IInv
<1>5. m \in Messages
  BY DEF CallsOf, Messages
<1>6. off \in R
  BY <1>2, EndInR
<1>7. off \in Nat /\ size \in Nat /\ RequestPlaces(m, off) \subseteq [lo : Nat, hi : Nat]
  BY <1>5, <1>6 DEF LayoutsAgree
<1>8. f \in Frame /\ packet \in Packet
  BY <1>5, <1>7 DEF Frame, Packet, Values
<1> HIDE DEF f, packet, size, off
<1>9. /\ stack'[s] = Append(stack[s], f) /\ stack'[Peer(s)] = stack[Peer(s)]
      /\ offset'[s] = off + size /\ offset'[Peer(s)] = offset[Peer(s)]
      /\ pc'[s] = "receive" /\ pc'[Peer(s)] = "receive"
      /\ stack' \in [Sides -> Seq(Frame)] /\ offset' \in [Sides -> Nat]
      /\ pc' \in [Sides -> {"code", "receive", "done"}]
  <2>1. Append(stack[s], f) \in Seq(Frame)
    BY <1>2, <1>8, AppendedProperties DEF Well
  <2> QED
    BY <1>1, <1>2, <1>3, <1>4, <1>7, <2>1 DEF TypeOK, off
<1>10. Well(R, stack'[s]) /\ End(stack'[s]) = off + size
  <2>1. /\ f.off = End(stack[s]) /\ f.off \in R /\ f.size = Total(WriteRequest(f.msg), f.off)
        /\ f.role = "call" /\ f.off = off /\ f.size = size
    BY <1>2, <1>6 DEF f, off, size
  <2>2. stack[s] # <<>> => Last(stack[s]).role # f.role
    BY <1>2, <2>1 DEF Top
  <2>3. Well(R, Append(stack[s], f)) /\ End(Append(stack[s], f)) = f.off + f.size
    BY <1>2, <1>8, <2>1, <2>2, PushWell
  <2> QED
    BY <1>9, <2>1, <2>3
<1>11. Agree(stack'[s], stack[Peer(s)])
  BY <1>2, <1>3, <1>8, <1>9, AgreeAfterPush
<1>12. /\ pipe' \in [Sides -> Seq(Packet)]
       /\ health' \in [Sides -> {"up", "failed", "dead"}]
       /\ OneInFlight'
       /\ health'[Peer(s)] = health[Peer(s)]
       /\ \/ (\A t \in Sides : Gone(t))'
          \/ pipe'[s] = <<>> /\ pipe'[Peer(s)] = <<packet>>
  BY <1>1, <1>2, <1>8, <1>9, Transmitted
<1>13. TypeOK'
  <2>1. mem' \subseteq Extent
    BY <1>1, <1>4, <1>7, PutType DEF TypeOK, Values
  <2> QED
    BY <1>1, <1>4, <1>9, <1>12, <2>1 DEF TypeOK
<1>14. Turn'
  <2>1. CASE (\A t \in Sides : Gone(t))'
    BY <2>1 DEF Turn
  <2>2. CASE pipe'[s] = <<>> /\ pipe'[Peer(s)] = <<packet>>
    <3>1. Len(stack'[s]) = Len(stack'[Peer(s)]) + 1 /\ Last(stack'[s]) = f
      BY <1>2, <1>8, <1>9, AppendedProperties DEF Well
    <3>2. Waiting(s)'
      BY <1>9, <3>1 DEF Waiting, Top, f
    <3>3. Asked(s)'
      BY <2>2, <3>1, <3>2 DEF Asked, Top, f, packet
    <3> QED
      BY <3>3 DEF Turn
  <2> QED
    BY <1>12, <2>1, <2>2
<1> QED
  BY <1>9, <1>10, <1>11, <1>12, <1>13, <1>14, Restored

\* What is known at an end that reads; the pipes are empty afterwards.
LEMMA Taken ==
  ASSUME NEW R, IInv(R), NEW s \in Sides, NEW type, Take(s, type)
  PROVE  /\ Up(s) /\ Well(R, stack[s]) /\ Well(R, stack[Peer(s)])
         /\ offset[s] = End(stack[s])
         /\ pipe' = [pipe EXCEPT ![s] = <<>>] /\ health' = health /\ primary' = primary
         /\ type = "request" => Asked(Peer(s))
         /\ type = "return" => Answered(s) \/ Handover(s)
         /\ pipe[Peer(s)] = <<>> =>
              /\ pipe'[s] = <<>> /\ pipe'[Peer(s)] = <<>> /\ pipe' \in [Sides -> Seq(Packet)]
<1>1. Up(s) /\ pc[s] = "receive" /\ pipe[s] # <<>> /\ Incoming(s).type = type
  BY DEF Take
<1>2. pipe' = [pipe EXCEPT ![s] = <<>>] /\ health' = health /\ primary' = primary
  BY DEF Take
<1>3. pipe \in [Sides -> Seq(Packet)]
  BY DEF IInv, TypeOK
<1>4. Peer(s) \in Sides /\ Peer(s) # s
  BY DEF Sides, Peer
<1>5. Well(R, stack[s]) /\ Well(R, stack[Peer(s)]) /\ offset[s] = End(stack[s])
  BY <1>1, <1>4 DEF IInv
<1>6. <<>> \in Seq(Packet)
  BY EmptySeq
<1>7. /\ pipe[Peer(s)] = <<>> =>
              /\ pipe'[s] = <<>> /\ pipe'[Peer(s)] = <<>> /\ pipe' \in [Sides -> Seq(Packet)]
  BY <1>2, <1>3, <1>4, <1>6
<1> QED
  BY <1>1, <1>2, <1>5, <1>7, TurnOfReader

\* One end in its code or reading, the other reading, and empty pipes.
LEMMA QuietPipes ==
  ASSUME NEW s \in Sides, pipe'[s] = <<>>, pipe'[Peer(s)] = <<>>,
         pc'[Peer(s)] = "receive"
  PROVE  OneInFlight'
<1>1. \/ s = "client" /\ Peer(s) = "server"
      \/ s = "server" /\ Peer(s) = "client"
  BY DEF Sides, Peer
<1>2. pipe'["client"] = <<>> /\ pipe'["server"] = <<>>
  BY <1>1
<1>3. Len(pipe'["client"]) + Len(pipe'["server"]) <= 1
  BY <1>2
<1>4. \A t \in Sides : pc'[t] = "code" => pc'[Peer(t)] = "receive"
  BY <1>1 DEF Sides, Peer
<1> QED
  BY <1>2, <1>3, <1>4 DEF OneInFlight

LEMMA ReadAtType ==
  ASSUME NEW m, NEW places
  PROVE  ReadAt(m, places) \subseteq Values
<1>1. ASSUME NEW p \in places
      PROVE  At(m, p) \in Values
  BY DEF At, Values
<1> QED
  BY <1>1 DEF ReadAt

LEMMA ReceiveKeepsInv ==
  ASSUME NEW R, LayoutsAgree(R), IInv(R), NEW s \in Sides, Receive(s)
  PROVE  IInv(R)'
<1> DEFINE p == Peer(s)
           m == Incoming(s).msg
           off == offset[s]
           size == Total(MapRequest(m), off)
           f == [role |-> "proc", msg |-> m, off |-> off, size |-> size,
                 arg |-> Incoming(s).arg,
                 seen |-> {Incoming(s).arg} \cup ReadAt(mem, ArgumentPlaces(m, off)),
                 res |-> None]
<1>1. /\ Take(s, "request")
      /\ stack' = [stack EXCEPT ![s] = Append(@, f)]
      /\ offset' = [offset EXCEPT ![s] = @ + size]
      /\ pc' = [pc EXCEPT ![s] = "code"]
      /\ created' = created /\ mem' = mem /\ got' = {}
  BY DEF Receive, ShmPush
<1>2. /\ Up(s) /\ Well(R, stack[s]) /\ Well(R, stack[p])
      /\ off = End(stack[s])
      /\ pipe' = [pipe EXCEPT ![s] = <<>>] /\ health' = health /\ primary' = primary
      /\ Asked(p)
  BY <1>1, Taken
<1>3. p \in Sides /\ p # s /\ Peer(p) = s /\ Agree(stack[s], stack[p]) /\ Agree(stack[p], stack[s])
  BY AgreeBothWays
<1>4. /\ pipe[p] = <<>>
      /\ pipe[s] = <<[type |-> "request", msg |-> Top(p).msg, arg |-> Top(p).arg]>>
      /\ pc[p] = "receive"
      /\ Len(stack[p]) = Len(stack[s]) + 1
      /\ Top(p).role = "call"
  BY <1>2, <1>3 DEF Asked, Waiting
<1>5. m = Top(p).msg /\ Incoming(s).arg = Top(p).arg
  BY <1>4 DEF Incoming
<1>6. stack[p] # <<>> /\ Top(p).off = off
  BY <1>2, <1>3, <1>4, AgreeEnds DEF Top
<1>7. /\ Top(p) \in Frame /\ Top(p).msg \in Messages /\ Top(p).off \in R
      /\ Top(p).size = Total(WriteRequest(Top(p).msg), Top(p).off)
  BY <1>2, <1>6, LastOfWell DEF Top
<1>8. size = Total(WriteRequest(m), off) /\ size \in Nat /\ off \in Nat /\ off \in R
  BY <1>5, <1>6, <1>7 DEF LayoutsAgree
<1>9. f \in Frame
  <2>1. Incoming(s).arg \in Values /\ m \in Messages /\ Incoming(s).arg \in Data
    BY <1>5, <1>7 DEF Frame, Values
  <2>2. f.seen \subseteq Values
    BY <2>1, ReadAtType
  <2> QED
    BY <1>8, <2>1, <2>2 DEF Frame, Values
<1>10. /\ f.role = "proc" /\ f.msg = Top(p).msg /\ f.arg = Top(p).arg
       /\ f.off = off /\ f.off = Top(p).off /\ f.size = size /\ f.size = Top(p).size
  BY <1>5, <1>6, <1>7, <1>8
<1> HIDE DEF f, size, m
<1>11. TypeOK
  BY DEF IInv
<1>12. /\ stack'[s] = Append(stack[s], f) /\ stack'[p] = stack[p]
       /\ offset'[s] = off + size /\ offset'[p] = offset[p]
       /\ pc'[s] = "code" /\ pc'[p] = "receive"
       /\ stack' \in [Sides -> Seq(Frame)] /\ offset' \in [Sides -> Nat]
       /\ pc' \in [Sides -> {"code", "receive", "done"}]
  <2>1. Append(stack[s], f) \in Seq(Frame)
    BY <1>2, <1>9, AppendedProperties DEF Well
  <2> QED
    BY <1>1, <1>3, <1>4, <1>8, <1>11, <2>1 DEF TypeOK
<1>13. Well(R, stack'[s]) /\ End(stack'[s]) = off + size
  <2>1. stack[s] # <<>> => Last(stack[s]).role = "call"
    \* the frame below the caller's innermost call is what the callee is in
    <3>1. Agree(Front(stack[p]), stack[s])
      BY <1>2, <1>3, <1>6, AgreeAfterPop
    <3>2. /\ Well(R, Front(stack[p])) /\ Len(Front(stack[p])) = Len(stack[s])
          /\ Front(stack[p]) # <<>> => Last(Front(stack[p])).role # Top(p).role
      <4>1. /\ Well(R, Front(stack[p])) /\ Len(Front(stack[p])) = Len(stack[p]) - 1
            /\ Front(stack[p]) # <<>> => Last(Front(stack[p])).role # Last(stack[p]).role
        BY <1>2, <1>6, PopWell
      <4>2. Len(stack[s]) \in Nat
        BY <1>2, LenProperties DEF Well
      <4> QED
        BY <1>4, <4>1, <4>2 DEF Top
    <3>3. stack[s] # <<>> => /\ Front(stack[p]) # <<>>
                             /\ {Last(stack[s]).role, Last(Front(stack[p])).role} = {"call", "proc"}
      BY <1>2, <3>1, <3>2, AgreeEnds, AgreeSymmetric
    <3> QED
      BY <1>4, <3>2, <3>3
  <2>2. /\ f.off = End(stack[s]) /\ f.off \in R
        /\ f.size = Total(WriteRequest(f.msg), f.off)
        /\ stack[s] # <<>> => Last(stack[s]).role # f.role
    BY <1>2, <1>7, <1>10, <2>1
  <2>3. Well(R, Append(stack[s], f)) /\ End(Append(stack[s], f)) = f.off + f.size
    BY <1>2, <1>9, <2>2, PushWell
  <2> QED
    BY <1>10, <1>12, <2>3
<1>14. Agree(stack'[s], stack[p])
  <2>1. Agree(stack[p], Append(stack[s], f))
    BY <1>2, <1>3, <1>4, <1>9, <1>10, AgreeAfterEntry DEF Top
  <2> QED
    BY <1>12, <2>1, AgreeSymmetric
<1>15. /\ pipe'[s] = <<>> /\ pipe'[p] = <<>> /\ pipe' \in [Sides -> Seq(Packet)]
  BY <1>1, <1>4, Taken
<1>16. TypeOK'
  BY <1>1, <1>2, <1>11, <1>12, <1>15 DEF TypeOK
<1>17. OneInFlight'
  BY <1>12, <1>15, QuietPipes
<1>18. Turn'
  <2>1. /\ Len(stack'[s]) = Len(stack'[p]) /\ Last(stack'[s]) = f
    BY <1>2, <1>4, <1>9, <1>12, AppendedProperties DEF Well
  <2>2. Running(s)'
    BY <1>10, <1>12, <1>15, <2>1 DEF Running, Top
  <2> QED
    BY <2>2 DEF Turn
<1> QED
  BY <1>2, <1>12, <1>13, <1>14, <1>16, <1>17, <1>18, Restored DEF Up

LEMMA DecideKeepsInv ==
  ASSUME NEW R, LayoutsAgree(R), IInv(R), NEW s \in Sides, NEW d \in Data, Decide(s, d)
  PROVE  IInv(R)'
<1> DEFINE q == stack[s]
           r == Append(Front(q), [Last(q) EXCEPT !.res = d])
<1>1. /\ InCode(s) /\ q # <<>>
      /\ mem' = Put(mem, OutputPlaces(Top(s).msg, Top(s).off), d)
      /\ stack' = [stack EXCEPT ![s] = r]
      /\ got' = {} /\ primary' = primary /\ created' = created /\ pc' = pc
      /\ health' = health /\ pipe' = pipe /\ offset' = offset
  BY DEF Decide, Called
<1>2. /\ Well(R, q) /\ Well(R, stack[Peer(s)])
      /\ offset[s] = End(q) /\ Running(s) /\ Top(s).role = "proc"
      /\ Len(q) = Len(stack[Peer(s)])
  BY <1>1, CodeFacts, TurnOfCode
<1>3. Peer(s) \in Sides /\ Peer(s) # s /\ Agree(q, stack[Peer(s)])
  BY AgreeBothWays
<1>4. TypeOK /\ OneInFlight
  BY DEF IInv
<1>5. /\ Well(R, r) /\ End(r) = End(q) /\ Len(r) = Len(q) /\ r # <<>>
      /\ DOMAIN r = DOMAIN q /\ Last(r).role = Last(q).role
      /\ \A i \in DOMAIN q : /\ r[i].role = q[i].role /\ r[i].msg = q[i].msg
                             /\ r[i].arg = q[i].arg /\ r[i].off = q[i].off
                             /\ r[i].size = q[i].size
  BY <1>1, <1>2, StoreWell DEF Values
<1>6. Agree(r, stack[Peer(s)])
  BY <1>3, <1>5, AgreeAfterStore
<1> HIDE DEF r
<1>7. /\ stack'[s] = r /\ stack'[Peer(s)] = stack[Peer(s)]
      /\ stack' \in [Sides -> Seq(Frame)]
  BY <1>1, <1>3, <1>4, <1>5 DEF TypeOK, Well
<1>8. mem' \subseteq Extent
  <2>1. OutputPlaces(Top(s).msg, Top(s).off) \subseteq [lo : Nat, hi : Nat]
    BY <1>1, <1>2, LastOfWell DEF LayoutsAgree, Top
  <2> QED
    BY <1>1, <1>4, <2>1, PutType DEF TypeOK, Values
<1>9. TypeOK'
  BY <1>1, <1>4, <1>7, <1>8 DEF TypeOK
<1>10. OneInFlight'
  BY <1>1, <1>4 DEF OneInFlight
<1>11. Running(s)'
  BY <1>1, <1>2, <1>5, <1>7 DEF Running, Top
<1>12. Turn'
  BY <1>11 DEF Turn
<1> QED
  BY <1>1, <1>2, <1>5, <1>6, <1>7, <1>9, <1>10, <1>12, Restored DEF Up

LEMMA ReplyKeepsInv ==
  ASSUME NEW R, LayoutsAgree(R), IInv(R), NEW s \in Sides, Reply(s)
  PROVE  IInv(R)'
<1> DEFINE p == Peer(s)
           q == stack[s]
           t == Last(q)
           packet == [type |-> "return", res |-> t.res]
<1>1. /\ InCode(s) /\ q # <<>> /\ t.res # None
      /\ mem' = Put(mem, AnswerPlaces(t.msg, t.off), t.res)
      /\ offset' = [offset EXCEPT ![s] = @ - t.size]
      /\ IF Gone(p) THEN stack' = stack /\ got' = got
                    ELSE stack' = [stack EXCEPT ![s] = Front(@)] /\ got' = {}
      /\ Transmit(s, packet)
      /\ pc' = [pc EXCEPT ![s] = "receive"]
      /\ primary' = primary /\ created' = created
  BY DEF Reply, Called, Top, Pop, ShmPop
<1>2. /\ Well(R, q) /\ Well(R, stack[p])
      /\ offset[s] = End(q) /\ health[s] = "up"
      /\ pc[s] = "code" /\ pc[p] = "receive"
      /\ pipe[s] = <<>> /\ pipe[p] = <<>>
      /\ Len(q) = Len(stack[p]) /\ t.role = "proc"
  BY <1>1, CodeFacts DEF Top
<1>3. p \in Sides /\ p # s /\ Peer(p) = s /\ Agree(q, stack[p])
  BY AgreeBothWays
<1>4. TypeOK
  BY DEF IInv
<1>5. /\ t \in Frame /\ t.msg \in Messages /\ t.off \in R /\ t.res \in Data /\ t.res \in Values
      /\ t.off \in Nat /\ t.size \in Nat
  <2>1. t \in Frame /\ t.msg \in Messages /\ t.off \in R
    BY <1>1, <1>2, LastOfWell
  <2> QED
    BY <1>1, <2>1 DEF Frame, Values
<1>6. packet \in Packet
  BY <1>5 DEF Packet
<1>7. End(q) - t.size = t.off
  BY <1>1, <1>5 DEF End
<1>8. /\ offset'[s] = t.off /\ offset'[p] = offset[p] /\ offset' \in [Sides -> Nat]
      /\ pc'[s] = "receive" /\ pc'[p] = "receive"
      /\ pc' \in [Sides -> {"code", "receive", "done"}]
  BY <1>1, <1>2, <1>3, <1>4, <1>5, <1>7 DEF TypeOK
<1>9. mem' \subseteq Extent
  <2>1. AnswerPlaces(t.msg, t.off) \subseteq [lo : Nat, hi : Nat]
    BY <1>5 DEF LayoutsAgree
  <2> QED
    BY <1>1, <1>4, <1>5, <2>1, PutType DEF TypeOK
<1>10. /\ pipe' \in [Sides -> Seq(Packet)]
       /\ health' \in [Sides -> {"up", "failed", "dead"}]
       /\ OneInFlight'
       /\ health'[p] = health[p]
       /\ \/ (\A u \in Sides : Gone(u))' /\ Gone(p)
          \/ pipe'[s] = <<>> /\ pipe'[p] = <<packet>> /\ ~Gone(p)
  BY <1>1, <1>2, <1>6, <1>8, Transmitted
<1>11. CASE Gone(p)
  <2>1. stack' = stack /\ got' = got
    BY <1>1, <1>11
  <2>2. (\A u \in Sides : Gone(u))'
    BY <1>10, <1>11
  <2>3. TypeOK'
    BY <1>1, <1>4, <1>8, <1>9, <1>10, <2>1 DEF TypeOK
  <2>4. Turn'
    BY <2>2 DEF Turn
  <2>5. health'[s] # "up"
    BY <1>8, <2>2 DEF Gone, Up
  <2> QED
    BY <1>2, <1>3, <1>8, <1>10, <2>1, <2>3, <2>4, <2>5, Restored
<1>12. CASE ~Gone(p)
  <2>1. stack' = [stack EXCEPT ![s] = Front(@)] /\ got' = {}
    BY <1>1, <1>12
  <2>2. /\ Well(R, Front(q)) /\ End(Front(q)) = t.off /\ Len(Front(q)) = Len(q) - 1
    BY <1>1, <1>2, PopWell
  <2>3. /\ stack'[s] = Front(q) /\ stack'[p] = stack[p] /\ stack' \in [Sides -> Seq(Frame)]
    BY <1>3, <1>4, <2>1, <2>2 DEF TypeOK, Well
  <2>4. Agree(Front(q), stack[p])
    BY <1>1, <1>2, <1>3, AgreeAfterPop
  <2>5. TypeOK'
    BY <1>1, <1>4, <1>8, <1>9, <1>10, <2>1, <2>3 DEF TypeOK
  <2>6. Answered(p)'
    <3>1. stack[p] # <<>> /\ Last(stack[p]).role = "call"
      <4>1. Len(q) = Len(stack[p]) /\ q # <<>> =>
              stack[p] # <<>> /\ {t.role, Last(stack[p]).role} = {"call", "proc"}
        BY <1>2, <1>3, AgreeEnds
      <4> QED
        BY <1>1, <1>2, <4>1
    <3>2. Len(stack'[p]) = Len(stack'[s]) + 1
      <4>1. Len(q) \in Nat
        BY <1>2, LenProperties DEF Well
      <4> QED
        BY <1>2, <2>2, <2>3, <4>1
    <3>3. Waiting(p)'
      BY <1>3, <1>8, <2>3, <3>1, <3>2 DEF Waiting, Top
    <3> QED
      BY <1>3, <1>5, <1>10, <1>12, <3>3 DEF Answered
  <2>7. Turn'
    BY <1>3, <2>6 DEF Turn
  <2> QED
    BY <1>2, <1>3, <1>8, <1>10, <2>2, <2>3, <2>4, <2>5, <2>7, Restored
<1> QED
  BY <1>11, <1>12

LEMMA ReturnKeepsInv ==
  ASSUME NEW R, LayoutsAgree(R), IInv(R), NEW s \in Sides, Return(s)
  PROVE  IInv(R)'
<1> DEFINE p == Peer(s)
           q == stack[s]
           t == Last(q)
<1>1. /\ Take(s, "return") /\ q # <<>>
      /\ got' = {Incoming(s).res} \cup ReadAt(mem, ResultPlaces(t.msg, t.off))
      /\ mem' = {e \in mem : e.hi <= t.off}
      /\ offset' = [offset EXCEPT ![s] = @ - t.size]
      /\ stack' = [stack EXCEPT ![s] = Front(@)]
      /\ pc' = [pc EXCEPT ![s] = "code"]
      /\ created' = created
  BY DEF Return, Top, Pop, ShmPop, AnswerAt
<1>2. /\ Up(s) /\ Well(R, q) /\ Well(R, stack[p])
      /\ offset[s] = End(q)
      /\ pipe' = [pipe EXCEPT ![s] = <<>>] /\ health' = health /\ primary' = primary
      /\ Answered(s) \/ Handover(s)
  BY <1>1, Taken
<1>3. p \in Sides /\ p # s /\ Peer(p) = s /\ Agree(q, stack[p])
  BY AgreeBothWays
<1>4. TypeOK
  BY DEF IInv
<1>5. Answered(s)
  BY <1>1, <1>2 DEF Handover
<1>6. /\ pipe[p] = <<>> /\ pc[p] = "receive"
      /\ Len(q) = Len(stack[p]) + 1 /\ t.role = "call"
      /\ \E d \in Data : pipe[s] = <<[type |-> "return", res |-> d]>>
  BY <1>5 DEF Answered, Waiting, Top
<1>7. Incoming(s).res \in Values
  BY <1>6 DEF Incoming, Values
<1>8. t \in Frame /\ t.off \in Nat /\ t.size \in Nat
  <2>1. t \in Frame
    BY <1>1, <1>2, LastOfWell
  <2> QED
    BY <2>1 DEF Frame
<1>9. End(q) - t.size = t.off
  BY <1>1, <1>8 DEF End
<1>10. /\ offset'[s] = t.off /\ offset'[p] = offset[p] /\ offset' \in [Sides -> Nat]
       /\ pc'[s] = "code" /\ pc'[p] = "receive"
       /\ pc' \in [Sides -> {"code", "receive", "done"}]
  BY <1>1, <1>2, <1>3, <1>4, <1>6, <1>8, <1>9 DEF TypeOK
<1>11. /\ Well(R, Front(q)) /\ End(Front(q)) = t.off /\ Len(Front(q)) = Len(q) - 1
       /\ Front(q) # <<>> => Last(Front(q)).role # t.role
  BY <1>1, <1>2, PopWell
<1>12. /\ stack'[s] = Front(q) /\ stack'[p] = stack[p] /\ stack' \in [Sides -> Seq(Frame)]
  BY <1>1, <1>3, <1>4, <1>11 DEF TypeOK, Well
<1>13. Agree(Front(q), stack[p])
  BY <1>1, <1>2, <1>3, AgreeAfterPop
<1>14. /\ pipe'[s] = <<>> /\ pipe'[p] = <<>> /\ pipe' \in [Sides -> Seq(Packet)]
  BY <1>1, <1>6, Taken
<1>15. mem' \subseteq Extent /\ got' \subseteq Values
  BY <1>1, <1>4, <1>7, ReadAtType DEF TypeOK
<1>16. TypeOK'
  BY <1>1, <1>2, <1>4, <1>10, <1>12, <1>14, <1>15 DEF TypeOK
<1>17. OneInFlight'
  BY <1>10, <1>14, QuietPipes
<1>18. Running(s)'
  <2>1. Len(stack'[s]) = Len(stack'[p])
    <3>1. Len(stack[p]) \in Nat
      BY <1>2, LenProperties DEF Well
    <3> QED
      BY <1>6, <1>11, <1>12, <3>1
  <2>2. Front(q) # <<>> => Last(Front(q)).role = "proc"
    <3>1. Front(q) # <<>> => Last(Front(q)) \in Frame
      BY <1>11, LastOfWell
    <3> QED
      BY <1>6, <1>11, <3>1 DEF Frame
  <2> QED
    BY <1>10, <1>12, <1>14, <2>1, <2>2 DEF Running, Top
<1>19. Turn'
  BY <1>18 DEF Turn
<1> QED
  BY <1>2, <1>10, <1>11, <1>12, <1>13, <1>16, <1>17, <1>19, Restored DEF Up

\* The actions on empty stacks move a return without an answer.
LEMMA HandoversKeepInv ==
  ASSUME NEW R, IInv(R), ReturnEffect \/ WaitForEffect \/ Close \/ Stop
  PROVE  IInv(R)'
<1>0. TypeOK
  BY DEF IInv
<1>1. Answerless \in Packet
  BY DEF Answerless, Packet, Values
<1>2. ASSUME NEW s \in Sides, (s = "server" /\ ReturnEffect) \/ (s = "client" /\ Close)
      PROVE  IInv(R)'
  <2>1. /\ Peer(s) \in Sides /\ Peer(s) # s /\ Peer(Peer(s)) = s
        /\ Agree(stack[s], stack[Peer(s)])
    BY AgreeBothWays
  <2>2. /\ InCode(s) /\ stack[s] = <<>> /\ Transmit(s, Answerless)
        /\ pc' = [pc EXCEPT ![s] = IF s = "server" THEN "receive" ELSE "done"]
        /\ stack' = stack /\ offset' = offset /\ mem' = mem /\ got' = got
        /\ primary' = primary /\ created' = created
    BY <1>2 DEF ReturnEffect, Close, Idle
  <2>3. /\ Well(R, stack[s]) /\ Well(R, stack[Peer(s)])
        /\ health[s] = "up" /\ pc[Peer(s)] = "receive"
        /\ pipe[s] = <<>> /\ pipe[Peer(s)] = <<>>
        /\ Len(stack[s]) = Len(stack[Peer(s)])
        /\ offset[s] = End(stack[s])
    BY <2>1, <2>2, CodeFacts
  <2>4. /\ pc'[s] = (IF s = "server" THEN "receive" ELSE "done")
        /\ pc'[Peer(s)] = "receive"
        /\ pc' \in [Sides -> {"code", "receive", "done"}]
    BY <1>0, <2>1, <2>2, <2>3 DEF TypeOK
  <2>5. /\ pipe' \in [Sides -> Seq(Packet)]
        /\ health' \in [Sides -> {"up", "failed", "dead"}]
        /\ OneInFlight'
        /\ health'[Peer(s)] = health[Peer(s)]
        /\ \/ (\A u \in Sides : Gone(u))'
           \/ pipe'[s] = <<>> /\ pipe'[Peer(s)] = <<Answerless>>
    BY <1>1, <2>1, <2>2, <2>3, <2>4, Transmitted
  <2>6. TypeOK'
    BY <1>0, <2>2, <2>4, <2>5 DEF TypeOK
  <2>7. Turn'
    <3>1. CASE (\A u \in Sides : Gone(u))'
      BY <3>1 DEF Turn
    <3>2. CASE pipe'[s] = <<>> /\ pipe'[Peer(s)] = <<Answerless>>
      <4>1. stack[Peer(s)] = <<>>
        BY <2>2, <2>3, EmptySeq DEF Well
      <4>2. Peer(s) = "client" <=> s = "server"
        BY <2>1 DEF Sides, Peer
      <4>3. Handover(Peer(s))'
        BY <2>1, <2>2, <2>4, <3>2, <4>1, <4>2 DEF Handover, Answerless
      <4> QED
        BY <2>1, <4>3 DEF Turn
    <3> QED
      BY <2>5, <3>1, <3>2
  <2> QED
    BY <2>1, <2>2, <2>3, <2>5, <2>6, <2>7, Restored
<1>3. ASSUME NEW s \in Sides, (s = "client" /\ WaitForEffect) \/ (s = "server" /\ Stop)
      PROVE  IInv(R)'
  <2>1. /\ Peer(s) \in Sides /\ Peer(s) # s /\ Peer(Peer(s)) = s
        /\ Agree(stack[s], stack[Peer(s)])
    BY AgreeBothWays
  <2>2. /\ Take(s, "return") /\ stack[s] = <<>>
        /\ pc' = [pc EXCEPT ![s] = IF s = "client" THEN "code" ELSE "done"]
        /\ stack' = stack /\ offset' = offset /\ mem' = mem /\ got' = got
        /\ created' \in {TRUE, created}
    BY <1>3 DEF WaitForEffect, Stop
  <2>3. /\ Up(s) /\ Well(R, stack[s]) /\ Well(R, stack[Peer(s)])
        /\ offset[s] = End(stack[s])
        /\ health' = health /\ primary' = primary
        /\ Answered(s) \/ Handover(s)
    BY <2>1, <2>2, Taken
  <2>4. Handover(s)
    <3>1. Len(stack[Peer(s)]) \in Nat
      BY <2>3, LenProperties DEF Well
    <3> QED
      BY <2>2, <2>3, <3>1, EmptySeq DEF Answered, Waiting
  <2>5. pipe'[s] = <<>> /\ pipe'[Peer(s)] = <<>> /\ pipe' \in [Sides -> Seq(Packet)]
    BY <2>1, <2>2, <2>4, Taken DEF Handover
  <2>6. /\ pc'[s] = (IF s = "client" THEN "code" ELSE "done")
        /\ pc'[Peer(s)] = (IF s = "client" THEN "receive" ELSE "done")
        /\ pc' \in [Sides -> {"code", "receive", "done"}]
    BY <1>0, <2>1, <2>2, <2>4 DEF TypeOK, Handover
  <2>7. TypeOK'
    BY <1>0, <2>2, <2>3, <2>5, <2>6 DEF TypeOK
  <2>8. CASE s = "client"
    <3>1. OneInFlight'
      BY <2>1, <2>5, <2>6, <2>8, QuietPipes
    <3>2. Running(s)'
      BY <2>1, <2>2, <2>4, <2>5, <2>6, <2>8 DEF Running, Handover
    <3>3. Turn'
      BY <2>1, <3>2 DEF Turn
    <3> QED
      BY <2>1, <2>2, <2>3, <2>7, <3>1, <3>3, Restored DEF Up
  <2>9. CASE s # "client"
    <3>1. \A t \in Sides : t = s \/ t = Peer(s)
      BY <2>1 DEF Sides, Peer
    <3>2. \A t \in Sides : pc'[t] = "done"
      BY <2>6, <2>9, <3>1
    <3>3. Turn'
      BY <3>2 DEF Turn, Gone
    <3>4. OneInFlight'
      <4>1. pipe'["client"] = <<>> /\ pipe'["server"] = <<>>
        BY <2>5, <3>1 DEF Sides
      <4>2. Len(pipe'["client"]) + Len(pipe'["server"]) <= 1
        BY <4>1
      <4> QED
        BY <3>2, <4>2 DEF OneInFlight
    <3> QED
      BY <2>1, <2>2, <2>3, <2>7, <3>3, <3>4, Restored DEF Up
  <2> QED
    BY <2>8, <2>9
<1>4. \A s \in Sides : (s = "server" /\ ReturnEffect) \/ (s = "client" /\ Close) => IInv(R)'
  BY <1>2
<1>5. \A s \in Sides : (s = "client" /\ WaitForEffect) \/ (s = "server" /\ Stop) => IInv(R)'
  BY <1>3
<1>6. "client" \in Sides /\ "server" \in Sides
  BY DEF Sides
<1>7. ReturnEffect \/ Stop => IInv(R)'
  BY <1>4, <1>5, <1>6
<1>8. Close \/ WaitForEffect => IInv(R)'
  BY <1>4, <1>5, <1>6
<1> QED
  BY <1>7, <1>8

\* A process that dies or finds the other end closed changes nothing else.
LEMMA FailuresKeepInv ==
  ASSUME NEW R, IInv(R), NEW s \in Sides, ReadEof(s) \/ Crash(s)
  PROVE  IInv(R)'
<1>1. /\ health' \in {[health EXCEPT ![s] = "failed"], [health EXCEPT ![s] = "dead"]}
      /\ pc' = pc /\ stack' = stack /\ pipe' = pipe /\ offset' = offset /\ mem' = mem
      /\ got' = got /\ primary' = primary /\ created' = created
      /\ ReadEof(s) => pipe[s] = <<>> /\ Gone(Peer(s))
  BY DEF ReadEof, Crash
<1>2. TypeOK /\ OneInFlight /\ Turn
  BY DEF IInv
<1>3. Peer(s) \in Sides /\ Peer(s) # s /\ Agree(stack[s], stack[Peer(s)])
  BY AgreeBothWays
<1>4. /\ health' \in [Sides -> {"up", "failed", "dead"}]
      /\ health'[s] # "up" /\ health'[Peer(s)] = health[Peer(s)]
  BY <1>1, <1>2, <1>3 DEF TypeOK
<1>5. TypeOK'
  BY <1>1, <1>2, <1>4 DEF TypeOK
<1>6. OneInFlight'
  BY <1>1, <1>2 DEF OneInFlight
<1>7. Turn'
  <2>1. CASE \E t \in Sides : Running(t) \/ Asked(t) \/ Answered(t) \/ Handover(t)
    <3>1. PICK t \in Sides : Running(t) \/ Asked(t) \/ Answered(t) \/ Handover(t)
      BY <2>1
    <3>2. (Running(t) \/ Asked(t) \/ Answered(t) \/ Handover(t))'
      BY <1>1, <3>1 DEF Running, Asked, Answered, Waiting, Handover, Top
    <3> QED
      BY <3>2 DEF Turn
  <2>2. CASE \A t \in Sides : Gone(t)
    <3>1. \A t \in Sides : t = s \/ t = Peer(s)
      BY DEF Sides, Peer
    <3>2. \A t \in Sides : Gone(t)'
      BY <1>1, <1>4, <2>2, <3>1 DEF Gone, Up
    <3> QED
      BY <3>2 DEF Turn
  <2> QED
    BY <1>2, <2>1, <2>2 DEF Turn
<1>8. Well(R, stack[s])
  BY DEF IInv
<1> QED
  BY <1>1, <1>3, <1>4, <1>5, <1>6, <1>7, <1>8, Restored

\* Who still wants a result that send_message has returned does not matter.
LEMMA ForgettingKeepsInv ==
  ASSUME NEW R, IInv(R), got' \subseteq Values,
         UNCHANGED <<primary, created, pc, health, stack, pipe, offset, mem>>
  PROVE  IInv(R)'
<1>1. TypeOK'
  BY DEF IInv, TypeOK
<1>2. OneInFlight' /\ Turn'
  BY DEF IInv, OneInFlight, Turn, Running, Asked, Answered, Waiting, Handover, Gone, Up, Top
<1> QED
  BY <1>1, <1>2 DEF IInv, Up

LEMMA InitInv ==
  ASSUME NEW R, LayoutsAgree(R), Init
  PROVE  IInv(R)
<1>1. Sides = {"client", "server"} /\ Peer("client") = "server" /\ Peer("server") = "client"
  BY DEF Sides, Peer
<1>2. TypeOK
  <2>1. <<>> \in Seq(Frame) /\ <<>> \in Seq(Packet)
    BY EmptySeq
  <2>2. pc \in [Sides -> {"code", "receive", "done"}]
    BY <1>1 DEF Init
  <2> QED
    BY <2>1, <2>2 DEF Init, TypeOK
<1>3. \A s \in Sides : stack[s] = <<>> /\ pipe[s] = <<>> /\ offset[s] = 0
  BY DEF Init
<1>4. Well(R, <<>>) /\ End(<<>>) = 0 /\ Agree(<<>>, <<>>)
  BY EmptySeq DEF Well, Alternating, Sized, Stacked, End, Agree
<1>5. Running(IF primary THEN "server" ELSE "client")
  BY <1>1, <1>3 DEF Init, Running
<1>6. Turn
  BY <1>1, <1>5 DEF Turn
<1>7. OneInFlight
  <2>1. \A s \in Sides : pc[s] = "code" => pc[Peer(s)] = "receive"
    BY <1>1 DEF Init
  <2>2. pipe["client"] = <<>> /\ pipe["server"] = <<>>
    BY <1>1, <1>3
  <2>3. Len(pipe["client"]) + Len(pipe["server"]) <= 1
    BY <2>2
  <2> QED
    BY <2>1, <2>2, <2>3 DEF OneInFlight
<1> QED
  BY <1>1, <1>2, <1>3, <1>4, <1>6, <1>7 DEF IInv

LEMMA NextKeepsInv ==
  ASSUME NEW R, LayoutsAgree(R), IInv(R), [Next]_vars
  PROVE  IInv(R)'
<1>1. CASE vars' = vars \/ Finished
  <2>1. vars' = vars
    BY <1>1 DEF Finished
  <2> QED
    BY <2>1 DEF vars, IInv, TypeOK, Up, OneInFlight, Turn, Running, Asked, Answered,
                Waiting, Handover, Gone, Top
<1>2. CASE \E s \in Sides : EndStep(s)
  <2>1. PICK s \in Sides : EndStep(s)
    BY <1>2
  <2>2. CASE \E m \in CallsOf(s), d \in Data : Send(s, m, d)
    BY <2>2, SendKeepsInv DEF Send
  <2>3. CASE Receive(s)
    BY <2>3, ReceiveKeepsInv
  <2>4. CASE \E d \in Data : Decide(s, d)
    BY <2>4, DecideKeepsInv
  <2>5. CASE Reply(s)
    BY <2>5, ReplyKeepsInv
  <2>6. CASE Return(s)
    BY <2>6, ReturnKeepsInv
  <2>7. CASE ReadEof(s) \/ Crash(s)
    BY <2>7, FailuresKeepInv
  <2> QED
    BY <2>1, <2>2, <2>3, <2>4, <2>5, <2>6, <2>7 DEF EndStep
<1>3. CASE ReturnEffect \/ WaitForEffect \/ Close \/ Stop
  BY <1>3, HandoversKeepInv
<1> QED
  BY <1>1, <1>2, <1>3 DEF Next

------------------------------------------------------------------------------
(* The theorems *)

\* Every state of the pair is well typed if, of each message, the callee's cursor
\* moves as far as the caller's did from every offset that occurs: in particular no
\* _shm_offset ever drops below zero.  LayoutsAgree is a hypothesis on the messages;
\* a set with a string of 5 bytes and a chunk, which may be asked for while the
\* string is open, does not satisfy it (request.hpp:243).
THEOREM TypeCorrect ==
  ASSUME NEW R, LayoutsAgree(R)
  PROVE  Spec => []TypeOK
<1>1. IInv(R) => TypeOK
  BY DEF IInv
<1> QED
  BY <1>1, InitInv, NextKeepsInv, PTL DEF Spec

\* Both ends keep describing the open calls alike, at any depth of calls and
\* callbacks, with at most one packet under way and one end running.
THEOREM PairInvHolds ==
  ASSUME NEW R, LayoutsAgree(R)
  PROVE  Spec => []PairInv
<1>1. IInv(R) => PairInv
  BY DEF IInv, PairInv, Lockstep, Well
<1> QED
  BY <1>1, InitInv, NextKeepsInv, PTL DEF Spec

------------------------------------------------------------------------------
(* The hypothesis, for the payloads whose cursors are known to agree *)

\* Strings of any length, or payloads that keep an offset a multiple of 8.
RegularPayloads == Messages \subseteq StringPayloads \/ Messages \subseteq AlignedPayloads

LEMMA AgreedLayouts ==
  ASSUME NEW R, 0 \in R, R \subseteq Nat,
         \A m \in Messages, o \in R : Agreed(m, o) /\ o + Total(WriteRequest(m), o) \in R
  PROVE  LayoutsAgree(R)
BY DEF LayoutsAgree, Agreed

LEMMA StringLayouts ==
  ASSUME Messages \subseteq StringPayloads
  PROVE  \A m \in Messages, o \in Nat : Agreed(m, o) /\ o + Total(WriteRequest(m), o) \in Nat
BY StringsAgree

LEMMA AlignedLayouts ==
  ASSUME Messages \subseteq AlignedPayloads
  PROVE  \A m \in Messages, o \in Aligned : Agreed(m, o) /\ o + Total(WriteRequest(m), o) \in Aligned
BY AlignedAgree

LEMMA RegularLayouts ==
  ASSUME RegularPayloads
  PROVE  \E R \in {Nat, Aligned} :
           /\ LayoutsAgree(R)
           /\ \A m \in Messages, o \in R : Agreed(m, o)
<1>1. 0 \in Nat /\ 0 \in Aligned /\ Aligned \subseteq Nat
  BY DEF Aligned
<1>2. CASE Messages \subseteq StringPayloads
  <2>1. \A m \in Messages, o \in Nat : Agreed(m, o) /\ o + Total(WriteRequest(m), o) \in Nat
    BY <1>2, StringLayouts
  <2>2. LayoutsAgree(Nat)
    BY <1>1, <2>1, AgreedLayouts
  <2> QED
    BY <2>1, <2>2
<1>3. CASE Messages \subseteq AlignedPayloads
  <2>1. \A m \in Messages, o \in Aligned : Agreed(m, o) /\ o + Total(WriteRequest(m), o) \in Aligned
    BY <1>3, AlignedLayouts
  <2>2. LayoutsAgree(Aligned)
    BY <1>1, <2>1, AgreedLayouts
  <2> QED
    BY <2>1, <2>2
<1> QED
  BY <1>2, <1>3 DEF RegularPayloads

\* With strings only, of whatever length, nothing has to be assumed: any two
\* programs that exchange them, however deep they nest, stay in lockstep.
THEOREM StringsStayInLockstep ==
  ASSUME Messages \subseteq StringPayloads
  PROVE  Spec => []PairInv
<1>1. LayoutsAgree(Nat)
  <2>1. \A m \in Messages, o \in Nat : Agreed(m, o) /\ o + Total(WriteRequest(m), o) \in Nat
    BY StringLayouts
  <2> QED
    BY <2>1, AgreedLayouts
<1> QED
  BY <1>1, PairInvHolds

\* So do any two that exchange payloads whose parts all end on a multiple of 8:
\* structures, chunks, rectangles, any number of events, audio buffers of any number
\* of channels.
THEOREM AlignedStayInLockstep ==
  ASSUME Messages \subseteq AlignedPayloads
  PROVE  Spec => []PairInv
<1>1. LayoutsAgree(Aligned)
  <2>1. \A m \in Messages, o \in Aligned : Agreed(m, o) /\ o + Total(WriteRequest(m), o) \in Aligned
    BY AlignedLayouts
  <2>2. 0 \in Aligned /\ Aligned \subseteq Nat
    BY DEF Aligned
  <2> QED
    BY <2>1, <2>2, AgreedLayouts
<1> QED
  BY <1>1, PairInvHolds

\* Of both kinds of messages the types are correct without any hypothesis on the
\* cursors: each shm_pop (sender.hpp, processor.hpp) takes off what its shm_push
\* has added, at both ends.
THEOREM RegularTypes ==
  ASSUME RegularPayloads
  PROVE  Spec => []TypeOK
<1>1. \E R \in {Nat, Aligned} : LayoutsAgree(R)
  BY RegularLayouts
<1> QED
  BY <1>1, TypeCorrect

------------------------------------------------------------------------------
(* What the memory holds *)

\* What the code takes for granted of the places of its payloads, at the
\* offsets of R: a request is written, and its outputs are filled, between the
\* offset and where the cursors end; an answer is written from the offset on;
\* what the callee reads is what the caller wrote, the outputs apart from the
\* rest; and what the caller reads from the answer is either written with the
\* answer, or stored by the callee where the answer is not written.
PlacesAgree(R) ==
  \A m \in Messages, o \in R :
    /\ Inside(RequestPlaces(m, o), o, o + Total(WriteRequest(m), o))
    /\ Inside(OutputPlaces(m, o), o, o + Total(WriteRequest(m), o))
    /\ \A p \in AnswerPlaces(m, o) : o <= p.lo /\ p.lo < p.hi
    /\ ArgumentPlaces(m, o) \subseteq RequestPlaces(m, o)
    /\ Apart(ArgumentPlaces(m, o) \ OutputPlaces(m, o), OutputPlaces(m, o))
    /\ \A p \in ResultPlaces(m, o) :
         \/ p \in AnswerPlaces(m, o)
         \/ p \in OutputPlaces(m, o) /\ Apart({p}, AnswerPlaces(m, o))

------------------------------------------------------------------------------
(* The shared memory *)

Holds(m, places, d) ==
  \A p \in places : [lo |-> p.lo, hi |-> p.hi, val |-> d] \in m

\* No extent is empty and no place holds two values.
Sound(m) ==
  /\ \A e \in m : e.lo \in Nat /\ e.hi \in Nat /\ e.lo < e.hi
  /\ \A e, g \in m : e.lo = g.lo /\ e.hi = g.hi => e.val = g.val

\* The memory behind the frame f of the called code.
Kept(m, f) ==
  /\ Holds(m, ArgumentPlaces(f.msg, f.off)
                \ (IF f.res = None THEN {} ELSE OutputPlaces(f.msg, f.off)), f.arg)
  /\ f.res # None => Holds(m, OutputPlaces(f.msg, f.off), f.res)

Safe(m, frames) == \A i \in DOMAIN frames : frames[i].role = "proc" => Kept(m, frames[i])

MemInv ==
  /\ Sound(mem)
  /\ \A s \in Sides : Up(s) => Safe(mem, stack[s])
  /\ \A s \in Sides : Asked(s) =>
       Holds(mem, RequestPlaces(Top(s).msg, Top(s).off), Top(s).arg)
  /\ \A s \in Sides : Answered(s) =>
       Holds(mem, ResultPlaces(Top(s).msg, Top(s).off), Incoming(s).res)

LEMMA AtHeld ==
  ASSUME NEW m, Sound(m), NEW p, NEW d \in Data,
         [lo |-> p.lo, hi |-> p.hi, val |-> d] \in m
  PROVE  At(m, p) = d
<1> DEFINE e(v) == [lo |-> p.lo, hi |-> p.hi, val |-> v]
<1>1. \A v \in Data : e(v) \in m => v = d
  <2>1. \A v \in Data : e(v).lo = e(d).lo /\ e(v).hi = e(d).hi /\ e(v).val = v
    OBVIOUS
  <2> HIDE DEF e
  <2>2. e(d) \in m
    BY DEF e
  <2> QED
    BY <2>1, <2>2 DEF Sound
<1>2. (CHOOSE v \in Data : e(v) \in m) = d
  <2>1. e(d) \in m
    OBVIOUS
  <2> HIDE DEF e
  <2> QED
    BY <1>1, <2>1
<1> QED
  BY <1>2 DEF At

LEMMA ReadHeld ==
  ASSUME NEW m, Sound(m), NEW places, NEW d \in Data, Holds(m, places, d)
  PROVE  {d} \cup ReadAt(m, places) = {d}
<1>1. \A p \in places : At(m, p) = d
  BY AtHeld DEF Holds
<1> QED
  BY <1>1 DEF ReadAt

LEMMA PutHolds ==
  ASSUME NEW m, Sound(m), NEW places, NEW d,
         \A p \in places : p.lo \in Nat /\ p.hi \in Nat /\ p.lo < p.hi
  PROVE  Sound(Put(m, places, d)) /\ Holds(Put(m, places, d), places, d)
<1> DEFINE put == Put(m, places, d)
<1>1. \A e \in put : \/ e \in m /\ \A p \in places : ~Overlap(e, p)
                     \/ \E p \in places : e = [lo |-> p.lo, hi |-> p.hi, val |-> d]
  BY DEF Put
<1>2. Holds(put, places, d)
  BY DEF Put, Holds
<1> HIDE DEF put
<1>3. \A e \in put : e.lo \in Nat /\ e.hi \in Nat /\ e.lo < e.hi
  BY <1>1 DEF Sound
<1>4. ASSUME NEW e \in put, NEW g \in put, e.lo = g.lo, e.hi = g.hi
      PROVE  e.val = g.val
  <2>1. CASE e \in m /\ g \in m
    BY <1>4, <2>1 DEF Sound
  <2>2. CASE \E p \in places : e = [lo |-> p.lo, hi |-> p.hi, val |-> d]
    <3>1. PICK p \in places : e = [lo |-> p.lo, hi |-> p.hi, val |-> d]
      BY <2>2
    <3>2. Overlap(g, p)
      BY <1>3, <1>4, <3>1 DEF Overlap
    <3>3. \E r \in places : g = [lo |-> r.lo, hi |-> r.hi, val |-> d]
      BY <1>1, <1>4, <3>2
    <3> QED
      BY <3>1, <3>3
  <2>3. CASE \E p \in places : g = [lo |-> p.lo, hi |-> p.hi, val |-> d]
    <3>1. PICK p \in places : g = [lo |-> p.lo, hi |-> p.hi, val |-> d]
      BY <2>3
    <3>2. Overlap(e, p)
      BY <1>3, <1>4, <3>1 DEF Overlap
    <3>3. \E r \in places : e = [lo |-> r.lo, hi |-> r.hi, val |-> d]
      BY <1>1, <1>4, <3>2
    <3> QED
      BY <3>1, <3>3
  <2> QED
    BY <1>1, <1>4, <2>1, <2>2, <2>3
<1> QED
  BY <1>2, <1>3, <1>4 DEF Sound, put

LEMMA PutKeeps ==
  ASSUME NEW m, NEW places, NEW d, NEW others, NEW v,
         Holds(m, others, v), Apart(others, places)
  PROVE  Holds(Put(m, places, d), others, v)
BY DEF Holds, Put, Apart, Overlap

------------------------------------------------------------------------------
(* Frames and the memory behind them *)

\* The frames of a stack do not overlap.
LEMMA Below ==
  ASSUME NEW R, LayoutsAgree(R), NEW q, Well(R, q)
  PROVE  \A i \in DOMAIN q : /\ q[i] \in Frame /\ q[i].msg \in Messages /\ q[i].off \in R
                             /\ q[i].off \in Nat /\ q[i].size \in Nat
                             /\ q[i].size = Total(WriteRequest(q[i].msg), q[i].off)
                             /\ q[i].off + q[i].size <= End(q)
<1>1. q \in Seq(Frame) /\ Len(q) \in Nat /\ DOMAIN q = 1 .. Len(q)
  BY LenProperties DEF Well
<1>2. \A i \in DOMAIN q : /\ q[i] \in Frame /\ q[i].msg \in Messages /\ q[i].off \in R
                          /\ q[i].off \in Nat /\ q[i].size \in Nat
                          /\ q[i].size = Total(WriteRequest(q[i].msg), q[i].off)
  <2>1. \A i \in DOMAIN q : q[i] \in Frame
    BY <1>1, ElementOfSeq
  <2> QED
    BY <2>1 DEF Well, Sized, Frame
<1>3. ASSUME NEW i \in DOMAIN q
      PROVE  q[i].off + q[i].size <= End(q)
  <2> DEFINE After(j) == q[i].off + q[i].size <= q[j].off + q[j].size
             T == {j \in Nat : i <= j /\ j <= Len(q) /\ ~After(j)}
  <2>1. CASE T # {}
    <3>1. PICK j \in T : \A k \in T : j <= k
      BY <2>1, LeastNat
    <3>2. i < j /\ j \in 1 .. Len(q)
      BY <1>1, <1>2, <3>1
    <3>3. j - 1 \notin T /\ j - 1 \in 1 .. Len(q) /\ i <= j - 1
      BY <1>1, <3>1, <3>2
    <3>4. After(j - 1)
      BY <1>1, <3>3
    <3>5. q[j].off = q[j-1].off + q[j-1].size
      <4>1. \A k \in DOMAIN q : q[k].off = IF k = 1 THEN 0 ELSE q[k-1].off + q[k-1].size
        BY DEF Well, Stacked
      <4>2. j \in DOMAIN q /\ j # 1
        BY <1>1, <3>2
      <4> QED
        BY <4>1, <4>2
    <3>6. After(j)
      BY <1>1, <1>2, <3>2, <3>3, <3>4, <3>5
    <3> QED
      BY <3>1, <3>6
  <2>2. CASE T = {}
    <3>1. After(Len(q))
      BY <1>1, <2>2
    <3>2. q # <<>> /\ End(q) = q[Len(q)].off + q[Len(q)].size
      BY <1>1 DEF End, Last
    <3> QED
      BY <3>1, <3>2
  <2> QED
    BY <2>1, <2>2
<1> QED
  BY <1>2, <1>3

\* The places of a frame lie in its area.
LEMMA PlacesBelow ==
  ASSUME NEW R, LayoutsAgree(R), PlacesAgree(R), NEW q, Well(R, q), NEW i \in DOMAIN q
  PROVE  LET f == q[i]
         IN  /\ \A p \in ArgumentPlaces(f.msg, f.off) \cup OutputPlaces(f.msg, f.off) :
                  p.lo \in Nat /\ p.hi \in Nat /\ p.lo < p.hi /\ p.hi <= End(q)
<1> DEFINE f == q[i]
           o == f.off
<1>1. /\ f.msg \in Messages /\ o \in R /\ o \in Nat /\ f.size \in Nat
      /\ f.size = Total(WriteRequest(f.msg), o) /\ o + f.size <= End(q)
  BY Below
<1>2. /\ Inside(RequestPlaces(f.msg, o), o, o + f.size)
      /\ Inside(OutputPlaces(f.msg, o), o, o + f.size)
      /\ ArgumentPlaces(f.msg, o) \subseteq RequestPlaces(f.msg, o)
  BY <1>1 DEF PlacesAgree
<1>3. RequestPlaces(f.msg, o) \cup OutputPlaces(f.msg, o) \subseteq [lo : Nat, hi : Nat]
  BY <1>1 DEF LayoutsAgree
<1>4. End(q) \in Nat
  BY EndInR DEF LayoutsAgree
<1>5. \A p \in ArgumentPlaces(f.msg, o) \cup OutputPlaces(f.msg, o) :
        p \in [lo : Nat, hi : Nat] /\ p.lo < p.hi /\ p.hi <= o + f.size
  BY <1>2, <1>3 DEF Inside
<1> HIDE DEF f, o
<1>6. \A p \in ArgumentPlaces(f.msg, o) \cup OutputPlaces(f.msg, o) :
        p.lo \in Nat /\ p.hi \in Nat /\ p.lo < p.hi /\ p.hi <= End(q)
  BY <1>1, <1>4, <1>5
<1> QED
  BY <1>6 DEF f, o

\* What is written above a stack leaves the memory of its frames alone.
LEMMA SafeUnderPut ==
  ASSUME NEW R, LayoutsAgree(R), PlacesAgree(R), NEW q, Well(R, q),
         NEW m, Safe(m, q), NEW places, NEW d,
         \A p \in places : p.lo \in Nat /\ End(q) <= p.lo
  PROVE  Safe(Put(m, places, d), q)
<1> SUFFICES ASSUME NEW i \in DOMAIN q, q[i].role = "proc"
             PROVE  Kept(Put(m, places, d), q[i])
  BY DEF Safe
<1> DEFINE f == q[i]
           old == ArgumentPlaces(f.msg, f.off) \cup OutputPlaces(f.msg, f.off)
<1>1. \A p \in old : p.lo \in Nat /\ p.hi \in Nat /\ p.lo < p.hi /\ p.hi <= End(q)
  BY PlacesBelow
<1>2. End(q) \in Nat
  BY EndInR DEF LayoutsAgree
<1>3. Apart(old, places)
  <2> HIDE DEF old
  <2> QED
    BY <1>1, <1>2 DEF Apart, Overlap
<1>4. \A part \in SUBSET old : Apart(part, places)
  BY <1>3 DEF Apart
<1>5. Kept(m, f)
  BY DEF Safe
<1>6. \A part \in SUBSET old : \A v : Holds(m, part, v) => Holds(Put(m, places, d), part, v)
  BY <1>4, PutKeeps
<1> QED
  BY <1>5, <1>6 DEF Kept

\* Forgetting what lies above a stack leaves the memory of its frames alone.
LEMMA SafeUnderCut ==
  ASSUME NEW R, LayoutsAgree(R), PlacesAgree(R), NEW q, Well(R, q), NEW m, Safe(m, q)
  PROVE  Safe({e \in m : e.hi <= End(q)}, q)
<1> SUFFICES ASSUME NEW i \in DOMAIN q, q[i].role = "proc"
             PROVE  Kept({e \in m : e.hi <= End(q)}, q[i])
  BY DEF Safe
<1> DEFINE f == q[i]
           old == ArgumentPlaces(f.msg, f.off) \cup OutputPlaces(f.msg, f.off)
<1>1. \A p \in old : p.hi <= End(q)
  BY PlacesBelow
<1>2. Kept(m, f)
  BY DEF Safe
<1>3. \A part \in SUBSET old : \A v :
        Holds(m, part, v) => Holds({e \in m : e.hi <= End(q)}, part, v)
  BY <1>1 DEF Holds
<1> QED
  BY <1>2, <1>3 DEF Kept

LEMMA SafePushed ==
  ASSUME NEW R, NEW q, Well(R, q), NEW f \in Frame, NEW m
  PROVE  Safe(m, Append(q, f)) <=> Safe(m, q) /\ (f.role = "proc" => Kept(m, f))
<1> DEFINE r == Append(q, f)
<1>1. /\ Len(q) \in Nat
      /\ DOMAIN q = 1 .. Len(q) /\ DOMAIN r = 1 .. Len(q) + 1
      /\ \A i \in 1 .. Len(q) : r[i] = q[i]
      /\ r[Len(q) + 1] = f
  BY AppendedProperties DEF Well
<1>2. DOMAIN r = (DOMAIN q) \cup {Len(q) + 1}
  BY <1>1
<1> HIDE DEF r
<1>3. Safe(m, r) <=> Safe(m, q) /\ (f.role = "proc" => Kept(m, f))
  BY <1>1, <1>2 DEF Safe
<1> QED
  BY <1>3 DEF r

LEMMA SafePopped ==
  ASSUME NEW R, NEW q, Well(R, q), q # <<>>, NEW m
  PROVE  Safe(m, q) <=> Safe(m, Front(q)) /\ (Last(q).role = "proc" => Kept(m, Last(q)))
<1> DEFINE r == Front(q)
<1>1. /\ Len(q) \in Nat /\ Len(q) >= 1
      /\ DOMAIN q = 1 .. Len(q) /\ DOMAIN r = 1 .. Len(q) - 1
      /\ \A i \in 1 .. Len(q) - 1 : r[i] = q[i]
      /\ Last(q) = q[Len(q)]
  BY FrontProperties DEF Well
<1>2. DOMAIN q = (DOMAIN r) \cup {Len(q)}
  BY <1>1
<1> HIDE DEF r
<1>3. Safe(m, q) <=> Safe(m, r) /\ (Last(q).role = "proc" => Kept(m, Last(q)))
  BY <1>1, <1>2 DEF Safe
<1> QED
  BY <1>3 DEF r

------------------------------------------------------------------------------
(* The actions *)

\* With both pipes empty no call is asked or answered.
LEMMA NobodyWaits ==
  ASSUME NEW s \in Sides, pipe'[s] = <<>>, pipe'[Peer(s)] = <<>>
  PROVE  \A t \in Sides : ~Asked(t)' /\ ~Answered(t)'
<1>1. \A t \in Sides : pipe'[t] = <<>> /\ pipe'[Peer(t)] = <<>>
  BY DEF Sides, Peer
<1>2. \A x : <<x>> # <<>>
  OBVIOUS
<1>3. ASSUME NEW t \in Sides, Asked(t)'
      PROVE  FALSE
  BY <1>1, <1>2, <1>3 DEF Asked
<1>4. ASSUME NEW t \in Sides, Answered(t)'
      PROVE  FALSE
  BY <1>1, <1>2, <1>4 DEF Answered
<1> QED
  BY <1>3, <1>4

\* Of two stacks equally deep, the innermost frames are the same call.
LEMMA SameCall ==
  ASSUME NEW R, NEW q, NEW r, Well(R, q), Well(R, r), Agree(q, r),
         Len(q) = Len(r), q # <<>>, Last(q).role = "proc"
  PROVE  /\ r # <<>> /\ Last(r).role = "call" /\ Last(r).role # "proc"
         /\ Last(r).msg = Last(q).msg /\ Last(r).off = Last(q).off
         /\ Last(r).arg = Last(q).arg
         /\ Well(R, Front(r)) /\ End(Front(r)) = Last(q).off
<1>1. q \in Seq(Frame) /\ r \in Seq(Frame)
  BY DEF Well
<1>2. r # <<>> /\ {Last(q).role, Last(r).role} = {"call", "proc"}
  BY AgreeEnds
<1>3. Last(q) = q[Len(q)] /\ Len(q) \in DOMAIN q
  <2>1. Len(q) \in Nat /\ Len(q) >= 1 /\ DOMAIN q = 1 .. Len(q) /\ Last(q) = q[Len(q)]
    BY <1>1, FrontProperties
  <2> QED
    BY <2>1
<1>4. Last(r) = r[Len(q)] /\ Len(q) \in DOMAIN r
  <2>1. Len(r) \in Nat /\ Len(r) >= 1 /\ DOMAIN r = 1 .. Len(r) /\ Last(r) = r[Len(r)]
    BY <1>1, <1>2, FrontProperties
  <2> QED
    BY <2>1
<1>5. Last(r).msg = Last(q).msg /\ Last(r).off = Last(q).off /\ Last(r).arg = Last(q).arg
  BY <1>3, <1>4 DEF Agree
<1>6. Well(R, Front(r)) /\ End(Front(r)) = Last(r).off
  BY <1>2, PopWell
<1>7. Last(r).role = "call" /\ Last(r).role # "proc"
  <2>1. \A role : {"proc", role} = {"call", "proc"} => role = "call"
    OBVIOUS
  <2>2. {"proc", Last(r).role} = {"call", "proc"}
    BY <1>2
  <2>3. Last(r).role = "call"
    BY <2>1, <2>2
  <2> QED
    BY <2>3
<1> QED
  BY <1>2, <1>5, <1>6, <1>7

LEMMA SendKeepsMem ==
  ASSUME NEW R, LayoutsAgree(R), PlacesAgree(R), IInv(R), MemInv, NEW s \in Sides,
         NEW m \in CallsOf(s), NEW d \in Data, SendMessage(s, m, d)
  PROVE  MemInv'
<1> DEFINE p == Peer(s)
           off  == offset[s]
           size == Total(WriteRequest(m), off)
           f == [role |-> "call", msg |-> m, off |-> off, size |-> size,
                 arg |-> d, seen |-> {}, res |-> None]
           packet == [type |-> "request", msg |-> m, arg |-> d]
           places == RequestPlaces(m, off)
<1>1. /\ stack' = [stack EXCEPT ![s] = Append(@, f)]
      /\ mem' = Put(mem, places, d)
      /\ pc' = [pc EXCEPT ![s] = "receive"]
      /\ Transmit(s, packet)
      /\ InCode(s)
  BY DEF SendMessage
<1>2. /\ Well(R, stack[s]) /\ Well(R, stack[p])
      /\ off = End(stack[s])
      /\ health[s] = "up" /\ pc[s] = "code" /\ pc[p] = "receive"
      /\ pipe[s] = <<>> /\ pipe[p] = <<>>
      /\ Len(stack[s]) = Len(stack[p])
  BY <1>1, CodeFacts
<1>3. /\ p \in Sides /\ p # s /\ Agree(stack[s], stack[p])
      /\ \A t \in Sides : t = s \/ t = p
  BY AgreeBothWays DEF Sides, Peer
<1>4. TypeOK
  BY DEF IInv
<1>5. m \in Messages /\ off \in R
  BY <1>2, EndInR DEF CallsOf, Messages
<1>6. /\ places \subseteq [lo : Nat, hi : Nat] /\ Inside(places, off, off + size)
      /\ off \in Nat /\ size \in Nat
  BY <1>5 DEF LayoutsAgree, PlacesAgree
<1>7. \A r \in places : r.lo \in Nat /\ r.hi \in Nat /\ r.lo < r.hi /\ off <= r.lo
  BY <1>6 DEF Inside
<1>8. f \in Frame /\ packet \in Packet /\ f.role # "proc" /\ f.msg = m /\ f.off = off /\ f.arg = d
  BY <1>5, <1>6 DEF Frame, Packet, Values
<1>9. off = End(stack[p])
  BY <1>2, <1>3, AgreeEnds
<1> HIDE DEF f, packet, size, off, places
<1>10. /\ stack'[s] = Append(stack[s], f) /\ stack'[p] = stack[p]
       /\ pc'[s] = "receive" /\ pc'[p] = "receive"
  BY <1>1, <1>2, <1>3, <1>4 DEF TypeOK
<1>11. /\ health'[p] = health[p]
       /\ \/ (\A t \in Sides : Gone(t))' /\ Gone(p)
          \/ pipe'[s] = <<>> /\ pipe'[p] = <<packet>> /\ ~Gone(p)
  BY <1>1, <1>2, <1>8, <1>10, Transmitted
<1>12. Sound(mem') /\ Holds(mem', places, d)
  BY <1>1, <1>7, PutHolds DEF MemInv
<1>13. ASSUME NEW t \in Sides, Up(t)'
       PROVE  Safe(mem', stack'[t])
  <2>1. CASE t = s
    <3>1. Safe(mem, stack[s])
      BY <1>2 DEF MemInv, Up
    <3>2. Safe(mem', stack[s])
      BY <1>1, <1>2, <1>7, <3>1, SafeUnderPut
    <3>3. Safe(mem', Append(stack[s], f))
      BY <1>2, <1>8, <3>2, SafePushed
    <3> QED
      BY <1>10, <2>1, <3>3
  <2>2. CASE t = p
    <3>1. Safe(mem, stack[p])
      BY <1>3, <1>11, <1>13, <2>2 DEF MemInv, Up
    <3>2. Safe(mem', stack[p])
      BY <1>1, <1>2, <1>7, <1>9, <3>1, SafeUnderPut
    <3> QED
      BY <1>10, <2>2, <3>2
  <2> QED
    BY <1>3, <2>1, <2>2
<1>14. Last(stack'[s]) = f
  BY <1>2, <1>8, <1>10, AppendedProperties DEF Well
<1>15. /\ \A t \in Sides : ~Answered(t)'
       /\ \A t \in Sides : Asked(t)' => t = s
  <2>1. CASE Gone(p)
    <3>1. pipe' = pipe
      BY <1>1, <2>1 DEF Transmit
    <3> QED
      BY <1>2, <3>1, NobodyWaits
  <2>2. CASE ~Gone(p)
    <3>1. pipe'[s] = <<>> /\ pipe'[p] = <<packet>> /\ packet.type # "return" /\ Peer(p) = s
      BY <1>11, <2>2, AgreeBothWays DEF packet
    <3>2. ~Answered(s)' /\ ~Answered(p)' /\ ~Asked(p)'
      BY <1>3, <3>1 DEF Answered, Asked
    <3> QED
      BY <1>3, <3>2
  <2> QED
    BY <2>1, <2>2
<1>16. Holds(mem, RequestPlaces(Top(s).msg, Top(s).off), Top(s).arg)'
  BY <1>8, <1>12, <1>14 DEF Top, places
<1> QED
  BY <1>12, <1>13, <1>15, <1>16 DEF MemInv

LEMMA ReceiveKeepsMem ==
  ASSUME NEW R, LayoutsAgree(R), PlacesAgree(R), IInv(R), MemInv, NEW s \in Sides, Receive(s)
  PROVE  MemInv'
<1> DEFINE p == Peer(s)
           m == Incoming(s).msg
           d == Incoming(s).arg
           off == offset[s]
           f == [role |-> "proc", msg |-> m, off |-> off, size |-> Total(MapRequest(m), off),
                 arg |-> d, seen |-> {d} \cup ReadAt(mem, ArgumentPlaces(m, off)),
                 res |-> None]
<1>1. /\ Take(s, "request")
      /\ stack' = [stack EXCEPT ![s] = Append(@, f)]
      /\ mem' = mem
  BY DEF Receive
<1>2. /\ Up(s) /\ Well(R, stack[s]) /\ Well(R, stack[p])
      /\ off = End(stack[s])
      /\ pipe' = [pipe EXCEPT ![s] = <<>>] /\ health' = health
      /\ Asked(p)
  BY <1>1, Taken
<1>3. /\ p \in Sides /\ p # s /\ Peer(p) = s /\ Agree(stack[p], stack[s])
      /\ \A t \in Sides : t = s \/ t = p
  BY AgreeBothWays, AgreeSymmetric DEF Sides, Peer
<1>4. /\ pipe[p] = <<>>
      /\ pipe[s] = <<[type |-> "request", msg |-> Top(p).msg, arg |-> Top(p).arg]>>
      /\ Len(stack[p]) = Len(stack[s]) + 1
  BY <1>2, <1>3 DEF Asked, Waiting
<1>5. m = Top(p).msg /\ d = Top(p).arg
  BY <1>4 DEF Incoming
<1>6. stack[p] # <<>> /\ Top(p).off = off
  BY <1>2, <1>3, <1>4, AgreeEnds DEF Top
<1>7. Top(p) \in Frame /\ m \in Messages /\ off \in R /\ off \in Nat /\ d \in Data
  BY <1>2, <1>5, <1>6, LastOfWell DEF Top, Frame
<1>8. Holds(mem, ArgumentPlaces(m, off), d)
  <2>1. Holds(mem, RequestPlaces(m, off), d)
    BY <1>2, <1>3, <1>5, <1>6 DEF MemInv
  <2>2. ArgumentPlaces(m, off) \subseteq RequestPlaces(m, off)
    BY <1>7 DEF PlacesAgree
  <2> QED
    BY <2>1, <2>2 DEF Holds
<1>9. f \in Frame
  <2>1. Total(MapRequest(m), off) \in Nat
    BY <1>7 DEF LayoutsAgree
  <2>2. f.seen \subseteq Values
    BY <1>7, ReadAtType DEF Values
  <2> QED
    BY <1>7, <2>1, <2>2 DEF Frame, Values
<1>10. Kept(mem, f)
  <2>1. f.res = None /\ f.msg = m /\ f.off = off /\ f.arg = d
    OBVIOUS
  <2> HIDE DEF f, m, d, off
  <2>2. Holds(mem, ArgumentPlaces(f.msg, f.off) \ {}, f.arg)
    BY <1>8, <2>1 DEF Holds
  <2> QED
    BY <2>1, <2>2 DEF Kept
<1> HIDE DEF f
<1>11. TypeOK
  BY DEF IInv
<1>12. /\ stack'[s] = Append(stack[s], f) /\ stack'[p] = stack[p]
       /\ pipe'[s] = <<>> /\ pipe'[p] = <<>>
  BY <1>1, <1>2, <1>3, <1>4, <1>11 DEF TypeOK
<1>13. ASSUME NEW t \in Sides, Up(t)'
       PROVE  Safe(mem', stack'[t])
  <2>1. Safe(mem, stack[t])
    BY <1>2, <1>13 DEF MemInv, Up
  <2> QED
    BY <1>1, <1>2, <1>3, <1>9, <1>10, <1>12, <2>1, SafePushed
<1> QED
  BY <1>1, <1>12, <1>13, NobodyWaits DEF MemInv

\* A function stores its result: whoever the frames of q belong to, what is
\* behind them stays.
LEMMA StoreKeepsSafe ==
  ASSUME NEW R, LayoutsAgree(R), PlacesAgree(R), NEW q, Well(R, q), q # <<>>, Last(q).res = None,
         NEW m, Sound(m), Safe(m, q), NEW d \in Data
  PROVE  LET f   == [Last(q) EXCEPT !.res = d]
             put == Put(m, OutputPlaces(Last(q).msg, Last(q).off), d)
         IN  Sound(put) /\ Safe(put, Append(Front(q), f))
<1> DEFINE t == Last(q)
           f == [t EXCEPT !.res = d]
           places == OutputPlaces(t.msg, t.off)
           put == Put(m, places, d)
<1>1. t \in Frame /\ t.msg \in Messages /\ t.off \in R /\ t.off \in Nat
  BY LastOfWell DEF Frame
<1>2. \A r \in places : r.lo \in Nat /\ r.hi \in Nat /\ r.lo < r.hi /\ t.off <= r.lo
  <2>1. Inside(places, t.off, t.off + Total(WriteRequest(t.msg), t.off))
    BY <1>1 DEF PlacesAgree
  <2>2. places \subseteq [lo : Nat, hi : Nat]
    BY <1>1 DEF LayoutsAgree
  <2> QED
    BY <2>1, <2>2 DEF Inside
<1>3. Well(R, Front(q)) /\ End(Front(q)) = t.off
  BY PopWell
<1>4. /\ f \in Frame /\ f.role = t.role /\ f.msg = t.msg /\ f.off = t.off /\ f.arg = t.arg
      /\ f.res = d
  BY <1>1 DEF Frame, Values
<1>5. t.res = None
  OBVIOUS
<1> HIDE DEF f, places, t
<1>6. Sound(put) /\ Holds(put, places, d)
  BY <1>2, PutHolds
<1>7. Safe(m, Front(q)) /\ (t.role = "proc" => Kept(m, t))
  BY SafePopped DEF t
<1>8. f.role = "proc" => Kept(put, f)
  <2> SUFFICES ASSUME t.role = "proc"
               PROVE  Kept(put, f)
    BY <1>4
  <2> DEFINE rest == ArgumentPlaces(t.msg, t.off) \ places
  <2>1. Apart(rest, places)
    BY <1>1 DEF PlacesAgree, places
  <2>2. Holds(m, ArgumentPlaces(t.msg, t.off) \ {}, t.arg)
    BY <1>5, <1>7 DEF Kept
  <2>3. Holds(m, rest, t.arg)
    BY <2>2 DEF Holds
  <2>4. Holds(put, rest, t.arg)
    BY <2>1, <2>3, PutKeeps
  <2>5. d # None
    BY NoneAssumption
  <2> QED
    BY <1>4, <1>6, <2>4, <2>5 DEF Kept, places
<1>9. Safe(put, Append(Front(q), f))
  <2>1. Safe(put, Front(q))
    BY <1>2, <1>3, <1>7, SafeUnderPut
  <2> QED
    BY <1>3, <1>4, <1>8, <2>1, SafePushed
<1> QED
  BY <1>6, <1>9 DEF f, t, places

LEMMA DecideKeepsMem ==
  ASSUME NEW R, LayoutsAgree(R), PlacesAgree(R), IInv(R), MemInv, NEW s \in Sides,
         NEW d \in Data, Decide(s, d)
  PROVE  MemInv'
<1> DEFINE p == Peer(s)
           q == stack[s]
           t == Last(q)
           f == [t EXCEPT !.res = d]
           places == OutputPlaces(t.msg, t.off)
<1>1. /\ InCode(s) /\ q # <<>> /\ t.res = None
      /\ mem' = Put(mem, places, d)
      /\ stack' = [stack EXCEPT ![s] = Append(Front(q), f)]
      /\ health' = health /\ pipe' = pipe
  BY DEF Decide, Called, Top
<1>2. /\ Well(R, q) /\ Well(R, stack[p]) /\ health[s] = "up"
      /\ pipe[s] = <<>> /\ pipe[p] = <<>>
      /\ Len(q) = Len(stack[p]) /\ t.role = "proc"
  BY <1>1, CodeFacts DEF Top
<1>3. /\ p \in Sides /\ p # s /\ Agree(q, stack[p])
      /\ \A u \in Sides : u = s \/ u = p
  BY AgreeBothWays DEF Sides, Peer
<1>4. TypeOK
  BY DEF IInv
<1>5. t.msg \in Messages /\ t.off \in R
  BY <1>1, <1>2, LastOfWell
<1>6. \A r \in places : r.lo \in Nat /\ t.off <= r.lo
  BY <1>5 DEF PlacesAgree, LayoutsAgree, Inside
<1>7. /\ stack[p] # <<>> /\ Last(stack[p]).role # "proc"
      /\ Well(R, Front(stack[p])) /\ End(Front(stack[p])) = t.off
  BY <1>1, <1>2, <1>3, SameCall
<1>8. Sound(mem) /\ Safe(mem, q)
  BY <1>2 DEF MemInv, Up
<1>9. Sound(mem') /\ Safe(mem', Append(Front(q), f))
  <2> HIDE DEF q
  <2> QED
    BY <1>1, <1>2, <1>8, StoreKeepsSafe
<1> HIDE DEF f, places, t
<1>10. /\ stack'[s] = Append(Front(q), f) /\ stack'[p] = stack[p]
       /\ pipe'[s] = <<>> /\ pipe'[p] = <<>>
  BY <1>1, <1>2, <1>3, <1>4 DEF TypeOK
<1>11. ASSUME Up(p)'
       PROVE  Safe(mem', stack[p])
  <2>1. Safe(mem, stack[p])
    BY <1>1, <1>3, <1>11 DEF MemInv, Up
  <2>2. Safe(mem, Front(stack[p]))
    BY <1>2, <1>7, <2>1, SafePopped
  <2>3. Safe(mem', Front(stack[p]))
    BY <1>1, <1>6, <1>7, <2>2, SafeUnderPut
  <2> QED
    BY <1>2, <1>7, <2>3, SafePopped
<1>12. \A u \in Sides : Up(u)' => Safe(mem', stack'[u])
  BY <1>3, <1>9, <1>10, <1>11
<1> QED
  BY <1>9, <1>10, <1>12, NobodyWaits DEF MemInv

LEMMA ReplyKeepsMem ==
  ASSUME NEW R, LayoutsAgree(R), PlacesAgree(R), IInv(R), MemInv, NEW s \in Sides, Reply(s)
  PROVE  MemInv'
<1> DEFINE p == Peer(s)
           q == stack[s]
           t == Last(q)
           packet == [type |-> "return", res |-> t.res]
           places == AnswerPlaces(t.msg, t.off)
<1>1. /\ InCode(s) /\ q # <<>> /\ t.res # None
      /\ mem' = Put(mem, places, t.res)
      /\ ~Gone(p) => stack' = [stack EXCEPT ![s] = Front(@)]
      /\ Transmit(s, packet)
      /\ pc' = [pc EXCEPT ![s] = "receive"]
  BY DEF Reply, Called, Top, Pop
<1>2. /\ Well(R, q) /\ Well(R, stack[p])
      /\ health[s] = "up" /\ pc[s] = "code" /\ pc[p] = "receive"
      /\ pipe[s] = <<>> /\ pipe[p] = <<>>
      /\ Len(q) = Len(stack[p]) /\ t.role = "proc"
  BY <1>1, CodeFacts DEF Top
<1>3. /\ p \in Sides /\ p # s /\ Peer(p) = s /\ Agree(q, stack[p])
      /\ \A u \in Sides : u = s \/ u = p
  BY AgreeBothWays DEF Sides, Peer
<1>4. TypeOK
  BY DEF IInv
<1>5. t \in Frame /\ t.msg \in Messages /\ t.off \in R /\ t.off \in Nat /\ t.res \in Data
  <2>1. t \in Frame /\ t.msg \in Messages /\ t.off \in R
    BY <1>1, <1>2, LastOfWell
  <2> QED
    BY <1>1, <2>1 DEF Frame, Values
<1>6. \A r \in places : r.lo \in Nat /\ r.hi \in Nat /\ r.lo < r.hi /\ t.off <= r.lo
  <2>1. places \subseteq [lo : Nat, hi : Nat]
    BY <1>5 DEF LayoutsAgree
  <2>2. \A r \in places : t.off <= r.lo /\ r.lo < r.hi
    BY <1>5 DEF PlacesAgree
  <2> QED
    BY <2>1, <2>2
<1>7. Well(R, Front(q)) /\ End(Front(q)) = t.off
  BY <1>1, <1>2, PopWell
<1>8. /\ stack[p] # <<>> /\ Last(stack[p]).role # "proc"
      /\ Last(stack[p]).msg = t.msg /\ Last(stack[p]).off = t.off
      /\ Well(R, Front(stack[p])) /\ End(Front(stack[p])) = t.off
  BY <1>1, <1>2, <1>3, SameCall
<1>9. packet \in Packet /\ packet.type = "return" /\ packet.res = t.res
  BY <1>5 DEF Packet, Values
<1> HIDE DEF packet, places, t
<1>10. pc'[s] = "receive" /\ pc'[p] = pc[p]
  BY <1>1, <1>3, <1>4 DEF TypeOK
<1>11. /\ health'[p] = health[p]
       /\ \/ (\A u \in Sides : Gone(u))' /\ Gone(p)
          \/ pipe'[s] = <<>> /\ pipe'[p] = <<packet>> /\ ~Gone(p)
  BY <1>1, <1>2, <1>9, <1>10, Transmitted
<1>12. Sound(mem') /\ Holds(mem', places, t.res)
  BY <1>1, <1>6, PutHolds DEF MemInv
<1>13. Safe(mem, Front(q)) /\ Kept(mem, t)
  <2>1. Safe(mem, q)
    BY <1>2 DEF MemInv, Up
  <2> QED
    BY <1>1, <1>2, <2>1, SafePopped DEF t
<1>14. CASE Gone(p)
  <2>1. \A u \in Sides : ~Up(u)'
    <3>1. ~Up(p)
      BY <1>2, <1>14 DEF Gone
    <3>2. ~Up(s)'
      BY <1>10, <1>11, <1>14 DEF Gone
    <3> QED
      BY <1>3, <1>11, <3>1, <3>2 DEF Up
  <2>2. pipe' = pipe
    BY <1>1, <1>14 DEF Transmit
  <2> QED
    BY <1>2, <1>12, <2>1, <2>2, NobodyWaits DEF MemInv
<1>15. CASE ~Gone(p)
  <2>1. stack'[s] = Front(q) /\ stack'[p] = stack[p]
    BY <1>1, <1>3, <1>4, <1>15 DEF TypeOK
  <2>2. pipe'[s] = <<>> /\ pipe'[p] = <<packet>>
    BY <1>11, <1>15
  <2>3. Safe(mem', Front(q))
    BY <1>1, <1>6, <1>7, <1>13, SafeUnderPut
  <2>4. ASSUME Up(p)'
        PROVE  Safe(mem', stack[p])
    <3>1. Safe(mem, stack[p])
      BY <1>3, <1>11, <2>4 DEF MemInv, Up
    <3>2. Safe(mem, Front(stack[p]))
      BY <1>2, <1>8, <3>1, SafePopped
    <3>3. Safe(mem', Front(stack[p]))
      BY <1>1, <1>6, <1>8, <3>2, SafeUnderPut
    <3> QED
      BY <1>2, <1>8, <3>3, SafePopped
  <2>5. \A u \in Sides : Up(u)' => Safe(mem', stack'[u])
    BY <1>3, <2>1, <2>3, <2>4
  <2>6. /\ \A u \in Sides : ~Asked(u)'
        /\ \A u \in Sides : Answered(u)' => u = p
    <3>1. ~Asked(p)' /\ ~Asked(s)' /\ ~Answered(s)'
      BY <1>3, <1>9, <2>2 DEF Asked, Answered
    <3> QED
      BY <1>3, <3>1
  <2>7. Holds(mem', ResultPlaces(t.msg, t.off), t.res)
    <3>1. ASSUME NEW r \in ResultPlaces(t.msg, t.off)
          PROVE  [lo |-> r.lo, hi |-> r.hi, val |-> t.res] \in mem'
      <4>1. CASE r \in places
        BY <1>12, <4>1 DEF Holds
      <4>2. CASE r \in OutputPlaces(t.msg, t.off) /\ Apart({r}, places)
        <5>1. Holds(mem, {r}, t.res)
          BY <1>1, <1>13, <4>2 DEF Kept, Holds
        <5>2. Holds(mem', {r}, t.res)
          BY <1>1, <4>2, <5>1, PutKeeps
        <5> QED
          BY <5>2 DEF Holds
      <4> QED
        BY <1>5, <4>1, <4>2 DEF PlacesAgree, places
    <3> QED
      BY <3>1 DEF Holds
  <2>8. /\ Top(p)'.msg = t.msg /\ Top(p)'.off = t.off
        /\ Incoming(p)'.res = t.res
    BY <1>8, <1>9, <2>1, <2>2 DEF Top, Incoming
  <2> QED
    BY <1>12, <2>5, <2>6, <2>7, <2>8 DEF MemInv
<1> QED
  BY <1>14, <1>15

LEMMA ReturnKeepsMem ==
  ASSUME NEW R, LayoutsAgree(R), PlacesAgree(R), IInv(R), MemInv, NEW s \in Sides, Return(s)
  PROVE  MemInv'
<1> DEFINE p == Peer(s)
           q == stack[s]
           t == Last(q)
<1>1. /\ Take(s, "return") /\ q # <<>>
      /\ mem' = {e \in mem : e.hi <= t.off}
      /\ stack' = [stack EXCEPT ![s] = Front(@)]
  BY DEF Return, Top, Pop
<1>2. /\ Up(s) /\ Well(R, q) /\ Well(R, stack[p])
      /\ pipe' = [pipe EXCEPT ![s] = <<>>] /\ health' = health
      /\ Answered(s) \/ Handover(s)
  BY <1>1, Taken
<1>3. /\ p \in Sides /\ p # s /\ Peer(p) = s /\ Agree(q, stack[p])
      /\ \A u \in Sides : u = s \/ u = p
  BY AgreeBothWays DEF Sides, Peer
<1>4. TypeOK
  BY DEF IInv
<1>5. Answered(s)
  BY <1>1, <1>2 DEF Handover
<1>6. pipe[p] = <<>> /\ Len(q) = Len(stack[p]) + 1
  BY <1>5 DEF Answered, Waiting
<1>7. Well(R, Front(q)) /\ End(Front(q)) = t.off
  BY <1>1, <1>2, PopWell
<1>8. End(stack[p]) = t.off
  BY <1>2, <1>3, <1>6, AgreeEnds
<1> HIDE DEF t
<1>9. /\ stack'[s] = Front(q) /\ stack'[p] = stack[p]
      /\ pipe'[s] = <<>> /\ pipe'[p] = <<>>
  BY <1>1, <1>2, <1>3, <1>4, <1>6 DEF TypeOK
<1>10. Sound(mem')
  BY <1>1 DEF MemInv, Sound
<1>11. Safe(mem', Front(q))
  <2>1. Safe(mem, q)
    BY <1>2 DEF MemInv
  <2>2. Safe(mem, Front(q))
    BY <1>1, <1>2, <2>1, SafePopped
  <2> QED
    BY <1>1, <1>7, <2>2, SafeUnderCut
<1>12. ASSUME Up(p)'
       PROVE  Safe(mem', stack[p])
  <2>1. Safe(mem, stack[p])
    BY <1>2, <1>3, <1>12 DEF MemInv, Up
  <2> QED
    BY <1>1, <1>2, <1>8, <2>1, SafeUnderCut
<1>13. \A u \in Sides : Up(u)' => Safe(mem', stack'[u])
  BY <1>3, <1>9, <1>11, <1>12
<1> QED
  BY <1>9, <1>10, <1>13, NobodyWaits DEF MemInv

\* No call is open when the end of a pair changes hands or goes, and an end
\* that fails leaves the memory and the stacks as they are.
LEMMA OthersKeepMem ==
  ASSUME NEW R, IInv(R), MemInv,
         \/ ReturnEffect \/ WaitForEffect \/ Close \/ Stop
         \/ \E s \in Sides : ReadEof(s) \/ Crash(s)
  PROVE  MemInv'
<1>1. mem' = mem /\ stack' = stack
  BY DEF ReturnEffect, WaitForEffect, Close, Stop, ReadEof, Crash
<1>2. TypeOK
  BY DEF IInv
<1>3. \A t \in Sides : Up(t)' => Up(t)
  BY <1>2 DEF TypeOK, ReturnEffect, WaitForEffect, Close, Stop, ReadEof, Crash, Transmit, Take, Up
<1>4. \A t \in Sides : Up(t)' => Safe(mem', stack'[t])
  BY <1>1, <1>3 DEF MemInv
<1>5. CASE ReturnEffect \/ WaitForEffect \/ Close \/ Stop
  <2>1. PICK s \in Sides : stack[s] = <<>> /\ Len(stack[s]) = Len(stack[Peer(s)])
    <3>1. \A s \in Sides : Idle(s) => stack[s] = <<>> /\ Len(stack[s]) = Len(stack[Peer(s)])
      BY CodeFacts DEF Idle
    <3>2. ASSUME NEW s \in Sides, Take(s, "return"), stack[s] = <<>>
          PROVE  Len(stack[s]) = Len(stack[Peer(s)])
      <4>1. Answered(s) \/ Handover(s)
        BY <3>2, Taken
      <4>2. Len(stack[Peer(s)]) \in Nat
        BY <3>2, Taken, LenProperties DEF Well
      <4>3. ~Answered(s)
        BY <3>2, <4>2 DEF Answered, Waiting
      <4> QED
        BY <3>2, <4>1, <4>3 DEF Handover
    <3> QED
      BY <1>5, <3>1, <3>2 DEF ReturnEffect, WaitForEffect, Close, Stop, Sides
  <2>2. \A t \in Sides : Len(stack'[t]) = Len(stack'[Peer(t)]) /\ Len(stack'[t]) = 0
    BY <1>1, <2>1 DEF Sides, Peer
  <2>3. \A t \in Sides : ~Asked(t)' /\ ~Answered(t)'
    BY <2>2 DEF Asked, Answered, Waiting
  <2> QED
    BY <1>1, <1>4, <2>3 DEF MemInv
<1>6. CASE \E s \in Sides : ReadEof(s) \/ Crash(s)
  <2>1. pipe' = pipe /\ pc' = pc
    BY <1>6 DEF ReadEof, Crash
  <2>2. \A t \in Sides : /\ Asked(t)' => Asked(t)
                         /\ Answered(t)' => Answered(t)
                         /\ Top(t)' = Top(t) /\ Incoming(t)' = Incoming(t)
    BY <1>1, <2>1 DEF Asked, Answered, Waiting, Top, Incoming
  <2> QED
    BY <1>1, <1>4, <2>2 DEF MemInv
<1> QED
  BY <1>5, <1>6

LEMMA InitMem ==
  ASSUME Init
  PROVE  MemInv
<1>1. mem = {} /\ \A s \in Sides : stack[s] = <<>> /\ pipe[s] = <<>> /\ pipe[Peer(s)] = <<>>
  BY DEF Init, Sides, Peer
<1>2. Sound(mem)
  BY <1>1 DEF Sound
<1>3. \A s \in Sides : Safe(mem, stack[s])
  BY <1>1 DEF Safe
<1>4. \A s \in Sides : ~Asked(s) /\ ~Answered(s)
  <2>1. \A x : <<x>> # <<>>
    OBVIOUS
  <2>2. \A s \in Sides : ~Asked(s)
    BY <1>1, <2>1 DEF Asked
  <2>3. \A s \in Sides : ~Answered(s)
    BY <1>1, <2>1 DEF Answered
  <2> QED
    BY <2>2, <2>3
<1> QED
  BY <1>2, <1>3, <1>4 DEF MemInv

LEMMA ForgettingKeepsMem ==
  ASSUME MemInv, UNCHANGED <<pc, health, stack, pipe, mem>>
  PROVE  MemInv'
<1>1. \A t \in Sides : /\ Asked(t)' => Asked(t)
                       /\ Answered(t)' => Answered(t)
                       /\ Top(t)' = Top(t) /\ Incoming(t)' = Incoming(t)
  BY DEF Asked, Answered, Waiting, Top, Incoming
<1> QED
  BY <1>1 DEF MemInv, Up

LEMMA NextKeepsMem ==
  ASSUME NEW R, LayoutsAgree(R), PlacesAgree(R), IInv(R), MemInv, [Next]_vars
  PROVE  MemInv'
<1>1. CASE vars' = vars \/ Finished
  BY <1>1, ForgettingKeepsMem DEF vars, Finished
<1>2. CASE \E s \in Sides : EndStep(s)
  <2>1. PICK s \in Sides : EndStep(s)
    BY <1>2
  <2>2. CASE \E m \in CallsOf(s), d \in Data : Send(s, m, d)
    BY <2>2, SendKeepsMem DEF Send
  <2>3. CASE Receive(s)
    BY <2>3, ReceiveKeepsMem
  <2>4. CASE \E d \in Data : Decide(s, d)
    BY <2>4, DecideKeepsMem
  <2>5. CASE Reply(s)
    BY <2>5, ReplyKeepsMem
  <2>6. CASE Return(s)
    BY <2>6, ReturnKeepsMem
  <2>7. CASE ReadEof(s) \/ Crash(s)
    BY <2>7, OthersKeepMem
  <2> QED
    BY <2>1, <2>2, <2>3, <2>4, <2>5, <2>6, <2>7 DEF EndStep
<1>3. CASE ReturnEffect \/ WaitForEffect \/ Close \/ Stop
  BY <1>3, OthersKeepMem
<1> QED
  BY <1>1, <1>2, <1>3 DEF Next

------------------------------------------------------------------------------
(* The theorems *)

\* What a running function finds in memory.
Intact(m, f) ==
  /\ \A p \in ArgumentPlaces(f.msg, f.off)
               \ (IF f.res = None THEN {} ELSE OutputPlaces(f.msg, f.off)) : At(m, p) = f.arg
  /\ f.res # None => \A p \in OutputPlaces(f.msg, f.off) : At(m, p) = f.res

LEMMA KeptIntact ==
  ASSUME NEW m, Sound(m), NEW f \in Frame, Kept(m, f)
  PROVE  Intact(m, f)
<1>1. f.arg \in Data /\ (f.res # None => f.res \in Data)
  BY DEF Frame, Values
<1>2. ASSUME NEW p \in ArgumentPlaces(f.msg, f.off)
                          \ (IF f.res = None THEN {} ELSE OutputPlaces(f.msg, f.off))
      PROVE  At(m, p) = f.arg
  <2>1. [lo |-> p.lo, hi |-> p.hi, val |-> f.arg] \in m
    BY <1>2 DEF Kept, Holds
  <2> QED
    BY <1>1, <2>1, AtHeld
<1>3. ASSUME f.res # None, NEW p \in OutputPlaces(f.msg, f.off)
      PROVE  At(m, p) = f.res
  <2>1. [lo |-> p.lo, hi |-> p.hi, val |-> f.res] \in m
    BY <1>3 DEF Kept, Holds
  <2> QED
    BY <1>1, <1>3, <2>1, AtHeld
<1> QED
  BY <1>2, <1>3 DEF Intact

LEMMA FrameInStack ==
  ASSUME NEW q \in Seq(Frame), NEW m, Sound(m), Safe(m, q),
         NEW i \in DOMAIN q, q[i].role = "proc"
  PROVE  Intact(m, q[i])
<1>1. q[i] \in Frame
  BY LenProperties, ElementOfSeq
<1> QED
  BY <1>1, KeptIntact DEF Safe

LEMMA MemoryIntact ==
  ASSUME \A s \in Sides : Up(s) /\ stack[s] # <<>> =>
           stack[s] \in Seq(Frame) /\ Sound(mem) /\ Safe(mem, stack[s])
  PROVE  ArgumentsIntact /\ OutputsIntact
<1>1. ASSUME NEW s \in Sides, Up(s), NEW f \in ProcFrames(s)
      PROVE  Intact(mem, f)
  <2>1. PICK i \in DOMAIN stack[s] : stack[s][i].role = "proc" /\ f = stack[s][i]
    BY DEF ProcFrames
  <2>2. stack[s] # <<>>
    BY <2>1
  <2> QED
    BY <1>1, <2>1, <2>2, FrameInStack
<1> QED
  BY <1>1 DEF ArgumentsIntact, OutputsIntact, Intact

LEMMA InvIntact ==
  ASSUME NEW R, IInv(R), MemInv
  PROVE  ArgumentsIntact /\ OutputsIntact
BY MemoryIntact DEF IInv, Well, MemInv

\* Whatever the two programs call and however deep, the memory that a running
\* function has been given its arguments in holds them until the function
\* stores its own result there: no send_message nested inside it, and no answer
\* to one, is written over them.
THEOREM ArgumentsStayIntact ==
  ASSUME NEW R, LayoutsAgree(R), PlacesAgree(R)
  PROVE  Spec => []ArgumentsIntact
<1>1. IInv(R) /\ MemInv => ArgumentsIntact
  BY InvIntact
<1>2. Init => IInv(R) /\ MemInv
  BY InitInv, InitMem
<1>3. IInv(R) /\ MemInv /\ [Next]_vars => IInv(R)' /\ MemInv'
  BY NextKeepsInv, NextKeepsMem
<1> QED
  BY <1>1, <1>2, <1>3, PTL DEF Spec

\* What a function has stored through the pointer it was given stays there
\* until it returns, however often it calls back before it does.
THEOREM OutputsStayIntact ==
  ASSUME NEW R, LayoutsAgree(R), PlacesAgree(R)
  PROVE  Spec => []OutputsIntact
<1>1. IInv(R) /\ MemInv => OutputsIntact
  BY InvIntact
<1>2. Init => IInv(R) /\ MemInv
  BY InitInv, InitMem
<1>3. IInv(R) /\ MemInv /\ [Next]_vars => IInv(R)' /\ MemInv'
  BY NextKeepsInv, NextKeepsMem
<1> QED
  BY <1>1, <1>2, <1>3, PTL DEF Spec

------------------------------------------------------------------------------
(* The side that runs when no call is open *)

Outermost(s) ==
  \/ pc[s] = "code" /\ stack[s] = <<>>
  \/ stack[s] # <<>> /\ stack[s][1].role = "call"

\* Until the effect is created the server makes the outermost calls, and only
\* in the primary pair; then the client does.
BaseInv ==
  /\ ~primary => created
  /\ \A s \in Sides : Outermost(s) => (created <=> s = "client")
  /\ Handover("client") => ~created

LEMMA InitBase ==
  ASSUME Init
  PROVE  BaseInv
<1>1. /\ created = ~primary /\ primary \in BOOLEAN
      /\ \A s \in Sides : stack[s] = <<>> /\ pipe[s] = <<>>
      /\ pc["client"] = (IF primary THEN "receive" ELSE "code")
      /\ pc["server"] = (IF primary THEN "code" ELSE "receive")
  BY DEF Init
<1>2. \A s \in Sides : s = "client" \/ s = "server"
  BY DEF Sides
<1>3. \A s \in Sides : Outermost(s) => (created <=> s = "client")
  BY <1>1, <1>2 DEF Outermost
<1>4. ~Handover("client")
  <2>1. \A x : <<x>> # <<>>
    OBVIOUS
  <2>2. "client" \in Sides
    BY DEF Sides
  <2> QED
    BY <1>1, <2>1, <2>2 DEF Handover
<1> QED
  BY <1>1, <1>3, <1>4 DEF BaseInv

\* An action of the end s that keeps created and leaves no answerless return
\* behind has to see to its own outermost call only.
LEMMA BaseRestored ==
  ASSUME BaseInv, NEW s \in Sides,
         primary' = primary, created' = created, ~Handover("client")',
         pc'[Peer(s)] = pc[Peer(s)] \/ pc'[Peer(s)] # "code",
         stack'[Peer(s)] = stack[Peer(s)],
         Outermost(s)' => Outermost(s)
  PROVE  BaseInv'
<1>1. \A t \in Sides : t = s \/ t = Peer(s)
  BY DEF Sides, Peer
<1>2. Outermost(Peer(s))' => Outermost(Peer(s))
  BY DEF Outermost
<1>3. \A t \in Sides : Outermost(t)' => (created <=> t = "client")
  BY <1>1, <1>2 DEF BaseInv
<1> QED
  BY <1>3 DEF BaseInv

LEMMA CallsKeepBase ==
  ASSUME NEW R, LayoutsAgree(R), IInv(R), IInv(R)', BaseInv, NEW s \in Sides,
         \/ \E m \in CallsOf(s), d \in Data : Send(s, m, d)
         \/ Receive(s)
         \/ \E d \in Data : Decide(s, d)
         \/ Reply(s)
         \/ Return(s)
  PROVE  BaseInv'
<1> DEFINE p == Peer(s)
           q == stack[s]
           r == stack'[s]
<1>1. /\ p \in Sides /\ p # s /\ Peer(p) = s
      /\ \A t \in Sides : t = s \/ t = p
  BY AgreeBothWays DEF Sides, Peer
<1>2. TypeOK
  BY DEF IInv
<1>3. primary' = primary /\ created' = created
  BY DEF Send, SendMessage, Receive, Decide, Reply, Return, Take
<1>4. stack'[p] = stack[p] /\ pc'[p] = pc[p]
  BY <1>1, <1>2 DEF TypeOK, Send, SendMessage, Receive, Decide, Reply, Return, Pop
<1>5. Well(R, q) /\ q \in Seq(Frame) /\ Len(q) \in Nat /\ DOMAIN q = 1 .. Len(q)
  <2>1. Well(R, q)
    BY DEF IInv
  <2> QED
    BY <2>1, LenProperties DEF Well
<1>6. q # <<>> => Len(q) >= 1
  BY <1>5, FrontProperties
<1>16. q # <<>> /\ Front(q) # <<>> => Front(q)[1] = q[1]
  <2> HIDE DEF q
  <2> SUFFICES ASSUME q # <<>>, Front(q) # <<>>
               PROVE  Front(q)[1] = q[1]
    OBVIOUS
  <2>1. /\ Front(q) \in Seq(Frame) /\ Len(Front(q)) = Len(q) - 1
        /\ \A i \in 1 .. Len(q) - 1 : Front(q)[i] = q[i]
    BY <1>5, FrontProperties
  <2>2. Len(Front(q)) >= 1
    BY <2>1, EmptySeq, LenProperties
  <2> QED
    BY <1>5, <2>1, <2>2
<1>7. ~Handover("client")' /\ (Outermost(s)' => Outermost(s))
  <2>1. ASSUME NEW m \in CallsOf(s), NEW d \in Data, Send(s, m, d)
        PROVE  ~Handover("client")' /\ (Outermost(s)' => Outermost(s))
    <3>1. PICK f : r = Append(q, f)
      BY <1>2, <2>1 DEF Send, SendMessage, TypeOK
    <3>2. r # <<>> /\ (q # <<>> => r[1] = q[1])
      BY <1>5, <1>6, <3>1
    <3>3. ~Handover("client")'
      BY <1>1, <3>2 DEF Handover, Sides
    <3>4. pc[s] = "code"
      BY <2>1 DEF Send, SendMessage, InCode
    <3> QED
      BY <3>2, <3>3, <3>4 DEF Outermost
  <2>2. ASSUME Receive(s)
        PROVE  ~Handover("client")' /\ (Outermost(s)' => Outermost(s))
    <3> DEFINE m == Incoming(s).msg
               f == [role |-> "proc", msg |-> m, off |-> offset[s],
                     size |-> Total(MapRequest(m), offset[s]), arg |-> Incoming(s).arg,
                     seen |-> {Incoming(s).arg} \cup ReadAt(mem, ArgumentPlaces(m, offset[s])),
                     res |-> None]
    <3>0. stack' = [stack EXCEPT ![s] = Append(@, f)] /\ f.role = "proc"
      BY <2>2 DEF Receive
    <3> HIDE DEF f
    <3>1. r = Append(q, f) /\ f.role = "proc"
      BY <1>2, <3>0 DEF TypeOK
    <3>2. r # <<>> /\ (q # <<>> => r[1] = q[1]) /\ (q = <<>> => r[1] = f)
      BY <1>5, <1>6, <3>1
    <3>3. ~Handover("client")'
      BY <1>1, <3>2 DEF Handover, Sides
    <3>4. Outermost(s)' => Outermost(s)
      <4>1. CASE q = <<>>
        <5>1. r # <<>> /\ r[1].role = "proc"
          BY <3>1, <3>2, <4>1
        <5> HIDE DEF r
        <5>2. ~Outermost(s)'
          BY <5>1 DEF Outermost, r
        <5> QED
          BY <5>2
      <4>2. CASE q # <<>>
        BY <3>2, <4>2 DEF Outermost
      <4> QED
        BY <4>1, <4>2
    <3> QED
      BY <3>3, <3>4
  <2>3. ASSUME NEW d \in Data, Decide(s, d)
        PROVE  ~Handover("client")' /\ (Outermost(s)' => Outermost(s))
    <3>1. q # <<>> /\ d \in Values /\ r = Append(Front(q), [Last(q) EXCEPT !.res = d])
      BY <1>2, <2>3 DEF Decide, Called, TypeOK, Values
    <3>2. r # <<>> /\ r[1].role = q[1].role
      <4>1. 1 \in DOMAIN q
        BY <1>5, <1>6, <3>1
      <4> HIDE DEF r, q
      <4> QED
        BY <1>5, <3>1, <4>1, StoreWell
    <3>3. ~Handover("client")'
      BY <1>1, <3>2 DEF Handover, Sides
    <3> QED
      BY <3>1, <3>2, <3>3 DEF Outermost
  <2>4. ASSUME Reply(s)
        PROVE  ~Handover("client")' /\ (Outermost(s)' => Outermost(s))
    <3>1. /\ q # <<>> /\ Last(q).res # None
          /\ r = q \/ r = Front(q)
          /\ pc'[s] = "receive"
          /\ Transmit(s, [type |-> "return", res |-> Last(q).res])
          /\ InCode(s)
      BY <1>2, <2>4 DEF Reply, Called, Top, Pop, TypeOK
    <3>2. pipe[s] = <<>> /\ pipe[p] = <<>> /\ pipe \in [Sides -> Seq(Packet)]
      BY <1>2, <3>1, CodeFacts DEF TypeOK
    <3>3. \A t \in Sides : pipe'[t] # <<Answerless>>
      <4>1. pipe'[s] = <<>>
        BY <1>1, <3>1, <3>2 DEF Transmit
      <4>2. pipe'[p] = <<>> \/ pipe'[p] = <<[type |-> "return", res |-> Last(q).res]>>
        BY <1>1, <3>1, <3>2 DEF Transmit
      <4>3. \A x : <<x>> # <<>> /\ <<x>>[1] = x
        OBVIOUS
      <4>4. Answerless.res = None /\ [type |-> "return", res |-> Last(q).res].res = Last(q).res
        BY DEF Answerless
      <4>5. [type |-> "return", res |-> Last(q).res] # Answerless
        BY <3>1, <4>4
      <4>6. <<[type |-> "return", res |-> Last(q).res]>> # <<Answerless>>
        BY <4>3, <4>5
      <4> QED
        BY <1>1, <4>1, <4>2, <4>3, <4>6
    <3>4. ~Handover("client")'
      BY <3>3 DEF Handover, Sides
    <3>5. Front(q) # <<>> => Front(q)[1] = q[1]
      BY <1>16, <3>1
    <3> QED
      BY <3>1, <3>4, <3>5 DEF Outermost
  <2>5. ASSUME Return(s)
        PROVE  ~Handover("client")' /\ (Outermost(s)' => Outermost(s))
    <3>1. /\ Take(s, "return") /\ q # <<>> /\ r = Front(q)
      BY <1>2, <2>5 DEF Return, Pop, TypeOK
    <3>2. Answered(s)
      BY <3>1, Taken DEF Handover
    <3>3. pipe'[s] = <<>> /\ pipe'[p] = <<>>
      BY <3>1, <3>2, Taken DEF Answered
    <3>4. ~Handover("client")'
      <4>1. <<Answerless>> # <<>>
        OBVIOUS
      <4> QED
        BY <1>1, <3>3, <4>1 DEF Handover, Sides
    <3>5. Last(q).role = "call"
      BY <3>2 DEF Answered, Waiting, Top
    <3>6. /\ r # <<>> => r[1] = q[1]
          /\ r = <<>> => Last(q) = q[1]
      <4>1. /\ Len(q) >= 1 /\ Len(r) = Len(q) - 1 /\ DOMAIN r = 1 .. Len(q) - 1
            /\ \A i \in 1 .. Len(q) - 1 : r[i] = q[i]
            /\ Last(q) = q[Len(q)] /\ r \in Seq(Frame)
        BY <1>5, <3>1, FrontProperties
      <4>2. r # <<>> => Len(r) >= 1
        BY <4>1, FrontProperties
      <4>3. r = <<>> => Len(r) = 0
        OBVIOUS
      <4> HIDE DEF r, q
      <4> QED
        BY <1>5, <4>1, <4>2, <4>3
    <3> QED
      BY <3>1, <3>4, <3>5, <3>6 DEF Outermost
  <2> QED
    BY <2>1, <2>2, <2>3, <2>4, <2>5
<1> QED
  BY <1>3, <1>4, <1>7, BaseRestored

LEMMA OthersKeepBase ==
  ASSUME NEW R, IInv(R), BaseInv,
         \/ ReturnEffect \/ WaitForEffect \/ Close \/ Stop
         \/ \E s \in Sides : ReadEof(s) \/ Crash(s)
  PROVE  BaseInv'
<1>1. /\ TypeOK /\ stack' = stack /\ primary' = primary
      /\ "client" \in Sides /\ "server" \in Sides /\ "client" # "server"
      /\ Peer("client") = "server" /\ Peer("server") = "client"
      /\ \A s \in Sides : s = "client" \/ s = "server"
  BY DEF IInv, ReturnEffect, WaitForEffect, Close, Stop, ReadEof, Crash, Take, Sides, Peer
<1>2. <<Answerless>> # <<>>
  OBVIOUS
<1>3. CASE ReturnEffect
  <2>1. /\ Idle("server") /\ primary
        /\ pc'["server"] = "receive" /\ pc'["client"] = pc["client"] /\ created' = created
    BY <1>1, <1>3 DEF ReturnEffect, TypeOK
  <2>2. Outermost("server") /\ ~created
    BY <1>1, <2>1 DEF Idle, InCode, Outermost, BaseInv
  <2>3. \A s \in Sides : Outermost(s)' => Outermost(s)
    BY <1>1, <2>1 DEF Outermost
  <2> QED
    BY <1>1, <2>1, <2>2, <2>3 DEF BaseInv
<1>4. CASE WaitForEffect
  <2>1. Take("client", "return") /\ stack["client"] = <<>> /\ created' = TRUE
    BY <1>4 DEF WaitForEffect
  <2>2. Handover("client")
    <3>1. Answered("client") \/ Handover("client")
      BY <1>1, <2>1, Taken
    <3>2. Len(stack["server"]) \in Nat
      BY <1>1, <2>1, Taken, LenProperties DEF Well
    <3>3. ~Answered("client")
      BY <1>1, <2>1, <3>2, EmptySeq DEF Answered, Waiting
    <3> QED
      BY <3>1, <3>3
  <2>3. pc'["server"] # "code" /\ stack'["server"] = <<>> /\ pipe'["client"] = <<>>
    BY <1>1, <1>4, <2>1, <2>2 DEF Handover, WaitForEffect, TypeOK, Take
  <2>4. ~Outermost("server")' /\ ~Handover("client")'
    BY <1>2, <2>3 DEF Outermost, Handover
  <2> QED
    BY <1>1, <2>1, <2>4 DEF BaseInv
<1>5. CASE Close
  <2>1. /\ Idle("client") /\ Transmit("client", Answerless)
        /\ pc'["client"] = "done" /\ pc'["server"] = pc["server"] /\ created' = created
    BY <1>1, <1>5 DEF Close, TypeOK
  <2>2. pipe["client"] = <<>>
    BY <1>1, <2>1, CodeFacts DEF Idle
  <2>3. pipe'["client"] = <<>>
    BY <1>1, <2>1, <2>2 DEF Transmit, TypeOK
  <2>4. \A s \in Sides : Outermost(s)' => Outermost(s)
    BY <1>1, <2>1 DEF Outermost
  <2>5. ~Handover("client")'
    BY <1>2, <2>3 DEF Handover
  <2> QED
    BY <1>1, <2>1, <2>4, <2>5 DEF BaseInv
<1>6. CASE Stop
  <2>1. /\ pc'["server"] = "done" /\ pc'["client"] = pc["client"] /\ created' = created
        /\ Take("server", "return") /\ stack["server"] = <<>>
    BY <1>1, <1>6 DEF Stop, TypeOK
  <2>2. \A s \in Sides : Outermost(s)' => Outermost(s)
    BY <1>1, <2>1 DEF Outermost
  <2>3. ~Handover("client")'
    BY <1>1, <2>1 DEF Handover
  <2> QED
    BY <1>1, <2>1, <2>2, <2>3 DEF BaseInv
<1>7. CASE \E s \in Sides : ReadEof(s) \/ Crash(s)
  <2>1. pc' = pc /\ pipe' = pipe /\ created' = created
    BY <1>7 DEF ReadEof, Crash
  <2>2. \A s \in Sides : Outermost(s)' => Outermost(s)
    BY <1>1, <2>1 DEF Outermost
  <2>3. Handover("client")' => Handover("client")
    BY <1>1, <2>1 DEF Handover
  <2> QED
    BY <1>1, <2>1, <2>2, <2>3 DEF BaseInv
<1> QED
  BY <1>3, <1>4, <1>5, <1>6, <1>7

LEMMA NextKeepsBase ==
  ASSUME NEW R, LayoutsAgree(R), IInv(R), BaseInv, [Next]_vars
  PROVE  BaseInv'
<1>1. CASE vars' = vars \/ Finished
  <2>1. vars' = vars
    BY <1>1 DEF Finished
  <2> QED
    BY <2>1 DEF vars, BaseInv, Outermost, Handover
<1>2. CASE \E s \in Sides : EndStep(s)
  <2>1. PICK s \in Sides : EndStep(s)
    BY <1>2
  <2>2. IInv(R)'
    BY NextKeepsInv
  <2>3. CASE ReadEof(s) \/ Crash(s)
    BY <2>3, OthersKeepBase
  <2>4. CASE \/ \E m \in CallsOf(s), d \in Data : Send(s, m, d)
             \/ Receive(s)
             \/ \E d \in Data : Decide(s, d)
             \/ Reply(s)
             \/ Return(s)
    BY <2>2, <2>4, CallsKeepBase
  <2> QED
    BY <2>1, <2>3, <2>4 DEF EndStep
<1>3. CASE ReturnEffect \/ WaitForEffect \/ Close \/ Stop
  BY <1>3, OthersKeepBase
<1> QED
  BY <1>1, <1>2, <1>3 DEF Next

------------------------------------------------------------------------------
(* The open calls, read off two stacks and two pipes *)

CallerIn(st, i) == CHOOSE s \in Sides : i \in DOMAIN st[s] /\ st[s][i].role = "call"

EnteredCall(st, c, i) ==
  [by |-> c, msg |-> st[c][i].msg, arg |-> st[c][i].arg,
   seen |-> st[Peer(c)][i].seen, res |-> st[Peer(c)][i].res, stage |-> "running"]

PendingCall(st, pi, c, i) ==
  [by |-> c, msg |-> st[c][i].msg, arg |-> st[c][i].arg, seen |-> {},
   res |-> IF pi[c] # <<>> THEN Head(pi[c]).res ELSE None,
   stage |-> IF pi[c] # <<>> THEN "answered" ELSE "sent"]

CallIn(st, pi, i) ==
  LET c == CallerIn(st, i)
  IN  IF i \in DOMAIN st[Peer(c)] THEN EnteredCall(st, c, i) ELSE PendingCall(st, pi, c, i)

Depth(st) ==
  IF Len(st["client"]) >= Len(st["server"]) THEN Len(st["client"]) ELSE Len(st["server"])

CallsIn(st, pi) == [i \in 1 .. Depth(st) |-> CallIn(st, pi, i)]

LEMMA OpenCallsIn == OpenCalls = CallsIn(stack, pipe)
<1>1. ASSUME NEW i
      PROVE  CallAt(i) = CallIn(stack, pipe, i)
  <2>1. Caller(i) = CallerIn(stack, i)
    BY DEF Caller, CallerIn
  <2>2. CASE i \in DOMAIN stack[Peer(Caller(i))]
    BY <2>1, <2>2 DEF CallAt, CallIn, EnteredCall
  <2>3. CASE i \notin DOMAIN stack[Peer(Caller(i))]
    BY <2>1, <2>3 DEF CallAt, CallIn, PendingCall, Incoming
  <2> QED
    BY <2>2, <2>3
<1> QED
  BY <1>1 DEF OpenCalls, CallsIn, Depth

LEMMA OpenCallsNext == OpenCalls' = CallsIn(stack', pipe')
<1>1. ASSUME NEW i
      PROVE  CallAt(i)' = CallIn(stack', pipe', i)
  <2>1. Caller(i)' = CallerIn(stack', i)
    BY DEF Caller, CallerIn
  <2>2. CASE i \in DOMAIN stack'[Peer(Caller(i)')]
    BY <2>1, <2>2 DEF CallAt, CallIn, EnteredCall
  <2>3. CASE i \notin DOMAIN stack'[Peer(Caller(i)')]
    BY <2>1, <2>3 DEF CallAt, CallIn, PendingCall, Incoming
  <2> QED
    BY <2>2, <2>3
<1> QED
  BY <1>1 DEF OpenCalls, CallsIn, Depth

LEMMA CallIs ==
  ASSUME NEW st, NEW pi, NEW i, NEW c \in Sides,
         i \in DOMAIN st[c], st[c][i].role = "call",
         i \in DOMAIN st[Peer(c)] => st[Peer(c)][i].role # "call"
  PROVE  CallIn(st, pi, i) = IF i \in DOMAIN st[Peer(c)] THEN EnteredCall(st, c, i)
                             ELSE PendingCall(st, pi, c, i)
<1>1. \A s \in Sides : s = c \/ s = Peer(c)
  BY DEF Sides, Peer
<1>2. CallerIn(st, i) = c
  BY <1>1 DEF CallerIn
<1> QED
  BY <1>2 DEF CallIn

\* Both stacks have their frame i in common with two others.
SameFrames(st, st2, i) ==
  \A t \in Sides : i \in DOMAIN st[t] /\ i \in DOMAIN st2[t] /\ st2[t][i] = st[t][i]

\* One of the two frames i is the caller's, the other the callee's.
Opposite(st, i) ==
  \E c \in Sides : Peer(c) \in Sides /\ st[c][i].role = "call" /\ st[Peer(c)][i].role # "call"

\* A call that its callee has entered is read off the two frames alone.
LEMMA CallKept ==
  ASSUME NEW st, NEW pi, NEW st2, NEW pi2, NEW i, SameFrames(st, st2, i), Opposite(st, i)
  PROVE  CallIn(st2, pi2, i) = CallIn(st, pi, i)
<1>2. PICK c \in Sides : st[c][i].role = "call" /\ st[Peer(c)][i].role # "call" /\ Peer(c) \in Sides
  BY DEF Opposite
<1>3. CallIn(st, pi, i) = EnteredCall(st, c, i)
  BY <1>2, CallIs DEF SameFrames
<1>4. CallIn(st2, pi2, i) = EnteredCall(st2, c, i)
  BY <1>2, CallIs DEF SameFrames
<1> QED
  BY <1>2, <1>3, <1>4 DEF EnteredCall, SameFrames

\* Two states have their n outermost calls in common.
SameBelow(st, pi, st2, pi2, n) ==
  \A i \in 1 .. n : CallIn(st2, pi2, i) = CallIn(st, pi, i)

LEMMA CallsPushed ==
  ASSUME NEW st, NEW pi, NEW st2, NEW pi2, NEW n \in Nat,
         Depth(st) = n, Depth(st2) = n + 1,
         SameBelow(st, pi, st2, pi2, n)
  PROVE  /\ CallsIn(st2, pi2) = Append(CallsIn(st, pi), CallIn(st2, pi2, n + 1))
         /\ CallsIn(st, pi) = Front(CallsIn(st2, pi2))
         /\ Last(CallsIn(st2, pi2)) = CallIn(st2, pi2, n + 1)
         /\ CallsIn(st2, pi2) # <<>>
<1> DEFINE f == CallsIn(st, pi)
           g == CallsIn(st2, pi2)
<1>1. f = [i \in 1 .. n |-> CallIn(st, pi, i)] /\ g = [i \in 1 .. n + 1 |-> CallIn(st2, pi2, i)]
  BY DEF CallsIn
<1> HIDE DEF f, g
<1> DEFINE S == {g[i] : i \in 1 .. n + 1}
<1>2. \A i \in 1 .. n : g[i] = f[i]
  BY <1>1 DEF SameBelow
<1>3. f \in [1 .. n -> S] /\ g \in [1 .. n + 1 -> S]
  <2>1. g \in [1 .. n + 1 -> S]
    BY <1>1
  <2>2. \A i \in 1 .. n : f[i] \in S
    BY <1>2
  <2> HIDE DEF S
  <2>3. f \in [1 .. n -> S]
    BY <1>1, <2>2
  <2> QED
    BY <2>1, <2>3
<1> HIDE DEF S
<1>4. g[n + 1] = CallIn(st2, pi2, n + 1)
  BY <1>1
<1>5. /\ g = Append(f, g[n + 1]) /\ f = Front(g) /\ Last(g) = g[n + 1] /\ g # <<>>
  <2>1. Extends(n, f, g)
    BY <1>2, <1>3 DEF Extends
  <2> QED
    BY <2>1, LongerFunction
<1> QED
  BY <1>4, <1>5 DEF f, g

LEMMA CallsReplaced ==
  ASSUME NEW st, NEW pi, NEW st2, NEW pi2, NEW n \in Nat,
         Depth(st) = n + 1, Depth(st2) = n + 1,
         SameBelow(st, pi, st2, pi2, n)
  PROVE  /\ CallsIn(st2, pi2) = Append(Front(CallsIn(st, pi)), CallIn(st2, pi2, n + 1))
         /\ Last(CallsIn(st, pi)) = CallIn(st, pi, n + 1)
         /\ CallsIn(st, pi) # <<>>
<1> DEFINE f == [i \in 1 .. n |-> CallIn(st, pi, i)]
           g == CallsIn(st, pi)
           h == CallsIn(st2, pi2)
<1>1. g = [i \in 1 .. n + 1 |-> CallIn(st, pi, i)] /\ h = [i \in 1 .. n + 1 |-> CallIn(st2, pi2, i)]
  BY DEF CallsIn
<1>2. f = [i \in 1 .. n |-> f[i]] /\ \A i \in 1 .. n : f[i] = CallIn(st, pi, i)
  OBVIOUS
<1> HIDE DEF f, g, h
<1> DEFINE S == {g[i] : i \in 1 .. n + 1} \cup {h[i] : i \in 1 .. n + 1}
<1>4. \A i \in 1 .. n : g[i] = f[i] /\ h[i] = f[i]
  BY <1>1, <1>2 DEF SameBelow
<1>3. f \in [1 .. n -> S] /\ g \in [1 .. n + 1 -> S] /\ h \in [1 .. n + 1 -> S]
  <2>1. g \in [1 .. n + 1 -> S] /\ h \in [1 .. n + 1 -> S]
    BY <1>1
  <2>2. \A i \in 1 .. n : f[i] \in S
    BY <1>4
  <2> HIDE DEF S
  <2>3. f \in [1 .. n -> S]
    BY <1>2, <2>2
  <2> QED
    BY <2>1, <2>3
<1> HIDE DEF S
<1>5. h[n + 1] = CallIn(st2, pi2, n + 1) /\ g[n + 1] = CallIn(st, pi, n + 1)
  BY <1>1
<1>6. Extends(n, f, g) /\ Extends(n, f, h)
  BY <1>3, <1>4 DEF Extends
<1>7. f = Front(g) /\ Last(g) = g[n + 1] /\ g # <<>> /\ h = Append(f, h[n + 1])
  BY <1>6, LongerFunction
<1> QED
  BY <1>5, <1>7 DEF g, h

LEMMA NoCalls ==
  ASSUME NEW st, NEW pi, Depth(st) = 0
  PROVE  CallsIn(st, pi) = <<>>
<1>1. CallsIn(st, pi) \in [1 .. 0 -> {}]
  BY DEF CallsIn
<1>2. 0 \in Nat
  OBVIOUS
<1>3. CallsIn(st, pi) \in Seq({}) /\ Len(CallsIn(st, pi)) = 0
  BY <1>1, <1>2, SeqDef, LenProperties
<1> QED
  BY <1>3, EmptySeq

------------------------------------------------------------------------------
(* Every step is a step of the one thread, or none *)

LEMMA SameOperators ==
  /\ \A q : Abstract!Last(q) = Last(q) /\ Abstract!Front(q) = Front(q)
  /\ \A s : Abstract!Peer(s) = Peer(s)
  /\ Abstract!Sides = Sides
BY DEF Abstract!Last, Last, Abstract!Front, Front, Abstract!Peer, Peer, Abstract!Sides, Sides

LEMMA DepthIs ==
  ASSUME NEW st, NEW s \in Sides, NEW n \in Nat, Len(st[s]) = n,
         Len(st[Peer(s)]) \in Nat, Len(st[Peer(s)]) = n \/ Len(st[Peer(s)]) + 1 = n
  PROVE  Depth(st) = n /\ Depth(st) = Len(st[s])
<1>1. (s = "client" /\ Peer(s) = "server") \/ (s = "server" /\ Peer(s) = "client")
  BY DEF Sides, Peer
<1> QED
  BY <1>1 DEF Depth

\* A frame of both stacks is of one call.
LEMMA Opposed ==
  ASSUME NEW R, IInv(R), NEW s \in Sides, NEW i \in DOMAIN stack[s], i \in DOMAIN stack[Peer(s)]
  PROVE  /\ {stack[s][i].role, stack[Peer(s)][i].role} = {"call", "proc"}
         /\ stack[s][i].msg = stack[Peer(s)][i].msg
         /\ stack[s][i].arg = stack[Peer(s)][i].arg
         /\ Opposite(stack, i)
<1>1. /\ {stack[s][i].role, stack[Peer(s)][i].role} = {"call", "proc"}
      /\ stack[s][i].msg = stack[Peer(s)][i].msg
      /\ stack[s][i].arg = stack[Peer(s)][i].arg
  BY AgreeBothWays DEF Agree
<1>2. \A a, b : {a, b} = {"call", "proc"} => (a = "call" /\ b # "call") \/ (b = "call" /\ a # "call")
  OBVIOUS
<1>3. \/ stack[s][i].role = "call" /\ stack[Peer(s)][i].role # "call"
      \/ stack[Peer(s)][i].role = "call" /\ stack[s][i].role # "call"
  BY <1>1, <1>2
<1>4. Peer(s) \in Sides /\ Peer(Peer(s)) = s
  BY DEF Sides, Peer
<1> QED
  BY <1>1, <1>3, <1>4 DEF Opposite

\* A running end is in the innermost call, or is the base of the stack.
LEMMA RunsAsBefore ==
  ASSUME NEW R, IInv(R), BaseInv, NEW s \in Sides, InCode(s)
  PROVE  /\ Len(stack[s]) \in Nat /\ Depth(stack) = Len(stack[s])
         /\ \A t \in Sides : DOMAIN stack[t] = 1 .. Len(stack[s])
         /\ Abstract!Runs(s)
         /\ stack[s] # <<>> =>
              CallIn(stack, pipe, Len(stack[s])) = EnteredCall(stack, Peer(s), Len(stack[s]))
<1> DEFINE p == Peer(s)
           n == Len(stack[s])
<1>1. /\ p \in Sides /\ p # s /\ Peer(p) = s
      /\ \A t \in Sides : t = s \/ t = p
  BY AgreeBothWays DEF Sides, Peer
<1>2. /\ Well(R, stack[s]) /\ Well(R, stack[p])
      /\ pc[s] = "code" /\ pc[p] = "receive"
      /\ Len(stack[p]) = n
      /\ stack[s] # <<>> => Top(s).role = "proc"
  BY CodeFacts
<1>3. /\ n \in Nat /\ DOMAIN stack[s] = 1 .. n /\ DOMAIN stack[p] = 1 .. n
      /\ stack[s] # <<>> => n >= 1 /\ Last(stack[s]) = stack[s][n]
      /\ stack[s] = <<>> => n = 0
  <2>1. stack[s] \in Seq(Frame) /\ stack[p] \in Seq(Frame)
    BY <1>2 DEF Well
  <2>2. n \in Nat /\ DOMAIN stack[s] = 1 .. n /\ DOMAIN stack[p] = 1 .. n
    BY <1>2, <2>1, LenProperties
  <2>3. stack[s] # <<>> => n >= 1 /\ Last(stack[s]) = stack[s][n]
    BY <2>1, FrontProperties
  <2> QED
    BY <2>2, <2>3
<1>4. Depth(stack) = n
  BY <1>2, <1>3, DepthIs
<1>5. stack[s] # <<>> => CallIn(stack, pipe, n) = EnteredCall(stack, p, n)
  <2> SUFFICES ASSUME stack[s] # <<>>
               PROVE  CallIn(stack, pipe, n) = EnteredCall(stack, p, n)
    OBVIOUS
  <2>1. n \in DOMAIN stack[s] /\ n \in DOMAIN stack[p] /\ stack[s][n].role = "proc"
    BY <1>2, <1>3 DEF Top
  <2>2. {stack[s][n].role, stack[p][n].role} = {"call", "proc"}
    BY <2>1, Opposed
  <2>3. \A role : {"proc", role} = {"call", "proc"} => role = "call"
    OBVIOUS
  <2>4. stack[p][n].role = "call" /\ "proc" # "call"
    BY <2>1, <2>2, <2>3
  <2>5. stack[s][n].role # "call"
    BY <2>1
  <2> QED
    BY <1>1, <2>1, <2>4, <2>5, CallIs
<1>6. Abstract!Runs(s)
  <2>1. CASE stack[s] = <<>>
    <3>1. OpenCalls = <<>>
      BY <1>3, <1>4, <2>1, NoCalls, OpenCallsIn
    <3>2. Outermost(s)
      BY <1>2, <2>1 DEF Outermost
    <3>3. created <=> s = "client"
      BY <3>2 DEF BaseInv
    <3>4. pc["client"] # "done"
      BY <1>1, <1>2 DEF Sides
    <3>5. (IF pc["client"] = "done" THEN None ELSE IF created THEN "client" ELSE "server") = s
      BY <3>3, <3>4 DEF Sides
    <3> QED
      BY <3>1, <3>5 DEF Abstract!Runs
  <2>2. CASE stack[s] # <<>>
    <3>1. n - 1 \in Nat /\ Depth(stack) = (n - 1) + 1 /\ (n - 1) + 1 = n
      BY <1>3, <1>4, <2>2
    <3>2. Last(CallsIn(stack, pipe)) = CallIn(stack, pipe, n) /\ CallsIn(stack, pipe) # <<>>
      <4>1. SameBelow(stack, pipe, stack, pipe, n - 1)
        BY DEF SameBelow
      <4> HIDE DEF n
      <4> QED
        BY <3>1, <4>1, CallsReplaced
    <3>3. Abstract!Top = EnteredCall(stack, p, n) /\ OpenCalls # <<>>
      BY <1>5, <2>2, <3>2, OpenCallsIn, SameOperators DEF Abstract!Top
    <3>4. Abstract!Top.stage = "running" /\ Abstract!Top.by = p
      BY <3>3 DEF EnteredCall
    <3> QED
      BY <3>3, <3>4, SameOperators DEF Abstract!Runs
  <2> QED
    BY <2>1, <2>2
<1> QED
  BY <1>1, <1>3, <1>4, <1>5, <1>6

LEMMA SendRefines ==
  ASSUME NEW R, LayoutsAgree(R), IInv(R), BaseInv, NEW s \in Sides,
         NEW m \in CallsOf(s), NEW d \in Data, Send(s, m, d)
  PROVE  Abstract!Send(s, m, d)
<1> DEFINE p == Peer(s)
           n == Len(stack[s])
           f == [role |-> "call", msg |-> m, off |-> offset[s],
                 size |-> Total(WriteRequest(m), offset[s]), arg |-> d, seen |-> {}, res |-> None]
<1>1. /\ InCode(s) /\ stack' = [stack EXCEPT ![s] = Append(@, f)]
      /\ pc' = [pc EXCEPT ![s] = "receive"] /\ got' = {} /\ created' = created
      /\ Transmit(s, [type |-> "request", msg |-> m, arg |-> d])
  BY DEF Send, SendMessage
<1>2. /\ p \in Sides /\ p # s /\ Peer(p) = s
      /\ \A t \in Sides : t = s \/ t = p
  BY AgreeBothWays DEF Sides, Peer
<1>3. /\ n \in Nat /\ Depth(stack) = n
      /\ \A t \in Sides : DOMAIN stack[t] = 1 .. n
      /\ Abstract!Runs(s)
  BY <1>1, RunsAsBefore
<1>4. /\ stack[s] \in Seq(Frame) /\ pipe[s] = <<>> /\ Len(stack[p]) = n /\ pc[s] = "code"
      /\ stack \in [Sides -> Seq(Frame)] /\ pc \in [Sides -> {"code", "receive", "done"}]
      /\ pipe \in [Sides -> Seq(Packet)]
  BY <1>1, CodeFacts DEF Well, IInv, TypeOK
<1>5. f.role = "call" /\ f.msg = m /\ f.arg = d
  OBVIOUS
<1> HIDE DEF f
<1>6. /\ stack'[s] = Append(stack[s], f) /\ stack'[p] = stack[p]
      /\ pipe'[s] = <<>> /\ pc'[s] = "receive" /\ pc'[p] = pc[p]
  BY <1>1, <1>2, <1>4 DEF Transmit
<1>7. /\ Len(stack'[s]) = n + 1 /\ DOMAIN stack'[s] = 1 .. n + 1 /\ DOMAIN stack'[p] = 1 .. n
      /\ stack'[s][n + 1] = f /\ \A i \in 1 .. n : stack'[s][i] = stack[s][i]
  <2>1. stack[s] \in Seq(Frame \cup {f}) /\ f \in Frame \cup {f}
    BY <1>4, SeqMonotonic
  <2>2. /\ Len(stack'[s]) = n + 1 /\ DOMAIN stack'[s] = 1 .. n + 1
        /\ stack'[s][n + 1] = f /\ \A i \in 1 .. n : stack'[s][i] = stack[s][i]
    BY <1>6, <2>1, AppendedProperties
  <2> QED
    BY <1>2, <1>3, <1>6, <2>2
<1>8. Depth(stack') = n + 1
  BY <1>2, <1>3, <1>4, <1>6, <1>7, DepthIs
<1>9. SameBelow(stack, pipe, stack', pipe', n)
  <2> SUFFICES ASSUME NEW i \in 1 .. n
               PROVE  CallIn(stack', pipe', i) = CallIn(stack, pipe, i)
    BY DEF SameBelow
  <2>1. SameFrames(stack, stack', i)
    BY <1>2, <1>3, <1>6, <1>7 DEF SameFrames
  <2>2. Opposite(stack, i)
    BY <1>2, <2>1, Opposed DEF SameFrames
  <2> QED
    BY <2>1, <2>2, CallKept
<1>10. CallIn(stack', pipe', n + 1) = [by |-> s, msg |-> m, arg |-> d, seen |-> {},
                                       res |-> None, stage |-> "sent"]
  <2>1. n + 1 \in DOMAIN stack'[s] /\ n + 1 \notin DOMAIN stack'[p]
    BY <1>3, <1>7
  <2>2. CallIn(stack', pipe', n + 1) = PendingCall(stack', pipe', s, n + 1)
    BY <1>5, <1>7, <2>1, CallIs
  <2> QED
    BY <1>5, <1>6, <1>7, <2>2 DEF PendingCall
<1>11. OpenCalls' = Append(OpenCalls, [by |-> s, msg |-> m, arg |-> d, seen |-> {},
                                       res |-> None, stage |-> "sent"])
  BY <1>3, <1>8, <1>9, <1>10, CallsPushed, OpenCallsIn, OpenCallsNext
<1>12. pc'["client"] = "done" <=> pc["client"] = "done"
  BY <1>2, <1>4, <1>6 DEF Sides
<1> QED
  BY <1>1, <1>3, <1>11, <1>12 DEF Abstract!Send

\* The callee has in its hands what the caller passed, and nothing else.
LEMMA ReceiveRefines ==
  ASSUME NEW R, LayoutsAgree(R), PlacesAgree(R), IInv(R), MemInv, NEW s \in Sides, Receive(s)
  PROVE  Abstract!Accept
<1> DEFINE p == Peer(s)
           n == Len(stack[s])
           m == Incoming(s).msg
           d == Incoming(s).arg
           off == offset[s]
           f == [role |-> "proc", msg |-> m, off |-> off, size |-> Total(MapRequest(m), off),
                 arg |-> d, seen |-> {d} \cup ReadAt(mem, ArgumentPlaces(m, off)),
                 res |-> None]
<1>1. /\ Take(s, "request") /\ stack' = [stack EXCEPT ![s] = Append(@, f)]
      /\ pc' = [pc EXCEPT ![s] = "code"] /\ got' = {} /\ created' = created
  BY DEF Receive
<1>2. /\ Well(R, stack[s]) /\ Well(R, stack[p]) /\ off = End(stack[s]) /\ Asked(p)
  BY <1>1, Taken
<1>3. /\ p \in Sides /\ p # s /\ Peer(p) = s /\ Agree(stack[p], stack[s])
      /\ \A t \in Sides : t = s \/ t = p
  BY AgreeBothWays, AgreeSymmetric DEF Sides, Peer
<1>4. /\ pipe[p] = <<>> /\ pc[p] = "receive" /\ pc[s] = "receive"
      /\ pipe[s] = <<[type |-> "request", msg |-> Top(p).msg, arg |-> Top(p).arg]>>
      /\ Len(stack[p]) = n + 1 /\ Top(p).role = "call"
  BY <1>2, <1>3 DEF Asked, Waiting
<1>5. m = Top(p).msg /\ d = Top(p).arg
  BY <1>4 DEF Incoming
<1>6. stack[p] # <<>> /\ Top(p).off = off
  BY <1>2, <1>3, <1>4, AgreeEnds DEF Top
<1>7. Top(p) \in Frame /\ m \in Messages /\ off \in R /\ d \in Data
  BY <1>2, <1>5, <1>6, LastOfWell DEF Top, Frame
<1>8. f.seen = {d} /\ f.role = "proc" /\ f.res = None
  <2>1. Holds(mem, RequestPlaces(m, off), d)
    BY <1>2, <1>3, <1>5, <1>6 DEF MemInv
  <2>2. ArgumentPlaces(m, off) \subseteq RequestPlaces(m, off)
    BY <1>7 DEF PlacesAgree
  <2>3. Holds(mem, ArgumentPlaces(m, off), d)
    BY <2>1, <2>2 DEF Holds
  <2> QED
    BY <1>7, <2>3, ReadHeld DEF MemInv
<1> HIDE DEF f, m, d
<1>9. /\ n \in Nat /\ DOMAIN stack[s] = 1 .. n /\ DOMAIN stack[p] = 1 .. n + 1
      /\ Top(p) = stack[p][n + 1]
  <2>1. stack[s] \in Seq(Frame) /\ stack[p] \in Seq(Frame)
    BY <1>2 DEF Well
  <2> QED
    BY <1>4, <1>6, <2>1, LenProperties, FrontProperties DEF Top
<1>10. /\ stack'[s] = Append(stack[s], f) /\ stack'[p] = stack[p]
       /\ pc'[s] = "code" /\ pc'[p] = pc[p]
  BY <1>1, <1>3 DEF IInv, TypeOK
<1>11. /\ Len(stack'[s]) = n + 1 /\ DOMAIN stack'[s] = 1 .. n + 1
       /\ stack'[s][n + 1] = f /\ \A i \in 1 .. n : stack'[s][i] = stack[s][i]
  <2>1. stack[s] \in Seq(Frame \cup {f}) /\ f \in Frame \cup {f}
    BY <1>2, SeqMonotonic DEF Well
  <2> QED
    BY <1>10, <2>1, AppendedProperties
<1>12. Depth(stack) = n + 1 /\ Depth(stack') = n + 1
  <2>1. n + 1 \in Nat
    BY <1>9
  <2>2. Depth(stack) = n + 1
    BY <1>3, <1>4, <1>9, <2>1, DepthIs
  <2>3. Depth(stack') = n + 1
    BY <1>3, <1>4, <1>10, <1>11, <2>1, DepthIs
  <2> QED
    BY <2>2, <2>3
<1>13. SameBelow(stack, pipe, stack', pipe', n)
  <2> SUFFICES ASSUME NEW i \in 1 .. n
               PROVE  CallIn(stack', pipe', i) = CallIn(stack, pipe, i)
    BY DEF SameBelow
  <2>1. SameFrames(stack, stack', i)
    BY <1>3, <1>9, <1>10, <1>11 DEF SameFrames
  <2>2. Opposite(stack, i)
    BY <1>3, <2>1, Opposed DEF SameFrames
  <2> QED
    BY <2>1, <2>2, CallKept
<1>14. CallIn(stack, pipe, n + 1) = [by |-> p, msg |-> m, arg |-> d, seen |-> {},
                                     res |-> None, stage |-> "sent"]
  <2>1. n + 1 \in DOMAIN stack[p] /\ n + 1 \notin DOMAIN stack[s]
    BY <1>9
  <2>2. CallIn(stack, pipe, n + 1) = PendingCall(stack, pipe, p, n + 1)
    BY <1>3, <1>4, <1>9, <2>1, CallIs
  <2> QED
    BY <1>4, <1>5, <1>9, <2>2 DEF PendingCall
<1>15. CallIn(stack', pipe', n + 1) = [by |-> p, msg |-> m, arg |-> d, seen |-> {d},
                                       res |-> None, stage |-> "running"]
  <2>1. n + 1 \in DOMAIN stack'[p] /\ n + 1 \in DOMAIN stack'[s]
    BY <1>9, <1>10, <1>11
  <2>2. stack'[p][n + 1].role = "call" /\ stack'[s][n + 1].role # "call"
    BY <1>4, <1>8, <1>9, <1>10, <1>11
  <2>3. CallIn(stack', pipe', n + 1) = EnteredCall(stack', p, n + 1)
    BY <1>3, <2>1, <2>2, CallIs
  <2> QED
    BY <1>3, <1>5, <1>8, <1>9, <1>10, <1>11, <2>3 DEF EnteredCall
<1>16. /\ OpenCalls' = Append(Front(OpenCalls), CallIn(stack', pipe', n + 1))
       /\ Last(OpenCalls) = CallIn(stack, pipe, n + 1) /\ OpenCalls # <<>>
  BY <1>9, <1>12, <1>13, CallsReplaced, OpenCallsIn, OpenCallsNext
<1>17. Abstract!Top = CallIn(stack, pipe, n + 1)
  BY <1>16, SameOperators DEF Abstract!Top
<1>18. [Abstract!Top EXCEPT !.seen = {Abstract!Top.arg}, !.stage = "running"]
         = CallIn(stack', pipe', n + 1)
  <2>1. /\ Abstract!Top = CallOf(p, m, d, {}, None, "sent")
        /\ CallIn(stack', pipe', n + 1) = CallOf(p, m, d, {d}, None, "running")
    BY <1>14, <1>15, <1>17 DEF CallOf
  <2>2. {Abstract!Top.arg} = {d}
    BY <1>14, <1>17
  <2>3. Moving(Abstract!Top, {Abstract!Top.arg}, "running") = CallIn(stack', pipe', n + 1)
    <3>1. Moving(CallOf(p, m, d, {}, None, "sent"), {d}, "running")
            = CallOf(p, m, d, {d}, None, "running")
      BY Moved
    <3> QED
      BY <2>1, <2>2, <3>1
  <2> QED
    BY <2>3 DEF Moving
<1>19. pc'["client"] = "done" <=> pc["client"] = "done"
  BY <1>3, <1>4, <1>10 DEF Sides
<1>20. Abstract!Top.stage = "sent"
  BY <1>14, <1>17
<1> QED
  BY <1>1, <1>16, <1>18, <1>19, <1>20, SameOperators DEF Abstract!Accept, Abstract!ReplaceTop

LEMMA DecideRefines ==
  ASSUME NEW R, LayoutsAgree(R), IInv(R), BaseInv, NEW s \in Sides, NEW d \in Data, Decide(s, d)
  PROVE  Abstract!Decide(d)
<1> DEFINE p == Peer(s)
           q == stack[s]
           n == Len(q)
           r == Append(Front(q), [Last(q) EXCEPT !.res = d])
<1>1. /\ InCode(s) /\ q # <<>> /\ Last(q).res = None
      /\ stack' = [stack EXCEPT ![s] = r]
      /\ got' = {} /\ created' = created /\ pc' = pc /\ pipe' = pipe
  BY DEF Decide, Called, Top
<1>2. /\ p \in Sides /\ p # s /\ Peer(p) = s
      /\ \A t \in Sides : t = s \/ t = p
  BY AgreeBothWays DEF Sides, Peer
<1>3. /\ n \in Nat /\ Depth(stack) = n
      /\ DOMAIN stack[s] = 1 .. n /\ DOMAIN stack[p] = 1 .. n
      /\ CallIn(stack, pipe, n) = EnteredCall(stack, p, n)
  BY <1>1, <1>2, RunsAsBefore
<1>4. q \in Seq(Frame) /\ Len(stack[p]) = n /\ stack \in [Sides -> Seq(Frame)]
  BY <1>1, CodeFacts DEF Well, IInv, TypeOK
<1>5. /\ n >= 1 /\ Last(q) = q[n] /\ q[n] \in Frame
      /\ Front(q) \in Seq(Frame) /\ Len(Front(q)) = n - 1
      /\ \A i \in 1 .. n - 1 : Front(q)[i] = q[i]
  BY <1>1, <1>4, FrontProperties
<1>6. /\ Len(r) = n /\ DOMAIN r = 1 .. n
      /\ \A i \in 1 .. n - 1 : r[i] = q[i]
      /\ r[n] = [q[n] EXCEPT !.res = d]
  <2> DEFINE f == [Last(q) EXCEPT !.res = d]
  <2>1. Front(q) \in Seq(Frame \cup {f}) /\ f \in Frame \cup {f}
    BY <1>5, SeqMonotonic
  <2>2. f = [q[n] EXCEPT !.res = d]
    BY <1>5
  <2> HIDE DEF f
  <2>3. /\ Len(Append(Front(q), f)) = n - 1 + 1 /\ DOMAIN Append(Front(q), f) = 1 .. n - 1 + 1
        /\ \A i \in 1 .. n - 1 : Append(Front(q), f)[i] = Front(q)[i]
        /\ Append(Front(q), f)[n - 1 + 1] = f
    BY <1>5, <2>1, AppendedProperties
  <2>4. n - 1 + 1 = n
    BY <1>3
  <2> QED
    BY <1>5, <2>2, <2>3, <2>4 DEF f
<1> HIDE DEF r
<1>7. stack'[s] = r /\ stack'[p] = stack[p]
  BY <1>1, <1>2, <1>4
<1>8. Depth(stack') = n
  BY <1>2, <1>3, <1>4, <1>6, <1>7, DepthIs
<1>9. SameBelow(stack, pipe, stack', pipe', n - 1)
  <2> SUFFICES ASSUME NEW i \in 1 .. n - 1
               PROVE  CallIn(stack', pipe', i) = CallIn(stack, pipe, i)
    BY DEF SameBelow
  <2>0. i \in 1 .. n
    BY <1>3
  <2>1. SameFrames(stack, stack', i)
    BY <1>2, <1>3, <1>6, <1>7, <2>0 DEF SameFrames
  <2>2. Opposite(stack, i)
    BY <1>2, <2>1, Opposed DEF SameFrames
  <2> QED
    BY <2>1, <2>2, CallKept
<1>10. Last(q).role = "proc"
  BY <1>1, CodeFacts DEF Top
<1>11. CallIn(stack', pipe', n) = [CallIn(stack, pipe, n) EXCEPT !.res = d]
  <2>1. n \in DOMAIN stack[s] /\ n \in DOMAIN stack[p] /\ n \in DOMAIN stack'[p] /\ n \in DOMAIN stack'[s]
    BY <1>3, <1>5, <1>6, <1>7
  <2>2. stack'[s][n] = [q[n] EXCEPT !.res = d] /\ q[n].role = "proc" /\ q[n] \in Frame
    BY <1>5, <1>6, <1>7, <1>10
  <2>3. stack'[s][n].role = "proc" /\ stack'[s][n].seen = q[n].seen /\ stack'[s][n].res = d
    BY <2>2 DEF Frame
  <2>4. stack'[p][n].role = "call" /\ "proc" # "call"
    <3>1. {stack[s][n].role, stack[p][n].role} = {"call", "proc"}
      BY <1>2, <2>1, Opposed
    <3>2. \A role : {"proc", role} = {"call", "proc"} => role = "call"
      OBVIOUS
    <3> QED
      BY <1>7, <2>2, <3>1, <3>2
  <2>5. stack'[s][n].role # "call"
    BY <2>3, <2>4
  <2>6. CallIn(stack', pipe', n) = EnteredCall(stack', p, n)
    BY <1>2, <2>1, <2>4, <2>5, CallIs
  <2> QED
    BY <1>2, <1>3, <1>7, <2>3, <2>6 DEF EnteredCall
<1>12. /\ OpenCalls' = Append(Front(OpenCalls), CallIn(stack', pipe', n))
       /\ Last(OpenCalls) = CallIn(stack, pipe, n) /\ OpenCalls # <<>>
  <2>1. n - 1 \in Nat /\ Depth(stack) = (n - 1) + 1 /\ Depth(stack') = (n - 1) + 1 /\ (n - 1) + 1 = n
    BY <1>3, <1>5, <1>8
  <2> HIDE DEF n
  <2> QED
    BY <1>9, <2>1, CallsReplaced, OpenCallsIn, OpenCallsNext
<1>13. Abstract!Top = CallIn(stack, pipe, n)
  BY <1>12, SameOperators DEF Abstract!Top
<1>14. Abstract!Top.stage = "running" /\ Abstract!Top.res = None
  BY <1>1, <1>2, <1>3, <1>5, <1>13 DEF EnteredCall
<1> QED
  BY <1>1, <1>11, <1>12, <1>13, <1>14, SameOperators DEF Abstract!Decide, Abstract!ReplaceTop

\* An answer that nobody is left to read ends the process, not the call.
LEMMA ReplyRefines ==
  ASSUME NEW R, LayoutsAgree(R), IInv(R), BaseInv, NEW s \in Sides, Reply(s)
  PROVE  IF Gone(Peer(s)) THEN UNCHANGED Abstract!vars ELSE Abstract!Answer
<1> DEFINE p == Peer(s)
           q == stack[s]
           n == Len(q)
           packet == [type |-> "return", res |-> Last(q).res]
<1>1. /\ InCode(s) /\ q # <<>> /\ Last(q).res # None
      /\ IF Gone(p) THEN stack' = stack /\ got' = got
                    ELSE stack' = [stack EXCEPT ![s] = Front(@)] /\ got' = {}
      /\ Transmit(s, packet)
      /\ pc' = [pc EXCEPT ![s] = "receive"] /\ created' = created
  BY DEF Reply, Called, Top, Pop
<1>2. /\ p \in Sides /\ p # s /\ Peer(p) = s
      /\ \A t \in Sides : t = s \/ t = p
  BY AgreeBothWays DEF Sides, Peer
<1>3. /\ n \in Nat /\ Depth(stack) = n
      /\ DOMAIN stack[s] = 1 .. n /\ DOMAIN stack[p] = 1 .. n
      /\ CallIn(stack, pipe, n) = EnteredCall(stack, p, n)
  BY <1>1, <1>2, RunsAsBefore
<1>4. /\ q \in Seq(Frame) /\ Len(stack[p]) = n /\ stack \in [Sides -> Seq(Frame)]
      /\ pc[s] = "code" /\ pc \in [Sides -> {"code", "receive", "done"}]
      /\ pipe[p] = <<>> /\ pipe[s] = <<>> /\ pipe \in [Sides -> Seq(Packet)]
  BY <1>1, CodeFacts DEF Well, IInv, TypeOK
<1>5. pc'["client"] = "done" <=> pc["client"] = "done"
  <2>1. pc'[s] = "receive" /\ pc'[p] = pc[p]
    BY <1>1, <1>2, <1>4
  <2> QED
    BY <1>2, <1>4, <2>1 DEF Sides
<1>6. CASE Gone(p)
  <2>1. stack' = stack /\ pipe' = pipe /\ got' = got
    BY <1>1, <1>6 DEF Transmit
  <2> QED
    BY <1>1, <1>5, <1>6, <2>1, OpenCallsIn, OpenCallsNext DEF Abstract!vars
<1>7. CASE ~Gone(p)
  <2>1. /\ stack'[s] = Front(q) /\ stack'[p] = stack[p]
        /\ pipe'[p] = <<packet>> /\ got' = {}
    BY <1>1, <1>2, <1>4, <1>7 DEF Transmit
  <2>2. /\ n >= 1 /\ Last(q) = q[n] /\ Len(Front(q)) = n - 1 /\ DOMAIN Front(q) = 1 .. n - 1
        /\ \A i \in 1 .. n - 1 : Front(q)[i] = q[i]
    BY <1>1, <1>4, FrontProperties
  <2>3. Depth(stack') = n
    <3>1. Len(stack'[p]) = n /\ Len(stack'[s]) = n - 1 /\ n - 1 \in Nat /\ n - 1 + 1 = n
      BY <1>3, <1>4, <2>1, <2>2
    <3> QED
      BY <1>2, <1>3, <3>1, DepthIs
  <2>4. SameBelow(stack, pipe, stack', pipe', n - 1)
    <3> SUFFICES ASSUME NEW i \in 1 .. n - 1
                 PROVE  CallIn(stack', pipe', i) = CallIn(stack, pipe, i)
      BY DEF SameBelow
    <3>1. i \in 1 .. n
      BY <1>3
    <3>2. SameFrames(stack, stack', i)
      BY <1>2, <1>3, <2>1, <2>2, <3>1 DEF SameFrames
    <3>3. Opposite(stack, i)
      BY <1>2, <3>2, Opposed DEF SameFrames
    <3> QED
      BY <3>2, <3>3, CallKept
  <2>5. CallIn(stack', pipe', n) = [by |-> p, msg |-> stack[p][n].msg, arg |-> stack[p][n].arg,
                                    seen |-> {}, res |-> Last(q).res, stage |-> "answered"]
    <3>1. n \in DOMAIN stack'[p] /\ n \notin DOMAIN stack'[s] /\ n \in DOMAIN stack[s] /\ n \in DOMAIN stack[p]
      BY <1>3, <2>1, <2>2
    <3>2. stack'[p][n].role = "call"
      <4>1. {stack[s][n].role, stack[p][n].role} = {"call", "proc"}
        BY <1>2, <3>1, Opposed
      <4>2. stack[s][n].role = "proc"
        BY <1>1, <2>2, CodeFacts DEF Top
      <4>3. \A role : {"proc", role} = {"call", "proc"} => role = "call"
        OBVIOUS
      <4> QED
        BY <2>1, <4>1, <4>2, <4>3
    <3>3. CallIn(stack', pipe', n) = PendingCall(stack', pipe', p, n)
      BY <1>2, <3>1, <3>2, CallIs
    <3>4. pipe'[p] # <<>> /\ Head(pipe'[p]) = packet
      BY <2>1
    <3>5. /\ stack'[p][n].msg = stack[p][n].msg /\ stack'[p][n].arg = stack[p][n].arg
          /\ Head(pipe'[p]).res = Last(q).res
      BY <2>1, <3>4
    <3>6. PendingCall(stack', pipe', p, n)
            = [by |-> p, msg |-> stack'[p][n].msg, arg |-> stack'[p][n].arg, seen |-> {},
               res |-> Head(pipe'[p]).res, stage |-> "answered"]
      BY <3>4 DEF PendingCall
    <3> QED
      BY <3>3, <3>5, <3>6
  <2>6. /\ OpenCalls' = Append(Front(OpenCalls), CallIn(stack', pipe', n))
        /\ Last(OpenCalls) = CallIn(stack, pipe, n) /\ OpenCalls # <<>>
    <3>1. n - 1 \in Nat /\ Depth(stack) = (n - 1) + 1 /\ Depth(stack') = (n - 1) + 1 /\ (n - 1) + 1 = n
      BY <1>3, <2>2, <2>3
    <3> HIDE DEF n
    <3> QED
      BY <2>4, <3>1, CallsReplaced, OpenCallsIn, OpenCallsNext
  <2>7. Abstract!Top = [by |-> p, msg |-> stack[p][n].msg, arg |-> stack[p][n].arg,
                        seen |-> stack[s][n].seen, res |-> Last(q).res, stage |-> "running"]
    BY <1>2, <1>3, <2>2, <2>6, SameOperators DEF Abstract!Top, EnteredCall
  <2>8. [Abstract!Top EXCEPT !.seen = {}, !.stage = "answered"] = CallIn(stack', pipe', n)
    <3>1. /\ Abstract!Top = CallOf(p, stack[p][n].msg, stack[p][n].arg,
                                  stack[s][n].seen, Last(q).res, "running")
          /\ CallIn(stack', pipe', n) = CallOf(p, stack[p][n].msg, stack[p][n].arg,
                                              {}, Last(q).res, "answered")
      BY <2>5, <2>7 DEF CallOf
    <3>2. Moving(Abstract!Top, {}, "answered") = CallIn(stack', pipe', n)
      BY <3>1, Moved
    <3> QED
      BY <3>2 DEF Moving
  <2>9. Abstract!Top.stage = "running" /\ Abstract!Top.res # None
    BY <1>1, <2>7
  <2> QED
    BY <1>1, <1>5, <1>7, <2>1, <2>6, <2>8, <2>9, SameOperators DEF Abstract!Answer, Abstract!ReplaceTop
<1> QED
  BY <1>6, <1>7

\* The caller has the result in its hands, and nothing else.
LEMMA ReturnRefines ==
  ASSUME NEW R, LayoutsAgree(R), PlacesAgree(R), IInv(R), MemInv, NEW s \in Sides, Return(s)
  PROVE  Abstract!Deliver
<1> DEFINE p == Peer(s)
           q == stack[s]
           n == Len(stack[p])
           t == Last(q)
<1>1. /\ Take(s, "return") /\ q # <<>>
      /\ got' = {Incoming(s).res} \cup ReadAt(mem, ResultPlaces(t.msg, t.off))
      /\ stack' = [stack EXCEPT ![s] = Front(@)]
      /\ pc' = [pc EXCEPT ![s] = "code"] /\ created' = created
  BY DEF Return, Top, Pop, AnswerAt
<1>2. /\ Well(R, q) /\ Well(R, stack[p]) /\ Answered(s) /\ pc[s] = "receive"
  BY <1>1, Taken DEF Handover, Take
<1>3. /\ p \in Sides /\ p # s /\ Peer(p) = s
      /\ \A u \in Sides : u = s \/ u = p
  BY AgreeBothWays DEF Sides, Peer
<1>4. /\ Len(q) = n + 1 /\ t.role = "call" /\ pipe[s] # <<>>
      /\ \E d \in Data : pipe[s] = <<[type |-> "return", res |-> d]>>
  BY <1>2 DEF Answered, Waiting, Top
<1>5. got' = {Incoming(s).res}
  <2>1. Incoming(s).res \in Data
    BY <1>4 DEF Incoming
  <2>2. Holds(mem, ResultPlaces(t.msg, t.off), Incoming(s).res)
    BY <1>2 DEF MemInv, Top
  <2> QED
    BY <1>1, <2>1, <2>2, ReadHeld DEF MemInv
<1>6. /\ n \in Nat /\ DOMAIN stack[p] = 1 .. n /\ DOMAIN q = 1 .. n + 1 /\ t = q[n + 1]
      /\ Len(Front(q)) = n /\ DOMAIN Front(q) = 1 .. n
      /\ \A i \in 1 .. n : Front(q)[i] = q[i]
  <2>1. q \in Seq(Frame) /\ stack[p] \in Seq(Frame)
    BY <1>2 DEF Well
  <2>2. n \in Nat /\ DOMAIN stack[p] = 1 .. n
    BY <2>1, LenProperties
  <2>3. /\ DOMAIN q = 1 .. Len(q) /\ t = q[Len(q)] /\ Len(Front(q)) = Len(q) - 1
        /\ DOMAIN Front(q) = 1 .. Len(q) - 1
        /\ \A i \in 1 .. Len(q) - 1 : Front(q)[i] = q[i]
    BY <1>1, <2>1, FrontProperties
  <2>4. Len(q) - 1 = n
    BY <1>4, <2>2
  <2> QED
    BY <1>4, <2>2, <2>3, <2>4
<1>7. /\ stack'[s] = Front(q) /\ stack'[p] = stack[p]
      /\ pc'[s] = "code" /\ pc'[p] = pc[p]
  BY <1>1, <1>3 DEF IInv, TypeOK
<1>8. Depth(stack) = n + 1 /\ Depth(stack') = n
  <2>1. n + 1 \in Nat
    BY <1>6
  <2>2. Depth(stack) = n + 1
    BY <1>3, <1>4, <1>6, <2>1, DepthIs
  <2>3. Depth(stack') = n
    BY <1>3, <1>6, <1>7, DepthIs
  <2> QED
    BY <2>2, <2>3
<1>9. SameBelow(stack', pipe', stack, pipe, n)
  <2> SUFFICES ASSUME NEW i \in 1 .. n
               PROVE  CallIn(stack, pipe, i) = CallIn(stack', pipe', i)
    BY DEF SameBelow
  <2>1. i \in 1 .. n + 1
    BY <1>6
  <2>2. SameFrames(stack, stack', i)
    BY <1>3, <1>6, <1>7, <2>1 DEF SameFrames
  <2>3. Opposite(stack, i)
    BY <1>3, <2>2, Opposed DEF SameFrames
  <2> QED
    BY <2>2, <2>3, CallKept
<1>10. /\ OpenCalls' = Front(OpenCalls) /\ OpenCalls # <<>>
       /\ Last(OpenCalls) = CallIn(stack, pipe, n + 1)
  BY <1>6, <1>8, <1>9, CallsPushed, OpenCallsIn, OpenCallsNext
<1>11. CallIn(stack, pipe, n + 1) = PendingCall(stack, pipe, s, n + 1)
  <2>1. n + 1 \in DOMAIN stack[s] /\ n + 1 \notin DOMAIN stack[p]
    BY <1>6
  <2> QED
    BY <1>3, <1>4, <1>6, <2>1, CallIs
<1>12. Abstract!Top.stage = "answered" /\ Abstract!Top.res = Incoming(s).res
  <2>1. Abstract!Top = PendingCall(stack, pipe, s, n + 1)
    BY <1>10, <1>11, SameOperators DEF Abstract!Top
  <2> QED
    BY <1>4, <2>1 DEF PendingCall, Incoming
<1>13. pc'["client"] = "done" <=> pc["client"] = "done"
  BY <1>2, <1>3, <1>7 DEF Sides
<1> QED
  BY <1>1, <1>5, <1>10, <1>12, <1>13, SameOperators DEF Abstract!Deliver

\* With no call open the base changes, or nothing does.
LEMMA HandoversRefine ==
  ASSUME NEW R, IInv(R), BaseInv, ReturnEffect \/ WaitForEffect \/ Close \/ Stop
  PROVE  [Abstract!Open \/ Abstract!Close]_(Abstract!vars)
<1>1. /\ TypeOK /\ stack' = stack /\ got' = got
      /\ "client" \in Sides /\ "server" \in Sides /\ "client" # "server"
      /\ Peer("client") = "server" /\ Peer("server") = "client"
      /\ \A s \in Sides : s = "client" \/ s = "server"
  BY DEF IInv, ReturnEffect, WaitForEffect, Close, Stop, Take, Sides, Peer
<1>2. OpenCalls = <<>> /\ OpenCalls' = <<>>
  <2>1. \A s \in Sides : stack[s] = <<>>
    <3>1. \A s \in Sides : Idle(s) => stack[Peer(s)] = <<>> /\ stack[s] = <<>>
      <4> SUFFICES ASSUME NEW s \in Sides, Idle(s)
                   PROVE  stack[Peer(s)] = <<>> /\ stack[s] = <<>>
        OBVIOUS
      <4>1. Len(stack[Peer(s)]) = 0 /\ stack[Peer(s)] \in Seq(Frame)
        BY CodeFacts DEF Idle, Well
      <4> QED
        BY <4>1, EmptySeq DEF Idle
    <3>2. \A s \in Sides : Take(s, "return") /\ stack[s] = <<>> => stack[Peer(s)] = <<>> /\ stack[s] = <<>>
      <4> SUFFICES ASSUME NEW s \in Sides, Take(s, "return"), stack[s] = <<>>
                   PROVE  stack[Peer(s)] = <<>>
        OBVIOUS
      <4>1. Answered(s) \/ Handover(s)
        BY Taken
      <4>2. Len(stack[Peer(s)]) \in Nat
        BY Taken, LenProperties DEF Well
      <4>3. ~Answered(s)
        BY <4>2 DEF Answered, Waiting
      <4> QED
        BY <4>1, <4>3 DEF Handover
    <3> QED
      BY <1>1, <3>1, <3>2 DEF ReturnEffect, WaitForEffect, Close, Stop
  <2>2. Depth(stack) = 0 /\ Depth(stack') = 0
    BY <1>1, <2>1 DEF Depth
  <2> QED
    BY <2>2, NoCalls, OpenCallsIn, OpenCallsNext
<1>3. CASE ReturnEffect \/ Stop
  <2>1. pc'["client"] = pc["client"] /\ created' = created
    BY <1>1, <1>3 DEF ReturnEffect, Stop, TypeOK
  <2> QED
    BY <1>1, <1>2, <2>1 DEF Abstract!vars
<1>4. CASE WaitForEffect
  <2>1. /\ Take("client", "return") /\ stack["client"] = <<>> /\ created' = TRUE
        /\ pc["client"] = "receive" /\ pc'["client"] = "code"
    BY <1>1, <1>4 DEF WaitForEffect, Take, TypeOK
  <2>2. ~created
    <3>1. Answered("client") \/ Handover("client")
      BY <1>1, <2>1, Taken
    <3>2. Len(stack["server"]) \in Nat
      BY <1>1, <2>1, Taken, LenProperties DEF Well
    <3>3. ~Answered("client")
      BY <1>1, <2>1, <3>2 DEF Answered, Waiting
    <3> QED
      BY <3>1, <3>3 DEF BaseInv
  <2>3. Abstract!Open
    BY <1>1, <1>2, <2>1, <2>2 DEF Abstract!Open
  <2> QED
    BY <2>3
<1>5. CASE Close
  <2>1. /\ Idle("client") /\ pc'["client"] = "done" /\ pc["client"] = "code" /\ created' = created
    BY <1>1, <1>5 DEF Close, TypeOK, Idle, InCode
  <2>2. created
    BY <1>1, <2>1 DEF BaseInv, Outermost, Idle
  <2>3. Abstract!Close
    BY <1>1, <1>2, <2>1, <2>2 DEF Abstract!Close
  <2> QED
    BY <2>3
<1> QED
  BY <1>3, <1>4, <1>5

LEMMA InitRefines ==
  ASSUME Init
  PROVE  Abstract!Init
<1>1. \A s \in Sides : stack[s] = <<>>
  BY DEF Init
<1>2. Depth(stack) = 0
  BY <1>1 DEF Depth, Sides
<1>3. OpenCalls = <<>>
  BY <1>2, NoCalls, OpenCallsIn
<1>4. (IF pc["client"] = "done" THEN None ELSE IF created THEN "client" ELSE "server") \in Sides
  <2>1. pc["client"] # "done"
    BY DEF Init
  <2> QED
    BY <2>1 DEF Sides
<1> QED
  BY <1>3, <1>4, SameOperators DEF Abstract!Init, Init

LEMMA NextRefines ==
  ASSUME NEW R, LayoutsAgree(R), PlacesAgree(R), IInv(R), MemInv, BaseInv, [Next]_vars
  PROVE  [Abstract!Next]_(Abstract!vars)
<1>1. ASSUME NEW s \in Sides, NEW m \in CallsOf(s), NEW d \in Data, Send(s, m, d)
      PROVE  Abstract!Next
  <2>1. Abstract!Send(s, m, d)
    BY <1>1, SendRefines
  <2>2. m \in [u \in Sides |-> IF u = "server" THEN HostCalls
                              ELSE EffectCalls \cup {Instantiate}][s]
    BY DEF CallsOf
  <2> QED
    BY <2>1, <2>2, SameOperators DEF Abstract!Next
<1>2. ASSUME NEW s \in Sides, Receive(s)
      PROVE  Abstract!Next
  BY <1>2, ReceiveRefines DEF Abstract!Next
<1>3. ASSUME NEW s \in Sides, NEW d \in Data, Decide(s, d)
      PROVE  Abstract!Next
  BY <1>3, DecideRefines DEF Abstract!Next
<1>4. ASSUME NEW s \in Sides, Reply(s)
      PROVE  [Abstract!Next]_(Abstract!vars)
  <2>1. CASE Gone(Peer(s))
    BY <1>4, <2>1, ReplyRefines
  <2>2. CASE ~Gone(Peer(s))
    BY <1>4, <2>2, ReplyRefines DEF Abstract!Next
  <2> QED
    BY <2>1, <2>2
<1>5. ASSUME NEW s \in Sides, Return(s)
      PROVE  Abstract!Next
  BY <1>5, ReturnRefines DEF Abstract!Next
<1>6. ASSUME vars' = vars \/ Finished \/ \E s \in Sides : ReadEof(s) \/ Crash(s)
      PROVE  UNCHANGED Abstract!vars
  <2>1. stack' = stack /\ pipe' = pipe /\ pc' = pc /\ created' = created /\ got' = got
    BY <1>6 DEF Finished, vars, ReadEof, Crash
  <2> QED
    BY <2>1, OpenCallsIn, OpenCallsNext DEF Abstract!vars
<1>7. ASSUME ReturnEffect \/ WaitForEffect \/ Close \/ Stop
      PROVE  [Abstract!Next]_(Abstract!vars)
  BY <1>7, HandoversRefine DEF Abstract!Next
<1> QED
  BY <1>1, <1>2, <1>3, <1>4, <1>5, <1>6, <1>7 DEF Next, EndStep

\* A pair of handlers behaves as one thread with one call stack: calls and
\* callbacks return in the reverse order, one side runs at a time, a callee
\* sees the argument its caller passed and nothing else, and a caller the
\* result that was returned.
THEOREM PairImplementsNestedCalls ==
  ASSUME NEW R, LayoutsAgree(R), PlacesAgree(R)
  PROVE  Spec => ImplementsNestedCalls
<1> DEFINE Inv == IInv(R) /\ MemInv /\ BaseInv
<1>1. Init => Inv /\ Abstract!Init
  BY InitInv, InitMem, InitBase, InitRefines
<1>2. Inv /\ [Next]_vars => Inv'
  BY NextKeepsInv, NextKeepsMem, NextKeepsBase
<1>3. Inv /\ [Next]_vars => [Abstract!Next]_(Abstract!vars)
  BY NextRefines
<1> QED
  BY <1>1, <1>2, <1>3, PTL DEF Spec, ImplementsNestedCalls, Abstract!Spec

------------------------------------------------------------------------------
(* The hypotheses, discharged *)

LEMMA RegularPlaces ==
  ASSUME RegularPayloads
  PROVE  \E R \in {Nat, Aligned} : LayoutsAgree(R) /\ PlacesAgree(R)
<1>1. PICK R \in {Nat, Aligned} :
        /\ LayoutsAgree(R)
        /\ \A m \in Messages, o \in R : Agreed(m, o)
  BY RegularLayouts
<1>2. PlacesAgree(R)
  BY <1>1 DEF PlacesAgree, Agreed
<1> QED
  BY <1>1, <1>2

\* Strings of any length at any offset, or structures, chunks, rectangles,
\* events and buffers whose parts end on a multiple of 8: the arguments
\* of a running function stay what they were, with nothing assumed of cursors
\* or places.
THEOREM RegularArgumentsIntact ==
  ASSUME RegularPayloads
  PROVE  Spec => []ArgumentsIntact
<1>1. PICK R \in {Nat, Aligned} : LayoutsAgree(R) /\ PlacesAgree(R)
  BY RegularPlaces
<1> QED
  BY <1>1, ArgumentsStayIntact

\* And so does what the function has stored through its pointer.
THEOREM RegularOutputsIntact ==
  ASSUME RegularPayloads
  PROVE  Spec => []OutputsIntact
<1>1. PICK R \in {Nat, Aligned} : LayoutsAgree(R) /\ PlacesAgree(R)
  BY RegularPlaces
<1> QED
  BY <1>1, OutputsStayIntact

\* With such payloads send_message and process_message are nested calls.
THEOREM RegularNestedCalls ==
  ASSUME RegularPayloads
  PROVE  Spec => ImplementsNestedCalls
<1>1. PICK R \in {Nat, Aligned} : LayoutsAgree(R) /\ PlacesAgree(R)
  BY RegularPlaces
<1> QED
  BY <1>1, PairImplementsNestedCalls

\* While all payloads end on a multiple of 8, the pointer that effGetChunk and
\* effEditGetRect hand to the plugin points at the pointer the caller stored,
\* however deep the call is nested.
THEOREM PointersStayMapped ==
  ASSUME Messages \subseteq AlignedPayloads
  PROVE  Spec => []PointerMapped
<1>1. LayoutsAgree(Aligned)
  <2>1. \A m \in Messages, o \in Aligned : Agreed(m, o) /\ o + Total(WriteRequest(m), o) \in Aligned
    BY AlignedLayouts
  <2>2. 0 \in Aligned /\ Aligned \subseteq Nat
    BY DEF Aligned
  <2> QED
    BY <2>1, <2>2, AgreedLayouts
<1>2. IInv(Aligned) => PointerMapped
  <2> SUFFICES ASSUME IInv(Aligned),
                      NEW i \in DOMAIN stack["client"] \cap DOMAIN stack["server"],
                      stack["server"][i].msg.kind \in {"chunk", "rect"}
               PROVE  OutputPlaces(stack["server"][i].msg, stack["server"][i].off)
                        = RequestPlaces(stack["client"][i].msg, stack["client"][i].off)
    BY DEF PointerMapped
  <2> DEFINE c == stack["client"][i]
             v == stack["server"][i]
  <2>1. c.msg = v.msg /\ c.off = v.off
    BY DEF IInv, Agree
  <2>2. Well(Aligned, stack["server"])
    BY DEF IInv, Sides
  <2>3. v.msg \in Messages /\ v.off \in Aligned
    BY <1>1, <2>2, Below
  <2>4. v.msg \in AlignedPayloads
    BY <2>3
  <2>5. v.msg.kind \in {"chunk", "rect"}
    OBVIOUS
  <2> HIDE DEF v
  <2>6. OutputPlaces(v.msg, v.off) = RequestPlaces(v.msg, v.off)
    BY <2>3, <2>4, <2>5, AlignedAgree
  <2> QED
    BY <2>1, <2>6 DEF v
<1>3. Init => IInv(Aligned)
  BY <1>1, InitInv
<1>4. IInv(Aligned) /\ [Next]_vars => IInv(Aligned)'
  BY <1>1, NextKeepsInv
<1> QED
  BY <1>2, <1>3, <1>4, PTL DEF Spec

------------------------------------------------------------------------------
(* The end of the region *)

\* Does s make the n-th open call of a pair that is not the primary one?
Makes(s, n) == (s = "client") <=> (n % 2 = 1)

\* The n-th frame of a stack of s.
PlacedAt(starts, s, n, f) ==
  /\ Fit(f.msg, f.off)
  /\ ~primary => /\ f.off + f.size \in starts[n + 1]
                 /\ f.role = "call" <=> Makes(s, n)

Placed(starts, s, frames) == \A i \in DOMAIN frames : PlacedAt(starts, s, i, frames[i])

\* Every open call fits where it started, and starts where calls of its depth do.
RegionInv(starts) ==
  /\ \A e \in mem : e.hi <= initial_size
  /\ \A s \in Sides : Placed(starts, s, stack[s])

LEMMA Turns ==
  ASSUME NEW s \in Sides, NEW n \in Nat
  PROVE  /\ Makes(s, n + 1) <=> ~Makes(s, n)
         /\ Makes(Peer(s), n) <=> ~Makes(s, n)
         /\ Makes(s, 1) <=> s = "client"
<1>1. (n + 1) % 2 = 1 <=> ~(n % 2 = 1)
  OBVIOUS
<1>2. 1 % 2 = 1
  OBVIOUS
<1> QED
  BY <1>1, <1>2 DEF Makes, Sides, Peer

LEMMA PlacedPush ==
  ASSUME NEW starts, NEW s, NEW q \in Seq(Frame), NEW f \in Frame,
         Placed(starts, s, q), PlacedAt(starts, s, Len(q) + 1, f)
  PROVE  Placed(starts, s, Append(q, f))
<1> DEFINE r == Append(q, f)
<1>1. /\ Len(q) \in Nat /\ DOMAIN q = 1 .. Len(q) /\ DOMAIN r = 1 .. Len(q) + 1
      /\ \A i \in 1 .. Len(q) : r[i] = q[i]
      /\ r[Len(q) + 1] = f
  BY AppendedProperties
<1> HIDE DEF r
<1>2. ASSUME NEW i \in DOMAIN r
      PROVE  PlacedAt(starts, s, i, r[i])
  <2>1. CASE i = Len(q) + 1
    BY <1>1, <2>1
  <2>2. CASE i # Len(q) + 1
    <3>1. i \in 1 .. Len(q)
      BY <1>1, <2>2
    <3> QED
      BY <1>1, <3>1 DEF Placed
  <2> QED
    BY <2>1, <2>2
<1> QED
  BY <1>2 DEF Placed, r

LEMMA PlacedPop ==
  ASSUME NEW starts, NEW s, NEW q \in Seq(Frame), q # <<>>, Placed(starts, s, q)
  PROVE  Placed(starts, s, Front(q))
<1>1. /\ Len(q) \in Nat /\ DOMAIN q = 1 .. Len(q) /\ DOMAIN Front(q) = 1 .. Len(q) - 1
      /\ \A i \in 1 .. Len(q) - 1 : Front(q)[i] = q[i]
  BY FrontProperties
<1> QED
  BY <1>1 DEF Placed

LEMMA LastPlaced ==
  ASSUME NEW starts, NEW s, NEW q \in Seq(Frame), q # <<>>, Placed(starts, s, q)
  PROVE  PlacedAt(starts, s, Len(q), Last(q)) /\ Fit(Last(q).msg, Last(q).off)
<1>1. /\ Len(q) \in Nat /\ Len(q) >= 1 /\ DOMAIN q = 1 .. Len(q) /\ Last(q) = q[Len(q)]
  BY FrontProperties
<1>2. PlacedAt(starts, s, Len(q), Last(q))
  BY <1>1 DEF Placed
<1> QED
  BY <1>2 DEF PlacedAt

LEMMA PlacedStore ==
  ASSUME NEW starts, NEW s, NEW q, NEW r, Placed(starts, s, q), DOMAIN r = DOMAIN q,
         \A i \in DOMAIN q : /\ r[i].role = q[i].role /\ r[i].msg = q[i].msg
                             /\ r[i].off = q[i].off /\ r[i].size = q[i].size
  PROVE  Placed(starts, s, r)
BY DEF Placed, PlacedAt

LEMMA PutFits ==
  ASSUME NEW m, NEW places, NEW d,
         \A e \in m : e.hi <= initial_size,
         \A p \in places : p.hi <= initial_size
  PROVE  \A e \in Put(m, places, d) : e.hi <= initial_size
BY DEF Put

\* Where the next call of a side that runs starts, and who makes it.
LEMMA NextStart ==
  ASSUME NEW R, NEW starts, IInv(R), BaseInv, RegionInv(starts), CallsFit(starts),
         NEW s \in Sides, InCode(s), ~primary
  PROVE  /\ offset[s] \in starts[Len(stack[s]) + 1]
         /\ Makes(s, Len(stack[s]) + 1)
         /\ CallsOf(s) = CallsAt(Len(stack[s]) + 1)
<1> DEFINE q == stack[s]
           n == Len(q)
<1>1. /\ Well(R, q) /\ offset[s] = End(q) /\ pc[s] = "code"
      /\ q # <<>> => Top(s).role = "proc"
  BY CodeFacts
<1>2. q \in Seq(Frame) /\ n \in Nat /\ DOMAIN q = 1 .. n
  BY <1>1, LenProperties DEF Well
<1>3. CASE q = <<>>
  <2>1. n = 0
    BY <1>3
  <2>2. s = "client"
    BY <1>1, <1>3 DEF BaseInv, Outermost
  <2>3. offset[s] = 0 /\ 0 \in starts[1]
    BY <1>1, <1>3 DEF End, CallsFit
  <2> QED
    BY <2>1, <2>2, <2>3, Turns DEF CallsOf, CallsAt, Makes
<1>4. CASE q # <<>>
  <2>1. n >= 1 /\ Last(q) = q[n]
    BY <1>2, <1>4, FrontProperties
  <2>2. PlacedAt(starts, s, n, Last(q))
    BY <1>2, <2>1 DEF RegionInv, Placed
  <2>3. offset[s] \in starts[n + 1] /\ ~Makes(s, n)
    BY <1>1, <1>4, <2>2 DEF PlacedAt, End, Top
  <2>4. Makes(s, n + 1)
    BY <1>2, <2>3, Turns
  <2>5. CallsOf(s) = CallsAt(n + 1)
    BY <2>4 DEF CallsOf, CallsAt, Makes, Sides
  <2> QED
    BY <2>3, <2>4, <2>5
<1> QED
  BY <1>3, <1>4

LEMMA SendKeepsRegion ==
  ASSUME NEW R, LayoutsAgree(R), PlacesAgree(R), NEW starts, CallsFit(starts),
         IInv(R), BaseInv, RegionInv(starts), NEW s \in Sides,
         NEW m \in CallsOf(s), NEW d \in Data, Send(s, m, d)
  PROVE  RegionInv(starts)'
<1> DEFINE off  == offset[s]
           size == Total(WriteRequest(m), off)
           n == Len(stack[s])
           f == [role |-> "call", msg |-> m, off |-> off, size |-> size,
                 arg |-> d, seen |-> {}, res |-> None]
<1>1. /\ InCode(s) /\ MayCall(s)
      /\ mem' = Put(mem, RequestPlaces(m, off), d)
      /\ stack' = [stack EXCEPT ![s] = Append(@, f)]
      /\ primary' = primary
  BY DEF Send, SendMessage
<1>2. /\ Well(R, stack[s]) /\ off = End(stack[s])
  BY <1>1, CodeFacts
<1>3. stack[s] \in Seq(Frame) /\ n \in Nat
  BY <1>2, LenProperties DEF Well
<1>4. m \in Messages /\ off \in R
  BY <1>2, EndInR DEF CallsOf, Messages
<1>5. /\ Inside(RequestPlaces(m, off), off, off + size)
      /\ RequestPlaces(m, off) \subseteq [lo : Nat, hi : Nat]
      /\ off \in Nat /\ size \in Nat
  BY <1>4 DEF LayoutsAgree, PlacesAgree
<1>6. /\ Fit(m, off)
      /\ ~primary => off + size \in starts[n + 2] /\ Makes(s, n + 1)
  <2>1. CASE primary
    <3>1. off = 0
      BY <1>1, <1>2, <2>1 DEF MayCall, End
    <3>2. m \in HostCalls \cup {Instantiate}
      BY <2>1 DEF CallsOf
    <3> QED
      BY <2>1, <3>1, <3>2 DEF CallsFit
  <2>2. CASE ~primary
    <3>1. n + 1 \in 1 .. MaxDepth
      BY <1>1, <1>3, <2>2, DepthAssumption DEF MayCall
    <3>2. off \in starts[n + 1] /\ Makes(s, n + 1) /\ m \in CallsAt(n + 1)
      BY <1>1, <2>2, NextStart
    <3>3. Fit(m, off) /\ off + size \in starts[(n + 1) + 1]
      BY <3>1, <3>2 DEF CallsFit
    <3>4. (n + 1) + 1 = n + 2
      BY <1>3
    <3> QED
      BY <3>2, <3>3, <3>4
  <2> QED
    BY <2>1, <2>2
<1>7. f \in Frame /\ f.role = "call" /\ f.msg = m /\ f.off = off /\ f.size = size
  BY <1>4, <1>5 DEF Frame, Values
<1>8. \A p \in RequestPlaces(m, off) : p.hi <= initial_size
  <2>1. \A p \in RequestPlaces(m, off) : p.hi \in Nat /\ p.hi <= off + size
    BY <1>5 DEF Inside
  <2>2. off + size <= initial_size
    BY <1>6 DEF Fit
  <2>3. initial_size \in Nat
    BY DEF initial_size
  <2> HIDE DEF size, off
  <2> QED
    BY <1>5, <2>1, <2>2, <2>3
<1>9. \A e \in mem' : e.hi <= initial_size
  BY <1>1, <1>8, PutFits DEF RegionInv
<1> HIDE DEF f, size, off
<1>10. PlacedAt(starts, s, n + 1, f)
  <2>1. (n + 1) + 1 = n + 2
    BY <1>3
  <2> QED
    BY <1>6, <1>7, <2>1 DEF PlacedAt
<1>11. Placed(starts, s, Append(stack[s], f))
  BY <1>3, <1>7, <1>10, PlacedPush DEF RegionInv
<1>12. TypeOK
  BY DEF IInv
<1>13. ASSUME NEW t \in Sides
       PROVE  Placed(starts, t, stack'[t])
  BY <1>1, <1>11, <1>12 DEF TypeOK, RegionInv
<1>14. ASSUME NEW t \in Sides
       PROVE  Placed(starts, t, stack[t])'
  BY <1>1, <1>13 DEF Placed, PlacedAt
<1> QED
  BY <1>9, <1>14 DEF RegionInv

LEMMA ReceiveKeepsRegion ==
  ASSUME NEW R, LayoutsAgree(R), NEW starts, IInv(R), RegionInv(starts),
         NEW s \in Sides, Receive(s)
  PROVE  RegionInv(starts)'
<1> DEFINE p == Peer(s)
           m == Incoming(s).msg
           off == offset[s]
           size == Total(MapRequest(m), off)
           n == Len(stack[s])
           g == Last(stack[p])
           f == [role |-> "proc", msg |-> m, off |-> off, size |-> size,
                 arg |-> Incoming(s).arg,
                 seen |-> {Incoming(s).arg} \cup ReadAt(mem, ArgumentPlaces(m, off)),
                 res |-> None]
<1>1. /\ Take(s, "request")
      /\ stack' = [stack EXCEPT ![s] = Append(@, f)]
      /\ mem' = mem
      /\ primary' = primary
  BY DEF Receive, Take
<1>2. Well(R, stack[s]) /\ Well(R, stack[p]) /\ off = End(stack[s]) /\ Asked(p)
  BY <1>1, Taken
<1>3. p \in Sides /\ Peer(p) = s /\ Agree(stack[p], stack[s])
  BY AgreeBothWays, AgreeSymmetric DEF Sides, Peer
<1>4. /\ pipe[s] = <<[type |-> "request", msg |-> Top(p).msg, arg |-> Top(p).arg]>>
      /\ Len(stack[p]) = n + 1 /\ g.role = "call"
  BY <1>2, <1>3 DEF Asked, Waiting, Top
<1>5. m = g.msg /\ Incoming(s).arg = g.arg
  BY <1>4 DEF Incoming, Top
<1>6. stack[p] # <<>> /\ g.off = off
  BY <1>2, <1>3, <1>4, AgreeEnds
<1>7. g \in Frame /\ m \in Messages /\ off \in R /\ g.size = Total(WriteRequest(m), off)
  BY <1>2, <1>5, <1>6, LastOfWell
<1>8. stack[s] \in Seq(Frame) /\ n \in Nat
  BY <1>2, LenProperties DEF Well
<1>9. size = g.size
  BY <1>7 DEF LayoutsAgree
<1>10. PlacedAt(starts, p, n + 1, g)
  <2>1. stack[p] \in Seq(Frame) /\ Placed(starts, p, stack[p])
    BY <1>2, <1>3 DEF Well, RegionInv
  <2>2. PlacedAt(starts, p, Len(stack[p]), g)
    BY <1>6, <2>1, LastPlaced
  <2> QED
    BY <1>4, <2>2
<1>11. f \in Frame /\ f.role = "proc" /\ f.msg = g.msg /\ f.off = g.off /\ f.size = g.size
  <2>1. f.seen \subseteq Values
    BY <1>5, <1>7, ReadAtType DEF Frame, Values
  <2>2. size \in Nat /\ off \in Nat /\ Incoming(s).arg \in Data
    BY <1>5, <1>6, <1>7, <1>9 DEF Frame
  <2> QED
    BY <1>5, <1>6, <1>7, <1>9, <2>1, <2>2 DEF Frame, Values
<1> HIDE DEF f, g, size
<1>12. PlacedAt(starts, s, n + 1, f)
  <2>1. Makes(s, n + 1) <=> ~Makes(p, n + 1)
    <3>1. n + 1 \in Nat
      BY <1>8
    <3> HIDE DEF n
    <3> QED
      BY <3>1, Turns
  <2> QED
    BY <1>4, <1>10, <1>11, <2>1 DEF PlacedAt
<1>13. Placed(starts, s, Append(stack[s], f))
  BY <1>8, <1>11, <1>12, PlacedPush DEF RegionInv
<1>14. TypeOK
  BY DEF IInv
<1>15. ASSUME NEW t \in Sides
       PROVE  Placed(starts, t, stack'[t])
  BY <1>1, <1>13, <1>14 DEF TypeOK, RegionInv
<1>16. ASSUME NEW t \in Sides
       PROVE  Placed(starts, t, stack[t])'
  BY <1>1, <1>15 DEF Placed, PlacedAt
<1> QED
  BY <1>1, <1>16 DEF RegionInv

LEMMA DecideKeepsRegion ==
  ASSUME NEW R, LayoutsAgree(R), PlacesAgree(R), NEW starts, IInv(R), RegionInv(starts),
         NEW s \in Sides, NEW d \in Data, Decide(s, d)
  PROVE  RegionInv(starts)'
<1> DEFINE q == stack[s]
           t == Last(q)
           r == Append(Front(q), [Last(q) EXCEPT !.res = d])
           places == OutputPlaces(t.msg, t.off)
           size == Total(WriteRequest(t.msg), t.off)
<1>1. /\ InCode(s) /\ q # <<>>
      /\ mem' = Put(mem, places, d)
      /\ stack' = [stack EXCEPT ![s] = r]
      /\ primary' = primary
  BY DEF Decide, Called, Top
<1>2. Well(R, q) /\ q \in Seq(Frame) /\ d \in Values
  BY <1>1, CodeFacts DEF Well, Values
<1>3. t \in Frame /\ t.msg \in Messages /\ t.off \in R
  BY <1>1, <1>2, LastOfWell
<1>4. /\ Inside(places, t.off, t.off + size)
      /\ places \subseteq [lo : Nat, hi : Nat]
      /\ size \in Nat /\ t.off \in Nat
  BY <1>3 DEF LayoutsAgree, PlacesAgree, Frame
<1>5. Fit(t.msg, t.off)
  <2>1. Placed(starts, s, q)
    BY DEF RegionInv
  <2> HIDE DEF q
  <2> QED
    BY <1>1, <1>2, <2>1, LastPlaced
<1>6. \A p \in places : p.hi <= initial_size
  <2>1. \A p \in places : p.hi \in Nat /\ p.hi <= t.off + size
    BY <1>4 DEF Inside
  <2>2. t.off + size <= initial_size
    BY <1>5 DEF Fit
  <2>3. initial_size \in Nat
    BY DEF initial_size
  <2> HIDE DEF size, t, places
  <2> QED
    BY <1>4, <2>1, <2>2, <2>3
<1>7. \A e \in mem' : e.hi <= initial_size
  BY <1>1, <1>6, PutFits DEF RegionInv
<1>8. /\ DOMAIN r = DOMAIN q
      /\ \A i \in DOMAIN q : /\ r[i].role = q[i].role /\ r[i].msg = q[i].msg
                             /\ r[i].off = q[i].off /\ r[i].size = q[i].size
  BY <1>1, <1>2, StoreWell
<1> HIDE DEF r
<1>9. Placed(starts, s, r)
  BY <1>8, PlacedStore DEF RegionInv
<1>10. TypeOK
  BY DEF IInv
<1>11. ASSUME NEW u \in Sides
       PROVE  Placed(starts, u, stack'[u])
  BY <1>1, <1>9, <1>10 DEF TypeOK, RegionInv
<1>12. ASSUME NEW u \in Sides
       PROVE  Placed(starts, u, stack[u])'
  BY <1>1, <1>11 DEF Placed, PlacedAt
<1> QED
  BY <1>7, <1>12 DEF RegionInv

LEMMA PopsKeepRegion ==
  ASSUME NEW R, NEW starts, IInv(R), RegionInv(starts), NEW s \in Sides, Reply(s) \/ Return(s)
  PROVE  RegionInv(starts)'
<1> DEFINE q == stack[s]
           t == Last(q)
<1>1. /\ q # <<>> /\ primary' = primary
      /\ stack' = stack \/ stack' = [stack EXCEPT ![s] = Front(q)]
  BY DEF Reply, Return, Called, Take, Pop
<1>2. Well(R, q) /\ q \in Seq(Frame)
  BY DEF IInv, Well
<1>3. Fit(t.msg, t.off)
  <2>1. Placed(starts, s, q)
    BY DEF RegionInv
  <2> HIDE DEF q
  <2> QED
    BY <1>1, <1>2, <2>1, LastPlaced
<1>4. \A e \in mem' : e.hi <= initial_size
  <2>1. CASE Reply(s)
    <3>1. mem' = Put(mem, AnswerPlaces(t.msg, t.off), t.res)
      BY <2>1 DEF Reply, Top
    <3>2. \A p \in AnswerPlaces(t.msg, t.off) : p.hi <= initial_size
      BY <1>3 DEF Fit
    <3> QED
      BY <3>1, <3>2, PutFits DEF RegionInv
  <2>2. CASE Return(s)
    BY <2>2 DEF Return, RegionInv
  <2> QED
    BY <2>1, <2>2
<1>5. Placed(starts, s, Front(q))
  BY <1>1, <1>2, PlacedPop DEF RegionInv
<1>6. TypeOK
  BY DEF IInv
<1>7. ASSUME NEW u \in Sides
      PROVE  Placed(starts, u, stack'[u])
  BY <1>1, <1>5, <1>6 DEF TypeOK, RegionInv
<1>8. ASSUME NEW u \in Sides
      PROVE  Placed(starts, u, stack[u])'
  BY <1>1, <1>7 DEF Placed, PlacedAt
<1> QED
  BY <1>4, <1>8 DEF RegionInv

LEMMA NextKeepsRegion ==
  ASSUME NEW R, LayoutsAgree(R), PlacesAgree(R), NEW starts, CallsFit(starts),
         IInv(R), BaseInv, RegionInv(starts), [Next]_vars
  PROVE  RegionInv(starts)'
<1>1. ASSUME mem' = mem, stack' = stack, primary' = primary
      PROVE  RegionInv(starts)'
  BY <1>1 DEF RegionInv, Placed, PlacedAt
<1>2. CASE vars' = vars \/ Finished \/ ReturnEffect \/ WaitForEffect \/ Close \/ Stop
  BY <1>1, <1>2 DEF vars, Finished, ReturnEffect, WaitForEffect, Close, Stop, Take
<1>3. CASE \E s \in Sides : EndStep(s)
  <2>1. PICK s \in Sides : EndStep(s)
    BY <1>3
  <2>2. CASE \E m \in CallsOf(s), d \in Data : Send(s, m, d)
    BY <2>2, SendKeepsRegion
  <2>3. CASE Receive(s)
    BY <2>3, ReceiveKeepsRegion
  <2>4. CASE \E d \in Data : Decide(s, d)
    BY <2>4, DecideKeepsRegion
  <2>5. CASE Reply(s) \/ Return(s)
    BY <2>5, PopsKeepRegion
  <2>6. CASE ReadEof(s) \/ Crash(s)
    BY <1>1, <2>6 DEF ReadEof, Crash
  <2> QED
    BY <2>1, <2>2, <2>3, <2>4, <2>5, <2>6 DEF EndStep
<1> QED
  BY <1>2, <1>3 DEF Next

\* Nothing is written or mapped past the end of the region, however long the
\* two programs run, if every call they may make fits when it starts at an
\* offset where calls of its depth start: what calls of smaller depth have left
\* behind never adds up.
THEOREM CallsFitRegion ==
  ASSUME NEW R, LayoutsAgree(R), PlacesAgree(R), NEW starts, CallsFit(starts)
  PROVE  Spec => []FitsRegion
<1> DEFINE Inv == IInv(R) /\ BaseInv /\ RegionInv(starts)
<1>1. Inv => FitsRegion
  <2> SUFFICES ASSUME Inv, NEW s \in Sides, NEW i \in DOMAIN stack[s]
               PROVE  stack[s][i].off + stack[s][i].size <= initial_size
    BY DEF FitsRegion, Frames, RegionInv
  <2>1. Fit(stack[s][i].msg, stack[s][i].off)
    BY DEF RegionInv, Placed, PlacedAt
  <2>2. stack[s][i].size = Total(WriteRequest(stack[s][i].msg), stack[s][i].off)
    BY DEF IInv, Well, Sized
  <2> QED
    BY <2>1, <2>2 DEF Fit
<1>2. Init => Inv
  <2> SUFFICES ASSUME Init
               PROVE  Inv
    OBVIOUS
  <2>1. mem = {} /\ \A s \in Sides : stack[s] = <<>>
    BY DEF Init
  <2>2. RegionInv(starts)
    BY <2>1 DEF RegionInv, Placed
  <2> QED
    BY <2>2, InitInv, InitBase
<1>3. Inv /\ [Next]_vars => Inv'
  BY NextKeepsInv, NextKeepsBase, NextKeepsRegion
<1> QED
  BY <1>1, <1>2, <1>3, PTL DEF Spec

\* With payloads whose parts end on a multiple of 8, or strings, that the calls
\* fit is all there is to assume.
THEOREM RegularCallsFitRegion ==
  ASSUME RegularPayloads, NEW starts, CallsFit(starts)
  PROVE  Spec => []FitsRegion
<1>1. PICK R \in {Nat, Aligned} : LayoutsAgree(R) /\ PlacesAgree(R)
  BY RegularPlaces
<1> QED
  BY <1>1, CallsFitRegion
==============================================================================
