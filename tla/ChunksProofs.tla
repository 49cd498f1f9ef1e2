----------------------------- MODULE ChunksProofs -----------------------------
(***************************************************************************)
(* Chunks for any number of threads, chunks and nested calls: the vector   *)
(* has one writer at a time, no chunk outlives the plugin, and one that is *)
(* still to be written is freed by another thread's clear_chunks only.     *)
(***************************************************************************)
EXTENDS Chunks, SequenceTheorems, TLAPS

\* Threads with a chunk of their own, which is not in the vector yet.
Holder(t) == Open(t) /\ Top(t).at \in {"allocated", "pushing"}

\* Only the innermost call of a thread is beyond its answer, and a call has a
\* chunk only then; effClose is the only call there is.
Shape ==
  \A t \in Threads : \A i \in DOMAIN calls[t] :
    /\ i < Len(calls[t]) => calls[t][i].at = Awaited
    /\ calls[t][i].at \notin Holding => calls[t][i].chunk = None
    /\ calls[t][i].op = "effClose" =>
         /\ Len(calls[t]) = 1 /\ calls[t][i].at = Awaited
         /\ \A u \in Threads \ {t} : calls[u] = <<>>

\* A chunk is in the vector or in one thread's hands, from new to delete.
Owned ==
  /\ allocated_chunks \subseteq live
  /\ \A t \in Threads : Holder(t) =>
       /\ Top(t).chunk \in live \ allocated_chunks
       /\ \A u \in Threads \ {t} : Holder(u) => Top(u).chunk # Top(t).chunk
  /\ \A c \in live \ allocated_chunks : \E t \in Threads : Holder(t) /\ Top(t).chunk = c

Exclusive == \A t, u \in Threads : Locked(t) /\ Locked(u) => t = u

Finished == deleted => allocated_chunks = {} /\ \A t \in Threads : calls[t] = <<>>

IInv == TypeOK /\ Shape /\ Owned /\ Exclusive /\ Finished

------------------------------------------------------------------------------
(* The stacks *)

LEMMA LastCall ==
  ASSUME TypeOK, NEW t \in Threads, Open(t)
  PROVE  /\ calls[t] \in Seq(Call) /\ Len(calls[t]) \in Nat /\ Len(calls[t]) >= 1
         /\ DOMAIN calls[t] = 1 .. Len(calls[t])
         /\ Top(t) = calls[t][Len(calls[t])] /\ Top(t) \in Call
<1>1. calls[t] \in Seq(Call) /\ calls[t] # <<>>
  BY DEF TypeOK, Open
<1>2. Len(calls[t]) \in Nat /\ Len(calls[t]) >= 1 /\ DOMAIN calls[t] = 1 .. Len(calls[t])
  BY <1>1, EmptySeq, LenProperties
<1>3. Top(t) = calls[t][Len(calls[t])]
  BY DEF Top, Last
<1> QED
  BY <1>1, <1>2, <1>3, ElementOfSeq

\* A call that reads no response has no chunk.
LEMMA TopChunk ==
  ASSUME IInv, NEW t \in Threads, Open(t), Top(t).at \notin Holding
  PROVE  Top(t).chunk = None
<1>1. Len(calls[t]) \in DOMAIN calls[t] /\ Top(t) = calls[t][Len(calls[t])]
  BY LastCall DEF IInv
<1> QED
  BY <1>1 DEF IInv, Shape

\* The innermost call goes on: no other one is touched.
LEMMA GoesFacts ==
  ASSUME TypeOK, Shape, NEW t \in Threads, Open(t), Top(t).op # "effClose",
         NEW c \in Call, c.op = Top(t).op, Goes(t, c),
         c.at \notin Holding => c.chunk = None
  PROVE  /\ calls' \in [Threads -> Seq(Call)]
         /\ \A u \in Threads \ {t} : calls'[u] = calls[u]
         /\ calls'[t] # <<>> /\ Last(calls'[t]) = c
         /\ Shape'
<1> DEFINE n == Len(calls[t])
           q == Append(Front(calls[t]), c)
<1>1. /\ calls[t] \in Seq(Call) /\ n \in Nat /\ n >= 1
      /\ DOMAIN calls[t] = 1 .. n /\ Top(t) = calls[t][n]
  BY LastCall
<1>2. /\ Front(calls[t]) \in Seq(Call) /\ Len(Front(calls[t])) = n - 1
      /\ \A i \in 1 .. n - 1 : Front(calls[t])[i] = calls[t][i]
  <2>1. \A i \in 1 .. n - 1 : calls[t][i] \in Call
    BY <1>1, ElementOfSeq
  <2> QED
    BY <1>1, <2>1, SubSeqProperties DEF Front
<1>3. /\ q \in Seq(Call) /\ Len(q) = n /\ DOMAIN q = 1 .. n /\ q[n] = c
      /\ \A i \in 1 .. n - 1 : q[i] = calls[t][i]
  BY <1>1, <1>2, AppendProperties, LenProperties
<1>4. calls \in [Threads -> Seq(Call)] /\ calls' = [calls EXCEPT ![t] = q]
  BY DEF TypeOK, Goes
<1> HIDE DEF q
<1>5. /\ calls' \in [Threads -> Seq(Call)] /\ calls'[t] = q
      /\ \A u \in Threads \ {t} : calls'[u] = calls[u]
  BY <1>3, <1>4
<1>6. q # <<>> /\ Last(q) = c
  BY <1>1, <1>3, EmptySeq DEF Last
<1>7. calls[t] # <<>> /\ \A i \in 1 .. n : calls[t][i].op # "effClose"
  <2>1. \A i \in 1 .. n : calls[t][i].op = "effClose" => n = 1
    BY <1>1 DEF Shape
  <2> QED
    BY <1>1, <2>1 DEF Open
<1>8. \A i \in DOMAIN q :
        /\ i < Len(q) => q[i].at = Awaited
        /\ q[i].at \notin Holding => q[i].chunk = None
        /\ q[i].op # "effClose"
  BY <1>1, <1>3, <1>7 DEF Shape
<1>9. \A u \in Threads \ {t} : \A i \in DOMAIN calls[u] :
        /\ i < Len(calls[u]) => calls[u][i].at = Awaited
        /\ calls[u][i].at \notin Holding => calls[u][i].chunk = None
        /\ calls[u][i].op # "effClose"
  BY <1>7 DEF Shape
<1>10. Shape'
  BY <1>5, <1>8, <1>9 DEF Shape
<1> QED
  BY <1>5, <1>6, <1>10

\* The innermost call returns: what is below it waits for its answer.
LEMMA ReturnsFacts ==
  ASSUME TypeOK, Shape, NEW t \in Threads, Open(t), Returns(t)
  PROVE  /\ calls' \in [Threads -> Seq(Call)]
         /\ \A u \in Threads \ {t} : calls'[u] = calls[u]
         /\ calls'[t] # <<>> => Last(calls'[t]).at = Awaited
         /\ Top(t).op = "effClose" => calls'[t] = <<>>
         /\ Shape'
<1> DEFINE n == Len(calls[t])
           q == Front(calls[t])
<1>1. /\ calls[t] \in Seq(Call) /\ n \in Nat /\ n >= 1
      /\ DOMAIN calls[t] = 1 .. n /\ Top(t) = calls[t][n]
  BY LastCall
<1>2. /\ q \in Seq(Call) /\ Len(q) = n - 1 /\ DOMAIN q = 1 .. n - 1
      /\ \A i \in 1 .. n - 1 : q[i] = calls[t][i]
  <2>1. \A i \in 1 .. n - 1 : calls[t][i] \in Call
    BY <1>1, ElementOfSeq
  <2> QED
    BY <1>1, <2>1, SubSeqProperties, LenProperties DEF Front
<1>3. calls \in [Threads -> Seq(Call)] /\ calls' = [calls EXCEPT ![t] = q]
  BY DEF TypeOK, Returns
<1> HIDE DEF q
<1>4. /\ calls' \in [Threads -> Seq(Call)] /\ calls'[t] = q
      /\ \A u \in Threads \ {t} : calls'[u] = calls[u]
  BY <1>2, <1>3
<1>5. \A i \in 1 .. n - 1 :
        /\ calls[t][i].at = Awaited /\ calls[t][i].op # "effClose"
        /\ calls[t][i].at \notin Holding => calls[t][i].chunk = None
  BY <1>1 DEF Shape
<1>6. q # <<>> => Last(q).at = Awaited
  BY <1>1, <1>2, <1>5, EmptySeq DEF Last
<1>7. Top(t).op = "effClose" => q = <<>>
  <2>1. Top(t).op = "effClose" => n = 1
    BY <1>1 DEF Shape
  <2> QED
    BY <1>1, <1>2, <2>1, EmptySeq
<1>8. \A u \in Threads \ {t} : \A i \in DOMAIN calls[u] :
        /\ i < Len(calls[u]) => calls[u][i].at = Awaited
        /\ calls[u][i].at \notin Holding => calls[u][i].chunk = None
        /\ calls[u][i].op # "effClose"
  BY DEF Shape, Open
<1>9. Shape'
  BY <1>1, <1>2, <1>4, <1>5, <1>8 DEF Shape
<1> QED
  BY <1>4, <1>6, <1>7, <1>9

\* The other threads' calls are as they were.
LEMMA OtherThreads ==
  ASSUME NEW u \in Threads, calls'[u] = calls[u]
  PROVE  /\ Open(u)' <=> Open(u)
         /\ Top(u)' = Top(u)
         /\ Holder(u)' <=> Holder(u)
         /\ Locked(u)' <=> Locked(u)
BY DEF Open, Top, Last, Holder, Locked, Is

\* A thread whose innermost call awaits its answer holds nothing.
LEMMA AwaitedHoldsNothing ==
  ASSUME NEW t \in Threads, calls'[t] # <<>> => Last(calls'[t]).at = Awaited
  PROVE  /\ ~Holder(t)' /\ ~Locked(t)'
BY DEF Open, Top, Holder, Locked, Is, Awaited

------------------------------------------------------------------------------
(* Init and the actions *)

LEMMA InitHolds == Init => IInv
<1> SUFFICES ASSUME Init PROVE IInv
  OBVIOUS
<1>1. \A t \in Threads : calls[t] = <<>> /\ ~Open(t)
  BY DEF Init, Open
<1>2. TypeOK
  <2>1. <<>> \in Seq(Call)
    OBVIOUS
  <2> QED
    BY <2>1 DEF Init, TypeOK
<1>3. Shape
  BY <1>1 DEF Shape
<1>4. Owned /\ Exclusive /\ Finished
  BY <1>1 DEF Init, Owned, Exclusive, Finished, Holder, Locked
<1> QED
  BY <1>2, <1>3, <1>4 DEF IInv

\* A step of t after which t holds nothing, and the vector and the live chunks
\* are what they were or have lost the same chunks.
LEMMA LetsGo ==
  ASSUME IInv, NEW t \in Threads, ~Holder(t),
         calls' \in [Threads -> Seq(Call)], Shape',
         \A u \in Threads \ {t} : calls'[u] = calls[u],
         calls'[t] # <<>> => Last(calls'[t]).at = Awaited,
         \/ UNCHANGED <<live, allocated_chunks>>
         \/ live' = live \ allocated_chunks /\ allocated_chunks' = {},
         deleted' \in BOOLEAN,
         Finished'
  PROVE  IInv'
<1>1. TypeOK'
  BY DEF IInv, TypeOK
<1>2. \A u \in Threads \ {t} :
        /\ Open(u)' <=> Open(u)
        /\ Top(u)' = Top(u)
        /\ Holder(u)' <=> Holder(u)
        /\ Locked(u)' <=> Locked(u)
  BY OtherThreads
<1>3. ~Holder(t)' /\ ~Locked(t)'
  BY AwaitedHoldsNothing
<1>4. Owned'
  <2>1. live' \ allocated_chunks' = live \ allocated_chunks
    OBVIOUS
  <2>2. allocated_chunks' \subseteq live'
    BY DEF IInv, Owned
  <2>3. \A u \in Threads : Holder(u)' => u # t /\ Holder(u) /\ Top(u)' = Top(u)
    BY <1>2, <1>3
  <2>4. \A u \in Threads : Holder(u) => Holder(u)' /\ Top(u)' = Top(u)
    BY <1>2
  <2> QED
    BY <2>1, <2>2, <2>3, <2>4 DEF IInv, Owned
<1>5. Exclusive'
  BY <1>2, <1>3 DEF IInv, Exclusive
<1> QED
  BY <1>1, <1>4, <1>5 DEF IInv

LEMMA Dispatches ==
  ASSUME IInv, NEW t \in Threads,
         NEW op \in {"effGetChunk", "effMainsChanged", "effClose"}, Dispatch(t, op)
  PROVE  IInv'
<1> DEFINE c == [op |-> op, at |-> Awaited, chunk |-> None]
           q == Append(calls[t], c)
           n == Len(calls[t])
<1>1. calls \in [Threads -> Seq(Call)] /\ calls[t] \in Seq(Call) /\ c \in Call
  BY DEF IInv, TypeOK, Call, Awaited
<1>2. n \in Nat /\ DOMAIN calls[t] = 1 .. n
  BY <1>1, LenProperties
<1>3. /\ q \in Seq(Call) /\ Len(q) = n + 1 /\ DOMAIN q = 1 .. n + 1
      /\ q[n + 1] = c /\ \A i \in 1 .. n : q[i] = calls[t][i]
  BY <1>1, <1>2, AppendProperties, LenProperties
<1>4. calls' = [calls EXCEPT ![t] = q]
  BY DEF Dispatch
<1>5. c.at = Awaited /\ c.op = op /\ c.chunk = None
  OBVIOUS
<1> HIDE DEF q, c
<1>6. /\ calls' \in [Threads -> Seq(Call)] /\ calls'[t] = q
      /\ \A u \in Threads \ {t} : calls'[u] = calls[u]
  BY <1>1, <1>3, <1>4
<1>7. q # <<>> /\ Last(q) = c
  BY <1>2, <1>3, EmptySeq DEF Last
<1>8. Open(t) => Top(t).at = Awaited
  BY DEF Dispatch
<1>9. ~Holder(t)
  BY <1>8 DEF Holder, Awaited
<1>10. Shape'
  <2>1. \A u \in Threads : \A i \in DOMAIN calls[u] : calls[u][i].op # "effClose"
    <3>1. \A u \in Threads : Open(u) => Top(u).op # "effClose"
      BY DEF Dispatch
    <3> SUFFICES ASSUME NEW u \in Threads, NEW i \in DOMAIN calls[u],
                        calls[u][i].op = "effClose"
                 PROVE  FALSE
      OBVIOUS
    <3>2. calls[u] \in Seq(Call)
      BY DEF IInv, TypeOK
    <3>3. Open(u)
      BY <3>2, EmptySeq DEF Open
    <3>4. DOMAIN calls[u] = 1 .. Len(calls[u]) /\ Top(u) = calls[u][Len(calls[u])]
      BY <3>3, LastCall DEF IInv
    <3>5. Len(calls[u]) = 1
      BY DEF IInv, Shape
    <3> QED
      BY <3>1, <3>3, <3>4, <3>5
  <2>2. \A i \in 1 .. n : q[i].at = Awaited
    <3>1. CASE calls[t] = <<>>
      BY <3>1, <1>2, <1>3, EmptySeq
    <3>2. CASE Open(t)
      <4>1. Top(t) = calls[t][n]
        BY <3>2, LastCall DEF IInv
      <4>2. \A i \in 1 .. n : i < n => calls[t][i].at = Awaited
        BY <1>2 DEF IInv, Shape
      <4> QED
        BY <1>2, <1>3, <1>8, <3>2, <4>1, <4>2
    <3> QED
      BY <3>1, <3>2 DEF Open
  <2>3. op = "effClose" => \A u \in Threads : calls[u] = <<>>
    BY DEF Dispatch, Open
  <2>4. op = "effClose" => n = 0
    BY <1>1, <2>3, EmptySeq
  <2>5. \A i \in DOMAIN q :
          /\ i < Len(q) => q[i].at = Awaited
          /\ q[i].at \notin Holding => q[i].chunk = None
          /\ q[i].op = "effClose" =>
               /\ Len(q) = 1 /\ q[i].at = Awaited
               /\ \A u \in Threads \ {t} : calls'[u] = <<>>
    <3> SUFFICES ASSUME NEW i \in 1 .. n + 1
                 PROVE  /\ i < n + 1 => q[i].at = Awaited
                        /\ q[i].at \notin Holding => q[i].chunk = None
                        /\ q[i].op = "effClose" =>
                             /\ n + 1 = 1 /\ q[i].at = Awaited
                             /\ \A u \in Threads \ {t} : calls'[u] = <<>>
      BY <1>3
    <3>1. CASE i \in 1 .. n
      <4>1. q[i] = calls[t][i] /\ i \in DOMAIN calls[t]
        BY <3>1, <1>2, <1>3
      <4>2. q[i].at \notin Holding => q[i].chunk = None
        BY <4>1 DEF IInv, Shape
      <4> QED
        BY <3>1, <4>1, <4>2, <1>2, <2>1, <2>2
    <3>2. CASE i = n + 1
      BY <3>2, <1>2, <1>3, <1>5, <1>6, <2>3, <2>4
    <3> QED
      BY <1>2, <3>1, <3>2
  <2>6. \A u \in Threads \ {t} : \A i \in DOMAIN calls[u] :
          /\ i < Len(calls[u]) => calls[u][i].at = Awaited
          /\ calls[u][i].at \notin Holding => calls[u][i].chunk = None
          /\ calls[u][i].op # "effClose"
    BY <2>1 DEF IInv, Shape
  <2> QED
    BY <1>6, <2>5, <2>6 DEF Shape
<1>11. /\ UNCHANGED <<live, allocated_chunks, deleted>> /\ ~deleted
       /\ deleted' \in BOOLEAN
  BY DEF Dispatch, IInv, TypeOK
<1> QED
  BY <1>5, <1>6, <1>7, <1>9, <1>10, <1>11, LetsGo DEF Finished

\* As long as a call is open the plugin has not been deleted.
LEMMA NotDeleted == ASSUME IInv, NEW t \in Threads, Open(t) PROVE ~deleted
BY DEF IInv, Finished, Open

LEMMA Throws ==
  ASSUME IInv, NEW t \in Threads, Throw(t)
  PROVE  IInv'
<1>1. /\ Open(t) /\ Top(t).at = Awaited
      /\ calls' = [calls EXCEPT ![t] = <<>>]
      /\ UNCHANGED <<live, allocated_chunks, deleted>>
  BY DEF Throw
<1>2. calls \in [Threads -> Seq(Call)] /\ <<>> \in Seq(Call)
  BY DEF IInv, TypeOK
<1>3. /\ calls' \in [Threads -> Seq(Call)] /\ calls'[t] = <<>>
      /\ \A u \in Threads \ {t} : calls'[u] = calls[u]
  BY <1>1, <1>2
<1>4. Shape'
  <2>1. \A u \in Threads : calls'[u] = calls[u] \/ calls'[u] = <<>>
    BY <1>3
  <2>2. \A u \in Threads : \A i \in DOMAIN calls'[u] : calls'[u] = calls[u]
    BY <2>1
  <2> QED
    BY <2>1, <2>2 DEF IInv, Shape
<1>5. ~Holder(t)
  BY <1>1 DEF Holder, Awaited
<1>6. deleted' \in BOOLEAN
  BY <1>1 DEF IInv, TypeOK
<1>7. Finished'
  BY <1>1, NotDeleted DEF Finished
<1> QED
  BY <1>1, <1>3, <1>4, <1>5, <1>6, <1>7, LetsGo

LEMMA ReadsResponse ==
  ASSUME IInv, NEW t \in Threads, ReadResponse(t)
  PROVE  IInv'
<1>1. /\ Open(t) /\ Top(t).at = "copying" /\ Returns(t)
      /\ UNCHANGED <<live, allocated_chunks, deleted>>
  BY DEF ReadResponse, Is
<1>2. /\ calls' \in [Threads -> Seq(Call)]
      /\ \A u \in Threads \ {t} : calls'[u] = calls[u]
      /\ calls'[t] # <<>> => Last(calls'[t]).at = Awaited
      /\ Shape'
  BY <1>1, ReturnsFacts DEF IInv
<1>3. ~Holder(t)
  BY <1>1 DEF Holder
<1>4. deleted' \in BOOLEAN
  BY <1>1 DEF IInv, TypeOK
<1>5. Finished'
  BY <1>1, NotDeleted DEF Finished
<1> QED
  BY <1>1, <1>2, <1>3, <1>4, <1>5, LetsGo

LEMMA Clears ==
  ASSUME IInv, NEW t \in Threads, ClearChunks(t)
  PROVE  IInv'
<1>1. /\ Open(t) /\ Top(t).at = "clearing" /\ Returns(t)
      /\ live' = live \ allocated_chunks /\ allocated_chunks' = {}
      /\ UNCHANGED deleted
  BY DEF ClearChunks, Is
<1>2. /\ calls' \in [Threads -> Seq(Call)]
      /\ \A u \in Threads \ {t} : calls'[u] = calls[u]
      /\ calls'[t] # <<>> => Last(calls'[t]).at = Awaited
      /\ Shape'
  BY <1>1, ReturnsFacts DEF IInv
<1>3. ~Holder(t)
  BY <1>1 DEF Holder
<1>4. deleted' \in BOOLEAN
  BY <1>1 DEF IInv, TypeOK
<1>5. Finished'
  BY <1>1, NotDeleted DEF Finished
<1> QED
  BY <1>1, <1>2, <1>3, <1>4, <1>5, LetsGo

LEMMA DeletesPlugin ==
  ASSUME IInv, NEW t \in Threads, DeletePlugin(t)
  PROVE  IInv'
<1>1. /\ Open(t) /\ Top(t).op = "effClose" /\ Top(t).at = Awaited /\ Returns(t)
      /\ live' = live \ allocated_chunks /\ allocated_chunks' = {}
      /\ deleted' = TRUE
  BY DEF DeletePlugin, Is
<1>2. /\ calls' \in [Threads -> Seq(Call)]
      /\ \A u \in Threads \ {t} : calls'[u] = calls[u]
      /\ calls'[t] = <<>>
      /\ Shape'
  BY <1>1, ReturnsFacts DEF IInv
<1>3. ~Holder(t)
  BY <1>1 DEF Holder, Awaited
<1>4. deleted' \in BOOLEAN
  BY <1>1 DEF IInv, TypeOK
<1>5. \A u \in Threads \ {t} : calls[u] = <<>>
  <2>1. /\ DOMAIN calls[t] = 1 .. Len(calls[t]) /\ Len(calls[t]) >= 1 /\ Len(calls[t]) \in Nat
        /\ Top(t) = calls[t][Len(calls[t])]
    BY <1>1, LastCall DEF IInv
  <2> QED
    BY <1>1, <2>1 DEF IInv, Shape
<1>6. Finished'
  BY <1>1, <1>2, <1>5 DEF Finished
<1> QED
  BY <1>1, <1>2, <1>3, <1>4, <1>6, LetsGo

------------------------------------------------------------------------------
\* A step of t within its innermost call: which parts of the invariant are left
\* to show.
LEMMA GoesOn ==
  ASSUME IInv, NEW t \in Threads, Open(t), Top(t).op # "effClose",
         NEW c \in Call, c.op = Top(t).op, Goes(t, c),
         c.at \notin Holding => c.chunk = None,
         live' \subseteq Chunks, allocated_chunks' \subseteq Chunks,
         UNCHANGED deleted
  PROVE  /\ TypeOK' /\ Shape' /\ Finished'
         /\ Open(t)' /\ Top(t)' = c
         /\ \A u \in Threads \ {t} :
              /\ Open(u)' <=> Open(u)
              /\ Top(u)' = Top(u)
              /\ Holder(u)' <=> Holder(u)
              /\ Locked(u)' <=> Locked(u)
<1>1. /\ calls' \in [Threads -> Seq(Call)]
      /\ \A u \in Threads \ {t} : calls'[u] = calls[u]
      /\ calls'[t] # <<>> /\ Last(calls'[t]) = c
      /\ Shape'
  BY GoesFacts DEF IInv
<1>2. TypeOK'
  BY <1>1 DEF IInv, TypeOK
<1>3. Finished'
  BY NotDeleted DEF Finished
<1>4. Open(t)' /\ Top(t)' = c
  BY <1>1 DEF Open, Top
<1> QED
  BY <1>1, <1>2, <1>3, <1>4, OtherThreads

LEMMA Allocates ==
  ASSUME IInv, NEW t \in Threads, Allocate(t)
  PROVE  IInv'
<1>1. PICK k \in Chunks \ live :
        /\ Goes(t, [Top(t) EXCEPT !.at = "allocated", !.chunk = k])
        /\ live' = live \cup {k}
  BY DEF Allocate
<1> DEFINE c == [Top(t) EXCEPT !.at = "allocated", !.chunk = k]
<1>2. /\ Open(t) /\ Top(t).op = "effGetChunk" /\ Top(t).at = Awaited
      /\ UNCHANGED <<allocated_chunks, deleted>>
  BY DEF Allocate, Is
<1>3. c \in Call /\ c.op = Top(t).op /\ c.at = "allocated" /\ c.chunk = k
  <2>1. Top(t) \in Call
    BY <1>2, LastCall DEF IInv
  <2> QED
    BY <2>1 DEF Call, Holding
<1>4. live' \subseteq Chunks /\ allocated_chunks' \subseteq Chunks
  BY <1>1, <1>2 DEF IInv, TypeOK
<1> HIDE DEF c
<1>5. Goes(t, c)
  BY <1>1 DEF c
<1>6. /\ TypeOK' /\ Shape' /\ Finished'
      /\ Open(t)' /\ Top(t)' = c
      /\ \A u \in Threads \ {t} :
           /\ Open(u)' <=> Open(u)
           /\ Top(u)' = Top(u)
           /\ Holder(u)' <=> Holder(u)
           /\ Locked(u)' <=> Locked(u)
  BY <1>2, <1>3, <1>4, <1>5, GoesOn DEF Holding
<1>7. Holder(t)' /\ ~Locked(t)'
  BY <1>3, <1>6 DEF Holder, Locked, Is
<1>8. ~Holder(t)
  BY <1>2 DEF Holder, Awaited
<1>9. Owned'
  <2>1. allocated_chunks' \subseteq live' /\ k \notin allocated_chunks
    BY <1>1, <1>2 DEF IInv, Owned
  <2>2. Top(t)'.chunk = k
    BY <1>3, <1>6
  <2>3. \A u \in Threads \ {t} : Holder(u) => Top(u).chunk # k
    BY <1>1 DEF IInv, Owned
  <2>4. \A u \in Threads : Holder(u)' =>
          /\ Top(u)'.chunk \in live' \ allocated_chunks'
          /\ \A v \in Threads \ {u} : Holder(v)' => Top(v)'.chunk # Top(u)'.chunk
    BY <1>1, <1>2, <1>6, <2>1, <2>2, <2>3 DEF IInv, Owned
  <2>5. \A d \in live' \ allocated_chunks' : \E u \in Threads : Holder(u)' /\ Top(u)'.chunk = d
    <3> SUFFICES ASSUME NEW d \in live' \ allocated_chunks'
                 PROVE  \E u \in Threads : Holder(u)' /\ Top(u)'.chunk = d
      OBVIOUS
    <3>1. CASE d = k
      BY <3>1, <1>7, <2>2
    <3>2. CASE d # k
      <4>1. PICK u \in Threads : Holder(u) /\ Top(u).chunk = d
        BY <3>2, <1>1, <1>2 DEF IInv, Owned
      <4> QED
        BY <4>1, <1>6, <1>8
    <3> QED
      BY <3>1, <3>2
  <2> QED
    BY <2>1, <2>4, <2>5 DEF Owned
<1>10. Exclusive'
  BY <1>6, <1>7 DEF IInv, Exclusive
<1> QED
  BY <1>6, <1>9, <1>10 DEF IInv

LEMMA Locks ==
  ASSUME IInv, NEW t \in Threads, Lock(t)
  PROVE  IInv'
<1> DEFINE c == [Top(t) EXCEPT !.at = "pushing"]
<1>1. /\ Open(t) /\ Top(t).op = "effGetChunk" /\ Top(t).at = "allocated" /\ Goes(t, c)
      /\ UNCHANGED <<live, allocated_chunks, deleted>>
  BY DEF Lock, Is
<1>2. c \in Call /\ c.op = Top(t).op /\ c.at = "pushing" /\ c.chunk = Top(t).chunk
  <2>1. Top(t) \in Call
    BY <1>1, LastCall DEF IInv
  <2> QED
    BY <2>1 DEF Call, Holding
<1> HIDE DEF c
<1>3. live' \subseteq Chunks /\ allocated_chunks' \subseteq Chunks
  BY <1>1 DEF IInv, TypeOK
<1>4. /\ TypeOK' /\ Shape' /\ Finished'
      /\ Open(t)' /\ Top(t)' = c
      /\ \A u \in Threads \ {t} :
           /\ Open(u)' <=> Open(u)
           /\ Top(u)' = Top(u)
           /\ Holder(u)' <=> Holder(u)
           /\ Locked(u)' <=> Locked(u)
  BY <1>1, <1>2, <1>3, GoesOn DEF Holding
<1>5. Holder(t)' /\ Holder(t) /\ Unlocked
  BY <1>1, <1>2, <1>4 DEF Holder, Is, Lock
<1>6. Owned'
  <2>1. \A u \in Threads : (Holder(u)' <=> Holder(u)) /\ Top(u)'.chunk = Top(u).chunk
    BY <1>2, <1>4, <1>5
  <2> QED
    BY <1>1, <2>1 DEF IInv, Owned
<1>7. Exclusive'
  BY <1>4, <1>5 DEF Unlocked, Exclusive
<1> QED
  BY <1>4, <1>6, <1>7 DEF IInv

LEMMA PushesBack ==
  ASSUME IInv, NEW t \in Threads, PushBack(t)
  PROVE  IInv'
<1> DEFINE c == [Top(t) EXCEPT !.at = "pushed"]
<1>1. /\ Open(t) /\ Top(t).op = "effGetChunk" /\ Top(t).at = "pushing" /\ Goes(t, c)
      /\ live' = live /\ allocated_chunks' = allocated_chunks \cup {Top(t).chunk}
      /\ UNCHANGED deleted
  BY DEF PushBack, Is
<1>2. c \in Call /\ c.op = Top(t).op /\ c.at = "pushed" /\ c.chunk = Top(t).chunk
  <2>1. Top(t) \in Call
    BY <1>1, LastCall DEF IInv
  <2> QED
    BY <2>1 DEF Call, Holding
<1> HIDE DEF c
<1>3. live' \subseteq Chunks /\ allocated_chunks' \subseteq Chunks
  BY <1>1, <1>2 DEF IInv, TypeOK, Owned, Holder
<1>4. /\ TypeOK' /\ Shape' /\ Finished'
      /\ Open(t)' /\ Top(t)' = c
      /\ \A u \in Threads \ {t} :
           /\ Open(u)' <=> Open(u)
           /\ Top(u)' = Top(u)
           /\ Holder(u)' <=> Holder(u)
           /\ Locked(u)' <=> Locked(u)
  BY <1>1, <1>2, <1>3, GoesOn DEF Holding
<1>5. ~Holder(t)' /\ Holder(t) /\ ~Locked(t)'
  BY <1>1, <1>2, <1>4 DEF Holder, Locked
<1>6. Owned'
  <2>1. \A u \in Threads : Holder(u)' => u # t /\ Holder(u) /\ Top(u)' = Top(u)
    BY <1>4, <1>5
  <2>2. \A u \in Threads \ {t} : Holder(u) => Holder(u)' /\ Top(u)' = Top(u) /\ Top(u).chunk # Top(t).chunk
    BY <1>4, <1>5 DEF IInv, Owned
  <2>3. allocated_chunks' \subseteq live'
    BY <1>1, <1>5 DEF IInv, Owned
  <2>4. \A u \in Threads : Holder(u)' =>
          /\ Top(u)'.chunk \in live' \ allocated_chunks'
          /\ \A v \in Threads \ {u} : Holder(v)' => Top(v)'.chunk # Top(u)'.chunk
    BY <1>1, <2>1, <2>2 DEF IInv, Owned
  <2>5. \A d \in live' \ allocated_chunks' : \E u \in Threads : Holder(u)' /\ Top(u)'.chunk = d
    <3> SUFFICES ASSUME NEW d \in live' \ allocated_chunks'
                 PROVE  \E u \in Threads : Holder(u)' /\ Top(u)'.chunk = d
      OBVIOUS
    <3>1. d \in live \ allocated_chunks /\ d # Top(t).chunk
      BY <1>1
    <3>2. PICK u \in Threads : Holder(u) /\ Top(u).chunk = d
      BY <3>1 DEF IInv, Owned
    <3> QED
      BY <3>1, <3>2, <2>2
  <2> QED
    BY <2>3, <2>4, <2>5 DEF Owned
<1>7. Exclusive'
  BY <1>4, <1>5 DEF IInv, Exclusive
<1> QED
  BY <1>4, <1>6, <1>7 DEF IInv

\* A step of t that neither takes nor gives up a chunk or the lock.
LEMMA Idles ==
  ASSUME IInv, NEW t \in Threads, Open(t), Top(t).op # "effClose",
         Top(t).at \notin {"allocated", "pushing", "clearing"},
         NEW c \in Call, c.op = Top(t).op, Goes(t, c),
         c.at \notin Holding => c.chunk = None, c.at \in {"copying", "measuring"},
         UNCHANGED <<live, allocated_chunks, deleted>>
  PROVE  IInv'
<1>1. live' \subseteq Chunks /\ allocated_chunks' \subseteq Chunks
  BY DEF IInv, TypeOK
<1>2. /\ TypeOK' /\ Shape' /\ Finished'
      /\ Open(t)' /\ Top(t)' = c
      /\ \A u \in Threads \ {t} :
           /\ Open(u)' <=> Open(u)
           /\ Top(u)' = Top(u)
           /\ Holder(u)' <=> Holder(u)
           /\ Locked(u)' <=> Locked(u)
  BY <1>1, GoesOn
<1>3. ~Holder(t)' /\ ~Holder(t) /\ ~Locked(t)'
  BY <1>2 DEF Holder, Locked
<1>4. Owned'
  <2>1. \A u \in Threads : (Holder(u)' <=> Holder(u)) /\ (Holder(u) => Top(u)' = Top(u))
    BY <1>2, <1>3
  <2> QED
    BY <2>1 DEF IInv, Owned
<1>5. Exclusive'
  BY <1>2, <1>3 DEF IInv, Exclusive
<1> QED
  BY <1>2, <1>4, <1>5 DEF IInv

LEMMA BeginsCopy ==
  ASSUME IInv, NEW t \in Threads, BeginCopy(t)
  PROVE  IInv'
<1> DEFINE c == [Top(t) EXCEPT !.at = "copying"]
<1>1. /\ Open(t) /\ Top(t).op = "effGetChunk" /\ Top(t).at = "pushed" /\ Goes(t, c)
      /\ UNCHANGED <<live, allocated_chunks, deleted>>
  BY DEF BeginCopy, Is
<1>2. c \in Call /\ c.op = Top(t).op /\ c.at = "copying"
  <2>1. Top(t) \in Call
    BY <1>1, LastCall DEF IInv
  <2> QED
    BY <2>1 DEF Call, Holding
<1> HIDE DEF c
<1> QED
  BY <1>1, <1>2, Idles DEF Holding

LEMMA Measures ==
  ASSUME IInv, NEW t \in Threads, Measure(t)
  PROVE  IInv'
<1> DEFINE c == [Top(t) EXCEPT !.at = "measuring"]
<1>1. /\ Open(t) /\ Top(t).op = "effMainsChanged" /\ Top(t).at = Awaited /\ Goes(t, c)
      /\ UNCHANGED <<live, allocated_chunks, deleted>>
  BY DEF Measure, Is
<1>2. c \in Call /\ c.op = Top(t).op /\ c.at = "measuring" /\ c.chunk = None
  <2>1. Top(t) \in Call
    BY <1>1, LastCall DEF IInv
  <2>2. Top(t).chunk = None
    BY <1>1, TopChunk DEF Holding, Awaited
  <2> QED
    BY <2>1, <2>2 DEF Call, Holding
<1> HIDE DEF c
<1> QED
  BY <1>1, <1>2, Idles DEF Awaited

LEMMA LocksToClear ==
  ASSUME IInv, NEW t \in Threads, LockToClear(t)
  PROVE  IInv'
<1> DEFINE c == [Top(t) EXCEPT !.at = "clearing"]
<1>1. /\ Open(t) /\ Top(t).op = "effMainsChanged" /\ Top(t).at = "measuring" /\ Goes(t, c)
      /\ UNCHANGED <<live, allocated_chunks, deleted>>
  BY DEF LockToClear, Is
<1>2. c \in Call /\ c.op = Top(t).op /\ c.at = "clearing" /\ c.chunk = None
  <2>1. Top(t) \in Call
    BY <1>1, LastCall DEF IInv
  <2>2. Top(t).chunk = None
    BY <1>1, TopChunk DEF Holding
  <2> QED
    BY <2>1, <2>2 DEF Call, Holding
<1> HIDE DEF c
<1>3. live' \subseteq Chunks /\ allocated_chunks' \subseteq Chunks
  BY <1>1 DEF IInv, TypeOK
<1>4. /\ TypeOK' /\ Shape' /\ Finished'
      /\ Open(t)' /\ Top(t)' = c
      /\ \A u \in Threads \ {t} :
           /\ Open(u)' <=> Open(u)
           /\ Top(u)' = Top(u)
           /\ Holder(u)' <=> Holder(u)
           /\ Locked(u)' <=> Locked(u)
  BY <1>1, <1>2, <1>3, GoesOn DEF Holding
<1>5. ~Holder(t)' /\ ~Holder(t) /\ Unlocked
  BY <1>1, <1>2, <1>4 DEF Holder, Is, LockToClear, Awaited
<1>6. Owned'
  <2>1. \A u \in Threads : (Holder(u)' <=> Holder(u)) /\ (Holder(u) => Top(u)' = Top(u))
    BY <1>4, <1>5
  <2> QED
    BY <1>1, <2>1 DEF IInv, Owned
<1>7. Exclusive'
  BY <1>4, <1>5 DEF Unlocked, Exclusive
<1> QED
  BY <1>4, <1>6, <1>7 DEF IInv

------------------------------------------------------------------------------
LEMMA Stutters == IInv /\ UNCHANGED vars => IInv'
BY DEF IInv, vars, TypeOK, Shape, Owned, Exclusive, Finished,
       Holder, Locked, Open, Top, Is

LEMMA NextHolds == IInv /\ [Next]_vars => IInv'
<1> SUFFICES ASSUME IInv, [Next]_vars PROVE IInv'
  OBVIOUS
<1>1. CASE UNCHANGED vars
  BY <1>1, Stutters
<1>2. ASSUME NEW t \in Threads,
             NEW op \in {"effGetChunk", "effMainsChanged", "effClose"}, Dispatch(t, op)
      PROVE  IInv'
  BY <1>2, Dispatches
<1>3. ASSUME NEW t \in Threads, Throw(t) PROVE IInv'
  BY <1>3, Throws
<1>4. ASSUME NEW t \in Threads, Allocate(t) PROVE IInv'
  BY <1>4, Allocates
<1>5. ASSUME NEW t \in Threads, Lock(t) PROVE IInv'
  BY <1>5, Locks
<1>6. ASSUME NEW t \in Threads, PushBack(t) PROVE IInv'
  BY <1>6, PushesBack
<1>7. ASSUME NEW t \in Threads, ReadResponse(t) PROVE IInv'
  BY <1>7, ReadsResponse
<1>8. ASSUME NEW t \in Threads, LockToClear(t) PROVE IInv'
  BY <1>8, LocksToClear
<1>9. ASSUME NEW t \in Threads, ClearChunks(t) PROVE IInv'
  BY <1>9, Clears
<1>10. ASSUME NEW t \in Threads, DeletePlugin(t) PROVE IInv'
  BY <1>10, DeletesPlugin
<1>11. ASSUME NEW t \in Threads, BeginCopy(t) PROVE IInv'
  BY <1>11, BeginsCopy
<1>12. ASSUME NEW t \in Threads, Measure(t) PROVE IInv'
  BY <1>12, Measures
<1>13. CASE Over
  BY <1>13, Stutters DEF Over
<1> QED
  BY <1>1, <1>2, <1>3, <1>4, <1>5, <1>6, <1>7, <1>8, <1>9, <1>10,
     <1>11, <1>12, <1>13 DEF Next

LEMMA Inductive == Spec => []IInv
<1>1. IInv /\ [Next]_vars => IInv'
  BY NextHolds
<1> QED
  BY InitHolds, <1>1, PTL DEF Spec

\* A chunk in the model is always one the allocator handed out: get() is
\* called while the unique_ptr still has the chunk.
THEOREM ChunksTypes == Spec => []TypeOK
<1>1. IInv => TypeOK
  BY DEF IInv
<1> QED
  BY Inductive, <1>1, PTL

\* One thread at a time changes the vector, and what is in it is allocated, for
\* every number of threads, chunks and nested calls.
THEOREM VectorChangesAlone == Spec => []VectorExclusive
<1>1. IInv => VectorExclusive
  BY DEF IInv, Exclusive, Owned, VectorExclusive
<1> QED
  BY Inductive, <1>1, PTL

\* A deleted plugin leaves no chunk behind, for every number of threads, chunks
\* and nested calls.
THEOREM NoChunkLeaks == Spec => []NothingLeaks
<1>1. IInv => NothingLeaks
  BY DEF IInv, Owned, Finished, NothingLeaks, Holder, Open
<1> QED
  BY Inductive, <1>1, PTL

------------------------------------------------------------------------------
(* What frees a chunk *)

\* What KeptUntilCopied says of one step.
Keeps ==
  \A t \in Threads : \A i \in DOMAIN calls[t] :
    calls[t][i].chunk \in live \ live' => \E u \in Threads \ {t} : ClearChunks(u)

\* Steps that free nothing.
LEMMA OthersKeep ==
  ASSUME IInv, [Next]_vars,
         \A t \in Threads : ~ClearChunks(t) /\ ~DeletePlugin(t)
  PROVE  live \subseteq live'
<1>1. CASE UNCHANGED vars
  BY <1>1 DEF vars
<1>2. ASSUME NEW t \in Threads,
             NEW op \in {"effGetChunk", "effMainsChanged", "effClose"}, Dispatch(t, op)
      PROVE  live \subseteq live'
  BY <1>2 DEF Dispatch
<1>3. ASSUME NEW t \in Threads,
             \/ Throw(t) \/ Allocate(t) \/ Lock(t) \/ PushBack(t) \/ BeginCopy(t)
             \/ ReadResponse(t) \/ Measure(t) \/ LockToClear(t)
      PROVE  live \subseteq live'
  BY <1>3 DEF Throw, Allocate, Lock, PushBack, BeginCopy, ReadResponse, Measure, LockToClear
<1>4. CASE Over
  BY <1>4 DEF Over, vars
<1> QED
  BY <1>1, <1>2, <1>3, <1>4 DEF Next

\* A thread that clears, or deletes the plugin, is about to write to no chunk.
LEMMA FreeingThread ==
  ASSUME IInv, NEW t \in Threads, ClearChunks(t) \/ DeletePlugin(t)
  PROVE  \A i \in DOMAIN calls[t] : calls[t][i].chunk \notin live
<1> SUFFICES ASSUME NEW i \in DOMAIN calls[t] PROVE calls[t][i].chunk \notin live
  OBVIOUS
<1>1. Open(t) /\ Top(t).at \in {Awaited, "clearing"}
  BY DEF ClearChunks, DeletePlugin, Is
<1>2. /\ Len(calls[t]) \in Nat /\ DOMAIN calls[t] = 1 .. Len(calls[t])
      /\ Top(t) = calls[t][Len(calls[t])]
  BY <1>1, LastCall DEF IInv
<1>3. calls[t][i].at \notin Holding
  <2>1. CASE i < Len(calls[t])
    BY <2>1 DEF IInv, Shape, Holding, Awaited
  <2>2. CASE i = Len(calls[t])
    BY <1>1, <1>2, <2>2 DEF Holding, Awaited
  <2> QED
    BY <1>2, <2>1, <2>2
<1>4. calls[t][i].chunk = None
  BY <1>3 DEF IInv, Shape
<1> QED
  BY <1>4, NoneAssumption DEF IInv, TypeOK

LEMMA StepKeeps == IInv /\ [Next]_vars => Keeps
<1> SUFFICES ASSUME IInv, [Next]_vars, NEW t \in Threads, NEW i \in DOMAIN calls[t],
                    calls[t][i].chunk \in live \ live'
             PROVE  \E u \in Threads \ {t} : ClearChunks(u)
  BY DEF Keeps
<1>1. PICK u \in Threads : ClearChunks(u) \/ DeletePlugin(u)
  BY OthersKeep
<1>2. u # t
  BY <1>1, FreeingThread
<1>3. ~DeletePlugin(u)
  <2> SUFFICES ASSUME DeletePlugin(u) PROVE FALSE
    OBVIOUS
  <2>1. Open(u) /\ Top(u).op = "effClose"
    BY DEF DeletePlugin, Is
  <2>2. Len(calls[u]) \in DOMAIN calls[u] /\ Top(u) = calls[u][Len(calls[u])]
    BY <2>1, LastCall DEF IInv
  <2>3. calls[t] = <<>>
    BY <1>2, <2>1, <2>2 DEF IInv, Shape
  <2> QED
    BY <2>3
<1> QED
  BY <1>1, <1>2, <1>3

\* A chunk that a read_response is still to write, or writes, is freed by
\* clear_chunks of another thread or not at all (callbacks.cpp:35), for every
\* number of threads, chunks and nested calls.
THEOREM ChunksKeptUntilCopied == Spec => KeptUntilCopied
<1>1. IInv /\ [Next]_vars => [Keeps]_vars
  BY StepKeeps
<1>2. Spec => [][Keeps]_vars
  BY Inductive, <1>1, PTL DEF Spec
<1> QED
  BY <1>2, PTL DEF KeptUntilCopied, Keeps

\* Memory that is pushed stays until the copy is done, if it is not cleared.
Ready ==
  \A t \in Threads : Open(t) /\ Top(t).at \in {"pushed", "copying"} =>
    Top(t).op = "effGetChunk" /\ Top(t).chunk \in live

\* Calls begin and end without a chunk.
LEMMA ReadyTops ==
  ASSUME IInv, NEW t \in Threads,
         \/ \E op \in {"effGetChunk", "effMainsChanged", "effClose"} : Dispatch(t, op)
         \/ Throw(t) \/ ReadResponse(t) \/ ClearChunks(t) \/ DeletePlugin(t)
  PROVE  Open(t)' => Top(t)'.at = Awaited
<1>0. calls \in [Threads -> Seq(Call)]
  BY DEF IInv, TypeOK
<1>1. ASSUME NEW op \in {"effGetChunk", "effMainsChanged", "effClose"}, Dispatch(t, op)
      PROVE  Open(t)' => Top(t)'.at = Awaited
  <2> DEFINE c == [op |-> op, at |-> Awaited, chunk |-> None]
  <2>1. calls'[t] = Append(calls[t], c) /\ calls[t] \in Seq(Call) /\ c \in Call
    BY <1>0, <1>1 DEF Dispatch, Call, Awaited
  <2>2. c.at = Awaited
    OBVIOUS
  <2> HIDE DEF c
  <2>3. Last(calls'[t]) = c
    BY <2>1, AppendProperties, LenProperties DEF Last
  <2> QED
    BY <2>2, <2>3 DEF Top
<1>2. CASE Throw(t)
  BY <1>0, <1>2 DEF Throw, Open
<1>3. CASE ReadResponse(t) \/ ClearChunks(t) \/ DeletePlugin(t)
  <2>1. Open(t) /\ Returns(t)
    BY <1>3 DEF ReadResponse, ClearChunks, DeletePlugin, Is
  <2> QED
    BY <2>1, ReturnsFacts DEF IInv, Open, Top
<1> QED
  BY <1>1, <1>2, <1>3

\* The innermost call after a step within it.
LEMMA ReadyGoes ==
  ASSUME IInv, NEW t \in Threads, Open(t),
         NEW c \in Call, Goes(t, c)
  PROVE  Top(t)' = c
<1>1. calls \in [Threads -> Seq(Call)] /\ calls[t] \in Seq(Call)
  BY DEF IInv, TypeOK
<1>2. Front(calls[t]) \in Seq(Call)
  <2>1. Len(calls[t]) \in Nat /\ \A i \in 1 .. Len(calls[t]) - 1 : calls[t][i] \in Call
    BY <1>1, LenProperties, ElementOfSeq
  <2> QED
    BY <1>1, <2>1, SubSeqProperties, LastCall DEF Front, IInv
<1> DEFINE q == Append(Front(calls[t]), c)
<1>3. q \in Seq(Call) /\ Last(q) = c
  BY <1>2, AppendProperties, LenProperties DEF Last
<1>4. calls' = [calls EXCEPT ![t] = q]
  BY DEF Goes
<1> HIDE DEF q
<1> QED
  BY <1>1, <1>3, <1>4 DEF Top

LEMMA StepReady ==
  ASSUME IInv, Ready, [Next]_vars, \A t, u \in Threads : t = u
  PROVE  Ready'
<1> SUFFICES ASSUME NEW t \in Threads, Open(t)', Top(t)'.at \in {"pushed", "copying"}
             PROVE  Top(t)'.op = "effGetChunk" /\ Top(t)'.chunk \in live'
  BY DEF Ready
<1>1. CASE UNCHANGED vars
  BY <1>1 DEF vars, Ready, Open, Top
<1>2. CASE \/ \E op \in {"effGetChunk", "effMainsChanged", "effClose"} : Dispatch(t, op)
           \/ Throw(t) \/ ReadResponse(t) \/ ClearChunks(t) \/ DeletePlugin(t)
  BY <1>2, ReadyTops DEF Awaited
<1>3. ASSUME NEW a \in {"allocated", "pushing", "measuring", "clearing"}, NEW k \in Chunks \cup {None},
             Open(t), Goes(t, [Top(t) EXCEPT !.at = a, !.chunk = k])
      PROVE  FALSE
  <2> DEFINE c == [Top(t) EXCEPT !.at = a, !.chunk = k]
  <2>1. c \in Call /\ c.at = a
    <3>1. Top(t) \in Call
      BY <1>3, LastCall DEF IInv
    <3> QED
      BY <3>1 DEF Call, Holding
  <2> HIDE DEF c
  <2>2. Goes(t, c)
    BY <1>3 DEF c
  <2> QED
    BY <1>3, <2>1, <2>2, ReadyGoes
<1>4. ASSUME NEW a \in {"allocated", "pushing", "measuring", "clearing"},
             Open(t), Goes(t, [Top(t) EXCEPT !.at = a])
      PROVE  FALSE
  <2>1. Top(t) \in Call
    BY <1>4, LastCall DEF IInv
  <2>2. [Top(t) EXCEPT !.at = a] = [Top(t) EXCEPT !.at = a, !.chunk = Top(t).chunk]
    BY <2>1 DEF Call
  <2> QED
    BY <1>3, <1>4, <2>1, <2>2 DEF Call
<1>5. CASE Allocate(t)
  BY <1>3, <1>5 DEF Allocate, Is
<1>6. CASE Lock(t) \/ Measure(t) \/ LockToClear(t)
  BY <1>4, <1>6 DEF Lock, Measure, LockToClear, Is
<1>7. CASE PushBack(t) \/ BeginCopy(t)
  <2>1. PICK a \in {"pushed", "copying"} : Goes(t, [Top(t) EXCEPT !.at = a])
    BY <1>7 DEF PushBack, BeginCopy
  <2>2. Open(t) /\ Top(t).op = "effGetChunk" /\ live' = live /\ Top(t).chunk \in live
    BY <1>7 DEF PushBack, BeginCopy, Is, Ready, IInv, Owned, Holder
  <2> DEFINE c == [Top(t) EXCEPT !.at = a]
  <2>3. c \in Call /\ c.op = Top(t).op /\ c.chunk = Top(t).chunk
    <3>1. Top(t) \in Call
      BY <2>2, LastCall DEF IInv
    <3> QED
      BY <3>1 DEF Call, Holding
  <2>4. Goes(t, c)
    BY <2>1
  <2> HIDE DEF c
  <2> QED
    BY <2>2, <2>3, <2>4, ReadyGoes
<1>8. CASE Over
  BY <1>8, <1>1 DEF Over
<1>9. CASE \E u \in Threads :
             \/ \E op \in {"effGetChunk", "effMainsChanged", "effClose"} : Dispatch(u, op)
             \/ Throw(u)
             \/ Allocate(u) \/ Lock(u) \/ PushBack(u) \/ BeginCopy(u) \/ ReadResponse(u)
             \/ Measure(u) \/ LockToClear(u) \/ ClearChunks(u)
             \/ DeletePlugin(u)
  BY <1>2, <1>5, <1>6, <1>7, <1>9
<1> QED
  BY <1>1, <1>8, <1>9 DEF Next

\* read_response copies to memory that is allocated (request.hpp:265), whatever
\* calls nest and throw, in a host that calls from one thread only.
THEOREM OneThreadCopiesToLive ==
  ASSUME \A t, u \in Threads : t = u
  PROVE  Spec => []CopyTargetLive
<1>1. Init => Ready
  BY DEF Init, Ready, Open
<1>2. IInv /\ Ready /\ [Next]_vars => Ready'
  BY StepReady
<1>3. Ready => CopyTargetLive
  BY DEF Ready, CopyTargetLive, Is
<1> QED
  BY Inductive, <1>1, <1>2, <1>3, PTL DEF Spec
==============================================================================
