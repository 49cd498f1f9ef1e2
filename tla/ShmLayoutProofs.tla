---------------------------- MODULE ShmLayoutProofs ----------------------------
(***************************************************************************)
(* The four cursors of a call, of strings at any offset and, at multiples  *)
(* of 8, of payloads whose parts end on one: the callee's ends where the   *)
(* caller's did, what the callee reads is where the caller wrote it, and   *)
(* what the caller reads from the answer is where the callee left it.      *)
(*                                                                         *)
(* A cursor is a sequence of steps, and its end a recursion over it, so    *)
(* the facts are built up the way the code builds the cursors: of one      *)
(* step; of two sequences one after the other; of a sequence of blocks,    *)
(* one for each event or channel; then of each payload.  The two theorems  *)
(* at the end say for which payloads the cursors agree: StringPayloads     *)
(* anywhere, because nothing in them is aligned, and AlignedPayloads at    *)
(* the offsets that are multiples of 8.  They are what the proofs about    *)
(* HandlerPair assume of the messages.                                     *)
(***************************************************************************)
EXTENDS ShmLayout, SequenceTheorems, WellFoundedInduction, TLAPS

------------------------------------------------------------------------------
(* Induction over the natural numbers, as the existence of a least element *)

Lesser == {pair \in Nat \X Nat : pair[1] < pair[2]}

LEMMA LeastNat ==
  ASSUME NEW T \in SUBSET Nat, T # {}
  PROVE  \E n \in T : \A k \in T : n <= k
<1>1. IsWellFoundedOn(Lesser, Nat)
  BY NatLessThanWellFounded DEF OpToRel, Lesser
<1>2. \E n \in T : \A k \in T : ~(<<k, n>> \in Lesser)
  BY <1>1, WFMin
<1>3. PICK n \in T : \A k \in T : ~(<<k, n>> \in Lesser)
  BY <1>2
<1>4. \A k \in T : ~(k < n)
  BY <1>3 DEF Lesser
<1> QED
  BY <1>4

------------------------------------------------------------------------------
(* Sequences, and the records that stand for open calls *)

LEMMA FrontProperties ==
  ASSUME NEW S, NEW q \in Seq(S), q # <<>>
  PROVE  /\ Front(q) \in Seq(S)
         /\ Len(q) \in Nat /\ Len(q) >= 1
         /\ Len(Front(q)) = Len(q) - 1
         /\ DOMAIN q = 1 .. Len(q)
         /\ DOMAIN Front(q) = 1 .. Len(q) - 1
         /\ \A i \in 1 .. Len(q) - 1 : Front(q)[i] = q[i]
         /\ Last(q) = q[Len(q)]
         /\ Last(q) \in S
<1>1. Len(q) \in Nat /\ Len(q) >= 1 /\ DOMAIN q = 1 .. Len(q)
  BY EmptySeq, LenProperties
<1>2. \A i \in 1 .. Len(q) - 1 : q[i] \in S
  BY <1>1, ElementOfSeq
<1>3. /\ Front(q) \in Seq(S)
      /\ Len(Front(q)) = Len(q) - 1
      /\ \A i \in 1 .. Len(q) - 1 : Front(q)[i] = q[i]
  BY <1>1, <1>2, SubSeqProperties DEF Front
<1>4. DOMAIN Front(q) = 1 .. Len(q) - 1
  BY <1>3, LenProperties
<1>5. Last(q) = q[Len(q)] /\ Last(q) \in S
  BY <1>1, ElementOfSeq DEF Last
<1> QED
  BY <1>1, <1>3, <1>4, <1>5

LEMMA AppendedProperties ==
  ASSUME NEW S, NEW q \in Seq(S), NEW f \in S
  PROVE  /\ Append(q, f) \in Seq(S)
         /\ Append(q, f) # <<>>
         /\ Len(q) \in Nat
         /\ Len(Append(q, f)) = Len(q) + 1
         /\ DOMAIN q = 1 .. Len(q)
         /\ DOMAIN Append(q, f) = 1 .. Len(q) + 1
         /\ \A i \in 1 .. Len(q) : Append(q, f)[i] = q[i]
         /\ Append(q, f)[Len(q) + 1] = f
         /\ Last(Append(q, f)) = f
<1>1. /\ Append(q, f) \in Seq(S)
      /\ Append(q, f) # <<>>
      /\ Len(Append(q, f)) = Len(q) + 1
      /\ \A i \in 1 .. Len(q) : Append(q, f)[i] = q[i]
      /\ Append(q, f)[Len(q) + 1] = f
  BY AppendProperties
<1>2. Len(q) \in Nat /\ DOMAIN q = 1 .. Len(q) /\ DOMAIN Append(q, f) = 1 .. Len(q) + 1
  BY <1>1, LenProperties
<1> QED
  BY <1>1, <1>2 DEF Last

\* f and g are sequences of n and n + 1 elements that agree on the first n.
Extends(n, f, g) ==
  \E S : f \in [1 .. n -> S] /\ g \in [1 .. n + 1 -> S] /\ \A i \in 1 .. n : g[i] = f[i]

LEMMA LongerFunction ==
  ASSUME NEW n \in Nat, NEW f, NEW g, Extends(n, f, g)
  PROVE  /\ g = Append(f, g[n + 1]) /\ f = Front(g) /\ Last(g) = g[n + 1] /\ g # <<>>
<1>0. PICK S : f \in [1 .. n -> S] /\ g \in [1 .. n + 1 -> S] /\ \A i \in 1 .. n : g[i] = f[i]
  BY DEF Extends
<1>1. f \in Seq(S) /\ Len(f) = n /\ DOMAIN f = 1 .. n
  BY <1>0, SeqDef, LenProperties
<1>2. g \in Seq(S) /\ Len(g) = n + 1 /\ DOMAIN g = 1 .. n + 1
  <2>1. n + 1 \in Nat
    OBVIOUS
  <2>2. g \in Seq(S)
    BY <1>0, <2>1, SeqDef
  <2>3. DOMAIN g = 1 .. n + 1 /\ DOMAIN g = 1 .. Len(g) /\ Len(g) \in Nat
    BY <1>0, <2>2, LenProperties
  <2>4. Len(g) = n + 1
    BY <2>1, <2>3
  <2> QED
    BY <2>2, <2>3, <2>4
<1>3. g[n + 1] \in S
  BY <1>0
<1>4. Append(f, g[n + 1]) = g
  <2>1. /\ Append(f, g[n + 1]) \in Seq(S) /\ Len(Append(f, g[n + 1])) = n + 1
        /\ \A i \in 1 .. n : Append(f, g[n + 1])[i] = f[i]
        /\ Append(f, g[n + 1])[n + 1] = g[n + 1]
    BY <1>1, <1>3, AppendProperties
  <2>2. \A i \in 1 .. n + 1 : Append(f, g[n + 1])[i] = g[i]
    BY <1>0, <2>1
  <2> QED
    BY <1>2, <2>1, <2>2, SeqEqual
<1>5. g # <<>>
  BY <1>2, EmptySeq
<1>6. Front(g) = f /\ Last(g) = g[n + 1]
  <2>1. /\ Front(g) \in Seq(S) /\ Len(Front(g)) = n
        /\ \A i \in 1 .. n : Front(g)[i] = g[i]
        /\ Last(g) = g[n + 1]
    <3>1. /\ Front(g) \in Seq(S) /\ Len(Front(g)) = Len(g) - 1
          /\ \A i \in 1 .. Len(g) - 1 : Front(g)[i] = g[i]
          /\ Last(g) = g[Len(g)]
      BY <1>2, <1>5, FrontProperties
    <3>2. Len(g) - 1 = n
      BY <1>2
    <3> QED
      BY <1>2, <3>1, <3>2
  <2> QED
    BY <1>0, <1>1, <2>1, SeqEqual
<1> QED
  BY <1>4, <1>5, <1>6

CallOf(by, msg, arg, seen, res, stage) ==
  [by |-> by, msg |-> msg, arg |-> arg, seen |-> seen, res |-> res, stage |-> stage]
Moving(call, seen, stage) == [call EXCEPT !.seen = seen, !.stage = stage]

\* A call enters a new stage, with something else in its callee's hands.
LEMMA Moved ==
  ASSUME NEW by, NEW msg, NEW arg, NEW seen, NEW res, NEW stage, NEW x, NEW y
  PROVE  Moving(CallOf(by, msg, arg, seen, res, stage), x, y) = CallOf(by, msg, arg, x, res, y)
<1> DEFINE top == CallOf(by, msg, arg, seen, res, stage)
           new == CallOf(by, msg, arg, x, res, y)
           mid == [top EXCEPT !.seen = x]
           f == [mid EXCEPT !.stage = y]
<1>1. mid = CallOf(by, msg, arg, x, res, stage)
  <2> DEFINE g == CallOf(by, msg, arg, x, res, stage)
  <2>1. /\ mid = [top EXCEPT !.seen = x]
        /\ top = [by |-> by, msg |-> msg, arg |-> arg, seen |-> seen, res |-> res, stage |-> stage]
        /\ g = [by |-> by, msg |-> msg, arg |-> arg, seen |-> x, res |-> res, stage |-> stage]
    BY DEF CallOf
  <2> HIDE DEF mid, g, top
  <2>2. mid = g
    BY <2>1
  <2> QED
    BY <2>2 DEF g
<1>2. /\ f = [mid EXCEPT !.stage = y]
      /\ mid = [by |-> by, msg |-> msg, arg |-> arg, seen |-> x, res |-> res, stage |-> stage]
      /\ new = [by |-> by, msg |-> msg, arg |-> arg, seen |-> x, res |-> res, stage |-> y]
  <2> HIDE DEF mid
  <2> QED
    BY <1>1 DEF CallOf
<1>3. Moving(top, x, y) = f
  BY DEF Moving
<1> HIDE DEF f, mid, new, top
<1>4. f = new
  BY <1>2
<1>5. Moving(top, x, y) = new
  BY <1>3, <1>4
<1> QED
  BY <1>5 DEF top, new

------------------------------------------------------------------------------
(* One step *)

\* Of the shared memory, and of the pipe.
FieldName ==
  ({"size", "data", "ptr", "chunk", "rect", "header", "ptrs", "event", "dump", "in", "out"} \X Nat)
    \cup {"type", "opcode", "index", "value", "opt", "num_inputs", "num_outputs",
          "response", "present", "time_info"}
AnyStep == [op : {"write", "read", "skip", "map"}, field : FieldName,
            size : Nat, align : {1, 4, 8}]

\* Wherever it starts a step moves the cursor on, and where everything is
\* aligned nothing is skipped.
LEMMA Starts ==
  ASSUME NEW c \in AnyStep, NEW o \in Nat
  PROVE  /\ StartOf(c, o) \in Nat /\ o <= StartOf(c, o)
         /\ o % 8 = 0 => StartOf(c, o) = o
         /\ c.op \in {"write", "read"} \/ c.align = 1 => StartOf(c, o) = o
<1>1. /\ AlignOffset(o, 1) = o
      /\ AlignOffset(o, 4) \in Nat /\ o <= AlignOffset(o, 4)
      /\ AlignOffset(o, 8) \in Nat /\ o <= AlignOffset(o, 8)
      /\ o % 8 = 0 => AlignOffset(o, 4) = o /\ AlignOffset(o, 8) = o
  BY DEF AlignOffset
<1>2. c.align = 1 \/ c.align = 4 \/ c.align = 8
  BY DEF AnyStep
<1> QED
  BY <1>1, <1>2 DEF StartOf

------------------------------------------------------------------------------
(* The cursor *)

\* f follows the recursion of Cursor for n steps.
Runs(f, steps, o, n) ==
  /\ f[0] = o
  /\ \A k \in 0 .. n : f[k] \in Nat
  /\ \A k \in 1 .. n : f[k] = StartOf(steps[k], f[k-1]) + steps[k].size

\* The recursion of Cursor has a solution,
LEMMA CursorExists ==
  ASSUME NEW steps \in Seq(AnyStep), NEW o \in Nat
  PROVE  \E f : /\ f = [k \in 0 .. Len(steps) |->
                          IF k = 0 THEN o ELSE StartOf(steps[k], f[k-1]) + steps[k].size]
                /\ Runs(f, steps, o, Len(steps))
<1> DEFINE n == Len(steps)
           Ends(f, m) == f = [k \in 0 .. m |->
                                IF k = 0 THEN o ELSE StartOf(steps[k], f[k-1]) + steps[k].size]
           Solved(m) == \E f : Ends(f, m) /\ Runs(f, steps, o, m)
           T == {m \in Nat : m <= n /\ ~Solved(m)}
<1>1. n \in Nat /\ \A k \in 1 .. n : steps[k] \in AnyStep
  BY LenProperties, ElementOfSeq
<1>2. CASE T = {}
  <2>1. Solved(n)
    <3> HIDE DEF Solved
    <3> QED
      BY <1>1, <1>2
  <2> QED
    BY <2>1
<1>3. CASE T # {}
  <2>1. PICK m \in T : \A k \in T : m <= k
    BY <1>3, LeastNat
  <2>2. m # 0
    <3> DEFINE g == [k \in 0 .. 0 |-> o]
    <3>1. Ends(g, 0) /\ Runs(g, steps, o, 0)
      BY DEF Runs
    <3> HIDE DEF g
    <3>2. Solved(0)
      BY <3>1
    <3> HIDE DEF Solved
    <3> QED
      BY <2>1, <3>2
  <2>3. m - 1 \in Nat /\ m - 1 <= n /\ m \in 1 .. n /\ Solved(m - 1)
    <3> HIDE DEF Solved
    <3> QED
      BY <1>1, <2>1, <2>2
  <2>4. PICK f : Ends(f, m - 1) /\ Runs(f, steps, o, m - 1)
    BY <2>3
  <2> DEFINE last == StartOf(steps[m], f[m-1]) + steps[m].size
             g == [k \in 0 .. m |-> IF k = m THEN last ELSE f[k]]
  <2>5. last \in Nat
    <3>1. f[m-1] \in Nat /\ steps[m] \in AnyStep
      BY <1>1, <2>3, <2>4 DEF Runs
    <3>2. StartOf(steps[m], f[m-1]) \in Nat
      BY <3>1, Starts
    <3> QED
      BY <3>1, <3>2 DEF AnyStep
  <2>6. g[m] = last /\ \A k \in 0 .. m - 1 : g[k] = f[k]
    BY <2>3
  <2>7. g = [k \in 0 .. m |-> g[k]]
    OBVIOUS
  <2> HIDE DEF g
  <2>8. Runs(g, steps, o, m)
    <3>1. g[0] = o /\ \A k \in 0 .. m : g[k] \in Nat
      BY <2>3, <2>4, <2>5, <2>6 DEF Runs
    <3>2. ASSUME NEW k \in 1 .. m
          PROVE  g[k] = StartOf(steps[k], g[k-1]) + steps[k].size
      BY <2>3, <2>4, <2>6 DEF Runs
    <3> QED
      BY <3>1, <3>2 DEF Runs
  <2>9. Ends(g, m)
    <3>1. \A k \in 0 .. m :
            g[k] = IF k = 0 THEN o ELSE StartOf(steps[k], g[k-1]) + steps[k].size
      BY <2>3, <2>8 DEF Runs
    <3> QED
      BY <2>7, <3>1
  <2>10. Solved(m)
    <3> HIDE DEF Ends
    <3> QED
      BY <2>8, <2>9
  <2> HIDE DEF Solved
  <2> QED
    BY <2>1, <2>10
<1> QED
  BY <1>2, <1>3

\* so Cursor is one:
LEMMA CursorRuns ==
  ASSUME NEW steps \in Seq(AnyStep), NEW o \in Nat
  PROVE  Runs(Cursor(steps, o), steps, o, Len(steps))
<1> DEFINE Ends(f) == f = [k \in 0 .. Len(steps) |->
                             IF k = 0 THEN o ELSE StartOf(steps[k], f[k-1]) + steps[k].size]
           f == Cursor(steps, o)
           n == Len(steps)
<1>1. f = CHOOSE g : Ends(g)
  BY DEF Cursor
<1>2. \E g : Ends(g)
  BY CursorExists
<1>3. Ends(f)
  <2> HIDE DEF f
  <2>1. Ends(CHOOSE g : Ends(g))
    <3> HIDE DEF Ends
    <3> QED
      BY <1>2
  <2> HIDE DEF Ends
  <2> QED
    BY <1>1, <2>1
<1> HIDE DEF f
<1>4. n \in Nat /\ \A k \in 1 .. n : steps[k] \in AnyStep
  BY LenProperties, ElementOfSeq
<1>5. f[0] = o /\ \A k \in 1 .. n : f[k] = StartOf(steps[k], f[k-1]) + steps[k].size
  <2> DEFINE g(k) == IF k = 0 THEN o ELSE StartOf(steps[k], f[k-1]) + steps[k].size
  <2>1. f = [k \in 0 .. n |-> g(k)]
    BY <1>3
  <2>2. \A k \in 0 .. n : f[k] = g(k)
    <3> HIDE DEF g
    <3> QED
      BY <2>1
  <2> QED
    BY <1>4, <2>2
<1>6. \A k \in 0 .. n : f[k] \in Nat
  <2> DEFINE T == {k \in Nat : k <= n /\ f[k] \notin Nat}
  <2>1. CASE T # {}
    <3>1. PICK k \in T : \A j \in T : k <= j
      BY <2>1, LeastNat
    <3>2. k # 0 /\ k - 1 \notin T /\ k \in 1 .. n
      BY <1>4, <1>5, <3>1
    <3>3. f[k-1] \in Nat /\ steps[k] \in AnyStep
      BY <1>4, <3>1, <3>2
    <3>4. StartOf(steps[k], f[k-1]) \in Nat
      BY <3>3, Starts
    <3> QED
      BY <1>5, <3>1, <3>2, <3>3, <3>4 DEF AnyStep
  <2> QED
    BY <1>4, <2>1
<1> QED
  BY <1>5, <1>6 DEF Runs, f

\* and there is no other.
LEMMA RunsAlike ==
  ASSUME NEW n \in Nat, NEW steps, NEW o, NEW f, NEW g,
         Runs(f, steps, o, n), Runs(g, steps, o, n)
  PROVE  \A k \in 0 .. n : f[k] = g[k]
<1> DEFINE T == {k \in Nat : k <= n /\ f[k] # g[k]}
<1>1. CASE T # {}
  <2>1. PICK k \in T : \A j \in T : k <= j
    BY <1>1, LeastNat
  <2>2. k # 0
    BY <2>1 DEF Runs
  <2>3. k \in 1 .. n /\ f[k-1] = g[k-1]
    BY <2>1, <2>2
  <2>4. f[k] = StartOf(steps[k], f[k-1]) + steps[k].size /\ g[k] = StartOf(steps[k], g[k-1]) + steps[k].size
    BY <2>3 DEF Runs
  <2> QED
    BY <2>1, <2>3, <2>4
<1> QED
  BY <1>1

LEMMA Ends ==
  ASSUME NEW steps \in Seq(AnyStep), NEW o \in Nat
  PROVE  /\ Len(steps) \in Nat /\ DOMAIN steps = 1 .. Len(steps)
         /\ \A k \in 1 .. Len(steps) : steps[k] \in AnyStep
         /\ Total(steps, o) \in Nat
         /\ Cursor(steps, o)[Len(steps)] = o + Total(steps, o)
         /\ \A k \in 1 .. Len(steps) :
              /\ o <= FieldAt(steps, o, k)
              /\ FieldAt(steps, o, k) \in Nat
              /\ FieldAt(steps, o, k) + steps[k].size = Cursor(steps, o)[k]
              /\ Cursor(steps, o)[k] <= o + Total(steps, o)
         /\ \A j, k \in 1 .. Len(steps) :
              j < k => FieldAt(steps, o, j) + steps[j].size <= FieldAt(steps, o, k)
<1> DEFINE n == Len(steps)
           at == Cursor(steps, o)
<1>1. n \in Nat /\ DOMAIN steps = 1 .. n /\ \A k \in 1 .. n : steps[k] \in AnyStep
  BY LenProperties, ElementOfSeq
<1>2. Runs(at, steps, o, n)
  BY CursorRuns
<1> HIDE DEF at
<1>3. \A k \in 1 .. n : /\ at[k-1] \in Nat /\ at[k] \in Nat
                        /\ StartOf(steps[k], at[k-1]) \in Nat
                        /\ at[k-1] <= StartOf(steps[k], at[k-1])
                        /\ at[k] = StartOf(steps[k], at[k-1]) + steps[k].size
                        /\ at[k-1] <= at[k]
  <2> SUFFICES ASSUME NEW k \in 1 .. n
               PROVE  /\ at[k-1] \in Nat /\ at[k] \in Nat
                      /\ StartOf(steps[k], at[k-1]) \in Nat
                      /\ at[k-1] <= StartOf(steps[k], at[k-1])
                      /\ at[k] = StartOf(steps[k], at[k-1]) + steps[k].size
                      /\ at[k-1] <= at[k]
    OBVIOUS
  <2>1. at[k-1] \in Nat /\ at[k] \in Nat /\ steps[k] \in AnyStep
    BY <1>1, <1>2 DEF Runs
  <2>2. StartOf(steps[k], at[k-1]) \in Nat /\ at[k-1] <= StartOf(steps[k], at[k-1])
    BY <2>1, Starts
  <2>3. at[k] = StartOf(steps[k], at[k-1]) + steps[k].size /\ steps[k].size \in Nat
    BY <1>2, <2>1 DEF Runs, AnyStep
  <2> QED
    BY <2>1, <2>2, <2>3
<1>4. ASSUME NEW j \in 0 .. n, NEW k \in 0 .. n, j <= k
      PROVE  at[j] <= at[k]
  <2> DEFINE T == {i \in Nat : j <= i /\ i <= n /\ ~(at[j] <= at[i])}
  <2>1. \A i \in 0 .. n : at[i] \in Nat
    BY <1>2 DEF Runs
  <2>2. CASE T # {}
    <3>1. PICK i \in T : \A l \in T : i <= l
      BY <2>2, LeastNat
    <3>2. i # j /\ i \in 1 .. n /\ i - 1 \in 0 .. n /\ at[j] <= at[i-1]
      BY <1>1, <2>1, <3>1
    <3> QED
      BY <1>3, <2>1, <3>1, <3>2
  <2> QED
    BY <1>1, <1>4, <2>2
<1>5. Total(steps, o) \in Nat /\ at[n] = o + Total(steps, o)
  <2>1. at[0] = o /\ at[n] \in Nat /\ 0 \in 0 .. n /\ n \in 0 .. n /\ 0 <= n
    BY <1>1, <1>2 DEF Runs
  <2>2. o <= at[n]
    BY <1>4, <2>1
  <2>3. Total(steps, o) = at[n] - o
    BY DEF Total, at
  <2> QED
    BY <2>1, <2>2, <2>3
<1>6. \A k \in 1 .. n : FieldAt(steps, o, k) = StartOf(steps[k], at[k-1])
  BY DEF FieldAt, at
<1>7. ASSUME NEW k \in 1 .. n
      PROVE  /\ o <= FieldAt(steps, o, k)
             /\ FieldAt(steps, o, k) \in Nat
             /\ FieldAt(steps, o, k) + steps[k].size = at[k]
             /\ at[k] <= o + Total(steps, o)
  <2>1. k - 1 \in 0 .. n /\ k \in 0 .. n /\ 0 \in 0 .. n /\ n \in 0 .. n /\ at[0] = o
    BY <1>1, <1>2 DEF Runs
  <2>2. o <= at[k-1] /\ at[k] <= at[n]
    BY <1>1, <1>4, <2>1
  <2>3. at[k-1] \in Nat /\ StartOf(steps[k], at[k-1]) \in Nat /\ at[k-1] <= StartOf(steps[k], at[k-1])
        /\ at[k] = StartOf(steps[k], at[k-1]) + steps[k].size
    BY <1>3
  <2>4. FieldAt(steps, o, k) = StartOf(steps[k], at[k-1])
    BY <1>6
  <2> QED
    BY <1>5, <2>2, <2>3, <2>4
<1>8. ASSUME NEW j \in 1 .. n, NEW k \in 1 .. n, j < k
      PROVE  FieldAt(steps, o, j) + steps[j].size <= FieldAt(steps, o, k)
  <2>1. j \in 0 .. n /\ k - 1 \in 0 .. n /\ j <= k - 1
    BY <1>1, <1>8
  <2>2. at[j] <= at[k-1]
    BY <1>4, <2>1
  <2>3. /\ at[j] \in Nat /\ at[k-1] \in Nat /\ StartOf(steps[k], at[k-1]) \in Nat
        /\ at[k-1] <= StartOf(steps[k], at[k-1])
    BY <1>3
  <2>4. FieldAt(steps, o, j) + steps[j].size = at[j] /\ FieldAt(steps, o, k) = StartOf(steps[k], at[k-1])
    BY <1>6, <1>7
  <2> QED
    BY <2>2, <2>3, <2>4
<1> QED
  BY <1>1, <1>5, <1>7, <1>8 DEF at

LEMMA EndOf ==
  ASSUME NEW steps \in Seq(AnyStep), NEW o \in Nat
  PROVE  /\ Len(steps) \in Nat /\ DOMAIN steps = 1 .. Len(steps)
         /\ Total(steps, o) \in Nat /\ o + Total(steps, o) \in Nat
         /\ Cursor(steps, o)[Len(steps)] = o + Total(steps, o)
<1>1. Total(steps, o) \in Nat
  BY Ends
<1>2. Len(steps) \in Nat /\ DOMAIN steps = 1 .. Len(steps)
  BY LenProperties
<1>3. Cursor(steps, o)[Len(steps)] = o + Total(steps, o)
  BY Ends
<1> QED
  BY <1>1, <1>2, <1>3

------------------------------------------------------------------------------
(* Places *)

\* Places between lo and hi, none of them empty.
Inside(places, lo, hi) == \A p \in places : lo <= p.lo /\ p.lo < p.hi /\ p.hi <= hi

Apart(places, others) == \A p \in places, q \in others : ~Overlap(p, q)

\* Whatever the steps do, they do it between the offset and where they end;
LEMMA PlacesInside ==
  ASSUME NEW steps \in Seq(AnyStep), NEW o \in Nat, NEW ops, NEW fields
  PROVE  /\ PlacesOf(steps, o, ops, fields) \subseteq [lo : Nat, hi : Nat]
         /\ Inside(PlacesOf(steps, o, ops, fields), o, o + Total(steps, o))
<1> SUFFICES ASSUME NEW p \in PlacesOf(steps, o, ops, fields)
             PROVE  p \in [lo : Nat, hi : Nat] /\ o <= p.lo /\ p.lo < p.hi /\ p.hi <= o + Total(steps, o)
  BY DEF Inside
<1>1. PICK k \in DOMAIN steps :
        /\ steps[k].size > 0
        /\ p = [lo |-> FieldAt(steps, o, k), hi |-> FieldAt(steps, o, k) + steps[k].size]
  BY DEF PlacesOf
<1>2. /\ k \in 1 .. Len(steps) /\ steps[k] \in AnyStep /\ Total(steps, o) \in Nat
      /\ FieldAt(steps, o, k) \in Nat /\ o <= FieldAt(steps, o, k)
      /\ FieldAt(steps, o, k) + steps[k].size <= o + Total(steps, o)
  BY Ends
<1>3. steps[k].size \in Nat
  BY <1>2 DEF AnyStep
<1> QED
  BY <1>1, <1>2, <1>3

\* and no two steps do it in the same place.
LEMMA PlacesApart ==
  ASSUME NEW steps \in Seq(AnyStep), NEW o \in Nat, NEW ops, NEW fields, NEW others, NEW names,
         NEW p \in PlacesOf(steps, o, ops, fields), NEW q \in PlacesOf(steps, o, others, names)
  PROVE  p = q \/ ~Overlap(p, q)
<1>1. PICK j \in DOMAIN steps :
        p = [lo |-> FieldAt(steps, o, j), hi |-> FieldAt(steps, o, j) + steps[j].size]
  BY DEF PlacesOf
<1>2. PICK k \in DOMAIN steps :
        q = [lo |-> FieldAt(steps, o, k), hi |-> FieldAt(steps, o, k) + steps[k].size]
  BY DEF PlacesOf
<1>3. /\ j \in 1 .. Len(steps) /\ k \in 1 .. Len(steps) /\ Len(steps) \in Nat
      /\ j < k => p.hi <= q.lo
      /\ k < j => q.hi <= p.lo
      /\ p.lo \in Nat /\ p.hi \in Nat /\ q.lo \in Nat /\ q.hi \in Nat
  <2>1. p \in [lo : Nat, hi : Nat] /\ q \in [lo : Nat, hi : Nat]
    BY PlacesInside
  <2> QED
    BY <1>1, <1>2, <2>1, Ends
<1>4. j = k \/ j < k \/ k < j
  BY <1>3
<1> QED
  BY <1>1, <1>2, <1>3, <1>4 DEF Overlap

LEMMA NoPlaces ==
  ASSUME NEW o \in Nat, NEW ops, NEW fields
  PROVE  Total(<<>>, o) = 0 /\ PlacesOf(<<>>, o, ops, fields) = {}
<1>1. <<>> \in Seq(AnyStep) /\ Len(<<>>) = 0 /\ DOMAIN <<>> = {}
  OBVIOUS
<1>2. Runs(Cursor(<<>>, o), <<>>, o, 0)
  BY <1>1, CursorRuns
<1>3. Cursor(<<>>, o)[0] = o
  BY <1>2 DEF Runs
<1> QED
  BY <1>1, <1>3 DEF Total, PlacesOf

\* The place of one step.
PlaceOf(c, o) == [lo |-> StartOf(c, o), hi |-> StartOf(c, o) + c.size]

LEMMA OnePlace ==
  ASSUME NEW c \in AnyStep, NEW o \in Nat, NEW ops, NEW fields
  PROVE  /\ o + Total(<<c>>, o) = StartOf(c, o) + c.size
         /\ PlacesOf(<<c>>, o, ops, fields)
              = IF c.op \in ops /\ c.field \in fields /\ c.size > 0 THEN {PlaceOf(c, o)} ELSE {}
<1> DEFINE steps == <<c>>
<1>1. steps \in Seq(AnyStep) /\ Len(steps) = 1 /\ DOMAIN steps = {1} /\ steps[1] = c
  OBVIOUS
<1> HIDE DEF steps
<1>2. Runs(Cursor(steps, o), steps, o, 1)
  BY <1>1, CursorRuns
<1>3. Cursor(steps, o)[1] = o + Total(steps, o)
  BY <1>1, Ends
<1>4. Cursor(steps, o)[0] = o /\ Cursor(steps, o)[1] = StartOf(c, o) + c.size
  <2>1. 1 \in 1 .. 1 /\ 1 - 1 = 0
    OBVIOUS
  <2> QED
    BY <1>1, <1>2, <2>1 DEF Runs
<1>5. FieldAt(steps, o, 1) = StartOf(c, o)
  <2>1. 1 - 1 = 0
    OBVIOUS
  <2> QED
    BY <1>1, <1>4, <2>1 DEF FieldAt
<1> QED
  BY <1>1, <1>3, <1>4, <1>5 DEF PlacesOf, PlaceOf, steps

\* One sequence of steps after another.
LEMMA CursorOfConcat ==
  ASSUME NEW a \in Seq(AnyStep), NEW b \in Seq(AnyStep), NEW o \in Nat
  PROVE  /\ a \o b \in Seq(AnyStep) /\ Len(a \o b) = Len(a) + Len(b)
         /\ \A k \in 1 .. Len(a) : (a \o b)[k] = a[k]
         /\ \A k \in 1 .. Len(b) : (a \o b)[Len(a) + k] = b[k]
         /\ \A k \in 0 .. Len(a) : Cursor(a \o b, o)[k] = Cursor(a, o)[k]
         /\ \A k \in 0 .. Len(b) :
              Cursor(a \o b, o)[Len(a) + k] = Cursor(b, o + Total(a, o))[k]
<1> DEFINE ab == a \o b
           n == Len(a)
           m == Len(b)
           A == Cursor(a, o)
           B == Cursor(b, o + Total(a, o))
           f == [k \in 0 .. n + m |-> IF k <= n THEN A[k] ELSE B[k - n]]
<1>1. /\ n \in Nat /\ m \in Nat /\ ab \in Seq(AnyStep) /\ Len(ab) = n + m
      /\ \A k \in 1 .. n : ab[k] = a[k]
      /\ \A k \in 1 .. m : ab[n + k] = b[k]
  <2>1. n \in Nat /\ m \in Nat
    BY LenProperties
  <2>2. /\ ab \in Seq(AnyStep) /\ Len(ab) = n + m
        /\ \A k \in 1 .. n + m : ab[k] = IF k <= n THEN a[k] ELSE b[k - n]
    BY ConcatProperties
  <2>3. \A k \in 1 .. n : k \in 1 .. n + m /\ k <= n
    BY <2>1
  <2>4. \A k \in 1 .. m : n + k \in 1 .. n + m /\ ~(n + k <= n) /\ (n + k) - n = k
    BY <2>1
  <2> QED
    BY <2>1, <2>2, <2>3, <2>4
<1>2. o + Total(a, o) \in Nat /\ A[n] = o + Total(a, o)
  BY EndOf
<1>3. Runs(A, a, o, n) /\ Runs(B, b, o + Total(a, o), m)
  BY <1>2, CursorRuns
<1> HIDE DEF A, B, ab
<1>4. /\ \A k \in 0 .. n : f[k] = A[k]
      /\ \A k \in 0 .. m : f[n + k] = B[k]
  <2>1. \A k \in 0 .. n : f[k] = A[k]
    BY <1>1
  <2>2. ASSUME NEW k \in 0 .. m
        PROVE  f[n + k] = B[k]
    <3>1. CASE k = 0
      BY <1>1, <1>2, <1>3, <3>1 DEF Runs
    <3>2. CASE k # 0
      <4>1. n + k \in 0 .. n + m /\ ~(n + k <= n) /\ (n + k) - n = k
        BY <1>1, <3>2
      <4> QED
        BY <4>1
    <3> QED
      BY <3>1, <3>2
  <2> QED
    BY <2>1, <2>2
<1> HIDE DEF f, n, m
<1>5. Runs(f, ab, o, n + m)
  <2>1. f[0] = o
    BY <1>1, <1>3, <1>4 DEF Runs
  <2>2. ASSUME NEW k \in 0 .. n + m
        PROVE  f[k] \in Nat
    <3>1. CASE k <= n
      <4>1. k \in 0 .. n
        BY <1>1, <3>1
      <4> QED
        BY <1>3, <1>4, <4>1 DEF Runs
    <3>2. CASE ~(k <= n)
      <4>1. k - n \in 0 .. m /\ n + (k - n) = k
        BY <1>1, <3>2
      <4>2. f[n + (k - n)] = B[k - n]
        BY <1>4, <4>1
      <4> QED
        BY <1>3, <4>1, <4>2 DEF Runs
    <3> QED
      BY <3>1, <3>2
  <2>3. ASSUME NEW k \in 1 .. n + m
        PROVE  f[k] = StartOf(ab[k], f[k-1]) + ab[k].size
    <3>1. CASE k <= n
      <4>1. k \in 1 .. n /\ k \in 0 .. n /\ k - 1 \in 0 .. n
        BY <1>1, <3>1
      <4>2. f[k] = A[k] /\ f[k-1] = A[k-1] /\ ab[k] = a[k]
        BY <1>1, <1>4, <4>1
      <4>3. A[k] = StartOf(a[k], A[k-1]) + a[k].size
        BY <1>3, <4>1 DEF Runs
      <4> QED
        BY <4>2, <4>3
    <3>2. CASE ~(k <= n)
      <4>1. PICK j \in 1 .. m : k = n + j
        <5>1. k - n \in 1 .. m /\ k = n + (k - n)
          BY <1>1, <3>2
        <5> QED
          BY <5>1
      <4>2. j \in 0 .. m /\ j - 1 \in 0 .. m /\ n + (j - 1) = k - 1
        BY <1>1, <4>1
      <4>3. f[k] = B[j] /\ f[k-1] = B[j-1] /\ ab[k] = b[j]
        <5>1. f[n + j] = B[j] /\ f[n + (j - 1)] = B[j-1] /\ ab[n + j] = b[j]
          BY <1>1, <1>4, <4>2
        <5> QED
          BY <4>1, <4>2, <5>1
      <4>4. B[j] = StartOf(b[j], B[j-1]) + b[j].size
        BY <1>3 DEF Runs
      <4> QED
        BY <4>3, <4>4
    <3> QED
      BY <3>1, <3>2
  <2> QED
    BY <2>1, <2>2, <2>3 DEF Runs
<1>6. \A k \in 0 .. n + m : Cursor(ab, o)[k] = f[k]
  <2>1. Runs(Cursor(ab, o), ab, o, n + m) /\ n + m \in Nat
    <3>1. ab \in Seq(AnyStep) /\ Len(ab) = n + m /\ n + m \in Nat
      BY <1>1
    <3>2. Runs(Cursor(ab, o), ab, o, Len(ab))
      BY <3>1, CursorRuns
    <3> QED
      BY <3>1, <3>2
  <2> QED
    BY <1>5, <2>1, RunsAlike
<1>7. \A k \in 0 .. n : Cursor(ab, o)[k] = A[k]
  <2>1. \A k \in 0 .. n : k \in 0 .. n + m
    BY <1>1
  <2> QED
    BY <1>4, <1>6, <2>1
<1>8. \A k \in 0 .. m : Cursor(ab, o)[n + k] = B[k]
  <2>1. \A k \in 0 .. m : n + k \in 0 .. n + m
    BY <1>1
  <2> QED
    BY <1>4, <1>6, <2>1
<1> QED
  BY <1>1, <1>7, <1>8 DEF A, B, ab, n, m

LEMMA PlacesOfConcat ==
  ASSUME NEW a \in Seq(AnyStep), NEW b \in Seq(AnyStep), NEW o \in Nat, NEW ops, NEW fields
  PROVE  /\ a \o b \in Seq(AnyStep)
         /\ Total(a \o b, o) = Total(a, o) + Total(b, o + Total(a, o))
         /\ PlacesOf(a \o b, o, ops, fields)
              = PlacesOf(a, o, ops, fields) \cup PlacesOf(b, o + Total(a, o), ops, fields)
<1> DEFINE ab == a \o b
           n == Len(a)
           m == Len(b)
           x == o + Total(a, o)
<1>1. /\ ab \in Seq(AnyStep) /\ Len(ab) = n + m
      /\ \A k \in 1 .. n : ab[k] = a[k]
      /\ \A k \in 1 .. m : ab[n + k] = b[k]
      /\ \A k \in 0 .. n : Cursor(ab, o)[k] = Cursor(a, o)[k]
      /\ \A k \in 0 .. m : Cursor(ab, o)[n + k] = Cursor(b, x)[k]
  BY CursorOfConcat
<1>2. n \in Nat /\ m \in Nat /\ DOMAIN a = 1 .. n /\ DOMAIN b = 1 .. m /\ x \in Nat
  BY EndOf
<1> HIDE DEF ab, x
<1>3. DOMAIN ab = 1 .. n + m
  BY <1>1, LenProperties
<1> HIDE DEF n, m
<1>4. Total(ab, o) = Total(a, o) + Total(b, x)
  <2>1. m \in 0 .. m
    BY <1>2
  <2>2. Cursor(ab, o)[n + m] = Cursor(b, x)[m]
    BY <1>1, <2>1
  <2>3. Cursor(b, x)[m] = x + Total(b, x) /\ Total(b, x) \in Nat
    BY <1>2, Ends DEF m
  <2>4. Cursor(ab, o)[n + m] = o + Total(ab, o) /\ Total(ab, o) \in Nat
    BY <1>1, Ends
  <2>5. x = o + Total(a, o) /\ Total(a, o) \in Nat
    BY Ends DEF x
  <2> QED
    BY <2>2, <2>3, <2>4, <2>5
<1>5. \A k \in 1 .. n : FieldAt(ab, o, k) = FieldAt(a, o, k)
  <2>1. \A k \in 1 .. n : k - 1 \in 0 .. n
    BY <1>2
  <2> QED
    BY <1>1, <2>1 DEF FieldAt
<1>6. ASSUME NEW k \in 1 .. m
      PROVE  FieldAt(ab, o, n + k) = FieldAt(b, x, k)
  <2>1. k - 1 \in 0 .. m /\ (n + k) - 1 = n + (k - 1)
    BY <1>2
  <2>2. Cursor(ab, o)[(n + k) - 1] = Cursor(b, x)[k - 1]
    BY <1>1, <2>1
  <2> QED
    BY <1>1, <2>2 DEF FieldAt
<1> DEFINE P(steps, off, k) ==
             [lo |-> FieldAt(steps, off, k), hi |-> FieldAt(steps, off, k) + steps[k].size]
           Does(steps, k) ==
             steps[k].op \in ops /\ steps[k].field \in fields /\ steps[k].size > 0
<1>7. \A k \in 1 .. n : P(ab, o, k) = P(a, o, k) /\ (Does(ab, k) <=> Does(a, k))
  BY <1>1, <1>5
<1>8. \A k \in 1 .. m : P(ab, o, n + k) = P(b, x, k) /\ (Does(ab, n + k) <=> Does(b, k))
  BY <1>1, <1>6
<1>9. /\ \A p : p \in PlacesOf(ab, o, ops, fields) <=> \E k \in 1 .. n + m : Does(ab, k) /\ p = P(ab, o, k)
      /\ \A p : p \in PlacesOf(a, o, ops, fields) <=> \E k \in 1 .. n : Does(a, k) /\ p = P(a, o, k)
      /\ \A p : p \in PlacesOf(b, x, ops, fields) <=> \E k \in 1 .. m : Does(b, k) /\ p = P(b, x, k)
  BY <1>2, <1>3 DEF PlacesOf
<1> HIDE DEF P, Does
<1>10. \A k : k \in 1 .. n + m <=> k \in 1 .. n \/ \E j \in 1 .. m : k = n + j
  <2>1. ASSUME NEW k \in 1 .. n + m, k \notin 1 .. n
        PROVE  \E j \in 1 .. m : k = n + j
    <3>1. k - n \in 1 .. m /\ k = n + (k - n)
      BY <1>2, <2>1
    <3> QED
      BY <3>1
  <2>2. \A k \in 1 .. n : k \in 1 .. n + m
    BY <1>2
  <2>3. \A j \in 1 .. m : n + j \in 1 .. n + m
    BY <1>2
  <2> QED
    BY <2>1, <2>2, <2>3
<1>11. PlacesOf(ab, o, ops, fields) = PlacesOf(a, o, ops, fields) \cup PlacesOf(b, x, ops, fields)
  <2>1. ASSUME NEW p \in PlacesOf(ab, o, ops, fields)
        PROVE  p \in PlacesOf(a, o, ops, fields) \cup PlacesOf(b, x, ops, fields)
    <3>1. PICK k \in 1 .. n + m : Does(ab, k) /\ p = P(ab, o, k)
      BY <1>9
    <3>2. CASE k \in 1 .. n
      BY <1>7, <1>9, <3>1, <3>2
    <3>3. CASE \E j \in 1 .. m : k = n + j
      BY <1>8, <1>9, <3>1, <3>3
    <3> QED
      BY <1>10, <3>2, <3>3
  <2>2. PlacesOf(a, o, ops, fields) \subseteq PlacesOf(ab, o, ops, fields)
    BY <1>7, <1>9, <1>10
  <2>3. ASSUME NEW p \in PlacesOf(b, x, ops, fields)
        PROVE  p \in PlacesOf(ab, o, ops, fields)
    <3>1. PICK k \in 1 .. m : Does(b, k) /\ p = P(b, x, k)
      BY <1>9
    <3>2. Does(ab, n + k) /\ p = P(ab, o, n + k) /\ n + k \in 1 .. n + m
      BY <1>8, <1>10, <3>1
    <3> QED
      BY <1>9, <3>2
  <2> QED
    BY <2>1, <2>2, <2>3
<1> QED
  BY <1>1, <1>4, <1>11 DEF ab, x

------------------------------------------------------------------------------
(* One end looks where the other has been *)

\* The cursor of m ends where that of w does, and the fields of S that it looks
\* at are where w has put them.
Finds(m, mops, w, wops, o, S) ==
  /\ Total(m, o) = Total(w, o)
  /\ PlacesOf(m, o, mops, S) \subseteq PlacesOf(w, o, wops, S)

LEMMA FindsNothing ==
  ASSUME NEW o \in Nat, NEW mops, NEW wops, NEW S
  PROVE  <<>> \in Seq(AnyStep) /\ Finds(<<>>, mops, <<>>, wops, o, S)
<1>1. <<>> \in Seq(AnyStep)
  OBVIOUS
<1> QED
  BY <1>1, NoPlaces DEF Finds

LEMMA FindsOne ==
  ASSUME NEW c \in AnyStep, NEW d \in AnyStep, NEW o \in Nat, NEW mops, NEW wops, NEW S,
         StartOf(c, o) = StartOf(d, o), c.size = d.size, c.field = d.field,
         c.op \in mops /\ c.field \in S => d.op \in wops
  PROVE  <<c>> \in Seq(AnyStep) /\ <<d>> \in Seq(AnyStep) /\ Finds(<<c>>, mops, <<d>>, wops, o, S)
<1>1. <<c>> \in Seq(AnyStep) /\ <<d>> \in Seq(AnyStep)
  OBVIOUS
<1>2. Total(<<c>>, o) = Total(<<d>>, o)
  <2>1. Total(<<c>>, o) \in Nat /\ Total(<<d>>, o) \in Nat
    BY <1>1, EndOf
  <2>2. o + Total(<<c>>, o) = o + Total(<<d>>, o)
    BY OnePlace
  <2> QED
    BY <2>1, <2>2
<1>3. PlaceOf(c, o) = PlaceOf(d, o)
  BY DEF PlaceOf
<1>4. PlacesOf(<<c>>, o, mops, S) \subseteq PlacesOf(<<d>>, o, wops, S)
  <2>1. PlacesOf(<<c>>, o, mops, S)
          = IF c.op \in mops /\ c.field \in S /\ c.size > 0 THEN {PlaceOf(c, o)} ELSE {}
    BY OnePlace
  <2>2. PlacesOf(<<d>>, o, wops, S)
          = IF d.op \in wops /\ d.field \in S /\ d.size > 0 THEN {PlaceOf(d, o)} ELSE {}
    BY OnePlace
  <2> QED
    BY <1>3, <2>1, <2>2
<1> QED
  BY <1>1, <1>2, <1>4 DEF Finds

LEMMA FindsConcat ==
  ASSUME NEW m1 \in Seq(AnyStep), NEW m2 \in Seq(AnyStep),
         NEW w1 \in Seq(AnyStep), NEW w2 \in Seq(AnyStep),
         NEW o \in Nat, NEW mops, NEW wops, NEW S,
         Finds(m1, mops, w1, wops, o, S),
         Finds(m2, mops, w2, wops, o + Total(w1, o), S)
  PROVE  /\ m1 \o m2 \in Seq(AnyStep) /\ w1 \o w2 \in Seq(AnyStep)
         /\ Finds(m1 \o m2, mops, w1 \o w2, wops, o, S)
<1>1. /\ m1 \o m2 \in Seq(AnyStep)
      /\ Total(m1 \o m2, o) = Total(m1, o) + Total(m2, o + Total(m1, o))
      /\ PlacesOf(m1 \o m2, o, mops, S)
           = PlacesOf(m1, o, mops, S) \cup PlacesOf(m2, o + Total(m1, o), mops, S)
  BY PlacesOfConcat
<1>2. /\ w1 \o w2 \in Seq(AnyStep)
      /\ Total(w1 \o w2, o) = Total(w1, o) + Total(w2, o + Total(w1, o))
      /\ PlacesOf(w1 \o w2, o, wops, S)
           = PlacesOf(w1, o, wops, S) \cup PlacesOf(w2, o + Total(w1, o), wops, S)
  BY PlacesOfConcat
<1>3. Total(m1, o) = Total(w1, o)
  BY DEF Finds
<1> QED
  BY <1>1, <1>2, <1>3 DEF Finds

------------------------------------------------------------------------------
(* Blocks of steps, one for each event or channel *)

\* f follows the recursion of FlattenSeq for n blocks.
Joins(f, blocks, n) ==
  /\ f[1] = blocks[1]
  /\ \A i \in 2 .. n : f[i] = f[i-1] \o blocks[i]

LEMMA Flattened ==
  ASSUME NEW n \in Nat \ {0}, NEW blocks, Len(blocks) = n
  PROVE  \E f : Joins(f, blocks, n) /\ FlattenSeq(blocks) = f[n]
<1> DEFINE Solves(f, m) == f = [i \in 1 .. m |-> IF i = 1 THEN blocks[i] ELSE f[i-1] \o blocks[i]]
           Solved(m) == \E f : Solves(f, m)
           T == {m \in Nat : m >= 1 /\ m <= n /\ ~Solved(m)}
           f == CHOOSE g : Solves(g, n)
<1>1. Solved(n)
  <2>1. CASE T = {}
    <3> HIDE DEF Solved
    <3> QED
      BY <2>1
  <2>2. CASE T # {}
    <3>1. PICK m \in T : \A k \in T : m <= k
      BY <2>2, LeastNat
    <3>2. m # 1
      <4> DEFINE g == [i \in 1 .. 1 |-> blocks[i]]
      <4>1. Solves(g, 1)
        OBVIOUS
      <4> HIDE DEF Solves, g
      <4>2. Solved(1)
        BY <4>1
      <4> HIDE DEF Solved
      <4> QED
        BY <3>1, <4>2
    <3>3. m - 1 \in Nat /\ m - 1 >= 1 /\ m - 1 <= n /\ Solved(m - 1)
      <4> HIDE DEF Solved
      <4> QED
        BY <3>1, <3>2
    <3>4. PICK h : Solves(h, m - 1)
      BY <3>3
    <3> DEFINE g == [i \in 1 .. m |-> IF i = m THEN h[m-1] \o blocks[m] ELSE h[i]]
               Next(e, i) == IF i = 1 THEN blocks[i] ELSE e[i-1] \o blocks[i]
    <3>5. \A i \in 1 .. m - 1 : h[i] = Next(h, i)
      <4>1. h = [i \in 1 .. m - 1 |-> Next(h, i)]
        BY <3>4
      <4> HIDE DEF Next
      <4> QED
        BY <4>1
    <3>6. g[m] = h[m-1] \o blocks[m] /\ \A i \in 1 .. m - 1 : g[i] = h[i]
      BY <3>3
    <3>7. g = [i \in 1 .. m |-> g[i]]
      OBVIOUS
    <3> HIDE DEF g
    <3>8. ASSUME NEW i \in 1 .. m
          PROVE  g[i] = Next(g, i)
      <4>1. CASE i = m
        <5>1. m - 1 \in 1 .. m - 1 /\ m # 1
          BY <3>2, <3>3
        <5> QED
          BY <3>6, <4>1, <5>1
      <4>2. CASE i # m
        <5>1. i \in 1 .. m - 1 /\ (i # 1 => i - 1 \in 1 .. m - 1)
          BY <3>3, <4>2
        <5> QED
          BY <3>5, <3>6, <5>1
      <4> QED
        BY <4>1, <4>2
    <3>9. g = [i \in 1 .. m |-> Next(g, i)]
      <4> HIDE DEF Next
      <4> QED
        BY <3>7, <3>8
    <3>10. Solves(g, m)
      BY <3>9
    <3>11. Solved(m)
      <4> HIDE DEF Solves
      <4> QED
        BY <3>10
    <3> HIDE DEF Solved
    <3> QED
      BY <3>1, <3>11
  <2> QED
    BY <2>1, <2>2
<1>2. FlattenSeq(blocks) = f[n]
  <2>1. Len(blocks) # 0
    OBVIOUS
  <2> QED
    BY <2>1 DEF FlattenSeq
<1>3. Solves(f, n)
  <2> HIDE DEF Solves
  <2> QED
    BY <1>1
<1> HIDE DEF f
<1>4. \A i \in 1 .. n : f[i] = IF i = 1 THEN blocks[i] ELSE f[i-1] \o blocks[i]
  <2> DEFINE Next(i) == IF i = 1 THEN blocks[i] ELSE f[i-1] \o blocks[i]
  <2>1. f = [i \in 1 .. n |-> Next(i)]
    BY <1>3
  <2>2. \A i \in 1 .. n : f[i] = Next(i)
    <3> HIDE DEF Next
    <3> QED
      BY <2>1
  <2> QED
    BY <2>2
<1>5. Joins(f, blocks, n)
  <2>1. 1 \in 1 .. n /\ \A i \in 2 .. n : i \in 1 .. n /\ i # 1
    OBVIOUS
  <2> QED
    BY <1>4, <2>1 DEF Joins
<1> QED
  BY <1>2, <1>5

LEMMA FlattenedNone ==
  ASSUME NEW blocks, Len(blocks) = 0, blocks = <<>>
  PROVE  FlattenSeq(blocks) = <<>>
BY DEF FlattenSeq

Aligned == {x \in Nat : x % 8 = 0}

LEMMA AlignedSum ==
  ASSUME NEW a \in Aligned, NEW b \in Aligned
  PROVE  a + b \in Aligned
<1>1. a \in Nat /\ b \in Nat /\ a % 8 = 0 /\ b % 8 = 0
  BY DEF Aligned
<1>2. (a + b) % 8 = 0
  BY <1>1
<1> QED
  BY <1>1, <1>2 DEF Aligned

\* From any aligned offset, each block finds its counterpart, over z bytes.
BlocksFind(ms, mops, ws, wops, S, n) ==
  \A i \in 1 .. n :
    /\ ms[i] \in Seq(AnyStep) /\ ws[i] \in Seq(AnyStep)
    /\ \A x \in Aligned : /\ Finds(ms[i], mops, ws[i], wops, x, S)
                          /\ Total(ws[i], x) \in Aligned

LEMMA FlattenedFind ==
  ASSUME NEW n \in Nat, NEW ms, NEW ws, NEW mops, NEW wops, NEW S, NEW o \in Aligned,
         ms = [i \in 1 .. n |-> ms[i]], ws = [i \in 1 .. n |-> ws[i]],
         BlocksFind(ms, mops, ws, wops, S, n)
  PROVE  /\ FlattenSeq(ms) \in Seq(AnyStep) /\ FlattenSeq(ws) \in Seq(AnyStep)
         /\ Finds(FlattenSeq(ms), mops, FlattenSeq(ws), wops, o, S)
         /\ Total(FlattenSeq(ws), o) \in Aligned
<1>1. Len(ms) = n /\ Len(ws) = n
  OBVIOUS
<1>2. CASE n = 0
  <2>1. ms = <<>> /\ ws = <<>>
    BY <1>2
  <2>2. FlattenSeq(ms) = <<>> /\ FlattenSeq(ws) = <<>>
    BY <1>1, <1>2, <2>1, FlattenedNone
  <2>3. o \in Nat
    BY DEF Aligned
  <2>4. <<>> \in Seq(AnyStep)
    OBVIOUS
  <2>5. Finds(<<>>, mops, <<>>, wops, o, S)
    BY <2>3, FindsNothing
  <2>6. Total(<<>>, o) = 0
    BY <2>3, NoPlaces
  <2>7. 0 \in Aligned
    BY DEF Aligned
  <2> QED
    BY <2>2, <2>4, <2>5, <2>6, <2>7
<1>3. CASE n # 0
  <2>1. PICK f : Joins(f, ms, n) /\ FlattenSeq(ms) = f[n]
    BY <1>1, <1>3, Flattened
  <2>2. PICK g : Joins(g, ws, n) /\ FlattenSeq(ws) = g[n]
    BY <1>1, <1>3, Flattened
  <2> DEFINE Good(i) == /\ f[i] \in Seq(AnyStep) /\ g[i] \in Seq(AnyStep)
                        /\ Finds(f[i], mops, g[i], wops, o, S)
                        /\ Total(g[i], o) \in Aligned
             T == {i \in Nat : i >= 1 /\ i <= n /\ ~Good(i)}
  <2>3. CASE T # {}
    <3>1. PICK i \in T : \A k \in T : i <= k
      BY <2>3, LeastNat
    <3>2. i \in 1 .. n
      BY <3>1
    <3>3. CASE i = 1
      <4>1. f[1] = ms[1] /\ g[1] = ws[1]
        BY <2>1, <2>2 DEF Joins
      <4>2. Good(1)
        BY <3>2, <3>3, <4>1 DEF BlocksFind
      <4> QED
        BY <3>1, <3>3, <4>2
    <3>4. CASE i # 1
      <4>1. i \in 2 .. n /\ i - 1 \in Nat /\ i - 1 >= 1 /\ i - 1 <= n /\ i - 1 < i
        BY <3>2, <3>4
      <4>2. Good(i - 1)
        <5> HIDE DEF Good
        <5> QED
          BY <3>1, <4>1
      <4>10. /\ f[i-1] \in Seq(AnyStep) /\ g[i-1] \in Seq(AnyStep)
             /\ Finds(f[i-1], mops, g[i-1], wops, o, S)
             /\ Total(g[i-1], o) \in Aligned
        BY <4>2
      <4>3. f[i] = f[i-1] \o ms[i] /\ g[i] = g[i-1] \o ws[i]
        BY <2>1, <2>2, <4>1 DEF Joins
      <4> DEFINE x == o + Total(g[i-1], o)
      <4>4. x \in Aligned /\ o \in Nat
        BY <4>10, AlignedSum DEF Aligned
      <4>5. /\ ms[i] \in Seq(AnyStep) /\ ws[i] \in Seq(AnyStep)
            /\ Finds(ms[i], mops, ws[i], wops, x, S)
            /\ Total(ws[i], x) \in Aligned
        BY <3>2, <4>4 DEF BlocksFind
      <4>6. /\ f[i-1] \o ms[i] \in Seq(AnyStep) /\ g[i-1] \o ws[i] \in Seq(AnyStep)
            /\ Finds(f[i-1] \o ms[i], mops, g[i-1] \o ws[i], wops, o, S)
        BY <4>4, <4>5, <4>10, FindsConcat
      <4>7. Total(g[i], o) = Total(g[i-1], o) + Total(ws[i], x)
        <5>1. Total(g[i-1] \o ws[i], o) = Total(g[i-1], o) + Total(ws[i], o + Total(g[i-1], o))
          BY <4>4, <4>5, <4>10, PlacesOfConcat
        <5> QED
          BY <4>3, <5>1
      <4>8. Total(g[i], o) \in Aligned
        BY <4>5, <4>7, <4>10, AlignedSum
      <4>9. Good(i)
        BY <4>3, <4>6, <4>8
      <4> HIDE DEF Good
      <4> QED
        BY <3>1, <4>9
    <3> QED
      BY <3>3, <3>4
  <2>4. CASE T = {}
    <3>1. Good(n)
      <4> HIDE DEF Good
      <4> QED
        BY <1>3, <2>4
    <3> QED
      BY <2>1, <2>2, <3>1
  <2> QED
    BY <2>3, <2>4
<1> QED
  BY <1>2, <1>3

LEMMA TwoSteps ==
  ASSUME NEW c \in AnyStep, NEW d \in AnyStep
  PROVE  /\ <<c, d>> = <<c>> \o <<d>>
         /\ <<c>> \in Seq(AnyStep) /\ <<d>> \in Seq(AnyStep) /\ <<c, d>> \in Seq(AnyStep)
<1>1. <<c>> \in Seq(AnyStep) /\ <<d>> \in Seq(AnyStep) /\ <<c, d>> \in Seq(AnyStep)
  OBVIOUS
<1> DEFINE both == <<c>> \o <<d>>
           pair == <<c, d>>
<1>2. /\ both \in Seq(AnyStep) /\ Len(both) = 2 /\ both[1] = c /\ both[2] = d
  <2>1. Len(<<c>>) = 1 /\ Len(<<d>>) = 1 /\ <<c>>[1] = c /\ <<d>>[1] = d
    OBVIOUS
  <2>2. both[1] = <<c>>[1] /\ both[2] = <<d>>[1]
    BY <1>1, <2>1, ConcatProperties
  <2> QED
    BY <1>1, <2>1, <2>2, ConcatProperties
<1>3. Len(pair) = 2 /\ pair[1] = c /\ pair[2] = d
  OBVIOUS
<1> HIDE DEF both, pair
<1>4. \A i \in 1 .. 2 : i = 1 \/ i = 2
  OBVIOUS
<1>5. both = pair
  BY <1>1, <1>2, <1>3, <1>4, SeqEqual DEF pair
<1> QED
  BY <1>1, <1>5 DEF both, pair

\* Steps that do what is in ops, in the fields of S, in those of U only.
Only(ops, S, U) == {c \in AnyStep : c.op \in ops /\ c.field \in S => c.field \in U}

\* What the steps of one kind do is in the fields that those steps may have.
LEMMA PlacesWithin ==
  ASSUME NEW ops, NEW S, NEW U,
         NEW steps \in Seq(Only(ops, S, U)),
         NEW o
  PROVE  steps \in Seq(AnyStep) /\ PlacesOf(steps, o, ops, S) \subseteq PlacesOf(steps, o, ops, U)
<1>1. steps \in Seq(AnyStep)
  BY SeqMonotonic DEF Only
<1>2. \A k \in DOMAIN steps : steps[k].op \in ops /\ steps[k].field \in S => steps[k].field \in U
  <2>1. DOMAIN steps = 1 .. Len(steps)
    BY LenProperties
  <2>2. \A k \in DOMAIN steps :
          steps[k] \in {c \in AnyStep : c.op \in ops /\ c.field \in S => c.field \in U}
    BY <2>1, ElementOfSeq DEF Only
  <2> QED
    BY <2>2
<1> QED
  BY <1>1, <1>2 DEF PlacesOf

LEMMA NoFields ==
  ASSUME NEW steps, NEW o, NEW ops
  PROVE  PlacesOf(steps, o, ops, {}) = {}
BY DEF PlacesOf

LEMMA NoOps ==
  ASSUME NEW steps, NEW o, NEW S
  PROVE  PlacesOf(steps, o, {}, S) = {}
BY DEF PlacesOf

LEMMA FieldsWithin ==
  ASSUME NEW ops, NEW U, NEW steps \in Seq(Only(ops, FieldName, U))
  PROVE  Fields(steps, ops) \subseteq U
<1>1. DOMAIN steps = 1 .. Len(steps)
  BY LenProperties
<1>2. \A k \in DOMAIN steps : steps[k] \in Only(ops, FieldName, U)
  BY <1>1, ElementOfSeq
<1> QED
  BY <1>2 DEF Fields, Only, AnyStep

LEMMA StepTypes ==
  ASSUME NEW f \in FieldName, NEW n \in Nat, NEW a \in {1, 4, 8}
  PROVE  /\ Write(f, n) \in AnyStep /\ Read(f, n) \in AnyStep
         /\ Skip(f, n, a) \in AnyStep /\ MapTo(f, n, a) \in AnyStep
         /\ \A c \in {Write(f, n), Read(f, n), Skip(f, n, a), MapTo(f, n, a)} :
              c.field = f /\ c.size = n
         /\ Write(f, n).op = "write" /\ Read(f, n).op = "read"
         /\ Skip(f, n, a).op = "skip" /\ MapTo(f, n, a).op = "map"
         /\ Skip(f, n, a).align = a /\ MapTo(f, n, a).align = a
BY DEF Write, Read, Skip, MapTo, Step, AnyStep

LEMMA FieldNames ==
  /\ \A name \in {"size", "data", "ptr", "chunk", "rect", "header", "ptrs", "in", "out"} :
       F(name) \in FieldName
  /\ \A name \in {"event", "dump", "in", "out"}, i \in Nat : FI(name, i) \in FieldName
BY DEF F, FI, FieldName

------------------------------------------------------------------------------
(* What a payload needs of its four cursors at an offset *)

Consistent(m, o) ==
  /\ WriteRequest(m) \in Seq(AnyStep) /\ MapRequest(m) \in Seq(AnyStep)
  /\ WriteResponse(m) \in Seq(AnyStep) /\ ReadResponse(m) \in Seq(AnyStep)
  /\ Finds(MapRequest(m), {"read", "map"}, WriteRequest(m), {"write"}, o,
           Fields(WriteRequest(m), {"write"}))
  /\ \A p \in ResultPlaces(m, o) :
       \/ p \in AnswerPlaces(m, o)
       \/ p \in OutputPlaces(m, o) /\ Apart({p}, AnswerPlaces(m, o))

\* Results are read where the answer's steps may look for them;
LEMMA ResultsWithin ==
  ASSUME NEW m, NEW o, NEW U,
         ReadResponse(m) \in Seq(Only({"read"}, Outputs(m) \cup {F("chunk"), F("rect")}, U))
  PROVE  ResultPlaces(m, o) \subseteq PlacesOf(ReadResponse(m), o, {"read"}, U)
<1> DEFINE ops == {"read"}
           S == Outputs(m) \cup {F("chunk"), F("rect")}
           steps == ReadResponse(m)
<1>1. steps \in Seq(Only(ops, S, U))
  OBVIOUS
<1>2. ResultPlaces(m, o) = PlacesOf(steps, o, ops, S)
  BY DEF ResultPlaces
<1>3. PlacesOf(steps, o, ops, S) \subseteq PlacesOf(steps, o, ops, U)
  <2> HIDE DEF ops, S, steps
  <2> QED
    BY <1>1, PlacesWithin
<1> QED
  BY <1>2, <1>3

LEMMA NoResults ==
  ASSUME NEW m, NEW o,
         ReadResponse(m) \in Seq(Only({"read"}, Outputs(m) \cup {F("chunk"), F("rect")}, {}))
  PROVE  ResultPlaces(m, o) = {}
<1> DEFINE U == {}
<1>1. /\ ReadResponse(m) \in Seq(Only({"read"}, Outputs(m) \cup {F("chunk"), F("rect")}, U))
      /\ PlacesOf(ReadResponse(m), o, {"read"}, U) = {}
  BY NoFields
<1> HIDE DEF U
<1> QED
  BY <1>1, ResultsWithin

\* and written where it writes, if it does.
LEMMA NoFieldWritten ==
  ASSUME NEW steps \in Seq(Only({"write"}, FieldName, {}))
  PROVE  Fields(steps, {"write"}) = {}
<1> DEFINE ops == {"write"}
           U == {}
<1>1. steps \in Seq(Only(ops, FieldName, U))
  OBVIOUS
<1> HIDE DEF ops, U
<1>2. Fields(steps, ops) \subseteq U
  BY <1>1, FieldsWithin
<1> QED
  BY <1>2 DEF ops, U

LEMMA NoAnswers ==
  ASSUME NEW m, NEW o, WriteResponse(m) \in Seq(Only({"write"}, FieldName, {}))
  PROVE  AnswerPlaces(m, o) = {}
BY NoFieldWritten, NoFields DEF AnswerPlaces

\* The cursors measure the request alike, the request and the outputs are within
\* what they measure, what the callee reads the caller wrote, and what the
\* caller reads was written with the answer or stored where the answer is not.
Agreed(m, o) ==
  /\ Total(WriteRequest(m), o) \in Nat
  /\ Total(MapRequest(m), o) = Total(WriteRequest(m), o)
  /\ RequestPlaces(m, o) \cup OutputPlaces(m, o) \cup AnswerPlaces(m, o) \subseteq [lo : Nat, hi : Nat]
  /\ Inside(RequestPlaces(m, o), o, o + Total(WriteRequest(m), o))
  /\ Inside(OutputPlaces(m, o), o, o + Total(WriteRequest(m), o))
  /\ \A p \in AnswerPlaces(m, o) : o <= p.lo /\ p.lo < p.hi
  /\ ArgumentPlaces(m, o) \subseteq RequestPlaces(m, o)
  /\ Apart(ArgumentPlaces(m, o) \ OutputPlaces(m, o), OutputPlaces(m, o))
  /\ \A p \in ResultPlaces(m, o) :
       \/ p \in AnswerPlaces(m, o)
       \/ p \in OutputPlaces(m, o) /\ Apart({p}, AnswerPlaces(m, o))

LEMMA ConsistentAgreed ==
  ASSUME NEW m, NEW o \in Nat, Consistent(m, o)
  PROVE  Agreed(m, o)
<1>1. /\ WriteRequest(m) \in Seq(AnyStep) /\ MapRequest(m) \in Seq(AnyStep)
      /\ WriteResponse(m) \in Seq(AnyStep)
  BY DEF Consistent
<1>2. /\ Total(WriteRequest(m), o) \in Nat
      /\ Total(MapRequest(m), o) = Total(WriteRequest(m), o)
      /\ ArgumentPlaces(m, o) \subseteq RequestPlaces(m, o)
  BY <1>1, EndOf DEF Consistent, Finds, ArgumentPlaces, RequestPlaces
<1>3. /\ RequestPlaces(m, o) \subseteq [lo : Nat, hi : Nat]
      /\ Inside(RequestPlaces(m, o), o, o + Total(WriteRequest(m), o))
  BY <1>1, PlacesInside DEF RequestPlaces
<1>4. /\ OutputPlaces(m, o) \subseteq [lo : Nat, hi : Nat]
      /\ Inside(OutputPlaces(m, o), o, o + Total(MapRequest(m), o))
  BY <1>1, PlacesInside DEF OutputPlaces
<1>5. /\ AnswerPlaces(m, o) \subseteq [lo : Nat, hi : Nat]
      /\ Inside(AnswerPlaces(m, o), o, o + Total(WriteResponse(m), o))
  BY <1>1, PlacesInside DEF AnswerPlaces
<1>6. Apart(ArgumentPlaces(m, o) \ OutputPlaces(m, o), OutputPlaces(m, o))
  <2> SUFFICES ASSUME NEW p \in ArgumentPlaces(m, o) \ OutputPlaces(m, o), NEW q \in OutputPlaces(m, o)
               PROVE  ~Overlap(p, q)
    BY DEF Apart
  <2>1. p = q \/ ~Overlap(p, q)
    BY <1>1, PlacesApart DEF ArgumentPlaces, OutputPlaces
  <2> QED
    BY <2>1
<1> QED
  BY <1>2, <1>3, <1>4, <1>5, <1>6 DEF Agreed, Consistent, Inside

------------------------------------------------------------------------------
(* Strings, anywhere *)

\* Steps without alignment, at any offset.
LEMMA FindsField ==
  ASSUME NEW f \in FieldName, NEW n \in Nat, NEW o \in Nat, NEW S
  PROVE  /\ Finds(<<Read(f, n)>>, {"read", "map"}, <<Write(f, n)>>, {"write"}, o, S)
         /\ Finds(<<MapTo(f, n, 1)>>, {"read", "map"}, <<Write(f, n)>>, {"write"}, o, S)
         /\ Finds(<<Read(f, n)>>, {"read"}, <<MapTo(f, n, 1)>>, {"map"}, o, S)
         /\ Finds(<<Read(f, n)>>, {"read"}, <<Write(f, n)>>, {"write"}, o, S)
         /\ f \notin S => Finds(<<MapTo(f, n, 1)>>, {"read", "map"}, <<Skip(f, n, 1)>>, {"write"}, o, S)
<1>1. /\ Write(f, n) \in AnyStep /\ Read(f, n) \in AnyStep
      /\ Skip(f, n, 1) \in AnyStep /\ MapTo(f, n, 1) \in AnyStep
      /\ Write(f, n).field = f /\ Read(f, n).field = f /\ Skip(f, n, 1).field = f /\ MapTo(f, n, 1).field = f
      /\ Write(f, n).size = n /\ Read(f, n).size = n /\ Skip(f, n, 1).size = n /\ MapTo(f, n, 1).size = n
      /\ Write(f, n).op = "write" /\ Read(f, n).op = "read"
      /\ Skip(f, n, 1).op = "skip" /\ MapTo(f, n, 1).op = "map"
      /\ Skip(f, n, 1).align = 1 /\ MapTo(f, n, 1).align = 1
  BY StepTypes
<1>2. /\ StartOf(Write(f, n), o) = o /\ StartOf(Read(f, n), o) = o
      /\ StartOf(Skip(f, n, 1), o) = o /\ StartOf(MapTo(f, n, 1), o) = o
  BY <1>1, Starts
<1>3. Finds(<<Read(f, n)>>, {"read", "map"}, <<Write(f, n)>>, {"write"}, o, S)
  BY <1>1, <1>2, FindsOne
<1>4. Finds(<<MapTo(f, n, 1)>>, {"read", "map"}, <<Write(f, n)>>, {"write"}, o, S)
  BY <1>1, <1>2, FindsOne
<1>5. Finds(<<Read(f, n)>>, {"read"}, <<MapTo(f, n, 1)>>, {"map"}, o, S)
  BY <1>1, <1>2, FindsOne
<1>6. Finds(<<Read(f, n)>>, {"read"}, <<Write(f, n)>>, {"write"}, o, S)
  BY <1>1, <1>2, FindsOne
<1>7. f \notin S => Finds(<<MapTo(f, n, 1)>>, {"read", "map"}, <<Skip(f, n, 1)>>, {"write"}, o, S)
  BY <1>1, <1>2, FindsOne
<1> QED
  BY <1>3, <1>4, <1>5, <1>6, <1>7

StringPayloads ==
  [kind : {"none", "str_null"}] \cup [kind : {"str_in", "str_out"}, size : Nat]

LEMMA StringsConsistent ==
  ASSUME NEW m \in StringPayloads, NEW o \in Nat
  PROVE  /\ Consistent(m, o)
         /\ m.kind = "none" => Total(WriteRequest(m), o) = 0
         /\ m.kind = "str_in" => Total(WriteRequest(m), o) = IntSize + m.size
         /\ m.kind = "str_out" => Total(WriteRequest(m), o) = m.size
<1>1. /\ F("size") \in FieldName /\ F("data") \in FieldName /\ IntSize \in Nat /\ 1 \in {1, 4, 8}
      /\ F("size") # F("chunk") /\ F("size") # F("rect")
  BY FieldNames DEF IntSize, F
<1>2. CASE m.kind = "none"
  <2>1. /\ WriteRequest(m) = <<>> /\ MapRequest(m) = <<>>
        /\ WriteResponse(m) = <<>> /\ ReadResponse(m) = <<>>
    BY <1>2 DEF WriteRequest, MapRequest, WriteResponse, ReadResponse, Payload, Cursors
  <2>2. ResultPlaces(m, o) = {} /\ Total(WriteRequest(m), o) = 0
    BY <2>1, NoPlaces DEF ResultPlaces
  <2> QED
    BY <1>2, <2>1, <2>2, FindsNothing DEF Consistent
<1>3. CASE m.kind = "str_null" \/ m.kind = "str_in"
  <2> DEFINE W == Write(F("size"), IntSize)
             R == Read(F("size"), IntSize)
             U == Outputs(m) \cup {F("chunk"), F("rect")}
             NoRead == Only({"read"}, U, {})
  <2>1. /\ W \in AnyStep /\ R \in AnyStep /\ R.field = F("size") /\ <<W>> \in Seq(AnyStep)
        /\ <<R>> \in Seq(AnyStep)
    BY <1>1, StepTypes
  <2>2. U = {F("chunk"), F("rect")}
    BY <1>3 DEF Outputs
  <2>3. R \in NoRead
    BY <1>1, <2>1, <2>2 DEF Only
  <2>4. \A S : Finds(<<R>>, {"read", "map"}, <<W>>, {"write"}, o, S)
    BY <1>1, FindsField
  <2>5. CASE m.kind = "str_null"
    <3>1. /\ WriteRequest(m) = <<W>> /\ MapRequest(m) = <<R>>
          /\ WriteResponse(m) = <<R>> /\ ReadResponse(m) = <<R>>
      BY <2>5 DEF WriteRequest, MapRequest, WriteResponse, ReadResponse, Payload, Cursors, SizedInArray
    <3>2. <<R>> \in Seq(NoRead)
      <4> HIDE DEF NoRead, R
      <4> QED
        BY <2>3
    <3>3. ResultPlaces(m, o) = {}
      BY <3>1, <3>2, NoResults
    <3> QED
      BY <2>1, <2>4, <2>5, <3>1, <3>3 DEF Consistent
  <2>6. CASE m.kind = "str_in"
    <3> DEFINE n == m.size
               Wd == Write(F("data"), n)
               Md == MapTo(F("data"), n, 1)
               Sd == Skip(F("data"), n, 1)
    <3>1. n \in Nat
      BY <2>6 DEF StringPayloads
    <3>2. /\ WriteRequest(m) = <<W, Wd>> /\ MapRequest(m) = <<R, Md>>
          /\ WriteResponse(m) = <<R, Sd>> /\ ReadResponse(m) = <<R, Sd>>
      BY <2>6 DEF WriteRequest, MapRequest, WriteResponse, ReadResponse, Payload, Cursors, SizedInArray
    <3>3. Wd \in AnyStep /\ Md \in AnyStep /\ Sd \in AnyStep /\ Sd.op = "skip" /\ Wd.size = n
      BY <1>1, <3>1, StepTypes
    <3>4. \A S : Finds(<<R, Md>>, {"read", "map"}, <<W, Wd>>, {"write"}, o, S)
      <4> TAKE S
      <4>1. o + Total(<<W>>, o) \in Nat
        BY <2>1, EndOf
      <4>2. Finds(<<Md>>, {"read", "map"}, <<Wd>>, {"write"}, o + Total(<<W>>, o), S)
        BY <1>1, <3>1, <4>1, FindsField
      <4> DEFINE looks == {"read", "map"}
                 puts == {"write"}
      <4>3. Finds(<<R>>, looks, <<W>>, puts, o, S) /\ Finds(<<Md>>, looks, <<Wd>>, puts, o + Total(<<W>>, o), S)
        BY <2>4, <4>2
      <4> HIDE DEF W, R, Md, Wd, looks, puts
      <4>4. /\ <<R, Md>> = <<R>> \o <<Md>> /\ <<W, Wd>> = <<W>> \o <<Wd>>
            /\ <<R>> \in Seq(AnyStep) /\ <<Md>> \in Seq(AnyStep)
            /\ <<W>> \in Seq(AnyStep) /\ <<Wd>> \in Seq(AnyStep)
        BY <2>1, <3>3, TwoSteps
      <4>5. Finds(<<R>> \o <<Md>>, looks, <<W>> \o <<Wd>>, puts, o, S)
        BY <4>3, <4>4, FindsConcat
      <4> QED
        BY <4>4, <4>5 DEF looks, puts
    <3>5. ResultPlaces(m, o) = {}
      <4>1. Sd \in NoRead
        BY <3>3 DEF Only
      <4>2. <<R, Sd>> \in Seq(NoRead)
        <5> HIDE DEF NoRead, R, Sd
        <5> QED
          BY <2>3, <4>1
      <4> QED
        BY <3>2, <4>2, NoResults
    <3>6. Total(WriteRequest(m), o) = IntSize + n
      <4>1. /\ o + Total(<<W>>, o) = o + IntSize /\ Total(<<W>>, o) \in Nat
        <5>1. StartOf(W, o) = o /\ W.size = IntSize
          <6>1. W.op = "write" /\ W.size = IntSize
            BY <1>1, StepTypes
          <6> HIDE DEF W
          <6> QED
            BY <2>1, <6>1, Starts
        <5> HIDE DEF W
        <5> QED
          BY <2>1, <5>1, OnePlace, EndOf
      <4>2. o + Total(<<W>>, o) \in Nat /\ Total(<<W>>, o) = IntSize
        BY <1>1, <4>1
      <4>3. Total(<<Wd>>, o + IntSize) = n
        <5>1. o + IntSize \in Nat /\ StartOf(Wd, o + IntSize) = o + IntSize
          <6>1. Wd.op = "write"
            BY <1>1, <3>1, StepTypes
          <6>2. o + IntSize \in Nat
            BY <1>1
          <6> HIDE DEF Wd
          <6> QED
            BY <3>3, <6>1, <6>2, Starts
        <5>2. Total(<<Wd>>, o + IntSize) \in Nat
          BY <3>3, <5>1, TwoSteps, EndOf
        <5>3. (o + IntSize) + Total(<<Wd>>, o + IntSize) = (o + IntSize) + n
          BY <3>3, <5>1, OnePlace
        <5> QED
          BY <3>1, <5>1, <5>2, <5>3
      <4>4. Total(<<W, Wd>>, o) = Total(<<W>>, o) + Total(<<Wd>>, o + Total(<<W>>, o))
        <5> HIDE DEF W, Wd
        <5>1. <<W, Wd>> = <<W>> \o <<Wd>> /\ <<W>> \in Seq(AnyStep) /\ <<Wd>> \in Seq(AnyStep)
          BY <2>1, <3>3, TwoSteps
        <5>2. Total(<<W>> \o <<Wd>>, o) = Total(<<W>>, o) + Total(<<Wd>>, o + Total(<<W>>, o))
          BY <5>1, PlacesOfConcat
        <5> QED
          BY <5>1, <5>2
      <4> QED
        BY <3>2, <4>1, <4>2, <4>3, <4>4
    <3> QED
      BY <2>1, <2>6, <3>2, <3>3, <3>4, <3>5, <3>6, TwoSteps DEF Consistent
  <2> QED
    BY <1>3, <2>5, <2>6
<1>4. CASE m.kind = "str_out"
  <2> DEFINE n == m.size
             S == Skip(F("data"), n, 1)
             M == MapTo(F("data"), n, 1)
             R == Read(F("data"), n)
             U == Outputs(m) \cup {F("chunk"), F("rect")}
             OnlyData == Only({"read"}, U, Outputs(m))
  <2>1. n \in Nat
    BY <1>4 DEF StringPayloads
  <2>2. /\ S \in AnyStep /\ M \in AnyStep /\ R \in AnyStep /\ S.op = "skip" /\ R.field = F("data")
        /\ S.size = n /\ S.align = 1
    BY <1>1, <2>1, StepTypes
  <2>3. <<S>> \in Seq(AnyStep) /\ <<M>> \in Seq(AnyStep) /\ <<R>> \in Seq(AnyStep)
    BY <2>2, TwoSteps
  <2>4. /\ WriteRequest(m) = <<S>> /\ MapRequest(m) = <<M>>
        /\ WriteResponse(m) = <<S>> /\ ReadResponse(m) = <<R>>
    BY <1>4 DEF WriteRequest, MapRequest, WriteResponse, ReadResponse, Payload, Cursors, ShmArray
  <2>5. Outputs(m) = {F("data")}
    BY <1>4 DEF Outputs
  <2>6. Fields(<<S>>, {"write"}) = {}
    <3>1. S \in Only({"write"}, FieldName, {})
      BY <2>2 DEF Only
    <3>2. <<S>> \in Seq(Only({"write"}, FieldName, {}))
      <4> HIDE DEF S
      <4> QED
        BY <3>1
    <3> QED
      BY <3>2, NoFieldWritten
  <2>7. Finds(<<M>>, {"read", "map"}, <<S>>, {"write"}, o, {})
    BY <1>1, <2>1, FindsField
  <2>8. ResultPlaces(m, o) \subseteq OutputPlaces(m, o)
    <3>1. R \in OnlyData
      BY <2>2, <2>5 DEF Only
    <3>2. <<R>> \in Seq(OnlyData)
      <4> HIDE DEF R, OnlyData
      <4> QED
        BY <3>1
    <3>3. ResultPlaces(m, o) \subseteq PlacesOf(<<R>>, o, {"read"}, Outputs(m))
      BY <2>4, <2>5, <3>2, ResultsWithin
    <3>4. Finds(<<R>>, {"read"}, <<M>>, {"map"}, o, Outputs(m))
      BY <1>1, <2>1, FindsField
    <3> QED
      BY <2>4, <3>3, <3>4 DEF OutputPlaces, Finds
  <2>9. AnswerPlaces(m, o) = {}
    BY <2>4, <2>6, NoFields DEF AnswerPlaces
  <2>10. Total(WriteRequest(m), o) = n
    <3>1. StartOf(S, o) = o
      BY <2>2, Starts
    <3>2. o + Total(<<S>>, o) = o + n /\ Total(<<S>>, o) \in Nat
      BY <2>2, <2>3, <3>1, OnePlace, EndOf
    <3> QED
      BY <2>1, <2>4, <3>2
  <2> QED
    BY <1>4, <2>3, <2>4, <2>6, <2>7, <2>8, <2>9, <2>10 DEF Consistent, Apart
<1> QED
  BY <1>2, <1>3, <1>4 DEF StringPayloads

------------------------------------------------------------------------------
(* Structures and pointers, where they are aligned *)

Alignments == {1, 4, 8}

LEMMA AlignedStep ==
  ASSUME NEW f \in FieldName, NEW n \in Nat, NEW a \in Alignments, NEW o \in Aligned, NEW S
  PROVE  /\ Finds(<<MapTo(f, n, a)>>, {"read", "map"}, <<Write(f, n)>>, {"write"}, o, S)
         /\ Finds(<<Read(f, n)>>, {"read"}, <<MapTo(f, n, a)>>, {"map"}, o, S)
         /\ Finds(<<Read(f, n)>>, {"read"}, <<Write(f, n)>>, {"write"}, o, S)
         /\ Finds(<<MapTo(f, n, a)>>, {"map"}, <<Write(f, n)>>, {"write"}, o, S)
         /\ Finds(<<Write(f, n)>>, {"write"}, <<MapTo(f, n, a)>>, {"map"}, o, S)
         /\ f \notin S => Finds(<<MapTo(f, n, a)>>, {"read", "map"}, <<Skip(f, n, a)>>, {"write"}, o, S)
         /\ Total(<<Write(f, n)>>, o) = n
         /\ Total(<<Skip(f, n, a)>>, o) = n
<1> DEFINE W == Write(f, n)
           M == MapTo(f, n, a)
           R == Read(f, n)
           K == Skip(f, n, a)
<1>1. /\ W \in AnyStep /\ M \in AnyStep /\ R \in AnyStep /\ K \in AnyStep
      /\ W.op = "write" /\ M.op = "map" /\ R.op = "read" /\ K.op = "skip"
      /\ W.field = f /\ M.field = f /\ R.field = f /\ K.field = f
      /\ W.size = n /\ M.size = n /\ R.size = n /\ K.size = n
  BY StepTypes DEF Alignments
<1> HIDE DEF W, M, R, K
<1>2. /\ o \in Nat
      /\ StartOf(W, o) = o /\ StartOf(M, o) = o /\ StartOf(R, o) = o /\ StartOf(K, o) = o
  BY <1>1, Starts DEF Aligned
<1>3. Finds(<<M>>, {"read", "map"}, <<W>>, {"write"}, o, S)
  BY <1>1, <1>2, FindsOne
<1>4. Finds(<<R>>, {"read"}, <<M>>, {"map"}, o, S)
  BY <1>1, <1>2, FindsOne
<1>5. Finds(<<R>>, {"read"}, <<W>>, {"write"}, o, S)
  BY <1>1, <1>2, FindsOne
<1>6. Finds(<<M>>, {"map"}, <<W>>, {"write"}, o, S) /\ Finds(<<W>>, {"write"}, <<M>>, {"map"}, o, S)
  BY <1>1, <1>2, FindsOne
<1>7. f \notin S => Finds(<<M>>, {"read", "map"}, <<K>>, {"write"}, o, S)
  BY <1>1, <1>2, FindsOne
<1>8. Total(<<W>>, o) = n /\ Total(<<K>>, o) = n
  <2>1. o + Total(<<W>>, o) = o + n /\ o + Total(<<K>>, o) = o + n
    BY <1>1, <1>2, OnePlace
  <2>2. Total(<<W>>, o) \in Nat /\ Total(<<K>>, o) \in Nat
    BY <1>1, <1>2, TwoSteps, EndOf
  <2>3. \A x \in Nat : o + x = o + n => x = n
    BY <1>2
  <2> QED
    BY <2>1, <2>2, <2>3
<1> QED
  BY <1>3, <1>4, <1>5, <1>6, <1>7, <1>8 DEF W, M, R, K

LEMMA StructuresConsistent ==
  ASSUME NEW m, m.kind = "inout", NEW n \in Nat, m.size = n, m.align \in Alignments, NEW o \in Aligned
  PROVE  Consistent(m, o) /\ Total(WriteRequest(m), o) = n
<1> DEFINE d == F("data")
           W == Write(d, n)
           M == MapTo(d, n, m.align)
           A == Skip(d, n, m.align)
           R == Read(d, n)
<1>1. /\ WriteRequest(m) = <<W>> /\ MapRequest(m) = <<M>>
      /\ WriteResponse(m) = <<A>> /\ ReadResponse(m) = <<R>>
  BY DEF WriteRequest, MapRequest, WriteResponse, ReadResponse, Payload, Cursors, ShmArray
<1>2. Outputs(m) = {d}
  BY DEF Outputs
<1>3. d \in FieldName
  BY FieldNames
<1>4. /\ A \in AnyStep /\ A.op = "skip" /\ R \in AnyStep /\ R.field = d
      /\ W \in AnyStep /\ M \in AnyStep
      /\ <<A>> \in Seq(AnyStep) /\ <<M>> \in Seq(AnyStep)
      /\ <<W>> \in Seq(AnyStep) /\ <<R>> \in Seq(AnyStep)
  BY <1>3, StepTypes DEF Alignments
<1>5. \A S : /\ Finds(<<M>>, {"read", "map"}, <<W>>, {"write"}, o, S)
             /\ Finds(<<R>>, {"read"}, <<M>>, {"map"}, o, S)
             /\ Total(<<W>>, o) = n
  BY <1>3, AlignedStep
<1>6. AnswerPlaces(m, o) = {}
  <2>1. A \in Only({"write"}, FieldName, {})
    BY <1>4 DEF Only
  <2>2. <<A>> \in Seq(Only({"write"}, FieldName, {}))
    <3> HIDE DEF A
    <3> QED
      BY <2>1
  <2> QED
    BY <1>1, <2>2, NoAnswers
<1>7. ResultPlaces(m, o) \subseteq OutputPlaces(m, o)
  <2> DEFINE Within == Only({"read"}, Outputs(m) \cup {F("chunk"), F("rect")}, Outputs(m))
  <2>1. R \in Within
    BY <1>2, <1>4 DEF Only
  <2>2. <<R>> \in Seq(Within)
    <3> HIDE DEF R, Within
    <3> QED
      BY <2>1
  <2>3. ResultPlaces(m, o) \subseteq PlacesOf(<<R>>, o, {"read"}, Outputs(m))
    BY <1>1, <2>2, ResultsWithin
  <2> QED
    BY <1>1, <1>5, <2>3 DEF OutputPlaces, Finds
<1> HIDE DEF W, M, A, R
<1> QED
  BY <1>1, <1>4, <1>5, <1>6, <1>7 DEF Consistent, Apart

LEMMA AlignedTotal ==
  ASSUME NEW f \in FieldName, NEW n \in Nat, NEW a \in Alignments, NEW o \in Aligned
  PROVE  /\ Total(<<Write(f, n)>>, o) = n /\ Total(<<Read(f, n)>>, o) = n
         /\ Total(<<Skip(f, n, a)>>, o) = n /\ Total(<<MapTo(f, n, a)>>, o) = n
<1>1. \A S : /\ Total(<<Write(f, n)>>, o) = n /\ Total(<<Skip(f, n, a)>>, o) = n
             /\ Finds(<<Read(f, n)>>, {"read"}, <<Write(f, n)>>, {"write"}, o, S)
             /\ Finds(<<MapTo(f, n, a)>>, {"map"}, <<Write(f, n)>>, {"write"}, o, S)
  BY AlignedStep
<1> QED
  BY <1>1 DEF Finds

\* A pointer is mapped where it was written.
LEMMA PointersMapped ==
  ASSUME NEW m, m.kind \in {"chunk", "rect"}, NEW o \in Aligned
  PROVE  /\ WriteRequest(m) = <<Write(F("ptr"), PtrSize)>>
         /\ MapRequest(m) = <<MapTo(F("ptr"), PtrSize, PtrSize)>>
         /\ WriteRequest(m) \in Seq(AnyStep) /\ MapRequest(m) \in Seq(AnyStep)
         /\ \A S : Finds(MapRequest(m), {"read", "map"}, WriteRequest(m), {"write"}, o, S)
         /\ Outputs(m) = {F("ptr")} /\ Total(WriteRequest(m), o) = PtrSize
         /\ OutputPlaces(m, o) = RequestPlaces(m, o)
<1> DEFINE p == F("ptr")
           W == Write(p, PtrSize)
           M == MapTo(p, PtrSize, PtrSize)
<1>1. WriteRequest(m) = <<W>> /\ MapRequest(m) = <<M>>
  BY DEF WriteRequest, MapRequest, Payload, Cursors, ChunkOut, RectOut
<1>2. p \in FieldName /\ PtrSize \in Alignments /\ PtrSize \in Nat
  BY FieldNames DEF Alignments, PtrSize
<1>3. /\ W \in AnyStep /\ W.op = "write" /\ W.field = p /\ M \in AnyStep
      /\ <<M>> \in Seq(AnyStep) /\ <<W>> \in Seq(AnyStep)
  BY <1>2, StepTypes DEF Alignments
<1>4. Outputs(m) = {p}
  BY DEF Outputs
<1>5. \A S : /\ Finds(<<M>>, {"read", "map"}, <<W>>, {"write"}, o, S)
             /\ Finds(<<M>>, {"map"}, <<W>>, {"write"}, o, S)
             /\ Finds(<<W>>, {"write"}, <<M>>, {"map"}, o, S)
             /\ Total(<<W>>, o) = PtrSize
  BY <1>2, AlignedStep
<1>6. OutputPlaces(m, o) = RequestPlaces(m, o)
  <2>1. Fields(<<W>>, {"write"}) = {p}
    <3>1. DOMAIN <<W>> = {1} /\ <<W>>[1] = W
      OBVIOUS
    <3> HIDE DEF W
    <3> QED
      BY <1>3, <3>1 DEF Fields
  <2>2. /\ OutputPlaces(m, o) = PlacesOf(<<M>>, o, {"map"}, {p})
        /\ RequestPlaces(m, o) = PlacesOf(<<W>>, o, {"write"}, {p})
    BY <1>1, <1>4, <2>1 DEF OutputPlaces, RequestPlaces
  <2>3. /\ Finds(<<M>>, {"map"}, <<W>>, {"write"}, o, {p})
        /\ Finds(<<W>>, {"write"}, <<M>>, {"map"}, o, {p})
    BY <1>5
  <2>4. PlacesOf(<<M>>, o, {"map"}, {p}) \subseteq PlacesOf(<<W>>, o, {"write"}, {p})
    BY <2>3 DEF Finds
  <2>5. PlacesOf(<<W>>, o, {"write"}, {p}) \subseteq PlacesOf(<<M>>, o, {"map"}, {p})
    BY <2>3 DEF Finds
  <2> DEFINE looked == PlacesOf(<<M>>, o, {"map"}, {p})
             put == PlacesOf(<<W>>, o, {"write"}, {p})
  <2>6. /\ looked = put
        /\ OutputPlaces(m, o) = looked /\ RequestPlaces(m, o) = put
    <3>1. looked \subseteq put /\ put \subseteq looked
      BY <2>4, <2>5
    <3>2. OutputPlaces(m, o) = looked /\ RequestPlaces(m, o) = put
      BY <2>2
    <3> HIDE DEF looked, put
    <3> QED
      BY <3>1, <3>2
  <2> HIDE DEF looked, put
  <2> QED
    BY <2>6
<1> QED
  BY <1>1, <1>3, <1>4, <1>5, <1>6

LEMMA ChunksConsistent ==
  ASSUME NEW m, m.kind = "chunk", m.size \in Nat, NEW o \in Aligned
  PROVE  Consistent(m, o)
<1> DEFINE n == m.size
           d == F("chunk")
           A == Write(d, n)
           R == Read(d, n)
<1>1. WriteResponse(m) = <<A>> /\ ReadResponse(m) = <<R>>
  BY DEF WriteResponse, ReadResponse, Payload, Cursors, ChunkOut
<1>2. d \in FieldName /\ 1 \in Alignments
  BY FieldNames DEF Alignments
<1>3. /\ R \in AnyStep /\ R.field = d /\ A \in AnyStep /\ A.op = "write" /\ A.field = d
      /\ <<A>> \in Seq(AnyStep) /\ <<R>> \in Seq(AnyStep)
  BY <1>2, StepTypes DEF Alignments
<1>5. \A S : Finds(<<R>>, {"read"}, <<A>>, {"write"}, o, S)
  BY <1>2, AlignedStep
<1>6. ResultPlaces(m, o) \subseteq AnswerPlaces(m, o)
  <2> DEFINE U == Fields(<<A>>, {"write"})
             Within == Only({"read"}, Outputs(m) \cup {F("chunk"), F("rect")}, U)
  <2>1. d \in U
    <3>1. 1 \in DOMAIN <<A>> /\ <<A>>[1] = A
      OBVIOUS
    <3> HIDE DEF A
    <3> QED
      BY <1>3, <3>1 DEF Fields
  <2>2. R \in Within
    <3> HIDE DEF U, R
    <3> QED
      BY <1>3, <2>1 DEF Only
  <2>3. <<R>> \in Seq(Within)
    <3> HIDE DEF R, Within
    <3> QED
      BY <2>2
  <2>4. ResultPlaces(m, o) \subseteq PlacesOf(<<R>>, o, {"read"}, U)
    <3> HIDE DEF U
    <3> QED
      BY <1>1, <2>3, ResultsWithin
  <2> QED
    BY <1>1, <1>5, <2>4 DEF AnswerPlaces, Finds
<1> HIDE DEF A, R
<1>7. m.kind \in {"chunk", "rect"}
  OBVIOUS
<1> QED
  BY <1>1, <1>3, <1>6, <1>7, PointersMapped DEF Consistent

LEMMA StepThenPlaces ==
  ASSUME NEW c \in AnyStep, NEW b \in Seq(AnyStep), NEW o \in Nat, NEW x, x = o + Total(<<c>>, o),
         NEW ops, NEW fields
  PROVE  /\ <<c>> \o b \in Seq(AnyStep)
         /\ PlacesOf(<<c>> \o b, o, ops, fields)
              = PlacesOf(<<c>>, o, ops, fields) \cup PlacesOf(b, x, ops, fields)
<1> DEFINE a == <<c>>
<1>1. a \in Seq(AnyStep)
  OBVIOUS
<1> HIDE DEF a
<1>2. /\ a \o b \in Seq(AnyStep)
      /\ PlacesOf(a \o b, o, ops, fields)
           = PlacesOf(a, o, ops, fields) \cup PlacesOf(b, o + Total(a, o), ops, fields)
  BY <1>1, PlacesOfConcat
<1> QED
  BY <1>2 DEF a

LEMMA RectsConsistent ==
  ASSUME NEW m, m.kind = "rect", m.present \in BOOLEAN, NEW o \in Aligned
  PROVE  Consistent(m, o)
<1> DEFINE p == F("ptr")
           r == F("rect")
           M == MapTo(p, PtrSize, PtrSize)
           K == Skip(p, PtrSize, PtrSize)
           R == Read(p, PtrSize)
           A2 == Write(r, RectSize)
           R2 == Read(r, RectSize)
           more == IF m.present THEN <<A2>> ELSE <<>>
           rest == IF m.present THEN <<R2>> ELSE <<>>
           S == Outputs(m) \cup {F("chunk"), F("rect")}
           U == Fields(WriteResponse(m), {"write"})
           x == o + PtrSize
<1>1. WriteResponse(m) = <<K>> \o more /\ ReadResponse(m) = <<R>> \o rest
  BY DEF WriteResponse, ReadResponse, Payload, Cursors, RectOut
<1>2. /\ p \in FieldName /\ r \in FieldName /\ 1 \in {1, 4, 8} /\ PtrSize \in {1, 4, 8}
      /\ PtrSize \in Alignments /\ PtrSize \in Nat /\ RectSize \in Nat
  BY FieldNames DEF Alignments, PtrSize, RectSize
<1>3. /\ MapRequest(m) = <<M>> /\ Outputs(m) = {p}
      /\ MapRequest(m) \in Seq(AnyStep) /\ WriteRequest(m) \in Seq(AnyStep)
      /\ \A T : Finds(MapRequest(m), {"read", "map"}, WriteRequest(m), {"write"}, o, T)
  <2>1. m.kind \in {"chunk", "rect"}
    OBVIOUS
  <2> QED
    BY <2>1, PointersMapped
<1>4. /\ M \in AnyStep /\ M.op = "map" /\ M.field = p /\ M.size = PtrSize
      /\ K \in AnyStep /\ K.op = "skip"
      /\ R \in AnyStep /\ R.op = "read" /\ R.field = p /\ R.size = PtrSize
      /\ A2 \in AnyStep /\ A2.op = "write" /\ A2.field = r /\ A2.size = RectSize
      /\ R2 \in AnyStep /\ R2.op = "read" /\ R2.field = r /\ R2.size = RectSize
  BY <1>2, StepTypes
<1>5. /\ o \in Nat /\ x \in Nat
      /\ StartOf(M, o) = o /\ StartOf(R, o) = o
      /\ StartOf(A2, x) = x /\ StartOf(R2, x) = x
  <2>1. o \in Nat /\ x \in Nat /\ o % 8 = 0
    BY <1>2 DEF Aligned
  <2> HIDE DEF M, K, R, A2, R2, x
  <2>2. StartOf(M, o) = o
    BY <1>4, <2>1, Starts
  <2>3. StartOf(R, o) = o
    BY <1>4, <2>1, Starts
  <2>4. StartOf(A2, x) = x
    BY <1>4, <2>1, Starts
  <2>5. StartOf(R2, x) = x
    BY <1>4, <2>1, Starts
  <2> QED
    BY <2>1, <2>2, <2>3, <2>4, <2>5
<1>6. /\ Total(<<K>>, o) = PtrSize /\ Total(<<R>>, o) = PtrSize
  <2> HIDE DEF p
  <2>1. p \in FieldName /\ PtrSize \in Nat /\ PtrSize \in Alignments /\ o \in Aligned
    BY <1>2
  <2>2. Total(<<Skip(p, PtrSize, PtrSize)>>, o) = PtrSize
    BY <2>1, AlignedTotal
  <2>3. Total(<<Read(p, PtrSize)>>, o) = PtrSize
    BY <2>1, AlignedTotal
  <2> QED
    BY <2>2, <2>3
<1>14. x = o + Total(<<K>>, o) /\ x = o + Total(<<R>>, o)
  BY <1>6
<1>7. <<K>> \in Seq(AnyStep) /\ <<R>> \in Seq(AnyStep) /\ more \in Seq(AnyStep) /\ rest \in Seq(AnyStep)
  <2> HIDE DEF K, R, A2, R2
  <2> QED
    BY <1>4
<1>8. /\ WriteResponse(m) \in Seq(AnyStep) /\ ReadResponse(m) \in Seq(AnyStep)
      /\ AnswerPlaces(m, o) = PlacesOf(<<K>>, o, {"write"}, U) \cup PlacesOf(more, x, {"write"}, U)
      /\ ResultPlaces(m, o) = PlacesOf(<<R>>, o, {"read"}, S) \cup PlacesOf(rest, x, {"read"}, S)
  <2> DEFINE puts == {"write"}
             looks == {"read"}
  <2>1. AnswerPlaces(m, o) = PlacesOf(<<K>> \o more, o, puts, U)
    BY <1>1 DEF AnswerPlaces
  <2>2. ResultPlaces(m, o) = PlacesOf(<<R>> \o rest, o, looks, S)
    BY <1>1 DEF ResultPlaces
  <2> HIDE DEF puts, looks, U, S, more, rest, K, R, x
  <2>3. /\ <<K>> \o more \in Seq(AnyStep)
        /\ PlacesOf(<<K>> \o more, o, puts, U) = PlacesOf(<<K>>, o, puts, U) \cup PlacesOf(more, x, puts, U)
    <3>1. K \in AnyStep /\ more \in Seq(AnyStep) /\ o \in Nat /\ x = o + Total(<<K>>, o)
      BY <1>4, <1>5, <1>7, <1>14
    <3> QED
      BY <3>1, StepThenPlaces
  <2>4. /\ <<R>> \o rest \in Seq(AnyStep)
        /\ PlacesOf(<<R>> \o rest, o, looks, S) = PlacesOf(<<R>>, o, looks, S) \cup PlacesOf(rest, x, looks, S)
    <3>1. R \in AnyStep /\ rest \in Seq(AnyStep) /\ o \in Nat /\ x = o + Total(<<R>>, o)
      BY <1>4, <1>5, <1>7, <1>14
    <3> QED
      BY <3>1, StepThenPlaces
  <2> QED
    BY <1>1, <2>1, <2>2, <2>3, <2>4 DEF puts, looks
<1>9. PlacesOf(<<K>>, o, {"write"}, U) = {}
  <2> HIDE DEF K, U
  <2> QED
    BY <1>4, <1>5, OnePlace
<1>10. PlacesOf(<<R>>, o, {"read"}, S) \subseteq OutputPlaces(m, o)
  <2>1. PlacesOf(<<M>>, o, {"map"}, Outputs(m)) = {PlaceOf(M, o)}
    <3> HIDE DEF M
    <3>1. PlacesOf(<<M>>, o, {"map"}, Outputs(m))
            = IF M.op \in {"map"} /\ M.field \in Outputs(m) /\ M.size > 0 THEN {PlaceOf(M, o)} ELSE {}
      BY <1>4, <1>5, OnePlace
    <3>2. M.op \in {"map"} /\ M.field \in Outputs(m) /\ M.size > 0
      BY <1>3, <1>4 DEF PtrSize
    <3> QED
      BY <3>1, <3>2
  <2>2. PlacesOf(<<R>>, o, {"read"}, S) \subseteq {PlaceOf(R, o)}
    <3> HIDE DEF R, S
    <3> QED
      BY <1>4, <1>5, OnePlace
  <2>3. PlaceOf(R, o) = PlaceOf(M, o)
    <3> HIDE DEF R, M
    <3> QED
      BY <1>4, <1>5 DEF PlaceOf
  <2> QED
    BY <1>3, <2>1, <2>2, <2>3 DEF OutputPlaces
<1>11. \A q \in AnswerPlaces(m, o) : x <= q.lo
  <2> HIDE DEF more, x, U
  <2>1. Inside(PlacesOf(more, x, {"write"}, U), x, x + Total(more, x))
    BY <1>5, <1>7, PlacesInside
  <2> QED
    BY <1>8, <1>9, <2>1 DEF Inside
<1>12. \A q \in PlacesOf(<<R>>, o, {"read"}, S) : Apart({q}, AnswerPlaces(m, o))
  <2> HIDE DEF R, S
  <2>1. Inside(PlacesOf(<<R>>, o, {"read"}, S), o, o + Total(<<R>>, o))
    BY <1>5, <1>7, PlacesInside
  <2>2. \A q \in PlacesOf(<<R>>, o, {"read"}, S) : q.hi <= x
    BY <1>6, <2>1 DEF Inside
  <2>5. PlacesOf(<<R>>, o, {"read"}, S) \subseteq [lo : Nat, hi : Nat]
    BY <1>5, <1>7, PlacesInside
  <2>3. \A q \in PlacesOf(<<R>>, o, {"read"}, S) : q.hi \in Nat
    BY <2>5
  <2>4. AnswerPlaces(m, o) \subseteq [lo : Nat, hi : Nat]
    <3> HIDE DEF more, x, U
    <3> QED
      BY <1>5, <1>7, <1>8, <1>9, PlacesInside
  <2> HIDE DEF x
  <2> QED
    BY <1>5, <1>11, <2>2, <2>3, <2>4 DEF Apart, Overlap
<1>13. PlacesOf(rest, x, {"read"}, S) \subseteq AnswerPlaces(m, o)
  <2>1. CASE m.present
    <3>1. rest = <<R2>> /\ more = <<A2>>
      BY <2>1
    <3>2. r \in U
      <4> DEFINE ab == <<K, A2>>
      <4>1. WriteResponse(m) = ab
        <5> HIDE DEF K, A2
        <5> QED
          BY <1>1, <1>4, <3>1, TwoSteps
      <4>2. DOMAIN ab = 1 .. 2 /\ ab[2] = A2 /\ 2 \in 1 .. 2
        OBVIOUS
      <4> HIDE DEF ab, A2
      <4> QED
        BY <1>4, <4>1, <4>2 DEF Fields
    <3>3. PlacesOf(<<A2>>, x, {"write"}, U) = {PlaceOf(A2, x)}
      <4> HIDE DEF A2, U, x
      <4>1. PlacesOf(<<A2>>, x, {"write"}, U)
              = IF A2.op \in {"write"} /\ A2.field \in U /\ A2.size > 0 THEN {PlaceOf(A2, x)} ELSE {}
        BY <1>4, <1>5, OnePlace
      <4> QED
        BY <1>4, <3>2, <4>1 DEF RectSize
    <3>4. PlacesOf(<<R2>>, x, {"read"}, S) \subseteq {PlaceOf(R2, x)}
      <4> HIDE DEF R2, S, x
      <4> QED
        BY <1>4, <1>5, OnePlace
    <3>5. PlaceOf(R2, x) = PlaceOf(A2, x)
      <4> HIDE DEF R2, A2, x
      <4> QED
        BY <1>4, <1>5 DEF PlaceOf
    <3> QED
      BY <1>8, <3>1, <3>3, <3>4, <3>5
  <2>2. CASE ~m.present
    <3>1. rest = <<>>
      BY <2>2
    <3> QED
      BY <1>5, <3>1, NoPlaces
  <2> QED
    BY <2>1, <2>2
<1> HIDE DEF S, U, x, R, rest
<1> QED
  BY <1>3, <1>8, <1>10, <1>12, <1>13 DEF Consistent

------------------------------------------------------------------------------
(* A header, then one block for each event or channel *)

LEMMA AlignedPair ==
  ASSUME NEW c \in AnyStep, NEW d \in AnyStep, NEW o \in Aligned, NEW mops, NEW wops, NEW S,
         c.size = d.size, c.field = d.field,
         c.op \in mops /\ c.field \in S => d.op \in wops
  PROVE  /\ <<c>> \in Seq(AnyStep) /\ <<d>> \in Seq(AnyStep)
         /\ Finds(<<c>>, mops, <<d>>, wops, o, S)
         /\ Total(<<d>>, o) = d.size
<1>1. o \in Nat /\ o % 8 = 0 /\ StartOf(c, o) = o /\ StartOf(d, o) = o
  BY Starts DEF Aligned
<1>2. /\ <<c>> \in Seq(AnyStep) /\ <<d>> \in Seq(AnyStep)
      /\ Finds(<<c>>, mops, <<d>>, wops, o, S)
  BY <1>1, FindsOne
<1>3. Total(<<d>>, o) \in Nat /\ o + Total(<<d>>, o) = o + d.size /\ d.size \in Nat
  BY <1>1, <1>2, OnePlace, EndOf DEF AnyStep
<1>4. \A x, y \in Nat : o + x = o + y => x = y
  BY <1>1
<1> QED
  BY <1>2, <1>3, <1>4

LEMMA HeadAndBlocks ==
  ASSUME NEW h \in Seq(AnyStep), NEW k \in Seq(AnyStep), NEW n \in Nat, NEW ms, NEW ws,
         NEW mops, NEW wops, NEW S, NEW o \in Aligned,
         ms = [i \in 1 .. n |-> ms[i]], ws = [i \in 1 .. n |-> ws[i]],
         Finds(h, mops, k, wops, o, S), Total(k, o) \in Aligned,
         BlocksFind(ms, mops, ws, wops, S, n)
  PROVE  /\ h \o FlattenSeq(ms) \in Seq(AnyStep) /\ k \o FlattenSeq(ws) \in Seq(AnyStep)
         /\ Finds(h \o FlattenSeq(ms), mops, k \o FlattenSeq(ws), wops, o, S)
         /\ Total(k \o FlattenSeq(ws), o) \in Aligned
<1> DEFINE x == o + Total(k, o)
<1>1. x \in Aligned /\ o \in Nat
  BY AlignedSum DEF Aligned
<1>2. /\ FlattenSeq(ms) \in Seq(AnyStep) /\ FlattenSeq(ws) \in Seq(AnyStep)
      /\ Finds(FlattenSeq(ms), mops, FlattenSeq(ws), wops, x, S)
      /\ Total(FlattenSeq(ws), x) \in Aligned
  <2> HIDE DEF x
  <2> QED
    BY <1>1, FlattenedFind
<1>3. /\ h \o FlattenSeq(ms) \in Seq(AnyStep) /\ k \o FlattenSeq(ws) \in Seq(AnyStep)
      /\ Finds(h \o FlattenSeq(ms), mops, k \o FlattenSeq(ws), wops, o, S)
  BY <1>1, <1>2, FindsConcat
<1>4. Total(k \o FlattenSeq(ws), o) = Total(k, o) + Total(FlattenSeq(ws), x)
  BY <1>1, <1>2, PlacesOfConcat
<1> QED
  BY <1>2, <1>3, <1>4, AlignedSum

\* What every block has, all of them have.
LEMMA FlattenedIn ==
  ASSUME NEW n \in Nat, NEW ms, NEW T, ms = [i \in 1 .. n |-> ms[i]],
         \A i \in 1 .. n : ms[i] \in Seq(T)
  PROVE  FlattenSeq(ms) \in Seq(T)
<1>1. Len(ms) = n
  OBVIOUS
<1>2. CASE n = 0
  <2>1. ms = <<>>
    BY <1>2
  <2>2. FlattenSeq(ms) = <<>>
    BY <1>1, <1>2, <2>1, FlattenedNone
  <2> QED
    BY <2>2
<1>3. CASE n # 0
  <2>1. PICK f : Joins(f, ms, n) /\ FlattenSeq(ms) = f[n]
    BY <1>1, <1>3, Flattened
  <2> DEFINE Bad == {i \in Nat : i >= 1 /\ i <= n /\ ~(f[i] \in Seq(T))}
  <2>2. CASE Bad # {}
    <3>1. PICK i \in Bad : \A k \in Bad : i <= k
      BY <2>2, LeastNat
    <3>2. i \in 1 .. n
      BY <3>1
    <3>3. CASE i = 1
      BY <2>1, <3>1, <3>2, <3>3 DEF Joins
    <3>4. CASE i # 1
      <4>1. i \in 2 .. n /\ i - 1 \in Nat /\ i - 1 >= 1 /\ i - 1 <= n /\ i - 1 < i
        BY <3>2, <3>4
      <4>2. f[i-1] \in Seq(T)
        BY <3>1, <4>1
      <4>3. f[i] = f[i-1] \o ms[i]
        BY <2>1, <4>1 DEF Joins
      <4>4. f[i-1] \o ms[i] \in Seq(T)
        BY <3>2, <4>2, ConcatProperties
      <4> QED
        BY <3>1, <4>3, <4>4
    <3> QED
      BY <3>3, <3>4
  <2>3. CASE Bad = {}
    BY <1>3, <2>1, <2>3
  <2> QED
    BY <2>2, <2>3
<1> QED
  BY <1>2, <1>3

\* From any aligned offset each of the n blocks takes z bytes.
BlocksMeasure(ms, z, n) ==
  \A i \in 1 .. n : ms[i] \in Seq(AnyStep) /\ \A x \in Aligned : Total(ms[i], x) = z

LEMMA OneMore ==
  ASSUME NEW i \in Nat, i >= 1, NEW z \in Nat
  PROVE  (i - 1) * z + z = i * z /\ 1 * z = z /\ 0 * z = 0
OBVIOUS

LEMMA FlattenedTotal ==
  ASSUME NEW n \in Nat, NEW z \in Aligned, NEW ms, NEW o \in Aligned,
         ms = [i \in 1 .. n |-> ms[i]], BlocksMeasure(ms, z, n)
  PROVE  Total(FlattenSeq(ms), o) = n * z /\ n * z \in Aligned
<1>1. Len(ms) = n
  OBVIOUS
<1>2. o \in Nat /\ z \in Nat /\ 0 \in Aligned
  BY DEF Aligned
<1>3. CASE n = 0
  <2>1. ms = <<>>
    BY <1>3
  <2>2. FlattenSeq(ms) = <<>>
    BY <1>1, <1>3, <2>1, FlattenedNone
  <2>3. Total(<<>>, o) = 0
    BY <1>2, NoPlaces
  <2> QED
    BY <1>2, <1>3, <2>2, <2>3
<1>4. CASE n # 0
  <2>1. PICK f : Joins(f, ms, n) /\ FlattenSeq(ms) = f[n]
    BY <1>1, <1>4, Flattened
  <2> DEFINE Good(i) == f[i] \in Seq(AnyStep) /\ Total(f[i], o) = i * z /\ i * z \in Aligned
             T == {i \in Nat : i >= 1 /\ i <= n /\ ~Good(i)}
  <2>2. CASE T # {}
    <3>1. PICK i \in T : \A k \in T : i <= k
      BY <2>2, LeastNat
    <3>2. i \in 1 .. n
      BY <3>1
    <3>3. CASE i = 1
      <4>1. f[1] = ms[1] /\ ms[1] \in Seq(AnyStep) /\ Total(ms[1], o) = z
        BY <2>1, <3>2, <3>3 DEF Joins, BlocksMeasure
      <4>2. 1 * z = z
        BY <1>2
      <4>3. Good(1)
        BY <4>1, <4>2
      <4> HIDE DEF Good
      <4> QED
        BY <3>1, <3>3, <4>3
    <3>4. CASE i # 1
      <4>1. i \in Nat /\ i >= 1 /\ i \in 2 .. n /\ i - 1 \in Nat /\ i - 1 >= 1 /\ i - 1 <= n /\ i - 1 < i
        BY <3>2, <3>4
      <4>2. Good(i - 1)
        <5> HIDE DEF Good
        <5> QED
          BY <3>1, <4>1
      <4> DEFINE y == (i - 1) * z
      <4>3. f[i-1] \in Seq(AnyStep) /\ Total(f[i-1], o) = y /\ y \in Aligned
        BY <4>2
      <4>4. y + z = i * z
        BY <1>2, <4>1, OneMore
      <4> HIDE DEF y
      <4>5. o + y \in Aligned /\ y + z \in Aligned
        BY <4>3, AlignedSum
      <4>6. ms[i] \in Seq(AnyStep) /\ Total(ms[i], o + y) = z
        BY <3>2, <4>5 DEF BlocksMeasure
      <4>7. f[i] = f[i-1] \o ms[i]
        BY <2>1, <4>1 DEF Joins
      <4>8. /\ f[i-1] \o ms[i] \in Seq(AnyStep)
            /\ Total(f[i-1] \o ms[i], o) = Total(f[i-1], o) + Total(ms[i], o + Total(f[i-1], o))
        BY <1>2, <4>3, <4>6, PlacesOfConcat
      <4>9. Good(i)
        BY <4>3, <4>4, <4>5, <4>6, <4>7, <4>8
      <4> HIDE DEF Good
      <4> QED
        BY <3>1, <4>9
    <3> QED
      BY <3>3, <3>4
  <2>3. CASE T = {}
    <3>1. Good(n)
      <4> HIDE DEF Good
      <4> QED
        BY <1>4, <2>3
    <3> QED
      BY <2>1, <3>1
  <2> QED
    BY <2>2, <2>3
<1> QED
  BY <1>3, <1>4

------------------------------------------------------------------------------
(* The audio arrays *)

Ops == {"write", "read", "skip", "map"}

Channels(op, f, z, a, n) == [i \in 1 .. n |-> <<Step(op, FI(f, i), z, a)>>]

\* The array of pointers, h done to it, then the channels, op done to each.
Audio(h, op, f, z, a, n) ==
  <<Step(h, F(f), PtrSize * n, PtrSize)>> \o FlattenSeq(Channels(op, f, z, a, n))

AudioNames == {"in", "out"}

LEMMA ChannelSteps ==
  ASSUME NEW op \in Ops, NEW f \in AudioNames, NEW z \in Nat, NEW a \in Alignments, NEW n \in Nat
  PROVE  /\ \A i \in 1 .. n : /\ Step(op, FI(f, i), z, a) \in AnyStep
                              /\ Step(op, FI(f, i), z, a).op = op
                              /\ Step(op, FI(f, i), z, a).field = FI(f, i)
                              /\ Step(op, FI(f, i), z, a).size = z
         /\ Step(op, F(f), PtrSize * n, PtrSize) \in AnyStep
         /\ Step(op, F(f), PtrSize * n, PtrSize).op = op
         /\ Step(op, F(f), PtrSize * n, PtrSize).field = F(f)
         /\ Step(op, F(f), PtrSize * n, PtrSize).size = PtrSize * n
         /\ PtrSize * n \in Aligned
<1>1. PtrSize * n \in Nat /\ (PtrSize * n) % 8 = 0 /\ PtrSize \in {1, 4, 8}
  BY DEF PtrSize
<1>2. F(f) \in FieldName
  BY FieldNames DEF AudioNames
<1>3. \A i \in 1 .. n : FI(f, i) \in FieldName
  BY FieldNames DEF AudioNames
<1>4. Step(op, F(f), PtrSize * n, PtrSize) \in AnyStep
  BY <1>1, <1>2 DEF Step, AnyStep, Ops
<1>5. \A i \in 1 .. n : Step(op, FI(f, i), z, a) \in AnyStep
  BY <1>3 DEF Step, AnyStep, Ops, Alignments
<1> QED
  BY <1>1, <1>4, <1>5 DEF Step, Aligned

\* What is done in the channels is done by the side that the other looks at.
Answers(mop, mops, wop, wops, f, n, S) ==
  mop \in mops /\ (\E i \in 1 .. n : FI(f, i) \in S) => wop \in wops

LEMMA ChannelsFind ==
  ASSUME NEW mop \in Ops, NEW wop \in Ops, NEW f \in AudioNames, NEW z \in Aligned,
         NEW a \in Alignments, NEW b \in Alignments, NEW n \in Nat,
         NEW mops, NEW wops, NEW S, Answers(mop, mops, wop, wops, f, n, S)
  PROVE  BlocksFind(Channels(mop, f, z, a, n), mops, Channels(wop, f, z, b, n), wops, S, n)
<1> SUFFICES ASSUME NEW i \in 1 .. n
             PROVE  /\ Channels(mop, f, z, a, n)[i] \in Seq(AnyStep)
                    /\ Channels(wop, f, z, b, n)[i] \in Seq(AnyStep)
                    /\ \A x \in Aligned :
                         /\ Finds(Channels(mop, f, z, a, n)[i], mops,
                                  Channels(wop, f, z, b, n)[i], wops, x, S)
                         /\ Total(Channels(wop, f, z, b, n)[i], x) \in Aligned
  BY DEF BlocksFind
<1> DEFINE c == Step(mop, FI(f, i), z, a)
           d == Step(wop, FI(f, i), z, b)
<1>1. Channels(mop, f, z, a, n)[i] = <<c>> /\ Channels(wop, f, z, b, n)[i] = <<d>>
  BY DEF Channels
<1>2. z \in Nat
  BY DEF Aligned
<1>3. /\ c \in AnyStep /\ c.op = mop /\ c.field = FI(f, i) /\ c.size = z
      /\ d \in AnyStep /\ d.op = wop /\ d.field = FI(f, i) /\ d.size = z
  BY <1>2, ChannelSteps
<1>4. c.op \in mops /\ c.field \in S => d.op \in wops
  BY <1>3 DEF Answers
<1> HIDE DEF c, d
<1>5. \A x \in Aligned : /\ <<c>> \in Seq(AnyStep) /\ <<d>> \in Seq(AnyStep)
                         /\ Finds(<<c>>, mops, <<d>>, wops, x, S)
                         /\ Total(<<d>>, x) = z
  BY <1>3, <1>4, AlignedPair
<1>6. 0 \in Aligned
  BY DEF Aligned
<1> QED
  BY <1>1, <1>5, <1>6

LEMMA AudioFinds ==
  ASSUME NEW mh \in Ops, NEW mop \in Ops, NEW wh \in Ops, NEW wop \in Ops,
         NEW f \in AudioNames, NEW z \in Aligned,
         NEW a \in Alignments, NEW b \in Alignments, NEW n \in Nat,
         NEW mops, NEW wops, NEW S, NEW o \in Aligned,
         Answers(mop, mops, wop, wops, f, n, S),
         mh \in mops /\ F(f) \in S => wh \in wops
  PROVE  /\ Audio(mh, mop, f, z, a, n) \in Seq(AnyStep)
         /\ Audio(wh, wop, f, z, b, n) \in Seq(AnyStep)
         /\ Finds(Audio(mh, mop, f, z, a, n), mops, Audio(wh, wop, f, z, b, n), wops, o, S)
         /\ Total(Audio(wh, wop, f, z, b, n), o) = PtrSize * n + n * z
         /\ Total(Audio(wh, wop, f, z, b, n), o) \in Aligned
<1> DEFINE ms == Channels(mop, f, z, a, n)
           ws == Channels(wop, f, z, b, n)
           c == Step(mh, F(f), PtrSize * n, PtrSize)
           d == Step(wh, F(f), PtrSize * n, PtrSize)
           x == o + PtrSize * n
<1>1. z \in Nat /\ o \in Nat
  BY DEF Aligned
<1>2. BlocksFind(ms, mops, ws, wops, S, n)
  BY ChannelsFind
<1>3. ms = [i \in 1 .. n |-> ms[i]] /\ ws = [i \in 1 .. n |-> ws[i]]
  BY DEF Channels
<1>4. /\ c \in AnyStep /\ c.op = mh /\ c.field = F(f) /\ c.size = PtrSize * n
      /\ d \in AnyStep /\ d.op = wh /\ d.field = F(f) /\ d.size = PtrSize * n
      /\ PtrSize * n \in Aligned
  BY <1>1, ChannelSteps
<1>5. BlocksMeasure(ws, z, n)
  <2> SUFFICES ASSUME NEW i \in 1 .. n
               PROVE  ws[i] \in Seq(AnyStep) /\ \A y \in Aligned : Total(ws[i], y) = z
    BY DEF BlocksMeasure
  <2> DEFINE e == Step(wop, FI(f, i), z, b)
  <2>1. ws[i] = <<e>>
    BY DEF Channels
  <2>2. e \in AnyStep /\ e.size = z
    BY <1>1, ChannelSteps
  <2> HIDE DEF e, ws
  <2>3. e.op \in {} /\ e.field \in {} => e.op \in {}
    OBVIOUS
  <2>4. \A y \in Aligned : <<e>> \in Seq(AnyStep) /\ Total(<<e>>, y) = e.size
    BY <2>2, <2>3, AlignedPair
  <2>5. <<e>> \in Seq(AnyStep)
    BY <2>2
  <2> QED
    BY <2>1, <2>2, <2>4, <2>5
<1> HIDE DEF ms, ws, c, d
<1>6. /\ <<c>> \in Seq(AnyStep) /\ <<d>> \in Seq(AnyStep)
      /\ Finds(<<c>>, mops, <<d>>, wops, o, S)
      /\ Total(<<d>>, o) = PtrSize * n
  BY <1>4, AlignedPair
<1>7. /\ <<c>> \o FlattenSeq(ms) \in Seq(AnyStep) /\ <<d>> \o FlattenSeq(ws) \in Seq(AnyStep)
      /\ Finds(<<c>> \o FlattenSeq(ms), mops, <<d>> \o FlattenSeq(ws), wops, o, S)
      /\ Total(<<d>> \o FlattenSeq(ws), o) \in Aligned
  <2> DEFINE h == <<c>>
             k == <<d>>
  <2>1. /\ h \in Seq(AnyStep) /\ k \in Seq(AnyStep)
        /\ Finds(h, mops, k, wops, o, S) /\ Total(k, o) \in Aligned
    BY <1>4, <1>6
  <2> HIDE DEF h, k
  <2>2. /\ h \o FlattenSeq(ms) \in Seq(AnyStep) /\ k \o FlattenSeq(ws) \in Seq(AnyStep)
        /\ Finds(h \o FlattenSeq(ms), mops, k \o FlattenSeq(ws), wops, o, S)
        /\ Total(k \o FlattenSeq(ws), o) \in Aligned
    BY <1>2, <1>3, <2>1, HeadAndBlocks
  <2> QED
    BY <2>2 DEF h, k
<1>8. x \in Aligned
  BY <1>4, AlignedSum
<1>9. Total(FlattenSeq(ws), x) = n * z /\ FlattenSeq(ws) \in Seq(AnyStep)
  <2> HIDE DEF x
  <2>1. Total(FlattenSeq(ws), x) = n * z
    BY <1>3, <1>5, <1>8, FlattenedTotal
  <2>2. FlattenSeq(ws) \in Seq(AnyStep)
    BY <1>2, <1>3, <1>8, FlattenedFind
  <2> QED
    BY <2>1, <2>2
<1>10. Total(<<d>> \o FlattenSeq(ws), o) = PtrSize * n + n * z
  <2> DEFINE k == <<d>>
  <2>1. k \in Seq(AnyStep) /\ Total(k, o) = PtrSize * n
    BY <1>6
  <2> HIDE DEF k
  <2>2. Total(k \o FlattenSeq(ws), o) = Total(k, o) + Total(FlattenSeq(ws), o + Total(k, o))
    BY <1>1, <1>9, <2>1, PlacesOfConcat
  <2>3. Total(k \o FlattenSeq(ws), o) = PtrSize * n + n * z
    BY <1>9, <2>1, <2>2
  <2> QED
    BY <2>3 DEF k
<1> QED
  BY <1>7, <1>10 DEF Audio, ms, ws, c, d

\* What the layouts of process are taken for.
AudioPayloads ==
  {p \in [kind : {"process"}, ins : Nat, outs : Nat, sample : {4, 8}, samples : Nat, accumulating : BOOLEAN] :
     p.sample * p.samples \in Aligned}

ChannelSize(p) == p.sample * p.samples

LEMMA AudioSteps ==
  ASSUME NEW f, NEW p, NEW n \in Nat
  PROVE  /\ WriteAudio(f, p, n) = Audio("skip", "write", f, ChannelSize(p), 1, n)
         /\ MapAudio(f, p, n) = Audio("map", "map", f, ChannelSize(p), p.sample, n)
         /\ ReadAudio(f, p, n) = Audio("skip", "read", f, ChannelSize(p), 1, n)
BY DEF ChannelSize, WriteAudio, MapAudio, ReadAudio, ForEach, Audio, Channels, Write, MapTo, Read, Skip

LEMMA SkippedAudio ==
  ASSUME NEW f \in AudioNames, NEW p \in AudioPayloads, NEW n \in Nat, NEW o \in Aligned
  PROVE  /\ SkipAudio(f, p, n) \in Seq(AnyStep)
         /\ SkipAudio(f, p, n) \in Seq({c \in AnyStep : c.op = "skip"})
         /\ Total(SkipAudio(f, p, n), o) = PtrSize * n + n * ChannelSize(p)
         /\ \A ops, S : "skip" \notin ops => PlacesOf(SkipAudio(f, p, n), o, ops, S) = {}
<1> DEFINE z == ChannelSize(p)
           c == Skip(F(f), PtrSize * n, PtrSize)
           d == Skip(F(f), z * n, p.sample)
           x == PtrSize * n
           y == z * n
<1>1. SkipAudio(f, p, n) = <<c, d>>
  BY DEF SkipAudio, ChannelSize
<1>2. /\ x \in Aligned /\ PtrSize \in {1, 4, 8} /\ p.sample \in {1, 4, 8}
      /\ z \in Nat /\ o \in Nat /\ x \in Nat /\ y \in Nat /\ y = n * z /\ F(f) \in FieldName
  <2>1. z \in Aligned /\ p.sample \in {4, 8}
    BY DEF AudioPayloads, ChannelSize
  <2> HIDE DEF z
  <2> QED
    BY <2>1, FieldNames DEF PtrSize, Aligned, AudioNames
<1>3. /\ c \in AnyStep /\ c.op = "skip" /\ c.size = x
      /\ d \in AnyStep /\ d.op = "skip" /\ d.size = y
  BY <1>2, StepTypes
<1> HIDE DEF c, d, z
<1>4. /\ <<c, d>> = <<c>> \o <<d>>
      /\ <<c>> \in Seq(AnyStep) /\ <<d>> \in Seq(AnyStep) /\ <<c, d>> \in Seq(AnyStep)
      /\ <<c, d>> \in Seq({e \in AnyStep : e.op = "skip"})
  <2>1. c \in {e \in AnyStep : e.op = "skip"} /\ d \in {e \in AnyStep : e.op = "skip"}
    BY <1>3
  <2> DEFINE T == {e \in AnyStep : e.op = "skip"}
  <2>2. <<c, d>> \in Seq(T)
    <3> HIDE DEF T
    <3> QED
      BY <2>1 DEF T
  <2> QED
    BY <1>3, <2>2, TwoSteps
<1>5. o + x \in Aligned
  <2> HIDE DEF x
  <2> QED
    BY <1>2, AlignedSum
<1>6. \A e \in AnyStep, q \in Aligned : Total(<<e>>, q) = e.size
  <2> SUFFICES ASSUME NEW e \in AnyStep, NEW q \in Aligned
               PROVE  Total(<<e>>, q) = e.size
    OBVIOUS
  <2>1. e.op \in {} /\ e.field \in {} => e.op \in {}
    OBVIOUS
  <2> QED
    BY <2>1, AlignedPair
<1>7. Total(<<c>>, o) = x /\ Total(<<d>>, o + x) = y
  <2> HIDE DEF x, y
  <2> QED
    BY <1>3, <1>5, <1>6
<1>8. Total(<<c, d>>, o) = x + y
  <2> DEFINE a == <<c>>
             b == <<d>>
  <2>1. a \in Seq(AnyStep) /\ b \in Seq(AnyStep) /\ Total(a, o) = x /\ Total(b, o + x) = y
    BY <1>4, <1>7
  <2> HIDE DEF a, b, x, y
  <2>2. Total(a \o b, o) = Total(a, o) + Total(b, o + Total(a, o))
    BY <1>2, <2>1, PlacesOfConcat
  <2>3. Total(a \o b, o) = x + y
    BY <2>1, <2>2
  <2> QED
    BY <1>4, <2>3 DEF a, b
<1>9. \A ops, S : "skip" \notin ops => PlacesOf(SkipAudio(f, p, n), o, ops, S) = {}
  <2> SUFFICES ASSUME NEW ops, NEW S, "skip" \notin ops
               PROVE  PlacesOf(<<c, d>>, o, ops, S) = {}
    BY <1>1
  <2> DEFINE ab == <<c, d>>
  <2>1. DOMAIN ab = 1 .. 2 /\ ab[1] = c /\ ab[2] = d
    OBVIOUS
  <2> HIDE DEF ab
  <2>2. \A k \in DOMAIN ab : ab[k].op \notin ops
    BY <1>3, <2>1
  <2>3. PlacesOf(ab, o, ops, S) = {}
    BY <2>2 DEF PlacesOf
  <2> QED
    BY <2>3 DEF ab
<1> QED
  BY <1>1, <1>2, <1>4, <1>8, <1>9 DEF z

LEMMA AudioTotal ==
  ASSUME NEW h \in Ops, NEW op \in Ops, NEW f \in AudioNames, NEW z \in Aligned,
         NEW a \in Alignments, NEW n \in Nat, NEW o \in Aligned
  PROVE  /\ Total(Audio(h, op, f, z, a, n), o) = PtrSize * n + n * z
         /\ Total(Audio(h, op, f, z, a, n), o) \in Aligned
<1> DEFINE none == {}
<1>1. Answers(op, none, op, none, f, n, none) /\ (h \in none /\ F(f) \in none => h \in none)
  BY DEF Answers
<1> HIDE DEF none
<1>2. Finds(Audio(h, op, f, z, a, n), none, Audio(h, op, f, z, a, n), none, o, none)
  BY <1>1, AudioFinds
<1> QED
  BY <1>1, <1>2, AudioFinds

\* The channels of one side, read or mapped, written or skipped by the other.
LEMMA AudioMeets ==
  ASSUME NEW f \in AudioNames, NEW p \in AudioPayloads, NEW n \in Nat, NEW o \in Aligned,
         NEW S, F(f) \notin S
  PROVE  /\ WriteAudio(f, p, n) \in Seq(AnyStep) /\ MapAudio(f, p, n) \in Seq(AnyStep)
         /\ SkipAudio(f, p, n) \in Seq(AnyStep) /\ ReadAudio(f, p, n) \in Seq(AnyStep)
         /\ Total(WriteAudio(f, p, n), o) \in Aligned
         /\ Total(MapAudio(f, p, n), o) = Total(WriteAudio(f, p, n), o)
         /\ Total(SkipAudio(f, p, n), o) = Total(WriteAudio(f, p, n), o)
         /\ Finds(MapAudio(f, p, n), {"read", "map"}, WriteAudio(f, p, n), {"write"}, o, S)
         /\ Finds(ReadAudio(f, p, n), {"read"}, MapAudio(f, p, n), {"map"}, o, S)
         /\ Finds(SkipAudio(f, p, n), {"read"}, MapAudio(f, p, n), {"map"}, o, S)
         /\ (\A i \in 1 .. n : FI(f, i) \notin S) =>
              Finds(MapAudio(f, p, n), {"read", "map"}, SkipAudio(f, p, n), {"write"}, o, S)
<1> DEFINE z == ChannelSize(p)
           W == WriteAudio(f, p, n)
           M == MapAudio(f, p, n)
           K == SkipAudio(f, p, n)
           R == ReadAudio(f, p, n)
           looks == {"read", "map"}
           reads == {"read"}
           maps == {"map"}
           puts == {"write"}
<1>1. /\ z \in Aligned /\ p.sample \in Alignments /\ p.sample \in {4, 8} /\ 1 \in Alignments
      /\ "skip" \in Ops /\ "write" \in Ops /\ "read" \in Ops /\ "map" \in Ops
  BY DEF AudioPayloads, Alignments, Ops, ChannelSize
<1>2. /\ W = Audio("skip", "write", f, z, 1, n)
      /\ M = Audio("map", "map", f, z, p.sample, n)
      /\ R = Audio("skip", "read", f, z, 1, n)
  BY AudioSteps
<1>3. /\ Answers("map", looks, "write", puts, f, n, S)
      /\ Answers("read", reads, "map", maps, f, n, S)
      /\ (\A i \in 1 .. n : FI(f, i) \notin S) => Answers("map", looks, "skip", puts, f, n, S)
      /\ "skip" \notin reads
  BY DEF Answers
<1> DEFINE total == PtrSize * n + n * z
<1>4. K \in Seq(AnyStep) /\ Total(K, o) = total /\ PlacesOf(K, o, reads, S) = {}
  BY <1>3, SkippedAudio
<1> HIDE DEF z, W, M, K, R, looks, reads, maps, puts, total
<1>5. /\ M \in Seq(AnyStep) /\ W \in Seq(AnyStep) /\ Finds(M, looks, W, puts, o, S)
      /\ Total(W, o) = total /\ Total(W, o) \in Aligned
  <2>1. M \in Seq(AnyStep) /\ W \in Seq(AnyStep) /\ Finds(M, looks, W, puts, o, S)
    BY <1>1, <1>2, <1>3, AudioFinds
  <2>3. /\ Total(Audio("skip", "write", f, z, 1, n), o) = PtrSize * n + n * z
        /\ Total(Audio("skip", "write", f, z, 1, n), o) \in Aligned
    BY <1>1, AudioTotal
  <2> QED
    BY <1>2, <2>1, <2>3 DEF total
<1>6. R \in Seq(AnyStep) /\ Finds(R, reads, M, maps, o, S)
  BY <1>1, <1>2, <1>3, AudioFinds
<1>7. (\A i \in 1 .. n : FI(f, i) \notin S) => PlacesOf(M, o, looks, S) = {}
  <2> SUFFICES ASSUME \A i \in 1 .. n : FI(f, i) \notin S
               PROVE  PlacesOf(M, o, looks, S) = {}
    OBVIOUS
  <2>1. \A i \in 1 .. n : FI(f, i) \notin S
    OBVIOUS
  <2> DEFINE none == {}
  <2>2. Answers("map", looks, "map", none, f, n, S) /\ ("map" \in looks /\ F(f) \in S => "map" \in none)
    BY <2>1 DEF Answers
  <2>3. PlacesOf(M, o, none, S) = {}
    BY NoOps DEF none
  <2> HIDE DEF none
  <2>4. Finds(M, looks, M, none, o, S)
    BY <1>1, <1>2, <2>2, AudioFinds
  <2> QED
    BY <2>3, <2>4 DEF Finds
<1>8. Finds(K, reads, M, maps, o, S)
  BY <1>4, <1>5 DEF Finds
<1>9. Total(M, o) = Total(W, o) /\ Total(K, o) = Total(W, o)
  BY <1>4, <1>5 DEF Finds
<1>10. (\A i \in 1 .. n : FI(f, i) \notin S) => Finds(M, looks, K, puts, o, S)
  BY <1>7, <1>9 DEF Finds
<1> QED
  BY <1>4, <1>5, <1>6, <1>8, <1>9, <1>10 DEF W, M, K, R, looks, reads, maps, puts

\* The fields in which an array of channels has anything done.
LEMMA AudioWithin ==
  ASSUME NEW h \in Ops, NEW op \in Ops, NEW f \in AudioNames, NEW z \in Nat, NEW a \in Alignments,
         NEW n \in Nat, NEW ops, NEW S, NEW U, h \notin ops, \A i \in 1 .. n : FI(f, i) \in U
  PROVE  Audio(h, op, f, z, a, n) \in Seq(Only(ops, S, U))
<1> DEFINE T == Only(ops, S, U)
           c == Step(h, F(f), PtrSize * n, PtrSize)
           ms == Channels(op, f, z, a, n)
<1>1. c \in AnyStep /\ c.op = h
  BY ChannelSteps
<1>2. c \in T
  <2> HIDE DEF c
  <2> QED
    BY <1>1 DEF Only
<1>3. \A i \in 1 .. n : ms[i] \in Seq(T)
  <2> SUFFICES ASSUME NEW i \in 1 .. n
               PROVE  ms[i] \in Seq(T)
    OBVIOUS
  <2> DEFINE d == Step(op, FI(f, i), z, a)
  <2>1. ms[i] = <<d>>
    BY DEF Channels
  <2>2. d \in AnyStep /\ d.field = FI(f, i)
    BY ChannelSteps
  <2> HIDE DEF d, ms
  <2>3. d \in T
    BY <2>2 DEF Only
  <2> HIDE DEF T
  <2> QED
    BY <2>1, <2>3
<1>4. ms = [i \in 1 .. n |-> ms[i]]
  BY DEF Channels
<1> HIDE DEF T, c, ms
<1>5. FlattenSeq(ms) \in Seq(T)
  BY <1>3, <1>4, FlattenedIn
<1>6. <<c>> \in Seq(T)
  BY <1>2
<1>7. <<c>> \o FlattenSeq(ms) \in Seq(T)
  <2> DEFINE one == <<c>>
  <2> HIDE DEF one
  <2>1. one \in Seq(T)
    BY <1>6 DEF one
  <2>2. one \o FlattenSeq(ms) \in Seq(T)
    BY <1>5, <2>1, ConcatProperties
  <2> QED
    BY <2>2 DEF one
<1> QED
  BY <1>7 DEF Audio, T, c, ms

LEMMA SkipsWithin ==
  ASSUME NEW ops, NEW S, NEW U, "skip" \notin ops,
         NEW f \in AudioNames, NEW p \in AudioPayloads, NEW n \in Nat
  PROVE  SkipAudio(f, p, n) \in Seq(Only(ops, S, U))
<1> DEFINE skips == {c \in AnyStep : c.op = "skip"}
           T == Only(ops, S, U)
           steps == SkipAudio(f, p, n)
<1>1. skips \subseteq T
  BY DEF Only
<1>2. 0 \in Aligned
  BY DEF Aligned
<1>3. steps \in Seq(skips)
  <2> HIDE DEF steps
  <2> QED
    BY <1>2, SkippedAudio DEF steps
<1> HIDE DEF skips, T, steps
<1>4. steps \in Seq(T)
  BY <1>1, <1>3, SeqMonotonic
<1> QED
  BY <1>4 DEF steps, T

LEMMA NotAChannel ==
  ASSUME NEW f \in AudioNames, NEW g \in AudioNames, NEW i \in Nat
  PROVE  i # 0 => F(f) # FI(g, i)
BY DEF F, FI

LEMMA ProcessConsistent ==
  ASSUME NEW m \in AudioPayloads, NEW o \in Aligned
  PROVE  /\ Consistent(m, o)
         /\ Total(WriteRequest(m), o) \in Aligned
<1> DEFINE WI == WriteAudio("in", m, m.ins)
           WO == IF m.accumulating THEN WriteAudio("out", m, m.outs) ELSE SkipAudio("out", m, m.outs)
           MI == MapAudio("in", m, m.ins)
           MO == MapAudio("out", m, m.outs)
           SI == SkipAudio("in", m, m.ins)
           SO == SkipAudio("out", m, m.outs)
           RO == ReadAudio("out", m, m.outs)
           ins == {FI("in", i) : i \in Nat \ {0}}
           outs == {FI("out", i) : i \in Nat \ {0}}
           U == IF m.accumulating THEN ins \cup outs ELSE ins
           S == Fields(WriteRequest(m), {"write"})
           Out == Outputs(m)
           Seen == Outputs(m) \cup {F("chunk"), F("rect")}
           x == o + Total(WI, o)
           looks == {"read", "map"}
           reads == {"read"}
           maps == {"map"}
           puts == {"write"}
           z == ChannelSize(m)
<1>1. /\ m.kind = "process" /\ m.ins \in Nat /\ m.outs \in Nat /\ m.accumulating \in BOOLEAN
      /\ z \in Aligned /\ z \in Nat /\ 1 \in Alignments /\ o \in Nat
      /\ "in" \in AudioNames /\ "out" \in AudioNames
      /\ "skip" \in Ops /\ "write" \in Ops /\ "read" \in Ops /\ "map" \in Ops
  <2>1. z \in Aligned
    BY DEF AudioPayloads, ChannelSize
  <2> HIDE DEF z
  <2> QED
    BY <2>1 DEF AudioPayloads, Aligned, Alignments, Ops, AudioNames
<1>2. /\ WriteRequest(m) = WI \o WO /\ MapRequest(m) = MI \o MO
      /\ WriteResponse(m) = SI \o SO /\ ReadResponse(m) = SI \o RO
  BY <1>1 DEF WriteRequest, MapRequest, WriteResponse, ReadResponse, Payload, Cursors, AudioArrays
<1>3. Out = {FI("out", i) : i \in 1 .. m.outs}
  BY <1>1 DEF Outputs
<1>4. "skip" \notin puts /\ "skip" \notin reads
  OBVIOUS
\* where the steps put anything
<1>5. S \subseteq U
  <2> DEFINE T == Only(puts, FieldName, U)
  <2>1. WI \in Seq(T)
    <3>1. \A i \in 1 .. m.ins : FI("in", i) \in U
      OBVIOUS
    <3> HIDE DEF puts, U, z
    <3>2. Audio("skip", "write", "in", z, 1, m.ins) \in Seq(T)
      BY <1>1, <1>4, <3>1, AudioWithin
    <3> QED
      BY <1>1, <3>2, AudioSteps DEF z
  <2>2. WO \in Seq(T)
    <3>1. CASE m.accumulating
      <4>1. \A i \in 1 .. m.outs : FI("out", i) \in U
        BY <3>1
      <4> HIDE DEF puts, U, z
      <4>2. Audio("skip", "write", "out", z, 1, m.outs) \in Seq(T)
        BY <1>1, <1>4, <4>1, AudioWithin
      <4> QED
        BY <1>1, <3>1, <4>2, AudioSteps DEF z
    <3>2. CASE ~m.accumulating
      <4> HIDE DEF puts, U
      <4>1. SkipAudio("out", m, m.outs) \in Seq(T)
        BY <1>1, <1>4, SkipsWithin
      <4> QED
        BY <3>2, <4>1
    <3> QED
      BY <3>1, <3>2
  <2>3. WI \o WO \in Seq(T)
    <3> HIDE DEF WI, WO, T
    <3> QED
      BY <2>1, <2>2, ConcatProperties
  <2>4. S = Fields(WI \o WO, puts)
    BY <1>2
  <2> HIDE DEF WI, WO, U, puts
  <2>5. Fields(WI \o WO, puts) \subseteq U
    BY <2>3, FieldsWithin
  <2> QED
    BY <2>4, <2>5
<1>6. /\ F("in") \notin S /\ F("out") \notin S /\ F("in") \notin Out /\ F("out") \notin Out
      /\ m.accumulating \/ \A i \in 1 .. m.outs : FI("out", i) \notin S
  <2>1. F("in") \notin U /\ F("out") \notin U
    BY <1>1, NotAChannel
  <2>2. F("in") \notin Out /\ F("out") \notin Out
    BY <1>1, <1>3, NotAChannel
  <2>3. \A i, j \in Nat : FI("in", i) # FI("out", j)
    BY DEF FI
  <2>4. m.accumulating \/ \A i \in 1 .. m.outs : FI("out", i) \notin U
    BY <1>1, <2>3
  <2> HIDE DEF S, U
  <2> QED
    BY <1>5, <2>1, <2>2, <2>4
\* the sides meet
<1>7. /\ WI \in Seq(AnyStep) /\ MI \in Seq(AnyStep) /\ SI \in Seq(AnyStep)
      /\ Total(WI, o) \in Aligned /\ Total(MI, o) = Total(WI, o)
      /\ Finds(MI, looks, WI, puts, o, S)
      /\ Finds(SI, reads, MI, maps, o, Out)
  <2> HIDE DEF S, Out
  <2> QED
    BY <1>1, <1>6, AudioMeets
<1>8. x \in Aligned /\ x = o + Total(WI, o) /\ x = o + Total(MI, o)
  <2> HIDE DEF WI, MI
  <2> QED
    BY <1>7, AlignedSum
<1>9. /\ WO \in Seq(AnyStep) /\ MO \in Seq(AnyStep) /\ SO \in Seq(AnyStep) /\ RO \in Seq(AnyStep)
      /\ Total(WO, x) \in Aligned
      /\ Finds(MO, looks, WO, puts, x, S)
      /\ Finds(RO, reads, MO, maps, x, Out)
  <2> DEFINE W == WriteAudio("out", m, m.outs)
  <2> HIDE DEF S, Out, x
  <2>1. /\ W \in Seq(AnyStep) /\ MO \in Seq(AnyStep) /\ SO \in Seq(AnyStep) /\ RO \in Seq(AnyStep)
        /\ Total(W, x) \in Aligned /\ Total(SO, x) = Total(W, x)
        /\ Finds(MO, looks, W, puts, x, S)
        /\ (\A i \in 1 .. m.outs : FI("out", i) \notin S) => Finds(MO, looks, SO, puts, x, S)
    BY <1>1, <1>6, <1>8, AudioMeets
  <2>2. Finds(RO, reads, MO, maps, x, Out)
    BY <1>1, <1>6, <1>8, AudioMeets
  <2>3. /\ m.accumulating => WO = W
        /\ ~m.accumulating => WO = SO
    OBVIOUS
  <2> HIDE DEF WO, SO, W, MO, RO
  <2> QED
    BY <1>1, <1>6, <2>1, <2>2, <2>3
<1>10. /\ Finds(MI \o MO, looks, WI \o WO, puts, o, S)
       /\ MI \o MO \in Seq(AnyStep) /\ WI \o WO \in Seq(AnyStep)
  <2> HIDE DEF S, x, WI, WO, MI, MO, looks, puts
  <2> QED
    BY <1>1, <1>7, <1>8, <1>9, FindsConcat
<1>11. /\ Finds(SI \o RO, reads, MI \o MO, maps, o, Out)
       /\ SI \o RO \in Seq(AnyStep)
  <2> HIDE DEF Out, x, SI, RO, MI, MO, reads, maps
  <2> QED
    BY <1>1, <1>7, <1>8, <1>9, FindsConcat
<1>12. SI \o SO \in Seq(AnyStep)
  <2> HIDE DEF SI, SO
  <2> QED
    BY <1>7, <1>9, ConcatProperties
<1>13. Total(WriteRequest(m), o) \in Aligned
  <2> HIDE DEF WI, WO, x
  <2>1. Total(WI \o WO, o) = Total(WI, o) + Total(WO, o + Total(WI, o))
    <3>1. WI \in Seq(AnyStep) /\ WO \in Seq(AnyStep) /\ o \in Nat
      BY <1>1, <1>7, <1>9
    <3> HIDE DEF S, Out, looks, reads, maps, puts
    <3> QED
      BY <3>1, PlacesOfConcat
  <2> QED
    BY <1>2, <1>7, <1>8, <1>9, <2>1, AlignedSum
\* and where the answer and the results are
<1>14. AnswerPlaces(m, o) = {}
  <2> DEFINE U0 == {}
             T == Only(puts, FieldName, U0)
  <2>1. SI \in Seq(T) /\ SO \in Seq(T)
    <3> HIDE DEF puts, U0
    <3> QED
      BY <1>1, <1>4, SkipsWithin
  <2>2. SI \o SO \in Seq(T)
    <3> HIDE DEF SI, SO, T
    <3> QED
      BY <2>1, ConcatProperties
  <2> QED
    BY <1>2, <2>2, NoAnswers
<1>15. ResultPlaces(m, o) \subseteq OutputPlaces(m, o)
  <2> DEFINE T == Only(reads, Seen, Out)
  <2>1. SI \in Seq(T)
    <3> HIDE DEF reads, Seen, Out
    <3> QED
      BY <1>1, <1>4, SkipsWithin
  <2>2. RO \in Seq(T)
    <3>1. \A i \in 1 .. m.outs : FI("out", i) \in Out
      BY <1>3
    <3> HIDE DEF reads, Seen, Out, z
    <3>2. Audio("skip", "read", "out", z, 1, m.outs) \in Seq(T)
      BY <1>1, <1>4, <3>1, AudioWithin
    <3> QED
      BY <1>1, <3>2, AudioSteps DEF z
  <2>3. SI \o RO \in Seq(T)
    <3> HIDE DEF SI, RO, T
    <3> QED
      BY <2>1, <2>2, ConcatProperties
  <2>4. ResultPlaces(m, o) \subseteq PlacesOf(SI \o RO, o, reads, Out)
    <3> HIDE DEF SI, RO
    <3> QED
      BY <1>2, <2>3, ResultsWithin
  <2>5. OutputPlaces(m, o) = PlacesOf(MI \o MO, o, maps, Out)
    BY <1>2 DEF OutputPlaces
  <2> HIDE DEF SI, RO, MI, MO, reads, maps, Out
  <2> QED
    BY <1>11, <2>4, <2>5 DEF Finds
<1>16. Finds(MapRequest(m), {"read", "map"}, WriteRequest(m), {"write"}, o, Fields(WriteRequest(m), {"write"}))
  BY <1>2, <1>10
<1> HIDE DEF WI, WO, MI, MO, SI, SO, RO
<1> QED
  BY <1>2, <1>10, <1>11, <1>12, <1>13, <1>14, <1>15, <1>16 DEF Consistent, Apart

------------------------------------------------------------------------------
(* Events *)

Events == [type : {"midi"}] \cup [type : {"sysex"}, dump : Aligned]
EventPayloads == [kind : {"events"}, events : Seq(Events)]

\* The steps c, d are met by e, g.
LEMMA TwoPairs ==
  ASSUME NEW c \in AnyStep, NEW d \in AnyStep, NEW e \in AnyStep, NEW g \in AnyStep,
         NEW o \in Aligned, NEW mops, NEW wops, NEW S,
         c.size = e.size, c.field = e.field, c.op \in mops => e.op \in wops,
         d.size = g.size, d.field = g.field, d.op \in mops => g.op \in wops,
         e.size \in Aligned, g.size \in Aligned
  PROVE  /\ <<c, d>> \in Seq(AnyStep) /\ <<e, g>> \in Seq(AnyStep)
         /\ Finds(<<c, d>>, mops, <<e, g>>, wops, o, S)
         /\ Total(<<e, g>>, o) \in Aligned
<1> DEFINE C == <<c>>
           D == <<d>>
           E == <<e>>
           G == <<g>>
           x == o + e.size
<1>1. /\ <<c, d>> = C \o D /\ <<e, g>> = E \o G
      /\ C \in Seq(AnyStep) /\ D \in Seq(AnyStep) /\ E \in Seq(AnyStep) /\ G \in Seq(AnyStep)
      /\ <<c, d>> \in Seq(AnyStep) /\ <<e, g>> \in Seq(AnyStep)
  BY TwoSteps
<1>2. Finds(C, mops, E, wops, o, S) /\ Total(E, o) = e.size
  BY AlignedPair
<1>3. x \in Aligned /\ o \in Nat
  BY AlignedSum DEF Aligned
<1>4. Finds(D, mops, G, wops, x, S) /\ Total(G, x) = g.size
  <2> HIDE DEF x
  <2> QED
    BY <1>3, AlignedPair
<1> HIDE DEF C, D, E, G
<1>5. Finds(C \o D, mops, E \o G, wops, o, S)
  BY <1>1, <1>2, <1>3, <1>4, FindsConcat
<1>6. Total(E \o G, o) = Total(E, o) + Total(G, o + Total(E, o))
  BY <1>1, <1>3, PlacesOfConcat
<1>7. Total(E \o G, o) = e.size + g.size
  BY <1>2, <1>4, <1>6
<1>8. e.size + g.size \in Aligned
  BY AlignedSum
<1> QED
  BY <1>1, <1>5, <1>7, <1>8

\* A step of no length looks at nothing.
LEMMA ZeroFirst ==
  ASSUME NEW c \in AnyStep, c.size = 0, NEW m \in Seq(AnyStep), NEW w \in Seq(AnyStep),
         NEW o \in Aligned, NEW mops, NEW wops, NEW S, Finds(m, mops, w, wops, o, S)
  PROVE  <<c>> \o m \in Seq(AnyStep) /\ Finds(<<c>> \o m, mops, w, wops, o, S)
<1> DEFINE C == <<c>>
<1>1. o \in Nat /\ o % 8 = 0 /\ StartOf(c, o) = o /\ C \in Seq(AnyStep)
  <2>1. o \in Nat /\ o % 8 = 0
    BY DEF Aligned
  <2> QED
    BY <2>1, Starts
<1>2. o + Total(C, o) = o /\ Total(C, o) \in Nat /\ PlacesOf(C, o, mops, S) = {}
  <2>1. Total(C, o) \in Nat
    BY <1>1, EndOf
  <2>2. /\ o + Total(<<c>>, o) = StartOf(c, o) + c.size
        /\ PlacesOf(<<c>>, o, mops, S)
              = IF c.op \in mops /\ c.field \in S /\ c.size > 0 THEN {PlaceOf(c, o)} ELSE {}
    BY <1>1, OnePlace
  <2> QED
    BY <1>1, <2>1, <2>2
<1>3. Total(C, o) = 0
  BY <1>1, <1>2
<1> HIDE DEF C
<1>4. /\ C \o m \in Seq(AnyStep)
      /\ Total(C \o m, o) = Total(C, o) + Total(m, o + Total(C, o))
      /\ PlacesOf(C \o m, o, mops, S) = PlacesOf(C, o, mops, S) \cup PlacesOf(m, o + Total(C, o), mops, S)
  BY <1>1, PlacesOfConcat
<1>5. o + Total(C, o) = o /\ Total(m, o) \in Nat
  BY <1>1, <1>2, EndOf
<1>6. Total(C \o m, o) = Total(m, o) /\ PlacesOf(C \o m, o, mops, S) = PlacesOf(m, o, mops, S)
  BY <1>2, <1>3, <1>4, <1>5
<1> QED
  BY <1>4, <1>6 DEF Finds, C

------------------------------------------------------------------------------
WrittenEvent(e, i) ==
  IF e.type = "midi" THEN <<Write(FI("event", i), EventSize)>>
                     ELSE <<Write(FI("event", i), SysexSize), Write(FI("dump", i), e.dump)>>
MappedEvent(e, i) ==
  <<MapTo(FI("event", i), 0, 4)>> \o
  IF e.type = "midi" THEN <<MapTo(FI("event", i), EventSize, 4)>>
                     ELSE <<MapTo(FI("event", i), SysexSize, 8), MapTo(FI("dump", i), e.dump, 1)>>
SkippedEvent(e, i) ==
  IF e.type = "midi" THEN <<Skip(FI("event", i), EventSize, 4)>>
                     ELSE <<Skip(FI("event", i), SysexSize, 8), Skip(FI("dump", i), e.dump, 1)>>

LEMMA EventSteps ==
  ASSUME NEW evs
  PROVE  /\ WriteEvents(evs) = <<Write(F("header"), EvHeaderSize), Skip(F("ptrs"), EventSize * Len(evs), 4)>>
              \o FlattenSeq([i \in 1 .. Len(evs) |-> WrittenEvent(evs[i], i)])
         /\ MapEvents(evs) = <<MapTo(F("header"), EvHeaderSize, 8), Skip(F("ptrs"), EventSize * Len(evs), 4)>>
              \o FlattenSeq([i \in 1 .. Len(evs) |-> MappedEvent(evs[i], i)])
         /\ SkipEvents(evs) = <<Skip(F("header"), EvHeaderSize, 8), Skip(F("ptrs"), EventSize * Len(evs), 4)>>
              \o FlattenSeq([i \in 1 .. Len(evs) |-> SkippedEvent(evs[i], i)])
BY DEF WriteEvents, MapEvents, SkipEvents, ForEach, WrittenEvent, MappedEvent, SkippedEvent

\* An event is mapped where it was written.
LEMMA EventsMeet ==
  ASSUME NEW e \in Events, NEW i \in Nat, NEW x \in Aligned, NEW S
  PROVE  /\ MappedEvent(e, i) \in Seq(AnyStep) /\ WrittenEvent(e, i) \in Seq(AnyStep)
         /\ Finds(MappedEvent(e, i), {"read", "map"}, WrittenEvent(e, i), {"write"}, x, S)
         /\ Total(WrittenEvent(e, i), x) \in Aligned
         /\ SkippedEvent(e, i) \in Seq({c \in AnyStep : c.op = "skip"})
<1> DEFINE f == FI("event", i)
           g == FI("dump", i)
           looks == {"read", "map"}
           puts == {"write"}
           zero == MapTo(f, 0, 4)
           skips == {c \in AnyStep : c.op = "skip"}
<1>1. /\ f \in FieldName /\ g \in FieldName /\ EventSize \in Nat /\ SysexSize \in Nat /\ 0 \in Nat
      /\ EventSize \in Aligned /\ SysexSize \in Aligned
  BY FieldNames DEF EventSize, SysexSize, Aligned
<1>2. zero \in AnyStep /\ zero.size = 0
  BY <1>1, StepTypes
<1>3. CASE e.type = "midi"
  <2> DEFINE W == Write(f, EventSize)
             M == MapTo(f, EventSize, 4)
             K == Skip(f, EventSize, 4)
  <2>1. /\ W \in AnyStep /\ M \in AnyStep /\ K \in skips
        /\ W.field = f /\ M.field = f /\ W.size = EventSize /\ M.size = EventSize
        /\ W.op \in puts
    BY <1>1, StepTypes
  <2>2. MappedEvent(e, i) = <<zero>> \o <<M>> /\ WrittenEvent(e, i) = <<W>> /\ SkippedEvent(e, i) = <<K>>
    BY <1>3 DEF MappedEvent, WrittenEvent, SkippedEvent
  <2> HIDE DEF zero, W, M, K, looks, puts, skips, f
  <2>3. /\ <<M>> \in Seq(AnyStep) /\ <<W>> \in Seq(AnyStep)
        /\ Finds(<<M>>, looks, <<W>>, puts, x, S)
        /\ Total(<<W>>, x) = EventSize
    BY <2>1, AlignedPair
  <2>4. <<zero>> \o <<M>> \in Seq(AnyStep) /\ Finds(<<zero>> \o <<M>>, looks, <<W>>, puts, x, S)
    BY <1>2, <2>3, ZeroFirst
  <2>5. <<K>> \in Seq(skips)
    BY <2>1
  <2> QED
    BY <1>1, <2>2, <2>3, <2>4, <2>5 DEF looks, puts, skips
<1>4. CASE e.type # "midi"
  <2> DEFINE d == e.dump
             W == Write(f, SysexSize)
             M == MapTo(f, SysexSize, 8)
             K == Skip(f, SysexSize, 8)
             W2 == Write(g, d)
             M2 == MapTo(g, d, 1)
             K2 == Skip(g, d, 1)
  <2>1. d \in Aligned /\ d \in Nat
    BY <1>4 DEF Events, Aligned
  <2>2. /\ W \in AnyStep /\ M \in AnyStep /\ K \in skips
        /\ W.field = f /\ M.field = f /\ W.size = SysexSize /\ M.size = SysexSize
        /\ W.op \in puts
    BY <1>1, StepTypes
  <2>3. /\ W2 \in AnyStep /\ M2 \in AnyStep /\ K2 \in skips
        /\ W2.field = g /\ M2.field = g /\ W2.size = d /\ M2.size = d
        /\ W2.op \in puts
    <3> HIDE DEF d
    <3> QED
      BY <1>1, <2>1, StepTypes
  <2>4. MappedEvent(e, i) = <<zero>> \o <<M, M2>> /\ WrittenEvent(e, i) = <<W, W2>> /\ SkippedEvent(e, i) = <<K, K2>>
    BY <1>4 DEF MappedEvent, WrittenEvent, SkippedEvent
  <2> HIDE DEF zero, W, M, K, W2, M2, K2, looks, puts, skips, f, g, d
  <2>5. /\ <<M, M2>> \in Seq(AnyStep) /\ <<W, W2>> \in Seq(AnyStep)
        /\ Finds(<<M, M2>>, looks, <<W, W2>>, puts, x, S)
        /\ Total(<<W, W2>>, x) \in Aligned
    BY <1>1, <2>1, <2>2, <2>3, TwoPairs
  <2>6. <<zero>> \o <<M, M2>> \in Seq(AnyStep) /\ Finds(<<zero>> \o <<M, M2>>, looks, <<W, W2>>, puts, x, S)
    <3> DEFINE Ms == <<M, M2>>
               Ws == <<W, W2>>
    <3>1. Ms \in Seq(AnyStep) /\ Ws \in Seq(AnyStep) /\ Finds(Ms, looks, Ws, puts, x, S)
      BY <2>5
    <3> HIDE DEF Ms, Ws
    <3>2. <<zero>> \o Ms \in Seq(AnyStep) /\ Finds(<<zero>> \o Ms, looks, Ws, puts, x, S)
      BY <1>2, <3>1, ZeroFirst
    <3> QED
      BY <3>2 DEF Ms, Ws
  <2>7. <<K, K2>> \in Seq(skips)
    BY <2>2, <2>3
  <2> QED
    BY <2>4, <2>5, <2>6, <2>7 DEF looks, puts, skips
<1> QED
  BY <1>3, <1>4

LEMMA EventsConsistent ==
  ASSUME NEW m \in EventPayloads, NEW o \in Aligned
  PROVE  Consistent(m, o) /\ Total(WriteRequest(m), o) \in Aligned
<1> DEFINE evs == m.events
           n == Len(evs)
           room == EventSize * n
           ms == [i \in 1 .. n |-> MappedEvent(evs[i], i)]
           ws == [i \in 1 .. n |-> WrittenEvent(evs[i], i)]
           ks == [i \in 1 .. n |-> SkippedEvent(evs[i], i)]
           HW == Write(F("header"), EvHeaderSize)
           HM == MapTo(F("header"), EvHeaderSize, 8)
           HK == Skip(F("header"), EvHeaderSize, 8)
           P == Skip(F("ptrs"), room, 4)
           looks == {"read", "map"}
           puts == {"write"}
           skips == {c \in AnyStep : c.op = "skip"}
<1>1. /\ evs \in Seq(Events) /\ n \in Nat /\ m.kind = "events"
      /\ \A i \in 1 .. n : evs[i] \in Events
  <2>1. evs \in Seq(Events) /\ m.kind = "events"
    BY DEF EventPayloads
  <2> HIDE DEF evs
  <2>2. n \in Nat
    BY <2>1, LenProperties
  <2> QED
    BY <2>1, <2>2, ElementOfSeq
<1>2. /\ WriteRequest(m) = <<HW, P>> \o FlattenSeq(ws)
      /\ MapRequest(m) = <<HM, P>> \o FlattenSeq(ms)
      /\ WriteResponse(m) = <<HK, P>> \o FlattenSeq(ks)
      /\ ReadResponse(m) = <<HK, P>> \o FlattenSeq(ks)
  <2>1. /\ WriteRequest(m) = WriteEvents(evs) /\ MapRequest(m) = MapEvents(evs)
        /\ WriteResponse(m) = SkipEvents(evs) /\ ReadResponse(m) = SkipEvents(evs)
    BY <1>1 DEF WriteRequest, MapRequest, WriteResponse, ReadResponse, Payload, Cursors, VstEventsOut
  <2> QED
    BY <2>1, EventSteps
<1>3. /\ room \in Nat /\ room \in Aligned /\ EvHeaderSize \in Nat /\ EvHeaderSize \in Aligned
      /\ F("header") \in FieldName /\ F("ptrs") \in FieldName /\ o \in Nat
  <2> HIDE DEF n
  <2>1. room \in Nat /\ room % 8 = 0
    BY <1>1 DEF EventSize
  <2> QED
    BY <2>1, FieldNames DEF EvHeaderSize, Aligned
<1>4. /\ HW \in AnyStep /\ HW.size = EvHeaderSize /\ HW.field = F("header") /\ HW.op = "write"
      /\ HM \in AnyStep /\ HM.size = EvHeaderSize /\ HM.field = F("header")
      /\ HK \in AnyStep /\ HK.op = "skip"
      /\ P \in AnyStep /\ P.size = room /\ P.op = "skip"
  <2> HIDE DEF room
  <2> QED
    BY <1>3, StepTypes
<1>5. HW.op \in puts /\ ~(P.op \in looks)
  <2> HIDE DEF HW, P
  <2> QED
    BY <1>4
<1>6. ms = [i \in 1 .. n |-> ms[i]] /\ ws = [i \in 1 .. n |-> ws[i]] /\ ks = [i \in 1 .. n |-> ks[i]]
  OBVIOUS
<1>7. \A i \in 1 .. n : /\ ms[i] = MappedEvent(evs[i], i) /\ ws[i] = WrittenEvent(evs[i], i)
                        /\ ks[i] = SkippedEvent(evs[i], i) /\ evs[i] \in Events /\ i \in Nat
  BY <1>1
<1> HIDE DEF evs, n, room, ms, ws, ks, HW, HM, HK, P
<1>8. \A S : BlocksFind(ms, looks, ws, puts, S, n)
  BY <1>7, EventsMeet DEF BlocksFind
<1>9. \A i \in 1 .. n : ks[i] \in Seq(skips)
  <2>1. 0 \in Aligned
    BY DEF Aligned
  <2> QED
    BY <1>7, <2>1, EventsMeet
<1>10. \A S : /\ <<HM, P>> \in Seq(AnyStep) /\ <<HW, P>> \in Seq(AnyStep)
              /\ Finds(<<HM, P>>, looks, <<HW, P>>, puts, o, S)
              /\ Total(<<HW, P>>, o) \in Aligned
  <2> HIDE DEF looks, puts
  <2> QED
    BY <1>3, <1>4, <1>5, TwoPairs
<1>11. \A S : /\ MapRequest(m) \in Seq(AnyStep) /\ WriteRequest(m) \in Seq(AnyStep)
              /\ Finds(MapRequest(m), looks, WriteRequest(m), puts, o, S)
              /\ Total(WriteRequest(m), o) \in Aligned
  <2> TAKE S
  <2> DEFINE h == <<HM, P>>
             k == <<HW, P>>
  <2>1. /\ h \in Seq(AnyStep) /\ k \in Seq(AnyStep)
        /\ Finds(h, looks, k, puts, o, S) /\ Total(k, o) \in Aligned
    BY <1>10
  <2>2. BlocksFind(ms, looks, ws, puts, S, n)
    BY <1>8
  <2>3. MapRequest(m) = h \o FlattenSeq(ms) /\ WriteRequest(m) = k \o FlattenSeq(ws)
    BY <1>2
  <2> HIDE DEF h, k, looks, puts
  <2>4. /\ h \o FlattenSeq(ms) \in Seq(AnyStep) /\ k \o FlattenSeq(ws) \in Seq(AnyStep)
        /\ Finds(h \o FlattenSeq(ms), looks, k \o FlattenSeq(ws), puts, o, S)
        /\ Total(k \o FlattenSeq(ws), o) \in Aligned
    BY <1>1, <1>6, <2>1, <2>2, HeadAndBlocks
  <2> QED
    BY <2>3, <2>4
<1>12. <<HK, P>> \o FlattenSeq(ks) \in Seq(skips)
  <2> DEFINE h == <<HK, P>>
  <2>1. FlattenSeq(ks) \in Seq(skips)
    <3> HIDE DEF skips
    <3> QED
      BY <1>1, <1>6, <1>9, FlattenedIn
  <2>2. HK \in skips /\ P \in skips
    BY <1>4
  <2>3. h \in Seq(skips)
    <3> HIDE DEF skips
    <3> QED
      BY <2>2
  <2> HIDE DEF h, skips
  <2>4. h \o FlattenSeq(ks) \in Seq(skips)
    BY <2>1, <2>3, ConcatProperties
  <2> QED
    BY <2>4 DEF h, skips
<1>13. \A ops, S, U : "skip" \notin ops => <<HK, P>> \o FlattenSeq(ks) \in Seq(Only(ops, S, U))
  <2> TAKE ops, S, U
  <2> SUFFICES ASSUME "skip" \notin ops
               PROVE  <<HK, P>> \o FlattenSeq(ks) \in Seq(Only(ops, S, U))
    OBVIOUS
  <2> DEFINE T == Only(ops, S, U)
  <2>1. skips \subseteq T
    BY DEF Only
  <2> HIDE DEF T, skips
  <2>2. <<HK, P>> \o FlattenSeq(ks) \in Seq(T)
    BY <1>12, <2>1, SeqMonotonic
  <2> QED
    BY <2>2 DEF T
<1>14. WriteResponse(m) \in Seq(AnyStep) /\ ReadResponse(m) \in Seq(AnyStep)
  <2>1. skips \subseteq AnyStep
    OBVIOUS
  <2> HIDE DEF skips
  <2> QED
    BY <1>2, <1>12, <2>1, SeqMonotonic
<1>15. AnswerPlaces(m, o) = {}
  <2> DEFINE none == {}
  <2>1. "skip" \notin puts
    OBVIOUS
  <2> HIDE DEF none
  <2>2. WriteResponse(m) \in Seq(Only(puts, FieldName, none))
    <3> HIDE DEF puts
    <3> QED
      BY <1>2, <1>13, <2>1
  <2> QED
    BY <2>2, NoAnswers DEF none
<1>16. ResultPlaces(m, o) = {}
  <2> DEFINE none == {}
             reads == {"read"}
             Seen == Outputs(m) \cup {F("chunk"), F("rect")}
  <2>1. "skip" \notin reads
    OBVIOUS
  <2>2. ReadResponse(m) \in Seq(Only(reads, Seen, none))
    <3> HIDE DEF reads, Seen, none
    <3> QED
      BY <1>2, <1>13, <2>1
  <2> QED
    BY <2>2, NoResults
<1> QED
  BY <1>11, <1>14, <1>15, <1>16 DEF Consistent

------------------------------------------------------------------------------
(* What the layouts of the two programs agree on *)

\* Payloads whose parts all end where an aligned one may begin.
AlignedPayloads ==
  [kind : {"none"}]
    \cup {p \in [kind : {"str_in"}, size : Nat] : IntSize + p.size \in Aligned}
    \cup [kind : {"str_out"}, size : Aligned]
    \cup [kind : {"inout"}, size : Aligned, align : Alignments]
    \cup [kind : {"chunk"}, size : Nat]
    \cup [kind : {"rect"}, present : BOOLEAN]
    \cup EventPayloads \cup AudioPayloads

\* Strings and nothing else, at any offset: the four cursors of msg::io::buf
\* walk the same memory.  The callee's ends where the caller's did, it reads
\* what was written, its outputs lie in the request and apart from the rest,
\* and what the caller reads back is what the callee wrote or stored.
THEOREM StringsAgree ==
  \A m \in StringPayloads, o \in Nat : Agreed(m, o) /\ o + Total(WriteRequest(m), o) \in Nat
<1> SUFFICES ASSUME NEW m \in StringPayloads, NEW o \in Nat
             PROVE  Agreed(m, o) /\ o + Total(WriteRequest(m), o) \in Nat
  OBVIOUS
<1>1. Agreed(m, o)
  BY StringsConsistent, ConsistentAgreed
<1> QED
  BY <1>1 DEF Agreed

\* Payloads whose parts are multiples of 8, from such an offset: the same, and
\* the next call starts at such an offset again, and the pointer of effGetChunk
\* and effEditGetRect is mapped where it was written.
THEOREM AlignedAgree ==
  \A m \in AlignedPayloads, o \in Aligned :
    /\ Agreed(m, o)
    /\ o + Total(WriteRequest(m), o) \in Aligned
    /\ m.kind \in {"chunk", "rect"} => OutputPlaces(m, o) = RequestPlaces(m, o)
<1> SUFFICES ASSUME NEW m \in AlignedPayloads, NEW o \in Aligned
             PROVE  /\ Agreed(m, o)
                    /\ o + Total(WriteRequest(m), o) \in Aligned
                    /\ m.kind \in {"chunk", "rect"} => OutputPlaces(m, o) = RequestPlaces(m, o)
  OBVIOUS
<1>1. o \in Nat /\ 0 \in Aligned /\ PtrSize \in Aligned
  BY DEF Aligned, PtrSize
<1>2. Consistent(m, o) /\ Total(WriteRequest(m), o) \in Aligned
  <2>1. CASE m \in [kind : {"none"}]
    <3>1. m \in StringPayloads /\ m.kind = "none"
      BY <2>1 DEF StringPayloads
    <3> QED
      BY <1>1, <3>1, StringsConsistent
  <2>2. CASE m \in {p \in [kind : {"str_in"}, size : Nat] : IntSize + p.size \in Aligned}
    <3>1. m \in StringPayloads /\ m.kind = "str_in" /\ IntSize + m.size \in Aligned
      BY <2>2 DEF StringPayloads
    <3> QED
      BY <1>1, <3>1, StringsConsistent
  <2>3. CASE m \in [kind : {"str_out"}, size : Aligned]
    <3>1. m \in StringPayloads /\ m.kind = "str_out" /\ m.size \in Aligned
      BY <2>3 DEF StringPayloads, Aligned
    <3> QED
      BY <1>1, <3>1, StringsConsistent
  <2>4. CASE m \in [kind : {"inout"}, size : Aligned, align : Alignments]
    <3>1. m.kind = "inout" /\ m.size \in Nat /\ m.size \in Aligned /\ m.align \in Alignments
      BY <2>4 DEF Aligned
    <3> QED
      BY <3>1, StructuresConsistent
  <2>5. CASE m \in [kind : {"chunk"}, size : Nat]
    <3>1. m.kind = "chunk" /\ m.size \in Nat /\ m.kind \in {"chunk", "rect"}
      BY <2>5
    <3> QED
      BY <1>1, <3>1, ChunksConsistent, PointersMapped
  <2>6. CASE m \in [kind : {"rect"}, present : BOOLEAN]
    <3>1. m.kind = "rect" /\ m.present \in BOOLEAN /\ m.kind \in {"chunk", "rect"}
      BY <2>6
    <3> QED
      BY <1>1, <3>1, RectsConsistent, PointersMapped
  <2>7. CASE m \in EventPayloads
    BY <2>7, EventsConsistent
  <2>8. CASE m \in AudioPayloads
    BY <2>8, ProcessConsistent
  <2> QED
    BY <2>1, <2>2, <2>3, <2>4, <2>5, <2>6, <2>7, <2>8 DEF AlignedPayloads
<1>3. Agreed(m, o)
  BY <1>1, <1>2, ConsistentAgreed
<1>4. o + Total(WriteRequest(m), o) \in Aligned
  BY <1>2, AlignedSum
<1>5. m.kind \in {"chunk", "rect"} => OutputPlaces(m, o) = RequestPlaces(m, o)
  BY PointersMapped
<1> QED
  BY <1>3, <1>4, <1>5
==============================================================================
