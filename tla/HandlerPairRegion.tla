-------------------------- MODULE HandlerPairRegion --------------------------
(***************************************************************************)
(* A handler pair whose shared memory ends where mmap's does.  No code     *)
(* compares an offset with the size of the region: that a call fits is a   *)
(* matter of what the two programs pass, and of offsets that come back to  *)
(* where they were.                                                        *)
(*                                                                         *)
(* Source: common/shm/shm.{hpp,cpp}.                                       *)
(***************************************************************************)
EXTENDS HandlerPair

initial_size == 1024 * 1024

Frames == UNION {{stack[s][i] : i \in DOMAIN stack[s]} : s \in Sides}

\* Nothing is written past the end of the region, and nothing is mapped there:
\* after any number of calls, nested in each other, that return or fail, the
\* next one starts early enough.  The comment above chunk_out says of the
\* contents that take the place of a pointer that they "will obviously be larger
\* than the pointer, but that's okay" (request.hpp:236-237).
FitsRegion ==
  /\ \A e \in mem : e.hi <= initial_size
  /\ \A f \in Frames : f.off + f.size <= initial_size

------------------------------------------------------------------------------
\* What the two programs have to see to, since no code does.

\* A call of m at offset o, and its answer, end inside the region.
Fit(m, o) ==
  /\ o + Total(WriteRequest(m), o) <= initial_size
  /\ \A p \in AnswerPlaces(m, o) : p.hi <= initial_size

\* The n-th of the open calls of a pair that is not the primary one: the client
\* makes the first.
CallsAt(n) == IF n % 2 = 1 THEN EffectCalls ELSE HostCalls

\* The n-th open call starts at one of starts[n], and fits from each; so do the
\* calls of the primary pair, which are not nested.
CallsFit(starts) ==
  /\ 0 \in starts[1]
  /\ \A n \in 1 .. MaxDepth : \A o \in starts[n], m \in CallsAt(n) :
       Fit(m, o) /\ o + Total(WriteRequest(m), o) \in starts[n + 1]
  /\ \A m \in HostCalls \cup {Instantiate} : Fit(m, 0)
==============================================================================
