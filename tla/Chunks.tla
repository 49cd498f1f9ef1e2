-------------------------------- MODULE Chunks --------------------------------
(***************************************************************************)
(* The memory that the client allocates for effGetChunk.  read_response    *)
(* copies the plugin's chunk into it when the answer has come; it stays in *)
(* the shared_t until an effMainsChanged returns, on whatever thread, or   *)
(* the plugin_t is deleted.  The host calls from several threads, and from *)
(* within the callbacks of a call that is still open.                      *)
(*                                                                         *)
(* Only one lock is between them, allocated_chunks_mutex, and only around  *)
(* the vector: what a thread does in between is a step of its own.         *)
(*                                                                         *)
(* Source: client/shared_t.cpp, client/callbacks.cpp, payload/request.hpp. *)
(***************************************************************************)
EXTENDS Naturals, Sequences, SequencesExt

CONSTANTS Threads,    \* threads of the host
          Chunks,     \* addresses the allocator hands out
          None,       \* no chunk
          MaxDepth    \* bound on the nesting of calls

ASSUME NoneAssumption == None \notin Chunks

VARIABLES calls,             \* the open dispatcher calls of each thread
          live,              \* chunks that are allocated
          allocated_chunks,  \* those in the vector
          deleted            \* delete &plugin

vars == <<calls, live, allocated_chunks, deleted>>

\* Where a call is: its answer is awaited; then read_response of effGetChunk,
\* and clear_chunks after effMainsChanged.  At "pushed" allocate_chunk has
\* unlocked and returned, and the copy has not begun.
Awaited == "awaited"
Holding == {"allocated", "pushing", "pushed", "copying"}

Call == [op : {"effGetChunk", "effMainsChanged", "effClose"},
         at : {Awaited, "measuring", "clearing"} \cup Holding,
         chunk : Chunks \cup {None}]

TypeOK ==
  /\ calls \in [Threads -> Seq(Call)]
  /\ live \subseteq Chunks /\ allocated_chunks \subseteq Chunks
  /\ deleted \in BOOLEAN

Init ==
  /\ calls = [t \in Threads |-> <<>>]
  /\ live = {} /\ allocated_chunks = {}
  /\ deleted = FALSE

------------------------------------------------------------------------------
Open(t) == calls[t] # <<>>
Top(t) == Last(calls[t])
Is(t, op, at) == Open(t) /\ Top(t).op = op /\ Top(t).at = at
Goes(t, call) == calls' = [calls EXCEPT ![t] = Append(Front(@), call)]
Returns(t) == calls' = [calls EXCEPT ![t] = Front(@)]

\* Between the two ends of a lock_guard on allocated_chunks_mutex.
Locked(t) == Open(t) /\ Top(t).at \in {"pushing", "clearing"}
Unlocked == \A t \in Threads : ~Locked(t)

\* aeffect_dispatcher_proc, up to send_dispatcher.  The host's code calls, at
\* its own level or in a callback; it calls effClose last, and from its own level.
Dispatch(t, op) ==
  /\ ~deleted
  /\ \A u \in Threads : Open(u) => Top(u).op # "effClose"
  /\ IF op = "effClose" THEN \A u \in Threads : ~Open(u)
     ELSE Len(calls[t]) < MaxDepth /\ (Open(t) => Top(t).at = Awaited)
  /\ calls' = [calls EXCEPT ![t] = Append(@, [op |-> op, at |-> Awaited, chunk |-> None])]
  /\ UNCHANGED <<live, allocated_chunks, deleted>>

\* send_dispatcher throws: the server is gone.  The host catches at its own level.
Throw(t) ==
  /\ Open(t) /\ Top(t).at = Awaited
  /\ calls' = [calls EXCEPT ![t] = <<>>]
  /\ UNCHANGED <<live, allocated_chunks, deleted>>

------------------------------------------------------------------------------
\* chunk_out::read_response and allocate_chunk.

\* Mistakes the properties notice stand before what they replace.  Here: the
\* chunk is allocated with the request, before anything can call back.
Allocate_bug(t) ==
  /\ Is(t, "effGetChunk", Awaited)
  /\ \/ /\ Top(t).chunk = None
        /\ \E c \in Chunks \ live :
             /\ Goes(t, [Top(t) EXCEPT !.chunk = c])
             /\ live' = live \cup {c} /\ allocated_chunks' = allocated_chunks \cup {c}
     \/ /\ Top(t).chunk # None
        /\ Goes(t, [Top(t) EXCEPT !.at = "pushed"])
        /\ UNCHANGED <<live, allocated_chunks>>
  /\ UNCHANGED deleted
Allocate(t) ==
  /\ Is(t, "effGetChunk", Awaited)
  /\ \E c \in Chunks \ live :
       /\ Goes(t, [Top(t) EXCEPT !.at = "allocated", !.chunk = c])
       /\ live' = live \cup {c}
  /\ UNCHANGED <<allocated_chunks, deleted>>

\* get() after the unique_ptr has been moved from.
Lock_bug(t) ==
  /\ Is(t, "effGetChunk", "allocated") /\ Unlocked
  /\ Goes(t, [Top(t) EXCEPT !.at = "pushing", !.chunk = None])
  /\ UNCHANGED <<live, allocated_chunks, deleted>>
Lock(t) ==
  /\ Is(t, "effGetChunk", "allocated") /\ Unlocked
  /\ Goes(t, [Top(t) EXCEPT !.at = "pushing"])
  /\ UNCHANGED <<live, allocated_chunks, deleted>>

\* push_back, and the end of allocate_chunk, which unlocks.  The mistake: release()
\* where get() was meant.
PushBack_bug(t) ==
  /\ Is(t, "effGetChunk", "pushing")
  /\ Goes(t, [Top(t) EXCEPT !.at = "pushed"])
  /\ UNCHANGED <<live, allocated_chunks, deleted>>
PushBack(t) ==
  /\ Is(t, "effGetChunk", "pushing")
  /\ Goes(t, [Top(t) EXCEPT !.at = "pushed"])
  /\ allocated_chunks' = allocated_chunks \cup {Top(t).chunk}
  /\ UNCHANGED <<live, deleted>>

\* read_data_array.
BeginCopy(t) ==
  /\ Is(t, "effGetChunk", "pushed")
  /\ Goes(t, [Top(t) EXCEPT !.at = "copying"])
  /\ UNCHANGED <<live, allocated_chunks, deleted>>

\* The copy is done.  "ptr = &chunk" assigns to the parameter, which goes with
\* the frame: nobody is told of the chunk.
ReadResponse(t) ==
  /\ Is(t, "effGetChunk", "copying")
  /\ Returns(t)
  /\ UNCHANGED <<live, allocated_chunks, deleted>>

------------------------------------------------------------------------------
\* clear_chunks, after the answer to effMainsChanged.

\* size(), for the trace message, before it locks.
Measure(t) ==
  /\ Is(t, "effMainsChanged", Awaited)
  /\ Goes(t, [Top(t) EXCEPT !.at = "measuring"])
  /\ UNCHANGED <<live, allocated_chunks, deleted>>

\* Without the lock_guard.
LockToClear_bug(t) ==
  /\ Is(t, "effMainsChanged", "measuring")
  /\ Goes(t, [Top(t) EXCEPT !.at = "clearing"])
  /\ UNCHANGED <<live, allocated_chunks, deleted>>
LockToClear(t) ==
  /\ Is(t, "effMainsChanged", "measuring") /\ Unlocked
  /\ Goes(t, [Top(t) EXCEPT !.at = "clearing"])
  /\ UNCHANGED <<live, allocated_chunks, deleted>>

ClearChunks(t) ==
  /\ Is(t, "effMainsChanged", "clearing")
  /\ Returns(t)
  /\ live' = live \ allocated_chunks
  /\ allocated_chunks' = {}
  /\ UNCHANGED deleted

\* effClose: delete &plugin, with its shared_t and the vector in it.
DeletePlugin(t) ==
  /\ Is(t, "effClose", Awaited)
  /\ Returns(t)
  /\ live' = live \ allocated_chunks
  /\ allocated_chunks' = {}
  /\ deleted' = TRUE

Over == deleted /\ UNCHANGED vars

Next ==
  \/ \E t \in Threads :
       \/ \E op \in {"effGetChunk", "effMainsChanged", "effClose"} : Dispatch(t, op)
       \/ Throw(t)
       \/ Allocate(t) \/ Lock(t) \/ PushBack(t) \/ BeginCopy(t) \/ ReadResponse(t)
       \/ Measure(t) \/ LockToClear(t) \/ ClearChunks(t)
       \/ DeletePlugin(t)
  \/ Over

Spec == Init /\ [][Next]_vars

------------------------------------------------------------------------------
\* The memory that a read_response is going to copy to, or copies to, goes away in
\* one way only: clear_chunks on another thread.  An effMainsChanged in a callback
\* of the call or around it comes before or after, and calls that throw and effClose
\* free nothing that is still to be written (callbacks.cpp:35, request.hpp:265).
KeptUntilCopied ==
  [][\A t \in Threads : \A i \in DOMAIN calls[t] :
       calls[t][i].chunk \in live \ live' => \E u \in Threads \ {t} : ClearChunks(u)]_vars

\* One thread at a time changes the vector, and what is in it is allocated: the
\* two locks of shared_t.cpp keep a push_back out of a clear.
VectorExclusive ==
  /\ \A t, u \in Threads : Locked(t) /\ Locked(u) => t = u
  /\ allocated_chunks \subseteq live

\* A deleted plugin leaves no chunk behind, whatever calls threw or were nested
\* in each other before.
NothingLeaks == deleted => live = {}

------------------------------------------------------------------------------
\* "now, allocate a chunk of memory and copy what's in shm to it"
\* (request.hpp:263): what it copies to is allocated as long as it copies.  So it
\* is for a host that calls from one thread.
CopyTargetLive ==
  \A t \in Threads : Is(t, "effGetChunk", "copying") => Top(t).chunk \in live
==============================================================================
