-------------------------------- MODULE Routing --------------------------------
(***************************************************************************)
(* Which handler a callback goes out through.  The plugin calls            *)
(* audio_master without saying on whose behalf, so the Windows process     *)
(* keeps a map from thread ids to the server_t that runs on the thread.    *)
(* Threads come and go with the handlers; Windows gives the id of one that *)
(* has ended to another; and a thread that an exception ends does not      *)
(* remove its entry.                                                       *)
(*                                                                         *)
(* A handler is known by the number of its thread, the main one's being 1. *)
(* What travels through a handler is HandlerPair's matter, how it is       *)
(* opened and closed that of Handlers.  The plugin may also call back from *)
(* threads of its own, which have no handler: get_server finds nothing for *)
(* them, puts a null pointer into the map and returns it, and its use ends *)
(* the process.                                                            *)
(*                                                                         *)
(* Source: server/shared_t.cpp, server/main.cpp, server/server_t.cpp.      *)
(***************************************************************************)
EXTENDS Naturals, Sequences, SequencesExt, Functions

CONSTANTS Tids,          \* thread ids
          MaxHandlers,   \* bound on the handlers there ever are
          MaxNested      \* bound on the callbacks open on one thread

ASSUME BoundsAssumption == MaxHandlers \in Nat \ {0} /\ MaxNested \in Nat

VARIABLES at,             \* what the thread of each handler does
          tid,            \* its id
          routes,         \* the handlers its open callbacks went out through
          own,            \* id of a thread of the plugin's own |-> <<>> while it
                          \* is in get_server, then what it was given, <<r>>
          tid_to_server   \* thread id |-> handler

vars == <<at, tid, routes, own, tid_to_server>>

Handlers == DOMAIN at
Null == 0

\* "construct" is the server_t's constructor, "code" the plugin's code on this
\* thread, "callback" the host's on the other end, "leave" the way from run to
\* remove_server; "lookup", "adding" and "erasing" are get_server, add_server and
\* remove_server behind their lock of tid_to_server_mutex.  A thread that has
\* gone or failed has destroyed its server_t.
Ended(k) == at[k] \in {"gone", "failed"}

\* A null pointer is in the map only under the id of a thread of the plugin's
\* own that has looked itself up.
TypeOK ==
  /\ at \in Seq({"construct", "add", "adding", "run", "code", "lookup", "callback",
                  "leave", "erasing", "gone", "failed"})
  /\ tid \in Seq(Tids) /\ Len(tid) = Len(at)
  /\ routes \in Seq(Seq(Nat)) /\ Len(routes) = Len(at)
  /\ DOMAIN tid_to_server \subseteq Tids
  /\ DOMAIN own \subseteq Tids
  /\ \A i \in DOMAIN own : own[i] \in Seq(Nat) /\ Len(own[i]) <= 1
  /\ \A i \in DOMAIN tid_to_server :
       \/ tid_to_server[i] \in Handlers
       \/ tid_to_server[i] = Null /\ i \in DOMAIN own /\ own[i] = <<Null>>

Init ==
  /\ at = <<"construct">>
  /\ \E i \in Tids : tid = <<i>>
  /\ routes = << <<>> >>
  /\ own = <<>>
  /\ tid_to_server = <<>>

------------------------------------------------------------------------------
\* WinMain has not returned.
Up == ~Ended(1)

Goes(k, from, to) == Up /\ at[k] = from /\ at' = [at EXCEPT ![k] = to]

\* Ids of threads there are; Windows gives a new one any other.
Taken == {tid[k] : k \in {h \in Handlers : ~Ended(h)}} \cup DOMAIN own

\* Who holds tid_to_server_mutex.
Excluded == \E k \in Handlers : at[k] \in {"adding", "erasing"}
Shared   == (\E k \in Handlers : at[k] = "lookup") \/ \E i \in DOMAIN own : own[i] = <<>>

\* instantiate_handler, on the main thread: CreateThread.
StartThread ==
  /\ Up /\ at[1] = "run" /\ Len(at) < MaxHandlers
  /\ at' = Append(at, "construct")
  /\ \E i \in Tids \ Taken : tid' = Append(tid, i)
  /\ routes' = Append(routes, <<>>)
  /\ UNCHANGED <<own, tid_to_server>>

Construct(k) ==
  /\ Goes(k, "construct", "add")
  /\ UNCHANGED <<tid, routes, own, tid_to_server>>

With(map, i, k) == [j \in DOMAIN map \cup {i} |-> IF j = i THEN k ELSE map[j]]

\* Mistakes the properties notice stand before what they replace.  Here: a
\* shared_lock, as in get_server.
LockToAdd_bug(k) ==
  /\ ~Excluded
  /\ Goes(k, "add", "adding")
  /\ UNCHANGED <<tid, routes, own, tid_to_server>>
LockToAdd(k) ==
  /\ ~Excluded /\ ~Shared
  /\ Goes(k, "add", "adding")
  /\ UNCHANGED <<tid, routes, own, tid_to_server>>

\* add_server: an id that is in the map keeps its entry.  Then run, and on the
\* main thread first the plugin's VSTPluginMain.  The mistake: the main thread's
\* server is added when the effect is there.
AddServer_bug(k) ==
  /\ Goes(k, "adding", IF k = 1 THEN "code" ELSE "run")
  /\ tid_to_server' = IF k = 1 \/ tid[k] \in DOMAIN tid_to_server
                        THEN tid_to_server ELSE With(tid_to_server, tid[k], k)
  /\ UNCHANGED <<tid, routes, own>>
AddServer(k) ==
  /\ Goes(k, "adding", IF k = 1 THEN "code" ELSE "run")
  /\ tid_to_server' = IF tid[k] \in DOMAIN tid_to_server
                        THEN tid_to_server ELSE With(tid_to_server, tid[k], k)
  /\ UNCHANGED <<tid, routes, own>>

\* A call from the host, to a thread that waits for one or for the answer to
\* its own, and its return.
Called(k) ==
  /\ \E from \in {"run", "callback"} : Goes(k, from, "code")
  /\ UNCHANGED <<tid, routes, own, tid_to_server>>
Return(k) ==
  /\ Goes(k, "code", IF routes[k] = <<>> THEN "run" ELSE "callback")
  /\ UNCHANGED <<tid, routes, own, tid_to_server>>

\* audio_master: get_server, whose operator[] adds a null pointer for an id that
\* is not in the map; and the callback's return.
GetServer(k) ==
  /\ Len(routes[k]) < MaxNested /\ ~Excluded
  /\ Goes(k, "code", "lookup")
  /\ UNCHANGED <<tid, routes, own, tid_to_server>>
AudioMaster(k) ==
  /\ Goes(k, "lookup", "callback")
  /\ tid_to_server' = IF tid[k] \in DOMAIN tid_to_server
                        THEN tid_to_server ELSE With(tid_to_server, tid[k], Null)
  /\ routes' = [routes EXCEPT ![k] = Append(@, tid_to_server'[tid[k]])]
  /\ UNCHANGED <<tid, own>>
CallbackReturns(k) ==
  /\ Goes(k, "callback", "code")
  /\ routes' = [routes EXCEPT ![k] = Front(@)]
  /\ UNCHANGED <<tid, own, tid_to_server>>

\* The same on a thread the plugin has started, in VSTPluginMain or later; and
\* the use of what it got, a null pointer or a server_t that is gone.
OwnGetServer(i) ==
  /\ Up /\ at[1] \notin {"construct", "add", "adding"}
  /\ i \notin Taken /\ ~Excluded
  /\ own' = [j \in DOMAIN own \cup {i} |-> IF j = i THEN <<>> ELSE own[j]]
  /\ UNCHANGED <<at, tid, routes, tid_to_server>>
OwnAudioMaster(i) ==
  /\ Up /\ own[i] = <<>>
  /\ tid_to_server' = IF i \in DOMAIN tid_to_server
                        THEN tid_to_server ELSE With(tid_to_server, i, Null)
  /\ own' = [own EXCEPT ![i] = <<tid_to_server'[i]>>]
  /\ UNCHANGED <<at, tid, routes>>
Crash(i) ==
  /\ Up /\ own[i] # <<>>
  /\ at' = [at EXCEPT ![1] = "failed"]
  /\ UNCHANGED <<tid, routes, own, tid_to_server>>

\* run has received its return; the main thread's block ends then, without a
\* remove_server.
Stop(k) ==
  /\ routes[k] = <<>>
  /\ Goes(k, "run", IF k = 1 THEN "gone" ELSE "leave")
  /\ UNCHANGED <<tid, routes, own, tid_to_server>>

\* The end of start_thread.
LockToErase(k) ==
  /\ ~Excluded /\ ~Shared
  /\ Goes(k, "leave", "erasing")
  /\ UNCHANGED <<tid, routes, own, tid_to_server>>
RemoveServer_bug(k) ==
  /\ Goes(k, "erasing", "gone")
  /\ UNCHANGED <<tid, routes, own, tid_to_server>>
RemoveServer(k) ==
  /\ Goes(k, "erasing", "gone")
  /\ tid_to_server' = Restrict(tid_to_server, DOMAIN tid_to_server \ {tid[k]})
  /\ UNCHANGED <<tid, routes, own>>

\* An exception, from the constructor, from message_read or message_write, from
\* an unknown message, through the plugin's code if need be; start_thread or
\* WinMain catches it behind the server_t.
Throw(k) ==
  /\ \E from \in {"construct", "run", "code", "callback"} : Goes(k, from, "failed")
  /\ routes' = [routes EXCEPT ![k] = <<>>]
  /\ UNCHANGED <<tid, own, tid_to_server>>

Over == ~Up /\ UNCHANGED vars

Next ==
  \/ StartThread
  \/ \E k \in Handlers :
       \/ Construct(k) \/ LockToAdd(k) \/ AddServer(k)
       \/ Called(k) \/ Return(k) \/ GetServer(k) \/ AudioMaster(k) \/ CallbackReturns(k)
       \/ Stop(k) \/ LockToErase(k) \/ RemoveServer(k) \/ Throw(k)
  \/ \E i \in Tids : OwnGetServer(i)
  \/ \E i \in DOMAIN own : OwnAudioMaster(i) \/ Crash(i)
  \/ Over

Spec == Init /\ [][Next]_vars

------------------------------------------------------------------------------
\* Where a callback from the plugin's code on thread k may go.
Home(k, r) == r = k \/ (r \in 1 .. k - 1 /\ tid[r] = tid[k] /\ at[r] = "failed")

\* A callback goes out through the handler whose thread the plugin was called
\* on, and so to the host's thread that made the call.  The one exception is an
\* id that came to this thread from one that an exception had ended: then it is
\* the server_t of that thread, which is gone.  It is never another handler
\* in use, whose two ends would lose step, and never one that left in order.
\* Nor is a handler in use given to a thread of the plugin's own, which gets null
\* or, by the same exception, a server_t that is gone (shared_t.cpp:6).
CallbacksRouted ==
  /\ \A k \in Handlers : \A n \in DOMAIN routes[k] : Home(k, routes[k][n])
  /\ \A i \in DOMAIN own : own[i] # <<>> =>
       LET r == own[i][1]
       IN  r = Null \/ (r \in Handlers /\ tid[r] = i /\ at[r] = "failed")

\* A handler's thread that changes the map is alone in it.  add_server and
\* remove_server have locked everybody else out; get_server, which locks nobody
\* out that looks up too, changes nothing: the entry was made before the plugin
\* could be called on the thread, and stays until it cannot be any more.  Only a
\* thread of the plugin's own inserts behind the shared lock.
InMap(k)   == at[k] \in {"adding", "lookup", "erasing"}
Changes(k) == at[k] \in {"adding", "erasing"} \/ (at[k] = "lookup" /\ tid[k] \notin DOMAIN tid_to_server)
ChangesAlone ==
  \A k \in Handlers : Changes(k) =>
    (\A j \in Handlers \ {k} : ~InMap(j)) /\ \A i \in DOMAIN own : own[i] # <<>>
==============================================================================
