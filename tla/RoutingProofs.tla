----------------------------- MODULE RoutingProofs -----------------------------
(***************************************************************************)
(* Routing for any thread ids and any number of handlers and of threads of *)
(* the plugin's own: callbacks find their way, and a handler that changes  *)
(* the map is alone in it.                                                 *)
(***************************************************************************)
EXTENDS Routing, SequenceTheorems, TLAPS

\* Threads whose server_t is in the map, or an older one under the same id.
Active == {"run", "code", "lookup", "callback", "leave", "erasing"}

\* Two threads have the same id only if the older one has ended; nobody gets
\* the main thread's.
IdsDiffer ==
  \A j, k \in Handlers : j < k /\ tid[j] = tid[k] => j # 1 /\ Ended(j)
OwnIdsDiffer ==
  \A i \in DOMAIN own : \A k \in Handlers : tid[k] = i => k # 1 /\ Ended(k)

\* An entry is made before its thread serves calls, and erased before the
\* thread ends, unless it is the main thread or an exception ends it.
Entry(i, r) ==
  /\ r \in Handlers /\ tid[r] = i
  /\ at[r] \in Active \cup {"failed"} \/ (r = 1 /\ ~Up)
EntriesKept ==
  /\ \A k \in Handlers : at[k] \in Active => tid[k] \in DOMAIN tid_to_server
  /\ \A i \in DOMAIN tid_to_server : tid_to_server[i] # Null => Entry(i, tid_to_server[i])

CallbacksOpen == \A k \in Handlers : at[k] = "callback" => routes[k] # <<>>

\* tid_to_server_mutex.
LockHeld ==
  \A k \in Handlers : at[k] \in {"adding", "erasing"} =>
    (\A j \in Handlers \ {k} : ~InMap(j)) /\ \A i \in DOMAIN own : own[i] # <<>>

IInv ==
  /\ TypeOK /\ at # <<>>
  /\ IdsDiffer /\ OwnIdsDiffer /\ EntriesKept /\ CallbacksOpen /\ CallbacksRouted
  /\ LockHeld

------------------------------------------------------------------------------
Ats == {"construct", "add", "adding", "run", "code", "lookup", "callback",
        "leave", "erasing", "gone", "failed"}

LEMMA TypeFacts ==
  ASSUME TypeOK
  PROVE  /\ Len(at) \in Nat /\ Handlers = 1 .. Len(at)
         /\ DOMAIN tid = Handlers /\ DOMAIN routes = Handlers
         /\ \A k \in Handlers : at[k] \in Ats /\ tid[k] \in Tids /\ routes[k] \in Seq(Nat)
<1>1. at \in Seq(Ats) /\ tid \in Seq(Tids) /\ routes \in Seq(Seq(Nat))
  BY DEF TypeOK, Ats
<1>2. Len(at) \in Nat /\ Handlers = 1 .. Len(at)
  BY <1>1, LenProperties DEF Handlers
<1>3. DOMAIN tid = Handlers /\ DOMAIN routes = Handlers
  BY <1>1, <1>2, LenProperties DEF TypeOK
<1>4. \A k \in Handlers : at[k] \in Ats /\ tid[k] \in Tids /\ routes[k] \in Seq(Nat)
  BY <1>1, <1>2, ElementOfSeq DEF TypeOK
<1> QED
  BY <1>2, <1>3, <1>4

LEMMA GoesFacts ==
  ASSUME TypeOK, NEW k \in Handlers, NEW from, NEW to \in Ats, Goes(k, from, to)
  PROVE  /\ Up /\ at[k] = from
         /\ at' \in Seq(Ats) /\ Len(at') = Len(at) /\ Handlers' = Handlers
         /\ at'[k] = to
         /\ \A j \in Handlers \ {k} : at'[j] = at[j]
<1>1. at \in Seq(Ats) /\ k \in 1 .. Len(at)
  BY TypeFacts DEF TypeOK, Ats
<1>2. /\ Up /\ at[k] = from
      /\ at' = [at EXCEPT ![k] = to]
  BY DEF Goes
<1>3. at' \in Seq(Ats) /\ Len(at') = Len(at)
  BY <1>1, <1>2, ExceptSeq
<1> QED
  BY <1>1, <1>2, <1>3 DEF Handlers

\* A thread goes on, without a change of the map.  It does not end, except by an
\* exception, and serves calls before and after or neither before nor after.
LEMMA Moves ==
  ASSUME IInv, NEW k \in Handlers, NEW from \in Ats \ {"gone", "failed"},
         NEW to \in Ats \ {"gone"}, Goes(k, from, to),
         from \in Active => to \in Active \cup {"failed"}, to \in Active => from \in Active,
         tid' = tid, own' = own, tid_to_server' = tid_to_server
  PROVE  /\ Handlers' = Handlers /\ at' \in Seq(Ats) /\ at' # <<>> /\ Len(at') = Len(at)
         /\ at[k] = from /\ at'[k] = to /\ \A j \in Handlers \ {k} : at'[j] = at[j]
         /\ IdsDiffer' /\ OwnIdsDiffer' /\ EntriesKept'
<1>1. /\ Up /\ at[k] = from
      /\ at' \in Seq(Ats) /\ Len(at') = Len(at) /\ Handlers' = Handlers
      /\ at'[k] = to
      /\ \A j \in Handlers \ {k} : at'[j] = at[j]
  BY GoesFacts DEF IInv
<1>2. at' # <<>>
  BY <1>1, TypeFacts, EmptySeq DEF IInv
<1>3. IdsDiffer' /\ OwnIdsDiffer'
  BY <1>1 DEF IInv, IdsDiffer, OwnIdsDiffer, Ended
<1>4. \A j \in Handlers' : at'[j] \in Active => tid'[j] \in DOMAIN tid_to_server'
  BY <1>1 DEF IInv, EntriesKept
<1>5. ASSUME NEW i \in DOMAIN tid_to_server', tid_to_server'[i] # Null
      PROVE  Entry(i, tid_to_server[i])'
  <2> DEFINE r == tid_to_server[i]
  <2>1. r \in Handlers /\ tid[r] = i /\ at[r] \in Active \cup {"failed"}
    BY <1>1, <1>5 DEF IInv, EntriesKept, Entry
  <2>2. at'[r] \in Active \cup {"failed"}
    BY <1>1, <2>1
  <2> QED
    BY <1>1, <2>1, <2>2 DEF Entry
<1> QED
  BY <1>1, <1>2, <1>3, <1>4, <1>5 DEF EntriesKept

\* A thread takes the lock it needs, or lets go of what it has.
LEMMA LockStays ==
  ASSUME IInv, NEW k \in Handlers, Handlers' = Handlers, own' = own,
         \A j \in Handlers \ {k} : at'[j] = at[j],
         \/ at'[k] \notin {"adding", "lookup", "erasing"}
         \/ at'[k] = "lookup" /\ ~Excluded
         \/ ~Excluded /\ ~Shared
  PROVE  LockHeld'
<1>1. \A j \in Handlers \ {k} : InMap(j)' <=> InMap(j)
  BY DEF InMap
<1>2. CASE at'[k] \notin {"adding", "lookup", "erasing"}
  BY <1>1, <1>2 DEF IInv, LockHeld, InMap
<1>3. CASE at'[k] = "lookup" /\ ~Excluded
  BY <1>3 DEF LockHeld, Excluded
<1>4. CASE ~Excluded /\ ~Shared
  BY <1>1, <1>4 DEF LockHeld, Excluded, Shared, InMap
<1> QED
  BY <1>2, <1>3, <1>4

\* The callbacks of one thread change, and no thread that has failed goes on.
LEMMA RoutesKept ==
  ASSUME IInv, NEW k \in Handlers, at[k] # "failed",
         Handlers' = Handlers, Len(at') = Len(at), tid' = tid, own' = own,
         \A j \in Handlers \ {k} : at'[j] = at[j],
         NEW q \in Seq(Nat), routes' = [routes EXCEPT ![k] = q],
         \A i \in DOMAIN q : Home(k, q[i]), at'[k] = "callback" => q # <<>>
  PROVE  /\ routes' \in Seq(Seq(Nat)) /\ Len(routes') = Len(at')
         /\ CallbacksRouted' /\ CallbacksOpen'
<1>1. /\ DOMAIN routes = Handlers /\ Handlers = 1 .. Len(at) /\ Len(at) \in Nat
      /\ routes \in Seq(Seq(Nat)) /\ Len(routes) = Len(at)
  BY TypeFacts DEF IInv, TypeOK
<1>2. routes' \in Seq(Seq(Nat)) /\ Len(routes') = Len(at')
  BY <1>1, ExceptSeq
<1>3. ASSUME NEW j \in Handlers', NEW i \in DOMAIN routes'[j]
      PROVE  Home(j, routes[j][i])'
  <2> DEFINE r == routes'[j][i]
  <2>1. Home(j, r)
    <3>1. CASE j = k
      BY <1>1, <3>1
    <3>2. CASE j # k
      BY <1>1, <3>2 DEF IInv, CallbacksRouted, Home
    <3> QED
      BY <3>1, <3>2
  <2>2. \A h \in 1 .. j - 1 : at[h] = "failed" => at'[h] = "failed"
    <3>1. j \in 1 .. Len(at)
      BY <1>1
    <3>2. \A h \in 1 .. j - 1 : h \in Handlers
      BY <1>1, <3>1
    <3> QED
      BY <3>2
  <2> HIDE DEF r
  <2> QED
    BY <2>1, <2>2 DEF Home, r
<1>4. CallbacksOpen'
  BY <1>1 DEF IInv, CallbacksOpen
<1>5. \A r \in Handlers : at[r] = "failed" => at'[r] = "failed"
  OBVIOUS
<1>6. \A i \in DOMAIN own' : own'[i] # <<>> =>
        LET r == own'[i][1]
        IN  r = Null \/ (r \in Handlers' /\ tid'[r] = i /\ at'[r] = "failed")
  BY <1>5 DEF IInv, CallbacksRouted
<1> QED
  BY <1>2, <1>3, <1>4, <1>6 DEF CallbacksRouted

\* The same, when no callback comes or goes.
LEMMA RoutesSame ==
  ASSUME IInv, NEW k \in Handlers, at[k] # "failed",
         Handlers' = Handlers, Len(at') = Len(at), tid' = tid, own' = own,
         \A j \in Handlers \ {k} : at'[j] = at[j],
         routes' = routes, at'[k] = "callback" => routes[k] # <<>>
  PROVE  /\ routes' \in Seq(Seq(Nat)) /\ Len(routes') = Len(at')
         /\ CallbacksRouted' /\ CallbacksOpen'
<1>1. DOMAIN routes = Handlers /\ routes[k] \in Seq(Nat) /\ routes \in Seq(Seq(Nat))
  BY TypeFacts DEF IInv, TypeOK
<1>2. routes' = [routes EXCEPT ![k] = routes[k]]
  BY <1>1, LenProperties
<1>3. \A i \in DOMAIN routes[k] : Home(k, routes[k][i])
  BY DEF IInv, CallbacksRouted, Home
<1> QED
  BY <1>1, <1>2, <1>3, RoutesKept

LEMMA FrontIsPrefix ==
  ASSUME NEW S, NEW q \in Seq(S), q # <<>>
  PROVE  /\ Front(q) \in Seq(S)
         /\ DOMAIN Front(q) \subseteq DOMAIN q
         /\ \A i \in DOMAIN Front(q) : Front(q)[i] = q[i]
<1>1. Len(q) \in Nat /\ Len(q) >= 1 /\ DOMAIN q = 1 .. Len(q)
  BY EmptySeq, LenProperties
<1>2. \A i \in 1 .. Len(q) - 1 : q[i] \in S
  BY <1>1, ElementOfSeq
<1>3. /\ Front(q) \in Seq(S) /\ Len(Front(q)) = Len(q) - 1
      /\ \A i \in 1 .. Len(q) - 1 : Front(q)[i] = q[i]
  BY <1>1, <1>2, SubSeqProperties DEF Front
<1> QED
  BY <1>1, <1>3, LenProperties

------------------------------------------------------------------------------
(* The steps *)

LEMMA InitHolds == Init => IInv
<1> SUFFICES ASSUME Init PROVE IInv
  OBVIOUS
<1>1. PICK i \in Tids : tid = <<i>>
  BY DEF Init
<1>2. /\ at = <<"construct">> /\ routes = << <<>> >> /\ tid_to_server = <<>> /\ own = <<>>
      /\ Handlers = {1}
  BY DEF Init, Handlers
<1>3. TypeOK /\ at # <<>>
  BY <1>1, <1>2 DEF TypeOK
<1>4. /\ IdsDiffer /\ OwnIdsDiffer /\ EntriesKept /\ CallbacksOpen /\ CallbacksRouted
      /\ LockHeld
  BY <1>1, <1>2 DEF IdsDiffer, OwnIdsDiffer, EntriesKept, CallbacksOpen, CallbacksRouted,
                    LockHeld, Active
<1> QED
  BY <1>3, <1>4 DEF IInv

\* Steps that change neither the map nor the callbacks.
LEMMA QuietStep ==
  ASSUME IInv, NEW k \in Handlers,
         \/ Construct(k) \/ LockToAdd(k) \/ Called(k) \/ Return(k) \/ GetServer(k)
         \/ (Stop(k) /\ k # 1) \/ LockToErase(k)
  PROVE  IInv'
<1>1. tid' = tid /\ routes' = routes /\ own' = own /\ tid_to_server' = tid_to_server
  BY DEF Construct, LockToAdd, Called, Return, GetServer, Stop, LockToErase
<1>2. PICK from \in Ats \ {"gone", "failed"}, to \in Ats \ {"gone"} :
        /\ Goes(k, from, to)
        /\ from \in Active => to \in Active \cup {"failed"}
        /\ to \in Active => from \in Active
        /\ to = "callback" => routes[k] # <<>>
        /\ \/ to \notin {"adding", "lookup", "erasing"}
           \/ to = "lookup" /\ ~Excluded
           \/ ~Excluded /\ ~Shared
  <2>1. CASE Construct(k)
    BY <2>1 DEF Construct, Ats, Active
  <2>2. CASE Called(k)
    BY <2>2 DEF Called, Ats, Active
  <2>3. CASE Return(k)
    <3>1. CASE routes[k] = <<>>
      BY <2>3, <3>1 DEF Return, Ats, Active
    <3>2. CASE routes[k] # <<>>
      BY <2>3, <3>2 DEF Return, Ats, Active
    <3> QED
      BY <3>1, <3>2
  <2>4. CASE Stop(k) /\ k # 1
    BY <2>4 DEF Stop, Ats, Active
  <2>5. CASE LockToAdd(k)
    BY <2>5 DEF LockToAdd, Ats, Active
  <2>6. CASE GetServer(k)
    BY <2>6 DEF GetServer, Ats, Active
  <2>7. CASE LockToErase(k)
    BY <2>7 DEF LockToErase, Ats, Active
  <2> QED
    BY <2>1, <2>2, <2>3, <2>4, <2>5, <2>6, <2>7
<1>3. /\ Handlers' = Handlers /\ at' \in Seq(Ats) /\ at' # <<>> /\ Len(at') = Len(at)
      /\ at[k] = from /\ at'[k] = to /\ \A j \in Handlers \ {k} : at'[j] = at[j]
      /\ IdsDiffer' /\ OwnIdsDiffer' /\ EntriesKept'
  BY <1>1, <1>2, Moves
<1>4. /\ routes' \in Seq(Seq(Nat)) /\ Len(routes') = Len(at')
      /\ CallbacksRouted' /\ CallbacksOpen'
  BY <1>1, <1>2, <1>3, RoutesSame
<1>5. LockHeld'
  BY <1>1, <1>2, <1>3, LockStays
<1>6. TypeOK'
  BY <1>1, <1>3, <1>4 DEF IInv, TypeOK, Ats
<1> QED
  BY <1>3, <1>4, <1>5, <1>6 DEF IInv

\* WinMain returns.
LEMMA MainStops ==
  ASSUME IInv, 1 \in Handlers, Stop(1)
  PROVE  IInv'
<1>1. /\ Goes(1, "run", "gone") /\ routes' = routes /\ tid' = tid
      /\ own' = own /\ tid_to_server' = tid_to_server
  BY DEF Stop
<1>2. /\ Up /\ at[1] = "run"
      /\ at' \in Seq(Ats) /\ Len(at') = Len(at) /\ Handlers' = Handlers
      /\ at'[1] = "gone" /\ \A j \in Handlers \ {1} : at'[j] = at[j]
  BY <1>1, GoesFacts DEF IInv, Ats
<1>3. at' # <<>>
  BY <1>2, TypeFacts, EmptySeq DEF IInv
<1>4. IdsDiffer' /\ OwnIdsDiffer'
  BY <1>1, <1>2 DEF IInv, IdsDiffer, OwnIdsDiffer, Ended
<1>5. EntriesKept'
  <2>1. ~Up'
    BY <1>2 DEF Up, Ended
  <2>2. \A j \in Handlers' : at'[j] \in Active => tid'[j] \in DOMAIN tid_to_server'
    BY <1>1, <1>2 DEF IInv, EntriesKept, Active
  <2>3. \A i \in DOMAIN tid_to_server' :
          tid_to_server'[i] # Null => Entry(i, tid_to_server[i])'
    BY <1>1, <1>2, <2>1 DEF IInv, EntriesKept, Entry
  <2> QED
    BY <2>2, <2>3 DEF EntriesKept
<1>6. /\ routes' \in Seq(Seq(Nat)) /\ Len(routes') = Len(at')
      /\ CallbacksRouted' /\ CallbacksOpen'
  BY <1>1, <1>2, RoutesSame
<1>7. LockHeld'
  BY <1>1, <1>2, LockStays
<1>8. TypeOK'
  BY <1>1, <1>2, <1>6 DEF IInv, TypeOK, Ats
<1> QED
  BY <1>3, <1>4, <1>5, <1>6, <1>7, <1>8 DEF IInv

LEMMA CallbackReturnsStep ==
  ASSUME IInv, NEW k \in Handlers, CallbackReturns(k)
  PROVE  IInv'
<1>1. /\ Goes(k, "callback", "code") /\ routes' = [routes EXCEPT ![k] = Front(@)]
      /\ tid' = tid /\ own' = own /\ tid_to_server' = tid_to_server
  BY DEF CallbackReturns
<1>2. /\ Handlers' = Handlers /\ at' \in Seq(Ats) /\ at' # <<>> /\ Len(at') = Len(at)
      /\ at[k] = "callback" /\ at'[k] = "code" /\ \A j \in Handlers \ {k} : at'[j] = at[j]
      /\ IdsDiffer' /\ OwnIdsDiffer' /\ EntriesKept'
  BY <1>1, Moves DEF Ats, Active
<1>3. routes[k] \in Seq(Nat) /\ routes[k] # <<>> /\ DOMAIN routes = Handlers
  BY <1>2, TypeFacts DEF IInv, CallbacksOpen
<1>4. /\ Front(routes[k]) \in Seq(Nat)
      /\ DOMAIN Front(routes[k]) \subseteq DOMAIN routes[k]
      /\ \A i \in DOMAIN Front(routes[k]) : Front(routes[k])[i] = routes[k][i]
  BY <1>3, FrontIsPrefix
<1>5. \A i \in DOMAIN Front(routes[k]) : Home(k, Front(routes[k])[i])
  BY <1>4 DEF IInv, CallbacksRouted, Home
<1>6. /\ routes' \in Seq(Seq(Nat)) /\ Len(routes') = Len(at')
      /\ CallbacksRouted' /\ CallbacksOpen'
  BY <1>1, <1>2, <1>3, <1>4, <1>5, RoutesKept
<1>7. LockHeld'
  BY <1>1, <1>2, LockStays
<1>8. TypeOK'
  BY <1>1, <1>2, <1>6 DEF IInv, TypeOK, Ats
<1> QED
  BY <1>2, <1>6, <1>7, <1>8 DEF IInv

LEMMA ThrowStep ==
  ASSUME IInv, NEW k \in Handlers, Throw(k)
  PROVE  IInv'
<1>1. /\ \E from \in {"construct", "run", "code", "callback"} : Goes(k, from, "failed")
      /\ routes' = [routes EXCEPT ![k] = <<>>]
      /\ tid' = tid /\ own' = own /\ tid_to_server' = tid_to_server
  BY DEF Throw
<1>2. /\ Handlers' = Handlers /\ at' \in Seq(Ats) /\ at' # <<>> /\ Len(at') = Len(at)
      /\ at[k] # "failed" /\ at'[k] = "failed" /\ \A j \in Handlers \ {k} : at'[j] = at[j]
      /\ IdsDiffer' /\ OwnIdsDiffer' /\ EntriesKept'
  BY <1>1, Moves DEF Ats, Active
<1>3. <<>> \in Seq(Nat) /\ \A i \in DOMAIN <<>> : Home(k, <<>>[i])
  OBVIOUS
<1>4. /\ routes' \in Seq(Seq(Nat)) /\ Len(routes') = Len(at')
      /\ CallbacksRouted' /\ CallbacksOpen'
  BY <1>1, <1>2, <1>3, RoutesKept
<1>5. LockHeld'
  BY <1>1, <1>2, LockStays
<1>6. TypeOK'
  BY <1>1, <1>2, <1>4 DEF IInv, TypeOK, Ats
<1> QED
  BY <1>2, <1>4, <1>5, <1>6 DEF IInv

\* The plugin's callback finds an entry, and it is its own thread's or one of a
\* thread that failed.
LEMMA AudioMasterStep ==
  ASSUME IInv, NEW k \in Handlers, AudioMaster(k)
  PROVE  IInv'
<1> DEFINE q == Append(routes[k], tid_to_server[tid[k]])
<1>1. Goes(k, "lookup", "callback") /\ tid' = tid /\ own' = own
  BY DEF AudioMaster
<1>2. /\ at[k] = "lookup" /\ Up
      /\ Handlers = 1 .. Len(at) /\ Len(at) \in Nat
  BY <1>1, TypeFacts DEF IInv, Goes
<1>3. tid[k] \in DOMAIN tid_to_server /\ tid_to_server[tid[k]] # Null
  <2>1. tid[k] \in DOMAIN tid_to_server
    BY <1>2 DEF IInv, EntriesKept, Active
  <2>2. tid[k] \notin DOMAIN own
    BY <1>2 DEF IInv, OwnIdsDiffer, Ended
  <2> QED
    BY <1>2, <2>1, <2>2 DEF IInv, TypeOK, Null
<1>4. tid_to_server' = tid_to_server /\ routes' = [routes EXCEPT ![k] = q]
  BY <1>3, TypeFacts DEF IInv, AudioMaster
<1>5. tid_to_server[tid[k]] \in Handlers /\ Home(k, tid_to_server[tid[k]])
  <2> DEFINE r == tid_to_server[tid[k]]
  <2>1. r \in Handlers /\ tid[r] = tid[k] /\ at[r] \in Active \cup {"failed"}
    BY <1>2, <1>3 DEF IInv, EntriesKept, Entry
  <2>2. CASE r < k
    BY <1>2, <2>1, <2>2 DEF IInv, IdsDiffer, Ended, Active, Home
  <2>3. CASE k < r
    BY <1>2, <2>1, <2>3 DEF IInv, IdsDiffer, Ended
  <2> QED
    BY <1>2, <2>1, <2>2, <2>3 DEF Home
<1>6. /\ Handlers' = Handlers /\ at' \in Seq(Ats) /\ at' # <<>> /\ Len(at') = Len(at)
      /\ at'[k] = "callback" /\ \A j \in Handlers \ {k} : at'[j] = at[j]
      /\ IdsDiffer' /\ OwnIdsDiffer' /\ EntriesKept'
  BY <1>1, <1>4, Moves DEF Ats, Active
<1>7. /\ q \in Seq(Nat) /\ q # <<>>
      /\ \A i \in DOMAIN q : Home(k, q[i])
  <2>1. routes[k] \in Seq(Nat) /\ tid_to_server[tid[k]] \in Nat
    BY <1>2, <1>5, TypeFacts DEF IInv
  <2>2. \A i \in DOMAIN routes[k] : Home(k, routes[k][i])
    BY DEF IInv, CallbacksRouted
  <2> QED
    BY <1>5, <2>1, <2>2, AppendProperties, LenProperties
<1>8. /\ routes' \in Seq(Seq(Nat)) /\ Len(routes') = Len(at')
      /\ CallbacksRouted' /\ CallbacksOpen'
  BY <1>1, <1>2, <1>4, <1>6, <1>7, RoutesKept
<1>9. LockHeld'
  BY <1>1, <1>6, LockStays
<1>10. TypeOK'
  BY <1>1, <1>4, <1>6, <1>8 DEF IInv, TypeOK, Ats
<1> QED
  BY <1>6, <1>8, <1>9, <1>10 DEF IInv

LEMMA AddServerStep ==
  ASSUME IInv, NEW k \in Handlers, AddServer(k)
  PROVE  IInv'
<1>1. PICK to \in {"code", "run"} : Goes(k, "adding", to)
  BY DEF AddServer
<1>2. /\ Up /\ at[k] = "adding"
      /\ at' \in Seq(Ats) /\ Len(at') = Len(at) /\ Handlers' = Handlers
      /\ at'[k] = to /\ \A j \in Handlers \ {k} : at'[j] = at[j]
  BY <1>1, GoesFacts DEF IInv, Ats
<1>3. /\ tid' = tid /\ routes' = routes /\ own' = own
      /\ DOMAIN tid_to_server' = DOMAIN tid_to_server \cup {tid[k]}
      /\ \A i \in DOMAIN tid_to_server : tid_to_server'[i] = tid_to_server[i]
      /\ tid[k] \notin DOMAIN tid_to_server => tid_to_server'[tid[k]] = k
  BY DEF AddServer, With
<1>4. at' # <<>> /\ \A j \in Handlers : tid[j] \in Tids
  BY <1>2, TypeFacts, EmptySeq DEF IInv
<1>5. IdsDiffer' /\ OwnIdsDiffer'
  BY <1>2, <1>3 DEF IInv, IdsDiffer, OwnIdsDiffer, Ended
<1>6. \A j \in Handlers' : at'[j] \in Active => tid'[j] \in DOMAIN tid_to_server'
  BY <1>2, <1>3 DEF IInv, EntriesKept
<1>7. \A i \in DOMAIN tid_to_server' : tid_to_server'[i] # Null =>
        /\ tid_to_server'[i] \in Handlers /\ tid[tid_to_server'[i]] = i
        /\ at'[tid_to_server'[i]] \in Active \cup {"failed"}
  <2> SUFFICES ASSUME NEW i \in DOMAIN tid_to_server', tid_to_server'[i] # Null
               PROVE  /\ tid_to_server'[i] \in Handlers /\ tid[tid_to_server'[i]] = i
                      /\ at'[tid_to_server'[i]] \in Active \cup {"failed"}
    OBVIOUS
  <2>1. CASE i \in DOMAIN tid_to_server
    <3>1. /\ tid_to_server[i] \in Handlers /\ tid[tid_to_server[i]] = i
          /\ at[tid_to_server[i]] \in Active \cup {"failed"}
      BY <1>2, <1>3, <2>1 DEF IInv, EntriesKept, Entry
    <3>2. tid_to_server[i] # k
      BY <1>2, <3>1 DEF Active
    <3> QED
      BY <1>2, <1>3, <2>1, <3>1, <3>2
  <2>2. CASE i \notin DOMAIN tid_to_server
    BY <1>2, <1>3, <2>2 DEF Active
  <2> QED
    BY <2>1, <2>2
<1>8. EntriesKept'
  BY <1>2, <1>3, <1>6, <1>7 DEF EntriesKept, Entry
<1>9. /\ routes' \in Seq(Seq(Nat)) /\ Len(routes') = Len(at')
      /\ CallbacksRouted' /\ CallbacksOpen'
  BY <1>2, <1>3, RoutesSame
<1>10. LockHeld'
  BY <1>2, <1>3, LockStays
<1>11. \A i \in DOMAIN tid_to_server' :
         \/ tid_to_server'[i] \in Handlers'
         \/ tid_to_server'[i] = Null /\ i \in DOMAIN own' /\ own'[i] = <<Null>>
  BY <1>2, <1>3 DEF IInv, TypeOK
<1>12. TypeOK'
  BY <1>2, <1>3, <1>4, <1>9, <1>11 DEF IInv, TypeOK, Ats
<1> QED
  BY <1>4, <1>5, <1>8, <1>9, <1>10, <1>12 DEF IInv

LEMMA RemoveServerStep ==
  ASSUME IInv, NEW k \in Handlers, RemoveServer(k)
  PROVE  IInv'
<1>1. Goes(k, "erasing", "gone") /\ tid' = tid /\ routes' = routes /\ own' = own
  BY DEF RemoveServer
<1>2. /\ Up /\ at[k] = "erasing"
      /\ at' \in Seq(Ats) /\ Len(at') = Len(at) /\ Handlers' = Handlers
      /\ at'[k] = "gone" /\ \A j \in Handlers \ {k} : at'[j] = at[j]
  BY <1>1, GoesFacts DEF IInv, Ats
<1>3. /\ DOMAIN tid_to_server' = DOMAIN tid_to_server \ {tid[k]}
      /\ \A i \in DOMAIN tid_to_server' : tid_to_server'[i] = tid_to_server[i]
  BY DEF RemoveServer, Restrict
<1>4. at' # <<>> /\ Handlers = 1 .. Len(at) /\ Len(at) \in Nat
  BY <1>2, TypeFacts, EmptySeq DEF IInv
<1>5. IdsDiffer' /\ OwnIdsDiffer'
  BY <1>1, <1>2 DEF IInv, IdsDiffer, OwnIdsDiffer, Ended
<1>6. ASSUME NEW j \in Handlers, at'[j] \in Active
      PROVE  tid[j] \in DOMAIN tid_to_server'
  <2>1. j # k /\ at[j] \in Active
    BY <1>2, <1>6 DEF Active
  <2>2. tid[j] \in DOMAIN tid_to_server
    BY <2>1 DEF IInv, EntriesKept
  <2>3. tid[j] # tid[k]
    <3>1. ~Ended(j) /\ ~Ended(k)
      BY <1>2, <2>1 DEF Ended, Active
    <3> QED
      BY <1>4, <2>1, <3>1 DEF IInv, IdsDiffer
  <2> QED
    BY <1>3, <2>2, <2>3
<1>7. ASSUME NEW i \in DOMAIN tid_to_server', tid_to_server'[i] # Null
      PROVE  /\ tid_to_server'[i] \in Handlers /\ tid[tid_to_server'[i]] = i
             /\ at'[tid_to_server'[i]] \in Active \cup {"failed"}
  <2> DEFINE r == tid_to_server[i]
  <2>1. /\ tid_to_server'[i] = r /\ r \in Handlers /\ tid[r] = i
        /\ at[r] \in Active \cup {"failed"}
    BY <1>2, <1>3, <1>7 DEF IInv, EntriesKept, Entry
  <2>2. r # k
    BY <1>3, <2>1
  <2> QED
    BY <1>2, <2>1, <2>2
<1>8. EntriesKept'
  BY <1>1, <1>2, <1>6, <1>7 DEF EntriesKept, Entry
<1>9. /\ routes' \in Seq(Seq(Nat)) /\ Len(routes') = Len(at')
      /\ CallbacksRouted' /\ CallbacksOpen'
  BY <1>1, <1>2, RoutesSame
<1>10. LockHeld'
  BY <1>1, <1>2, LockStays
<1>11. TypeOK'
  BY <1>1, <1>2, <1>3, <1>9 DEF IInv, TypeOK, Ats
<1> QED
  BY <1>4, <1>5, <1>8, <1>9, <1>10, <1>11 DEF IInv

LEMMA StartThreadStep ==
  ASSUME IInv, StartThread
  PROVE  IInv'
<1> DEFINE n == Len(at) + 1
<1>1. PICK i \in Tids :
        /\ tid' = Append(tid, i)
        /\ i \notin DOMAIN own /\ \A k \in Handlers : tid[k] = i => Ended(k)
  BY DEF StartThread, Taken
<1>2. /\ at[1] = "run" /\ at' = Append(at, "construct")
      /\ routes' = Append(routes, <<>>) /\ own' = own /\ tid_to_server' = tid_to_server
  BY DEF StartThread
<1>3. /\ Len(at) \in Nat /\ Handlers = 1 .. Len(at) /\ at \in Seq(Ats)
      /\ DOMAIN tid = Handlers /\ DOMAIN routes = Handlers /\ 1 \in Handlers
  BY TypeFacts, EmptySeq DEF IInv, TypeOK, Ats
<1>4. /\ at' \in Seq(Ats) /\ at' # <<>> /\ Len(at') = n
      /\ Handlers' = Handlers \cup {n} /\ n \notin Handlers
      /\ at'[n] = "construct" /\ \A k \in Handlers : at'[k] = at[k]
  BY <1>2, <1>3, AppendProperties, LenProperties DEF Ats, Handlers
<1>5. /\ tid' \in Seq(Tids) /\ Len(tid') = n
      /\ tid'[n] = i /\ \A k \in Handlers : tid'[k] = tid[k]
  BY <1>1, <1>3, AppendProperties DEF IInv, TypeOK
<1>6. /\ routes' \in Seq(Seq(Nat)) /\ Len(routes') = n
      /\ routes'[n] = <<>> /\ \A k \in Handlers : routes'[k] = routes[k]
  <2>1. <<>> \in Seq(Nat)
    OBVIOUS
  <2> QED
    BY <1>2, <1>3, <2>1, AppendProperties DEF IInv, TypeOK
<1>7. IdsDiffer'
  <2> SUFFICES ASSUME NEW j \in Handlers', NEW k \in Handlers', j < k, tid'[j] = tid'[k]
               PROVE  j # 1 /\ Ended(j)'
    BY DEF IdsDiffer
  <2>1. j \in Handlers
    BY <1>3, <1>4
  <2>2. CASE k \in Handlers
    BY <1>4, <1>5, <2>1, <2>2 DEF IInv, IdsDiffer, Ended
  <2>3. CASE k = n
    BY <1>1, <1>2, <1>4, <1>5, <2>1, <2>3 DEF Ended
  <2> QED
    BY <1>4, <2>2, <2>3
<1>8. OwnIdsDiffer'
  <2> SUFFICES ASSUME NEW h \in DOMAIN own', NEW k \in Handlers', tid'[k] = h
               PROVE  k # 1 /\ Ended(k)'
    BY DEF OwnIdsDiffer
  <2>1. h \in DOMAIN own
    BY <1>2
  <2>2. k \in Handlers /\ tid[k] = h
    BY <1>1, <1>4, <1>5, <2>1
  <2>3. k # 1 /\ Ended(k)
    BY <2>1, <2>2 DEF IInv, OwnIdsDiffer
  <2> QED
    BY <1>4, <2>2, <2>3 DEF Ended
<1>9. EntriesKept'
  <2>1. \A k \in Handlers' : at'[k] \in Active => tid'[k] \in DOMAIN tid_to_server'
    BY <1>2, <1>4, <1>5 DEF IInv, EntriesKept, Active
  <2>2. Up
    BY DEF StartThread
  <2>3. \A h \in DOMAIN tid_to_server : tid_to_server[h] # Null =>
          /\ tid_to_server[h] \in Handlers /\ tid[tid_to_server[h]] = h
          /\ at[tid_to_server[h]] \in Active \cup {"failed"}
    BY <2>2 DEF IInv, EntriesKept, Entry
  <2>4. \A h \in DOMAIN tid_to_server' :
          tid_to_server'[h] # Null => Entry(h, tid_to_server[h])'
    BY <1>2, <1>4, <1>5, <2>3 DEF Entry
  <2> QED
    BY <2>1, <2>4 DEF EntriesKept
<1>10. CallbacksOpen'
  BY <1>4, <1>6 DEF IInv, CallbacksOpen
<1>11. ASSUME NEW k \in Handlers', NEW j \in DOMAIN routes'[k]
       PROVE  Home(k, routes[k][j])'
  <2> DEFINE r == routes'[k][j]
  <2>1. k \in Handlers
    BY <1>4, <1>6
  <2>2. Home(k, r)
    BY <1>6, <2>1 DEF IInv, CallbacksRouted
  <2>3. \A h \in 1 .. k - 1 : h \in Handlers
    BY <1>3, <2>1
  <2> HIDE DEF r
  <2> QED
    BY <1>4, <1>5, <2>1, <2>2, <2>3 DEF Home, r
<1>12. CallbacksRouted'
  <2>1. \A h \in DOMAIN own' : own'[h] # <<>> =>
          LET r == own'[h][1]
          IN  r = Null \/ (r \in Handlers' /\ tid'[r] = h /\ at'[r] = "failed")
    BY <1>2, <1>4, <1>5 DEF IInv, CallbacksRouted
  <2> QED
    BY <1>11, <2>1 DEF CallbacksRouted
<1>13. LockHeld'
  BY <1>2, <1>4 DEF IInv, LockHeld, InMap
<1>14. TypeOK'
  BY <1>2, <1>4, <1>5, <1>6 DEF IInv, TypeOK, Ats
<1> QED
  BY <1>4, <1>7, <1>8, <1>9, <1>10, <1>12, <1>13, <1>14 DEF IInv

------------------------------------------------------------------------------
(* Threads of the plugin's own *)

LEMMA OwnGetServerStep ==
  ASSUME IInv, NEW i \in Tids, OwnGetServer(i)
  PROVE  IInv'
<1>1. /\ Up /\ i \notin Taken /\ ~Excluded
      /\ at' = at /\ tid' = tid /\ routes' = routes /\ tid_to_server' = tid_to_server
      /\ DOMAIN own' = DOMAIN own \cup {i} /\ i \notin DOMAIN own
      /\ own'[i] = <<>> /\ \A j \in DOMAIN own : own'[j] = own[j]
  BY DEF OwnGetServer, Taken
<1>2. Handlers' = Handlers
  BY <1>1 DEF Handlers
<1>3. OwnIdsDiffer'
  <2>1. \A k \in Handlers : tid[k] = i => k # 1 /\ Ended(k)
    BY <1>1 DEF Taken, Up
  <2> QED
    BY <1>1, <1>2, <2>1 DEF IInv, OwnIdsDiffer, Ended
<1>4. IdsDiffer' /\ EntriesKept' /\ CallbacksOpen'
  BY <1>1, <1>2 DEF IInv, IdsDiffer, EntriesKept, Entry, CallbacksOpen, Ended, Up
<1>5. CallbacksRouted'
  BY <1>1, <1>2 DEF IInv, CallbacksRouted, Home
<1>6. LockHeld'
  BY <1>1, <1>2 DEF LockHeld, Excluded
<1>7. TypeOK'
  <2>1. \A j \in DOMAIN own : own[j] \in Seq(Nat) /\ Len(own[j]) <= 1
    BY DEF IInv, TypeOK
  <2>2. <<>> \in Seq(Nat) /\ Len(<<>>) <= 1
    OBVIOUS
  <2>3. \A j \in DOMAIN own' : own'[j] \in Seq(Nat) /\ Len(own'[j]) <= 1
    BY <1>1, <2>1, <2>2
  <2>4. \A j \in DOMAIN tid_to_server' :
          \/ tid_to_server'[j] \in Handlers'
          \/ tid_to_server'[j] = Null /\ j \in DOMAIN own' /\ own'[j] = <<Null>>
    BY <1>1, <1>2 DEF IInv, TypeOK
  <2> QED
    BY <1>1, <2>3, <2>4 DEF IInv, TypeOK
<1> QED
  BY <1>1, <1>3, <1>4, <1>5, <1>6, <1>7 DEF IInv

\* What such a thread is given is null, or a server_t that is gone.
LEMMA OwnAudioMasterStep ==
  ASSUME IInv, NEW i \in DOMAIN own, OwnAudioMaster(i)
  PROVE  IInv'
<1>1. /\ Up /\ own[i] = <<>> /\ at' = at /\ tid' = tid /\ routes' = routes
      /\ DOMAIN own' = DOMAIN own /\ \A j \in DOMAIN own \ {i} : own'[j] = own[j]
      /\ own'[i] = <<tid_to_server'[i]>>
      /\ DOMAIN tid_to_server' = DOMAIN tid_to_server \cup {i}
      /\ \A j \in DOMAIN tid_to_server : tid_to_server'[j] = tid_to_server[j]
      /\ i \notin DOMAIN tid_to_server => tid_to_server'[i] = Null
  BY DEF OwnAudioMaster, With
<1>2. Handlers' = Handlers /\ Handlers = 1 .. Len(at) /\ Len(at) \in Nat
  BY <1>1, TypeFacts DEF IInv, Handlers
<1>3. \/ i \notin DOMAIN tid_to_server /\ tid_to_server'[i] = Null
      \/ /\ i \in DOMAIN tid_to_server /\ tid_to_server'[i] \in Handlers
         /\ tid[tid_to_server'[i]] = i /\ at[tid_to_server'[i]] = "failed"
  <2> SUFFICES ASSUME i \in DOMAIN tid_to_server
               PROVE  /\ tid_to_server[i] \in Handlers
                      /\ tid[tid_to_server[i]] = i /\ at[tid_to_server[i]] = "failed"
    BY <1>1
  <2> DEFINE r == tid_to_server[i]
  <2>1. r # Null
    <3>1. <<>> # <<Null>>
      OBVIOUS
    <3>2. own[i] # <<Null>> /\ Null \notin Handlers
      BY <1>1, <1>2, <3>1 DEF Null
    <3> QED
      BY <3>2 DEF IInv, TypeOK
  <2>2. r \in Handlers /\ tid[r] = i /\ at[r] \in Active \cup {"failed"}
    BY <1>1, <2>1 DEF IInv, EntriesKept, Entry
  <2>3. Ended(r)
    BY <2>2 DEF IInv, OwnIdsDiffer
  <2> QED
    BY <2>2, <2>3 DEF Ended, Active
<1>4. tid_to_server'[i] \in Nat /\ own'[i] # <<>> /\ own'[i][1] = tid_to_server'[i]
  BY <1>1, <1>2, <1>3 DEF Null
<1>5. IdsDiffer' /\ OwnIdsDiffer' /\ CallbacksOpen'
  BY <1>1, <1>2 DEF IInv, IdsDiffer, OwnIdsDiffer, CallbacksOpen, Ended
<1>6. EntriesKept'
  BY <1>1, <1>2 DEF IInv, EntriesKept, Entry, Up, Ended
<1>7. CallbacksRouted'
  <2>1. \A j \in DOMAIN own' : own'[j] # <<>> =>
          LET r == own'[j][1]
          IN  r = Null \/ (r \in Handlers' /\ tid'[r] = j /\ at'[r] = "failed")
    BY <1>1, <1>2, <1>3, <1>4 DEF IInv, CallbacksRouted
  <2>2. \A k \in Handlers' : \A n \in DOMAIN routes'[k] : Home(k, routes[k][n])'
    BY <1>1, <1>2 DEF IInv, CallbacksRouted, Home
  <2> QED
    BY <2>1, <2>2 DEF CallbacksRouted
<1>8. LockHeld'
  BY <1>1, <1>2, <1>4 DEF IInv, LockHeld, InMap
<1>9. TypeOK'
  <2> DEFINE r == tid_to_server'[i]
  <2>1. ASSUME NEW j \in DOMAIN own'
        PROVE  own'[j] \in Seq(Nat) /\ Len(own'[j]) <= 1
    <3>1. CASE j = i
      <4>1. r \in Nat /\ own'[j] = <<r>>
        BY <1>1, <1>4, <3>1
      <4> HIDE DEF r
      <4> QED
        BY <4>1
    <3>2. CASE j # i
      <4>1. j \in DOMAIN own /\ own'[j] = own[j]
        BY <1>1, <3>2
      <4> QED
        BY <4>1 DEF IInv, TypeOK
    <3> QED
      BY <3>1, <3>2
  <2>2. \A j \in DOMAIN tid_to_server' :
          \/ tid_to_server'[j] \in Handlers'
          \/ tid_to_server'[j] = Null /\ j \in DOMAIN own' /\ own'[j] = <<Null>>
    BY <1>1, <1>2, <1>3 DEF IInv, TypeOK
  <2>3. DOMAIN tid_to_server' \subseteq Tids /\ DOMAIN own' \subseteq Tids
    BY <1>1 DEF IInv, TypeOK
  <2> QED
    BY <1>1, <2>1, <2>2, <2>3 DEF IInv, TypeOK
<1> QED
  BY <1>1, <1>5, <1>6, <1>7, <1>8, <1>9 DEF IInv

LEMMA CrashStep ==
  ASSUME IInv, NEW i \in DOMAIN own, Crash(i)
  PROVE  IInv'
<1>1. 1 \in Handlers /\ at \in Seq(Ats)
  BY TypeFacts, EmptySeq DEF IInv, TypeOK, Ats
<1>2. /\ Up /\ at' = [at EXCEPT ![1] = "failed"] /\ tid' = tid /\ routes' = routes
      /\ own' = own /\ tid_to_server' = tid_to_server
  BY DEF Crash
<1>3. /\ at' \in Seq(Ats) /\ Len(at') = Len(at) /\ Handlers' = Handlers
      /\ at'[1] = "failed" /\ at[1] # "failed" /\ \A j \in Handlers \ {1} : at'[j] = at[j]
  <2>1. 1 \in 1 .. Len(at) /\ "failed" \in Ats
    BY <1>1, TypeFacts DEF IInv, Ats
  <2>2. at' \in Seq(Ats) /\ Len(at') = Len(at)
    BY <1>1, <1>2, <2>1, ExceptSeq
  <2> QED
    BY <1>1, <1>2, <2>1, <2>2 DEF Handlers, Up, Ended
<1>4. at' # <<>>
  BY <1>3, TypeFacts, EmptySeq DEF IInv
<1>5. IdsDiffer' /\ OwnIdsDiffer'
  BY <1>2, <1>3 DEF IInv, IdsDiffer, OwnIdsDiffer, Ended
<1>6. EntriesKept'
  <2>1. \A j \in Handlers' : at'[j] \in Active => tid'[j] \in DOMAIN tid_to_server'
    BY <1>2, <1>3 DEF IInv, EntriesKept, Active
  <2>2. \A h \in DOMAIN tid_to_server' :
          tid_to_server'[h] # Null => Entry(h, tid_to_server[h])'
    BY <1>2, <1>3 DEF IInv, EntriesKept, Entry
  <2> QED
    BY <2>1, <2>2 DEF EntriesKept
<1>7. /\ routes' \in Seq(Seq(Nat)) /\ Len(routes') = Len(at')
      /\ CallbacksRouted' /\ CallbacksOpen'
  BY <1>1, <1>2, <1>3, RoutesSame
<1>8. LockHeld'
  BY <1>1, <1>2, <1>3, LockStays
<1>9. TypeOK'
  BY <1>2, <1>3, <1>7 DEF IInv, TypeOK, Ats
<1> QED
  BY <1>4, <1>5, <1>6, <1>7, <1>8, <1>9 DEF IInv

LEMMA Stutter ==
  ASSUME IInv, UNCHANGED vars
  PROVE  IInv'
BY DEF vars, IInv, TypeOK, Handlers, IdsDiffer, OwnIdsDiffer, EntriesKept, Entry,
       CallbacksOpen, CallbacksRouted, Home, LockHeld, InMap, Ended, Up

LEMMA NextHolds == IInv /\ [Next]_vars => IInv'
<1> SUFFICES ASSUME IInv, [Next]_vars PROVE IInv'
  OBVIOUS
<1>1. CASE StartThread
  BY <1>1, StartThreadStep
<1>2. ASSUME NEW k \in Handlers,
             \/ Construct(k) \/ LockToAdd(k) \/ Called(k) \/ Return(k) \/ GetServer(k)
             \/ LockToErase(k)
      PROVE  IInv'
  BY <1>2, QuietStep
<1>3. ASSUME NEW k \in Handlers, Stop(k) PROVE IInv'
  BY <1>3, QuietStep, MainStops
<1>4. ASSUME NEW k \in Handlers, AddServer(k) PROVE IInv'
  BY <1>4, AddServerStep
<1>5. ASSUME NEW k \in Handlers, AudioMaster(k) PROVE IInv'
  BY <1>5, AudioMasterStep
<1>6. ASSUME NEW k \in Handlers, CallbackReturns(k) PROVE IInv'
  BY <1>6, CallbackReturnsStep
<1>7. ASSUME NEW k \in Handlers, RemoveServer(k) PROVE IInv'
  BY <1>7, RemoveServerStep
<1>8. ASSUME NEW k \in Handlers, Throw(k) PROVE IInv'
  BY <1>8, ThrowStep
<1>9. ASSUME NEW i \in Tids, OwnGetServer(i) PROVE IInv'
  BY <1>9, OwnGetServerStep
<1>10. ASSUME NEW i \in DOMAIN own, OwnAudioMaster(i) \/ Crash(i) PROVE IInv'
  BY <1>10, OwnAudioMasterStep, CrashStep
<1>11. CASE UNCHANGED vars
  BY <1>11, Stutter
<1> QED
  BY <1>1, <1>2, <1>3, <1>4, <1>5, <1>6, <1>7, <1>8, <1>9, <1>10, <1>11 DEF Next, Over

------------------------------------------------------------------------------
\* The registry keeps its type: a lookup leaves a null pointer in it only for a
\* thread of the plugin's own (operator[] in get_server, shared_t.cpp:6).
THEOREM RoutingTypes == Spec => []TypeOK
<1>1. IInv => TypeOK
  BY DEF IInv
<1> QED
  BY <1>1, InitHolds, NextHolds, PTL DEF Spec

\* Whatever ids Windows gives out again, and however many handlers come and
\* go, a callback goes out through the handler of its own thread, or through
\* one that an exception ended on the same id, and no thread of the plugin's own
\* is given a handler in use (get_server and add_server).
THEOREM CallbacksFindTheirHandler == Spec => []CallbacksRouted
<1>1. IInv => CallbacksRouted
  BY DEF IInv
<1> QED
  BY <1>1, InitHolds, NextHolds, PTL DEF Spec

\* A handler's thread that changes the map is alone in it (shared_t.cpp), for
\* any ids and any number of handlers and of the plugin's own threads.
THEOREM HandlersChangeAlone == Spec => []ChangesAlone
<1>1. IInv => ChangesAlone
  BY DEF IInv, ChangesAlone, Changes, LockHeld, EntriesKept, Active
<1> QED
  BY <1>1, InitHolds, NextHolds, PTL DEF Spec
==============================================================================
