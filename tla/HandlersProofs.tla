----------------------------- MODULE HandlersProofs -----------------------------
(***************************************************************************)
(* Handlers for any number of host threads: how handlers come and go is    *)
(* well typed whatever overlaps, and, with first calls one after the other,*)
(* leaves each thread with a handler of its own, no name behind, and no    *)
(* exception.                                                              *)
(***************************************************************************)
EXTENDS Handlers, FiniteSetTheorems, SequenceTheorems, TLAPS

\* Creating, with resources of its own; and asked for, or spawned.
Holding == Creating \ {"create"}
Joined  == Holding \ {"spawn", "ask"}

\* Where a server thread is before the last of its opens, and after it.
Before == {"open_shm", "open_send", "send", "open_recv"}
Behind == {"recv", "add", "run"}

Places == Creating \cup {"out", "call", "close", "failed"}
Ats    == Opening \cup {"add", "run", "returned", "gone", "failed"}
ThreadRecord == [index : Nat, at : Ats]

\* TypeOK, in four parts, and what it leaves open.
HostTypes ==
  /\ pc \in [Threads -> Places] /\ index \in [Threads -> Nat]
  /\ DOMAIN clients \subseteq Threads /\ \A t \in DOMAIN clients : clients[t] \in Nat \ {0}
  /\ IsFiniteSet(DOMAIN clients)
  /\ plugin \in {"creating", "created", "closing", "deleted", "dead"}
FileTypes ==
  /\ \A f \in fifos : f.pipe \in {"s2c", "c2s"} /\ f.index \in Nat
  /\ shms \subseteq Nat /\ hungup \subseteq Nat
  /\ \A e \in ends : e.end \in {"r", "w"} /\ e.pipe \in {"s2c", "c2s"} /\ e.index \in Nat
PipeTypes == requests \in Seq(Nat) /\ answers \in Nat /\ returns \subseteq Nat
ServerTypes ==
  /\ process \in {"none", "up", "exited"} /\ srv \in Seq(ThreadRecord)
  /\ effect \in BOOLEAN /\ shared \in BOOLEAN

\* VSTPluginMain comes before all calls; only handlers that get_client creates
\* reach the map.
Phases ==
  /\ plugin = "creating" =>
       /\ \A t \in Threads \ {Main} : pc[t] = "out"
       /\ pc[Main] \in (Creating \ {"ask", "asked", "insert"}) \cup {"failed"}
       /\ index[Main] = 0 /\ DOMAIN clients = {}
  /\ plugin # "creating" =>
       \A t \in Threads : /\ pc[t] \notin {"spawn", "wait"}
                          /\ pc[t] \in Holding => index[t] # 0

\* Inductive as it is, whether first calls overlap or not.
Typed ==
  /\ HostTypes /\ FileTypes /\ PipeTypes /\ ServerTypes /\ refused \in BOOLEAN
  /\ plugin # "dead" => Phases

------------------------------------------------------------------------------
\* What a step does to the places of the threads.
LEMMA GoesFacts ==
  ASSUME HostTypes, NEW t \in Threads, NEW from, NEW to \in Places, Goes(t, from, to)
  PROVE  /\ plugin # "dead" /\ pc[t] = from
         /\ pc' \in [Threads -> Places] /\ pc'[t] = to
         /\ \A u \in Threads \ {t} : pc'[u] = pc[u]
BY DEF Goes, HostTypes

\* What the server's threads are, as a sequence of records.
LEMMA ThreadFacts ==
  ASSUME NEW s \in Seq(ThreadRecord)
  PROVE  /\ Len(s) \in Nat /\ DOMAIN s = 1 .. Len(s)
         /\ \A k \in DOMAIN s : s[k] \in ThreadRecord /\ s[k].index \in Nat /\ s[k].at \in Ats
<1>1. DOMAIN s = 1 .. Len(s) /\ Len(s) \in Nat
  BY LenProperties
<1>2. \A k \in DOMAIN s : s[k] \in ThreadRecord
  BY <1>1, ElementOfSeq
<1> QED
  BY <1>1, <1>2 DEF ThreadRecord

LEMMA StepsFacts ==
  ASSUME ServerTypes, NEW k \in DOMAIN srv, NEW from, NEW to \in Ats, Steps(k, from, to)
  PROVE  /\ process = "up" /\ srv[k].at = from
         /\ srv' \in Seq(ThreadRecord) /\ DOMAIN srv' = DOMAIN srv
         /\ srv'[k].at = to /\ srv'[k].index = srv[k].index
         /\ \A j \in DOMAIN srv \ {k} : srv'[j] = srv[j]
         /\ \A j \in DOMAIN srv : srv'[j].index = srv[j].index
<1>1. srv \in Seq(ThreadRecord) /\ DOMAIN srv = 1 .. Len(srv) /\ srv[k] \in ThreadRecord
  BY ThreadFacts DEF ServerTypes
<1>2. srv' = [srv EXCEPT ![k] = [srv[k] EXCEPT !.at = to]]
  BY DEF Steps
<1>3. [srv[k] EXCEPT !.at = to] \in ThreadRecord
  BY <1>1 DEF ThreadRecord
<1>4. /\ [srv[k] EXCEPT !.at = to].at = to
      /\ [srv[k] EXCEPT !.at = to].index = srv[k].index
  BY <1>1 DEF ThreadRecord
<1>5. srv' \in Seq(ThreadRecord) /\ DOMAIN srv' = DOMAIN srv
  BY <1>1, <1>2, <1>3, ExceptSeq
<1> QED
  BY <1>1, <1>2, <1>4, <1>5 DEF Steps

LEMMA TypedTypeOK == Typed => TypeOK
BY ThreadFacts DEF Typed, TypeOK, HostTypes, FileTypes, PipeTypes, ServerTypes, Places, Ats

LEMMA InitTyped == Init => Typed
<1> SUFFICES ASSUME Init PROVE Typed
  OBVIOUS
<1>1. HostTypes
  BY FS_EmptySet DEF Init, HostTypes, Places, Creating
<1>2. FileTypes /\ PipeTypes /\ ServerTypes /\ refused \in BOOLEAN
  BY EmptySeq DEF Init, FileTypes, PipeTypes, ServerTypes
<1>3. Phases
  BY MainAssumption DEF Init, Phases, Creating, Holding
<1> QED
  BY <1>1, <1>2, <1>3 DEF Typed

LEMMA NewIndexType ==
  ASSUME Typed
  PROVE  /\ NewIndex \in Nat
         /\ plugin # "creating" => NewIndex = Cardinality(DOMAIN clients) + 1 /\ NewIndex # 0
         /\ plugin = "creating" => NewIndex = 0
BY FS_CardinalityType DEF Typed, HostTypes, NewIndex

\* A step of a host thread that leaves the plugin_t and its map alone.
LEMMA Moves ==
  ASSUME Typed, NEW t \in Threads, NEW from, NEW to \in Places, Goes(t, from, to),
         \/ index' = index /\ (to \in Holding => from \in Holding)
         \/ index' = [index EXCEPT ![t] = NewIndex] /\ from = "create",
         clients' = clients, plugin' = plugin,
         plugin = "creating" =>
           from # "out" /\ to \in (Creating \ {"ask", "asked", "insert"}) \cup {"failed"},
         plugin # "creating" => to \notin {"spawn", "wait"}
  PROVE  HostTypes' /\ Phases' /\ plugin # "dead"
<1>1. /\ plugin # "dead" /\ pc[t] = from
      /\ pc' \in [Threads -> Places] /\ pc'[t] = to
      /\ \A u \in Threads \ {t} : pc'[u] = pc[u]
  BY GoesFacts DEF Typed
<1>2. HostTypes'
  BY <1>1, NewIndexType DEF HostTypes, Typed
<1>3. ASSUME plugin = "creating"
      PROVE  Phases'
  <2>1. t = Main
    BY <1>1, <1>3 DEF Typed, Phases
  <2> QED
    BY <1>1, <1>3, <2>1, NewIndexType DEF Typed, Phases, HostTypes
<1>4. ASSUME plugin # "creating"
      PROVE  Phases'
  <2>1. \A u \in Threads : /\ pc[u] \notin {"spawn", "wait"}
                           /\ pc[u] \in Holding => index[u] # 0
    BY <1>1, <1>4 DEF Typed, Phases
  <2>2. ASSUME NEW u \in Threads
        PROVE  pc'[u] \notin {"spawn", "wait"} /\ (pc'[u] \in Holding => index'[u] # 0)
    BY <1>1, <1>4, <2>1, NewIndexType DEF HostTypes, Typed
  <2> QED
    BY <1>4, <2>2 DEF Phases
<1> QED
  BY <1>1, <1>2, <1>3, <1>4

LEMMA CreateTyped ==
  ASSUME Typed, NEW t \in Threads, Create(t) \/ CreateFails(t), refused' \in BOOLEAN
  PROVE  Typed'
<1>1. /\ NewIndex \in Nat /\ index' = [index EXCEPT ![t] = NewIndex]
      /\ fifos' = fifos \cup FifosOf(NewIndex) /\ shms' = shms \cup {NewIndex}
      /\ UNCHANGED <<clients, plugin, ends, hungup, requests, answers, returns, process, srv, effect, shared>>
  BY NewIndexType DEF Create, CreateFails, CreateResources, pipeVars, serverVars
<1>2. HostTypes' /\ Phases' 
  <2>1. CASE Create(t)
    <3>1. \/ Goes(t, "create", "failed")
          \/ Goes(t, "create", "spawn") /\ plugin = "creating"
          \/ Goes(t, "create", "ask") /\ plugin # "creating"
      BY <2>1 DEF Create, CreateResources
    <3>2. CASE Goes(t, "create", "failed")
      BY <1>1, <3>2, Moves DEF Holding, Creating, Places
    <3>3. CASE Goes(t, "create", "spawn") /\ plugin = "creating"
      BY <1>1, <3>3, Moves DEF Holding, Creating, Places
    <3>4. CASE Goes(t, "create", "ask") /\ plugin # "creating"
      BY <1>1, <3>4, Moves DEF Holding, Creating, Places
    <3> QED
      BY <3>1, <3>2, <3>3, <3>4
  <2>2. CASE CreateFails(t)
    BY <1>1, <2>2, Moves DEF CreateFails, Holding, Creating, Places
  <2> QED
    BY <2>1, <2>2
<1>3. FileTypes'
  BY <1>1 DEF FileTypes, FifosOf, Fifo, Typed
<1> QED
  BY <1>1, <1>2, <1>3 DEF PipeTypes, ServerTypes, Typed

\* The steps of a host thread that leave the map and the plugin_t alone.
LEMMA HostTyped ==
  ASSUME Typed, NEW t \in Threads, refused' \in BOOLEAN,
         \/ Spawn(t) \/ SpawnFails(t) \/ Ask(t) \/ Asked(t)
         \/ RecvOpened(t) \/ SendOpened(t) \/ Unlink(t)
         \/ Call(t) \/ EndCall(t) \/ Fails(t)
  PROVE  Typed'
<1> USE DEF Holding, Creating, Places
<1>1. CASE Spawn(t)
  <2>1. [index |-> 0, at |-> "open_shm"] \in ThreadRecord
    BY DEF ThreadRecord, Ats, Opening
  <2>2. HostTypes' /\ Phases'
    BY <1>1, Moves DEF Spawn, fileVars, pipeVars
  <2> QED
    BY <1>1, <2>1, <2>2 DEF Spawn, fileVars, pipeVars, Typed, FileTypes, PipeTypes, ServerTypes
<1>2. CASE SpawnFails(t)
  <2>1. HostTypes' /\ Phases'
    BY <1>2, Moves DEF SpawnFails, fileVars, pipeVars
  <2> QED
    BY <1>2, <2>1 DEF SpawnFails, fileVars, pipeVars, serverVars, Typed, FileTypes, PipeTypes, ServerTypes
<1>3. CASE Ask(t)
  <2>1. plugin # "creating"
    BY <1>3, GoesFacts DEF Ask, Typed, Phases
  <2>2. HostTypes' /\ Phases'
    BY <1>3, <2>1, Moves DEF Ask, fileVars, serverVars
  <2>3. index[t] \in Nat
    BY DEF Typed, HostTypes
  <2>4. PipeTypes'
    BY <1>3, <2>3, AppendProperties DEF Ask, Typed, PipeTypes
  <2> QED
    BY <1>3, <2>2, <2>4 DEF Ask, fileVars, serverVars, Typed, FileTypes, ServerTypes
<1>4. CASE Asked(t)
  <2>1. HostTypes' /\ Phases'
    BY <1>4, Moves DEF Asked, fileVars, serverVars
  <2> QED
    BY <1>4, <2>1 DEF Asked, fileVars, serverVars, Typed, FileTypes, PipeTypes, ServerTypes
<1>5. CASE RecvOpened(t) \/ SendOpened(t)
  <2>1. HostTypes' /\ Phases'
    BY <1>5, Moves DEF RecvOpened, SendOpened
  <2> QED
    BY <1>5, <2>1 DEF RecvOpened, SendOpened, fileVars, pipeVars, serverVars, Typed, FileTypes, PipeTypes, ServerTypes
<1>6. CASE Unlink(t)
  <2>1. \/ Goes(t, "unlink", "wait") /\ plugin = "creating"
        \/ Goes(t, "unlink", "insert") /\ plugin # "creating"
    BY <1>6 DEF Unlink
  <2>2. CASE Goes(t, "unlink", "wait") /\ plugin = "creating"
    BY <1>6, <2>2, Moves DEF Unlink, pipeVars, serverVars, Typed, FileTypes, PipeTypes, ServerTypes
  <2>3. CASE Goes(t, "unlink", "insert") /\ plugin # "creating"
    BY <1>6, <2>3, Moves DEF Unlink, pipeVars, serverVars, Typed, FileTypes, PipeTypes, ServerTypes
  <2> QED
    BY <2>1, <2>2, <2>3
<1>7. CASE Call(t)
  <2>1. plugin = "created" /\ (Goes(t, "out", "call") \/ Goes(t, "out", "create"))
    BY <1>7 DEF Call
  <2>2. HostTypes' /\ Phases'
    BY <1>7, <2>1, Moves DEF Call
  <2> QED
    BY <1>7, <2>2 DEF Call, fileVars, pipeVars, serverVars, Typed, FileTypes, PipeTypes, ServerTypes
<1>8. CASE EndCall(t)
  <2>1. plugin # "creating"
    BY <1>8, GoesFacts DEF EndCall, Typed, Phases
  <2>2. HostTypes' /\ Phases'
    BY <1>8, <2>1, Moves DEF EndCall
  <2> QED
    BY <1>8, <2>2 DEF EndCall, fileVars, pipeVars, serverVars, Typed, FileTypes, PipeTypes, ServerTypes
<1>9. CASE Fails(t)
  <2>1. PICK from \in {"ask", "asked", "wait", "call", "close"} : Goes(t, from, "failed")
    BY <1>9 DEF Fails
  <2>2. HostTypes' /\ Phases'
    BY <1>9, <2>1, Moves DEF Fails
  <2> QED
    BY <1>9, <2>2 DEF Fails, fileVars, pipeVars, serverVars, Typed, FileTypes, PipeTypes, ServerTypes
<1> QED
  BY <1>1, <1>2, <1>3, <1>4, <1>5, <1>6, <1>7, <1>8, <1>9

LEMMA OpensTyped ==
  ASSUME Typed, NEW e \in {"r", "w"}, NEW p \in {"s2c", "c2s"}, NEW i \in Nat,
         Opens(e, p, i), UNCHANGED <<fifos, shms, hungup>>
  PROVE  FileTypes'
BY DEF Typed, FileTypes, Opens, End

LEMMA HostOpensTyped ==
  ASSUME Typed, NEW t \in Threads, OpenRecv(t) \/ OpenSend(t), refused' \in BOOLEAN
  PROVE  Typed'
<1> USE DEF Holding, Creating, Places
<1>1. index[t] \in Nat
  BY DEF Typed, HostTypes
<1>2. FileTypes'
  BY <1>1, OpensTyped DEF OpenRecv, OpenSend
<1>3. \/ Goes(t, "open_recv", "recv") \/ Goes(t, "open_send", "send")
      \/ Goes(t, "open_recv", "failed") \/ Goes(t, "open_send", "failed")
  BY DEF OpenRecv, OpenSend
<1>4. UNCHANGED <<index, clients, plugin, requests, answers, returns, process, srv, effect, shared>>
  BY DEF OpenRecv, OpenSend, pipeVars, serverVars
<1>5. HostTypes' /\ Phases'
  BY <1>3, <1>4, Moves
<1> QED
  BY <1>2, <1>4, <1>5 DEF Typed, PipeTypes, ServerTypes

\* The steps that change the map or the plugin_t.
LEMMA InsertTyped ==
  ASSUME Typed, NEW t \in Threads, Insert(t), refused' \in BOOLEAN
  PROVE  Typed'
<1> USE DEF Holding, Creating, Places
<1>1. /\ plugin # "dead" /\ pc[t] = "insert"
      /\ pc' \in [Threads -> Places] /\ pc'[t] = "call"
      /\ \A u \in Threads \ {t} : pc'[u] = pc[u]
  BY GoesFacts DEF Insert, Typed
<1>2. plugin # "creating" /\ index[t] \in Nat \ {0}
  BY <1>1 DEF Typed, Phases, HostTypes
<1>3. /\ DOMAIN clients' = DOMAIN clients \cup {t}
      /\ \A u \in DOMAIN clients' : clients'[u] = IF u = t THEN index[t] ELSE clients[u]
      /\ UNCHANGED <<index, plugin>>
  BY DEF Insert
<1>4. IsFiniteSet(DOMAIN clients')
  BY <1>3, FS_AddElement DEF Typed, HostTypes
<1>5. HostTypes'
  BY <1>1, <1>2, <1>3, <1>4 DEF Typed, HostTypes
<1>6. Phases'
  BY <1>1, <1>2, <1>3 DEF Typed, Phases
<1> QED
  BY <1>5, <1>6 DEF Insert, fileVars, pipeVars, serverVars, Typed, FileTypes, PipeTypes, ServerTypes

LEMMA PluginTyped ==
  ASSUME Typed, NEW t \in Threads, Wait(t) \/ EffClose(t), refused' \in BOOLEAN
  PROVE  Typed'
<1> USE DEF Holding, Creating, Places
<1>1. CASE Wait(t)
  <2>1. /\ plugin # "dead" /\ pc[t] = "wait"
        /\ pc' \in [Threads -> Places] /\ pc'[t] = "out"
        /\ \A u \in Threads \ {t} : pc'[u] = pc[u]
    BY <1>1, GoesFacts DEF Wait, Typed
  <2>2. t = Main /\ plugin = "creating"
    BY <2>1 DEF Typed, Phases
  <2> QED
    BY <1>1, <2>1, <2>2 DEF Wait, fileVars, pipeVars, serverVars, Typed, HostTypes, Phases, FileTypes, PipeTypes, ServerTypes
<1>2. CASE EffClose(t)
  <2>1. /\ plugin # "dead" /\ pc[t] = "call"
        /\ pc' \in [Threads -> Places] /\ pc'[t] = "close"
        /\ \A u \in Threads \ {t} : pc'[u] = pc[u]
    BY <1>2, GoesFacts DEF EffClose, Typed
  <2>2. plugin # "creating"
    BY <2>1 DEF Typed, Phases
  <2> QED
    BY <1>2, <2>1, <2>2 DEF EffClose, fileVars, pipeVars, serverVars, Typed, HostTypes, Phases, FileTypes, PipeTypes, ServerTypes
<1> QED
  BY <1>1, <1>2

LEMMA ClosesTyped ==
  ASSUME Typed, NEW t \in Threads, Closes(t), refused' \in BOOLEAN
  PROVE  Typed'
<1> USE DEF Holding, Creating, Places
<1>1. CASE CloseHandler(t)
  <2>1. PICK u \in DOMAIN clients :
          /\ returns' = returns \cup {clients[u]}
          /\ hungup' = hungup \cup {clients[u]}
          /\ clients' = Restrict(clients, DOMAIN clients \ {u})
    BY <1>1 DEF CloseHandler
  <2>2. /\ DOMAIN clients' = DOMAIN clients \ {u}
        /\ \A v \in DOMAIN clients' : clients'[v] = clients[v]
    BY <2>1 DEF Restrict
  <2>3. IsFiniteSet(DOMAIN clients')
    BY <2>2, FS_RemoveElement DEF Typed, HostTypes
  <2>4. HostTypes'
    BY <1>1, <2>2, <2>3 DEF CloseHandler, Typed, HostTypes
  <2>5. Phases'
    BY <1>1, <2>2 DEF CloseHandler, Typed, Phases
  <2> QED
    BY <1>1, <2>1, <2>4, <2>5 DEF CloseHandler, Typed, HostTypes, FileTypes, PipeTypes, ServerTypes, serverVars
<1>2. CASE ClosePrimary(t)
  <2>1. /\ plugin # "dead" /\ pc[t] = "close"
        /\ pc' \in [Threads -> Places] /\ pc'[t] = "out"
        /\ \A u \in Threads \ {t} : pc'[u] = pc[u]
    BY <1>2, GoesFacts DEF ClosePrimary, Typed
  <2>2. plugin # "creating"
    BY <2>1 DEF Typed, Phases
  <2> QED
    BY <1>2, <2>1, <2>2 DEF ClosePrimary, serverVars, Typed, HostTypes, Phases, FileTypes, PipeTypes, ServerTypes
<1> QED
  BY <1>1, <1>2 DEF Closes

LEMMA EndsTyped ==
  ASSUME Typed, HostDies \/ Exit \/ Dies \/ UNCHANGED vars, refused' \in BOOLEAN
  PROVE  Typed'
BY DEF HostDies, Exit, Dies, Abandons, vars, fileVars, pipeVars, serverVars,
       Typed, HostTypes, Phases, FileTypes, PipeTypes, ServerTypes

LEMMA ServesTyped ==
  ASSUME Typed, NEW k \in DOMAIN srv, Serves(k), refused' \in BOOLEAN
  PROVE  Typed'
<1> USE DEF Ats, Opening
<1>1. srv[k].index \in Nat
  BY ThreadFacts DEF Typed, ServerTypes
<1>2. UNCHANGED <<pc, index, clients, plugin, requests, answers, process>>
  BY DEF Serves, OpenShm, ServerOpensSend, ServerSendOpened, ServerOpensRecv, ServerRecvOpened,
         Add, Returned, ServerFails, Leave, Steps, fileVars, pipeVars
<1>3. HostTypes' /\ (plugin' # "dead" => Phases')
  BY <1>2 DEF Typed, HostTypes, Phases
<1>4. srv' \in Seq(ThreadRecord) /\ effect' \in BOOLEAN /\ shared' \in BOOLEAN
  BY StepsFacts DEF Serves, OpenShm, ServerOpensSend, ServerSendOpened, ServerOpensRecv, ServerRecvOpened,
         Add, Returned, ServerFails, Leave, Typed, ServerTypes
<1>5. returns' \subseteq Nat
  BY DEF Serves, OpenShm, ServerOpensSend, ServerSendOpened, ServerOpensRecv, ServerRecvOpened,
         Add, Returned, ServerFails, Leave, Typed, PipeTypes, pipeVars
<1>6. FileTypes'
  BY <1>1, OpensTyped DEF Serves, OpenShm, ServerOpensSend, ServerSendOpened, ServerOpensRecv, ServerRecvOpened,
         Add, Returned, ServerFails, Leave, Typed, FileTypes, fileVars, IndexOf
<1> QED
  BY <1>2, <1>3, <1>4, <1>5, <1>6 DEF Typed, PipeTypes, ServerTypes

LEMMA InstantiateTyped ==
  ASSUME Typed, Instantiate \/ InstantiateFails, refused' \in BOOLEAN
  PROVE  Typed'
<1>1. Head(requests) \in Nat /\ <<>> \in Seq(Nat)
  BY HeadTailProperties, EmptySeq DEF Instantiate, InstantiateFails, Typed, PipeTypes
<1>2. [index |-> Head(requests), at |-> "open_shm"] \in ThreadRecord
  BY <1>1 DEF ThreadRecord, Ats, Opening
<1>3. ServerTypes'
  BY <1>2, AppendProperties DEF Instantiate, InstantiateFails, Typed, ServerTypes, serverVars
<1>4. /\ requests' = <<>> /\ answers' = answers + 1
      /\ UNCHANGED <<pc, index, clients, plugin, fifos, shms, ends, hungup, returns>>
  BY DEF Instantiate, InstantiateFails, fileVars
<1>5. HostTypes' /\ FileTypes' /\ (plugin' # "dead" => Phases')
  BY <1>4 DEF Typed, HostTypes, FileTypes, Phases
<1>6. PipeTypes'
  BY <1>1, <1>4 DEF Typed, PipeTypes
<1> QED
  BY <1>3, <1>5, <1>6 DEF Typed

\* Every step keeps the types.
LEMMA NextTyped == Typed /\ [Next]_vars => Typed'
<1> SUFFICES ASSUME Typed, [Next]_vars PROVE Typed'
  OBVIOUS
<1>1. refused' \in BOOLEAN
  BY DEF Next, vars, Over, Typed
<1>2. ASSUME NEW t \in Threads, Creates(t) \/ Call(t) \/ EndCall(t) \/ EffClose(t) \/ Closes(t) \/ Fails(t)
      PROVE  Typed'
  BY <1>1, <1>2, CreateTyped, HostTyped, HostOpensTyped, InsertTyped, PluginTyped, ClosesTyped DEF Creates
<1>3. ASSUME Refusal
      PROVE  Typed'
  BY <1>1, <1>3, CreateTyped, HostTyped, InstantiateTyped DEF Refusal
<1> QED
  BY <1>1, <1>2, <1>3, ServesTyped, InstantiateTyped, EndsTyped DEF Next, Over

\* Whatever overlaps, dies or is refused, all state is of its type: in
\* particular no client of get_client's map is handler 0.
THEOREM TypesCorrect == Spec => []TypeOK
<1>1. Spec => []Typed
  BY InitTyped, NextTyped, PTL DEF Spec
<1> QED
  BY <1>1, TypedTypeOK, PTL

------------------------------------------------------------------------------
\* With first calls one after the other, one thread at a time creates.
OneCreates ==
  /\ \A t, u \in Threads : pc[t] \in Creating /\ pc[u] \in Creating => t = u
  /\ \A t \in Threads : pc[t] \in Creating =>
       t \notin DOMAIN clients /\ plugin \in {"creating", "created"}

\* The indices in use are 1 to the number of clients, until effClose, and the
\* next is the creating thread's.
Numbered ==
  /\ \A t, u \in DOMAIN clients : clients[t] = clients[u] => t = u
  /\ plugin \in {"creating", "created"} =>
       /\ \A t \in DOMAIN clients : clients[t] <= Cardinality(DOMAIN clients)
       /\ \A t \in Threads : pc[t] \in Holding => index[t] = NewIndex

\* A FIFO has a name from its creation until its creator has both ends.
FifosNamed ==
  \A t \in Threads :
    /\ pc[t] \in Holding \ {"insert", "wait"} => FifosOf(index[t]) \subseteq fifos
    /\ pc[t] \in {"insert", "wait"} => FifosOf(index[t]) \cap fifos = {}

\* The memory has one until the thread that serves it has opened it.
MemoryNamed ==
  \A t \in Threads :
    /\ pc[t] \in {"spawn", "ask"} => index[t] \in shms
    /\ pc[t] \in Joined =>
         (index[t] \in shms <=>
            \A k \in DOMAIN srv : srv[k].index = index[t] => srv[k].at = "open_shm")

\* The server's threads: the main one first, each with an index of its own,
\* which is a client's or that of the thread that asked for it.
ServerThreads ==
  /\ srv = <<>> <=> process = "none"
  /\ plugin = "creating" /\ pc[Main] \in {"create", "spawn"} => process = "none"
  /\ \A k \in DOMAIN srv : srv[k].index = 0 <=> k = 1
  /\ \A j, k \in DOMAIN srv : srv[j].index = srv[k].index => j = k
  /\ plugin \in {"creating", "created"} /\ process = "up" =>
       \A k \in DOMAIN srv :
         \/ srv[k].index <= Cardinality(DOMAIN clients)
         \/ \E t \in Threads : pc[t] \in Joined /\ index[t] = srv[k].index

\* One request or one answer is under way, for the thread that asked.
OneAsks ==
  /\ requests # <<>> /\ process # "exited" =>
       /\ answers = 0
       /\ \E t \in Threads : /\ pc[t] = "asked" /\ requests = <<index[t]>>
                             /\ \A k \in DOMAIN srv : srv[k].index # index[t]
  /\ answers # 0 => \E t \in Threads : pc[t] = "asked"

\* A pipe is closed with a return in it, and of no client that is in use.
ClosedInOrder ==
  /\ plugin \in {"creating", "created"} => hungup = {}
  /\ \A t \in Threads : pc[t] = "close" => plugin \in {"closing", "deleted"}
  /\ returns \subseteq hungup
  /\ \A t \in DOMAIN clients : clients[t] \notin hungup
  /\ \A k \in DOMAIN srv :
       srv[k].index \in hungup <=> srv[k].at \in {"returned", "gone"} \/ srv[k].index \in returns

\* Each end of the rendezvous knows of the other.
Rendezvous ==
  /\ \A i \in Nat : End("r", "c2s", i) \in ends =>
       \E k \in DOMAIN srv : srv[k].index = i /\ srv[k].at \notin Before
  /\ process = "up" =>
       \A k \in DOMAIN srv : srv[k].at \in Before =>
         \E t \in Threads : /\ pc[t] \in Joined \ {"unlink", "insert", "wait"}
                            /\ index[t] = srv[k].index
  /\ \A t \in Threads : pc[t] \in {"unlink", "insert", "wait"} =>
       \E k \in DOMAIN srv : srv[k].index = index[t] /\ srv[k].at \in Behind
  /\ \A t \in DOMAIN clients :
       \E k \in DOMAIN srv : srv[k].index = clients[t] /\ srv[k].at \in Behind

NoServerFails == \A k \in DOMAIN srv : srv[k].at # "failed"

\* As long as nothing is refused, the names there are have an owner.
NamesOwned ==
  ~refused /\ process # "exited" =>
    \A i \in shms : \E t \in Threads : pc[t] \in Holding /\ index[t] = i

NoHostFails ==
  ~refused /\ process # "exited" => \A t \in Threads : pc[t] # "failed"

Live ==
  /\ OneCreates /\ Numbered /\ FifosNamed /\ MemoryNamed /\ ServerThreads
  /\ OneAsks /\ ClosedInOrder /\ Rendezvous /\ NoServerFails /\ NamesOwned

\* The invariant.  A dead host takes no step, and its servers may throw: what
\* remains then is what its names and its threads are.
IInv ==
  /\ Typed /\ NothingLeftBehind /\ NoHostFails
  /\ plugin # "dead" => Live

------------------------------------------------------------------------------
\* The host's thread finds its first pipe open.
LEMMA RecvOpenedKeeps ==
  ASSUME IInv, Typed', NEW t \in Threads, RecvOpened(t), refused' = refused
  PROVE  IInv'
<1>1. /\ plugin # "dead" /\ plugin' # "dead" /\ pc[t] = "recv" /\ pc'[t] = "open_send"
      /\ \A u \in Threads \ {t} : pc'[u] = pc[u]
      /\ UNCHANGED <<index, clients, plugin, fifos, shms, ends, hungup, requests, answers, returns, process, srv>>
  BY GoesFacts DEF RecvOpened, fileVars, pipeVars, serverVars, IInv, Typed, Places, Creating
<1>2. OneCreates' /\ Numbered'
  BY <1>1 DEF IInv, Live, OneCreates, Numbered, Creating, NewIndex, Holding
<1>3. FifosNamed' /\ NothingLeftBehind'
  BY <1>1 DEF IInv, Live, FifosNamed, NothingLeftBehind, FifosOf, Fifo, Holding, Creating
<1>4. MemoryNamed' /\ NamesOwned'
  BY <1>1 DEF IInv, Live, MemoryNamed, NamesOwned, Joined, Holding, Creating
<1>5. ServerThreads'
  BY <1>1, MainAssumption DEF IInv, Live, ServerThreads, Joined, Holding, Creating
<1>6. OneAsks' /\ ClosedInOrder'
  BY <1>1 DEF IInv, Live, OneAsks, ClosedInOrder, Creating
<1>7. Rendezvous'
  BY <1>1 DEF IInv, Live, Rendezvous, End, Before, Behind, Joined, Holding, Creating
<1>8. NoServerFails' /\ NoHostFails'
  BY <1>1 DEF IInv, Live, NoServerFails, NoHostFails
<1> QED
  BY <1>2, <1>3, <1>4, <1>5, <1>6, <1>7, <1>8 DEF IInv, Live

\* A request is written: it is the only one, and no thread of the server has its
\* index yet.
LEMMA AskKeeps ==
  ASSUME IInv, Typed', NEW t \in Threads, Ask(t), refused' = refused
  PROVE  IInv'
<1>1. /\ plugin # "dead" /\ plugin' # "dead" /\ pc[t] = "ask" /\ pc'[t] = "asked"
      /\ \A u \in Threads \ {t} : pc'[u] = pc[u]
      /\ UNCHANGED <<index, clients, plugin, fifos, shms, ends, hungup, answers, returns, process, srv>>
      /\ requests' = Append(requests, index[t]) /\ process = "up"
  BY GoesFacts DEF Ask, fileVars, pipeVars, serverVars, IInv, Typed, Places, Creating
<1>2. plugin = "created" /\ index[t] = Cardinality(DOMAIN clients) + 1
  BY <1>1 DEF IInv, Typed, HostTypes, Phases, Live, OneCreates, Numbered, NewIndex, Creating, Holding
<1>3. \A k \in DOMAIN srv : srv[k].index # index[t]
  BY <1>1, <1>2, ThreadFacts, FS_CardinalityType
     DEF IInv, Typed, HostTypes, ServerTypes, Live, OneCreates, ServerThreads, Creating, Holding, Joined
<1>4. requests = <<>> /\ answers = 0
  BY <1>1 DEF IInv, Live, OneCreates, OneAsks, Creating
<1>5. requests' = <<index[t]>>
  BY <1>1, <1>4
<1>6. OneCreates' /\ Numbered'
  BY <1>1 DEF IInv, Live, OneCreates, Numbered, Creating, NewIndex, Holding
<1>7. FifosNamed' /\ NothingLeftBehind'
  BY <1>1 DEF IInv, Live, FifosNamed, NothingLeftBehind, FifosOf, Fifo, Holding, Creating
<1>8. NamesOwned'
  BY <1>1 DEF IInv, Live, NamesOwned, Holding, Creating
<1>9. MemoryNamed'
  BY <1>1, <1>3 DEF IInv, Live, MemoryNamed, Joined, Holding, Creating
<1>10. ServerThreads'
  BY <1>1, MainAssumption DEF IInv, Live, ServerThreads, Joined, Holding, Creating
<1>11. ClosedInOrder'
  BY <1>1 DEF IInv, Live, ClosedInOrder
<1>12. OneAsks'
  BY <1>1, <1>3, <1>4, <1>5 DEF IInv, Live, OneAsks, Creating
<1>13. Rendezvous'
  BY <1>1 DEF IInv, Live, Rendezvous, End, Before, Behind, Joined, Holding, Creating
<1>14. NoServerFails' /\ NoHostFails'
  BY <1>1 DEF IInv, Live, NoServerFails, NoHostFails
<1> QED
  BY <1>6, <1>7, <1>8, <1>9, <1>10, <1>11, <1>12, <1>13, <1>14 DEF IInv, Live

\* The answer is read.
LEMMA AskedKeeps ==
  ASSUME IInv, Typed', NEW t \in Threads, Asked(t), refused' = refused
  PROVE  IInv'
<1>1. /\ plugin # "dead" /\ plugin' # "dead" /\ pc[t] = "asked" /\ pc'[t] = "open_recv"
      /\ \A u \in Threads \ {t} : pc'[u] = pc[u]
      /\ UNCHANGED <<index, clients, plugin, fifos, shms, ends, hungup, requests, returns, process, srv>>
      /\ answers' = 0 /\ answers > 0
  BY GoesFacts DEF Asked, fileVars, pipeVars, serverVars, IInv, Typed, Places, Creating
<1>2. OneCreates' /\ Numbered'
  BY <1>1 DEF IInv, Live, OneCreates, Numbered, Creating, NewIndex, Holding
<1>3. FifosNamed' /\ NothingLeftBehind'
  BY <1>1 DEF IInv, Live, FifosNamed, NothingLeftBehind, FifosOf, Fifo, Holding, Creating
<1>4. MemoryNamed' /\ NamesOwned'
  BY <1>1 DEF IInv, Live, MemoryNamed, NamesOwned, Joined, Holding, Creating
<1>5. ServerThreads'
  BY <1>1, MainAssumption DEF IInv, Live, ServerThreads, Joined, Holding, Creating
<1>6. OneAsks' /\ ClosedInOrder'
  BY <1>1 DEF IInv, Live, OneAsks, ClosedInOrder, Creating
<1>7. Rendezvous'
  BY <1>1 DEF IInv, Live, Rendezvous, End, Before, Behind, Joined, Holding, Creating
<1>8. NoServerFails' /\ NoHostFails'
  BY <1>1 DEF IInv, Live, NoServerFails, NoHostFails
<1> QED
  BY <1>2, <1>3, <1>4, <1>5, <1>6, <1>7, <1>8 DEF IInv, Live

\* The second pipe is open too: whoever opened its other end has mapped the
\* memory, and has not ended, as nothing is closed while a handler is created.
LEMMA SendOpenedKeeps ==
  ASSUME IInv, Typed', NEW t \in Threads, SendOpened(t), refused' = refused
  PROVE  IInv'
<1>1. /\ plugin # "dead" /\ plugin' # "dead" /\ pc[t] = "send" /\ pc'[t] = "unlink"
      /\ \A u \in Threads \ {t} : pc'[u] = pc[u]
      /\ UNCHANGED <<index, clients, plugin, fifos, shms, ends, hungup, requests, answers, returns, process, srv>>
      /\ Opened("w", "c2s", index[t])
  BY GoesFacts DEF SendOpened, fileVars, pipeVars, serverVars, IInv, Typed, Places, Creating
<1>2. \E k \in DOMAIN srv : srv[k].index = index[t] /\ srv[k].at \in Behind
  <2>1. End("r", "c2s", index[t]) \in ends /\ index[t] \in Nat
    BY <1>1 DEF Opened, IInv, Typed, HostTypes
  <2>2. PICK k \in DOMAIN srv : srv[k].index = index[t] /\ srv[k].at \notin Before
    BY <1>1, <2>1 DEF IInv, Live, Rendezvous
  <2>3. index[t] \notin hungup
    BY <1>1 DEF IInv, Live, ClosedInOrder, OneCreates, Creating
  <2>4. srv[k].at \notin {"returned", "gone", "failed"}
    BY <1>1, <2>2, <2>3 DEF IInv, Live, ClosedInOrder, NoServerFails
  <2>5. srv[k].at \in Ats
    BY <2>2, ThreadFacts DEF IInv, Typed, ServerTypes
  <2> QED
    BY <2>2, <2>4, <2>5 DEF Before, Behind, Ats, Opening
<1>3. OneCreates' /\ Numbered'
  BY <1>1 DEF IInv, Live, OneCreates, Numbered, Creating, NewIndex, Holding
<1>4. FifosNamed' /\ NothingLeftBehind'
  BY <1>1 DEF IInv, Live, FifosNamed, NothingLeftBehind, FifosOf, Fifo, Holding, Creating
<1>5. MemoryNamed' /\ NamesOwned'
  BY <1>1 DEF IInv, Live, MemoryNamed, NamesOwned, Joined, Holding, Creating
<1>6. ServerThreads'
  BY <1>1, MainAssumption DEF IInv, Live, ServerThreads, Joined, Holding, Creating
<1>7. OneAsks' /\ ClosedInOrder'
  BY <1>1 DEF IInv, Live, OneAsks, ClosedInOrder, Creating
<1>8. Rendezvous'
  <2>1. \A u \in Threads : pc'[u] \in {"unlink", "insert", "wait"} =>
          \E k \in DOMAIN srv : srv[k].index = index[u] /\ srv[k].at \in Behind
    BY <1>1, <1>2 DEF IInv, Live, Rendezvous
  <2>2. ASSUME process = "up", NEW k \in DOMAIN srv, srv[k].at \in Before
        PROVE  \E u \in Threads : /\ pc'[u] \in Joined \ {"unlink", "insert", "wait"}
                                  /\ index[u] = srv[k].index
    <3>1. srv[k].index # index[t]
      BY <1>1, <1>2, <2>2 DEF IInv, Live, ServerThreads, Before, Behind
    <3> QED
      BY <1>1, <2>2, <3>1 DEF IInv, Live, Rendezvous
  <2> QED
    BY <1>1, <2>1, <2>2 DEF IInv, Live, Rendezvous
<1>9. NoServerFails' /\ NoHostFails'
  BY <1>1 DEF IInv, Live, NoServerFails, NoHostFails
<1> QED
  BY <1>3, <1>4, <1>5, <1>6, <1>7, <1>8, <1>9 DEF IInv, Live

\* The next index is used by nobody: its FIFOs and memory are new.
LEMMA CreateKeeps ==
  ASSUME IInv, Typed', NEW t \in Threads, Create(t), pc'[t] # "failed", refused' = refused
  PROVE  IInv'
<1>1. /\ plugin # "dead" /\ plugin' # "dead" /\ pc[t] = "create"
      /\ pc'[t] = IF plugin = "creating" THEN "spawn" ELSE "ask"
      /\ \A u \in Threads \ {t} : pc'[u] = pc[u]
      /\ index'[t] = NewIndex /\ \A u \in Threads \ {t} : index'[u] = index[u]
      /\ fifos' = fifos \cup FifosOf(NewIndex) /\ shms' = shms \cup {NewIndex}
      /\ UNCHANGED <<clients, plugin, ends, hungup, requests, answers, returns, process, srv>>
  <2>1. NewIndex \notin shms
    <3>1. SUFFICES ASSUME NewIndex \in shms PROVE FALSE
      OBVIOUS
    <3>2. Goes(t, "create", "failed")
      BY <3>1 DEF Create, CreateResources
    <3> QED
      BY <3>2, GoesFacts DEF IInv, Typed, Places
  <2>2. IF plugin = "creating" THEN Goes(t, "create", "spawn") ELSE Goes(t, "create", "ask")
    <3>1. CASE plugin = "creating"
      BY <2>1, <3>1 DEF Create, CreateResources
    <3>2. CASE plugin # "creating"
      BY <2>1, <3>2 DEF Create, CreateResources
    <3> QED
      BY <3>1, <3>2
  <2> QED
    BY <2>2, GoesFacts DEF Create, CreateResources, pipeVars, serverVars, IInv, Typed, HostTypes, Places, Creating
<1>2. /\ plugin # "creating" => NewIndex = Cardinality(DOMAIN clients) + 1 /\ NewIndex # 0
      /\ Cardinality(DOMAIN clients) \in Nat
  BY NewIndexType, FS_CardinalityType DEF IInv, Typed, HostTypes
<1>3. \A u \in Threads : pc[u] \notin Holding /\ (u # t => pc'[u] \notin Holding)
  BY <1>1 DEF IInv, Live, OneCreates, Holding, Creating
<1>4. OneCreates'
  BY <1>1 DEF IInv, Live, OneCreates, Creating
<1>5. Numbered'
  BY <1>1, <1>3 DEF IInv, Live, Numbered, NewIndex, Holding, Creating
<1>6. FifosNamed'
  BY <1>1, <1>3 DEF IInv, Live, FifosNamed, FifosOf, Fifo, Holding, Creating
<1>7. NothingLeftBehind'
  <2>1. plugin \in {"created", "closing", "deleted"} => plugin = "created"
    BY <1>1 DEF IInv, Live, OneCreates, Creating
  <2>2. plugin = "creating" => DOMAIN clients = {}
    BY <1>1 DEF IInv, Typed, Phases
  <2>3. \A u \in DOMAIN clients : clients[u] # NewIndex
    BY <1>1, <1>2, <2>1, <2>2 DEF IInv, Live, Numbered, Typed, HostTypes
  <2> QED
    BY <1>1, <1>2, <2>1, <2>3 DEF IInv, NothingLeftBehind, FifosOf, Fifo
<1>8. MemoryNamed'
  BY <1>1, <1>3 DEF IInv, Live, MemoryNamed, Joined, Holding, Creating
<1>9. NamesOwned'
  BY <1>1, <1>3 DEF IInv, Live, NamesOwned, Holding, Creating
<1>10. ServerThreads'
  BY <1>1, MainAssumption DEF IInv, Live, ServerThreads, Joined, Holding, Creating
<1>11. OneAsks' /\ ClosedInOrder'
  BY <1>1 DEF IInv, Live, OneAsks, ClosedInOrder, Creating
<1>12. Rendezvous'
  BY <1>1 DEF IInv, Live, Rendezvous, End, Before, Behind, Joined, Holding, Creating
<1>13. NoServerFails' /\ NoHostFails'
  BY <1>1 DEF IInv, Live, NoServerFails, NoHostFails
<1> QED
  BY <1>4, <1>5, <1>6, <1>7, <1>8, <1>9, <1>10, <1>11, <1>12, <1>13 DEF IInv, Live

\* A creation that fails, refused by the operating system or because the
\* memory's name exists, as it may once the server has exited.
LEMMA CreationFailsKeeps ==
  ASSUME IInv, Typed', NEW t \in Threads,
         \/ CreateFails(t) /\ refused' = TRUE
         \/ Create(t) /\ pc'[t] = "failed" /\ refused' = refused
  PROVE  IInv'
<1>1. /\ plugin # "dead" /\ plugin' # "dead" /\ pc[t] = "create" /\ pc'[t] = "failed"
      /\ \A u \in Threads \ {t} : pc'[u] = pc[u]
      /\ index'[t] = NewIndex /\ \A u \in Threads \ {t} : index'[u] = index[u]
      /\ fifos' = fifos \cup FifosOf(NewIndex) /\ shms' = shms \cup {NewIndex}
      /\ UNCHANGED <<clients, plugin, ends, hungup, requests, answers, returns, process, srv>>
  <2>1. Goes(t, "create", "failed")
    <3>1. CASE Create(t) /\ NewIndex \notin shms
      <4>1. Goes(t, "create", "spawn") \/ Goes(t, "create", "ask")
        BY <3>1 DEF Create, CreateResources
      <4>2. pc'[t] # "failed"
        BY <4>1, GoesFacts DEF IInv, Typed, Places, Creating
      <4>3. pc'[t] = "failed"
        BY <3>1, GoesFacts DEF CreateFails, IInv, Typed, Places
      <4> QED
        BY <4>2, <4>3
    <3> QED
      BY <3>1 DEF Create, CreateFails, CreateResources
  <2> QED
    BY <2>1, GoesFacts DEF Create, CreateFails, CreateResources, pipeVars, serverVars, IInv, Typed, HostTypes, Places, Creating
<1>2. /\ plugin # "creating" => NewIndex = Cardinality(DOMAIN clients) + 1 /\ NewIndex # 0
      /\ Cardinality(DOMAIN clients) \in Nat
  BY NewIndexType, FS_CardinalityType DEF IInv, Typed, HostTypes
<1>3. \A u \in Threads : pc[u] \notin Holding /\ pc'[u] \notin Holding
  BY <1>1 DEF IInv, Live, OneCreates, Holding, Creating
<1>4. refused' = TRUE \/ process = "exited"
  <2>1. ASSUME ~refused, process # "exited"
        PROVE  shms = {}
    BY <1>1, <1>3, <2>1 DEF IInv, Live, NamesOwned
  <2>2. CASE Create(t)
    <3>1. NewIndex \in shms
      BY <1>1, <2>2, GoesFacts DEF Create, CreateResources, IInv, Typed, Places, Creating
    <3> QED
      BY <1>1, <2>1, <3>1 DEF CreateFails, IInv, Typed
  <2> QED
    BY <2>1, <2>2
<1>5. OneCreates'
  BY <1>1 DEF IInv, Live, OneCreates, Creating
<1>6. Numbered'
  BY <1>1, <1>3 DEF IInv, Live, Numbered, NewIndex, Holding, Creating
<1>7. FifosNamed'
  BY <1>1, <1>3 DEF IInv, Live, FifosNamed, FifosOf, Fifo, Holding, Creating
<1>8. NothingLeftBehind'
  <2>1. plugin \in {"created", "closing", "deleted"} => plugin = "created"
    BY <1>1 DEF IInv, Live, OneCreates, Creating
  <2>2. plugin = "creating" => DOMAIN clients = {}
    BY <1>1 DEF IInv, Typed, Phases
  <2>3. \A u \in DOMAIN clients : clients[u] # NewIndex
    BY <1>1, <1>2, <2>1, <2>2 DEF IInv, Live, Numbered, Typed, HostTypes
  <2> QED
    BY <1>1, <1>2, <2>1, <2>3 DEF IInv, NothingLeftBehind, FifosOf, Fifo
<1>9. MemoryNamed'
  BY <1>1, <1>3 DEF IInv, Live, MemoryNamed, Joined, Holding, Creating
<1>10. NamesOwned'
  BY <1>1, <1>3, <1>4 DEF IInv, Live, NamesOwned, Holding, Creating
<1>11. ServerThreads'
  BY <1>1, MainAssumption DEF IInv, Live, ServerThreads, Joined, Holding, Creating
<1>12. OneAsks' /\ ClosedInOrder'
  BY <1>1 DEF IInv, Live, OneAsks, ClosedInOrder, Creating
<1>13. Rendezvous'
  BY <1>1 DEF IInv, Live, Rendezvous, End, Before, Behind, Joined, Holding, Creating
<1>14. NoServerFails'
  BY <1>1 DEF IInv, Live, NoServerFails
<1>15. NoHostFails'
  BY <1>1, <1>4 DEF IInv, Live, NoHostFails
<1> QED
  BY <1>5, <1>6, <1>7, <1>8, <1>9, <1>10, <1>11, <1>12, <1>13, <1>14, <1>15 DEF IInv, Live

\* The server's first thread.
LEMMA SpawnKeeps ==
  ASSUME IInv, Typed', NEW t \in Threads, Spawn(t), refused' = refused
  PROVE  IInv'
<1>1. /\ plugin # "dead" /\ plugin' # "dead" /\ pc[t] = "spawn" /\ pc'[t] = "open_recv"
      /\ \A u \in Threads \ {t} : pc'[u] = pc[u]
      /\ UNCHANGED <<index, clients, plugin, fifos, shms, ends, hungup, requests, answers, returns, effect>>
      /\ process' = "up" /\ srv' = <<[index |-> 0, at |-> "open_shm"]>>
  BY GoesFacts DEF Spawn, fileVars, pipeVars, serverVars, IInv, Typed, Places, Creating
<1>2. plugin = "creating" /\ t = Main /\ index[t] = 0
  BY <1>1 DEF IInv, Typed, Phases
<1>3. process = "none" /\ srv = <<>> /\ DOMAIN srv = {}
  BY <1>1, <1>2 DEF IInv, Live, ServerThreads
<1>4. /\ DOMAIN srv' = {1} /\ srv' # <<>>
      /\ srv'[1].index = 0 /\ srv'[1].at = "open_shm"
  BY <1>1
<1>5. hungup = {} /\ returns = {}
  BY <1>1, <1>2 DEF IInv, Live, ClosedInOrder
<1>6. requests = <<>>
  BY <1>1, <1>2, <1>3, MainAssumption DEF IInv, Live, OneAsks, OneCreates, Creating
<1>7. OneCreates' /\ Numbered'
  BY <1>1 DEF IInv, Live, OneCreates, Numbered, Creating, NewIndex, Holding
<1>8. FifosNamed' /\ NothingLeftBehind'
  BY <1>1 DEF IInv, Live, FifosNamed, NothingLeftBehind, FifosOf, Fifo, Holding, Creating
<1>9. MemoryNamed'
  BY <1>1, <1>2, <1>3, <1>4 DEF IInv, Live, MemoryNamed, Joined, Holding, Creating
<1>10. NamesOwned'
  BY <1>1, <1>3 DEF IInv, Live, NamesOwned, Holding, Creating
<1>11. ServerThreads'
  BY <1>1, <1>2, <1>3, <1>4, MainAssumption
     DEF IInv, Live, ServerThreads, Joined, Holding, Creating
<1>12. OneAsks'
  BY <1>1, <1>6 DEF IInv, Live, OneAsks, Creating
<1>13. ClosedInOrder'
  BY <1>1, <1>4, <1>5 DEF IInv, Live, ClosedInOrder
<1>14. Rendezvous'
  BY <1>1, <1>2, <1>3, <1>4
     DEF IInv, Live, Rendezvous, End, Before, Behind, Joined, Holding, Creating
<1>15. NoServerFails'
  BY <1>1, <1>4 DEF IInv, Live, NoServerFails
<1>16. NoHostFails'
  BY <1>1, <1>3 DEF IInv, Live, NoHostFails
<1> QED
  BY <1>7, <1>8, <1>9, <1>10, <1>11, <1>12, <1>13, <1>14, <1>15, <1>16 DEF IInv, Live

\* There is no server.
LEMMA SpawnFailsKeeps ==
  ASSUME IInv, Typed', NEW t \in Threads, SpawnFails(t), refused'
  PROVE  IInv'
<1>1. /\ plugin # "dead" /\ plugin' # "dead" /\ pc[t] = "spawn" /\ pc'[t] = "failed"
      /\ \A u \in Threads \ {t} : pc'[u] = pc[u]
      /\ UNCHANGED <<index, clients, plugin, fifos, shms, ends, hungup, requests, answers, returns, process, srv>>
  BY GoesFacts DEF SpawnFails, fileVars, pipeVars, serverVars, IInv, Typed, Places, Creating
<1>2. OneCreates' /\ Numbered'
  BY <1>1 DEF IInv, Live, OneCreates, Numbered, Creating, NewIndex, Holding
<1>3. FifosNamed' /\ NothingLeftBehind'
  BY <1>1 DEF IInv, Live, FifosNamed, NothingLeftBehind, FifosOf, Fifo, Holding, Creating
<1>4. MemoryNamed' /\ NamesOwned'
  BY <1>1 DEF IInv, Live, MemoryNamed, NamesOwned, Joined, Holding, Creating
<1>5. ServerThreads'
  BY <1>1, MainAssumption DEF IInv, Live, ServerThreads, Joined, Holding, Creating
<1>6. OneAsks' /\ ClosedInOrder'
  BY <1>1 DEF IInv, Live, OneAsks, ClosedInOrder, Creating
<1>7. Rendezvous'
  BY <1>1 DEF IInv, Live, Rendezvous, End, Before, Behind, Joined, Holding, Creating
<1>8. NoServerFails' /\ NoHostFails'
  BY <1>1 DEF IInv, Live, NoServerFails, NoHostFails
<1> QED
  BY <1>2, <1>3, <1>4, <1>5, <1>6, <1>7, <1>8 DEF IInv, Live

\* The server has gone.
LEMMA FailsKeeps ==
  ASSUME IInv, Typed', NEW t \in Threads, Fails(t), refused' = refused
  PROVE  IInv'
<1>1. /\ plugin # "dead" /\ plugin' # "dead" /\ pc'[t] = "failed"
      /\ pc[t] \in {"ask", "asked", "wait", "call", "close"}
      /\ process = "exited" /\ answers = 0
      /\ \A u \in Threads \ {t} : pc'[u] = pc[u]
      /\ UNCHANGED <<index, clients, plugin, fifos, shms, ends, hungup, requests, answers, returns, process, srv>>
  BY GoesFacts DEF Fails, fileVars, pipeVars, serverVars, IInv, Typed, Places, Creating
<1>2. OneCreates' /\ Numbered'
  BY <1>1 DEF IInv, Live, OneCreates, Numbered, Creating, NewIndex, Holding
<1>3. FifosNamed' /\ NothingLeftBehind'
  BY <1>1 DEF IInv, Live, FifosNamed, NothingLeftBehind, FifosOf, Fifo, Holding, Creating
<1>4. MemoryNamed' /\ NamesOwned'
  BY <1>1 DEF IInv, Live, MemoryNamed, NamesOwned, Joined, Holding, Creating
<1>5. ServerThreads'
  BY <1>1, MainAssumption DEF IInv, Live, ServerThreads, Joined, Holding, Creating
<1>6. OneAsks' /\ ClosedInOrder'
  BY <1>1 DEF IInv, Live, OneAsks, ClosedInOrder, Creating
<1>7. Rendezvous'
  BY <1>1 DEF IInv, Live, Rendezvous, End, Before, Behind, Joined, Holding, Creating
<1>8. NoServerFails' /\ NoHostFails'
  BY <1>1 DEF IInv, Live, NoServerFails, NoHostFails
<1> QED
  BY <1>2, <1>3, <1>4, <1>5, <1>6, <1>7, <1>8 DEF IInv, Live

\* The two opens of create_client: their names are there.
LEMMA OpenRecvKeeps ==
  ASSUME IInv, Typed', NEW t \in Threads, OpenRecv(t), refused' = refused
  PROVE  IInv'
<1>1. /\ plugin # "dead" /\ plugin' # "dead" /\ pc[t] = "open_recv" /\ pc'[t] = "recv"
      /\ \A u \in Threads \ {t} : pc'[u] = pc[u]
      /\ ends' = ends \cup {End("r", "s2c", index[t])}
      /\ UNCHANGED <<index, clients, plugin, fifos, shms, hungup, requests, answers, returns, process, srv>>
  <2>1. plugin # "dead" /\ pc[t] = "open_recv"
    BY DEF OpenRecv, Goes
  <2>2. Fifo("s2c", index[t]) \in fifos
    BY <2>1 DEF IInv, Live, FifosNamed, FifosOf, Holding, Creating
  <2>3. Goes(t, "open_recv", "recv") /\ ends' = ends \cup {End("r", "s2c", index[t])}
    BY <2>2 DEF OpenRecv, Opens, Named
  <2> QED
    BY <2>3, GoesFacts DEF OpenRecv, pipeVars, serverVars, IInv, Typed, Places, Creating
<1>2. OneCreates' /\ Numbered'
  BY <1>1 DEF IInv, Live, OneCreates, Numbered, Creating, NewIndex, Holding
<1>3. FifosNamed' /\ NothingLeftBehind'
  BY <1>1 DEF IInv, Live, FifosNamed, NothingLeftBehind, FifosOf, Fifo, Holding, Creating
<1>4. MemoryNamed' /\ NamesOwned'
  BY <1>1 DEF IInv, Live, MemoryNamed, NamesOwned, Joined, Holding, Creating
<1>5. ServerThreads'
  BY <1>1, MainAssumption DEF IInv, Live, ServerThreads, Joined, Holding, Creating
<1>6. OneAsks' /\ ClosedInOrder'
  BY <1>1 DEF IInv, Live, OneAsks, ClosedInOrder, Creating
<1>7. Rendezvous'
  BY <1>1 DEF IInv, Live, Rendezvous, End, Before, Behind, Joined, Holding, Creating
<1>8. NoServerFails' /\ NoHostFails'
  BY <1>1 DEF IInv, Live, NoServerFails, NoHostFails
<1> QED
  BY <1>2, <1>3, <1>4, <1>5, <1>6, <1>7, <1>8 DEF IInv, Live

LEMMA OpenSendKeeps ==
  ASSUME IInv, Typed', NEW t \in Threads, OpenSend(t), refused' = refused
  PROVE  IInv'
<1>1. /\ plugin # "dead" /\ plugin' # "dead" /\ pc[t] = "open_send" /\ pc'[t] = "send"
      /\ \A u \in Threads \ {t} : pc'[u] = pc[u]
      /\ ends' = ends \cup {End("w", "c2s", index[t])}
      /\ UNCHANGED <<index, clients, plugin, fifos, shms, hungup, requests, answers, returns, process, srv>>
  <2>1. plugin # "dead" /\ pc[t] = "open_send"
    BY DEF OpenSend, Goes
  <2>2. Fifo("c2s", index[t]) \in fifos
    BY <2>1 DEF IInv, Live, FifosNamed, FifosOf, Holding, Creating
  <2>3. Goes(t, "open_send", "send") /\ ends' = ends \cup {End("w", "c2s", index[t])}
    BY <2>2 DEF OpenSend, Opens, Named
  <2> QED
    BY <2>3, GoesFacts DEF OpenSend, pipeVars, serverVars, IInv, Typed, Places, Creating
<1>2. OneCreates' /\ Numbered'
  BY <1>1 DEF IInv, Live, OneCreates, Numbered, Creating, NewIndex, Holding
<1>3. FifosNamed' /\ NothingLeftBehind'
  BY <1>1 DEF IInv, Live, FifosNamed, NothingLeftBehind, FifosOf, Fifo, Holding, Creating
<1>4. MemoryNamed' /\ NamesOwned'
  BY <1>1 DEF IInv, Live, MemoryNamed, NamesOwned, Joined, Holding, Creating
<1>5. ServerThreads'
  BY <1>1, MainAssumption DEF IInv, Live, ServerThreads, Joined, Holding, Creating
<1>6. OneAsks' /\ ClosedInOrder'
  BY <1>1 DEF IInv, Live, OneAsks, ClosedInOrder, Creating
<1>7. Rendezvous'
  BY <1>1 DEF IInv, Live, Rendezvous, End, Before, Behind, Joined, Holding, Creating
<1>8. NoServerFails' /\ NoHostFails'
  BY <1>1 DEF IInv, Live, NoServerFails, NoHostFails
<1> QED
  BY <1>2, <1>3, <1>4, <1>5, <1>6, <1>7, <1>8 DEF IInv, Live

\* The names of the FIFOs go.
LEMMA UnlinkKeeps ==
  ASSUME IInv, Typed', NEW t \in Threads, Unlink(t), refused' = refused
  PROVE  IInv'
<1>1. /\ plugin # "dead" /\ plugin' # "dead" /\ pc[t] = "unlink" /\ pc'[t] \in {"wait", "insert"}
      /\ \A u \in Threads \ {t} : pc'[u] = pc[u]
      /\ fifos' = fifos \ FifosOf(index[t])
      /\ UNCHANGED <<index, clients, plugin, shms, ends, hungup, requests, answers, returns, process, srv>>
  <2>1. Goes(t, "unlink", "wait") \/ Goes(t, "unlink", "insert")
    BY DEF Unlink
  <2> QED
    BY <2>1, GoesFacts DEF Unlink, pipeVars, serverVars, IInv, Typed, Places, Creating
<1>2. \A u \in Threads \ {t} : pc[u] \notin Creating
  BY <1>1 DEF IInv, Live, OneCreates, Creating
<1>3. OneCreates' /\ Numbered'
  BY <1>1 DEF IInv, Live, OneCreates, Numbered, Creating, NewIndex, Holding
<1>4. NothingLeftBehind'
  BY <1>1 DEF IInv, Live, NothingLeftBehind, FifosOf, Fifo
<1>5. FifosNamed'
  BY <1>1, <1>2 DEF IInv, Live, FifosNamed, FifosOf, Fifo, Holding, Creating
<1>6. MemoryNamed' /\ NamesOwned'
  BY <1>1 DEF IInv, Live, MemoryNamed, NamesOwned, Joined, Holding, Creating
<1>7. ServerThreads'
  BY <1>1, MainAssumption DEF IInv, Live, ServerThreads, Joined, Holding, Creating
<1>8. OneAsks' /\ ClosedInOrder'
  BY <1>1 DEF IInv, Live, OneAsks, ClosedInOrder, Creating
<1>9. Rendezvous'
  BY <1>1 DEF IInv, Live, Rendezvous, End, Before, Behind, Joined, Holding, Creating
<1>10. NoServerFails' /\ NoHostFails'
  BY <1>1 DEF IInv, Live, NoServerFails, NoHostFails
<1> QED
  BY <1>3, <1>4, <1>5, <1>6, <1>7, <1>8, <1>9, <1>10 DEF IInv, Live

\* The client joins the map.  Its server thread is behind it, so that no name
\* of its index is left.
LEMMA InsertKeeps ==
  ASSUME IInv, Typed', NEW t \in Threads, Insert(t), refused' = refused
  PROVE  IInv'
<1>1. /\ plugin # "dead" /\ plugin' # "dead" /\ pc[t] = "insert" /\ pc'[t] = "call"
      /\ \A u \in Threads \ {t} : pc'[u] = pc[u]
      /\ DOMAIN clients' = DOMAIN clients \cup {t}
      /\ clients'[t] = index[t] /\ \A u \in DOMAIN clients \ {t} : clients'[u] = clients[u]
      /\ UNCHANGED <<index, plugin, fifos, shms, ends, hungup, requests, answers, returns, process, srv>>
  BY GoesFacts DEF Insert, fileVars, pipeVars, serverVars, IInv, Typed, Places, Creating
<1>2. plugin = "created" /\ t \notin DOMAIN clients
  BY <1>1 DEF IInv, Typed, Phases, Live, OneCreates, Creating
<1>3. \A u \in Threads \ {t} : pc[u] \notin Creating
  BY <1>1 DEF IInv, Live, OneCreates, Creating
<1>4. /\ Cardinality(DOMAIN clients) \in Nat
      /\ Cardinality(DOMAIN clients') = Cardinality(DOMAIN clients) + 1
      /\ index[t] = Cardinality(DOMAIN clients')
  BY <1>1, <1>2, FS_CardinalityType, FS_AddElement
     DEF IInv, Typed, HostTypes, Live, Numbered, NewIndex, Holding, Creating
<1>5. index[t] \notin shms /\ FifosOf(index[t]) \cap fifos = {}
  <2>1. PICK k \in DOMAIN srv : srv[k].index = index[t] /\ srv[k].at \in Behind
    BY <1>1 DEF IInv, Live, Rendezvous
  <2> QED
    BY <1>1, <2>1 DEF IInv, Live, MemoryNamed, FifosNamed, Behind, Joined, Holding, Creating
<1>6. \A u \in DOMAIN clients : clients[u] \in Nat /\ clients[u] <= Cardinality(DOMAIN clients)
  BY <1>2 DEF IInv, Typed, HostTypes, Live, Numbered
<1>7. \A k \in DOMAIN srv : srv[k].index \in Nat /\ srv[k].at \in Ats
  BY ThreadFacts DEF IInv, Typed, ServerTypes
<1>8. OneCreates'
  BY <1>1, <1>3 DEF IInv, Live, OneCreates, Creating
<1>9. Numbered'
  BY <1>1, <1>2, <1>3, <1>4, <1>6 DEF IInv, Live, Numbered, NewIndex, Holding, Creating
<1>10. FifosNamed'
  BY <1>1, <1>3 DEF IInv, Live, FifosNamed, FifosOf, Fifo, Holding, Creating
<1>11. NothingLeftBehind'
  BY <1>1, <1>2, <1>5 DEF IInv, Live, NothingLeftBehind, FifosOf, Fifo
<1>12. MemoryNamed'
  BY <1>1, <1>3 DEF IInv, Live, MemoryNamed, Joined, Holding, Creating
<1>13. NamesOwned'
  BY <1>1, <1>3, <1>5 DEF IInv, Live, NamesOwned, Holding, Creating
<1>14. ServerThreads'
  BY <1>1, <1>2, <1>3, <1>4, <1>7, MainAssumption
     DEF IInv, Live, ServerThreads, Joined, Holding, Creating
<1>15. OneAsks'
  BY <1>1, <1>3 DEF IInv, Live, OneAsks, Creating
<1>16. ClosedInOrder'
  BY <1>1, <1>2 DEF IInv, Live, ClosedInOrder
<1>17. Rendezvous'
  BY <1>1, <1>2, <1>3
     DEF IInv, Live, Rendezvous, End, Before, Behind, Joined, Holding, Creating
<1>18. NoServerFails' /\ NoHostFails'
  BY <1>1 DEF IInv, Live, NoServerFails, NoHostFails
<1> QED
  BY <1>8, <1>9, <1>10, <1>11, <1>12, <1>13, <1>14, <1>15, <1>16, <1>17, <1>18 DEF IInv, Live

\* VSTPluginMain returns, with the primary handler open.
LEMMA WaitKeeps ==
  ASSUME IInv, Typed', NEW t \in Threads, Wait(t), refused' = refused
  PROVE  IInv'
<1>1. /\ plugin # "dead" /\ plugin' = "created" /\ pc[t] = "wait" /\ pc'[t] = "out"
      /\ \A u \in Threads \ {t} : pc'[u] = pc[u]
      /\ UNCHANGED <<index, clients, fifos, shms, ends, hungup, requests, answers, returns, process, srv>>
  BY GoesFacts DEF Wait, fileVars, pipeVars, serverVars, IInv, Typed, Places, Creating
<1>2. plugin = "creating" /\ t = Main /\ index[t] = 0 /\ DOMAIN clients = {}
  BY <1>1 DEF IInv, Typed, Phases
<1>3. \A u \in Threads \ {t} : pc[u] \notin Creating
  BY <1>1 DEF IInv, Live, OneCreates, Creating
<1>4. Cardinality(DOMAIN clients) \in Nat
  BY FS_CardinalityType DEF IInv, Typed, HostTypes
<1>5. index[t] \notin shms /\ FifosOf(index[t]) \cap fifos = {}
  <2>1. PICK k \in DOMAIN srv : srv[k].index = index[t] /\ srv[k].at \in Behind
    BY <1>1 DEF IInv, Live, Rendezvous
  <2> QED
    BY <1>1, <2>1 DEF IInv, Live, MemoryNamed, FifosNamed, Behind, Joined, Holding, Creating
<1>7. \A k \in DOMAIN srv : srv[k].index \in Nat /\ srv[k].at \in Ats
  BY ThreadFacts DEF IInv, Typed, ServerTypes
<1>8. OneCreates'
  BY <1>1, <1>2, <1>3 DEF IInv, Live, OneCreates, Creating
<1>9. Numbered'
  BY <1>1, <1>2, <1>3 DEF IInv, Live, Numbered, NewIndex, Holding, Creating
<1>10. FifosNamed'
  BY <1>1, <1>3 DEF IInv, Live, FifosNamed, FifosOf, Fifo, Holding, Creating
<1>11. NothingLeftBehind'
  BY <1>1, <1>2, <1>5 DEF IInv, Live, NothingLeftBehind, FifosOf, Fifo
<1>12. MemoryNamed'
  BY <1>1, <1>3 DEF IInv, Live, MemoryNamed, Joined, Holding, Creating
<1>13. NamesOwned'
  BY <1>1, <1>3, <1>5 DEF IInv, Live, NamesOwned, Holding, Creating
<1>14. ServerThreads'
  BY <1>1, <1>2, <1>3, <1>4, <1>7, MainAssumption
     DEF IInv, Live, ServerThreads, Joined, Holding, Creating
<1>15. OneAsks'
  BY <1>1, <1>3 DEF IInv, Live, OneAsks, Creating
<1>16. ClosedInOrder'
  BY <1>1, <1>2, <1>3 DEF IInv, Live, ClosedInOrder
<1>17. Rendezvous'
  BY <1>1, <1>2, <1>3
     DEF IInv, Live, Rendezvous, End, Before, Behind, Joined, Holding, Creating
<1>18. NoServerFails' /\ NoHostFails'
  BY <1>1 DEF IInv, Live, NoServerFails, NoHostFails
<1> QED
  BY <1>8, <1>9, <1>10, <1>11, <1>12, <1>13, <1>14, <1>15, <1>16, <1>17, <1>18 DEF IInv, Live

\* Calls come and go; a first one starts a creation, when there is no other.
LEMMA EndCallKeeps ==
  ASSUME IInv, Typed', NEW t \in Threads, EndCall(t), refused' = refused
  PROVE  IInv'
<1>1. /\ plugin # "dead" /\ plugin' # "dead" /\ pc[t] = "call" /\ pc'[t] = "out"
      /\ \A u \in Threads \ {t} : pc'[u] = pc[u]
      /\ UNCHANGED <<index, clients, plugin, fifos, shms, ends, hungup, requests, answers, returns, process, srv>>
  BY GoesFacts DEF EndCall, fileVars, pipeVars, serverVars, IInv, Typed, Places, Creating
<1>2. OneCreates' /\ Numbered'
  BY <1>1 DEF IInv, Live, OneCreates, Numbered, Creating, NewIndex, Holding
<1>3. FifosNamed' /\ NothingLeftBehind'
  BY <1>1 DEF IInv, Live, FifosNamed, NothingLeftBehind, FifosOf, Fifo, Holding, Creating
<1>4. MemoryNamed' /\ NamesOwned'
  BY <1>1 DEF IInv, Live, MemoryNamed, NamesOwned, Joined, Holding, Creating
<1>5. ServerThreads'
  BY <1>1, MainAssumption DEF IInv, Live, ServerThreads, Joined, Holding, Creating
<1>6. OneAsks' /\ ClosedInOrder'
  BY <1>1 DEF IInv, Live, OneAsks, ClosedInOrder, Creating
<1>7. Rendezvous'
  BY <1>1 DEF IInv, Live, Rendezvous, End, Before, Behind, Joined, Holding, Creating
<1>8. NoServerFails' /\ NoHostFails'
  BY <1>1 DEF IInv, Live, NoServerFails, NoHostFails
<1> QED
  BY <1>2, <1>3, <1>4, <1>5, <1>6, <1>7, <1>8 DEF IInv, Live

LEMMA CallKeeps ==
  ASSUME IInv, Typed', FirstCallsOverlap = FALSE, NEW t \in Threads, Call(t), refused' = refused
  PROVE  IInv'
<1>1. /\ plugin = "created" /\ plugin' # "dead" /\ pc[t] = "out"
      /\ pc'[t] = "call" \/ (pc'[t] = "create" /\ t \notin DOMAIN clients /\ \A u \in Threads : pc[u] \notin Creating)
      /\ \A u \in Threads \ {t} : pc'[u] = pc[u]
      /\ UNCHANGED <<index, clients, plugin, fifos, shms, ends, hungup, requests, answers, returns, process, srv>>
  BY GoesFacts DEF Call, fileVars, pipeVars, serverVars, IInv, Typed, Places, Creating
<1>2. OneCreates' /\ Numbered'
  BY <1>1 DEF IInv, Live, OneCreates, Numbered, Creating, NewIndex, Holding
<1>3. FifosNamed' /\ NothingLeftBehind'
  BY <1>1 DEF IInv, Live, FifosNamed, NothingLeftBehind, FifosOf, Fifo, Holding, Creating
<1>4. MemoryNamed' /\ NamesOwned'
  BY <1>1 DEF IInv, Live, MemoryNamed, NamesOwned, Joined, Holding, Creating
<1>5. ServerThreads'
  BY <1>1, MainAssumption DEF IInv, Live, ServerThreads, Joined, Holding, Creating
<1>6. OneAsks' /\ ClosedInOrder'
  BY <1>1 DEF IInv, Live, OneAsks, ClosedInOrder, Creating
<1>7. Rendezvous'
  BY <1>1 DEF IInv, Live, Rendezvous, End, Before, Behind, Joined, Holding, Creating
<1>8. NoServerFails' /\ NoHostFails'
  BY <1>1 DEF IInv, Live, NoServerFails, NoHostFails
<1> QED
  BY <1>2, <1>3, <1>4, <1>5, <1>6, <1>7, <1>8 DEF IInv, Live

\* effClose begins: nobody is creating a handler.
LEMMA EffCloseKeeps ==
  ASSUME IInv, Typed', NEW t \in Threads, EffClose(t), refused' = refused
  PROVE  IInv'
<1>1. /\ plugin # "dead" /\ plugin' = "closing" /\ pc[t] = "call" /\ pc'[t] = "close" /\ process = "up"
      /\ \A u \in Threads \ {t} : pc'[u] = pc[u] /\ pc[u] \in {"out", "failed"}
      /\ UNCHANGED <<index, clients, fifos, shms, ends, hungup, requests, answers, returns, process, srv>>
  BY GoesFacts DEF EffClose, Answered, fileVars, pipeVars, serverVars, IInv, Typed, Places, Creating
<1>2. plugin \in {"created", "closing", "deleted"}
  BY <1>1 DEF IInv, Typed, HostTypes, Phases, Creating
<1>3. OneCreates' /\ Numbered'
  BY <1>1 DEF IInv, Live, OneCreates, Numbered, Creating, NewIndex, Holding
<1>4. FifosNamed'
  BY <1>1 DEF IInv, Live, FifosNamed, FifosOf, Fifo, Holding, Creating
<1>5. NothingLeftBehind'
  BY <1>1, <1>2 DEF IInv, Live, NothingLeftBehind, FifosOf, Fifo
<1>6. MemoryNamed' /\ NamesOwned'
  BY <1>1 DEF IInv, Live, MemoryNamed, NamesOwned, Joined, Holding, Creating
<1>7. ServerThreads'
  BY <1>1, MainAssumption DEF IInv, Live, ServerThreads, Joined, Holding, Creating
<1>8. OneAsks' /\ ClosedInOrder'
  BY <1>1 DEF IInv, Live, OneAsks, ClosedInOrder, Creating
<1>9. Rendezvous'
  BY <1>1 DEF IInv, Live, Rendezvous, End, Before, Behind, Joined, Holding, Creating
<1>10. NoServerFails' /\ NoHostFails'
  BY <1>1 DEF IInv, Live, NoServerFails, NoHostFails
<1> QED
  BY <1>3, <1>4, <1>5, <1>6, <1>7, <1>8, <1>9, <1>10 DEF IInv, Live

\* A client is sent its return, and leaves the map.
LEMMA CloseHandlerKeeps ==
  ASSUME IInv, Typed', NEW t \in Threads, CloseHandler(t), refused' = refused
  PROVE  IInv'
<1>1. /\ plugin = "closing" /\ plugin' = "closing" /\ pc[t] = "close" /\ process = "up"
      /\ UNCHANGED <<index, fifos, shms, ends, requests, answers, process, srv, pc>>
  BY DEF CloseHandler, serverVars
<1>2. PICK v \in DOMAIN clients :
        /\ returns' = returns \cup {clients[v]} /\ hungup' = hungup \cup {clients[v]}
        /\ clients' = Restrict(clients, DOMAIN clients \ {v})
  BY DEF CloseHandler
<1>3. /\ DOMAIN clients' = DOMAIN clients \ {v}
      /\ \A u \in DOMAIN clients' : clients'[u] = clients[u]
  BY <1>2 DEF Restrict
<1>4. OneCreates'
  BY <1>1, <1>2, <1>3 DEF IInv, Live, OneCreates, Creating
<1>5. Numbered'
  BY <1>1, <1>2, <1>3 DEF IInv, Live, Numbered, NewIndex, Holding, Creating
<1>6. FifosNamed'
  BY <1>1 DEF IInv, Live, FifosNamed, FifosOf, Fifo, Holding, Creating
<1>7. NothingLeftBehind'
  BY <1>1, <1>2, <1>3 DEF IInv, Live, NothingLeftBehind, FifosOf, Fifo
<1>8. MemoryNamed' /\ NamesOwned'
  BY <1>1 DEF IInv, Live, MemoryNamed, NamesOwned, Joined, Holding, Creating
<1>9. ServerThreads'
  BY <1>1, <1>2, <1>3, MainAssumption
     DEF IInv, Live, ServerThreads, Joined, Holding, Creating
<1>10. OneAsks'
  BY <1>1 DEF IInv, Live, OneAsks, Creating
<1>11. ClosedInOrder'
  <2>1. \A u \in DOMAIN clients' : clients'[u] \notin hungup'
    BY <1>1, <1>2, <1>3 DEF IInv, Live, ClosedInOrder, Numbered
  <2>2. ASSUME NEW k \in DOMAIN srv
        PROVE  srv[k].index \in hungup' <=> srv[k].at \in {"returned", "gone"} \/ srv[k].index \in returns'
    BY <1>1, <1>2 DEF IInv, Live, ClosedInOrder
  <2>3. returns' \subseteq hungup' /\ \A u \in Threads : pc[u] # "close" \/ plugin = "closing"
    BY <1>1, <1>2 DEF IInv, Live, ClosedInOrder
  <2> QED
    BY <1>1, <2>1, <2>2, <2>3 DEF ClosedInOrder
<1>12. Rendezvous'
  <2>1. \A u \in DOMAIN clients' : \E k \in DOMAIN srv : srv[k].index = clients'[u] /\ srv[k].at \in Behind
    BY <1>1, <1>3 DEF IInv, Live, Rendezvous
  <2> QED
    BY <1>1, <2>1 DEF IInv, Live, Rendezvous
<1>13. NoServerFails' /\ NoHostFails'
  BY <1>1 DEF IInv, Live, NoServerFails, NoHostFails
<1> QED
  BY <1>4, <1>5, <1>6, <1>7, <1>8, <1>9, <1>10, <1>11, <1>12, <1>13 DEF IInv, Live

\* The primary handler is sent its own.
LEMMA ClosePrimaryKeeps ==
  ASSUME IInv, Typed', NEW t \in Threads, ClosePrimary(t), refused' = refused
  PROVE  IInv'
<1>1. /\ plugin # "dead" /\ plugin' = "deleted" /\ pc[t] = "close" /\ pc'[t] = "out" /\ process = "up"
      /\ \A u \in Threads \ {t} : pc'[u] = pc[u]
      /\ DOMAIN clients = {} /\ returns' = returns \cup {0} /\ hungup' = hungup \cup {0}
      /\ UNCHANGED <<index, clients, fifos, shms, ends, requests, answers, process, srv>>
  BY GoesFacts DEF ClosePrimary, serverVars, IInv, Typed, Places, Creating
<1>2. plugin \in {"closing", "deleted"}
  BY <1>1 DEF IInv, Live, ClosedInOrder
<1>3. OneCreates'
  BY <1>1, <1>2 DEF IInv, Live, OneCreates, Creating
<1>4. Numbered'
  BY <1>1, <1>2 DEF IInv, Live, Numbered, NewIndex, Holding, Creating
<1>5. FifosNamed'
  BY <1>1 DEF IInv, Live, FifosNamed, FifosOf, Fifo, Holding, Creating
<1>6. NothingLeftBehind'
  BY <1>1, <1>2 DEF IInv, Live, NothingLeftBehind, FifosOf, Fifo
<1>7. MemoryNamed' /\ NamesOwned'
  BY <1>1 DEF IInv, Live, MemoryNamed, NamesOwned, Joined, Holding, Creating
<1>8. ServerThreads'
  BY <1>1, <1>2, MainAssumption DEF IInv, Live, ServerThreads, Joined, Holding, Creating
<1>9. OneAsks'
  BY <1>1 DEF IInv, Live, OneAsks, Creating
<1>10. ClosedInOrder'
  BY <1>1, <1>2 DEF IInv, Live, ClosedInOrder
<1>11. Rendezvous'
  BY <1>1, <1>2 DEF IInv, Live, Rendezvous, End, Before, Behind, Joined, Holding, Creating
<1>12. NoServerFails' /\ NoHostFails'
  BY <1>1 DEF IInv, Live, NoServerFails, NoHostFails
<1> QED
  BY <1>3, <1>4, <1>5, <1>6, <1>7, <1>8, <1>9, <1>10, <1>11, <1>12 DEF IInv, Live

\* Steps of a server thread that change nothing but its place.
LEMMA ServerSendOpenedKeeps ==
  ASSUME IInv, Typed', NEW k \in DOMAIN srv, ServerSendOpened(k), refused' = refused
  PROVE  IInv'
<1>1. /\ srv # <<>> /\ srv' # <<>> /\ process = "up" /\ DOMAIN srv' = DOMAIN srv
      /\ srv[k].at = "send" /\ srv'[k].at = "open_recv" /\ srv'[k].index = srv[k].index
      /\ \A j \in DOMAIN srv : srv'[j].index = srv[j].index /\ (j # k => srv'[j].at = srv[j].at)
      /\ UNCHANGED <<pc, index, clients, plugin, fifos, shms, ends, hungup, requests, answers, returns, process>>
  BY StepsFacts, EmptySeq DEF ServerSendOpened, fileVars, pipeVars, IndexOf, IInv, Typed, ServerTypes, Ats, Opening
<1>2. NothingLeftBehind'
  BY <1>1 DEF IInv, Live, NothingLeftBehind, FifosOf, Fifo
<1>3. NoHostFails'
  BY <1>1 DEF IInv, Live, NoHostFails
<1>4. ASSUME plugin # "dead"
      PROVE  Live'
  <2>1. OneCreates' /\ Numbered'
    BY <1>1, <1>4 DEF IInv, Live, OneCreates, Numbered, Creating, NewIndex, Holding
  <2>2. FifosNamed'
    BY <1>1, <1>4 DEF IInv, Live, FifosNamed, FifosOf, Fifo, Holding, Creating
  <2>3. MemoryNamed' /\ NamesOwned'
    BY <1>1, <1>4 DEF IInv, Live, MemoryNamed, NamesOwned, Joined, Holding, Creating
  <2>4. ServerThreads'
    BY <1>1, <1>4, MainAssumption DEF IInv, Live, ServerThreads, Joined, Holding, Creating
  <2>5. OneAsks' /\ ClosedInOrder'
    BY <1>1, <1>4 DEF IInv, Live, OneAsks, ClosedInOrder, Creating
  <2>6. Rendezvous'
    BY <1>1, <1>4 DEF IInv, Live, Rendezvous, End, Before, Behind, Joined, Holding, Creating
  <2>7. NoServerFails'
    BY <1>1, <1>4 DEF IInv, Live, NoServerFails
  <2> QED
    BY <2>1, <2>2, <2>3, <2>4, <2>5, <2>6, <2>7 DEF Live
<1> QED
  BY <1>1, <1>2, <1>3, <1>4 DEF IInv

LEMMA ServerRecvOpenedKeeps ==
  ASSUME IInv, Typed', NEW k \in DOMAIN srv, ServerRecvOpened(k), refused' = refused
  PROVE  IInv'
<1>1. /\ srv # <<>> /\ srv' # <<>> /\ process = "up" /\ DOMAIN srv' = DOMAIN srv
      /\ srv[k].at = "recv" /\ srv'[k].at = "add" /\ srv'[k].index = srv[k].index
      /\ \A j \in DOMAIN srv : srv'[j].index = srv[j].index /\ (j # k => srv'[j].at = srv[j].at)
      /\ UNCHANGED <<pc, index, clients, plugin, fifos, shms, ends, hungup, requests, answers, returns, process>>
  BY StepsFacts, EmptySeq DEF ServerRecvOpened, fileVars, pipeVars, IndexOf, IInv, Typed, ServerTypes, Ats, Opening
<1>2. NothingLeftBehind'
  BY <1>1 DEF IInv, Live, NothingLeftBehind, FifosOf, Fifo
<1>3. NoHostFails'
  BY <1>1 DEF IInv, Live, NoHostFails
<1>4. ASSUME plugin # "dead"
      PROVE  Live'
  <2>1. OneCreates' /\ Numbered'
    BY <1>1, <1>4 DEF IInv, Live, OneCreates, Numbered, Creating, NewIndex, Holding
  <2>2. FifosNamed'
    BY <1>1, <1>4 DEF IInv, Live, FifosNamed, FifosOf, Fifo, Holding, Creating
  <2>3. MemoryNamed' /\ NamesOwned'
    BY <1>1, <1>4 DEF IInv, Live, MemoryNamed, NamesOwned, Joined, Holding, Creating
  <2>4. ServerThreads'
    BY <1>1, <1>4, MainAssumption DEF IInv, Live, ServerThreads, Joined, Holding, Creating
  <2>5. OneAsks' /\ ClosedInOrder'
    BY <1>1, <1>4 DEF IInv, Live, OneAsks, ClosedInOrder, Creating
  <2>6. Rendezvous'
    BY <1>1, <1>4 DEF IInv, Live, Rendezvous, End, Before, Behind, Joined, Holding, Creating
  <2>7. NoServerFails'
    BY <1>1, <1>4 DEF IInv, Live, NoServerFails
  <2> QED
    BY <2>1, <2>2, <2>3, <2>4, <2>5, <2>6, <2>7 DEF Live
<1> QED
  BY <1>1, <1>2, <1>3, <1>4 DEF IInv

LEMMA AddKeeps ==
  ASSUME IInv, Typed', NEW k \in DOMAIN srv, Add(k), refused' = refused
  PROVE  IInv'
<1>1. /\ srv # <<>> /\ srv' # <<>> /\ process = "up" /\ DOMAIN srv' = DOMAIN srv
      /\ srv[k].at = "add" /\ srv'[k].at = "run" /\ srv'[k].index = srv[k].index
      /\ \A j \in DOMAIN srv : srv'[j].index = srv[j].index /\ (j # k => srv'[j].at = srv[j].at)
      /\ UNCHANGED <<pc, index, clients, plugin, fifos, shms, ends, hungup, requests, answers, returns, process>>
  BY StepsFacts, EmptySeq DEF Add, fileVars, pipeVars, IndexOf, IInv, Typed, ServerTypes, Ats, Opening
<1>2. NothingLeftBehind'
  BY <1>1 DEF IInv, Live, NothingLeftBehind, FifosOf, Fifo
<1>3. NoHostFails'
  BY <1>1 DEF IInv, Live, NoHostFails
<1>4. ASSUME plugin # "dead"
      PROVE  Live'
  <2>1. OneCreates' /\ Numbered'
    BY <1>1, <1>4 DEF IInv, Live, OneCreates, Numbered, Creating, NewIndex, Holding
  <2>2. FifosNamed'
    BY <1>1, <1>4 DEF IInv, Live, FifosNamed, FifosOf, Fifo, Holding, Creating
  <2>3. MemoryNamed' /\ NamesOwned'
    BY <1>1, <1>4 DEF IInv, Live, MemoryNamed, NamesOwned, Joined, Holding, Creating
  <2>4. ServerThreads'
    BY <1>1, <1>4, MainAssumption DEF IInv, Live, ServerThreads, Joined, Holding, Creating
  <2>5. OneAsks' /\ ClosedInOrder'
    BY <1>1, <1>4 DEF IInv, Live, OneAsks, ClosedInOrder, Creating
  <2>6. Rendezvous'
    BY <1>1, <1>4 DEF IInv, Live, Rendezvous, End, Before, Behind, Joined, Holding, Creating
  <2>7. NoServerFails'
    BY <1>1, <1>4 DEF IInv, Live, NoServerFails
  <2> QED
    BY <2>1, <2>2, <2>3, <2>4, <2>5, <2>6, <2>7 DEF Live
<1> QED
  BY <1>1, <1>2, <1>3, <1>4 DEF IInv

LEMMA LeaveKeeps ==
  ASSUME IInv, Typed', NEW k \in DOMAIN srv, Leave(k), refused' = refused
  PROVE  IInv'
<1>1. /\ srv # <<>> /\ srv' # <<>> /\ process = "up" /\ DOMAIN srv' = DOMAIN srv
      /\ srv[k].at = "returned" /\ srv'[k].at = "gone" /\ srv'[k].index = srv[k].index
      /\ \A j \in DOMAIN srv : srv'[j].index = srv[j].index /\ (j # k => srv'[j].at = srv[j].at)
      /\ UNCHANGED <<pc, index, clients, plugin, fifos, shms, ends, hungup, requests, answers, returns, process>>
  BY StepsFacts, EmptySeq DEF Leave, fileVars, pipeVars, IndexOf, IInv, Typed, ServerTypes, Ats, Opening
<1>2. NothingLeftBehind'
  BY <1>1 DEF IInv, Live, NothingLeftBehind, FifosOf, Fifo
<1>3. NoHostFails'
  BY <1>1 DEF IInv, Live, NoHostFails
<1>4. ASSUME plugin # "dead"
      PROVE  Live'
  <2>1. OneCreates' /\ Numbered'
    BY <1>1, <1>4 DEF IInv, Live, OneCreates, Numbered, Creating, NewIndex, Holding
  <2>2. FifosNamed'
    BY <1>1, <1>4 DEF IInv, Live, FifosNamed, FifosOf, Fifo, Holding, Creating
  <2>3. MemoryNamed' /\ NamesOwned'
    BY <1>1, <1>4 DEF IInv, Live, MemoryNamed, NamesOwned, Joined, Holding, Creating
  <2>4. ServerThreads'
    BY <1>1, <1>4, MainAssumption DEF IInv, Live, ServerThreads, Joined, Holding, Creating
  <2>5. OneAsks' /\ ClosedInOrder'
    BY <1>1, <1>4 DEF IInv, Live, OneAsks, ClosedInOrder, Creating
  <2>6. Rendezvous'
    BY <1>1, <1>4 DEF IInv, Live, Rendezvous, End, Before, Behind, Joined, Holding, Creating
  <2>7. NoServerFails'
    BY <1>1, <1>4 DEF IInv, Live, NoServerFails
  <2> QED
    BY <2>1, <2>2, <2>3, <2>4, <2>5, <2>6, <2>7 DEF Live
<1> QED
  BY <1>1, <1>2, <1>3, <1>4 DEF IInv

\* A return is received: by the only thread of its index, which no client and no
\* creator relies on any more.
LEMMA ReturnedKeeps ==
  ASSUME IInv, Typed', NEW k \in DOMAIN srv, Returned(k), refused' = refused
  PROVE  IInv'
<1>1. /\ srv # <<>> /\ srv' # <<>> /\ process = "up" /\ DOMAIN srv' = DOMAIN srv
      /\ srv[k].at = "run" /\ srv'[k].at = "returned" /\ srv'[k].index = srv[k].index
      /\ \A j \in DOMAIN srv : srv'[j].index = srv[j].index /\ (j # k => srv'[j].at = srv[j].at)
      /\ UNCHANGED <<pc, index, clients, plugin, fifos, shms, ends, hungup, requests, answers, process>>
      /\ srv[k].index \in returns /\ returns' = returns \ {srv[k].index}
  BY StepsFacts, EmptySeq DEF Returned, fileVars, pipeVars, IndexOf, IInv, Typed, ServerTypes, Ats, Opening
<1>2. NothingLeftBehind'
  BY <1>1 DEF IInv, Live, NothingLeftBehind, FifosOf, Fifo
<1>3. NoHostFails'
  BY <1>1 DEF IInv, Live, NoHostFails
<1>4. ASSUME plugin # "dead"
      PROVE  Live'
  <2>1. OneCreates' /\ Numbered'
    BY <1>1, <1>4 DEF IInv, Live, OneCreates, Numbered, Creating, NewIndex, Holding
  <2>2. FifosNamed'
    BY <1>1, <1>4 DEF IInv, Live, FifosNamed, FifosOf, Fifo, Holding, Creating
  <2>3. MemoryNamed' /\ NamesOwned'
    BY <1>1, <1>4 DEF IInv, Live, MemoryNamed, NamesOwned, Joined, Holding, Creating
  <2>4. ServerThreads'
    BY <1>1, <1>4, MainAssumption DEF IInv, Live, ServerThreads, Joined, Holding, Creating
  <2>5. OneAsks'
    BY <1>1, <1>4 DEF IInv, Live, OneAsks, Creating
  <2>6. ClosedInOrder'
    <3>1. srv[k].index \in hungup
      BY <1>1, <1>4 DEF IInv, Live, ClosedInOrder
    <3>2. \A j \in DOMAIN srv : j # k => srv[j].index # srv[k].index
      BY <1>4 DEF IInv, Live, ServerThreads
    <3>3. ASSUME NEW j \in DOMAIN srv
          PROVE  srv'[j].index \in hungup
                   <=> srv'[j].at \in {"returned", "gone"} \/ srv'[j].index \in returns'
      BY <1>1, <1>4, <3>1, <3>2 DEF IInv, Live, ClosedInOrder
    <3> QED
      BY <1>1, <1>4, <3>3 DEF IInv, Live, ClosedInOrder
  <2>7. Rendezvous'
    <3>1. srv[k].index \in hungup /\ plugin \notin {"creating", "created"}
      BY <1>1, <1>4 DEF IInv, Live, ClosedInOrder
    <3>2. \A t \in Threads : pc[t] \notin {"unlink", "insert", "wait"}
      BY <1>4, <3>1 DEF IInv, Live, OneCreates, Creating
    <3>3. ASSUME NEW t \in DOMAIN clients
          PROVE  \E j \in DOMAIN srv' : srv'[j].index = clients'[t] /\ srv'[j].at \in Behind
      <4>1. PICK j \in DOMAIN srv : srv[j].index = clients[t] /\ srv[j].at \in Behind
        BY <1>4 DEF IInv, Live, Rendezvous
      <4>2. j # k
        BY <1>4, <3>1, <4>1 DEF IInv, Live, ClosedInOrder
      <4> QED
        BY <1>1, <4>1, <4>2
    <3> QED
      BY <1>1, <1>4, <3>2, <3>3 DEF IInv, Live, Rendezvous, Before
  <2>8. NoServerFails'
    BY <1>1, <1>4 DEF IInv, Live, NoServerFails
  <2> QED
    BY <2>1, <2>2, <2>3, <2>4, <2>5, <2>6, <2>7, <2>8 DEF Live
<1> QED
  BY <1>1, <1>2, <1>3, <1>4 DEF IInv

\* The memory is opened and unlinked: its creator waits, and nobody has done so
\* before.
LEMMA OpenShmKeeps ==
  ASSUME IInv, Typed', NEW k \in DOMAIN srv, OpenShm(k), refused' = refused
  PROVE  IInv'
<1>1. /\ srv # <<>> /\ srv' # <<>> /\ process = "up" /\ DOMAIN srv' = DOMAIN srv
      /\ srv[k].at = "open_shm" /\ srv'[k].index = srv[k].index
      /\ \A j \in DOMAIN srv : srv'[j].index = srv[j].index /\ (j # k => srv'[j].at = srv[j].at)
      /\ UNCHANGED <<pc, index, clients, plugin, fifos, ends, hungup, requests, answers, returns, process>>
      /\ shms' = shms \ {srv[k].index}
      /\ srv[k].index \in shms => srv'[k].at = "open_send"
  BY StepsFacts, EmptySeq DEF OpenShm, fileVars, pipeVars, IndexOf, IInv, Typed, ServerTypes, Ats, Opening
<1>2. ASSUME plugin # "dead"
      PROVE  \E t \in Threads : /\ pc[t] \in Joined \ {"unlink", "insert", "wait"}
                                /\ index[t] = srv[k].index
  BY <1>1, <1>2 DEF IInv, Live, Rendezvous, Before
<1>3. ASSUME plugin # "dead"
      PROVE  srv[k].index \in shms /\ srv'[k].at = "open_send"
  <2>1. PICK t \in Threads : pc[t] \in Joined /\ index[t] = srv[k].index
    BY <1>2, <1>3
  <2>2. \A j \in DOMAIN srv : srv[j].index = srv[k].index => j = k
    BY <1>3 DEF IInv, Live, ServerThreads
  <2> QED
    BY <1>1, <1>3, <2>1, <2>2 DEF IInv, Live, MemoryNamed
<1>4. NothingLeftBehind'
  BY <1>1 DEF IInv, Live, NothingLeftBehind, FifosOf, Fifo
<1>5. NoHostFails'
  BY <1>1 DEF IInv, Live, NoHostFails
<1>6. ASSUME plugin # "dead"
      PROVE  Live'
  <2>1. OneCreates' /\ Numbered'
    BY <1>1, <1>6 DEF IInv, Live, OneCreates, Numbered, Creating, NewIndex, Holding
  <2>2. FifosNamed'
    BY <1>1, <1>6 DEF IInv, Live, FifosNamed, FifosOf, Fifo, Holding, Creating
  <2>3. NamesOwned'
    BY <1>1, <1>6 DEF IInv, Live, NamesOwned, Holding, Creating
  <2>4. MemoryNamed'
    <3>1. PICK t \in Threads : pc[t] \in Joined /\ index[t] = srv[k].index
      BY <1>2, <1>6
    <3>2. \A u \in Threads : pc[u] \in Creating => u = t
      BY <1>6, <3>1 DEF IInv, Live, OneCreates, Joined, Holding, Creating
    <3>3. srv'[k].at # "open_shm" /\ index[t] \notin shms'
      BY <1>1, <1>3, <1>6, <3>1
    <3> QED
      BY <1>1, <3>1, <3>2, <3>3 DEF MemoryNamed, Joined, Holding, Creating
  <2>5. ServerThreads'
    BY <1>1, <1>6, MainAssumption DEF IInv, Live, ServerThreads, Joined, Holding, Creating
  <2>6. OneAsks'
    BY <1>1, <1>6, <1>3 DEF IInv, Live, OneAsks, Creating
  <2>7. ClosedInOrder'
    BY <1>1, <1>6, <1>3 DEF IInv, Live, ClosedInOrder
  <2>8. Rendezvous'
    BY <1>1, <1>6, <1>3
       DEF IInv, Live, Rendezvous, End, Before, Behind, Joined, Holding, Creating
  <2>9. NoServerFails'
    BY <1>1, <1>6, <1>3 DEF IInv, Live, NoServerFails
  <2> QED
    BY <2>1, <2>2, <2>3, <2>4, <2>5, <2>6, <2>7, <2>8, <2>9 DEF Live
<1> QED
  BY <1>1, <1>4, <1>5, <1>6 DEF IInv

\* The server's opens: the creator has not unlinked the names yet.
LEMMA ServerOpensSendKeeps ==
  ASSUME IInv, Typed', NEW k \in DOMAIN srv, ServerOpensSend(k), refused' = refused
  PROVE  IInv'
<1>1. /\ srv # <<>> /\ srv' # <<>> /\ process = "up" /\ DOMAIN srv' = DOMAIN srv
      /\ srv[k].at = "open_send" /\ srv'[k].index = srv[k].index
      /\ \A j \in DOMAIN srv : srv'[j].index = srv[j].index /\ (j # k => srv'[j].at = srv[j].at)
      /\ UNCHANGED <<pc, index, clients, plugin, fifos, shms, hungup, requests, answers, returns, process>>
      /\ Fifo("s2c", srv[k].index) \in fifos =>
           /\ srv'[k].at = "send"
           /\ ends' = ends \cup {End("w", "s2c", srv[k].index)}
  BY StepsFacts, EmptySeq DEF ServerOpensSend, Opens, Named, fileVars, pipeVars, IndexOf, IInv, Typed, ServerTypes, Ats, Opening
<1>2. ASSUME plugin # "dead"
      PROVE  \E t \in Threads : /\ pc[t] \in Joined \ {"unlink", "insert", "wait"}
                                /\ index[t] = srv[k].index
  BY <1>1, <1>2 DEF IInv, Live, Rendezvous, Before
<1>3. ASSUME plugin # "dead"
      PROVE  srv'[k].at = "send" /\ ends' = ends \cup {End("w", "s2c", srv[k].index)}
  <2>1. PICK t \in Threads : /\ pc[t] \in Joined \ {"unlink", "insert", "wait"}
                             /\ index[t] = srv[k].index
    BY <1>2, <1>3
  <2>2. Fifo("s2c", srv[k].index) \in fifos
    BY <1>3, <2>1 DEF IInv, Live, FifosNamed, FifosOf, Joined, Holding, Creating
  <2> QED
    BY <1>1, <2>2
<1>4. NothingLeftBehind'
  BY <1>1 DEF IInv, Live, NothingLeftBehind, FifosOf, Fifo
<1>5. NoHostFails'
  BY <1>1 DEF IInv, Live, NoHostFails
<1>6. ASSUME plugin # "dead"
      PROVE  Live'
  <2>1. OneCreates' /\ Numbered'
    BY <1>1, <1>6 DEF IInv, Live, OneCreates, Numbered, Creating, NewIndex, Holding
  <2>2. FifosNamed'
    BY <1>1, <1>6 DEF IInv, Live, FifosNamed, FifosOf, Fifo, Holding, Creating
  <2>3. NamesOwned'
    BY <1>1, <1>6 DEF IInv, Live, NamesOwned, Holding, Creating
  <2>4. MemoryNamed'
    BY <1>1, <1>6, <1>3 DEF IInv, Live, MemoryNamed, Joined, Holding, Creating
  <2>5. ServerThreads'
    BY <1>1, <1>6, MainAssumption DEF IInv, Live, ServerThreads, Joined, Holding, Creating
  <2>6. OneAsks'
    BY <1>1, <1>6, <1>3 DEF IInv, Live, OneAsks, Creating
  <2>7. ClosedInOrder'
    BY <1>1, <1>6, <1>3 DEF IInv, Live, ClosedInOrder
  <2>8. Rendezvous'
    BY <1>1, <1>6, <1>3
       DEF IInv, Live, Rendezvous, End, Before, Behind, Joined, Holding, Creating
  <2>9. NoServerFails'
    BY <1>1, <1>6, <1>3 DEF IInv, Live, NoServerFails
  <2> QED
    BY <2>1, <2>2, <2>3, <2>4, <2>5, <2>6, <2>7, <2>8, <2>9 DEF Live
<1> QED
  BY <1>1, <1>4, <1>5, <1>6 DEF IInv

LEMMA ServerOpensRecvKeeps ==
  ASSUME IInv, Typed', NEW k \in DOMAIN srv, ServerOpensRecv(k), refused' = refused
  PROVE  IInv'
<1>1. /\ srv # <<>> /\ srv' # <<>> /\ process = "up" /\ DOMAIN srv' = DOMAIN srv
      /\ srv[k].at = "open_recv" /\ srv'[k].index = srv[k].index
      /\ \A j \in DOMAIN srv : srv'[j].index = srv[j].index /\ (j # k => srv'[j].at = srv[j].at)
      /\ UNCHANGED <<pc, index, clients, plugin, fifos, shms, hungup, requests, answers, returns, process>>
      /\ Fifo("c2s", srv[k].index) \in fifos =>
           /\ srv'[k].at = "recv"
           /\ ends' = ends \cup {End("r", "c2s", srv[k].index)}
  BY StepsFacts, EmptySeq DEF ServerOpensRecv, Opens, Named, fileVars, pipeVars, IndexOf, IInv, Typed, ServerTypes, Ats, Opening
<1>2. ASSUME plugin # "dead"
      PROVE  \E t \in Threads : /\ pc[t] \in Joined \ {"unlink", "insert", "wait"}
                                /\ index[t] = srv[k].index
  BY <1>1, <1>2 DEF IInv, Live, Rendezvous, Before
<1>3. ASSUME plugin # "dead"
      PROVE  srv'[k].at = "recv" /\ ends' = ends \cup {End("r", "c2s", srv[k].index)}
  <2>1. PICK t \in Threads : /\ pc[t] \in Joined \ {"unlink", "insert", "wait"}
                             /\ index[t] = srv[k].index
    BY <1>2, <1>3
  <2>2. Fifo("c2s", srv[k].index) \in fifos
    BY <1>3, <2>1 DEF IInv, Live, FifosNamed, FifosOf, Joined, Holding, Creating
  <2> QED
    BY <1>1, <2>2
<1>4. NothingLeftBehind'
  BY <1>1 DEF IInv, Live, NothingLeftBehind, FifosOf, Fifo
<1>5. NoHostFails'
  BY <1>1 DEF IInv, Live, NoHostFails
<1>6. ASSUME plugin # "dead"
      PROVE  Live'
  <2>1. OneCreates' /\ Numbered'
    BY <1>1, <1>6 DEF IInv, Live, OneCreates, Numbered, Creating, NewIndex, Holding
  <2>2. FifosNamed'
    BY <1>1, <1>6 DEF IInv, Live, FifosNamed, FifosOf, Fifo, Holding, Creating
  <2>3. NamesOwned'
    BY <1>1, <1>6 DEF IInv, Live, NamesOwned, Holding, Creating
  <2>4. MemoryNamed'
    BY <1>1, <1>6, <1>3 DEF IInv, Live, MemoryNamed, Joined, Holding, Creating
  <2>5. ServerThreads'
    BY <1>1, <1>6, MainAssumption DEF IInv, Live, ServerThreads, Joined, Holding, Creating
  <2>6. OneAsks'
    BY <1>1, <1>6, <1>3 DEF IInv, Live, OneAsks, Creating
  <2>7. ClosedInOrder'
    BY <1>1, <1>6, <1>3 DEF IInv, Live, ClosedInOrder
  <2>8. Rendezvous'
    BY <1>1, <1>6, <1>3
       DEF IInv, Live, Rendezvous, End, Before, Behind, Joined, Holding, Creating
  <2>9. NoServerFails'
    BY <1>1, <1>6, <1>3 DEF IInv, Live, NoServerFails
  <2> QED
    BY <2>1, <2>2, <2>3, <2>4, <2>5, <2>6, <2>7, <2>8, <2>9 DEF Live
<1> QED
  BY <1>1, <1>4, <1>5, <1>6 DEF IInv

\* With the host alive, a pipe is never closed before the return is read.
LEMMA ServerFailsKeeps ==
  ASSUME IInv, Typed', NEW k \in DOMAIN srv, ServerFails(k), refused' = refused
  PROVE  IInv'
<1>1. /\ plugin = "dead"
      /\ UNCHANGED <<pc, clients, plugin, fifos, shms, process>>
  <2>1. srv[k].at = "run" /\ srv[k].index \notin returns /\ (srv[k].index \in hungup \/ plugin = "dead")
    BY DEF ServerFails, Steps, IndexOf
  <2>2. plugin = "dead"
    BY <2>1 DEF IInv, Live, ClosedInOrder
  <2> QED
    BY <2>2 DEF ServerFails, Steps, fileVars, pipeVars
<1>2. NothingLeftBehind'
  BY <1>1 DEF IInv, Live, NothingLeftBehind, FifosOf, Fifo
<1>3. NoHostFails'
  BY <1>1 DEF IInv, Live, NoHostFails
<1>4. ASSUME plugin # "dead"
      PROVE  Live'
  <2>1. OneCreates' /\ Numbered'
    BY <1>1, <1>4 DEF IInv, Live, OneCreates, Numbered, Creating, NewIndex, Holding
  <2>2. FifosNamed'
    BY <1>1, <1>4 DEF IInv, Live, FifosNamed, FifosOf, Fifo, Holding, Creating
  <2>3. MemoryNamed' /\ NamesOwned'
    BY <1>1, <1>4 DEF IInv, Live, MemoryNamed, NamesOwned, Joined, Holding, Creating
  <2>4. ServerThreads'
    BY <1>1, <1>4, MainAssumption DEF IInv, Live, ServerThreads, Joined, Holding, Creating
  <2>5. OneAsks' /\ ClosedInOrder'
    BY <1>1, <1>4 DEF IInv, Live, OneAsks, ClosedInOrder, Creating
  <2>6. Rendezvous'
    BY <1>1, <1>4 DEF IInv, Live, Rendezvous, End, Before, Behind, Joined, Holding, Creating
  <2>7. NoServerFails'
    BY <1>1, <1>4 DEF IInv, Live, NoServerFails
  <2> QED
    BY <2>1, <2>2, <2>3, <2>4, <2>5, <2>6, <2>7 DEF Live
<1> QED
  BY <1>1, <1>2, <1>3, <1>4 DEF IInv

\* A thread for the one request under way.
LEMMA InstantiateKeeps ==
  ASSUME IInv, Typed', Instantiate, refused' = refused
  PROVE  IInv'
<1>1. /\ process = "up" /\ srv # <<>> /\ requests # <<>> /\ requests' = <<>> /\ answers' = answers + 1
      /\ srv' = Append(srv, [index |-> Head(requests), at |-> "open_shm"])
      /\ UNCHANGED <<pc, index, clients, plugin, fifos, shms, ends, hungup, returns, process>>
  BY DEF Instantiate, fileVars
<1>2. /\ Len(srv) \in Nat /\ Len(srv) > 0 /\ DOMAIN srv = 1 .. Len(srv) /\ Head(requests) \in Nat
  BY <1>1, ThreadFacts, EmptySeq, HeadTailProperties DEF IInv, Typed, ServerTypes, PipeTypes
<1>3. [index |-> Head(requests), at |-> "open_shm"] \in ThreadRecord
  BY <1>2 DEF ThreadRecord, Ats, Opening
<1>4. /\ DOMAIN srv' = DOMAIN srv \cup {Len(srv) + 1} /\ srv' # <<>>
      /\ Len(srv) + 1 # 1 /\ Len(srv) + 1 \notin DOMAIN srv
      /\ srv'[Len(srv) + 1].index = Head(requests) /\ srv'[Len(srv) + 1].at = "open_shm"
      /\ \A k \in DOMAIN srv : srv'[k] = srv[k]
  BY <1>1, <1>2, <1>3, AppendProperties, LenProperties DEF IInv, Typed, ServerTypes
<1>5. ASSUME plugin # "dead"
      PROVE  \E t \in Threads : /\ pc[t] = "asked" /\ index[t] = Head(requests) /\ index[t] # 0
                                /\ plugin = "created"
                                /\ \A k \in DOMAIN srv : srv[k].index # Head(requests)
  <2>1. PICK t \in Threads : /\ pc[t] = "asked" /\ requests = <<index[t]>>
                             /\ \A k \in DOMAIN srv : srv[k].index # index[t]
    BY <1>1, <1>5 DEF IInv, Live, OneAsks
  <2>2. plugin # "creating" /\ index[t] # 0
    BY <1>5, <2>1 DEF IInv, Typed, Phases, Holding, Creating
  <2>3. plugin = "created"
    BY <1>5, <2>1, <2>2 DEF IInv, Live, OneCreates, Creating
  <2> QED
    BY <2>1, <2>2, <2>3
<1>6. NothingLeftBehind'
  BY <1>1 DEF IInv, Live, NothingLeftBehind, FifosOf, Fifo
<1>7. NoHostFails'
  BY <1>1 DEF IInv, Live, NoHostFails
<1>8. ASSUME plugin # "dead"
      PROVE  Live'
  <2>1. OneCreates' /\ Numbered'
    BY <1>1, <1>8 DEF IInv, Live, OneCreates, Numbered, Creating, NewIndex, Holding
  <2>2. FifosNamed'
    BY <1>1, <1>8 DEF IInv, Live, FifosNamed, FifosOf, Fifo, Holding, Creating
  <2>3. NamesOwned'
    BY <1>1, <1>8 DEF IInv, Live, NamesOwned, Holding, Creating
  <2>4. MemoryNamed'
    BY <1>1, <1>8, <1>4, <1>5 DEF IInv, Live, MemoryNamed, Joined, Holding, Creating
  <2>5. ServerThreads'
    BY <1>1, <1>8, <1>4, <1>5, MainAssumption
       DEF IInv, Live, ServerThreads, Joined, Holding, Creating
  <2>6. OneAsks'
    BY <1>1, <1>8, <1>4, <1>5 DEF IInv, Live, OneAsks, Creating
  <2>7. ClosedInOrder'
    BY <1>1, <1>8, <1>4, <1>5 DEF IInv, Live, ClosedInOrder
  <2>8. Rendezvous'
    BY <1>1, <1>8, <1>4, <1>5
       DEF IInv, Live, Rendezvous, End, Before, Behind, Joined, Holding, Creating
  <2>9. NoServerFails'
    BY <1>1, <1>8, <1>4 DEF IInv, Live, NoServerFails
  <2> QED
    BY <2>1, <2>2, <2>3, <2>4, <2>5, <2>6, <2>7, <2>8, <2>9 DEF Live
<1> QED
  BY <1>1, <1>6, <1>7, <1>8 DEF IInv

\* A request answered in vain.
LEMMA InstantiateFailsKeeps ==
  ASSUME IInv, Typed', InstantiateFails, refused'
  PROVE  IInv'
<1>1. /\ process = "up" /\ requests # <<>> /\ requests' = <<>> /\ answers' = answers + 1
      /\ UNCHANGED <<pc, index, clients, plugin, fifos, shms, ends, hungup, returns, process, srv>>
  BY DEF InstantiateFails, fileVars, serverVars
<1>2. NothingLeftBehind'
  BY <1>1 DEF IInv, Live, NothingLeftBehind, FifosOf, Fifo
<1>3. NoHostFails'
  BY <1>1 DEF IInv, Live, NoHostFails
<1>4. ASSUME plugin # "dead"
      PROVE  Live'
  <2>1. OneCreates' /\ Numbered'
    BY <1>1, <1>4 DEF IInv, Live, OneCreates, Numbered, Creating, NewIndex, Holding
  <2>2. FifosNamed'
    BY <1>1, <1>4 DEF IInv, Live, FifosNamed, FifosOf, Fifo, Holding, Creating
  <2>3. MemoryNamed' /\ NamesOwned'
    BY <1>1, <1>4 DEF IInv, Live, MemoryNamed, NamesOwned, Joined, Holding, Creating
  <2>4. ServerThreads'
    BY <1>1, <1>4, MainAssumption DEF IInv, Live, ServerThreads, Joined, Holding, Creating
  <2>5. OneAsks' /\ ClosedInOrder'
    BY <1>1, <1>4 DEF IInv, Live, OneAsks, ClosedInOrder, Creating
  <2>6. Rendezvous'
    BY <1>1, <1>4 DEF IInv, Live, Rendezvous, End, Before, Behind, Joined, Holding, Creating
  <2>7. NoServerFails'
    BY <1>1, <1>4 DEF IInv, Live, NoServerFails
  <2> QED
    BY <2>1, <2>2, <2>3, <2>4, <2>5, <2>6, <2>7 DEF Live
<1> QED
  BY <1>1, <1>2, <1>3, <1>4 DEF IInv

\* The Windows process is gone.
LEMMA EndsKeep ==
  ASSUME IInv, Typed', Exit \/ Dies, refused' = refused
  PROVE  IInv'
<1>1. /\ process = "up" /\ process' = "exited" /\ ends' \subseteq ends
      /\ UNCHANGED <<pc, index, clients, plugin, fifos, shms, hungup, requests, answers, returns, srv>>
  BY DEF Exit, Dies, Abandons, pipeVars
<1>2. NothingLeftBehind'
  BY <1>1 DEF IInv, Live, NothingLeftBehind, FifosOf, Fifo
<1>3. NoHostFails'
  BY <1>1 DEF IInv, Live, NoHostFails
<1>4. ASSUME plugin # "dead"
      PROVE  Live'
  <2>1. OneCreates' /\ Numbered'
    BY <1>1, <1>4 DEF IInv, Live, OneCreates, Numbered, Creating, NewIndex, Holding
  <2>2. FifosNamed'
    BY <1>1, <1>4 DEF IInv, Live, FifosNamed, FifosOf, Fifo, Holding, Creating
  <2>3. MemoryNamed' /\ NamesOwned'
    BY <1>1, <1>4 DEF IInv, Live, MemoryNamed, NamesOwned, Joined, Holding, Creating
  <2>4. ServerThreads'
    BY <1>1, <1>4, MainAssumption DEF IInv, Live, ServerThreads, Joined, Holding, Creating
  <2>5. OneAsks' /\ ClosedInOrder'
    BY <1>1, <1>4 DEF IInv, Live, OneAsks, ClosedInOrder, Creating
  <2>6. Rendezvous'
    BY <1>1, <1>4 DEF IInv, Live, Rendezvous, End, Before, Behind, Joined, Holding, Creating
  <2>7. NoServerFails'
    BY <1>1, <1>4 DEF IInv, Live, NoServerFails
  <2> QED
    BY <2>1, <2>2, <2>3, <2>4, <2>5, <2>6, <2>7 DEF Live
<1> QED
  BY <1>1, <1>2, <1>3, <1>4 DEF IInv

\* The host is gone: what the names promised has been kept.
LEMMA HostDiesKeeps ==
  ASSUME IInv, Typed', HostDies, refused' = refused
  PROVE  IInv'
BY DEF HostDies, IInv, NothingLeftBehind, NoHostFails, FifosOf, Fifo, pipeVars, serverVars

LEMMA StaysKeeps ==
  ASSUME IInv, Typed', UNCHANGED vars
  PROVE  IInv'
<1> USE DEF vars, fileVars, pipeVars, serverVars
<1>1. NothingLeftBehind' /\ NoHostFails'
  BY DEF IInv, NothingLeftBehind, NoHostFails
<1>2. ASSUME plugin # "dead"
      PROVE  Live'
  <2>1. OneCreates' /\ Numbered' /\ FifosNamed'
    BY <1>2 DEF IInv, Live, OneCreates, Numbered, NewIndex, FifosNamed
  <2>2. MemoryNamed' /\ ServerThreads'
    BY <1>2 DEF IInv, Live, MemoryNamed, ServerThreads
  <2>3. OneAsks' /\ ClosedInOrder' /\ Rendezvous'
    BY <1>2 DEF IInv, Live, OneAsks, ClosedInOrder, Rendezvous
  <2>4. NoServerFails' /\ NamesOwned'
    BY <1>2 DEF IInv, Live, NoServerFails, NamesOwned
  <2> QED
    BY <2>1, <2>2, <2>3, <2>4 DEF Live
<1> QED
  BY <1>1, <1>2 DEF IInv

------------------------------------------------------------------------------
LEMMA InitInv == Init => IInv
<1> SUFFICES ASSUME Init PROVE IInv
  OBVIOUS
<1>1. /\ pc = [t \in Threads |-> IF t = Main THEN "create" ELSE "out"]
      /\ DOMAIN clients = {} /\ plugin = "creating" /\ process = "none" /\ srv = <<>>
      /\ DOMAIN srv = {} /\ requests = <<>> /\ answers = 0
      /\ shms = {} /\ ends = {} /\ hungup = {} /\ returns = {}
  BY DEF Init
<1>2. NothingLeftBehind /\ NoHostFails
  BY <1>1 DEF NothingLeftBehind, NoHostFails
<1>3. OneCreates /\ Numbered
  BY <1>1 DEF OneCreates, Numbered, Holding, Creating
<1>4. FifosNamed /\ MemoryNamed
  BY <1>1 DEF FifosNamed, MemoryNamed, Joined, Holding, Creating
<1>5. ServerThreads /\ NoServerFails /\ NamesOwned
  BY <1>1 DEF ServerThreads, NoServerFails, NamesOwned
<1>6. OneAsks /\ ClosedInOrder
  BY <1>1 DEF OneAsks, ClosedInOrder
<1>7. Rendezvous
  BY <1>1 DEF Rendezvous
<1> QED
  BY <1>2, <1>3, <1>4, <1>5, <1>6, <1>7, InitTyped DEF IInv, Live

LEMMA NextKeeps ==
  ASSUME FirstCallsOverlap = FALSE, IInv, [Next]_vars
  PROVE  IInv'
<1>1. Typed'
  BY NextTyped DEF IInv
<1>2. CASE UNCHANGED vars
  BY <1>1, <1>2, StaysKeeps
<1>3. ASSUME refused' = refused, NEW t \in Threads, Creates(t)
      PROVE  IInv'
  <2>1. CASE Create(t)
    BY <1>1, <1>3, <2>1, CreateKeeps, CreationFailsKeeps
  <2> QED
    BY <1>1, <1>3, <2>1, SpawnKeeps, AskKeeps, AskedKeeps, OpenRecvKeeps, RecvOpenedKeeps,
       OpenSendKeeps, SendOpenedKeeps, UnlinkKeeps, InsertKeeps, WaitKeeps DEF Creates
<1>4. ASSUME refused' = refused, NEW t \in Threads,
             Call(t) \/ EndCall(t) \/ EffClose(t) \/ Closes(t) \/ Fails(t)
      PROVE  IInv'
  BY <1>1, <1>4, CallKeeps, EndCallKeeps, EffCloseKeeps, CloseHandlerKeeps, ClosePrimaryKeeps, FailsKeeps DEF Closes
<1>5. ASSUME refused' = refused, NEW k \in DOMAIN srv, Serves(k)
      PROVE  IInv'
  BY <1>1, <1>5, OpenShmKeeps, ServerOpensSendKeeps, ServerSendOpenedKeeps, ServerOpensRecvKeeps,
     ServerRecvOpenedKeeps, AddKeeps, ReturnedKeeps, ServerFailsKeeps, LeaveKeeps DEF Serves
<1>6. ASSUME refused' = refused, Instantiate \/ Exit \/ Dies \/ HostDies \/ Over
      PROVE  IInv'
  BY <1>1, <1>6, InstantiateKeeps, EndsKeep, HostDiesKeeps, StaysKeeps DEF Over
<1>7. ASSUME refused' = TRUE, Refusal
      PROVE  IInv'
  BY <1>1, <1>7, InstantiateFailsKeeps, CreationFailsKeeps, SpawnFailsKeeps DEF Refusal
<1> QED
  BY <1>2, <1>3, <1>4, <1>5, <1>6, <1>7 DEF Next

------------------------------------------------------------------------------
\* What the runs check follows.
LEMMA InvPaired == IInv => Paired
<1> SUFFICES ASSUME IInv, plugin # "dead", NEW t \in DOMAIN clients
             PROVE  /\ \A u \in DOMAIN clients : clients[u] = clients[t] => u = t
                    /\ Cardinality({k \in DOMAIN srv : /\ srv[k].index = clients[t]
                                                       /\ srv[k].at \in Behind}) = 1
  BY DEF Paired, Behind
<1>1. PICK k \in DOMAIN srv : srv[k].index = clients[t] /\ srv[k].at \in Behind
  BY DEF IInv, Live, Rendezvous
<1>2. {j \in DOMAIN srv : srv[j].index = clients[t] /\ srv[j].at \in Behind} = {k}
  BY <1>1 DEF IInv, Live, ServerThreads
<1>3. Cardinality({k}) = 1
  BY FS_Singleton
<1> QED
  BY <1>2, <1>3 DEF IInv, Live, Numbered

LEMMA InvNoExceptions == IInv => NoExceptions
BY DEF IInv, NoHostFails, Live, NoServerFails, NoExceptions

\* As long as first calls do not overlap, the invariant holds.
LEMMA SpecInv ==
  ASSUME FirstCallsOverlap = FALSE
  PROVE  Spec => []IInv
<1>1. IInv /\ [Next]_vars => IInv'
  BY NextKeeps
<1> QED
  BY <1>1, InitInv, PTL DEF Spec

\* Each thread that has a client has a handler of its own, with exactly one
\* thread of the server behind it, for any number of host threads, if their
\* first calls do not overlap: get_client and instantiate_handler pair them up.
THEOREM HandlersPaired ==
  ASSUME FirstCallsOverlap = FALSE
  PROVE  Spec => []Paired
BY SpecInv, InvPaired, PTL

\* Under the same condition no FIFO and no shared memory of a handler in use has
\* a name: create_client and server_t::server_t have removed them all, whoever
\* dies and whatever is refused.
THEOREM NoNamesLeft ==
  ASSUME FirstCallsOverlap = FALSE
  PROVE  Spec => []NothingLeftBehind
<1>1. IInv => NothingLeftBehind
  BY DEF IInv
<1> QED
  BY <1>1, SpecInv, PTL

\* Under the same condition nothing throws, in the host before the server dies
\* and in the server before the host does, unless memory or a thread is refused.
THEOREM NothingThrows ==
  ASSUME FirstCallsOverlap = FALSE
  PROVE  Spec => []NoExceptions
BY SpecInv, InvNoExceptions, PTL
================================================================================
