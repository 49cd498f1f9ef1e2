-------------------------------- MODULE Handlers --------------------------------
(***************************************************************************)
(* The handlers of one plugin instance: how they come to be, and how they  *)
(* go.  VSTPluginMain creates the resources of handler 0, spawns the       *)
(* Windows process and waits for the effect; afterwards each host thread   *)
(* that calls the effect for the first time gets a handler of its own,     *)
(* asked for through handler 0, with a thread of the Windows process to    *)
(* serve it.  effClose stops them all.  What happens inside one call is    *)
(* HandlerPair's matter.                                                   *)
(*                                                                         *)
(* A FIFO is identified with its name: an index is used twice only where   *)
(* two first calls overlap.                                                *)
(*                                                                         *)
(* Source: client/{plugin_t,callbacks,client_t}.cpp, server/{server_t,     *)
(* main}.cpp, common/shm/shm.cpp.                                          *)
(***************************************************************************)
EXTENDS Naturals, Sequences, FiniteSets, Functions

CONSTANTS Threads,            \* threads of the host
          Main,               \* the one that calls VSTPluginMain
          FirstCallsOverlap,  \* may two threads be in get_client at once?
          Faults              \* may the operating system refuse memory and threads?

ASSUME MainAssumption == Main \in Threads
ASSUME OverlapAssumption == FirstCallsOverlap \in BOOLEAN
ASSUME FaultsAssumption == Faults \in BOOLEAN

VARIABLES pc,        \* where each host thread is
          index,     \* the handler it creates
          clients,   \* tid_to_client: thread |-> index
          plugin,    \* the plugin_t
          fifos,     \* FIFOs that have a name, [pipe, index]
          shms,      \* indices whose shared memory has a name
          ends,      \* [end, pipe, index]: ends somebody has come to open
          hungup,    \* indices whose client_t has closed its ends
          requests,  \* instantiate_handler requests in handler 0's pipe
          answers,   \* number of answers to them in the other one
          returns,   \* indices a return is on its way to
          process,   \* the Windows process
          srv,       \* its threads, the main one first
          effect,    \* the effect has been sent
          shared,    \* the server's shared_t exists
          refused    \* the operating system has refused memory or a thread

fileVars   == <<fifos, shms, ends, hungup>>
pipeVars   == <<requests, answers, returns>>
serverVars == <<process, srv, effect, shared>>
vars == <<pc, index, clients, plugin, fileVars, pipeVars, serverVars, refused>>

Fifo(p, i)   == [pipe |-> p, index |-> i]
End(e, p, i) == [end |-> e, pipe |-> p, index |-> i]
FifosOf(i)   == {Fifo("s2c", i), Fifo("c2s", i)}

\* create_resources, posix_spawn or send_instantiate_handler, create_client.
Creating == {"create", "spawn", "ask", "asked", "open_recv", "recv", "open_send", "send",
             "unlink", "insert", "wait"}
\* server_t::server_t.
Opening  == {"open_shm", "open_send", "send", "open_recv", "recv"}

\* Handler 0 is the primary one: no thread of the host gets it.
TypeOK ==
  /\ pc \in [Threads -> Creating \cup {"out", "call", "close", "failed"}]
  /\ index \in [Threads -> Nat]
  /\ DOMAIN clients \subseteq Threads /\ \A t \in DOMAIN clients : clients[t] \in Nat \ {0}
  /\ plugin \in {"creating", "created", "closing", "deleted", "dead"}
  /\ \A f \in fifos : f.pipe \in {"s2c", "c2s"} /\ f.index \in Nat
  /\ shms \subseteq Nat /\ returns \subseteq Nat /\ hungup \subseteq Nat
  /\ \A e \in ends : e.end \in {"r", "w"} /\ e.pipe \in {"s2c", "c2s"} /\ e.index \in Nat
  /\ requests \in Seq(Nat) /\ answers \in Nat
  /\ process \in {"none", "up", "exited"}
  /\ \A k \in DOMAIN srv :
       srv[k].index \in Nat /\ srv[k].at \in Opening \cup {"add", "run", "returned", "gone", "failed"}
  /\ effect \in BOOLEAN /\ shared \in BOOLEAN /\ refused \in BOOLEAN

Init ==
  /\ pc = [t \in Threads |-> IF t = Main THEN "create" ELSE "out"]
  /\ index = [t \in Threads |-> 0]
  /\ clients = <<>> /\ plugin = "creating"
  /\ fifos = {} /\ shms = {} /\ ends = {} /\ hungup = {}
  /\ requests = <<>> /\ answers = 0 /\ returns = {}
  /\ process = "none" /\ srv = <<>>
  /\ effect = FALSE /\ shared = FALSE /\ refused = FALSE

------------------------------------------------------------------------------
(* The host *)

Goes(t, from, to) ==
  plugin # "dead" /\ pc[t] = from /\ pc' = [pc EXCEPT ![t] = to]

\* The host calls the effect, and get_client looks for the thread's client.
\* The locks get_client takes after that are temporaries, released at once.
Call(t) ==
  /\ plugin = "created"
  /\ t \in DOMAIN clients \/ FirstCallsOverlap \/ \A u \in Threads : pc[u] \notin Creating
  /\ Goes(t, "out", IF t \in DOMAIN clients THEN "call" ELSE "create")
  /\ UNCHANGED <<index, clients, plugin, fileVars, pipeVars, serverVars>>

\* create_resources.  mkfifo takes a name that exists for granted,
\* shm_t::create throws.
CreateResources(t, i) ==
  /\ Goes(t, "create",
          IF i \in shms THEN "failed" ELSE IF plugin = "creating" THEN "spawn" ELSE "ask")
  /\ index' = [index EXCEPT ![t] = i]
  /\ fifos' = fifos \cup FifosOf(i)
  /\ shms' = shms \cup {i}
  /\ UNCHANGED <<clients, plugin, ends, hungup, pipeVars, serverVars>>
NewIndex == IF plugin = "creating" THEN 0 ELSE Cardinality(DOMAIN clients) + 1

\* Mistakes the properties notice stand before what they replace.  Here: the
\* primary handler's index is given away once more.
Create_bug(t) == CreateResources(t, Cardinality(DOMAIN clients))
Create(t)     == CreateResources(t, NewIndex)

\* ftruncate or mmap fails: shm_t::create throws, the names stay.
CreateFails(t) ==
  /\ Goes(t, "create", "failed")
  /\ index' = [index EXCEPT ![t] = NewIndex]
  /\ fifos' = fifos \cup FifosOf(NewIndex)
  /\ shms' = shms \cup {NewIndex}
  /\ UNCHANGED <<clients, plugin, ends, hungup, pipeVars, serverVars>>

\* posix_spawn: the main thread of the new process starts.
Spawn(t) ==
  /\ Goes(t, "spawn", "open_recv")
  /\ process' = "up" /\ shared' = TRUE
  /\ srv' = <<[index |-> 0, at |-> "open_shm"]>>
  /\ UNCHANGED <<index, clients, plugin, fileVars, pipeVars, effect>>

\* It fails, and create_primary_client throws.
SpawnFails(t) ==
  /\ Goes(t, "spawn", "failed")
  /\ UNCHANGED <<index, clients, plugin, fileVars, pipeVars, serverVars>>

\* primary_client.instantiate_handler: the request, then the answer.
Ask(t) ==
  /\ process = "up"
  /\ Goes(t, "ask", "asked")
  /\ requests' = Append(requests, index[t])
  /\ UNCHANGED <<index, clients, plugin, fileVars, answers, returns, serverVars>>
Asked(t) ==
  /\ answers > 0
  /\ Goes(t, "asked", "open_recv")
  /\ answers' = 0                              \* one read takes them all
  /\ UNCHANGED <<index, clients, plugin, fileVars, requests, returns, serverVars>>

\* open blocks until somebody comes to open the other end, or has come before
\* and still waits.
Named(p, i) == Fifo(p, i) \in fifos
Opens(e, p, i) == ends' = IF Named(p, i) THEN ends \cup {End(e, p, i)} ELSE ends
Opened(e, p, i) == End(IF e = "r" THEN "w" ELSE "r", p, i) \in ends

\* A process that dies no longer waits in the opens that nobody has met.
HostWaits ==
  {End("r", "s2c", index[t]) : t \in {u \in Threads : pc[u] = "recv"}}
    \cup {End("w", "c2s", index[t]) : t \in {u \in Threads : pc[u] = "send"}}
ServerWaits ==
  {End("w", "s2c", srv[k].index) : k \in {j \in DOMAIN srv : srv[j].at = "send"}}
    \cup {End("r", "c2s", srv[k].index) : k \in {j \in DOMAIN srv : srv[j].at = "recv"}}
Abandons(waits) ==
  ends' = ends \ {w \in waits : ~Opened(w.end, w.pipe, w.index)}

\* create_client: the pipe to receive from, then the one to send to.  A client
\* whose pipe has lost its name gets -1 for a descriptor, and never works.
OpenRecv(t) ==
  /\ Goes(t, "open_recv", IF Named("s2c", index[t]) THEN "recv" ELSE "failed")
  /\ Opens("r", "s2c", index[t])
  /\ UNCHANGED <<index, clients, plugin, fifos, shms, hungup, pipeVars, serverVars>>
RecvOpened(t) ==
  /\ Goes(t, "recv", "open_send") /\ Opened("r", "s2c", index[t])
  /\ UNCHANGED <<index, clients, plugin, fileVars, pipeVars, serverVars>>
OpenSend(t) ==
  /\ Goes(t, "open_send", IF Named("c2s", index[t]) THEN "send" ELSE "failed")
  /\ Opens("w", "c2s", index[t])
  /\ UNCHANGED <<index, clients, plugin, fifos, shms, hungup, pipeVars, serverVars>>
\* One end that does not wait for the other (O_NONBLOCK); a forgotten file.
SendOpened_bug(t) ==
  /\ Goes(t, "send", "unlink")
  /\ UNCHANGED <<index, clients, plugin, fileVars, pipeVars, serverVars>>
SendOpened(t) ==
  /\ Goes(t, "send", "unlink") /\ Opened("w", "c2s", index[t])
  /\ UNCHANGED <<index, clients, plugin, fileVars, pipeVars, serverVars>>
Unlink_bug(t) ==
  /\ Goes(t, "unlink", IF plugin = "creating" THEN "wait" ELSE "insert")
  /\ fifos' = fifos \ {Fifo("c2s", index[t])}
  /\ UNCHANGED <<index, clients, plugin, shms, ends, hungup, pipeVars, serverVars>>
Unlink(t) ==
  /\ Goes(t, "unlink", IF plugin = "creating" THEN "wait" ELSE "insert")
  /\ fifos' = fifos \ FifosOf(index[t])
  /\ UNCHANGED <<index, clients, plugin, shms, ends, hungup, pipeVars, serverVars>>

\* The end of get_client, and of wait_for_effect.
Insert(t) ==
  /\ Goes(t, "insert", "call")
  /\ clients' = [u \in DOMAIN clients \cup {t} |-> IF u = t THEN index[t] ELSE clients[u]]
  /\ UNCHANGED <<index, plugin, fileVars, pipeVars, serverVars>>
Wait(t) ==
  /\ effect
  /\ Goes(t, "wait", "out")
  /\ plugin' = "created"
  /\ UNCHANGED <<index, clients, fileVars, pipeVars, serverVars>>

\* A call that comes back, and what effClose does then.  The host makes no
\* other call meanwhile.
Answered(t) ==
  /\ process = "up"
  /\ \E k \in DOMAIN srv : srv[k].index = clients[t] /\ srv[k].at = "run"
EndCall(t) ==
  /\ pc[t] = "call" /\ Answered(t)
  /\ Goes(t, "call", "out")
  /\ UNCHANGED <<index, clients, plugin, fileVars, pipeVars, serverVars>>
EffClose(t) ==
  /\ pc[t] = "call" /\ Answered(t)
  /\ \A u \in Threads \ {t} : pc[u] \in {"out", "failed"}
  /\ Goes(t, "call", "close")
  /\ plugin' = "closing"
  /\ UNCHANGED <<index, clients, fileVars, pipeVars, serverVars>>

\* A client is destroyed but its server is not told.
CloseHandler_bug(t) ==
  /\ pc[t] = "close" /\ plugin = "closing" /\ process = "up"
  /\ \E u \in DOMAIN clients :
       /\ hungup' = hungup \cup {clients[u]}
       /\ clients' = Restrict(clients, DOMAIN clients \ {u})
  /\ UNCHANGED <<pc, index, plugin, fifos, shms, ends, pipeVars, serverVars>>
CloseHandler(t) ==
  /\ pc[t] = "close" /\ plugin = "closing" /\ process = "up"
  /\ \E u \in DOMAIN clients :
       /\ returns' = returns \cup {clients[u]}
       /\ hungup' = hungup \cup {clients[u]}
       /\ clients' = Restrict(clients, DOMAIN clients \ {u})
  /\ UNCHANGED <<pc, index, plugin, fifos, shms, ends, requests, answers, serverVars>>

\* The last return, and delete &plugin.
ClosePrimary_bug(t) ==
  /\ DOMAIN clients = {} /\ process = "up"
  /\ Goes(t, "close", "out")
  /\ plugin' = "deleted"
  /\ UNCHANGED <<index, clients, fileVars, pipeVars, serverVars>>
ClosePrimary(t) ==
  /\ DOMAIN clients = {} /\ process = "up"
  /\ Goes(t, "close", "out")
  /\ returns' = returns \cup {0}
  /\ hungup' = hungup \cup {0}
  /\ plugin' = "deleted"
  /\ UNCHANGED <<index, clients, fifos, shms, ends, requests, answers, serverVars>>

\* message_read or message_write finds the server gone, and throws.
Fails(t) ==
  /\ process = "exited" /\ answers = 0 /\ ~(pc[t] = "wait" /\ effect)
  /\ \E from \in {"ask", "asked", "wait", "call", "close"} : Goes(t, from, "failed")
  /\ UNCHANGED <<index, clients, plugin, fileVars, pipeVars, serverVars>>

\* The host's process dies; the kernel closes its descriptors.
HostDies ==
  /\ plugin # "dead"
  /\ plugin' = "dead"
  /\ Abandons(HostWaits)
  /\ UNCHANGED <<pc, index, clients, fifos, shms, hungup, pipeVars, serverVars>>

------------------------------------------------------------------------------
(* The threads of the Windows process *)

Steps(k, from, to) ==
  process = "up" /\ srv[k].at = from /\ srv' = [srv EXCEPT ![k].at = to]
IndexOf(k) == srv[k].index

\* server_t::server_t: the shared memory, which is unlinked at once, then the
\* pipes in the order in which the client opens them.  It throws when a name
\* is gone.
OpenShm(k) ==
  /\ Steps(k, "open_shm", IF IndexOf(k) \in shms THEN "open_send" ELSE "failed")
  /\ shms' = shms \ {IndexOf(k)}
  /\ UNCHANGED <<pc, index, clients, plugin, fifos, ends, hungup, pipeVars, process, effect, shared>>
\* The pipes in the other order.
ServerOpensSend_bug(k) ==
  /\ Steps(k, "open_send", "recv") /\ Opens("r", "c2s", IndexOf(k))
  /\ UNCHANGED <<pc, index, clients, plugin, fifos, shms, hungup, pipeVars, process, effect, shared>>
ServerOpensSend(k) ==
  /\ Steps(k, "open_send", IF Named("s2c", IndexOf(k)) THEN "send" ELSE "failed")
  /\ Opens("w", "s2c", IndexOf(k))
  /\ UNCHANGED <<pc, index, clients, plugin, fifos, shms, hungup, pipeVars, process, effect, shared>>
ServerSendOpened(k) ==
  /\ Steps(k, "send", "open_recv") /\ Opened("w", "s2c", IndexOf(k))
  /\ UNCHANGED <<pc, index, clients, plugin, fileVars, pipeVars, process, effect, shared>>
ServerOpensRecv(k) ==
  /\ Steps(k, "open_recv", IF Named("c2s", IndexOf(k)) THEN "recv" ELSE "failed")
  /\ Opens("r", "c2s", IndexOf(k))
  /\ UNCHANGED <<pc, index, clients, plugin, fifos, shms, hungup, pipeVars, process, effect, shared>>
ServerRecvOpened(k) ==
  /\ Steps(k, "recv", "add") /\ Opened("r", "c2s", IndexOf(k))
  /\ UNCHANGED <<pc, index, clients, plugin, fileVars, pipeVars, process, effect, shared>>

\* add_server, then run; the main thread creates the effect in between.
Add(k) ==
  /\ Steps(k, "add", "run")
  /\ effect' = (effect \/ k = 1)
  /\ UNCHANGED <<pc, index, clients, plugin, fileVars, pipeVars, process, shared>>

\* The main thread starts a thread for a new handler, and answers.
Instantiate ==
  /\ process = "up" /\ srv # <<>> /\ srv[1].at = "run" /\ requests # <<>>
  /\ srv' = Append(srv, [index |-> Head(requests), at |-> "open_shm"])
  /\ requests' = <<>>                          \* what else was read is lost
  /\ answers' = answers + 1
  /\ UNCHANGED <<pc, index, clients, plugin, fileVars, returns, process, effect, shared>>

\* CreateThread fails, which nobody notices: the answer is sent all the same.
InstantiateFails ==
  /\ process = "up" /\ srv # <<>> /\ srv[1].at = "run" /\ requests # <<>>
  /\ requests' = <<>>
  /\ answers' = answers + 1
  /\ UNCHANGED <<pc, index, clients, plugin, fileVars, returns, serverVars>>

\* run receives a return; or the end of the pipe, and throws.
Returned(k) ==
  /\ IndexOf(k) \in returns /\ Steps(k, "run", "returned")
  /\ returns' = returns \ {IndexOf(k)}
  /\ UNCHANGED <<pc, index, clients, plugin, fileVars, requests, answers, process, effect, shared>>
ServerFails(k) ==
  /\ IndexOf(k) \notin returns /\ (IndexOf(k) \in hungup \/ plugin = "dead")
  /\ Steps(k, "run", "failed")
  /\ UNCHANGED <<pc, index, clients, plugin, fileVars, pipeVars, process, effect, shared>>

\* remove_server and the end of a thread; the main thread's block ends, with
\* the shared_t in it.
Leave(k) ==
  /\ Steps(k, "returned", "gone")
  /\ shared' = (shared /\ k # 1)
  /\ UNCHANGED <<pc, index, clients, plugin, fileVars, pipeVars, process, effect>>

\* WinMain returns, or the process dies, and all its threads with it.
Exit ==
  /\ process = "up" /\ srv[1].at \in {"gone", "failed"}
  /\ process' = "exited"
  /\ Abandons(ServerWaits)
  /\ UNCHANGED <<pc, index, clients, plugin, fifos, shms, hungup, pipeVars, srv, effect, shared>>
Dies ==
  /\ process = "up"
  /\ process' = "exited"
  /\ Abandons(ServerWaits)
  /\ UNCHANGED <<pc, index, clients, plugin, fifos, shms, hungup, pipeVars, srv, effect, shared>>

\* One of the processes is gone; the other may be left waiting in open.
Over == (process = "exited" \/ plugin = "dead") /\ UNCHANGED vars

------------------------------------------------------------------------------
\* What get_client and VSTPluginMain do on their own; opening by a server thread.
Creates(t) ==
  \/ Create(t) \/ Spawn(t) \/ Ask(t) \/ Asked(t)
  \/ OpenRecv(t) \/ RecvOpened(t) \/ OpenSend(t) \/ SendOpened(t) \/ Unlink(t)
  \/ Insert(t) \/ Wait(t)

Closes(t) == CloseHandler(t) \/ ClosePrimary(t)

Serves(k) ==
  \/ OpenShm(k) \/ ServerOpensSend(k) \/ ServerSendOpened(k)
  \/ ServerOpensRecv(k) \/ ServerRecvOpened(k) \/ Add(k)
  \/ Returned(k) \/ ServerFails(k) \/ Leave(k)

Refusal == InstantiateFails \/ \E t \in Threads : CreateFails(t) \/ SpawnFails(t)

Next ==
  \/ /\ UNCHANGED refused
     /\ \/ \E t \in Threads :
             Creates(t) \/ Call(t) \/ EndCall(t) \/ EffClose(t) \/ Closes(t) \/ Fails(t)
        \/ \E k \in DOMAIN srv : Serves(k)
        \/ Instantiate \/ Exit \/ Dies \/ HostDies \/ Over
  \/ Faults /\ refused' = TRUE /\ Refusal

Spec == Init /\ [][Next]_vars

\* Threads that can go on do: neither waits for the host to call.
FairSpec ==
  /\ Spec
  /\ \A t \in Threads :
       /\ WF_vars(Creates(t) /\ UNCHANGED refused)
       /\ WF_vars(Closes(t) /\ UNCHANGED refused) /\ WF_vars(Fails(t) /\ UNCHANGED refused)
  /\ \A k \in 1 .. Cardinality(Threads) + 1 :
       WF_vars(k \in DOMAIN srv /\ Serves(k) /\ UNCHANGED refused)
  /\ WF_vars((Instantiate /\ UNCHANGED refused) \/ (InstantiateFails /\ refused' = TRUE))
  /\ WF_vars(Exit /\ UNCHANGED refused)

------------------------------------------------------------------------------
\* While the host lives, a thread that has a client has it for itself, and
\* exactly one thread of the server is behind it: it has mapped the memory and
\* reached the last of the two opens, so that no name is needed any more.
Paired ==
  plugin # "dead" => \A t \in DOMAIN clients :
    /\ \A u \in DOMAIN clients : clients[u] = clients[t] => u = t
    /\ Cardinality({k \in DOMAIN srv : /\ srv[k].index = clients[t]
                                       /\ srv[k].at \in {"recv", "add", "run"}}) = 1

\* Once a handler is in use no file of it has a name: a host or a server that
\* dies afterwards leaves nothing behind in /tmp or /dev/shm.  Three of the
\* names are removed by two processes, each after the other needs them no more.
NothingLeftBehind ==
  \A i \in {clients[t] : t \in DOMAIN clients}
             \cup {0 : p \in {plugin} \cap {"created", "closing", "deleted"}} :
    i \notin shms /\ FifosOf(i) \cap fifos = {}

\* As long as neither process dies and nothing is refused nothing throws,
\* neither while handlers are created nor while they are closed: no end is
\* opened too late, no memory created twice, no pipe closed before the return
\* is read from it.
NoExceptions ==
  ~refused =>
    /\ process # "exited" => \A t \in Threads : pc[t] # "failed"
    /\ plugin # "dead" => \A k \in DOMAIN srv : srv[k].at # "failed"

\* Nobody will ever come to open the other end of the pipe t waits for.
Stranded(t) ==
  /\ \/ pc[t] = "recv" /\ ~Opened("r", "s2c", index[t])
     \/ pc[t] = "send" /\ ~Opened("w", "c2s", index[t])
  /\ process = "exited" \/ \A k \in DOMAIN srv : srv[k].index # index[t]

\* Every thread gets its client, and VSTPluginMain its effect, or an exception:
\* four blocking opens, a request and an answer never wait for each other in a
\* circle.  Only an open whose other end has died, or never came to life, may
\* wait for ever.
ClientsArrive ==
  \A t \in Threads :
    pc[t] \in Creating ~> pc[t] \notin Creating \/ plugin = "dead" \/ Stranded(t)

\* After effClose, and after the host's death once it has opened the pipes of
\* the primary handler, the Windows process ends.
ServerEnds ==
  plugin \in {"deleted", "dead"} /\ srv # <<>> /\ srv[1].at \notin Opening
    ~> process = "exited"

------------------------------------------------------------------------------
\* "lock the map and the primary client and instantiate a new client"
\* (plugin_t.cpp:99): one thread at a time uses the primary client.
PrimaryExclusive ==
  Cardinality({t \in Threads : pc[t] = "asked"}) <= 1

\* "we should first close all server handlers by sending them a return and
\* then close the primary handler" (callbacks.cpp:40): no handler's thread is
\* still on its way out, through remove_server, when the primary's has gone
\* and the shared_t with it.
HandlersClosedFirst ==
  process = "up" /\ ~shared => \A k \in DOMAIN srv : srv[k].at \notin {"run", "returned"}
==============================================================================
