----------------------------- MODULE HandlerPair -----------------------------
(***************************************************************************)
(* One handler pair: a client_t of the native host, the server_t that      *)
(* serves it inside the Windows process, the two pipes and the shared      *)
(* memory between them.  Each end is a single thread; what it is in the    *)
(* middle of is its call stack, made of send_message ("call") and          *)
(* process_message ("proc") frames.  Waiting inside send_message for the   *)
(* answer it processes the calls the other end makes meanwhile, so calls   *)
(* nest to any depth.                                                      *)
(*                                                                         *)
(* The shared memory is a set of extents: the bytes written last, with the *)
(* value they carry.  The bytes of one request carry its argument, those   *)
(* of one answer its result; the extents are where ShmLayout puts them.    *)
(*                                                                         *)
(* Source: common/msg/{sender,processor,receiver}.hpp, handler/shm.hpp,    *)
(* client/client_t.cpp, client/plugin_t.cpp, server/server_t.cpp.          *)
(***************************************************************************)
EXTENDS ShmLayout

CONSTANTS EffectCalls,   \* messages the client sends: payloads of ShmLayout
          HostCalls,     \* messages the server sends
          Data,          \* values of arguments and results
          None,          \* no value
          MaxDepth       \* bound on the nesting of calls

ASSUME NoneAssumption  == None \notin Data
ASSUME DepthAssumption == MaxDepth \in Nat

VARIABLES primary,    \* is this the primary pair, which creates the effect?
          created,    \* client: shared.state = created
          pc,         \* what each end does
          health,     \* the process behind it
          stack,      \* its open send_message and process_message calls
          pipe,       \* bytes on their way to it, as packets
          offset,     \* its _shm_offset
          mem,        \* the shared memory
          got         \* what a send_message has just returned to its caller

vars == <<primary, created, pc, health, stack, pipe, offset, mem, got>>

Sides == {"client", "server"}
Peer(s) == IF s = "client" THEN "server" ELSE "client"

Instantiate == [kind |-> "none"]      \* instantiate_handler carries only an index
Messages == EffectCalls \cup HostCalls \cup {Instantiate}
Values == Data \cup {None}

Extent == [lo : Nat, hi : Nat, val : Values]
Frame  == [role : {"call", "proc"}, msg : Messages, off : Nat, size : Nat,
           arg : Data, seen : SUBSET Values, res : Values]
Packet == [type : {"request"}, msg : Messages, arg : Data]
            \cup [type : {"return"}, res : Values]

TypeOK ==
  /\ primary \in BOOLEAN
  /\ created \in BOOLEAN
  /\ pc \in [Sides -> {"code", "receive", "done"}]
  /\ health \in [Sides -> {"up", "failed", "dead"}]
  /\ stack \in [Sides -> Seq(Frame)]
  /\ pipe \in [Sides -> Seq(Packet)]
  /\ offset \in [Sides -> Nat]
  /\ mem \subseteq Extent
  /\ got \subseteq Values

------------------------------------------------------------------------------
\* What is read at a place of the shared memory; None is any mixture of other
\* bytes.
At(m, p) ==
  IF \E d \in Data : [lo |-> p.lo, hi |-> p.hi, val |-> d] \in m
    THEN CHOOSE d \in Data : [lo |-> p.lo, hi |-> p.hi, val |-> d] \in m
    ELSE None

ReadAt(m, places) == {At(m, p) : p \in places}

------------------------------------------------------------------------------
Top(s) == Last(stack[s])
Pop(s) == stack' = [stack EXCEPT ![s] = Front(@)]

\* Plausible mistakes, of which the properties below are shown to notice each:
\* definitions whose name ends in _bug replace the one they are named after.
ShmPush_bug(s, n) == UNCHANGED offset
ShmPop_bug(s, n)  == UNCHANGED offset

\* handler::shm.
ShmPush(s, n) == offset' = [offset EXCEPT ![s] = @ + n]
ShmPop(s, n)  == offset' = [offset EXCEPT ![s] = @ - n]

Up(s) == health[s] = "up"
\* The end has closed its file descriptors.
Gone(s) == pc[s] = "done" \/ ~Up(s)

\* The host's or the plugin's code runs on this end.
InCode(s) == Up(s) /\ pc[s] = "code"
Idle(s) == InCode(s) /\ stack[s] = <<>>
Called(s) == InCode(s) /\ stack[s] # <<>>

\* message_write: it fails, or kills the process, when nobody can read.
Transmit(s, packet) ==
  IF Gone(Peer(s))
    THEN UNCHANGED pipe /\ health' = [health EXCEPT ![s] = "failed"]
    ELSE pipe' = [pipe EXCEPT ![Peer(s)] = Append(@, packet)] /\ UNCHANGED health

Init ==
  /\ primary \in BOOLEAN
  /\ created = ~primary
  /\ pc = IF primary THEN [client |-> "receive", server |-> "code"]   \* wait_for_effect, VSTPluginMain
                     ELSE [client |-> "code", server |-> "receive"]   \* run
  /\ health = [s \in Sides |-> "up"]
  /\ stack = [s \in Sides |-> <<>>]
  /\ pipe = [s \in Sides |-> <<>>]
  /\ offset = [s \in Sides |-> 0]
  /\ mem = {}
  /\ got = {}

------------------------------------------------------------------------------
\* The primary client only instantiates handlers, and the server's end of it
\* runs plugin code only while VSTPluginMain creates the effect.
CallsOf(s) ==
  IF s = "server" THEN HostCalls ELSE IF primary THEN {Instantiate} ELSE EffectCalls
MayCall(s) == IF primary THEN stack[s] = <<>> ELSE Len(stack[s]) < MaxDepth

\* send_message up to the point where it waits for the answer.
SendMessage(s, m, d) ==
  /\ InCode(s)
  /\ LET off  == offset[s]
         size == Total(WriteRequest(m), off)
     IN  /\ mem' = Put(mem, RequestPlaces(m, off), d)
         /\ ShmPush(s, size)
         /\ stack' = [stack EXCEPT ![s] = Append(@,
              [role |-> "call", msg |-> m, off |-> off, size |-> size,
               arg |-> d, seen |-> {}, res |-> None])]
  /\ Transmit(s, [type |-> "request", msg |-> m, arg |-> d])
  /\ pc' = [pc EXCEPT ![s] = "receive"]
  /\ got' = {}
  /\ UNCHANGED <<primary, created>>

Send(s, m, d) == MayCall(s) /\ m \in CallsOf(s) /\ SendMessage(s, m, d)

\* One read takes everything the pipe holds, and only its first message is
\* parsed.
Incoming(s) == Head(pipe[s])
Take(s, type) ==
  /\ Up(s) /\ pc[s] = "receive"
  /\ pipe[s] # <<>> /\ Incoming(s).type = type
  /\ pipe' = [pipe EXCEPT ![s] = <<>>]
  /\ UNCHANGED <<primary, health>>

\* process_message up to the call of the handler's function.
Receive(s) ==
  /\ Take(s, "request")
  /\ LET m == Incoming(s).msg
         off == offset[s]
         size == Total(MapRequest(m), off)
     IN  /\ ShmPush(s, size)
         /\ stack' = [stack EXCEPT ![s] = Append(@,
              [role |-> "proc", msg |-> m, off |-> off, size |-> size,
               arg |-> Incoming(s).arg,
               seen |-> {Incoming(s).arg} \cup ReadAt(mem, ArgumentPlaces(m, off)),
               res |-> None])]
  /\ pc' = [pc EXCEPT ![s] = "code"]
  /\ got' = {}
  /\ UNCHANGED <<created, mem>>

\* The code that was called decides on its result, and stores what the
\* message's pointer asks for; before or after it calls back.
Decide(s, d) ==
  /\ Called(s) /\ Top(s).res = None
  /\ mem' = Put(mem, OutputPlaces(Top(s).msg, Top(s).off), d)
  /\ stack' = [stack EXCEPT ![s] = Append(Front(@), [Last(@) EXCEPT !.res = d])]
  /\ got' = {}
  /\ UNCHANGED <<primary, created, pc, health, pipe, offset>>

\* It returns: send_return_dispatcher, and the loop of receive_message.
Reply(s) ==
  /\ Called(s) /\ Top(s).res # None
  /\ mem' = Put(mem, AnswerPlaces(Top(s).msg, Top(s).off), Top(s).res)
  /\ ShmPop(s, Top(s).size)
  /\ IF Gone(Peer(s)) THEN UNCHANGED <<stack, got>> ELSE Pop(s) /\ got' = {}
  /\ Transmit(s, [type |-> "return", res |-> Top(s).res])
  /\ pc' = [pc EXCEPT ![s] = "receive"]
  /\ UNCHANGED <<primary, created>>

\* Where the response is looked for: where the request was, not at the offset
\* as it is while the call is open.
AnswerAt_bug(s) == offset[s]
AnswerAt(s)     == Top(s).off

\* send_message after receive_message has returned.  The bytes of the call
\* stay in the memory, but nobody may count on them any more: they are
\* forgotten here, and reading them gives None.
Return(s) ==
  /\ Take(s, "return") /\ stack[s] # <<>>
  /\ got' = {Incoming(s).res} \cup ReadAt(mem, ResultPlaces(Top(s).msg, AnswerAt(s)))
  /\ mem' = {e \in mem : e.hi <= Top(s).off}
  /\ ShmPop(s, Top(s).size)
  /\ Pop(s)
  /\ pc' = [pc EXCEPT ![s] = "code"]
  /\ UNCHANGED created

------------------------------------------------------------------------------
\* A return that answers no call: the effect, or the empty return that stops
\* a server.  Only where it is received tells it from an answer.
Answerless == [type |-> "return", res |-> None]

\* actual_win_main after VSTPluginMain: return_effect, then run.
ReturnEffect ==
  /\ primary /\ Idle("server")
  /\ Transmit("server", Answerless)
  /\ pc' = [pc EXCEPT !["server"] = "receive"]
  /\ UNCHANGED <<primary, created, stack, offset, mem, got>>

\* The end of wait_for_effect.
WaitForEffect ==
  /\ Take("client", "return") /\ stack["client"] = <<>>
  /\ created' = TRUE
  /\ pc' = [pc EXCEPT !["client"] = "code"]
  /\ UNCHANGED <<stack, offset, mem, got>>

\* aeffect_dispatcher_proc of effClose: send_return, then the client goes.
Close ==
  /\ Idle("client")
  /\ Transmit("client", Answerless)
  /\ pc' = [pc EXCEPT !["client"] = "done"]
  /\ UNCHANGED <<primary, created, stack, offset, mem, got>>

\* run returns, and the server goes.
Stop ==
  /\ Take("server", "return") /\ stack["server"] = <<>>
  /\ pc' = [pc EXCEPT !["server"] = "done"]
  /\ UNCHANGED <<created, stack, offset, mem, got>>

\* An empty read is tried again.
ReadEof_bug(s) ==
  /\ Up(s) /\ pc[s] = "receive" /\ pipe[s] = <<>> /\ Gone(Peer(s))
  /\ UNCHANGED vars

\* message_read finds the other end closed, and throws.
ReadEof(s) ==
  /\ Up(s) /\ pc[s] = "receive" /\ pipe[s] = <<>> /\ Gone(Peer(s))
  /\ health' = [health EXCEPT ![s] = "failed"]
  /\ UNCHANGED <<primary, created, pc, stack, pipe, offset, mem, got>>

\* The process dies, wherever it is.
Crash(s) ==
  /\ Up(s) /\ pc[s] # "done"
  /\ health' = [health EXCEPT ![s] = "dead"]
  /\ UNCHANGED <<primary, created, pc, stack, pipe, offset, mem, got>>

\* Nothing is left to do.
Finished ==
  /\ \A s \in Sides : Gone(s)
  /\ UNCHANGED vars

------------------------------------------------------------------------------
EndStep(s) ==
  \/ \E m \in CallsOf(s), d \in Data : Send(s, m, d)
  \/ Receive(s)
  \/ \E d \in Data : Decide(s, d)
  \/ Reply(s)
  \/ Return(s)
  \/ ReadEof(s)
  \/ Crash(s)

Next ==
  \/ \E s \in Sides : EndStep(s)
  \/ ReturnEffect
  \/ WaitForEffect
  \/ Close
  \/ Stop
  \/ Finished

Spec == Init /\ [][Next]_vars

------------------------------------------------------------------------------
\* Entry i of both stacks is the same call, seen by its caller and by its
\* callee, at the same offset with the same size.
Agree(frames, others) ==
  \A i \in DOMAIN frames \cap DOMAIN others :
    LET f == frames[i]
        g == others[i]
    IN  /\ {f.role, g.role} = {"call", "proc"}
        /\ f.msg = g.msg /\ f.arg = g.arg /\ f.off = g.off /\ f.size = g.size

End(frames) == IF frames = <<>> THEN 0 ELSE Last(frames).off + Last(frames).size

\* Each call's area starts where the one it is nested in ends.
Stacked(frames) ==
  \A i \in DOMAIN frames :
    frames[i].off = IF i = 1 THEN 0 ELSE frames[i-1].off + frames[i-1].size

\* The two ends agree on every open call and on where the next one goes, however
\* calls and callbacks nest: what shm_push and shm_pop of send_message and
\* process_message must keep equal on the two sides, without ever talking
\* about it.  Nothing in the code compares the two.
Lockstep ==
  /\ Agree(stack["client"], stack["server"])
  /\ \A s \in Sides : Stacked(stack[s]) /\ (Up(s) => offset[s] = End(stack[s]))

\* At most one packet is under way, and never while code runs.  The readers
\* rely on it: a read takes whatever is in the pipe and parses one message.
OneInFlight ==
  /\ Len(pipe["client"]) + Len(pipe["server"]) <= 1
  /\ \A s \in Sides : pc[s] = "code" =>
       pc[Peer(s)] = "receive" /\ pipe["client"] = <<>> /\ pipe["server"] = <<>>

ProcFrames(s) == {stack[s][i] : i \in {j \in DOMAIN stack[s] : stack[s][j].role = "proc"}}

\* Until the called code stores its result, the memory its argument is mapped
\* to holds what the caller put there, whatever calls are nested in between:
\* no nested send_message writes over it.
ArgumentsIntact ==
  \A s \in Sides : Up(s) =>
    \A f \in ProcFrames(s) :
      \A p \in ArgumentPlaces(f.msg, f.off) \
                 (IF f.res = None THEN {} ELSE OutputPlaces(f.msg, f.off)) :
        At(mem, p) = f.arg

\* What the called code stored through its mapped pointer stays there until
\* it returns, even when it calls back in between.
OutputsIntact ==
  \A s \in Sides : Up(s) =>
    \A f \in ProcFrames(s) : f.res # None =>
      \A p \in OutputPlaces(f.msg, f.off) : At(mem, p) = f.res

\* The pointer that effGetChunk and effEditGetRect hand to the plugin points
\* at the pointer the caller stored ("map ptr so that it points to the pointer
\* in shm", request.hpp:248 and 298).
PointerMapped ==
  \A i \in DOMAIN stack["client"] \cap DOMAIN stack["server"] :
    LET c == stack["client"][i]
        v == stack["server"][i]
    IN  v.msg.kind \in {"chunk", "rect"} =>
          OutputPlaces(v.msg, v.off) = RequestPlaces(c.msg, c.off)

------------------------------------------------------------------------------
\* The inductive invariant behind Lockstep and OneInFlight: whose turn it is.

\* The code of s runs: both ends have the same calls open, s the inner end.
Running(s) ==
  /\ pc[s] = "code" /\ pc[Peer(s)] = "receive"
  /\ pipe[s] = <<>> /\ pipe[Peer(s)] = <<>>
  /\ Len(stack[s]) = Len(stack[Peer(s)])
  /\ stack[s] # <<>> => Top(s).role = "proc"

\* s waits for its innermost call, which the other end is not in.
Waiting(s) ==
  /\ pc[s] = "receive" /\ pc[Peer(s)] = "receive"
  /\ Len(stack[s]) = Len(stack[Peer(s)]) + 1
  /\ Top(s).role = "call"

Asked(s) ==
  /\ Waiting(s) /\ pipe[s] = <<>>
  /\ pipe[Peer(s)] = <<[type |-> "request", msg |-> Top(s).msg, arg |-> Top(s).arg]>>

Answered(s) ==
  /\ Waiting(s) /\ pipe[Peer(s)] = <<>>
  /\ \E d \in Data : pipe[s] = <<[type |-> "return", res |-> d]>>

\* The effect is on its way, or the return that stops the server.
Handover(s) ==
  /\ pipe[s] = <<Answerless>> /\ pipe[Peer(s)] = <<>>
  /\ pc[s] = "receive"
  /\ pc[Peer(s)] = IF s = "client" THEN "receive" ELSE "done"
  /\ stack[s] = <<>> /\ stack[Peer(s)] = <<>>

Turn ==
  \/ \E s \in Sides : Running(s) \/ Asked(s) \/ Answered(s) \/ Handover(s)
  \/ \A s \in Sides : Gone(s)

Alternating(frames) ==
  \A i \in DOMAIN frames : i # 1 => frames[i].role # frames[i-1].role

\* A frame is as long as the request it was made for.
Sized(frames) ==
  \A i \in DOMAIN frames :
    frames[i].size = Total(WriteRequest(frames[i].msg), frames[i].off)

\* Calls alternate between the ends, each as long as its request, and either
\* one end runs, or one packet is under way to an end that waits for it, or
\* both ends are gone.  With Lockstep and OneInFlight this is inductive.
PairInv ==
  /\ Turn /\ OneInFlight /\ Lockstep
  /\ \A s \in Sides : Alternating(stack[s]) /\ Sized(stack[s])

------------------------------------------------------------------------------
\* The pair implements nested calls of one thread: the refinement mapping
\* reads the call stack of that thread off the two stacks and the pipes.
Caller(i) == CHOOSE s \in Sides : i \in DOMAIN stack[s] /\ stack[s][i].role = "call"

CallAt(i) ==
  LET c == Caller(i)
      p == Peer(c)
      entered == i \in DOMAIN stack[p]
      answered == ~entered /\ pipe[c] # <<>>
  IN  [by    |-> c,
       msg   |-> stack[c][i].msg,
       arg   |-> stack[c][i].arg,
       seen  |-> IF entered THEN stack[p][i].seen ELSE {},
       res   |-> IF entered THEN stack[p][i].res
                 ELSE IF answered THEN Incoming(c).res ELSE None,
       stage |-> IF entered THEN "running" ELSE IF answered THEN "answered" ELSE "sent"]

OpenCalls ==
  [i \in 1 .. (IF Len(stack["client"]) >= Len(stack["server"])
                 THEN Len(stack["client"]) ELSE Len(stack["server"])) |-> CallAt(i)]

Abstract == INSTANCE NestedCalls WITH
  Calls <- [s \in Sides |-> IF s = "server" THEN HostCalls
                            ELSE EffectCalls \cup {Instantiate}],
  calls <- OpenCalls,
  base  <- IF pc["client"] = "done" THEN None ELSE IF created THEN "client" ELSE "server"

\* Arguments and results arrive as they were sent and calls return in the
\* reverse order, with one side running at a time: send_message and
\* process_message together behave as a call on one stack.
ImplementsNestedCalls == Abstract!Spec

==============================================================================
