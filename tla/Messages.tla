------------------------------- MODULE Messages -------------------------------
(***************************************************************************)
(* The bytes of a handler pair's pipes: which fields of a call are written *)
(* for which message, what the other program makes of the bytes it reads,  *)
(* and which of its functions it calls.  The two programs are compiled     *)
(* from the same tables, but the sender's opcode picks the fields on one   *)
(* side and the opcode found in the pipe picks them on the other; nothing  *)
(* in a message says how long it is or what it holds.                      *)
(*                                                                         *)
(* What a message's pointer points to travels through the shared memory:   *)
(* that is ShmLayout's and HandlerPair's matter, as are the pair's         *)
(* beginning and end.                                                      *)
(*                                                                         *)
(* Source: common/msg/{dispatchers,sender,receiver,processor}.hpp,         *)
(* common/msg/io/msg.hpp, common/msg/payload/response.hpp.                 *)
(***************************************************************************)
EXTENDS MessageTables, ShmLayout

CONSTANTS Bodies,    \* the requests passed in: all fields of a request
          Results,   \* what a called function returns
          Null,      \* the result 0, a null pointer
          None,      \* no value
          Used,      \* the messages of the tables that the two programs send
          Unknown,   \* opcodes in neither table that they try to send
          MaxDepth   \* bound on the nesting of calls

ASSUME NullAssumption  == Null \in Results /\ None \notin Results
ASSUME DepthAssumption == MaxDepth \in Nat

VARIABLES pc,      \* what each end does
          stack,   \* its open send_message and process_message calls
          pipe,    \* the messages on their way to it
          got      \* what a call has just returned to its caller

vars == <<pc, stack, pipe, got>>

Sides == {"client", "server"}
Peer(s) == IF s = "client" THEN "server" ELSE "client"

------------------------------------------------------------------------------
\* message_configuration of client_t and of server_t.
DispatcherSent(s)     == IF s = "client" THEN EffectOpcodes ELSE MasterOpcodes
DispatcherReceived(s) == IF s = "client" THEN MasterOpcodes ELSE EffectOpcodes

\* The message types a handler processes besides its dispatcher's.
TypesReceived_bug(s) == IF s = "server" THEN GeneralTypes \ {"process_double_replacing"} ELSE {}
TypesReceived(s)     == IF s = "server" THEN GeneralTypes ELSE {}

General(op) == op \in GeneralTypes
TypeOf(op)  == IF General(op) THEN op ELSE "dispatcher"

\* A field of the pipe and its width in bytes.
TimeInfoSize == 88
Width(op, f) ==
  CASE f = "value"                             -> 8
    [] f = "response" /\ op # "get_parameter"  -> 8
    [] f = "present"                           -> 1
    [] f = "time_info"                         -> TimeInfoSize
    [] OTHER                                   -> 4

BodyFields == {"index", "value", "opt", "num_inputs", "num_outputs"}

ASSUME BodiesAssumption == Bodies \subseteq [BodyFields -> Nat]

\* if constexpr (has_f<op>).
Field(op, f) == IF f \in Traits[op] THEN <<f>> ELSE <<>>

\* io::write_request and the type in front of it.
Header(op) == IF General(op) THEN <<"type">> ELSE <<"type", "opcode">>
FieldsWritten(op) ==
  Header(op) \o Field(op, "index") \o Field(op, "value") \o Field(op, "opt")
    \o Field(op, "num_inputs") \o Field(op, "num_outputs")

\* What receive_message, the dispatcher and io::read_request take off again;
\* mistakenly, the float before the integer.
FieldsRead_bug(op) ==
  Header(op) \o Field(op, "index") \o Field(op, "opt") \o Field(op, "value")
    \o Field(op, "num_inputs") \o Field(op, "num_outputs")
FieldsRead(op) ==
  Header(op) \o Field(op, "index") \o Field(op, "value") \o Field(op, "opt")
    \o Field(op, "num_inputs") \o Field(op, "num_outputs")

\* io::write_response, with vst_time_info_out, and io::read_response; a plain
\* result that only one side thinks of.
AnswerWritten_bug(op, res) ==
  <<"type", "response">>
    \o (IF "payload_ret" \notin Traits[op] THEN <<>>
        ELSE IF res = Null THEN <<"present">> ELSE <<"present", "time_info">>)
AnswerHeader(op) == IF "plain_ret" \in Traits[op] THEN <<"type", "response">> ELSE <<"type">>
AnswerWritten(op, res) ==
  AnswerHeader(op)
    \o (IF "payload_ret" \notin Traits[op] THEN <<>>
        ELSE IF res = Null THEN <<"present">> ELSE <<"present", "time_info">>)
AnswerRead(op, present) ==
  AnswerHeader(op)
    \o (IF "payload_ret" \notin Traits[op] THEN <<>>
        ELSE IF present THEN <<"present", "time_info">> ELSE <<"present">>)

------------------------------------------------------------------------------
\* The bytes of a message, and what is found at a field's place among them;
\* None is any mixture of other bytes.
Layout(op, fields) == [k \in DOMAIN fields |-> Write(fields[k], Width(op, fields[k]))]

Encode(op, fields, values) ==
  LET steps == Layout(op, fields)
  IN  [len   |-> Total(steps, 0),
       bytes |-> {[lo |-> FieldAt(steps, 0, k), hi |-> FieldAt(steps, 0, k) + steps[k].size,
                   val |-> values[fields[k]]] : k \in DOMAIN steps}]

ValueAt(packet, op, fields, k) ==
  LET steps == Layout(op, fields)
      found == {e \in packet.bytes : /\ e.lo = FieldAt(steps, 0, k)
                                     /\ e.hi = e.lo + steps[k].size}
  IN  IF found = {} THEN None ELSE (CHOOSE e \in found : TRUE).val

Has(fields, f) == \E k \in DOMAIN fields : fields[k] = f
Find(packet, op, fields, f) ==
  ValueAt(packet, op, fields, CHOOSE k \in DOMAIN fields : fields[k] = f)

TypeIn(packet)   == Find(packet, "", <<"type">>, "type")
OpcodeIn(packet) ==
  IF TypeIn(packet) = "dispatcher" THEN Find(packet, "", <<"type", "opcode">>, "opcode")
                                   ELSE TypeIn(packet)

------------------------------------------------------------------------------
\* A field a message has not got arrives as the default of dispatcher_request.
Truncate(op, body) == [f \in BodyFields |-> IF f \in Traits[op] THEN body[f] ELSE 0]

Frame == [role : {"call", "proc"}, op : DOMAIN Traits,
          body : [BodyFields -> Nat], res : Results \cup {None}]

TypeOK ==
  /\ pc \in [Sides -> {"code", "receive", "thrown", "lost"}]
  /\ stack \in [Sides -> Seq(Frame)]
  /\ \A s \in Sides : Len(pipe[s]) <= 1
  /\ got \subseteq Results

Init ==
  /\ pc = [client |-> "code", server |-> "receive"]
  /\ stack = [s \in Sides |-> <<>>]
  /\ pipe = [s \in Sides |-> <<>>]
  /\ got = {}

Top(s) == Last(stack[s])
Transmit(s, packet) == pipe' = [pipe EXCEPT ![Peer(s)] = Append(@, packet)]
Incoming(s) == Head(pipe[s])
Take(s) ==
  /\ pc[s] = "receive" /\ pipe[s] # <<>>
  /\ pipe' = [pipe EXCEPT ![s] = <<>>]

\* What the host calls the effect with, and the plugin the host.
CallsOf(s) ==
  Used \cap (DispatcherSent(s) \cup
    (IF s = "client" THEN GeneralTypes \ {"instantiate_handler"} ELSE {}))

\* send_dispatcher, send_process and so on, until send_message waits.
Send(s, op, body) ==
  /\ pc[s] = "code" /\ Len(stack[s]) < MaxDepth
  /\ LET values == [f \in BodyFields \cup {"type", "opcode"} |->
                      CASE f = "type" -> TypeOf(op) [] f = "opcode" -> op [] OTHER -> body[f]]
     IN  Transmit(s, Encode(op, FieldsWritten(op), values))
  /\ stack' = [stack EXCEPT ![s] = Append(@,
       [role |-> "call", op |-> op, body |-> body, res |-> None])]
  /\ pc' = [pc EXCEPT ![s] = "receive"]
  /\ got' = {}

\* throw_unknown_opcode in the caller's program, before anything is written.
ThrowUnknown(s, op) ==
  /\ pc[s] = "code" /\ op \in Unknown /\ op \notin DispatcherSent(s)
  /\ pc' = [pc EXCEPT ![s] = "thrown"]
  /\ UNCHANGED <<stack, pipe, got>>

\* receive_message, dispatch_received_message_to_handler, the dispatcher's
\* handle and process_message, until the function is called.
Understood(s, packet) ==
  OpcodeIn(packet) \in
    IF TypeIn(packet) = "dispatcher" THEN DispatcherReceived(s) ELSE TypesReceived(s)

\* "Unknown message type", or an opcode that only the sender's table has, is
\* an exception.
Receive(s) ==
  /\ Take(s) /\ TypeIn(Incoming(s)) # "return_"
  /\ IF Understood(s, Incoming(s))
       THEN LET op == OpcodeIn(Incoming(s))
                fields == FieldsRead(op)
            IN  /\ stack' = [stack EXCEPT ![s] = Append(@,
                     [role |-> "proc", op |-> op, res |-> None,
                      body |-> [f \in BodyFields |->
                        IF Has(fields, f) THEN Find(Incoming(s), op, fields, f) ELSE 0]])]
                /\ pc' = [pc EXCEPT ![s] = "code"]
       ELSE pc' = [pc EXCEPT ![s] = "lost"] /\ UNCHANGED stack
  /\ got' = {}

\* The function that was called has a result.
Decide(s, d) ==
  /\ pc[s] = "code" /\ stack[s] # <<>> /\ Top(s).res = None
  /\ stack' = [stack EXCEPT ![s] = Append(Front(@), [Last(@) EXCEPT !.res = d])]
  /\ got' = {}
  /\ UNCHANGED <<pc, pipe>>

\* It returns: send_return_dispatcher.
Reply(s) ==
  /\ pc[s] = "code" /\ stack[s] # <<>> /\ Top(s).res # None
  /\ LET f == Top(s)
         values == [type |-> "return_", response |-> f.res,
                    present |-> f.res # Null, time_info |-> f.res]
     IN  Transmit(s, Encode(f.op, AnswerWritten(f.op, f.res), values))
  /\ stack' = [stack EXCEPT ![s] = Front(@)]
  /\ pc' = [pc EXCEPT ![s] = "receive"]
  /\ got' = {}

\* The rest of send_message: a dispatcher_response is 0 unless something is
\* read into it.
Response(packet, op) ==
  LET fields == AnswerRead(op, FALSE)
  IN  IF "plain_ret" \in Traits[op] THEN Find(packet, op, fields, "response")
      ELSE IF "payload_ret" \notin Traits[op] \/ Find(packet, op, fields, "present") = FALSE THEN Null
      ELSE Find(packet, op, AnswerRead(op, TRUE), "time_info")

Return(s) ==
  /\ Take(s) /\ TypeIn(Incoming(s)) = "return_" /\ stack[s] # <<>>
  /\ got' = {Response(Incoming(s), Top(s).op)}
  /\ stack' = [stack EXCEPT ![s] = Front(@)]
  /\ pc' = [pc EXCEPT ![s] = "code"]

\* The program whose dispatcher threw an exception ends, or is none of ours.
Over == (\E s \in Sides : pc[s] \in {"thrown", "lost"}) /\ UNCHANGED vars

Next ==
  \/ \E s \in Sides :
       \/ \E op \in CallsOf(s), body \in Bodies : Send(s, op, body)
       \/ \E op \in Unknown : ThrowUnknown(s, op)
       \/ Receive(s)
       \/ \E d \in Results : Decide(s, d)
       \/ Reply(s)
       \/ Return(s)
  \/ Over

Spec == Init /\ [][Next]_vars

------------------------------------------------------------------------------
\* The function that is called is the one the caller meant, and the program
\* that reads a message never comes to the default branch of a switch: the
\* tables of both, and who uses which, agree.
CalleeUnderstands ==
  /\ \A s \in Sides : pc[s] # "lost"
  /\ \A k \in DOMAIN stack["client"] \cap DOMAIN stack["server"] :
       stack["client"][k].op = stack["server"][k].op

\* What is read of a message ends where the message ends: no field is taken
\* from the bytes that an earlier, longer message has left in the buffer, and
\* none is left over.  receive_message has forgotten how many bytes it read.
ReadsMeetWrites ==
  \A s \in Sides : pipe[s] # <<>> =>
    LET packet == Incoming(s)
        asked == TypeIn(packet) # "return_"
        op == IF asked THEN OpcodeIn(packet) ELSE Top(s).op
        present == Has(AnswerRead(op, FALSE), "present")
                     /\ Find(packet, op, AnswerRead(op, FALSE), "present") = TRUE
    IN  packet.len =
          Total(Layout(op, IF asked THEN FieldsRead(op) ELSE AnswerRead(op, present)), 0)

------------------------------------------------------------------------------
\* The messages implement the nested calls of one thread: the callee sees the
\* fields its message has, and the caller the result if there is one.
Caller(i) == CHOOSE s \in Sides : i \in DOMAIN stack[s] /\ stack[s][i].role = "call"
Sendable(op, d) ==
  IF d = None \/ {"plain_ret", "payload_ret"} \cap Traits[op] # {} THEN d ELSE Null

CallAt(i) ==
  LET c == Caller(i)
      p == Peer(c)
      op == stack[c][i].op
      entered == i \in DOMAIN stack[p]
      answered == ~entered /\ pipe[c] # <<>>
  IN  [by    |-> c,
       msg   |-> op,
       arg   |-> Truncate(op, stack[c][i].body),
       seen  |-> IF entered THEN {stack[p][i].body} ELSE {},
       res   |-> IF entered THEN Sendable(op, stack[p][i].res)
                 ELSE IF answered THEN Response(Incoming(c), op) ELSE None,
       stage |-> IF entered THEN "running" ELSE IF answered THEN "answered" ELSE "sent"]

OpenCalls ==
  [i \in 1 .. (IF Len(stack["client"]) >= Len(stack["server"])
                 THEN Len(stack["client"]) ELSE Len(stack["server"])) |-> CallAt(i)]

Arguments ==
  {Truncate(op, body) : op \in DOMAIN Traits, body \in Bodies}

Abstract == INSTANCE NestedCalls WITH
  Calls <- [s \in Sides |-> CallsOf(s)],
  Data  <- Arguments \cup Results,
  calls <- OpenCalls,
  base  <- "client"

\* For every message of the tables the fields arrive in their places and the
\* result comes back, however calls and callbacks nest.
ImplementsNestedCalls == Abstract!Spec
==============================================================================
