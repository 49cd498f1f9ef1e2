-------------------------- MODULE HandlerPairUnwind --------------------------
(***************************************************************************)
(* A handler pair whose host catches exceptions.  In a callback the host   *)
(* makes a call that throws before it is sent (an opcode that is not in    *)
(* the table, an unsupported event), or throws by itself.  The exception   *)
(* leaves process_message and send_message without their shm_pop, and      *)
(* their calls without an answer; the host's own code, which made the      *)
(* outermost call, catches it and goes on, while the server still waits    *)
(* for the callback to return.                                             *)
(*                                                                         *)
(* An exception on the server's side ends the handler's thread and is      *)
(* HandlerPair's failure; one thrown by a call at the host's own level     *)
(* changes nothing.  A host that catches in the middle, in a callback that *)
(* itself lies between two open calls of the plugin, is not modelled: its  *)
(* return answers the wrong one of them, and the offsets part.             *)
(***************************************************************************)
EXTENDS HandlerPair

CONSTANT MaxUnwinds     \* bound on the number of exceptions

ASSUME UnwindsAssumption == MaxUnwinds \in Nat

VARIABLES unwinds,      \* exceptions so far
          left          \* the frames they have left; nothing depends on them

unwindVars == <<vars, unwinds, left>>

\* All the client's frames are left at once, with the server waiting.
Unwinding ==
  /\ ~primary /\ unwinds < MaxUnwinds /\ Called("client")
  /\ stack' = [stack EXCEPT !["client"] = <<>>]
  /\ left' = left \o stack["client"]
  /\ unwinds' = unwinds + 1
  /\ got' = {}

\* A guard object that pops what its frame has pushed.
Unwind_bug ==
  /\ Unwinding
  /\ ShmPop("client", offset["client"] - stack["client"][1].off)
  /\ UNCHANGED <<primary, created, pc, health, pipe, mem>>
Unwind ==
  /\ Unwinding
  /\ UNCHANGED <<primary, created, pc, health, pipe, offset, mem>>

MaxFrames == MaxDepth * (MaxUnwinds + 1)

UnwindInit == Init /\ unwinds = 0 /\ left = <<>>
UnwindNext == (Next /\ UNCHANGED <<unwinds, left>>) \/ Unwind
UnwindSpec == UnwindInit /\ [][UnwindNext]_unwindVars

\* A blocked read wakes up, and host and plugin code returns: code that is
\* called again and again may not postpone its own result and return for ever.
\* Nothing obliges the host to call, to close or to throw.
FairUnwindSpec ==
  /\ UnwindSpec
  /\ \A s \in Sides :
       /\ WF_unwindVars((Receive(s) \/ Return(s) \/ ReadEof(s)) /\ UNCHANGED <<unwinds, left>>)
       /\ \A n \in 1 .. MaxFrames :
            SF_unwindVars(/\ Len(stack[s]) = n /\ UNCHANGED <<unwinds, left>>
                          /\ Reply(s) \/ \E d \in Data : Decide(s, d))
  /\ WF_unwindVars((ReturnEffect \/ WaitForEffect \/ Stop) /\ UNCHANGED <<unwinds, left>>)

------------------------------------------------------------------------------
\* A request is mapped where it was written, although the client has lost
\* track of the calls that the server still has open: the offset it has never
\* popped keeps its place above their arguments.
RequestsMeet ==
  \A s \in Sides :
    Up(s) /\ pipe[s] # <<>> /\ Incoming(s).type = "request" => offset[s] = Top(Peer(s)).off

\* A call the host or the plugin makes comes back, at every depth, or the
\* caller learns that the other program is gone; it never waits for ever.  Only
\* a callback that the host has left by an exception stays open, as long as the
\* pair does.
CallsComplete ==
  \A s \in Sides, n \in 1 .. MaxDepth :
    (Len(stack[s]) >= n /\ stack[s][n].role = "call") ~>
      \/ Len(stack[s]) < n \/ stack[s][n].role = "proc" \/ Gone(s)
      \/ s = "server" /\ unwinds > 0

\* When the client closes or its process dies, the server's end goes too: no
\* handler thread is left blocked on a pipe.  After an exception effClose does
\* it as well: the server takes its return for the answer of the callback.
ServerFollows == Gone("client") ~> Gone("server")
==============================================================================
