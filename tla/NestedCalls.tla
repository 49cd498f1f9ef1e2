----------------------------- MODULE NestedCalls -----------------------------
(***************************************************************************)
(* What a handler pair promises to the host and to the plugin: the two     *)
(* programs call each other as if they were one thread with one call       *)
(* stack.  One side runs at a time, calls nest and return in the reverse   *)
(* order, the callee sees the arguments that were passed and the caller    *)
(* the result that was returned.                                           *)
(*                                                                         *)
(* base is the side that runs when no call is open: the server until it    *)
(* has created the effect, then the client, then nobody.                   *)
(***************************************************************************)
EXTENDS Sequences, Naturals, SequencesExt

CONSTANTS Calls,    \* [Sides -> the messages that side sends]
          Data,     \* the values that arguments and results can have
          None      \* no value yet

VARIABLES calls,    \* the calls that are open, the outermost first
          base,
          got       \* what a call has just returned to its caller
vars == <<calls, base, got>>

Sides == {"client", "server"}
Peer(s) == IF s = "client" THEN "server" ELSE "client"

Call == [by : Sides, msg : UNION {Calls[s] : s \in Sides}, arg : Data,
         seen : SUBSET (Data \cup {None}), res : Data \cup {None},
         stage : {"sent", "running", "answered"}]

TypeOK ==
  /\ calls \in Seq(Call)
  /\ base \in Sides \cup {None}
  /\ got \subseteq Data \cup {None}

Top == Last(calls)

\* The side whose code runs; no side does while a message is on its way.
Runs(s) ==
  IF calls = <<>> THEN base = s ELSE Top.stage = "running" /\ Top.by = Peer(s)

Init ==
  /\ calls = <<>>
  /\ base \in Sides
  /\ got = {}

------------------------------------------------------------------------------
Send(s, m, d) ==
  /\ Runs(s)
  /\ calls' = Append(calls, [by |-> s, msg |-> m, arg |-> d, seen |-> {},
                             res |-> None, stage |-> "sent"])
  /\ got' = {}
  /\ UNCHANGED base

ReplaceTop(call) == calls' = Append(Front(calls), call)

\* The callee starts, with the argument and nothing else in its hands.
Accept ==
  /\ calls # <<>> /\ Top.stage = "sent"
  /\ ReplaceTop([Top EXCEPT !.seen = {Top.arg}, !.stage = "running"])
  /\ got' = {}
  /\ UNCHANGED base

Decide(d) ==
  /\ calls # <<>> /\ Top.stage = "running" /\ Top.res = None
  /\ ReplaceTop([Top EXCEPT !.res = d])
  /\ got' = {}
  /\ UNCHANGED base

Answer ==
  /\ calls # <<>> /\ Top.stage = "running" /\ Top.res # None
  /\ ReplaceTop([Top EXCEPT !.seen = {}, !.stage = "answered"])
  /\ got' = {}
  /\ UNCHANGED base

\* The caller goes on, with the result and nothing else in its hands.
Deliver ==
  /\ calls # <<>> /\ Top.stage = "answered"
  /\ calls' = Front(calls)
  /\ got' = {Top.res}
  /\ UNCHANGED base

Open ==
  /\ calls = <<>> /\ base = "server"
  /\ base' = "client"
  /\ UNCHANGED <<calls, got>>

Close ==
  /\ calls = <<>> /\ base = "client"
  /\ base' = None
  /\ UNCHANGED <<calls, got>>

Next ==
  \/ \E s \in Sides : \E m \in Calls[s], d \in Data : Send(s, m, d)
  \/ Accept
  \/ \E d \in Data : Decide(d)
  \/ Answer
  \/ Deliver
  \/ Open
  \/ Close

Spec == Init /\ [][Next]_vars
==============================================================================
