------------------------------ MODULE MessagesMC ------------------------------
(***************************************************************************)
(* Requests whose fields differ from each other and from their defaults.   *)
(***************************************************************************)
EXTENDS Messages, TLC

Distinct == [index |-> 1, value |-> 2, opt |-> 3, num_inputs |-> 4, num_outputs |-> 5]
OneBody  == {Distinct}

\* One message of each set of traits in its table, and each message that is a
\* type: two opcodes of a table with the same traits travel alike.
EachKind ==
  GeneralTypes \cup
  {CHOOSE op \in ops : TRUE : ops \in
     {{o \in table : Traits[o] = traits} : table \in {EffectOpcodes, MasterOpcodes},
        traits \in {Traits[o] : o \in DOMAIN Traits}} \ {{}}}

\* An opcode in a comment of each table.
OutsideTheTables == {"effEditOpen", "effSetChunk", "audioMasterUpdateDisplay"}
==============================================================================
