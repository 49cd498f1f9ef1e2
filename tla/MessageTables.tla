---------------------------- MODULE MessageTables ----------------------------
(***************************************************************************)
(* Which messages the two dispatchers know, which fields of a request      *)
(* travel with each, what its pointer points to, and what comes back.  In  *)
(* the code a message is a type whose base classes are its traits.  An     *)
(* opcode goes by the name the VST SDK gives it; opcodes that stand in a   *)
(* comment of the tables are unknown to both programs.                     *)
(*                                                                         *)
(* Source: common/msg/{base,type,dispatchers}.hpp and                      *)
(* common/msg/{effect,master,general}/messages.hpp.                        *)
(***************************************************************************)
EXTENDS Naturals

CONSTANTS Strings,   \* lengths of the strings the two programs pass in
          Chunks,    \* lengths of the chunks a plugin returns
          EventLists \* the lists of events they pass in

\* Sizes of the VST SDK.
ProgNameLen    == 24
ParamStrLen    == 8
EffectNameLen  == 32
VendorStrLen   == 64
ErrorTextLen   == 256      \* "256 chars seems about right"
PinProperties  == 128
ParamProperties == 152

Row(ops, traits, ptr) == [ops |-> ops, traits |-> traits, ptr |-> ptr]

\* What ptr of a message may be: the payloads of ShmLayout it stands for.
NoPtr      == {[kind |-> "none"]}
StrIn      == {[kind |-> "str_null"]} \cup {[kind |-> "str_in", size |-> n + 1] : n \in Strings}
StrOut(n)  == {[kind |-> "str_out", size |-> n]}
InOut(n)   == {[kind |-> "inout", size |-> n, align |-> 4]}
RectPtr    == {[kind |-> "rect", present |-> b] : b \in BOOLEAN}
ChunkPtr   == {[kind |-> "chunk", size |-> n] : n \in Chunks}
EventsPtr  == {[kind |-> "events", events |-> e] : e \in EventLists}

\* MSG_EFFECT_MESSAGES.
EffectTable == {
  Row({"effOpen", "effEditClose", "effEditIdle", "effBeginSetProgram", "effEndSetProgram",
       "effStartProcess", "effStopProcess"}, {}, NoPtr),
  Row({"effSetProgram", "effSetBlockSize", "effMainsChanged", "effSetBypass",
       "effSetEditKnobMode", "effSetTotalSampleToProcess", "effSetProcessPrecision"},
      {"value"}, NoPtr),
  Row({"effSetSampleRate"}, {"opt"}, NoPtr),
  Row({"effSetPanLaw"}, {"value", "opt"}, NoPtr),
  Row({"effClose", "effGetProgram", "effGetVu", "effIdentify", "effGetNumProgramCategories",
       "effGetPlugCategory", "effGetCurrentPosition", "effGetVendorVersion", "effGetTailSize",
       "effIdle", "effGetVstVersion", "effGetNumMidiInputChannels",
       "effGetNumMidiOutputChannels"}, {"plain_ret"}, NoPtr),
  Row({"effCanBeAutomated", "effHasMidiProgramsChanged"}, {"index", "plain_ret"}, NoPtr),
  Row({"effConnectInput", "effConnectOutput"}, {"index", "value", "plain_ret"}, NoPtr),
  Row({"effEditKeyDown", "effEditKeyUp"}, {"index", "value", "opt", "plain_ret"}, NoPtr),
  Row({"effSetProgramName"}, {}, StrIn),
  Row({"effCanDo"}, {"plain_ret"}, StrIn),
  Row({"effString2Parameter"}, {"index", "plain_ret"}, StrIn),
  Row({"effGetProgramName"}, {}, StrOut(ProgNameLen)),
  Row({"effGetProgramNameIndexed"}, {"index", "plain_ret"}, StrOut(ProgNameLen)),
  Row({"effGetParamLabel", "effGetParamDisplay", "effGetParamName"}, {"index"},
      StrOut(ParamStrLen)),
  Row({"effGetEffectName"}, {}, StrOut(EffectNameLen)),
  Row({"effGetErrorText"}, {}, StrOut(ErrorTextLen)),
  Row({"effGetVendorString", "effGetProductString"}, {}, StrOut(VendorStrLen)),
  Row({"effShellGetNextPlugin"}, {"plain_ret"}, StrOut(VendorStrLen)),
  Row({"effGetInputProperties", "effGetOutputProperties"}, {"index", "plain_ret"},
      InOut(PinProperties)),
  Row({"effGetParameterProperties"}, {"index", "plain_ret"}, InOut(ParamProperties)),
  Row({"effEditGetRect"}, {"plain_ret"}, RectPtr),
  Row({"effGetChunk"}, {"index", "plain_ret"}, ChunkPtr),
  Row({"effProcessEvents"}, {"plain_ret"}, EventsPtr)}

\* MSG_MASTER_MESSAGES.
MasterTable == {
  Row({"audioMasterIdle"}, {}, NoPtr),
  Row({"audioMasterAutomate"}, {"index", "opt"}, NoPtr),
  Row({"audioMasterWantMidi"}, {"value"}, NoPtr),
  Row({"audioMasterSetOutputSampleRate"}, {"opt"}, NoPtr),
  Row({"audioMasterVersion", "audioMasterCurrentId", "audioMasterGetNumAutomatableParameters",
       "audioMasterGetParameterQuantization", "audioMasterIOChanged", "audioMasterNeedIdle",
       "audioMasterGetSampleRate", "audioMasterGetBlockSize", "audioMasterGetInputLatency",
       "audioMasterGetOutputLatency", "audioMasterWillReplaceOrAccumulate",
       "audioMasterGetCurrentProcessLevel", "audioMasterGetAutomationState",
       "audioMasterOfflineGetCurrentPass", "audioMasterOfflineGetCurrentMetaPass",
       "audioMasterGetVendorVersion", "audioMasterGetLanguage"}, {"plain_ret"}, NoPtr),
  Row({"audioMasterTempoAt"}, {"value", "plain_ret"}, NoPtr),
  Row({"audioMasterSizeWindow"}, {"index", "value", "plain_ret"}, NoPtr),
  Row({"audioMasterBeginEdit", "audioMasterEndEdit"}, {"index", "plain_ret"}, NoPtr),
  Row({"audioMasterGetTime"}, {"value", "payload_ret"}, NoPtr),
  Row({"audioMasterGetVendorString", "audioMasterGetProductString"}, {"plain_ret"},
      StrOut(VendorStrLen)),
  Row({"audioMasterCanDo"}, {"plain_ret"}, StrIn),
  Row({"audioMasterProcessEvents"}, {"plain_ret"}, EventsPtr)}

\* The messages that are a type of their own, with no opcode in them.
Process == {"index", "num_inputs", "num_outputs"}
GeneralTable == {
  Row({"get_parameter"}, {"index", "plain_ret"}, NoPtr),
  Row({"set_parameter"}, {"index", "opt"}, NoPtr),
  Row({"process", "process_replacing", "process_double_replacing"}, Process, NoPtr),
  Row({"instantiate_handler"}, {"index"}, NoPtr)}

OpcodesOf(table) == UNION {r.ops : r \in table}
EffectOpcodes == OpcodesOf(EffectTable)
MasterOpcodes == OpcodesOf(MasterTable)
GeneralTypes  == OpcodesOf(GeneralTable)

\* The opcodes of the two tables have different names, though some of their
\* numbers are the same.
TableRow(op) == CHOOSE r \in EffectTable \cup MasterTable \cup GeneralTable : op \in r.ops
Traits == [op \in EffectOpcodes \cup MasterOpcodes \cup GeneralTypes |-> TableRow(op).traits]
==============================================================================
