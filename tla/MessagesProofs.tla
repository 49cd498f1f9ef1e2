---------------------------- MODULE MessagesProofs ----------------------------
(***************************************************************************)
(* The bytes of the pipes, for every message of the tables, all arguments  *)
(* and results, and any depth: what is read of a message is what was       *)
(* written, to its last byte, and the function that is called is the one   *)
(* that was meant.                                                         *)
(***************************************************************************)
EXTENDS Messages, ShmLayoutProofs

PipeField == {"type", "opcode", "index", "value", "opt", "num_inputs", "num_outputs",
              "response", "present", "time_info"}

------------------------------------------------------------------------------
(* Writing and reading the fields of a message *)

LEMMA Widths ==
  ASSUME NEW op, NEW f
  PROVE  /\ Width(op, f) \in {1, 4, 8, 88}
         /\ Width(op, "type") = 4 /\ Width(op, "opcode") = 4
BY DEF Width, TimeInfoSize

LEMMA LayoutSteps ==
  ASSUME NEW op, NEW fields \in Seq(PipeField)
  PROVE  LET steps == Layout(op, fields)
         IN  /\ steps \in Seq(AnyStep)
             /\ Len(steps) = Len(fields) /\ Len(fields) \in Nat
             /\ DOMAIN steps = DOMAIN fields /\ DOMAIN fields = 1 .. Len(fields)
             /\ \A k \in 1 .. Len(fields) : /\ steps[k] = Write(fields[k], Width(op, fields[k]))
                                            /\ steps[k].size = Width(op, fields[k])
                                            /\ fields[k] \in PipeField
<1> DEFINE n == Len(fields)
           steps == Layout(op, fields)
<1>1. n \in Nat /\ DOMAIN fields = 1 .. n /\ \A k \in 1 .. n : fields[k] \in PipeField
  BY LenProperties, ElementOfSeq
<1>2. \A f \in PipeField : Write(f, Width(op, f)) \in AnyStep /\ Write(f, Width(op, f)).size = Width(op, f)
  <2> SUFFICES ASSUME NEW f \in PipeField
               PROVE  Write(f, Width(op, f)) \in AnyStep /\ Write(f, Width(op, f)).size = Width(op, f)
    OBVIOUS
  <2>1. Width(op, f) \in Nat /\ f \in FieldName
    BY Widths DEF PipeField, FieldName
  <2> QED
    BY <2>1 DEF Write, Step, AnyStep
<1>3. steps = [k \in 1 .. n |-> Write(fields[k], Width(op, fields[k]))]
  BY <1>1 DEF Layout
<1>4. \A k \in 1 .. n : steps[k] = Write(fields[k], Width(op, fields[k])) /\ steps[k] \in AnyStep
  <2> HIDE DEF steps
  <2> QED
    BY <1>1, <1>2, <1>3
<1>5. steps \in Seq(AnyStep) /\ Len(steps) = n
  <2> HIDE DEF steps
  <2>1. steps \in [1 .. n -> AnyStep]
    BY <1>3, <1>4
  <2> QED
    BY <1>1, <2>1, SeqDef, LenProperties
<1> QED
  BY <1>1, <1>2, <1>3, <1>4, <1>5

\* Two messages that begin with the same fields have them at the same places.
LEMMA SamePlaces ==
  ASSUME NEW op, NEW other, NEW fields \in Seq(PipeField), NEW first \in Seq(PipeField),
         Len(first) <= Len(fields),
         \A k \in 1 .. Len(first) :
           first[k] = fields[k] /\ Width(other, first[k]) = Width(op, fields[k])
  PROVE  \A k \in 1 .. Len(first) :
           FieldAt(Layout(other, first), 0, k) = FieldAt(Layout(op, fields), 0, k)
<1> DEFINE s == Layout(op, fields)
           t == Layout(other, first)
           n == Len(first)
<1>1. /\ s \in Seq(AnyStep) /\ Len(s) = Len(fields) /\ Len(fields) \in Nat
      /\ \A k \in 1 .. Len(fields) : s[k] = Write(fields[k], Width(op, fields[k]))
  BY LayoutSteps
<1>2. /\ t \in Seq(AnyStep) /\ Len(t) = n /\ n \in Nat
      /\ \A k \in 1 .. n : t[k] = Write(first[k], Width(other, first[k]))
  BY LayoutSteps
<1>3. \A k \in 1 .. n : t[k] = s[k]
  BY <1>1, <1>2
<1> HIDE DEF s, t
<1> DEFINE f == Cursor(s, 0)
           g == Cursor(t, 0)
<1>4. Runs(f, s, 0, Len(fields)) /\ Runs(g, t, 0, n)
  BY <1>1, <1>2, CursorRuns
<1> HIDE DEF f, g
<1>5. Runs(f, t, 0, n)
  <2>1. 1 .. n \subseteq 1 .. Len(fields) /\ 0 .. n \subseteq 0 .. Len(fields)
    BY <1>1, <1>2
  <2>2. f[0] = 0 /\ \A k \in 0 .. n : f[k] \in Nat
    BY <1>4, <2>1 DEF Runs
  <2>3. \A k \in 1 .. n : f[k] = StartOf(t[k], f[k-1]) + t[k].size
    <3>1. \A k \in 1 .. n : f[k] = StartOf(s[k], f[k-1]) + s[k].size
      BY <1>4, <2>1 DEF Runs
    <3> QED
      BY <1>3, <3>1
  <2> QED
    BY <2>2, <2>3 DEF Runs
<1>6. \A k \in 0 .. n : f[k] = g[k]
  BY <1>2, <1>4, <1>5, RunsAlike
<1>7. ASSUME NEW k \in 1 .. n
      PROVE  FieldAt(t, 0, k) = FieldAt(s, 0, k)
  <2>1. f[k-1] = g[k-1] /\ t[k] = s[k]
    BY <1>2, <1>3, <1>6
  <2> QED
    BY <2>1 DEF FieldAt, f, g
<1> QED
  BY <1>7 DEF s, t

\* What is found at the place of a field is what was written for it, also by
\* a reader that only knows how the message begins.
LEMMA ValueFound ==
  ASSUME NEW op, NEW other, NEW fields \in Seq(PipeField), NEW first \in Seq(PipeField),
         Len(first) <= Len(fields),
         \A k \in 1 .. Len(first) :
           first[k] = fields[k] /\ Width(other, first[k]) = Width(op, fields[k]),
         NEW values, NEW k \in 1 .. Len(first)
  PROVE  ValueAt(Encode(op, fields, values), other, first, k) = values[first[k]]
<1> DEFINE s == Layout(op, fields)
           t == Layout(other, first)
           at(j) == FieldAt(s, 0, j)
           e(j) == [lo |-> at(j), hi |-> at(j) + s[j].size, val |-> values[fields[j]]]
           bytes == {e(j) : j \in DOMAIN s}
           found == {x \in bytes : x.lo = FieldAt(t, 0, k) /\ x.hi = x.lo + t[k].size}
<1>1. /\ s \in Seq(AnyStep) /\ Len(s) = Len(fields) /\ Len(fields) \in Nat
      /\ DOMAIN s = 1 .. Len(fields)
      /\ \A j \in 1 .. Len(fields) : s[j].size = Width(op, fields[j])
  BY LayoutSteps
<1>2. Len(first) \in Nat /\ t[k].size = Width(other, first[k])
  BY LayoutSteps
<1>3. k \in 1 .. Len(fields) /\ t[k].size = s[k].size /\ fields[k] = first[k]
  BY <1>1, <1>2
<1>4. FieldAt(t, 0, k) = at(k)
  BY SamePlaces
<1>5. /\ \A j \in 1 .. Len(fields) : at(j) \in Nat
      /\ \A i, j \in 1 .. Len(fields) : i < j => at(i) + s[i].size <= at(j)
  <2> HIDE DEF s
  <2>1. 0 \in Nat
    OBVIOUS
  <2> QED
    BY <1>1, <2>1, Ends
<1>6. \A j \in 1 .. Len(fields) : s[j].size \in Nat /\ s[j].size > 0
  <2> SUFFICES ASSUME NEW j \in 1 .. Len(fields)
               PROVE  s[j].size \in Nat /\ s[j].size > 0
    OBVIOUS
  <2>1. Width(op, fields[j]) \in {1, 4, 8, 88}
    BY Widths
  <2> QED
    BY <1>1, <2>1
<1>7. \A j \in 1 .. Len(fields) : at(j) = at(k) => j = k
  <2> HIDE DEF at, s
  <2>1. ASSUME NEW j \in 1 .. Len(fields), at(j) = at(k), j # k
        PROVE  FALSE
    <3>1. /\ at(j) \in Nat /\ at(k) \in Nat
          /\ s[j].size \in Nat /\ s[j].size > 0 /\ s[k].size \in Nat /\ s[k].size > 0
      BY <1>3, <1>5, <1>6
    <3>2. j < k \/ k < j
      BY <1>1, <1>3, <2>1
    <3>3. at(j) + s[j].size <= at(k) \/ at(k) + s[k].size <= at(j)
      BY <1>3, <1>5, <3>2
    <3> QED
      BY <2>1, <3>1, <3>3
  <2> QED
    BY <2>1
<1>8. \A j : e(j).lo = at(j) /\ e(j).hi = at(j) + s[j].size /\ e(j).val = values[fields[j]]
  OBVIOUS
<1>9. found = {e(k)}
  <2> HIDE DEF e, at, s, t
  <2>1. e(k) \in found
    BY <1>1, <1>3, <1>4, <1>8
  <2>2. ASSUME NEW x \in found
        PROVE  x = e(k)
    <3>1. PICK j \in 1 .. Len(fields) : x = e(j)
      BY <1>1
    <3>2. at(j) = at(k)
      BY <1>4, <1>8, <3>1
    <3> QED
      BY <1>7, <3>1, <3>2
  <2> QED
    BY <2>1, <2>2
<1>10. Encode(op, fields, values).bytes = bytes
  BY DEF Encode
<1>11. ValueAt(Encode(op, fields, values), other, first, k)
         = IF found = {} THEN None ELSE (CHOOSE x \in found : TRUE).val
  <2> DEFINE p == Encode(op, fields, values)
             Of(B) == {x \in B : x.lo = FieldAt(t, 0, k) /\ x.hi = x.lo + t[k].size}
  <2>1. p.bytes = bytes
    BY <1>10
  <2> HIDE DEF p
  <2>2. ValueAt(p, other, first, k)
          = IF Of(p.bytes) = {} THEN None ELSE (CHOOSE x \in Of(p.bytes) : TRUE).val
    BY DEF ValueAt
  <2>3. Of(p.bytes) = found
    BY <2>1
  <2> HIDE DEF Of, found
  <2> QED
    BY <2>2, <2>3 DEF p
<1>12. (CHOOSE x \in found : TRUE) = e(k) /\ found # {}
  <2> HIDE DEF found, e
  <2> QED
    BY <1>9
<1> HIDE DEF found, e
<1> QED
  BY <1>3, <1>8, <1>11, <1>12

LEMMA FoundByName ==
  ASSUME NEW op, NEW other, NEW fields \in Seq(PipeField), NEW first \in Seq(PipeField),
         Len(first) <= Len(fields),
         \A k \in 1 .. Len(first) :
           first[k] = fields[k] /\ Width(other, first[k]) = Width(op, fields[k]),
         NEW values, NEW f, Has(first, f)
  PROVE  Find(Encode(op, fields, values), other, first, f) = values[f]
<1> DEFINE k == CHOOSE j \in DOMAIN first : first[j] = f
<1>1. k \in 1 .. Len(first) /\ first[k] = f
  <2>1. DOMAIN first = 1 .. Len(first)
    BY LenProperties
  <2>2. \E j \in DOMAIN first : first[j] = f
    BY DEF Has
  <2> QED
    BY <2>1, <2>2
<1> HIDE DEF k
<1>2. ValueAt(Encode(op, fields, values), other, first, k) = values[first[k]]
  BY <1>1, ValueFound
<1> QED
  BY <1>1, <1>2 DEF Find, k

------------------------------------------------------------------------------
(* The tables *)

LEMMA GeneralNames ==
  GeneralTypes = {"get_parameter", "set_parameter", "process", "process_replacing",
                  "process_double_replacing", "instantiate_handler"}
BY DEF GeneralTypes, OpcodesOf, GeneralTable, Row

\* No opcode of the host's has the name of a message that is a type.
LEMMA MasterApart ==
  MasterOpcodes \cap GeneralTypes = {}
<1>1. \A r \in MasterTable : r.ops \cap GeneralTypes = {}
  BY GeneralNames DEF MasterTable, Row
<1> QED
  BY <1>1 DEF MasterOpcodes, OpcodesOf

\* Any message one side sends, the other understands.
LEMMA Tables ==
  ASSUME NEW s \in Sides, NEW op \in CallsOf(s)
  PROVE  /\ op \in DOMAIN Traits
         /\ op \in IF TypeOf(op) = "dispatcher" THEN DispatcherReceived(Peer(s))
                                                ELSE TypesReceived(Peer(s))
         /\ General(op) => op # "dispatcher" /\ op # "return_"
<1>1. "dispatcher" \notin GeneralTypes /\ "return_" \notin GeneralTypes
  BY GeneralNames
<1>2. op \in EffectOpcodes \cup MasterOpcodes \cup GeneralTypes
  BY DEF CallsOf, DispatcherSent
<1>3. DOMAIN Traits = EffectOpcodes \cup MasterOpcodes \cup GeneralTypes
  BY DEF Traits
<1>4. op \in IF TypeOf(op) = "dispatcher" THEN DispatcherReceived(Peer(s))
                                          ELSE TypesReceived(Peer(s))
  <2>1. CASE s = "client"
    <3>1. op \in EffectOpcodes \cup GeneralTypes
      BY <2>1 DEF CallsOf, DispatcherSent
    <3> QED
      BY <1>1, <2>1, <3>1 DEF Peer, TypeOf, General, DispatcherReceived, TypesReceived
  <2>2. CASE s = "server"
    <3>1. op \in MasterOpcodes
      BY <2>2 DEF CallsOf, DispatcherSent
    <3>2. TypeOf(op) = "dispatcher"
      BY <3>1, MasterApart DEF TypeOf, General
    <3> QED
      BY <2>2, <3>1, <3>2 DEF Peer, DispatcherReceived
  <2> QED
    BY <2>1, <2>2 DEF Sides
<1> QED
  BY <1>1, <1>2, <1>3, <1>4 DEF General

------------------------------------------------------------------------------
(* Requests and answers *)

StartsWith(fields, first) ==
  /\ fields \in Seq(PipeField) /\ first \in Seq(PipeField)
  /\ Len(first) <= Len(fields)
  /\ \A k \in 1 .. Len(first) : first[k] = fields[k]

LEMMA StartsItself ==
  ASSUME NEW fields \in Seq(PipeField)
  PROVE  StartsWith(fields, fields)
BY LenProperties DEF StartsWith

LEMMA StartsLonger ==
  ASSUME NEW fields, NEW first, StartsWith(fields, first), NEW more \in Seq(PipeField)
  PROVE  StartsWith(fields \o more, first)
<1>1. /\ fields \o more \in Seq(PipeField)
      /\ Len(fields \o more) = Len(fields) + Len(more)
      /\ Len(fields) \in Nat /\ Len(more) \in Nat /\ Len(first) \in Nat
      /\ \A k \in 1 .. Len(fields) : (fields \o more)[k] = fields[k]
  BY ConcatProperties, LenProperties DEF StartsWith
<1> QED
  BY <1>1 DEF StartsWith

LEMMA FieldTypes ==
  ASSUME NEW op
  PROVE  /\ \A f \in BodyFields : Field(op, f) \in Seq(PipeField)
         /\ Header(op) \in Seq(PipeField) /\ AnswerHeader(op) \in Seq(PipeField)
<1>1. \A f \in PipeField : <<f>> \in Seq(PipeField) /\ <<>> \in Seq(PipeField)
  OBVIOUS
<1>2. BodyFields \subseteq PipeField
  BY DEF BodyFields, PipeField
<1>3. <<"type">> \in Seq(PipeField) /\ <<"type", "opcode">> \in Seq(PipeField)
      /\ <<"type", "response">> \in Seq(PipeField)
  BY DEF PipeField
<1> QED
  BY <1>1, <1>2, <1>3 DEF Field, Header, AnswerHeader

LEMMA RequestFields ==
  ASSUME NEW op
  PROVE  StartsWith(FieldsWritten(op), Header(op)) /\ FieldsRead(op) = FieldsWritten(op)
<1>1. /\ Header(op) \in Seq(PipeField)
      /\ Field(op, "index") \in Seq(PipeField) /\ Field(op, "value") \in Seq(PipeField)
      /\ Field(op, "opt") \in Seq(PipeField) /\ Field(op, "num_inputs") \in Seq(PipeField)
      /\ Field(op, "num_outputs") \in Seq(PipeField)
  BY FieldTypes DEF BodyFields
<1>2. StartsWith(Header(op), Header(op))
  BY <1>1, StartsItself
<1>3. StartsWith(Header(op) \o Field(op, "index"), Header(op))
  BY <1>1, <1>2, StartsLonger
<1>4. StartsWith(Header(op) \o Field(op, "index") \o Field(op, "value"), Header(op))
  BY <1>1, <1>3, StartsLonger
<1>5. StartsWith(Header(op) \o Field(op, "index") \o Field(op, "value") \o Field(op, "opt"), Header(op))
  BY <1>1, <1>4, StartsLonger
<1>6. StartsWith(Header(op) \o Field(op, "index") \o Field(op, "value") \o Field(op, "opt")
                   \o Field(op, "num_inputs"), Header(op))
  BY <1>1, <1>5, StartsLonger
<1>7. StartsWith(FieldsWritten(op), Header(op))
  BY <1>1, <1>6, StartsLonger DEF FieldsWritten
<1> QED
  BY <1>7 DEF FieldsWritten, FieldsRead

\* The values of a request's fields; Send writes them.
RequestValues(op, body) ==
  [f \in BodyFields \cup {"type", "opcode"} |->
     CASE f = "type" -> TypeOf(op) [] f = "opcode" -> op [] OTHER -> body[f]]
Request(op, body) == Encode(op, FieldsWritten(op), RequestValues(op, body))

\* Of an answer's; Reply does.
AnswerValues(res) ==
  [type |-> "return_", response |-> res, present |-> res # Null, time_info |-> res]
Answer(op, res) == Encode(op, AnswerWritten(op, res), AnswerValues(res))

LEMMA TypeFound ==
  ASSUME NEW op, NEW fields, StartsWith(fields, <<"type">>), NEW values
  PROVE  TypeIn(Encode(op, fields, values)) = values["type"]
<1> DEFINE first == <<"type">>
           none == ""
<1>1. /\ first \in Seq(PipeField) /\ Len(first) = 1 /\ 1 .. 1 = {1}
      /\ 1 \in DOMAIN first /\ first[1] = "type"
  BY DEF PipeField
<1>2. StartsWith(fields, first)
  OBVIOUS
<1>3. Find(Encode(op, fields, values), "", <<"type">>, "type")
        = Find(Encode(op, fields, values), none, first, "type")
  OBVIOUS
<1> HIDE DEF first, none
<1>4. Has(first, "type")
  BY <1>1 DEF Has
<1>5. fields \in Seq(PipeField) /\ Len(first) <= Len(fields)
  BY <1>2 DEF StartsWith
<1>6. \A k \in 1 .. Len(first) : first[k] = fields[k] /\ Width(none, first[k]) = Width(op, fields[k])
  <2>1. ASSUME NEW k \in 1 .. Len(first)
        PROVE  first[k] = fields[k] /\ first[k] = "type"
    BY <1>1, <1>2 DEF StartsWith
  <2> QED
    BY <2>1, Widths
<1>7. Find(Encode(op, fields, values), none, first, "type") = values["type"]
  BY <1>1, <1>4, <1>5, <1>6, FoundByName
<1> QED
  BY <1>3, <1>7 DEF TypeIn

LEMMA OpcodeFound ==
  ASSUME NEW op, NEW fields, StartsWith(fields, <<"type", "opcode">>), NEW values
  PROVE  Find(Encode(op, fields, values), "", <<"type", "opcode">>, "opcode") = values["opcode"]
<1> DEFINE first == <<"type", "opcode">>
           none == ""
<1>1. /\ first \in Seq(PipeField) /\ Len(first) = 2 /\ 1 .. 2 = {1, 2}
      /\ 2 \in DOMAIN first /\ first[1] = "type" /\ first[2] = "opcode"
  BY DEF PipeField
<1>2. StartsWith(fields, first)
  OBVIOUS
<1>3. Find(Encode(op, fields, values), "", <<"type", "opcode">>, "opcode")
        = Find(Encode(op, fields, values), none, first, "opcode")
  OBVIOUS
<1> HIDE DEF first, none
<1>4. Has(first, "opcode")
  BY <1>1 DEF Has
<1>5. fields \in Seq(PipeField) /\ Len(first) <= Len(fields)
  BY <1>2 DEF StartsWith
<1>6. \A k \in 1 .. Len(first) : first[k] = fields[k] /\ Width(none, first[k]) = Width(op, fields[k])
  <2>1. ASSUME NEW k \in 1 .. Len(first)
        PROVE  first[k] = fields[k] /\ Width(none, first[k]) = Width(op, fields[k])
    <3>1. k = 1 \/ k = 2
      BY <1>1
    <3>2. first[k] = fields[k]
      BY <1>2 DEF StartsWith
    <3>3. first[k] = "type" \/ first[k] = "opcode"
      BY <1>1, <3>1
    <3> QED
      BY <3>2, <3>3, Widths
  <2> QED
    BY <2>1
<1>7. Find(Encode(op, fields, values), none, first, "opcode") = values["opcode"]
  BY <1>1, <1>4, <1>5, <1>6, FoundByName
<1> QED
  BY <1>3, <1>7

LEMMA StartsShorter ==
  ASSUME NEW fields, StartsWith(fields, <<"type", "opcode">>) \/ StartsWith(fields, <<"type", "response">>)
  PROVE  StartsWith(fields, <<"type">>)
BY DEF StartsWith, PipeField

LEMMA LenOf ==
  ASSUME NEW op, NEW fields, NEW values
  PROVE  Encode(op, fields, values).len = Total(Layout(op, fields), 0)
BY DEF Encode

\* The callee finds what the caller meant, every field its message has, and
\* its end.
LEMMA RequestRead ==
  ASSUME NEW op, General(op) => op # "dispatcher", NEW body
  PROVE  LET packet == Request(op, body)
         IN  /\ TypeIn(packet) = TypeOf(op)
             /\ OpcodeIn(packet) = op
             /\ \A f \in BodyFields : Has(FieldsRead(op), f) =>
                  Find(packet, op, FieldsRead(op), f) = body[f]
             /\ packet.len = Total(Layout(op, FieldsRead(op)), 0)
<1> DEFINE fields == FieldsWritten(op)
           values == RequestValues(op, body)
           packet == Request(op, body)
<1>1. StartsWith(fields, Header(op)) /\ FieldsRead(op) = fields
  BY RequestFields
<1>2. /\ values["type"] = TypeOf(op) /\ values["opcode"] = op
      /\ \A f \in BodyFields : values[f] = body[f]
  BY DEF RequestValues, BodyFields
<1>3. StartsWith(fields, <<"type">>)
  BY <1>1, StartsShorter DEF Header
<1> HIDE DEF fields, values
<1>4. TypeIn(packet) = TypeOf(op)
  BY <1>2, <1>3, TypeFound DEF Request, fields, values
<1>5. OpcodeIn(packet) = op
  <2>1. CASE General(op)
    BY <1>4, <2>1 DEF OpcodeIn, TypeOf
  <2>2. CASE ~General(op)
    <3>1. StartsWith(fields, <<"type", "opcode">>)
      BY <1>1, <2>2 DEF Header
    <3>2. Find(packet, "", <<"type", "opcode">>, "opcode") = op
      BY <1>2, <3>1, OpcodeFound DEF Request, fields, values
    <3> QED
      BY <1>4, <2>2, <3>2 DEF OpcodeIn, TypeOf
  <2> QED
    BY <2>1, <2>2
<1>6. fields \in Seq(PipeField) /\ Len(fields) <= Len(fields)
  <2>1. fields \in Seq(PipeField)
    BY <1>1 DEF StartsWith
  <2> QED
    BY <2>1, LenProperties
<1>7. ASSUME NEW f \in BodyFields, Has(fields, f)
      PROVE  Find(packet, op, fields, f) = body[f]
  <2>1. Find(Encode(op, fields, values), op, fields, f) = values[f]
    BY <1>6, <1>7, FoundByName
  <2> QED
    BY <1>2, <2>1 DEF Request, fields, values
<1>8. packet.len = Total(Layout(op, fields), 0)
  BY LenOf DEF Request, fields, values
<1> QED
  BY <1>1, <1>4, <1>5, <1>7, <1>8

LEMMA StartsAfter ==
  ASSUME NEW head \in Seq(PipeField), NEW fields, NEW first, StartsWith(fields, first)
  PROVE  StartsWith(head \o fields, head \o first)
<1>1. /\ fields \in Seq(PipeField) /\ first \in Seq(PipeField)
      /\ Len(head) \in Nat /\ Len(fields) \in Nat /\ Len(first) \in Nat
      /\ Len(first) <= Len(fields)
      /\ \A k \in 1 .. Len(first) : first[k] = fields[k]
  BY LenProperties DEF StartsWith
<1>2. /\ head \o fields \in Seq(PipeField) /\ Len(head \o fields) = Len(head) + Len(fields)
      /\ \A k \in 1 .. Len(head) : (head \o fields)[k] = head[k]
      /\ \A k \in 1 .. Len(fields) : (head \o fields)[Len(head) + k] = fields[k]
  BY <1>1, ConcatProperties
<1>3. /\ head \o first \in Seq(PipeField) /\ Len(head \o first) = Len(head) + Len(first)
      /\ \A k \in 1 .. Len(head) : (head \o first)[k] = head[k]
      /\ \A k \in 1 .. Len(first) : (head \o first)[Len(head) + k] = first[k]
  BY <1>1, ConcatProperties
<1>4. ASSUME NEW k \in 1 .. Len(head) + Len(first)
      PROVE  (head \o first)[k] = (head \o fields)[k]
  <2>1. CASE k \in 1 .. Len(head)
    BY <1>2, <1>3, <2>1
  <2>2. CASE k \notin 1 .. Len(head)
    <3>1. PICK j \in 1 .. Len(first) : k = Len(head) + j
      <4>1. k - Len(head) \in 1 .. Len(first) /\ k = Len(head) + (k - Len(head))
        BY <1>1, <2>2
      <4> QED
        BY <4>1
    <3>2. j \in 1 .. Len(fields)
      BY <1>1
    <3> QED
      BY <1>1, <1>2, <1>3, <3>1, <3>2
  <2> QED
    BY <2>1, <2>2
<1> QED
  BY <1>1, <1>2, <1>3, <1>4 DEF StartsWith

LEMMA HasConcat ==
  ASSUME NEW head \in Seq(PipeField), NEW fields \in Seq(PipeField), NEW f
  PROVE  Has(head \o fields, f) <=> Has(head, f) \/ Has(fields, f)
<1>1. /\ Len(head) \in Nat /\ DOMAIN head = 1 .. Len(head)
      /\ Len(fields) \in Nat /\ DOMAIN fields = 1 .. Len(fields)
      /\ head \o fields \in Seq(PipeField)
      /\ DOMAIN (head \o fields) = 1 .. Len(head) + Len(fields)
      /\ \A k \in 1 .. Len(head) : (head \o fields)[k] = head[k]
      /\ \A k \in 1 .. Len(fields) : (head \o fields)[Len(head) + k] = fields[k]
  BY ConcatProperties, LenProperties
<1>2. ASSUME NEW k \in 1 .. Len(head), head[k] = f
      PROVE  Has(head \o fields, f)
  <2>1. k \in 1 .. Len(head) + Len(fields) /\ (head \o fields)[k] = f
    BY <1>1, <1>2
  <2> QED
    BY <1>1, <2>1 DEF Has
<1>3. ASSUME NEW k \in 1 .. Len(fields), fields[k] = f
      PROVE  Has(head \o fields, f)
  <2>1. Len(head) + k \in 1 .. Len(head) + Len(fields) /\ (head \o fields)[Len(head) + k] = f
    BY <1>1, <1>3
  <2> QED
    BY <1>1, <2>1 DEF Has
<1>4. ASSUME NEW k \in 1 .. Len(head) + Len(fields), (head \o fields)[k] = f
      PROVE  Has(head, f) \/ Has(fields, f)
  <2>1. CASE k \in 1 .. Len(head)
    BY <1>1, <1>4, <2>1 DEF Has
  <2>2. CASE k \notin 1 .. Len(head)
    <3>1. PICK j \in 1 .. Len(fields) : k = Len(head) + j
      <4>1. k - Len(head) \in 1 .. Len(fields) /\ k = Len(head) + (k - Len(head))
        BY <1>1, <2>2
      <4> QED
        BY <4>1
    <3>2. fields[j] = f
      BY <1>1, <1>4, <3>1
    <3> QED
      BY <1>1, <3>2 DEF Has
  <2> QED
    BY <2>1, <2>2
<1> QED
  BY <1>1, <1>2, <1>3, <1>4 DEF Has

LEMMA AnswerTails ==
  /\ StartsWith(<<"type">>, <<"type">>) /\ StartsWith(<<"type", "response">>, <<"type">>)
  /\ StartsWith(<<>>, <<>>) /\ StartsWith(<<"present">>, <<"present">>)
  /\ StartsWith(<<"present", "time_info">>, <<"present">>)
  /\ <<>> \in Seq(PipeField) /\ <<"present">> \in Seq(PipeField)
  /\ <<"present", "time_info">> \in Seq(PipeField)
  /\ Has(<<"present">>, "present") /\ Has(<<"present", "time_info">>, "time_info")
  /\ Has(<<"type", "response">>, "response")
  /\ ~Has(<<>>, "present") /\ ~Has(<<"type">>, "present") /\ ~Has(<<"type", "response">>, "present")
<1>1. /\ <<"type">> \in Seq(PipeField) /\ <<"type", "response">> \in Seq(PipeField)
      /\ <<>> \in Seq(PipeField) /\ <<"present">> \in Seq(PipeField)
      /\ <<"present", "time_info">> \in Seq(PipeField)
  BY DEF PipeField
<1>2. StartsWith(<<"type">>, <<"type">>)
  BY <1>1 DEF StartsWith
<1>3. StartsWith(<<"type", "response">>, <<"type">>)
  BY <1>1 DEF StartsWith
<1>4. StartsWith(<<>>, <<>>)
  BY <1>1 DEF StartsWith
<1>5. StartsWith(<<"present">>, <<"present">>)
  BY <1>1 DEF StartsWith
<1>6. StartsWith(<<"present", "time_info">>, <<"present">>)
  BY <1>1 DEF StartsWith
<1>7. Has(<<"present">>, "present")
  <2>1. 1 \in DOMAIN <<"present">> /\ <<"present">>[1] = "present"
    OBVIOUS
  <2> QED
    BY <2>1 DEF Has
<1>8. Has(<<"present", "time_info">>, "time_info")
  <2>1. 2 \in DOMAIN <<"present", "time_info">> /\ <<"present", "time_info">>[2] = "time_info"
    OBVIOUS
  <2> QED
    BY <2>1 DEF Has
<1>9. Has(<<"type", "response">>, "response")
  <2>1. 2 \in DOMAIN <<"type", "response">> /\ <<"type", "response">>[2] = "response"
    OBVIOUS
  <2> QED
    BY <2>1 DEF Has
<1>10. ~Has(<<>>, "present") /\ ~Has(<<"type">>, "present") /\ ~Has(<<"type", "response">>, "present")
  BY DEF Has
<1> QED
  BY <1>1, <1>2, <1>3, <1>4, <1>5, <1>6, <1>7, <1>8, <1>9, <1>10

\* What follows an answer's header.
AnswerTail(op, present) ==
  IF "payload_ret" \notin Traits[op] THEN <<>>
  ELSE IF present THEN <<"present", "time_info">> ELSE <<"present">>

LEMMA AnswerFields ==
  ASSUME NEW op, NEW res
  PROVE  /\ StartsWith(AnswerWritten(op, res), <<"type">>)
         /\ StartsWith(AnswerWritten(op, res), AnswerRead(op, FALSE))
         /\ AnswerWritten(op, res) = AnswerRead(op, res # Null)
         /\ "plain_ret" \in Traits[op] => Has(AnswerRead(op, FALSE), "response")
         /\ Has(AnswerRead(op, FALSE), "present") <=> "payload_ret" \in Traits[op]
         /\ "payload_ret" \in Traits[op] => Has(AnswerRead(op, TRUE), "time_info")
         /\ "payload_ret" \notin Traits[op] => AnswerRead(op, TRUE) = AnswerRead(op, FALSE)
<1> DEFINE head == AnswerHeader(op)
           tail(present) == AnswerTail(op, present)
<1>1. \A b : AnswerRead(op, b) = head \o tail(b)
  BY DEF AnswerRead, AnswerTail
<1>2. AnswerWritten(op, res) = head \o tail(res # Null)
  BY DEF AnswerWritten, AnswerTail
<1>3. /\ head \in Seq(PipeField)
      /\ StartsWith(head, <<"type">>) /\ ~Has(head, "present")
      /\ "plain_ret" \in Traits[op] => Has(head, "response")
  BY FieldTypes, AnswerTails DEF AnswerHeader
<1>4. \A b \in BOOLEAN : /\ tail(b) \in Seq(PipeField)
                         /\ StartsWith(tail(b), tail(FALSE))
  BY AnswerTails DEF AnswerTail
<1>5. /\ Has(tail(FALSE), "present") <=> "payload_ret" \in Traits[op]
      /\ "payload_ret" \in Traits[op] => Has(tail(TRUE), "time_info")
      /\ "payload_ret" \notin Traits[op] => tail(TRUE) = tail(FALSE)
  BY AnswerTails DEF AnswerTail
<1> HIDE DEF head, tail
<1> DEFINE b == res # Null
<1>6. b \in BOOLEAN /\ TRUE \in BOOLEAN /\ FALSE \in BOOLEAN
  OBVIOUS
<1> HIDE DEF b
<1>7. tail(b) \in Seq(PipeField) /\ tail(FALSE) \in Seq(PipeField) /\ tail(TRUE) \in Seq(PipeField)
  BY <1>4, <1>6
<1>8. StartsWith(head \o tail(b), <<"type">>)
  BY <1>3, <1>7, StartsLonger
<1>9. StartsWith(head \o tail(b), head \o tail(FALSE))
  BY <1>3, <1>4, <1>6, StartsAfter
<1>10. /\ "plain_ret" \in Traits[op] => Has(head \o tail(FALSE), "response")
       /\ Has(head \o tail(FALSE), "present") <=> "payload_ret" \in Traits[op]
  BY <1>3, <1>5, <1>7, HasConcat
<1>11. "payload_ret" \in Traits[op] => Has(head \o tail(TRUE), "time_info")
  BY <1>3, <1>5, <1>7, HasConcat
<1>12. AnswerWritten(op, res) = head \o tail(b)
  BY <1>2 DEF b
<1>13. AnswerRead(op, b) = AnswerWritten(op, res)
  BY <1>1, <1>12
<1> QED
  BY <1>1, <1>5, <1>8, <1>9, <1>10, <1>11, <1>12, <1>13 DEF b

LEMMA AnswerUnderstood ==
  ASSUME NEW op, NEW res \in Results
  PROVE  LET packet == Answer(op, res)
             present == /\ Has(AnswerRead(op, FALSE), "present")
                        /\ Find(packet, op, AnswerRead(op, FALSE), "present") = TRUE
         IN  /\ TypeIn(packet) = "return_"
             /\ Response(packet, op) = Sendable(op, res)
             /\ packet.len = Total(Layout(op, AnswerRead(op, present)), 0)
<1> DEFINE fields == AnswerWritten(op, res)
           first == AnswerRead(op, FALSE)
           values == AnswerValues(res)
           packet == Answer(op, res)
           present == Has(first, "present") /\ Find(packet, op, first, "present") = TRUE
<1>1. /\ StartsWith(fields, <<"type">>) /\ StartsWith(fields, first)
      /\ fields = AnswerRead(op, res # Null)
      /\ "plain_ret" \in Traits[op] => Has(first, "response")
      /\ Has(first, "present") <=> "payload_ret" \in Traits[op]
      /\ "payload_ret" \in Traits[op] => Has(AnswerRead(op, TRUE), "time_info")
      /\ "payload_ret" \notin Traits[op] => AnswerRead(op, TRUE) = first
  BY AnswerFields
<1>2. /\ values["type"] = "return_" /\ values["response"] = res
      /\ values["present"] = (res # Null) /\ values["time_info"] = res
  BY DEF AnswerValues
<1>3. packet = Encode(op, fields, values)
  BY DEF Answer
<1> HIDE DEF fields, first, values, packet
<1>4. TypeIn(packet) = "return_"
  BY <1>1, <1>2, <1>3, TypeFound
<1>5. /\ fields \in Seq(PipeField) /\ first \in Seq(PipeField)
      /\ Len(first) <= Len(fields) /\ Len(fields) <= Len(fields)
      /\ \A k \in 1 .. Len(first) : first[k] = fields[k] /\ Width(op, first[k]) = Width(op, fields[k])
  <2>1. /\ fields \in Seq(PipeField) /\ first \in Seq(PipeField) /\ Len(first) <= Len(fields)
        /\ \A k \in 1 .. Len(first) : first[k] = fields[k]
    BY <1>1 DEF StartsWith
  <2>2. Len(fields) \in Nat
    BY <2>1, LenProperties
  <2> QED
    BY <2>1, <2>2
<1>6. ASSUME NEW f, Has(first, f)
      PROVE  Find(packet, op, first, f) = values[f]
  BY <1>3, <1>5, <1>6, FoundByName
<1>7. ASSUME NEW f, Has(fields, f)
      PROVE  Find(packet, op, fields, f) = values[f]
  BY <1>3, <1>5, <1>7, FoundByName
<1>8. res # None
  BY NullAssumption
<1>9. Response(packet, op) = Sendable(op, res)
  <2>1. CASE "plain_ret" \in Traits[op]
    <3>1. Response(packet, op) = Find(packet, op, first, "response")
      BY <2>1 DEF Response, first
    <3>2. Sendable(op, res) = res
      BY <2>1 DEF Sendable
    <3> QED
      BY <1>1, <1>2, <1>6, <2>1, <3>1, <3>2
  <2>2. CASE "plain_ret" \notin Traits[op] /\ "payload_ret" \notin Traits[op]
    BY <1>8, <2>2 DEF Response, Sendable
  <2>3. CASE "plain_ret" \notin Traits[op] /\ "payload_ret" \in Traits[op]
    <3>1. Find(packet, op, first, "present") = (res # Null)
      BY <1>1, <1>2, <1>6, <2>3
    <3>2. Sendable(op, res) = res
      BY <2>3 DEF Sendable
    <3>3. CASE res = Null
      <4>1. Find(packet, op, first, "present") = FALSE
        BY <3>1, <3>3
      <4> QED
        BY <2>3, <3>2, <3>3, <4>1 DEF Response, first
    <3>4. CASE res # Null
      <4>1. Find(packet, op, first, "present") # FALSE
        BY <3>1, <3>4
      <4>2. fields = AnswerRead(op, TRUE)
        <5>1. (res # Null) = TRUE
          BY <3>4
        <5> QED
          BY <1>1, <5>1
      <4>3. Response(packet, op) = Find(packet, op, AnswerRead(op, TRUE), "time_info")
        BY <2>3, <4>1 DEF Response, first
      <4>4. Find(packet, op, fields, "time_info") = values["time_info"]
        BY <1>1, <1>7, <2>3, <4>2
      <4> QED
        BY <1>2, <3>2, <4>2, <4>3, <4>4
    <3> QED
      BY <3>3, <3>4
  <2> QED
    BY <2>1, <2>2, <2>3
<1>10. packet.len = Total(Layout(op, fields), 0)
  BY <1>3, LenOf
<1>11. AnswerRead(op, present) = fields
  <2>1. CASE "payload_ret" \notin Traits[op]
    <3>1. present = FALSE
      BY <1>1, <2>1
    <3>2. AnswerRead(op, FALSE) = AnswerRead(op, TRUE)
      BY <1>1, <2>1 DEF first
    <3>3. (res # Null) = TRUE \/ (res # Null) = FALSE
      OBVIOUS
    <3>4. fields = AnswerRead(op, FALSE)
      BY <1>1, <3>2, <3>3
    <3> QED
      BY <3>1, <3>4
  <2>2. CASE "payload_ret" \in Traits[op]
    <3>1. Find(packet, op, first, "present") = (res # Null)
      BY <1>1, <1>2, <1>6, <2>2
    <3>2. present = (res # Null)
      BY <1>1, <2>2, <3>1
    <3> QED
      BY <1>1, <3>2
  <2> QED
    BY <2>1, <2>2
<1> QED
  BY <1>4, <1>9, <1>10, <1>11 DEF first, packet

LEMMA HasField ==
  ASSUME NEW op, NEW f, NEW g
  PROVE  Has(Field(op, g), f) <=> f = g /\ f \in Traits[op]
<1>1. CASE g \in Traits[op]
  <2>1. Field(op, g) = <<g>>
    BY <1>1 DEF Field
  <2>2. DOMAIN <<g>> = {1} /\ <<g>>[1] = g
    OBVIOUS
  <2> QED
    BY <1>1, <2>1, <2>2 DEF Has
<1>2. CASE g \notin Traits[op]
  <2>1. Field(op, g) = <<>> /\ DOMAIN << >> = {}
    BY <1>2 DEF Field
  <2> QED
    BY <1>2, <2>1 DEF Has
<1> QED
  BY <1>1, <1>2

\* What is read of a request is what the message has of the body.
LEMMA RequestHas ==
  ASSUME NEW op, NEW f \in BodyFields
  PROVE  Has(FieldsRead(op), f) <=> f \in Traits[op]
<1> DEFINE s0 == Header(op)
           s1 == s0 \o Field(op, "index")
           s2 == s1 \o Field(op, "value")
           s3 == s2 \o Field(op, "opt")
           s4 == s3 \o Field(op, "num_inputs")
<1>1. /\ Field(op, "index") \in Seq(PipeField) /\ Field(op, "value") \in Seq(PipeField)
      /\ Field(op, "opt") \in Seq(PipeField) /\ Field(op, "num_inputs") \in Seq(PipeField)
      /\ Field(op, "num_outputs") \in Seq(PipeField)
      /\ s0 \in Seq(PipeField)
  BY FieldTypes DEF BodyFields
<1>2. ~Has(s0, f)
  BY DEF Has, Header, BodyFields
<1> HIDE DEF s0
<1>3. s1 \in Seq(PipeField) /\ (Has(s1, f) <=> Has(s0, f) \/ Has(Field(op, "index"), f))
  BY <1>1, ConcatProperties, HasConcat
<1> HIDE DEF s1
<1>4. s2 \in Seq(PipeField) /\ (Has(s2, f) <=> Has(s1, f) \/ Has(Field(op, "value"), f))
  BY <1>1, <1>3, ConcatProperties, HasConcat
<1> HIDE DEF s2
<1>5. s3 \in Seq(PipeField) /\ (Has(s3, f) <=> Has(s2, f) \/ Has(Field(op, "opt"), f))
  BY <1>1, <1>4, ConcatProperties, HasConcat
<1> HIDE DEF s3
<1>6. s4 \in Seq(PipeField) /\ (Has(s4, f) <=> Has(s3, f) \/ Has(Field(op, "num_inputs"), f))
  BY <1>1, <1>5, ConcatProperties, HasConcat
<1> HIDE DEF s4
<1>7. Has(s4 \o Field(op, "num_outputs"), f) <=> Has(s4, f) \/ Has(Field(op, "num_outputs"), f)
  BY <1>1, <1>6, HasConcat
<1>8. FieldsRead(op) = s4 \o Field(op, "num_outputs")
  BY DEF FieldsRead, s0, s1, s2, s3, s4
<1> QED
  BY <1>2, <1>3, <1>4, <1>5, <1>6, <1>7, <1>8, HasField DEF BodyFields

LEMMA AnswersAreResults ==
  ASSUME NEW op, NEW res \in Results
  PROVE  Sendable(op, res) \in Results
BY NullAssumption DEF Sendable

------------------------------------------------------------------------------
(* The inductive invariant: whose turn it is, and what is under way *)

\* Two frames of one call, one on each side.
SameCall(f, g) ==
  /\ f.op = g.op /\ f.role # g.role
  /\ f.role = "call" => g.body = Truncate(f.op, f.body)
  /\ g.role = "call" => f.body = Truncate(g.op, g.body)

Matched(p, q) == \A k \in DOMAIN p \cap DOMAIN q : SameCall(p[k], q[k])

\* The client makes the outermost call.
Outermost(s) == IF s = "client" THEN "call" ELSE "proc"

Well(s, frames) ==
  /\ frames \in Seq(Frame)
  /\ \A k \in DOMAIN frames : frames[k].role = "call" => frames[k].op \in CallsOf(s)
  /\ \A k \in DOMAIN frames : k + 1 \in DOMAIN frames => frames[k].role # frames[k+1].role
  /\ frames # <<>> => frames[1].role = Outermost(s)

\* A side runs; or it has asked; or its answer is on the way.
Running(s) ==
  /\ pc[s] \in {"code", "thrown"} /\ pc[Peer(s)] = "receive"
  /\ pipe[s] = <<>> /\ pipe[Peer(s)] = <<>>
  /\ Len(stack[s]) = Len(stack[Peer(s)])
  /\ IF stack[s] = <<>> THEN s = "client" ELSE Top(s).role = "proc"

Waits(s) ==
  /\ pc[s] = "receive" /\ pc[Peer(s)] = "receive"
  /\ stack[s] # <<>> /\ Len(stack[s]) = Len(stack[Peer(s)]) + 1
  /\ Top(s).role = "call"

Asked(s) ==
  /\ Waits(s)
  /\ pipe[s] = <<>> /\ pipe[Peer(s)] = <<Request(Top(s).op, Top(s).body)>>

Answered(s) ==
  /\ Waits(s)
  /\ pipe[Peer(s)] = <<>> /\ \E res \in Results : pipe[s] = <<Answer(Top(s).op, res)>>

Turn == \E s \in Sides : Running(s) \/ Asked(s) \/ Answered(s)

IInv ==
  /\ pc \in [Sides -> {"code", "receive", "thrown"}]
  /\ stack \in [Sides -> Seq(Frame)] /\ DOMAIN pipe = Sides /\ got \subseteq Results
  /\ \A s \in Sides : Well(s, stack[s]) /\ Matched(stack[s], stack[Peer(s)])
  /\ Turn

LEMMA Peers ==
  ASSUME NEW s \in Sides
  PROVE  /\ Peer(s) \in Sides /\ Peer(Peer(s)) = s /\ Peer(s) # s
         /\ \A t \in Sides : t = s \/ t = Peer(s)
BY DEF Sides, Peer

LEMMA PushWell ==
  ASSUME NEW s \in Sides, NEW q, Well(s, q), NEW f \in Frame,
         f.role = "call" => f.op \in CallsOf(s),
         IF q = <<>> THEN f.role = Outermost(s) ELSE Last(q).role # f.role
  PROVE  Well(s, Append(q, f))
<1> DEFINE n == Len(q)
           a == Append(q, f)
<1>1. q \in Seq(Frame)
  BY DEF Well
<1>2. /\ a \in Seq(Frame) /\ a # <<>> /\ n \in Nat
      /\ DOMAIN q = 1 .. n /\ DOMAIN a = 1 .. n + 1
      /\ \A i \in 1 .. n : a[i] = q[i]
      /\ a[n + 1] = f
  BY <1>1, AppendedProperties
<1>3. q # <<>> => n >= 1 /\ Last(q) = q[n]
  BY <1>1, FrontProperties
<1>4. q = <<>> => n = 0
  BY EmptySeq, <1>1
<1>5. /\ \A k \in 1 .. n : q[k].role = "call" => q[k].op \in CallsOf(s)
      /\ \A k \in 1 .. n : k + 1 \in 1 .. n => q[k].role # q[k+1].role
      /\ q # <<>> => q[1].role = Outermost(s)
  BY <1>2 DEF Well
<1> HIDE DEF a, n
<1>6. ASSUME NEW k \in 1 .. n + 1
      PROVE  /\ a[k].role = "call" => a[k].op \in CallsOf(s)
             /\ k + 1 \in 1 .. n + 1 => a[k].role # a[k+1].role
  <2>1. CASE k \in 1 .. n - 1
    <3>1. k \in 1 .. n /\ k + 1 \in 1 .. n
      BY <1>2, <2>1
    <3> QED
      BY <1>2, <1>5, <3>1
  <2>2. CASE k = n /\ n >= 1
    <3>1. k \in 1 .. n /\ k + 1 = n + 1 /\ q # <<>>
      BY <1>2, <1>4, <2>2
    <3> QED
      BY <1>2, <1>3, <1>5, <2>2, <3>1
  <2>3. CASE k = n + 1
    <3>1. k + 1 \notin 1 .. n + 1
      BY <1>2, <2>3
    <3> QED
      BY <1>2, <2>3, <3>1
  <2> QED
    BY <1>2, <2>1, <2>2, <2>3
<1>7. a[1].role = Outermost(s)
  <2>1. CASE q = <<>>
    <3>1. n + 1 = 1 /\ f.role = Outermost(s)
      BY <1>4, <2>1
    <3>2. a[1] = f
      BY <1>2, <3>1
    <3> QED
      BY <3>1, <3>2
  <2>2. CASE q # <<>>
    <3>1. 1 \in 1 .. n
      BY <1>2, <1>3, <2>2
    <3> QED
      BY <1>2, <1>5, <2>2, <3>1
  <2> QED
    BY <2>1, <2>2
<1> QED
  BY <1>2, <1>6, <1>7 DEF Well, a

LEMMA PopWell ==
  ASSUME NEW s \in Sides, NEW q, Well(s, q), q # <<>>
  PROVE  /\ Well(s, Front(q))
         /\ IF Front(q) = <<>> THEN Last(q).role = Outermost(s)
                               ELSE Last(Front(q)).role # Last(q).role
<1> DEFINE n == Len(q)
           a == Front(q)
<1>1. q \in Seq(Frame)
  BY DEF Well
<1>2. /\ a \in Seq(Frame) /\ n \in Nat /\ n >= 1 /\ Len(a) = n - 1
      /\ DOMAIN q = 1 .. n /\ DOMAIN a = 1 .. n - 1
      /\ \A i \in 1 .. n - 1 : a[i] = q[i]
      /\ Last(q) = q[n]
  BY <1>1, FrontProperties
<1>3. /\ \A k \in 1 .. n : q[k].role = "call" => q[k].op \in CallsOf(s)
      /\ \A k \in 1 .. n : k + 1 \in 1 .. n => q[k].role # q[k+1].role
      /\ q[1].role = Outermost(s)
  BY <1>2 DEF Well
<1>4. a # <<>> => n - 1 >= 1 /\ Last(a) = a[n - 1]
  BY <1>2, FrontProperties
<1>5. a = <<>> => n = 1
  BY <1>2, EmptySeq
<1> HIDE DEF a, n
<1>6. ASSUME NEW k \in 1 .. n - 1
      PROVE  /\ a[k].role = "call" => a[k].op \in CallsOf(s)
             /\ k + 1 \in 1 .. n - 1 => a[k].role # a[k+1].role
  <2>1. k \in 1 .. n /\ k + 1 \in 1 .. n
    BY <1>2
  <2> QED
    BY <1>2, <1>3, <2>1
<1>7. a # <<>> => /\ a[1].role = Outermost(s)
                  /\ Last(a).role # Last(q).role
  <2> SUFFICES ASSUME a # <<>>
               PROVE  a[1].role = Outermost(s) /\ Last(a).role # Last(q).role
    OBVIOUS
  <2>1. n - 1 \in 1 .. n /\ (n - 1) + 1 = n /\ n \in 1 .. n /\ n - 1 \in 1 .. n - 1 /\ 1 \in 1 .. n - 1
    BY <1>2, <1>4
  <2>2. q[n - 1].role # q[(n - 1) + 1].role
    BY <1>3, <2>1
  <2> QED
    BY <1>2, <1>3, <1>4, <2>1, <2>2
<1>8. Well(s, a)
  BY <1>2, <1>6, <1>7 DEF Well
<1> QED
  BY <1>2, <1>3, <1>5, <1>7, <1>8 DEF a

LEMMA StoreWell ==
  ASSUME NEW s \in Sides, NEW q, Well(s, q), q # <<>>,
         NEW f \in Frame, f.role = Last(q).role, f.op = Last(q).op
  PROVE  Well(s, Append(Front(q), f))
<1>1. /\ Well(s, Front(q))
      /\ IF Front(q) = <<>> THEN f.role = Outermost(s) ELSE Last(Front(q)).role # f.role
  BY PopWell
<1>2. f.role = "call" => f.op \in CallsOf(s)
  <2>1. q \in Seq(Frame)
    BY DEF Well
  <2>2. Len(q) \in Nat /\ Len(q) >= 1 /\ DOMAIN q = 1 .. Len(q) /\ Last(q) = q[Len(q)]
    BY <2>1, FrontProperties
  <2>3. Len(q) \in DOMAIN q
    BY <2>2
  <2> QED
    BY <2>2, <2>3 DEF Well
<1> QED
  BY <1>1, <1>2, PushWell

LEMMA MatchedSymmetric ==
  ASSUME NEW p, NEW q, Matched(p, q)
  PROVE  Matched(q, p)
BY DEF Matched, SameCall

LEMMA MatchedAppend ==
  ASSUME NEW p \in Seq(Frame), NEW q \in Seq(Frame), NEW f \in Frame, Matched(p, q),
         Len(p) + 1 \in DOMAIN q => SameCall(f, q[Len(p) + 1])
  PROVE  Matched(Append(p, f), q)
<1>1. /\ Len(p) \in Nat /\ DOMAIN p = 1 .. Len(p) /\ DOMAIN Append(p, f) = 1 .. Len(p) + 1
      /\ \A i \in 1 .. Len(p) : Append(p, f)[i] = p[i]
      /\ Append(p, f)[Len(p) + 1] = f
  BY AppendedProperties
<1>2. ASSUME NEW k \in 1 .. Len(p) + 1, k \in DOMAIN q
      PROVE  SameCall(Append(p, f)[k], q[k])
  <2>1. CASE k \in 1 .. Len(p)
    BY <1>1, <1>2, <2>1 DEF Matched
  <2>2. CASE k = Len(p) + 1
    BY <1>1, <1>2, <2>2
  <2> QED
    BY <1>1, <2>1, <2>2
<1> QED
  BY <1>1, <1>2 DEF Matched

LEMMA MatchedFront ==
  ASSUME NEW p \in Seq(Frame), p # <<>>, NEW q, Matched(p, q)
  PROVE  Matched(Front(p), q)
<1>1. /\ Len(p) \in Nat /\ DOMAIN p = 1 .. Len(p) /\ DOMAIN Front(p) = 1 .. Len(p) - 1
      /\ \A i \in 1 .. Len(p) - 1 : Front(p)[i] = p[i]
  BY FrontProperties
<1>2. ASSUME NEW k \in 1 .. Len(p) - 1, k \in DOMAIN q
      PROVE  SameCall(Front(p)[k], q[k])
  <2>1. k \in 1 .. Len(p)
    BY <1>1
  <2> QED
    BY <1>1, <1>2, <2>1 DEF Matched
<1> QED
  BY <1>1, <1>2 DEF Matched

------------------------------------------------------------------------------
(* The actions *)

LEMMA InitIInv == Init => IInv
<1> SUFFICES ASSUME Init
             PROVE  IInv
  OBVIOUS
<1>1. /\ pc \in [Sides -> {"code", "receive", "thrown"}]
      /\ pc["client"] = "code" /\ pc["server"] = "receive"
  BY DEF Init, Sides
<1>2. /\ stack \in [Sides -> Seq(Frame)] /\ DOMAIN pipe = Sides /\ got \subseteq Results
      /\ \A s \in Sides : stack[s] = <<>> /\ pipe[s] = <<>>
  BY DEF Init
<1>3. DOMAIN << >> = {} /\ << >> \in Seq(Frame)
  OBVIOUS
<1>4. \A s \in Sides : Well(s, <<>>)
  BY <1>3 DEF Well
<1>5. Matched(<<>>, <<>>)
  BY <1>3 DEF Matched
<1>6. Running("client")
  <2>1. "client" \in Sides /\ Peer("client") = "server" /\ "server" \in Sides
    BY DEF Sides, Peer
  <2> QED
    BY <1>1, <1>2, <2>1 DEF Running
<1>7. Turn
  BY <1>6 DEF Turn, Sides
<1>8. \A s \in Sides : Well(s, stack[s]) /\ Matched(stack[s], stack[Peer(s)])
  BY <1>2, <1>4, <1>5, Peers
<1> QED
  BY <1>1, <1>2, <1>7, <1>8 DEF IInv

\* The side whose code runs is the only one to do anything.
LEMMA TurnOf ==
  ASSUME IInv, NEW s \in Sides, pc[s] \in {"code", "thrown"}
  PROVE  Running(s)
BY Peers DEF IInv, Turn, Running, Asked, Answered, Waits

\* What lies in a pipe is for its reader, who waits for it.
LEMMA TurnTo ==
  ASSUME IInv, NEW s \in Sides, pipe[s] # <<>>
  PROVE  Asked(Peer(s)) \/ Answered(s)
<1>1. PICK t \in Sides : Running(t) \/ Asked(t) \/ Answered(t)
  BY DEF IInv, Turn
<1>2. ~Running(t)
  BY <1>1, Peers DEF Running
<1>3. CASE t = s
  BY <1>1, <1>2, <1>3 DEF Asked
<1>4. CASE t = Peer(s)
  BY <1>1, <1>2, <1>4, Peers DEF Answered
<1> QED
  BY <1>3, <1>4, Peers

\* Only one stack changes in a step, and what holds of both stays.
LEMMA StackStep ==
  ASSUME IInv, NEW s \in Sides, NEW q, stack' = [stack EXCEPT ![s] = q],
         Well(s, q), Matched(q, stack[Peer(s)])
  PROVE  /\ stack' \in [Sides -> Seq(Frame)]
         /\ stack'[s] = q /\ stack'[Peer(s)] = stack[Peer(s)]
         /\ \A t \in Sides : Well(t, stack'[t]) /\ Matched(stack'[t], stack'[Peer(t)])
<1>1. q \in Seq(Frame) /\ stack \in [Sides -> Seq(Frame)] /\ Well(Peer(s), stack[Peer(s)])
  BY Peers DEF IInv, Well
<1>2. /\ stack' \in [Sides -> Seq(Frame)]
      /\ stack'[s] = q /\ stack'[Peer(s)] = stack[Peer(s)]
  BY <1>1, Peers
<1>3. Matched(stack[Peer(s)], q)
  BY MatchedSymmetric
<1>4. /\ Well(s, stack'[s]) /\ Matched(stack'[s], stack'[Peer(s)])
      /\ Well(Peer(s), stack'[Peer(s)]) /\ Matched(stack'[Peer(s)], stack'[Peer(Peer(s))])
  BY <1>1, <1>2, <1>3, Peers
<1> QED
  BY <1>2, <1>4, Peers

LEMMA BodyTypes ==
  /\ \A body \in Bodies : body \in [BodyFields -> Nat]
  /\ \A op : \A body \in [BodyFields -> Nat] : Truncate(op, body) \in [BodyFields -> Nat]
BY BodiesAssumption DEF Truncate

LEMMA SendKeeps ==
  ASSUME IInv, NEW s \in Sides, NEW op \in CallsOf(s), NEW body \in Bodies, Send(s, op, body)
  PROVE  IInv'
<1> DEFINE p == Peer(s)
           f == [role |-> "call", op |-> op, body |-> body, res |-> None]
           q == Append(stack[s], f)
<1>1. p \in Sides /\ Peer(p) = s /\ p # s
  BY Peers
<1>2. /\ Running(s) /\ pc[s] = "code"
      /\ pc \in [Sides -> {"code", "receive", "thrown"}] /\ DOMAIN pipe = Sides
      /\ Well(s, stack[s]) /\ Well(p, stack[p]) /\ Matched(stack[s], stack[p])
      /\ stack[s] \in Seq(Frame) /\ stack[p] \in Seq(Frame)
  BY <1>1, TurnOf DEF IInv, Send
<1>3. /\ pipe' = [pipe EXCEPT ![p] = Append(@, Request(op, body))]
      /\ stack' = [stack EXCEPT ![s] = q]
      /\ pc' = [pc EXCEPT ![s] = "receive"] /\ got' = {}
  BY DEF Send, Transmit, Request, RequestValues
<1>4. f \in Frame /\ f.role = "call" /\ f.op = op /\ f.body = body
  BY Tables, BodyTypes DEF Frame
<1> HIDE DEF f
<1>5. IF stack[s] = <<>> THEN f.role = Outermost(s) ELSE Last(stack[s]).role # f.role
  BY <1>2, <1>4 DEF Running, Outermost, Top
<1>6. Well(s, q)
  BY <1>2, <1>4, <1>5, PushWell
<1>7. /\ Len(q) = Len(stack[p]) + 1 /\ Last(q) = f /\ q # <<>>
      /\ Len(stack[s]) + 1 \notin DOMAIN stack[p]
  <2>1. Len(stack[s]) = Len(stack[p])
    BY <1>2 DEF Running
  <2>2. Len(q) = Len(stack[s]) + 1 /\ Last(q) = f /\ q # <<>>
    BY <1>2, <1>4, AppendedProperties
  <2>3. Len(stack[p]) \in Nat /\ DOMAIN stack[p] = 1 .. Len(stack[p])
    BY <1>2, LenProperties
  <2> QED
    BY <2>1, <2>2, <2>3
<1>8. Matched(q, stack[p])
  BY <1>2, <1>4, <1>7, MatchedAppend
<1> HIDE DEF q
<1>9. /\ stack' \in [Sides -> Seq(Frame)] /\ stack'[s] = q /\ stack'[p] = stack[p]
      /\ \A t \in Sides : Well(t, stack'[t]) /\ Matched(stack'[t], stack'[Peer(t)])
  BY <1>3, <1>6, <1>8, StackStep
<1>10. /\ pc' \in [Sides -> {"code", "receive", "thrown"}]
       /\ pc'[s] = "receive" /\ pc'[p] = "receive"
  BY <1>1, <1>2, <1>3 DEF Running
<1>11. /\ DOMAIN pipe' = Sides /\ pipe'[s] = <<>>
       /\ pipe'[p] = <<Request(op, body)>>
  <2>1. pipe[s] = <<>> /\ pipe[p] = <<>>
    BY <1>2 DEF Running
  <2> HIDE DEF p
  <2>2. \A x : Append(<<>>, x) = <<x>>
    OBVIOUS
  <2> QED
    BY <1>1, <1>2, <1>3, <2>1, <2>2
<1>12. Asked(s)'
  BY <1>4, <1>7, <1>9, <1>10, <1>11 DEF Asked, Waits, Top
<1>13. Turn'
  BY <1>12 DEF Turn
<1> QED
  BY <1>3, <1>9, <1>10, <1>11, <1>13 DEF IInv

\* A request on its way is the caller's, for one of the callee's functions.
LEMMA RequestUnderWay ==
  ASSUME IInv, NEW s \in Sides, Asked(Peer(s))
  PROVE  LET f == Top(Peer(s))
         IN  /\ f \in Frame /\ f.op \in CallsOf(Peer(s))
             /\ Incoming(s) = Request(f.op, f.body)
             /\ TypeIn(Incoming(s)) = TypeOf(f.op) /\ TypeOf(f.op) # "return_"
             /\ OpcodeIn(Incoming(s)) = f.op
             /\ Understood(s, Incoming(s))
             /\ [k \in BodyFields |-> IF Has(FieldsRead(f.op), k)
                    THEN Find(Incoming(s), f.op, FieldsRead(f.op), k) ELSE 0]
                  = Truncate(f.op, f.body)
             /\ Incoming(s).len = Total(Layout(f.op, FieldsRead(f.op)), 0)
<1> DEFINE p == Peer(s)
           f == Top(p)
           packet == Request(f.op, f.body)
<1>1. p \in Sides /\ Peer(p) = s
  BY Peers
<1>2. /\ Well(p, stack[p]) /\ stack[p] \in Seq(Frame) /\ stack[p] # <<>>
      /\ f.role = "call" /\ pipe[s] = <<packet>>
  BY <1>1 DEF IInv, Asked, Waits
<1>3. f \in Frame /\ f.op \in CallsOf(p)
  <2>1. /\ Len(stack[p]) \in Nat /\ Len(stack[p]) >= 1
        /\ DOMAIN stack[p] = 1 .. Len(stack[p])
        /\ f = stack[p][Len(stack[p])] /\ f \in Frame
    BY <1>2, FrontProperties DEF Top
  <2>2. Len(stack[p]) \in DOMAIN stack[p]
    BY <2>1
  <2> QED
    BY <1>2, <2>1, <2>2 DEF Well
<1>4. /\ f.op \in IF TypeOf(f.op) = "dispatcher" THEN DispatcherReceived(s) ELSE TypesReceived(s)
      /\ General(f.op) => f.op # "dispatcher" /\ f.op # "return_"
  BY <1>1, <1>3, Tables
<1>5. Incoming(s) = packet
  <2> HIDE DEF packet
  <2>1. \A x : Head(<<x>>) = x
    OBVIOUS
  <2> QED
    BY <1>2, <2>1 DEF Incoming
<1> HIDE DEF f
<1>6. /\ TypeIn(packet) = TypeOf(f.op)
      /\ OpcodeIn(packet) = f.op
      /\ \A k \in BodyFields : Has(FieldsRead(f.op), k) =>
           Find(packet, f.op, FieldsRead(f.op), k) = f.body[k]
      /\ packet.len = Total(Layout(f.op, FieldsRead(f.op)), 0)
  BY <1>4, RequestRead
<1> HIDE DEF packet
<1>7. Understood(s, packet)
  BY <1>4, <1>6 DEF Understood
<1>8. TypeOf(f.op) # "return_"
  BY <1>4 DEF TypeOf
<1>9. [k \in BodyFields |-> IF Has(FieldsRead(f.op), k)
         THEN Find(packet, f.op, FieldsRead(f.op), k) ELSE 0] = Truncate(f.op, f.body)
  BY <1>6, RequestHas DEF Truncate
<1> QED
  BY <1>2, <1>3, <1>5, <1>6, <1>7, <1>8, <1>9 DEF f, packet

\* What the callee enters.
Entered(f) ==
  [role |-> "proc", op |-> f.op, res |-> None, body |-> Truncate(f.op, f.body)]

LEMMA ReceiveIs ==
  ASSUME IInv, NEW s \in Sides, Receive(s)
  PROVE  /\ Asked(Peer(s))
         /\ Entered(Top(Peer(s))) \in Frame
         /\ stack' = [stack EXCEPT ![s] = Append(@, Entered(Top(Peer(s))))]
         /\ pc' = [pc EXCEPT ![s] = "code"]
<1> DEFINE f == Top(Peer(s))
<1>1. pipe[s] # <<>> /\ TypeIn(Incoming(s)) # "return_"
  BY DEF Receive, Take
<1>2. ~Answered(s)
  <2> SUFFICES ASSUME Answered(s)
               PROVE  FALSE
    OBVIOUS
  <2>1. PICK res \in Results : pipe[s] = <<Answer(Top(s).op, res)>>
    BY DEF Answered
  <2>2. \A x : Head(<<x>>) = x
    OBVIOUS
  <2>3. TypeIn(Answer(Top(s).op, res)) = "return_"
    BY AnswerUnderstood
  <2> QED
    BY <1>1, <2>1, <2>2, <2>3 DEF Incoming
<1>3. Asked(Peer(s))
  BY <1>1, <1>2, TurnTo
<1>4. /\ f \in Frame /\ f.op \in CallsOf(Peer(s))
      /\ OpcodeIn(Incoming(s)) = f.op
      /\ Understood(s, Incoming(s))
      /\ [k \in BodyFields |-> IF Has(FieldsRead(f.op), k)
             THEN Find(Incoming(s), f.op, FieldsRead(f.op), k) ELSE 0]
           = Truncate(f.op, f.body)
  BY <1>3, RequestUnderWay
<1>5. Entered(f) \in Frame
  <2> HIDE DEF f
  <2>1. f.op \in DOMAIN Traits /\ f.body \in [BodyFields -> Nat]
    BY <1>4 DEF Frame
  <2>2. Truncate(f.op, f.body) \in [BodyFields -> Nat]
    BY <2>1, BodyTypes
  <2> QED
    BY <2>1, <2>2 DEF Entered, Frame
<1> HIDE DEF f
<1>6. /\ stack' = [stack EXCEPT ![s] = Append(@, Entered(f))]
      /\ pc' = [pc EXCEPT ![s] = "code"]
  BY <1>4 DEF Receive, Entered
<1> QED
  BY <1>3, <1>5, <1>6 DEF f

LEMMA ReceiveKeeps ==
  ASSUME IInv, NEW s \in Sides, Receive(s)
  PROVE  IInv'
<1> DEFINE p == Peer(s)
           f == Top(p)
           g == Entered(f)
           q == Append(stack[s], g)
<1>1. p \in Sides /\ Peer(p) = s /\ p # s
  BY Peers
<1>2. /\ Asked(p) /\ g \in Frame
      /\ stack' = [stack EXCEPT ![s] = q] /\ pc' = [pc EXCEPT ![s] = "code"]
      /\ pipe' = [pipe EXCEPT ![s] = <<>>] /\ got' = {}
  BY ReceiveIs DEF IInv, Receive, Take
<1>3. /\ pc \in [Sides -> {"code", "receive", "thrown"}] /\ DOMAIN pipe = Sides
      /\ Well(s, stack[s]) /\ Well(p, stack[p]) /\ Matched(stack[s], stack[p])
      /\ stack[s] \in Seq(Frame) /\ stack[p] \in Seq(Frame)
  BY <1>1 DEF IInv
<1>4. g.role = "proc" /\ g.op = f.op /\ g.body = Truncate(f.op, f.body)
  BY DEF Entered
<1> HIDE DEF g
<1>5. /\ stack[p] # <<>> /\ Len(stack[p]) = Len(stack[s]) + 1
      /\ f = stack[p][Len(stack[p])] /\ f.role = "call"
      /\ pc[p] = "receive" /\ pipe[p] = <<>>
  BY <1>1, <1>2 DEF Asked, Waits, Top, Last
<1>6. SameCall(g, stack[p][Len(stack[s]) + 1])
  BY <1>4, <1>5 DEF SameCall
<1>7. Matched(q, stack[p])
  BY <1>2, <1>3, <1>6, MatchedAppend
<1>8. IF stack[s] = <<>> THEN g.role = Outermost(s) ELSE Last(stack[s]).role # g.role
  <2>1. Len(stack[s]) \in Nat /\ DOMAIN stack[s] = 1 .. Len(stack[s])
        /\ DOMAIN stack[p] = 1 .. Len(stack[p])
    BY <1>3, LenProperties
  <2>2. CASE stack[s] = <<>>
    <3>1. Len(stack[s]) = 0
      BY <2>2
    <3>2. Len(stack[p]) = 1
      BY <1>5, <3>1
    <3>3. f.role = Outermost(p)
      BY <1>3, <1>5, <3>2 DEF Well
    <3> QED
      BY <1>1, <1>4, <1>5, <2>2, <3>3 DEF Outermost, Sides
  <2>3. CASE stack[s] # <<>>
    <3> DEFINE n == Len(stack[s])
    <3>1. n >= 1 /\ Last(stack[s]) = stack[s][n]
      BY <1>3, <2>3, FrontProperties
    <3>2. n \in DOMAIN stack[s] /\ n \in DOMAIN stack[p] /\ n + 1 \in DOMAIN stack[p]
      BY <1>5, <2>1, <3>1
    <3>3. stack[p][n].role # "call"
      BY <1>3, <1>5, <3>2 DEF Well
    <3>4. stack[s][n].role # stack[p][n].role
      BY <1>3, <3>2 DEF Matched, SameCall
    <3>5. stack[s][n] \in Frame /\ stack[p][n] \in Frame
      BY <1>3, <2>1, <3>2, ElementOfSeq
    <3>6. stack[s][n].role = "call"
      BY <3>3, <3>4, <3>5 DEF Frame
    <3> QED
      BY <1>4, <2>3, <3>1, <3>6
  <2> QED
    BY <2>2, <2>3
<1>9. Well(s, q)
  BY <1>2, <1>3, <1>4, <1>8, PushWell
<1>10. Len(q) = Len(stack[p]) /\ Last(q) = g /\ q # <<>>
  BY <1>2, <1>3, <1>5, AppendedProperties
<1> HIDE DEF q
<1>11. /\ stack' \in [Sides -> Seq(Frame)] /\ stack'[s] = q /\ stack'[p] = stack[p]
       /\ \A t \in Sides : Well(t, stack'[t]) /\ Matched(stack'[t], stack'[Peer(t)])
  BY <1>2, <1>7, <1>9, StackStep
<1>12. /\ pc' \in [Sides -> {"code", "receive", "thrown"}]
       /\ pc'[s] = "code" /\ pc'[p] = "receive"
       /\ DOMAIN pipe' = Sides /\ pipe'[s] = <<>> /\ pipe'[p] = <<>>
  BY <1>1, <1>2, <1>3, <1>5
<1>13. Running(s)'
  BY <1>4, <1>10, <1>11, <1>12 DEF Running, Top
<1>14. Turn'
  BY <1>13 DEF Turn
<1> QED
  BY <1>2, <1>11, <1>12, <1>14 DEF IInv

LEMMA DecideKeeps ==
  ASSUME IInv, NEW s \in Sides, NEW d \in Results, Decide(s, d)
  PROVE  IInv'
<1> DEFINE p == Peer(s)
           f == Top(s)
           g == [f EXCEPT !.res = d]
           q == Append(Front(stack[s]), g)
<1>1. p \in Sides /\ Peer(p) = s /\ p # s
  BY Peers
<1>2. /\ Running(s) /\ pc[s] = "code" /\ stack[s] # <<>>
      /\ stack' = [stack EXCEPT ![s] = q] /\ got' = {} /\ pc' = pc /\ pipe' = pipe
  BY TurnOf DEF Decide, Top
<1>3. /\ pc \in [Sides -> {"code", "receive", "thrown"}] /\ DOMAIN pipe = Sides
      /\ Well(s, stack[s]) /\ Matched(stack[s], stack[p])
      /\ stack[s] \in Seq(Frame) /\ stack[p] \in Seq(Frame)
  BY <1>1 DEF IInv
<1>4. /\ Front(stack[s]) \in Seq(Frame) /\ Len(Front(stack[s])) = Len(stack[s]) - 1
      /\ Len(stack[s]) \in Nat /\ Len(stack[s]) >= 1 /\ DOMAIN stack[s] = 1 .. Len(stack[s])
      /\ f = stack[s][Len(stack[s])] /\ f \in Frame
  BY <1>2, <1>3, FrontProperties DEF Top
<1>5. g \in Frame /\ g.role = f.role /\ g.op = f.op /\ g.body = f.body
  BY <1>4 DEF Frame
<1>6. f.role = "proc"
  BY <1>2 DEF Running
<1> HIDE DEF f, g
<1>7. Well(s, q)
  BY <1>2, <1>3, <1>5, StoreWell DEF f, Top
<1>8. Matched(Front(stack[s]), stack[p])
  BY <1>2, <1>3, MatchedFront
<1>9. ASSUME Len(Front(stack[s])) + 1 \in DOMAIN stack[p]
      PROVE  SameCall(g, stack[p][Len(Front(stack[s])) + 1])
  <2>1. Len(Front(stack[s])) + 1 = Len(stack[s]) /\ Len(stack[s]) \in DOMAIN stack[s]
    BY <1>4
  <2>2. SameCall(f, stack[p][Len(stack[s])])
    BY <1>3, <1>4, <1>9, <2>1 DEF Matched
  <2> QED
    BY <1>5, <2>1, <2>2 DEF SameCall
<1>10. Matched(q, stack[p])
  BY <1>3, <1>4, <1>5, <1>8, <1>9, MatchedAppend
<1>11. Len(q) = Len(stack[s]) /\ Last(q) = g /\ q # <<>>
  <2>1. Len(q) = Len(Front(stack[s])) + 1 /\ Last(q) = g /\ q # <<>>
    BY <1>4, <1>5, AppendedProperties
  <2> QED
    BY <1>4, <2>1
<1> HIDE DEF q
<1>12. /\ stack' \in [Sides -> Seq(Frame)] /\ stack'[s] = q /\ stack'[p] = stack[p]
       /\ \A t \in Sides : Well(t, stack'[t]) /\ Matched(stack'[t], stack'[Peer(t)])
  BY <1>2, <1>7, <1>10, StackStep
<1>13. Running(s)'
  BY <1>2, <1>5, <1>6, <1>11, <1>12 DEF Running, Top
<1>14. Turn'
  BY <1>13 DEF Turn
<1> QED
  BY <1>2, <1>3, <1>12, <1>14 DEF IInv

\* The call of the frame that replies, on the other side.
LEMMA ReplyIs ==
  ASSUME IInv, NEW s \in Sides, Reply(s)
  PROVE  LET p == Peer(s)
             f == Top(s)
         IN  /\ Running(s) /\ f.res \in Results
             /\ stack[p] # <<>> /\ Top(p).role = "call" /\ Top(p).op = f.op
             /\ pipe' = [pipe EXCEPT ![p] = Append(@, Answer(f.op, f.res))]
             /\ stack' = [stack EXCEPT ![s] = Front(@)]
             /\ pc' = [pc EXCEPT ![s] = "receive"] /\ got' = {}
<1> DEFINE p == Peer(s)
           f == Top(s)
           n == Len(stack[s])
<1>1. p \in Sides
  BY Peers
<1>2. /\ Running(s) /\ stack[s] # <<>> /\ f.res # None
      /\ pipe' = [pipe EXCEPT ![p] = Append(@, Answer(f.op, f.res))]
      /\ stack' = [stack EXCEPT ![s] = Front(@)]
      /\ pc' = [pc EXCEPT ![s] = "receive"] /\ got' = {}
  BY TurnOf DEF Reply, Transmit, Answer, AnswerValues
<1>3. /\ stack[s] \in Seq(Frame) /\ stack[p] \in Seq(Frame) /\ Matched(stack[s], stack[p])
  BY <1>1 DEF IInv
<1>4. /\ n \in Nat /\ n >= 1 /\ DOMAIN stack[s] = 1 .. n
      /\ f = stack[s][n] /\ f \in Frame
  BY <1>2, <1>3, FrontProperties DEF Top
<1>5. f.role = "proc" /\ Len(stack[p]) = n
  BY <1>2 DEF Running
<1>6. /\ stack[p] # <<>> /\ DOMAIN stack[p] = 1 .. n /\ Top(p) = stack[p][n]
      /\ Top(p) \in Frame
  <2>1. stack[p] # <<>>
    BY <1>4, <1>5
  <2> QED
    BY <1>3, <1>5, <2>1, FrontProperties DEF Top
<1>7. SameCall(f, Top(p))
  <2>1. n \in DOMAIN stack[s] /\ n \in DOMAIN stack[p]
    BY <1>4, <1>6
  <2> QED
    BY <1>3, <1>4, <1>6, <2>1 DEF Matched
<1>8. Top(p).role = "call" /\ Top(p).op = f.op
  BY <1>5, <1>6, <1>7 DEF SameCall, Frame
<1>9. f.res \in Results
  BY <1>2, <1>4 DEF Frame
<1> QED
  BY <1>2, <1>6, <1>8, <1>9

LEMMA ReplyKeeps ==
  ASSUME IInv, NEW s \in Sides, Reply(s)
  PROVE  IInv'
<1> DEFINE p == Peer(s)
           f == Top(s)
           packet == Answer(f.op, f.res)
           q == Front(stack[s])
<1>1. p \in Sides /\ Peer(p) = s /\ p # s
  BY Peers
<1>2. /\ Running(s) /\ f.res \in Results
      /\ stack[p] # <<>> /\ Top(p).role = "call" /\ Top(p).op = f.op
      /\ pipe' = [pipe EXCEPT ![p] = Append(@, packet)]
      /\ stack' = [stack EXCEPT ![s] = q]
      /\ pc' = [pc EXCEPT ![s] = "receive"] /\ got' = {}
  BY ReplyIs
<1> HIDE DEF packet
<1>3. /\ pc \in [Sides -> {"code", "receive", "thrown"}] /\ DOMAIN pipe = Sides
      /\ Well(s, stack[s]) /\ Matched(stack[s], stack[p])
      /\ stack[s] \in Seq(Frame) /\ stack[p] \in Seq(Frame)
      /\ stack[s] # <<>>
  BY <1>1 DEF IInv, Reply
<1>4. Len(q) = Len(stack[s]) - 1 /\ Len(stack[s]) \in Nat
  BY <1>3, FrontProperties
<1>5. Well(s, q) /\ Matched(q, stack[p])
  BY <1>3, PopWell, MatchedFront
<1> HIDE DEF q
<1>6. /\ stack' \in [Sides -> Seq(Frame)] /\ stack'[s] = q /\ stack'[p] = stack[p]
      /\ \A t \in Sides : Well(t, stack'[t]) /\ Matched(stack'[t], stack'[Peer(t)])
  BY <1>2, <1>5, StackStep
<1>7. /\ pc' \in [Sides -> {"code", "receive", "thrown"}]
      /\ pc'[s] = "receive" /\ pc'[p] = "receive"
  BY <1>1, <1>2, <1>3 DEF Running
<1>8. DOMAIN pipe' = Sides /\ pipe'[s] = <<>> /\ pipe'[p] = <<packet>>
  <2>1. pipe[s] = <<>> /\ pipe[p] = <<>>
    BY <1>2 DEF Running
  <2> HIDE DEF p
  <2>2. \A x : Append(<<>>, x) = <<x>>
    OBVIOUS
  <2> QED
    BY <1>1, <1>2, <1>3, <2>1, <2>2
<1>9. Len(stack'[p]) = Len(stack'[s]) + 1
  BY <1>2, <1>4, <1>6 DEF Running
<1>10. Top(p)' = Top(p)
  BY <1>6 DEF Top
<1>11. Waits(p)'
  BY <1>1, <1>2, <1>6, <1>7, <1>9, <1>10 DEF Waits
<1>12. \E res \in Results : pipe'[p] = <<Answer(Top(p)'.op, res)>>
  BY <1>2, <1>8, <1>10 DEF packet
<1>13. Answered(p)'
  BY <1>1, <1>8, <1>11, <1>12 DEF Answered
<1>14. Turn'
  BY <1>1, <1>13 DEF Turn
<1> QED
  BY <1>2, <1>6, <1>7, <1>8, <1>14 DEF IInv

\* An answer on its way is the callee's, to the caller's last call.
LEMMA AnswerUnderWay ==
  ASSUME IInv, NEW s \in Sides, Answered(s)
  PROVE  LET packet == Incoming(s)
             op == Top(s).op
             present == /\ Has(AnswerRead(op, FALSE), "present")
                        /\ Find(packet, op, AnswerRead(op, FALSE), "present") = TRUE
         IN  /\ TypeIn(packet) = "return_"
             /\ Response(packet, op) \in Results
             /\ packet.len = Total(Layout(op, AnswerRead(op, present)), 0)
<1>1. PICK res \in Results : pipe[s] = <<Answer(Top(s).op, res)>>
  BY DEF Answered
<1>2. Incoming(s) = Answer(Top(s).op, res)
  <2>1. \A x : Head(<<x>>) = x
    OBVIOUS
  <2> QED
    BY <1>1, <2>1 DEF Incoming
<1> DEFINE op == Top(s).op
           packet == Incoming(s)
           present == /\ Has(AnswerRead(op, FALSE), "present")
                      /\ Find(packet, op, AnswerRead(op, FALSE), "present") = TRUE
<1>3. packet = Answer(op, res)
  BY <1>2
<1> HIDE DEF op, packet
<1>4. /\ TypeIn(packet) = "return_" /\ Response(packet, op) = Sendable(op, res)
      /\ packet.len = Total(Layout(op, AnswerRead(op, present)), 0)
  BY <1>3, AnswerUnderstood
<1>5. Response(packet, op) \in Results
  BY <1>4, AnswersAreResults
<1> QED
  BY <1>4, <1>5 DEF op, packet

LEMMA ReturnIs ==
  ASSUME IInv, NEW s \in Sides, Return(s)
  PROVE  Answered(s)
<1>1. pipe[s] # <<>> /\ TypeIn(Incoming(s)) = "return_"
  BY DEF Return, Take
<1>2. ~Asked(Peer(s))
  BY <1>1, RequestUnderWay
<1> QED
  BY <1>1, <1>2, TurnTo

LEMMA ReturnKeeps ==
  ASSUME IInv, NEW s \in Sides, Return(s)
  PROVE  IInv'
<1> DEFINE p == Peer(s)
           q == Front(stack[s])
<1>1. p \in Sides /\ Peer(p) = s /\ p # s
  BY Peers
<1>2. /\ Answered(s) /\ Waits(s) /\ pipe[p] = <<>>
      /\ pipe' = [pipe EXCEPT ![s] = <<>>]
      /\ stack' = [stack EXCEPT ![s] = q]
      /\ pc' = [pc EXCEPT ![s] = "code"]
      /\ got' = {Response(Incoming(s), Top(s).op)}
  BY ReturnIs DEF Answered, Return, Take
<1>3. /\ pc \in [Sides -> {"code", "receive", "thrown"}] /\ DOMAIN pipe = Sides
      /\ Well(s, stack[s]) /\ Matched(stack[s], stack[p])
      /\ stack[s] \in Seq(Frame) /\ stack[p] \in Seq(Frame)
  BY <1>1 DEF IInv
<1>4. got' \subseteq Results
  BY <1>2, AnswerUnderWay
<1>5. /\ stack[s] # <<>> /\ Len(stack[s]) = Len(stack[p]) + 1 /\ Last(stack[s]).role = "call"
      /\ pc[p] = "receive"
  BY <1>2 DEF Waits, Top
<1>6. Len(q) = Len(stack[s]) - 1 /\ q \in Seq(Frame) /\ Len(stack[s]) \in Nat
  BY <1>3, <1>5, FrontProperties
<1>7. /\ Well(s, q) /\ Matched(q, stack[p])
      /\ IF q = <<>> THEN Last(stack[s]).role = Outermost(s)
                     ELSE Last(q).role # Last(stack[s]).role
  BY <1>3, <1>5, PopWell, MatchedFront
<1>8. IF q = <<>> THEN s = "client" ELSE Last(q).role = "proc"
  <2>1. CASE q = <<>>
    BY <1>5, <1>7, <2>1 DEF Outermost
  <2>2. CASE q # <<>>
    <3>1. Last(q) \in Frame /\ Last(q).role # "call"
      BY <1>5, <1>6, <1>7, <2>2, FrontProperties
    <3> QED
      BY <2>2, <3>1 DEF Frame
  <2> QED
    BY <2>1, <2>2
<1> HIDE DEF q
<1>9. /\ stack' \in [Sides -> Seq(Frame)] /\ stack'[s] = q /\ stack'[p] = stack[p]
      /\ \A t \in Sides : Well(t, stack'[t]) /\ Matched(stack'[t], stack'[Peer(t)])
  BY <1>2, <1>7, StackStep
<1>10. Len(stack'[s]) = Len(stack'[p])
  <2>1. Len(stack[p]) \in Nat
    BY <1>3, LenProperties
  <2> QED
    BY <1>5, <1>6, <1>9, <2>1
<1>11. /\ pc' \in [Sides -> {"code", "receive", "thrown"}]
       /\ pc'[s] = "code" /\ pc'[p] = "receive"
       /\ DOMAIN pipe' = Sides /\ pipe'[s] = <<>> /\ pipe'[p] = <<>>
  BY <1>1, <1>2, <1>3, <1>5
<1>12. Running(s)'
  BY <1>8, <1>9, <1>10, <1>11 DEF Running, Top
<1>13. Turn'
  BY <1>12 DEF Turn
<1> QED
  BY <1>4, <1>9, <1>11, <1>13 DEF IInv

LEMMA ThrowKeeps ==
  ASSUME IInv, NEW s \in Sides, NEW op, ThrowUnknown(s, op)
  PROVE  IInv'
<1>1. Peer(s) \in Sides /\ Peer(s) # s
  BY Peers
<1>2. /\ Running(s) /\ pc' = [pc EXCEPT ![s] = "thrown"]
      /\ stack' = stack /\ pipe' = pipe /\ got' = got
  BY TurnOf DEF ThrowUnknown
<1>3. /\ pc' \in [Sides -> {"code", "receive", "thrown"}]
      /\ pc'[s] = "thrown" /\ pc'[Peer(s)] = "receive"
  BY <1>1, <1>2 DEF IInv, Running
<1>4. Running(s)'
  BY <1>2, <1>3 DEF Running, Top
<1>5. Turn'
  BY <1>4 DEF Turn
<1> QED
  BY <1>2, <1>3, <1>5 DEF IInv

LEMMA StutterKeeps ==
  ASSUME IInv, UNCHANGED vars
  PROVE  IInv'
<1>1. pc' = pc /\ stack' = stack /\ pipe' = pipe /\ got' = got
  BY DEF vars
<1>2. \A s \in Sides : (Running(s)' <=> Running(s)) /\ (Asked(s)' <=> Asked(s)) /\ (Answered(s)' <=> Answered(s))
  BY <1>1 DEF Running, Asked, Answered, Waits, Top
<1>3. Turn'
  BY <1>2 DEF IInv, Turn
<1> QED
  BY <1>1, <1>3 DEF IInv

LEMMA NextKeeps == IInv /\ [Next]_vars => IInv'
<1> SUFFICES ASSUME IInv, [Next]_vars
             PROVE  IInv'
  OBVIOUS
<1>1. ASSUME NEW s \in Sides, NEW op \in CallsOf(s), NEW body \in Bodies, Send(s, op, body)
      PROVE  IInv'
  BY <1>1, SendKeeps
<1>2. ASSUME NEW s \in Sides, NEW op \in Unknown, ThrowUnknown(s, op)
      PROVE  IInv'
  BY <1>2, ThrowKeeps
<1>3. ASSUME NEW s \in Sides, Receive(s)
      PROVE  IInv'
  BY <1>3, ReceiveKeeps
<1>4. ASSUME NEW s \in Sides, NEW d \in Results, Decide(s, d)
      PROVE  IInv'
  BY <1>4, DecideKeeps
<1>5. ASSUME NEW s \in Sides, Reply(s)
      PROVE  IInv'
  BY <1>5, ReplyKeeps
<1>6. ASSUME NEW s \in Sides, Return(s)
      PROVE  IInv'
  BY <1>6, ReturnKeeps
<1>7. CASE UNCHANGED vars
  BY <1>7, StutterKeeps
<1> QED
  BY <1>1, <1>2, <1>3, <1>4, <1>5, <1>6, <1>7 DEF Next, Over

LEMMA Invariance == Spec => []IInv
<1>1. IInv /\ [Next]_vars => IInv'
  BY NextKeeps
<1> QED
  BY <1>1, InitIInv, PTL DEF Spec

------------------------------------------------------------------------------
(* The theorems *)

LEMMA TypesFollow == IInv => TypeOK
<1> SUFFICES ASSUME IInv
             PROVE  TypeOK
  OBVIOUS
<1>1. ASSUME NEW s \in Sides
      PROVE  Len(pipe[s]) <= 1
  <2>1. (\A x : Len(<<x>>) = 1) /\ Len(<<>>) = 0
    OBVIOUS
  <2>2. CASE pipe[s] = <<>>
    BY <2>1, <2>2
  <2>3. CASE pipe[s] # <<>>
    <3>1. \E x : pipe[s] = <<x>>
      BY <2>3, TurnTo, Peers DEF Asked, Answered
    <3> QED
      BY <2>1, <3>1
  <2> QED
    BY <2>2, <2>3
<1>2. pc \in [Sides -> {"code", "receive", "thrown", "lost"}]
  BY DEF IInv
<1> QED
  BY <1>1, <1>2 DEF IInv, TypeOK

\* A pipe holds one message at most, and what calls return are results.
THEOREM TypesStayCorrect == Spec => []TypeOK
BY Invariance, TypesFollow, PTL

\* No message of the tables ever meets the default branch of a switch, and the
\* function that is entered is the one whose call was written: for all tables
\* of the source, any subset of it that is used, any depth.
THEOREM CalleesUnderstand == Spec => []CalleeUnderstands
<1>1. IInv => CalleeUnderstands
  <2> SUFFICES ASSUME IInv
               PROVE  CalleeUnderstands
    OBVIOUS
  <2>1. \A s \in Sides : pc[s] # "lost"
    BY DEF IInv
  <2>2. Matched(stack["client"], stack["server"])
    BY DEF IInv, Sides, Peer
  <2> QED
    BY <2>1, <2>2 DEF CalleeUnderstands, Matched, SameCall
<1> QED
  BY <1>1, Invariance, PTL

\* The reader of a pipe takes exactly the bytes of the message off it, though
\* none of its reads is told a length.
THEOREM EveryReadMeetsItsWrite == Spec => []ReadsMeetWrites
<1>1. IInv => ReadsMeetWrites
  <2> SUFFICES ASSUME IInv, NEW s \in Sides, pipe[s] # <<>>
               PROVE  LET packet == Incoming(s)
                          asked == TypeIn(packet) # "return_"
                          op == IF asked THEN OpcodeIn(packet) ELSE Top(s).op
                          present == Has(AnswerRead(op, FALSE), "present")
                                       /\ Find(packet, op, AnswerRead(op, FALSE), "present") = TRUE
                      IN  packet.len =
                            Total(Layout(op, IF asked THEN FieldsRead(op) ELSE AnswerRead(op, present)), 0)
    BY DEF ReadsMeetWrites
  <2>1. CASE Asked(Peer(s))
    BY <2>1, RequestUnderWay
  <2>2. CASE Answered(s)
    BY <2>2, AnswerUnderWay
  <2> QED
    BY <2>1, <2>2, TurnTo
<1> QED
  BY <1>1, Invariance, PTL

------------------------------------------------------------------------------
(* The open calls, read off two stacks and two pipes *)

CallerIn(st, i) == CHOOSE s \in Sides : i \in DOMAIN st[s] /\ st[s][i].role = "call"

EnteredCall(st, c, i) ==
  CallOf(c, st[c][i].op, Truncate(st[c][i].op, st[c][i].body),
         {st[Peer(c)][i].body}, Sendable(st[c][i].op, st[Peer(c)][i].res), "running")

PendingCall(st, pi, c, i) ==
  CallOf(c, st[c][i].op, Truncate(st[c][i].op, st[c][i].body), {},
         IF pi[c] # <<>> THEN Response(Head(pi[c]), st[c][i].op) ELSE None,
         IF pi[c] # <<>> THEN "answered" ELSE "sent")

CallIn(st, pi, i) ==
  LET c == CallerIn(st, i)
  IN  IF i \in DOMAIN st[Peer(c)] THEN EnteredCall(st, c, i) ELSE PendingCall(st, pi, c, i)

Depth(st) ==
  IF Len(st["client"]) >= Len(st["server"]) THEN Len(st["client"]) ELSE Len(st["server"])

CallsIn(st, pi) == [i \in 1 .. Depth(st) |-> CallIn(st, pi, i)]

LEMMA OpenCallsIn == OpenCalls = CallsIn(stack, pipe)
<1>1. ASSUME NEW i
      PROVE  CallAt(i) = CallIn(stack, pipe, i)
  <2>1. Caller(i) = CallerIn(stack, i)
    BY DEF Caller, CallerIn
  <2>2. CASE i \in DOMAIN stack[Peer(Caller(i))]
    BY <2>1, <2>2 DEF CallAt, CallIn, EnteredCall, CallOf
  <2>3. CASE i \notin DOMAIN stack[Peer(Caller(i))]
    BY <2>1, <2>3 DEF CallAt, CallIn, PendingCall, CallOf, Incoming
  <2> QED
    BY <2>2, <2>3
<1> QED
  BY <1>1 DEF OpenCalls, CallsIn, Depth

LEMMA OpenCallsNext == OpenCalls' = CallsIn(stack', pipe')
<1>1. ASSUME NEW i
      PROVE  CallAt(i)' = CallIn(stack', pipe', i)
  <2>1. Caller(i)' = CallerIn(stack', i)
    BY DEF Caller, CallerIn
  <2>2. CASE i \in DOMAIN stack'[Peer(Caller(i)')]
    BY <2>1, <2>2 DEF CallAt, CallIn, EnteredCall, CallOf
  <2>3. CASE i \notin DOMAIN stack'[Peer(Caller(i)')]
    BY <2>1, <2>3 DEF CallAt, CallIn, PendingCall, CallOf, Incoming
  <2> QED
    BY <2>2, <2>3
<1> QED
  BY <1>1 DEF OpenCalls, CallsIn, Depth

LEMMA CallIs ==
  ASSUME NEW st, NEW pi, NEW i, NEW c \in Sides,
         i \in DOMAIN st[c], st[c][i].role = "call",
         i \in DOMAIN st[Peer(c)] => st[Peer(c)][i].role # "call"
  PROVE  CallIn(st, pi, i) = IF i \in DOMAIN st[Peer(c)] THEN EnteredCall(st, c, i)
                             ELSE PendingCall(st, pi, c, i)
<1>1. \A s \in Sides : s = c \/ s = Peer(c)
  BY DEF Sides, Peer
<1>2. CallerIn(st, i) = c
  BY <1>1 DEF CallerIn
<1> QED
  BY <1>2 DEF CallIn

\* Both stacks have their frame i in common with two others.
SameFrames(st, st2, i) ==
  \A t \in Sides : i \in DOMAIN st[t] /\ i \in DOMAIN st2[t] /\ st2[t][i] = st[t][i]

\* One of the two frames i is the caller's, the other the callee's.
Opposite(st, i) ==
  \E c \in Sides : Peer(c) \in Sides /\ st[c][i].role = "call" /\ st[Peer(c)][i].role # "call"

\* A call that its callee has entered is read off the two frames alone.
LEMMA CallKept ==
  ASSUME NEW st, NEW pi, NEW st2, NEW pi2, NEW i, SameFrames(st, st2, i), Opposite(st, i)
  PROVE  CallIn(st2, pi2, i) = CallIn(st, pi, i)
<1>2. PICK c \in Sides : st[c][i].role = "call" /\ st[Peer(c)][i].role # "call" /\ Peer(c) \in Sides
  BY DEF Opposite
<1>3. CallIn(st, pi, i) = EnteredCall(st, c, i)
  BY <1>2, CallIs DEF SameFrames
<1>4. CallIn(st2, pi2, i) = EnteredCall(st2, c, i)
  BY <1>2, CallIs DEF SameFrames
<1> QED
  BY <1>2, <1>3, <1>4 DEF EnteredCall, SameFrames

\* Two states have their n outermost calls in common.
SameBelow(st, pi, st2, pi2, n) ==
  \A i \in 1 .. n : CallIn(st2, pi2, i) = CallIn(st, pi, i)

LEMMA CallsPushed ==
  ASSUME NEW st, NEW pi, NEW st2, NEW pi2, NEW n \in Nat,
         Depth(st) = n, Depth(st2) = n + 1,
         SameBelow(st, pi, st2, pi2, n)
  PROVE  /\ CallsIn(st2, pi2) = Append(CallsIn(st, pi), CallIn(st2, pi2, n + 1))
         /\ CallsIn(st, pi) = Front(CallsIn(st2, pi2))
         /\ Last(CallsIn(st2, pi2)) = CallIn(st2, pi2, n + 1)
         /\ CallsIn(st2, pi2) # <<>>
<1> DEFINE f == CallsIn(st, pi)
           g == CallsIn(st2, pi2)
<1>1. f = [i \in 1 .. n |-> CallIn(st, pi, i)] /\ g = [i \in 1 .. n + 1 |-> CallIn(st2, pi2, i)]
  BY DEF CallsIn
<1> HIDE DEF f, g
<1> DEFINE S == {g[i] : i \in 1 .. n + 1}
<1>2. \A i \in 1 .. n : g[i] = f[i]
  BY <1>1 DEF SameBelow
<1>3. f \in [1 .. n -> S] /\ g \in [1 .. n + 1 -> S]
  <2>1. g \in [1 .. n + 1 -> S]
    BY <1>1
  <2>2. \A i \in 1 .. n : f[i] \in S
    BY <1>2
  <2> HIDE DEF S
  <2>3. f \in [1 .. n -> S]
    BY <1>1, <2>2
  <2> QED
    BY <2>1, <2>3
<1> HIDE DEF S
<1>4. g[n + 1] = CallIn(st2, pi2, n + 1)
  BY <1>1
<1>5. /\ g = Append(f, g[n + 1]) /\ f = Front(g) /\ Last(g) = g[n + 1] /\ g # <<>>
  <2>1. Extends(n, f, g)
    BY <1>2, <1>3 DEF Extends
  <2> QED
    BY <2>1, LongerFunction
<1> QED
  BY <1>4, <1>5 DEF f, g

LEMMA CallsReplaced ==
  ASSUME NEW st, NEW pi, NEW st2, NEW pi2, NEW n \in Nat,
         Depth(st) = n + 1, Depth(st2) = n + 1,
         SameBelow(st, pi, st2, pi2, n)
  PROVE  /\ CallsIn(st2, pi2) = Append(Front(CallsIn(st, pi)), CallIn(st2, pi2, n + 1))
         /\ Last(CallsIn(st, pi)) = CallIn(st, pi, n + 1)
         /\ CallsIn(st, pi) # <<>>
<1> DEFINE f == [i \in 1 .. n |-> CallIn(st, pi, i)]
           g == CallsIn(st, pi)
           h == CallsIn(st2, pi2)
<1>1. g = [i \in 1 .. n + 1 |-> CallIn(st, pi, i)] /\ h = [i \in 1 .. n + 1 |-> CallIn(st2, pi2, i)]
  BY DEF CallsIn
<1>2. f = [i \in 1 .. n |-> f[i]] /\ \A i \in 1 .. n : f[i] = CallIn(st, pi, i)
  OBVIOUS
<1> HIDE DEF f, g, h
<1> DEFINE S == {g[i] : i \in 1 .. n + 1} \cup {h[i] : i \in 1 .. n + 1}
<1>4. \A i \in 1 .. n : g[i] = f[i] /\ h[i] = f[i]
  BY <1>1, <1>2 DEF SameBelow
<1>3. f \in [1 .. n -> S] /\ g \in [1 .. n + 1 -> S] /\ h \in [1 .. n + 1 -> S]
  <2>1. g \in [1 .. n + 1 -> S] /\ h \in [1 .. n + 1 -> S]
    BY <1>1
  <2>2. \A i \in 1 .. n : f[i] \in S
    BY <1>4
  <2> HIDE DEF S
  <2>3. f \in [1 .. n -> S]
    BY <1>2, <2>2
  <2> QED
    BY <2>1, <2>3
<1> HIDE DEF S
<1>5. h[n + 1] = CallIn(st2, pi2, n + 1) /\ g[n + 1] = CallIn(st, pi, n + 1)
  BY <1>1
<1>6. Extends(n, f, g) /\ Extends(n, f, h)
  BY <1>3, <1>4 DEF Extends
<1>7. f = Front(g) /\ Last(g) = g[n + 1] /\ g # <<>> /\ h = Append(f, h[n + 1])
  BY <1>6, LongerFunction
<1> QED
  BY <1>5, <1>7 DEF g, h

LEMMA NoCalls ==
  ASSUME NEW st, NEW pi, Depth(st) = 0
  PROVE  CallsIn(st, pi) = <<>>
<1>1. CallsIn(st, pi) \in [1 .. 0 -> {}]
  BY DEF CallsIn
<1>2. 0 \in Nat
  OBVIOUS
<1>3. CallsIn(st, pi) \in Seq({}) /\ Len(CallsIn(st, pi)) = 0
  BY <1>1, <1>2, SeqDef, LenProperties
<1> QED
  BY <1>3, EmptySeq

LEMMA DepthIs ==
  ASSUME NEW st, NEW s \in Sides, NEW n \in Nat, Len(st[s]) = n,
         Len(st[Peer(s)]) \in Nat, Len(st[Peer(s)]) = n \/ Len(st[Peer(s)]) + 1 = n
  PROVE  Depth(st) = n
<1>1. (s = "client" /\ Peer(s) = "server") \/ (s = "server" /\ Peer(s) = "client")
  BY DEF Sides, Peer
<1> QED
  BY <1>1 DEF Depth

\* What was below stays as it is.
LEMMA BelowKept ==
  ASSUME IInv, NEW st, NEW pi, NEW n \in Nat, \A i \in 1 .. n : SameFrames(stack, st, i)
  PROVE  SameBelow(stack, pipe, st, pi, n)
<1> SUFFICES ASSUME NEW i \in 1 .. n
             PROVE  CallIn(st, pi, i) = CallIn(stack, pipe, i)
  BY DEF SameBelow
<1> DEFINE c == "client"
           s == "server"
<1>1. c \in Sides /\ s \in Sides /\ Peer(c) = s /\ Peer(s) = c
  BY DEF Sides, Peer
<1>2. SameFrames(stack, st, i)
  OBVIOUS
<1>3. i \in DOMAIN stack[c] /\ i \in DOMAIN stack[s]
  BY <1>1, <1>2 DEF SameFrames
<1>4. stack[c] \in Seq(Frame) /\ stack[s] \in Seq(Frame) /\ Matched(stack[c], stack[s])
  BY <1>1 DEF IInv
<1>5. stack[c][i] \in Frame /\ stack[s][i] \in Frame /\ stack[c][i].role # stack[s][i].role
  BY <1>3, <1>4, ElementOfSeq, LenProperties DEF Matched, SameCall
<1>6. \/ stack[c][i].role = "call" /\ stack[s][i].role # "call"
      \/ stack[s][i].role = "call" /\ stack[c][i].role # "call"
  BY <1>5 DEF Frame
<1>7. Opposite(stack, i)
  BY <1>1, <1>6 DEF Opposite
<1> QED
  BY <1>2, <1>7, CallKept

LEMMA EnteredIs ==
  ASSUME NEW st, NEW pi, NEW s \in Sides, NEW n \in Nat,
         st[s] \in Seq(Frame), st[Peer(s)] \in Seq(Frame),
         Len(st[s]) = n + 1, Len(st[Peer(s)]) = n + 1,
         st[s][n + 1].role = "proc", st[Peer(s)][n + 1].role = "call"
  PROVE  Depth(st) = n + 1 /\ CallIn(st, pi, n + 1) = EnteredCall(st, Peer(s), n + 1)
<1>1. n + 1 \in Nat /\ n + 1 \in 1 .. n + 1
  OBVIOUS
<1>2. n + 1 \in DOMAIN st[s] /\ n + 1 \in DOMAIN st[Peer(s)]
  BY <1>1, LenProperties
<1>3. Depth(st) = n + 1
  BY <1>1, DepthIs
<1>4. Peer(s) \in Sides /\ Peer(Peer(s)) = s /\ st[s][n + 1].role # "call"
  BY Peers
<1>5. CallIn(st, pi, n + 1) = EnteredCall(st, Peer(s), n + 1)
  BY <1>2, <1>4, CallIs
<1> QED
  BY <1>3, <1>5

LEMMA PendingIs ==
  ASSUME NEW st, NEW pi, NEW s \in Sides, NEW n \in Nat,
         st[s] \in Seq(Frame), st[Peer(s)] \in Seq(Frame),
         Len(st[s]) = n + 1, Len(st[Peer(s)]) = n, st[s][n + 1].role = "call"
  PROVE  Depth(st) = n + 1 /\ CallIn(st, pi, n + 1) = PendingCall(st, pi, s, n + 1)
<1>1. n + 1 \in Nat /\ n + 1 \in 1 .. n + 1 /\ n + 1 \notin 1 .. n
  OBVIOUS
<1>2. n + 1 \in DOMAIN st[s] /\ n + 1 \notin DOMAIN st[Peer(s)]
  BY <1>1, LenProperties
<1>3. Depth(st) = n + 1
  BY <1>1, DepthIs
<1>4. CallIn(st, pi, n + 1) = PendingCall(st, pi, s, n + 1)
  BY <1>2, CallIs
<1> QED
  BY <1>3, <1>4

------------------------------------------------------------------------------
(* Every step is a step of the one thread, or none *)

LEMMA SameOperators ==
  /\ \A q : Abstract!Last(q) = Last(q) /\ Abstract!Front(q) = Front(q)
  /\ \A s : Abstract!Peer(s) = Peer(s)
  /\ Abstract!Sides = Sides
BY DEF Abstract!Last, Last, Abstract!Front, Front, Abstract!Peer, Peer, Abstract!Sides, Sides

\* The innermost of the calls before and after a step that leaves their number.
LEMMA InnermostReplaced ==
  ASSUME NEW n \in Nat, Depth(stack) = n + 1, Depth(stack') = n + 1,
         SameBelow(stack, pipe, stack', pipe', n)
  PROVE  /\ OpenCalls' = Append(Front(OpenCalls), CallIn(stack', pipe', n + 1))
         /\ Abstract!Top = CallIn(stack, pipe, n + 1) /\ OpenCalls # <<>>
BY CallsReplaced, OpenCallsIn, OpenCallsNext, SameOperators DEF Abstract!Top

LEMMA InnermostIs ==
  ASSUME NEW n \in Nat, Depth(stack) = n + 1
  PROVE  Abstract!Top = CallIn(stack, pipe, n + 1) /\ OpenCalls # <<>>
<1>1. SameBelow(stack, pipe, stack, pipe, n)
  BY DEF SameBelow
<1>2. Last(CallsIn(stack, pipe)) = CallIn(stack, pipe, n + 1) /\ CallsIn(stack, pipe) # <<>>
  BY <1>1, CallsReplaced
<1> QED
  BY <1>2, OpenCallsIn, SameOperators DEF Abstract!Top

\* A running side is in the innermost call, or is the client in none.
LEMMA WhenRunning ==
  ASSUME IInv, NEW s \in Sides, Running(s)
  PROVE  LET p == Peer(s)
             n == Len(stack[s])
         IN  /\ n \in Nat /\ Len(stack[p]) = n /\ Depth(stack) = n
             /\ stack[s] \in Seq(Frame) /\ stack[p] \in Seq(Frame)
             /\ DOMAIN stack[s] = 1 .. n /\ DOMAIN stack[p] = 1 .. n
             /\ Abstract!Runs(s)
             /\ stack[s] # <<>> =>
                  /\ n >= 1 /\ Top(s) = stack[s][n] /\ Top(s) \in Frame
                  /\ stack[p][n].role = "call" /\ stack[p][n].op = Top(s).op
                  /\ CallIn(stack, pipe, n) = EnteredCall(stack, p, n)
<1> DEFINE p == Peer(s)
           n == Len(stack[s])
<1>1. p \in Sides /\ Peer(p) = s /\ p # s
  BY Peers
<1>2. /\ stack[s] \in Seq(Frame) /\ stack[p] \in Seq(Frame) /\ Len(stack[p]) = n
      /\ Matched(stack[s], stack[p])
      /\ IF stack[s] = <<>> THEN s = "client" ELSE Top(s).role = "proc"
  BY <1>1 DEF IInv, Running
<1>3. n \in Nat /\ DOMAIN stack[s] = 1 .. n /\ DOMAIN stack[p] = 1 .. n
  BY <1>2, LenProperties
<1>4. Depth(stack) = n
  BY <1>2, <1>3, DepthIs
<1>5. CASE stack[s] = <<>>
  <2>1. n = 0
    BY <1>5
  <2>2. OpenCalls = <<>>
    BY <1>4, <2>1, NoCalls, OpenCallsIn
  <2>3. Abstract!Runs(s)
    BY <1>2, <1>5, <2>2 DEF Abstract!Runs
  <2> QED
    BY <1>2, <1>3, <1>4, <1>5, <2>3
<1>6. CASE stack[s] # <<>>
  <2>1. n >= 1 /\ Top(s) = stack[s][n] /\ Top(s) \in Frame
    BY <1>2, <1>6, FrontProperties DEF Top
  <2>2. n \in DOMAIN stack[s] /\ n \in DOMAIN stack[p] /\ stack[s][n].role = "proc"
    BY <1>2, <1>3, <1>6, <2>1
  <2>3. stack[p][n] \in Frame /\ SameCall(stack[s][n], stack[p][n])
    BY <1>2, <2>2, <1>3, ElementOfSeq DEF Matched
  <2>4. stack[p][n].role = "call" /\ stack[p][n].op = Top(s).op
    BY <2>1, <2>2, <2>3 DEF SameCall, Frame
  <2>5. n - 1 \in Nat /\ (n - 1) + 1 = n
    BY <1>3, <2>1
  <2>6. CallIn(stack, pipe, n) = EnteredCall(stack, p, n)
    <3>1. Len(stack[s]) = (n - 1) + 1 /\ Len(stack[p]) = (n - 1) + 1
          /\ stack[s][(n - 1) + 1].role = "proc" /\ stack[p][(n - 1) + 1].role = "call"
      BY <1>2, <2>2, <2>4, <2>5
    <3>2. CallIn(stack, pipe, (n - 1) + 1) = EnteredCall(stack, p, (n - 1) + 1)
      <4> HIDE DEF n, p
      <4> QED
        BY <1>2, <2>5, <3>1, EnteredIs DEF p
    <3> QED
      BY <2>5, <3>2
  <2>7. Abstract!Top = EnteredCall(stack, p, n) /\ OpenCalls # <<>>
    <3>1. Depth(stack) = (n - 1) + 1
      BY <1>4, <2>5
    <3>2. Abstract!Top = CallIn(stack, pipe, (n - 1) + 1) /\ OpenCalls # <<>>
      <4> HIDE DEF n
      <4> QED
        BY <2>5, <3>1, InnermostIs
    <3> QED
      BY <2>5, <2>6, <3>2
  <2>8. Abstract!Runs(s)
    <3>1. Abstract!Top.stage = "running" /\ Abstract!Top.by = p
      BY <2>7 DEF EnteredCall, CallOf
    <3> QED
      BY <2>7, <3>1, SameOperators DEF Abstract!Runs
  <2> QED
    BY <1>2, <1>3, <1>4, <2>1, <2>4, <2>6, <2>8
<1> QED
  BY <1>5, <1>6

\* A waiting side waits for the innermost call.
LEMMA WhenWaiting ==
  ASSUME IInv, NEW s \in Sides, Waits(s)
  PROVE  LET p == Peer(s)
             n == Len(stack[p])
         IN  /\ n \in Nat /\ Len(stack[s]) = n + 1 /\ Depth(stack) = n + 1
             /\ stack[s] \in Seq(Frame) /\ stack[p] \in Seq(Frame)
             /\ DOMAIN stack[s] = 1 .. n + 1 /\ DOMAIN stack[p] = 1 .. n
             /\ Top(s) = stack[s][n + 1] /\ Top(s) \in Frame
             /\ stack[s][n + 1].role = "call"
             /\ Abstract!Top = PendingCall(stack, pipe, s, n + 1) /\ OpenCalls # <<>>
<1> DEFINE p == Peer(s)
           n == Len(stack[p])
<1>1. p \in Sides /\ Peer(p) = s /\ p # s
  BY Peers
<1>2. /\ stack[s] \in Seq(Frame) /\ stack[p] \in Seq(Frame) /\ Len(stack[s]) = n + 1
      /\ stack[s] # <<>> /\ Top(s).role = "call"
  BY <1>1 DEF IInv, Waits
<1>3. n \in Nat /\ DOMAIN stack[s] = 1 .. n + 1 /\ DOMAIN stack[p] = 1 .. n
  BY <1>2, LenProperties
<1>4. Top(s) = stack[s][n + 1] /\ Top(s) \in Frame
  BY <1>2, FrontProperties DEF Top
<1>5. stack[s][n + 1].role = "call"
  BY <1>2, <1>4
<1>6. Depth(stack) = n + 1 /\ CallIn(stack, pipe, n + 1) = PendingCall(stack, pipe, s, n + 1)
  BY <1>2, <1>3, <1>5, PendingIs
<1>7. Abstract!Top = PendingCall(stack, pipe, s, n + 1) /\ OpenCalls # <<>>
  BY <1>3, <1>6, InnermostIs
<1> QED
  BY <1>2, <1>3, <1>4, <1>5, <1>6, <1>7

LEMMA SendRefines ==
  ASSUME IInv, NEW s \in Sides, NEW op \in CallsOf(s), NEW body \in Bodies, Send(s, op, body)
  PROVE  Abstract!Send(s, op, Truncate(op, body))
<1> DEFINE p == Peer(s)
           n == Len(stack[s])
           f == [role |-> "call", op |-> op, body |-> body, res |-> None]
<1>1. p \in Sides /\ Peer(p) = s /\ p # s
  BY Peers
<1>2. /\ Running(s) /\ pipe[s] = <<>> /\ DOMAIN pipe = Sides
      /\ stack \in [Sides -> Seq(Frame)]
      /\ stack' = [stack EXCEPT ![s] = Append(@, f)]
      /\ pipe' = [pipe EXCEPT ![p] = Append(@, Request(op, body))] /\ got' = {}
  BY TurnOf DEF IInv, Running, Send, Transmit, Request, RequestValues
<1>3. f \in Frame /\ f.role = "call" /\ f.op = op /\ f.body = body
  BY Tables, BodyTypes DEF Frame
<1> HIDE DEF f
<1>4. /\ n \in Nat /\ Len(stack[p]) = n /\ Depth(stack) = n
      /\ stack[s] \in Seq(Frame) /\ stack[p] \in Seq(Frame)
      /\ DOMAIN stack[s] = 1 .. n /\ DOMAIN stack[p] = 1 .. n
      /\ Abstract!Runs(s)
  BY <1>2, WhenRunning
<1>5. stack'[s] = Append(stack[s], f) /\ stack'[p] = stack[p] /\ pipe'[s] = <<>>
  BY <1>1, <1>2
<1>6. /\ stack'[s] \in Seq(Frame) /\ Len(stack'[s]) = n + 1 /\ DOMAIN stack'[s] = 1 .. n + 1
      /\ \A i \in 1 .. n : stack'[s][i] = stack[s][i]
      /\ stack'[s][n + 1] = f
  BY <1>3, <1>4, <1>5, AppendedProperties
<1>7. /\ Depth(stack') = n + 1
      /\ CallIn(stack', pipe', n + 1) = PendingCall(stack', pipe', s, n + 1)
  BY <1>3, <1>4, <1>5, <1>6, PendingIs
<1>8. \A i \in 1 .. n : SameFrames(stack, stack', i)
  <2>1. \A i \in 1 .. n : i \in 1 .. n + 1
    BY <1>4
  <2> QED
    BY <1>4, <1>5, <1>6, <2>1, Peers DEF SameFrames
<1>9. SameBelow(stack, pipe, stack', pipe', n)
  BY <1>4, <1>8, BelowKept
<1>10. OpenCalls' = Append(OpenCalls, CallIn(stack', pipe', n + 1))
  BY <1>4, <1>7, <1>9, CallsPushed, OpenCallsIn, OpenCallsNext
<1>11. CallIn(stack', pipe', n + 1)
         = [by |-> s, msg |-> op, arg |-> Truncate(op, body), seen |-> {},
            res |-> None, stage |-> "sent"]
  BY <1>3, <1>5, <1>6, <1>7 DEF PendingCall, CallOf
<1> QED
  BY <1>2, <1>4, <1>10, <1>11 DEF Abstract!Send

\* The callee has the fields its message has in its hands, and nothing else.
LEMMA ReceiveRefines ==
  ASSUME IInv, NEW s \in Sides, Receive(s)
  PROVE  Abstract!Accept
<1> DEFINE p == Peer(s)
           n == Len(stack[s])
           f == Top(p)
           g == Entered(f)
           d == Truncate(f.op, f.body)
<1>1. p \in Sides /\ Peer(p) = s /\ p # s
  BY Peers
<1>2. /\ Asked(p) /\ Waits(p) /\ pipe[p] = <<>> /\ g \in Frame
      /\ stack' = [stack EXCEPT ![s] = Append(@, g)]
      /\ stack \in [Sides -> Seq(Frame)] /\ got' = {}
  BY ReceiveIs DEF IInv, Receive, Asked
<1>3. /\ n \in Nat /\ Len(stack[p]) = n + 1 /\ Depth(stack) = n + 1
      /\ stack[s] \in Seq(Frame) /\ stack[p] \in Seq(Frame)
      /\ DOMAIN stack[p] = 1 .. n + 1 /\ DOMAIN stack[s] = 1 .. n
      /\ f = stack[p][n + 1] /\ stack[p][n + 1].role = "call"
      /\ Abstract!Top = PendingCall(stack, pipe, p, n + 1) /\ OpenCalls # <<>>
  BY <1>1, <1>2, WhenWaiting
<1>4. g.role = "proc" /\ g.body = d /\ g.res = None
  BY DEF Entered
<1> HIDE DEF g, f
<1>5. stack'[s] = Append(stack[s], g) /\ stack'[p] = stack[p]
  BY <1>1, <1>2
<1>6. /\ stack'[s] \in Seq(Frame) /\ Len(stack'[s]) = n + 1 /\ DOMAIN stack'[s] = 1 .. n + 1
      /\ \A i \in 1 .. n : stack'[s][i] = stack[s][i]
      /\ stack'[s][n + 1] = g
  BY <1>2, <1>3, <1>5, AppendedProperties
<1>7. /\ Depth(stack') = n + 1
      /\ CallIn(stack', pipe', n + 1) = EnteredCall(stack', p, n + 1)
  <2>1. /\ stack'[p] \in Seq(Frame) /\ Len(stack'[p]) = n + 1
        /\ stack'[p][n + 1].role = "call"
    BY <1>3, <1>5
  <2>2. stack'[s][n + 1].role = "proc"
    BY <1>4, <1>6
  <2> QED
    BY <1>3, <1>6, <2>1, <2>2, EnteredIs
<1>8. \A i \in 1 .. n : SameFrames(stack, stack', i)
  <2>1. \A i \in 1 .. n : i \in 1 .. n + 1
    BY <1>3
  <2> QED
    BY <1>3, <1>5, <1>6, <2>1, Peers DEF SameFrames
<1>9. SameBelow(stack, pipe, stack', pipe', n)
  BY <1>3, <1>8, BelowKept
<1>10. OpenCalls' = Append(Front(OpenCalls), CallIn(stack', pipe', n + 1))
  BY <1>3, <1>7, <1>9, InnermostReplaced
<1>11. Sendable(f.op, None) = None
  BY DEF Sendable
<1>12. /\ Abstract!Top = CallOf(p, f.op, d, {}, None, "sent")
       /\ CallIn(stack', pipe', n + 1) = CallOf(p, f.op, d, {d}, None, "running")
  BY <1>1, <1>2, <1>3, <1>4, <1>5, <1>6, <1>7, <1>11 DEF PendingCall, EnteredCall
<1> HIDE DEF d
<1>13. Abstract!Top.arg = d /\ Abstract!Top.stage = "sent"
  BY <1>12 DEF CallOf
<1>14. Moving(Abstract!Top, {Abstract!Top.arg}, "running") = CallIn(stack', pipe', n + 1)
  <2>1. Moving(CallOf(p, f.op, d, {}, None, "sent"), {d}, "running")
          = CallOf(p, f.op, d, {d}, None, "running")
    BY Moved
  <2> QED
    BY <1>12, <1>13, <2>1
<1>15. [Abstract!Top EXCEPT !.seen = {Abstract!Top.arg}, !.stage = "running"]
         = CallIn(stack', pipe', n + 1)
  BY <1>14 DEF Moving
<1> QED
  BY <1>2, <1>3, <1>10, <1>13, <1>15, SameOperators DEF Abstract!Accept, Abstract!ReplaceTop

\* A result that the message does not carry is none.
LEMMA DecideRefines ==
  ASSUME IInv, NEW s \in Sides, NEW d \in Results, Decide(s, d)
  PROVE  Abstract!Decide(Sendable(Top(s).op, d))
<1> DEFINE p == Peer(s)
           n == Len(stack[s])
           f == Top(s)
           g == [f EXCEPT !.res = d]
           x == Sendable(f.op, d)
<1>1. p \in Sides /\ Peer(p) = s /\ p # s
  BY Peers
<1>2. /\ Running(s) /\ stack[s] # <<>> /\ f.res = None
      /\ stack \in [Sides -> Seq(Frame)]
      /\ stack' = [stack EXCEPT ![s] = Append(Front(@), g)] /\ got' = {} /\ pipe' = pipe
  BY TurnOf DEF IInv, Decide, Top
<1>3. /\ n \in Nat /\ n >= 1 /\ Len(stack[p]) = n /\ Depth(stack) = n
      /\ stack[s] \in Seq(Frame) /\ stack[p] \in Seq(Frame)
      /\ DOMAIN stack[s] = 1 .. n /\ DOMAIN stack[p] = 1 .. n
      /\ f = stack[s][n] /\ f \in Frame /\ f.role = "proc"
      /\ stack[p][n].role = "call" /\ stack[p][n].op = f.op
      /\ CallIn(stack, pipe, n) = EnteredCall(stack, p, n)
  BY <1>2, WhenRunning DEF Running
<1>4. g \in Frame /\ g.role = "proc" /\ g.body = f.body /\ g.res = d
  BY <1>3 DEF Frame
<1> HIDE DEF g, f
<1>5. stack'[s] = Append(Front(stack[s]), g) /\ stack'[p] = stack[p]
  BY <1>1, <1>2
<1>6. /\ Front(stack[s]) \in Seq(Frame) /\ Len(Front(stack[s])) = n - 1
      /\ \A i \in 1 .. n - 1 : Front(stack[s])[i] = stack[s][i]
  BY <1>2, <1>3, FrontProperties
<1> DEFINE k == n - 1
<1>7. k \in Nat /\ k + 1 = n
  BY <1>3
<1> HIDE DEF k, n
<1>8. /\ stack'[s] \in Seq(Frame) /\ Len(stack'[s]) = k + 1 /\ DOMAIN stack'[s] = 1 .. k + 1
      /\ \A i \in 1 .. k : stack'[s][i] = stack[s][i]
      /\ stack'[s][k + 1] = g
  <2>1. Len(Front(stack[s])) = k /\ \A i \in 1 .. k : Front(stack[s])[i] = stack[s][i]
    BY <1>6 DEF k
  <2> QED
    BY <1>4, <1>5, <1>6, <2>1, AppendedProperties
<1>9. /\ Depth(stack') = k + 1
      /\ CallIn(stack', pipe', k + 1) = EnteredCall(stack', p, k + 1)
  <2>1. /\ stack'[p] \in Seq(Frame) /\ Len(stack'[p]) = k + 1
        /\ stack'[p][k + 1].role = "call"
    BY <1>3, <1>5, <1>7
  <2>2. /\ stack'[s] \in Seq(Frame) /\ Len(stack'[s]) = k + 1
        /\ stack'[s][k + 1].role = "proc"
    BY <1>4, <1>8
  <2> QED
    BY <1>1, <1>7, <2>1, <2>2, EnteredIs
<1>10. \A i \in 1 .. k : SameFrames(stack, stack', i)
  <2>1. \A i \in 1 .. k : i \in 1 .. n /\ i \in 1 .. k + 1
    BY <1>7
  <2> QED
    BY <1>3, <1>5, <1>8, <2>1, Peers DEF SameFrames
<1>11. SameBelow(stack, pipe, stack', pipe', k)
  BY <1>7, <1>10, BelowKept
<1>12. /\ OpenCalls' = Append(Front(OpenCalls), CallIn(stack', pipe', k + 1))
       /\ Abstract!Top = CallIn(stack, pipe, k + 1) /\ OpenCalls # <<>>
  BY <1>3, <1>7, <1>9, <1>11, InnermostReplaced
<1>13. Sendable(f.op, None) = None
  BY DEF Sendable
<1> DEFINE c == stack[p][n]
           a == Truncate(c.op, c.body)
<1>14. Abstract!Top = CallOf(p, c.op, a, {f.body}, None, "running")
  BY <1>1, <1>2, <1>3, <1>7, <1>12, <1>13 DEF EnteredCall
<1>15. CallIn(stack', pipe', k + 1) = CallOf(p, c.op, a, {f.body}, x, "running")
  BY <1>1, <1>3, <1>4, <1>5, <1>7, <1>8, <1>9 DEF EnteredCall
<1> HIDE DEF c, a, x
<1>16. Abstract!Top.stage = "running" /\ Abstract!Top.res = None
  BY <1>14 DEF CallOf
<1>17. [Abstract!Top EXCEPT !.res = x] = CallIn(stack', pipe', k + 1)
  BY <1>14, <1>15 DEF CallOf
<1>18. Abstract!Decide(x)
  BY <1>2, <1>12, <1>16, <1>17, SameOperators DEF Abstract!Decide, Abstract!ReplaceTop
<1> QED
  BY <1>18 DEF x, f

LEMMA ReplyRefines ==
  ASSUME IInv, NEW s \in Sides, Reply(s)
  PROVE  Abstract!Answer
<1> DEFINE p == Peer(s)
           n == Len(stack[s])
           f == Top(s)
           packet == Answer(f.op, f.res)
           x == Sendable(f.op, f.res)
<1>1. p \in Sides /\ Peer(p) = s /\ p # s
  BY Peers
<1>2. /\ Running(s) /\ stack[s] # <<>> /\ f.res \in Results
      /\ pipe[p] = <<>> /\ DOMAIN pipe = Sides
      /\ stack \in [Sides -> Seq(Frame)]
      /\ pipe' = [pipe EXCEPT ![p] = Append(@, packet)]
      /\ stack' = [stack EXCEPT ![s] = Front(@)] /\ got' = {}
  BY ReplyIs DEF IInv, Reply, Running
<1>3. /\ n \in Nat /\ n >= 1 /\ Len(stack[p]) = n /\ Depth(stack) = n
      /\ stack[s] \in Seq(Frame) /\ stack[p] \in Seq(Frame)
      /\ DOMAIN stack[s] = 1 .. n /\ DOMAIN stack[p] = 1 .. n
      /\ f = stack[s][n] /\ f \in Frame
      /\ stack[p][n].role = "call" /\ stack[p][n].op = f.op
      /\ CallIn(stack, pipe, n) = EnteredCall(stack, p, n)
  BY <1>2, WhenRunning
<1>4. Response(packet, f.op) = x /\ x # None
  <2>1. Response(packet, f.op) = x
    BY <1>2, AnswerUnderstood
  <2>2. x \in Results
    BY <1>2, AnswersAreResults
  <2> QED
    BY <2>1, <2>2, NullAssumption
<1> HIDE DEF packet, f
<1>5. stack'[s] = Front(stack[s]) /\ stack'[p] = stack[p]
  BY <1>1, <1>2
<1>6. pipe'[p] # <<>> /\ Head(pipe'[p]) = packet
  <2> HIDE DEF p
  <2>1. pipe'[p] = Append(<<>>, packet)
    BY <1>1, <1>2
  <2>2. \A y : Append(<<>>, y) # <<>> /\ Head(Append(<<>>, y)) = y
    OBVIOUS
  <2> QED
    BY <2>1, <2>2
<1>7. /\ Front(stack[s]) \in Seq(Frame) /\ Len(Front(stack[s])) = n - 1
      /\ DOMAIN Front(stack[s]) = 1 .. n - 1
      /\ \A i \in 1 .. n - 1 : Front(stack[s])[i] = stack[s][i]
  BY <1>2, <1>3, FrontProperties
<1> DEFINE k == n - 1
<1>8. k \in Nat /\ k + 1 = n
  BY <1>3
<1>9. /\ Len(stack'[s]) = k /\ DOMAIN stack'[s] = 1 .. k /\ stack'[s] \in Seq(Frame)
      /\ \A i \in 1 .. k : stack'[s][i] = stack[s][i]
  BY <1>5, <1>7
<1> HIDE DEF k, n
<1>10. /\ Depth(stack') = k + 1
       /\ CallIn(stack', pipe', k + 1) = PendingCall(stack', pipe', p, k + 1)
  <2>1. /\ stack'[p] \in Seq(Frame) /\ stack'[Peer(p)] \in Seq(Frame)
        /\ Len(stack'[p]) = k + 1 /\ Len(stack'[Peer(p)]) = k
        /\ stack'[p][k + 1].role = "call"
    BY <1>1, <1>3, <1>5, <1>8, <1>9
  <2> HIDE DEF p
  <2> QED
    BY <1>1, <1>8, <2>1, PendingIs
<1>11. \A i \in 1 .. k : SameFrames(stack, stack', i)
  <2>1. \A i \in 1 .. k : i \in 1 .. n
    BY <1>8
  <2> QED
    BY <1>3, <1>5, <1>9, <2>1, Peers DEF SameFrames
<1>12. SameBelow(stack, pipe, stack', pipe', k)
  BY <1>8, <1>11, BelowKept
<1>13. /\ OpenCalls' = Append(Front(OpenCalls), CallIn(stack', pipe', k + 1))
       /\ Abstract!Top = CallIn(stack, pipe, k + 1) /\ OpenCalls # <<>>
  BY <1>3, <1>8, <1>10, <1>12, InnermostReplaced
<1> DEFINE c == stack[p][n]
           a == Truncate(c.op, c.body)
           seen == {stack[s][n].body}
<1>14. Abstract!Top = CallOf(p, c.op, a, seen, x, "running")
  BY <1>1, <1>3, <1>8, <1>13 DEF EnteredCall
<1>15. CallIn(stack', pipe', k + 1) = CallOf(p, c.op, a, {}, x, "answered")
  BY <1>3, <1>4, <1>5, <1>6, <1>8, <1>10 DEF PendingCall
<1> HIDE DEF c, a, x, seen
<1>16. Abstract!Top.stage = "running" /\ Abstract!Top.res = x
  BY <1>14 DEF CallOf
<1>17. Moving(Abstract!Top, {}, "answered") = CallIn(stack', pipe', k + 1)
  BY <1>14, <1>15, Moved
<1>18. [Abstract!Top EXCEPT !.seen = {}, !.stage = "answered"] = CallIn(stack', pipe', k + 1)
  BY <1>17 DEF Moving
<1> QED
  BY <1>2, <1>4, <1>13, <1>16, <1>18, SameOperators DEF Abstract!Answer, Abstract!ReplaceTop

\* The caller has the result in its hands, and nothing else.
LEMMA ReturnRefines ==
  ASSUME IInv, NEW s \in Sides, Return(s)
  PROVE  Abstract!Deliver
<1> DEFINE p == Peer(s)
           n == Len(stack[p])
           x == Response(Incoming(s), Top(s).op)
<1>1. p \in Sides /\ Peer(p) = s /\ p # s
  BY Peers
<1>2. /\ Answered(s) /\ Waits(s) /\ stack[s] # <<>> /\ pipe[s] # <<>>
      /\ stack \in [Sides -> Seq(Frame)]
      /\ stack' = [stack EXCEPT ![s] = Front(@)] /\ got' = {x}
  BY ReturnIs DEF IInv, Answered, Return, Take
<1>3. /\ n \in Nat /\ Len(stack[s]) = n + 1 /\ Depth(stack) = n + 1
      /\ stack[s] \in Seq(Frame) /\ stack[p] \in Seq(Frame)
      /\ DOMAIN stack[s] = 1 .. n + 1 /\ DOMAIN stack[p] = 1 .. n
      /\ Top(s) = stack[s][n + 1]
      /\ Abstract!Top = PendingCall(stack, pipe, s, n + 1)
  BY <1>2, WhenWaiting
<1>4. /\ Len(Front(stack[s])) = n /\ DOMAIN Front(stack[s]) = 1 .. n
      /\ \A i \in 1 .. n : Front(stack[s])[i] = stack[s][i]
  <2> DEFINE k == Len(stack[s])
  <2>1. /\ Len(Front(stack[s])) = k - 1 /\ DOMAIN Front(stack[s]) = 1 .. k - 1
        /\ \A i \in 1 .. k - 1 : Front(stack[s])[i] = stack[s][i]
    BY <1>2, <1>3, FrontProperties
  <2>2. k - 1 = n
    BY <1>3
  <2> HIDE DEF k
  <2> QED
    BY <2>1, <2>2
<1>5. stack'[s] = Front(stack[s]) /\ stack'[p] = stack[p]
  BY <1>1, <1>2
<1>6. Depth(stack') = n
  BY <1>3, <1>4, <1>5, DepthIs
<1>7. \A i \in 1 .. n : SameFrames(stack, stack', i)
  <2>1. \A i \in 1 .. n : i \in 1 .. n + 1
    BY <1>3
  <2> QED
    BY <1>3, <1>4, <1>5, <2>1, Peers DEF SameFrames
<1>8. SameBelow(stack', pipe', stack, pipe, n)
  <2>1. SameBelow(stack, pipe, stack', pipe', n)
    BY <1>3, <1>7, BelowKept
  <2> QED
    BY <2>1 DEF SameBelow
<1>9. OpenCalls' = Front(OpenCalls) /\ OpenCalls # <<>>
  BY <1>3, <1>6, <1>8, CallsPushed, OpenCallsIn, OpenCallsNext
<1>10. Abstract!Top.stage = "answered" /\ Abstract!Top.res = x
  BY <1>2, <1>3 DEF PendingCall, CallOf, Incoming
<1> QED
  BY <1>2, <1>9, <1>10, SameOperators DEF Abstract!Deliver

LEMMA InitRefines ==
  ASSUME Init
  PROVE  Abstract!Init
<1>1. \A s \in Sides : stack[s] = <<>>
  BY DEF Init
<1>2. Depth(stack) = 0
  BY <1>1 DEF Depth, Sides
<1>3. OpenCalls = <<>>
  BY <1>2, NoCalls, OpenCallsIn
<1> QED
  BY <1>3, SameOperators DEF Abstract!Init, Init, Sides

LEMMA NextRefines ==
  ASSUME IInv, [Next]_vars
  PROVE  [Abstract!Next]_(Abstract!vars)
<1>1. ASSUME NEW s \in Sides, NEW op \in CallsOf(s), NEW body \in Bodies, Send(s, op, body)
      PROVE  Abstract!Next
  <2>1. Abstract!Send(s, op, Truncate(op, body))
    BY <1>1, SendRefines
  <2>2. op \in [t \in Sides |-> CallsOf(t)][s]
    OBVIOUS
  <2>3. Truncate(op, body) \in Arguments
    BY Tables DEF Arguments
  <2> QED
    BY <2>1, <2>2, <2>3, SameOperators DEF Abstract!Next
<1>2. ASSUME NEW s \in Sides, NEW op \in Unknown, ThrowUnknown(s, op)
      PROVE  UNCHANGED Abstract!vars
  <2>1. stack' = stack /\ pipe' = pipe /\ got' = got
    BY <1>2 DEF ThrowUnknown
  <2> QED
    BY <2>1, OpenCallsIn, OpenCallsNext DEF Abstract!vars
<1>3. ASSUME NEW s \in Sides, Receive(s)
      PROVE  Abstract!Next
  BY <1>3, ReceiveRefines DEF Abstract!Next
<1>4. ASSUME NEW s \in Sides, NEW d \in Results, Decide(s, d)
      PROVE  Abstract!Next
  <2>1. Abstract!Decide(Sendable(Top(s).op, d)) /\ Sendable(Top(s).op, d) \in Arguments \cup Results
    BY <1>4, DecideRefines, AnswersAreResults
  <2> QED
    BY <2>1 DEF Abstract!Next
<1>5. ASSUME NEW s \in Sides, Reply(s)
      PROVE  Abstract!Next
  BY <1>5, ReplyRefines DEF Abstract!Next
<1>6. ASSUME NEW s \in Sides, Return(s)
      PROVE  Abstract!Next
  BY <1>6, ReturnRefines DEF Abstract!Next
<1>7. ASSUME UNCHANGED vars
      PROVE  UNCHANGED Abstract!vars
  <2>1. stack' = stack /\ pipe' = pipe /\ got' = got
    BY <1>7 DEF vars
  <2> QED
    BY <2>1, OpenCallsIn, OpenCallsNext DEF Abstract!vars
<1> QED
  BY <1>1, <1>2, <1>3, <1>4, <1>5, <1>6, <1>7 DEF Next, Over

\* What the bytes of the pipes carry is what nested calls of one thread carry:
\* every message arrives with the fields it has and no others, in the function
\* that was meant, and its result, if it has one, at the call that waits.
THEOREM MessagesImplementNestedCalls == Spec => ImplementsNestedCalls
<1>1. Init => IInv /\ Abstract!Init
  BY InitIInv, InitRefines
<1>2. IInv /\ [Next]_vars => IInv'
  BY NextKeeps
<1>3. IInv /\ [Next]_vars => [Abstract!Next]_(Abstract!vars)
  BY NextRefines
<1> QED
  BY <1>1, <1>2, <1>3, PTL DEF Spec, ImplementsNestedCalls, Abstract!Spec
===============================================================================
