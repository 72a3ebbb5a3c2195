----------------------------- MODULE Generator -----------------------------
(***************************************************************************)
(* One run of the protoc plugin over a descriptor pool, and the generated  *)
(* code at work: a generated publisher encodes rows, and a subscriber that *)
(* keeps one row (SubscribeInPlace) decodes each sample into it.           *)
(*                                                                         *)
(* A pool also says which message is the subject of its topic and which    *)
(* rows are published.  A sample may arrive cut short; DecodeInto throws,  *)
(* and the next sample meets what that left in the row.                    *)
(***************************************************************************)
EXTENDS GeneratedCode, FiniteSets

CONSTANTS
  MaxCuts,      \* how many samples arrive cut short
  Invocations   \* the descriptor pools protoc hands over, each with the
                \* --fletcher_opt parameter: a set of flags, and rules

VARIABLES
  parameter,    \* what this run was given
  plugin,       \* its state, the next file, and whether __rba was written
  output,       \* what it wrote, file by file
  sample,       \* the row on the wire: <<>>, or the object, its bytes, cut
  kept          \* the subscriber's row, the object it last decoded whole, and
                \* the number of samples cut short so far

genVars == <<pool, classes, parameter, plugin, output, sample, kept>>

File == pool.files[plugin.next]

\* Both generators accept a method under the same rules, but each with its own
\* set of generated messages.
ValidateServiceMethod(method, generated) ==
  /\ method.client_streaming /\ ~method.server_streaming
  /\ method.returns = "google_protobuf_Empty"
  /\ method.input \in generated

ServiceMethods(file, generated) ==
  SelectSeq(file.methods, LAMBDA s : ValidateServiceMethod(s, generated))

\* A topic is a sequence of segments and a segment a sequence of words; the
\* package is one segment in C++ and one per word in TypeScript.
TopicSegments(file, method) ==
  (IF file.package = <<>> THEN <<>> ELSE <<file.package>>)
    \o <<<<method.service>>, <<method.name>>>>

TsTopic(file, method) ==
  [i \in DOMAIN file.package |-> <<file.package[i]>>] \o <<<<method.service>>, <<method.name>>>>

TopicsOf(file, methods, Topic(_, _)) == [i \in DOMAIN methods |-> Topic(file, methods[i])]

Resolver ==
  IF \E r \in DOMAIN parameter.rules : ~ParseMetadataRule(parameter.rules[r]) THEN <<>>
  ELSE CreateResolver(parameter.rules)

GenerateFile(rules) ==
  LET messages == GeneratedMessages(File)
      methods == ServiceMethods(File, ToSet(messages))
  IN  [file |-> File.name, includes |-> Includes(File), messages |-> messages,
       schemas |-> [m \in ToSet(messages) |-> GenerateSchemaFunction(rules, m)],
       topics |-> IF "schema_only" \in parameter.flags THEN <<>>
                  ELSE TopicsOf(File, methods, TopicSegments),
       published |-> IF "schema_only" \in parameter.flags THEN {}
                     ELSE {methods[i].input : i \in DOMAIN methods}]

GenerateViewFile == IF "schema_only" \in parameter.flags THEN <<>> ELSE GeneratedMessages(File)

GenerateTypeScriptFile ==
  IF "ts" \notin parameter.flags THEN <<>>
  ELSE TopicsOf(File, ServiceMethods(File, ToSet(OrderedMessages(File))), TsTopic)

\* One file's artefacts.  Schemas are those of the header's functions, and of
\* the .ipc files, which the same visitor builds.
Artefacts(rules) ==
  [header |-> GenerateFile(rules), views |-> GenerateViewFile, ts |-> GenerateTypeScriptFile,
   ipc |-> IF "ipc" \in parameter.flags
           THEN [m \in ToSet(GeneratedMessages(File)) |-> VisitSchema(rules, m)] ELSE <<>>]

\* Whether evaluating a rule ends the process.
Dies(artefacts) ==
  \E m \in DOMAIN artefacts.header.schemas :
    LET schema == artefacts.header.schemas[m]
        pairs == ToSet(schema.metadata) \cup
                 UNION {ToSet(schema.columns[i].metadata) : i \in DOMAIN schema.columns}
    IN  \E p \in pairs : ~IsReservedKey(p[1]) /\ p[2] = Died

GenInit ==
  /\ \E i \in Invocations : pool = i.pool /\ parameter = i.parameter
  /\ classes = <<>>
  /\ plugin = [state |-> "running", next |-> 1, rba |-> FALSE]
  /\ output = <<>>
  /\ sample = <<>>
  /\ kept = [row |-> <<>>, last |-> <<>>, cuts |-> 0]

\* A refused file ends the run; no later file is looked at.
GenerateFails ==
  /\ plugin.state = "running" /\ plugin.next <= Len(pool.files)
  /\ \/ ~ValidateNoUnsupportedIr(File)
     \/ Resolver = <<>>
     \/ ~ValidateBackendsSupportFields(File, parameter.flags)
  /\ plugin' = [plugin EXCEPT !.state = "failed"]
  /\ UNCHANGED <<pool, classes, parameter, output, sample, kept>>

Generate ==
  /\ plugin.state = "running" /\ plugin.next <= Len(pool.files)
  /\ ValidateNoUnsupportedIr(File)
  /\ ValidateBackendsSupportFields(File, parameter.flags)
  /\ \E rules \in ToSet(Resolver) : \E artefacts \in {Artefacts(rules)} :
       IF Dies(artefacts)
       THEN plugin' = [plugin EXCEPT !.state = "died"] /\ UNCHANGED <<output, classes>>
       ELSE /\ plugin' = [plugin EXCEPT !.next = @ + 1]
            /\ output' = Append(output, artefacts)
            /\ classes' = [m \in DOMAIN classes \cup ToSet(artefacts.header.messages) |->
                             IF m \in DOMAIN classes THEN classes[m] ELSE GatherFields(m)]
  /\ UNCHANGED <<pool, parameter, sample, kept>>

\* The end of GenerateAll; a subscriber then starts with a fresh row.
GenerateAllReturns ==
  /\ plugin.state = "running" /\ plugin.next > Len(pool.files)
  /\ plugin' = [plugin EXCEPT !.state = "done", !.rba = "rust" \in parameter.flags]
  /\ kept' = [kept EXCEPT !.row = NewObject(pool.subject)]
  /\ UNCHANGED <<pool, classes, parameter, output, sample>>

Published == UNION {output[i].header.published : i \in DOMAIN output}

\* <Service>_<Method>Publisher::Publish.
PublishRow(object) ==
  /\ plugin.state = "done" /\ pool.subject \in Published
  /\ sample = <<>>
  /\ sample' = <<[object |-> object, bytes |-> Encode(pool.subject, object), cut |-> FALSE]>>
  /\ UNCHANGED <<pool, classes, parameter, plugin, output, kept>>

CutShort ==
  /\ sample # <<>> /\ ~sample[1].cut /\ sample[1].bytes # <<>>
  /\ kept.cuts < MaxCuts
  /\ \E n \in 0..(Len(sample[1].bytes) - 1) :
       sample' = <<[sample[1] EXCEPT !.bytes = SubSeq(@, 1, n), !.cut = TRUE]>>
  /\ kept' = [kept EXCEPT !.cuts = @ + 1]
  /\ UNCHANGED <<pool, classes, parameter, plugin, output>>

\* SubscribeInPlace's callback; a throw drops the sample.
SubscribeInPlace ==
  /\ sample # <<>>
  /\ LET decoded == DecodeInto(sample[1].bytes, pool.subject, kept.row)
     IN  kept' = [kept EXCEPT !.row = decoded.v,
                               !.last = IF decoded.ok THEN <<sample[1]>> ELSE <<>>]
  /\ sample' = <<>>
  /\ UNCHANGED <<pool, classes, parameter, plugin, output>>

GenNext ==
  \/ GenerateFails
  \/ Generate
  \/ GenerateAllReturns
  \/ \E object \in pool.objects : PublishRow(object)
  \/ CutShort
  \/ SubscribeInPlace

-----------------------------------------------------------------------------
(***************************************************************************)
(* Properties.                                                             *)
(***************************************************************************)

\* The class's own view of the type of a node: what its positional reads and
\* writes take for granted.
RECURSIVE LayoutOf(_)
LayoutOf(node) ==
  CASE node.kind = "SCALAR" -> [kind |-> "SCALAR", width |-> FixedWidth(LookupScalar(node.lk))]
    [] node.kind = "LIST" -> [kind |-> "LIST", elem |-> LayoutOf(node.elem)]
    [] node.kind = "MAP" -> [kind |-> "MAP", key |-> LayoutOf(node.key),
                             value |-> LayoutOf(node.value)]
    [] node.kind = "STRUCT" ->
         [kind |-> "STRUCT", fields |-> [i \in 1..kNumFields(node.m) |->
                                           LayoutOf(classes[node.m][i].ir)]]

\* And what the schema says of it.
RECURSIVE LayoutIn(_)
LayoutIn(t) ==
  CASE t.k \in {"bool", "fix", "time", "var"} -> [kind |-> "SCALAR", width |-> FixedWidth(t)]
    [] t.k = "list" -> [kind |-> "LIST", elem |-> LayoutIn(t.e)]
    [] t.k = "map" -> [kind |-> "MAP", key |-> LayoutIn(t.key), value |-> LayoutIn(t.item)]
    [] t.k = "struct" -> [kind |-> "STRUCT", fields |-> [i \in DOMAIN t.fs |-> LayoutIn(t.fs[i])]]

\* The schema function of a generated message and its class, which list the
\* message's columns by two separate walks, agree column by column: kNumFields
\* is the number of children, and column i has the same name, id, nullability
\* and wire layout in both, inlined and nested fields included.
ColumnsLineUp ==
  plugin.state = "done" => \A i \in DOMAIN output : \A m \in ToSet(output[i].header.messages) :
    LET columns == output[i].header.schemas[m].columns
        fields == classes[m]
    IN  /\ Len(columns) = kNumFields(m)
        /\ \A c \in DOMAIN columns :
             /\ columns[c].name = fields[c].name
             /\ columns[c].nullable = fields[c].ir.nullable
             /\ <<"field_id", fields[c].id>> \in ToSet(SubSeq(columns[c].metadata, 2, 2))
             /\ LayoutIn(columns[c].t) = LayoutOf(fields[c].ir)

\* What the getters of an object show, nested objects included.
RECURSIVE Seen(_, _)
RECURSIVE SeenValue(_, _)
SeenValue(node, v) ==
  CASE node.kind = "SCALAR" -> v
    [] node.kind = "STRUCT" -> Seen(node.m, v)
    [] node.kind = "LIST" -> [i \in DOMAIN v |-> SeenValue(node.elem, v[i])]
    [] node.kind = "MAP" -> [i \in DOMAIN v |-> <<v[i][1], SeenValue(node.value, v[i][2])>>]

Seen(m, object) ==
  [i \in 1..kNumFields(m) |->
     LET node == classes[m][i].ir
         got == Getter(node, object[i])
     IN  IF ~IsOptional(node) THEN SeenValue(node, got)
         ELSE IF got = <<>> THEN <<>> ELSE <<SeenValue(node, got[1])>>]

\* A struct reached through a singular flatten wrapper, here or in a nested
\* message: its TypeScript descriptor has the wrapper's columns.
RECURSIVE WrapsStruct(_)
WrapsStruct(m) ==
  \E f \in ToSet(BuildFlattenedFieldList(m)) :
    LET leaf == IF f.ir.kind = "MAP" THEN f.ir.value ELSE LeafOf(f.ir)
    IN  leaf.kind = "STRUCT" /\ (DeclaredWrapperFor(f.source) # <<>> \/ WrapsStruct(leaf.m))

Schema == LET i == CHOOSE j \in DOMAIN output : pool.subject \in output[j].header.published
          IN  TypesOf(output[i].header.schemas[pool.subject].columns)

\* A row means the same to everyone who has the schema.  The bytes a generated
\* class encodes decode through Codec to the row ToArrowRow makes of the same
\* object, which encodes back to the same bytes; the view over that row, and a
\* fresh generated object built from the bytes, show what the publisher's
\* getters showed; AppendTo appends that row; and the TypeScript client reads
\* it too, unless a struct sits behind a singular flatten wrapper.
GeneratedRowsSurvive ==
  sample # <<>> /\ ~sample[1].cut =>
    LET m == pool.subject
        object == sample[1].object
        bytes == sample[1].bytes
        fresh == DecodeInto(bytes, m, NewObject(m))
    IN  /\ DecodeRow(Schema, bytes) = <<ToArrowRow(m, object)>>
        /\ EncodeRow(Schema, ToArrowRow(m, object)) = <<bytes>>
        /\ AppendTo(m, object) = ToArrowRow(m, object)
        /\ ViewRow(m, DecodeRow(Schema, bytes)[1]) = Seen(m, object)
        /\ fresh.ok /\ Seen(m, fresh.v) = Seen(m, object)
        /\ WrapsStruct(m) \/ DecodePositional(TsFields(m), bytes) = <<ToArrowRow(m, object)>>

\* A subscriber that keeps one row never sees a value of an earlier sample:
\* once DecodeInto has returned, the row's getters show exactly the object that
\* was published, whatever the row held before, a sample that threw half way
\* through included; and a sample that was cut short does throw.
KeptRowIsTheSample ==
  kept.last # <<>> => /\ ~kept.last[1].cut
                      /\ Seen(pool.subject, kept.row) = Seen(pool.subject, kept.last[1].object)

\* The generated headers that a header sees, its own aside.
RECURSIVE Reached(_)
Reached(file) ==
  UNION {output[i].header.includes \cup UNION {Reached(f) : f \in output[i].header.includes} :
           i \in {j \in DOMAIN output : output[j].header.file = file}}

Declares(header, p, m) ==
  IF FileOf(m) = header.file THEN m \in ToSet(SubSeq(header.messages, 1, p - 1))
  ELSE FileOf(m) \in Reached(header.file) /\
       \E i \in DOMAIN output : m \in ToSet(output[i].header.messages)

\* A name is spelled for the package of the message that declares the field.
Spelled(header, field, file) ==
  PackageOf(file) = PackageOf(FileOf(field.home)) => PackageOf(file) = PackageOf(header.file)

OwnersBefore(header, p) ==
  \A field \in ToSet(classes[header.messages[p]]) : \A e \in FieldEnumType(field.source) :
    CppEnumTypeEmittable(e) /\ e.owner \notin {"", header.messages[p]} =>
      Declares(header, p, e.owner)

ClassesBefore(header, p) ==
  \A field \in ToSet(classes[header.messages[p]]) :
    LET leaf == IF field.ir.kind = "MAP" THEN field.ir.value ELSE LeafOf(field.ir)
    IN  leaf.kind = "STRUCT" => /\ Declares(header, p, leaf.m)
                                /\ Spelled(header, field, FileOf(leaf.m))

\* A generated header can be compiled: a class that a member, an accessor or an
\* AppendTo names is emitted before it in the same header or comes from a
\* header that is included, and so is the class an enum is declared in.
HeadersStandAlone ==
  plugin.state = "done" =>
    \A i \in DOMAIN output : LET header == output[i].header IN
      /\ \A p \in DOMAIN header.messages : ClassesBefore(header, p) /\ OwnersBefore(header, p)
      /\ \A m \in ToSet(header.messages) : \A field \in ToSet(classes[m]) :
           \A e \in FieldEnumType(field.source) :
             /\ e.file \in {header.file} \cup Reached(header.file)
             /\ Spelled(header, field, e.file)

\* The candidate at distance d from the column: the field itself, then the
\* flatten_field wrappers around it, the nearest first.
At(record, d) == IF d = 0 THEN record.source ELSE record.chain[Len(record.chain) + 1 - d]

RuleValues(rule, record) ==
  LET near == {d \in 0..Len(record.chain) : Candidate(rule, At(record, d)) # Unset}
  IN  IF rule.scope = "message" \/ near = {} THEN Unset
      ELSE Candidate(rule, At(record, CHOOSE d \in near : \A e \in near : d <= e))

\* Every column carries its field_number and field_id, once and unchanged, and
\* for every key some rule gives a value to, the value of the last such rule,
\* read from the declaration nearest to the column; nothing else.
MetadataIsNearest ==
  \A rules \in ToSet(Resolver), i \in DOMAIN output : \A m \in ToSet(output[i].header.messages) :
    \A c \in DOMAIN output[i].header.schemas[m].columns :
      \A record \in {BuildFlattenedFieldList(m)[c]} :
        LET metadata == output[i].header.schemas[m].columns[c].metadata
            given == {r \in DOMAIN rules : RuleValues(rules[r], record) # Unset}
            extra == ToSet(SubSeq(metadata, 3, Len(metadata)))
        IN  /\ metadata[1] = <<"field_number", <<record.source.number>>>>
            /\ metadata[2] = <<"field_id", record.id>>
            /\ extra = {<<rules[r].key, RuleValues(rules[r], record)[1]>> :
                          r \in {q \in given : \A p \in given : rules[p].key = rules[q].key => p <= q}}
            /\ Len(metadata) = Cardinality(extra) + 2

=============================================================================
