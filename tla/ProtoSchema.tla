---------------------------- MODULE ProtoSchema ----------------------------
(***************************************************************************)
(* The columns of a message, by the schema's walk and by the generated     *)
(* class's, its Arrow schema, and the order and validity of what a file    *)
(* emits.                                                                  *)
(*                                                                         *)
(* A file of pool.files has a name, a package (a sequence of parts), its   *)
(* top-level messages and its service methods.  A schema column has a      *)
(* name, nullability, metadata and a type of RowWire; a struct type also   *)
(* keeps its columns and a list or map the metadata of its element.        *)
(***************************************************************************)
EXTENDS ProtoIr

FileOf(m) == pool.messages[m].file

PackageOf(file) ==
  LET i == SelectInSeq(pool.files, LAMBDA f : f.name = file) IN pool.files[i].package

RECURSIVE LeafOf(_)
LeafOf(node) == IF node.kind = "LIST" THEN LeafOf(node.elem) ELSE node

\* The kind of member a node becomes: FieldMapping::kind, or "" for none.
ProjectIrToFieldMapping(node) ==
  CASE node.kind \in {"SCALAR", "STRUCT"} -> node.kind
    [] node.kind = "UNSUPPORTED" -> ""
    [] node.kind = "MAP" -> IF node.key.kind = "SCALAR" /\ node.value.kind \in {"SCALAR", "STRUCT"}
                            THEN "MAP" ELSE ""
    [] node.kind = "LIST" ->
         LET leaf == LeafOf(node).kind
         IN  IF leaf \notin {"SCALAR", "STRUCT"} THEN ""
             ELSE IF node.elem.kind = "LIST" THEN "NESTED_LIST"
             ELSE IF leaf = "SCALAR" THEN "REPEATED_SCALAR" ELSE "REPEATED_STRUCT"

\* Mutant: only structs are reached through lists of lists.
IsSchemaRepresentableStructsOnly(node) ==
  CASE node.kind \in {"SCALAR", "STRUCT"} -> TRUE
    [] node.kind = "LIST" -> node.elem.kind \in {"SCALAR", "STRUCT"} \/ LeafOf(node).kind = "STRUCT"
    [] node.kind = "MAP" -> node.key.kind = "SCALAR" /\ node.value.kind \in {"SCALAR", "STRUCT"}
    [] node.kind = "UNSUPPORTED" -> FALSE

IsSchemaRepresentable(node) ==
  CASE node.kind \in {"SCALAR", "STRUCT"} -> TRUE
    [] node.kind = "LIST" -> LeafOf(node).kind \in {"SCALAR", "STRUCT"}
    [] node.kind = "MAP" -> node.key.kind = "SCALAR" /\ node.value.kind \in {"SCALAR", "STRUCT"}
    [] node.kind = "UNSUPPORTED" -> FALSE

\* A field with (fletcher.flatten_field) has its message's fields inlined.
HasFieldFlatten(f) == f.flatten /\ IsMessage(f) /\ ~IsRepeated(f)

\* The schema's walk.  An inlined field is identified by its path of numbers.
RECURSIVE BuildFlattenedFieldListImpl(_, _, _)
BuildFlattenedFieldListImpl(m, prefix, chain) ==
  FoldLeft(LAMBDA list, f :
    LET path == Append(prefix, f.number) IN
    IF HasFieldFlatten(f)
    THEN list \o BuildFlattenedFieldListImpl(f.type.m, path, Append(chain, f))
    ELSE IF ~IsSchemaRepresentable(BuildFieldIr(f)) THEN list
    ELSE Append(list, [name |-> f.name, number |-> f.number, id |-> path,
                       ir |-> BuildFieldIr(f), source |-> f, chain |-> chain]),
    <<>>, FieldsOf(m))

BuildFlattenedFieldList(m) == BuildFlattenedFieldListImpl(m, <<>>, <<>>)

\* The class's walk; `home` is the message that declares the field.
RECURSIVE GatherFieldsImpl(_, _)
GatherFieldsImpl(m, prefix) ==
  FoldLeft(LAMBDA list, f :
    LET path == Append(prefix, f.number) IN
    IF HasFieldFlatten(f) THEN list \o GatherFieldsImpl(f.type.m, path)
    ELSE IF ProjectIrToFieldMapping(BuildFieldIr(f)) = "" THEN list
    ELSE Append(list, [name |-> f.name, id |-> path, ir |-> BuildFieldIr(f),
                       kind |-> ProjectIrToFieldMapping(BuildFieldIr(f)),
                       source |-> f, home |-> m]),
    <<>>, FieldsOf(m))

GatherFields(m) == GatherFieldsImpl(m, <<>>)

-----------------------------------------------------------------------------
(***************************************************************************)
(* The Arrow schema.  Both sinks, the emitted <Message>Schema() and the    *)
(* in-process builder behind --fletcher_opt=ipc, take the same calls.      *)
(***************************************************************************)

\* Four-byte numbers are one byte here and eight-byte ones two.
EmitScalarType(lk) ==
  CASE lk = "BOOL" -> [k |-> "bool", w |-> 1, of |-> lk]
    [] lk \in {"INT32", "UINT32", "FLOAT32"} -> [k |-> "fix", w |-> 1, of |-> lk]
    [] lk \in {"INT64", "UINT64", "FLOAT64"} -> [k |-> "fix", w |-> 2, of |-> lk]
    [] lk \in {"UTF8", "BINARY"} -> [k |-> "var", of |-> lk]
    [] lk \in {"WKT_TIMESTAMP", "WKT_DURATION"} -> [k |-> "time", w |-> 2, of |-> lk]

RootMetadata(rules, m) ==
  <<<<"proto_package", PackageOf(FileOf(m))>>, <<"proto_message", <<m>>>>>>
    \o ForMessage(rules, m)

FieldMetadata(rules, record) ==
  <<<<"field_number", <<record.number>>>>, <<"field_id", record.id>>>>
    \o ForField(rules, record.source, record.chain)

\* Only a deep-copied message schema brings metadata to a list or map element.
ElementMetadata(rules, node) ==
  IF node.kind = "STRUCT" THEN RootMetadata(rules, node.m) ELSE <<>>

RECURSIVE EmitNodeType(_, _)

VisitSchema(rules, m) ==
  [i \in DOMAIN BuildFlattenedFieldList(m) |->
     LET record == BuildFlattenedFieldList(m)[i]
     IN  [name |-> record.name, nullable |-> record.ir.nullable,
          metadata |-> FieldMetadata(rules, record), t |-> EmitNodeType(rules, record.ir)]]

TypesOf(columns) == [i \in DOMAIN columns |-> columns[i].t]

EmitNodeType(rules, node) ==
  CASE node.kind = "SCALAR" -> EmitScalarType(node.lk)
    [] node.kind = "LIST" -> [k |-> "list", e |-> EmitNodeType(rules, node.elem),
                              metadata |-> ElementMetadata(rules, node.elem)]
    [] node.kind = "MAP" -> [k |-> "map", key |-> EmitScalarType(node.key.lk),
                             item |-> EmitNodeType(rules, node.value),
                             metadata |-> ElementMetadata(rules, node.value)]
    [] node.kind = "STRUCT" -> LET columns == VisitSchema(rules, node.m)
                               IN  [k |-> "struct", fs |-> TypesOf(columns), columns |-> columns]

\* <Message>Schema(): the columns and the schema's own metadata.
GenerateSchemaFunction(rules, m) ==
  [columns |-> VisitSchema(rules, m), metadata |-> RootMetadata(rules, m)]

-----------------------------------------------------------------------------
(***************************************************************************)
(* What a file emits, and in which order.                                  *)
(***************************************************************************)

\* The enum a field's typed accessors name; for a map, its value's.
FieldEnumType(f) ==
  LET g == IF IsMap(f) THEN MapValue(f) ELSE f
  IN  IF g.type.k = "enum" THEN {g.type} ELSE {}

\* A nested enum is declared inside its owner's class.
CppEnumTypeEmittable(e) ==
  e.owner # "" => ~IsRecursive(e.owner) /\ ~IsFlattenedWrapper(e.owner)

\* Mutant: the owners of enums are not looked at.
DependenciesWithoutOwners(m) ==
  pool.messages[m].nested \o
    FlattenSeq([i \in DOMAIN FieldsOf(m) |-> SetToSeq(MessagesOf(FieldsOf(m)[i]))])

\* The messages that must be complete before m: nested types, the types of its
\* fields, the owners of its enums.
Dependencies(m) ==
  LET fields == FieldsOf(m)
      fieldTypes == [i \in DOMAIN fields |-> SetToSeq(MessagesOf(fields[i]))]
      owners == [i \in DOMAIN fields |->
                   SetToSeq({e.owner : e \in {x \in FieldEnumType(fields[i]) :
                     CppEnumTypeEmittable(x) /\ x.owner \notin {"", m} /\ x.file = FileOf(m)}})]
  IN  pool.messages[m].nested \o FlattenSeq(fieldTypes) \o FlattenSeq(owners)

\* s.order lists the messages so far; s.visiting are those on the stack.
RECURSIVE TopologicalVisit(_, _, _)
TopologicalVisit(m, file, s) ==
  IF \/ m \in s.emitted \cup s.visiting
     \/ pool.messages[m].map_entry
     \/ FileOf(m) # file
  THEN s
  ELSE IF IsRecursive(m) THEN [s EXCEPT !.emitted = @ \cup {m}]
  ELSE LET done == FoldLeft(LAMBDA t, d : TopologicalVisit(d, file, t),
                            [s EXCEPT !.visiting = @ \cup {m}], Dependencies(m))
       IN  [order |-> Append(done.order, m), emitted |-> done.emitted \cup {m},
            visiting |-> done.visiting \ {m}]

OrderedMessages(file) ==
  FoldLeft(LAMBDA s, m : TopologicalVisit(m, file.name, s),
           [order |-> <<>>, emitted |-> {}, visiting |-> {}], file.messages).order

\* The messages a file generates classes for.
GeneratedMessages(file) == SelectSeq(OrderedMessages(file), LAMBDA m : ~IsFlattenedWrapper(m))

ValidateNoUnsupportedIr(file) ==
  \A i \in DOMAIN GeneratedMessages(file) :
    LET fields == FieldsOf(GeneratedMessages(file)[i])
    IN  \A f \in DOMAIN fields : ~FindUnsupportedIr(BuildFieldIr(fields[f]))

\* A nested list whose leaf is a scalar, anywhere below a node.
RECURSIVE FindScalarLeafNestedList(_)
FindScalarLeafNestedList(node) ==
  CASE node.kind \in {"SCALAR", "UNSUPPORTED"} -> FALSE
    [] node.kind = "LIST" -> \/ node.elem.kind = "LIST" /\ LeafOf(node).kind = "SCALAR"
                             \/ FindScalarLeafNestedList(LeafOf(node))
    [] node.kind = "MAP" -> FindScalarLeafNestedList(node.value)
    [] node.kind = "STRUCT" ->
         \E i \in DOMAIN FieldsOf(node.m) :
           FindScalarLeafNestedList(BuildFieldIr(FieldsOf(node.m)[i]))

\* The accessor and Rust emitters have no form for such a list.
ValidateBackendsSupportFields(file, options) ==
  options \cap {"accessor", "rust"} # {} =>
    \A i \in DOMAIN GeneratedMessages(file) :
      LET fields == FieldsOf(GeneratedMessages(file)[i])
      IN  \A f \in DOMAIN fields : ~FindScalarLeafNestedList(BuildFieldIr(fields[f]))

\* The generated headers a file's header includes.
CppCrossFileHeader(m, file) == IF FileOf(m) = file THEN {} ELSE {FileOf(m)}

RECURSIVE CollectCrossFileIncludesFromMessage(_, _)
CollectCrossFileIncludesFromMessage(m, file) ==
  LET node(i) == BuildFieldIr(FieldsOf(m)[i])
      leaf(i) == IF node(i).kind = "MAP" THEN node(i).value ELSE LeafOf(node(i))
      mapped == {i \in DOMAIN FieldsOf(m) : ProjectIrToFieldMapping(node(i)) # ""}
  IN  UNION ({CppCrossFileHeader(leaf(i).m, file) : i \in {j \in mapped : leaf(j).kind = "STRUCT"}}
             \cup {CollectCrossFileIncludesFromMessage(n, file) :
                     n \in ToSet(pool.messages[m].nested)})

\* Enum accessors of inlined fields land in this file too.
RECURSIVE CollectCrossFileEnumIncludesFromMessage(_, _)
CollectCrossFileEnumIncludesFromMessage(m, file) ==
  LET inlined == {f \in ToSet(FieldsOf(m)) : HasFieldFlatten(f)}
      enums == UNION {FieldEnumType(f) : f \in ToSet(FieldsOf(m)) \ inlined}
  IN  ({e.file : e \in enums} \ {file})
      \cup UNION ({CollectCrossFileEnumIncludesFromMessage(f.type.m, file) : f \in inlined}
                  \cup {CollectCrossFileEnumIncludesFromMessage(n, file) :
                          n \in ToSet(pool.messages[m].nested)})

Includes(file) ==
  UNION {CollectCrossFileIncludesFromMessage(m, file.name)
           \cup CollectCrossFileEnumIncludesFromMessage(m, file.name) : m \in ToSet(file.messages)}

=============================================================================
