------------------------------ MODULE ProtoIr ------------------------------
(***************************************************************************)
(* The protoc plugin up to the schema: the classifier that turns a proto   *)
(* field into a type-IR node, the two walks that list a message's columns  *)
(* (the schema's and the generated class's), the Arrow schema, and the     *)
(* order in which a file's messages are emitted.                           *)
(*                                                                         *)
(* A node has a kind, SCALAR (with its logical kind lk and the enum it     *)
(* came from), LIST, STRUCT (of message m), MAP or UNSUPPORTED, and says   *)
(* whether it is nullable.  The children of a STRUCT are those of m.       *)
(***************************************************************************)
EXTENDS TsCodec, OptionMetadata

IsFieldNullable(f) == f.label = "optional"

HasMessageFlatten(m) == pool.messages[m].flatten

IsFlattenedWrapper(m) == HasMessageFlatten(m) /\ Len(FieldsOf(m)) = 1

\* The messages a field's type names; for a map, its value's.
MessagesOf(f) ==
  LET g == IF IsMap(f) THEN MapValue(f) ELSE f
  IN  IF IsMessage(g) THEN {g.type.m} ELSE {}

RECURSIVE IsRecursiveImpl(_, _)
IsRecursiveImpl(m, stack) ==
  \/ m \in stack
  \/ \E i \in DOMAIN FieldsOf(m) : \E n \in MessagesOf(FieldsOf(m)[i]) :
       IsRecursiveImpl(n, stack \cup {m})

IsRecursive(m) == IsRecursiveImpl(m, {})

-----------------------------------------------------------------------------
(***************************************************************************)
(* The classifier.                                                         *)
(***************************************************************************)

PrimitiveKind(t) ==
  CASE t = "bool" -> "BOOL"
    [] t \in {"int32", "sint32", "sfixed32"} -> "INT32"
    [] t \in {"int64", "sint64", "sfixed64"} -> "INT64"
    [] t \in {"uint32", "fixed32"} -> "UINT32"
    [] t \in {"uint64", "fixed64"} -> "UINT64"
    [] t = "float" -> "FLOAT32"
    [] t = "double" -> "FLOAT64"
    [] t = "string" -> "UTF8"
    [] t = "bytes" -> "BINARY"

MakeScalar(lk, enum, nullable) ==
  [kind |-> "SCALAR", lk |-> lk, enum |-> enum, nullable |-> nullable]

\* An enum is stored as INT32 and keeps the identity of its declaration.
ScalarVariantFor(f, nullable) ==
  IF f.type.k = "enum" THEN MakeScalar("INT32", <<f.type>>, nullable)
  ELSE MakeScalar(PrimitiveKind(f.type.t), <<>>, nullable)

MakeUnsupported == [kind |-> "UNSUPPORTED", nullable |-> FALSE]

MakeListOf(elem) == [kind |-> "LIST", elem |-> elem, nullable |-> FALSE]

MakeStructNode(m, nullable) == [kind |-> "STRUCT", m |-> m, nullable |-> nullable]

\* n lists around a leaf.
RECURSIVE Lists(_, _)
Lists(n, leaf) == IF n = 0 THEN leaf ELSE MakeListOf(Lists(n - 1, leaf))

DynamicWkt(m) == m \in {"google_protobuf_Any", "google_protobuf_Struct"}

Wrappers == [google_protobuf_BoolValue |-> "BOOL", google_protobuf_Int32Value |-> "INT32",
             google_protobuf_Int64Value |-> "INT64", google_protobuf_UInt32Value |-> "UINT32",
             google_protobuf_UInt64Value |-> "UINT64", google_protobuf_FloatValue |-> "FLOAT32",
             google_protobuf_DoubleValue |-> "FLOAT64", google_protobuf_StringValue |-> "UTF8",
             google_protobuf_BytesValue |-> "BINARY"]

Temporal == [google_protobuf_Timestamp |-> "WKT_TIMESTAMP",
             google_protobuf_Duration |-> "WKT_DURATION"]

\* A singular wrapper is null when unset, whatever its label says.
TryBuildWkt(f) ==
  IF f.type.m \in DOMAIN Temporal
  THEN <<MakeScalar(Temporal[f.type.m], <<>>, IsFieldNullable(f))>>
  ELSE IF f.type.m \in DOMAIN Wrappers
  THEN <<MakeScalar(Wrappers[f.type.m], <<>>, TRUE)>>
  ELSE <<>>

\* What remains of a repeated wrapper once no wrapper is left to look through.
LeafLists(m, depth) ==
  IF IsRecursive(m) THEN MakeUnsupported ELSE Lists(depth + 1, MakeStructNode(m, FALSE))

RECURSIVE BuildFlattenedRepeated(_, _)
BuildFlattenedRepeated(m, depth) ==
  LET f == FieldsOf(m)[1]
  IN  IF ~IsFlattenedWrapper(m) THEN LeafLists(m, depth)
      ELSE IF IsMessage(f)
      THEN IF IsRepeated(f) THEN BuildFlattenedRepeated(f.type.m, depth + 1)
           ELSE IF HasMessageFlatten(f.type.m) THEN BuildFlattenedRepeated(f.type.m, depth)
           ELSE LeafLists(f.type.m, depth)
      ELSE Lists(depth + IF IsRepeated(f) THEN 2 ELSE 1, ScalarVariantFor(f, FALSE))

BuildRepeatedMessage(f) ==
  LET m == f.type.m
  IN  IF DynamicWkt(m) \/ IsRecursive(m) THEN MakeUnsupported
      ELSE IF HasMessageFlatten(m) THEN BuildFlattenedRepeated(m, 0)
      ELSE MakeListOf(MakeStructNode(m, FALSE))

\* A map's value is classified as it stands: no wrapper is looked through.
BuildMapNode(f) ==
  LET v == MapValue(f)
      map(value) == [kind |-> "MAP", key |-> ScalarVariantFor(FieldsOf(f.type.m)[1], FALSE),
                     value |-> value, nullable |-> FALSE]
  IN  IF ~IsMessage(v) THEN map(ScalarVariantFor(v, FALSE))
      ELSE IF DynamicWkt(v.type.m) \/ IsRecursive(v.type.m) THEN MakeUnsupported
      ELSE map(MakeStructNode(v.type.m, FALSE))

RECURSIVE BuildFieldIr(_)

BuildFlattenedSingular(f) ==
  IF ~IsFlattenedWrapper(f.type.m) THEN MakeStructNode(f.type.m, IsFieldNullable(f))
  ELSE LET inner == BuildFieldIr(FieldsOf(f.type.m)[1])
       IN  [inner EXCEPT !.nullable = @ \/ IsFieldNullable(f)]

BuildSingularMessage(f) ==
  LET m == f.type.m
  IN  IF DynamicWkt(m) \/ IsRecursive(m) THEN MakeUnsupported
      ELSE IF HasMessageFlatten(m) THEN BuildFlattenedSingular(f)
      ELSE MakeStructNode(m, IsFieldNullable(f))

BuildFieldIr(f) ==
  IF f.oneof THEN MakeUnsupported
  ELSE IF IsMap(f) THEN BuildMapNode(f)
  ELSE IF IsRepeated(f)
  THEN IF IsMessage(f) THEN BuildRepeatedMessage(f) ELSE MakeListOf(ScalarVariantFor(f, FALSE))
  ELSE IF ~IsMessage(f) THEN ScalarVariantFor(f, IsFieldNullable(f))
  ELSE IF TryBuildWkt(f) # <<>> THEN TryBuildWkt(f)[1]
  ELSE BuildSingularMessage(f)

RECURSIVE FindUnsupportedIr(_)
FindUnsupportedIr(node) ==
  CASE node.kind = "UNSUPPORTED" -> TRUE
    [] node.kind = "SCALAR" -> FALSE
    [] node.kind = "LIST" -> FindUnsupportedIr(node.elem)
    [] node.kind = "MAP" -> FindUnsupportedIr(node.value)
    [] node.kind = "STRUCT" ->
         \E i \in DOMAIN FieldsOf(node.m) : FindUnsupportedIr(BuildFieldIr(FieldsOf(node.m)[i]))

=============================================================================
