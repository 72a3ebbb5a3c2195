--------------------------- MODULE GeneratedCode ---------------------------
(***************************************************************************)
(* What the generated C++ and TypeScript do at run time.                   *)
(*                                                                         *)
(* classes gives the members of every generated class, GatherFields of its *)
(* message.  An object is the sequence of their values: a scalar or struct *)
(* member is <<>> (an empty optional) or <<value>>; a list member is the   *)
(* vector, a map member the vector of <<key, value>> pairs.  Inside a      *)
(* vector nothing is optional.                                             *)
(***************************************************************************)
EXTENDS ProtoSchema

VARIABLE classes

kNumFields(m) == Len(classes[m])

\* The positional read and write a C++ scalar uses.
LookupScalar(lk) ==
  CASE lk = "BOOL" -> [k |-> "bool", w |-> 1]
    [] lk \in {"INT32", "UINT32", "FLOAT32"} -> [k |-> "fix", w |-> 1]
    [] lk \in {"INT64", "UINT64", "FLOAT64", "WKT_TIMESTAMP", "WKT_DURATION"} ->
         [k |-> "fix", w |-> 2]
    [] lk \in {"UTF8", "BINARY"} -> [k |-> "var"]

IsOptional(node) == node.kind \in {"SCALAR", "STRUCT"}

\* A default-constructed row: optionals are empty and so are vectors.
NewObject(m) == [i \in 1..kNumFields(m) |-> <<>>]

DefaultValue(node) ==
  IF node.kind = "STRUCT" THEN NewObject(node.m)
  ELSE LET s == LookupScalar(node.lk) IN IF s.k = "var" THEN <<>> ELSE Zeros(s.w)

-----------------------------------------------------------------------------
(***************************************************************************)
(* Encode.                                                                 *)
(***************************************************************************)

RECURSIVE EmitValue(_, _, _)

EmitField(buf, offset, i, node, member) ==
  IF ~IsOptional(node) THEN EmitValue(buf, node, member)
  ELSE IF member # <<>> THEN EmitValue(buf, node, member[1])
  ELSE IF node.nullable THEN <<SetNull(buf, offset, i)>>
  ELSE EmitValue(buf, node, DefaultValue(node))

EncodeStructTo(buf, m, object) ==
  FoldLeft(LAMBDA w, i : Then(w, LAMBDA r :
                           EmitField(r[1], Len(buf), i, classes[m][i].ir, object[i])),
           <<buf \o Zeros(BitfieldBytes(kNumFields(m)))>>, Upto(kNumFields(m)))

EmitEach(buf, node, values) ==
  FoldLeft(LAMBDA w, v : Then(w, LAMBDA r : EmitValue(r[1], node, v)), <<buf>>, values)

\* Mutant: each key is followed by its value.
EmitEntriesInterleaved(buf, node, entries) ==
  FoldLeft(LAMBDA w, e : Then(w, LAMBDA r :
             Then(EmitValue(r[1], node.key, e[1]), LAMBDA k : EmitValue(k[1], node.value, e[2]))),
           <<Append(buf, Len(entries)) \o Zeros(BitfieldBytes(Len(entries)))>>, entries)

\* COUNT and the keys, then the values behind a bitfield that stays zero.
EmitEntries(buf, node, entries) ==
  Then(EmitEach(Append(buf, Len(entries)), node.key, [i \in DOMAIN entries |-> entries[i][1]]),
       LAMBDA keys : EmitEach(keys[1] \o Zeros(BitfieldBytes(Len(entries))), node.value,
                              [i \in DOMAIN entries |-> entries[i][2]]))

EmitValue(buf, node, v) ==
  CASE node.kind = "SCALAR" -> EncodeScalar(buf, LookupScalar(node.lk), v)
    [] node.kind = "STRUCT" -> EncodeStructTo(buf, node.m, v)
    [] node.kind = "LIST" -> EmitEach(BeginList(buf, Len(v)), node.elem, v)
    [] node.kind = "MAP" -> EmitEntries(buf, node, v)

Encode(m, object) == EncodeStructTo(<<>>, m, object)[1]

-----------------------------------------------------------------------------
(***************************************************************************)
(* DecodeFrom_.  A step is [ok, v, pos]: after a throw, v is what the      *)
(* member or the row is left holding.                                      *)
(***************************************************************************)

Step(ok, v, pos) == [ok |-> ok, v |-> v, pos |-> pos]

\* The steps 1..n from `start`, until one throws.
Steps(F(_, _), start, n) ==
  FoldLeft(LAMBDA s, i : IF s.ok THEN F(s, i) ELSE s, start, Upto(n))

ReadListHeader(data, pos) ==
  Then(ReadBytes(data, pos, 1), LAMBDA c :
    Then(ReadBytes(data, c[2], BitfieldBytes(c[1][1])), LAMBDA b : <<c[1][1], b[2]>>))

ReadMapCount(data, pos) ==
  Then(ReadBytes(data, pos, 1), LAMBDA c :
    IF c[1][1] > Len(data) - c[2] THEN Thrown ELSE <<c[1][1], c[2]>>)

RECURSIVE DecodeFrom(_, _, _, _)

\* A scalar, or a nested row built from a reader of its own.
ReadElement(data, pos, node) ==
  IF node.kind = "SCALAR" THEN DecodeScalar(data, pos, LookupScalar(node.lk))
  ELSE LET row == DecodeFrom(data, pos, node.m, NewObject(node.m))
       IN  IF row.ok THEN <<row.v, row.pos>> ELSE Thrown

ReadElements(data, pos, node, n) ==
  Steps(LAMBDA s, i : LET x == ReadElement(data, s.pos, node)
                      IN  IF x = Thrown THEN Step(FALSE, s.v, s.pos)
                          ELSE Step(TRUE, Append(s.v, x[1]), x[2]),
        Step(TRUE, <<>>, pos), n)

\* The member is untouched if the header throws, else rewritten.
DecodeRepeated(data, pos, node, old) ==
  LET header == ReadListHeader(data, pos)
  IN  IF header = Thrown THEN Step(FALSE, old, pos)
      ELSE ReadElements(data, header[2], node.elem, header[1])

\* Every level is resized and assigned in place.
RECURSIVE DecodeNestedList(_, _, _, _)
DecodeNestedList(data, pos, node, old) ==
  IF node.kind # "LIST"
  THEN LET x == ReadElement(data, pos, node)
       IN  IF x = Thrown THEN Step(FALSE, old, pos) ELSE Step(TRUE, x[1], x[2])
  ELSE LET header == ReadListHeader(data, pos)
           blank == IF node.elem.kind = "LIST" THEN <<>> ELSE DefaultValue(node.elem)
           resized == [i \in 1..header[1] |-> IF i <= Len(old) THEN old[i] ELSE blank]
       IN  IF header = Thrown THEN Step(FALSE, old, pos)
           ELSE Steps(LAMBDA s, i : LET x == DecodeNestedList(data, s.pos, node.elem, s.v[i])
                                    IN  Step(x.ok, [s.v EXCEPT ![i] = x.v], x.pos),
                      Step(TRUE, resized, header[2]), header[1])

\* The keys are read aside; the value bitfield is skipped.
DecodeMapMember(data, pos, node, old) ==
  LET count == ReadMapCount(data, pos)
      keys == ReadElements(data, count[2], node.key, count[1])
      bits == ReadBytes(data, keys.pos, BitfieldBytes(count[1]))
      values == ReadElements(data, bits[2], node.value, count[1])
  IN  IF count = Thrown THEN Step(FALSE, old, pos)
      ELSE IF ~keys.ok \/ bits = Thrown THEN Step(FALSE, old, pos)
      ELSE Step(values.ok, [i \in DOMAIN values.v |-> <<keys.v[i], values.v[i]>>], values.pos)

\* emplace() has destroyed the old row when the nested constructor throws.
DecodeOptional(data, bits, pos, i, node, old) ==
  LET x == ReadElement(data, pos, node)
      begun == node.kind = "STRUCT" /\ BitfieldBytes(kNumFields(node.m)) <= Len(data) - pos
  IN  IF node.nullable /\ ReadNullBit(bits, i) THEN Step(TRUE, <<>>, pos)
      ELSE IF x = Thrown THEN Step(FALSE, IF begun THEN <<>> ELSE old, pos)
      ELSE Step(TRUE, <<x[1]>>, x[2])

\* Mutant: a null leaves the member alone.
DecodeFieldKeepsOld(data, bits, pos, i, field, old) ==
  CASE field.kind \in {"SCALAR", "STRUCT"} ->
         IF field.ir.nullable /\ ReadNullBit(bits, i) THEN Step(TRUE, old, pos)
         ELSE DecodeOptional(data, bits, pos, i, field.ir, old)
    [] field.kind \in {"REPEATED_SCALAR", "REPEATED_STRUCT"} ->
         DecodeRepeated(data, pos, field.ir, old)
    [] field.kind = "NESTED_LIST" -> DecodeNestedList(data, pos, field.ir, old)
    [] field.kind = "MAP" -> DecodeMapMember(data, pos, field.ir, old)

DecodeField(data, bits, pos, i, field, old) ==
  CASE field.kind \in {"SCALAR", "STRUCT"} -> DecodeOptional(data, bits, pos, i, field.ir, old)
    [] field.kind \in {"REPEATED_SCALAR", "REPEATED_STRUCT"} ->
         DecodeRepeated(data, pos, field.ir, old)
    [] field.kind = "NESTED_LIST" -> DecodeNestedList(data, pos, field.ir, old)
    [] field.kind = "MAP" -> DecodeMapMember(data, pos, field.ir, old)

DecodeFrom(data, pos, m, row) ==
  LET bits == ReadBytes(data, pos, BitfieldBytes(kNumFields(m)))
  IN  IF bits = Thrown THEN Step(FALSE, row, pos)
      ELSE Steps(LAMBDA s, i :
                   LET x == DecodeField(data, bits[1], s.pos, i, classes[m][i], s.v[i])
                   IN  Step(x.ok, [s.v EXCEPT ![i] = x.v], x.pos),
                 Step(TRUE, row, bits[2]), kNumFields(m))

\* No VerifyFullyConsumed: bytes behind the last field are not looked at.
DecodeInto(data, m, row) == DecodeFrom(data, 0, m, row)

-----------------------------------------------------------------------------
(***************************************************************************)
(* Getters, and the way to and from an ArrowRow.                           *)
(***************************************************************************)

\* A member that is not nullable reads as its default when unset.
Getter(node, member) ==
  IF IsOptional(node) /\ ~node.nullable /\ member = <<>> THEN <<DefaultValue(node)>> ELSE member

RECURSIVE AppendTo(_, _)

\* One element or pair appended to a typed child builder.
RECURSIVE AppendElement(_, _)
AppendElement(node, v) ==
  CASE node.kind = "SCALAR" -> v
    [] node.kind = "STRUCT" -> AppendTo(node.m, v)
    [] node.kind = "LIST" -> [i \in DOMAIN v |-> <<AppendElement(node.elem, v[i])>>]
    [] node.kind = "MAP" -> [i \in DOMAIN v |-> <<v[i][1], <<AppendElement(node.value, v[i][2])>>>>]

\* The struct element AppendTo(builder, row) appends.
AppendTo(m, object) ==
  [i \in 1..kNumFields(m) |->
     LET node == classes[m][i].ir
         got == Getter(node, object[i])
     IN  IF ~IsOptional(node) THEN <<AppendElement(node, got)>>
         ELSE IF got = <<>> THEN <<>> ELSE <<AppendElement(node, got[1])>>]

\* ToArrowRow builds its lists and maps itself, down to the elements.
RECURSIVE ToArrowList(_, _)
ToArrowList(node, v) ==
  [i \in DOMAIN v |-> <<IF node.elem.kind = "LIST" THEN ToArrowList(node.elem, v[i])
                        ELSE AppendElement(node.elem, v[i])>>]

ToArrowMap(node, entries) ==
  [i \in DOMAIN entries |-> <<entries[i][1], <<AppendElement(node.value, entries[i][2])>>>>]

\* A struct member becomes a StructScalar of its own ToArrowRow.
RECURSIVE ToArrowRow(_, _)
ToArrowRow(m, object) ==
  [i \in 1..kNumFields(m) |->
     LET node == classes[m][i].ir
         got == Getter(node, object[i])
     IN  IF node.kind = "LIST" THEN <<ToArrowList(node, got)>>
         ELSE IF node.kind = "MAP" THEN <<ToArrowMap(node, got)>>
         ELSE IF got = <<>> THEN <<>>
         ELSE IF node.kind = "STRUCT" THEN <<ToArrowRow(node.m, got[1])>>
         ELSE got]

\* <Class>View: list and map getters look at no validity.
RECURSIVE ViewRow(_, _)
RECURSIVE ViewElement(_, _)
ViewElement(node, v) ==
  CASE node.kind = "SCALAR" -> v
    [] node.kind = "STRUCT" -> ViewRow(node.m, v)
    [] node.kind = "LIST" -> [i \in DOMAIN v |-> ViewElement(node.elem, v[i][1])]
    [] node.kind = "MAP" -> [i \in DOMAIN v |-> <<v[i][1], ViewElement(node.value, v[i][2][1])>>]

ViewRow(m, row) ==
  [i \in 1..kNumFields(m) |->
     LET node == classes[m][i].ir
     IN  IF ~IsOptional(node) THEN ViewElement(node, row[i][1])
         ELSE IF node.nullable /\ row[i] = <<>> THEN <<>>
         ELSE <<ViewElement(node, row[i][1])>>]

-----------------------------------------------------------------------------
(***************************************************************************)
(* The TypeScript descriptors.                                             *)
(***************************************************************************)

\* A struct, or the element of a list, that was reached through a flatten
\* wrapper is described by the wrapper's own field list.
DeclaredWrapperFor(f) ==
  IF IsMessage(f) /\ ~IsRepeated(f) /\ IsFlattenedWrapper(f.type.m) THEN <<f.type.m>> ELSE <<>>

RECURSIVE TsDescriptor(_, _)

TsFields(m) ==
  [i \in DOMAIN BuildFlattenedFieldList(m) |->
     LET record == BuildFlattenedFieldList(m)[i]
     IN  TsDescriptor(record.ir, DeclaredWrapperFor(record.source))]

TsLookupScalar(lk) == EmitScalarType(lk)

\* AppendComposite and ElementDescriptor.
TsDescriptor(node, declared) ==
  CASE node.kind = "SCALAR" -> TsLookupScalar(node.lk)
    [] node.kind = "STRUCT" ->
         [k |-> "struct", fs |-> TsFields(IF declared = <<>> THEN node.m ELSE declared[1])]
    [] node.kind = "LIST" ->
         [k |-> "list", e |-> TsDescriptor(node.elem, IF node.elem.kind = "STRUCT"
                                                      THEN declared ELSE <<>>)]
    [] node.kind = "MAP" -> [k |-> "map", key |-> TsLookupScalar(node.key.lk),
                             item |-> TsDescriptor(node.value, <<>>)]

=============================================================================
