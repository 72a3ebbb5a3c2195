---------------------------- MODULE BatchDecoder ----------------------------
(***************************************************************************)
(* BatchDecoder of the arrow bridge: wire rows decoded straight into a     *)
(* tree of Arrow builders, and the arrays it yields, as the generated      *)
(* accessors read them (spans) and as Codec encodes them again.            *)
(*                                                                         *)
(* A builder, and the array it finishes into, is a record:                 *)
(*   valid    one BOOLEAN per slot,                                        *)
(*   data     per slot: the bytes of a leaf, the start offset of a list    *)
(*            or map, the <<type code, offset>> of a union,                *)
(*   ch       the child builders,                                          *)
(*   pending  what the row being validated would add (Node::pending).      *)
(* Limit stands for Arrow's 2^31-2 bytes or elements of a 32-bit offset.   *)
(***************************************************************************)
EXTENDS RowWire, FiniteSets

CONSTANT Limit

ASSUME LimitAssumption == Limit \in Nat

Exceeded == <<"BatchCapacityExceeded">>

\* Walks on from <<builder, position>>; the two kinds of throw end the walk.
Walked(result, F(_)) == IF Len(result) < 2 THEN result ELSE F(result)

ChildTypes(t) ==
  CASE t.k \in {"struct", "sparse", "dense"} -> t.fs
    [] t.k \in {"list", "fsl"} -> <<t.e>>
    [] t.k = "map" -> <<t.key, t.item>>
    [] OTHER -> <<>>

Length(b) == Len(b.valid)

RECURSIVE BuildNode(_)
BuildNode(t) ==
  [valid |-> <<>>, data |-> <<>>, pending |-> 0,
   ch |-> [k \in 1..Len(ChildTypes(t)) |-> BuildNode(ChildTypes(t)[k])]]

\* A dictionary is built as its value type, at the top level only.
RECURSIVE Buildable(_)
Buildable(t) == t.k # "dict" /\ \A k \in DOMAIN ChildTypes(t) : Buildable(ChildTypes(t)[k])

BuildType(t) == IF t.k = "dict" THEN t.e ELSE t

CanBuild(schema) ==
  \A i \in DOMAIN schema :
    /\ schema[i].k = "dict" => ~schema[i].ordered /\ schema[i].e.k \notin Nested
    /\ Buildable(BuildType(schema[i]))

-----------------------------------------------------------------------------
(***************************************************************************)
(* Arrow's builders (external).                                            *)
(***************************************************************************)

Slot(b, valid, datum) ==
  [b EXCEPT !.valid = Append(@, valid), !.data = Append(@, datum)]

RECURSIVE AppendNull(_, _)

AppendNulls(t, b, n) == FoldLeft(LAMBDA c, i : AppendNull(t, c), b, Upto(n))

\* A null slot of a struct or fixed-size list has slots in its children too;
\* a null of a union is a null of its first child.
AppendNull(t, b) ==
  LET pad(n) == [k \in DOMAIN b.ch |-> AppendNulls(ChildTypes(t)[k], b.ch[k], n)]
  IN CASE t.k \in {"struct", "sparse"} ->
            [Slot(b, t.k = "sparse", <<0, Length(b)>>) EXCEPT !.ch = pad(1)]
       [] t.k = "fsl" -> [Slot(b, FALSE, <<>>) EXCEPT !.ch = pad(t.n)]
       [] t.k = "dense" ->
            [Slot(b, TRUE, <<0, Length(b.ch[1])>>)
               EXCEPT !.ch[1] = AppendNull(t.fs[1], b.ch[1])]
       [] t.k \in {"list", "map"} -> Slot(b, FALSE, Length(b.ch[1]))
       [] OTHER -> Slot(b, FALSE, <<>>)

\* The bytes a utf8 or binary builder holds.
RECURSIVE DataLength(_, _)
DataLength(b, n) == IF n = 0 THEN 0 ELSE Len(b.data[n]) + DataLength(b, n - 1)

-----------------------------------------------------------------------------
(***************************************************************************)
(* The sinks.  SkipSink only counts what the row would add, and AppendSink *)
(* fills the builders.                                                     *)
(***************************************************************************)

Budget(b, have, more) ==
  IF have + b.pending + more > Limit THEN Exceeded
  ELSE <<[b EXCEPT !.pending = @ + more], 0>>

SkipBegin(t, b, n, child) ==
  CASE t.k = "list"  -> Budget(b, Length(b.ch[1]), n)
    [] t.k = "map"   -> Budget(b, Length(b.ch[2]), n)
    [] t.k = "dense" -> Budget(b, Length(b.ch[child]), 1)
    [] OTHER         -> <<b, 0>>

\* The inactive children of a sparse union get a null each.
AppendBegin(t, b, child) ==
  CASE t.k \in {"list", "map"} -> <<Slot(b, TRUE, Length(b.ch[1])), 0>>
    [] t.k = "dense" ->
         <<Slot(b, TRUE, <<child - 1, Length(b.ch[child])>>), 0>>
    [] t.k = "sparse" ->
         <<[Slot(b, TRUE, <<child - 1, Length(b)>>) EXCEPT
              !.ch = [k \in DOMAIN b.ch |->
                        IF k = child THEN b.ch[k]
                        ELSE AppendNull(t.fs[k], b.ch[k])]], 0>>
    [] OTHER -> <<Slot(b, TRUE, <<>>), 0>>

\* StructBegin, ListBegin, MapBegin and UnionBegin of a sink.
Begin(sink, t, b, n, child) ==
  IF sink = "skip" THEN SkipBegin(t, b, n, child) ELSE AppendBegin(t, b, child)

\* SkipSink takes a type without a width for a length-prefixed one.
SkipScalar(t, buf, pos, b) ==
  IF FixedWidth(t) > 0
  THEN Then(ReadBytes(buf, pos, t.w), LAMBDA r : <<b, r[2]>>)
  ELSE Then(DecodeScalar(buf, pos, [k |-> "var"]), LAMBDA r :
         IF t.k # "var" THEN <<b, r[2]>>
         ELSE Walked(Budget(b, DataLength(b, Length(b)), Len(r[1])), LAMBDA s :
                <<s[1], r[2]>>))

Scalar(sink, t, buf, pos, b) ==
  IF sink = "skip" THEN SkipScalar(t, buf, pos, b)
  ELSE Then(DecodeScalar(buf, pos, t), LAMBDA r : <<Slot(b, TRUE, r[1]), r[2]>>)

Null(sink, t, b) == IF sink = "append" THEN AppendNull(t, b) ELSE b

\* A run of n fixed-width values that is already known to be there.
Run(sink, t, b, bytes, n) ==
  IF sink = "skip" THEN b
  ELSE FoldLeft(LAMBDA c, i :
         Slot(c, TRUE, Canonical(t, SubSeq(bytes, (i - 1) * t.w + 1, i * t.w))),
         b, Upto(n))

-----------------------------------------------------------------------------
(***************************************************************************)
(* The traversal, the same for both sinks.                                 *)
(***************************************************************************)

RECURSIVE WalkValue(_, _, _, _, _)

\* Walks n values into children; value i goes into the child slot(i).
WalkEach(sink, t, buf, start, bits, n, slot(_)) ==
  FoldLeft(LAMBDA r, i :
    Walked(r, LAMBDA s :
      LET k == slot(i)
          child == ChildTypes(t)[k]
      IN  IF bits # Thrown /\ ReadNullBit(bits, i)
          THEN <<[s[1] EXCEPT !.ch[k] = Null(sink, child, @)], s[2]>>
          ELSE Walked(WalkValue(sink, child, buf, s[2], s[1].ch[k]), LAMBDA x :
                 <<[s[1] EXCEPT !.ch[k] = x[1]], x[2]>>)),
    start, Upto(n))

WalkElements(sink, t, buf, pos, b, n) ==
  LET elem == ChildTypes(t)[1]
      width == FixedWidth(elem)
  IN Then(ReadBytes(buf, pos, BitfieldBytes(n)), LAMBDA f :
     Walked(Begin(sink, t, b, n, 1), LAMBDA s :
       CASE n = 0 -> <<s[1], f[2]>>
         [] n > 0 /\ width > 0 /\ AllValid(f[1]) ->
              IF n > (Len(buf) - f[2]) \div width THEN Thrown
              ELSE Then(ReadBytes(buf, f[2], n * width), LAMBDA r :
                     <<[s[1] EXCEPT !.ch[1] = Run(sink, elem, @, r[1], n)], r[2]>>)
         [] OTHER ->
              IF AllNull(f[1], n)
              THEN <<[s[1] EXCEPT !.ch[1] =
                        IF sink = "skip" THEN @ ELSE AppendNulls(elem, @, n)], f[2]>>
              ELSE WalkEach(sink, t, buf, <<s[1], f[2]>>, f[1], n, LAMBDA i : 1)))

WalkMap(sink, t, buf, pos, b, n) ==
  Walked(Begin(sink, t, b, n, 1), LAMBDA s :
    Walked(WalkEach(sink, t, buf, <<s[1], pos>>, Thrown, n, LAMBDA i : 1), LAMBDA ks :
      Then(ReadBytes(buf, ks[2], BitfieldBytes(n)), LAMBDA f :
        WalkEach(sink, t, buf, <<ks[1], f[2]>>, f[1], n, LAMBDA i : 2))))

WalkValue(sink, t, buf, pos, b) ==
  CASE t.k = "struct" ->
         Then(ReadBytes(buf, pos, BitfieldBytes(Len(t.fs))), LAMBDA f :
           WalkEach(sink, t, buf, <<Begin(sink, t, b, 0, 1)[1], f[2]>>, f[1],
                    Len(t.fs), LAMBDA i : i))
    [] t.k = "list" ->
         Then(ReadBytes(buf, pos, 1), LAMBDA c :
           IF BitfieldBytes(c[1][1]) > Len(buf) - c[2] THEN Thrown
           ELSE WalkElements(sink, t, buf, c[2], b, c[1][1]))
    [] t.k = "fsl" -> WalkElements(sink, t, buf, pos, b, t.n)
    [] t.k = "map" ->
         Then(ReadBytes(buf, pos, 1), LAMBDA c :
           IF c[1][1] > Len(buf) - c[2] THEN Thrown
           ELSE WalkMap(sink, t, buf, c[2], b, c[1][1]))
    [] t.k \in {"sparse", "dense"} ->
         Then(ReadBytes(buf, pos, 1), LAMBDA c :
           LET child == c[1][1] + 1
           IN  IF child > Len(t.fs) THEN Thrown
               ELSE Walked(Begin(sink, t, b, 0, child), LAMBDA s :
                      Walked(WalkValue(sink, t.fs[child], buf, c[2], s[1].ch[child]),
                        LAMBDA x : <<[s[1] EXCEPT !.ch[child] = x[1]], x[2]>>)))
    [] OTHER -> Scalar(sink, t, buf, pos, b)

\* One row into one builder per field: the builders after it, or a throw.
WalkRow(sink, schema, buf, columns) ==
  LET root == [k |-> "struct", fs |-> [i \in DOMAIN schema |-> BuildType(schema[i])]]
      tree == [valid |-> <<>>, data |-> <<>>, pending |-> 0, ch |-> columns]
  IN  Then(ReadBytes(buf, 0, BitfieldBytes(Len(schema))), LAMBDA f :
        Walked(WalkEach(sink, root, buf, <<tree, f[2]>>, f[1], Len(schema),
                        LAMBDA i : i), LAMBDA r :
          IF sink = "skip" /\ r[2] # Len(buf) THEN Thrown ELSE <<r[1].ch, r[2]>>))

-----------------------------------------------------------------------------
(***************************************************************************)
(* BatchDecoder: columns and rows.                                         *)
(***************************************************************************)

NewDecoder(schema) ==
  [columns |-> [i \in DOMAIN schema |-> BuildNode(BuildType(schema[i]))], rows |-> 0]

\* Mutant: the row is appended without the first walk.
DecoderAppendAtOnce(schema, d, buf) ==
  LET walked == WalkRow("append", schema, buf, d.columns)
  IN  IF walked = Thrown THEN [d |-> d, end |-> "invalid_argument"]
      ELSE [d |-> [columns |-> walked[1], rows |-> d.rows + 1], end |-> "ok"]

\* Append(data, len): the whole row is walked by SkipSink, from pending
\* counters of zero, before AppendSink walks it.  The outcome is the decoder
\* after the call and how the call ended.
DecoderAppend(schema, d, buf) ==
  LET skipped == WalkRow("skip", schema, buf, d.columns)
  IN  CASE skipped = Thrown   -> [d |-> d, end |-> "invalid_argument"]
        [] skipped = Exceeded -> [d |-> d, end |-> "BatchCapacityExceeded"]
        [] OTHER -> [d |-> [columns |-> WalkRow("append", schema, buf, d.columns)[1],
                            rows |-> d.rows + 1],
                     end |-> "ok"]

\* Finish re-folds a dictionary column: the distinct values in the order of
\* their first appearance, and an index per row.
Refold(b) ==
  LET first(i) == b.valid[i] /\ \A j \in 1..(i - 1) : b.valid[j] => b.data[j] # b.data[i]
      dict == SelectSeq(Upto(Length(b)), first)
      index(i) == CHOOSE n \in DOMAIN dict : b.data[dict[n]] = b.data[i]
  IN  [valid |-> b.valid, pending |-> 0,
       data |-> [i \in DOMAIN b.valid |-> IF b.valid[i] THEN index(i) ELSE 0],
       ch |-> <<[valid |-> [n \in DOMAIN dict |-> TRUE], pending |-> 0, ch |-> <<>>,
                 data |-> [n \in DOMAIN dict |-> b.data[dict[n]]]]>>]

DecoderFinish(schema, d) ==
  [rows |-> d.rows,
   columns |-> [i \in DOMAIN schema |-> IF schema[i].k = "dict" THEN Refold(d.columns[i])
                                        ELSE d.columns[i]]]

-----------------------------------------------------------------------------
(***************************************************************************)
(* Reading an array: the windows the generated accessors hand out.  `base` *)
(* is the index before the first element of the window.                    *)
(***************************************************************************)

ValueOffset(t, b, i) == IF t.k = "fsl" THEN (i - 1) * t.n ELSE b.data[i]

ValueLength(t, b, i) ==
  IF t.k = "fsl" THEN t.n
  ELSE (IF i = Length(b) THEN Length(b.ch[1]) ELSE b.data[i + 1]) - b.data[i]

RECURSIVE ValueAt(_, _, _)

\* ScalarSpan, StructSpan and NestedStructSpan: element j is slot base + j of
\* the flattened child, null when that slot is.
ListSpan(t, b, base, n) == [j \in 1..n |-> ValueAt(t.e, b.ch[1], base + j)]

\* ScalarMapSpan and StructMapSpan: keys are not null, items may be.
MapSpan(t, b, base, n) ==
  [j \in 1..n |-> <<ValueAt(t.key, b.ch[1], base + j)[1],
                    ValueAt(t.item, b.ch[2], base + j)>>]

ValueAt(t, b, i) ==
  IF ~b.valid[i] THEN <<>>
  ELSE CASE t.k = "struct" -> <<[k \in DOMAIN t.fs |-> ValueAt(t.fs[k], b.ch[k], i)]>>
         [] t.k \in {"list", "fsl"} ->
              <<ListSpan(t, b, ValueOffset(t, b, i), ValueLength(t, b, i))>>
         [] t.k = "map" -> <<MapSpan(t, b, ValueOffset(t, b, i), ValueLength(t, b, i))>>
         [] t.k = "sparse" -> LET c == b.data[i][1] IN
              Then(ValueAt(t.fs[c + 1], b.ch[c + 1], i), LAMBDA v : <<<<c, v[1]>>>>)
         [] t.k = "dense" -> LET c == b.data[i][1] IN
              Then(ValueAt(t.fs[c + 1], b.ch[c + 1], b.data[i][2] + 1), LAMBDA v :
                <<<<c, v[1]>>>>)
         [] t.k = "dict" -> ValueAt(t.e, b.ch[1], b.data[i])
         [] OTHER -> <<b.data[i]>>

IsNull(t, b, i) == ValueAt(t, b, i) = <<>>

-----------------------------------------------------------------------------
(***************************************************************************)
(* Codec over arrays: a row of a batch encoded again.  An array is a       *)
(* builder's record seen through an offset `off`, that of a slice: slot i  *)
(* of the array is slot off + i of the record.  field(k) of a struct or    *)
(* sparse union has the parent's offset; values(), keys() and items() and  *)
(* the children of a dense union are unsliced.                             *)
(***************************************************************************)

RECURSIVE EncodeElement(_, _, _, _, _)

\* Codec's bulk path: raw bytes of an all-valid fixed-width run, but no bools.
EncodeElements(buf, offset, t, b, off, start, n) ==
  LET at(j) == off + start + j
      nulls == {j \in 1..n : IsNull(t, b, at(j))}
      marked == FoldLeft(LAMBDA w, j : IF j \in nulls THEN SetNull(w, offset, j) ELSE w,
                         buf, Upto(n))
  IN  IF nulls = {} /\ t.k \in Fixed
      THEN <<marked \o FlattenSeq([j \in 1..n |-> b.data[at(j)]])>>
      ELSE FoldLeft(LAMBDA w, j :
             Then(w, LAMBDA r : IF j \in nulls THEN r
                                ELSE EncodeElement(r[1], t, b, off, start + j)),
             <<marked>>, Upto(n))

\* A struct's fields at slot i, each written by Write(buffer, k).
EncodeFields(buf, t, b, slot, Write(_, _)) ==
  FoldLeft(LAMBDA w, k :
    Then(w, LAMBDA r :
      IF IsNull(t.fs[k], b.ch[k], slot) THEN <<SetNull(r[1], Len(buf), k)>>
      ELSE Write(r[1], k)),
    <<buf \o Zeros(BitfieldBytes(Len(t.fs)))>>, Upto(Len(t.fs)))

EncodeMapElement(buf, t, b, off, start, n) ==
  LET keys == FoldLeft(LAMBDA w, j :
                Then(w, LAMBDA r : EncodeElement(r[1], t.key, b.ch[1], off, start + j)),
                <<Append(buf, n)>>, Upto(n))
  IN  Then(keys, LAMBDA r :
        EncodeElements(r[1] \o Zeros(BitfieldBytes(n)), Len(r[1]), t.item, b.ch[2],
                       off, start, n))

EncodeElement(buf, t, b, off, i) ==
  LET slot == off + i
      start == ValueOffset(t, b, slot)
      n == ValueLength(t, b, slot)
  IN CASE t.k = "struct" ->
            EncodeFields(buf, t, b, slot, LAMBDA w, k :
              EncodeElement(w, t.fs[k], b.ch[k], off, i))
       [] t.k = "list" ->
            EncodeElements(BeginList(buf, n), Len(buf) + 1, t.e, b.ch[1], 0, start, n)
       [] t.k = "fsl" ->
            EncodeElements(BeginFixedSizeList(buf, n), Len(buf), t.e, b.ch[1], 0, start, n)
       [] t.k = "map" -> EncodeMapElement(buf, t, b, 0, start, n)
       [] t.k = "sparse" -> LET c == b.data[slot][1] IN
            EncodeElement(Append(buf, c), t.fs[c + 1], b.ch[c + 1], off, i)
       [] t.k = "dense" -> LET c == b.data[slot][1] IN
            EncodeElement(Append(buf, c), t.fs[c + 1], b.ch[c + 1], 0, b.data[slot][2] + 1)
       [] OTHER -> EncodeScalar(buf, t, b.data[slot])

\* EncodeScalarValue of GetScalar(slot): a list scalar holds a slice of the
\* child array, a struct scalar holds scalars.
RECURSIVE EncodeArrayScalar(_, _, _, _)
EncodeArrayScalar(buf, t, b, slot) ==
  CASE t.k = "struct" ->
         EncodeFields(buf, t, b, slot, LAMBDA w, k :
           EncodeArrayScalar(w, t.fs[k], b.ch[k], slot))
    [] t.k = "list" -> LET n == ValueLength(t, b, slot) IN
         EncodeElements(BeginList(buf, n), Len(buf) + 1, t.e, b.ch[1],
                        ValueOffset(t, b, slot), 0, n)
    [] t.k = "fsl" ->
         EncodeElements(BeginFixedSizeList(buf, t.n), Len(buf), t.e, b.ch[1],
                        ValueOffset(t, b, slot), 0, t.n)
    [] t.k = "map" ->
         EncodeMapElement(buf, t, b, ValueOffset(t, b, slot), 0, ValueLength(t, b, slot))
    [] t.k \in {"sparse", "dense"} -> LET c == b.data[slot][1] IN
         EncodeArrayScalar(Append(buf, c), t.fs[c + 1], b.ch[c + 1],
                           IF t.k = "dense" THEN b.data[slot][2] + 1 ELSE slot)
    [] t.k = "dict" -> EncodeScalar(buf, t.e, b.ch[1].data[b.data[slot]])
    [] OTHER -> EncodeScalar(buf, t, b.data[slot])

EncodeBatchRow(schema, batch, slot) ==
  EncodeFields(<<>>, [k |-> "struct", fs |-> schema], [ch |-> batch.columns], slot,
               LAMBDA w, k : EncodeArrayScalar(w, schema[k], batch.columns[k], slot))

=============================================================================
