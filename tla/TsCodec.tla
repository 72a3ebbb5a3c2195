------------------------------ MODULE TsCodec ------------------------------
(***************************************************************************)
(* The browser side of a row: the schema descriptor the gateway sends, and *)
(* the TypeScript encoder and decoder that work from it.                   *)
(*                                                                         *)
(* A descriptor is a type of RowWire with what JSON carries of it.  The    *)
(* decoder checks less than the C++ one: a DataView read past the end      *)
(* throws, but a slice past the end is short, a bit past the end is 0 and  *)
(* a byte past the end is `undefined`, which as a bool is true.            *)
(***************************************************************************)
EXTENDS RowWire

\* FieldToJson and parseFieldDescriptor.  A dictionary has no wire type, and
\* the children of a union are not sent.
RECURSIVE FieldToJson(_)
FieldToJson(t) ==
  CASE t.k = "struct" ->
         [t EXCEPT !.fs = [i \in DOMAIN t.fs |-> FieldToJson(t.fs[i])]]
    [] t.k \in {"list", "fsl"} -> [t EXCEPT !.e = FieldToJson(t.e)]
    [] t.k = "map" ->
         [t EXCEPT !.key = FieldToJson(t.key), !.item = FieldToJson(t.item)]
    [] t.k \in {"sparse", "dense"} -> [t EXCEPT !.fs = <<>>]
    [] t.k = "dict" -> [k |-> "UNKNOWN"]
    [] OTHER -> t

ArrowSchemaToJson(schema) == [i \in DOMAIN schema |-> FieldToJson(schema[i])]

\* create_topic: a schema from a browser has plain scalars only.
BuildArrowSchemaFromJson(fields) ==
  IF \E i \in DOMAIN fields : fields[i].k \notin {"bool", "fix", "var"} THEN Thrown
  ELSE <<fields>>

-----------------------------------------------------------------------------
(***************************************************************************)
(* encodePositional.                                                       *)
(***************************************************************************)

\* setUint32 keeps the low bits of a count.
WriteU32(buf, n) == Append(buf, n % 2 ^ ByteBits)

WriteScalar(buf, d, v) ==
  CASE d.k = "bool" -> <<Append(buf, IF v = <<0>> THEN 0 ELSE 1)>>
    [] d.k \in {"fix", "time"} -> <<buf \o v>>
    [] d.k = "var" -> <<WriteU32(buf, Len(v)) \o v>>
    [] OTHER -> Thrown

RECURSIVE WriteValue(_, _, _)

\* n values behind a reserved bitfield; a missing value is written as null.
WriteEach(buf, ds, xs, n) ==
  FoldLeft(LAMBDA w, i :
    Then(w, LAMBDA r :
      IF i > Len(xs) \/ xs[i] = <<>> THEN <<SetNull(r[1], Len(buf), i)>>
      ELSE WriteValue(r[1], ds[i], xs[i][1])),
    <<buf \o Zeros(BitfieldBytes(n))>>, Upto(n))

WriteMap(buf, d, entries) ==
  LET n == Len(entries)
      keys == FoldLeft(LAMBDA w, i :
                Then(w, LAMBDA r : WriteValue(r[1], d.key, entries[i][1])),
                <<WriteU32(buf, n)>>, Upto(n))
  IN  Then(keys, LAMBDA r :
        WriteEach(r[1], [i \in 1..n |-> d.item], [i \in 1..n |-> entries[i][2]], n))

WriteValue(buf, d, v) ==
  CASE d.k = "struct" -> WriteEach(buf, d.fs, v, Len(d.fs))
    [] d.k = "list" ->
         WriteEach(WriteU32(buf, Len(v)), [i \in 1..Len(v) |-> d.e], v, Len(v))
    [] d.k = "fsl" -> WriteEach(buf, [i \in 1..d.n |-> d.e], v, d.n)
    [] d.k = "map" -> WriteMap(buf, d, v)
    [] OTHER -> WriteScalar(buf, d, v)

EncodePositional(ds, row) == WriteEach(<<>>, ds, row, Len(ds))

-----------------------------------------------------------------------------
(***************************************************************************)
(* decodePositional.                                                       *)
(***************************************************************************)

\* A DataView read.
ViewBytes(data, pos, n) ==
  IF pos + n > Len(data) THEN Thrown
  ELSE <<SubSeq(data, pos + 1, pos + n), pos + n>>

Slice(data, pos, n) ==
  SubSeq(data, pos + 1, IF pos + n > Len(data) THEN Len(data) ELSE pos + n)

IsNullBit(data, start, i) ==
  /\ start + (i - 1) \div ByteBits + 1 <= Len(data)
  /\ ReadNullBit(SubSeq(data, start + 1, Len(data)), i)

ReadScalar(data, pos, d) ==
  CASE d.k = "bool" -> <<IF pos < Len(data) /\ data[pos + 1] = 0 THEN <<0>> ELSE <<1>>,
                         pos + 1>>
    [] d.k \in {"fix", "time"} -> ViewBytes(data, pos, d.w)
    [] d.k = "var" -> Then(ViewBytes(data, pos, 1), LAMBDA c :
                        <<Slice(data, c[2], c[1][1]), c[2] + c[1][1]>>)
    [] OTHER -> Thrown

RECURSIVE TsDecodeValue(_, _, _)

TsDecodeEach(data, bits, pos, ds) ==
  FoldLeft(LAMBDA r, i :
    Then(r, LAMBDA s :
      IF IsNullBit(data, bits, i) THEN <<Append(s[1], <<>>), s[2]>>
      ELSE Then(TsDecodeValue(data, s[2], ds[i]), LAMBDA x :
             <<Append(s[1], <<x[1]>>), x[2]>>)),
    <<<<>>, pos>>, Upto(Len(ds)))

TsDecodeAll(data, pos, ds) ==
  TsDecodeEach(data, pos, pos + BitfieldBytes(Len(ds)), ds)

\* Map.set: a key that is there keeps its place and takes the new value.
MapSet(map, key, v) ==
  IF \E i \in DOMAIN map : map[i][1] = key
  THEN [i \in DOMAIN map |-> IF map[i][1] = key THEN <<key, v>> ELSE map[i]]
  ELSE Append(map, <<key, v>>)

TsDecodeMap(data, pos, n, d) ==
  LET keys == FoldLeft(LAMBDA r, i :
                Then(r, LAMBDA s :
                  Then(TsDecodeValue(data, s[2], d.key), LAMBDA x :
                    <<Append(s[1], x[1]), x[2]>>)),
                <<<<>>, pos>>, Upto(n))
  IN  Then(keys, LAMBDA ks :
        Then(TsDecodeAll(data, ks[2], [i \in 1..n |-> d.item]), LAMBDA vs :
          <<FoldLeft(LAMBDA m, i : MapSet(m, ks[1][i], vs[1][i]), <<>>, Upto(n)), vs[2]>>))

TsDecodeValue(data, pos, d) ==
  CASE d.k = "struct" -> TsDecodeAll(data, pos, d.fs)
    [] d.k = "list" -> Then(ViewBytes(data, pos, 1), LAMBDA c :
         TsDecodeAll(data, c[2], [i \in 1..c[1][1] |-> d.e]))
    [] d.k = "fsl" -> TsDecodeAll(data, pos, [i \in 1..d.n |-> d.e])
    [] d.k = "map" -> Then(ViewBytes(data, pos, 1), LAMBDA c :
         TsDecodeMap(data, c[2], c[1][1], d))
    [] d.k \in {"sparse", "dense"} -> Then(ViewBytes(data, pos, 1), LAMBDA c :
         IF c[1][1] >= Len(d.fs) THEN Thrown
         ELSE TsDecodeValue(data, c[2], d.fs[c[1][1] + 1]))
    [] OTHER -> ReadScalar(data, pos, d)

DecodePositional(ds, data) ==
  Then(TsDecodeAll(data, 0, ds), LAMBDA r : <<r[1]>>)

=============================================================================
