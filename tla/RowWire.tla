------------------------------ MODULE RowWire ------------------------------
(***************************************************************************)
(* The positional row format and its C++ codec: PositionalWriter and       *)
(* PositionalReader of the core, and Codec of the arrow bridge.            *)
(*                                                                         *)
(* A buffer is a sequence of bytes.  A byte has ByteBits bits and a length *)
(* or COUNT prefix is one byte, so that three fields already straddle two  *)
(* bitfield bytes; the code has 8 bits and 4 bytes.                        *)
(*                                                                         *)
(* A type is a record whose k is its kind: "bool"; "fix", "time" and "fsb" *)
(* (numbers, temporal types and fixed_size_binary: w bytes each); "var"    *)
(* (string, binary, their large and view forms); "struct", "list", "fsl"   *)
(* (fixed_size_list), "map", "sparse" and "dense" (the unions), "dict".  A *)
(* field or element is <<>> when null and <<v>> otherwise; v is a sequence *)
(* of bytes, of fields, of elements, of <<key, item>> pairs, or            *)
(* <<type code, v>>.                                                       *)
(*                                                                         *)
(* Every writer threads the buffer written so far and every reader a       *)
(* position; Thrown is the result of the std::invalid_argument paths.      *)
(***************************************************************************)
EXTENDS Integers, Sequences, SequencesExt

CONSTANT ByteBits

ASSUME ByteBitsAssumption == ByteBits \in Nat \ {0}

Thrown == <<>>

\* The result of reading or writing on, from a result that may be a throw.
Then(result, F(_)) == IF result = Thrown THEN Thrown ELSE F(result)

Upto(n) == [i \in 1..n |-> i]

BitfieldBytes(n) == (n + ByteBits - 1) \div ByteBits

\* The largest value of a length or COUNT prefix: CheckCountFits refuses more.
CountMax == 2 ^ ByteBits - 1

Zeros(n) == [i \in 1..n |-> 0]

-----------------------------------------------------------------------------
(***************************************************************************)
(* PositionalWriter.                                                       *)
(***************************************************************************)

\* OR the null bit of position i into the bitfield that starts at offset.
SetNull(buf, offset, i) ==
  LET at == offset + (i - 1) \div ByteBits + 1
      bit == 2 ^ ((i - 1) % ByteBits)
  IN  IF (buf[at] \div bit) % 2 = 1 THEN buf
      ELSE [buf EXCEPT ![at] = @ + bit]

WriteBinary(buf, bytes) == buf \o <<Len(bytes)>> \o bytes

\* BeginList: COUNT, then the zeroed null bitfield; the elements follow it.
BeginList(buf, n) == buf \o <<n>> \o Zeros(BitfieldBytes(n))

\* A fixed-size list has the bitfield and no COUNT.
BeginFixedSizeList(buf, n) == buf \o Zeros(BitfieldBytes(n))

\* Mutant: the bitfield never grows.
AppendTrailingOnly(row, n, offset) ==
  IF Len(row) < BitfieldBytes(n) THEN Thrown ELSE <<row \o offset>>

\* Appends one non-null field of `width` bytes to a row of n fields without
\* decoding it.
AppendTrailingUint64Field(row, n, offset) ==
  LET old == BitfieldBytes(n)
      new == BitfieldBytes(n + 1)
      at == n \div ByteBits + 1
      bit == 2 ^ (n % ByteBits)
      head == SubSeq(row, 1, old) \o Zeros(new - old)
      cleared == IF (head[at] \div bit) % 2 = 1
                 THEN [head EXCEPT ![at] = @ - bit] ELSE head
  IN  IF Len(row) < old THEN Thrown
      ELSE <<cleared \o SubSeq(row, old + 1, Len(row)) \o offset>>

ReadTrailingUint64Field(row, width) ==
  IF Len(row) < width THEN Thrown
  ELSE <<SubSeq(row, Len(row) - width + 1, Len(row))>>

-----------------------------------------------------------------------------
(***************************************************************************)
(* Codec, encoding.  EncodeElement reads a value out of an array and       *)
(* EncodeScalarValue out of a Scalar; both write the same bytes, and the   *)
(* array side is modelled with the arrays in module BatchDecoder.          *)
(***************************************************************************)

Nested == {"struct", "list", "fsl", "map", "sparse", "dense"}
Fixed == {"fix", "time", "fsb"}

\* Fixed-width types have a width; every other type has 0.
FixedWidth(t) == IF t.k \in Fixed \cup {"bool"} THEN t.w ELSE 0

EncodeScalar(buf, t, v) ==
  CASE t.k = "bool" -> <<buf \o <<IF v = <<0>> THEN 0 ELSE 1>>>>
    [] t.k \in Fixed -> <<buf \o v>>
    [] t.k = "var"  -> IF Len(v) > CountMax THEN Thrown
                       ELSE <<WriteBinary(buf, v)>>
    [] OTHER        -> Thrown

RECURSIVE EncodeScalarValue(_, _, _)

\* The fields or elements xs, whose null bitfield starts at offset.
EncodeEach(start, offset, ts, xs) ==
  FoldLeft(LAMBDA w, i :
             Then(w, LAMBDA r :
               IF xs[i] = <<>> THEN <<SetNull(r[1], offset, i)>>
               ELSE EncodeScalarValue(r[1], ts[i], xs[i][1])),
           <<start>>, Upto(Len(xs)))

EncodeStruct(buf, ts, xs) ==
  EncodeEach(buf \o Zeros(BitfieldBytes(Len(ts))), Len(buf), ts, xs)

EncodeMap(buf, t, entries) ==
  LET n == Len(entries)
      count == IF n > CountMax THEN Thrown ELSE <<Append(buf, n)>>
      keys == FoldLeft(LAMBDA w, i :
                Then(w, LAMBDA r :
                  EncodeScalarValue(r[1], t.key, entries[i][1])),
                count, Upto(n))
  IN  Then(keys, LAMBDA r :
        EncodeEach(r[1] \o Zeros(BitfieldBytes(n)), Len(r[1]),
                   [i \in 1..n |-> t.item], [i \in 1..n |-> entries[i][2]]))

EncodeScalarValue(buf, t, v) ==
  CASE t.k = "struct" -> EncodeStruct(buf, t.fs, v)
    [] t.k = "list" ->
         IF Len(v) > CountMax THEN Thrown
         ELSE EncodeEach(BeginList(buf, Len(v)), Len(buf) + 1,
                         [i \in 1..Len(v) |-> t.e], v)
    [] t.k = "fsl" ->
         IF Len(v) # t.n THEN Thrown
         ELSE EncodeEach(BeginFixedSizeList(buf, t.n), Len(buf),
                         [i \in 1..t.n |-> t.e], v)
    [] t.k = "map" -> EncodeMap(buf, t, v)
    [] t.k \in {"sparse", "dense"} ->
         IF v[1] >= Len(t.fs) THEN Thrown
         ELSE EncodeScalarValue(Append(buf, v[1]), t.fs[v[1] + 1], v[2])
    [] t.k = "dict" ->
         IF t.e.k \in Nested \cup {"dict"} THEN Thrown
         ELSE EncodeScalar(buf, t.e, v)
    [] OTHER -> EncodeScalar(buf, t, v)

EncodeRow(schema, row) ==
  IF Len(row) # Len(schema) THEN Thrown
  ELSE EncodeStruct(<<>>, schema, row)

-----------------------------------------------------------------------------
(***************************************************************************)
(* Codec, decoding.  A result is <<value, position after it>>.             *)
(***************************************************************************)

ReadBytes(buf, pos, n) ==
  IF n > Len(buf) - pos THEN Thrown
  ELSE <<SubSeq(buf, pos + 1, pos + n), pos + n>>

ReadNullBit(bits, i) ==
  (bits[(i - 1) \div ByteBits + 1] \div 2 ^ ((i - 1) % ByteBits)) % 2 = 1

AllValid(bits) == \A b \in 1..Len(bits) : bits[b] = 0

AllNull(bits, n) == \A i \in 1..n : ReadNullBit(bits, i)

\* The decoded object representation: a bool is normalised to 0 or 1.
Canonical(t, v) == IF t.k = "bool" /\ v # <<0>> THEN <<1>> ELSE v

DecodeScalar(buf, pos, t) ==
  CASE t.k \in Fixed \cup {"bool"} ->
         Then(ReadBytes(buf, pos, t.w), LAMBDA r : <<Canonical(t, r[1]), r[2]>>)
    [] t.k = "var" ->
         Then(ReadBytes(buf, pos, 1), LAMBDA r : ReadBytes(buf, r[2], r[1][1]))
    [] OTHER -> Thrown

RECURSIVE DecodeValue(_, _, _)

\* The values of ts, the bit i of `bits` telling whether value i is null.
DecodeEach(buf, pos, bits, ts) ==
  FoldLeft(LAMBDA r, i :
             Then(r, LAMBDA s :
               IF ReadNullBit(bits, i) THEN <<Append(s[1], <<>>), s[2]>>
               ELSE Then(DecodeValue(buf, s[2], ts[i]), LAMBDA x :
                      <<Append(s[1], <<x[1]>>), x[2]>>)),
           <<<<>>, pos>>, Upto(Len(ts)))

DecodeStruct(buf, pos, ts) ==
  Then(ReadBytes(buf, pos, BitfieldBytes(Len(ts))), LAMBDA b :
    DecodeEach(buf, b[2], b[1], ts))

\* An all-valid run of a fixed-width type is taken as one block; a dictionary
\* element is read as its value.
RECURSIVE DecodeListElements(_, _, _, _)
DecodeListElements(buf, pos, n, t) ==
  IF t.k = "dict" THEN DecodeListElements(buf, pos, n, t.e)
  ELSE Then(ReadBytes(buf, pos, BitfieldBytes(n)), LAMBDA b :
    IF n > 0 /\ FixedWidth(t) > 0 /\ AllValid(b[1])
    THEN IF n > (Len(buf) - b[2]) \div FixedWidth(t) THEN Thrown
         ELSE Then(ReadBytes(buf, b[2], n * FixedWidth(t)), LAMBDA r :
                <<[i \in 1..n |->
                     <<Canonical(t, SubSeq(r[1], (i - 1) * t.w + 1, i * t.w))>>],
                  r[2]>>)
    ELSE DecodeEach(buf, b[2], b[1], [i \in 1..n |-> t]))

DecodeMap(buf, pos, n, t) ==
  LET keys == FoldLeft(LAMBDA r, i :
                Then(r, LAMBDA s :
                  Then(DecodeValue(buf, s[2], t.key), LAMBDA x :
                    <<Append(s[1], x[1]), x[2]>>)),
                <<<<>>, pos>>, Upto(n))
  IN  Then(keys, LAMBDA ks :
        Then(ReadBytes(buf, ks[2], BitfieldBytes(n)), LAMBDA b :
          Then(DecodeEach(buf, b[2], b[1], [i \in 1..n |-> t.item]), LAMBDA vs :
            <<[i \in 1..n |-> <<ks[1][i], vs[1][i]>>], vs[2]>>)))

DecodeValue(buf, pos, t) ==
  CASE t.k = "struct" -> DecodeStruct(buf, pos, t.fs)
    [] t.k = "list" ->
         Then(ReadBytes(buf, pos, 1), LAMBDA c :
           IF BitfieldBytes(c[1][1]) > Len(buf) - c[2] THEN Thrown
           ELSE DecodeListElements(buf, c[2], c[1][1], t.e))
    [] t.k = "fsl" -> DecodeListElements(buf, pos, t.n, t.e)
    [] t.k = "map" ->
         Then(ReadBytes(buf, pos, 1), LAMBDA c :
           IF c[1][1] > Len(buf) - c[2] THEN Thrown
           ELSE DecodeMap(buf, c[2], c[1][1], t))
    [] t.k \in {"sparse", "dense"} ->
         Then(ReadBytes(buf, pos, 1), LAMBDA c :
           IF c[1][1] >= Len(t.fs) THEN Thrown
           ELSE Then(DecodeValue(buf, c[2], t.fs[c[1][1] + 1]), LAMBDA x :
                  <<<<c[1][1], x[1]>>, x[2]>>))
    [] t.k = "dict" ->
         IF t.e.k \in Nested \cup {"dict"} THEN Thrown
         ELSE DecodeScalar(buf, pos, t.e)
    [] OTHER -> DecodeScalar(buf, pos, t)

\* The row, or Thrown; a buffer that is not consumed to its end is refused.
DecodeRow(schema, buf) ==
  Then(DecodeStruct(buf, 0, schema), LAMBDA r :
    IF r[2] # Len(buf) THEN Thrown ELSE <<r[1]>>)

=============================================================================
