----------------------------- MODULE RowJourney -----------------------------
(***************************************************************************)
(* A row's way from a writer through the wire into a RecordBatch: a C++ or *)
(* a browser publisher encodes rows of one topic, the ingest offset may be *)
(* stamped onto them, the wire may lose the end of a row or pad it, and a  *)
(* batching subscriber appends what arrives and finishes its batch.        *)
(*                                                                         *)
(* Tables is a set of records: a schema, the rows that are written to it,  *)
(* and whether a browser can be told of its types.  MaxBatch bounds the    *)
(* rows of a batch.                                                        *)
(***************************************************************************)
EXTENDS BatchDecoder, TsCodec

CONSTANTS Tables, MaxBatch

VARIABLES
  table,      \* the topic: [schema, rows, browser, stamped]
  wire,       \* <<>>, or the row on the wire: [bytes, row, damaged]
  decoder,    \* the subscriber's BatchDecoder
  taken       \* the rows decoder has accepted since its last Finish

rowVars == <<table, wire, decoder, taken>>

\* The _ingest_offset column: a number of two bytes, and the offset stamped.
OffsetType == [k |-> "fix", w |-> 2]
Offset == <<1, 2>>

WireSchema == IF table.stamped THEN Append(table.schema, OffsetType) ELSE table.schema
WireRow(row) == IF table.stamped THEN Append(row, <<Offset>>) ELSE row

\* How a topic of schema may be declared: by a C++ publisher, or by a browser's
\* create_topic, which the gateway refuses for all but plain scalars.
Declared(schema) ==
  {<<schema>>, BuildArrowSchemaFromJson(ArrowSchemaToJson(schema))} \ {Thrown}

RowInit ==
  /\ \E t \in Tables, stamped \in BOOLEAN : \E declared \in Declared(t.schema) :
       table = [schema |-> declared[1], rows |-> t.rows, browser |-> t.browser,
                stamped |-> stamped]
  /\ CanBuild(WireSchema)
  /\ wire = <<>>
  /\ decoder = NewDecoder(WireSchema)
  /\ taken = <<>>

Stamped(bytes) ==
  IF table.stamped THEN AppendTrailingUint64Field(bytes, Len(table.schema), Offset)
  ELSE <<bytes>>

\* A publisher's row, if its codec does not refuse it.
Write(row, written) ==
  /\ wire = <<>>
  /\ Len(taken) < MaxBatch
  /\ written # Thrown
  /\ LET sent == Stamped(written[1])
     IN  /\ sent # Thrown
         /\ wire' = <<[bytes |-> sent[1], row |-> WireRow(row), damaged |-> FALSE]>>
  /\ UNCHANGED <<table, decoder, taken>>

WriteCpp == \E row \in table.rows : Write(row, EncodeRow(table.schema, row))

WriteBrowser ==
  /\ table.browser
  /\ \E row \in table.rows :
       Write(row, EncodePositional(ArrowSchemaToJson(table.schema), row))

\* The end of the row is lost, or the row arrives with a byte behind it.
Damage ==
  /\ wire # <<>>
  /\ ~wire[1].damaged
  /\ \E bytes \in {Front(wire[1].bytes), Append(wire[1].bytes, 0)} :
       wire' = <<[wire[1] EXCEPT !.bytes = bytes, !.damaged = TRUE]>>
  /\ UNCHANGED <<table, decoder, taken>>

\* What an Append leaves behind the rows that were taken before it.
Appended(append, before) ==
  /\ decoder' = append.d
  /\ taken' = before \o (IF append.end = "ok" THEN <<wire[1].row>> ELSE <<>>)

\* BatchDecoder::Append of the row that arrives.  A row the batch has no room
\* for is appended to the batch after it.
Arrive ==
  /\ wire # <<>>
  /\ \E first \in {DecoderAppend(WireSchema, decoder, wire[1].bytes)} :
       IF first.end # "BatchCapacityExceeded" THEN Appended(first, taken)
       ELSE \E again \in {DecoderAppend(WireSchema, NewDecoder(WireSchema), wire[1].bytes)} :
              Appended(again, <<>>)
  /\ wire' = <<>>
  /\ UNCHANGED table

\* BatchDecoder::Finish.
FinishBatch ==
  /\ taken # <<>>
  /\ wire = <<>>
  /\ decoder' = NewDecoder(WireSchema)
  /\ taken' = <<>>
  /\ UNCHANGED <<table, wire>>

RowNext == WriteCpp \/ WriteBrowser \/ Damage \/ Arrive \/ FinishBatch

-----------------------------------------------------------------------------
(***************************************************************************)
(* Properties.                                                             *)
(***************************************************************************)

\* A row that arrives whole is read as the row that was written, whichever
\* side wrote it and whichever side reads it, and its ingest offset is found
\* at its end; a row that lost its end or has bytes behind it is refused by
\* Codec::DecodeRow, never read as another row.
RowsSurviveTheWire ==
  wire # <<>> =>
    LET bytes == wire[1].bytes IN
    IF wire[1].damaged THEN DecodeRow(WireSchema, bytes) = Thrown
    ELSE /\ DecodeRow(WireSchema, bytes) = <<wire[1].row>>
         /\ table.browser =>
              DecodePositional(ArrowSchemaToJson(WireSchema), bytes) = <<wire[1].row>>
         /\ table.stamped => ReadTrailingUint64Field(bytes, 2) = <<Offset>>

\* The builders with 32-bit offsets hold no more than Limit.
RECURSIVE InLimit(_, _)
InLimit(t, b) ==
  /\ t.k = "var" => DataLength(b, Length(b)) <= Limit
  /\ t.k \in {"list", "map"} => Length(b.ch[1]) <= Limit
  /\ \A k \in DOMAIN b.ch : InLimit(ChildTypes(t)[k], b.ch[k])

\* The batch holds exactly the rows whose Append returned, in order, each
\* readable through the accessors' spans and encoded again to the bytes of
\* the row: an Append that throws leaves no part of its row behind, and no
\* offset of a column passes its limit.
BatchHoldsWholeRows ==
  LET batch == DecoderFinish(WireSchema, decoder) IN
  /\ batch.rows = Len(taken)
  /\ \A k \in DOMAIN WireSchema :
       InLimit(BuildType(WireSchema[k]), decoder.columns[k])
  /\ \A i \in DOMAIN taken :
       /\ [k \in DOMAIN WireSchema |-> ValueAt(WireSchema[k], batch.columns[k], i)]
            = taken[i]
       /\ EncodeBatchRow(WireSchema, batch, i) = EncodeRow(WireSchema, taken[i])

=============================================================================
