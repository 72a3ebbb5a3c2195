------------------------------ MODULE Envelope ------------------------------
(***************************************************************************)
(* A row with its attachments as bytes: Attachments and the builder that   *)
(* decoders fill them through (core/types.hpp), the envelope of C++, of    *)
(* Fast DDS and of the browser, the Fast DDS sample around it, the XRCE    *)
(* and WebSocket frames, and the names of topics.                          *)
(*                                                                         *)
(* A byte is a number below ByteValues and 0 is the zero byte, a uint32    *)
(* takes WordBytes bytes, low byte first.  A function that can throw or    *)
(* report failure yields NoResult or <<result>>.  Attachments are the       *)
(* sequence of their entries; a blob is its bytes and what keeps them      *)
(* alive.                                                                  *)
(***************************************************************************)
EXTENDS WriteWindow, SequencesExt, FiniteSetsExt

CONSTANTS
  MaxJoinedTopicBytes,   \* kMaxJoinedTopicBytes
  PayloadBound,          \* the type's payload_bytes_
  PoolPayload            \* SerializedPayload_t::max_size of the writer's pool

ByteValues == 16
Bind(result, F(_)) == IF result = NoResult THEN NoResult ELSE F(result[1])

U32(n) == [i \in 1..WordBytes |-> (n \div (ByteValues ^ (i - 1))) % ByteValues]
ReadU32(s, pos) ==
  FoldLeft(LAMBDA sum, i : sum + s[pos + i] * (ByteValues ^ (i - 1)), 0,
           [i \in 1..WordBytes |-> i])
Piece(s, pos, len) == SubSeq(s, pos + 1, pos + len)

-----------------------------------------------------------------------------
(* core/types.hpp *)

NoOwner == "none"

\* Blob's constructor: bytes need something that keeps them alive.
Blob(owner, bytes) ==
  IF bytes = <<>> THEN <<[owner |-> NoOwner, bytes |-> <<>>]>>
  ELSE IF owner = NoOwner THEN NoResult
  ELSE <<[owner |-> owner, bytes |-> bytes]>>

\* The order of keys: unsigned bytes, the shorter first on a common prefix.
Less(a, b) ==
  \/ IsStrictPrefix(a, b)
  \/ \E i \in DOMAIN a \cap DOMAIN b :
       a[i] < b[i] /\ \A j \in 1..i - 1 : a[j] = b[j]

HasNul(key) == \E i \in DOMAIN key : key[i] = 0
Entry(key, blob) == [key |-> key, blob |-> blob]

\* Attachments::Set: in front of the first key that is not less.
SetAttachment(entries, key, blob) ==
  LET before == SelectSeq(entries, LAMBDA e : Less(e.key, key))
      after == SelectSeq(entries, LAMBDA e : Less(key, e.key))
  IN  IF HasNul(key) THEN NoResult ELSE <<before \o <<Entry(key, blob)>> \o after>>

\* Attachments::Find: a binary search, which sees a key only where the order
\* puts it.
Find(entries, key) ==
  LET at == Cardinality({i \in DOMAIN entries : Less(entries[i].key, key)}) + 1
  IN  IF at \in DOMAIN entries /\ entries[at].key = key THEN <<entries[at].blob>> ELSE <<>>

NewBuilder == [entries |-> <<>>, ascending |-> TRUE]

\* AttachmentsWireBuilder::Append.
BuilderAppend(b, key, blob) ==
  IF HasNul(key) THEN NoResult
  ELSE <<[entries |-> Append(b.entries, Entry(key, blob)),
          ascending |-> b.ascending
                        /\ (b.entries # <<>> => Less(Last(b.entries).key, key))]>>

\* AttachmentsWireBuilder::Finish: a stable sort, and the last of each run of
\* equal keys.
BuilderFinish(b) ==
  LET sorted == SetToSortSeq({b.entries[i].key : i \in DOMAIN b.entries}, Less)
      Latest(key) == b.entries[Max({i \in DOMAIN b.entries : b.entries[i].key = key})]
  IN  IF b.ascending THEN b.entries ELSE [i \in DOMAIN sorted |-> Latest(sorted[i])]

-----------------------------------------------------------------------------
(* The envelope: [ROW_LEN][ROW][COUNT] and per attachment [LEN][KEY][LEN][BLOB] *)

EntryBytes(e) == U32(Len(e.key)) \o e.key \o U32(Len(e.blob.bytes)) \o e.blob.bytes

\* SerializeEnvelope, and serializeEnvelope in the browser.
SerializeEnvelope(row, entries) ==
  U32(Len(row)) \o row \o U32(Len(entries))
    \o FlattenSeq([i \in DOMAIN entries |-> EntryBytes(entries[i])])

\* EncodeEnvelopeBody: the same into a window, its first word patched when
\* the row's encoder is done.
EncodeEnvelopeBody(w, row, entries) ==
  LET placed == AppendBytes(w, U32(0))
      rowed == Bind(placed, LAMBDA x : AppendBytes(x, row))
      patched == Bind(rowed, LAMBDA x : PatchU32(x, w.pos, U32(x.pos - w.pos - WordBytes)))
      counted == Bind(patched, LAMBDA x : AppendBytes(x, U32(Len(entries))))
  IN  FoldLeft(LAMBDA r, e : Bind(r, LAMBDA x : AppendBytes(x, EntryBytes(e))), counted, entries)

\* How many attachments the bytes claim, 0 when they are too short to say.
EnvelopeAttachmentCount(data) ==
  IF Len(data) < WordBytes \/ ReadU32(data, 0) > Len(data) - WordBytes THEN 0
  ELSE LET pos == WordBytes + ReadU32(data, 0)
       IN  IF Len(data) - pos < WordBytes THEN 0 ELSE ReadU32(data, pos)

\* A length and that many bytes from pos, as <<bytes, next position>>.
ReadLengthed(data, pos) ==
  IF pos + WordBytes > Len(data) THEN NoResult
  ELSE LET len == ReadU32(data, pos)
       IN  IF pos + WordBytes + len > Len(data) THEN NoResult
           ELSE <<<<Piece(data, pos + WordBytes, len), pos + WordBytes + len>>>>

\* One attachment from the wire into the builder, blobs where they lie in the
\* bytes that owner keeps alive: <<builder, next position>>.
ReadEntry(owner, data, b, pos) ==
  Bind(ReadLengthed(data, pos), LAMBDA key :
    Bind(ReadLengthed(data, key[2]), LAMBDA bytes :
      Bind(Blob(owner, bytes[1]), LAMBDA blob :
        Bind(BuilderAppend(b, key[1], blob), LAMBDA after : <<<<after, bytes[2]>>>>))))

ReadEntries(owner, data, count, pos) ==
  Bind(FoldLeft(LAMBDA r, i : Bind(r, LAMBDA x : ReadEntry(owner, data, x[1], x[2])),
                <<<<NewBuilder, pos>>>>, [i \in 1..count |-> i]),
       LAMBDA x : <<BuilderFinish(x[1])>>)

\* DeserializeEnvelope(owner, data, size).
DeserializeOwned(owner, data) ==
  IF Len(data) < 2 * WordBytes THEN NoResult
  ELSE Bind(ReadLengthed(data, 0), LAMBDA row :
         IF row[2] + WordBytes > Len(data) THEN NoResult
         ELSE Bind(ReadEntries(owner, data, ReadU32(data, row[2]), row[2] + WordBytes),
                   LAMBDA entries : <<[row |-> row[1], entries |-> entries]>>))

\* Mutant: the frame is parsed where it lies in the read buffer.
DeserializeInPlace(data) == DeserializeOwned("buffer", data)

\* DeserializeEnvelope(data, size): one shared copy, if there are attachments.
DeserializeEnvelope(data) ==
  DeserializeOwned(IF EnvelopeAttachmentCount(data) = 0 THEN NoOwner ELSE "copy", data)

\* ParseEnvelopeBody: bytes that end behind the row have no attachments, and
\* the count is bounded by what the bytes can hold.
ParseEnvelopeBody(owner, data) ==
  Bind(ReadLengthed(data, 0), LAMBDA row :
    LET left == Len(data) - row[2]
        count == ReadU32(data, row[2])
    IN  IF left < WordBytes THEN <<[row |-> row[1], entries |-> <<>>]>>
        ELSE IF count > (left - WordBytes) \div (2 * WordBytes) THEN NoResult
        ELSE Bind(ReadEntries(owner, data, count, row[2] + WordBytes),
                  LAMBDA entries : <<[row |-> row[1], entries |-> entries]>>))

\* deserializeEnvelope in the browser: a Map, in the order of first insertion.
MapPut(map, key, bytes) ==
  LET at == {i \in DOMAIN map : map[i][1] = key}
  IN  IF at = {} THEN Append(map, <<key, bytes>>)
      ELSE [map EXCEPT ![CHOOSE i \in at : TRUE] = <<key, bytes>>]

TsReadEntry(data, map, pos) ==
  Bind(ReadLengthed(data, pos), LAMBDA key :
    Bind(ReadLengthed(data, key[2]), LAMBDA bytes :
      <<<<MapPut(map, key[1], bytes[1]), bytes[2]>>>>))

TsDeserializeEnvelope(data) ==
  IF Len(data) < 2 * WordBytes THEN NoResult
  ELSE Bind(ReadLengthed(data, 0), LAMBDA row :
         IF row[2] + WordBytes > Len(data) THEN NoResult
         ELSE Bind(FoldLeft(LAMBDA r, i : Bind(r, LAMBDA x : TsReadEntry(data, x[1], x[2])),
                            <<<<<<>>, row[2] + WordBytes>>>>,
                            [i \in 1..ReadU32(data, row[2]) |-> i]),
                   LAMBDA x : <<[row |-> row[1], map |-> x[1]]>>))

TsSerializeEnvelope(row, map) ==
  SerializeEnvelope(row, [i \in DOMAIN map |->
                            Entry(map[i][1], [owner |-> NoOwner, bytes |-> map[i][2]])])

-----------------------------------------------------------------------------
(* fletcher_sample_pub_sub_type.hpp: [HEADER][LENGTH][ENVELOPE] *)

PlainCdr == 1
PlainCdr2 == 7
Representations == {PlainCdr, PlainCdr2}
Header(representation) == [U32(0) EXCEPT ![1] = representation]
Framing == 2 * WordBytes

\* FletcherSamplePubSubType::serialize: the outcome, and the payload of a
\* sample that was written.
Serialize(representation, row, entries) ==
  LET capacity == Min({PayloadBound, PoolPayload - Framing})
      body == EncodeEnvelopeBody(NewFixed([i \in 1..capacity |-> 1]), row, entries)
  IN  IF PoolPayload < Framing + WordBytes \/ body = NoResult THEN NoResult
      ELSE <<Header(representation) \o U32(body[1].pos) \o SubSeq(body[1].data, 1, body[1].pos)>>

\* FletcherSamplePubSubType::deserialize, into a ReceivedData whose parts are
\* left from the sample before.
Deserialize(payload, d) ==
  LET length == ReadU32(payload, WordBytes)
      body == Piece(payload, Framing, length)
      owner == IF EnvelopeAttachmentCount(body) > 0 THEN "body" ELSE NoOwner
  IN  IF Len(payload) < Framing \/ payload[1] \notin Representations
         \/ length > Len(payload) - Framing
      THEN [ok |-> FALSE, data |-> d]
      ELSE LET parsed == ParseEnvelopeBody(owner, body)
           IN  IF parsed = NoResult
               THEN [ok |-> FALSE,
                     data |-> IF ReadLengthed(body, 0) = NoResult THEN d
                              ELSE [d EXCEPT !.entries = <<>>]]
               ELSE [ok |-> TRUE, data |-> parsed[1]]

-----------------------------------------------------------------------------
(* The XRCE and WebSocket frames *)

\* A sequence<octet> from the Agent, in Impl::OnTopic.
XrceUnwrap(payload) ==
  IF Len(payload) < WordBytes \/ WordBytes + ReadU32(payload, 0) > Len(payload) THEN NoResult
  ELSE DeserializeOwned("payload", Piece(payload, WordBytes, ReadU32(payload, 0)))

\* [SUB_ID][ENVELOPE], and buildPublish's [TOPIC_LEN][TOPIC][ENVELOPE].
MessageFrame(subId, envelope) == U32(subId) \o envelope
ParseBinaryMessage(frame) ==
  IF Len(frame) < WordBytes THEN NoResult
  ELSE <<[subId |-> ReadU32(frame, 0),
          envelope |-> Piece(frame, WordBytes, Len(frame) - WordBytes)]>>

BuildPublish(topic, envelope) == U32(Len(topic)) \o topic \o envelope
ParsePublishFrame(frame) ==
  Bind(ReadLengthed(frame, 0), LAMBDA topic :
    <<[topic |-> topic[1], envelope |-> Piece(frame, topic[2], Len(frame) - topic[2])]>>)

-----------------------------------------------------------------------------
(* Topic names: characters, of which these two are special *)

Slash == 14
Underscore == 15

\* WsSession::SplitTopic: every piece, the empty ones too.
SplitTopic(topic) ==
  LET step(segments, c) ==
        IF c = Slash THEN Append(segments, <<>>)
        ELSE [segments EXCEPT ![Len(segments)] = Append(@, c)]
  IN  IF topic = <<>> THEN <<>> ELSE FoldLeft(step, <<<<>>>>, topic)

Joined(segments) == Tail(FlattenSeq([i \in DOMAIN segments |-> <<Slash>> \o segments[i]]))

\* RequireSegments.
SegmentsAllowed(segments) ==
  /\ segments # <<>>
  /\ Len(Joined(segments)) <= MaxJoinedTopicBytes
  /\ \A i \in DOMAIN segments :
       LET s == segments[i] IN
       /\ s # <<>>
       /\ ~IsPrefix(<<Underscore, Underscore>>, s)
       /\ \A j \in DOMAIN s : s[j] \notin {Slash, 0}

JoinSegments(segments) == IF SegmentsAllowed(segments) THEN <<Joined(segments)>> ELSE NoResult

\* The companion channel both DDS providers derive from a name.
Companion(name) == name \o <<Slash, Underscore, Underscore>>
=============================================================================
