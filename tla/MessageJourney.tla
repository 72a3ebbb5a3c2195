--------------------------- MODULE MessageJourney ---------------------------
(***************************************************************************)
(* A message's way through every frame it is put into: composed in the     *)
(* browser or by a C++ publisher, parsed by the gateway, published through *)
(* Fast DDS or XRCE-DDS, delivered, forwarded to a browser and shown.      *)
(*                                                                         *)
(* Keys, Values, Rows and TopicNames are the pieces messages are composed  *)
(* of, and MaxSets bounds the attachments one is given.                    *)
(***************************************************************************)
EXTENDS Envelope

CONSTANTS Keys, Values, Rows, TopicNames, MaxSets

VARIABLES
  sent,       \* what the sender composes: [row, topic, sets]
  message,    \* [stage], and what the message is at that stage
  received    \* the ReceivedData the listener's loop hands to deserialize

messageVars == <<sent, message, received>>

\* What an earlier sample may have left in the ReceivedData.
Leftovers == {[row |-> <<>>, entries |-> <<>>],
              [row |-> <<9>>, entries |-> <<Entry(<<7>>, [owner |-> "body", bytes |-> <<9>>])>>]}

MessageInit ==
  /\ \E row \in Rows, topic \in TopicNames : sent = [row |-> row, topic |-> topic, sets |-> <<>>]
  /\ message = [stage |-> "compose"]
  /\ received \in Leftovers

Stage(stage) == message.stage = stage
Drop(why) == [stage |-> "dropped", why |-> why]
Parsed(stage, result, why) ==
  IF result = NoResult THEN Drop(why) ELSE [stage |-> stage] @@ result[1]

\* The sender gives the message one more attachment.
AddAttachment ==
  /\ Stage("compose")
  /\ Len(sent.sets) < MaxSets
  /\ \E key \in Keys, bytes \in Values : sent' = [sent EXCEPT !.sets = Append(@, <<key, bytes>>)]
  /\ UNCHANGED <<message, received>>

\* FletcherClient.publish, of a Map.
BrowserPublishes ==
  /\ Stage("compose")
  /\ LET map == FoldLeft(LAMBDA m, s : MapPut(m, s[1], s[2]), <<>>, sent.sets)
     IN  message' = [stage |-> "publish",
                     bytes |-> BuildPublish(sent.topic, TsSerializeEnvelope(sent.row, map))]
  /\ UNCHANGED <<sent, received>>

\* The topic a segment list names, or the message is refused.
Named(stage, segments, m) ==
  LET name == JoinSegments(segments)
  IN  IF name = NoResult THEN Drop("topic") ELSE [stage |-> stage, name |-> name[1]] @@ m

\* A C++ caller's Attachments and its Publisher::Publish.
CppPublishes ==
  /\ Stage("compose")
  /\ LET entries == FoldLeft(LAMBDA r, s : Bind(r, LAMBDA e :
                               Bind(Blob("caller", s[2]), LAMBDA b : SetAttachment(e, s[1], b))),
                             <<<<>>>>, sent.sets)
     IN  message' = IF entries = NoResult THEN Drop("key")
                    ELSE Named("provider", SplitTopic(sent.topic),
                               [row |-> sent.row, entries |-> entries[1]])
  /\ UNCHANGED <<sent, received>>

\* WsSession::OnPublish.
OnPublishFrame ==
  /\ Stage("publish")
  /\ LET parts == ParsePublishFrame(message.bytes)
         envelope == Bind(parts, LAMBDA p : DeserializeEnvelope(p.envelope))
     IN  message' = IF envelope = NoResult THEN Drop("key")
                    ELSE Named("provider", SplitTopic(parts[1].topic), envelope[1])
  /\ UNCHANGED <<sent, received>>

\* WriteSample: an encoder's overflow drops the sample.
WriteSample ==
  /\ Stage("provider")
  /\ \E representation \in Representations :
       LET payload == Serialize(representation, message.row, message.entries)
       IN  message' = IF payload = NoResult THEN Drop("oversized")
                      ELSE [stage |-> "sample", name |-> message.name, bytes |-> payload[1],
                            damaged |-> FALSE]
  /\ UNCHANGED <<sent, received>>

\* XrceDDSPubSubProvider::Publish: the envelope as a sequence of octets.
WriteXrce ==
  /\ Stage("provider")
  /\ LET envelope == SerializeEnvelope(message.row, message.entries)
     IN  message' = [stage |-> "xrce", name |-> message.name,
                     bytes |-> U32(Len(envelope)) \o envelope, damaged |-> FALSE]
  /\ UNCHANGED <<sent, received>>

\* The end of what was put on the bus is lost.
LoseEnd ==
  /\ message.stage \in {"sample", "xrce"}
  /\ ~message.damaged
  /\ message' = [message EXCEPT !.bytes = Front(@), !.damaged = TRUE]
  /\ UNCHANGED <<sent, received>>

\* CopyingDataReaderListener::Drain taking one sample.
TakeSample ==
  /\ Stage("sample")
  /\ LET r == Deserialize(message.bytes, received)
     IN  /\ received' = r.data
         /\ message' = IF r.ok THEN [stage |-> "delivered", name |-> message.name] @@ r.data
                       ELSE Drop("damaged")
  /\ UNCHANGED sent

\* Impl::OnTopic.
OnTopicXrce ==
  /\ Stage("xrce")
  /\ LET r == XrceUnwrap(message.bytes)
     IN  message' = IF r = NoResult THEN Drop("damaged")
                    ELSE [stage |-> "delivered", name |-> message.name] @@ r[1]
  /\ UNCHANGED <<sent, received>>

\* The callback of WsSession::OnSubscribe.
Forward ==
  /\ Stage("delivered")
  /\ message' = [stage |-> "message",
                 bytes |-> MessageFrame(1, SerializeEnvelope(message.row, message.entries))]
  /\ UNCHANGED <<sent, received>>

\* FletcherClient's binary message.
Show ==
  /\ Stage("message")
  /\ message' = Parsed("shown",
                       Bind(ParseBinaryMessage(message.bytes), LAMBDA m :
                              TsDeserializeEnvelope(m.envelope)), "unreadable")
  /\ UNCHANGED <<sent, received>>

\* The message is over.
MessageOver == message.stage \in {"shown", "dropped"} /\ UNCHANGED messageVars

MessageNext ==
  \/ AddAttachment \/ BrowserPublishes \/ CppPublishes \/ OnPublishFrame
  \/ WriteSample \/ WriteXrce \/ LoseEnd \/ TakeSample \/ OnTopicXrce
  \/ Forward \/ Show \/ MessageOver

-----------------------------------------------------------------------------
(***************************************************************************)
(* Properties.                                                             *)
(***************************************************************************)

\* The attachments meant: for each key, the bytes it was last given.
MeantFor(key) ==
  LET at == {i \in DOMAIN sent.sets : sent.sets[i][1] = key} IN
  IF at = {} THEN <<>> ELSE <<sent.sets[Max(at)][2]>>

NulKeySent == \E i \in DOMAIN sent.sets : HasNul(sent.sets[i][1])

\* The envelope of the message as it was composed.
EnvelopeSize ==
  LET keys == {sent.sets[i][1] : i \in DOMAIN sent.sets}
      Size(key) == 2 * WordBytes + Len(key) + Len(MeantFor(key)[1])
  IN  2 * WordBytes + Len(sent.row) + MapThenSumSet(Size, keys)

\* A delivered message is the one composed: its row, for each key the bytes
\* last set, found under their keys and enumerated in the published order,
\* kept alive by something other than the frame they came in, and nothing of
\* the sample before; the browser is shown the same.  It goes to the topic it
\* names and to no provider's companion channel.  A message is dropped only for a
\* zero byte in a key, a name no topic may have, a row beyond the bound or a
\* frame that lost its end.
MessageArrivesWhole ==
  /\ Stage("delivered") =>
       /\ message.row = sent.row
       /\ \A key \in Keys \cup {<<7>>} :
            LET found == Find(message.entries, key) IN
            /\ (found = <<>>) = (MeantFor(key) = <<>>)
            /\ found # <<>> => /\ found[1].bytes = MeantFor(key)[1]
                               /\ found[1].bytes # <<>> =>
                                    found[1].owner \in {"caller", "copy", "body", "payload"}
       /\ \A i \in 1..Len(message.entries) - 1 :
            Less(message.entries[i].key, message.entries[i + 1].key)
  /\ message.stage \in {"provider", "delivered"} =>
       /\ message.name = sent.topic
       /\ \A i \in DOMAIN message.entries :
            message.entries[i].blob.owner # "buffer"
       /\ \A other \in TopicNames : Companion(other) # message.name
  /\ Stage("shown") =>
       /\ message.row = sent.row
       /\ {message.map[i] : i \in DOMAIN message.map}
            = {<<sent.sets[i][1], MeantFor(sent.sets[i][1])[1]>> : i \in DOMAIN sent.sets}
  /\ Stage("dropped") =>
       CASE message.why = "key" -> NulKeySent
         [] message.why = "topic" -> JoinSegments(SplitTopic(sent.topic)) = NoResult
         [] message.why = "oversized" -> EnvelopeSize > Min({PayloadBound, PoolPayload - Framing})
         [] OTHER -> message.why = "damaged"
=============================================================================
