------------------------------ MODULE XrceProof ------------------------------
(***************************************************************************)
(* Proofs about XrceProvider: its safety invariants hold for any number of *)
(* schemas, bounds, rows, announcements, subscriptions and failures.       *)
(*                                                                         *)
(* IInv adds to them what a method that waits for the Agent still has to   *)
(* create (StillCreates), what the arrival of the current subscription     *)
(* says (ArrivalTells), and that no row waits where a schema is known      *)
(* (BufferInPlace).                                                        *)
(*                                                                         *)
(* And WindowHoldsWhatWasWritten of WriteWindow, the buffer that every row *)
(* is encoded into, for any sizes.  WindowInv adds that a vector is blank  *)
(* above its position and what a producer has left of a lent window.       *)
(***************************************************************************)
EXTENDS XrceProvider, WriteWindow, SequenceTheorems, FiniteSetTheorems, TLAPS

SchemaOrNull == Schemas \cup {Null}
Rows == Seq(Nat)
TopicStates ==
    [ids : SUBSET Kinds, max_payload_bytes : Nat, schema : SchemaOrNull,
     shared_schema : SchemaOrNull, declared : SchemaOrNull,
     is_publisher : BOOLEAN, channel : Arrivals \cup {NoSub},
     schema_resolver : Arrivals \cup {NoArrival}, pending : Rows,
     schema_reader : Nat]
Waitable == Kinds \cup {"announce", "confirm"}
Calls == [op : {"none", "CreateTopic", "Subscribe"}, todo : Seq(Waitable),
          schema : SchemaOrNull, bound : Nat]
Frames == [sub : Arrivals \cup {NoSub}, schema : SchemaOrNull, rows : Rows]
Agents == [has : SUBSET Kinds, bound : Nat, reading : SUBSET Nat, pos : Nat,
           sent : Nat]
Messages == [reader : Nat, row : Nat, schema : SchemaOrNull]
Retained == [schema : SchemaOrNull, bound : Nat, version : Nat, local : BOOLEAN]
Answers == [status : Outcomes \cup {"unmade", "kPending"}, schema : SchemaOrNull]

TypeOK ==
    /\ ts \in TopicStates /\ call \in Calls /\ frame \in Frames
    /\ agent \in Agents /\ wire \in Seq(Messages) /\ retained \in Retained
    /\ bus \in Seq(Nat)
    /\ accepted \in Rows /\ handled \in Rows
    /\ subs \in Nat
    /\ arrival \in [Arrivals -> Answers]

Has(seq, x) == \E i \in 1..Len(seq) : seq[i] = x

\* What a declaration needs exists on the Agent, or is still to be created.
StillCreates ==
    /\ call.op = "CreateTopic" =>
          /\ "writer" \in agent.has \/ Has(call.todo, "writer")
          /\ call.schema # Null =>
                \/ {"schema_topic", "schema_writer"} \subseteq agent.has
                \/ Has(call.todo, "schema_writer")
    /\ Has(call.todo, "announce") => call.schema # Null

\* Samples of the schema channel carry a schema.
SchemasTravel ==
    /\ retained.version > 0 => retained.schema \in Schemas
    /\ \A i \in 1..Len(wire) : wire[i].reader # DataReader => wire[i].schema \in Schemas

\* The current subscription, its token and its arrival.
ArrivalTells ==
    /\ ts.channel \in {NoSub, subs} /\ subs \in Arrivals \cup {NoArrival}
    /\ ts.schema_resolver # NoArrival =>
          ts.schema_resolver = subs /\ arrival[subs].status = "kPending"
    /\ call.op = "Subscribe" => subs # NoSub /\ ts.channel = NoSub
    /\ ts.schema = Null => ts.shared_schema = Null
    /\ ts.shared_schema # Null /\ (ts.channel # NoSub \/ call.op = "Subscribe") =>
          arrival[subs] = [status |-> "kOk", schema |-> ts.shared_schema]

\* Rows wait only for a live subscription whose schema is not known, and a
\* delivery in progress is one of the live subscription.
BufferInPlace ==
    /\ ts.channel = NoSub \/ ts.shared_schema # Null => ts.pending = << >>
    /\ frame # NoFrame => frame.sub = ts.channel /\ ts.channel # NoSub

IInv ==
    /\ TypeOK /\ StillCreates /\ SchemasTravel /\ ArrivalTells /\ BufferInPlace
    /\ DeliveredInOrder /\ DeliveredAsReported /\ PublisherIsBacked

\* Subscriptions and arrivals are numbered from 1, and 0 is none of them.
LEMMA ArrivalsAreNumbers ==
    Arrivals \subseteq Nat \ {0} /\ NoArrival = 0 /\ NoSub = 0
<1>. Cardinality(Arrivals) \in Nat
  BY XrceAssumption, FS_CardinalityType
<1>. QED  BY XrceAssumption DEF NoSub

\* What is in a concatenation is in one of its parts.
LEMMA HasConcat ==
    ASSUME NEW S, NEW a \in Seq(S), NEW b \in Seq(S), NEW x
    PROVE  a \o b \in Seq(S) /\ (Has(a \o b, x) <=> Has(a, x) \/ Has(b, x))
<1>1. /\ a \o b \in Seq(S) /\ Len(a \o b) = Len(a) + Len(b)
      /\ \A i \in 1..Len(a) + Len(b) :
            (a \o b)[i] = IF i <= Len(a) THEN a[i] ELSE b[i - Len(a)]
  BY ConcatProperties
<1>2. Len(a) \in Nat /\ Len(b) \in Nat
  BY LenProperties
<1>3. ASSUME Has(a, x) PROVE Has(a \o b, x)
  BY <1>1, <1>2, <1>3 DEF Has
<1>4. ASSUME Has(b, x) PROVE Has(a \o b, x)
  <2>1. PICK i \in 1..Len(b) : b[i] = x
    BY <1>4 DEF Has
  <2>2. Len(a) + i \in 1..Len(a) + Len(b) /\ ~(Len(a) + i <= Len(a))
        /\ (Len(a) + i) - Len(a) = i
    BY <1>2
  <2>3. (a \o b)[Len(a) + i] = x
    BY <1>1, <2>1, <2>2
  <2>. QED  BY <1>1, <2>2, <2>3 DEF Has
<1>5. ASSUME Has(a \o b, x) PROVE Has(a, x) \/ Has(b, x)
  <2>1. PICK i \in 1..Len(a) + Len(b) : (a \o b)[i] = x
    BY <1>1, <1>5 DEF Has
  <2>2. CASE i <= Len(a)
    BY <1>1, <1>2, <2>1, <2>2 DEF Has
  <2>3. CASE ~(i <= Len(a))
    <3>1. i - Len(a) \in 1..Len(b)
      BY <1>2, <2>3
    <3>. QED  BY <1>1, <2>1, <2>3, <3>1 DEF Has
  <2>. QED  BY <2>2, <2>3
<1>. QED  BY <1>1, <1>3, <1>4, <1>5

\* What is in a sequence is its head, or in its tail.
LEMMA HasTail ==
    ASSUME NEW S, NEW a \in Seq(S), a # << >>, NEW x
    PROVE  /\ Head(a) \in S /\ Tail(a) \in Seq(S)
           /\ Has(Tail(a), x) => Has(a, x)
           /\ Has(a, x) => Head(a) = x \/ Has(Tail(a), x)
<1>1. /\ Head(a) \in S /\ Tail(a) \in Seq(S) /\ Len(Tail(a)) = Len(a) - 1
      /\ \A i \in 1..Len(Tail(a)) : Tail(a)[i] = a[i + 1]
  BY HeadTailProperties
<1>2. Len(a) \in Nat \ {0} /\ Head(a) = a[1]
  BY EmptySeq
<1>3. ASSUME Has(Tail(a), x) PROVE Has(a, x)
  BY <1>1, <1>2, <1>3 DEF Has
<1>4. ASSUME Has(a, x), Head(a) # x PROVE Has(Tail(a), x)
  <2>1. PICK i \in 1..Len(a) : a[i] = x
    BY <1>4 DEF Has
  <2>2. i - 1 \in 1..Len(Tail(a)) /\ (i - 1) + 1 = i
    BY <1>1, <1>2, <1>4, <2>1
  <2>. QED  BY <1>1, <2>1, <2>2 DEF Has
<1>. QED  BY <1>1, <1>3, <1>4

\* A sequence of one element has that element and no other.
LEMMA HasSingle ==
    ASSUME NEW S, NEW e \in S, NEW x
    PROVE  /\ << >> \in Seq(S) /\ ~Has(<< >>, x)
           /\ <<e>> \in Seq(S) /\ (Has(<<e>>, x) <=> e = x)
<1>1. << >> \in Seq(S) /\ Len(<< >>) = 0 /\ 1..0 = {}
  OBVIOUS
<1>2. <<e>> \in Seq(S) /\ Len(<<e>>) = 1 /\ <<e>>[1] = e
  OBVIOUS
<1>3. \A i : i \in 1..1 <=> i = 1
  OBVIOUS
<1>. QED
  BY <1>1, <1>2, <1>3 DEF Has

\* Concatenation of rows, the first sequence taken apart.
LEMMA RowsAssociate ==
    ASSUME NEW a \in Seq(Nat), NEW b \in Seq(Nat), NEW c \in Seq(Nat)
    PROVE  (a \o b) \o c = a \o (b \o c)
  BY ConcatAssociative

\* Rows handed on keep their order: out of the buffer, and out of a delivery.
LEMMA RowsKeepOrder ==
    ASSUME NEW h \in Rows, NEW p \in Rows, NEW x \in Nat
    PROVE  /\ << >> \in Rows /\ Append(h, x) \in Rows /\ <<x>> \in Rows
           /\ (h \o << >>) \o p = (h \o p) \o << >>
           /\ Append((h \o << >>) \o p, x) = (h \o << >>) \o Append(p, x)
           /\ Append((h \o << >>) \o << >>, x) = (h \o <<x>>) \o << >>
<1>. USE DEF Rows
<1>1. << >> \in Seq(Nat) /\ Append(h, x) \in Seq(Nat) /\ <<x>> \in Seq(Nat)
  BY AppendProperties
<1>2. h \o << >> = h /\ h \o p \in Seq(Nat) /\ (h \o p) \o << >> = h \o p
  BY ConcatEmptySeq, ConcatProperties
<1>3. Append(h \o p, x) = h \o Append(p, x)
  <2>1. Append(h \o p, x) = (h \o p) \o <<x>> /\ Append(p, x) = p \o <<x>>
    BY <1>2, AppendIsConcat
  <2>. QED  BY <1>1, <2>1, ConcatAssociative
<1>4. Append(h, x) = h \o <<x>> /\ (h \o <<x>>) \o << >> = h \o <<x>>
  BY <1>1, AppendIsConcat, ConcatEmptySeq, ConcatProperties
<1>. QED  BY <1>1, <1>2, <1>3, <1>4

\* A row handed out is the first of those that were still to be.
LEMMA RowHandedOut ==
    ASSUME NEW h \in Rows, NEW r \in Rows, r # << >>
    PROVE  /\ Head(r) \in Nat /\ Tail(r) \in Rows
           /\ Append(h, Head(r)) \o Tail(r) = h \o r
<1>. USE DEF Rows
<1>1. /\ Head(r) \in Nat /\ Tail(r) \in Seq(Nat) /\ Head(r) = r[1]
      /\ Len(Tail(r)) = Len(r) - 1 /\ \A i \in 1..Len(Tail(r)) : Tail(r)[i] = r[i + 1]
  BY HeadTailProperties
<1>2. <<Head(r)>> \o Tail(r) = r
  <2>1. Len(r) \in Nat \ {0}
    BY EmptySeq
  <2>2. <<Head(r)>> \in Seq(Nat) /\ Len(<<Head(r)>>) = 1 /\ <<Head(r)>>[1] = Head(r)
    BY <1>1
  <2>3. /\ <<Head(r)>> \o Tail(r) \in Seq(Nat)
        /\ Len(<<Head(r)>> \o Tail(r)) = 1 + Len(Tail(r))
        /\ \A i \in 1..(1 + Len(Tail(r))) : (<<Head(r)>> \o Tail(r))[i] =
              IF i <= 1 THEN <<Head(r)>>[i] ELSE Tail(r)[i - 1]
    BY <1>1, <2>2, ConcatProperties
  <2>4. \A i \in 1..Len(r) : (<<Head(r)>> \o Tail(r))[i] = r[i]
    BY <1>1, <2>1, <2>2, <2>3
  <2>. QED  BY <1>1, <2>1, <2>3, <2>4, SeqEqual
<1>3. Append(h, Head(r)) = h \o <<Head(r)>> /\ <<Head(r)>> \in Seq(Nat)
  BY <1>1, AppendIsConcat
<1>4. \A a, b \in Seq(Nat) : (h \o a) \o b = h \o (a \o b)
  BY RowsAssociate, Zenon
<1>. QED  BY <1>1, <1>2, <1>3, <1>4

\* The constructor establishes the invariant.
LEMMA InitIInv == Init => IInv
<1>. SUFFICES ASSUME Init PROVE IInv
  OBVIOUS
<1>. USE ArrivalsAreNumbers
     DEF Init, ArrivalInit, NoTopicState, NoCall, NoFrame, NoAgent, NoSample
<1>1. TypeOK
  <2>1. ts \in TopicStates /\ frame \in Frames
    BY DEF TopicStates, Frames, SchemaOrNull, Rows
  <2>2. call \in Calls
    BY DEF Calls, SchemaOrNull
  <2>3. agent \in Agents /\ retained \in Retained
    BY DEF Agents, Retained, SchemaOrNull
  <2>4. arrival \in [Arrivals -> Answers]
    BY DEF Answers, Unmade, SchemaOrNull
  <2>. QED  BY <2>1, <2>2, <2>3, <2>4 DEF TypeOK, Rows
<1>2. StillCreates /\ SchemasTravel /\ PublisherIsBacked
  BY DEF StillCreates, Has, SchemasTravel, PublisherIsBacked
<1>3. ArrivalTells /\ BufferInPlace /\ DeliveredAsReported /\ DeliveredInOrder
  BY DEF ArrivalTells, BufferInPlace, DeliveredAsReported, DeliveredInOrder
<1>. QED  BY <1>1, <1>2, <1>3 DEF IInv

\* What is construction and destruction, or is on the bus only, is not seen.
LEMMA UntouchedStep ==
    ASSUME IInv, bus' \in Seq(Nat), lost' => lost,
           UNCHANGED <<ts, call, frame, agent, wire, retained, accepted, handled,
                       subs, arrival>>
    PROVE  IInv'
<1>. USE DEF IInv
<1>1. TypeOK' /\ StillCreates' /\ SchemasTravel' /\ PublisherIsBacked'
  BY DEF TypeOK, StillCreates, SchemasTravel, PublisherIsBacked
<1>2. ArrivalTells' /\ BufferInPlace' /\ DeliveredInOrder' /\ DeliveredAsReported'
  BY DEF ArrivalTells, BufferInPlace, DeliveredInOrder, DeliveredAsReported
<1>. QED  BY <1>1, <1>2

\* The ids set before a wait are ids of the topic's entities.
LEMMA WithIdsType ==
    ASSUME NEW op, NEW todo \in Seq(Waitable), NEW state \in TopicStates
    PROVE  /\ WithIds(op, todo, state) \in TopicStates
           /\ \A f \in {"max_payload_bytes", "schema", "shared_schema", "declared",
                        "is_publisher", "channel", "schema_resolver", "pending",
                        "schema_reader"} : WithIds(op, todo, state)[f] = state[f]
<1>. DEFINE more == IF todo = << >> THEN {} ELSE Sets(op, Head(todo))
<1>1. more \subseteq Kinds
  <2>1. CASE todo = << >>
    BY <2>1
  <2>2. CASE todo # << >>
    <3>1. Head(todo) \in Waitable
      BY <2>2, HeadTailProperties
    <3>2. Sets(op, Head(todo)) \subseteq Kinds
      BY <3>1 DEF Sets, Waitable, Kinds
    <3>. QED  BY <2>2, <3>2
  <2>. QED  BY <2>1, <2>2
<1>2. WithIds(op, todo, state) = [state EXCEPT !.ids = state.ids \cup more]
  BY DEF WithIds
<1>. HIDE DEF more
<1>. QED  BY <1>1, <1>2 DEF TopicStates

\* The Agent answers a wait with at most one entity more.
LEMMA ProvidedType ==
    ASSUME TypeOK, Waits
    PROVE  /\ Provided \in Agents /\ Provided.has = agent.has \cup {Head(call.todo)}
           /\ Provided.reading = agent.reading /\ Provided.sent = agent.sent
           /\ Head(call.todo) \in Kinds
  BY DEF TypeOK, Agents, Calls, Waits, Provided

\* WaitForStatus succeeds: one thing less to create, one more on the Agent.
LEMMA CreatedStep ==
    ASSUME IInv, Created
    PROVE  IInv'
<1>. USE DEF IInv
<1>. DEFINE kind == Head(call.todo)
            routed == kind = "schema_reader"
            next == WithIds(call.op, Tail(call.todo), ts)
            n == ts.schema_reader + 1
            x == IF kind = "writer" /\ call.schema # Null THEN call.schema ELSE ts.schema
<1>1. /\ Waits /\ call.todo # << >> /\ kind \in Kinds /\ call.todo \in Seq(Waitable)
      /\ Tail(call.todo) \in Seq(Waitable)
      /\ \A y : /\ Has(Tail(call.todo), y) => Has(call.todo, y)
                /\ Has(call.todo, y) => kind = y \/ Has(Tail(call.todo), y)
  <2>1. Waits /\ call.todo # << >> /\ kind \in Kinds /\ call.todo \in Seq(Waitable)
    BY DEF Created, Waits, TypeOK, Calls
  <2>. QED  BY <2>1, HasTail
<1>2. /\ call' \in Calls /\ call'.todo = Tail(call.todo)
      /\ call'.op = call.op /\ call'.schema = call.schema
  <2>1. call' = [call EXCEPT !.todo = Tail(call.todo)]
    BY DEF Created
  <2>. QED  BY <1>1, <2>1 DEF TypeOK, Calls
<1>3. /\ next \in TopicStates
      /\ \A f \in {"max_payload_bytes", "schema", "shared_schema", "declared",
                   "is_publisher", "channel", "schema_resolver", "pending",
                   "schema_reader"} : next[f] = ts[f]
  BY <1>1, WithIdsType DEF TypeOK
<1>4. ts' = [next EXCEPT !.schema_reader = IF routed THEN n ELSE ts.schema_reader,
                         !.schema = x]
  BY <1>3 DEF Created
<1>5. x \in SchemaOrNull /\ n \in Nat /\ (ts.schema # Null => x # Null)
  BY DEF TypeOK, Calls, TopicStates
<1>6. /\ ts' \in TopicStates /\ ts'.schema = x
      /\ \A f \in {"shared_schema", "declared", "is_publisher", "channel",
                   "schema_resolver", "pending"} : ts'[f] = ts[f]
  <2>. HIDE DEF next, x, n
  <2>. QED  BY <1>3, <1>4, <1>5 DEF TopicStates
<1>7. agent' \in Agents /\ agent'.has = agent.has \cup {kind}
  <2>1. agent' = [Provided EXCEPT
                    !.reading = IF routed THEN Provided.reading \cup {n} ELSE Provided.reading,
                    !.sent = IF routed THEN 0 ELSE Provided.sent]
    BY DEF Created
  <2>. HIDE DEF routed, n, kind
  <2>. QED  BY <1>1, <1>5, <2>1, ProvidedType DEF Agents, kind
<1>8. /\ Needs(kind) \subseteq agent.has
      /\ UNCHANGED <<frame, wire, bus, retained, accepted, handled, lost, arrival, subs>>
  BY DEF Created, ghostVars, arrivalVars, counterVars
<1>. HIDE DEF kind, routed, next, n, x
<1>9. TypeOK'
  BY <1>2, <1>6, <1>7, <1>8 DEF TypeOK
<1>10. StillCreates'
  <2>1. kind = "schema_writer" => "schema_topic" \in agent.has
    BY <1>8 DEF Needs
  <2>. QED  BY <1>1, <1>2, <1>7, <2>1 DEF StillCreates
<1>11. SchemasTravel' /\ PublisherIsBacked'
  BY <1>6, <1>7, <1>8 DEF SchemasTravel, PublisherIsBacked
<1>12. ArrivalTells' /\ BufferInPlace' /\ DeliveredInOrder' /\ DeliveredAsReported'
  BY <1>2, <1>5, <1>6, <1>8
  DEF ArrivalTells, BufferInPlace, DeliveredInOrder, DeliveredAsReported
<1>. QED  BY <1>9, <1>10, <1>11, <1>12

\* NoCall is well typed and has nothing left to create.
LEMMA NoCallType == NoCall \in Calls /\ ~Has(NoCall.todo, "announce") /\ NoCall.op = "none"
  BY DEF NoCall, Calls, SchemaOrNull, Has

\* A wait that fails ends the method; what exists on the Agent stays.
LEMMA NotCreatedStep ==
    ASSUME IInv, NotCreated
    PROVE  IInv'
<1>. USE DEF IInv
<1>1. /\ Waits /\ call' = NoCall /\ agent' \in {agent, Provided}
      /\ UNCHANGED <<ts, frame, wire, bus, retained, accepted, handled, lost, arrival, subs>>
  BY DEF NotCreated, ghostVars, arrivalVars
<1>2. agent' \in Agents /\ agent.has \subseteq agent'.has
  BY <1>1, ProvidedType DEF TypeOK
<1>3. TypeOK' /\ StillCreates'
  BY <1>1, <1>2, NoCallType DEF TypeOK, StillCreates
<1>4. SchemasTravel' /\ PublisherIsBacked'
  BY <1>1, <1>2 DEF SchemasTravel, PublisherIsBacked
<1>5. ArrivalTells' /\ BufferInPlace' /\ DeliveredInOrder' /\ DeliveredAsReported'
  BY <1>1, NoCallType DEF ArrivalTells, BufferInPlace, DeliveredInOrder, DeliveredAsReported
<1>. QED  BY <1>3, <1>4, <1>5

\* CreateTopic starts with everything a declaration needs still to be created.
LEMMA CreateTopicStep ==
    ASSUME IInv, NEW s \in Schemas \cup {Null}, NEW asked \in Bounds \cup {0},
           CreateTopic(s, asked)
    PROVE  IInv'
<1>. USE DEF IInv
<1>. DEFINE b == IF asked = 0 THEN ConfigBound ELSE asked
            made == "participant" \in ts.ids
            start == IF made THEN << >> ELSE <<"participant", "topic">>
            channel == IF "schema_topic" \in ts.ids THEN << >> ELSE <<"schema_topic">>
            announcing == IF s = Null THEN << >>
                          ELSE channel \o <<"schema_writer", "announce", "confirm">>
            todo == start \o <<"writer">> \o announcing
            bound == IF made THEN BoundKept(b) ELSE b
<1>1. start \in Seq(Waitable) /\ channel \in Seq(Waitable) /\ <<"writer">> \in Seq(Waitable)
      /\ <<"schema_writer", "announce", "confirm">> \in Seq(Waitable)
  <2>. {"participant", "topic", "writer", "schema_topic", "schema_writer", "announce",
        "confirm"} \subseteq Waitable
    BY DEF Waitable, Kinds
  <2>1. /\ <<"participant", "topic">> \in Seq(Waitable) /\ << >> \in Seq(Waitable)
        /\ <<"schema_topic">> \in Seq(Waitable) /\ <<"writer">> \in Seq(Waitable)
    OBVIOUS
  <2>2. <<"schema_writer", "announce", "confirm">> \in Seq(Waitable)
    OBVIOUS
  <2>. QED  BY <2>1, <2>2
<1>2. ~Has(start, "announce") /\ ~Has(<<"writer">>, "announce") /\ Has(<<"writer">>, "writer")
      /\ Has(<<"schema_writer", "announce", "confirm">>, "schema_writer")
  BY DEF Has
<1>3. /\ announcing \in Seq(Waitable)
      /\ s # Null => Has(announcing, "schema_writer")
      /\ s = Null => ~Has(announcing, "announce")
  <2>1. CASE s = Null
    BY <2>1, HasSingle DEF Has
  <2>2. CASE s # Null
    <3>. DEFINE a == <<"schema_writer", "announce", "confirm">>
    <3>. HIDE DEF channel, a
    <3>1. announcing = channel \o a
      BY <2>2 DEF a
    <3>2. a \in Seq(Waitable) /\ Has(a, "schema_writer")
      BY <1>1, <1>2 DEF a
    <3>. QED  BY <1>1, <2>2, <3>1, <3>2, HasConcat
  <2>. QED  BY <2>1, <2>2
<1>. HIDE DEF start, announcing, channel
<1>4. todo \in Seq(Waitable) /\ Has(todo, "writer")
      /\ (s # Null => Has(todo, "schema_writer")) /\ (s = Null => ~Has(todo, "announce"))
  <2>. DEFINE w == <<"writer">>
  <2>0. w \in Seq(Waitable) /\ Has(w, "writer") /\ ~Has(w, "announce")
    BY <1>1, <1>2
  <2>. HIDE DEF w
  <2>1. /\ start \o w \in Seq(Waitable) /\ Has(start \o w, "writer")
        /\ ~Has(start \o w, "announce")
    BY <1>1, <1>2, <2>0, HasConcat
  <2>. DEFINE v == start \o w
  <2>2. todo = v \o announcing
    BY DEF w
  <2>3. v \in Seq(Waitable) /\ Has(v, "writer") /\ ~Has(v, "announce")
    BY <2>1
  <2>. HIDE DEF v, todo
  <2>. QED  BY <1>3, <2>2, <2>3, HasConcat
<1>5. b \in Nat /\ bound \in Nat
  BY XrceAssumption DEF TypeOK, TopicStates, BoundKept
<1>6. /\ call' = [op |-> "CreateTopic", todo |-> todo, schema |-> s, bound |-> b]
      /\ ts' = WithIds("CreateTopic", todo, [ts EXCEPT !.max_payload_bytes = bound])
      /\ call = NoCall /\ frame = NoFrame
      /\ UNCHANGED <<frame, agent, wire, bus, retained, accepted, handled, lost, arrival, subs>>
  BY DEF CreateTopic, Entered, externalVars, ghostVars, arrivalVars, start, announcing, channel
<1>. HIDE DEF todo, bound, b
<1>7. call' \in Calls /\ call'.op = "CreateTopic" /\ call'.todo = todo /\ call'.schema = s
  BY <1>4, <1>5, <1>6 DEF Calls, SchemaOrNull
<1>8. /\ ts' \in TopicStates
      /\ \A f \in {"schema", "shared_schema", "declared", "is_publisher", "channel",
                   "schema_resolver", "pending"} : ts'[f] = ts[f]
  <2>. DEFINE t == [ts EXCEPT !.max_payload_bytes = bound]
  <2>1. /\ t \in TopicStates
        /\ \A f \in {"schema", "shared_schema", "declared", "is_publisher", "channel",
                     "schema_resolver", "pending"} : t[f] = ts[f]
    BY <1>5 DEF TypeOK, TopicStates
  <2>2. ts' = WithIds("CreateTopic", todo, t)
    BY <1>6
  <2>. HIDE DEF t
  <2>. QED  BY <1>4, <2>1, <2>2, WithIdsType
<1>9. TypeOK' /\ StillCreates'
  BY <1>4, <1>6, <1>7, <1>8 DEF TypeOK, StillCreates
<1>10. SchemasTravel' /\ PublisherIsBacked'
  BY <1>6, <1>8 DEF SchemasTravel, PublisherIsBacked
<1>11. ArrivalTells' /\ BufferInPlace' /\ DeliveredInOrder' /\ DeliveredAsReported'
  BY <1>6, <1>7, <1>8, NoCallType
  DEF ArrivalTells, BufferInPlace, DeliveredInOrder, DeliveredAsReported
<1>. QED  BY <1>9, <1>10, <1>11

\* The announcement is made by a method that declares a schema.
LEMMA AnnounceStep ==
    ASSUME IInv, Announce
    PROVE  IInv'
<1>. USE DEF IInv
<1>1. /\ call.todo \in Seq(Waitable) /\ call.todo # << >> /\ Head(call.todo) = "announce"
      /\ call' = [call EXCEPT !.todo = Tail(call.todo)]
      /\ retained' = [schema |-> call.schema, bound |-> ts.max_payload_bytes,
                      version |-> retained.version + 1, local |-> TRUE]
      /\ UNCHANGED <<ts, frame, agent, wire, bus, accepted, handled, lost, arrival, subs>>
  BY DEF Announce, TypeOK, Calls, ghostVars, arrivalVars, counterVars
<1>2. /\ Tail(call.todo) \in Seq(Waitable)
      /\ \A y \in {"writer", "schema_writer", "announce"} :
            /\ Has(Tail(call.todo), y) => Has(call.todo, y)
            /\ Has(call.todo, y) => Head(call.todo) = y \/ Has(Tail(call.todo), y)
  BY <1>1, HasTail
<1>3. Has(call.todo, "announce")
  <2>1. Len(call.todo) \in Nat \ {0} /\ Head(call.todo) = call.todo[1]
    BY <1>1, EmptySeq
  <2>. QED  BY <1>1, <2>1 DEF Has
<1>4. /\ call' \in Calls /\ call'.todo = Tail(call.todo)
      /\ call'.op = call.op /\ call'.schema = call.schema
  BY <1>1, <1>2 DEF TypeOK, Calls
<1>5. call.schema \in Schemas
  BY <1>3 DEF StillCreates, TypeOK, Calls, SchemaOrNull
<1>6. retained' \in Retained /\ retained'.schema \in Schemas
  BY <1>1, <1>5 DEF TypeOK, Retained, TopicStates, SchemaOrNull
<1>7. TypeOK' /\ StillCreates'
  BY <1>1, <1>2, <1>4, <1>6 DEF TypeOK, StillCreates
<1>8. SchemasTravel' /\ PublisherIsBacked'
  BY <1>1, <1>6 DEF SchemasTravel, PublisherIsBacked
<1>9. ArrivalTells' /\ BufferInPlace' /\ DeliveredInOrder' /\ DeliveredAsReported'
  BY <1>1, <1>4 DEF ArrivalTells, BufferInPlace, DeliveredInOrder, DeliveredAsReported
<1>. QED  BY <1>7, <1>8, <1>9

\* A declaration ends with nothing left to create: all of it is on the Agent.
LEMMA DeclareStep ==
    ASSUME IInv, Declare
    PROVE  IInv'
<1>. USE DEF IInv
<1>1. /\ call.op = "CreateTopic" /\ call.todo \in {<< >>, <<"confirm">>} /\ call' = NoCall
      /\ ts' = [ts EXCEPT !.declared = call.schema, !.is_publisher = TRUE]
      /\ UNCHANGED <<frame, agent, wire, bus, retained, accepted, handled, lost, arrival, subs>>
  BY DEF Declare, externalVars, ghostVars, arrivalVars, counterVars
<1>2. ~Has(call.todo, "writer") /\ ~Has(call.todo, "schema_writer")
  BY <1>1 DEF Has
<1>3. /\ ts' \in TopicStates /\ ts'.declared = call.schema
      /\ \A f \in {"schema", "shared_schema", "channel", "schema_resolver", "pending"} :
            ts'[f] = ts[f]
  BY <1>1 DEF TypeOK, TopicStates, Calls
<1>4. TypeOK' /\ StillCreates'
  BY <1>1, <1>3, NoCallType DEF TypeOK, StillCreates
<1>5. SchemasTravel' /\ PublisherIsBacked'
  BY <1>1, <1>2, <1>3 DEF SchemasTravel, PublisherIsBacked, StillCreates
<1>6. ArrivalTells' /\ BufferInPlace' /\ DeliveredInOrder' /\ DeliveredAsReported'
  BY <1>1, <1>3, NoCallType
  DEF ArrivalTells, BufferInPlace, DeliveredInOrder, DeliveredAsReported
<1>. QED  BY <1>4, <1>5, <1>6

\* A declared topic has its writer, so no row of Publish is lost.
LEMMA PublishStep ==
    ASSUME IInv, Publish
    PROVE  IInv'
<1>. USE DEF IInv
<1>1. /\ ts.is_publisher /\ "writer" \in agent.has
      /\ bus' = Append(bus, agent.bound) /\ (lost' => lost)
      /\ UNCHANGED <<ts, call, frame, agent, wire, retained, accepted, handled, arrival, subs>>
  BY DEF Publish, MayPublish, PublisherIsBacked, arrivalVars, counterVars
<1>2. bus' \in Seq(Nat)
  BY <1>1 DEF TypeOK, Agents
<1>. QED  BY <1>1, <1>2, UntouchedStep

\* A new arrival does not disturb the others, and is answered at once by the
\* schema that the topic knows.
LEMMA SubscribeStep ==
    ASSUME IInv, Subscribe
    PROVE  IInv'
<1>. USE DEF IInv
<1>. DEFINE n == subs + 1
            known == ts.schema # Null
            a == IF "participant" \in ts.ids THEN << >> ELSE <<"participant", "topic">>
            b == IF known \/ "schema_reader" \in ts.ids THEN << >>
                 ELSE <<"schema_topic", "schema_reader">>
            c == IF "reader" \in ts.ids THEN << >> ELSE <<"reader">>
            todo == (a \o b) \o c
            dropped == DropResolver(arrival, ts.schema_resolver)
            fresh == Create(dropped, n)
            t == [ts EXCEPT !.shared_schema = IF known THEN ts.schema ELSE ts.shared_schema,
                            !.schema_resolver = IF known THEN NoArrival ELSE n]
<1>1. /\ call = NoCall /\ frame = NoFrame /\ ts.channel = NoSub
      /\ n \in Arrivals /\ subs' = n
      /\ arrival' = IF known THEN Resolve(fresh, n, ts.schema) ELSE fresh
      /\ ts' = WithIds("Subscribe", todo, t)
      /\ call' = [op |-> "Subscribe", todo |-> todo, schema |-> Null, bound |-> ConfigBound]
      /\ UNCHANGED <<frame, agent, wire, bus, retained, accepted, handled, lost>>
  BY DEF Subscribe, Entered, Refused, externalVars, ghostVars
<1>2. todo \in Seq(Waitable) /\ ~Has(todo, "announce")
  <2>1. /\ a \in Seq(Waitable) /\ b \in Seq(Waitable) /\ c \in Seq(Waitable)
        /\ ~Has(a, "announce") /\ ~Has(b, "announce") /\ ~Has(c, "announce")
    <3>1. {"participant", "topic", "reader", "schema_topic", "schema_reader"} \subseteq Waitable
      BY DEF Waitable, Kinds
    <3>2. a \in Seq(Waitable) /\ ~Has(a, "announce")
      BY <3>1 DEF Has
    <3>3. b \in Seq(Waitable) /\ ~Has(b, "announce")
      BY <3>1 DEF Has
    <3>4. c \in Seq(Waitable) /\ ~Has(c, "announce")
      BY <3>1 DEF Has
    <3>. QED  BY <3>2, <3>3, <3>4
  <2>. DEFINE ab == a \o b
  <2>. HIDE DEF a, b, c
  <2>2. ab \in Seq(Waitable) /\ ~Has(ab, "announce")
    BY <2>1, HasConcat
  <2>. HIDE DEF ab
  <2>3. todo = ab \o c
    BY DEF ab
  <2>. HIDE DEF todo
  <2>. QED  BY <2>1, <2>2, <2>3, HasConcat
<1>. HIDE DEF todo
<1>3. /\ call' \in Calls /\ call'.op = "Subscribe" /\ call'.todo = todo
  <2>1. ConfigBound \in Nat
    BY XrceAssumption
  <2>. QED  BY <1>1, <1>2, <2>1 DEF Calls, SchemaOrNull
<1>4. /\ dropped \in [Arrivals -> Answers]
      /\ arrival' \in [Arrivals -> Answers]
      /\ arrival'[n] = IF known THEN [status |-> "kOk", schema |-> ts.schema]
                                ELSE [status |-> "kPending", schema |-> Null]
  <2>1. dropped \in [Arrivals -> Answers]
    BY ArrivalsAreNumbers
    DEF TypeOK, TopicStates, DropResolver, Settle, Answers, Outcomes, SchemaOrNull
  <2>. HIDE DEF dropped, n
  <2>2. fresh \in [Arrivals -> Answers] /\ fresh[n] = [status |-> "kPending", schema |-> Null]
    BY <1>1, <2>1 DEF Create, Answers, SchemaOrNull
  <2>. HIDE DEF fresh
  <2>3. CASE known
    <3>1. arrival' = [fresh EXCEPT ![n] = [status |-> "kOk", schema |-> ts.schema]]
      BY <1>1, <2>2, <2>3 DEF Resolve, Settle, Outcomes
    <3>2. [status |-> "kOk", schema |-> ts.schema] \in Answers
      BY DEF Answers, Outcomes, TypeOK, TopicStates
    <3>. QED  BY <1>1, <2>1, <2>2, <2>3, <3>1, <3>2
  <2>4. CASE ~known
    BY <1>1, <2>1, <2>2, <2>4
  <2>. QED  BY <2>3, <2>4
<1>5. /\ t \in TopicStates
      /\ t.shared_schema = IF known THEN ts.schema ELSE ts.shared_schema
      /\ t.schema_resolver = IF known THEN NoArrival ELSE n
      /\ \A f \in {"schema", "declared", "is_publisher", "channel", "pending"} : t[f] = ts[f]
  BY <1>1 DEF TypeOK, TopicStates
<1>. HIDE DEF t
<1>6. /\ ts' \in TopicStates
      /\ \A f \in {"schema", "shared_schema", "declared", "is_publisher", "channel",
                   "schema_resolver", "pending"} : ts'[f] = t[f]
  BY <1>1, <1>2, <1>5, WithIdsType
<1>. HIDE DEF dropped, fresh
<1>7. TypeOK' /\ StillCreates'
  BY <1>1, <1>2, <1>3, <1>4, <1>6, ArrivalsAreNumbers DEF TypeOK, StillCreates
<1>8. SchemasTravel' /\ PublisherIsBacked'
  BY <1>1, <1>5, <1>6 DEF SchemasTravel, PublisherIsBacked
<1>9. n # NoSub /\ (ts.schema = Null => ts.shared_schema = Null)
  BY <1>1, ArrivalsAreNumbers DEF ArrivalTells
<1>10. ArrivalTells'
  BY <1>1, <1>3, <1>4, <1>5, <1>6, <1>9 DEF ArrivalTells
<1>11. BufferInPlace' /\ DeliveredInOrder' /\ DeliveredAsReported'
  BY <1>1, <1>5, <1>6, <1>9 DEF BufferInPlace, DeliveredInOrder, DeliveredAsReported, NoFrame
<1>. QED  BY <1>7, <1>8, <1>10, <1>11

\* The channel starts with no row taken and none handed out.
LEMMA SubscribeReturnStep ==
    ASSUME IInv, SubscribeReturn
    PROVE  IInv'
<1>. USE DEF IInv
<1>1. /\ call.op = "Subscribe" /\ frame = NoFrame /\ call' = NoCall
      /\ ts' = [ts EXCEPT !.channel = subs]
      /\ agent' = [agent EXCEPT !.reading =
                     IF "reader" \in agent.has THEN agent.reading \cup {DataReader}
                     ELSE agent.reading]
      /\ accepted' = << >> /\ handled' = << >>
      /\ UNCHANGED <<frame, wire, bus, retained, lost, arrival, subs>>
  BY DEF SubscribeReturn, arrivalVars, counterVars
<1>2. subs \in Arrivals /\ subs # NoSub /\ ts.channel = NoSub /\ ts.pending = << >>
  BY <1>1 DEF ArrivalTells, BufferInPlace, NoSub
<1>3. /\ ts' \in TopicStates /\ ts'.channel = subs
      /\ \A f \in {"schema", "shared_schema", "declared", "is_publisher",
                   "schema_resolver", "pending"} : ts'[f] = ts[f]
  BY <1>1, <1>2 DEF TypeOK, TopicStates
<1>4. agent' \in Agents /\ agent'.has = agent.has
  <2>. DEFINE r == IF "reader" \in agent.has THEN agent.reading \cup {DataReader}
                   ELSE agent.reading
  <2>1. r \in SUBSET Nat
    BY DEF TypeOK, Agents, DataReader
  <2>2. agent' = [agent EXCEPT !.reading = r]
    BY <1>1
  <2>. HIDE DEF r
  <2>. QED  BY <2>1, <2>2 DEF TypeOK, Agents
<1>5. TypeOK' /\ StillCreates'
  BY <1>1, <1>3, <1>4, NoCallType DEF TypeOK, StillCreates, Rows
<1>6. SchemasTravel' /\ PublisherIsBacked'
  BY <1>1, <1>3, <1>4 DEF SchemasTravel, PublisherIsBacked
<1>7. ArrivalTells' /\ BufferInPlace'
  BY <1>1, <1>2, <1>3, NoCallType DEF ArrivalTells, BufferInPlace
<1>8. DeliveredInOrder' /\ DeliveredAsReported'
  BY <1>1, <1>2, <1>3 DEF DeliveredInOrder, DeliveredAsReported, NoFrame
<1>. QED  BY <1>5, <1>6, <1>7, <1>8

\* The token dropped, the arrival it answered keeps its place.
LEMMA DropResolverType ==
    ASSUME TypeOK
    PROVE  DropResolver(arrival, ts.schema_resolver) \in [Arrivals -> Answers]
  BY ArrivalsAreNumbers
  DEF TypeOK, TopicStates, DropResolver, Settle, Answers, Outcomes, SchemaOrNull

\* Unsubscribe runs outside every delivery, and spares what a publisher uses.
LEMMA UnsubscribeStep ==
    ASSUME IInv, NEW inside \in BOOLEAN, Unsubscribe(inside)
    PROVE  IInv'
<1>. USE DEF IInv
<1>. DEFINE gone == {"schema_reader"} \cup (IF DeletesSchemaTopic THEN {"schema_topic"} ELSE {})
            live == ts.channel # NoSub
            more == gone \cup IF live THEN {"reader"} ELSE {}
            ids == ts.ids \ gone
            pending == IF live THEN << >> ELSE ts.pending
            reading == agent.reading \cap (IF live THEN {} ELSE {DataReader})
<1>1. /\ call = NoCall /\ frame = NoFrame
      /\ arrival' = DropResolver(arrival, ts.schema_resolver)
      /\ ts' = [ts EXCEPT !.schema_resolver = NoArrival, !.ids = ids, !.schema = ts.schema,
                          !.channel = NoSub, !.pending = pending]
      /\ agent' = [agent EXCEPT !.has = agent.has \ more, !.reading = reading]
      /\ UNCHANGED <<call, frame, wire, bus, retained, accepted, handled, lost, subs>>
  BY DEF Unsubscribe, Entered, Refused, KeepSchema, ghostVars, counterVars
<1>2. /\ arrival' \in [Arrivals -> Answers]
  BY <1>1, DropResolverType
<1>3. /\ "writer" \notin more /\ "schema_writer" \notin more
      /\ ts.is_publisher => "schema_topic" \notin more
  BY DEF DeletesSchemaTopic
<1>4. /\ agent' \in Agents /\ agent'.has = agent.has \ more
  BY <1>1 DEF TypeOK, Agents
<1>5. /\ ts' \in TopicStates /\ ts'.schema_resolver = NoArrival /\ ts'.channel = NoSub
      /\ ts'.pending = << >>
      /\ \A f \in {"schema", "shared_schema", "declared", "is_publisher"} : ts'[f] = ts[f]
  <2>1. pending = << >> /\ pending \in Rows /\ ids \in SUBSET Kinds
    BY DEF BufferInPlace, TypeOK, TopicStates, Rows
  <2>. HIDE DEF pending, ids
  <2>. DEFINE d == [ts EXCEPT !.ids = ids, !.pending = pending]
  <2>2. /\ d \in TopicStates /\ d.pending = << >> /\ d.schema = ts.schema
        /\ \A f \in {"shared_schema", "declared", "is_publisher"} : d[f] = ts[f]
    BY <2>1 DEF TypeOK, TopicStates
  <2>3. ts' = [d EXCEPT !.schema_resolver = NoArrival, !.channel = NoSub]
    BY <1>1 DEF TypeOK, TopicStates
  <2>. HIDE DEF d
  <2>. QED  BY <2>2, <2>3 DEF TopicStates, NoSub
<1>. HIDE DEF gone, live, more, ids, pending, reading
<1>6. TypeOK' /\ StillCreates'
  BY <1>1, <1>2, <1>4, <1>5, NoCallType DEF TypeOK, StillCreates
<1>7. SchemasTravel' /\ PublisherIsBacked'
  BY <1>1, <1>3, <1>4, <1>5 DEF SchemasTravel, PublisherIsBacked
<1>8. ArrivalTells' /\ BufferInPlace'
  BY <1>1, <1>5, NoCallType DEF ArrivalTells, BufferInPlace
<1>9. DeliveredInOrder' /\ DeliveredAsReported'
  BY <1>1, <1>5 DEF DeliveredInOrder, DeliveredAsReported, NoFrame
<1>. QED  BY <1>6, <1>7, <1>8, <1>9

\* A message leaves the stream; the others stay what they were.
LEMMA WireTail ==
    ASSUME TypeOK, SchemasTravel, wire # << >>
    PROVE  /\ Head(wire) \in Messages /\ Tail(wire) \in Seq(Messages)
           /\ Head(wire).reader # DataReader => Head(wire).schema \in Schemas
           /\ \A i \in 1..Len(Tail(wire)) :
                 Tail(wire)[i].reader # DataReader => Tail(wire)[i].schema \in Schemas
<1>1. /\ Head(wire) \in Messages /\ Tail(wire) \in Seq(Messages)
      /\ Len(Tail(wire)) = Len(wire) - 1
      /\ \A i \in 1..Len(Tail(wire)) : Tail(wire)[i] = wire[i + 1]
  BY HeadTailProperties DEF TypeOK
<1>2. Len(wire) \in Nat \ {0} /\ Head(wire) = wire[1]
  BY EmptySeq DEF TypeOK
<1>3. \A i \in 1..Len(Tail(wire)) : i + 1 \in 1..Len(wire)
  BY <1>1, <1>2
<1>. QED  BY <1>1, <1>2, <1>3 DEF SchemasTravel

\* A message enters the stream.
LEMMA WireAppend ==
    ASSUME TypeOK, SchemasTravel, NEW m \in Messages,
           m.reader # DataReader => m.schema \in Schemas
    PROVE  /\ Append(wire, m) \in Seq(Messages)
           /\ \A i \in 1..Len(Append(wire, m)) :
                 Append(wire, m)[i].reader # DataReader =>
                     Append(wire, m)[i].schema \in Schemas
<1>1. /\ Append(wire, m) \in Seq(Messages) /\ Len(Append(wire, m)) = Len(wire) + 1
      /\ \A i \in 1..Len(wire) : Append(wire, m)[i] = wire[i]
      /\ Append(wire, m)[Len(wire) + 1] = m
  BY AppendProperties DEF TypeOK
<1>2. Len(wire) \in Nat
  BY LenProperties DEF TypeOK
<1>3. \A i \in 1..(Len(wire) + 1) : i \in 1..Len(wire) \/ i = Len(wire) + 1
  BY <1>2
<1>. QED  BY <1>1, <1>3 DEF SchemasTravel

\* The schema answers the arrival, and what waited for it is delivered with it.
LEMMA OnTopicSchemaStep ==
    ASSUME IInv, OnTopicSchema
    PROVE  IInv'
<1>. USE DEF IInv
<1>. DEFINE m == Head(wire)
            d == [sub |-> ts.channel, schema |-> m.schema, rows |-> ts.pending]
<1>1. /\ wire # << >> /\ m.reader # DataReader /\ frame = NoFrame
      /\ ts.schema_resolver # NoArrival
      /\ arrival' = Resolve(arrival, ts.schema_resolver, m.schema)
      /\ ts' = [ts EXCEPT !.schema = m.schema, !.shared_schema = m.schema,
                          !.schema_resolver = NoArrival, !.pending = << >>]
      /\ frame' = IF ts.channel = NoSub \/ ts.pending = << >> THEN NoFrame ELSE d
      /\ wire' = Tail(wire)
      /\ UNCHANGED <<call, agent, bus, retained, accepted, handled, lost, subs>>
  BY DEF OnTopicSchema, Pumping, PendingTaken, ghostVars, counterVars
<1>2. /\ m \in Messages /\ wire' \in Seq(Messages) /\ m.schema \in Schemas
      /\ \A i \in 1..Len(wire') : wire'[i].reader # DataReader => wire'[i].schema \in Schemas
  BY <1>1, WireTail
<1>. HIDE DEF m
<1>3. m.schema # Null /\ m.schema \in SchemaOrNull
  BY <1>2, XrceAssumption DEF SchemaOrNull
<1>4. subs \in Arrivals /\ subs # NoArrival /\ ts.schema_resolver = subs
      /\ arrival[subs].status = "kPending" /\ ts.channel \in {NoSub, subs}
  BY <1>1, ArrivalsAreNumbers DEF ArrivalTells
<1>5. arrival' = [arrival EXCEPT ![subs] = [status |-> "kOk", schema |-> m.schema]]
  BY <1>1, <1>3, <1>4 DEF Resolve, Settle, Outcomes
<1>6. /\ arrival' \in [Arrivals -> Answers]
      /\ arrival'[subs] = [status |-> "kOk", schema |-> m.schema]
  <2>1. [status |-> "kOk", schema |-> m.schema] \in Answers
    BY <1>3 DEF Answers, Outcomes
  <2>. QED  BY <1>4, <1>5, <2>1 DEF TypeOK
<1>7. /\ ts' \in TopicStates /\ ts'.schema = m.schema /\ ts'.shared_schema = m.schema
      /\ ts'.schema_resolver = NoArrival /\ ts'.pending = << >> /\ ts'.channel = ts.channel
      /\ ts'.declared = ts.declared /\ ts'.is_publisher = ts.is_publisher
  <2>. DEFINE e == [ts EXCEPT !.schema = m.schema, !.shared_schema = m.schema]
  <2>1. /\ e \in TopicStates /\ e.schema = m.schema /\ e.shared_schema = m.schema
        /\ e.channel = ts.channel /\ e.declared = ts.declared
        /\ e.is_publisher = ts.is_publisher
    BY <1>3 DEF TypeOK, TopicStates
  <2>2. ts' = [e EXCEPT !.schema_resolver = NoArrival, !.pending = << >>]
    BY <1>1 DEF TypeOK, TopicStates
  <2>3. << >> \in Rows
    BY DEF Rows
  <2>. HIDE DEF e
  <2>. QED  BY <2>1, <2>2, <2>3 DEF TopicStates
<1>8. d \in Frames /\ d.sub = ts.channel /\ d.schema = m.schema /\ d.rows = ts.pending
      /\ ts.channel \in Arrivals \cup {NoSub}
  BY <1>3 DEF TypeOK, TopicStates, Frames
<1>9. NoFrame \in Frames /\ NoFrame.rows = << >>
  BY DEF NoFrame, Frames, SchemaOrNull, Rows
<1>. HIDE DEF d
<1>10. TypeOK' /\ StillCreates'
  BY <1>1, <1>2, <1>6, <1>7, <1>8, <1>9 DEF TypeOK, StillCreates
<1>11. SchemasTravel' /\ PublisherIsBacked'
  BY <1>1, <1>2, <1>7 DEF SchemasTravel, PublisherIsBacked
<1>12. ArrivalTells' /\ BufferInPlace'
  BY <1>1, <1>3, <1>4, <1>6, <1>7, <1>8 DEF ArrivalTells, BufferInPlace
<1>13. DeliveredAsReported'
  BY <1>1, <1>4, <1>6, <1>8 DEF DeliveredAsReported
<1>14. DeliveredInOrder'
  <2>1. (handled \o << >>) \o ts.pending = (handled \o ts.pending) \o << >>
    BY RowsKeepOrder DEF TypeOK, TopicStates
  <2>. QED  BY <1>1, <1>7, <1>8, <1>9, <2>1 DEF DeliveredInOrder
<1>. QED  BY <1>10, <1>11, <1>12, <1>13, <1>14

\* A row is delivered at once where the schema is known, and waits otherwise.
LEMMA OnTopicRowStep ==
    ASSUME IInv, OnTopicRow
    PROVE  IInv'
<1>. USE DEF IInv
<1>. DEFINE m == Head(wire)
            known == ts.shared_schema # Null
            d == [sub |-> ts.channel, schema |-> ts.shared_schema, rows |-> <<m.row>>]
            p == IF known THEN ts.pending ELSE Append(ts.pending, m.row)
<1>1. /\ wire # << >> /\ frame = NoFrame /\ ts.channel # NoSub
      /\ ts' = [ts EXCEPT !.pending = p]
      /\ frame' = IF known THEN d ELSE NoFrame
      /\ accepted' = Append(accepted, m.row) /\ wire' = Tail(wire)
      /\ UNCHANGED <<call, agent, bus, retained, handled, lost, subs, arrival>>
  BY DEF OnTopicRow, Pumping, arrivalVars, counterVars
<1>2. /\ m \in Messages /\ m.row \in Nat /\ wire' \in Seq(Messages)
      /\ \A i \in 1..Len(wire') : wire'[i].reader # DataReader => wire'[i].schema \in Schemas
  BY <1>1, WireTail DEF Messages
<1>. HIDE DEF m
<1>3. /\ ts.pending \in Rows /\ accepted \in Rows /\ handled \in Rows
      /\ ts.channel \in Arrivals \cup {NoSub} /\ ts.shared_schema \in SchemaOrNull
  BY DEF TypeOK, TopicStates
<1>4. /\ p \in Rows /\ Append(accepted, m.row) \in Rows /\ <<m.row>> \in Rows
      /\ known => ts.pending = << >>
  <2>1. known => ts.pending = << >>
    BY DEF BufferInPlace
  <2>2. \A r \in Rows : Append(r, m.row) \in Rows /\ <<m.row>> \in Rows
    BY <1>2, RowsKeepOrder
  <2>. QED  BY <1>3, <2>1, <2>2
<1>5. d \in Frames /\ d.sub = ts.channel /\ d.schema = ts.shared_schema /\ d.rows = <<m.row>>
  BY <1>3, <1>4 DEF Frames
<1>6. NoFrame \in Frames /\ NoFrame.rows = << >>
  BY DEF NoFrame, Frames, SchemaOrNull, Rows
<1>7. /\ known => p = << >>
      /\ ~known => p = Append(ts.pending, m.row)
  BY <1>4
<1>. HIDE DEF p, d
<1>8. /\ ts' \in TopicStates /\ ts'.pending = p
      /\ \A f \in {"schema", "shared_schema", "declared", "is_publisher", "channel",
                   "schema_resolver"} : ts'[f] = ts[f]
  BY <1>1, <1>4 DEF TypeOK, TopicStates
<1>9. TypeOK' /\ StillCreates'
  BY <1>1, <1>2, <1>4, <1>5, <1>6, <1>8 DEF TypeOK, StillCreates
<1>10. SchemasTravel' /\ PublisherIsBacked'
  BY <1>1, <1>2, <1>8 DEF SchemasTravel, PublisherIsBacked
<1>11. /\ ts.channel = subs
       /\ known => arrival[subs] = [status |-> "kOk", schema |-> ts.shared_schema]
  BY <1>1 DEF ArrivalTells
<1>12. ArrivalTells' /\ BufferInPlace' /\ DeliveredAsReported'
  BY <1>1, <1>5, <1>7, <1>8, <1>11 DEF ArrivalTells, BufferInPlace, DeliveredAsReported
<1>13. DeliveredInOrder'
  <2>1. accepted = (handled \o << >>) \o ts.pending
    BY <1>1, <1>6 DEF DeliveredInOrder
  <2>2. /\ Append((handled \o << >>) \o ts.pending, m.row)
             = (handled \o << >>) \o Append(ts.pending, m.row)
        /\ Append((handled \o << >>) \o << >>, m.row) = (handled \o <<m.row>>) \o << >>
    BY <1>2, <1>3, RowsKeepOrder
  <2>3. accepted' = (handled' \o frame'.rows) \o ts'.pending
    <3>1. CASE known
      BY <1>1, <1>4, <1>5, <1>7, <1>8, <2>1, <2>2, <3>1
    <3>2. CASE ~known
      BY <1>1, <1>6, <1>7, <1>8, <2>1, <2>2, <3>2
    <3>. QED  BY <3>1, <3>2
  <2>4. frame'.rows # << >> => frame'.sub = ts'.channel
    BY <1>1, <1>5, <1>6, <1>8
  <2>. QED  BY <2>3, <2>4 DEF DeliveredInOrder
<1>. QED  BY <1>9, <1>10, <1>12, <1>13

\* A message that nobody waits for is taken off the stream.
LEMMA OnTopicDropStep ==
    ASSUME IInv, OnTopicDrop
    PROVE  IInv'
<1>. USE DEF IInv
<1>1. /\ wire # << >> /\ wire' = Tail(wire)
      /\ UNCHANGED <<ts, call, frame, agent, bus, retained, accepted, handled, lost, subs,
                     arrival>>
  BY DEF OnTopicDrop, Pumping, ghostVars, arrivalVars, counterVars
<1>2. /\ wire' \in Seq(Messages)
      /\ \A i \in 1..Len(wire') : wire'[i].reader # DataReader => wire'[i].schema \in Schemas
  BY <1>1, WireTail
<1>3. TypeOK' /\ StillCreates' /\ SchemasTravel' /\ PublisherIsBacked'
  BY <1>1, <1>2 DEF TypeOK, StillCreates, SchemasTravel, PublisherIsBacked
<1>4. ArrivalTells' /\ BufferInPlace' /\ DeliveredInOrder' /\ DeliveredAsReported'
  BY <1>1 DEF ArrivalTells, BufferInPlace, DeliveredInOrder, DeliveredAsReported
<1>. QED  BY <1>3, <1>4

\* The delivery hands out its first row.
LEMMA DeliverStep ==
    ASSUME IInv, Deliver
    PROVE  IInv'
<1>. USE DEF IInv
<1>1. /\ frame.rows # << >> /\ handled' = Append(handled, Head(frame.rows))
      /\ frame' = [frame EXCEPT !.rows = Tail(frame.rows)]
      /\ UNCHANGED <<ts, call, agent, wire, bus, retained, accepted, lost, subs, arrival>>
  BY DEF Deliver, externalVars, arrivalVars, counterVars
<1>2. frame.rows \in Rows /\ handled \in Rows /\ ts.pending \in Rows
  BY DEF TypeOK, Frames, TopicStates
<1>3. /\ Head(frame.rows) \in Nat /\ Tail(frame.rows) \in Rows
      /\ (Append(handled, Head(frame.rows)) \o Tail(frame.rows)) \o ts.pending
             = (handled \o frame.rows) \o ts.pending
  BY <1>1, <1>2, RowHandedOut
<1>4. Append(handled, Head(frame.rows)) \in Rows
  BY <1>2, <1>3, RowsKeepOrder
<1>5. frame' \in Frames /\ frame'.rows = Tail(frame.rows)
      /\ frame'.sub = frame.sub /\ frame'.schema = frame.schema
  BY <1>1, <1>3 DEF TypeOK, Frames
<1>6. frame # NoFrame
  BY <1>1 DEF NoFrame
<1>7. TypeOK' /\ StillCreates' /\ SchemasTravel' /\ PublisherIsBacked'
  BY <1>1, <1>4, <1>5 DEF TypeOK, StillCreates, SchemasTravel, PublisherIsBacked
<1>8. ArrivalTells' /\ BufferInPlace' /\ DeliveredAsReported'
  BY <1>1, <1>5, <1>6 DEF ArrivalTells, BufferInPlace, DeliveredAsReported
<1>9. DeliveredInOrder'
  BY <1>1, <1>3, <1>5 DEF DeliveredInOrder
<1>. QED  BY <1>7, <1>8, <1>9

\* The delivery ends with no row left.
LEMMA DeliveredStep ==
    ASSUME IInv, Delivered
    PROVE  IInv'
<1>. USE DEF IInv
<1>1. /\ frame.rows = << >> /\ frame' = NoFrame
      /\ UNCHANGED <<ts, call, agent, wire, bus, retained, accepted, handled, lost, subs,
                     arrival>>
  BY DEF Delivered, externalVars, ghostVars, arrivalVars, counterVars
<1>2. NoFrame \in Frames /\ NoFrame.rows = << >>
  BY DEF NoFrame, Frames, SchemaOrNull, Rows
<1>3. TypeOK' /\ StillCreates' /\ SchemasTravel' /\ PublisherIsBacked'
  BY <1>1, <1>2 DEF TypeOK, StillCreates, SchemasTravel, PublisherIsBacked
<1>4. ArrivalTells' /\ BufferInPlace' /\ DeliveredAsReported'
  BY <1>1 DEF ArrivalTells, BufferInPlace, DeliveredAsReported
<1>5. DeliveredInOrder'
  BY <1>1, <1>2 DEF DeliveredInOrder
<1>. QED  BY <1>3, <1>4, <1>5

\* What the Agent sends of the topic's rows.
LEMMA AgentSendsRowStep ==
    ASSUME IInv, AgentSendsRow
    PROVE  IInv'
<1>. USE DEF IInv
<1>1. PICK i \in (agent.pos + 1)..Len(bus) :
        /\ agent' = [agent EXCEPT !.pos = i]
        /\ wire' = Append(wire, [reader |-> DataReader, row |-> i, schema |-> Null])
  BY DEF AgentSendsRow
<1>2. UNCHANGED <<ts, call, frame, bus, retained, accepted, handled, lost, subs,
                     arrival>>
  BY DEF AgentSendsRow, ghostVars, arrivalVars, counterVars
<1>3. i \in Nat
  BY LenProperties DEF TypeOK, Agents
<1>4. agent' \in Agents /\ agent'.has = agent.has
  BY <1>1, <1>3 DEF TypeOK, Agents
<1>5. /\ wire' \in Seq(Messages)
      /\ \A k \in 1..Len(wire') : wire'[k].reader # DataReader => wire'[k].schema \in Schemas
  <2>. DEFINE m == [reader |-> DataReader, row |-> i, schema |-> Null]
  <2>1. m \in Messages /\ m.reader = DataReader
    BY <1>3 DEF Messages, DataReader, SchemaOrNull
  <2>2. wire' = Append(wire, m)
    BY <1>1
  <2>. HIDE DEF m
  <2>. QED  BY <2>1, <2>2, WireAppend
<1>6. TypeOK' /\ StillCreates' /\ SchemasTravel' /\ PublisherIsBacked'
  BY <1>2, <1>4, <1>5 DEF TypeOK, StillCreates, SchemasTravel, PublisherIsBacked
<1>7. ArrivalTells' /\ BufferInPlace' /\ DeliveredInOrder' /\ DeliveredAsReported'
  BY <1>2 DEF ArrivalTells, BufferInPlace, DeliveredInOrder, DeliveredAsReported
<1>. QED  BY <1>6, <1>7

\* What the Agent sends of the schema channel is an announcement that was made.
LEMMA AgentSendsSchemaStep ==
    ASSUME IInv, AgentSendsSchema
    PROVE  IInv'
<1>. USE DEF IInv
<1>1. PICK n \in agent.reading \ {DataReader} :
        wire' = Append(wire, [reader |-> n, row |-> 0, schema |-> retained.schema])
  BY DEF AgentSendsSchema
<1>2. /\ agent.sent < retained.version /\ agent' = [agent EXCEPT !.sent = retained.version]
      /\ UNCHANGED <<ts, call, frame, bus, retained, accepted, handled, lost, subs,
                     arrival>>
  BY DEF AgentSendsSchema, ghostVars, arrivalVars, counterVars
<1>3. retained.schema \in Schemas
  BY <1>2 DEF TypeOK, Agents, Retained, SchemasTravel
<1>4. agent' \in Agents /\ agent'.has = agent.has
  BY <1>2 DEF TypeOK, Agents, Retained
<1>5. /\ wire' \in Seq(Messages)
      /\ \A k \in 1..Len(wire') : wire'[k].reader # DataReader => wire'[k].schema \in Schemas
  <2>. DEFINE m == [reader |-> n, row |-> 0, schema |-> retained.schema]
  <2>1. m \in Messages /\ m.schema \in Schemas
    BY <1>3 DEF TypeOK, Agents, Messages, SchemaOrNull
  <2>2. wire' = Append(wire, m)
    BY <1>1
  <2>. HIDE DEF m
  <2>. QED  BY <2>1, <2>2, WireAppend
<1>6. TypeOK' /\ StillCreates' /\ SchemasTravel' /\ PublisherIsBacked'
  BY <1>2, <1>4, <1>5 DEF TypeOK, StillCreates, SchemasTravel, PublisherIsBacked
<1>7. ArrivalTells' /\ BufferInPlace' /\ DeliveredInOrder' /\ DeliveredAsReported'
  BY <1>2 DEF ArrivalTells, BufferInPlace, DeliveredInOrder, DeliveredAsReported
<1>. QED  BY <1>6, <1>7

\* A remote announcement replaces the retained one.
LEMMA RemoteAnnouncesStep ==
    ASSUME IInv, NEW s \in Schemas, NEW b \in Bounds, RemoteAnnounces(s, b)
    PROVE  IInv'
<1>. USE DEF IInv
<1>1. /\ retained' = [schema |-> s, bound |-> b, version |-> retained.version + 1,
                      local |-> FALSE]
      /\ UNCHANGED <<ts, call, frame, agent, wire, bus, accepted, handled, lost, subs,
                     arrival>>
  BY DEF RemoteAnnounces, ghostVars, arrivalVars, counterVars
<1>2. retained' \in Retained /\ retained'.schema = s
  BY <1>1, XrceAssumption DEF TypeOK, Retained, SchemaOrNull
<1>3. TypeOK' /\ StillCreates' /\ SchemasTravel' /\ PublisherIsBacked'
  BY <1>1, <1>2 DEF TypeOK, StillCreates, SchemasTravel, PublisherIsBacked
<1>4. ArrivalTells' /\ BufferInPlace' /\ DeliveredInOrder' /\ DeliveredAsReported'
  BY <1>1 DEF ArrivalTells, BufferInPlace, DeliveredInOrder, DeliveredAsReported
<1>. QED  BY <1>3, <1>4

\* Every step keeps the invariant.
LEMMA NextIInv == IInv /\ [Next]_vars => IInv'
<1>. SUFFICES ASSUME IInv, [Next]_vars PROVE IInv'
  OBVIOUS
<1>0. bus \in Seq(Nat)
  BY DEF IInv, TypeOK
<1>1. CASE Construct \/ Destroy
  BY <1>0, <1>1, UntouchedStep
  DEF Construct, Destroy, externalVars, ghostVars, arrivalVars, counterVars
<1>2. CASE Created \/ NotCreated
  BY <1>2, CreatedStep, NotCreatedStep
<1>3. ASSUME NEW s \in Schemas \cup {Null}, NEW b \in Bounds \cup {0}, CreateTopic(s, b)
      PROVE  IInv'
  BY <1>3, CreateTopicStep
<1>4. CASE Announce \/ Declare \/ Publish
  BY <1>4, AnnounceStep, DeclareStep, PublishStep
<1>5. CASE Subscribe \/ SubscribeReturn
  BY <1>5, SubscribeStep, SubscribeReturnStep
<1>6. ASSUME NEW inside \in BOOLEAN, Unsubscribe(inside) PROVE IInv'
  BY <1>6, UnsubscribeStep
<1>7. CASE OnTopicSchema \/ OnTopicRow \/ OnTopicDrop
  BY <1>7, OnTopicSchemaStep, OnTopicRowStep, OnTopicDropStep
<1>8. CASE Deliver \/ Delivered
  BY <1>8, DeliverStep, DeliveredStep
<1>9. CASE AgentSendsRow \/ AgentSendsSchema
  BY <1>9, AgentSendsRowStep, AgentSendsSchemaStep
<1>10. ASSUME NEW s \in Schemas, NEW b \in Bounds, RemoteAnnounces(s, b) PROVE IInv'
  BY <1>10, RemoteAnnouncesStep
<1>11. ASSUME NEW b \in Bounds, RemoteWrites(b) PROVE IInv'
  <2>1. b \in Nat
    BY XrceAssumption
  <2>2. bus' \in Seq(Nat)
    BY <1>0, <1>11, <2>1 DEF RemoteWrites
  <2>. QED  BY <1>11, <2>2, UntouchedStep
            DEF RemoteWrites, ghostVars, arrivalVars, counterVars
<1>12. CASE UNCHANGED vars
  BY <1>0, <1>12, UntouchedStep
  DEF vars, externalVars, ghostVars, arrivalVars, counterVars
<1>. QED  BY <1>1, <1>2, <1>3, <1>4, <1>5, <1>6, <1>7, <1>8, <1>9, <1>10, <1>11, <1>12
          DEF Next

\* IInv holds in every state of every run, whatever the Agent refuses and
\* however late it answers.
THEOREM AlwaysIInv == Spec => []IInv
  BY InitIInv, NextIInv, PTL DEF Spec

\* A live subscription's rows reach its handler in the order OnTopic took
\* them and none is skipped, through the buffer that waits for the schema and
\* the copy that OnTopic delivers from.
THEOREM RowsAreDeliveredInOrder == Spec => []DeliveredInOrder
<1>1. IInv => DeliveredInOrder
  BY DEF IInv
<1>. QED  BY <1>1, AlwaysIInv, PTL

\* A row is handed out with the schema that the arrival of its subscription
\* reported, whoever taught the provider that schema.
THEOREM RowsAreDeliveredAsReported == Spec => []DeliveredAsReported
<1>1. IInv => DeliveredAsReported
  BY DEF IInv
<1>. QED  BY <1>1, AlwaysIInv, PTL

\* What a declared publisher relies on stays on the Agent, and no row that
\* Publish accepts goes to a writer that does not exist.
THEOREM PublisherIsAlwaysBacked == Spec => []PublisherIsBacked
<1>1. IInv => PublisherIsBacked
  BY DEF IInv
<1>. QED  BY <1>1, AlwaysIInv, PTL

------------------------------------------------------------------------------
(* The window that rows are encoded into *)

Bits == {0, 1}

Window == [kind : {"vector", "fixed"}, data : Seq(Bits), storage : Nat, pos : Nat,
           moved : BOOLEAN]

IsWindow(w) == w \in Window /\ w.pos <= Len(w.data)

\* The bytes below the position are m.
Matches(w, m) == Len(m) = w.pos /\ \A i \in 1..w.pos : w.data[i] = m[i]

\* A vector's bytes above from are the zeros that resize put there.
Blank(w, from) ==
    w.kind = "vector" => \A i \in 1..Len(w.data) : i > from => w.data[i] = 0

\* Nobody called the buffer since it was lent but to patch it: what a producer
\* has used are the ones above the position.
Undisturbed(w, m, l) ==
    /\ w.pos = l.window.pos /\ Len(w.data) = Len(l.window.data)
    /\ Matches(w, m) /\ Blank(w, w.pos + l.used)
    /\ \A i \in 1..l.used : w.data[w.pos + i] = 1

\* The lend in progress: a call that the producer made shows in the address or
\* in the position, and neither goes back before the lend ends.
IsLend(l) ==
    /\ l \in [window : Window, used : Nat]
    /\ l.window.pos + l.used <= Len(l.window.data)

Lent(w, m, l) ==
    IsLend(l) /\ (w.moved \/ w.pos > l.window.pos \/ Undisturbed(w, m, l))

WindowInv ==
    /\ IsWindow(window) /\ meant \in Seq(Bits)
    /\ lent = <<>> => Matches(window, meant) /\ Blank(window, window.pos)
    /\ lent # <<>> => lent = <<lent[1]>> /\ Lent(window, meant, lent[1])

\* A sequence of bytes, by its length and its members.
LEMMA BytesAre ==
  ASSUME NEW n \in Nat, NEW f, f = [i \in 1..n |-> f[i]], \A i \in 1..n : f[i] \in Bits
  PROVE  f \in Seq(Bits) /\ Len(f) = n /\ DOMAIN f = 1..n
<1>1. f \in [1..n -> Bits]
  OBVIOUS
<1>. QED
  BY <1>1

\* ReserveStorage, resize and Sync.
LEMMA ResizeIs ==
  ASSUME NEW w, IsWindow(w), NEW size \in Nat, size >= Len(w.data)
  PROVE  /\ IsWindow(Resize(w, size)) /\ Resize(w, size).kind = w.kind
         /\ Resize(w, size).pos = w.pos /\ Len(Resize(w, size).data) = size
         /\ w.moved => Resize(w, size).moved
         /\ \A i \in 1..Len(w.data) : Resize(w, size).data[i] = w.data[i]
         /\ \A i \in 1..size : i > Len(w.data) => Resize(w, size).data[i] = 0
<1> DEFINE bytes == [i \in 1..size |-> IF i <= Len(w.data) THEN w.data[i] ELSE 0]
           room == IF w.storage < size THEN 2 * size ELSE w.storage
           gone == w.moved \/ w.storage < size
<1>1. w \in Window /\ w.pos <= Len(w.data)
  BY DEF IsWindow
<1>2. PICK n \in Nat : n = Len(w.data) /\ \A i \in 1..n : w.data[i] \in Bits
  BY <1>1 DEF Window
<1>3. bytes \in Seq(Bits) /\ Len(bytes) = size
  <2>1. \A i \in 1..size : bytes[i] \in Bits
    BY <1>2 DEF Bits
  <2>2. bytes = [i \in 1..size |-> bytes[i]]
    OBVIOUS
  <2> HIDE DEF bytes
  <2>. QED
    BY <2>1, <2>2, BytesAre
<1>4. /\ \A i \in 1..n : bytes[i] = w.data[i]
      /\ \A i \in 1..size : i > n => bytes[i] = 0
  BY <1>2
<1>5. room \in Nat /\ gone \in BOOLEAN /\ (w.moved => gone)
  BY <1>1 DEF Window
<1>6. Resize(w, size) = [w EXCEPT !.data = bytes, !.storage = room, !.moved = gone]
  BY <1>1 DEF Resize, Window
<1> HIDE DEF bytes, room, gone
<1>7. /\ Resize(w, size) \in Window
      /\ Resize(w, size).kind = w.kind /\ Resize(w, size).data = bytes
      /\ Resize(w, size).pos = w.pos /\ Resize(w, size).moved = gone
  BY <1>1, <1>3, <1>5, <1>6 DEF Window
<1>8. w.pos \in Nat /\ w.pos <= size
  BY <1>1, <1>2 DEF Window
<1>. QED
  BY <1>2, <1>3, <1>4, <1>5, <1>7, <1>8 DEF IsWindow

\* Bytes put over those of a sequence, and over no more than it has.
LEMMA OverwriteIs ==
  ASSUME NEW s \in Seq(Bits), NEW bytes \in Seq(Bits), NEW at \in Nat
  PROVE  /\ Overwrite(s, at, bytes) \in Seq(Bits) /\ Len(Overwrite(s, at, bytes)) = Len(s)
         /\ \A i \in 1..Len(s) : i <= at \/ i > at + Len(bytes)
              => Overwrite(s, at, bytes)[i] = s[i]
         /\ at + Len(bytes) <= Len(s)
              => \A i \in 1..Len(bytes) : Overwrite(s, at, bytes)[at + i] = bytes[i]
<1>1. PICK n \in Nat : n = Len(s) /\ DOMAIN s = 1..n /\ \A i \in 1..n : s[i] \in Bits
  OBVIOUS
<1>2. PICK k \in Nat : k = Len(bytes) /\ \A i \in 1..k : bytes[i] \in Bits
  OBVIOUS
<1> DEFINE o == [i \in 1..n |-> IF i \in at + 1 .. at + k THEN bytes[i - at] ELSE s[i]]
<1>3. Overwrite(s, at, bytes) = o
  BY <1>1, <1>2 DEF Overwrite
<1>4. \A i \in 1..n : o[i] \in Bits
  BY <1>1, <1>2
<1>5. \A i \in 1..n : i <= at \/ i > at + k => o[i] = s[i]
  BY <1>1, <1>2
<1>6. at + k <= n => \A i \in 1..k : o[at + i] = bytes[i]
  BY <1>1, <1>2
<1>7. o = [i \in 1..n |-> o[i]]
  OBVIOUS
<1> HIDE DEF o
<1>8. o \in Seq(Bits) /\ Len(o) = n
  BY <1>4, <1>7, BytesAre
<1>. QED
  BY <1>1, <1>2, <1>3, <1>5, <1>6, <1>8

\* What a call that appends bytes makes of the window w.
Wrote(w, r, bytes) ==
    /\ IsWindow(r) /\ r.kind = w.kind /\ (w.moved => r.moved)
    /\ r.pos = w.pos + Len(bytes)
    /\ \A i \in 1..w.pos : r.data[i] = w.data[i]
    /\ \A i \in 1..Len(bytes) : r.data[w.pos + i] = bytes[i]
    /\ Blank(w, w.pos) => Blank(r, r.pos)

\* Bytes put into a window that has the room for them.
LEMMA PutWrites ==
  ASSUME NEW w, IsWindow(w), NEW bytes \in Seq(Bits), w.pos + Len(bytes) <= Len(w.data)
  PROVE  Wrote(w, Put(w, bytes), bytes)
<1> DEFINE o == Overwrite(w.data, w.pos, bytes)
<1>1. w \in Window /\ w.pos <= Len(w.data)
  BY DEF IsWindow
<1>2. /\ o \in Seq(Bits) /\ Len(o) = Len(w.data)
      /\ \A i \in 1..Len(w.data) : i <= w.pos \/ i > w.pos + Len(bytes) => o[i] = w.data[i]
      /\ \A i \in 1..Len(bytes) : o[w.pos + i] = bytes[i]
  BY <1>1, OverwriteIs DEF Window
<1>3. PICK n \in Nat, k \in Nat, p \in Nat : n = Len(w.data) /\ k = Len(bytes) /\ p = w.pos
                                             /\ p + k <= n
  BY <1>1 DEF Window
<1>7. Put(w, bytes) = [w EXCEPT !.data = o, !.pos = p + k]
  BY <1>1, <1>3 DEF Put, Window
<1> HIDE DEF o
<1>8. /\ Put(w, bytes) \in Window
      /\ Put(w, bytes).kind = w.kind /\ Put(w, bytes).data = o
      /\ Put(w, bytes).pos = p + k /\ Put(w, bytes).moved = w.moved
  <2>1. PICK q \in Nat : q = p + k
    OBVIOUS
  <2>2. o \in Seq(Bits) /\ w \in Window /\ Put(w, bytes) = [w EXCEPT !.data = o, !.pos = q]
    BY <1>1, <1>2, <1>7, <2>1
  <2>. QED
    BY <2>1, <2>2 DEF Window
<1>4. IsWindow(Put(w, bytes))
  BY <1>8, <1>2, <1>3 DEF IsWindow
<1>5. \A i \in 1..p : o[i] = w.data[i]
  <2>1. \A i \in 1..p : i \in 1..n /\ i <= p
    BY <1>3
  <2>. QED
    BY <1>2, <1>3, <2>1
<1>6. Blank(w, w.pos) => Blank(Put(w, bytes), p + k)
  BY <1>8, <1>2, <1>3 DEF Blank
<1>. QED
  BY <1>8, <1>2, <1>3, <1>4, <1>5, <1>6 DEF Wrote

\* A vector that was resized holds what it held, and can be put into.
LEMMA ResizedWrites ==
  ASSUME NEW w, IsWindow(w), NEW size \in Nat, size >= Len(w.data), NEW r, NEW bytes,
         Wrote(Resize(w, size), r, bytes)
  PROVE  Wrote(w, r, bytes)
<1> DEFINE z == Resize(w, size)
<1>1. /\ z.kind = w.kind /\ z.pos = w.pos /\ Len(z.data) = size
      /\ w.moved => z.moved
      /\ \A i \in 1..Len(w.data) : z.data[i] = w.data[i]
      /\ \A i \in 1..size : i > Len(w.data) => z.data[i] = 0
  BY ResizeIs
<1> HIDE DEF z
<1>2. Wrote(z, r, bytes)
  BY DEF z
<1>3. PICK n \in Nat, p \in Nat : n = Len(w.data) /\ p = w.pos /\ p <= n
  BY DEF IsWindow, Window
<1>4. Blank(w, w.pos) => Blank(z, z.pos)
  BY <1>1, <1>3 DEF Blank
<1>5. \A i \in 1..p : z.data[i] = w.data[i]
  BY <1>1, <1>3
<1>. QED
  BY <1>1, <1>2, <1>3, <1>4, <1>5 DEF Wrote

\* Append, into the room there is or after the vector has grown.
LEMMA AppendWrites ==
  ASSUME NEW w, IsWindow(w), NEW bytes \in Seq(Bits), AppendBytes(w, bytes) # NoResult
  PROVE  Wrote(w, AppendBytes(w, bytes)[1], bytes)
<1>1. PICK n \in Nat, k \in Nat, p \in Nat : n = Len(w.data) /\ k = Len(bytes) /\ p = w.pos
                                             /\ p <= n
  BY DEF IsWindow, Window
<1>2. CASE k <= n - p
  <2>1. AppendBytes(w, bytes)[1] = Put(w, bytes)
    BY <1>1, <1>2 DEF AppendBytes, Room
  <2>. QED
    BY <1>1, <1>2, <2>1, PutWrites
<1>3. CASE k > n - p
  <2> DEFINE size == IF k >= Chunk THEN p + k ELSE p + Chunk
  <2>1. size \in Nat /\ size >= n /\ size >= p + k
    <3>1. Chunk \in Nat
      BY WriteWindowAssumption
    <3>. QED
      BY <1>3, <3>1
  <2>2. AppendBytes(w, bytes) = AppendSlow(w, bytes)
    BY <1>1, <1>3 DEF AppendBytes, Room
  <2>3. w.kind # "fixed"
    BY <2>2 DEF AppendSlow
  <2>4. AppendSlow(w, bytes) = <<Put(Resize(w, size), bytes)>>
    BY <1>1, <2>3, WriteWindowAssumption DEF AppendSlow, Refill
  <2> HIDE DEF size
  <2>5. IsWindow(Resize(w, size)) /\ Resize(w, size).pos = p /\ Len(Resize(w, size).data) = size
    BY <1>1, <2>1, ResizeIs
  <2>6. Wrote(Resize(w, size), Put(Resize(w, size), bytes), bytes)
    BY <1>1, <2>1, <2>5, PutWrites
  <2>. QED
    BY <1>1, <2>1, <2>2, <2>4, <2>6, ResizedWrites
<1>. QED
  BY <1>1, <1>2, <1>3

\* AppendZeros: a vector's new bytes are zero by its resize, not by a write.
LEMMA ZerosGrow ==
  ASSUME NEW w, IsWindow(w), NEW n \in Nat, AppendZeros(w, n) # NoResult
  PROVE  LET r == AppendZeros(w, n)[1]
         IN  /\ IsWindow(r) /\ (w.moved => r.moved) /\ r.pos = w.pos + n
             /\ Blank(w, w.pos) => Wrote(w, r, ZeroBytes(n))
<1>1. ZeroBytes(n) \in Seq(Bits) /\ Len(ZeroBytes(n)) = n /\ \A i \in 1..n : ZeroBytes(n)[i] = 0
  <2>1. ZeroBytes(n) = [i \in 1..n |-> ZeroBytes(n)[i]] /\ \A i \in 1..n : ZeroBytes(n)[i] = 0
    BY DEF ZeroBytes
  <2>. QED
    BY <2>1, BytesAre DEF Bits
<1>2. PICK d \in Nat, p \in Nat : d = Len(w.data) /\ p = w.pos /\ p <= d
  BY DEF IsWindow, Window
<1>3. CASE n <= d - p
  <2>1. AppendZeros(w, n)[1] = Put(w, ZeroBytes(n))
    BY <1>2, <1>3 DEF AppendZeros, Room
  <2>2. Wrote(w, Put(w, ZeroBytes(n)), ZeroBytes(n))
    BY <1>1, <1>2, <1>3, PutWrites
  <2>. QED
    BY <1>1, <2>1, <2>2 DEF Wrote
<1>4. CASE n > d - p
  <2> DEFINE size == p + IF n > Chunk THEN n ELSE Chunk
             z == Resize(w, size)
  <2>1. size \in Nat /\ size >= d /\ size >= p + n
    BY <1>2, <1>4, WriteWindowAssumption
  <2>2. AppendZeros(w, n) = AppendZerosSlow(w, n)
    BY <1>2, <1>4 DEF AppendZeros, Room
  <2>3. w.kind # "fixed" /\ AppendZeros(w, n)[1] = [z EXCEPT !.pos = z.pos + n]
    BY <1>2, <2>2 DEF AppendZerosSlow, Refill
  <2> HIDE DEF size
  <2>4. /\ z \in Window /\ z.kind = w.kind /\ z.pos = p /\ Len(z.data) = size
        /\ w.moved => z.moved
        /\ \A i \in 1..d : z.data[i] = w.data[i]
        /\ \A i \in 1..size : i > d => z.data[i] = 0
    BY <1>2, <2>1, ResizeIs DEF IsWindow
  <2> HIDE DEF z
  <2> DEFINE r == [z EXCEPT !.pos = z.pos + n]
  <2>5. /\ r \in Window /\ r.kind = z.kind /\ r.data = z.data /\ r.moved = z.moved
        /\ r.pos = p + n
    <3>1. PICK q \in Nat : q = p + n
      OBVIOUS
    <3>2. r = [z EXCEPT !.pos = q] /\ z \in Window
      BY <2>4, <3>1
    <3> HIDE DEF r
    <3>. QED
      BY <3>1, <3>2 DEF Window
  <2> HIDE DEF r
  <2>6. IsWindow(r)
    BY <2>1, <2>4, <2>5 DEF IsWindow
  <2>7. ASSUME Blank(w, w.pos)
        PROVE  /\ \A i \in 1..size : i > p => r.data[i] = 0
               /\ \A i \in 1..p : r.data[i] = w.data[i]
    <3>1. w.kind = "vector"
      BY <2>3 DEF IsWindow, Window
    <3>2. \A i \in 1..d : i > p => w.data[i] = 0
      BY <1>2, <2>7, <3>1 DEF Blank
    <3>3. ASSUME NEW i \in 1..size, i > p
          PROVE  z.data[i] = 0
      <4>1. CASE i <= d
        BY <1>2, <2>4, <3>2, <3>3, <4>1
      <4>2. CASE i > d
        BY <2>4, <4>2
      <4>. QED
        BY <1>2, <2>1, <4>1, <4>2
    <3>4. \A i \in 1..p : z.data[i] = w.data[i]
      BY <1>2, <2>4
    <3>. QED
      BY <2>5, <3>3, <3>4
  <2>8. ASSUME Blank(w, w.pos)
        PROVE  Wrote(w, r, ZeroBytes(n))
    <3>1. \A i \in 1..n : r.data[p + i] = 0
      BY <2>1, <2>7, <2>8
    <3>2. Blank(r, p + n)
      BY <2>4, <2>5, <2>7, <2>8 DEF Blank
    <3>. QED
      BY <1>1, <1>2, <2>4, <2>5, <2>6, <2>7, <2>8, <3>1, <3>2 DEF Wrote
  <2>9. AppendZeros(w, n)[1] = r
    BY <2>3 DEF r
  <2>. QED
    BY <1>2, <2>4, <2>5, <2>6, <2>8, <2>9
<1>. QED
  BY <1>2, <1>3, <1>4

\* An append that follows another extends what the window matches.
LEMMA MatchesMore ==
  ASSUME NEW w, IsWindow(w), NEW m \in Seq(Bits), Matches(w, m), NEW r,
         NEW bytes \in Seq(Bits), Wrote(w, r, bytes)
  PROVE  m \o bytes \in Seq(Bits) /\ Matches(r, m \o bytes)
<1>1. PICK p \in Nat, k \in Nat : p = w.pos /\ p = Len(m) /\ k = Len(bytes)
  BY DEF IsWindow, Window, Matches
<1>2. /\ m \o bytes \in Seq(Bits) /\ Len(m \o bytes) = p + k
      /\ \A i \in 1..p : (m \o bytes)[i] = m[i]
      /\ \A i \in 1..k : (m \o bytes)[p + i] = bytes[i]
  BY <1>1
<1>3. /\ r.pos = p + k /\ \A i \in 1..p : r.data[i] = m[i]
      /\ \A i \in 1..k : r.data[p + i] = bytes[i]
  BY <1>1 DEF Wrote, Matches
<1>4. ASSUME NEW i \in 1..p + k
      PROVE  r.data[i] = (m \o bytes)[i]
  <2>1. CASE i <= p
    BY <1>2, <1>3, <2>1
  <2>2. CASE i > p
    <3>1. PICK j \in 1..k : i = p + j
      <4>1. i - p \in 1..k /\ i = p + (i - p)
        BY <2>2
      <4>. QED
        BY <4>1
    <3>. QED
      BY <1>2, <1>3, <3>1
  <2>. QED
    BY <1>1, <1>4, <2>1, <2>2
<1>. QED
  BY <1>2, <1>3, <1>4 DEF Matches

\* What a call of the buffer may do to a window that is lent: it patches what
\* is below the position, or the lend is disturbed.
LEMMA GrownLends ==
  ASSUME NEW w, NEW m, NEW l, IsWindow(w), Lent(w, m, l), NEW r, IsWindow(r),
         w.moved => r.moved, r.pos > w.pos, NEW n
  PROVE  Lent(r, n, l)
<1>1. w.pos \in Nat /\ r.pos \in Nat /\ l.window.pos \in Nat
  BY DEF IsWindow, Lent, IsLend, Window
<1>2. r.moved \/ r.pos > l.window.pos
  BY <1>1 DEF Lent, Undisturbed
<1>. QED
  BY <1>2 DEF Lent

\* A call that appends, or is refused, keeps the invariant.
LEMMA CallKeeps ==
  ASSUME WindowInv, NEW result, NEW bytes \in Seq(Bits), Len(bytes) > 0,
         Call(result, meant \o bytes),
         result # NoResult => /\ IsWindow(result[1]) /\ (window.moved => result[1].moved)
                              /\ result[1].pos = window.pos + Len(bytes)
                              /\ Blank(window, window.pos) => Wrote(window, result[1], bytes)
  PROVE  WindowInv'
<1>1. CASE result = NoResult
  <2>1. window' = window /\ meant' = meant /\ lent' = lent
    BY <1>1 DEF Call
  <2>. QED
    BY <2>1 DEF WindowInv
<1>2. CASE result # NoResult
  <2>1. window' = result[1] /\ meant' = meant \o bytes /\ lent' = lent
    BY <1>2 DEF Call
  <2>2. IsWindow(window) /\ meant \in Seq(Bits) /\ meant' \in Seq(Bits)
    BY <2>1 DEF WindowInv
  <2>3. ASSUME lent = << >>
        PROVE  Matches(window', meant') /\ Blank(window', window'.pos)
    <3>1. Matches(window, meant) /\ Wrote(window, result[1], bytes) /\ Blank(window, window.pos)
      BY <1>2, <2>3 DEF WindowInv
    <3>. QED
      BY <2>1, <2>2, <3>1, MatchesMore DEF Wrote
  <2>4. ASSUME lent # << >>
        PROVE  lent = <<lent[1]>> /\ Lent(window', meant', lent[1])
    <3>1. lent = <<lent[1]>> /\ Lent(window, meant, lent[1])
      BY <2>4 DEF WindowInv
    <3>2. result[1].pos > window.pos
      BY <1>2, <2>2 DEF IsWindow, Window
    <3>3. IsWindow(result[1]) /\ (window.moved => result[1].moved)
      BY <1>2
    <3>4. Lent(result[1], meant', lent[1])
      BY Zenon, <2>2, <3>1, <3>2, <3>3, GrownLends
    <3>. QED
      BY <2>1, <3>1, <3>4
  <2>5. IsWindow(window')
    BY <1>2, <2>1
  <2>6. lent' = << >> => Matches(window', meant') /\ Blank(window', window'.pos)
    BY <2>1, <2>3
  <2>7. lent' # << >> => lent' = <<lent'[1]>> /\ Lent(window', meant', lent'[1])
    BY <2>1, <2>4
  <2>. QED
    BY Zenon, <2>2, <2>5, <2>6, <2>7 DEF WindowInv, IsWindow, Matches, Blank, Lent, IsLend,
                                         Undisturbed
<1>. QED
  BY <1>1, <1>2

\* The user or the producer appends bytes.
LEMMA AppendKeeps ==
  ASSUME WindowInv, CallAppend
  PROVE  WindowInv'
<1>1. PICK bytes \in Bytes : Call(AppendBytes(window, bytes), meant \o bytes)
  BY DEF CallAppend
<1>2. bytes \in Seq(Bits) /\ Len(bytes) > 0
  <2>1. CASE bytes = <<1>>
    BY <2>1 DEF Bits
  <2>2. CASE bytes = [i \in 1..Chunk |-> 1]
    <3>1. bytes = [i \in 1..Chunk |-> bytes[i]] /\ \A i \in 1..Chunk : bytes[i] \in Bits
      BY <2>2 DEF Bits
    <3>. QED
      BY <3>1, BytesAre, WriteWindowAssumption
  <2>. QED
    BY <2>1, <2>2 DEF Bytes
<1>3. IsWindow(window)
  BY DEF WindowInv
<1>4. AppendBytes(window, bytes) # NoResult
        => Wrote(window, AppendBytes(window, bytes)[1], bytes)
  BY <1>2, <1>3, AppendWrites
<1> DEFINE result == AppendBytes(window, bytes)
<1> HIDE DEF result
<1>5. Call(result, meant \o bytes) /\ (result # NoResult => Wrote(window, result[1], bytes))
  BY <1>1, <1>4 DEF result
<1>6. result # NoResult => /\ IsWindow(result[1]) /\ (window.moved => result[1].moved)
                           /\ result[1].pos = window.pos + Len(bytes)
                           /\ Blank(window, window.pos) => Wrote(window, result[1], bytes)
  BY <1>5 DEF Wrote
<1>. QED
  BY <1>2, <1>5, <1>6, CallKeeps

\* The user or the producer appends zeros.
LEMMA AppendZerosKeeps ==
  ASSUME WindowInv, CallAppendZeros
  PROVE  WindowInv'
<1>1. PICK n \in 1..WordBytes : Call(AppendZeros(window, n), meant \o ZeroBytes(n))
  BY DEF CallAppendZeros
<1>2. n \in Nat /\ n > 0
  BY <1>1, WriteWindowAssumption
<1>3. ZeroBytes(n) \in Seq(Bits) /\ Len(ZeroBytes(n)) = n
  <2>1. ZeroBytes(n) = [i \in 1..n |-> ZeroBytes(n)[i]]
        /\ \A i \in 1..n : ZeroBytes(n)[i] \in Bits
    BY DEF ZeroBytes, Bits
  <2>. QED
    BY <1>2, <2>1, BytesAre
<1>4. IsWindow(window)
  BY DEF WindowInv
<1>. QED
  BY <1>1, <1>2, <1>3, <1>4, ZerosGrow, CallKeeps

\* The parts of the invariant, of the next state.
LEMMA Together ==
  ASSUME IsWindow(window'), meant' \in Seq(Bits),
         lent' = << >> => Matches(window', meant') /\ Blank(window', window'.pos),
         lent' # << >> => lent' = <<lent'[1]>> /\ Lent(window', meant', lent'[1])
  PROVE  WindowInv'
  BY Zenon DEF WindowInv, IsWindow, Matches, Blank, Lent, IsLend, Undisturbed

\* Bytes patched below the position of the window and of what was meant.
LEMMA PatchKeeps ==
  ASSUME WindowInv, NEW word \in Seq(Bits), NEW at \in Nat, at + Len(word) <= window.pos,
         window' = [window EXCEPT !.data = Overwrite(window.data, at, word)],
         meant' = Overwrite(meant, at, word), UNCHANGED lent
  PROVE  WindowInv'
<1>1. window \in Window /\ window.pos <= Len(window.data) /\ meant \in Seq(Bits)
  BY DEF WindowInv, IsWindow
<1>2. PICK n \in Nat, k \in Nat, p \in Nat :
        n = Len(window.data) /\ k = Len(word) /\ p = window.pos /\ p <= n /\ at + k <= p
  BY <1>1 DEF Window
<1> DEFINE o == Overwrite(window.data, at, word)
<1>3. /\ o \in Seq(Bits) /\ Len(o) = n
      /\ \A i \in 1..n : i <= at \/ i > at + k => o[i] = window.data[i]
      /\ \A i \in 1..k : o[at + i] = word[i]
  <2>1. window.data \in Seq(Bits) /\ at + Len(word) <= Len(window.data)
    BY <1>1, <1>2 DEF Window
  <2>2. /\ o \in Seq(Bits) /\ Len(o) = Len(window.data)
        /\ \A i \in 1..Len(window.data) : i <= at \/ i > at + Len(word) => o[i] = window.data[i]
        /\ \A i \in 1..Len(word) : o[at + i] = word[i]
    BY <2>1, OverwriteIs
  <2> HIDE DEF o
  <2>. QED
    BY <1>2, <2>2
<1> HIDE DEF o
<1>4. /\ window' \in Window /\ window'.kind = window.kind /\ window'.data = o
      /\ window'.pos = p /\ window'.moved = window.moved
  <2>1. window' = [window EXCEPT !.data = o]
    BY DEF o
  <2>. QED
    BY <1>1, <1>2, <1>3, <2>1 DEF Window
<1>5. IsWindow(window')
  BY <1>2, <1>3, <1>4 DEF IsWindow
<1>6. ASSUME Matches(window, meant)
      PROVE  Matches(window', meant')
  <2>1. Len(meant) = p /\ \A i \in 1..p : window.data[i] = meant[i]
    BY <1>2, <1>6 DEF Matches
  <2> DEFINE q == Overwrite(meant, at, word)
  <2>2. /\ q \in Seq(Bits) /\ Len(q) = p
        /\ \A i \in 1..p : i <= at \/ i > at + k => q[i] = meant[i]
        /\ \A i \in 1..k : q[at + i] = word[i]
    <3>1. at + Len(word) <= Len(meant)
      BY <1>2, <2>1
    <3>2. /\ q \in Seq(Bits) /\ Len(q) = Len(meant)
          /\ \A i \in 1..Len(meant) : i <= at \/ i > at + Len(word) => q[i] = meant[i]
          /\ \A i \in 1..Len(word) : q[at + i] = word[i]
      BY <1>1, <3>1, OverwriteIs
    <3> HIDE DEF q
    <3>. QED
      BY <1>2, <2>1, <3>2
  <2>3. meant' = q
    OBVIOUS
  <2> HIDE DEF q
  <2>4. ASSUME NEW i \in 1..p
        PROVE  o[i] = q[i]
    <3>1. CASE i <= at \/ i > at + k
      BY <1>2, <1>3, <2>1, <2>2, <3>1
    <3>2. CASE i > at /\ i <= at + k
      <4>1. i - at \in 1..k /\ i = at + (i - at)
        BY <1>2, <3>2
      <4>. QED
        BY <1>3, <2>2, <4>1
    <3>. QED
      BY <1>2, <3>1, <3>2
  <2>. QED
    BY <1>4, <2>2, <2>3, <2>4 DEF Matches
<1>7. ASSUME NEW from \in Nat, from >= p, Blank(window, from)
      PROVE  Blank(window', from)
  BY <1>2, <1>3, <1>4, <1>7 DEF Blank
<1>8. meant' \in Seq(Bits)
  BY <1>1, OverwriteIs
<1>9. lent' = << >> => Matches(window', meant') /\ Blank(window', window'.pos)
  <2> SUFFICES ASSUME lent = << >>
               PROVE  Matches(window', meant') /\ Blank(window', p)
    BY <1>4
  <2>1. Matches(window, meant) /\ Blank(window, p)
    BY <1>2 DEF WindowInv
  <2>2. p >= p
    OBVIOUS
  <2>. QED
    BY <1>6, <1>7, <2>1, <2>2
<1>10. ASSUME lent # << >>
       PROVE  lent = <<lent[1]>> /\ Lent(window', meant', lent[1])
  <2>1. lent = <<lent[1]>> /\ Lent(window, meant, lent[1])
    BY <1>10 DEF WindowInv
  <2>2. PICK l : l = lent[1]
    OBVIOUS
  <2>3. IsLend(l) /\ l.used \in Nat
    BY <2>1, <2>2 DEF Lent, IsLend
  <2>4. CASE window.moved \/ window.pos > l.window.pos
    BY <1>2, <1>4, <2>1, <2>2, <2>3, <2>4 DEF Lent
  <2>5. CASE Undisturbed(window, meant, l)
    <3>1. /\ p = l.window.pos /\ n = Len(l.window.data)
          /\ Matches(window, meant) /\ Blank(window, p + l.used)
          /\ \A i \in 1..l.used : window.data[p + i] = 1 /\ p + i <= n
      BY <1>2, <2>3, <2>5 DEF Undisturbed, IsLend
    <3>2. Matches(window', meant') /\ Blank(window', p + l.used)
      BY <1>2, <1>6, <1>7, <2>3, <3>1
    <3>3. \A i \in 1..l.used : o[p + i] = 1
      <4> SUFFICES ASSUME NEW i \in 1..l.used
                   PROVE  o[p + i] = 1
        OBVIOUS
      <4>1. p + i \in 1..n /\ p + i > at + k
        BY <1>2, <2>3, <3>1
      <4>. QED
        BY <1>3, <3>1, <4>1
    <3>4. Undisturbed(window', meant', l)
      BY <1>3, <1>4, <3>1, <3>2, <3>3 DEF Undisturbed
    <3>. QED
      BY <2>1, <2>2, <2>3, <3>4 DEF Lent
  <2>. QED
    BY <2>1, <2>2, <2>4, <2>5 DEF Lent
<1>11. lent' # << >> => lent' = <<lent'[1]>> /\ Lent(window', meant', lent'[1])
  BY <1>10
<1>. QED
  BY <1>5, <1>8, <1>9, <1>11, Together

\* One byte set is a sequence of one byte put over it.
LEMMA SetByte ==
  ASSUME NEW s \in Seq(Bits), NEW at \in Nat
  PROVE  [s EXCEPT ![at + 1] = 1] = Overwrite(s, at, <<1>>)
<1>1. PICK n \in Nat : n = Len(s) /\ DOMAIN s = 1..n
  OBVIOUS
<1>2. \A i \in 1..n : i \in at + 1 .. at + 1 <=> i = at + 1
  OBVIOUS
<1>3. Len(<<1>>) = 1 /\ <<1>>[1] = 1
  OBVIOUS
<1>4. \A i \in 1..n : Overwrite(s, at, <<1>>)[i] = IF i = at + 1 THEN 1 ELSE s[i]
  BY <1>1, <1>2, <1>3 DEF Overwrite
<1>5. DOMAIN Overwrite(s, at, <<1>>) = 1..n
  BY <1>1 DEF Overwrite
<1>6. Overwrite(s, at, <<1>>) = [i \in 1..n |-> IF i = at + 1 THEN 1 ELSE s[i]]
  BY <1>1, <1>2, <1>3 DEF Overwrite
<1>7. [s EXCEPT ![at + 1] = 1] = [i \in 1..n |-> IF i = at + 1 THEN 1 ELSE s[i]]
  BY <1>1
<1>. QED
  BY <1>6, <1>7

\* A call that is refused.
LEMMA RefusedKeeps ==
  ASSUME WindowInv, NEW bytes, Call(NoResult, bytes)
  PROVE  WindowInv'
<1>1. window' = window /\ meant' = meant /\ lent' = lent
  BY DEF Call
<1>. QED
  BY <1>1 DEF WindowInv

\* A placeholder word or a null bit is patched.
LEMMA PatchesKeep ==
  ASSUME WindowInv, CallPatch
  PROVE  WindowInv'
<1>1. PICK offset \in 0..MaxWindow :
        \/ Call(PatchU32(window, offset, Word), Overwrite(meant, offset, Word))
        \/ Call(PatchByte(window, offset), Overwrite(meant, offset, <<1>>))
  BY DEF CallPatch
<1>2. offset \in Nat
  BY <1>1, WriteWindowAssumption
<1>3. window \in Window /\ window.data \in Seq(Bits) /\ window.pos \in Nat
  BY DEF WindowInv, IsWindow, Window
<1>4. CASE Call(PatchU32(window, offset, Word), Overwrite(meant, offset, Word))
  <2>1. Word \in Seq(Bits) /\ Len(Word) = WordBytes
    <3>1. Word = [i \in 1..WordBytes |-> Word[i]] /\ \A i \in 1..WordBytes : Word[i] \in Bits
      BY DEF Word, Bits
    <3>. QED
      BY <3>1, BytesAre, WriteWindowAssumption
  <2>2. CASE window.pos < Len(Word) \/ offset > window.pos - Len(Word)
    <3>1. PatchU32(window, offset, Word) = NoResult
      BY <2>2 DEF PatchU32
    <3>. QED
      BY <1>4, <3>1, RefusedKeeps
  <2>3. CASE ~(window.pos < Len(Word) \/ offset > window.pos - Len(Word))
    <3>1. offset + Len(Word) <= window.pos
      BY <1>2, <1>3, <2>1, <2>3, WriteWindowAssumption
    <3>2. PatchU32(window, offset, Word) =
            <<[window EXCEPT !.data = Overwrite(window.data, offset, Word)]>>
      BY <2>3 DEF PatchU32
    <3>3. /\ window' = [window EXCEPT !.data = Overwrite(window.data, offset, Word)]
          /\ meant' = Overwrite(meant, offset, Word) /\ UNCHANGED lent
      BY <1>4, <3>2 DEF Call, NoResult
    <3>. QED
      BY <1>2, <2>1, <3>1, <3>3, PatchKeeps
  <2>. QED
    BY <2>2, <2>3
<1>5. CASE Call(PatchByte(window, offset), Overwrite(meant, offset, <<1>>))
  <2>1. <<1>> \in Seq(Bits) /\ Len(<<1>>) = 1
    BY DEF Bits
  <2>2. CASE offset >= window.pos
    <3>1. PatchByte(window, offset) = NoResult
      BY <2>2 DEF PatchByte
    <3>. QED
      BY <1>5, <3>1, RefusedKeeps
  <2>3. CASE ~(offset >= window.pos)
    <3>1. offset + Len(<<1>>) <= window.pos
      BY <1>2, <1>3, <2>1, <2>3
    <3>2. PatchByte(window, offset) = <<[window EXCEPT !.data[offset + 1] = 1]>>
      BY <2>3 DEF PatchByte
    <3>3. /\ window' = [window EXCEPT !.data = [window.data EXCEPT ![offset + 1] = 1]]
          /\ meant' = Overwrite(meant, offset, <<1>>) /\ UNCHANGED lent
      BY <1>5, <3>2 DEF Call, NoResult
    <3>4. window' = [window EXCEPT !.data = Overwrite(window.data, offset, <<1>>)]
      BY <1>2, <1>3, <3>3, SetByte
    <3>. QED
      BY <1>2, <2>1, <3>1, <3>3, <3>4, PatchKeeps
  <2>. QED
    BY <2>2, <2>3
<1>. QED
  BY <1>1, <1>4, <1>5

\* A window that starts.
LEMMA NewWindows ==
  ASSUME NEW stale \in Seq(Bits)
  PROVE  /\ IsWindow(NewVector) /\ Matches(NewVector, << >>) /\ Blank(NewVector, NewVector.pos)
         /\ IsWindow(NewFixed(stale)) /\ Matches(NewFixed(stale), << >>)
         /\ Blank(NewFixed(stale), NewFixed(stale).pos)
<1>1. << >> \in Seq(Bits) /\ Len(<< >>) = 0
  OBVIOUS
<1>2. /\ IsWindow(NewVector) /\ NewVector.pos = 0 /\ NewVector.data = << >>
  BY <1>1 DEF NewVector, IsWindow, Window
<1>3. /\ IsWindow(NewFixed(stale)) /\ NewFixed(stale).pos = 0 /\ NewFixed(stale).kind = "fixed"
  BY DEF NewFixed, IsWindow, Window
<1>4. 1..0 = {}
  OBVIOUS
<1>. QED
  BY <1>1, <1>2, <1>3, <1>4 DEF Matches, Blank

\* An exception ends the row.
LEMMA AbandonKeeps ==
  ASSUME WindowInv, Abandon, lent' = << >>
  PROVE  WindowInv'
<1>1. window.data \in Seq(Bits)
  BY DEF WindowInv, IsWindow, Window
<1>2. (window' = NewVector \/ window' = NewFixed(window.data)) /\ meant' = << >>
  BY DEF Abandon
<1>3. << >> \in Seq(Bits)
  OBVIOUS
<1>. QED
  BY <1>1, <1>2, <1>3, NewWindows, Together

\* Finish hands the bytes over, also while the window is lent.
LEMMA FinishKeeps ==
  ASSUME WindowInv, CallFinish
  PROVE  WindowInv'
<1>1. window' = [NewVector EXCEPT !.moved = TRUE] /\ meant' = << >> /\ UNCHANGED lent
  BY DEF CallFinish, Finish
<1>2. /\ window' \in Window /\ window'.pos = 0 /\ window'.data = << >> /\ window'.moved
  <2>1. << >> \in Seq(Bits)
    OBVIOUS
  <2>. QED
    BY <1>1, <2>1 DEF NewVector, Window
<1>3. << >> \in Seq(Bits) /\ Len(<< >>) = 0
  OBVIOUS
<1>4. IsWindow(window')
  BY <1>2, <1>3 DEF IsWindow
<1>5. 1..0 = {}
  OBVIOUS
<1>6. Matches(window', meant') /\ Blank(window', window'.pos)
  BY <1>1, <1>2, <1>3, <1>5 DEF Matches, Blank
<1>7. lent # << >> => lent = <<lent[1]>> /\ Lent(window', meant', lent[1])
  BY <1>2 DEF WindowInv, Lent
<1>8. lent' # << >> => lent' = <<lent'[1]>> /\ Lent(window', meant', lent'[1])
  BY <1>1, <1>7
<1>9. meant' \in Seq(Bits)
  BY <1>1, <1>3
<1>. QED
  BY <1>4, <1>6, <1>8, <1>9, Together

\* A window starts at its first byte.
LEMMA WindowInitInv == WindowInit => WindowInv
<1> SUFFICES ASSUME WindowInit
             PROVE  WindowInv
  OBVIOUS
<1>1. lent = << >> /\ meant = << >>
  BY DEF WindowInit
<1>2. << >> \in Seq(Bits)
  OBVIOUS
<1>3. CASE window = NewVector
  BY <1>1, <1>2, <1>3, NewWindows DEF WindowInv
<1>4. CASE \E stale \in [1..FixedCapacity -> {1}] : window = NewFixed(stale)
  <2>1. PICK stale \in [1..FixedCapacity -> {1}] : window = NewFixed(stale)
    BY <1>4
  <2>2. stale \in Seq(Bits)
    BY <2>1, WriteWindowAssumption, BytesAre DEF Bits
  <2>. QED
    BY <1>1, <1>2, <2>1, <2>2, NewWindows DEF WindowInv
<1>. QED
  BY <1>3, <1>4 DEF WindowInit

\* The window that AppendInPlace lends: made long enough, and blank.
LEMMA MadeIs ==
  ASSUME NEW w, IsWindow(w), Blank(w, w.pos), NEW min \in Nat, NEW made,
         made = IF min > Room(w) THEN AppendZerosSlow(w, min) ELSE <<w>>, made # NoResult
  PROVE  /\ IsWindow(made[1]) /\ w.pos <= made[1].pos
         /\ \A i \in 1..w.pos : made[1].data[i] = w.data[i]
         /\ Blank(made[1], w.pos)
<1>1. w.pos \in Nat /\ Len(w.data) \in Nat
  BY DEF IsWindow, Window
<1>2. CASE ~(min > Room(w))
  BY <1>1, <1>2
<1>3. CASE min > Room(w)
  <2>1. made = AppendZeros(w, min)
    BY <1>3 DEF AppendZeros
  <2>2. IsWindow(made[1]) /\ made[1].pos = w.pos + min /\ Wrote(w, made[1], ZeroBytes(min))
    BY <2>1, ZerosGrow
  <2>3. PICK p \in Nat, d \in Nat : p = w.pos /\ d = Len(made[1].data) /\ p + min <= d
    BY <1>1, <2>2 DEF IsWindow, Window
  <2>4. \A i \in 1..p : made[1].data[i] = w.data[i]
    BY <2>2, <2>3 DEF Wrote
  <2>5. \A i \in 1..min : made[1].data[p + i] = 0
    <3>1. Len(ZeroBytes(min)) = min /\ \A i \in 1..min : ZeroBytes(min)[i] = 0
      <4>1. ZeroBytes(min) = [i \in 1..min |-> ZeroBytes(min)[i]]
            /\ \A i \in 1..min : ZeroBytes(min)[i] = 0
        BY DEF ZeroBytes
      <4>. QED
        BY <4>1, BytesAre DEF Bits
    <3>. QED
      BY <2>2, <2>3, <3>1 DEF Wrote
  <2>6. Blank(made[1], p + min)
    BY <2>2, <2>3 DEF Wrote
  <2>7. ASSUME made[1].kind = "vector", NEW i \in 1..d, i > p
        PROVE  made[1].data[i] = 0
    <3>1. CASE i > p + min
      BY <2>3, <2>6, <2>7, <3>1 DEF Blank
    <3>2. CASE i <= p + min
      <4>1. i - p \in 1..min /\ i = p + (i - p)
        BY <2>3, <2>7, <3>2
      <4>. QED
        BY <2>5, <4>1
    <3>. QED
      BY <2>3, <3>1, <3>2
  <2>8. Blank(made[1], p)
    BY <2>3, <2>7 DEF Blank
  <2>. QED
    BY <2>2, <2>3, <2>4, <2>8
<1>. QED
  BY <1>2, <1>3

\* AppendInPlace lends the window.
LEMMA InPlaceKeeps ==
  ASSUME WindowInv, CallInPlace
  PROVE  WindowInv'
<1>1. PICK min \in 1..2 :
        /\ lent = << >>
        /\ LET made == IF min > Room(window) THEN AppendZerosSlow(window, min) ELSE <<window>>
               w == [made[1] EXCEPT !.pos = window.pos, !.moved = FALSE]
           IN  /\ made # NoResult
               /\ window' = w
               /\ lent' = <<[window |-> w, used |-> 0]>>
        /\ UNCHANGED meant
  BY DEF CallInPlace
<1>2. min \in Nat
  BY <1>1
<1>3. PICK made :
        /\ made = IF min > Room(window) THEN AppendZerosSlow(window, min) ELSE <<window>>
        /\ made # NoResult
        /\ window' = [made[1] EXCEPT !.pos = window.pos, !.moved = FALSE]
        /\ lent' = <<[window |-> window', used |-> 0]>> /\ meant' = meant
  BY <1>1
<1>4. /\ IsWindow(window) /\ Matches(window, meant) /\ Blank(window, window.pos)
      /\ meant \in Seq(Bits)
  BY <1>1 DEF WindowInv
<1>5. /\ IsWindow(made[1]) /\ window.pos <= made[1].pos
      /\ \A i \in 1..window.pos : made[1].data[i] = window.data[i]
      /\ Blank(made[1], window.pos)
  BY <1>2, <1>3, <1>4, MadeIs
<1>6. PICK p \in Nat : p = window.pos
  BY <1>4 DEF IsWindow, Window
<1>7. PICK z : z = made[1]
  OBVIOUS
<1>8. /\ window' \in Window /\ window'.pos = p /\ window'.data = z.data /\ window'.kind = z.kind
  <2>1. z \in Window /\ window' = [z EXCEPT !.pos = p, !.moved = FALSE]
    BY <1>3, <1>5, <1>6, <1>7 DEF IsWindow
  <2>. QED
    BY <2>1 DEF Window
<1>9. p <= Len(z.data) /\ z.pos \in Nat
  BY <1>5, <1>6, <1>7 DEF IsWindow, Window
<1>10. IsWindow(window')
  BY <1>8, <1>9 DEF IsWindow
<1>11. Matches(window', meant')
  BY <1>3, <1>4, <1>5, <1>6, <1>7, <1>8 DEF Matches
<1>12. Blank(window', p)
  BY <1>5, <1>6, <1>7, <1>8 DEF Blank
<1>13. PICK l : l = [window |-> window', used |-> 0]
  OBVIOUS
<1>14. l.window = window' /\ l.used = 0 /\ l \in [window : Window, used : Nat] /\ p + 0 = p
  BY <1>8, <1>13
<1>15. Lent(window', meant', l)
  <2>1. IsLend(l)
    BY <1>8, <1>9, <1>14 DEF IsLend
  <2>2. 1..0 = {}
    OBVIOUS
  <2>. QED
    BY <1>8, <1>11, <1>12, <1>14, <2>1, <2>2 DEF Lent, Undisturbed
<1>16. lent' = <<l>> /\ lent'[1] = l /\ lent' # << >>
  BY <1>3, <1>13
<1>. QED
  BY <1>3, <1>4, <1>10, <1>15, <1>16, Together

\* The producer writes a byte where it was lent the room.
LEMMA ProduceKeeps ==
  ASSUME WindowInv, Produce
  PROVE  WindowInv'
<1>1. PICK l : l = lent[1]
  OBVIOUS
<1>2. /\ lent # << >> /\ l.used < Len(l.window.data) - l.window.pos
      /\ window' = IF ~window.moved /\ Len(window.data) > l.window.pos + l.used
                   THEN [window EXCEPT !.data[l.window.pos + l.used + 1] = 1]
                   ELSE window
      /\ lent' = <<[l EXCEPT !.used = l.used + 1]>> /\ meant' = meant
  BY <1>1 DEF Produce, Room
<1>3. IsWindow(window) /\ meant \in Seq(Bits) /\ Lent(window, meant, l)
  BY <1>1, <1>2 DEF WindowInv
<1>4. PICK p \in Nat, u \in Nat, n \in Nat :
        p = l.window.pos /\ u = l.used /\ n = Len(l.window.data) /\ p + u < n
  <2>1. l.window \in Window /\ l.used \in Nat
    BY <1>3 DEF Lent, IsLend
  <2>2. PICK p \in Nat, n \in Nat : p = l.window.pos /\ n = Len(l.window.data)
    BY <2>1 DEF Window
  <2>. QED
    BY <1>2, <2>1, <2>2
<1>5. PICK k : k = [l EXCEPT !.used = u + 1]
  OBVIOUS
<1>6. IsLend(k) /\ k.window = l.window /\ k.used = u + 1
  <2>1. l \in [window : Window, used : Nat] /\ u + 1 \in Nat
    BY <1>3 DEF Lent, IsLend
  <2>2. k \in [window : Window, used : Nat] /\ k.window = l.window /\ k.used = u + 1
    BY <1>5, <2>1
  <2>. QED
    BY <1>4, <2>2 DEF IsLend
<1>7. lent' = <<k>> /\ lent'[1] = k /\ lent' # << >>
  BY <1>2, <1>4, <1>5
<1>8. CASE window.moved \/ ~(Len(window.data) > p + u)
  <2>1. window' = window
    BY <1>2, <1>4, <1>8
  <2>2. ~Undisturbed(window, meant, l) \/ window.moved
    BY <1>4, <1>8 DEF Undisturbed
  <2>3. Lent(window', meant', k)
    BY <1>3, <1>6, <2>1, <2>2 DEF Lent
  <2>. QED
    BY <1>2, <1>3, <1>7, <2>1, <2>3, Together
<1>9. CASE ~window.moved /\ Len(window.data) > p + u
  <2> DEFINE o == [window.data EXCEPT ![p + u + 1] = 1]
  <2>1. window \in Window /\ window.data \in Seq(Bits) /\ window.pos \in Nat
    BY <1>3 DEF IsWindow, Window
  <2>2. window' = [window EXCEPT !.data = o]
    BY <1>2, <1>4, <1>9, <2>1 DEF Window
  <2>3. PICK d \in Nat : d = Len(window.data) /\ window.pos <= d /\ p + u < d
    BY <1>3, <1>9, <2>1 DEF IsWindow
  <2>4. /\ o \in Seq(Bits) /\ Len(o) = d /\ o[p + u + 1] = 1
        /\ \A i \in 1..d : i # p + u + 1 => o[i] = window.data[i]
    <3>1. window.data \in [1..d -> Bits] /\ p + u + 1 \in 1..d
      BY <2>1, <2>3
    <3>2. o \in [1..d -> Bits] /\ o[p + u + 1] = 1
          /\ \A i \in 1..d : i # p + u + 1 => o[i] = window.data[i]
      BY <3>1 DEF Bits
    <3> HIDE DEF o
    <3>3. o = [i \in 1..d |-> o[i]] /\ \A i \in 1..d : o[i] \in Bits
      BY <3>2
    <3>. QED
      BY <3>2, <3>3, BytesAre
  <2> HIDE DEF o
  <2>5. /\ window' \in Window /\ window'.data = o /\ window'.pos = window.pos
        /\ window'.kind = window.kind /\ window'.moved = window.moved
    BY <2>1, <2>2, <2>4 DEF Window
  <2>6. IsWindow(window')
    BY <2>3, <2>4, <2>5 DEF IsWindow
  <2>7. Lent(window', meant', k)
    <3>1. CASE window.pos > l.window.pos
      BY <1>6, <2>5, <3>1 DEF Lent
    <3>2. CASE Undisturbed(window, meant, l)
      <4>1. /\ window.pos = p /\ d = n /\ Len(meant) = p
            /\ \A i \in 1..p : window.data[i] = meant[i]
            /\ Blank(window, p + u) /\ \A i \in 1..u : window.data[p + i] = 1
        BY <1>4, <2>3, <3>2 DEF Undisturbed, Matches
      <4>2. \A i \in 1..p : o[i] = meant[i]
        <5>1. \A i \in 1..p : i \in 1..d /\ i # p + u + 1
          BY <1>4, <2>3
        <5>. QED
          BY <2>4, <4>1, <5>1
      <4>3. Blank(window', p + (u + 1))
        <5>1. ASSUME window.kind = "vector", NEW i \in 1..d, i > p + (u + 1)
              PROVE  o[i] = 0
          <6>1. i # p + u + 1 /\ i > p + u
            BY <1>4, <2>3, <5>1
          <6>. QED
            BY <2>3, <2>4, <4>1, <5>1, <6>1 DEF Blank
        <5>. QED
          BY <2>4, <2>5, <5>1 DEF Blank
      <4>4. \A i \in 1..(u + 1) : o[p + i] = 1
        <5> SUFFICES ASSUME NEW i \in 1..(u + 1)
                     PROVE  o[p + i] = 1
          OBVIOUS
        <5>1. CASE i = u + 1
          BY <2>4, <5>1
        <5>2. CASE i # u + 1
          <6>1. i \in 1..u
            BY <5>2
          <6>2. p + i \in 1..d /\ p + i # p + u + 1
            BY <2>3, <6>1
          <6>. QED
            BY <2>4, <4>1, <6>1, <6>2
        <5>. QED
          BY <5>1, <5>2
      <4>5. Matches(window', meant')
        BY <1>2, <2>5, <4>1, <4>2 DEF Matches
      <4>6. Undisturbed(window', meant', k)
        BY <1>4, <1>6, <2>4, <2>5, <4>1, <4>3, <4>4, <4>5 DEF Undisturbed
      <4>. QED
        BY <1>6, <4>6 DEF Lent
    <3>. QED
      BY <1>3, <1>9, <3>1, <3>2 DEF Lent
  <2>. QED
    BY <1>2, <1>3, <1>7, <2>6, <2>7, Together
<1>. QED
  BY <1>3, <1>4, <1>8, <1>9 DEF IsWindow, Window

\* A producer that reports what it used: the bytes are the ones it wrote.
LEMMA ReturnsKeeps ==
  ASSUME WindowInv, ~Scratch, InPlaceReturns
  PROVE  WindowInv'
<1>1. PICK l : l = lent[1]
  OBVIOUS
<1>2. /\ lent # << >> /\ lent' = << >>
      /\ \E report \in {l.used, Room(l.window) + 1} :
            IF SameWindow(window, l.window) /\ report <= Room(l.window)
            THEN /\ window' = [window EXCEPT !.pos = l.window.pos + report]
                 /\ meant' = meant \o [i \in 1..report |-> 1]
            ELSE Abandon
  BY <1>1 DEF InPlaceReturns
<1>3. CASE Abandon
  BY <1>2, <1>3, AbandonKeeps
<1>4. CASE ~Abandon
  <2>1. IsWindow(window) /\ meant \in Seq(Bits) /\ Lent(window, meant, l)
    BY <1>1, <1>2 DEF WindowInv
  <2>2. PICK p \in Nat, u \in Nat, n \in Nat :
          p = l.window.pos /\ u = l.used /\ n = Len(l.window.data) /\ p + u <= n
    BY <2>1 DEF Lent, IsLend, Window
  <2>3. Room(l.window) = n - p /\ ~(n - p + 1 <= n - p)
    BY <2>2 DEF Room
  <2>4. /\ SameWindow(window, l.window)
        /\ window' = [window EXCEPT !.pos = p + u]
        /\ meant' = meant \o [i \in 1..u |-> 1]
    BY <1>2, <1>4, <2>2, <2>3
  <2>5. ~window.moved /\ window.pos = p /\ Len(window.data) = n
    BY <2>2, <2>4 DEF SameWindow
  <2>6. /\ Matches(window, meant) /\ Blank(window, p + u)
        /\ \A i \in 1..u : window.data[p + i] = 1
    BY <2>1, <2>2, <2>5 DEF Lent, Undisturbed
  <2>7. /\ window' \in Window /\ window'.pos = p + u /\ window'.data = window.data
        /\ window'.kind = window.kind /\ window'.moved = window.moved
    <3>1. p + u \in Nat /\ window \in Window
      BY <2>1 DEF IsWindow
    <3>. QED
      BY <2>4, <3>1 DEF Window
  <2>8. IsWindow(window')
    BY <2>2, <2>5, <2>7 DEF IsWindow
  <2> DEFINE ones == [i \in 1..u |-> 1]
  <2>9. ones \in Seq(Bits) /\ Len(ones) = u /\ \A i \in 1..u : ones[i] = 1
    <3>1. ones = [i \in 1..u |-> ones[i]] /\ \A i \in 1..u : ones[i] = 1
      OBVIOUS
    <3> HIDE DEF ones
    <3>. QED
      BY <3>1, BytesAre DEF Bits
  <2>10. meant' = meant \o ones
    BY <2>4
  <2> HIDE DEF ones
  <2>11. Blank(window', window'.pos)
    BY <2>6, <2>7 DEF Blank
  <2>12. Wrote(window, window', ones)
    BY <2>5, <2>6, <2>7, <2>8, <2>9, <2>11 DEF Wrote
  <2>13. meant' \in Seq(Bits) /\ Matches(window', meant')
    BY <2>1, <2>6, <2>9, <2>10, <2>12, MatchesMore
  <2>. QED
    BY <1>2, <2>8, <2>11, <2>13, Together
<1>. QED
  BY <1>3, <1>4

\* Every step preserves the invariant.
LEMMA WindowStepInv == ~Scratch /\ WindowInv /\ [WindowNext]_windowVars => WindowInv'
<1> SUFFICES ASSUME ~Scratch, WindowInv, [WindowNext]_windowVars
             PROVE  WindowInv'
  OBVIOUS
<1>1. CASE InPlaceThrows
  BY <1>1, AbandonKeeps DEF InPlaceThrows
<1>2. CASE UNCHANGED windowVars
  BY <1>2 DEF WindowInv, windowVars
<1>. QED
  BY <1>1, <1>2, AppendKeeps, AppendZerosKeeps, PatchesKeep, FinishKeeps, InPlaceKeeps,
     ProduceKeeps, ReturnsKeeps DEF WindowNext

\* The write buffer of the encoders, for words, chunks and payloads of any
\* size: over any calls, refills, patches and lends, where each producer
\* reports all that it used of what it was lent, the bytes below the position
\* are those that the calls which succeeded were to write.
THEOREM WindowKeepsWhatWasWritten ==
  ASSUME ~Scratch
  PROVE  WindowSpec => []WindowHoldsWhatWasWritten
<1>1. WindowInv => WindowHoldsWhatWasWritten
  <2> SUFFICES ASSUME WindowInv
               PROVE  WindowHoldsWhatWasWritten
    OBVIOUS
  <2>1. /\ window.data \in Seq(Bits) /\ window.pos \in Nat /\ window.pos <= Len(window.data)
        /\ meant \in Seq(Bits)
    BY DEF WindowInv, IsWindow, Window
  <2>2. ASSUME lent = << >>
        PROVE  SubSeq(window.data, 1, window.pos) = meant
    <3>1. PICK n \in Nat : n = window.pos /\ n = Len(meant) /\ n <= Len(window.data)
                            /\ \A i \in 1..n : window.data[i] = meant[i]
      BY <2>1, <2>2 DEF WindowInv, Matches
    <3>2. PICK d \in Seq(Bits) : d = SubSeq(window.data, 1, n)
      BY <2>1, <3>1
    <3>3. Len(d) = n /\ \A i \in 1..n : d[i] = window.data[i]
      BY <2>1, <3>1, <3>2
    <3>. QED
      BY <2>1, <3>1, <3>2, <3>3
  <2>. QED
    BY <2>1, <2>2 DEF WindowHoldsWhatWasWritten
<1>. QED
  BY <1>1, WindowInitInv, WindowStepInv, PTL DEF WindowSpec
=============================================================================
