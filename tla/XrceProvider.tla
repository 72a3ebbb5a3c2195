----------------------------- MODULE XrceProvider -----------------------------
(***************************************************************************)
(* XrceDDSPubSubProvider (xrcedds-pubsub-provider/src): a client of an     *)
(* XRCE-DDS Agent, seen through one topic.                                 *)
(*                                                                         *)
(* The recursive mutex is held from a method's door to its return, and by  *)
(* the run loop while it pumps, so methods are serial: call is the one     *)
(* that holds it.  A method that waits for the Agent pumps the session,    *)
(* and OnTopic runs inside that wait.  OnTopic copies what it delivers     *)
(* (frame) and runs the handler under the mutex.                           *)
(*                                                                         *)
(* Entities are named by kind: an id in ts.ids is valid for the client, an *)
(* entity in agent.has exists.  Only schema readers are numbered, because  *)
(* samples of a deleted one may still be in the stream.  External: the     *)
(* Agent, the reliable stream from it (wire), the writes on the topic      *)
(* (bus), the retained announcement, and a remote writer.                  *)
(***************************************************************************)
EXTENDS SchemaArrival, Integers, Sequences, FiniteSets

CONSTANTS
    Bounds,         \* payload bounds a topic may carry
    ConfigBound,    \* ProviderConfig::max_payload_bytes, resolved
    MaxRow,         \* bound on the rows written
    MaxAnnounce,    \* bound on the schema announcements
    MaxFail,        \* bound on the requests the Agent refuses or answers late
    MaxDeclare      \* bound on CreateTopic calls

ASSUME XrceAssumption ==
    /\ Bounds \subseteq Nat \ {0} /\ ConfigBound \in Bounds
    /\ {MaxRow, MaxAnnounce, MaxFail, MaxDeclare} \subseteq Nat
    /\ IsFiniteSet(Arrivals) /\ Arrivals = 1..Cardinality(Arrivals)
    /\ NoArrival = 0 /\ Null \notin Schemas

VARIABLES
    held, life,     \* what the object has opened; "new", "up", "dying", "gone"
    ts,             \* Impl::TopicState of the topic
    routes,         \* readers in reader_to_topic and schema_reader_to_topic
    call,           \* the method that holds the mutex
    frame,          \* the delivery that OnTopic runs
    agent, wire, bus, retained,     \* external
    accepted, handled,  \* this subscription's rows: past OnTopic, to the handler
    lost,               \* Publish returned, and no writer took the row
    subs, fails, declares   \* counters

objectVars == <<held, life>>
externalVars == <<agent, wire, bus, retained>>
ghostVars == <<accepted, handled, lost>>
arrivalVars == <<arrival, waiting>>
counterVars == <<subs, fails, declares>>
vars == <<objectVars, ts, routes, call, frame, externalVars, ghostVars,
          arrivalVars, counterVars>>

NoSub == NoArrival
DataReader == 0
NoCall == [op |-> "none", todo |-> << >>, schema |-> Null, bound |-> 0]
NoFrame == [sub |-> NoSub, schema |-> Null, rows |-> << >>]
NoSample == [schema |-> Null, bound |-> 0, version |-> 0, local |-> FALSE]
NoTopicState ==
    [ids |-> {}, max_payload_bytes |-> 0, schema |-> Null,
     shared_schema |-> Null, declared |-> Null, is_publisher |-> FALSE,
     channel |-> NoSub, schema_resolver |-> NoArrival, pending |-> << >>,
     schema_reader |-> 0]
NoAgent == [has |-> {}, bound |-> 0, reading |-> {}, pos |-> 0, sent |-> 0]

\* What a wait creates (subscribers and publishers go with their reader or
\* writer), the ids set before it, and what the Agent must know already.
Kinds == {"participant", "topic", "writer", "reader", "schema_topic",
          "schema_writer", "schema_reader"}
Sets(op, kind) ==
    CASE kind = "participant" -> {"participant", "topic"}
      [] kind = "schema_topic" /\ op = "Subscribe" -> {kind, "schema_reader"}
      [] kind \in {"topic", "schema_reader", "announce", "confirm"} -> {}
      [] OTHER -> {kind}
Needs(kind) ==
    CASE kind = "participant" -> {}
      [] kind \in {"topic", "schema_topic"} -> {"participant"}
      [] kind \in {"writer", "reader"} -> {"topic"}
      [] kind \in {"schema_writer", "schema_reader"} -> {"schema_topic"}

Init ==
    /\ held = {} /\ life = "new"
    /\ ts = NoTopicState /\ routes = {}
    /\ call = NoCall /\ frame = NoFrame
    /\ agent = NoAgent /\ wire = << >> /\ bus = << >> /\ retained = NoSample
    /\ accepted = << >> /\ handled = << >> /\ lost = FALSE
    /\ ArrivalInit
    /\ subs = 0 /\ fails = 0 /\ declares = 0

------------------------------------------------------------------------------
(* Construction and destruction.                                           *)

Opens == <<"transport", "session", "loop">>

\* The constructor opens the transport, the session and the run loop in that
\* order; the first two may fail, and ~Impl runs on what there is.
Construct ==
    /\ life = "new"
    /\ LET next == Opens[Cardinality(held) + 1]
       IN \/ /\ held' = held \cup {next}
             /\ life' = IF next = "loop" THEN "up" ELSE "new"
          \/ /\ next # "loop"
             /\ life' = "dying" /\ UNCHANGED held
    /\ UNCHANGED <<ts, routes, call, frame, externalVars, ghostVars,
                   arrivalVars, counterVars>>

\* What ~Impl releases next: the run loop, joined between two pumps, then
\* the session, then the transport, each only if there is one.
ReleaseNext ==
    IF "loop" \in held THEN {"loop"}
    ELSE IF "session" \in held THEN {"session"} ELSE held

Destroy ==
    /\ life \in {"up", "dying"}
    /\ call = NoCall /\ frame = NoFrame
    /\ life' = IF held = {} THEN "gone" ELSE "dying"
    /\ held' = held \ ReleaseNext
    /\ UNCHANGED <<ts, routes, call, frame, externalVars, ghostVars,
                   arrivalVars, counterVars>>

------------------------------------------------------------------------------
(* The door, the mutex, and the waits for the Agent.                       *)

\* Mutant: a method called from the handler is served.
NoDoor(inside) == FALSE

\* RefuseIfInsideDeliveryOn.
Refused(inside) == inside

\* A method may run: past the door, with the mutex.  inside: the handler
\* makes the call, on the thread that holds the recursive mutex already.
Entered(inside) ==
    /\ life = "up"
    /\ IF inside THEN frame # NoFrame ELSE frame = NoFrame /\ call = NoCall
    /\ ~Refused(inside)

Waits == call.todo # << >> /\ Head(call.todo) \in Kinds /\ frame = NoFrame

\* The ids a method sets before the first of these waits.
WithIds(op, todo, state) ==
    [state EXCEPT !.ids = @ \cup IF todo = << >> THEN {}
                                 ELSE Sets(op, Head(todo))]

\* The Agent does what the current wait asks for.
Provided ==
    LET kind == Head(call.todo)
    IN [agent EXCEPT !.has = @ \cup {kind},
                     !.bound = IF kind = "topic" THEN call.bound ELSE @,
                     !.pos = IF kind = "reader" THEN 0 ELSE @]

\* WaitForStatus(es) succeeds.  A schema reader is routed and asked for
\* samples; CreateTopic records the schema before it announces it.
Created ==
    LET kind == Head(call.todo)
        n == ts.schema_reader + 1
        routed == kind = "schema_reader"
        next == WithIds(call.op, Tail(call.todo), ts)
    IN /\ Waits
       /\ Needs(kind) \subseteq agent.has
       /\ call' = [call EXCEPT !.todo = Tail(@)]
       /\ ts' = [next EXCEPT
                   !.schema_reader = IF routed THEN n ELSE @,
                   !.schema = IF kind = "writer" /\ call.schema # Null
                              THEN call.schema ELSE @]
       /\ routes' = IF routed THEN routes \cup {n} ELSE routes
       /\ agent' = [Provided EXCEPT
                      !.reading = IF routed THEN @ \cup {n} ELSE @,
                      !.sent = IF routed THEN 0 ELSE @]
       /\ UNCHANGED <<objectVars, frame, wire, bus, retained, ghostVars,
                      arrivalVars, counterVars>>

\* A refusal, or no answer within a second: the method throws and what it set
\* stays.  An answer that is only late leaves the entity on the Agent.
NotCreated ==
    LET known == Needs(Head(call.todo)) \subseteq agent.has
    IN /\ Waits
       /\ IF known THEN fails < MaxFail /\ fails' = fails + 1
                   ELSE UNCHANGED fails
       /\ \/ UNCHANGED agent
          \/ known /\ agent' = Provided
       /\ call' = NoCall
       /\ UNCHANGED <<objectVars, ts, routes, frame, wire, bus, retained,
                      ghostVars, arrivalVars, subs, declares>>

------------------------------------------------------------------------------
(* CreateTopicWithOptions and Publish.                                     *)

\* The bound of a topic that was made before: the one it was made with, or
\* the client's own when Subscribe made it.
BoundKept(b) ==
    IF ts.max_payload_bytes = 0 THEN ConfigBound ELSE ts.max_payload_bytes

\* asked = 0: the options name no bound.  Past the declaration a conflict
\* throws and anything else is a no-op; a bound that differs from the one
\* Subscribe made the topic with throws.
CreateTopic(s, asked) ==
    LET b == IF asked = 0 THEN ConfigBound ELSE asked
        made == "participant" \in ts.ids
        todo == (IF made THEN << >> ELSE <<"participant", "topic">>)
                \o <<"writer">>
                \o (IF s = Null THEN << >>
                    ELSE (IF "schema_topic" \in ts.ids THEN << >>
                          ELSE <<"schema_topic">>)
                         \o <<"schema_writer", "announce", "confirm">>)
    IN /\ Entered(FALSE)
       /\ declares < MaxDeclare /\ declares' = declares + 1
       /\ ~ts.is_publisher
       /\ ~(made /\ ts.max_payload_bytes = 0 /\ asked \notin {0, ConfigBound})
       /\ call' = [op |-> "CreateTopic", todo |-> todo, schema |-> s, bound |-> b]
       /\ ts' = WithIds("CreateTopic", todo,
                  [ts EXCEPT !.max_payload_bytes =
                               IF made THEN BoundKept(b) ELSE b])
       /\ UNCHANGED <<objectVars, routes, frame, externalVars, ghostVars,
                      arrivalVars, subs, fails>>

\* The schema and the bound are written to the retained __schema topic.
Announce ==
    /\ call.todo # << >> /\ Head(call.todo) = "announce" /\ frame = NoFrame
    /\ retained' = [schema |-> call.schema, bound |-> ts.max_payload_bytes,
                    version |-> retained.version + 1, local |-> TRUE]
    /\ call' = [call EXCEPT !.todo = Tail(@)]
    /\ UNCHANGED <<objectVars, ts, routes, frame, agent, wire, bus, ghostVars,
                   arrivalVars, counterVars>>

\* The session was pumped for the confirmation, whose outcome is ignored.
Declare ==
    /\ call.op = "CreateTopic" /\ call.todo \in {<< >>, <<"confirm">>}
    /\ frame = NoFrame
    /\ ts' = [ts EXCEPT !.declared = call.schema, !.is_publisher = TRUE]
    /\ call' = NoCall
    /\ UNCHANGED <<objectVars, routes, frame, externalVars, ghostVars,
                   arrivalVars, counterVars>>

\* An entry in the map is not a declaration.
MayPublish == ts.is_publisher

\* Publish; the Agent drops a write through an id it does not know.
Publish ==
    LET taken == "writer" \in agent.has
    IN /\ Entered(FALSE)
       /\ MayPublish
       /\ Len(bus) < MaxRow
       /\ bus' = IF taken THEN Append(bus, agent.bound) ELSE bus
       /\ lost' = (lost \/ ~taken)
       /\ UNCHANGED <<objectVars, ts, routes, call, frame, agent, wire,
                      retained, accepted, handled, arrivalVars, counterVars>>

------------------------------------------------------------------------------
(* Subscribe and Unsubscribe.                                              *)

\* A fresh arrival and its token; a schema that is known answers it at once.
\* Only ids that are not valid are created.
Subscribe ==
    LET n == subs + 1
        known == ts.schema # Null
        todo == (IF "participant" \in ts.ids THEN << >>
                 ELSE <<"participant", "topic">>)
                \o (IF known \/ "schema_reader" \in ts.ids THEN << >>
                    ELSE <<"schema_topic", "schema_reader">>)
                \o (IF "reader" \in ts.ids THEN << >> ELSE <<"reader">>)
        fresh == Create(DropResolver(arrival, ts.schema_resolver), n)
    IN /\ Entered(FALSE)
       /\ ts.channel = NoSub
       /\ n \in Arrivals /\ subs' = n
       /\ arrival' = IF known THEN Resolve(fresh, n, ts.schema) ELSE fresh
       /\ ts' = WithIds("Subscribe", todo,
                  [ts EXCEPT !.shared_schema = IF known THEN ts.schema ELSE @,
                             !.schema_resolver = IF known THEN NoArrival ELSE n])
       /\ call' = [op |-> "Subscribe", todo |-> todo, schema |-> Null,
                   bound |-> ConfigBound]
       /\ UNCHANGED <<objectVars, routes, frame, externalVars, ghostVars,
                      waiting, fails, declares>>

\* The channel and the route are set, and the reader is asked for its rows.
SubscribeReturn ==
    /\ call.op = "Subscribe" /\ call.todo = << >> /\ frame = NoFrame
    /\ ts' = [ts EXCEPT !.channel = subs]
    /\ routes' = routes \cup {DataReader}
    /\ agent' = [agent EXCEPT !.reading =
                   IF "reader" \in agent.has THEN @ \cup {DataReader} ELSE @]
    /\ accepted' = << >> /\ handled' = << >>
    /\ call' = NoCall
    /\ UNCHANGED <<objectVars, frame, wire, bus, retained, lost, arrivalVars,
                   counterVars>>

\* Mutant: the known schema goes with the subscription, its shared copy stays.
ForgetSchema == Null

\* Unsubscribe keeps the schema the topic learnt.
KeepSchema == ts.schema

\* Mutant: the schema topic is deleted whoever made it.
DeletesSchemaTopicAlways == "schema_topic" \in ts.ids

\* The schema topic is shared with the publisher side.
DeletesSchemaTopic == "schema_topic" \in ts.ids /\ ~ts.is_publisher

Unsubscribe(inside) ==
    LET gone == {"schema_reader"}
                \cup (IF DeletesSchemaTopic THEN {"schema_topic"} ELSE {})
        live == ts.channel # NoSub
    IN /\ Entered(inside)
       /\ ts # NoTopicState
       /\ arrival' = DropResolver(arrival, ts.schema_resolver)
       /\ ts' = [ts EXCEPT !.schema_resolver = NoArrival,
                           !.ids = @ \ gone,
                           !.schema = KeepSchema,
                           !.channel = NoSub,
                           !.pending = IF live THEN << >> ELSE @]
       /\ routes' = routes \cap (IF live THEN {} ELSE {DataReader})
       /\ agent' = [agent EXCEPT
                      !.has = @ \ (gone \cup IF live THEN {"reader"} ELSE {}),
                      !.reading = @ \cap (IF live THEN {} ELSE {DataReader})]
       /\ UNCHANGED <<objectVars, call, frame, wire, bus, retained, ghostVars,
                      waiting, counterVars>>

------------------------------------------------------------------------------
(* OnTopic, from the pump of the run loop or of a waiting method.          *)

Pumping ==
    /\ life = "up" /\ frame = NoFrame
    /\ \/ call = NoCall
       \/ call.todo # << >> /\ Head(call.todo) # "announce"
    /\ wire # << >>

\* Mutant: the last of the buffered rows is lost.
PendingButLast == SubSeq(ts.pending, 1, Len(ts.pending) - 1)

\* The rows that waited for the schema, moved out for delivery.
PendingTaken == ts.pending

\* A schema sample for a subscription that waits: the arrival is answered,
\* and the rows that came first are delivered from a copy.
OnTopicSchema ==
    LET m == Head(wire)
        n == ts.schema_resolver
    IN /\ Pumping
       /\ m.reader # DataReader /\ m.reader \in routes
       /\ n # NoArrival
       /\ arrival' = Resolve(arrival, n, m.schema)
       /\ ts' = [ts EXCEPT !.schema = m.schema, !.shared_schema = m.schema,
                           !.schema_resolver = NoArrival,
                           !.pending = << >>]
       /\ frame' = IF ts.channel = NoSub \/ PendingTaken = << >> THEN NoFrame
                   ELSE [sub |-> ts.channel, schema |-> m.schema,
                         rows |-> PendingTaken]
       /\ wire' = Tail(wire)
       /\ UNCHANGED <<objectVars, routes, call, agent, bus, retained,
                      ghostVars, waiting, counterVars>>

\* A row of a live subscription: buffered until the schema is known.
OnTopicRow ==
    LET m == Head(wire)
        known == ts.shared_schema # Null
    IN /\ Pumping
       /\ m.reader = DataReader /\ m.reader \in routes
       /\ ts.channel # NoSub
       /\ ts' = [ts EXCEPT !.pending = IF known THEN @ ELSE Append(@, m.row)]
       /\ frame' = IF known
                   THEN [sub |-> ts.channel, schema |-> ts.shared_schema,
                         rows |-> <<m.row>>]
                   ELSE NoFrame
       /\ accepted' = Append(accepted, m.row)
       /\ wire' = Tail(wire)
       /\ UNCHANGED <<objectVars, routes, call, agent, bus, retained, handled,
                      lost, arrivalVars, counterVars>>

\* Everything else: a malformed sample, a reader without a route, no
\* subscription, or an announcement nobody waits for.
OnTopicDrop ==
    /\ Pumping
    /\ wire' = Tail(wire)
    /\ UNCHANGED <<objectVars, ts, routes, call, frame, agent, bus, retained,
                   ghostVars, arrivalVars, counterVars>>

\* DeliveryChannel::Deliver, row by row from the copy.
Deliver ==
    /\ frame.rows # << >>
    /\ handled' = Append(handled, Head(frame.rows))
    /\ frame' = [frame EXCEPT !.rows = Tail(@)]
    /\ UNCHANGED <<objectVars, ts, routes, call, externalVars, accepted, lost,
                   arrivalVars, counterVars>>

Delivered ==
    /\ frame # NoFrame /\ frame.rows = << >>
    /\ frame' = NoFrame
    /\ UNCHANGED <<objectVars, ts, routes, call, externalVars, ghostVars,
                   arrivalVars, counterVars>>

------------------------------------------------------------------------------
(* External: the Agent sends samples of readers it was asked to read, and  *)
(* a remote writer announces and writes.                                   *)

\* A data reader sees the rows of writers whose type name carries its bound.
AgentSendsRow ==
    /\ DataReader \in agent.reading
    /\ \E i \in (agent.pos + 1)..Len(bus) :
         /\ \A j \in (agent.pos + 1)..(i - 1) : bus[j] # agent.bound
         /\ bus[i] = agent.bound
         /\ agent' = [agent EXCEPT !.pos = i]
         /\ wire' = Append(wire, [reader |-> DataReader, row |-> i, schema |-> Null])
    /\ UNCHANGED <<objectVars, ts, routes, call, frame, bus, retained,
                   ghostVars, arrivalVars, counterVars>>

AgentSendsSchema ==
    /\ \E n \in agent.reading \ {DataReader} :
         wire' = Append(wire, [reader |-> n, row |-> 0, schema |-> retained.schema])
    /\ agent.sent < retained.version
    /\ agent' = [agent EXCEPT !.sent = retained.version]
    /\ UNCHANGED <<objectVars, ts, routes, call, frame, bus, retained,
                   ghostVars, arrivalVars, counterVars>>

RemoteAnnounces(s, b) ==
    /\ retained.version < MaxAnnounce
    /\ retained' = [schema |-> s, bound |-> b, version |-> retained.version + 1,
                    local |-> FALSE]
    /\ UNCHANGED <<objectVars, ts, routes, call, frame, agent, wire, bus,
                   ghostVars, arrivalVars, counterVars>>

RemoteWrites(b) ==
    /\ Len(bus) < MaxRow
    /\ bus' = Append(bus, b)
    /\ UNCHANGED <<objectVars, ts, routes, call, frame, agent, wire, retained,
                   ghostVars, arrivalVars, counterVars>>

Next ==
    \/ Construct \/ Destroy \/ Created \/ NotCreated
    \/ \E s \in Schemas \cup {Null}, b \in Bounds \cup {0} : CreateTopic(s, b)
    \/ Announce \/ Declare \/ Publish
    \/ Subscribe \/ SubscribeReturn
    \/ \E inside \in BOOLEAN : Unsubscribe(inside)
    \/ OnTopicSchema \/ OnTopicRow \/ OnTopicDrop \/ Deliver \/ Delivered
    \/ AgentSendsRow \/ AgentSendsSchema
    \/ \E s \in Schemas, b \in Bounds : RemoteAnnounces(s, b)
    \/ \E b \in Bounds : RemoteWrites(b)

Spec == Init /\ [][Next]_vars

------------------------------------------------------------------------------
(* Properties.                                                             *)

\* A live subscription's rows reach its handler in the order OnTopic took
\* them and none is skipped: what is not handled yet is in the delivery that
\* runs, and then in the rows that wait for the schema.  Once Unsubscribe has
\* returned no further row of that subscription is handed out, though OnTopic
\* delivers from a copy that Unsubscribe cannot clear.
DeliveredInOrder ==
    /\ ts.channel # NoSub => accepted = handled \o frame.rows \o ts.pending
    /\ frame.rows # << >> => ts.channel = frame.sub

\* A row is handed out with the schema that the arrival of its subscription
\* reported, whichever earlier subscription or declaration taught the
\* provider that schema.
DeliveredAsReported ==
    frame # NoFrame =>
        arrival[frame.sub] = [status |-> "kOk", schema |-> frame.schema]

\* What a declared publisher relies on stays on the Agent, whatever the
\* subscriber side of the same client creates and deletes; and no row that
\* Publish accepts goes to a writer that does not exist.
PublisherIsBacked ==
    /\ ~lost
    /\ ts.is_publisher => "writer" \in agent.has
    /\ ts.is_publisher /\ ts.declared # Null =>
           {"schema_topic", "schema_writer"} \subseteq agent.has

\* Violated: after Unsubscribe and a second Subscribe the data reader does
\* not exist on the Agent, and the new subscription never gets a row.
SubscribedHasReader == ts.channel # NoSub => "reader" \in agent.has
=============================================================================
