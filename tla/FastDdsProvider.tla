--------------------------- MODULE FastDdsProvider ---------------------------
(***************************************************************************)
(* FastDDSPubSubProvider (fastdds-pubsub-provider/src), seen through one   *)
(* topic: a publishing side and a subscribing side that share a data topic *)
(* of one type per participant, the __schema channel, which data           *)
(* subscriptions and schema watches share, and the one schema thread.      *)
(*                                                                         *)
(* Two locks.  mu is exclusive for a method and shared for Publish; it is  *)
(* held over several steps, so it is a variable.  schema_mu is inside mu   *)
(* and never held over a step by a method; the schema thread holds it from *)
(* the opening of a data reader to the settling of the arrival             *)
(* (resolving).  Readers are deleted after mu is released.                 *)
(*                                                                         *)
(* A schema reader and its StatusCondition are named by the arrival of the *)
(* channel they feed, a data reader by its listener, which is the          *)
(* subscription.  External: Fast DDS (which samples reach a reader, on     *)
(* which thread a callback runs, what a deletion waits for) and the remote *)
(* writers.                                                                *)
(***************************************************************************)
EXTENDS SchemaArrival, Integers, FiniteSets

CONSTANTS
    Threads, NoThread,  \* threads that call the provider or run its callbacks
    Bounds, OwnBound,   \* payload bounds; ProviderConfig::max_payload_bytes
    Announcements,      \* what remote writers may announce on __schema
    Garbled, NoBound,   \* a schema that will not decode; no usable attachment
    MaxSub,             \* bound on the data subscriptions made
    MaxWatch,           \* bound on the schema watches held
    MaxFail             \* bound on the Fast DDS calls that fail

ASSUME FastDdsAssumption ==
    /\ Bounds \subseteq Nat \ {0} /\ OwnBound \in Bounds /\ NoBound \notin Bounds
    /\ {MaxSub, MaxWatch, MaxFail} \subseteq Nat
    /\ IsFiniteSet(Arrivals) /\ Arrivals = 1..Cardinality(Arrivals)
    /\ NoArrival = 0 /\ Null \notin Schemas
    /\ Garbled \notin Schemas \cup {Null} /\ NoThread \notin Threads
    /\ Announcements \subseteq [schema : Schemas \cup {Garbled},
                                bound : Bounds \cup {NoBound}]

VARIABLES
    alive,          \* the object is constructed and not destroyed
    mu,             \* owner of mu, and the threads that share it
    topic,          \* TopicState::data_topic (its type) and schema_topic
    published,      \* TopicState::Publication
    subscribed,     \* TopicState::Subscription
    registry,       \* the conditions in schema_registry
    active,         \* the conditions the schema thread woke up for
    resolving,      \* the schema thread holds schema_mu to settle the arrival
    call,           \* the call each thread makes
    dds,            \* Fast DDS: schema readers, their sample, the wait set
    data,           \* Fast DDS: the type of each data reader, 0 if none
    running,        \* the subscription whose callback each thread runs
    announced,      \* what the writers of __schema retain
    channels, subs, fails   \* counters

threadVars == <<registry, active, resolving>>
externalVars == <<dds, data, running, announced>>
counterVars == <<channels, subs, fails>>
vars == <<alive, mu, topic, published, subscribed, threadVars, call,
          externalVars, counterVars, arrival, waiting>>

Subs == 1..MaxSub
NoSub == 0
NoReader == NoArrival
NoSample == [schema |-> Null, bound |-> NoBound]
NoCall == [op |-> "none", pc |-> "idle", schema_reader |-> NoReader,
           data_reader |-> NoSub, listener |-> NoSub]
NotPublished == [data_writer |-> FALSE, schema_writer |-> FALSE,
                 schema_ipc |-> Null, payload_bytes |-> 0]
NotSubscribed == [schema_reader |-> NoReader, arrival |-> NoArrival,
                  resolver |-> NoArrival, schema |-> Null, payload_bytes |-> 0,
                  watches |-> 0, data_reader |-> NoSub, data_listener |-> NoSub]

\* The constructor: participant, schema type, publisher, subscriber, and the
\* schema thread, which waits on its stop guard alone.
Init ==
    /\ alive = TRUE
    /\ mu = [owner |-> NoThread, shared |-> {}]
    /\ topic = [data |-> 0, schema |-> FALSE]
    /\ published = NotPublished /\ subscribed = NotSubscribed
    /\ registry = {} /\ active = {} /\ resolving = NoArrival
    /\ call = [th \in Threads |-> NoCall]
    /\ dds = [readers |-> {}, attached |-> {},
              inbox |-> [c \in Arrivals |-> NoSample],
              seen |-> [c \in Arrivals |-> {}]]
    /\ data = [s \in Subs |-> 0]
    /\ running = [th \in Threads |-> NoSub]
    /\ announced = {}
    /\ channels = 0 /\ subs = 0 /\ fails = 0
    /\ ArrivalInit

------------------------------------------------------------------------------
\* RefuseIfInsideDeliveryOn, before any lock.
Refused(th) == running[th] # NoSub

\* A method is past its door and takes mu, alone.
Entered(th) ==
    /\ alive /\ call[th] = NoCall /\ ~Refused(th)
    /\ mu = [owner |-> NoThread, shared |-> {}]

\* schema_mu is free.
SchemaMuFree == resolving = NoArrival

Goto(th, op, pc) == [call EXCEPT ![th] = [@ EXCEPT !.op = op, !.pc = pc]]
Locked(th) == mu' = [mu EXCEPT !.owner = th]
Unlocked == mu' = [mu EXCEPT !.owner = NoThread]

\* A Fast DDS call may fail, within the bound.
MayFail == fails < MaxFail /\ fails' = fails + 1

\* delete_topic fails while an endpoint uses the topic.
DataTopicUnused == ~published.data_writer /\ \A s \in Subs : data[s] = 0

------------------------------------------------------------------------------
(* The publishing side.                                                    *)

Wanted(asked) == IF asked = 0 THEN OwnBound ELSE asked

\* Mutant: a re-declaration takes the bound it resolves for itself.
BoundOverwritten(asked) == Wanted(asked)

\* published.payload_bytes is set when the writer is created, and stays.
BoundKept(asked) ==
    IF published.data_writer THEN published.payload_bytes ELSE Wanted(asked)

\* Re-declared at another bound, or the data topic is held at another type by
\* a live subscription (kInvalidArgument), or the old topic cannot go yet.
DeclareRefused(asked) ==
    LET other == topic.data \notin {0, Wanted(asked)}
    IN IF published.data_writer
       THEN asked \notin {0, published.payload_bytes}
       ELSE other /\ (subscribed.data_listener # NoSub \/ ~DataTopicUnused)

\* The data writer exists at the end, and the announcement is out or was never
\* asked for; a second schema is a conflict; a write that fails takes its
\* schema writer with it, so a retry starts over.
CreateTopic(th, x, asked) ==
    LET declared == [published EXCEPT !.data_writer = TRUE,
                                      !.payload_bytes = BoundKept(asked)]
    IN /\ Entered(th) /\ SchemaMuFree
       /\ ~DeclareRefused(asked)
       /\ topic' = [data |-> IF published.data_writer THEN topic.data
                             ELSE Wanted(asked),
                    schema |-> topic.schema \/ x # Null]
       /\ \/ /\ x = Null \/ published.schema_writer
             /\ published' = declared
             /\ UNCHANGED <<announced, fails>>
          \/ /\ x # Null /\ ~published.schema_writer
             /\ published' = [declared EXCEPT !.schema_writer = TRUE,
                                              !.schema_ipc = x]
             /\ announced' = announced
                    \cup {[schema |-> x, bound |-> declared.payload_bytes]}
             /\ UNCHANGED fails
          \/ /\ x # Null /\ ~published.schema_writer
             /\ published' = declared /\ MayFail
             /\ UNCHANGED announced
       /\ UNCHANGED <<alive, mu, subscribed, threadVars, call, dds, data,
                      running, channels, subs, arrival, waiting>>

\* create_datawriter fails: the data topic stays behind, at this type.
CreateTopicFails(th, asked) ==
    /\ Entered(th) /\ SchemaMuFree
    /\ ~published.data_writer /\ ~DeclareRefused(asked)
    /\ topic' = [topic EXCEPT !.data = Wanted(asked)] /\ MayFail
    /\ UNCHANGED <<alive, mu, published, subscribed, threadVars, call,
                   externalVars, channels, subs, arrival, waiting>>

\* Publish shares mu for the whole write, which delivers to this instance's
\* own reader on the calling thread.
Publish(th) ==
    /\ alive /\ call[th] = NoCall /\ ~Refused(th) /\ mu.owner = NoThread
    /\ published.data_writer
    /\ \E s \in Subs : /\ data[s] = topic.data
                       /\ running' = [running EXCEPT ![th] = s]
    /\ mu' = [mu EXCEPT !.shared = @ \cup {th}]
    /\ call' = Goto(th, "Publish", "write")
    /\ UNCHANGED <<alive, topic, published, subscribed, threadVars, dds, data,
                   announced, counterVars, arrival, waiting>>

\* The write returns, after the callback.
PublishReturn(th) ==
    /\ call[th].op = "Publish" /\ running[th] = NoSub
    /\ mu' = [mu EXCEPT !.shared = @ \ {th}]
    /\ call' = [call EXCEPT ![th] = NoCall]
    /\ UNCHANGED <<alive, topic, published, subscribed, threadVars,
                   externalVars, counterVars, arrival, waiting>>

------------------------------------------------------------------------------
(* The subscribing side.                                                   *)

ChannelOpen == subscribed.schema_reader # NoReader \/ subscribed.schema # Null

\* EnsureSchemaChannel: open already; answered from this instance's own
\* announcement; or a new schema reader, registered before it is attached.
EnsureSchemaChannel(th, op) ==
    LET n == channels + 1
        fresh == [subscribed EXCEPT !.arrival = n]
    IN \/ /\ ChannelOpen
          /\ call' = Goto(th, op, "open") /\ Locked(th)
          /\ UNCHANGED <<topic, subscribed, registry, dds, channels, fails,
                         arrival>>
       \/ /\ ~ChannelOpen /\ n \in Arrivals /\ published.schema_ipc # Null
          /\ subscribed' = [fresh EXCEPT !.schema = published.schema_ipc,
                                !.payload_bytes = published.payload_bytes]
          /\ arrival' = Resolve(Create(arrival, n), n, published.schema_ipc)
          /\ channels' = n
          /\ call' = Goto(th, op, "open") /\ Locked(th)
          /\ UNCHANGED <<topic, registry, dds, fails>>
       \/ /\ ~ChannelOpen /\ n \in Arrivals /\ published.schema_ipc = Null
          /\ subscribed' = [fresh EXCEPT !.schema_reader = n, !.resolver = n]
          /\ arrival' = Create(arrival, n)
          /\ registry' = registry \cup {n}
          /\ dds' = [dds EXCEPT !.readers = @ \cup {n}]
          /\ topic' = [topic EXCEPT !.schema = TRUE]
          /\ channels' = n
          /\ call' = Goto(th, op, "attach") /\ Locked(th)
          /\ UNCHANGED fails
       \/ /\ ~ChannelOpen /\ published.schema_ipc = Null
          /\ topic' = [topic EXCEPT !.schema = TRUE] /\ MayFail
          /\ UNCHANGED <<mu, subscribed, registry, dds, call, channels, arrival>>

Attach(th) ==
    /\ call[th].pc = "attach"
    /\ dds' = [dds EXCEPT !.attached = @ \cup {subscribed.schema_reader}]
    /\ call' = Goto(th, call[th].op, "open")
    /\ UNCHANGED <<alive, mu, topic, published, subscribed, threadVars, data,
                   running, announced, counterVars, arrival, waiting>>

\* OpenDataReader for bound b: a data topic left at another type is replaced,
\* unless this instance publishes on it.
Retypes(b) == topic.data \notin {0, b} /\ ~published.data_writer
Openable(b) == Retypes(b) => DataTopicUnused
OpenedTopic(b) ==
    IF topic.data = 0 \/ Retypes(b) THEN [topic EXCEPT !.data = b] ELSE topic
OpenDataReader(s, b) ==
    /\ Openable(b)
    /\ topic' = OpenedTopic(b)
    /\ data' = [data EXCEPT ![s] = OpenedTopic(b).data]
    /\ UNCHANGED fails
OpenFails(b) ==
    \/ ~Openable(b) /\ UNCHANGED <<topic, data, fails>>
    \/ Openable(b) /\ topic' = OpenedTopic(b) /\ MayFail /\ UNCHANGED data

\* SubscribeWithOptions, up to the schema channel.
Subscribe(th) ==
    /\ Entered(th) /\ SchemaMuFree
    /\ subscribed.data_listener = NoSub /\ subs < MaxSub
    /\ EnsureSchemaChannel(th, "Subscribe")
    /\ UNCHANGED <<alive, published, active, resolving, data, running,
                   announced, subs, waiting>>

\* Under schema_mu: the listener is installed, and its reader opened at once
\* if the schema is known; a reader that does not open ends the subscription.
Listen(th) ==
    LET s == subs + 1
        listening == [subscribed EXCEPT !.data_listener = s]
    IN /\ call[th].op = "Subscribe" /\ call[th].pc = "open" /\ SchemaMuFree
       /\ subs' = s
       /\ \/ /\ subscribed.schema = Null
             /\ subscribed' = listening
             /\ call' = [call EXCEPT ![th] = NoCall] /\ Unlocked
             /\ UNCHANGED <<topic, data, fails>>
          \/ /\ subscribed.schema # Null
             /\ OpenDataReader(s, subscribed.payload_bytes)
             /\ subscribed' = [listening EXCEPT !.data_reader = s]
             /\ call' = [call EXCEPT ![th] = NoCall] /\ Unlocked
          \/ /\ subscribed.schema # Null
             /\ OpenFails(subscribed.payload_bytes)
             /\ call' = Goto(th, "Subscribe", "close")
             /\ UNCHANGED <<mu, subscribed>>
       /\ UNCHANGED <<alive, published, threadVars, dds, running, announced,
                      channels, arrival, waiting>>

\* Mutant: the listener is destroyed where it is taken out of the state.
ListenerDropped(s) == NoSub

\* The listener moves into the call, and lives until both readers are gone.
ListenerKept(s) == s

\* Unsubscribe takes reader and listener out of the state under schema_mu.
\* Without a subscription it changes nothing.
Unsubscribe(th) ==
    /\ Entered(th) /\ SchemaMuFree /\ subscribed.data_listener # NoSub
    /\ subscribed' = [subscribed EXCEPT !.data_reader = NoSub,
                                        !.data_listener = NoSub]
    /\ call' = [call EXCEPT ![th] =
          [op |-> "Unsubscribe", pc |-> "close", schema_reader |-> NoReader,
           data_reader |-> subscribed.data_reader,
           listener |-> ListenerKept(subscribed.data_listener)]]
    /\ Locked(th)
    /\ UNCHANGED <<alive, topic, published, threadVars, externalVars,
                   counterVars, arrival, waiting>>

\* Mutant: the token is assigned over, which settles nothing.
TokenOverwritten(arr, token) == arr

\* ~SchemaResolver of the token that CloseSchemaSide moves out.
TokenDies(arr, token) == DropResolver(arr, token)

\* CloseSchemaSide of a channel with `watches` watches left.
CloseSchemaSide(watches) ==
    /\ SchemaMuFree
    /\ registry' = registry \ {subscribed.schema_reader}
    /\ subscribed' = [subscribed EXCEPT !.schema_reader = NoReader,
                         !.schema = Null, !.payload_bytes = 0,
                         !.resolver = NoArrival, !.watches = watches]
    /\ arrival' = TokenDies(arrival, subscribed.resolver)

\* The end of Unsubscribe, and of a Subscribe whose reader did not open: the
\* schema side goes with its last user, then mu is released.
CloseUnwatched(th) ==
    /\ call[th].pc = "close"
    /\ IF subscribed.watches = 0
       THEN CloseSchemaSide(0)
       ELSE UNCHANGED <<registry, subscribed, arrival>>
    /\ call' = [call EXCEPT ![th].pc = "delete",
                   ![th].schema_reader = IF subscribed.watches = 0
                                         THEN subscribed.schema_reader ELSE @]
    /\ Unlocked
    /\ UNCHANGED <<alive, topic, published, active, resolving, externalVars,
                   counterVars, waiting>>

\* detach_condition and delete_datareader of the schema reader.
DeleteSchemaReader(th) ==
    LET c == call[th].schema_reader
    IN /\ call[th].pc = "delete" /\ c # NoReader
       /\ dds' = [dds EXCEPT !.readers = @ \ {c}, !.attached = @ \ {c},
                             !.inbox[c] = NoSample, !.seen[c] = {}]
       /\ call' = [call EXCEPT ![th].schema_reader = NoReader]
       /\ UNCHANGED <<alive, mu, topic, published, subscribed, threadVars,
                      data, running, announced, counterVars, arrival, waiting>>

\* delete_datareader waits for the callbacks; then the listener dies.
DeleteDataReader(th) ==
    LET s == call[th].data_reader
    IN /\ call[th].pc = "delete" /\ call[th].schema_reader = NoReader
       /\ s # NoSub => \A r \in Threads : running[r] # s
       /\ data' = [i \in Subs |-> IF i = s THEN 0 ELSE data[i]]
       /\ call' = [call EXCEPT ![th] = NoCall]
       /\ UNCHANGED <<alive, mu, topic, published, subscribed, threadVars, dds,
                      running, announced, counterVars, arrival, waiting>>

SubscribeSchema(th) ==
    /\ Entered(th) /\ SchemaMuFree /\ subscribed.watches < MaxWatch
    /\ EnsureSchemaChannel(th, "SubscribeSchema")
    /\ UNCHANGED <<alive, published, active, resolving, data, running,
                   announced, subs, waiting>>

\* The watch is counted once the channel exists.
CountWatch(th) ==
    /\ call[th].op = "SubscribeSchema" /\ call[th].pc = "open"
    /\ subscribed' = [subscribed EXCEPT !.watches = @ + 1]
    /\ call' = [call EXCEPT ![th] = NoCall] /\ Unlocked
    /\ UNCHANGED <<alive, topic, published, threadVars, externalVars,
                   counterVars, arrival, waiting>>

\* Mutant: the last watch takes the channel from a live subscription.
LastWatchCloses == subscribed.watches = 1

\* A data subscription keeps the channel it shares, reader open or not.
WatchWasLast == subscribed.watches = 1 /\ subscribed.data_listener = NoSub

UnsubscribeSchema(th) ==
    /\ Entered(th) /\ subscribed.watches > 0
    /\ \/ /\ WatchWasLast /\ CloseSchemaSide(0)
          /\ call' = [call EXCEPT ![th] = [NoCall EXCEPT
                !.op = "UnsubscribeSchema", !.pc = "delete",
                !.schema_reader = subscribed.schema_reader]]
       \/ /\ ~WatchWasLast
          /\ subscribed' = [subscribed EXCEPT !.watches = @ - 1]
          /\ UNCHANGED <<call, registry, arrival>>
    /\ UNCHANGED <<alive, mu, topic, published, active, resolving,
                   externalVars, counterVars, waiting>>

------------------------------------------------------------------------------
(* The schema thread.                                                      *)

\* The wait set returns every condition that is attached and triggered.
WaitReturns ==
    /\ alive /\ active = {} /\ SchemaMuFree
    /\ active' = {c \in dds.attached : dds.inbox[c] # NoSample}
    /\ active' # {}
    /\ UNCHANGED <<alive, mu, topic, published, subscribed, registry,
                   resolving, call, externalVars, counterVars, arrival, waiting>>

\* The topic was torn down between the wake and the lock.
StaleWake ==
    /\ alive /\ active # {} /\ active \cap registry = {} /\ SchemaMuFree
    /\ active' = {}
    /\ UNCHANGED <<alive, mu, topic, published, subscribed, registry,
                   resolving, call, externalVars, counterVars, arrival, waiting>>

Usable(m) == m.schema # Garbled /\ m.bound # NoBound

\* Mutant: only Subscribe opens data readers.
NeverOpens == FALSE

\* A subscription is waiting for its reader.
OpensReader ==
    subscribed.data_listener # NoSub /\ subscribed.data_reader = NoSub

\* One pass under schema_mu: the sample of the registered reader is taken.
\* The first usable one is recorded and opens the reader before the arrival
\* is settled; an earlier failure consumed the token.
HandleSchema ==
    LET c == subscribed.schema_reader
        m == dds.inbox[c]
        known == [subscribed EXCEPT !.schema = m.schema,
                                    !.payload_bytes = m.bound]
        s == subscribed.data_listener
    IN /\ alive /\ active \cap registry # {} /\ SchemaMuFree
       /\ active' = {}
       /\ dds' = [dds EXCEPT !.inbox[c] = NoSample]
       /\ \/ /\ subscribed.schema # Null
             /\ UNCHANGED <<topic, subscribed, data, resolving, fails, arrival>>
          \/ /\ subscribed.schema = Null /\ ~Usable(m)
             /\ subscribed' = [subscribed EXCEPT !.resolver = NoArrival]
             /\ arrival' = Fail(arrival, subscribed.resolver, "kInternal")
             /\ UNCHANGED <<topic, data, resolving, fails>>
          \/ /\ subscribed.schema = Null /\ Usable(m) /\ ~OpensReader
             /\ subscribed' = known /\ resolving' = c
             /\ UNCHANGED <<topic, data, fails, arrival>>
          \/ /\ subscribed.schema = Null /\ Usable(m) /\ OpensReader
             /\ OpenDataReader(s, m.bound)
             /\ subscribed' = [known EXCEPT !.data_reader = s]
             /\ resolving' = c /\ UNCHANGED arrival
          \/ /\ subscribed.schema = Null /\ Usable(m) /\ OpensReader
             /\ OpenFails(m.bound)
             /\ subscribed' = [known EXCEPT !.resolver = NoArrival]
             /\ arrival' = Fail(arrival, subscribed.resolver,
                                "kTransportFailure")
             /\ UNCHANGED resolving
       /\ UNCHANGED <<alive, mu, published, registry, call, running, announced,
                      channels, subs, waiting>>

\* Resolve, if the token was not consumed by an earlier failure.
SettleArrival ==
    /\ resolving # NoArrival
    /\ arrival' = IF subscribed.resolver = NoArrival THEN arrival
                  ELSE Resolve(arrival, subscribed.resolver, subscribed.schema)
    /\ subscribed' = [subscribed EXCEPT !.resolver = NoArrival]
    /\ resolving' = NoArrival
    /\ UNCHANGED <<alive, mu, topic, published, registry, active, call,
                   externalVars, counterVars, waiting>>

\* ~Impl: nobody calls, the schema thread is joined between two passes, and
\* the topic's state dies with its token.
Destroy ==
    /\ alive /\ \A th \in Threads : call[th] = NoCall /\ running[th] = NoSub
    /\ SchemaMuFree
    /\ alive' = FALSE
    /\ arrival' = DropResolver(arrival, subscribed.resolver)
    /\ topic' = [data |-> 0, schema |-> FALSE]
    /\ published' = NotPublished /\ subscribed' = NotSubscribed
    /\ registry' = {} /\ active' = {}
    /\ dds' = [dds EXCEPT !.readers = {}, !.attached = {}]
    /\ data' = [s \in Subs |-> 0]
    /\ UNCHANGED <<mu, resolving, call, running, announced, counterVars, waiting>>

------------------------------------------------------------------------------
(* External: Fast DDS and the remote writers.                              *)

RemoteAnnounces(n) ==
    /\ n \notin announced
    /\ announced' = announced \cup {n}
    /\ UNCHANGED <<alive, mu, topic, published, subscribed, threadVars, call,
                   dds, data, running, counterVars, arrival, waiting>>

\* A retained announcement reaches a schema reader, whose history is one deep.
Discover(c, n) ==
    /\ c \in dds.readers /\ n \notin dds.seen[c]
    /\ dds' = [dds EXCEPT !.inbox[c] = n, !.seen[c] = @ \cup {n}]
    /\ UNCHANGED <<alive, mu, topic, published, subscribed, threadVars, call,
                   data, running, announced, counterVars, arrival, waiting>>

\* A row of a writer with the reader's type arrives on some Fast DDS thread,
\* also while another thread still drains the same reader.
RowArrives(th) ==
    /\ call[th] = NoCall /\ running[th] = NoSub
    /\ \E s \in Subs : /\ \E n \in announced : n.bound = data[s]
                       /\ running' = [running EXCEPT ![th] = s]
    /\ UNCHANGED <<alive, mu, topic, published, subscribed, threadVars, call,
                   dds, data, announced, counterVars, arrival, waiting>>

CallbackReturns(th) ==
    /\ running[th] # NoSub
    /\ running' = [running EXCEPT ![th] = NoSub]
    /\ UNCHANGED <<alive, mu, topic, published, subscribed, threadVars, call,
                   dds, data, announced, counterVars, arrival, waiting>>

------------------------------------------------------------------------------
Method(th) ==
    \/ \E x \in Schemas \cup {Null}, asked \in Bounds \cup {0} :
          CreateTopic(th, x, asked)
    \/ \E asked \in Bounds \cup {0} : CreateTopicFails(th, asked)
    \/ Publish(th) \/ Subscribe(th) \/ Unsubscribe(th)
    \/ SubscribeSchema(th) \/ UnsubscribeSchema(th)

\* What a method still does once it has mu, or has released it.
Continue(th) ==
    \/ Attach(th) \/ Listen(th) \/ CountWatch(th) \/ CloseUnwatched(th)
    \/ DeleteSchemaReader(th) \/ DeleteDataReader(th) \/ PublishReturn(th)

SchemaLoop == WaitReturns \/ StaleWake \/ HandleSchema \/ SettleArrival

External ==
    \/ \E n \in Announcements : RemoteAnnounces(n)
    \/ \E c \in Arrivals : \E n \in announced : Discover(c, n)
    \/ \E th \in Threads : RowArrives(th) \/ CallbackReturns(th)

Next ==
    \/ \E th \in Threads : Method(th) \/ Continue(th)
    \/ SchemaLoop \/ Destroy \/ External

Spec == Init /\ [][Next]_vars

------------------------------------------------------------------------------
(* Properties.                                                             *)

\* A data reader, which may call its listener at any moment, never outlives
\* it: not while Unsubscribe takes both out of the state, not while
\* delete_datareader waits, not when the schema thread opens it late.
ListenerOutlivesReader ==
    \A s \in Subs : data[s] # 0 =>
        \/ subscribed.data_listener = s
        \/ \E th \in Threads : call[th].listener = s

\* Between calls the schema channel is open exactly as long as a data
\* subscription or a watch uses it, whichever leaves first and whether or not
\* an open failed; and the schema thread knows exactly its reader.
ChannelIsHeld ==
    mu.owner = NoThread =>
        /\ ChannelOpen <=> \/ subscribed.data_listener # NoSub
                           \/ subscribed.watches > 0
        /\ registry = {subscribed.schema_reader} \ {NoReader}
        /\ registry \subseteq dds.readers

\* A subscription whose schema is known has its data reader, whichever of
\* Subscribe and the schema thread got there second, or its arrival failed.
SubscribedIsServed ==
    subscribed.data_listener # NoSub /\ subscribed.schema # Null =>
        \/ subscribed.data_reader = subscribed.data_listener
        \/ arrival[subscribed.arrival].status
              \in {"kInternal", "kTransportFailure"}

\* This instance's data writer, the data topic and the announcement agree on
\* the bound, whatever re-declarations, subscriptions and failures came.
DeclaredBoundStands ==
    published.data_writer =>
        /\ topic.data = published.payload_bytes
        /\ published.schema_writer =>
              [schema |-> published.schema_ipc,
               bound |-> published.payload_bytes] \in announced

\* Nobody waits in vain: a pending arrival is the open channel's, its token
\* unspent, its reader registered and in the wait set or about to be, and an
\* announcement that reached the reader is still to be read or being settled.
PendingIsFed ==
    \A a \in Arrivals : IsPending(a) =>
        /\ subscribed.resolver = a /\ a \in registry \cap dds.readers
        /\ a \in dds.attached \/ \E th \in Threads : call[th].pc = "attach"
        /\ dds.seen[a] # {} => dds.inbox[a] # NoSample \/ resolving = a
==============================================================================
