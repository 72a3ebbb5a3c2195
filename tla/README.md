# A TLA+ model of Fletcher

Fletcher carries rows of Arrow data between processes. An application declares
topics and publishes rows through a `Publisher` and receives them through a
`Subscriber`. Both sit on a `PubSubProvider`, the transport: an in-process
loopback, Fast DDS, or Micro XRCE-DDS. On top are Arrow record batches
(`pubsub-arrow`) and a WebSocket gateway with a TypeScript client. Below is a
positional row format with C++ and TypeScript codecs, and beside it a protoc
plugin that generates row classes from `.proto` files.

This directory holds TLA+ modules translated from that code, TLC configurations
that check them on small instances, and TLAPS proofs that hold for every
instance. `PROJECT.json` lists the runs, the source lines each definition
models, the hazards of the code and the properties that cover them, and the
theorems.

    tlc -workers 2 -config MCSubscriber.cfg MCSubscriber
    tlapm SubscriberProof.tla

## 1. The system and its modules

| Part | Module | State | What is hard about it |
|---|---|---|---|
| `Subscriber`, data path | `Subscriber`, `Cancellation`, `SubscriberRefinement` | entry lists, `subscription_topic`, retirements, a gate per id, `provider_subscribed` | cancellation against running handlers, handlers that cancel, subscribe or destroy; teardown against a new Subscribe; failure of the provider |
| `Subscriber`, schema watches | `SchemaWatch` | count, in-progress flag, cached arrival | a count and a provider call that cannot be one atomic step |
| delivery frames | `DeliveryFrame` | a stack and a to-do list per thread | nesting; when owed work runs |
| `SchemaArrival`, `SchemaResolver` | `SchemaArrival` (operators) | status, schema, who waits | lost wake-ups, two tokens, no token |
| loopback provider | `InProcessProvider` | per topic: channel, schema, resolver | re-entry; settling after the unlock |
| `Publisher` | `Publisher` | topic registry | a reservation while the provider works, rollback |
| Fast DDS provider | `FastDdsProvider` | topic, schema channel, reader, watches, schema thread | a reader opened by two parties, a shared channel, failing calls |
| XRCE provider | `XrceProvider` | session, entity ids, pre-schema buffer, the Agent's entities | requests that fail or are answered late; two sides over the same entities |
| `SubscriberArrow`, batcher | `Batcher` | rows, deadline, timer thread, codec table | flush through an unlock, joining the timer |
| gateway session, TypeScript client | `GatewaySession`, `GatewayClient` | strand, write queue; pending requests, subscriptions, sockets | answers without numbers; rows from other threads; broken connections |
| row format, codecs, batch decoder | `RowWire`, `BatchDecoder`, `TsCodec`, composed in `RowJourney` | a row on the wire, a decoder and its columns | two languages, nested types, a failed row inside a batch |
| write buffers | `WriteWindow` | window, position, what is lent | producers that call back or misreport |
| envelope, attachments, frames | `Envelope`, composed in `MessageJourney` | a message in each of its forms | lifetimes of what is pointed into; limits; names |
| registry, documents, gateway start-up | `Deployment` | registry, providers, the process's profile document | what outlives what; which document decides |
| protoc plugin and generated code | `ProtoIr`, `ProtoSchema`, `OptionMetadata`, `GeneratedCode`, composed in `Generator` | the plugin's run, its output, a row object that is kept | several walks over one message that must agree |

`MC*` modules instantiate these for TLC or hold the data of their instances.
Definitions that a comment calls a mutant are variants of the one below them. No
specification uses them; they show that a property can fail.

### Subscriber

Variables keep the names of the members of `Subscriber::Impl`. A section of the
code under `mu` that does not block is one action; `mu` is itself a variable
because Subscribe publishes its entry before its section ends and deliveries read
the entry list without the mutex.

| Code | Actions |
|---|---|
| `Subscribe`, `EnsureProviderSubscription` | SubscribeInsert, EnsureJoin, EnsureRefuse, EnsureWait, EnsureWake, EnsureEnter, ProviderOpen or ProviderThrow, SubscribeReturn; SubscribeRollback and RollbackRelease on failure |
| `Unsubscribe`, `RetireAndDrain` | UnsubscribeGone, UnsubscribeDuplicate, UnsubscribeRemove, Retire or RetireInsideDelivery, Drain, UnsubscribeDecide, ProviderUnsubscribe |
| the dispatch lambda | DeliverBegin, FanoutLoad, FanoutLockGate, FanoutSkip or FanoutInvoke, CallbackReturn, FanoutEnd, DeliverEnd, SweepBarrier, SweepRelease |
| the destructor | DtorBegin, DtorRetire, DtorDrain, DtorCollect, DtorTearDown, DtorEnd |
| a delivery to another Subscriber of the same provider | PeerBegin, PeerEnd |

A thread has two call slots, one for the call made outside a delivery and one for
the call its handler makes. The provider is external and modelled by its contract
in `provider.hpp`: `ProviderKind` says whether it dispatches under an instance
mutex, one delivery per topic at a time, or overlapping; `Pumping` whether it may
deliver from inside its own methods. `freed` and `raced` are history: the ids
whose handler state the application may free, and the topics opened while a
teardown was on its way, a window the conformance README publishes as a limit.

`Cancellation` is the abstract promise: an invocation never starts on a
subscription that is being invoked or has been freed, and nothing is freed while
it runs. `SubscriberRefinement` maps the Subscriber to it.

`SchemaWatch` is the counted watch of one topic over the strictest provider, one
that dispatches under the mutex its methods take.

### Providers and Publisher

`InProcessProvider`: Enter (the door), one action for the locked section
(Redeclare or Declare, PublishNothing or PublishBegin, Subscribe, Unsubscribe),
PublishEnd when the handler returns, AfterUnlock where an arrival is settled with
the mutex released, and Wait, Answered and TimedOut. Both schema carriages are in
one model: `carriage` is chosen in the initial state.

`FastDdsProvider` is one topic. `mu` is a variable with an owner and sharers,
because calls hold it over several steps; `schema_mu` is held over a step only by
the schema thread (`resolving`). Which samples reach a reader and on which thread
a callback runs is Fast DDS's choice. A deletion of a reader waits for its
callback. Any Fast DDS call may fail, up to `MaxFail` times.

`XrceProvider` is one topic. The recursive mutex makes methods serial, but a
method that waits for the Agent pumps the session, so OnTopic runs inside it. An
entity has an id at the client (`ts.ids`) and exists at the Agent (`agent.has`):
the two differ when a request fails or is answered late.

`Publisher` is CreateTopic: CreateTopicFirst reserves the entry, ProviderCreates
or ProviderThrows is the provider's answer, CreateTopicFails takes the entry
back, CreateTopicAgain finds an entry. Several Publishers share the provider.

### Batches, gateway, client

`Batcher` has three threads: the provider's delivery thread, the timer thread and
one of the application. `stk` is what each is inside of, so that a callback may
call Unsubscribe and that call may run the closing callback. Every outcome of
Append and Finish is a choice.

`GatewaySession` runs one handler of its strand at a time, over FIFO connections;
rows come from the Subscriber's threads as posted sends. `GatewayClient` adds the
client's event handlers, its calls, and successive connections.

### Formats

In `RowWire` a row is its bytes, with `ByteBits` bits in a byte, and a value is a
sequence that is empty for null. Types are records; all nested kinds are there.
`BatchDecoder` is the two-pass Append (a validating walk, an appending walk), the
builders with their offset limit, Finish, and reading a batch back. `TsCodec` is
the descriptor and the TypeScript encoder and decoder, which check less than the
C++ ones. In `RowJourney` a row is written by either side, stamped or not, damaged
or not, and appended to a batch.

`WriteWindow` is both write buffers with Append, AppendZeros, PatchU32 and
AppendInPlace, whose producer may call the buffer again and report any length.
`Envelope` and `MessageJourney` take a message from the browser's frame through
the gateway's parser, the topic name, a provider's body (Fast DDS sample or XRCE
sequence) to a delivered message and back to the browser, with attachments that
own or borrow their bytes.

`Deployment` is the registry, the three document parsers over lines of words, the
one profile document of a process, the built-in profiles and their QoS, and the
gateway's `main`.

`Generator` runs the plugin over a pool of descriptors and then lets a publisher
and a subscriber use the generated class: the subscriber keeps one row and decodes
every sample into it, and a sample may be cut short.

## 2. What is checked

Eight runs pass. Each asks one question of a part of the system, and its
properties are stated, with the code they are about, at the end of the modules.

| Run (cfg) | Instance | States | Shows |
|---|---|---|---|
| `subscriber` (MCSubscriber) | 3 threads, 1 topic, 2 ids, overlapping and pumping deliveries | 533 k | agreement with the provider, cancellation is final and without a window, the destructor is silent, the refinement of `Cancellation` |
| `subscriber_live` (MCSubscriber_live) | 2 threads, 2 ids, one options value, provider with an instance mutex | 64 k | waiters hold no lock, every call and every owed retirement ends |
| `loopback` (MCLoopback) | 3 threads, 1 topic, 2 subscriptions, 2 rows, both carriages; and the schema watches | 151 k | schema before data, quiet after cancel, one shape per topic, grants are served, calls return |
| `fastdds` (MCFastDds) | 2 threads, 2 subscriptions, 1 watch, 1 failure | 1.4 M | lifetimes of listener, channel and reader; bounds; no stranded arrival |
| `xrce` (MCXrce) | 2 rows, 2 announcements, 2 declarations, 1 failure | 4.3 M | order and schema of what is delivered, entities behind a publisher |
| `batcher` (MCBatcher) | batches of 2, 3 rows, 2 cancellations | 97 k | every row in one batch or in a reported drop, quiet after Unsubscribe, everything ends |
| `gateway` (MCGateway) | 2 connections, 2 subscriptions, 2 rows, 2 requests | 317 k | answers meet their requests, rows reach the callback that asked, broken sessions end |
| `library` (MCLibrary) | six small machines side by side | 173 k | Publisher registry, row and batch formats, buffers, messages, deployment, generator |

`loopback` and `library` are unions. `part` is chosen in the initial state and
says which machine runs; the others stay where they are. Nothing composes across
`part`. The behaviours are those of the parts, so a property of one part is
checked as if it ran alone.

**Bounds.** Every bound stands in a guard and is a named constant. Two ids,
subscriptions or connections are the smallest number at which one can be confused
with another, replace it or outlive it. The third thread of `subscriber` is a
canceller beside a running handler and a new subscriber. Two rows give reordering
and a row behind the one that fails. The batcher needs more rows than one batch
holds, so that the timer and the row limit race and a row comes after a flush, and
two cancellations, so that one finds the batcher taken. Larger instances
were run once without an error: the Subscriber with two topics (0.7 M) and with
three ids (7.6 M), Fast DDS with three announcements (24.7 M), the gateway with
three requests (2.4 M) and with one connection and three requests (2.6 M).

In the formats a byte has two bits and a length word two bytes. Every limit, carry
and truncation happens, at smaller numbers.

**Deadlock** is checked in the two subscriber runs and in `publisher_created`. In
the others a behaviour ends when its bounded calls are used up, or because the
program does (a plugin, a gateway that shuts down). Where stopping too early would
be wrong, a liveness property says so.

**Symmetry** permutes threads in `subscriber` and `fastdds` and schemas in the two
XRCE runs. No run with liveness uses it.

**Fairness.** Making a further call is never fair; only what has begun goes on.

- Subscriber: threads that can run do run (weak fairness of their own steps).
  Handlers return, and neither the provider's mutex nor a stream of deliveries
  keeps a waiter out for ever (strong fairness of handler returns and of the steps
  inside the provider). The first is what any scheduler gives. The others are what
  the callback contract asks of the application, and what a mutex gives that is
  not unfair for ever.
- Loopback and watches: weak fairness of the steps of calls, waits and handlers
  that have begun, one condition per thread. The bound on the calls keeps others
  from taking a mutex for ever.
- Batcher: weak fairness of the delivery handler, of the timer's loop and its
  deadline, of callbacks returning, and of a cancellation that has begun.
- Gateway: weak fairness of each session's strand, which asio runs as long as the
  gateway does, and of the client's event loop. Frames are delivered in order while
  a connection stands; nothing keeps it from breaking.

**Violations.** Four runs check what the repository says and are refuted by what
the code does. `PROJECT.json` quotes the lines.

- `publisher_created`: CreateTopic may return normally although the topic was
  never created. A second caller finds the reservation of a first one and
  returns; the first one's provider then throws and the entry is taken back.
- `xrce_resubscribe`: Unsubscribe deletes the data reader at the Agent and leaves
  `subscriber_id` valid, so the next Subscribe creates no reader, succeeds, and
  never receives a row. The README asks for exactly this sequence.
- `window_zeros`: AppendZerosSlow relies on resize() for its zeros, which leaves
  the bytes of the old window alone. What an AppendInPlace producer wrote beyond
  the length it reported becomes part of the row.
- `batcher_unsubscribes`: a callback on the delivery thread and one on the timer
  thread both call Unsubscribe. The first joins the timer thread; the other waits
  for the delivery to end. `EverythingEnds` in `batcher` therefore promises the
  return of a cancellation only where no second one waits.


## 3. What is proved

The theorems hold for every value of the constants. Each proof is an inductive
invariant, a lemma per action that keeps it, and a step from the invariant to
the property. The invariants were checked by TLC before they were proved.

| Module | Theorem | States |
|---|---|---|
| `SubscriberProof` | `TypeCorrect` | `Spec => []TypeOK` |
| | `CancellationIsFinal` | `Spec => []FreedNotRunning` |
| | `NoWindowBetweenIdStates` | `Spec => []IdStates` |
| | `NoLockHeldWhileWaiting` | `Spec => []WaitersHoldNothing` |
| | `DestructorIsFinal` | `Spec => []DestroyedMeansSilent` |
| | `SubscriberImplementsCancellation` | `Spec => ImplementsCancellation` |
| | `SubscriberAndProviderAgree` | `Spec => []ProviderAgreement` |
| | `LiveIsAlwaysServed` | `Spec => []LiveIsServed` |
| `InProcessProof` | `DeliveriesAreReported` | `Spec => []DeliveredAsReported` |
| | `CancelledStaysQuiet` | `Spec => []QuietAfterCancel` |
| | `ShapeIsUnique` | `Spec => []OneShapePerTopic` |
| `LibraryProof` | `RegistryStaysBacked` | `Spec => []RegistryBacked` |
| | `SchemaGrantsAreServed` | `WatchSpec => []GrantsAreServed` |
| | `DestructorReleasesWatches` | `WatchSpec => DestroyedReleases` |
| `BatcherProof` | `EveryRowIsAccountedFor` | `Spec => []RowsAccountedFor` |
| | `UnsubscribeIsQuiet` | `Spec => []QuietAfterUnsubscribe` |
| `FastDdsProof` | `ListenerAlwaysOutlivesReader` | `Spec => []ListenerOutlivesReader` |
| | `ChannelIsAlwaysHeld` | `Spec => []ChannelIsHeld` |
| | `SubscribedIsAlwaysServed` | `Spec => []SubscribedIsServed` |
| | `DeclaredBoundAlwaysStands` | `Spec => []DeclaredBoundStands` |
| | `PendingIsAlwaysFed` | `Spec => []PendingIsFed` |
| | `ProcessHasOneDocument` | `DeploySpec => []OneDocumentDecides` |
| `XrceProof` | `RowsAreDeliveredInOrder` | `Spec => []DeliveredInOrder` |
| | `RowsAreDeliveredAsReported` | `Spec => []DeliveredAsReported` |
| | `PublisherIsAlwaysBacked` | `Spec => []PublisherIsBacked` |
| | `WindowKeepsWhatWasWritten` | `~Scratch`: `WindowSpec => []WindowHoldsWhatWasWritten` |

A proof module may serve two components that share nothing: `LibraryProof` has the
Publisher and the schema watches, `FastDdsProof` also has the deployment, and
`XrceProof` the write buffers.

### Subscriber

The proofs assume only `SubscriberAssumption`: the "no thread", "no topic" and "no
options" values are none of the real ones, and the provider is of a known kind.

None of the properties is inductive by itself. `SubscriberInvariant` states the
invariant `IInv` that is. Its core is one chain. A gate is held exactly by the
delivery that stands at its entry (`GateHeld`). So a canceller that finds the gate
free after it set `retired` knows that no thread is in the handler, and that
none will enter it: the id is `Silent`, and stays so. `CallSilent` and
`DeferredRetired` say how far each canceller has come towards that;
`GoneSilent` says that an id in neither map has got there, which is what lets
a late Unsubscribe return at once. `FlightOpen` and `OpenHeld` say that a delivery
in flight belongs to an open topic and that an open topic has somebody who will
close it: from these and `DtorShape` follows what the destructor promises.
`FrameShape`, `SlotShape` and `MuHeld` describe where a thread's stack and its two
call slots can be, and give the lock-order property.

One lemma per action shows that it keeps `IInv`: Unsubscribe and the destructor in
`SubscriberInvariant`, Subscribe in `SubscriberSubscribeProof`, the deliveries in
`SubscriberProof`. The last combines them and adds the refinement: FanoutInvoke is
an Invoke, CallbackReturn a Return, every other step a Free or a stutter.

The agreement with the provider has an invariant of its own, `Agrees`, on top of
`IInv`. `ProviderSide` says what `ProviderAgreement` says and what it needs while a
first Subscribe is between its two sections: the topic that it has opened is still
open unless a teardown raced with it. `raced` is exactly what separates the two
cases, so the theorem also shows that the published window is the only one.
`LiveSide` is `LiveIsServed` with two facts about calls: an idle slot has no
operation, and a canceller's id is no longer live. Most actions touch none of this
and share one lemma each for either side.

### Loopback provider

`InProcessAssumption`: the threads are finitely many, the "none" values are none of
the real ones, and the uncomparable schemas are schemas. The invariant has
three layers above the types. `Handlers`: a thread in a handler owns `mu`, stands
in the provider's delivery frame, and delivers for the current subscription. The
frame is what makes the door refuse its calls; without it a handler could change
the slot it is called from. `Shapes`: the first declaration stands. `Reports`
follows the one token of each arrival: in the slot while nothing is declared
(`Slot`), then with one thread between its unlock and Resolve (`Tokens`), then used.
A subscription without a token in its slot is therefore told its schema, or about
to be, which is what a delivery relies on. `Bounded` counts the Subscribe calls on
their way, so that a new subscription has an arrival of its own.

### Publisher

An entry that no thread is creating has been created at the provider with what it
says (`Backed`), and a thread inside the provider owns the entry it will take back
if that fails (`Owned`). The second part keeps the first: without it a rollback
could remove what another thread's success had put there.

### Schema watches

`SchemaWatchAssumption`: finitely many threads, and `NoOwner` is none of them. One
call at a time is between raising `schema_watch_in_progress` and clearing it, and
in that time nobody holds a grant (`OneBusy`); otherwise the count is the number of
grants (`Counted`). `Knows` says what the call that has the flag knows of the count
and of the provider at each of its steps: the arrival that it was handed is that of
the open watch, because nobody else can close it. `DestroyedReleases` needs also that a thread is inside a delivery
exactly when it owns the provider's mutex (`Dispatching`).

### Batcher

`BatcherAssumption`: a batch has room for a row, and one cancellation is allowed. A thread's stack is a sequence of
labels, and every section of the code replaces its top; the lemmas on `Steps(t, s)`
say once what such a step does to "is inside". `RowsInv` then follows a row: it is
at the bottom of the delivery thread's stack, in the window, in a batch or in a
count, and rows are in order below the last one that arrived. `QuietInv` follows the
one call that takes the batcher (`OneStop`): where that call stands tells whether
the timer thread still has its handle (`Handle`), is gone (`Joined`), and whether
deliveries can begin (`Retired`). The property is what is left when the call
returns (`Returned`). Both hold for any number of rows and cancelling calls,
including the two that wait for each other: that state is stuck, not wrong.

### Fast DDS provider

`FastDdsAssumption`: bounds are positive, arrivals and subscriptions are numbered
from 1, there are finitely many of them, and the "none" values are none of the real
ones. Four facts that no property states carry the proof. `CallsHold`: `mu` is held
by the one thread whose call stands at a step that still needs it, and the channel
it relies on is open. `ReadersHeld`: a data reader and its listener are in one
place, the state or the call that takes them away, and they travel together; that
is why the listener is never freed first. `TokenTells`: an arrival is pending
exactly while its token is unspent in the open channel, and a token spent without
a schema means a failure. `ReaderFed`: what reached the channel's reader is in its
inbox or in the schema thread's hands until the token is spent. `ChannelHeld` is
`ChannelIsHeld` without its premise that nobody holds `mu`, with what is true in
the middle of a call.

### Deployment

`DInv`: at most one document is loaded in a process and it is never replaced; a Fast
DDS provider, also one that is gone, was made of it (`FromLoaded`); every endpoint's
QoS is what the resolvers return for its topic and profile under that document
(`Resolved`). That the built-in profiles can be met and matched is then a statement
about five profiles and the schema channel, which the lemmas `BuiltIn...` prove by
cases. No assumption on names, documents or flags is needed.

### XRCE provider

`XrceAssumption`: as above. `StillCreates` makes the declaration inductive: what a
`CreateTopic` under way needs is on the Agent or still in the list of what it will
create, so when the list is empty the publisher is backed, whatever failed before.
`ArrivalTells` ties the shared schema of the topic to the arrival of the current
subscription from Subscribe's entry on, not only while rows are delivered.
`BufferInPlace` says that rows wait only while the schema is unknown and that a
delivery runs only for the live subscription. The order of rows then rests on a
few lemmas about concatenation (`RowsKeepOrder`, `RowHandedOut`). That
Unsubscribe cannot run inside a delivery, which the door guarantees, is used in
`UnsubscribeStep`.

### Write buffers

`WriteWindowAssumption`: words and chunks are not empty, sizes are numbers. `WindowInv`: while
nothing is lent, the bytes below the position are those meant, and a vector's bytes
above it are zeros (`Blank`). While a window is lent, either somebody called the
buffer in between, which `SameWindow` will notice, or the buffer is as it was, the
producer's bytes apart (`Undisturbed`). The theorem assumes `~Scratch`: producers
report all the bytes they used, or more than there is. Without that `Blank` does not
hold and neither does the property: this is the `window_zeros` violation.

### Only model-checked

- Liveness, in all parts, and that waits end: the prover does not do fairness.
- `AnswersMeetRequests` and `RowsReachCallback` of the gateway and its client: which
  answer meets which request is a matter of filtered and folded queues of frames, and
  what a filter or a fold returns is an induction over data, which the prover cannot
  do.
- `RunsAsConfigured` of the deployment: the parsers fold over lines and flags.
- The row, batch and message formats (`RowsSurviveTheWire`, `BatchHoldsWholeRows`,
  `MessageArrivesWhole`) and the generator: their operators are recursive over types,
  rows and descriptors.

## 4. Seen while modelling

These are behaviours of the code that the models contain, or exclude by a named
condition, and that no property states. They are noted for the reader of the code.

*Batches.* When push_back of a dropped row fails, the drop is counted once too
often. A failed Finish hands on a null batch. A topic without a codec never
reports its drops. Rows that arrive between Stop and the Subscriber's Unsubscribe
are discarded without a report. The timer's batch and the delivery thread's
may overlap, and the timeout is anchored at the previous flush. The row-at-a-time
Subscribe decodes with a codec after the unlock, while Unsubscribe erases it.

*Gateway.* With `EagerReconnect = TRUE`, a client that connects again from its
close handler may have its new socket cleared by the old one's onclose. A write
error leaves `writing_` set. A subscribe answered with an error after it was
recorded stays subscribed. A client that lacks the schema leaves a subscription
at the server. Runtimes that dispatch several messages before microtasks run
could reorder what client.ts:286 awaits.

*Providers.* The Fast DDS listener drains may overlap (provider.hpp:178 serialises
per topic). Oversized rows are dropped in serialize. XRCE: a failed Subscribe
leaves its ids set, a failed CreateTopic its schema; an Agent that restarts loses
every entity; the pre-schema buffer has no limit.

*Formats.* SkipSink takes fixed_size_binary(0) for a length-prefixed value. A null
dense union is appended without the budget check. The TypeScript decoder accepts
rows that are cut or padded; unions, dictionaries and fixed-size binaries cannot be
decoded there; its fixed-size lists are padded where C++ throws; a JavaScript Map
keeps one of two equal keys. ParseEnvelopeBody accepts a body that ends behind the
row, DeserializeEnvelope ignores what follows. Sizes are narrowed to 32 bits in
the envelope.

*Deployment.* `--port` and `--domain-id` are narrowed, not refused. A refused Fast
DDS document stays the process's document. A topic named like a built-in profile
picks that profile up.

*Generator.* C++ topic segments keep the package's dots, TypeScript splits them.
Generated code never calls VerifyFullyConsumed. Nullable lists and maps are never
encoded null. `repeated` Timestamps and wrappers become structs. A flattened
message as a map value, a repeated wrapper of a map and a nullable nested list
yield code that names what is not generated. A field of type
google.protobuf.Struct makes its message recursive, and it is skipped. A nested
message that uses its outer message's enum is emitted first. A metadata rule on a
repeated extension ends the plugin (`Died` in OptionMetadata).

## 5. Not modelled

- `recordbatch_accessor_emitter.cpp`: about 2600 lines that print accessor
  classes. They keep no state, and what a printed accessor reads is the batch
  layout that `BatchDecoder` has.
- `publisher_arrow.cpp` and the row-at-a-time `SubscriberArrow::Subscribe`: loops
  over the codec and the calls modelled in `Publisher` and `Subscriber`.
- `schema_ipc.cpp`, `owned_schema.hpp`, `crs_utils.cpp`: conversions by the Arrow
  and PROJ libraries. A schema is a value here, and `Opaque` holds those the IPC
  writer rejects.
- `status_listener.cpp`, `participant_listener.hpp`: they only log.
- `LoanableSampleWriter`, `LoanedDataReaderListener`: compiled, never installed.
- The gateway's accept loop and shutdown beyond a session's end, and the frame
  validators of `ws-protocol.ts`.
- Time: a timeout may pass whenever somebody waits. The clamp of long timeouts
  (schema_arrival.cpp:99) and the wrap-around of XRCE's 16-bit object ids are
  arithmetic on the clock and on an id that no bound here reaches.
- Memory exhaustion, and destruction of an object that another thread still calls,
  which the documentation forbids, except where the Subscriber's destructor
  synchronises with it.
- Build files, CI, examples, tests and benchmarks.
