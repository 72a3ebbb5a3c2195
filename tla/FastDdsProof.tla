---------------------------- MODULE FastDdsProof ----------------------------
(***************************************************************************)
(* Proofs about FastDdsProvider: its safety invariants hold for any number *)
(* of threads, schemas, bounds, subscriptions, channels and failures.      *)
(*                                                                         *)
(* None of them is inductive alone.  IInv adds who holds mu and at which   *)
(* step (CallsHold), where a reader and its listener are while a call      *)
(* takes them away (ReadersHeld), and what the token says about its        *)
(* arrival (TokenTells); one lemma per action shows that it is preserved.  *)
(*                                                                         *)
(* And OneDocumentDecides of Deployment, for any providers a process makes *)
(* of any documents.  DInv says where each Fast DDS provider has its       *)
(* document from, and how each endpoint came by its QoS.                   *)
(***************************************************************************)
EXTENDS FastDdsProvider, Deployment, FiniteSetTheorems, TLAPS

Samples == [schema : Schemas \cup {Garbled}, bound : Bounds \cup {NoBound}]

Lock == [owner : Threads \cup {NoThread}, shared : SUBSET Threads]
Topic == [data : Bounds \cup {0}, schema : BOOLEAN]
Publication == [data_writer : BOOLEAN, schema_writer : BOOLEAN,
                schema_ipc : Schemas \cup {Null}, payload_bytes : Bounds \cup {0}]
Subscription == [schema_reader : Arrivals \cup {NoReader},
                 arrival : Arrivals \cup {NoArrival},
                 resolver : Arrivals \cup {NoArrival},
                 schema : Schemas \cup {Null},
                 payload_bytes : Bounds \cup {0}, watches : Nat,
                 data_reader : Subs \cup {NoSub},
                 data_listener : Subs \cup {NoSub}]
Operations == {"none", "Publish", "Subscribe", "Unsubscribe",
               "SubscribeSchema", "UnsubscribeSchema"}
Steps == {"idle", "write", "attach", "open", "close", "delete"}
Calls == [op : Operations, pc : Steps, schema_reader : Arrivals \cup {NoReader},
          data_reader : Subs \cup {NoSub}, listener : Subs \cup {NoSub}]
Middleware == [readers : SUBSET Arrivals, attached : SUBSET Arrivals,
               inbox : [Arrivals -> Samples \cup {NoSample}],
               seen : [Arrivals -> SUBSET Samples]]
Answers == [status : Outcomes \cup {"unmade", "kPending"},
            schema : Schemas \cup {Null}]

TypeOK ==
    /\ mu \in Lock /\ topic \in Topic
    /\ published \in Publication
    /\ subscribed \in Subscription
    /\ resolving \in Arrivals \cup {NoArrival}
    /\ call \in [Threads -> Calls]
    /\ dds \in Middleware
    /\ data \in [Subs -> Bounds \cup {0}]
    /\ announced \subseteq Samples
    /\ channels \in Nat /\ subs \in Nat
    /\ arrival \in [Arrivals -> Answers]

\* The steps at which a method still holds mu.
Holding == {"attach", "open", "close"}

\* mu is held by the thread whose call is at such a step, and a call that
\* holds it relies on the channel and on the listener's place.
CallHolds(th) ==
    /\ call[th].pc \in Holding <=> mu.owner = th
    /\ call[th].pc \in Holding =>
          ChannelOpen /\ call[th].schema_reader = NoReader
    /\ call[th].pc \in {"attach", "open"} =>
          call[th].op \in {"Subscribe", "SubscribeSchema"}
    /\ call[th].op = "Publish" => call[th].pc = "write"
    /\ call[th].pc = "attach" => subscribed.schema_reader # NoReader
    /\ call[th].op \in {"Publish", "Subscribe", "SubscribeSchema"} =>
          call[th].data_reader = NoSub
    /\ (call[th].op = "Subscribe" /\ call[th].pc \in {"attach", "open"}) =>
          subs < MaxSub
    /\ (call[th].op = "Subscribe" \/ call[th].pc = "close")
          /\ call[th].pc \in Holding => subscribed.data_listener = NoSub
CallsHold == \A th \in Threads : CallHolds(th)

\* The channel, its users, its reader and its registration.
ChannelHeld ==
    /\ subscribed.data_listener # NoSub \/ subscribed.watches > 0 => ChannelOpen
    /\ ChannelOpen => \/ subscribed.data_listener # NoSub
                      \/ subscribed.watches > 0 \/ mu.owner # NoThread
    /\ registry = {subscribed.schema_reader} \ {NoReader}
    /\ registry \subseteq dds.readers
    /\ subscribed.schema_reader # NoReader =>
          subscribed.arrival = subscribed.schema_reader
    /\ ChannelOpen => subscribed.arrival \in Arrivals
    /\ subscribed.arrival <= channels
    /\ \A c \in dds.readers : c <= channels
    /\ \A th \in Threads : call[th].schema_reader # NoReader =>
          /\ call[th].schema_reader # subscribed.schema_reader
          /\ call[th].schema_reader <= channels

\* The token: unspent only while the channel's arrival is pending; spent
\* without a schema only by a failure.
TokenTells ==
    /\ subscribed.resolver # NoArrival =>
          /\ subscribed.resolver = subscribed.schema_reader
          /\ subscribed.schema # Null => resolving = subscribed.resolver
    /\ \A a \in Arrivals : IsPending(a) <=> subscribed.resolver = a
    /\ (/\ subscribed.schema_reader # NoReader /\ subscribed.schema = Null
        /\ subscribed.resolver = NoArrival) =>
           arrival[subscribed.schema_reader].status = "kInternal"

\* A data reader and its listener are in one place: the state, or one call.
ReadersHeld ==
    /\ subscribed.data_reader \in {NoSub, subscribed.data_listener}
    /\ \A s \in Subs : data[s] # 0 =>
          \/ subscribed.data_reader = s
          \/ \E th \in Threads : call[th].data_reader = s /\ call[th].listener = s

\* What the publishing side declared.
BoundsAgree ==
    /\ published.data_writer => published.payload_bytes \in Bounds
    /\ published.schema_writer => published.data_writer
    /\ DeclaredBoundStands

\* What reaches the channel's reader reaches the schema thread.
ReaderFed ==
    /\ subscribed.schema_reader # NoReader =>
          \/ subscribed.schema_reader \in dds.attached
          \/ \E th \in Threads : call[th].pc = "attach"
    /\ \A c \in Arrivals : c > channels => dds.seen[c] = {}
    /\ subscribed.resolver # NoArrival /\ dds.seen[subscribed.resolver] # {} =>
          \/ dds.inbox[subscribed.resolver] # NoSample
          \/ resolving = subscribed.resolver

IInv ==
    /\ TypeOK /\ CallsHold /\ ChannelHeld /\ TokenTells /\ ReadersHeld
    /\ BoundsAgree /\ ReaderFed /\ SubscribedIsServed

\* A thread that makes no call has a well-typed record.
LEMMA NoCallType == NoCall \in Calls
  BY DEF NoCall, Calls, Operations, Steps

\* Arrivals are numbered from 1, and 0 is none of them.
LEMMA ArrivalsAreNumbers == Arrivals \subseteq Nat \ {0} /\ NoArrival = 0
<1>. Cardinality(Arrivals) \in Nat
  BY FastDdsAssumption, FS_CardinalityType
<1>. QED  BY FastDdsAssumption

\* Goto changes where one call is, and nothing else of it.
Goes(th, op, pc) ==
    /\ call' \in [Threads -> Calls]
    /\ \A t \in Threads : t # th => call'[t] = call[t]
    /\ call'[th].op = op /\ call'[th].pc = pc
    /\ call'[th].schema_reader = call[th].schema_reader
    /\ call'[th].data_reader = call[th].data_reader
    /\ call'[th].listener = call[th].listener

GoesKeepsReaders ==
    \A t \in Threads : /\ call'[t].data_reader = call[t].data_reader
                       /\ call'[t].listener = call[t].listener

\* While one thread has mu, before or after a step, the others hold nothing.
LEMMA OthersHold ==
    ASSUME CallsHold, NEW t \in Threads, call'[t] = call[t],
           mu.owner # t, mu'.owner # t
    PROVE  CallHolds(t)'
  BY DEF CallsHold, CallHolds, Holding

\* The data readers stay where they are.
LEMMA ReadersStay ==
    ASSUME ReadersHeld, GoesKeepsReaders, data' = data,
           subscribed'.data_reader = subscribed.data_reader,
           subscribed'.data_listener = subscribed.data_listener
    PROVE  ReadersHeld'
  BY DEF ReadersHeld, GoesKeepsReaders

\* Goto moves one call and nothing else of it.
LEMMA GotoGoes ==
    ASSUME TypeOK, NEW th \in Threads, NEW op \in Operations, NEW pc \in Steps,
           call' = Goto(th, op, pc)
    PROVE  Goes(th, op, pc)
<1>. DEFINE r == [call[th] EXCEPT !.op = op, !.pc = pc]
<1>1. call[th] \in Calls
  BY DEF TypeOK
<1>2. r \in Calls
  BY <1>1 DEF Calls
<1>3. /\ r.op = op /\ r.pc = pc /\ r.schema_reader = call[th].schema_reader
      /\ r.data_reader = call[th].data_reader /\ r.listener = call[th].listener
  BY <1>1 DEF Calls
<1>4. call' = [call EXCEPT ![th] = r]
  BY DEF Goto, TypeOK
<1>. HIDE DEF r
<1>. QED  BY <1>2, <1>3, <1>4 DEF TypeOK, Goes

\* The constructor establishes the invariant.
LEMMA InitIInv == Init => IInv
<1>. SUFFICES ASSUME Init PROVE IInv
  OBVIOUS
<1>. USE FastDdsAssumption DEF Init, ArrivalInit
<1>1. TypeOK
  <2>1. mu \in Lock /\ topic \in Topic /\ published \in Publication
    BY DEF Lock, Topic, Publication, NotPublished
  <2>2. subscribed \in Subscription  BY DEF Subscription, NotSubscribed
  <2>3. call \in [Threads -> Calls]  BY NoCallType
  <2>4. dds \in Middleware  BY DEF Middleware
  <2>5. arrival \in [Arrivals -> Answers]  BY DEF Answers, Unmade
  <2>. QED  BY <2>1, <2>2, <2>3, <2>4, <2>5 DEF TypeOK
<1>2. CallsHold
  BY DEF CallsHold, CallHolds, Holding, NoCall
<1>3. ChannelHeld /\ ReaderFed /\ ReadersHeld
  BY DEF ChannelHeld, ReaderFed, ReadersHeld, ChannelOpen, NotSubscribed, NoReader,
     NoCall, NoSub
<1>4. TokenTells /\ SubscribedIsServed
  BY ArrivalsAreNumbers
  DEF TokenTells, SubscribedIsServed, IsPending, Unmade, NotSubscribed, NoReader
<1>5. BoundsAgree
  BY DEF BoundsAgree, DeclaredBoundStands, NotPublished
<1>. QED  BY <1>1, <1>2, <1>3, <1>4, <1>5 DEF IInv

\* Steps that only move rows, wake the schema thread or run a callback.
LEMMA UntouchedStep ==
    ASSUME IInv,
           UNCHANGED <<mu, topic, published, subscribed, registry, resolving,
                       call, dds, data, announced, channels, subs, arrival>>
    PROVE  IInv'
<1>1. TypeOK' /\ CallsHold' /\ ChannelHeld'
  BY DEF IInv, TypeOK, CallsHold, CallHolds, ChannelHeld, ChannelOpen
<1>2. TokenTells' /\ ReadersHeld' /\ BoundsAgree' /\ ReaderFed' /\ SubscribedIsServed'
  BY DEF IInv, TokenTells, ReadersHeld, BoundsAgree, ReaderFed,
     SubscribedIsServed, DeclaredBoundStands, IsPending
<1>. QED  BY <1>1, <1>2 DEF IInv

\* CreateTopic, also when its announcement fails, preserves the invariant.
LEMMA CreateTopicStep ==
    ASSUME IInv, NEW th \in Threads, NEW x \in Schemas \cup {Null},
           NEW asked \in Bounds \cup {0}, CreateTopic(th, x, asked)
    PROVE  IInv'
<1>. USE DEF IInv, CreateTopic, threadVars
<1>1. Wanted(asked) \in Bounds /\ BoundKept(asked) \in Bounds
  BY FastDdsAssumption DEF Wanted, BoundKept, BoundsAgree
<1>2. topic' \in Topic /\ published' \in Publication
  BY <1>1 DEF TypeOK, Topic, Publication
<1>3. announced' \subseteq Samples
  BY <1>1 DEF TypeOK, Samples, Publication
<1>4. TypeOK'
  BY <1>2, <1>3 DEF TypeOK
<1>5. BoundsAgree'
  BY <1>1, <1>2
  DEF TypeOK, Publication, Topic, BoundsAgree, DeclaredBoundStands, BoundKept
<1>6. CallsHold' /\ ChannelHeld'
  BY DEF CallsHold, CallHolds, ChannelHeld, ChannelOpen
<1>7. TokenTells' /\ ReadersHeld' /\ ReaderFed' /\ SubscribedIsServed'
  BY DEF TokenTells, ReadersHeld, ReaderFed, SubscribedIsServed, IsPending
<1>. QED  BY <1>4, <1>5, <1>6, <1>7

\* So does a CreateTopic whose data writer could not be made.
LEMMA CreateTopicFailsStep ==
    ASSUME IInv, NEW th \in Threads, NEW asked \in Bounds \cup {0},
           CreateTopicFails(th, asked)
    PROVE  IInv'
<1>. USE DEF IInv, CreateTopicFails, threadVars, externalVars
<1>1. Wanted(asked) \in Bounds
  BY FastDdsAssumption DEF Wanted
<1>2. TypeOK'
  BY <1>1 DEF TypeOK, Topic
<1>3. BoundsAgree'
  BY DEF BoundsAgree, DeclaredBoundStands
<1>4. CallsHold' /\ ChannelHeld'
  BY DEF CallsHold, CallHolds, ChannelHeld, ChannelOpen
<1>5. TokenTells' /\ ReadersHeld' /\ ReaderFed' /\ SubscribedIsServed'
  BY DEF TokenTells, ReadersHeld, ReaderFed, SubscribedIsServed, IsPending
<1>. QED  BY <1>2, <1>3, <1>4, <1>5

\* Publish, which shares mu for the write, preserves the invariant.
LEMMA PublishStep ==
    ASSUME IInv, NEW th \in Threads, Publish(th)
    PROVE  IInv'
<1>. USE DEF IInv, Publish, threadVars, counterVars
<1>0. Goes(th, "Publish", "write")
  <2>1. "Publish" \in Operations /\ "write" \in Steps  BY DEF Operations, Steps
  <2>. QED  BY <2>1, GotoGoes
<1>1. TypeOK'
  <2>1. mu' \in Lock  BY DEF TypeOK, Lock
  <2>2. call' \in [Threads -> Calls]  BY <1>0 DEF Goes
  <2>. QED  BY <2>1, <2>2 DEF TypeOK
<1>2. CallsHold'
  BY <1>0, FastDdsAssumption
  DEF TypeOK, Goes, Calls, Lock, CallsHold, CallHolds, ChannelOpen, Holding, NoCall
<1>3. ChannelHeld'
  <2>1. mu'.owner = mu.owner  BY DEF TypeOK, Lock
  <2>2. \A t \in Threads : call'[t].schema_reader = call[t].schema_reader
    BY <1>0 DEF Goes
  <2>. QED  BY <2>1, <2>2 DEF ChannelHeld, ChannelOpen
<1>4. TokenTells' /\ BoundsAgree' /\ SubscribedIsServed'
  BY DEF TokenTells, BoundsAgree, SubscribedIsServed, DeclaredBoundStands, IsPending
<1>5. ReadersHeld'
  BY <1>0 DEF TypeOK, Goes, Calls, ReadersHeld, NoCall
<1>6. ReaderFed'
  BY <1>0 DEF TypeOK, Goes, Calls, ReaderFed, NoCall
<1>. QED  BY <1>1, <1>2, <1>3, <1>4, <1>5, <1>6

\* So does its return.
LEMMA PublishReturnStep ==
    ASSUME IInv, NEW th \in Threads, PublishReturn(th)
    PROVE  IInv'
<1>. USE DEF IInv, PublishReturn, threadVars, externalVars, counterVars
<1>1. TypeOK'
  <2>1. mu' \in Lock  BY DEF TypeOK, Lock
  <2>2. call' \in [Threads -> Calls]  BY NoCallType DEF TypeOK
  <2>. QED  BY <2>1, <2>2 DEF TypeOK
<1>2. CallsHold'
  BY FastDdsAssumption
  DEF TypeOK, Calls, Lock, CallsHold, CallHolds, ChannelOpen, Holding, NoCall
<1>3. ChannelHeld'
  BY DEF TypeOK, Calls, Lock, ChannelHeld, ChannelOpen, NoCall
<1>4. TokenTells' /\ BoundsAgree' /\ SubscribedIsServed'
  BY DEF TokenTells, BoundsAgree, SubscribedIsServed, DeclaredBoundStands, IsPending
<1>5. ReadersHeld'
  BY DEF TypeOK, Calls, CallsHold, CallHolds, ReadersHeld, NoCall
<1>6. ReaderFed'
  BY DEF TypeOK, Calls, CallsHold, CallHolds, ReaderFed, NoCall
<1>. QED  BY <1>1, <1>2, <1>3, <1>4, <1>5, <1>6

\* SubscribeSchema counts its watch under mu, on a channel that is open.
LEMMA CountWatchStep ==
    ASSUME IInv, NEW th \in Threads, CountWatch(th)
    PROVE  IInv'
<1>. USE DEF IInv, CountWatch, Unlocked, threadVars, externalVars, counterVars
<1>1. TypeOK'
  <2>1. subscribed' \in Subscription  BY DEF TypeOK, Subscription
  <2>2. call' \in [Threads -> Calls]  BY NoCallType DEF TypeOK
  <2>3. mu' \in Lock  BY DEF TypeOK, Lock
  <2>. QED  BY <2>1, <2>2, <2>3 DEF TypeOK
<1>2. CallsHold'
  BY FastDdsAssumption
  DEF TypeOK, Calls, Subscription, Lock, CallsHold, CallHolds, ChannelOpen, Holding, NoCall
<1>3. ChannelHeld'
  BY FastDdsAssumption
  DEF TypeOK, Calls, Subscription, Lock, CallsHold, CallHolds, ChannelHeld, ChannelOpen,
     Holding, NoCall
<1>4. TokenTells' /\ BoundsAgree' /\ SubscribedIsServed'
  BY DEF TypeOK, Subscription, TokenTells, BoundsAgree, SubscribedIsServed,
     DeclaredBoundStands, IsPending
<1>5. ReadersHeld'
  BY DEF TypeOK, Calls, Subscription, CallsHold, CallHolds, ReadersHeld, NoCall
<1>6. ReaderFed'
  BY DEF TypeOK, Calls, Subscription, CallsHold, CallHolds, ReaderFed, NoCall
<1>. QED  BY <1>1, <1>2, <1>3, <1>4, <1>5, <1>6

\* EnsureSchemaChannel attaches the reader it registered.
LEMMA AttachStep ==
    ASSUME IInv, NEW th \in Threads, Attach(th)
    PROVE  IInv'
<1>. USE DEF IInv, Attach, threadVars, counterVars
<1>1. Goes(th, call[th].op, "open")
  <2>1. call[th].op \in Operations /\ "open" \in Steps
    BY DEF TypeOK, Calls, Steps
  <2>. QED  BY <2>1, GotoGoes
<1>2. /\ subscribed.schema_reader \in Arrivals
      /\ dds' \in Middleware
      /\ dds'.readers = dds.readers /\ dds'.inbox = dds.inbox /\ dds'.seen = dds.seen
      /\ subscribed.schema_reader \in dds'.attached
  <2>1. subscribed.schema_reader \in Arrivals
    BY DEF TypeOK, Subscription, CallsHold, CallHolds
  <2>. QED  BY <2>1 DEF TypeOK, Middleware
<1>3. TypeOK'
  BY <1>1, <1>2 DEF TypeOK, Goes
<1>4. CallsHold'
  BY <1>1 DEF CallsHold, CallHolds, Goes, Holding, ChannelOpen
<1>5. ChannelHeld'
  <2>1. \A t \in Threads : call'[t].schema_reader = call[t].schema_reader
    BY <1>1 DEF Goes
  <2>. QED  BY <1>2, <2>1 DEF ChannelHeld, ChannelOpen
<1>6. TokenTells' /\ BoundsAgree' /\ SubscribedIsServed'
  BY DEF TokenTells, BoundsAgree, SubscribedIsServed, DeclaredBoundStands, IsPending
<1>7. ReadersHeld'
  BY <1>1 DEF ReadersHeld, Goes
<1>8. ReaderFed'
  BY <1>2 DEF ReaderFed
<1>. QED  BY <1>3, <1>4, <1>5, <1>6, <1>7, <1>8

\* Unsubscribe moves reader and listener into the call together.
LEMMA UnsubscribeStep ==
    ASSUME IInv, NEW th \in Threads, Unsubscribe(th)
    PROVE  IInv'
<1>. USE DEF IInv, Unsubscribe, Entered, Locked, threadVars, externalVars, counterVars
<1>. DEFINE r == [op |-> "Unsubscribe", pc |-> "close", schema_reader |-> NoReader,
           data_reader |-> subscribed.data_reader,
           listener |-> ListenerKept(subscribed.data_listener)]
<1>1. r \in Calls /\ call' = [call EXCEPT ![th] = r]
  BY DEF TypeOK, Subscription, Calls, Operations, Steps, ListenerKept
<1>2. /\ subscribed' \in Subscription
      /\ subscribed'.data_reader = NoSub /\ subscribed'.data_listener = NoSub
      /\ \A f \in {"schema_reader", "arrival", "resolver", "schema", "watches"} :
            subscribed'[f] = subscribed[f]
  BY DEF TypeOK, Subscription
<1>3. mu' \in Lock /\ mu.owner = NoThread /\ mu'.owner = th
  BY DEF TypeOK, Lock
<1>4. TypeOK'
  BY <1>1, <1>2, <1>3 DEF TypeOK
<1>5. CallsHold'
  BY <1>1, <1>2, <1>3, FastDdsAssumption
  DEF TypeOK, CallsHold, CallHolds, ChannelHeld, Holding, ChannelOpen
<1>6. ChannelHeld'
  BY <1>1, <1>2, <1>3, FastDdsAssumption DEF TypeOK, ChannelHeld, ChannelOpen
<1>7. TokenTells' /\ BoundsAgree' /\ SubscribedIsServed'
  BY <1>2
  DEF TokenTells, BoundsAgree, SubscribedIsServed, DeclaredBoundStands, IsPending
<1>8. ReadersHeld'
  BY <1>1, <1>2 DEF TypeOK, ReadersHeld, ListenerKept, NoCall, Subs, NoSub
<1>9. ReaderFed'
  BY <1>1, <1>2 DEF TypeOK, ReaderFed, NoCall
<1>. QED  BY <1>4, <1>5, <1>6, <1>7, <1>8, <1>9

\* delete_datareader returns, and reader and listener go together.
LEMMA DeleteDataReaderStep ==
    ASSUME IInv, NEW th \in Threads, DeleteDataReader(th)
    PROVE  IInv'
<1>. USE DEF IInv, DeleteDataReader, threadVars, counterVars
<1>1. TypeOK'
  <2>1. call' \in [Threads -> Calls]  BY NoCallType DEF TypeOK
  <2>2. data' \in [Subs -> Bounds \cup {0}]  BY DEF TypeOK
  <2>. QED  BY <2>1, <2>2 DEF TypeOK
<1>2. CallsHold'
  BY FastDdsAssumption DEF TypeOK, CallsHold, CallHolds, Holding, ChannelOpen, NoCall
<1>3. ChannelHeld'
  BY DEF TypeOK, ChannelHeld, ChannelOpen, NoCall
<1>4. TokenTells' /\ BoundsAgree' /\ SubscribedIsServed'
  BY DEF TokenTells, BoundsAgree, SubscribedIsServed, DeclaredBoundStands, IsPending
<1>5. ReadersHeld'
  BY DEF TypeOK, ReadersHeld, NoCall
<1>6. ReaderFed'
  BY DEF TypeOK, ReaderFed, NoCall
<1>. QED  BY <1>1, <1>2, <1>3, <1>4, <1>5, <1>6

\* The schema reader deleted is not the one of a channel opened since.
LEMMA DeleteSchemaReaderStep ==
    ASSUME IInv, NEW th \in Threads, DeleteSchemaReader(th)
    PROVE  IInv'
<1>. USE DEF IInv, DeleteSchemaReader, threadVars, counterVars
<1>. DEFINE c == call[th].schema_reader
<1>1. c \in Arrivals /\ c # subscribed.schema_reader /\ c # subscribed.resolver
  BY DEF TypeOK, Calls, ChannelHeld, TokenTells, NoReader
<1>2. /\ dds' \in Middleware
      /\ dds'.readers = dds.readers \ {c} /\ dds'.attached = dds.attached \ {c}
      /\ \A a \in Arrivals \ {c} : dds'.inbox[a] = dds.inbox[a] /\ dds'.seen[a] = dds.seen[a]
      /\ dds'.seen[c] = {}
  BY <1>1 DEF TypeOK, Middleware
<1>3. /\ call' \in [Threads -> Calls]
      /\ \A t \in Threads : t # th => call'[t] = call[t]
      /\ call'[th].schema_reader = NoReader
      /\ \A f \in {"op", "pc", "data_reader", "listener"} : call'[th][f] = call[th][f]
  BY DEF TypeOK, Calls
<1>. HIDE DEF c
<1>4. TypeOK'
  BY <1>2, <1>3 DEF TypeOK
<1>5. CallsHold'
  BY <1>3 DEF CallsHold, CallHolds, Holding, ChannelOpen
<1>6. ChannelHeld'
  BY <1>1, <1>2, <1>3 DEF ChannelHeld, ChannelOpen
<1>7. TokenTells' /\ BoundsAgree' /\ SubscribedIsServed'
  BY DEF TokenTells, BoundsAgree, SubscribedIsServed, DeclaredBoundStands, IsPending
<1>8. ReadersHeld'
  BY <1>3 DEF ReadersHeld
<1>9. ReaderFed'
  BY <1>1, <1>2, <1>3 DEF TypeOK, Subscription, ReaderFed
<1>. QED  BY <1>4, <1>5, <1>6, <1>7, <1>8, <1>9

\* A token that is spent, by whichever outcome, leaves nothing pending and
\* only answers its own arrival.
LEMMA SpentAnswers ==
    ASSUME IInv, NEW st \in Outcomes, NEW x \in Schemas \cup {Null},
           arrival' = IF subscribed.resolver = NoArrival THEN arrival
                      ELSE Settle(arrival, subscribed.resolver, st, x)
    PROVE  /\ arrival' \in [Arrivals -> Answers]
           /\ \A a \in Arrivals : arrival'[a].status # "kPending"
           /\ \A a \in Arrivals : a # subscribed.resolver => arrival'[a] = arrival[a]
           /\ subscribed.resolver # NoArrival =>
                arrival'[subscribed.resolver].status = st
<1>. USE DEF IInv
<1>0. "kPending" \notin Outcomes
  BY DEF Outcomes
<1>1. CASE subscribed.resolver = NoArrival
  BY <1>1, ArrivalsAreNumbers DEF TypeOK, TokenTells, IsPending
<1>2. CASE subscribed.resolver # NoArrival
  <2>1. subscribed.resolver \in Arrivals /\ arrival[subscribed.resolver].status = "kPending"
    BY <1>2 DEF TypeOK, Subscription, TokenTells, IsPending
  <2>2. arrival' = [arrival EXCEPT ![subscribed.resolver] = [status |-> st, schema |-> x]]
    BY <1>0, <1>2, <2>1 DEF Settle
  <2>3. [status |-> st, schema |-> x] \in Answers
    BY DEF Answers
  <2>. QED  BY <1>0, <2>1, <2>2, <2>3 DEF TypeOK, TokenTells, IsPending
<1>. QED  BY <1>1, <1>2

\* What CloseSchemaSide leaves of the subscribing side.
LEMMA ClosedSide ==
    ASSUME IInv, CloseSchemaSide(0)
    PROVE  /\ subscribed' \in Subscription /\ registry' = {}
           /\ subscribed'.schema_reader = NoReader /\ subscribed'.schema = Null
           /\ subscribed'.resolver = NoArrival /\ subscribed'.watches = 0
           /\ \A f \in {"arrival", "data_reader", "data_listener"} :
                 subscribed'[f] = subscribed[f]
           /\ arrival' \in [Arrivals -> Answers]
           /\ TokenTells' /\ SubscribedIsServed'
<1>. USE DEF IInv, CloseSchemaSide
<1>1. /\ subscribed' \in Subscription
      /\ subscribed'.schema_reader = NoReader /\ subscribed'.schema = Null
      /\ subscribed'.resolver = NoArrival /\ subscribed'.watches = 0
      /\ \A f \in {"arrival", "data_reader", "data_listener"} :
            subscribed'[f] = subscribed[f]
  BY DEF TypeOK, Subscription
<1>2. registry' = {}
  BY DEF ChannelHeld
<1>3. /\ arrival' \in [Arrivals -> Answers]
      /\ \A a \in Arrivals : arrival'[a].status # "kPending"
  <2>1. "kSubscriptionEnded" \in Outcomes  BY DEF Outcomes
  <2>2. arrival' = IF subscribed.resolver = NoArrival THEN arrival
            ELSE Settle(arrival, subscribed.resolver, "kSubscriptionEnded", Null)
    BY DEF TokenDies, DropResolver
  <2>. QED  BY <2>1, <2>2, SpentAnswers
<1>4. TokenTells' /\ SubscribedIsServed'
  BY <1>1, <1>3, ArrivalsAreNumbers DEF TokenTells, SubscribedIsServed, IsPending
<1>. QED  BY <1>1, <1>2, <1>3, <1>4

\* Unsubscribe, or a failed Subscribe, closes the channel nobody watches.
LEMMA CloseUnwatchedStep ==
    ASSUME IInv, NEW th \in Threads, CloseUnwatched(th)
    PROVE  IInv'
<1>. USE DEF IInv, CloseUnwatched, Unlocked, externalVars, counterVars
<1>. DEFINE c == IF subscribed.watches = 0 THEN subscribed.schema_reader
                 ELSE call[th].schema_reader
<1>1. /\ call' \in [Threads -> Calls]
      /\ \A t \in Threads : t # th => call'[t] = call[t]
      /\ call'[th].pc = "delete" /\ call'[th].schema_reader = c
      /\ \A f \in {"op", "data_reader", "listener"} : call'[th][f] = call[th][f]
  <2>. DEFINE d == [call EXCEPT ![th].pc = "delete"]
  <2>1. /\ d \in [Threads -> Calls]
        /\ \A t \in Threads : t # th => d[t] = call[t]
        /\ d[th].pc = "delete"
        /\ \A f \in {"op", "schema_reader", "data_reader", "listener"} : d[th][f] = call[th][f]
    BY DEF TypeOK, Calls, Steps
  <2>2. call' = [d EXCEPT ![th].schema_reader = c]
    BY <2>1
  <2>3. c \in Arrivals \cup {NoReader}
    BY DEF TypeOK, Calls, Subscription
  <2>. HIDE DEF c, d
  <2>. DEFINE r == [d[th] EXCEPT !.schema_reader = c]
  <2>4. /\ r \in Calls /\ r.schema_reader = c
        /\ \A f \in {"op", "pc", "data_reader", "listener"} : r[f] = d[th][f]
    BY <2>1, <2>3 DEF Calls
  <2>5. call' = [d EXCEPT ![th] = r]
    BY <2>1, <2>2
  <2>. HIDE DEF r
  <2>. QED  BY <2>1, <2>4, <2>5
<1>2. mu' \in Lock /\ mu.owner = th /\ mu'.owner = NoThread
  BY DEF TypeOK, Lock, CallsHold, CallHolds, Holding
<1>3. /\ subscribed' \in Subscription
      /\ \A f \in {"arrival", "data_reader", "data_listener"} : subscribed'[f] = subscribed[f]
      /\ arrival' \in [Arrivals -> Answers]
      /\ TokenTells' /\ SubscribedIsServed'
  <2>1. CASE subscribed.watches = 0
    BY <2>1, ClosedSide
  <2>2. CASE subscribed.watches # 0
    BY <2>2 DEF TypeOK, TokenTells, SubscribedIsServed, IsPending
  <2>. QED  BY <2>1, <2>2
<1>4. \/ subscribed.watches = 0 /\ subscribed'.schema_reader = NoReader
         /\ subscribed'.schema = Null /\ registry' = {} /\ subscribed'.watches = 0
         /\ subscribed'.resolver = NoArrival /\ c = subscribed.schema_reader
      \/ subscribed.watches # 0 /\ UNCHANGED <<subscribed, registry>>
         /\ c = NoReader
  <2>1. CASE subscribed.watches = 0
    BY <2>1, ClosedSide
  <2>2. CASE subscribed.watches # 0
    BY <2>2 DEF CallsHold, CallHolds, Holding
  <2>. QED  BY <2>1, <2>2
<1>. HIDE DEF c
<1>5. TypeOK'
  BY <1>1, <1>2, <1>3 DEF TypeOK
<1>6. CallsHold'
  BY <1>1, <1>2, FastDdsAssumption DEF CallsHold, CallHolds, Holding
<1>7. ChannelHeld'
  BY <1>1, <1>2, <1>3, <1>4, ArrivalsAreNumbers
  DEF TypeOK, Subscription, ChannelHeld, ChannelOpen, CallsHold, CallHolds, Holding, NoReader
<1>8. BoundsAgree'
  BY DEF BoundsAgree, DeclaredBoundStands
<1>9. ReadersHeld'
  BY <1>1, <1>3 DEF ReadersHeld
<1>10. ReaderFed'
  BY <1>1, <1>4 DEF ReaderFed
<1>. QED  BY <1>3, <1>5, <1>6, <1>7, <1>8, <1>9, <1>10

\* UnsubscribeSchema closes the channel when it leaves last.
LEMMA UnsubscribeSchemaStep ==
    ASSUME IInv, NEW th \in Threads, UnsubscribeSchema(th)
    PROVE  IInv'
<1>. USE DEF IInv, UnsubscribeSchema, Entered, externalVars, counterVars
<1>1. CASE WatchWasLast /\ CloseSchemaSide(0)
            /\ call' = [call EXCEPT ![th] = [NoCall EXCEPT
                !.op = "UnsubscribeSchema", !.pc = "delete",
                !.schema_reader = subscribed.schema_reader]]
  <2>1. /\ call' \in [Threads -> Calls]
        /\ \A t \in Threads : t # th => call'[t] = call[t]
        /\ call'[th] = [op |-> "UnsubscribeSchema", pc |-> "delete",
                        schema_reader |-> subscribed.schema_reader,
                        data_reader |-> NoSub, listener |-> NoSub]
    BY <1>1 DEF TypeOK, Calls, Subscription, Operations, Steps, NoCall
  <2>2. /\ subscribed' \in Subscription /\ registry' = {}
        /\ subscribed'.schema_reader = NoReader /\ subscribed'.schema = Null
        /\ subscribed'.resolver = NoArrival /\ subscribed'.watches = 0
        /\ \A f \in {"arrival", "data_reader", "data_listener"} : subscribed'[f] = subscribed[f]
        /\ arrival' \in [Arrivals -> Answers]
        /\ TokenTells' /\ SubscribedIsServed'
    BY <1>1, ClosedSide
  <2>3. TypeOK'
    BY <2>1, <2>2 DEF TypeOK
  <2>4. CallsHold'
    BY <2>1, <2>2, FastDdsAssumption DEF CallsHold, CallHolds, Holding, ChannelOpen
  <2>5. ChannelHeld'
    BY <1>1, <2>1, <2>2, ArrivalsAreNumbers
    DEF TypeOK, Subscription, ChannelHeld, ChannelOpen, WatchWasLast, NoReader
  <2>6. BoundsAgree'
    BY DEF BoundsAgree, DeclaredBoundStands
  <2>7. ReadersHeld'
    BY <2>1, <2>2 DEF ReadersHeld, NoCall
  <2>8. ReaderFed'
    BY <2>1, <2>2 DEF ReaderFed
  <2>. QED  BY <2>2, <2>3, <2>4, <2>5, <2>6, <2>7, <2>8
<1>2. CASE ~WatchWasLast /\ subscribed' = [subscribed EXCEPT !.watches = @ - 1]
            /\ UNCHANGED <<call, registry, arrival>>
  <2>1. /\ subscribed' \in Subscription
        /\ subscribed'.watches = subscribed.watches - 1
        /\ \A f \in {"schema_reader", "arrival", "resolver", "schema", "data_reader",
                      "data_listener"} : subscribed'[f] = subscribed[f]
    BY <1>2 DEF TypeOK, Subscription
  <2>2. TypeOK'
    BY <1>2, <2>1 DEF TypeOK
  <2>3. CallsHold'
    BY <1>2, <2>1 DEF CallsHold, CallHolds, ChannelOpen
  <2>4. ChannelHeld'
    BY <1>2, <2>1 DEF TypeOK, Subscription, ChannelHeld, ChannelOpen, WatchWasLast
  <2>5. TokenTells' /\ SubscribedIsServed' /\ BoundsAgree'
    BY <1>2, <2>1
    DEF TokenTells, SubscribedIsServed, IsPending, BoundsAgree, DeclaredBoundStands
  <2>6. ReadersHeld' /\ ReaderFed'
    BY <1>2, <2>1 DEF ReadersHeld, ReaderFed
  <2>. QED  BY <2>2, <2>3, <2>4, <2>5, <2>6
<1>. QED  BY <1>1, <1>2

\* The schema thread settles the arrival after the reader is open.
LEMMA SettleArrivalStep ==
    ASSUME IInv, SettleArrival
    PROVE  IInv'
<1>. USE DEF IInv, SettleArrival, externalVars, counterVars
<1>1. /\ subscribed' \in Subscription /\ subscribed'.resolver = NoArrival
      /\ \A f \in {"schema_reader", "arrival", "schema", "watches", "data_reader",
                   "data_listener"} : subscribed'[f] = subscribed[f]
  BY DEF TypeOK, Subscription
<1>2. PICK st \in {"kOk", "kInternal"} :
        /\ subscribed.schema = Null => st = "kInternal"
        /\ arrival' = IF subscribed.resolver = NoArrival THEN arrival
                      ELSE Settle(arrival, subscribed.resolver, st, subscribed.schema)
  BY DEF Resolve
<1>3. /\ arrival' \in [Arrivals -> Answers]
      /\ \A a \in Arrivals : arrival'[a].status # "kPending"
      /\ \A a \in Arrivals : a # subscribed.resolver => arrival'[a] = arrival[a]
      /\ subscribed.resolver # NoArrival => arrival'[subscribed.resolver].status = st
  <2>1. st \in Outcomes /\ subscribed.schema \in Schemas \cup {Null}
    BY DEF Outcomes, TypeOK, Subscription
  <2>. QED  BY <1>2, <2>1, SpentAnswers
<1>4. TypeOK'
  BY <1>1, <1>3 DEF TypeOK
<1>5. CallsHold' /\ ChannelHeld'
  BY <1>1 DEF CallsHold, CallHolds, ChannelHeld, ChannelOpen
<1>6. TokenTells'
  <2>1. (/\ subscribed.schema_reader # NoReader /\ subscribed.schema = Null) =>
           arrival'[subscribed.schema_reader].status = "kInternal"
    BY <1>2, <1>3 DEF TokenTells, TypeOK, Subscription, IsPending
  <2>. QED  BY <1>1, <1>3, <2>1, ArrivalsAreNumbers DEF TokenTells, IsPending
<1>7. SubscribedIsServed'
  <2>1. subscribed.resolver # NoArrival => arrival[subscribed.resolver].status = "kPending"
    BY DEF TypeOK, Subscription, TokenTells, IsPending
  <2>2. ChannelOpen => subscribed.arrival \in Arrivals
    BY DEF ChannelHeld
  <2>. QED  BY <1>1, <1>3, <2>1, <2>2, ArrivalsAreNumbers
            DEF SubscribedIsServed, ChannelOpen
<1>8. BoundsAgree' /\ ReadersHeld' /\ ReaderFed'
  BY <1>1 DEF BoundsAgree, DeclaredBoundStands, ReadersHeld, ReaderFed
<1>. QED  BY <1>1, <1>4, <1>5, <1>6, <1>7, <1>8

\* ~Impl ends everything, the pending arrival included.
LEMMA DestroyStep ==
    ASSUME IInv, Destroy
    PROVE  IInv'
<1>. USE DEF IInv, Destroy, counterVars
<1>1. /\ arrival' \in [Arrivals -> Answers]
      /\ \A a \in Arrivals : arrival'[a].status # "kPending"
  <2>1. "kSubscriptionEnded" \in Outcomes  BY DEF Outcomes
  <2>2. arrival' = IF subscribed.resolver = NoArrival THEN arrival
            ELSE Settle(arrival, subscribed.resolver, "kSubscriptionEnded", Null)
    BY DEF DropResolver
  <2>. QED  BY <2>1, <2>2, SpentAnswers
<1>2. TypeOK'
  <2>1. topic' \in Topic /\ published' \in Publication
    BY DEF Topic, Publication, NotPublished
  <2>2. subscribed' \in Subscription  BY DEF Subscription, NotSubscribed
  <2>3. dds' \in Middleware  BY DEF TypeOK, Middleware
  <2>. QED  BY <1>1, <2>1, <2>2, <2>3 DEF TypeOK
<1>3. CallsHold'
  BY DEF CallsHold, CallHolds, Holding, NoCall
<1>4. dds'.readers = {} /\ dds'.seen = dds.seen
  BY DEF TypeOK, Middleware
<1>5. ChannelHeld' /\ ReaderFed' /\ ReadersHeld'
  BY <1>4, ArrivalsAreNumbers
  DEF TypeOK, ChannelHeld, ReaderFed, ReadersHeld, ChannelOpen, NotSubscribed,
     NoReader, NoCall, NoSub
<1>6. TokenTells' /\ SubscribedIsServed'
  BY <1>1, ArrivalsAreNumbers
  DEF TokenTells, SubscribedIsServed, IsPending, NotSubscribed, NoReader
<1>7. BoundsAgree'
  BY DEF BoundsAgree, DeclaredBoundStands, NotPublished
<1>. QED  BY <1>2, <1>3, <1>5, <1>6, <1>7

\* A remote announcement changes what is retained only.
LEMMA RemoteAnnouncesStep ==
    ASSUME IInv, NEW n \in Announcements, RemoteAnnounces(n)
    PROVE  IInv'
<1>. USE DEF IInv, RemoteAnnounces, threadVars, counterVars
<1>1. TypeOK'
  BY FastDdsAssumption DEF TypeOK, Samples
<1>2. BoundsAgree'
  BY DEF BoundsAgree, DeclaredBoundStands
<1>3. CallsHold' /\ ChannelHeld'
  BY DEF CallsHold, CallHolds, ChannelHeld, ChannelOpen
<1>4. TokenTells' /\ ReadersHeld' /\ ReaderFed' /\ SubscribedIsServed'
  BY DEF TokenTells, ReadersHeld, ReaderFed, SubscribedIsServed, IsPending
<1>. QED  BY <1>1, <1>2, <1>3, <1>4

\* An announcement that reaches the schema reader waits in its inbox.
LEMMA DiscoverStep ==
    ASSUME IInv, NEW c \in Arrivals, NEW n \in announced, Discover(c, n)
    PROVE  IInv'
<1>. USE DEF IInv, Discover, threadVars, counterVars
<1>1. n \in Samples /\ n # NoSample
  BY FastDdsAssumption DEF TypeOK, Samples, NoSample
<1>2. /\ dds' \in Middleware /\ dds'.readers = dds.readers /\ dds'.attached = dds.attached
      /\ \A a \in Arrivals \ {c} : dds'.inbox[a] = dds.inbox[a] /\ dds'.seen[a] = dds.seen[a]
      /\ dds'.inbox[c] = n
  BY <1>1 DEF TypeOK, Middleware
<1>3. TypeOK'
  BY <1>2 DEF TypeOK
<1>4. CallsHold' /\ ChannelHeld' /\ BoundsAgree'
  BY <1>2 DEF CallsHold, CallHolds, ChannelHeld, ChannelOpen, BoundsAgree, DeclaredBoundStands
<1>5. TokenTells' /\ ReadersHeld' /\ SubscribedIsServed'
  BY DEF TokenTells, ReadersHeld, SubscribedIsServed, IsPending
<1>6. ReaderFed'
  <2>1. c <= channels /\ c \in Nat /\ channels \in Nat
    BY ArrivalsAreNumbers DEF ChannelHeld, TypeOK
  <2>. QED  BY <1>1, <1>2, <2>1 DEF TypeOK, Subscription, ReaderFed
<1>. QED  BY <1>3, <1>4, <1>5, <1>6

\* EnsureSchemaChannel, for the method op.
LEMMA EnsureSchemaChannelStep ==
    ASSUME IInv, NEW th \in Threads, NEW op \in {"Subscribe", "SubscribeSchema"},
           Entered(th), SchemaMuFree, EnsureSchemaChannel(th, op),
           op = "Subscribe" => subscribed.data_listener = NoSub /\ subs < MaxSub,
           UNCHANGED <<published, resolving, data, announced, subs>>
    PROVE  IInv'
<1>. USE DEF IInv
<1>. DEFINE n == channels + 1
            fresh == [subscribed EXCEPT !.arrival = n]
<1>1. /\ op \in Operations /\ {"open", "attach"} \subseteq Steps
      /\ mu.owner = NoThread /\ call[th] = NoCall
      /\ \A pc \in {"open", "attach"} : call' = Goto(th, op, pc) => Goes(th, op, pc)
  <2>1. op \in Operations /\ {"open", "attach"} \subseteq Steps
    BY DEF Operations, Steps
  <2>. QED  BY <2>1, GotoGoes DEF Entered
<1>2. /\ Locked(th) => mu' \in Lock /\ mu'.owner = th
      /\ \A t \in Threads : mu.owner # t
  BY <1>1, FastDdsAssumption DEF Locked, TypeOK, Lock
<1>3. n \in Nat /\ \A a \in Arrivals : a <= channels => a # n
  BY ArrivalsAreNumbers DEF TypeOK
<1>4. ~ChannelOpen =>
        /\ subscribed.data_listener = NoSub /\ subscribed.watches = 0
        /\ subscribed.resolver = NoArrival /\ subscribed.schema_reader = NoReader
        /\ subscribed.schema = Null /\ registry = {} /\ subscribed.data_reader = NoSub
  <2>. SUFFICES ASSUME ~ChannelOpen
       PROVE  /\ subscribed.data_listener = NoSub /\ subscribed.watches = 0
              /\ subscribed.resolver = NoArrival /\ subscribed.schema_reader = NoReader
              /\ subscribed.schema = Null /\ registry = {}
              /\ subscribed.data_reader = NoSub
    OBVIOUS
  <2>1. subscribed.schema_reader = NoReader /\ subscribed.schema = Null
    BY DEF ChannelOpen
  <2>2. subscribed.data_listener = NoSub /\ subscribed.watches = 0 /\ registry = {}
    BY <2>1 DEF TypeOK, Subscription, ChannelHeld
  <2>3. subscribed.resolver = NoArrival
    BY <2>1 DEF TokenTells, NoReader
  <2>4. subscribed.data_reader = NoSub
    BY <2>2 DEF ReadersHeld
  <2>. QED  BY <2>1, <2>2, <2>3, <2>4
<1>. HIDE DEF n
<1>5. /\ \A c \in dds.readers : c <= n
      /\ \A t \in Threads : call[t].schema_reader # NoReader =>
            call[t].schema_reader # n /\ call[t].schema_reader <= n
  <2>1. \A c \in Arrivals : c <= channels => c <= n
    BY ArrivalsAreNumbers DEF TypeOK, n
  <2>2. \A t \in Threads : call[t].schema_reader \in Arrivals \cup {NoReader}
    BY DEF TypeOK, Calls
  <2>3. dds.readers \subseteq Arrivals
    BY DEF TypeOK, Middleware
  <2>. QED  BY <1>3, <2>1, <2>2, <2>3 DEF ChannelHeld
<1>6. ASSUME ChannelOpen, call' = Goto(th, op, "open"), Locked(th),
             UNCHANGED <<topic, subscribed, registry, dds, channels, fails, arrival>>
      PROVE  IInv'
  <2>1. Goes(th, op, "open") /\ mu' \in Lock /\ mu'.owner = th
    BY <1>1, <1>2, <1>6
  <2>2. TypeOK'
    BY <1>6, <2>1 DEF TypeOK, Goes
  <2>3. CallsHold'
    <3>1. ASSUME NEW t \in Threads, t # th PROVE CallHolds(t)'
      <4>1. call'[t] = call[t] /\ mu.owner # t /\ mu'.owner # t
        BY <1>2, <2>1, <3>1 DEF Goes
      <4>. QED  BY <4>1, OthersHold
    <3>2. CallHolds(th)'
      <4>1. /\ call'[th].op = op /\ call'[th].pc = "open" /\ mu'.owner = th
            /\ call'[th].data_reader = NoSub /\ call'[th].schema_reader = NoReader
        <5>1. call[th].data_reader = NoSub /\ call[th].schema_reader = NoReader
          BY <1>1 DEF NoCall
        <5>. QED  BY <2>1, <5>1 DEF Goes
      <4>. QED  BY <1>6, <4>1 DEF CallHolds, Holding, ChannelOpen
    <3>. QED  BY <3>1, <3>2 DEF CallsHold
  <2>4. ChannelHeld'
    <3>1. \A t \in Threads : call'[t].schema_reader = call[t].schema_reader
      BY <2>1 DEF Goes
    <3>. QED  BY <1>6, <2>1, <3>1, FastDdsAssumption DEF ChannelHeld, ChannelOpen
  <2>5. TokenTells' /\ BoundsAgree' /\ SubscribedIsServed'
    BY <1>6
    DEF TokenTells, IsPending, BoundsAgree, DeclaredBoundStands, SubscribedIsServed
  <2>6. ReadersHeld'
    <3>1. GoesKeepsReaders
      BY <2>1 DEF Goes, GoesKeepsReaders
    <3>. QED  BY <1>6, <3>1, ReadersStay
  <2>7. ReaderFed'
    <3>1. \A t \in Threads : call[t].pc = "attach" => call'[t].pc = "attach"
      BY <1>1, <2>1 DEF Goes, NoCall
    <3>. QED  BY <1>6, <3>1 DEF ReaderFed
  <2>. QED  BY <2>2, <2>3, <2>4, <2>5, <2>6, <2>7
<1>7. ASSUME ~ChannelOpen, n \in Arrivals, published.schema_ipc # Null,
             subscribed' = [fresh EXCEPT !.schema = published.schema_ipc,
                                !.payload_bytes = published.payload_bytes],
             arrival' = Resolve(Create(arrival, n), n, published.schema_ipc),
             channels' = n, call' = Goto(th, op, "open"), Locked(th),
             UNCHANGED <<topic, registry, dds, fails>>
      PROVE  IInv'
  <2>1. Goes(th, op, "open") /\ mu' \in Lock /\ mu'.owner = th
    BY <1>1, <1>2, <1>7
  <2>2. published.schema_ipc \in Schemas /\ published.payload_bytes \in Bounds \cup {0}
    BY <1>7 DEF TypeOK, Publication
  <2>3. /\ subscribed' \in Subscription
        /\ subscribed'.arrival = n /\ subscribed'.schema = published.schema_ipc
        /\ \A f \in {"schema_reader", "resolver", "watches", "data_reader",
                     "data_listener"} : subscribed'[f] = subscribed[f]
    BY <1>7, <2>2 DEF TypeOK, Subscription
  <2>4. arrival' = [arrival EXCEPT ![n] = [status |-> "kOk", schema |-> published.schema_ipc]]
    BY <1>7 DEF TypeOK, Create, Resolve, Settle, Outcomes
  <2>5. [status |-> "kOk", schema |-> published.schema_ipc] \in Answers
    BY <2>2 DEF Answers, Outcomes
  <2>6. TypeOK'
    BY <1>3, <1>7, <2>1, <2>3, <2>4, <2>5 DEF TypeOK, Goes
  <2>7. CallsHold'
    <3>1. ASSUME NEW t \in Threads, t # th PROVE CallHolds(t)'
      <4>1. call'[t] = call[t] /\ mu.owner # t /\ mu'.owner # t
        BY <1>2, <2>1, <3>1 DEF Goes
      <4>. QED  BY <4>1, OthersHold
    <3>2. CallHolds(th)'
      BY <1>1, <1>4, <1>7, <2>1, <2>2, <2>3, FastDdsAssumption
      DEF CallHolds, Goes, Holding, ChannelOpen, NoCall
    <3>. QED  BY <3>1, <3>2 DEF CallsHold
  <2>8. ChannelHeld'
    <3>1. \A t \in Threads : call'[t].schema_reader = call[t].schema_reader
      BY <2>1 DEF Goes
    <3>2. n <= channels' /\ registry' = {} /\ subscribed'.schema_reader = NoReader
      BY <1>3, <1>4, <1>7, <2>3
    <3>. QED  BY <1>4, <1>7, <1>5, <2>1, <2>2, <2>3, <3>1, <3>2, FastDdsAssumption
              DEF ChannelHeld, ChannelOpen
  <2>9. TokenTells'
    BY <1>4, <1>7, <2>3, <2>4, ArrivalsAreNumbers DEF TypeOK, TokenTells, IsPending
  <2>10. BoundsAgree' /\ SubscribedIsServed'
    BY <1>4, <1>7, <2>3 DEF BoundsAgree, DeclaredBoundStands, SubscribedIsServed
  <2>11. ReadersHeld'
    <3>1. GoesKeepsReaders
      BY <2>1 DEF Goes, GoesKeepsReaders
    <3>. QED  BY <2>3, <3>1, ReadersStay
  <2>12. ReaderFed'
    BY <1>1, <1>3, <1>4, <1>7, <2>1, <2>3, ArrivalsAreNumbers
    DEF TypeOK, ReaderFed, Goes, NoCall, n
  <2>. QED  BY <2>6, <2>7, <2>8, <2>9, <2>10, <2>11, <2>12
<1>8. ASSUME ~ChannelOpen, n \in Arrivals, published.schema_ipc = Null,
             subscribed' = [fresh EXCEPT !.schema_reader = n, !.resolver = n],
             arrival' = Create(arrival, n), registry' = registry \cup {n},
             dds' = [dds EXCEPT !.readers = @ \cup {n}],
             topic' = [topic EXCEPT !.schema = TRUE],
             channels' = n, call' = Goto(th, op, "attach"), Locked(th)
      PROVE  IInv'
  <2>1. Goes(th, op, "attach") /\ mu' \in Lock /\ mu'.owner = th
    BY <1>1, <1>2, <1>8
  <2>2. n # NoReader
    BY <1>8, ArrivalsAreNumbers DEF NoReader
  <2>3. /\ subscribed' \in Subscription
        /\ subscribed'.arrival = n /\ subscribed'.schema_reader = n /\ subscribed'.resolver = n
        /\ \A f \in {"schema", "watches", "data_reader", "data_listener"} :
              subscribed'[f] = subscribed[f]
    BY <1>8 DEF TypeOK, Subscription
  <2>4. arrival' = [arrival EXCEPT ![n] = [status |-> "kPending", schema |-> Null]]
    BY <1>8 DEF Create
  <2>5. [status |-> "kPending", schema |-> Null] \in Answers
    BY DEF Answers
  <2>6. /\ dds' \in Middleware /\ dds'.readers = dds.readers \cup {n}
        /\ dds'.attached = dds.attached /\ dds'.inbox = dds.inbox /\ dds'.seen = dds.seen
    BY <1>8 DEF TypeOK, Middleware
  <2>7. topic' \in Topic /\ topic'.data = topic.data
    BY <1>8 DEF TypeOK, Topic
  <2>8. TypeOK'
    BY <1>3, <1>8, <2>1, <2>3, <2>4, <2>5, <2>6, <2>7 DEF TypeOK, Goes
  <2>9. CallsHold'
    <3>1. ASSUME NEW t \in Threads, t # th PROVE CallHolds(t)'
      <4>1. call'[t] = call[t] /\ mu.owner # t /\ mu'.owner # t
        BY <1>2, <2>1, <3>1 DEF Goes
      <4>. QED  BY <4>1, OthersHold
    <3>2. CallHolds(th)'
      BY <1>1, <1>4, <1>8, <2>1, <2>2, <2>3, FastDdsAssumption
      DEF CallHolds, Goes, Holding, ChannelOpen, NoCall
    <3>. QED  BY <3>1, <3>2 DEF CallsHold
  <2>10. ChannelHeld'
    <3>1. \A t \in Threads : call'[t].schema_reader = call[t].schema_reader
      BY <2>1 DEF Goes
    <3>2. registry' = {n} /\ n <= channels'
      BY <1>3, <1>4, <1>8
    <3>. QED  BY <1>4, <1>8, <1>5, <2>1, <2>2, <2>3, <2>6, <3>1, <3>2,
       FastDdsAssumption
              DEF ChannelHeld, ChannelOpen
  <2>11. TokenTells'
    BY <1>4, <1>8, <2>2, <2>3, <2>4, ArrivalsAreNumbers
    DEF TypeOK, TokenTells, IsPending, NoReader
  <2>12. BoundsAgree' /\ SubscribedIsServed'
    BY <1>4, <1>8, <2>3, <2>7 DEF BoundsAgree, DeclaredBoundStands, SubscribedIsServed
  <2>13. ReadersHeld'
    <3>1. GoesKeepsReaders
      BY <2>1 DEF Goes, GoesKeepsReaders
    <3>. QED  BY <2>3, <3>1, ReadersStay
  <2>14. ReaderFed'
    BY <1>3, <1>8, <2>1, <2>3, <2>6, ArrivalsAreNumbers DEF TypeOK, ReaderFed, Goes, n
  <2>. QED  BY <2>8, <2>9, <2>10, <2>11, <2>12, <2>13, <2>14
<1>9. ASSUME topic' = [topic EXCEPT !.schema = TRUE],
             UNCHANGED <<mu, subscribed, registry, dds, call, channels, arrival>>
      PROVE  IInv'
  <2>1. topic' \in Topic /\ topic'.data = topic.data
    BY <1>9 DEF TypeOK, Topic
  <2>2. TypeOK' /\ CallsHold' /\ ChannelHeld'
    BY <1>9, <2>1 DEF TypeOK, CallsHold, CallHolds, ChannelHeld, ChannelOpen
  <2>3. TokenTells' /\ ReadersHeld' /\ BoundsAgree' /\ ReaderFed' /\ SubscribedIsServed'
    BY <1>9, <2>1 DEF TokenTells, ReadersHeld, BoundsAgree, ReaderFed,
       SubscribedIsServed, DeclaredBoundStands, IsPending
  <2>. QED  BY <2>2, <2>3
<1>. QED  BY <1>6, <1>7, <1>8, <1>9 DEF EnsureSchemaChannel, n

\* Whatever an open does to the data topic, a declared bound stands.
LEMMA OpenedStands ==
    ASSUME IInv, NEW b \in Bounds \cup {0},
           OpenFails(b) \/ \E s \in Subs : OpenDataReader(s, b),
           UNCHANGED <<published, announced>>
    PROVE  topic' \in Topic /\ OpenedTopic(b).data \in Bounds \cup {0} /\ BoundsAgree'
<1>. USE DEF IInv
<1>1. topic' \in {topic, OpenedTopic(b)}
  BY DEF OpenFails, OpenDataReader
<1>2. OpenedTopic(b) \in Topic /\ topic \in Topic
  BY DEF OpenedTopic, TypeOK, Topic
<1>3. published.data_writer => OpenedTopic(b) = topic
  BY FastDdsAssumption DEF OpenedTopic, Retypes, BoundsAgree, DeclaredBoundStands
<1>4. BoundsAgree'
  BY <1>1, <1>3 DEF BoundsAgree, DeclaredBoundStands
<1>. QED  BY <1>1, <1>2, <1>4 DEF Topic

\* Subscribe installs its listener, with the reader if the schema is known.
LEMMA ListenStep ==
    ASSUME IInv, NEW th \in Threads, Listen(th)
    PROVE  IInv'
<1>. USE DEF IInv
<1>. DEFINE s == subs + 1
            b == subscribed.payload_bytes
<1>1. /\ s \in Subs /\ s # NoSub /\ b \in Bounds \cup {0}
      /\ mu.owner = th /\ ChannelOpen /\ subscribed.data_listener = NoSub
      /\ subscribed.data_reader = NoSub /\ call[th].data_reader = NoSub
      /\ call[th].schema_reader = NoReader
  BY FastDdsAssumption
  DEF Listen, TypeOK, Subscription, CallsHold, CallHolds, Holding, ReadersHeld, Subs, NoSub
<1>2. Unlocked => mu' \in Lock /\ mu'.owner = NoThread
  BY DEF Unlocked, TypeOK, Lock
<1>3. \/ /\ subscribed.schema = Null
         /\ subscribed' = [subscribed EXCEPT !.data_listener = s]
         /\ call' = [call EXCEPT ![th] = NoCall] /\ Unlocked
         /\ UNCHANGED <<topic, data, fails>>
      \/ /\ OpenDataReader(s, b)
         /\ subscribed' = [subscribed EXCEPT !.data_listener = s, !.data_reader = s]
         /\ call' = [call EXCEPT ![th] = NoCall] /\ Unlocked
      \/ /\ OpenFails(b)
         /\ call' = Goto(th, "Subscribe", "close")
         /\ UNCHANGED <<mu, subscribed>>
  BY DEF Listen
<1>4. /\ call[th].op = "Subscribe" /\ call[th].pc = "open" /\ subs' = s
      /\ UNCHANGED <<published, registry, resolving, dds, announced, channels, arrival>>
  BY DEF Listen, threadVars
<1>. HIDE DEF s, b
<1>5. subs' \in Nat
  BY <1>4 DEF s, TypeOK
<1>6. TokenTells' /\ topic' \in Topic /\ BoundsAgree'
  <2>1. TokenTells'
    BY <1>3, <1>4 DEF TypeOK, Subscription, TokenTells, IsPending
  <2>2. topic' \in Topic /\ BoundsAgree'
    BY <1>1, <1>3, <1>4, OpenedStands DEF TypeOK, BoundsAgree, DeclaredBoundStands
  <2>. QED  BY <2>1, <2>2
<1>7. ASSUME call' = [call EXCEPT ![th] = NoCall], Unlocked,
             NEW d \in {NoSub, s}, subscribed.schema # Null => d = s,
             subscribed' = [subscribed EXCEPT !.data_listener = s, !.data_reader = d],
             data' \in [Subs -> Bounds \cup {0}],
             \A i \in Subs : i = d \/ data'[i] = data[i]
      PROVE  IInv'
  <2>1. /\ subscribed' \in Subscription
        /\ subscribed'.data_listener = s /\ subscribed'.data_reader = d
        /\ \A f \in {"schema_reader", "arrival", "resolver", "schema", "watches"} :
              subscribed'[f] = subscribed[f]
    BY <1>1, <1>7 DEF TypeOK, Subscription
  <2>2. mu' \in Lock /\ mu'.owner = NoThread
    BY <1>2, <1>7
  <2>3. call' \in [Threads -> Calls]
    BY <1>7, NoCallType DEF TypeOK
  <2>4. TypeOK'
    BY <1>4, <1>5, <1>6, <1>7, <2>1, <2>2, <2>3 DEF TypeOK
  <2>5. CallsHold'
    BY <1>1, <1>7, <2>2, FastDdsAssumption DEF TypeOK, CallsHold, CallHolds, Holding, NoCall
  <2>6. ChannelHeld'
    BY <1>1, <1>4, <1>7, <2>1, <2>2 DEF TypeOK, ChannelHeld, ChannelOpen, NoCall
  <2>7. ReadersHeld'
    BY <1>1, <1>7, <2>1 DEF TypeOK, ReadersHeld, NoCall, Subs, NoSub
  <2>8. ReaderFed'
    BY <1>4, <1>7, <2>1 DEF TypeOK, ReaderFed, NoCall
  <2>9. SubscribedIsServed'
    BY <1>7, <2>1 DEF SubscribedIsServed
  <2>. QED  BY <1>6, <2>4, <2>5, <2>6, <2>7, <2>8, <2>9
<1>8. CASE /\ subscribed.schema = Null
           /\ subscribed' = [subscribed EXCEPT !.data_listener = s]
           /\ call' = [call EXCEPT ![th] = NoCall] /\ Unlocked
           /\ UNCHANGED <<topic, data, fails>>
  <2>1. subscribed' = [subscribed EXCEPT !.data_listener = s, !.data_reader = NoSub]
    BY <1>1, <1>8 DEF TypeOK, Subscription
  <2>. QED  BY <1>7, <1>8, <2>1 DEF TypeOK
<1>9. CASE /\ OpenDataReader(s, b)
           /\ subscribed' = [subscribed EXCEPT !.data_listener = s, !.data_reader = s]
           /\ call' = [call EXCEPT ![th] = NoCall] /\ Unlocked
  <2>1. OpenedTopic(b).data \in Bounds \cup {0}
    BY <1>1, <1>4, <1>9, OpenedStands
  <2>2. data' \in [Subs -> Bounds \cup {0}] /\ \A i \in Subs : i = s \/ data'[i] = data[i]
    BY <1>1, <1>9, <2>1 DEF OpenDataReader, TypeOK
  <2>. QED  BY <1>7, <1>9, <2>2
<1>10. CASE /\ OpenFails(b)
            /\ call' = Goto(th, "Subscribe", "close")
            /\ UNCHANGED <<mu, subscribed>>
  <2>1. Goes(th, "Subscribe", "close")
    <3>1. "Subscribe" \in Operations /\ "close" \in Steps  BY DEF Operations, Steps
    <3>. QED  BY <1>10, <3>1, GotoGoes
  <2>2. data' = data
    BY <1>10 DEF OpenFails
  <2>3. TypeOK'
    BY <1>4, <1>5, <1>6, <1>10, <2>1, <2>2 DEF TypeOK, Goes
  <2>4. CallsHold'
    <3>1. ASSUME NEW t \in Threads, t # th PROVE CallHolds(t)'
      <4>1. call'[t] = call[t] /\ mu.owner # t /\ mu'.owner # t
        BY <1>1, <1>10, <2>1, <3>1 DEF Goes
      <4>. QED  BY <4>1, OthersHold
    <3>2. CallHolds(th)'
      BY <1>1, <1>4, <1>10, <2>1 DEF CallsHold, CallHolds, Holding, Goes, ChannelOpen
    <3>. QED  BY <3>1, <3>2 DEF CallsHold
  <2>5. ChannelHeld'
    BY <1>4, <1>10, <2>1 DEF ChannelHeld, ChannelOpen, Goes
  <2>6. ReadersHeld'
    <3>1. GoesKeepsReaders
      BY <2>1 DEF Goes, GoesKeepsReaders
    <3>. QED  BY <1>10, <2>2, <3>1, ReadersStay
  <2>7. ReaderFed'
    BY <1>4, <1>10, <2>1 DEF ReaderFed, Goes
  <2>8. SubscribedIsServed'
    BY <1>4, <1>10 DEF SubscribedIsServed
  <2>. QED  BY <1>6, <2>3, <2>4, <2>5, <2>6, <2>7, <2>8
<1>. QED  BY <1>3, <1>8, <1>9, <1>10

\* The pass of the schema thread, in each of its five outcomes.
LEMMA HandleSchemaStep ==
    ASSUME IInv, HandleSchema
    PROVE  IInv'
<1>. USE DEF IInv
<1>. DEFINE c == subscribed.schema_reader
            m == dds.inbox[c]
            known == [subscribed EXCEPT !.schema = m.schema, !.payload_bytes = m.bound]
            s == subscribed.data_listener
<1>1. /\ c \in Arrivals /\ c # NoReader /\ subscribed.arrival = c
      /\ ChannelOpen /\ resolving = NoArrival
      /\ UNCHANGED <<mu, published, registry, call, announced, channels, subs>>
  <2>1. active \cap registry # {} /\ resolving = NoArrival
        /\ UNCHANGED <<mu, published, registry, call, announced, channels, subs>>
    BY DEF HandleSchema, SchemaMuFree
  <2>. QED  BY <2>1 DEF TypeOK, Subscription, ChannelHeld, ChannelOpen
<1>2. /\ dds' \in Middleware /\ dds'.readers = dds.readers
      /\ dds'.attached = dds.attached /\ dds'.seen = dds.seen
  BY <1>1 DEF HandleSchema, TypeOK, Middleware
<1>3. Usable(m) => m.schema \in Schemas /\ m.bound \in Bounds
  <2>1. m \in Samples \cup {NoSample}
    BY <1>1 DEF TypeOK, Middleware
  <2>. HIDE DEF m
  <2>2. m \in Samples => m.schema \in Schemas \cup {Garbled} /\ m.bound \in Bounds \cup {NoBound}
    BY DEF Samples
  <2>3. m = NoSample => m.bound = NoBound
    BY DEF NoSample
  <2>. QED  BY <2>1, <2>2, <2>3 DEF Usable
<1>4. \/ /\ subscribed.schema # Null
         /\ UNCHANGED <<topic, subscribed, data, resolving, fails, arrival>>
      \/ /\ subscribed.schema = Null
         /\ subscribed' = [subscribed EXCEPT !.resolver = NoArrival]
         /\ arrival' = Fail(arrival, subscribed.resolver, "kInternal")
         /\ UNCHANGED <<topic, data, resolving, fails>>
      \/ /\ subscribed.schema = Null /\ Usable(m) /\ ~OpensReader
         /\ subscribed' = known /\ resolving' = c
         /\ UNCHANGED <<topic, data, fails, arrival>>
      \/ /\ subscribed.schema = Null /\ Usable(m) /\ OpensReader
         /\ OpenDataReader(s, m.bound)
         /\ subscribed' = [known EXCEPT !.data_reader = s]
         /\ resolving' = c /\ UNCHANGED arrival
      \/ /\ subscribed.schema = Null /\ Usable(m) /\ OpensReader
         /\ OpenFails(m.bound)
         /\ subscribed' = [known EXCEPT !.resolver = NoArrival]
         /\ arrival' = Fail(arrival, subscribed.resolver, "kTransportFailure")
         /\ UNCHANGED resolving
  BY DEF HandleSchema
<1>5. subscribed \in Subscription
  BY DEF TypeOK
<1>. HIDE DEF m
<1>6. Usable(m) =>
        /\ known \in Subscription /\ known.schema = m.schema /\ known.schema # Null
        /\ \A f \in {"schema_reader", "arrival", "watches", "data_listener", "resolver",
                     "data_reader"} : known[f] = subscribed[f]
  BY <1>3, <1>5, FastDdsAssumption DEF Subscription
<1>. HIDE DEF known
<1>7. /\ subscribed' \in Subscription
      /\ \A f \in {"schema_reader", "arrival", "watches", "data_listener"} :
            subscribed'[f] = subscribed[f]
      /\ subscribed'.data_reader \in {subscribed.data_reader, s}
      /\ subscribed'.resolver \in {subscribed.resolver, NoArrival}
  BY <1>4, <1>5, <1>6 DEF Subscription
\* What does not depend on the outcome.
<1>8. CallsHold' /\ ChannelHeld'
  <2>1. ChannelOpen'
    BY <1>1, <1>7 DEF ChannelOpen
  <2>2. CallsHold'
    BY <1>1, <1>7, <2>1 DEF CallsHold, CallHolds
  <2>3. ChannelHeld'
    BY <1>1, <1>2, <1>7, <2>1 DEF ChannelHeld
  <2>. QED  BY <2>2, <2>3
<1>9. topic' \in Topic /\ BoundsAgree' /\ data' \in [Subs -> Bounds \cup {0}]
  <2>1. CASE UNCHANGED <<topic, data>>
    BY <1>1, <2>1 DEF TypeOK, BoundsAgree, DeclaredBoundStands
  <2>2. CASE /\ Usable(m) /\ OpensReader
             /\ OpenDataReader(s, m.bound) \/ OpenFails(m.bound)
    <3>1. s \in Subs
      BY <1>5, <2>2 DEF OpensReader, Subscription
    <3>2. topic' \in Topic /\ OpenedTopic(m.bound).data \in Bounds \cup {0} /\ BoundsAgree'
      BY <1>1, <1>3, <2>2, <3>1, OpenedStands
    <3>3. data' \in [Subs -> Bounds \cup {0}]
      BY <2>2, <3>2 DEF TypeOK, OpenDataReader, OpenFails
    <3>. QED  BY <3>2, <3>3
  <2>. QED  BY <1>4, <2>1, <2>2
<1>10. ReadersHeld'
  <2>1. CASE data' = data /\ subscribed'.data_reader = subscribed.data_reader
    BY <1>1, <1>7, <2>1 DEF ReadersHeld
  <2>2. CASE /\ OpensReader /\ OpenDataReader(s, m.bound) /\ subscribed'.data_reader = s
    BY <1>1, <1>7, <2>2
    DEF OpensReader, OpenDataReader, TypeOK, ReadersHeld, Subs, NoSub
  <2>. QED  BY <1>4, <1>5, <1>6, <2>1, <2>2 DEF Subscription, OpenFails
<1>11. /\ arrival' \in [Arrivals -> Answers] /\ resolving' \in Arrivals \cup {NoArrival}
       /\ TokenTells' /\ SubscribedIsServed'
  <2>0. {"kInternal", "kTransportFailure"} \subseteq Outcomes
    BY DEF Outcomes
  <2>1. CASE /\ subscribed.schema # Null /\ UNCHANGED <<subscribed, resolving, arrival>>
    BY <2>1 DEF TypeOK, TokenTells, SubscribedIsServed, IsPending
  <2>2. CASE /\ subscribed.schema = Null
             /\ subscribed' = [subscribed EXCEPT !.resolver = NoArrival]
             /\ arrival' = Fail(arrival, subscribed.resolver, "kInternal")
             /\ UNCHANGED resolving
    <3>1. /\ arrival' \in [Arrivals -> Answers]
          /\ \A a \in Arrivals : arrival'[a].status # "kPending"
          /\ \A a \in Arrivals : a # subscribed.resolver => arrival'[a] = arrival[a]
          /\ subscribed.resolver # NoArrival =>
                arrival'[subscribed.resolver].status = "kInternal"
      BY <2>0, <2>2, SpentAnswers DEF Fail
    <3>2. subscribed'.resolver = NoArrival /\ subscribed'.schema = Null
      BY <1>5, <2>2 DEF Subscription
    <3>3. arrival'[c].status = "kInternal"
      BY <1>1, <2>2, <3>1, ArrivalsAreNumbers DEF TokenTells
    <3>. QED  BY <1>7, <2>2, <3>1, <3>2, <3>3, ArrivalsAreNumbers
              DEF TypeOK, TokenTells, SubscribedIsServed, IsPending
  <2>3. CASE /\ subscribed.schema = Null /\ Usable(m) /\ UNCHANGED arrival
             /\ subscribed'.resolver = subscribed.resolver /\ subscribed'.schema # Null
             /\ subscribed'.data_reader = s \/ s = NoSub
             /\ resolving' = c
    BY <1>1, <1>7, <2>3 DEF TypeOK, TokenTells, SubscribedIsServed, IsPending
  <2>4. CASE /\ subscribed.schema = Null /\ Usable(m)
             /\ subscribed' = [known EXCEPT !.resolver = NoArrival]
             /\ arrival' = Fail(arrival, subscribed.resolver, "kTransportFailure")
             /\ UNCHANGED resolving
    <3>1. /\ arrival' \in [Arrivals -> Answers]
          /\ \A a \in Arrivals : arrival'[a].status # "kPending"
          /\ \A a \in Arrivals : a # subscribed.resolver => arrival'[a] = arrival[a]
          /\ subscribed.resolver # NoArrival =>
                arrival'[subscribed.resolver].status = "kTransportFailure"
      BY <2>0, <2>4, SpentAnswers DEF Fail
    <3>2. subscribed'.resolver = NoArrival /\ subscribed'.schema # Null
      BY <1>6, <2>4 DEF Subscription
    <3>3. arrival'[c].status \in {"kInternal", "kTransportFailure"}
      BY <1>1, <2>4, <3>1, ArrivalsAreNumbers DEF TokenTells
    <3>. QED  BY <1>1, <1>7, <2>4, <3>1, <3>2, <3>3, ArrivalsAreNumbers
              DEF TypeOK, TokenTells, SubscribedIsServed, IsPending
  <2>5. ASSUME subscribed.schema = Null, Usable(m), ~OpensReader, subscribed' = known
        PROVE  /\ subscribed'.resolver = subscribed.resolver /\ subscribed'.schema # Null
               /\ subscribed'.data_reader = s \/ s = NoSub
    BY <1>6, <2>5 DEF OpensReader, ReadersHeld
  <2>6. ASSUME Usable(m), subscribed' = [known EXCEPT !.data_reader = s]
        PROVE  /\ subscribed'.resolver = subscribed.resolver /\ subscribed'.schema # Null
               /\ subscribed'.data_reader = s
    BY <1>6, <2>6 DEF Subscription
  <2>. QED  BY <1>4, <2>1, <2>2, <2>3, <2>4, <2>5, <2>6
<1>12. TypeOK'
  BY <1>1, <1>2, <1>7, <1>9, <1>11 DEF TypeOK
<1>13. ReaderFed'
  <2>1. subscribed'.resolver # NoArrival => resolving' = subscribed'.resolver
    <3>1. CASE subscribed.schema # Null /\ UNCHANGED <<subscribed, resolving>>
      BY <1>1, <3>1 DEF TokenTells
    <3>2. CASE subscribed'.resolver = NoArrival
      BY <3>2
    <3>3. CASE resolving' = c
      BY <1>7, <3>3 DEF TokenTells
    <3>. QED  BY <1>4, <1>5, <1>6, <3>1, <3>2, <3>3 DEF Subscription
  <2>. QED  BY <1>1, <1>2, <1>7, <2>1 DEF ReaderFed
<1>. QED  BY <1>8, <1>9, <1>10, <1>11, <1>12, <1>13

\* Every step of the provider and of its environment preserves the invariant.
LEMMA NextIInv == IInv /\ [Next]_vars => IInv'
<1>. SUFFICES ASSUME IInv, [Next]_vars PROVE IInv'
  OBVIOUS
<1>1. CASE UNCHANGED vars
  BY <1>1, UntouchedStep DEF vars, threadVars, externalVars, counterVars
<1>2. ASSUME NEW th \in Threads, Method(th) PROVE IInv'
  <2>1. ASSUME NEW x \in Schemas \cup {Null}, NEW asked \in Bounds \cup {0},
               CreateTopic(th, x, asked)
        PROVE  IInv'
    BY <2>1, CreateTopicStep
  <2>2. ASSUME NEW asked \in Bounds \cup {0}, CreateTopicFails(th, asked) PROVE IInv'
    BY <2>2, CreateTopicFailsStep
  <2>3. CASE Publish(th)  BY <2>3, PublishStep
  <2>4. CASE Subscribe(th)  BY <2>4, EnsureSchemaChannelStep DEF Subscribe
  <2>5. CASE Unsubscribe(th)  BY <2>5, UnsubscribeStep
  <2>6. CASE SubscribeSchema(th)  BY <2>6, EnsureSchemaChannelStep DEF SubscribeSchema
  <2>7. CASE UnsubscribeSchema(th)  BY <2>7, UnsubscribeSchemaStep
  <2>. QED  BY <1>2, <2>1, <2>2, <2>3, <2>4, <2>5, <2>6, <2>7 DEF Method
<1>3. ASSUME NEW th \in Threads, Continue(th) PROVE IInv'
  BY <1>3, AttachStep, ListenStep, CountWatchStep, CloseUnwatchedStep,
     DeleteSchemaReaderStep, DeleteDataReaderStep, PublishReturnStep DEF Continue
<1>4. CASE SchemaLoop
  <2>1. CASE WaitReturns \/ StaleWake
    BY <2>1, UntouchedStep DEF WaitReturns, StaleWake, externalVars, counterVars
  <2>. QED  BY <1>4, <2>1, HandleSchemaStep, SettleArrivalStep DEF SchemaLoop
<1>5. CASE Destroy  BY <1>5, DestroyStep
<1>6. CASE External
  <2>1. ASSUME NEW th \in Threads, RowArrives(th) \/ CallbackReturns(th) PROVE IInv'
    BY <2>1, UntouchedStep DEF RowArrives, CallbackReturns, threadVars, counterVars
  <2>. QED  BY <1>6, <2>1, RemoteAnnouncesStep, DiscoverStep DEF External
<1>. QED  BY <1>1, <1>2, <1>3, <1>4, <1>5, <1>6 DEF Next

\* In every reachable state of the provider the inductive invariant holds.
THEOREM AlwaysIInv == Spec => []IInv
  BY InitIInv, NextIInv, PTL DEF Spec

\* A data reader never outlives its listener: Unsubscribe keeps the listener in
\* the call until delete_datareader has returned (Unsubscribe, DeleteDataReader).
THEOREM ListenerAlwaysOutlivesReader == Spec => []ListenerOutlivesReader
<1>1. IInv => ListenerOutlivesReader
  BY DEF IInv, ReadersHeld, ListenerOutlivesReader, Subs, NoSub
<1>. QED  BY <1>1, AlwaysIInv, PTL

\* Between calls the schema channel is open exactly while somebody uses it, and
\* the schema thread's registry holds exactly its reader (EnsureSchemaChannel,
\* CloseSchemaSide).
THEOREM ChannelIsAlwaysHeld == Spec => []ChannelIsHeld
<1>1. IInv => ChannelIsHeld
  BY DEF IInv, ChannelHeld, ChannelIsHeld
<1>. QED  BY <1>1, AlwaysIInv, PTL

\* A subscription whose schema is known has its data reader, or its arrival
\* failed: Subscribe and the schema thread never leave it to each other.
THEOREM SubscribedIsAlwaysServed == Spec => []SubscribedIsServed
<1>1. IInv => SubscribedIsServed
  BY DEF IInv
<1>. QED  BY <1>1, AlwaysIInv, PTL

\* The bound this instance declared is the bound of its data topic and of its
\* announcement (CreateTopic, OpenDataReader).
THEOREM DeclaredBoundAlwaysStands == Spec => []DeclaredBoundStands
<1>1. IInv => DeclaredBoundStands
  BY DEF IInv, BoundsAgree
<1>. QED  BY <1>1, AlwaysIInv, PTL

\* A pending arrival has its token, its reader in the registry and in the wait
\* set, and no announcement that reached the reader is lost (HandleSchema).
THEOREM PendingIsAlwaysFed == Spec => []PendingIsFed
<1>1. IInv => PendingIsFed
  BY ArrivalsAreNumbers
  DEF IInv, TokenTells, ChannelHeld, ReaderFed, PendingIsFed, NoReader
<1>. QED  BY <1>1, AlwaysIInv, PTL

------------------------------------------------------------------------------
(* The Fast DDS document of a process *)

\* A handle has these members.
IsHandle(h) ==
    h = [provider |-> h.provider, seat |-> h.seat, from |-> h.from, held |-> h.held,
         alive |-> h.alive, asked |-> h.asked]

\* A Fast DDS provider, also one that is gone, was made of the loaded document.
FromLoaded(h, l) ==
    h.from = "fastdds" =>
        /\ l = <<h.provider.document>>
        /\ h.provider.document.xml[1].domainId \in {0, h.asked.domain_id}

\* How an endpoint came by its QoS.
Resolved(e) ==
    \/ \E t \in DeployTopics :
          /\ e.topic = <<t>> /\ e.role = "writer"
          /\ ResolveDataWriterQos(t, e.profile) = Done(e.qos)
    \/ \E t \in DeployTopics :
          /\ e.topic = <<t>> /\ e.role = "reader"
          /\ ResolveDataReaderQos(t, e.profile) = Done(e.qos)
    \/ \E t \in DeployTopics :
          /\ e.topic = << <<t>>, "schema" >>
          /\ e.qos \in {MakeSchemaChannelWriterQos, MakeSchemaChannelReaderQos}

\* There is at most one document, and an endpoint has a provider that has it.
LoadedOnce ==
    /\ loaded = << >> \/ loaded = <<loaded[1]>>
    /\ endpoints # {} => loaded # << >>

DInv ==
    /\ LoadedOnce
    /\ \E S : providers \in Seq(S)
    /\ \A i \in DOMAIN providers : IsHandle(providers[i]) /\ FromLoaded(providers[i], loaded)
    /\ \A e \in endpoints : Resolved(e)

\* A result that is done.
LEMMA DoneIs == ASSUME NEW v PROVE Done(v).status = kOk /\ Done(v).value[1] = v
  BY DEF Done

\* Once a document is loaded, it stays: LoadDocumentOnce takes no other.
LEMMA DocumentStays ==
  ASSUME LoadedOnce, loaded # << >>, NEW seat, NEW config
  PROVE  LoadedAfter(seat, config) = loaded
<1> DEFINE document == IF config.document = NoDocument THEN FletcherDefaultProfilesDocument
                       ELSE config.document
<1>1. ASSUME LoadDocumentOnce(document).status = kOk
      PROVE  <<document>> = loaded
  <2> HIDE DEF document
  <2>1. loaded[1] = document
    BY <1>1 DEF LoadDocumentOnce, Done, Failed, kOk, kInvalidArgument
  <2>. QED
    BY <2>1 DEF LoadedOnce
<1>. QED
  BY <1>1 DEF LoadedAfter

\* The constructor of the Fast DDS provider leaves its own document loaded.
LEMMA FastDdsLoads ==
  ASSUME LoadedOnce, NEW config, NEW up, NEW p, p = FastDDSPubSubProvider(config, up),
         p.status = kOk
  PROVE  /\ LoadedAfter("fastdds", config) = <<p.value[1].document>>
         /\ p.value[1].document.xml[1].domainId \in {0, config.domain_id}
<1> DEFINE document == IF config.document = NoDocument THEN FletcherDefaultProfilesDocument
                       ELSE config.document
           bound == BoundOr(config, 65536)
           once == LoadDocumentOnce(document)
           agreed == ResolveParticipantQos(document, config.domain_id)
           Made(d) == IF ~up THEN Failed("kTransportFailure")
                      ELSE Done([settings |-> "profiles", document |-> d,
                                 domain |-> config.domain_id, bound |-> bound,
                                 attempts |-> 0])
<1>1. FastDDSPubSubProvider(config, up) =
        IF ~IsPayloadBound(bound) THEN Failed(kInvalidArgument) ELSE IfDone(agreed, Made)
  BY DEF FastDDSPubSubProvider
<1>2. once.status = kOk => once = Done(document)
  BY DEF LoadDocumentOnce, Done, Failed, kOk, kInvalidArgument
<1>3. agreed = IfDone(once, LAMBDA d : IF /\ d.xml[1].anchor
                                          /\ d.xml[1].domainId \in {0, config.domain_id}
                                       THEN Done(d) ELSE Failed(kInvalidArgument))
  BY DEF ResolveParticipantQos
<1>4. LoadedAfter("fastdds", config) =
        IF IsPayloadBound(bound) /\ once.status = kOk THEN <<document>> ELSE loaded
  BY DEF LoadedAfter
<1> HIDE DEF document, bound, once, agreed
<1>5. IsPayloadBound(bound) /\ agreed.status = kOk
      /\ p = Made(agreed.value[1])
  BY <1>1 DEF IfDone, Failed, kOk, kInvalidArgument
<1>6. once.status = kOk
  BY <1>3, <1>5 DEF IfDone
<1>7. /\ document.xml[1].domainId \in {0, config.domain_id}
      /\ agreed = Done(document)
  BY <1>2, <1>3, <1>5, <1>6, DoneIs DEF IfDone, Failed, kOk, kInvalidArgument
<1>8. p.value[1].document = document
  <2>1. p = Made(document)
    BY <1>5, <1>7, DoneIs
  <2>2. up
    BY <2>1 DEF Failed, kOk
  <2>3. PICK made : made = [settings |-> "profiles", document |-> document,
                            domain |-> config.domain_id, bound |-> bound, attempts |-> 0]
    OBVIOUS
  <2>4. p = Done(made) /\ made.document = document
    BY <2>1, <2>2, <2>3
  <2>. QED
    BY <2>4, DoneIs
<1>. QED
  BY <1>4, <1>5, <1>6, <1>7, <1>8

\* What Create returned came from the seat it asked.
LEMMA CreatedBySeat ==
  ASSUME NEW text, NEW config, NEW made, CreateProvider(text, config, made).status = kOk
  PROVE  LET seat == IfDone(ParseSelector(text), SeatOf)
             p == Factory(seat.value[1], config, made)
         IN  /\ seat.status = kOk /\ p.status = kOk
             /\ CreateProvider(text, config, made).value[1]
                  = KeepSeatAlive(p.value[1], seat.value[1])
<1> DEFINE selector == ParseSelector(text)
           seat == SeatOf(selector.value[1])
           p == Factory(seat.value[1], config, made)
           result == CreateProvider(text, config, made)
<1>1. result = IF selector.status # kOk THEN selector
               ELSE IF seat.status # kOk THEN seat
               ELSE IF p.status # kOk THEN p
               ELSE Done(KeepSeatAlive(p.value[1], seat.value[1]))
  BY DEF CreateProvider, IfDone
<1>2. IfDone(ParseSelector(text), SeatOf) = IF selector.status # kOk THEN selector ELSE seat
  BY DEF IfDone
<1> HIDE DEF selector, seat, p, result
<1>3. result.status = kOk
  BY DEF result
<1>4. selector.status = kOk /\ seat.status = kOk /\ p.status = kOk
  BY <1>1, <1>3
<1>5. result.value[1] = KeepSeatAlive(p.value[1], seat.value[1])
  BY <1>1, <1>4, DoneIs
<1>. QED
  BY <1>2, <1>4, <1>5 DEF p, result

\* A handle appended to the others.
LEMMA AppendHandle ==
  ASSUME NEW S, NEW s \in Seq(S), NEW h
  PROVE  /\ Append(s, h) \in Seq(S \cup {h})
         /\ \A i \in DOMAIN Append(s, h) : (i \in DOMAIN s /\ Append(s, h)[i] = s[i])
                                           \/ Append(s, h)[i] = h
<1>1. s \in Seq(S \cup {h})
  OBVIOUS
<1>2. Append(s, h) \in Seq(S \cup {h}) /\ Len(Append(s, h)) = Len(s) + 1
  BY <1>1
<1>3. ASSUME NEW i \in DOMAIN Append(s, h)
      PROVE  (i \in DOMAIN s /\ Append(s, h)[i] = s[i]) \/ Append(s, h)[i] = h
  <2>1. i \in 1..Len(s) + 1 /\ Len(s) \in Nat
    BY <1>2
  <2>2. CASE i = Len(s) + 1
    BY <1>1, <2>2
  <2>3. CASE i # Len(s) + 1
    <3>1. i \in 1..Len(s)
      BY <2>1, <2>3
    <3>. QED
      BY <1>1, <3>1
  <2>. QED
    BY <2>2, <2>3
<1>. QED
  BY <1>2, <1>3

\* The callable seated as "fastdds" constructs the Fast DDS provider.
LEMMA FastDdsSeat ==
  ASSUME NEW config, NEW made
  PROVE  Factory("fastdds", config, made) = FastDDSPubSubProvider(config, made[1] = "provider")
  BY Zenon DEF Factory

\* A QoS that was resolved.
LEMMA QosIs ==
  ASSUME NEW named, NEW default, NEW t, NEW profile,
         ResolveQos(named, default, t, profile).status = kOk
  PROVE  ResolveQos(named, default, t, profile)
           = Done(ResolveQos(named, default, t, profile).value[1])
<1>1. ASSUME NEW q, ResolveQos(named, default, t, profile) = Done(q)
      PROVE  ResolveQos(named, default, t, profile)
               = Done(ResolveQos(named, default, t, profile).value[1])
  BY <1>1, DoneIs
<1>2. CASE profile # "" /\ profile \in DOMAIN named
  BY <1>1, <1>2 DEF ResolveQos
<1>3. CASE profile # "" /\ profile \notin DOMAIN named
  BY <1>3 DEF ResolveQos, Failed, kOk, kInvalidArgument
<1>4. CASE profile = "" /\ t \in DOMAIN named
  BY <1>1, <1>4 DEF ResolveQos
<1>5. CASE profile = "" /\ t \notin DOMAIN named
  BY <1>1, <1>5 DEF ResolveQos
<1>. QED
  BY <1>2, <1>3, <1>4, <1>5

\* What Create leaves behind: another handle, of the document that is loaded.
LEMMA HandsKeeps ==
  ASSUME DInv, NEW text, NEW config, NEW made, Hands(text, config, made), UNCHANGED endpoints
  PROVE  DInv'
<1> DEFINE result == CreateProvider(text, config, made)
           seat == IfDone(ParseSelector(text), SeatOf)
           h == Handle(result.value[1], config)
<1>1. /\ loaded' = IF seat.status = kOk THEN LoadedAfter(seat.value[1], config) ELSE loaded
      /\ providers' = IF result.status = kOk THEN Append(providers, h) ELSE providers
  BY DEF Hands
<1> HIDE DEF result, seat, h
<1>2. loaded # << >> => loaded' = loaded
  BY <1>1, DocumentStays DEF DInv
<1>3. loaded' = loaded \/ \E d : loaded' = <<d>>
  BY <1>1 DEF LoadedAfter
<1>4. LoadedOnce'
  BY <1>2, <1>3 DEF DInv, LoadedOnce
<1>5. \A e \in endpoints' : Resolved(e)'
  BY <1>2 DEF DInv, LoadedOnce, Resolved, ResolveDataWriterQos, ResolveDataReaderQos
<1>6. ASSUME NEW g, FromLoaded(g, loaded)
      PROVE  FromLoaded(g, loaded')
  <2>1. CASE g.from # "fastdds"
    BY <2>1 DEF FromLoaded
  <2>2. CASE g.from = "fastdds"
    <3>1. loaded = <<g.provider.document>>
      BY <1>6, <2>2 DEF FromLoaded
    <3>2. loaded' = loaded
      BY <1>2, <3>1
    <3>. QED
      BY <1>6, <3>2
  <2>. QED
    BY <2>1, <2>2
<1>7. CASE result.status # kOk
  <2>1. providers' = providers
    BY <1>1, <1>7
  <2>. QED
    BY <1>4, <1>5, <1>6, <2>1 DEF DInv
<1>8. CASE result.status = kOk
  <2> DEFINE p == Factory(seat.value[1], config, made)
  <2>1. /\ seat.status = kOk /\ p.status = kOk
        /\ result.value[1] = KeepSeatAlive(p.value[1], seat.value[1])
    BY <1>8, CreatedBySeat DEF result, seat
  <2>2. h = [provider |-> p.value[1], seat |-> seat.value[1], from |-> seat.value[1],
             held |-> TRUE, alive |-> TRUE, asked |-> config]
    <3>1. KeepSeatAlive(p.value[1], seat.value[1]) =
            [provider |-> p.value[1], seat |-> seat.value[1], from |-> seat.value[1]]
      BY DEF KeepSeatAlive
    <3>2. h = Handle(result.value[1], config)
      BY DEF h
    <3>3. h = Handle([provider |-> p.value[1], seat |-> seat.value[1], from |-> seat.value[1]],
                     config)
      BY Zenon, <2>1, <3>1, <3>2
    <3> HIDE DEF h, p
    <3>. QED
      BY <3>3 DEF Handle
  <2>3. providers' = Append(providers, h) /\ loaded' = LoadedAfter(seat.value[1], config)
    BY <1>1, <1>8, <2>1
  <2> HIDE DEF p
  <2>4. FromLoaded(h, loaded')
    <3>1. SUFFICES ASSUME seat.value[1] = "fastdds"
                   PROVE  /\ loaded' = <<p.value[1].document>>
                          /\ p.value[1].document.xml[1].domainId \in {0, config.domain_id}
      BY <2>2 DEF FromLoaded
    <3>2. PICK up : p = FastDDSPubSubProvider(config, up)
      <4>1. p = Factory("fastdds", config, made)
        BY <3>1 DEF p
      <4>2. p = FastDDSPubSubProvider(config, made[1] = "provider")
        BY Zenon, <4>1, FastDdsSeat
      <4>. QED
        BY Zenon, <4>2
    <3>3. LoadedOnce /\ p.status = kOk /\ loaded' = LoadedAfter("fastdds", config)
      BY <2>1, <2>3, <3>1 DEF DInv
    <3>. QED
      BY <3>2, <3>3, FastDdsLoads
  <2>5. IsHandle(h)
    BY <2>2 DEF IsHandle
  <2>6. PICK S : providers \in Seq(S)
    BY DEF DInv
  <2>7. /\ providers' \in Seq(S \cup {h})
        /\ \A i \in DOMAIN providers' :
              (i \in DOMAIN providers /\ providers'[i] = providers[i]) \/ providers'[i] = h
    BY <2>3, <2>6, AppendHandle
  <2>8. \A i \in DOMAIN providers' : IsHandle(providers'[i]) /\ FromLoaded(providers'[i], loaded')
    BY <1>6, <2>4, <2>5, <2>7 DEF DInv
  <2>. QED
    BY <1>4, <1>5, <2>7, <2>8 DEF DInv
<1>. QED
  BY <1>7, <1>8

\* The handles' flags, and the endpoints that go with a provider.
LEMMA FlagsKeep ==
  ASSUME DInv, NEW i \in DOMAIN providers, UNCHANGED loaded, endpoints' \subseteq endpoints,
         \/ providers' = [providers EXCEPT ![i].alive = FALSE]
         \/ providers' = [providers EXCEPT ![i].held = FALSE]
  PROVE  DInv'
<1> DEFINE h == providers[i]
<1>1. PICK S : providers \in Seq(S)
  BY DEF DInv
<1>2. IsHandle(h) /\ FromLoaded(h, loaded)
  BY DEF DInv
<1>3. PICK k : /\ k \in {[h EXCEPT !.alive = FALSE], [h EXCEPT !.held = FALSE]}
               /\ providers' = [providers EXCEPT ![i] = k]
  OBVIOUS
<1>4. IsHandle(k) /\ k.from = h.from /\ k.provider = h.provider /\ k.asked = h.asked
  BY <1>2, <1>3 DEF IsHandle
<1>5. /\ providers' \in Seq(S \cup {k}) /\ DOMAIN providers' = DOMAIN providers
      /\ providers'[i] = k /\ \A j \in DOMAIN providers : j # i => providers'[j] = providers[j]
  <2>1. providers \in Seq(S \cup {k})
    BY <1>1
  <2>. QED
    BY <1>3, <2>1
<1>6. FromLoaded(k, loaded')
  BY <1>2, <1>4 DEF FromLoaded
<1>7. \A j \in DOMAIN providers' : IsHandle(providers'[j]) /\ FromLoaded(providers'[j], loaded')
  BY <1>4, <1>5, <1>6 DEF DInv, FromLoaded
<1>8. LoadedOnce' /\ \A e \in endpoints' : Resolved(e)'
  BY DEF DInv, LoadedOnce, Resolved, ResolveDataWriterQos, ResolveDataReaderQos
<1>. QED
  BY <1>5, <1>7, <1>8 DEF DInv

\* CreateTopic and Subscribe resolve against the loaded document.
LEMMA OpenKeeps ==
  ASSUME DInv, NEW i \in DOMAIN providers, NEW t \in DeployTopics, NEW profile,
         OpenWriter(i, t, profile) \/ OpenReader(i, t, profile)
  PROVE  DInv'
<1>1. UNCHANGED <<loaded, providers>> /\ providers[i].from = "fastdds"
  BY DEF OpenWriter, OpenReader, Open
<1>2. loaded = <<providers[i].provider.document>>
  BY <1>1 DEF DInv, FromLoaded
<1>3. LoadedOnce'
  BY <1>1, <1>2 DEF DInv, LoadedOnce
<1>4. ASSUME NEW e \in endpoints
      PROVE  Resolved(e)'
  BY <1>1 DEF DInv, Resolved, ResolveDataWriterQos, ResolveDataReaderQos
<1>5. ASSUME NEW e \in endpoints', e \notin endpoints, OpenWriter(i, t, profile)
      PROVE  Resolved(e)'
  <2> DEFINE resolved == ResolveDataWriterQos(t, profile)
  <2>0. endpoints' = endpoints \cup
          (IF resolved.status # kOk THEN {}
           ELSE {Endpoint(i, "writer", <<t>>, profile, resolved.value[1]),
                 Endpoint(i, "writer", << <<t>>, "schema" >>, "", MakeSchemaChannelWriterQos)})
    BY <1>5 DEF OpenWriter, Open
  <2> HIDE DEF resolved
  <2>1. /\ resolved.status = kOk
        /\ e \in {Endpoint(i, "writer", <<t>>, profile, resolved.value[1]),
                  Endpoint(i, "writer", << <<t>>, "schema" >>, "", MakeSchemaChannelWriterQos)}
    BY <1>5, <2>0
  <2>2. resolved = Done(resolved.value[1])
    BY <2>1, QosIs DEF resolved, ResolveDataWriterQos
  <2>3. CASE e = Endpoint(i, "writer", <<t>>, profile, resolved.value[1])
    <3>1. e.topic = <<t>> /\ e.role = "writer" /\ e.profile = profile
          /\ e.qos = resolved.value[1]
      BY <2>3 DEF Endpoint
    <3>2. ResolveDataWriterQos(t, e.profile)' = Done(e.qos)
      BY <1>1, <2>2, <3>1 DEF resolved, ResolveDataWriterQos
    <3>. QED
      BY <3>1, <3>2 DEF Resolved
  <2>4. CASE e = Endpoint(i, "writer", << <<t>>, "schema" >>, "", MakeSchemaChannelWriterQos)
    BY <2>4 DEF Resolved, Endpoint
  <2>. QED
    BY <2>1, <2>3, <2>4
<1>6. ASSUME NEW e \in endpoints', e \notin endpoints, OpenReader(i, t, profile)
      PROVE  Resolved(e)'
  <2> DEFINE resolved == ResolveDataReaderQos(t, profile)
  <2>0. endpoints' = endpoints \cup
          (IF resolved.status # kOk THEN {}
           ELSE {Endpoint(i, "reader", <<t>>, profile, resolved.value[1]),
                 Endpoint(i, "reader", << <<t>>, "schema" >>, "", MakeSchemaChannelReaderQos)})
    BY <1>6 DEF OpenReader, Open
  <2> HIDE DEF resolved
  <2>1. /\ resolved.status = kOk
        /\ e \in {Endpoint(i, "reader", <<t>>, profile, resolved.value[1]),
                  Endpoint(i, "reader", << <<t>>, "schema" >>, "", MakeSchemaChannelReaderQos)}
    BY <1>6, <2>0
  <2>2. resolved = Done(resolved.value[1])
    BY <2>1, QosIs DEF resolved, ResolveDataReaderQos
  <2>3. CASE e = Endpoint(i, "reader", <<t>>, profile, resolved.value[1])
    <3>1. e.topic = <<t>> /\ e.role = "reader" /\ e.profile = profile
          /\ e.qos = resolved.value[1]
      BY <2>3 DEF Endpoint
    <3>2. ResolveDataReaderQos(t, e.profile)' = Done(e.qos)
      BY <1>1, <2>2, <3>1 DEF resolved, ResolveDataReaderQos
    <3>. QED
      BY <3>1, <3>2 DEF Resolved
  <2>4. CASE e = Endpoint(i, "reader", << <<t>>, "schema" >>, "", MakeSchemaChannelReaderQos)
    BY <2>4 DEF Resolved, Endpoint
  <2>. QED
    BY <2>1, <2>3, <2>4
<1>7. \A e \in endpoints' : Resolved(e)'
  BY <1>4, <1>5, <1>6
<1>. QED
  BY <1>1, <1>3, <1>7 DEF DInv, FromLoaded

\* A process starts without a document, a provider or an endpoint.
LEMMA DeployInitInv == DeployInit => DInv
<1>. SUFFICES ASSUME DeployInit
              PROVE  DInv
  OBVIOUS
<1>1. loaded = << >> /\ providers = << >> /\ endpoints = {}
  BY DEF DeployInit
<1>2. << >> \in Seq({}) /\ DOMAIN << >> = {}
  OBVIOUS
<1>. QED
  BY <1>1, <1>2 DEF DInv, LoadedOnce

\* A step that leaves the document, the providers and the endpoints alone.
LEMMA DocumentUntouched ==
  ASSUME DInv, UNCHANGED <<loaded, providers, endpoints>>
  PROVE  DInv'
<1>1. \A e \in endpoints' : Resolved(e)'
  BY DEF DInv, Resolved, ResolveDataWriterQos, ResolveDataReaderQos
<1>. QED
  BY <1>1 DEF DInv, LoadedOnce

\* Every step of a process preserves the invariant.
LEMMA DeployStepInv == DInv /\ [DeployNext]_deployVars => DInv'
<1>. SUFFICES ASSUME DInv, [DeployNext]_deployVars
              PROVE  DInv'
  OBVIOUS
<1>1. CASE UNCHANGED deployVars
  BY <1>1, DocumentUntouched DEF deployVars
<1>2. ASSUME NEW name \in Names, NEW callable \in BOOLEAN, RegisterFactory(name, callable)
      PROVE  DInv'
  BY <1>2, DocumentUntouched DEF RegisterFactory
<1>3. ASSUME NEW callable \in BOOLEAN, SetPathResolver(callable)
      PROVE  DInv'
  BY <1>3, DocumentUntouched DEF SetPathResolver
<1>4. ASSUME NEW ask \in Asks, NEW made \in FactoryOutcomes, CreateAnother(ask[1], ask[2], made)
      PROVE  DInv'
  BY <1>4, HandsKeeps DEF CreateAnother
<1>5. ASSUME DropRegistry \/ MainStops \/ \E line \in CommandLines : MainParses(line)
      PROVE  DInv'
  BY <1>5, DocumentUntouched DEF DropRegistry, MainStops, MainParses
<1>6. ASSUME NEW i \in DOMAIN providers, DestroyProvider(i) \/ ReleaseSeat(i)
      PROVE  DInv'
  <2>1. /\ UNCHANGED loaded /\ endpoints' \subseteq endpoints
        /\ \/ providers' = [providers EXCEPT ![i].alive = FALSE]
           \/ providers' = [providers EXCEPT ![i].held = FALSE]
    BY <1>6 DEF DestroyProvider, ReleaseSeat
  <2>. QED
    BY <2>1, FlagsKeep
<1>7. ASSUME NEW i \in DOMAIN providers, NEW t \in DeployTopics, NEW profile \in ProfileNames,
             OpenWriter(i, t, profile) \/ OpenReader(i, t, profile)
      PROVE  DInv'
  BY <1>7, OpenKeeps
<1>8. ASSUME NEW made \in FactoryOutcomes, MainCreates(made)
      PROVE  DInv'
  BY <1>8, HandsKeeps DEF MainCreates
<1>. QED
  BY <1>1, <1>2, <1>3, <1>4, <1>5, <1>6, <1>7, <1>8 DEF DeployNext

\* The profiles that the built-in document has for writers and for readers.
Paired == {"fire_and_forget", "latest", "store_latest", "store_history", "lossless"}

\* What the built-in document says under a name: outside "lossless" it is the
\* same for a writer and for a reader.
LEMMA BuiltInName ==
  ASSUME NEW lossless, NEW default, default \notin Paired
  PROVE  LET named == Pairs(lossless, default)
         IN  /\ DOMAIN named = Paired \cup {default}
             /\ named["lossless"] = lossless /\ named[default] = Stream
             /\ named["fire_and_forget"] = FireAndForget /\ named["latest"] = Latest
             /\ named["store_latest"] = StoreLatest /\ named["store_history"] = StoreHistory
<1>1. DOMAIN Pairs(lossless, default) = Paired \cup {default}
  BY DEF Pairs, Paired
<1>2. Pairs(lossless, default)["lossless"] = lossless
  BY DEF Pairs
<1>3. Pairs(lossless, default)[default] = Stream
  BY DEF Pairs, Paired
<1>4. Pairs(lossless, default)["fire_and_forget"] = FireAndForget
  BY DEF Pairs
<1>5. Pairs(lossless, default)["latest"] = Latest
  BY DEF Pairs
<1>6. Pairs(lossless, default)["store_latest"] = StoreLatest
  BY DEF Pairs
<1>7. Pairs(lossless, default)["store_history"] = StoreHistory
  BY DEF Pairs
<1>. QED
  BY <1>1, <1>2, <1>3, <1>4, <1>5, <1>6, <1>7

\* The name that counts when the QoS of an endpoint is resolved.
Counts(t, profile) == IF profile # "" THEN profile ELSE t

\* The QoS the built-in document resolves for an endpoint, by that name: the
\* profile, or the topic when there is none.
LEMMA BuiltInQos ==
  ASSUME NEW lossless, NEW default, default \notin Paired, NEW t, NEW profile, NEW q,
         ResolveQos(Pairs(lossless, default), Stream, t, profile) = Done(q)
  PROVE  /\ Counts(t, profile) \notin Paired => q = Stream
         /\ Counts(t, profile) = "lossless" => q = lossless
         /\ Counts(t, profile) = "fire_and_forget" => q = FireAndForget
         /\ Counts(t, profile) = "latest" => q = Latest
         /\ Counts(t, profile) = "store_latest" => q = StoreLatest
         /\ Counts(t, profile) = "store_history" => q = StoreHistory
<1> DEFINE named == Pairs(lossless, default)
<1>1. /\ DOMAIN named = Paired \cup {default}
      /\ named["lossless"] = lossless /\ named[default] = Stream
      /\ named["fire_and_forget"] = FireAndForget /\ named["latest"] = Latest
      /\ named["store_latest"] = StoreLatest /\ named["store_history"] = StoreHistory
  BY BuiltInName
<1> HIDE DEF named
<1>2. ResolveQos(named, Stream, t, profile) = Done(q)
  BY DEF named
<1>3. Done(q).status = kOk /\ Done(q).value[1] = q
  BY DoneIs
<1>4. CASE profile # ""
  <2>1. profile \in DOMAIN named
    <3>1. SUFFICES ASSUME profile \notin DOMAIN named
                   PROVE  FALSE
      OBVIOUS
    <3>2. Failed(kInvalidArgument) = Done(q)
      BY <1>2, <1>4, <3>1 DEF ResolveQos
    <3>3. Failed(kInvalidArgument).status = kInvalidArgument
      BY DEF Failed
    <3>. QED
      BY <1>3, <3>2, <3>3 DEF kOk, kInvalidArgument
  <2>2. Done(named[profile]) = Done(q)
    BY <1>2, <1>4, <2>1 DEF ResolveQos
  <2>3. q = named[profile]
    BY <1>3, <2>2, DoneIs
  <2>. QED
    BY <1>1, <1>4, <2>1, <2>3 DEF Paired, Counts
<1>5. CASE profile = ""
  <2>1. Done(IF t \in DOMAIN named THEN named[t] ELSE Stream) = Done(q)
    BY <1>2, <1>5 DEF ResolveQos
  <2>2. q = IF t \in DOMAIN named THEN named[t] ELSE Stream
    BY <1>3, <2>1, DoneIs
  <2>. QED
    BY <1>1, <1>5, <2>2 DEF Paired, Counts
<1>. QED
  BY <1>4, <1>5

\* A writer and a reader that the built-in document decides for match.
LEMMA BuiltInMatches ==
  ASSUME NEW t, NEW profile, NEW q, NEW r,
         ResolveQos(Pairs(LosslessWriter, "default_writer"), Stream, t, profile) = Done(q),
         ResolveQos(Pairs(LosslessReader, "default_reader"), Stream, t, profile) = Done(r)
  PROVE  q.reliability = r.reliability /\ q.durability = r.durability
<1>1. "default_writer" \notin Paired /\ "default_reader" \notin Paired
  BY DEF Paired
<1>2. /\ Counts(t, profile) \notin Paired => q = Stream
      /\ Counts(t, profile) = "lossless" => q = LosslessWriter
      /\ Counts(t, profile) = "fire_and_forget" => q = FireAndForget
      /\ Counts(t, profile) = "latest" => q = Latest
      /\ Counts(t, profile) = "store_latest" => q = StoreLatest
      /\ Counts(t, profile) = "store_history" => q = StoreHistory
  BY <1>1, BuiltInQos
<1>3. /\ Counts(t, profile) \notin Paired => r = Stream
      /\ Counts(t, profile) = "lossless" => r = LosslessReader
      /\ Counts(t, profile) = "fire_and_forget" => r = FireAndForget
      /\ Counts(t, profile) = "latest" => r = Latest
      /\ Counts(t, profile) = "store_latest" => r = StoreLatest
      /\ Counts(t, profile) = "store_history" => r = StoreHistory
  BY <1>1, BuiltInQos
<1>4. /\ LosslessWriter.reliability = LosslessReader.reliability
      /\ LosslessWriter.durability = LosslessReader.durability
  BY DEF LosslessWriter, LosslessReader, Qos
<1>. QED
  BY <1>2, <1>3, <1>4 DEF Paired

\* Each of its QoS can hold the history it keeps, and a lossless writer blocks.
Holds(q) == q.history = "KEEP_LAST" => q.depth <= q.max_samples_per_instance

\* That holds of every QoS that the built-in document resolves.
LEMMA BuiltInHolds ==
  ASSUME NEW lossless \in {LosslessWriter, LosslessReader}, NEW default, default \notin Paired,
         NEW t, NEW profile, NEW q,
         ResolveQos(Pairs(lossless, default), Stream, t, profile) = Done(q)
  PROVE  /\ Holds(q)
         /\ lossless = LosslessWriter /\ q.history = "KEEP_ALL" => q.blocks
<1>1. q \in {FireAndForget, Latest, StoreLatest, StoreHistory, Stream, lossless}
  BY BuiltInQos DEF Paired
<1>2. Holds(FireAndForget) /\ FireAndForget.history = "KEEP_LAST"
  BY DEF FireAndForget, Qos, Holds
<1>3. Holds(Latest) /\ Latest.history = "KEEP_LAST"
  BY DEF Latest, Qos, Holds
<1>4. Holds(StoreLatest) /\ StoreLatest.history = "KEEP_LAST"
  BY DEF StoreLatest, Qos, Holds
<1>5. Holds(StoreHistory) /\ StoreHistory.history = "KEEP_LAST"
  BY DEF StoreHistory, Qos, Holds
<1>6. Holds(Stream) /\ Stream.history = "KEEP_LAST"
  BY DEF Stream, Qos, Holds
<1>7. Holds(LosslessWriter) /\ LosslessWriter.blocks
  BY DEF LosslessWriter, Qos, Holds
<1>8. Holds(LosslessReader)
  BY DEF LosslessReader, Qos, Holds
<1>9. "KEEP_LAST" # "KEEP_ALL"
  OBVIOUS
<1>. QED
  BY <1>1, <1>2, <1>3, <1>4, <1>5, <1>6, <1>7, <1>8, <1>9

\* The schema channel has one QoS on both sides, and it can hold its history.
LEMMA SchemaChannelHolds ==
  ASSUME NEW q \in {MakeSchemaChannelWriterQos, MakeSchemaChannelReaderQos}
  PROVE  Holds(q) /\ q.history = "KEEP_LAST" /\ q.reliability = "RELIABLE"
         /\ q.durability = "TRANSIENT_LOCAL"
  BY DEF MakeSchemaChannelWriterQos, MakeSchemaChannelReaderQos, Qos, Holds

\* The endpoints of a process that runs on the built-in document.
LEMMA BuiltInDecides ==
  ASSUME DInv, loaded = <<FletcherDefaultProfilesDocument>>, NEW e \in endpoints
  PROVE  /\ Holds(e.qos)
         /\ e.qos.history = "KEEP_ALL" /\ e.role = "writer" => e.qos.blocks
         /\ \A f \in endpoints :
              /\ e.role = "writer" /\ f.role = "reader"
              /\ e.topic = f.topic /\ e.profile = f.profile
              => e.qos.reliability = f.qos.reliability /\ e.qos.durability = f.qos.durability
<1>1. /\ loaded[1].xml[1].writers = Pairs(LosslessWriter, "default_writer")
      /\ loaded[1].xml[1].readers = Pairs(LosslessReader, "default_reader")
      /\ loaded[1].xml[1].default_writer = Stream /\ loaded[1].xml[1].default_reader = Stream
  BY DEF FletcherDefaultProfilesDocument
<1>2. \A t, profile :
        /\ ResolveDataWriterQos(t, profile) =
             ResolveQos(Pairs(LosslessWriter, "default_writer"), Stream, t, profile)
        /\ ResolveDataReaderQos(t, profile) =
             ResolveQos(Pairs(LosslessReader, "default_reader"), Stream, t, profile)
  BY <1>1 DEF ResolveDataWriterQos, ResolveDataReaderQos
<1>3. "default_writer" \notin Paired /\ "default_reader" \notin Paired
  BY DEF Paired
<1>4. ASSUME NEW f \in endpoints
      PROVE  Resolved(f)
  BY DEF DInv
<1>5. Holds(e.qos) /\ (e.qos.history = "KEEP_ALL" /\ e.role = "writer" => e.qos.blocks)
  <2>1. CASE \E t \in DeployTopics : /\ e.topic = <<t>> /\ e.role = "writer"
                                         /\ ResolveDataWriterQos(t, e.profile) = Done(e.qos)
    BY <1>2, <1>3, <2>1, BuiltInHolds
  <2>2. CASE \E t \in DeployTopics : /\ e.topic = <<t>> /\ e.role = "reader"
                                         /\ ResolveDataReaderQos(t, e.profile) = Done(e.qos)
    BY <1>2, <1>3, <2>2, BuiltInHolds
  <2>3. CASE e.qos \in {MakeSchemaChannelWriterQos, MakeSchemaChannelReaderQos}
    BY <2>3, SchemaChannelHolds
  <2>. QED
    BY <1>4, <2>1, <2>2, <2>3 DEF Resolved
<1>6. ASSUME NEW f \in endpoints, e.role = "writer", f.role = "reader",
             e.topic = f.topic, e.profile = f.profile
      PROVE  e.qos.reliability = f.qos.reliability /\ e.qos.durability = f.qos.durability
  <2>1. \A x, y : <<x>> # << <<y>>, "schema" >>
    OBVIOUS
  <2>2. CASE \E t \in DeployTopics : /\ e.topic = <<t>>
                                         /\ ResolveDataWriterQos(t, e.profile) = Done(e.qos)
    <3>1. PICK t \in DeployTopics : /\ e.topic = <<t>>
                                        /\ ResolveDataWriterQos(t, e.profile) = Done(e.qos)
      BY <2>2
    <3>2. PICK u \in DeployTopics : /\ f.topic = <<u>>
                                    /\ ResolveDataReaderQos(u, f.profile) = Done(f.qos)
      BY <1>4, <1>6, <2>1, <3>1 DEF Resolved
    <3>3. u = t
      <4>1. <<u>> = <<t>>
        BY <1>6, <3>1, <3>2
      <4>2. \A x, y : <<x>> = <<y>> => x = y
        OBVIOUS
      <4>. QED
        BY <4>1, <4>2
    <3>4. ResolveQos(Pairs(LosslessWriter, "default_writer"), Stream, t, e.profile) =
            Done(e.qos)
      BY <1>2, <3>1
    <3>5. ResolveQos(Pairs(LosslessReader, "default_reader"), Stream, t, e.profile) =
            Done(f.qos)
      BY <1>2, <1>6, <3>2, <3>3
    <3>. QED
      BY <3>4, <3>5, BuiltInMatches
  <2>3. CASE /\ e.qos \in {MakeSchemaChannelWriterQos, MakeSchemaChannelReaderQos}
             /\ \E t \in DeployTopics : e.topic = << <<t>>, "schema" >>
    <3>1. f.qos \in {MakeSchemaChannelWriterQos, MakeSchemaChannelReaderQos}
      BY <1>4, <1>6, <2>1, <2>3 DEF Resolved
    <3>. QED
      BY <2>3, <3>1, SchemaChannelHolds
  <2>. QED
    BY <1>4, <1>6, <2>2, <2>3 DEF Resolved
<1>. QED
  BY <1>5, <1>6

\* LoadDocumentOnce and the QoS that the profile document decides: whatever
\* providers a process creates, from whatever documents and under whatever
\* names, its Fast DDS providers run on one document, and on the built-in one
\* every writer matches every reader of its topic and profile.
THEOREM ProcessHasOneDocument == DeploySpec => []OneDocumentDecides
<1>1. DInv => OneDocumentDecides
  <2> SUFFICES ASSUME DInv
               PROVE  OneDocumentDecides
    OBVIOUS
  <2>1. ASSUME NEW i \in DOMAIN providers, providers[i].from = "fastdds"
        PROVE  /\ loaded = <<providers[i].provider.document>>
               /\ providers[i].provider.document.xml[1].domainId
                    \in {0, providers[i].asked.domain_id}
    BY <2>1 DEF DInv, FromLoaded
  <2>2. ASSUME loaded = <<FletcherDefaultProfilesDocument>>, NEW e \in endpoints
        PROVE  /\ e.qos.history = "KEEP_LAST" => e.qos.depth <= e.qos.max_samples_per_instance
               /\ e.qos.history = "KEEP_ALL" /\ e.role = "writer" => e.qos.blocks
               /\ \A f \in endpoints :
                    /\ e.role = "writer" /\ f.role = "reader"
                    /\ e.topic = f.topic /\ e.profile = f.profile
                    => /\ f.qos.reliability = "RELIABLE" => e.qos.reliability = "RELIABLE"
                       /\ f.qos.durability = "TRANSIENT_LOCAL"
                            => e.qos.durability = "TRANSIENT_LOCAL"
    BY <2>2, BuiltInDecides DEF Holds
  <2>. QED
    BY <2>1, <2>2 DEF OneDocumentDecides
<1>. QED
  BY <1>1, DeployInitInv, DeployStepInv, PTL DEF DeploySpec
=============================================================================
