------------------------------ MODULE Subscriber ------------------------------
(***************************************************************************)
(* The data path of fletcher::Subscriber (pubsub/src/subscriber.cpp): the  *)
(* fan-out with one gate per subscription, the three states of an id       *)
(* (live, retiring, gone), the cancellation that waits for the callback it *)
(* cancels, the release that a handler's own cancellation owes until its   *)
(* delivery frame has ended, and the provider-level subscription that all  *)
(* the subscriptions of one topic share.                                   *)
(*                                                                         *)
(* Any thread may call the Subscriber and any thread may be the one a      *)
(* provider delivers on, so a thread has two call slots: the call it makes *)
(* outside a delivery (slot 0) and the one made by the handler it is       *)
(* running (slot 1).  A section of the code that runs under Impl::mu and   *)
(* does not block is one action; `mu` is a variable because Subscribe      *)
(* stores the new entry list, which deliveries read without the mutex,     *)
(* before the end of its section.                                          *)
(*                                                                         *)
(* The provider is its contract (provider.hpp).  ProviderKind says how it  *)
(* dispatches: "mutex" under its instance mutex, which its other methods   *)
(* take too (the in-process loopback, XRCE), "reader" one delivery at a    *)
(* time per topic, "overlap" possibly several per topic (Fast DDS, whose   *)
(* reader listener can be drained by two threads at once).                 *)
(***************************************************************************)
EXTENDS DeliveryFrame

CONSTANTS
    Topics,         \* topic keys
    Options,        \* non-empty TopicOptions values
    MaxId,          \* bound on the ids issued (next_id is a 64-bit counter)
    ProviderKind,   \* "mutex", "reader" or "overlap"
    Pumping,        \* the provider delivers on a thread inside its own methods
    PeerThreads,    \* threads it delivers to another Subscriber on
    NoTopic, NoThread, NoOptions

ASSUME SubscriberAssumption ==
    /\ MaxId \in Nat
    /\ NoTopic \notin Topics
    /\ NoThread \notin Threads
    /\ NoOptions \notin Options
    /\ ProviderKind \in {"mutex", "reader", "overlap"}
    /\ Pumping \in BOOLEAN
    /\ PeerThreads \subseteq Threads

VARIABLES
    mu,                     \* owner of Impl::mu
    next_id,                \* the next subscription id
    subscription_topic,     \* the live map, id -> topic
    entries,                \* the published entry list of each topic's fan-out
    provider_subscribed,    \* TopicState::provider_subscribed
    in_progress,            \* TopicState::provider_subscribe_in_progress
    options,                \* TopicState::options
    retirements,            \* ids in the Retirements map
    gate,                   \* owner of each id's Gate::mu
    retired,                \* each id's Gate::retired
    frame,                  \* the delivery each thread is in
    call,                   \* the call in each slot of each thread
    dtor,                   \* the destructor
    opened,                 \* external: topics the provider delivers for us
    known,                  \* ids handed to the application
    freed,                  \* history: ids whose callback state may be freed
    raced                   \* history: opened while a teardown was on its way

coreVars == <<next_id, subscription_topic, entries, options, retirements>>
gateVars == <<gate, retired>>
providerVars == <<provider_subscribed, in_progress, opened, raced>>
vars == <<mu, coreVars, gateVars, providerVars, frame, call, dtor, known,
          freed, frameVars>>

Ids == 1..MaxId
NoId == 0
Slots == {0, 1}
Contexts == Threads \X Slots

\* The tokens on a delivery stack: the provider, this Subscriber, and another
\* Subscriber over the same provider.
Provider == "provider"
Identity == "identity"
PeerIdentity == "peer"

FramePCs == {"none", "begun", "fanout", "gated", "running", "peer", "leaving",
             "closing", "swept"}
CallPCs == {"idle", "ensure", "wait", "woken", "provider", "opened", "failed",
            "rollback", "retire", "drain", "release", "decide", "teardown"}
DtorPCs == {"alive", "retire", "drain", "teardown", "dead"}

NoFrame == [pc |-> "none", topic |-> NoTopic, todo |-> {}, cur |-> NoId]

NoCall == [op |-> "none", pc |-> "idle", id |-> NoId, topic |-> NoTopic,
           options |-> NoOptions, ours |-> FALSE, deferred |-> FALSE]

Frames == [pc : FramePCs, topic : Topics \cup {NoTopic}, todo : SUBSET Ids,
           cur : Ids \cup {NoId}]

Calls == [op : {"none", "subscribe", "unsubscribe"}, pc : CallPCs,
          id : Ids \cup {NoId}, topic : Topics \cup {NoTopic},
          options : Options \cup {NoOptions}, ours : BOOLEAN,
          deferred : BOOLEAN]

Dtors == [pc : DtorPCs, thread : Threads \cup {NoThread}, ids : SUBSET Ids,
          topics : SUBSET Topics, cur : Ids \cup {NoId}]

TypeOK ==
    /\ mu \in Threads \cup {NoThread}
    /\ next_id \in 1..(MaxId + 1)
    /\ subscription_topic \in [Ids -> Topics \cup {NoTopic}]
    /\ entries \in [Topics -> SUBSET Ids]
    /\ provider_subscribed \in [Topics -> BOOLEAN]
    /\ in_progress \in [Topics -> BOOLEAN]
    /\ options \in [Topics -> Options \cup {NoOptions}]
    /\ retirements \in SUBSET Ids
    /\ gate \in [Ids -> Threads \cup {NoThread}]
    /\ retired \in [Ids -> BOOLEAN]
    /\ frame \in [Threads -> Frames]
    /\ call \in [Contexts -> Calls]
    /\ dtor \in Dtors
    /\ opened \in [Topics -> BOOLEAN]
    /\ known \in SUBSET Ids
    /\ freed \in SUBSET Ids
    /\ raced \in [Topics -> BOOLEAN]
    /\ stack \in [Threads -> Seq({Provider, Identity, PeerIdentity})]
    /\ deferred \in [Threads -> Seq(Ids)]

Init ==
    /\ mu = NoThread
    /\ next_id = 1
    /\ subscription_topic = [i \in Ids |-> NoTopic]
    /\ entries = [t \in Topics |-> {}]
    /\ provider_subscribed = [t \in Topics |-> FALSE]
    /\ in_progress = [t \in Topics |-> FALSE]
    /\ options = [t \in Topics |-> NoOptions]
    /\ retirements = {}
    /\ gate = [i \in Ids |-> NoThread]
    /\ retired = [i \in Ids |-> FALSE]
    /\ frame = [th \in Threads |-> NoFrame]
    /\ call = [c \in Contexts |-> NoCall]
    /\ dtor = [pc |-> "alive", thread |-> NoThread, ids |-> {}, topics |-> {},
               cur |-> NoId]
    /\ opened = [t \in Topics |-> FALSE]
    /\ known = {}
    /\ freed = {}
    /\ raced = [t \in Topics |-> FALSE]
    /\ FrameInit

-----------------------------------------------------------------------------
(* Where a thread is. *)

\* The call slot the thread's own code is using now.
Ctx(th) == <<th, IF frame[th].pc = "none" THEN 0 ELSE 1>>

Self(th) == call[Ctx(th)]

At(th, pc) == Self(th).pc = pc

Goto(th, pc) == call' = [call EXCEPT ![Ctx(th)].pc = pc]

Return(th) == call' = [call EXCEPT ![Ctx(th)] = NoCall]

\* A thread may start a call outside a delivery and inside a handler; no call
\* may race the destructor (spec section 6, clause 5).
CanCall(th) ==
    /\ dtor.pc = "alive"
    /\ At(th, "idle")
    /\ frame[th].pc \in {"none", "running", "peer"}

Live(i) == subscription_topic[i] # NoTopic

Running(th, i) == frame[th].pc = "running" /\ frame[th].cur = i

\* What an application may conclude when Unsubscribe returns to it: the state
\* of callback i may be freed, unless the call came from inside a delivery on
\* this Subscriber (subscriber.hpp, "the one shape").
MayFree(th, i) ==
    freed' = IF InsideDeliveryOn(th, Identity) THEN freed ELSE freed \cup {i}

\* Mutant: the waiters are not woken.
NotifyNone(c) == c

\* provider_cv.notify_all() on the calls c.
NotifyAll(c) ==
    [x \in Contexts |-> IF c[x].pc = "wait" THEN [c[x] EXCEPT !.pc = "woken"]
                                            ELSE c[x]]

\* A provider method that opens a topic waits for the instance mutex, held by
\* a provider of kind "mutex" across every delivery.
MayEnterProvider(th) ==
    ProviderKind = "mutex" => \A u \in Threads \ {th} : frame[u].pc = "none"

\* provider->Unsubscribe also waits for the deliveries in flight on its topic.
MayTearDown(th, t) ==
    /\ MayEnterProvider(th)
    /\ \A u \in Threads : frame[u].topic # t

TeardownPending(t) ==
    \E c \in Contexts : call[c].pc = "teardown" /\ call[c].topic = t

-----------------------------------------------------------------------------
(* Delivery: DeliveryChannel::Deliver around the fan-out's dispatch lambda. *)

MayDeliver(th) ==
    /\ frame[th].pc = "none"
    /\ ~Sweeping(th)
    /\ \/ call[<<th, 0>>].pc = "idle"
       \/ Pumping /\ call[<<th, 0>>].pc \in {"provider", "opened", "teardown"}
    /\ dtor.thread = th => Pumping /\ dtor.pc = "teardown"
    /\ MayEnterProvider(th)

\* A sample of t arrives: the provider's token goes on the stack.
DeliverBegin(th, t) ==
    /\ opened[t]
    /\ MayDeliver(th)
    /\ ProviderKind = "reader" => \A u \in Threads : frame[u].topic # t
    /\ frame' = [frame EXCEPT ![th] = [NoFrame EXCEPT !.pc = "begun", !.topic = t]]
    /\ PushScope(th, Provider)
    /\ UNCHANGED <<mu, coreVars, gateVars, providerVars, call, dtor, known,
                   freed, deferred>>

\* The dispatch lambda loads the entry list and pushes the identity token.
\* Ids are issued and appended under one lock, so the list is in id order and
\* the set of its ids stands for it.
FanoutLoad(th) ==
    /\ frame[th].pc = "begun"
    /\ frame' = [frame EXCEPT ![th].pc = "fanout",
                              ![th].todo = entries[frame[th].topic]]
    /\ PushScope(th, Identity)
    /\ UNCHANGED <<mu, coreVars, gateVars, providerVars, call, dtor, known,
                   freed, deferred>>

\* Mutant: retired is not looked at under the gate.
InvocableAlways(i) == TRUE

\* An entry retired since the list was loaded is passed over.
Invocable(i) == ~retired[i]

NextEntry(S, i) == i \in S /\ \A j \in S : i <= j

\* The gate of the next entry of the list is taken.
FanoutLockGate(th, i) ==
    /\ frame[th].pc = "fanout"
    /\ NextEntry(frame[th].todo, i)
    /\ gate[i] = NoThread
    /\ gate' = [gate EXCEPT ![i] = th]
    /\ frame' = [frame EXCEPT ![th].pc = "gated", ![th].cur = i,
                              ![th].todo = @ \ {i}]
    /\ UNCHANGED <<mu, coreVars, retired, providerVars, call, dtor, known,
                   freed, frameVars>>

FanoutSkip(th) ==
    /\ frame[th].pc = "gated"
    /\ ~Invocable(frame[th].cur)
    /\ gate' = [gate EXCEPT ![frame[th].cur] = NoThread]
    /\ frame' = [frame EXCEPT ![th].pc = "fanout", ![th].cur = NoId]
    /\ UNCHANGED <<mu, coreVars, retired, providerVars, call, dtor, known,
                   freed, frameVars>>

\* The callback is entered, with its own id as an argument.
FanoutInvoke(th) ==
    /\ frame[th].pc = "gated"
    /\ Invocable(frame[th].cur)
    /\ frame' = [frame EXCEPT ![th].pc = "running"]
    /\ known' = known \cup {frame[th].cur}
    /\ UNCHANGED <<mu, coreVars, gateVars, providerVars, call, dtor, freed,
                   frameVars>>

\* The callback returns or throws (the fan-out absorbs what it throws and goes
\* on with the rest of the list either way); the gate is released.
CallbackReturn(th) ==
    /\ frame[th].pc = "running"
    /\ At(th, "idle")
    /\ gate' = [gate EXCEPT ![frame[th].cur] = NoThread]
    /\ frame' = [frame EXCEPT ![th].pc = "fanout", ![th].cur = NoId]
    /\ UNCHANGED <<mu, coreVars, retired, providerVars, call, dtor, known,
                   freed, frameVars>>

\* The end of the dispatch lambda pops the identity token.
FanoutEnd(th) ==
    /\ frame[th].pc = "fanout"
    /\ frame[th].todo = {}
    /\ PopScope(th)
    /\ frame' = [frame EXCEPT ![th].pc = "leaving"]
    /\ UNCHANGED <<mu, coreVars, gateVars, providerVars, call, dtor, known,
                   freed, deferred>>

OwesWork(th) == deferred[th] # << >>

\* The provider's scope ends; work owed by the frame is run before the
\* provider's own dispatch ends.
DeliverEnd(th) ==
    /\ frame[th].pc = "leaving"
    /\ PopScope(th)
    /\ frame' = [frame EXCEPT ![th] =
                     IF OwesWork(th) THEN [@ EXCEPT !.pc = "closing"] ELSE NoFrame]
    /\ UNCHANGED <<mu, coreVars, gateVars, providerVars, call, dtor, known,
                   freed, deferred>>

\* The gate can be locked, so the callback is not running.
Barrier(i) == gate[i] = NoThread

\* The work Unsubscribe owes: wait for the gate ...
SweepBarrier(th) ==
    /\ frame[th].pc = "closing"
    /\ Barrier(NextDue(th))
    /\ frame' = [frame EXCEPT ![th].pc = "swept"]
    /\ UNCHANGED <<mu, coreVars, gateVars, providerVars, call, dtor, known,
                   freed, frameVars>>

\* ... then release the id.
SweepRelease(th) ==
    /\ frame[th].pc = "swept"
    /\ retirements' = retirements \ {NextDue(th)}
    /\ WorkDone(th)
    /\ frame' = [frame EXCEPT ![th] =
                     IF Tail(deferred[th]) = << >> THEN NoFrame
                                                   ELSE [@ EXCEPT !.pc = "closing"]]
    /\ UNCHANGED <<mu, next_id, subscription_topic, entries, options, gateVars,
                   providerVars, call, dtor, known, freed, stack>>

\* external: the same provider delivers to a handler of another Subscriber,
\* which may call this one.
PeerBegin(th) ==
    /\ MayDeliver(th)
    /\ frame' = [frame EXCEPT ![th].pc = "peer"]
    /\ stack' = [stack EXCEPT ![th] = <<Provider, PeerIdentity>>]
    /\ UNCHANGED <<mu, coreVars, gateVars, providerVars, call, dtor, known,
                   freed, deferred>>

PeerEnd(th) ==
    /\ frame[th].pc = "peer"
    /\ At(th, "idle")
    /\ frame' = [frame EXCEPT ![th] = NoFrame]
    /\ stack' = [stack EXCEPT ![th] = << >>]
    /\ UNCHANGED <<mu, coreVars, gateVars, providerVars, call, dtor, known,
                   freed, deferred>>

-----------------------------------------------------------------------------
(* Subscribe *)

\* The section under mu begins: a new id, the live map, and the entry list,
\* published to deliveries before anything else of the call has happened.
SubscribeInsert(th, t, o) ==
    /\ CanCall(th)
    /\ mu = NoThread
    /\ next_id \in Ids
    /\ mu' = th
    /\ next_id' = next_id + 1
    /\ subscription_topic' = [subscription_topic EXCEPT ![next_id] = t]
    /\ entries' = [entries EXCEPT ![t] = @ \cup {next_id}]
    /\ call' = [call EXCEPT ![Ctx(th)] =
                   [NoCall EXCEPT !.op = "subscribe", !.pc = "ensure",
                                  !.id = next_id, !.topic = t, !.options = o,
                                  !.ours = TRUE]]
    /\ UNCHANGED <<options, retirements, gateVars, providerVars, frame, dtor,
                   known, freed, frameVars>>

\* require_options_match: a later caller repeats or omits what is stored.
OptionsMatch(t, o) == o = NoOptions \/ o = options[t]

\* EnsureProviderSubscription, the topic being subscribed already: the call
\* joins it without entering the provider.
EnsureJoin(th) ==
    /\ At(th, "ensure")
    /\ provider_subscribed[Self(th).topic]
    /\ OptionsMatch(Self(th).topic, Self(th).options)
    /\ known' = known \cup {Self(th).id}
    /\ mu' = NoThread
    /\ Return(th)
    /\ UNCHANGED <<coreVars, gateVars, providerVars, frame, dtor, freed,
                   frameVars>>

\* The options conflict, or the provider would be entered from inside its own
\* delivery: an exception, with mu still held.
EnsureRefuse(th) ==
    /\ At(th, "ensure")
    /\ IF provider_subscribed[Self(th).topic]
         THEN ~OptionsMatch(Self(th).topic, Self(th).options)
         ELSE InsideDeliveryOn(th, Provider)
    /\ Goto(th, "rollback")
    /\ UNCHANGED <<mu, coreVars, gateVars, providerVars, frame, dtor, known,
                   freed, frameVars>>

MustEnterProvider(th) ==
    /\ At(th, "ensure")
    /\ ~provider_subscribed[Self(th).topic]
    /\ ~InsideDeliveryOn(th, Provider)

\* Another first Subscribe of the topic is inside the provider: wait for it.
EnsureWait(th) ==
    /\ MustEnterProvider(th)
    /\ in_progress[Self(th).topic]
    /\ mu' = NoThread
    /\ Goto(th, "wait")
    /\ UNCHANGED <<coreVars, gateVars, providerVars, frame, dtor, known, freed,
                   frameVars>>

\* A notified waiter takes mu again and evaluates everything afresh.
EnsureWake(th) ==
    /\ At(th, "woken")
    /\ mu = NoThread
    /\ mu' = th
    /\ Goto(th, "ensure")
    /\ UNCHANGED <<coreVars, gateVars, providerVars, frame, dtor, known, freed,
                   frameVars>>

FirstSubscribe(t) == ~in_progress[t]

\* This call is the first: it leaves mu and enters the provider.
EnsureEnter(th) ==
    /\ MustEnterProvider(th)
    /\ FirstSubscribe(Self(th).topic)
    /\ in_progress' = [in_progress EXCEPT ![Self(th).topic] = TRUE]
    /\ mu' = NoThread
    /\ Goto(th, "provider")
    /\ UNCHANGED <<coreVars, gateVars, provider_subscribed, opened, raced,
                   frame, dtor, known, freed, frameVars>>

\* external: provider->SubscribeWithOptions registers the dispatch callback;
\* samples may arrive from here on.  Over a channel that is still open a
\* provider replaces it (loopback) or refuses (ProviderThrow).
ProviderOpen(th) ==
    /\ At(th, "provider")
    /\ MayEnterProvider(th)
    /\ opened' = [opened EXCEPT ![Self(th).topic] = TRUE]
    /\ raced' = [raced EXCEPT ![Self(th).topic] = TeardownPending(Self(th).topic)]
    /\ Goto(th, "opened")
    /\ UNCHANGED <<mu, coreVars, gateVars, provider_subscribed, in_progress,
                   frame, dtor, known, freed, frameVars>>

\* external: provider->SubscribeWithOptions throws, before it has registered
\* the callback, or after it has delivered to it and closed its channel again.
ProviderThrow(th) ==
    /\ \/ At(th, "provider") /\ MayEnterProvider(th)
       \/ At(th, "opened") /\ MayTearDown(th, Self(th).topic)
    /\ opened' = [opened EXCEPT ![Self(th).topic] = @ /\ At(th, "provider")]
    /\ Goto(th, "failed")
    /\ UNCHANGED <<mu, coreVars, gateVars, provider_subscribed, in_progress,
                   raced, frame, dtor, known, freed, frameVars>>

\* The provider has returned: the topic is subscribed, the flag is cleared and
\* the waiters are woken in one section, and Subscribe returns its id.
SubscribeReturn(th) ==
    /\ At(th, "opened")
    /\ mu = NoThread
    /\ provider_subscribed' = [provider_subscribed EXCEPT ![Self(th).topic] = TRUE]
    /\ in_progress' = [in_progress EXCEPT ![Self(th).topic] = FALSE]
    /\ options' = [options EXCEPT ![Self(th).topic] = Self(th).options]
    /\ known' = known \cup {Self(th).id}
    /\ call' = NotifyAll([call EXCEPT ![Ctx(th)] = NoCall])
    /\ UNCHANGED <<mu, next_id, subscription_topic, entries, retirements,
                   gateVars, opened, raced, frame, dtor, freed, frameVars>>

\* Subscribe's catch block, in the section the exception left open or, after
\* the provider threw, in the one the in-progress guard opens.  An id a handler
\* has cancelled meanwhile has no entry left and nothing to drain.
SubscribeRollback(th) ==
    LET i == Self(th).id
        t == Self(th).topic
        next == IF i \in entries[t] THEN [Self(th) EXCEPT !.pc = "retire"]
                                    ELSE NoCall
    IN  /\ \/ /\ At(th, "rollback")
              /\ in_progress' = in_progress
              /\ call' = [call EXCEPT ![Ctx(th)] = next]
           \/ /\ At(th, "failed")
              /\ mu = NoThread
              /\ in_progress' = [in_progress EXCEPT ![t] = FALSE]
              /\ call' = NotifyAll([call EXCEPT ![Ctx(th)] = next])
        /\ mu' = NoThread
        /\ subscription_topic' = [subscription_topic EXCEPT ![i] = NoTopic]
        /\ entries' = [entries EXCEPT ![t] = @ \ {i}]
        /\ retirements' = IF i \in entries[t] THEN retirements \cup {i}
                                              ELSE retirements
        /\ UNCHANGED <<next_id, options, gateVars, provider_subscribed, opened,
                       raced, frame, dtor, known, freed, frameVars>>

\* The rolled-back id leaves the retirements and the exception goes on.
RollbackRelease(th) ==
    /\ At(th, "release")
    /\ retirements' = retirements \ {Self(th).id}
    /\ MayFree(th, Self(th).id)
    /\ Return(th)
    /\ UNCHANGED <<mu, next_id, subscription_topic, entries, options, gateVars,
                   providerVars, frame, dtor, known, frameVars>>

-----------------------------------------------------------------------------
(* Unsubscribe *)

\* Neither live nor retiring: a no-op.
UnsubscribeGone(th, i) ==
    /\ CanCall(th)
    /\ mu = NoThread
    /\ ~Live(i) /\ i \notin retirements
    /\ MayFree(th, i)
    /\ UNCHANGED <<mu, coreVars, gateVars, providerVars, frame, call, dtor,
                   known, frameVars>>

\* Retiring: another call is cancelling it now, and this one waits with it.
UnsubscribeDuplicate(th, i) ==
    /\ CanCall(th)
    /\ mu = NoThread
    /\ ~Live(i) /\ i \in retirements
    /\ call' = [call EXCEPT ![Ctx(th)] =
                   [NoCall EXCEPT !.op = "unsubscribe", !.pc = "retire",
                                  !.id = i]]
    /\ UNCHANGED <<mu, coreVars, gateVars, providerVars, frame, dtor, known,
                   freed, frameVars>>

\* Live: out of the live map and the entry list, into the retirements.
UnsubscribeRemove(th, i) ==
    /\ CanCall(th)
    /\ mu = NoThread
    /\ Live(i)
    /\ subscription_topic' = [subscription_topic EXCEPT ![i] = NoTopic]
    /\ entries' = [entries EXCEPT ![subscription_topic[i]] = @ \ {i}]
    /\ retirements' = retirements \cup {i}
    /\ call' = [call EXCEPT ![Ctx(th)] =
                   [NoCall EXCEPT !.op = "unsubscribe", !.pc = "retire",
                                  !.id = i, !.topic = subscription_topic[i],
                                  !.ours = TRUE]]
    /\ UNCHANGED <<mu, next_id, options, gateVars, providerVars, frame, dtor,
                   known, freed, frameVars>>

\* Mutant: the barrier is taken inside a delivery too.
NeverSkipsBarrier(th) == FALSE

\* A thread inside a delivery on this Subscriber does not wait for a gate.
SkipsBarrier(th) == InsideDeliveryOn(th, Identity)

\* RetireAndDrain outside a delivery on this Subscriber: retired is stored,
\* then the gate is waited for.
Retire(th) ==
    /\ At(th, "retire")
    /\ ~SkipsBarrier(th)
    /\ retired' = [retired EXCEPT ![Self(th).id] = TRUE]
    /\ Goto(th, "drain")
    /\ UNCHANGED <<mu, coreVars, gate, providerVars, frame, dtor, known, freed,
                   frameVars>>

\* Mutant: nobody owes the release, and the second section makes it.
OwesNoRelease(th) == FALSE

\* The call that retired the id owes its release.
OwesRelease(th) == Self(th).ours

\* RetireAndDrain inside one: no wait.  The call that owns the retirement owes
\* its release; a duplicate just returns.
RetireInsideDelivery(th) ==
    /\ At(th, "retire")
    /\ SkipsBarrier(th)
    /\ retired' = [retired EXCEPT ![Self(th).id] = TRUE]
    /\ IF OwesRelease(th) THEN DeferUntilDeliveryDepthZero(th, Self(th).id)
                          ELSE UNCHANGED deferred
    /\ call' = [call EXCEPT ![Ctx(th)] =
                   IF @.ours /\ @.op = "unsubscribe"
                     THEN [@ EXCEPT !.pc = "decide", !.deferred = OwesRelease(th)]
                     ELSE NoCall]
    /\ UNCHANGED <<mu, coreVars, gate, providerVars, frame, dtor, known, freed,
                   stack>>

\* Mutant: a duplicate cancellation does not wait.
DrainedIfOurs(th) == Self(th).ours => Barrier(Self(th).id)

Drained(th) == Barrier(Self(th).id)

\* The barrier has been passed: a duplicate cancellation is done.
Drain(th) ==
    /\ At(th, "drain")
    /\ Drained(th)
    /\ IF Self(th).ours
         THEN /\ Goto(th, IF Self(th).op = "subscribe" THEN "release" ELSE "decide")
              /\ UNCHANGED freed
         ELSE /\ Return(th)
              /\ MayFree(th, Self(th).id)
    /\ UNCHANGED <<mu, coreVars, gateVars, providerVars, frame, dtor, known,
                   frameVars>>

\* Mutant: whoever cancels tears the topic down.
NobodyLooksLeft(t) == TRUE

NobodyLeft(t) == entries[t] = {}

\* Nobody is left on the topic and the provider may be entered.
LastOne(th) ==
    /\ NobodyLeft(Self(th).topic)
    /\ provider_subscribed[Self(th).topic]
    /\ ~InsideDeliveryOn(th, Provider)

\* Mutant: the flag is cleared before the door question is asked.
ClearsFlagFirst(th) == NobodyLeft(Self(th).topic)

ClearsFlag(th) == LastOne(th)

\* The second section under mu: the id is released unless that is owed, and
\* the last one out flips provider_subscribed.
UnsubscribeDecide(th) ==
    /\ At(th, "decide")
    /\ mu = NoThread
    /\ retirements' = IF Self(th).deferred THEN retirements
                                           ELSE retirements \ {Self(th).id}
    /\ provider_subscribed' = [provider_subscribed EXCEPT ![Self(th).topic] =
                                   @ /\ ~ClearsFlag(th)]
    /\ IF LastOne(th)
         THEN Goto(th, "teardown") /\ UNCHANGED freed
         ELSE Return(th) /\ MayFree(th, Self(th).id)
    /\ UNCHANGED <<mu, next_id, subscription_topic, entries, options, gateVars,
                   in_progress, opened, raced, frame, dtor, known, frameVars>>

\* external: provider->Unsubscribe, with no lock held.
ProviderUnsubscribe(th) ==
    /\ At(th, "teardown")
    /\ MayTearDown(th, Self(th).topic)
    /\ opened' = [opened EXCEPT ![Self(th).topic] = FALSE]
    /\ MayFree(th, Self(th).id)
    /\ Return(th)
    /\ UNCHANGED <<mu, coreVars, gateVars, provider_subscribed, in_progress,
                   raced, frame, dtor, known, frameVars>>

-----------------------------------------------------------------------------
(* ~Subscriber, with no call in flight and outside every delivery of its own
   thread *)

DtorBegin(th) ==
    /\ dtor.pc = "alive"
    /\ \A c \in Contexts : call[c].pc = "idle"
    /\ frame[th].pc = "none"
    /\ LET ids == {i \in Ids : Live(i)}
       IN  /\ dtor' = [dtor EXCEPT !.pc = "retire", !.thread = th, !.ids = ids]
           /\ retirements' = retirements \cup ids
    /\ entries' = [t \in Topics |-> {}]
    /\ subscription_topic' = [i \in Ids |-> NoTopic]
    /\ UNCHANGED <<mu, next_id, options, gateVars, providerVars, frame, call,
                   known, freed, frameVars>>

DtorRetire(i) ==
    /\ dtor.pc = "retire"
    /\ i \in dtor.ids
    /\ retired' = [retired EXCEPT ![i] = TRUE]
    /\ dtor' = [dtor EXCEPT !.pc = "drain", !.ids = @ \ {i}, !.cur = i]
    /\ UNCHANGED <<mu, coreVars, gate, providerVars, frame, call, known, freed,
                   frameVars>>

DtorDrain ==
    /\ dtor.pc = "drain"
    /\ Barrier(dtor.cur)
    /\ retirements' = retirements \ {dtor.cur}
    /\ dtor' = [dtor EXCEPT !.pc = "retire", !.cur = NoId]
    /\ UNCHANGED <<mu, next_id, subscription_topic, entries, options, gateVars,
                   providerVars, frame, call, known, freed, frameVars>>

\* Mutant: only topics that still have entries are torn down.
ListedTopics == {t \in Topics : provider_subscribed[t] /\ entries[t] # {}}

SubscribedTopics == {t \in Topics : provider_subscribed[t]}

DtorCollect ==
    /\ dtor.pc = "retire"
    /\ dtor.ids = {}
    /\ dtor' = [dtor EXCEPT !.pc = "teardown",
                            !.topics = SubscribedTopics]
    /\ provider_subscribed' = [t \in Topics |-> FALSE]
    /\ UNCHANGED <<mu, coreVars, gateVars, in_progress, opened, raced, frame,
                   call, known, freed, frameVars>>

DtorTearDown(t) ==
    /\ dtor.pc = "teardown"
    /\ t \in dtor.topics
    /\ frame[dtor.thread].pc = "none"
    /\ MayTearDown(dtor.thread, t)
    /\ opened' = [opened EXCEPT ![t] = FALSE]
    /\ dtor' = [dtor EXCEPT !.topics = @ \ {t}]
    /\ UNCHANGED <<mu, coreVars, gateVars, provider_subscribed, in_progress,
                   raced, frame, call, known, freed, frameVars>>

DtorEnd ==
    /\ dtor.pc = "teardown"
    /\ dtor.topics = {}
    /\ frame[dtor.thread].pc = "none"
    /\ dtor' = [dtor EXCEPT !.pc = "dead"]
    /\ freed' = freed \cup {i \in Ids : i < next_id}
    /\ UNCHANGED <<mu, coreVars, gateVars, providerVars, frame, call, known,
                   frameVars>>

-----------------------------------------------------------------------------

\* What the application and the transport may start at any time.
Start(th) ==
    \/ \E t \in Topics : DeliverBegin(th, t)
    \/ th \in PeerThreads /\ PeerBegin(th)
    \/ \E t \in Topics, o \in Options \cup {NoOptions} : SubscribeInsert(th, t, o)
    \/ \E i \in known : \/ UnsubscribeGone(th, i)
                        \/ UnsubscribeDuplicate(th, i)
                        \/ UnsubscribeRemove(th, i)
    \/ DtorBegin(th)

\* A handler makes as many calls as it likes before it returns.
HandlerReturn(th) == CallbackReturn(th) \/ PeerEnd(th)

\* Steps of calls that are inside the provider: they compete with deliveries
\* for its mutex, or make them.
InProvider(th) ==
    ProviderOpen(th) \/ SubscribeReturn(th) \/ ProviderUnsubscribe(th)

\* The other steps of what has been started.
Step(th) ==
    \/ FanoutLoad(th)
    \/ \E i \in Ids : FanoutLockGate(th, i)
    \/ FanoutSkip(th) \/ FanoutInvoke(th)
    \/ FanoutEnd(th) \/ DeliverEnd(th)
    \/ SweepBarrier(th) \/ SweepRelease(th)
    \/ EnsureJoin(th) \/ EnsureRefuse(th) \/ EnsureWait(th) \/ EnsureWake(th)
    \/ EnsureEnter(th)
    \/ SubscribeRollback(th) \/ RollbackRelease(th)
    \/ Retire(th) \/ RetireInsideDelivery(th) \/ Drain(th)
    \/ UnsubscribeDecide(th)

DtorStep ==
    \/ \E i \in Ids : DtorRetire(i)
    \/ DtorDrain \/ DtorCollect \/ DtorEnd

DtorInProvider == \E t \in Topics : DtorTearDown(t)

\* Nothing has been started and not finished; the system may stay so.
Quiet ==
    /\ \A c \in Contexts : call[c].pc = "idle"
    /\ \A th \in Threads : frame[th].pc = "none"
    /\ dtor.pc \in {"alive", "dead"}
    /\ UNCHANGED vars

Next ==
    \/ \E th \in Threads : \/ Start(th) \/ Step(th) \/ HandlerReturn(th)
                           \/ InProvider(th) \/ ProviderThrow(th)
    \/ DtorStep \/ DtorInProvider
    \/ Quiet

Spec == Init /\ [][Next]_vars

-----------------------------------------------------------------------------
(* Safety *)

\* Once Unsubscribe has returned to a caller outside a delivery on this
\* Subscriber - the winner, a duplicate that raced it, a late no-op, a caller
\* racing a handler's cancellation of itself or of a sibling - the callback is
\* not running, and it never runs again (subscriber.hpp, "Once this returns").
\* The same of a Subscribe that was rolled back and of the destructor.
FreedNotRunning ==
    \A i \in freed : \A th \in Threads : ~Running(th, i)

\* "Live", "retiring" and "gone" have no window between them: an id is in the
\* live map exactly when its entry is listed under its topic, never while it
\* is retiring, and an issued id that is in neither is silent for good - what
\* the no-op branch of Unsubscribe relies on.
Silent(i) == retired[i] /\ \A th \in Threads : ~Running(th, i)

IdStates ==
    /\ \A i \in Ids, t \in Topics : i \in entries[t] <=> subscription_topic[i] = t
    /\ \A i \in Ids : Live(i) => i < next_id /\ i \notin retirements
    /\ \A i \in Ids : i < next_id /\ ~Live(i) /\ i \notin retirements => Silent(i)

\* A thread that waits for a gate in Unsubscribe or in the sweep holds neither
\* a gate of this Subscriber nor mu, and a thread inside the provider holds
\* neither as well: no cycle of waiting can close (the lock-order note).
WaitersHoldNothing ==
    \A th \in Threads :
        \/ Self(th).pc \in {"drain", "provider", "opened", "teardown", "wait"}
        \/ frame[th].pc = "closing"
        => mu # th /\ \A i \in Ids : gate[i] # th

\* The Subscriber and the provider agree on which topics are subscribed: a
\* topic the Subscriber counts on is open at the provider, unless it was opened
\* into the published window between Unsubscribe's decision and its provider
\* call; the provider holds nothing open that nobody will close; and a topic
\* has at most one first Subscribe inside the provider, never over its own live
\* channel, but for a teardown that is on its way.
ProviderAgreement ==
    \A t \in Topics :
        LET inside == {c \in Contexts : call[c].pc \in {"provider", "opened", "failed"}
                                        /\ call[c].topic = t}
        IN  /\ provider_subscribed[t] /\ ~raced[t] => opened[t]
            /\ opened[t] => \/ provider_subscribed[t]
                            \/ TeardownPending(t)
                            \/ t \in dtor.topics
                            \/ \E c \in inside : call[c].pc = "opened"
            /\ \A c, d \in inside : c = d
            /\ in_progress[t] <=> inside # {}
            /\ inside # {} => ~provider_subscribed[t]
            /\ \A c \in inside : call[c].pc = "provider" /\ opened[t]
                                    => TeardownPending(t)

\* A subscription whose Subscribe has returned is served: as long as it is
\* live, its topic stays subscribed, whoever else comes and goes on it.
LiveIsServed ==
    \A i \in Ids :
        Live(i) => \/ provider_subscribed[subscription_topic[i]]
                   \/ \E c \in Contexts : call[c].op = "subscribe" /\ call[c].id = i

\* After the destructor no callback runs, a handler that had cancelled itself
\* included, and the provider holds no subscription of ours.
DestroyedMeansSilent ==
    dtor.pc = "dead" =>
        /\ \A th \in Threads, i \in Ids : ~Running(th, i)
        /\ \A t \in Topics : ~opened[t]

-----------------------------------------------------------------------------
(* Liveness.  Threads that can run do run, handlers return, and neither the
   provider's mutex nor a delivery keeps out a waiter for ever. *)

Fairness ==
    /\ \A th \in Threads : /\ WF_vars(Step(th))
                           /\ SF_vars(HandlerReturn(th))
                           /\ SF_vars(InProvider(th))
    /\ WF_vars(DtorStep)
    /\ SF_vars(DtorInProvider)

FairSpec == Spec /\ Fairness

\* Every call returns: no cancellation hangs, no waiter for another thread's
\* first Subscribe is left asleep.  And an owed release is paid: an id does not
\* stay retiring for ever.
CallsReturn ==
    /\ \A c \in Contexts : call[c].pc # "idle" ~> call[c].pc = "idle"
    /\ \A i \in Ids : i \in retirements ~> i \notin retirements
=============================================================================
