-------------------------- MODULE InProcessProvider --------------------------
(***************************************************************************)
(* The loopback transport (pubsub/src/in_process_provider.cpp): one mutex  *)
(* over all topics, held across the callback of a delivery; one callback   *)
(* per topic; and, per subscription, an arrival that tells its schema.     *)
(*                                                                         *)
(* An instance is constructed in one of two modes: "kCarried" is           *)
(* schema-before-data; "kAsDeclared" delivers what was declared when the   *)
(* subscription was made, which may be nothing.                            *)
(*                                                                         *)
(* A call passes its door, waits for `mu`, runs its locked section, which  *)
(* is one action, and settles an arrival after the unlock.  Publish keeps  *)
(* `mu` while the subscriber's handler runs; the handler may wait for its  *)
(* own schema, and may call the provider, which refuses.                   *)
(***************************************************************************)
EXTENDS DeliveryFrame, FiniteSets

CONSTANTS
    Topics,         \* topic keys
    Schemas,        \* non-null schemas
    Opaque,         \* those the IPC writer rejects, so nothing compares them
    MaxSub,         \* bound on the subscriptions made
    MaxPublish,     \* bound on the rows published
    Null, NoTopic, NoThread

NotDeclared == "undeclared"

ASSUME InProcessAssumption ==
    /\ IsFiniteSet(Threads)
    /\ Opaque \subseteq Schemas
    /\ NotDeclared \notin Schemas \cup {Null}
    /\ MaxSub \in Nat /\ MaxPublish \in Nat
    /\ Null \notin Schemas /\ NoTopic \notin Topics /\ NoThread \notin Threads

VARIABLES
    carriage,               \* Impl::carriage, from the provider's document
    mu,                     \* owner of Impl::mu
    channel,                \* the subscription each topic's channel calls
    subscription_schema,    \* what that subscription was told
    resolver,               \* the arrival whose token the slot holds
    schema,                 \* the topic's schema
    declared,               \* the declared schema's bytes, or NotDeclared
    accepted,               \* history: declarations that succeeded
    call,                   \* the call each thread makes
    delivery,               \* the delivery each thread is in
    subs, published,        \* counters
    arrival, waiting        \* the arrivals

Subs == 1..MaxSub
NoSub == 0
Provider == "provider"

INSTANCE SchemaArrival WITH Waiters <- Threads, Arrivals <- Subs,
                            NoArrival <- NoSub

slotVars == <<channel, subscription_schema, resolver, schema, declared>>
arrivalVars == <<arrival, waiting>>
vars == <<carriage, mu, slotVars, accepted, call, delivery, subs, published,
          arrivalVars, frameVars>>

Ops == {"CreateTopic", "Publish", "Subscribe", "Unsubscribe"}
MaybeSchema == Schemas \cup {Null}
NoCall == [op |-> "none", pc |-> "idle", topic |-> NoTopic, schema |-> Null,
           token |-> NoSub]
NoDelivery == [sub |-> NoSub, schema |-> Null]

Init ==
    /\ carriage \in {"kCarried", "kAsDeclared"}
    /\ mu = NoThread
    /\ channel = [t \in Topics |-> NoSub]
    /\ subscription_schema = [t \in Topics |-> Null]
    /\ resolver = [t \in Topics |-> NoSub]
    /\ schema = [t \in Topics |-> Null]
    /\ declared = [t \in Topics |-> NotDeclared]
    /\ accepted = [t \in Topics |-> {}]
    /\ call = [th \in Threads |-> NoCall]
    /\ delivery = [th \in Threads |-> NoDelivery]
    /\ subs = 0 /\ published = 0
    /\ ArrivalInit
    /\ FrameInit

------------------------------------------------------------------------------
\* Mutant: a declaration without a schema conflicts with nothing.
ConflictsUnlessEmpty(incoming, existing) ==
    {incoming, existing} \cap (Opaque \cup {Null}) = {} /\ incoming # existing

\* DeclaredSchema::ConflictsWith: provably different shapes.
ConflictsWith(incoming, existing) ==
    incoming \notin Opaque /\ existing \notin Opaque /\ incoming # existing

\* Mutant: the method has no door.
NoDoor(th) == FALSE

\* RefuseIfInsideDeliveryOn, before any lock.
Refused(th) == InsideDeliveryOn(th, Provider)

\* What the arguments alone can refuse, before the lock is taken.
ArgumentsOK(op, x) ==
    op = "CreateTopic" /\ carriage = "kCarried" => x # Null

\* The calls on their way count against the bounds.
WithinBounds(op) ==
    LET entered == Cardinality({th \in Threads : call[th].pc = "lock"
                                                /\ call[th].op = op}) IN
    /\ op = "Publish" => published + entered < MaxPublish
    /\ op = "Subscribe" => subs + entered < MaxSub

\* A thread, which may be running a handler, calls the provider.
Enter(th, op, t, x) ==
    /\ call[th].pc \in {"idle", "callback"} /\ waiting[th].on = NoSub
    /\ ArgumentsOK(op, x) /\ WithinBounds(op)
    /\ call' = IF Refused(th) THEN call
               ELSE [call EXCEPT ![th] = [op |-> op, pc |-> "lock", topic |-> t,
                                          schema |-> x, token |-> NoSub]]
    /\ UNCHANGED <<carriage, mu, slotVars, accepted, delivery, subs, published,
                   arrivalVars, frameVars>>

Entered(th, op) == call[th].pc = "lock" /\ call[th].op = op /\ mu = NoThread

\* The call returns, or has still to settle the arrival whose token it took.
Leave(th, token) ==
    call' = [call EXCEPT ![th] = IF token = NoSub THEN NoCall
                                 ELSE [@ EXCEPT !.pc = "settle",
                                                !.token = token]]

\* CreateTopic on a declared topic: kSchemaConflict, or nothing to do.
Redeclare(th) ==
    LET t == call[th].topic
        x == call[th].schema IN
    /\ Entered(th, "CreateTopic")
    /\ declared[t] # NotDeclared
    /\ accepted' = IF ConflictsWith(x, declared[t]) THEN accepted
                   ELSE [accepted EXCEPT ![t] = @ \cup {x}]
    /\ Leave(th, NoSub)
    /\ UNCHANGED <<carriage, mu, slotVars, delivery, subs, published,
                   arrivalVars,
                   frameVars>>

\* Mutant: a declaration reaches the subscription that exists, always.
AlwaysReaches == TRUE

\* Does a first declaration reach the subscription that exists?
ReachesSubscription == carriage = "kCarried"

\* The first CreateTopic.  Where it reaches the subscription it is that one's
\* arrival, whose token leaves the lock as the local to_resolve.
Declare(th) ==
    LET t == call[th].topic
        x == call[th].schema IN
    /\ Entered(th, "CreateTopic")
    /\ declared[t] = NotDeclared
    /\ declared' = [declared EXCEPT ![t] = x]
    /\ schema' = [schema EXCEPT ![t] = x]
    /\ accepted' = [accepted EXCEPT ![t] = @ \cup {x}]
    /\ IF ReachesSubscription
       THEN /\ subscription_schema' = [subscription_schema EXCEPT ![t] = x]
            /\ resolver' = [resolver EXCEPT ![t] = NoSub]
            /\ Leave(th, resolver[t])
       ELSE /\ UNCHANGED <<subscription_schema, resolver>>
            /\ Leave(th, NoSub)
    /\ UNCHANGED <<carriage, mu, channel, delivery, subs, published,
                   arrivalVars,
                   frameVars>>

MayPublish(t) == carriage = "kCarried" => declared[t] # NotDeclared

\* Publish with nobody subscribed, or refused with kTopicNotDeclared.
PublishNothing(th) ==
    LET t == call[th].topic IN
    /\ Entered(th, "Publish")
    /\ ~MayPublish(t) \/ channel[t] = NoSub
    /\ Leave(th, NoSub)
    /\ UNCHANGED <<carriage, mu, slotVars, accepted, delivery, subs, published,
                   arrivalVars, frameVars>>

\* Mutant: the channel and the schema are copied and the lock released.
HeldByNobody(th) == NoThread

\* Who owns mu while the callback of th runs.
HeldAcross(th) == th

\* Publish delivers: DeliveryChannel::Deliver, under mu.
PublishBegin(th) ==
    LET t == call[th].topic IN
    /\ Entered(th, "Publish")
    /\ MayPublish(t) /\ channel[t] # NoSub
    /\ published' = published + 1
    /\ mu' = HeldAcross(th)
    /\ delivery' = [delivery EXCEPT ![th] = [sub |-> channel[t],
                                    schema |-> subscription_schema[t]]]
    /\ call' = [call EXCEPT ![th].pc = "callback"]
    /\ PushScope(th, Provider)
    /\ UNCHANGED <<carriage, slotVars, accepted, subs, arrivalVars, deferred>>

\* The callback returns or throws, which Deliver absorbs; Publish returns.
PublishEnd(th) ==
    /\ call[th].pc = "callback" /\ waiting[th].on = NoSub
    /\ mu' = NoThread
    /\ delivery' = [delivery EXCEPT ![th] = NoDelivery]
    /\ call' = [call EXCEPT ![th] = NoCall]
    /\ PopScope(th)
    /\ UNCHANGED <<carriage, slotVars, accepted, subs, published, arrivalVars,
                   deferred>>

\* Subscribe: the new callback replaces the old one, whose resolver is dropped.
Subscribe(th) ==
    LET t == call[th].topic
        s == subs + 1
        dropped == DropResolver(arrival, resolver[t])
        open == carriage = "kCarried" /\ schema[t] = Null IN
    /\ Entered(th, "Subscribe")
    /\ subs' = s
    /\ channel' = [channel EXCEPT ![t] = s]
    /\ resolver' = [resolver EXCEPT ![t] = IF open THEN s ELSE NoSub]
    /\ subscription_schema' = IF open THEN subscription_schema
         ELSE [subscription_schema EXCEPT ![t] = schema[t]]
    /\ arrival' = IF open THEN Create(dropped, s)
                  ELSE Ready(dropped, s, schema[t])
    /\ IF resolver[t] = NoSub THEN UNCHANGED waiting ELSE Wake(resolver[t])
    /\ Leave(th, NoSub)
    /\ UNCHANGED <<carriage, mu, schema, declared, accepted, delivery,
                   published,
                   frameVars>>

\* Unsubscribe: the token leaves the lock as the local `ended`.
Unsubscribe(th) ==
    LET t == call[th].topic IN
    /\ Entered(th, "Unsubscribe")
    /\ channel' = [channel EXCEPT ![t] = NoSub]
    /\ subscription_schema' = [subscription_schema EXCEPT ![t] = Null]
    /\ resolver' = [resolver EXCEPT ![t] = NoSub]
    /\ Leave(th, resolver[t])
    /\ UNCHANGED <<carriage, mu, schema, declared, accepted, delivery, subs,
                   published,
                   arrivalVars, frameVars>>

\* After the unlock: CreateTopic resolves, Unsubscribe destroys, its token.
AfterUnlock(th) ==
    LET a == call[th].token IN
    /\ call[th].pc = "settle"
    /\ arrival' = IF call[th].op = "CreateTopic"
                  THEN Resolve(arrival, a, call[th].schema)
                  ELSE DropResolver(arrival, a)
    /\ Wake(a)
    /\ Leave(th, NoSub)
    /\ UNCHANGED <<carriage, mu, slotVars, accepted, delivery, subs,
                   published, frameVars>>

\* A thread waits for a schema: outside the provider for any subscription's,
\* inside a handler for the one that the handler belongs to.
Wait(th, a, forever) ==
    /\ \/ call[th].pc = "idle"
       \/ call[th].pc = "callback" /\ a = delivery[th].sub
    /\ WaitBegin(th, a, forever)
    /\ UNCHANGED <<carriage, mu, slotVars, accepted, call, delivery, subs,
                   published,
                   frameVars>>

Answered(th) ==
    /\ WaitAnswered(th)
    /\ UNCHANGED <<carriage, mu, slotVars, accepted, call, delivery, subs,
                   published,
                   frameVars>>

TimedOut(th) ==
    /\ WaitTimeout(th)
    /\ UNCHANGED <<carriage, mu, slotVars, accepted, call, delivery, subs,
                   published,
                   frameVars>>

Finish(th) ==
    \/ Redeclare(th) \/ Declare(th)
    \/ PublishNothing(th) \/ PublishBegin(th) \/ PublishEnd(th)
    \/ Subscribe(th) \/ Unsubscribe(th) \/ AfterUnlock(th)
    \/ Answered(th) \/ TimedOut(th)

Next ==
    \E th \in Threads :
        \/ \E t \in Topics, op \in Ops \ {"CreateTopic"} : Enter(th, op, t, Null)
        \/ \E t \in Topics, x \in MaybeSchema : Enter(th, "CreateTopic", t, x)
        \/ Finish(th)
        \/ \E a \in Subs, forever \in BOOLEAN : Wait(th, a, forever)

Spec == Init /\ [][Next]_vars

\* Threads run, locks are handed over and timeouts expire.  Whether a thread
\* makes a further call is its own choice.
FairSpec == Spec /\ \A th \in Threads : WF_vars(Finish(th))
------------------------------------------------------------------------------
(* Properties *)

Delivering(th) == delivery[th].sub # NoSub

\* Every row a carrying instance delivers has a schema, and a row's schema is
\* the one its subscription's arrival reports: already, or, while CreateTopic
\* is between its unlock and Resolve, as soon as that thread goes on.
DeliveredAsReported ==
    \A th \in Threads : Delivering(th) =>
        LET s == delivery[th].sub IN
        /\ carriage = "kCarried" => delivery[th].schema # Null
        /\ \/ arrival[s] = [status |-> "kOk", schema |-> delivery[th].schema]
           \/ \E u \in Threads :
                 /\ call[u].pc = "settle" /\ call[u].op = "CreateTopic"
                 /\ call[u].token = s
                 /\ call[u].schema = delivery[th].schema

\* Section 7 clause 6: a handler runs only while its subscription is current,
\* so when Unsubscribe or a replacing Subscribe returns, it is not running;
\* and section 6 clause 1: one delivery at a time on the instance.
QuietAfterCancel ==
    /\ \A th \in Threads : Delivering(th) =>
          \E t \in Topics : channel[t] = delivery[th].sub
    /\ Cardinality({th \in Threads : Delivering(th)}) <= 1

\* Section 7 clause 3: unless the declared schema cannot be compared, no two
\* declarations that succeeded on one topic are provably different.
OneShapePerTopic ==
    \A t \in Topics : declared[t] \notin Opaque =>
        \A x, y \in accepted[t] \ Opaque : x = y

\* Every call of the provider returns, with handlers that call it again, and
\* every handler that waits for its own schema is answered.  An unbounded Wait
\* is safe too: it is answered once its subscription is over.
CallsReturn ==
    \A th \in Threads :
        /\ []<>(call[th].pc = "idle")
        /\ (/\ waiting[th].on # NoSub
            /\ \A t \in Topics : channel[t] # waiting[th].on)
               ~> waiting[th].on = NoSub
=============================================================================
