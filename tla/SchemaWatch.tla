----------------------------- MODULE SchemaWatch -----------------------------
(***************************************************************************)
(* Schema watches of fletcher::Subscriber (SubscribeSchema and             *)
(* UnsubscribeSchema, pubsub/src/subscriber.cpp): one topic's counted      *)
(* watches over the one watch the provider holds for it.                   *)
(*                                                                         *)
(* The provider is its contract, and the strictest one: it dispatches      *)
(* under an instance mutex that its methods take too, it refuses a call    *)
(* made inside a delivery, and a second SubscribeSchema on an open watch   *)
(* returns the arrival of the first.  Arrivals are numbered by the watch   *)
(* they belong to.  A caller releases only what it was granted.            *)
(***************************************************************************)
EXTENDS DeliveryFrame, FiniteSets

CONSTANTS
    MaxCall,        \* bound on the calls that may reach the provider
    MaxDelivery,    \* bound on the deliveries
    NoOwner         \* nobody holds the provider's mutex

ASSUME SchemaWatchAssumption ==
    /\ IsFiniteSet(Threads) /\ NoOwner \notin Threads
    /\ MaxCall \in Nat /\ MaxDelivery \in Nat

VARIABLES
    schema_watches,     \* TopicState::schema_watches
    in_progress,        \* TopicState::schema_watch_in_progress
    cached,             \* TopicState::schema_watch_arrival
    watch_call,         \* the call each thread makes
    granted,            \* the arrivals each thread may release
    alive,              \* the Subscriber is not destroyed
    watch,              \* external: the provider's watch
    provider_mu,        \* external: owner of the provider's mutex
    calls, opened, deliveries   \* counters

watchVars == <<schema_watches, in_progress, cached>>
providerVars == <<watch, provider_mu, opened, deliveries>>
watchesVars == <<watchVars, calls, watch_call, granted, alive, providerVars>>

NoWatch == 0
WatchProvider == "provider"
NoWatchCall == [pc |-> "idle", got |-> NoWatch]

WatchInit ==
    /\ schema_watches = 0 /\ in_progress = FALSE /\ cached = NoWatch
    /\ watch_call = [th \in Threads |-> NoWatchCall]
    /\ granted = [th \in Threads |-> << >>]
    /\ alive = TRUE
    /\ watch = NoWatch /\ provider_mu = NoOwner
    /\ calls = 0 /\ opened = 0 /\ deliveries = 0
    /\ FrameInit

InsideProvider(th) == InsideDeliveryOn(th, WatchProvider)
WatchTo(th, pc) == watch_call' = [watch_call EXCEPT ![th].pc = pc]

\* provider_cv.notify_all: those who wait look at the flag again.  The call of
\* th itself ends.
EndAndNotify(th) ==
    watch_call' = [u \in Threads |-> IF u = th THEN NoWatchCall
                                     ELSE IF watch_call[u].pc = "wait"
                                          THEN [watch_call[u] EXCEPT !.pc = "enter"]
                                          ELSE watch_call[u]]

\* A thread is granted a watch, at most two of them at a time in the model.
Grant(th, w) == granted' = [granted EXCEPT ![th] = Append(@, w)]
WatchEntering(th) == watch_call[th].pc = "enter"

------------------------------------------------------------------------------
(* SubscribeSchema *)

\* RefuseIfInsideDeliveryOn, before mu and before the wait.
WatchRefused(th) == InsideProvider(th)

SubscribeSchema(th) ==
    /\ alive
    /\ watch_call[th].pc = "idle" /\ Len(granted[th]) < 2
    /\ calls < MaxCall
    /\ calls' = calls + 1
    /\ ~WatchRefused(th)
    /\ WatchTo(th, "enter")
    /\ UNCHANGED <<watchVars, granted, alive, providerVars, frameVars>>

\* The thread sleeps on provider_cv while another one is inside the provider.
WatchWait(th) ==
    /\ WatchEntering(th) /\ in_progress
    /\ WatchTo(th, "wait")
    /\ UNCHANGED <<calls, watchVars, granted, alive, providerVars, frameVars>>

\* A watch exists: it is counted, and answered from the cache.
WatchJoin(th) ==
    /\ WatchEntering(th) /\ ~in_progress /\ schema_watches > 0
    /\ schema_watches' = schema_watches + 1
    /\ Grant(th, cached)
    /\ watch_call' = [watch_call EXCEPT ![th] = NoWatchCall]
    /\ UNCHANGED <<calls, in_progress, cached, alive, providerVars, frameVars>>

WatchFirst(th) ==
    /\ WatchEntering(th) /\ ~in_progress /\ schema_watches = 0
    /\ in_progress' = TRUE
    /\ schema_watches' = schema_watches + 1
    /\ WatchTo(th, "open")
    /\ UNCHANGED <<calls, cached, granted, alive, providerVars, frameVars>>

\* External: the provider opens the watch, or returns the one that is open;
\* its door, its lack of a schema channel or its transport may refuse instead.
ProviderOpen(th) ==
    /\ watch_call[th].pc = "open" /\ ~InsideProvider(th) /\ provider_mu = NoOwner
    /\ watch' = IF watch = NoWatch THEN opened + 1 ELSE watch
    /\ opened' = IF watch = NoWatch THEN opened + 1 ELSE opened
    /\ watch_call' = [watch_call EXCEPT ![th] = [pc |-> "opened", got |-> watch']]
    /\ UNCHANGED <<calls, watchVars, granted, alive, provider_mu, deliveries,
                   frameVars>>

ProviderOpenFails(th) ==
    /\ watch_call[th].pc = "open" /\ (InsideProvider(th) \/ provider_mu = NoOwner)
    /\ WatchTo(th, "failed")
    /\ UNCHANGED <<calls, watchVars, granted, alive, providerVars, frameVars>>

WatchStore(th) ==
    /\ watch_call[th].pc = "opened"
    /\ cached' = watch_call[th].got
    /\ in_progress' = FALSE
    /\ Grant(th, watch_call[th].got)
    /\ EndAndNotify(th)
    /\ UNCHANGED <<calls, schema_watches, alive, providerVars, frameVars>>

\* What the count is rolled back to.
RolledBack == schema_watches - 1

WatchRollback(th) ==
    /\ watch_call[th].pc = "failed"
    /\ schema_watches' = RolledBack
    /\ in_progress' = FALSE
    /\ EndAndNotify(th)
    /\ UNCHANGED <<calls, cached, granted, alive, providerVars, frameVars>>

------------------------------------------------------------------------------
(* UnsubscribeSchema *)

Drop(th) == granted' = [granted EXCEPT ![th] = Tail(@)]

\* Not the last watch: it is only counted off.
ReleaseOne(th) ==
    /\ alive /\ watch_call[th].pc = "idle" /\ granted[th] # << >>
    /\ schema_watches > 1
    /\ schema_watches' = schema_watches - 1
    /\ Drop(th)
    /\ UNCHANGED <<calls, in_progress, cached, watch_call, alive, providerVars,
                   frameVars>>

\* Mutant: the release does not raise the flag.
RaisesNothing == in_progress

\* The flag while the last watch is on its way to the provider.
Raised == TRUE

ReleaseLast(th) ==
    /\ alive /\ watch_call[th].pc = "idle" /\ granted[th] # << >>
    /\ schema_watches = 1 /\ calls < MaxCall
    /\ calls' = calls + 1
    /\ schema_watches' = 0
    /\ in_progress' = Raised
    /\ watch_call' = [watch_call EXCEPT ![th] = [pc |-> "release",
                                                 got |-> Head(granted[th])]]
    /\ Drop(th)
    /\ UNCHANGED <<cached, alive, providerVars, frameVars>>

\* External: the provider closes the watch; inside a delivery it refuses.
ProviderClose(th) ==
    /\ watch_call[th].pc = "release" /\ ~InsideProvider(th) /\ provider_mu = NoOwner
    /\ watch' = NoWatch
    /\ WatchTo(th, "released")
    /\ UNCHANGED <<calls, watchVars, granted, alive, provider_mu, opened,
                   deliveries,
                   frameVars>>

ProviderCloseRefused(th) ==
    /\ watch_call[th].pc = "release" /\ InsideProvider(th)
    /\ WatchTo(th, "refused")
    /\ UNCHANGED <<calls, watchVars, granted, alive, providerVars, frameVars>>

ReleaseEnd(th) ==
    /\ watch_call[th].pc = "released"
    /\ in_progress' = FALSE
    /\ EndAndNotify(th)
    /\ UNCHANGED <<calls, schema_watches, cached, granted, alive, providerVars,
                   frameVars>>

\* The refusal reaches the caller, and the watch stays the Subscriber's.
ReleaseUndo(th) ==
    /\ watch_call[th].pc = "refused"
    /\ schema_watches' = schema_watches + 1
    /\ in_progress' = FALSE
    /\ Grant(th, watch_call[th].got)
    /\ EndAndNotify(th)
    /\ UNCHANGED <<calls, cached, alive, providerVars, frameVars>>

------------------------------------------------------------------------------
(* The destructor, and the provider's deliveries *)

\* Mutant: the destructor leaves the watches to the provider.
ReleasesNothing(th) == FALSE

\* may_enter_provider, with watches to release.
DtorReleases(th) == ~InsideProvider(th) /\ schema_watches > 0

\* ~Subscriber, which no call may overlap.  It asks the provider's door first,
\* because a refusal would leave a noexcept destructor.
Destroy(th) ==
    /\ alive
    /\ \A u \in Threads : watch_call[u].pc = "idle"
    /\ DtorReleases(th) => provider_mu = NoOwner
    /\ alive' = FALSE
    /\ schema_watches' = IF DtorReleases(th) THEN 0 ELSE schema_watches
    /\ watch' = IF DtorReleases(th) THEN NoWatch ELSE watch
    /\ granted' = [u \in Threads |-> << >>]
    /\ UNCHANGED <<calls, in_progress, cached, watch_call, provider_mu, opened,
                   deliveries,
                   frameVars>>

\* External: the provider delivers a row, whose handler may make calls.
DeliverBegin(th) ==
    /\ watch_call[th].pc = "idle" /\ provider_mu = NoOwner
    /\ deliveries < MaxDelivery
    /\ deliveries' = deliveries + 1
    /\ provider_mu' = th
    /\ PushScope(th, WatchProvider)
    /\ UNCHANGED <<calls, watchVars, watch_call, granted, alive, watch, opened,
                   deferred>>

DeliverEnd(th) ==
    /\ watch_call[th].pc = "idle" /\ InsideProvider(th)
    /\ provider_mu' = NoOwner
    /\ PopScope(th)
    /\ UNCHANGED <<calls, watchVars, watch_call, granted, alive, watch, opened,
                   deliveries,
                   deferred>>

Progress(th) ==
    \/ WatchWait(th) \/ WatchJoin(th) \/ WatchFirst(th)
    \/ ProviderOpen(th) \/ ProviderOpenFails(th)
    \/ WatchStore(th) \/ WatchRollback(th)
    \/ ProviderClose(th) \/ ProviderCloseRefused(th)
    \/ ReleaseEnd(th) \/ ReleaseUndo(th)
    \/ DeliverEnd(th)

WatchNext ==
    \E th \in Threads :
        \/ SubscribeSchema(th) \/ ReleaseOne(th) \/ ReleaseLast(th)
        \/ Destroy(th) \/ DeliverBegin(th)
        \/ Progress(th)

WatchSpec == WatchInit /\ [][WatchNext]_<<watchesVars, frameVars>>

\* Threads run, the provider's methods and the handlers return.
WatchFairSpec == WatchSpec /\ \A th \in Threads : WF_<<watchesVars, frameVars>>(Progress(th))

------------------------------------------------------------------------------
(* Properties *)

\* Whoever was granted a watch and has not released it holds the arrival of
\* the watch that the provider has open: a release by somebody else never
\* leaves "count one, watch none" (subscriber.cpp, UnsubscribeSchema).  While
\* nobody is inside the provider, the count is the number of watches granted,
\* and the provider has one open exactly when there are any.
GrantsAreServed ==
    /\ \A th \in Threads : \A k \in 1..Len(granted[th]) : granted[th][k] = watch
    /\ ~in_progress /\ alive =>
        /\ schema_watches =
             Cardinality({g \in Threads \X {1, 2} :
                            g[2] <= Len(granted[g[1]])})
        /\ schema_watches > 0 <=> watch # NoWatch

\* Destruction outside a delivery leaves no watch open at the provider, and
\* inside one it may strand the watch but never enters the provider.
DestroyedReleases ==
    [][alive /\ ~alive' =>
          watch' = IF provider_mu = NoOwner THEN NoWatch ELSE watch]_<<watchesVars, frameVars>>

\* Every call returns: a waiter is always woken, and no handler waits for a
\* thread that its own delivery keeps out of the provider.
WatchCallsReturn ==
    \A th \in Threads : []<>(watch_call[th].pc = "idle")
=============================================================================
