----------------------------- MODULE MCLoopback -----------------------------
(***************************************************************************)
(* Small instances for TLC of the loopback provider and of the             *)
(* Subscriber's schema watches, which run over a provider that dispatches  *)
(* the way the loopback does.  In a behaviour one of the two runs, and the *)
(* other stays in an initial state.                                        *)
(***************************************************************************)
EXTENDS InProcessProvider, SchemaWatch

VARIABLE part       \* "loopback" or "watches"

loopbackVars == <<carriage, mu, slotVars, accepted, call, delivery, subs,
                  published, arrivalVars>>
allVars == <<part, loopbackVars, watchesVars, frameVars>>

LoopbackInit ==
    /\ part \in {"loopback", "watches"}
    /\ Init /\ WatchInit
    /\ part = "watches" => carriage = "kCarried"

LoopbackRuns == part = "loopback" /\ Next /\ UNCHANGED <<part, watchesVars>>

WatchesRun == part = "watches" /\ WatchNext /\ UNCHANGED <<part, loopbackVars>>

LoopbackNext == LoopbackRuns \/ WatchesRun

\* The fairness of the two specifications: a thread goes on with what it began.
GoesOn(th) ==
    /\ UNCHANGED part
    /\ \/ part = "loopback" /\ Finish(th) /\ UNCHANGED watchesVars
       \/ part = "watches" /\ Progress(th) /\ UNCHANGED loopbackVars

LoopbackFairness == \A th \in Threads : WF_allVars(GoesOn(th))

LoopbackSpec == LoopbackInit /\ [][LoopbackNext]_allVars /\ LoopbackFairness

\* Every call of the loopback returns and every wait for a schema ends; every
\* call of the schema watches returns (the doors, the notifications).
EveryCallReturns == CallsReturn /\ WatchCallsReturn
=============================================================================
