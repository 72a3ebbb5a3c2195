---------------------------- MODULE SchemaArrival ----------------------------
(***************************************************************************)
(* The one-shot answer to "what is this subscription's schema?"            *)
(* (pubsub/src/schema_arrival.cpp).  An arrival is the read end, which any *)
(* thread may wait on; its SchemaResolver is the write end, a move-only    *)
(* token whose destruction unresolved is an outcome of its own.  Who holds *)
(* the token is the business of the provider that uses this module.        *)
(***************************************************************************)
CONSTANTS
    Waiters,    \* threads that call Wait
    Arrivals,   \* arrival identities
    Schemas,    \* non-null schemas
    Null, NoArrival

VARIABLES
    arrival,    \* SchemaArrivalState of each arrival
    waiting     \* the Wait each thread is blocked in

Outcomes == {"kOk", "kInternal", "kTransportFailure", "kSubscriptionEnded"}
Unmade == [status |-> "unmade", schema |-> Null]
NotWaiting == [on |-> NoArrival, forever |-> FALSE, woken |-> FALSE]

ArrivalInit ==
    /\ arrival = [a \in Arrivals |-> Unmade]
    /\ waiting = [th \in Waiters |-> NotWaiting]

Settled(a) == arrival[a].status \in Outcomes
IsPending(a) == arrival[a].status = "kPending"

\* Whom a settlement wakes: cv.notify_all().
Notified(th, a) == waiting[th].on = a

\* Settle: the first outcome sticks, and wakes everybody who waits for it.
Settle(arr, a, status, schema) ==
    IF arr[a].status \in Outcomes THEN arr
    ELSE [arr EXCEPT ![a] = [status |-> status, schema |-> schema]]

Wake(a) ==
    waiting' = [th \in Waiters |->
                  [waiting[th] EXCEPT !.woken = @ \/ Notified(th, a)]]

\* SchemaArrival::Ready: answered from the start, possibly with no schema.
Ready(arr, a, schema) ==
    [arr EXCEPT ![a] = [status |-> "kOk", schema |-> schema]]

\* SchemaArrival::Create.
Create(arr, a) ==
    [arr EXCEPT ![a] = [status |-> "kPending", schema |-> Null]]

\* SchemaResolver::Resolve; kOk with a null schema is Ready's alone.
Resolve(arr, a, schema) ==
    IF schema = Null THEN Settle(arr, a, "kInternal", Null)
                     ELSE Settle(arr, a, "kOk", schema)

\* SchemaResolver::Fail of a token that nothing consumed yet.
Fail(arr, a, status) ==
    IF a = NoArrival THEN arr ELSE Settle(arr, a, status, Null)

\* ~SchemaResolver of an optional token that nothing consumed.
DropResolver(arr, a) ==
    IF a = NoArrival THEN arr ELSE Settle(arr, a, "kSubscriptionEnded", Null)

\* Wait on an arrival that is not settled, with a timeout above zero.  On a
\* settled one, and with a zero timeout, it returns without blocking.
WaitBegin(th, a, forever) ==
    /\ waiting[th].on = NoArrival
    /\ IsPending(a)
    /\ waiting' = [waiting EXCEPT ![th] = [on |-> a, forever |-> forever,
                                           woken |-> FALSE]]
    /\ UNCHANGED arrival

\* The condition variable's predicate holds, and Wait returns the outcome.
WaitAnswered(th) ==
    /\ waiting[th].on # NoArrival
    /\ waiting[th].woken
    /\ Settled(waiting[th].on)
    /\ waiting' = [waiting EXCEPT ![th] = NotWaiting]
    /\ UNCHANGED arrival

\* wait_for ends: kPending, or the outcome of a settlement it raced with.
WaitTimeout(th) ==
    /\ waiting[th].on # NoArrival
    /\ ~waiting[th].forever
    /\ waiting' = [waiting EXCEPT ![th] = NotWaiting]
    /\ UNCHANGED arrival
=============================================================================
