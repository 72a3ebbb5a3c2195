----------------------------- MODULE Cancellation -----------------------------
(***************************************************************************)
(* What a Subscriber promises about one callback (subscriber.hpp,          *)
(* Unsubscribe; spec section 7 clause 6): it is invoked by one delivery at *)
(* a time, and once the application has been told it may free the          *)
(* callback's state the callback is not running and never runs again.      *)
(***************************************************************************)
CONSTANT Ids

VARIABLES
    running,    \* ids whose callback is being invoked
    freed       \* ids whose state the application may free

vars == <<running, freed>>

Init == running = {} /\ freed = {}

Invoke(i) ==
    /\ i \notin running \cup freed
    /\ running' = running \cup {i}
    /\ UNCHANGED freed

Return(i) ==
    /\ i \in running
    /\ running' = running \ {i}
    /\ UNCHANGED freed

\* An Unsubscribe returns, or the destructor, which frees every callback.
Free(S) ==
    /\ S \cap running = {}
    /\ freed' = freed \cup S
    /\ UNCHANGED running

Next ==
    \/ \E i \in Ids : Invoke(i) \/ Return(i)
    \/ \E S \in SUBSET Ids : Free(S)

Spec == Init /\ [][Next]_vars
=============================================================================
