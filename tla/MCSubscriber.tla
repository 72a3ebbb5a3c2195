----------------------------- MODULE MCSubscriber -----------------------------
(* Model-checking instances of Subscriber. *)
EXTENDS SubscriberRefinement, TLC

\* Threads are interchangeable as long as the peer threads are all or none.
ThreadSymmetry == Permutations(Threads)
=============================================================================
