------------------------ MODULE SubscriberRefinement ------------------------
(***************************************************************************)
(* The Subscriber as an implementation of Cancellation.                    *)
(***************************************************************************)
EXTENDS Subscriber

\* The callbacks that are being invoked.
Invoked == {i \in Ids : \E th \in Threads : Running(th, i)}

Cancel == INSTANCE Cancellation WITH running <- Invoked

\* The Subscriber implements the promise of Cancellation: an invocation never
\* starts on a subscription that is being invoked or has been cancelled.
ImplementsCancellation == Cancel!Spec
=============================================================================
