---------------------------- MODULE DeliveryFrame ----------------------------
(***************************************************************************)
(* The delivery-frame scope of core/internal/delivery_frame.hpp: every     *)
(* thread carries a stack with one identity token per delivery frame it is *)
(* inside, and a list of work owed when the last of those frames ends.     *)
(*                                                                         *)
(* DeliveryChannel::Deliver pushes the provider's token, the Subscriber's  *)
(* fan-out pushes the Subscriber's token above it.                         *)
(***************************************************************************)
EXTENDS Naturals, Sequences

CONSTANT Threads

VARIABLES
    stack,      \* g_delivery_stack of each thread, innermost token last
    deferred    \* g_deferred_at_depth_zero of each thread, oldest work first

frameVars == <<stack, deferred>>

FrameInit ==
    /\ stack = [th \in Threads |-> << >>]
    /\ deferred = [th \in Threads |-> << >>]

\* Is this thread inside a delivery frame identified by token?
InsideDeliveryOn(th, token) ==
    \E k \in 1..Len(stack[th]) : stack[th][k] = token

\* The constructor and the destructor of DeliveryScope.
PushScope(th, token) == stack' = [stack EXCEPT ![th] = Append(@, token)]

PopScope(th) == stack' = [stack EXCEPT ![th] = SubSeq(@, 1, Len(@) - 1)]

DeferUntilDeliveryDepthZero(th, work) ==
    deferred' = [deferred EXCEPT ![th] = Append(@, work)]

\* The outermost frame has ended and its owed work is being run.  The code
\* swaps the list out before it runs it; no delivery starts meanwhile, so the
\* items still to run are the list itself.
Sweeping(th) == stack[th] = << >> /\ deferred[th] # << >>

NextDue(th) == Head(deferred[th])

WorkDone(th) == deferred' = [deferred EXCEPT ![th] = Tail(@)]
=============================================================================
