------------------------ MODULE SubscriberInvariant -------------------------
(*****************************************************************************)
(* The inductive invariant of Subscriber, the facts about it that the proofs *)
(* of its actions share, and the proof that the steps of Unsubscribe and of  *)
(* the destructor preserve it.                                               *)
(*****************************************************************************)
EXTENDS Subscriber, TLAPS

-----------------------------------------------------------------------------
(* The inductive invariant *)

InTopic == {"begun", "fanout", "gated", "running", "leaving", "closing", "swept"}
HoldsGate == {"gated", "running"}

\* The delivery stack s of a thread that is at pc in its frame.
StackAt(s, pc) ==
    /\ pc \in {"none", "closing", "swept"} => s = << >>
    /\ pc \in {"begun", "leaving"} => Len(s) = 1 /\ s[1] = Provider
    /\ pc \in {"fanout", "gated", "running", "peer"} =>
           /\ Len(s) = 2 /\ s[1] = Provider
           /\ s[2] = IF pc = "peer" THEN PeerIdentity ELSE Identity

Tokens == {Provider, Identity, PeerIdentity}

FrameShape ==
    \A th \in Threads :
        /\ StackAt(stack[th], frame[th].pc)
        /\ frame[th].topic \in Topics <=> frame[th].pc \in InTopic
        /\ frame[th].pc \in HoldsGate => frame[th].cur \in Ids
        /\ frame[th].pc \in {"closing", "swept"} => deferred[th] # << >>

CallShape ==
    \A c \in Contexts :
        /\ call[c].pc # "idle" => call[c].id \in Ids
        /\ call[c].pc # "idle" /\ call[c].ours => call[c].topic \in Topics
        /\ call[c].pc \notin {"idle", "retire", "drain"} => call[c].ours
        /\ call[c].deferred => call[c].pc = "decide"

\* Only ids that have been issued are in use.
Issued ==
    /\ \A i \in Ids : Live(i) => i < next_id
    /\ \A i \in retirements \cup known : i < next_id
    /\ \A c \in Contexts : call[c].pc # "idle" => call[c].id < next_id
    /\ \A th \in Threads :
          /\ \A i \in frame[th].todo : i < next_id
          /\ frame[th].pc \in HoldsGate => frame[th].cur < next_id

\* A gate is held by the delivery that is at its entry, and by nobody else.
GateHeld ==
    \A i \in Ids, th \in Threads :
        gate[i] = th <=> frame[th].pc \in HoldsGate /\ frame[th].cur = i

Listed ==
    \A i \in Ids, t \in Topics : i \in entries[t] <=> subscription_topic[i] = t

LiveNotRetiring ==
    \A i \in Ids : Live(i) => i \notin retirements

GoneSilent ==
    \A i \in Ids : i < next_id /\ ~Live(i) /\ i \notin retirements => Silent(i)

\* A Subscribe in progress is about the topic its id is live under.
SubscribeOwnId ==
    \A c \in Contexts :
        /\ call[c].pc \notin {"idle", "retire", "drain", "release", "decide", "teardown"}
        /\ Live(call[c].id)
        => subscription_topic[call[c].id] = call[c].topic

FreedSilent == \A i \in freed : Silent(i)

\* What a call knows of the id it retires, by how far it has come.
CallSilent ==
    \A c \in Contexts :
        /\ call[c].pc = "drain" => retired[call[c].id]
        /\ call[c].pc \in {"release", "teardown"} => Silent(call[c].id)
        /\ call[c].pc = "decide" /\ ~call[c].deferred => Silent(call[c].id)

DeferredRetired ==
    \A th \in Threads :
        /\ \A k \in 1..Len(deferred[th]) : retired[deferred[th][k]]
        /\ frame[th].pc = "swept" => Silent(Head(deferred[th]))

RetiringRetired ==
    \A i \in retirements :
        \/ retired[i]
        \/ \E c \in Contexts : call[c].pc = "retire" /\ call[c].id = i
        \/ i \in dtor.ids

\* A delivery in flight is one of an open topic.
FlightOpen ==
    \A th \in Threads : frame[th].topic \in Topics => opened[frame[th].topic]

\* An open topic will be closed by somebody.
OpenHeld ==
    \A t \in Topics : opened[t] =>
        \/ provider_subscribed[t]
        \/ t \in dtor.topics
        \/ \E c \in Contexts : call[c].pc \in {"opened", "teardown"} /\ call[c].topic = t

DtorShape ==
    /\ dtor.pc # "alive" => /\ dtor.thread \in Threads
                            /\ \A c \in Contexts : call[c].pc = "idle"
                            /\ \A i \in Ids : ~Live(i)
    /\ dtor.pc = "drain" => dtor.cur \in Ids /\ retired[dtor.cur]
    /\ dtor.pc \in {"teardown", "dead"} => /\ dtor.ids = {}
                                           /\ \A t \in Topics : ~provider_subscribed[t]
    /\ dtor.pc = "alive" => dtor.ids = {}
    /\ dtor.pc # "teardown" => dtor.topics = {}

\* Which slot a thread's calls are in, and what may be pending there.
SlotShapeOf(th) ==
    /\ call[<<th, 1>>].pc # "idle" => frame[th].pc \in {"running", "peer"}
    /\ call[<<th, 1>>].pc = "drain" => frame[th].pc = "peer"
    /\ call[<<th, 1>>].pc = "decide" /\ call[<<th, 1>>].deferred =>
           frame[th].pc = "running"
    /\ call[<<th, 0>>].pc = "decide" => ~call[<<th, 0>>].deferred
    /\ call[<<th, 1>>].pc \notin {"wait", "woken", "provider", "opened",
                                  "failed", "teardown"}
    /\ frame[th].pc # "none" =>
           call[<<th, 0>>].pc \in {"idle", "provider", "opened", "teardown"}

SlotShape == \A th \in Threads : SlotShapeOf(th)

MuHeld ==
    \A th \in Threads : mu = th =>
        \E s \in Slots : call[<<th, s>>].pc \in {"ensure", "rollback"}

IInv ==
    /\ TypeOK
    /\ FrameShape /\ CallShape /\ Issued /\ GateHeld
    /\ Listed /\ LiveNotRetiring /\ GoneSilent /\ SubscribeOwnId
    /\ FreedSilent /\ CallSilent /\ DeferredRetired /\ RetiringRetired
    /\ FlightOpen /\ OpenHeld /\ DtorShape
    /\ SlotShape /\ MuHeld
-----------------------------------------------------------------------------
(* Typing of the updates *)

\* A thread runs its call in one of its two contexts.
LEMMA CtxTyped == ASSUME NEW th \in Threads PROVE Ctx(th) \in Contexts
BY DEF Ctx, Contexts, Slots

\* It is the inner one while the thread delivers.
LEMMA CtxIs ==
    ASSUME NEW th \in Threads, NEW u \in Threads
    PROVE  /\ <<u, 0>> \in Contexts /\ <<u, 1>> \in Contexts
           /\ <<u, 0>> = Ctx(th) <=> u = th /\ frame[th].pc = "none"
           /\ <<u, 1>> = Ctx(th) <=> u = th /\ frame[th].pc # "none"
BY DEF Ctx, Contexts, Slots

\* No delivery and no call are values of their types.
LEMMA NoneTyped == NoFrame \in Frames /\ NoCall \in Calls
BY SubscriberAssumption DEF NoFrame, NoCall, Frames, Calls, FramePCs, CallPCs, NoId

\* A call that goes to its next step.
LEMMA GotoTyped ==
    ASSUME TypeOK, NEW th \in Threads, NEW pc \in CallPCs, Goto(th, pc)
    PROVE  /\ call' \in [Contexts -> Calls]
           /\ call' = [call EXCEPT ![Ctx(th)] = [Self(th) EXCEPT !.pc = pc]]
           /\ [Self(th) EXCEPT !.pc = pc] \in Calls
<1>1. Ctx(th) \in Contexts /\ call \in [Contexts -> Calls]
  BY CtxTyped DEF TypeOK
<1>2. call' = [call EXCEPT ![Ctx(th)] = [Self(th) EXCEPT !.pc = pc]]
  BY <1>1 DEF Goto, Self
<1>3. [Self(th) EXCEPT !.pc = pc] \in Calls
  BY <1>1 DEF Self, Calls
<1>. QED
  BY <1>1, <1>2, <1>3

\* The work a thread owes names ids.
LEMMA DueTyped ==
    ASSUME TypeOK, NEW th \in Threads
    PROVE  /\ \A k \in 1..Len(deferred[th]) : deferred[th][k] \in Ids
           /\ deferred[th] # << >> => /\ Head(deferred[th]) \in Ids
                                      /\ Head(deferred[th]) = deferred[th][1]
                                      /\ 1 \in 1..Len(deferred[th])
BY DEF TypeOK

\* What a scope that is entered, and one that is left, make of the stack.
LEMMA Pushed ==
    ASSUME NEW T, NEW q \in Seq(T), NEW x \in T
    PROVE  /\ Append(q, x) \in Seq(T) /\ Len(Append(q, x)) = Len(q) + 1
           /\ Append(q, x)[Len(Append(q, x))] = x
           /\ \A j \in 1..Len(q) : Append(q, x)[j] = q[j]
OBVIOUS

\* A stack without its last element.
LEMMA Popped ==
    ASSUME NEW T, NEW q \in Seq(T), Len(q) # 0
    PROVE  /\ SubSeq(q, 1, Len(q) - 1) \in Seq(T)
           /\ Len(SubSeq(q, 1, Len(q) - 1)) = Len(q) - 1
           /\ Len(q) = 1 => SubSeq(q, 1, Len(q) - 1) = << >>
           /\ \A j \in 1..(Len(q) - 1) : SubSeq(q, 1, Len(q) - 1)[j] = q[j]
<1> DEFINE s == SubSeq(q, 1, Len(q) - 1)  n == Len(q) - 1
<1>1. n \in Nat /\ Len(q) \in Nat /\ \A j \in 1..n : j \in 1..Len(q)
  OBVIOUS
<1>2. s = [j \in 1..n |-> q[j]]
  BY <1>1
<1>3. \A j \in 1..n : q[j] \in T
  BY <1>1
<1> HIDE DEF n
<1> HIDE DEF s
<1>4. s \in Seq(T)
  BY <1>1, <1>2, <1>3
<1>5. Len(s) = n
  BY <1>1, <1>2
<1>6. \A j \in 1..n : s[j] = q[j]
  BY <1>1, <1>2
<1>7. n = 0 => s = << >>
  BY <1>4, <1>5
<1>. QED
  BY <1>4, <1>5, <1>6, <1>7 DEF s, n

\* Where a thread is inside a delivery.
LEMMA InsideWhere ==
    ASSUME TypeOK, FrameShape, NEW th \in Threads
    PROVE  /\ InsideDeliveryOn(th, Identity) <=> frame[th].pc \in {"fanout", "gated", "running"}
           /\ InsideDeliveryOn(th, Provider) <=>
                  frame[th].pc \in {"begun", "fanout", "gated", "running", "peer", "leaving"}
<1>1. frame[th].pc \in FramePCs
  BY DEF TypeOK, Frames
<1>2. StackAt(stack[th], frame[th].pc)
  BY DEF FrameShape
<1>3. CASE frame[th].pc \in {"begun", "leaving"}
  BY <1>2, <1>3 DEF StackAt, InsideDeliveryOn, Provider, Identity
<1>4. CASE frame[th].pc \in {"fanout", "gated", "running"}
  BY <1>2, <1>4 DEF StackAt, InsideDeliveryOn, Provider, Identity
<1>5. CASE frame[th].pc = "peer"
  BY <1>2, <1>5 DEF StackAt, InsideDeliveryOn, Provider, Identity, PeerIdentity
<1>6. CASE frame[th].pc \in {"none", "closing", "swept"}
  BY <1>2, <1>6 DEF StackAt, InsideDeliveryOn
<1>. QED
  BY <1>1, <1>3, <1>4, <1>5, <1>6 DEF FramePCs

\* Every conjunct depends on a few variables only.
LEMMA Kept ==
    /\ UNCHANGED <<frame, stack, deferred>> /\ FrameShape => FrameShape'
    /\ UNCHANGED <<call>> /\ CallShape => CallShape'
    /\ UNCHANGED <<subscription_topic, next_id, retirements, known, call, frame>>
       /\ Issued => Issued'
    /\ UNCHANGED <<gate, frame>> /\ GateHeld => GateHeld'
    /\ UNCHANGED <<entries, subscription_topic>> /\ Listed => Listed'
    /\ UNCHANGED <<subscription_topic, retirements>>
       /\ LiveNotRetiring => LiveNotRetiring'
    /\ UNCHANGED <<next_id, subscription_topic, retirements, retired, frame>>
       /\ GoneSilent => GoneSilent'
    /\ UNCHANGED <<call, subscription_topic>>
       /\ SubscribeOwnId => SubscribeOwnId'
    /\ UNCHANGED <<freed, retired, frame>> /\ FreedSilent => FreedSilent'
    /\ UNCHANGED <<call, retired, frame>> /\ CallSilent => CallSilent'
    /\ UNCHANGED <<deferred, retired, frame>>
       /\ DeferredRetired => DeferredRetired'
    /\ UNCHANGED <<retirements, retired, call, dtor>>
       /\ RetiringRetired => RetiringRetired'
    /\ UNCHANGED <<frame, opened>> /\ FlightOpen => FlightOpen'
    /\ UNCHANGED <<opened, provider_subscribed, dtor, call>>
       /\ OpenHeld => OpenHeld'
    /\ UNCHANGED <<dtor, call, subscription_topic, retired, provider_subscribed>>
       /\ DtorShape => DtorShape'
    /\ UNCHANGED <<call, frame>> /\ SlotShape => SlotShape'
    /\ UNCHANGED <<mu, call>> /\ MuHeld => MuHeld'
<1>1. UNCHANGED <<frame, stack, deferred>> /\ FrameShape => FrameShape'
  BY DEF FrameShape
<1>2. UNCHANGED <<call>> /\ CallShape => CallShape'
  BY DEF CallShape
<1>3. UNCHANGED <<subscription_topic, next_id, retirements, known, call, frame>>
       /\ Issued => Issued'
  BY DEF Issued, Live
<1>4. UNCHANGED <<gate, frame>> /\ GateHeld => GateHeld'
  BY DEF GateHeld
<1>5. UNCHANGED <<entries, subscription_topic>> /\ Listed => Listed'
  BY DEF Listed
<1>6. UNCHANGED <<subscription_topic, retirements>>
       /\ LiveNotRetiring => LiveNotRetiring'
  BY DEF LiveNotRetiring, Live
<1>7. UNCHANGED <<next_id, subscription_topic, retirements, retired, frame>>
       /\ GoneSilent => GoneSilent'
  BY DEF GoneSilent, Live, Silent, Running
<1>8. UNCHANGED <<call, subscription_topic>>
       /\ SubscribeOwnId => SubscribeOwnId'
  BY DEF SubscribeOwnId, Live
<1>9. UNCHANGED <<freed, retired, frame>> /\ FreedSilent => FreedSilent'
  BY DEF FreedSilent, Silent, Running
<1>10. UNCHANGED <<call, retired, frame>> /\ CallSilent => CallSilent'
  BY DEF CallSilent, Silent, Running
<1>11. UNCHANGED <<deferred, retired, frame>>
       /\ DeferredRetired => DeferredRetired'
  BY DEF DeferredRetired, Silent, Running
<1>12. UNCHANGED <<retirements, retired, call, dtor>>
       /\ RetiringRetired => RetiringRetired'
  BY DEF RetiringRetired
<1>13. UNCHANGED <<frame, opened>> /\ FlightOpen => FlightOpen'
  BY DEF FlightOpen
<1>14. UNCHANGED <<opened, provider_subscribed, dtor, call>>
       /\ OpenHeld => OpenHeld'
  BY DEF OpenHeld
<1>15. UNCHANGED <<dtor, call, subscription_topic, retired, provider_subscribed>>
       /\ DtorShape => DtorShape'
  BY DEF DtorShape, Live
<1>16. UNCHANGED <<call, frame>> /\ SlotShape => SlotShape'
  BY DEF SlotShape, SlotShapeOf
<1>17. UNCHANGED <<mu, call>> /\ MuHeld => MuHeld'
  BY DEF MuHeld
<1>. QED
  BY <1>1, <1>2, <1>3, <1>4, <1>5, <1>6, <1>7, <1>8, <1>9,
     <1>10, <1>11, <1>12, <1>13, <1>14, <1>15, <1>16, <1>17

\* No call leaves the states that hold mu while mu stays as it is.
LEMMA MuHeldKept ==
    ASSUME IInv, mu' = mu,
           \A c \in Contexts : call[c].pc \in {"ensure", "rollback"} =>
                                 call'[c].pc \in {"ensure", "rollback"}
    PROVE  MuHeld'
<1>1. \A th \in Threads, s \in Slots : <<th, s>> \in Contexts
  BY DEF Contexts
<1>. QED
  BY <1>1 DEF IInv, MuHeld

\* A call moves on in its slot: what its new state k must satisfy.
LEMMA SlotShapeKept ==
    ASSUME IInv, NEW th \in Threads, NEW k \in Calls,
           call' = [call EXCEPT ![Ctx(th)] = k], frame' = frame,
           frame[th].pc = "none" => (k.pc = "decide" => ~k.deferred),
           frame[th].pc # "none" =>
               /\ k.pc # "idle" => frame[th].pc \in {"running", "peer"}
               /\ k.pc = "drain" => frame[th].pc = "peer"
               /\ k.pc = "decide" /\ k.deferred => frame[th].pc = "running"
               /\ k.pc \notin {"wait", "woken", "provider", "opened", "failed",
                               "teardown"}
    PROVE  SlotShape'
<1>0. Ctx(th) \in Contexts /\ call \in [Contexts -> Calls]
  BY CtxTyped DEF IInv, TypeOK
<1> SUFFICES ASSUME NEW u \in Threads PROVE SlotShapeOf(u)'
  BY DEF SlotShape
<1>1. SlotShapeOf(u)
  BY DEF IInv, SlotShape
<1>2. CASE u # th
  <2>1. call'[<<u, 0>>] = call[<<u, 0>>] /\ call'[<<u, 1>>] = call[<<u, 1>>]
    BY <1>0, <1>2, CtxIs
  <2>. QED
    BY <1>1, <2>1 DEF SlotShapeOf
<1>3. CASE u = th /\ frame[th].pc = "none"
  <2>1. call'[<<u, 0>>] = k /\ call'[<<u, 1>>] = call[<<u, 1>>]
    BY <1>0, <1>3, CtxIs
  <2>. QED
    BY <1>1, <1>3, <2>1 DEF SlotShapeOf
<1>4. CASE u = th /\ frame[th].pc # "none"
  <2>1. call'[<<u, 1>>] = k /\ call'[<<u, 0>>] = call[<<u, 0>>]
    BY <1>0, <1>4, CtxIs
  <2>. QED
    BY <1>1, <1>4, <2>1 DEF SlotShapeOf
<1>. QED
  BY <1>2, <1>3, <1>4

\* What is known of a thread that is in a call in its current slot.
LEMMA SelfShape ==
    ASSUME IInv, NEW th \in Threads, ~At(th, "idle")
    PROVE  /\ Ctx(th) \in Contexts /\ call[Ctx(th)] \in Calls
           /\ call[Ctx(th)].id \in Ids /\ call[Ctx(th)].id < next_id
           /\ call[Ctx(th)].ours => call[Ctx(th)].topic \in Topics
           /\ call[Ctx(th)].pc \notin {"retire", "drain"} => call[Ctx(th)].ours
           /\ call[Ctx(th)].deferred => /\ call[Ctx(th)].pc = "decide"
                                        /\ frame[th].pc = "running"
           /\ frame[th].pc \in {"none", "running", "peer"}
           /\ call[Ctx(th)].pc \in {"wait", "woken", "provider", "opened", "failed",
                                    "teardown"} => frame[th].pc = "none"
           /\ dtor.pc = "alive"
<1>1. /\ Ctx(th) \in Contexts /\ call \in [Contexts -> Calls]
      /\ call[Ctx(th)].pc # "idle"
  BY CtxTyped DEF IInv, TypeOK, At, Self
<1>2. Ctx(th) = IF frame[th].pc # "none" THEN <<th, 1>> ELSE <<th, 0>>
  BY DEF Ctx
<1>3. SlotShapeOf(th)
  BY DEF IInv, SlotShape
<1>. QED
  BY <1>1, <1>2, <1>3 DEF IInv, CallShape, Issued, DtorShape, SlotShapeOf

\* And of one that may start a call.
LEMMA CanCallShape ==
    ASSUME IInv, NEW th \in Threads, CanCall(th)
    PROVE  /\ Ctx(th) \in Contexts /\ call[Ctx(th)] \in Calls
           /\ call[Ctx(th)].pc = "idle" /\ dtor.pc = "alive"
           /\ frame[th].pc \in {"none", "running", "peer"}
BY CtxTyped DEF IInv, TypeOK, CanCall, At, Self

\* What a call that moves to k changes.
LEMMA MoveTyped ==
    ASSUME TypeOK, NEW th \in Threads, NEW k \in Calls,
           call' = [call EXCEPT ![Ctx(th)] = k]
    PROVE  /\ call' \in [Contexts -> Calls] /\ call'[Ctx(th)] = k
           /\ \A c \in Contexts : c # Ctx(th) => call'[c] = call[c]
BY CtxTyped DEF TypeOK

\* A call moves to k, and the calls that wait may be woken by it.
Notified(th, k) ==
    /\ call' \in [Contexts -> Calls]
    /\ call'[Ctx(th)] = k
    /\ \A c \in Contexts : c # Ctx(th) =>
           /\ \/ call'[c].pc = call[c].pc
              \/ call[c].pc = "wait" /\ call'[c].pc = "woken"
           /\ call'[c].id = call[c].id /\ call'[c].topic = call[c].topic
           /\ call'[c].ours = call[c].ours /\ call'[c].deferred = call[c].deferred

\* A step of one call that may also wake the calls that wait.
LEMMA NotifyTyped ==
    ASSUME TypeOK, NEW th \in Threads, NEW k \in Calls, k.pc # "wait",
           \/ call' = [call EXCEPT ![Ctx(th)] = k]
           \/ call' = NotifyAll([call EXCEPT ![Ctx(th)] = k])
    PROVE  Notified(th, k)
<1> DEFINE d == [call EXCEPT ![Ctx(th)] = k]
<1>0. Ctx(th) \in Contexts /\ call \in [Contexts -> Calls] /\ d \in [Contexts -> Calls]
  BY CtxTyped DEF TypeOK
<1>1. d[Ctx(th)] = k /\ \A c \in Contexts : c # Ctx(th) => d[c] = call[c]
  BY <1>0
<1> HIDE DEF d
<1>2. CASE call' = d
  BY <1>0, <1>1, <1>2 DEF Notified
<1>3. CASE call' = NotifyAll(d)
  <2>1. \A x \in Contexts : d[x] \in Calls /\ [d[x] EXCEPT !.pc = "woken"] \in Calls
    BY <1>0, Zenon DEF Calls, CallPCs
  <2>2. call' \in [Contexts -> Calls]
    BY <1>3, <2>1 DEF NotifyAll
  <2>3. \A x \in Contexts : d[x].pc # "wait" => call'[x] = d[x]
    BY <1>3 DEF NotifyAll
  <2>4. \A x \in Contexts : d[x].pc = "wait" => call'[x] = [d[x] EXCEPT !.pc = "woken"]
    BY <1>3 DEF NotifyAll
  <2>5. \A x \in Contexts : d[x].pc = "wait" =>
            /\ call'[x].pc = "woken" /\ call'[x].id = d[x].id
            /\ call'[x].topic = d[x].topic /\ call'[x].ours = d[x].ours
            /\ call'[x].deferred = d[x].deferred
    BY <2>1, <2>4, Zenon DEF Calls
  <2>. QED
    BY <1>0, <1>1, <2>2, <2>3, <2>5 DEF Notified
<1>. QED
  BY <1>2, <1>3 DEF d

\* Calls that were woken are where a call may be.
LEMMA SlotShapeNotified ==
    ASSUME IInv, NEW th \in Threads, NEW k \in Calls, Notified(th, k),
           frame' = frame, ~k.deferred, k.pc \in {"idle", "retire"},
           frame[th].pc \in {"none", "running", "peer"}
    PROVE  SlotShape'
<1> SUFFICES ASSUME NEW u \in Threads PROVE SlotShapeOf(u)'
  BY DEF SlotShape
<1>1. SlotShapeOf(u)
  BY DEF IInv, SlotShape
<1>2. CASE u # th
  BY <1>1, <1>2, CtxIs DEF SlotShapeOf, Notified
<1>3. CASE u = th /\ frame[th].pc = "none"
  <2>1. <<u, 0>> = Ctx(th) /\ <<u, 1>> # Ctx(th) /\ <<u, 1>> \in Contexts
    BY <1>3, CtxIs, Zenon
  <2>. QED
    BY <1>1, <1>3, <2>1 DEF SlotShapeOf, Notified
<1>4. CASE u = th /\ frame[th].pc # "none"
  <2>1. <<u, 1>> = Ctx(th) /\ <<u, 0>> # Ctx(th) /\ <<u, 0>> \in Contexts
    BY <1>4, CtxIs, Zenon
  <2>. QED
    BY <1>1, <1>4, <2>1 DEF SlotShapeOf, Notified
<1>. QED
  BY <1>2, <1>3, <1>4

-----------------------------------------------------------------------------
(* The steps of Unsubscribe and of the destructor *)

\* Unsubscribe of an id that is neither live nor retiring.
LEMMA UnsubscribeGoneInv ==
    ASSUME IInv, NEW th \in Threads, NEW i \in known, UnsubscribeGone(th, i)
    PROVE  IInv'
<1> DEFINE c0 == Ctx(th)
<1>0. c0 \in Contexts /\ call[c0] \in Calls /\ call[c0].pc = "idle"
  BY CanCallShape DEF UnsubscribeGone
<1>1. dtor.pc = "alive"
  BY CanCallShape DEF UnsubscribeGone
<1>2. frame[th].pc \in {"none", "running", "peer"}
  BY CanCallShape DEF UnsubscribeGone
<1>3. i \in Ids /\ Silent(i)
  BY DEF UnsubscribeGone, IInv, TypeOK, GoneSilent, Issued
<1>4. freed' \in SUBSET Ids /\ \A j \in freed' : Silent(j)
  <2>1. freed' \in SUBSET (freed \cup {i})
    BY DEF UnsubscribeGone, MayFree
  <2>2. freed \in SUBSET Ids /\ \A j \in freed : Silent(j)
    BY DEF IInv, TypeOK, FreedSilent
  <2>. QED
    BY <1>3, <2>1, <2>2
<1>5. UNCHANGED <<mu, next_id, subscription_topic, entries, options,
                 retirements, gate, retired, provider_subscribed, in_progress,
                 opened, raced, frame, call, dtor, known, stack, deferred>>
  BY DEF UnsubscribeGone, coreVars, gateVars, providerVars, frameVars
<1>6. TypeOK'
  BY <1>4, <1>5 DEF IInv, TypeOK
<1>7. FrameShape' /\ CallShape' /\ Issued' /\ GateHeld' /\ Listed' /\
      LiveNotRetiring' /\ GoneSilent' /\ SubscribeOwnId' /\ CallSilent' /\
      DeferredRetired' /\ RetiringRetired' /\ FlightOpen' /\ OpenHeld' /\
      DtorShape' /\ SlotShape' /\ MuHeld'
  BY <1>5, Kept DEF IInv
<1>8. \A j \in Ids : Silent(j) => Silent(j)'
  BY <1>5 DEF Silent, Running
<1>9. FreedSilent'
  BY <1>4, <1>8 DEF FreedSilent
<1>. QED
  BY <1>6, <1>7, <1>9 DEF IInv

\* Unsubscribe of an id that another call is cancelling.
LEMMA UnsubscribeDuplicateInv ==
    ASSUME IInv, NEW th \in Threads, NEW i \in known, UnsubscribeDuplicate(th, i)
    PROVE  IInv'
<1> DEFINE c0 == Ctx(th)
<1> DEFINE k == [NoCall EXCEPT !.op = "unsubscribe", !.pc = "retire", !.id = i]
<1>0. c0 \in Contexts /\ call[c0] \in Calls /\ call[c0].pc = "idle"
  BY CanCallShape DEF UnsubscribeDuplicate
<1>1. dtor.pc = "alive"
  BY CanCallShape DEF UnsubscribeDuplicate
<1>2. frame[th].pc \in {"none", "running", "peer"}
  BY CanCallShape DEF UnsubscribeDuplicate
<1>3. i \in Ids /\ i < next_id
  BY DEF IInv, TypeOK, Issued
<1>4. /\ k \in Calls
      /\ k.pc = "retire" /\ k.id = i /\ ~k.ours /\ ~k.deferred
  BY <1>3, NoneTyped, Zenon DEF NoCall, Calls, CallPCs
<1>5. call' = [call EXCEPT ![c0] = k]
  BY DEF UnsubscribeDuplicate, Goto, Return, Self
<1>6. /\ call' \in [Contexts -> Calls] /\ call'[c0] = k
      /\ \A c \in Contexts : c # c0 => call'[c] = call[c]
  BY <1>4, <1>5, MoveTyped, Zenon DEF IInv
<1> HIDE DEF c0, k
<1>7. UNCHANGED <<mu, next_id, subscription_topic, entries, options,
                 retirements, gate, retired, provider_subscribed, in_progress,
                 opened, raced, frame, dtor, known, freed, stack, deferred>>
  BY DEF UnsubscribeDuplicate, coreVars, gateVars, providerVars, frameVars
<1>8. TypeOK'
  BY <1>3, <1>6, <1>7 DEF IInv, TypeOK
<1>9. FrameShape' /\ GateHeld' /\ Listed' /\ LiveNotRetiring' /\
      GoneSilent' /\ FreedSilent' /\ DeferredRetired' /\ FlightOpen'
  BY <1>7, Kept DEF IInv
<1>10. \A j \in Ids : Silent(j) => Silent(j)'
  BY <1>7 DEF Silent, Running
<1>11. CallShape'
  BY <1>0, <1>3, <1>4, <1>6, <1>7 DEF IInv, CallShape
<1>12. Issued'
  BY <1>0, <1>3, <1>4, <1>6, <1>7, Zenon DEF IInv, Issued, Live, TypeOK
<1>13. SubscribeOwnId'
  BY <1>0, <1>3, <1>4, <1>6, <1>7 DEF IInv, SubscribeOwnId, Live, Issued
<1>14. CallSilent'
  BY <1>0, <1>3, <1>4, <1>6, <1>7, <1>10 DEF IInv, CallSilent, CallShape
<1>15. RetiringRetired'
  BY <1>0, <1>3, <1>4, <1>6, <1>7 DEF IInv, RetiringRetired
<1>16. OpenHeld'
  BY <1>0, <1>3, <1>4, <1>6, <1>7 DEF IInv, OpenHeld
<1>17. DtorShape'
  BY <1>0, <1>1, <1>3, <1>4, <1>6, <1>7 DEF IInv, DtorShape, Live
<1>18. SlotShape'
  BY <1>0, <1>2, <1>3, <1>4, <1>5, <1>7, SlotShapeKept, Zenon DEF c0
<1>19. MuHeld'
  BY <1>0, <1>4, <1>6, <1>7, MuHeldKept
<1>. QED
  BY <1>8, <1>9, <1>11, <1>12, <1>13, <1>14, <1>15, <1>16, <1>17,
     <1>18, <1>19 DEF IInv

\* Unsubscribe takes the subscription out of its topic.
LEMMA UnsubscribeRemoveInv ==
    ASSUME IInv, NEW th \in Threads, NEW i \in known, UnsubscribeRemove(th, i)
    PROVE  IInv'
<1> DEFINE c0 == Ctx(th)
<1> DEFINE k == [NoCall EXCEPT !.op = "unsubscribe", !.pc = "retire",
                            !.id = i, !.topic = subscription_topic[i],
                            !.ours = TRUE]
<1>0. c0 \in Contexts /\ call[c0] \in Calls /\ call[c0].pc = "idle"
  BY CanCallShape DEF UnsubscribeRemove
<1>1. dtor.pc = "alive"
  BY CanCallShape DEF UnsubscribeRemove
<1>2. frame[th].pc \in {"none", "running", "peer"}
  BY CanCallShape DEF UnsubscribeRemove
<1>3. i \in Ids /\ i < next_id
  BY DEF IInv, TypeOK, Issued
<1>4. subscription_topic[i] \in Topics /\ Live(i)
  BY <1>3 DEF UnsubscribeRemove, Live, IInv, TypeOK
<1>5. /\ k \in Calls
      /\ k.pc = "retire" /\ k.id = i
      /\ k.topic = subscription_topic[i] /\ k.ours /\ ~k.deferred
  BY <1>3, <1>4, NoneTyped, Zenon DEF NoCall, Calls, CallPCs
<1>6. call' = [call EXCEPT ![c0] = k]
  BY DEF UnsubscribeRemove, Goto, Return, Self
<1>7. /\ call' \in [Contexts -> Calls] /\ call'[c0] = k
      /\ \A c \in Contexts : c # c0 => call'[c] = call[c]
  BY <1>5, <1>6, MoveTyped, Zenon DEF IInv
<1>8. /\ subscription_topic' = [subscription_topic EXCEPT ![i] = NoTopic]
      /\ subscription_topic \in [Ids -> Topics \cup {NoTopic}]
  BY DEF UnsubscribeRemove, IInv, TypeOK
<1>9. /\ entries' = [entries EXCEPT ![subscription_topic[i]] = @ \ {i}]
      /\ entries \in [Topics -> SUBSET Ids]
  BY DEF UnsubscribeRemove, IInv, TypeOK
<1>10. retirements' = retirements \cup {i}
  BY DEF UnsubscribeRemove
<1> HIDE DEF c0, k
<1>11. UNCHANGED <<mu, next_id, options, gate, retired, provider_subscribed,
                 in_progress, opened, raced, frame, dtor, known, freed, stack,
                 deferred>>
  BY DEF UnsubscribeRemove, coreVars, gateVars, providerVars, frameVars
<1>12. TypeOK'
  BY <1>3, <1>4, <1>7, <1>8, <1>9, <1>10, <1>11 DEF IInv, TypeOK
<1>13. FrameShape' /\ GateHeld' /\ FreedSilent' /\ DeferredRetired' /\
      FlightOpen'
  BY <1>11, Kept DEF IInv
<1>14. \A j \in Ids : Silent(j) => Silent(j)'
  BY <1>11 DEF Silent, Running
<1>15. CallShape'
  BY <1>0, <1>3, <1>4, <1>5, <1>7, <1>11 DEF IInv, CallShape
<1>16. Issued'
  BY <1>0, <1>3, <1>4, <1>5, <1>7, <1>8, <1>10, <1>11, Zenon DEF IInv, Issued, Live, TypeOK
<1>17. Listed'
  <2>1. \A j \in Ids : j # i => subscription_topic'[j] = subscription_topic[j]
    BY <1>3, <1>8
  <2>2. \A j \in Ids, t \in Topics : j # i => (j \in entries'[t] <=> j \in entries[t])
    BY <1>4, <1>9
  <2>3. \A t \in Topics : i \notin entries'[t] /\ subscription_topic'[i] # t
    BY <1>3, <1>4, <1>8, <1>9, SubscriberAssumption DEF IInv, Listed
  <2>. QED
    BY <2>1, <2>2, <2>3 DEF IInv, Listed
<1>18. LiveNotRetiring'
  BY <1>3, <1>4, <1>8, <1>10, <1>11, SubscriberAssumption DEF IInv, LiveNotRetiring, Live, TypeOK
<1>19. GoneSilent'
  BY <1>3, <1>4, <1>8, <1>10, <1>11, <1>14 DEF IInv, GoneSilent, Live
<1>20. SubscribeOwnId'
  <2>1. \A j \in Ids : j # i => subscription_topic'[j] = subscription_topic[j]
    BY <1>3, <1>8
  <2>2. subscription_topic'[i] = NoTopic
    BY <1>3, <1>8
  <2>3. \A c \in Contexts : \/ c = c0 /\ call'[c].pc = "retire"
                           \/ call'[c] = call[c]
    BY <1>0, <1>5, <1>7
  <2>. QED
    BY <2>1, <2>2, <2>3 DEF IInv, SubscribeOwnId, CallShape, Live
<1>21. CallSilent'
  BY <1>0, <1>3, <1>4, <1>5, <1>7, <1>11, <1>14 DEF IInv, CallSilent, CallShape
<1>22. RetiringRetired'
  BY <1>0, <1>3, <1>4, <1>5, <1>7, <1>10, <1>11 DEF IInv, RetiringRetired
<1>23. OpenHeld'
  BY <1>0, <1>3, <1>4, <1>5, <1>7, <1>11 DEF IInv, OpenHeld
<1>24. DtorShape'
  BY <1>0, <1>1, <1>3, <1>4, <1>5, <1>7, <1>8, <1>11 DEF IInv, DtorShape, Live
<1>25. SlotShape'
  BY <1>0, <1>2, <1>3, <1>4, <1>5, <1>6, <1>11, SlotShapeKept, Zenon DEF c0
<1>26. MuHeld'
  BY <1>0, <1>5, <1>7, <1>11, MuHeldKept
<1>. QED
  BY <1>12, <1>13, <1>15, <1>16, <1>17, <1>18, <1>19, <1>20, <1>21,
     <1>22, <1>23, <1>24, <1>25, <1>26 DEF IInv

\* RetireAndDrain stores the flag, and the gate is waited for.
LEMMA RetireInv ==
    ASSUME IInv, NEW th \in Threads, Retire(th)
    PROVE  IInv'
<1> DEFINE c0 == Ctx(th)
<1> DEFINE k == [call[c0] EXCEPT !.pc = "drain"]
<1>0. ~At(th, "idle") /\ call[c0].pc = "retire"
  BY DEF Retire, At, Self
<1>1. c0 \in Contexts /\ call[c0] \in Calls
  BY <1>0, SelfShape
<1>2. call[c0].id \in Ids /\ call[c0].id < next_id
  BY <1>0, SelfShape
<1>3. /\ call[c0].ours => call[c0].topic \in Topics
      /\ call[c0].pc \notin {"retire", "drain"} => call[c0].ours
      /\ call[c0].deferred => call[c0].pc = "decide" /\ frame[th].pc = "running"
  BY <1>0, SelfShape
<1>4. /\ frame[th].pc \in {"none", "running", "peer"}
      /\ call[c0].pc \in {"wait", "woken", "provider", "opened", "failed",
                          "teardown"} => frame[th].pc = "none"
  BY <1>0, SelfShape
<1>5. dtor.pc = "alive"
  BY <1>0, SelfShape
<1>6. frame[th].pc \notin {"fanout", "gated", "running"}
  BY InsideWhere DEF IInv, Retire, SkipsBarrier
<1>7. /\ k \in Calls /\ k.pc = "drain" /\ k.id = call[c0].id
      /\ k.topic = call[c0].topic /\ k.ours = call[c0].ours
      /\ k.deferred = call[c0].deferred
  BY <1>1, <1>2, <1>3, <1>4 DEF Calls, CallPCs
<1>8. call' = [call EXCEPT ![c0] = k]
  BY DEF Retire, Goto, Return, Self
<1>9. /\ call' \in [Contexts -> Calls] /\ call'[c0] = k
      /\ \A c \in Contexts : c # c0 => call'[c] = call[c]
  BY <1>7, <1>8, MoveTyped, Zenon DEF IInv
<1>10. retired' = [retired EXCEPT ![call[c0].id] = TRUE] /\ retired \in [Ids -> BOOLEAN]
  BY DEF Retire, Self, IInv, TypeOK
<1> HIDE DEF c0, k
<1>11. UNCHANGED <<mu, next_id, subscription_topic, entries, options,
                 retirements, gate, provider_subscribed, in_progress, opened,
                 raced, frame, dtor, known, freed, stack, deferred>>
  BY DEF Retire, coreVars, gateVars, providerVars, frameVars
<1>12. TypeOK'
  BY <1>2, <1>3, <1>6, <1>9, <1>10, <1>11 DEF IInv, TypeOK
<1>13. FrameShape' /\ GateHeld' /\ Listed' /\ LiveNotRetiring' /\
      FlightOpen'
  BY <1>11, Kept DEF IInv
<1>14. \A j \in Ids : Silent(j) => Silent(j)'
  BY <1>0, <1>1, <1>2, <1>6, <1>10, <1>11 DEF IInv, TypeOK, Silent, Running
<1>15. CallShape'
  BY <1>0, <1>1, <1>2, <1>3, <1>6, <1>7, <1>9, <1>11 DEF IInv, CallShape
<1>16. Issued'
  BY <1>0, <1>1, <1>2, <1>6, <1>7, <1>9, <1>11, Zenon DEF IInv, Issued, Live, TypeOK
<1>17. GoneSilent'
  BY <1>0, <1>6, <1>10, <1>11, <1>14, Zenon DEF IInv, GoneSilent, Live
<1>18. SubscribeOwnId'
  BY <1>0, <1>1, <1>6, <1>7, <1>9, <1>11 DEF IInv, SubscribeOwnId, Live, Issued
<1>19. FreedSilent'
  BY <1>0, <1>6, <1>10, <1>11, <1>14 DEF IInv, FreedSilent, TypeOK
<1>20. CallSilent'
  BY <1>0, <1>1, <1>6, <1>7, <1>9, <1>10, <1>11, <1>14 DEF IInv, CallSilent, CallShape
<1>21. DeferredRetired'
  BY <1>0, <1>6, <1>10, <1>11, <1>14, DueTyped DEF IInv, DeferredRetired, FrameShape
<1>22. RetiringRetired'
  <2> SUFFICES ASSUME NEW j \in retirements
               PROVE  \/ retired'[j]
                      \/ \E c \in Contexts : call'[c].pc = "retire" /\ call'[c].id = j
                      \/ j \in dtor.ids
    BY <1>11 DEF RetiringRetired
  <2>1. j \in Ids
    BY DEF IInv, TypeOK
  <2>2. CASE j = call[c0].id
    BY <1>2, <1>10, <2>2
  <2>3. CASE retired[j]
    BY <1>2, <1>10, <2>1, <2>3
  <2>4. ASSUME NEW c \in Contexts, call[c].pc = "retire", call[c].id = j, j # call[c0].id
        PROVE  call'[c].pc = "retire" /\ call'[c].id = j
    BY <1>9, <2>4
  <2>. QED
    BY <2>2, <2>3, <2>4 DEF IInv, RetiringRetired
<1>23. OpenHeld'
  BY <1>0, <1>1, <1>3, <1>6, <1>7, <1>9, <1>11 DEF IInv, OpenHeld
<1>24. DtorShape'
  BY <1>0, <1>1, <1>5, <1>6, <1>7, <1>9, <1>10, <1>11 DEF IInv, DtorShape, Live
<1>25. SlotShape'
  BY <1>0, <1>3, <1>4, <1>6, <1>7, <1>8, <1>11, SlotShapeKept, Zenon DEF c0
<1>26. MuHeld'
  BY <1>0, <1>7, <1>9, <1>11, MuHeldKept
<1>. QED
  BY <1>12, <1>13, <1>15, <1>16, <1>17, <1>18, <1>19, <1>20, <1>21,
     <1>22, <1>23, <1>24, <1>25, <1>26 DEF IInv

\* From inside a delivery it does not wait, and the release is owed.
LEMMA RetireInsideDeliveryInv ==
    ASSUME IInv, NEW th \in Threads, RetireInsideDelivery(th)
    PROVE  IInv'
<1> DEFINE c0 == Ctx(th)
<1> DEFINE k == IF call[c0].ours /\ call[c0].op = "unsubscribe"
                  THEN [call[c0] EXCEPT !.pc = "decide", !.deferred = call[c0].ours]
                  ELSE NoCall
<1>0. ~At(th, "idle") /\ call[c0].pc = "retire"
  BY DEF RetireInsideDelivery, At, Self
<1>1. c0 \in Contexts /\ call[c0] \in Calls
  BY <1>0, SelfShape
<1>2. call[c0].id \in Ids /\ call[c0].id < next_id
  BY <1>0, SelfShape
<1>3. /\ call[c0].ours => call[c0].topic \in Topics
      /\ call[c0].pc \notin {"retire", "drain"} => call[c0].ours
      /\ call[c0].deferred => call[c0].pc = "decide" /\ frame[th].pc = "running"
  BY <1>0, SelfShape
<1>4. /\ frame[th].pc \in {"none", "running", "peer"}
      /\ call[c0].pc \in {"wait", "woken", "provider", "opened", "failed",
                          "teardown"} => frame[th].pc = "none"
  BY <1>0, SelfShape
<1>5. dtor.pc = "alive"
  BY <1>0, SelfShape
<1>6. frame[th].pc = "running"
  BY <1>1, <1>2, <1>3, <1>4, InsideWhere DEF IInv, RetireInsideDelivery, SkipsBarrier
<1>7. /\ k \in Calls
      /\ k.pc \in {"idle", "decide"} /\ (k.deferred => k.pc = "decide")
      /\ k.pc = "decide" => /\ k.deferred /\ k.ours /\ call[c0].ours
                            /\ k.id = call[c0].id /\ k.topic = call[c0].topic
  BY <1>1, <1>2, <1>3, <1>4, NoneTyped, Zenon DEF NoCall, Calls, CallPCs
<1>8. call' = [call EXCEPT ![c0] = k]
  BY DEF RetireInsideDelivery, Goto, Return, Self, OwesRelease
<1>9. /\ call' \in [Contexts -> Calls] /\ call'[c0] = k
      /\ \A c \in Contexts : c # c0 => call'[c] = call[c]
  BY <1>7, <1>8, MoveTyped, Zenon DEF IInv
<1>10. retired' = [retired EXCEPT ![call[c0].id] = TRUE] /\ retired \in [Ids -> BOOLEAN]
  BY DEF RetireInsideDelivery, Self, IInv, TypeOK
<1>11. /\ deferred \in [Threads -> Seq(Ids)]
      /\ \/ deferred' = deferred
         \/ deferred' = [deferred EXCEPT ![th] = Append(@, call[c0].id)]
  BY DEF RetireInsideDelivery, DeferUntilDeliveryDepthZero, Self, IInv, TypeOK
<1> HIDE DEF c0, k
<1>12. UNCHANGED <<mu, next_id, subscription_topic, entries, options,
                 retirements, gate, provider_subscribed, in_progress, opened,
                 raced, frame, dtor, known, freed, stack>>
  BY DEF RetireInsideDelivery, coreVars, gateVars, providerVars, frameVars
<1>13. TypeOK'
  <2>1. Append(deferred[th], call[c0].id) \in Seq(Ids)
    <3>1. deferred[th] \in Seq(Ids) /\ call[c0].id \in Ids
      BY <1>1, <1>2, <1>3, <1>4, <1>11
    <3>. QED
      BY <3>1
  <2>2. deferred' \in [Threads -> Seq(Ids)]
    BY <1>11, <2>1
  <2>. QED
    BY <1>1, <1>2, <1>3, <1>4, <1>9, <1>10, <1>12, <2>2 DEF IInv, TypeOK
<1>14. GateHeld' /\ Listed' /\ LiveNotRetiring' /\ FlightOpen'
  BY <1>12, Kept DEF IInv
<1>15. \A j \in Ids : Silent(j) => Silent(j)'
  BY <1>0, <1>1, <1>2, <1>6, <1>10, <1>12 DEF IInv, TypeOK, Silent, Running
<1>16. FrameShape'
  BY <1>0, <1>6, <1>11, <1>12, Zenon DEF IInv, FrameShape
<1>17. CallShape'
  BY <1>0, <1>1, <1>2, <1>3, <1>6, <1>7, <1>9, <1>12 DEF IInv, CallShape
<1>18. Issued'
  BY <1>0, <1>1, <1>2, <1>6, <1>7, <1>9, <1>12, Zenon DEF IInv, Issued, Live, TypeOK
<1>19. GoneSilent'
  BY <1>0, <1>6, <1>10, <1>12, <1>15 DEF IInv, GoneSilent, Live
<1>20. SubscribeOwnId'
  BY <1>0, <1>1, <1>6, <1>7, <1>9, <1>12 DEF IInv, SubscribeOwnId, Live, Issued
<1>21. FreedSilent'
  BY <1>0, <1>6, <1>10, <1>12, <1>15 DEF IInv, FreedSilent, TypeOK
<1>22. CallSilent'
  BY <1>0, <1>1, <1>6, <1>7, <1>9, <1>10, <1>12, <1>15 DEF IInv, CallSilent, CallShape
<1>23. DeferredRetired'
  <2>1. \A u \in Threads : \A j \in 1..Len(deferred'[u]) :
            \/ j \in 1..Len(deferred[u]) /\ deferred'[u][j] = deferred[u][j]
            \/ deferred'[u][j] = call[c0].id
    <3>1. \A u \in Threads : deferred'[u] = deferred[u]
                              \/ deferred'[u] = Append(deferred[u], call[c0].id)
      BY <1>11
    <3>2. \A u \in Threads : \A j \in 1..Len(Append(deferred[u], call[c0].id)) :
            \/ j \in 1..Len(deferred[u])
               /\ Append(deferred[u], call[c0].id)[j] = deferred[u][j]
            \/ Append(deferred[u], call[c0].id)[j] = call[c0].id
      <4> SUFFICES ASSUME NEW u \in Threads,
                          NEW j \in 1..Len(Append(deferred[u], call[c0].id))
                   PROVE  \/ j \in 1..Len(deferred[u])
                             /\ Append(deferred[u], call[c0].id)[j] = deferred[u][j]
                          \/ Append(deferred[u], call[c0].id)[j] = call[c0].id
        OBVIOUS
      <4>1. deferred[u] \in Seq(Ids) /\ call[c0].id \in Ids
        BY <1>1, <1>2, <1>3, <1>4, <1>11
      <4>. QED
        BY <4>1
    <3>. QED
      BY <3>1, <3>2
  <2>2. \A u \in Threads : frame[u].pc = "swept" => deferred'[u] = deferred[u]
    BY <1>6, <1>11
  <2>3. \A i \in Ids : retired[i] => retired'[i]
    BY <1>1, <1>2, <1>3, <1>4, <1>10
  <2>4. retired'[call[c0].id]
    BY <1>1, <1>2, <1>3, <1>4, <1>10
  <2>5. \A u \in Threads : \A j \in 1..Len(deferred'[u]) : retired'[deferred'[u][j]]
    BY <2>1, <2>3, <2>4, DueTyped DEF IInv, DeferredRetired
  <2>. QED
    BY <1>12, <1>15, <2>2, <2>5, DueTyped, Zenon DEF IInv, DeferredRetired, FrameShape
<1>24. RetiringRetired'
  <2> SUFFICES ASSUME NEW j \in retirements
               PROVE  \/ retired'[j]
                      \/ \E c \in Contexts : call'[c].pc = "retire" /\ call'[c].id = j
                      \/ j \in dtor.ids
    BY <1>12 DEF RetiringRetired
  <2>1. j \in Ids
    BY DEF IInv, TypeOK
  <2>2. CASE j = call[c0].id
    BY <1>2, <1>10, <2>2
  <2>3. CASE retired[j]
    BY <1>2, <1>10, <2>1, <2>3
  <2>4. ASSUME NEW c \in Contexts, call[c].pc = "retire", call[c].id = j, j # call[c0].id
        PROVE  call'[c].pc = "retire" /\ call'[c].id = j
    BY <1>9, <2>4
  <2>. QED
    BY <2>2, <2>3, <2>4 DEF IInv, RetiringRetired
<1>25. OpenHeld'
  BY <1>0, <1>1, <1>3, <1>6, <1>7, <1>9, <1>12 DEF IInv, OpenHeld
<1>26. DtorShape'
  BY <1>0, <1>1, <1>5, <1>6, <1>7, <1>9, <1>10, <1>12 DEF IInv, DtorShape, Live
<1>27. SlotShape'
  BY <1>0, <1>3, <1>4, <1>6, <1>7, <1>8, <1>12, SlotShapeKept, Zenon DEF c0
<1>28. MuHeld'
  BY <1>0, <1>7, <1>9, <1>12, MuHeldKept
<1>. QED
  BY <1>13, <1>14, <1>16, <1>17, <1>18, <1>19, <1>20, <1>21, <1>22,
     <1>23, <1>24, <1>25, <1>26, <1>27, <1>28 DEF IInv

\* The call has waited for the callback in the gate.
LEMMA DrainInv ==
    ASSUME IInv, NEW th \in Threads, Drain(th)
    PROVE  IInv'
<1> DEFINE c0 == Ctx(th)
<1> DEFINE k == IF call[c0].ours
                  THEN [call[c0] EXCEPT !.pc =
                            IF call[c0].op = "subscribe" THEN "release" ELSE "decide"]
                  ELSE NoCall
<1>0. ~At(th, "idle") /\ call[c0].pc = "drain"
  BY DEF Drain, At, Self
<1>1. c0 \in Contexts /\ call[c0] \in Calls
  BY <1>0, SelfShape
<1>2. call[c0].id \in Ids /\ call[c0].id < next_id
  BY <1>0, SelfShape
<1>3. /\ call[c0].ours => call[c0].topic \in Topics
      /\ call[c0].pc \notin {"retire", "drain"} => call[c0].ours
      /\ call[c0].deferred => call[c0].pc = "decide" /\ frame[th].pc = "running"
  BY <1>0, SelfShape
<1>4. /\ frame[th].pc \in {"none", "running", "peer"}
      /\ call[c0].pc \in {"wait", "woken", "provider", "opened", "failed",
                          "teardown"} => frame[th].pc = "none"
  BY <1>0, SelfShape
<1>5. dtor.pc = "alive"
  BY <1>0, SelfShape
<1>6. /\ k \in Calls
      /\ k.pc \in {"idle", "release", "decide"} /\ ~k.deferred
      /\ k.pc # "idle" => /\ k.ours /\ call[c0].ours /\ k.id = call[c0].id
                           /\ k.topic = call[c0].topic
  <2>1. CASE call[c0].ours /\ call[c0].op = "subscribe"
    BY <1>0, <1>1, <1>2, <1>3, <1>4, <2>1 DEF Calls, CallPCs
  <2>2. CASE call[c0].ours /\ call[c0].op # "subscribe"
    BY <1>0, <1>1, <1>2, <1>3, <1>4, <2>2 DEF Calls, CallPCs
  <2>3. CASE ~call[c0].ours
    BY <2>3, NoneTyped DEF NoCall
  <2>. QED
    BY <2>1, <2>2, <2>3
<1>7. call' = [call EXCEPT ![c0] = k]
  BY DEF Drain, Goto, Return, Self
<1>8. /\ call' \in [Contexts -> Calls] /\ call'[c0] = k
      /\ \A c \in Contexts : c # c0 => call'[c] = call[c]
  BY <1>6, <1>7, MoveTyped, Zenon DEF IInv
<1>9. Silent(call[c0].id)
  <2>1. retired[call[c0].id]
    BY <1>0, <1>1, <1>2, <1>3, <1>4 DEF IInv, CallSilent
  <2>2. gate[call[c0].id] = NoThread
    BY DEF Drain, Drained, Barrier, Self
  <2>. QED
    BY <1>2, <2>1, <2>2, SubscriberAssumption DEF IInv, GateHeld, HoldsGate, Silent, Running
<1>10. freed' \in SUBSET Ids /\ \A j \in freed' : Silent(j)
  <2>1. freed' \in SUBSET (freed \cup {call[c0].id})
    BY DEF Drain, MayFree, Self
  <2>2. freed \in SUBSET Ids /\ \A j \in freed : Silent(j)
    BY DEF IInv, TypeOK, FreedSilent
  <2>. QED
    BY <1>2, <1>9, <2>1, <2>2
<1> HIDE DEF c0, k
<1>11. UNCHANGED <<mu, next_id, subscription_topic, entries, options,
                 retirements, gate, retired, provider_subscribed, in_progress,
                 opened, raced, frame, dtor, known, stack, deferred>>
  BY DEF Drain, coreVars, gateVars, providerVars, frameVars
<1>12. TypeOK'
  BY <1>2, <1>3, <1>8, <1>10, <1>11 DEF IInv, TypeOK
<1>13. FrameShape' /\ GateHeld' /\ Listed' /\ LiveNotRetiring' /\
      GoneSilent' /\ DeferredRetired' /\ FlightOpen'
  BY <1>11, Kept DEF IInv
<1>14. \A j \in Ids : Silent(j) => Silent(j)'
  BY <1>11 DEF Silent, Running
<1>15. CallShape'
  BY <1>0, <1>1, <1>2, <1>3, <1>6, <1>8, <1>11 DEF IInv, CallShape
<1>16. Issued'
  BY <1>0, <1>1, <1>2, <1>6, <1>8, <1>11, Zenon DEF IInv, Issued, Live, TypeOK
<1>17. SubscribeOwnId'
  BY <1>0, <1>1, <1>6, <1>8, <1>11, Zenon DEF IInv, SubscribeOwnId, Live, Issued
<1>18. FreedSilent'
  BY <1>10, <1>14 DEF FreedSilent
<1>19. CallSilent'
  BY <1>0, <1>1, <1>6, <1>8, <1>9, <1>11, <1>14, Zenon DEF IInv, CallSilent, CallShape
<1>20. RetiringRetired'
  BY <1>0, <1>1, <1>6, <1>8, <1>11 DEF IInv, RetiringRetired
<1>21. OpenHeld'
  BY <1>0, <1>1, <1>3, <1>6, <1>8, <1>11 DEF IInv, OpenHeld
<1>22. DtorShape'
  BY <1>0, <1>1, <1>5, <1>6, <1>8, <1>11 DEF IInv, DtorShape, Live
<1>23. SlotShape'
  BY <1>0, <1>3, <1>4, <1>6, <1>7, <1>11, SlotShapeKept, Zenon DEF c0
<1>24. MuHeld'
  BY <1>0, <1>6, <1>8, <1>11, MuHeldKept
<1>. QED
  BY <1>12, <1>13, <1>15, <1>16, <1>17, <1>18, <1>19, <1>20, <1>21,
     <1>22, <1>23, <1>24 DEF IInv

\* The second section: the last one out flips provider_subscribed.
LEMMA UnsubscribeDecideInv ==
    ASSUME IInv, NEW th \in Threads, UnsubscribeDecide(th)
    PROVE  IInv'
<1> DEFINE c0 == Ctx(th)
<1> DEFINE k == IF LastOne(th) THEN [call[c0] EXCEPT !.pc = "teardown"] ELSE NoCall
<1>0. ~At(th, "idle") /\ call[c0].pc = "decide"
  BY DEF UnsubscribeDecide, At, Self
<1>1. c0 \in Contexts /\ call[c0] \in Calls
  BY <1>0, SelfShape
<1>2. call[c0].id \in Ids /\ call[c0].id < next_id
  BY <1>0, SelfShape
<1>3. /\ call[c0].ours => call[c0].topic \in Topics
      /\ call[c0].pc \notin {"retire", "drain"} => call[c0].ours
      /\ call[c0].deferred => call[c0].pc = "decide" /\ frame[th].pc = "running"
  BY <1>0, SelfShape
<1>4. /\ frame[th].pc \in {"none", "running", "peer"}
      /\ call[c0].pc \in {"wait", "woken", "provider", "opened", "failed",
                          "teardown"} => frame[th].pc = "none"
  BY <1>0, SelfShape
<1>5. dtor.pc = "alive"
  BY <1>0, SelfShape
<1>6. /\ LastOne(th) => frame[th].pc = "none"
      /\ LastOne(th) => ~call[c0].deferred
  BY <1>1, <1>2, <1>3, <1>4, InsideWhere DEF LastOne, IInv
<1>7. /\ k \in Calls
      /\ k.pc \in {"idle", "teardown"} /\ ~k.deferred
      /\ k.pc = "teardown" <=> LastOne(th)
      /\ k.pc = "teardown" => /\ k.ours /\ k.id = call[c0].id /\ k.topic = call[c0].topic
  <2>1. CASE LastOne(th)
    <3>1. k = [call[c0] EXCEPT !.pc = "teardown"]
      BY <2>1
    <3> HIDE DEF k
    <3>. QED
      BY <1>0, <1>1, <1>2, <1>3, <1>4, <1>6, <2>1, <3>1 DEF Calls, CallPCs
  <2>2. CASE ~LastOne(th)
    BY <2>2, NoneTyped DEF NoCall
  <2>. QED
    BY <2>1, <2>2
<1>8. call' = [call EXCEPT ![c0] = k]
  BY DEF UnsubscribeDecide, Goto, Return, Self
<1>9. /\ call' \in [Contexts -> Calls] /\ call'[c0] = k
      /\ \A c \in Contexts : c # c0 => call'[c] = call[c]
  BY <1>7, <1>8, MoveTyped, Zenon DEF IInv
<1>10. ~call[c0].deferred => Silent(call[c0].id)
  BY <1>0, <1>1, <1>2, <1>3, <1>4 DEF IInv, CallSilent
<1>11. retirements' = IF call[c0].deferred THEN retirements ELSE retirements \ {call[c0].id}
  BY DEF UnsubscribeDecide, Self
<1>12. /\ provider_subscribed' = [provider_subscribed EXCEPT ![call[c0].topic] = @ /\ ~LastOne(th)]
      /\ provider_subscribed \in [Topics -> BOOLEAN]
  BY DEF UnsubscribeDecide, ClearsFlag, Self, IInv, TypeOK
<1>13. freed' \in SUBSET Ids /\ \A j \in freed' : Silent(j)
  <2>1. freed' = freed \/ (freed' = freed \cup {call[c0].id} /\ ~call[c0].deferred)
    BY <1>1, <1>2, <1>3, <1>4, InsideWhere, Zenon DEF UnsubscribeDecide, MayFree, Self, IInv
  <2>2. freed \in SUBSET Ids /\ \A j \in freed : Silent(j)
    BY DEF IInv, TypeOK, FreedSilent
  <2>. QED
    BY <1>2, <1>10, <2>1, <2>2
<1> HIDE DEF c0, k
<1>14. UNCHANGED <<mu, next_id, subscription_topic, entries, options, gate,
                 retired, in_progress, opened, raced, frame, dtor, known,
                 stack, deferred>>
  BY DEF UnsubscribeDecide, coreVars, gateVars, providerVars, frameVars
<1>15. TypeOK'
  BY <1>2, <1>3, <1>6, <1>9, <1>11, <1>12, <1>13, <1>14, Zenon DEF IInv, TypeOK
<1>16. FrameShape' /\ GateHeld' /\ Listed' /\ DeferredRetired' /\
      FlightOpen'
  BY <1>14, Kept DEF IInv
<1>17. \A j \in Ids : Silent(j) => Silent(j)'
  BY <1>14 DEF Silent, Running
<1>18. CallShape'
  BY <1>0, <1>1, <1>2, <1>3, <1>6, <1>7, <1>9, <1>14 DEF IInv, CallShape
<1>19. Issued'
  BY <1>0, <1>1, <1>2, <1>6, <1>7, <1>9, <1>11, <1>14, Zenon DEF IInv, Issued, Live, TypeOK
<1>20. LiveNotRetiring'
  BY <1>0, <1>6, <1>11, <1>14, SubscriberAssumption DEF IInv, LiveNotRetiring, Live, TypeOK
<1>21. GoneSilent'
  BY <1>0, <1>6, <1>10, <1>11, <1>14, <1>17 DEF IInv, GoneSilent, Live
<1>22. SubscribeOwnId'
  BY <1>0, <1>1, <1>6, <1>7, <1>9, <1>14 DEF IInv, SubscribeOwnId, Live, Issued
<1>23. FreedSilent'
  BY <1>13, <1>17 DEF FreedSilent
<1>24. CallSilent'
  BY <1>0, <1>1, <1>6, <1>7, <1>9, <1>10, <1>14, <1>17 DEF IInv, CallSilent, CallShape
<1>25. RetiringRetired'
  BY <1>0, <1>1, <1>6, <1>7, <1>9, <1>11, <1>14 DEF IInv, RetiringRetired
<1>26. OpenHeld'
  BY <1>0, <1>1, <1>3, <1>6, <1>7, <1>9, <1>12, <1>14 DEF IInv, OpenHeld
<1>27. DtorShape'
  BY <1>0, <1>1, <1>5, <1>6, <1>7, <1>9, <1>12, <1>14 DEF IInv, DtorShape, Live
<1>28. SlotShape'
  BY <1>0, <1>3, <1>4, <1>6, <1>7, <1>8, <1>14, SlotShapeKept, Zenon DEF c0
<1>29. MuHeld'
  BY <1>0, <1>7, <1>9, <1>14, MuHeldKept
<1>. QED
  BY <1>15, <1>16, <1>18, <1>19, <1>20, <1>21, <1>22, <1>23, <1>24,
     <1>25, <1>26, <1>27, <1>28, <1>29 DEF IInv

\* The provider's Unsubscribe is called.
LEMMA ProviderUnsubscribeInv ==
    ASSUME IInv, NEW th \in Threads, ProviderUnsubscribe(th)
    PROVE  IInv'
<1> DEFINE c0 == Ctx(th)
<1> DEFINE k == NoCall
<1>0. ~At(th, "idle") /\ call[c0].pc = "teardown"
  BY DEF ProviderUnsubscribe, At, Self
<1>1. c0 \in Contexts /\ call[c0] \in Calls
  BY <1>0, SelfShape
<1>2. call[c0].id \in Ids /\ call[c0].id < next_id
  BY <1>0, SelfShape
<1>3. /\ call[c0].ours => call[c0].topic \in Topics
      /\ call[c0].pc \notin {"retire", "drain"} => call[c0].ours
      /\ call[c0].deferred => call[c0].pc = "decide" /\ frame[th].pc = "running"
  BY <1>0, SelfShape
<1>4. /\ frame[th].pc \in {"none", "running", "peer"}
      /\ call[c0].pc \in {"wait", "woken", "provider", "opened", "failed",
                          "teardown"} => frame[th].pc = "none"
  BY <1>0, SelfShape
<1>5. dtor.pc = "alive"
  BY <1>0, SelfShape
<1>6. k \in Calls /\ k.pc = "idle" /\ ~k.deferred
  BY NoneTyped DEF NoCall
<1>7. call' = [call EXCEPT ![c0] = k]
  BY DEF ProviderUnsubscribe, Goto, Return, Self
<1>8. /\ call' \in [Contexts -> Calls] /\ call'[c0] = k
      /\ \A c \in Contexts : c # c0 => call'[c] = call[c]
  BY <1>6, <1>7, MoveTyped, Zenon DEF IInv
<1>9. opened' = [opened EXCEPT ![call[c0].topic] = FALSE] /\ opened \in [Topics -> BOOLEAN]
  BY DEF ProviderUnsubscribe, Self, IInv, TypeOK
<1>10. \A u \in Threads : frame[u].topic # call[c0].topic
  BY DEF ProviderUnsubscribe, Self, MayTearDown
<1>11. Silent(call[c0].id)
  BY <1>0, <1>1, <1>2, <1>3, <1>4 DEF IInv, CallSilent
<1>12. freed' \in SUBSET Ids /\ \A j \in freed' : Silent(j)
  <2>1. freed' \in SUBSET (freed \cup {call[c0].id})
    BY DEF ProviderUnsubscribe, MayFree, Self
  <2>2. freed \in SUBSET Ids /\ \A j \in freed : Silent(j)
    BY DEF IInv, TypeOK, FreedSilent
  <2>. QED
    BY <1>2, <1>11, <2>1, <2>2
<1> HIDE DEF c0, k
<1>13. UNCHANGED <<mu, next_id, subscription_topic, entries, options,
                 retirements, gate, retired, provider_subscribed, in_progress,
                 raced, frame, dtor, known, stack, deferred>>
  BY DEF ProviderUnsubscribe, coreVars, gateVars, providerVars, frameVars
<1>14. TypeOK'
  BY <1>2, <1>3, <1>8, <1>9, <1>12, <1>13, Zenon DEF IInv, TypeOK
<1>15. FrameShape' /\ GateHeld' /\ Listed' /\ LiveNotRetiring' /\
      GoneSilent' /\ DeferredRetired'
  BY <1>13, Kept DEF IInv
<1>16. \A j \in Ids : Silent(j) => Silent(j)'
  BY <1>13 DEF Silent, Running
<1>17. CallShape'
  BY <1>0, <1>1, <1>2, <1>3, <1>6, <1>8, <1>13 DEF IInv, CallShape
<1>18. Issued'
  BY <1>0, <1>1, <1>2, <1>6, <1>8, <1>13, Zenon DEF IInv, Issued, Live, TypeOK
<1>19. SubscribeOwnId'
  BY <1>0, <1>1, <1>6, <1>8, <1>13 DEF IInv, SubscribeOwnId, Live, Issued
<1>20. FreedSilent'
  BY <1>12, <1>16 DEF FreedSilent
<1>21. CallSilent'
  BY <1>0, <1>1, <1>6, <1>8, <1>13, <1>16 DEF IInv, CallSilent, CallShape
<1>22. RetiringRetired'
  BY <1>0, <1>1, <1>6, <1>8, <1>13 DEF IInv, RetiringRetired
<1>23. FlightOpen'
  BY <1>0, <1>9, <1>10, <1>13, Zenon DEF IInv, FlightOpen
<1>24. OpenHeld'
  BY <1>0, <1>1, <1>3, <1>6, <1>8, <1>9, <1>13 DEF IInv, OpenHeld
<1>25. DtorShape'
  BY <1>0, <1>1, <1>5, <1>6, <1>8, <1>13 DEF IInv, DtorShape, Live
<1>26. SlotShape'
  BY <1>0, <1>3, <1>4, <1>6, <1>7, <1>13, SlotShapeKept, Zenon DEF c0
<1>27. MuHeld'
  BY <1>0, <1>6, <1>8, <1>13, MuHeldKept
<1>. QED
  BY <1>14, <1>15, <1>17, <1>18, <1>19, <1>20, <1>21, <1>22, <1>23,
     <1>24, <1>25, <1>26, <1>27 DEF IInv

\* The destructor takes every live id out of its topic.
LEMMA DtorBeginInv ==
    ASSUME IInv, NEW th \in Threads, DtorBegin(th)
    PROVE  IInv'
<1> DEFINE d == [dtor EXCEPT !.pc = "retire", !.thread = th, !.ids = {i \in Ids : Live(i)}]
<1>0. dtor \in Dtors
  BY DEF IInv, TypeOK
<1>1. dtor' = d /\ d \in Dtors
  BY <1>0, Zenon DEF DtorBegin, Dtors, DtorPCs, NoId
<1>2. d.pc = "retire" /\ d.thread = th /\ d.ids = {i \in Ids : Live(i)}
      /\ d.topics = dtor.topics
  BY <1>0 DEF Dtors
<1> HIDE DEF d
<1>3. /\ \A c \in Contexts : call[c].pc = "idle"
      /\ dtor.ids = {} /\ dtor.topics = {}
  BY DEF DtorBegin, IInv, DtorShape
<1>4. retirements' = retirements \cup {i \in Ids : Live(i)}
  BY DEF DtorBegin
<1>5. entries' = [t \in Topics |-> {}] /\ subscription_topic' = [i \in Ids |-> NoTopic]
  BY DEF DtorBegin
<1>6. UNCHANGED <<mu, next_id, options, gate, retired, provider_subscribed,
                 in_progress, opened, raced, frame, call, known, freed, stack,
                 deferred>>
  BY DEF DtorBegin, coreVars, gateVars, providerVars, frameVars
<1>7. TypeOK'
  BY <1>0, <1>1, <1>4, <1>5, <1>6 DEF IInv, TypeOK
<1>8. FrameShape' /\ CallShape' /\ GateHeld' /\ FreedSilent' /\
      CallSilent' /\ DeferredRetired' /\ FlightOpen' /\ SlotShape' /\
      MuHeld'
  BY <1>6, Kept DEF IInv
<1>9. \A j \in Ids : Silent(j) => Silent(j)'
  BY <1>6 DEF Silent, Running
<1>10. Issued'
  BY <1>3, <1>4, <1>5, <1>6, SubscriberAssumption, Zenon DEF IInv, Issued, Live, TypeOK
<1>11. Listed'
  BY <1>5, <1>6, SubscriberAssumption, Zenon DEF IInv, Listed
<1>12. LiveNotRetiring'
  BY <1>4, <1>5, <1>6 DEF IInv, LiveNotRetiring, Live
<1>13. GoneSilent'
  BY <1>4, <1>5, <1>6, <1>9 DEF IInv, GoneSilent, Live
<1>14. SubscribeOwnId'
  BY <1>3, <1>5, <1>6 DEF IInv, SubscribeOwnId, Live, CallShape
<1>15. RetiringRetired'
  BY <1>0, <1>1, <1>2, <1>3, <1>4, <1>6 DEF IInv, RetiringRetired
<1>16. OpenHeld'
  BY <1>0, <1>1, <1>2, <1>3, <1>6 DEF IInv, OpenHeld
<1>17. DtorShape'
  BY <1>0, <1>1, <1>2, <1>3, <1>5, <1>6 DEF IInv, DtorShape, Live
<1>. QED
  BY <1>7, <1>8, <1>10, <1>11, <1>12, <1>13, <1>14, <1>15, <1>16, <1>17 DEF IInv

\* It stores the retired flag of an id.
LEMMA DtorRetireInv ==
    ASSUME IInv, NEW i \in Ids, DtorRetire(i)
    PROVE  IInv'
<1> DEFINE d == [dtor EXCEPT !.pc = "drain", !.ids = @ \ {i}, !.cur = i]
<1>0. dtor \in Dtors
  BY DEF IInv, TypeOK
<1>1. dtor' = d /\ d \in Dtors
  BY <1>0, Zenon DEF DtorRetire, Dtors, DtorPCs, NoId
<1>2. d.pc = "drain" /\ d.cur = i /\ d.ids = dtor.ids \ {i}
      /\ d.thread = dtor.thread /\ d.topics = dtor.topics
  BY <1>0 DEF Dtors
<1> HIDE DEF d
<1>3. dtor.pc = "retire"
  BY DEF DtorRetire
<1>4. retired' = [retired EXCEPT ![i] = TRUE] /\ retired \in [Ids -> BOOLEAN]
  BY DEF DtorRetire, IInv, TypeOK
<1>5. UNCHANGED <<mu, next_id, subscription_topic, entries, options,
                 retirements, gate, provider_subscribed, in_progress, opened,
                 raced, frame, call, known, freed, stack, deferred>>
  BY DEF DtorRetire, coreVars, gateVars, providerVars, frameVars
<1>6. TypeOK'
  BY <1>0, <1>1, <1>3, <1>4, <1>5 DEF IInv, TypeOK
<1>7. FrameShape' /\ CallShape' /\ Issued' /\ GateHeld' /\ Listed' /\
      LiveNotRetiring' /\ SubscribeOwnId' /\ FlightOpen' /\ SlotShape' /\
      MuHeld'
  BY <1>5, Kept DEF IInv
<1>8. \A j \in Ids : Silent(j) => Silent(j)'
  BY <1>3, <1>4, <1>5 DEF IInv, TypeOK, Silent, Running
<1>9. GoneSilent'
  BY <1>3, <1>4, <1>5, <1>8 DEF IInv, GoneSilent, Live
<1>10. FreedSilent'
  BY <1>3, <1>4, <1>5, <1>8 DEF IInv, FreedSilent, TypeOK
<1>11. CallSilent'
  BY <1>3, <1>4, <1>5, <1>8 DEF IInv, CallSilent, CallShape
<1>12. DeferredRetired'
  BY <1>3, <1>4, <1>5, <1>8, DueTyped DEF IInv, DeferredRetired, FrameShape
<1>13. RetiringRetired'
  BY <1>0, <1>1, <1>2, <1>3, <1>4, <1>5 DEF IInv, RetiringRetired, TypeOK
<1>14. OpenHeld'
  BY <1>0, <1>1, <1>2, <1>3, <1>5 DEF IInv, OpenHeld
<1>15. DtorShape'
  BY <1>0, <1>1, <1>2, <1>3, <1>4, <1>5 DEF IInv, DtorShape, Live
<1>. QED
  BY <1>6, <1>7, <1>9, <1>10, <1>11, <1>12, <1>13, <1>14, <1>15 DEF IInv

\* It has waited for the gate of that id.
LEMMA DtorDrainInv ==
    ASSUME IInv, DtorDrain
    PROVE  IInv'
<1> DEFINE d == [dtor EXCEPT !.pc = "retire", !.cur = NoId]
<1>0. dtor \in Dtors
  BY DEF IInv, TypeOK
<1>1. dtor' = d /\ d \in Dtors
  BY <1>0, Zenon DEF DtorDrain, Dtors, DtorPCs, NoId
<1>2. d.pc = "retire" /\ d.ids = dtor.ids /\ d.thread = dtor.thread
      /\ d.topics = dtor.topics
  BY <1>0 DEF Dtors
<1> HIDE DEF d
<1>3. dtor.pc = "drain" /\ dtor.cur \in Ids /\ retired[dtor.cur] /\ gate[dtor.cur] = NoThread
  BY DEF DtorDrain, Barrier, IInv, DtorShape
<1>4. Silent(dtor.cur)
  BY <1>3, SubscriberAssumption DEF IInv, GateHeld, HoldsGate, Silent, Running
<1>5. retirements' = retirements \ {dtor.cur}
  BY DEF DtorDrain
<1>6. UNCHANGED <<mu, next_id, subscription_topic, entries, options, gate,
                 retired, provider_subscribed, in_progress, opened, raced,
                 frame, call, known, freed, stack, deferred>>
  BY DEF DtorDrain, coreVars, gateVars, providerVars, frameVars
<1>7. TypeOK'
  BY <1>0, <1>1, <1>3, <1>5, <1>6 DEF IInv, TypeOK
<1>8. FrameShape' /\ CallShape' /\ GateHeld' /\ Listed' /\ SubscribeOwnId'
      /\ FreedSilent' /\ CallSilent' /\ DeferredRetired' /\ FlightOpen' /\
      SlotShape' /\ MuHeld'
  BY <1>6, Kept DEF IInv
<1>9. \A j \in Ids : Silent(j) => Silent(j)'
  BY <1>6 DEF Silent, Running
<1>10. Issued'
  BY <1>3, <1>5, <1>6, Zenon DEF IInv, Issued, Live
<1>11. LiveNotRetiring'
  BY <1>3, <1>5, <1>6, Zenon DEF IInv, LiveNotRetiring, Live
<1>12. GoneSilent'
  BY <1>3, <1>4, <1>5, <1>6, <1>9 DEF IInv, GoneSilent, Live
<1>13. RetiringRetired'
  BY <1>0, <1>1, <1>2, <1>3, <1>5, <1>6 DEF IInv, RetiringRetired
<1>14. OpenHeld'
  BY <1>0, <1>1, <1>2, <1>3, <1>6 DEF IInv, OpenHeld
<1>15. DtorShape'
  BY <1>0, <1>1, <1>2, <1>3, <1>6 DEF IInv, DtorShape, Live
<1>. QED
  BY <1>7, <1>8, <1>10, <1>11, <1>12, <1>13, <1>14, <1>15 DEF IInv

\* It collects the topics that the provider still serves.
LEMMA DtorCollectInv ==
    ASSUME IInv, DtorCollect
    PROVE  IInv'
<1> DEFINE d == [dtor EXCEPT !.pc = "teardown", !.topics = SubscribedTopics]
<1>0. dtor \in Dtors
  BY DEF IInv, TypeOK
<1>1. SubscribedTopics = {t \in Topics : provider_subscribed[t]}
  BY DEF SubscribedTopics
<1>2. dtor' = d /\ d \in Dtors
  BY <1>0, <1>1, Zenon DEF DtorCollect, Dtors, DtorPCs, NoId
<1>3. d.pc = "teardown" /\ d.ids = dtor.ids /\ d.thread = dtor.thread
      /\ d.topics = SubscribedTopics
  BY <1>0 DEF Dtors
<1> HIDE DEF d
<1>4. dtor.pc = "retire" /\ dtor.ids = {} /\ provider_subscribed' = [t \in Topics |-> FALSE]
  BY DEF DtorCollect
<1>5. dtor.topics = {}
  BY <1>4 DEF IInv, DtorShape
<1>6. UNCHANGED <<mu, next_id, subscription_topic, entries, options,
                 retirements, gate, retired, in_progress, opened, raced, frame,
                 call, known, freed, stack, deferred>>
  BY DEF DtorCollect, coreVars, gateVars, providerVars, frameVars
<1>7. TypeOK'
  BY <1>0, <1>1, <1>2, <1>4, <1>5, <1>6, Zenon DEF IInv, TypeOK
<1>8. FrameShape' /\ CallShape' /\ Issued' /\ GateHeld' /\ Listed' /\
      LiveNotRetiring' /\ GoneSilent' /\ SubscribeOwnId' /\ FreedSilent'
      /\ CallSilent' /\ DeferredRetired' /\ FlightOpen' /\ SlotShape' /\
      MuHeld'
  BY <1>6, Kept DEF IInv
<1>9. RetiringRetired'
  BY <1>0, <1>1, <1>2, <1>3, <1>4, <1>5, <1>6, Zenon DEF IInv, RetiringRetired
<1>10. OpenHeld'
  BY <1>0, <1>1, <1>2, <1>3, <1>4, <1>5, <1>6 DEF IInv, OpenHeld
<1>11. DtorShape'
  BY <1>0, <1>1, <1>2, <1>3, <1>4, <1>5, <1>6 DEF IInv, DtorShape, Live
<1>. QED
  BY <1>7, <1>8, <1>9, <1>10, <1>11 DEF IInv

\* It unsubscribes one of these from the provider.
LEMMA DtorTearDownInv ==
    ASSUME IInv, NEW t \in Topics, DtorTearDown(t)
    PROVE  IInv'
<1> DEFINE d == [dtor EXCEPT !.topics = @ \ {t}]
<1>0. dtor \in Dtors
  BY DEF IInv, TypeOK
<1>1. dtor' = d /\ d \in Dtors
  BY <1>0 DEF DtorTearDown, Dtors, DtorPCs, NoId
<1>2. d.pc = dtor.pc /\ d.ids = dtor.ids /\ d.thread = dtor.thread
      /\ d.cur = dtor.cur /\ d.topics = dtor.topics \ {t}
  BY <1>0 DEF Dtors
<1> HIDE DEF d
<1>3. dtor.pc = "teardown"
  BY DEF DtorTearDown
<1>4. opened' = [opened EXCEPT ![t] = FALSE] /\ opened \in [Topics -> BOOLEAN]
  BY DEF DtorTearDown, IInv, TypeOK
<1>5. \A u \in Threads : frame[u].topic # t
  BY DEF DtorTearDown, MayTearDown
<1>6. UNCHANGED <<mu, next_id, subscription_topic, entries, options,
                 retirements, gate, retired, provider_subscribed, in_progress,
                 raced, frame, call, known, freed, stack, deferred>>
  BY DEF DtorTearDown, coreVars, gateVars, providerVars, frameVars
<1>7. TypeOK'
  BY <1>0, <1>1, <1>3, <1>4, <1>6 DEF IInv, TypeOK
<1>8. FrameShape' /\ CallShape' /\ Issued' /\ GateHeld' /\ Listed' /\
      LiveNotRetiring' /\ GoneSilent' /\ SubscribeOwnId' /\ FreedSilent'
      /\ CallSilent' /\ DeferredRetired' /\ SlotShape' /\ MuHeld'
  BY <1>6, Kept DEF IInv
<1>9. RetiringRetired'
  BY <1>0, <1>1, <1>2, <1>3, <1>6, Zenon DEF IInv, RetiringRetired
<1>10. FlightOpen'
  BY <1>3, <1>4, <1>5, <1>6 DEF IInv, FlightOpen
<1>11. OpenHeld'
  BY <1>0, <1>1, <1>2, <1>3, <1>4, <1>6, Zenon DEF IInv, OpenHeld
<1>12. DtorShape'
  BY <1>0, <1>1, <1>2, <1>3, <1>6, Zenon DEF IInv, DtorShape, Live
<1>. QED
  BY <1>7, <1>8, <1>9, <1>10, <1>11, <1>12 DEF IInv

\* It ends.
LEMMA DtorEndInv ==
    ASSUME IInv, DtorEnd
    PROVE  IInv'
<1> DEFINE d == [dtor EXCEPT !.pc = "dead"]
<1>0. dtor \in Dtors
  BY DEF IInv, TypeOK
<1>1. dtor' = d /\ d \in Dtors
  BY <1>0 DEF DtorEnd, Dtors, DtorPCs, NoId
<1>2. d.pc = "dead" /\ d.ids = dtor.ids /\ d.thread = dtor.thread /\ d.topics = dtor.topics
  BY <1>0 DEF Dtors
<1> HIDE DEF d
<1>3. dtor.pc = "teardown" /\ dtor.topics = {}
  BY DEF DtorEnd
<1>4. freed' = freed \cup {i \in Ids : i < next_id}
  BY DEF DtorEnd
<1>5. \A u \in Threads, i \in Ids : ~Running(u, i)
  <2>1. \A t \in Topics : ~opened[t]
    BY <1>3, Zenon DEF IInv, OpenHeld, DtorShape
  <2>2. \A u \in Threads : frame[u].pc \notin InTopic
    BY <2>1 DEF IInv, FlightOpen, FrameShape
  <2>. QED
    BY <2>2 DEF Running, InTopic
<1>6. \A i \in Ids : i < next_id => Silent(i)
  BY <1>3, <1>5 DEF IInv, DtorShape, GoneSilent, RetiringRetired, Silent
<1>7. UNCHANGED <<mu, next_id, subscription_topic, entries, options,
                 retirements, gate, retired, provider_subscribed, in_progress,
                 opened, raced, frame, call, known, stack, deferred>>
  BY DEF DtorEnd, coreVars, gateVars, providerVars, frameVars
<1>8. TypeOK'
  BY <1>0, <1>1, <1>3, <1>4, <1>7 DEF IInv, TypeOK
<1>9. FrameShape' /\ CallShape' /\ Issued' /\ GateHeld' /\ Listed' /\
      LiveNotRetiring' /\ GoneSilent' /\ SubscribeOwnId' /\ CallSilent' /\
      DeferredRetired' /\ FlightOpen' /\ SlotShape' /\ MuHeld'
  BY <1>7, Kept DEF IInv
<1>10. \A j \in Ids : Silent(j) => Silent(j)'
  BY <1>7 DEF Silent, Running
<1>11. FreedSilent'
  BY <1>3, <1>4, <1>6, <1>7, <1>10, Zenon DEF IInv, FreedSilent, TypeOK
<1>12. RetiringRetired'
  BY <1>0, <1>1, <1>2, <1>3, <1>7, Zenon DEF IInv, RetiringRetired
<1>13. OpenHeld'
  BY <1>0, <1>1, <1>2, <1>3, <1>7 DEF IInv, OpenHeld
<1>14. DtorShape'
  BY <1>0, <1>1, <1>2, <1>3, <1>7 DEF IInv, DtorShape, Live
<1>. QED
  BY <1>8, <1>9, <1>11, <1>12, <1>13, <1>14 DEF IInv
=============================================================================
