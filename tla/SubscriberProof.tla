-------------------------- MODULE SubscriberProof ---------------------------
(*****************************************************************************)
(* The steps of a delivery preserve the invariant; with the other steps,     *)
(* what holds of the Subscriber for any set of threads and topics, any       *)
(* number of ids and every kind of provider.                                 *)
(*****************************************************************************)
EXTENDS SubscriberSubscribeProof, SubscriberRefinement

\* A sample arrives, and the token of the provider goes on the stack.
LEMMA DeliverBeginInv ==
    ASSUME IInv, NEW th \in Threads, NEW t \in Topics, DeliverBegin(th, t)
    PROVE  IInv'
<1> DEFINE s == Append(stack[th], Provider)
<1> DEFINE f == [NoFrame EXCEPT !.pc = "begun", !.topic = t]
<1>0. frame[th] \in Frames /\ frame \in [Threads -> Frames]
  BY DEF IInv, TypeOK
<1>1. /\ frame[th].pc = "none" /\ opened[t]
      /\ call[<<th, 0>>].pc \in {"idle", "provider", "opened", "teardown"}
      /\ call[<<th, 1>>].pc = "idle"
  BY DEF DeliverBegin, MayDeliver, IInv, SlotShape, SlotShapeOf
<1>2. f.pc = "begun" /\ f.topic = t /\ f.todo = {} /\ f.cur = NoId
  BY DEF NoFrame
<1>3. f \in Frames
  BY NoneTyped, Zenon DEF Frames, FramePCs
<1>4. frame' = [frame EXCEPT ![th] = f]
  BY DEF DeliverBegin
<1>5. /\ stack \in [Threads -> Seq(Tokens)] /\ stack[th] \in Seq(Tokens)
      /\ Len(stack[th]) \in Nat
  BY DEF IInv, TypeOK, Tokens
<1>6. Len(stack[th]) = 0
  BY <1>1 DEF IInv, FrameShape, StackAt
<1>7. /\ s \in Seq(Tokens) /\ Len(s) = Len(stack[th]) + 1
      /\ s[Len(s)] = Provider /\ \A j \in 1..Len(stack[th]) : s[j] = stack[th][j]
  <2>1. Provider \in Tokens
    BY DEF Tokens
  <2>. QED
    BY <1>5, <2>1, Pushed
<1>8. StackAt(s, "begun")
  BY <1>5, <1>6, <1>7 DEF StackAt
<1>9. stack' = [stack EXCEPT ![th] = s]
  BY DEF DeliverBegin, PushScope, PopScope
<1> HIDE DEF s
<1>10. UNCHANGED <<mu, next_id, subscription_topic, entries, options,
                 retirements, gate, retired, provider_subscribed, in_progress,
                 opened, raced, call, dtor, known, freed, deferred>>
  BY DEF DeliverBegin, coreVars, gateVars, providerVars, frameVars
<1>11. TypeOK'
  BY <1>0, <1>1, <1>2, <1>3, <1>4, <1>5, <1>7, <1>9, <1>10 DEF IInv, TypeOK, Tokens
<1>12. CallShape' /\ Listed' /\ LiveNotRetiring' /\ SubscribeOwnId' /\
      RetiringRetired' /\ OpenHeld' /\ DtorShape' /\ MuHeld'
  BY <1>10, Kept DEF IInv
<1>13. \A j \in Ids : Silent(j) => Silent(j)'
  BY <1>0, <1>1, <1>2, <1>3, <1>4, <1>10 DEF IInv, TypeOK, Silent, Running
<1>14. FrameShape'
  BY <1>0, <1>1, <1>2, <1>3, <1>4, <1>5, <1>7, <1>8, <1>9, <1>10, SubscriberAssumption
  DEF IInv, FrameShape, StackAt, InTopic, HoldsGate, Frames
<1>15. Issued'
  BY <1>0, <1>1, <1>2, <1>3, <1>4, <1>10
  DEF IInv, Issued, Live, HoldsGate, TypeOK, Frames
<1>16. GateHeld'
  BY <1>0, <1>1, <1>2, <1>3, <1>4, <1>10, SubscriberAssumption
  DEF IInv, GateHeld, HoldsGate, TypeOK, FrameShape, Frames
<1>17. GoneSilent'
  BY <1>0, <1>1, <1>2, <1>3, <1>4, <1>10, <1>13 DEF IInv, GoneSilent, Live
<1>18. FreedSilent'
  BY <1>0, <1>1, <1>2, <1>3, <1>4, <1>10, <1>13 DEF IInv, FreedSilent, TypeOK
<1>19. CallSilent'
  BY <1>0, <1>1, <1>2, <1>3, <1>4, <1>10, <1>13 DEF IInv, CallSilent, CallShape
<1>20. DeferredRetired'
  BY <1>0, <1>1, <1>2, <1>3, <1>4, <1>10, <1>13, DueTyped
  DEF IInv, DeferredRetired, FrameShape
<1>21. FlightOpen'
  BY <1>0, <1>1, <1>2, <1>3, <1>4, <1>10, SubscriberAssumption
  DEF IInv, FlightOpen, Frames, FrameShape, InTopic
<1>22. SlotShape'
  BY <1>0, <1>1, <1>2, <1>3, <1>4, <1>10 DEF IInv, SlotShape, SlotShapeOf, Frames
<1>. QED
  BY <1>11, <1>12, <1>14, <1>15, <1>16, <1>17, <1>18, <1>19, <1>20,
     <1>21, <1>22 DEF IInv

\* The dispatch lambda loads the entries of the topic.
LEMMA FanoutLoadInv ==
    ASSUME IInv, NEW th \in Threads, FanoutLoad(th)
    PROVE  IInv'
<1> DEFINE s == Append(stack[th], Identity)
<1> DEFINE f == [frame[th] EXCEPT !.pc = "fanout", !.todo = entries[frame[th].topic]]
<1>0. frame[th] \in Frames /\ frame \in [Threads -> Frames]
  BY DEF IInv, TypeOK
<1>1. frame[th].pc = "begun" /\ frame[th].topic \in Topics
  BY DEF FanoutLoad, IInv, FrameShape, InTopic
<1>2. entries[frame[th].topic] \in SUBSET Ids
  BY <1>1 DEF IInv, TypeOK
<1>3. frame' = [frame EXCEPT ![th] = f] /\ f \in Frames
  BY <1>0, <1>2, Zenon DEF FanoutLoad, Frames, FramePCs
<1>4. /\ stack \in [Threads -> Seq(Tokens)] /\ stack[th] \in Seq(Tokens)
      /\ Len(stack[th]) \in Nat
  BY DEF IInv, TypeOK, Tokens
<1>5. Len(stack[th]) = 1 /\ stack[th][1] = Provider
  BY <1>1 DEF IInv, FrameShape, StackAt
<1>6. /\ s \in Seq(Tokens) /\ Len(s) = Len(stack[th]) + 1
      /\ s[Len(s)] = Identity /\ \A j \in 1..Len(stack[th]) : s[j] = stack[th][j]
  <2>1. Identity \in Tokens
    BY DEF Tokens
  <2>. QED
    BY <1>4, <2>1, Pushed
<1>7. StackAt(s, "fanout")
  BY <1>4, <1>5, <1>6 DEF StackAt
<1>8. stack' = [stack EXCEPT ![th] = s]
  BY DEF FanoutLoad, PushScope, PopScope
<1> HIDE DEF s
<1>9. UNCHANGED <<mu, next_id, subscription_topic, entries, options,
                 retirements, gate, retired, provider_subscribed, in_progress,
                 opened, raced, call, dtor, known, freed, deferred>>
  BY DEF FanoutLoad, coreVars, gateVars, providerVars, frameVars
<1>10. TypeOK'
  BY <1>0, <1>1, <1>2, <1>3, <1>4, <1>6, <1>8, <1>9 DEF IInv, TypeOK, Tokens
<1>11. CallShape' /\ Listed' /\ LiveNotRetiring' /\ SubscribeOwnId' /\
      RetiringRetired' /\ OpenHeld' /\ DtorShape' /\ MuHeld'
  BY <1>9, Kept DEF IInv
<1>12. \A j \in Ids : Silent(j) => Silent(j)'
  BY <1>0, <1>1, <1>2, <1>3, <1>9 DEF IInv, TypeOK, Silent, Running
<1>13. FrameShape'
  <2>1. /\ frame'[th].pc = "fanout" /\ frame'[th].topic \in Topics
        /\ stack'[th] = s /\ deferred' = deferred
    BY <1>0, <1>1, <1>3, <1>4, <1>8, <1>9 DEF IInv, TypeOK, Frames
  <2>2. \A u \in Threads : u # th => frame'[u] = frame[u] /\ stack'[u] = stack[u]
    BY <1>0, <1>3, <1>4, <1>8
  <2>. QED
    BY <1>7, <2>1, <2>2 DEF IInv, FrameShape, InTopic, HoldsGate
<1>14. Issued'
  <2>1. \A i \in entries[frame[th].topic] : i \in Ids /\ i < next_id
    BY <1>1, <1>2, SubscriberAssumption DEF IInv, Listed, Issued, Live
  <2>2. /\ f.todo = entries[frame[th].topic] /\ f.pc = "fanout"
        /\ frame'[th] = f /\ \A u \in Threads \ {th} : frame'[u] = frame[u]
    BY <1>0, <1>3 DEF Frames
  <2>. QED
    BY <1>9, <2>1, <2>2, Zenon DEF IInv, Issued, Live, HoldsGate
<1>15. GateHeld'
  BY <1>0, <1>1, <1>2, <1>3, <1>9, SubscriberAssumption
  DEF IInv, GateHeld, HoldsGate, TypeOK, FrameShape, Frames
<1>16. GoneSilent'
  BY <1>0, <1>1, <1>2, <1>3, <1>9, <1>12 DEF IInv, GoneSilent, Live
<1>17. FreedSilent'
  BY <1>0, <1>1, <1>2, <1>3, <1>9, <1>12 DEF IInv, FreedSilent, TypeOK
<1>18. CallSilent'
  BY <1>0, <1>1, <1>2, <1>3, <1>9, <1>12 DEF IInv, CallSilent, CallShape
<1>19. DeferredRetired'
  BY <1>0, <1>1, <1>2, <1>3, <1>9, <1>12, DueTyped
  DEF IInv, DeferredRetired, FrameShape
<1>20. FlightOpen'
  BY <1>0, <1>1, <1>2, <1>3, <1>9, SubscriberAssumption
  DEF IInv, FlightOpen, Frames, FrameShape, InTopic
<1>21. SlotShape'
  BY <1>0, <1>1, <1>2, <1>3, <1>9, Zenon DEF IInv, SlotShape, SlotShapeOf, Frames
<1>. QED
  BY <1>10, <1>11, <1>13, <1>14, <1>15, <1>16, <1>17, <1>18, <1>19,
     <1>20, <1>21 DEF IInv

\* It takes the gate of that subscription.
LEMMA FanoutLockGateInv ==
    ASSUME IInv, NEW th \in Threads, NEW i \in Ids, FanoutLockGate(th, i)
    PROVE  IInv'
<1> DEFINE f == [frame[th] EXCEPT !.pc = "gated", !.cur = i, !.todo = @ \ {i}]
<1>0. frame[th] \in Frames /\ frame \in [Threads -> Frames]
  BY DEF IInv, TypeOK
<1>1. frame[th].pc = "fanout" /\ i \in frame[th].todo /\ gate[i] = NoThread
  BY DEF FanoutLockGate, NextEntry
<1>2. frame' = [frame EXCEPT ![th] = f] /\ f \in Frames
  BY <1>0, Zenon DEF FanoutLockGate, Frames, FramePCs
<1>3. gate' = [gate EXCEPT ![i] = th] /\ gate \in [Ids -> Threads \cup {NoThread}]
  BY DEF FanoutLockGate, IInv, TypeOK
<1>4. UNCHANGED <<mu, next_id, subscription_topic, entries, options,
                 retirements, retired, provider_subscribed, in_progress,
                 opened, raced, call, dtor, known, freed, stack, deferred>>
  BY DEF FanoutLockGate, coreVars, gateVars, providerVars, frameVars
<1>5. TypeOK'
  BY <1>0, <1>1, <1>2, <1>3, <1>4 DEF IInv, TypeOK
<1>6. CallShape' /\ Listed' /\ LiveNotRetiring' /\ SubscribeOwnId' /\
      RetiringRetired' /\ OpenHeld' /\ DtorShape' /\ MuHeld'
  BY <1>4, Kept DEF IInv
<1>7. \A j \in Ids : Silent(j) => Silent(j)'
  BY <1>0, <1>1, <1>2, <1>3, <1>4 DEF IInv, TypeOK, Silent, Running
<1>8. FrameShape'
  BY <1>0, <1>1, <1>2, <1>3, <1>4, SubscriberAssumption
  DEF IInv, FrameShape, StackAt, InTopic, HoldsGate, Frames
<1>9. Issued'
  BY <1>0, <1>1, <1>2, <1>3, <1>4 DEF IInv, Issued, Live, HoldsGate, TypeOK, Frames
<1>10. GateHeld'
  BY <1>0, <1>1, <1>2, <1>3, <1>4, SubscriberAssumption
  DEF IInv, GateHeld, HoldsGate, TypeOK, FrameShape, Frames
<1>11. GoneSilent'
  BY <1>0, <1>1, <1>2, <1>3, <1>4, <1>7 DEF IInv, GoneSilent, Live
<1>12. FreedSilent'
  BY <1>0, <1>1, <1>2, <1>3, <1>4, <1>7 DEF IInv, FreedSilent, TypeOK
<1>13. CallSilent'
  BY <1>0, <1>1, <1>2, <1>3, <1>4, <1>7 DEF IInv, CallSilent, CallShape
<1>14. DeferredRetired'
  BY <1>0, <1>1, <1>2, <1>3, <1>4, <1>7, DueTyped
  DEF IInv, DeferredRetired, FrameShape
<1>15. FlightOpen'
  BY <1>0, <1>1, <1>2, <1>3, <1>4, SubscriberAssumption
  DEF IInv, FlightOpen, Frames, FrameShape, InTopic
<1>16. SlotShape'
  BY <1>0, <1>1, <1>2, <1>3, <1>4, Zenon DEF IInv, SlotShape, SlotShapeOf, Frames
<1>. QED
  BY <1>5, <1>6, <1>8, <1>9, <1>10, <1>11, <1>12, <1>13, <1>14, <1>15,
     <1>16 DEF IInv

\* It passes over a subscription that was cancelled.
LEMMA FanoutSkipInv ==
    ASSUME IInv, NEW th \in Threads, FanoutSkip(th)
    PROVE  IInv'
<1> DEFINE f == [frame[th] EXCEPT !.pc = "fanout", !.cur = NoId]
<1>0. frame[th] \in Frames /\ frame \in [Threads -> Frames]
  BY DEF IInv, TypeOK
<1>1. frame[th].pc = "gated" /\ frame[th].cur \in Ids
  BY DEF FanoutSkip, IInv, FrameShape, HoldsGate
<1>2. frame' = [frame EXCEPT ![th] = f] /\ f \in Frames
  BY <1>0, Zenon DEF FanoutSkip, Frames, FramePCs, NoId
<1>3. gate' = [gate EXCEPT ![frame[th].cur] = NoThread] /\ gate \in [Ids -> Threads \cup {NoThread}]
  BY DEF FanoutSkip, IInv, TypeOK
<1>4. UNCHANGED <<mu, next_id, subscription_topic, entries, options,
                 retirements, retired, provider_subscribed, in_progress,
                 opened, raced, call, dtor, known, freed, stack, deferred>>
  BY DEF FanoutSkip, coreVars, gateVars, providerVars, frameVars
<1>5. TypeOK'
  BY <1>0, <1>1, <1>2, <1>3, <1>4 DEF IInv, TypeOK
<1>6. CallShape' /\ Listed' /\ LiveNotRetiring' /\ SubscribeOwnId' /\
      RetiringRetired' /\ OpenHeld' /\ DtorShape' /\ MuHeld'
  BY <1>4, Kept DEF IInv
<1>7. \A j \in Ids : Silent(j) => Silent(j)'
  BY <1>0, <1>1, <1>2, <1>3, <1>4 DEF IInv, TypeOK, Silent, Running
<1>8. FrameShape'
  BY <1>0, <1>1, <1>2, <1>3, <1>4, SubscriberAssumption
  DEF IInv, FrameShape, StackAt, InTopic, HoldsGate, Frames
<1>9. Issued'
  BY <1>0, <1>1, <1>2, <1>3, <1>4 DEF IInv, Issued, Live, HoldsGate, TypeOK, Frames
<1>10. GateHeld'
  BY <1>0, <1>1, <1>2, <1>3, <1>4, SubscriberAssumption
  DEF IInv, GateHeld, HoldsGate, TypeOK, FrameShape, Frames
<1>11. GoneSilent'
  BY <1>0, <1>1, <1>2, <1>3, <1>4, <1>7 DEF IInv, GoneSilent, Live
<1>12. FreedSilent'
  BY <1>0, <1>1, <1>2, <1>3, <1>4, <1>7 DEF IInv, FreedSilent, TypeOK
<1>13. CallSilent'
  BY <1>0, <1>1, <1>2, <1>3, <1>4, <1>7 DEF IInv, CallSilent, CallShape
<1>14. DeferredRetired'
  BY <1>0, <1>1, <1>2, <1>3, <1>4, <1>7, DueTyped
  DEF IInv, DeferredRetired, FrameShape
<1>15. FlightOpen'
  BY <1>0, <1>1, <1>2, <1>3, <1>4, SubscriberAssumption
  DEF IInv, FlightOpen, Frames, FrameShape, InTopic
<1>16. SlotShape'
  BY <1>0, <1>1, <1>2, <1>3, <1>4, Zenon DEF IInv, SlotShape, SlotShapeOf, Frames
<1>. QED
  BY <1>5, <1>6, <1>8, <1>9, <1>10, <1>11, <1>12, <1>13, <1>14, <1>15,
     <1>16 DEF IInv

\* A callback returns, and the gate is released.
LEMMA CallbackReturnInv ==
    ASSUME IInv, NEW th \in Threads, CallbackReturn(th)
    PROVE  IInv'
<1> DEFINE f == [frame[th] EXCEPT !.pc = "fanout", !.cur = NoId]
<1>0. frame[th] \in Frames /\ frame \in [Threads -> Frames]
  BY DEF IInv, TypeOK
<1>1. frame[th].pc = "running" /\ frame[th].cur \in Ids
  BY DEF CallbackReturn, IInv, FrameShape, HoldsGate
<1>2. call[<<th, 1>>].pc = "idle"
  BY <1>1 DEF CallbackReturn, At, Self, Ctx
<1>3. frame' = [frame EXCEPT ![th] = f] /\ f \in Frames
  BY <1>0, Zenon DEF CallbackReturn, Frames, FramePCs, NoId
<1>4. gate' = [gate EXCEPT ![frame[th].cur] = NoThread] /\ gate \in [Ids -> Threads \cup {NoThread}]
  BY DEF CallbackReturn, IInv, TypeOK
<1>5. UNCHANGED <<mu, next_id, subscription_topic, entries, options,
                 retirements, retired, provider_subscribed, in_progress,
                 opened, raced, call, dtor, known, freed, stack, deferred>>
  BY DEF CallbackReturn, coreVars, gateVars, providerVars, frameVars
<1>6. TypeOK'
  BY <1>0, <1>1, <1>2, <1>3, <1>4, <1>5 DEF IInv, TypeOK
<1>7. CallShape' /\ Listed' /\ LiveNotRetiring' /\ SubscribeOwnId' /\
      RetiringRetired' /\ OpenHeld' /\ DtorShape' /\ MuHeld'
  BY <1>5, Kept DEF IInv
<1>8. \A j \in Ids : Silent(j) => Silent(j)'
  BY <1>0, <1>1, <1>2, <1>3, <1>4, <1>5 DEF IInv, TypeOK, Silent, Running
<1>9. FrameShape'
  BY <1>0, <1>1, <1>2, <1>3, <1>4, <1>5, SubscriberAssumption
  DEF IInv, FrameShape, StackAt, InTopic, HoldsGate, Frames
<1>10. Issued'
  BY <1>0, <1>1, <1>2, <1>3, <1>4, <1>5
  DEF IInv, Issued, Live, HoldsGate, TypeOK, Frames
<1>11. GateHeld'
  BY <1>0, <1>1, <1>2, <1>3, <1>4, <1>5, SubscriberAssumption
  DEF IInv, GateHeld, HoldsGate, TypeOK, FrameShape, Frames
<1>12. GoneSilent'
  BY <1>0, <1>1, <1>2, <1>3, <1>4, <1>5, <1>8 DEF IInv, GoneSilent, Live
<1>13. FreedSilent'
  BY <1>0, <1>1, <1>2, <1>3, <1>4, <1>5, <1>8 DEF IInv, FreedSilent, TypeOK
<1>14. CallSilent'
  BY <1>0, <1>1, <1>2, <1>3, <1>4, <1>5, <1>8 DEF IInv, CallSilent, CallShape
<1>15. DeferredRetired'
  BY <1>0, <1>1, <1>2, <1>3, <1>4, <1>5, <1>8, DueTyped
  DEF IInv, DeferredRetired, FrameShape
<1>16. FlightOpen'
  BY <1>0, <1>1, <1>2, <1>3, <1>4, <1>5, SubscriberAssumption
  DEF IInv, FlightOpen, Frames, FrameShape, InTopic
<1>17. SlotShape'
  BY <1>0, <1>1, <1>2, <1>3, <1>4, <1>5, Zenon
  DEF IInv, SlotShape, SlotShapeOf, Frames
<1>. QED
  BY <1>6, <1>7, <1>9, <1>10, <1>11, <1>12, <1>13, <1>14, <1>15, <1>16,
     <1>17 DEF IInv

\* The gate is held and open: the callback is called.
LEMMA FanoutInvokeInv ==
    ASSUME IInv, NEW th \in Threads, FanoutInvoke(th)
    PROVE  IInv'
<1> DEFINE f == [frame[th] EXCEPT !.pc = "running"]
<1>0. frame[th] \in Frames /\ frame \in [Threads -> Frames]
  BY DEF IInv, TypeOK
<1>1. frame[th].pc = "gated" /\ frame[th].cur \in Ids /\ ~retired[frame[th].cur]
  BY DEF FanoutInvoke, Invocable, IInv, FrameShape, HoldsGate
<1>2. frame' = [frame EXCEPT ![th] = f] /\ f \in Frames
  BY <1>0 DEF FanoutInvoke, Frames, FramePCs
<1>3. known' = known \cup {frame[th].cur}
  BY DEF FanoutInvoke
<1>4. UNCHANGED <<mu, next_id, subscription_topic, entries, options,
                 retirements, gate, retired, provider_subscribed, in_progress,
                 opened, raced, call, dtor, freed, stack, deferred>>
  BY DEF FanoutInvoke, coreVars, gateVars, providerVars, frameVars
<1>5. TypeOK'
  BY <1>0, <1>1, <1>2, <1>3, <1>4 DEF IInv, TypeOK
<1>6. CallShape' /\ Listed' /\ LiveNotRetiring' /\ SubscribeOwnId' /\
      RetiringRetired' /\ OpenHeld' /\ DtorShape' /\ MuHeld'
  BY <1>4, Kept DEF IInv
<1>7. \A j \in Ids : Silent(j) => Silent(j)'
  BY <1>0, <1>1, <1>2, <1>3, <1>4 DEF IInv, TypeOK, Silent, Running
<1>8. FrameShape'
  BY <1>0, <1>1, <1>2, <1>3, <1>4, SubscriberAssumption
  DEF IInv, FrameShape, StackAt, InTopic, HoldsGate, Frames
<1>9. Issued'
  BY <1>0, <1>1, <1>2, <1>3, <1>4 DEF IInv, Issued, Live, HoldsGate, TypeOK, Frames
<1>10. GateHeld'
  BY <1>0, <1>1, <1>2, <1>3, <1>4, SubscriberAssumption
  DEF IInv, GateHeld, HoldsGate, TypeOK, FrameShape, Frames
<1>11. GoneSilent'
  BY <1>0, <1>1, <1>2, <1>3, <1>4, <1>7 DEF IInv, GoneSilent, Live
<1>12. FreedSilent'
  BY <1>0, <1>1, <1>2, <1>3, <1>4, <1>7 DEF IInv, FreedSilent, TypeOK
<1>13. CallSilent'
  BY <1>0, <1>1, <1>2, <1>3, <1>4, <1>7 DEF IInv, CallSilent, CallShape
<1>14. DeferredRetired'
  BY <1>0, <1>1, <1>2, <1>3, <1>4, <1>7, DueTyped
  DEF IInv, DeferredRetired, FrameShape
<1>15. FlightOpen'
  BY <1>0, <1>1, <1>2, <1>3, <1>4, SubscriberAssumption
  DEF IInv, FlightOpen, Frames, FrameShape, InTopic
<1>16. SlotShape'
  BY <1>0, <1>1, <1>2, <1>3, <1>4, Zenon DEF IInv, SlotShape, SlotShapeOf, Frames
<1>. QED
  BY <1>5, <1>6, <1>8, <1>9, <1>10, <1>11, <1>12, <1>13, <1>14, <1>15,
     <1>16 DEF IInv

\* No subscription is left.
LEMMA FanoutEndInv ==
    ASSUME IInv, NEW th \in Threads, FanoutEnd(th)
    PROVE  IInv'
<1> DEFINE s == SubSeq(stack[th], 1, Len(stack[th]) - 1)
<1> DEFINE f == [frame[th] EXCEPT !.pc = "leaving"]
<1>0. frame[th] \in Frames /\ frame \in [Threads -> Frames]
  BY DEF IInv, TypeOK
<1>1. frame[th].pc = "fanout"
  BY DEF FanoutEnd
<1>2. frame' = [frame EXCEPT ![th] = f] /\ f \in Frames
  BY <1>0 DEF FanoutEnd, Frames, FramePCs
<1>3. /\ stack \in [Threads -> Seq(Tokens)] /\ stack[th] \in Seq(Tokens)
      /\ Len(stack[th]) \in Nat
  BY DEF IInv, TypeOK, Tokens
<1>4. Len(stack[th]) = 2 /\ stack[th][1] = Provider
  BY <1>1 DEF IInv, FrameShape, StackAt
<1>5. /\ s \in Seq(Tokens) /\ Len(s) = Len(stack[th]) - 1
      /\ Len(stack[th]) = 1 => s = << >>
      /\ \A j \in 1..(Len(stack[th]) - 1) : s[j] = stack[th][j]
  <2>1. Len(stack[th]) # 0
    BY <1>4
  <2>. QED
    BY <1>3, <2>1, Popped
<1>6. StackAt(s, "leaving")
  BY <1>3, <1>4, <1>5 DEF StackAt
<1>7. stack' = [stack EXCEPT ![th] = s]
  BY DEF FanoutEnd, PushScope, PopScope
<1> HIDE DEF s
<1>8. UNCHANGED <<mu, next_id, subscription_topic, entries, options,
                 retirements, gate, retired, provider_subscribed, in_progress,
                 opened, raced, call, dtor, known, freed, deferred>>
  BY DEF FanoutEnd, coreVars, gateVars, providerVars, frameVars
<1>9. TypeOK'
  BY <1>0, <1>1, <1>2, <1>3, <1>5, <1>7, <1>8 DEF IInv, TypeOK, Tokens
<1>10. CallShape' /\ Listed' /\ LiveNotRetiring' /\ SubscribeOwnId' /\
      RetiringRetired' /\ OpenHeld' /\ DtorShape' /\ MuHeld'
  BY <1>8, Kept DEF IInv
<1>11. \A j \in Ids : Silent(j) => Silent(j)'
  BY <1>0, <1>1, <1>2, <1>8 DEF IInv, TypeOK, Silent, Running
<1>12. FrameShape'
  BY <1>0, <1>1, <1>2, <1>3, <1>5, <1>6, <1>7, <1>8, SubscriberAssumption
  DEF IInv, FrameShape, StackAt, InTopic, HoldsGate, Frames
<1>13. Issued'
  BY <1>0, <1>1, <1>2, <1>8 DEF IInv, Issued, Live, HoldsGate, TypeOK, Frames
<1>14. GateHeld'
  BY <1>0, <1>1, <1>2, <1>8, SubscriberAssumption
  DEF IInv, GateHeld, HoldsGate, TypeOK, FrameShape, Frames
<1>15. GoneSilent'
  BY <1>0, <1>1, <1>2, <1>8, <1>11 DEF IInv, GoneSilent, Live
<1>16. FreedSilent'
  BY <1>0, <1>1, <1>2, <1>8, <1>11 DEF IInv, FreedSilent, TypeOK
<1>17. CallSilent'
  BY <1>0, <1>1, <1>2, <1>8, <1>11 DEF IInv, CallSilent, CallShape
<1>18. DeferredRetired'
  BY <1>0, <1>1, <1>2, <1>8, <1>11, DueTyped DEF IInv, DeferredRetired, FrameShape
<1>19. FlightOpen'
  BY <1>0, <1>1, <1>2, <1>8, SubscriberAssumption
  DEF IInv, FlightOpen, Frames, FrameShape, InTopic
<1>20. SlotShape'
  BY <1>0, <1>1, <1>2, <1>8, Zenon DEF IInv, SlotShape, SlotShapeOf, Frames
<1>. QED
  BY <1>9, <1>10, <1>12, <1>13, <1>14, <1>15, <1>16, <1>17, <1>18,
     <1>19, <1>20 DEF IInv

\* The delivery ends.
LEMMA DeliverEndInv ==
    ASSUME IInv, NEW th \in Threads, DeliverEnd(th)
    PROVE  IInv'
<1> DEFINE s == SubSeq(stack[th], 1, Len(stack[th]) - 1)
<1> DEFINE f == IF deferred[th] # << >> THEN [frame[th] EXCEPT !.pc = "closing"] ELSE NoFrame
<1>0. frame[th] \in Frames /\ frame \in [Threads -> Frames]
  BY DEF IInv, TypeOK
<1>1. frame[th].pc = "leaving" /\ call[<<th, 1>>].pc = "idle"
  BY Zenon DEF DeliverEnd, IInv, SlotShape, SlotShapeOf
<1>2. frame' = [frame EXCEPT ![th] = f] /\ f \in Frames
  BY <1>0, NoneTyped DEF DeliverEnd, OwesWork, Frames, FramePCs
<1>3. /\ f.pc \in {"closing", "none"} /\ f.cur \in {frame[th].cur, NoId}
      /\ f.todo \in {frame[th].todo, {}}
      /\ f.pc = "closing" => deferred[th] # << >> /\ f.topic = frame[th].topic
      /\ f.pc = "none" => f.topic = NoTopic
  BY <1>0 DEF NoFrame, Frames
<1>4. /\ stack \in [Threads -> Seq(Tokens)] /\ stack[th] \in Seq(Tokens)
      /\ Len(stack[th]) \in Nat
  BY DEF IInv, TypeOK, Tokens
<1>5. Len(stack[th]) = 1
  BY <1>1 DEF IInv, FrameShape, StackAt
<1>6. /\ s \in Seq(Tokens) /\ Len(s) = Len(stack[th]) - 1
      /\ Len(stack[th]) = 1 => s = << >>
      /\ \A j \in 1..(Len(stack[th]) - 1) : s[j] = stack[th][j]
  <2>1. Len(stack[th]) # 0
    BY <1>5
  <2>. QED
    BY <1>4, <2>1, Popped
<1>7. StackAt(s, "none")
  BY <1>4, <1>5, <1>6 DEF StackAt
<1>8. stack' = [stack EXCEPT ![th] = s]
  BY DEF DeliverEnd, PushScope, PopScope
<1> HIDE DEF s
<1>9. UNCHANGED <<mu, next_id, subscription_topic, entries, options,
                 retirements, gate, retired, provider_subscribed, in_progress,
                 opened, raced, call, dtor, known, freed, deferred>>
  BY DEF DeliverEnd, coreVars, gateVars, providerVars, frameVars
<1>10. TypeOK'
  BY <1>0, <1>1, <1>2, <1>3, <1>4, <1>6, <1>8, <1>9 DEF IInv, TypeOK, Tokens
<1>11. CallShape' /\ Listed' /\ LiveNotRetiring' /\ SubscribeOwnId' /\
      RetiringRetired' /\ OpenHeld' /\ DtorShape' /\ MuHeld'
  BY <1>9, Kept DEF IInv
<1>12. \A j \in Ids : Silent(j) => Silent(j)'
  BY <1>0, <1>1, <1>2, <1>3, <1>9 DEF IInv, TypeOK, Silent, Running
<1>13. FrameShape'
  BY <1>0, <1>1, <1>2, <1>3, <1>4, <1>6, <1>7, <1>8, <1>9, SubscriberAssumption
  DEF IInv, FrameShape, StackAt, InTopic, HoldsGate, Frames
<1>14. Issued'
  BY <1>0, <1>1, <1>2, <1>3, <1>9 DEF IInv, Issued, Live, HoldsGate, TypeOK, Frames
<1>15. GateHeld'
  BY <1>0, <1>1, <1>2, <1>3, <1>9, SubscriberAssumption
  DEF IInv, GateHeld, HoldsGate, TypeOK, FrameShape, Frames
<1>16. GoneSilent'
  BY <1>0, <1>1, <1>2, <1>3, <1>9, <1>12 DEF IInv, GoneSilent, Live
<1>17. FreedSilent'
  BY <1>0, <1>1, <1>2, <1>3, <1>9, <1>12 DEF IInv, FreedSilent, TypeOK
<1>18. CallSilent'
  BY <1>0, <1>1, <1>2, <1>3, <1>9, <1>12 DEF IInv, CallSilent, CallShape
<1>19. DeferredRetired'
  BY <1>0, <1>1, <1>2, <1>3, <1>9, <1>12, DueTyped
  DEF IInv, DeferredRetired, FrameShape
<1>20. FlightOpen'
  BY <1>0, <1>1, <1>2, <1>3, <1>9, SubscriberAssumption
  DEF IInv, FlightOpen, Frames, FrameShape, InTopic
<1>21. SlotShape'
  BY <1>0, <1>1, <1>2, <1>3, <1>9, Zenon DEF IInv, SlotShape, SlotShapeOf, Frames
<1>. QED
  BY <1>10, <1>11, <1>13, <1>14, <1>15, <1>16, <1>17, <1>18, <1>19,
     <1>20, <1>21 DEF IInv

\* The sweep after a delivery waits for the gates of what was retired inside
\* it.
LEMMA SweepBarrierInv ==
    ASSUME IInv, NEW th \in Threads, SweepBarrier(th)
    PROVE  IInv'
<1> DEFINE f == [frame[th] EXCEPT !.pc = "swept"]
<1>0. frame[th] \in Frames /\ frame \in [Threads -> Frames]
  BY DEF IInv, TypeOK
<1>1. frame[th].pc = "closing" /\ deferred[th] # << >> /\ gate[Head(deferred[th])] = NoThread
  BY DEF SweepBarrier, Barrier, NextDue, IInv, FrameShape
<1>2. frame' = [frame EXCEPT ![th] = f] /\ f \in Frames
  BY <1>0 DEF SweepBarrier, Frames, FramePCs
<1>3. UNCHANGED <<mu, next_id, subscription_topic, entries, options,
                 retirements, gate, retired, provider_subscribed, in_progress,
                 opened, raced, call, dtor, known, freed, stack, deferred>>
  BY DEF SweepBarrier, coreVars, gateVars, providerVars, frameVars
<1>4. TypeOK'
  BY <1>0, <1>1, <1>2, <1>3 DEF IInv, TypeOK
<1>5. CallShape' /\ Listed' /\ LiveNotRetiring' /\ SubscribeOwnId' /\
      RetiringRetired' /\ OpenHeld' /\ DtorShape' /\ MuHeld'
  BY <1>3, Kept DEF IInv
<1>6. \A j \in Ids : Silent(j) => Silent(j)'
  BY <1>0, <1>1, <1>2, <1>3 DEF IInv, TypeOK, Silent, Running
<1>7. FrameShape'
  BY <1>0, <1>1, <1>2, <1>3, SubscriberAssumption
  DEF IInv, FrameShape, StackAt, InTopic, HoldsGate, Frames
<1>8. Issued'
  BY <1>0, <1>1, <1>2, <1>3 DEF IInv, Issued, Live, HoldsGate, TypeOK, Frames
<1>9. GateHeld'
  BY <1>0, <1>1, <1>2, <1>3, SubscriberAssumption
  DEF IInv, GateHeld, HoldsGate, TypeOK, FrameShape, Frames
<1>10. GoneSilent'
  BY <1>0, <1>1, <1>2, <1>3, <1>6 DEF IInv, GoneSilent, Live
<1>11. FreedSilent'
  BY <1>0, <1>1, <1>2, <1>3, <1>6 DEF IInv, FreedSilent, TypeOK
<1>12. CallSilent'
  BY <1>0, <1>1, <1>2, <1>3, <1>6 DEF IInv, CallSilent, CallShape
<1>13. DeferredRetired'
  <2>1. \A u \in Threads : ~Running(u, Head(deferred[th]))
    BY <1>1, DueTyped, SubscriberAssumption DEF IInv, GateHeld, HoldsGate, Running
  <2>2. Silent(Head(deferred[th])) /\ Head(deferred[th]) \in Ids
    BY <1>1, DueTyped, <2>1 DEF IInv, DeferredRetired, Silent
  <2>3. \A u \in Threads : frame'[u].pc = "swept" => u = th \/ frame[u].pc = "swept"
    BY <1>0, <1>2
  <2>. QED
    BY <1>3, <1>6, DueTyped, <2>2, <2>3 DEF IInv, DeferredRetired, FrameShape
<1>14. FlightOpen'
  BY <1>0, <1>1, <1>2, <1>3, SubscriberAssumption
  DEF IInv, FlightOpen, Frames, FrameShape, InTopic
<1>15. SlotShape'
  BY <1>0, <1>1, <1>2, <1>3, Zenon DEF IInv, SlotShape, SlotShapeOf, Frames
<1>. QED
  BY <1>4, <1>5, <1>7, <1>8, <1>9, <1>10, <1>11, <1>12, <1>13, <1>14,
     <1>15 DEF IInv

\* The sweep releases the id that it has waited for.
LEMMA SweepReleaseInv ==
    ASSUME IInv, NEW th \in Threads, SweepRelease(th)
    PROVE  IInv'
<1> DEFINE f == IF Tail(deferred[th]) = << >> THEN NoFrame ELSE [frame[th] EXCEPT !.pc = "closing"]
<1>0. frame[th] \in Frames /\ frame \in [Threads -> Frames]
  BY DEF IInv, TypeOK
<1>1. /\ frame[th].pc = "swept" /\ deferred[th] # << >> /\ call[<<th, 1>>].pc = "idle"
      /\ Head(deferred[th]) \in Ids /\ Silent(Head(deferred[th]))
  BY DueTyped, Zenon
  DEF SweepRelease, IInv, FrameShape, SlotShape, SlotShapeOf, DeferredRetired
<1>2. frame' = [frame EXCEPT ![th] = f] /\ f \in Frames
  BY <1>0, NoneTyped DEF SweepRelease, Frames, FramePCs
<1>3. /\ f.pc \in {"closing", "none"} /\ f.cur \in {frame[th].cur, NoId}
      /\ f.todo \in {frame[th].todo, {}}
      /\ f.pc = "closing" => Tail(deferred[th]) # << >> /\ f.topic = frame[th].topic
      /\ f.pc = "none" => f.topic = NoTopic
  BY <1>0 DEF NoFrame, Frames
<1>4. retirements' = retirements \ {Head(deferred[th])}
  BY DEF SweepRelease, NextDue
<1>5. deferred' = [deferred EXCEPT ![th] = Tail(deferred[th])] /\ deferred \in [Threads -> Seq(Ids)]
      /\ Tail(deferred[th]) \in Seq(Ids)
  BY <1>1 DEF SweepRelease, WorkDone, IInv, TypeOK
<1>6. UNCHANGED <<mu, next_id, subscription_topic, entries, options, gate,
                 retired, provider_subscribed, in_progress, opened, raced,
                 call, dtor, known, freed, stack>>
  BY DEF SweepRelease, coreVars, gateVars, providerVars, frameVars
<1>7. TypeOK'
  BY <1>0, <1>1, <1>2, <1>3, <1>4, <1>5, <1>6, Zenon DEF IInv, TypeOK
<1>8. CallShape' /\ Listed' /\ SubscribeOwnId' /\ OpenHeld' /\ DtorShape'
      /\ MuHeld'
  BY <1>6, Kept DEF IInv
<1>9. \A j \in Ids : Silent(j) => Silent(j)'
  BY <1>0, <1>1, <1>2, <1>3, <1>4, <1>5, <1>6 DEF IInv, TypeOK, Silent, Running
<1>10. FrameShape'
  <2>1. \A u \in Threads : u # th => frame'[u] = frame[u] /\ deferred'[u] = deferred[u]
    BY <1>0, <1>2, <1>5
  <2>2. frame'[th] = f /\ deferred'[th] = Tail(deferred[th])
    BY <1>0, <1>2, <1>5
  <2>3. frame[th].topic \in Topics /\ stack[th] = << >>
    BY <1>1 DEF IInv, FrameShape, StackAt, InTopic
  <2>4. StackAt(stack[th], f.pc) /\ (f.topic \in Topics <=> f.pc \in InTopic)
    BY <1>3, <2>3, SubscriberAssumption DEF StackAt, InTopic
  <2>. QED
    BY <1>6, <1>3, <2>1, <2>2, <2>4, Zenon DEF IInv, FrameShape, HoldsGate
<1>11. Issued'
  BY <1>0, <1>1, <1>2, <1>3, <1>4, <1>5, <1>6, Zenon
  DEF IInv, Issued, Live, HoldsGate, TypeOK, Frames
<1>12. GateHeld'
  <2>1. \A u \in Threads : u # th => frame'[u] = frame[u]
    BY <1>0, <1>2
  <2>2. frame[th].pc \notin HoldsGate /\ frame'[th].pc \notin HoldsGate
    BY <1>0, <1>1, <1>2, <1>3 DEF HoldsGate
  <2>. QED
    BY <1>6, <2>1, <2>2 DEF IInv, GateHeld
<1>13. LiveNotRetiring'
  BY <1>0, <1>1, <1>2, <1>3, <1>4, <1>5, <1>6 DEF IInv, LiveNotRetiring, Live
<1>14. GoneSilent'
  BY <1>0, <1>1, <1>2, <1>3, <1>4, <1>5, <1>6, <1>9 DEF IInv, GoneSilent, Live
<1>15. FreedSilent'
  BY <1>0, <1>1, <1>2, <1>3, <1>4, <1>5, <1>6, <1>9 DEF IInv, FreedSilent, TypeOK
<1>16. CallSilent'
  BY <1>0, <1>1, <1>2, <1>3, <1>4, <1>5, <1>6, <1>9 DEF IInv, CallSilent, CallShape
<1>17. DeferredRetired'
  <2>1. \A u \in Threads : u # th => frame'[u] = frame[u] /\ deferred'[u] = deferred[u]
    BY <1>0, <1>2, <1>5
  <2>2. frame'[th].pc # "swept" /\ deferred'[th] = Tail(deferred[th])
    BY <1>0, <1>2, <1>3, <1>5
  <2>3. \A k \in 1..Len(Tail(deferred[th])) : retired[Tail(deferred[th])[k]]
    <3> SUFFICES ASSUME NEW k \in 1..Len(Tail(deferred[th]))
                 PROVE  retired[Tail(deferred[th])[k]]
      OBVIOUS
    <3>1. deferred[th] \in Seq(Ids) /\ deferred[th] # << >>
      BY <1>1, <1>5
    <3>2. Tail(deferred[th])[k] = deferred[th][k + 1] /\ k + 1 \in 1..Len(deferred[th])
      BY <3>1
    <3>. QED
      BY <3>2 DEF IInv, DeferredRetired
  <2>. QED
    BY <1>6, <1>9, DueTyped, <2>1, <2>2, <2>3, Zenon
    DEF IInv, DeferredRetired, FrameShape
<1>18. RetiringRetired'
  BY <1>0, <1>1, <1>2, <1>3, <1>4, <1>5, <1>6 DEF IInv, RetiringRetired
<1>19. FlightOpen'
  BY <1>0, <1>1, <1>2, <1>3, <1>4, <1>5, <1>6, SubscriberAssumption, Zenon
  DEF IInv, FlightOpen, Frames, FrameShape, InTopic
<1>20. SlotShape'
  BY <1>0, <1>1, <1>2, <1>3, <1>4, <1>5, <1>6, Zenon
  DEF IInv, SlotShape, SlotShapeOf, Frames
<1>. QED
  BY <1>7, <1>8, <1>10, <1>11, <1>12, <1>13, <1>14, <1>15, <1>16,
     <1>17, <1>18, <1>19, <1>20 DEF IInv

\* A callback of another Subscriber runs in the thread.
LEMMA PeerBeginInv ==
    ASSUME IInv, NEW th \in Threads, PeerBegin(th)
    PROVE  IInv'
<1> DEFINE s == <<Provider, PeerIdentity>>
<1> DEFINE f == [frame[th] EXCEPT !.pc = "peer"]
<1>0. frame[th] \in Frames /\ frame \in [Threads -> Frames]
  BY DEF IInv, TypeOK
<1>1. /\ frame[th].pc = "none" /\ call[<<th, 1>>].pc = "idle"
      /\ call[<<th, 0>>].pc \in {"idle", "provider", "opened", "teardown"}
  BY DEF PeerBegin, MayDeliver, IInv, SlotShape, SlotShapeOf
<1>2. frame' = [frame EXCEPT ![th] = f] /\ f \in Frames
  BY <1>0 DEF PeerBegin, Frames, FramePCs
<1>3. /\ stack \in [Threads -> Seq(Tokens)] /\ stack[th] \in Seq(Tokens)
      /\ Len(stack[th]) \in Nat
  BY DEF IInv, TypeOK, Tokens
<1>4. s \in Seq(Tokens) /\ StackAt(s, "peer")
  BY DEF StackAt, Tokens, Provider, Identity, PeerIdentity
<1>5. stack' = [stack EXCEPT ![th] = s]
  BY DEF PeerBegin, PushScope, PopScope
<1> HIDE DEF s
<1>6. UNCHANGED <<mu, next_id, subscription_topic, entries, options,
                 retirements, gate, retired, provider_subscribed, in_progress,
                 opened, raced, call, dtor, known, freed, deferred>>
  BY DEF PeerBegin, coreVars, gateVars, providerVars, frameVars
<1>7. TypeOK'
  BY <1>0, <1>1, <1>2, <1>3, <1>4, <1>5, <1>6 DEF IInv, TypeOK, Tokens
<1>8. CallShape' /\ Listed' /\ LiveNotRetiring' /\ SubscribeOwnId' /\
      RetiringRetired' /\ OpenHeld' /\ DtorShape' /\ MuHeld'
  BY <1>6, Kept DEF IInv
<1>9. \A j \in Ids : Silent(j) => Silent(j)'
  BY <1>0, <1>1, <1>2, <1>6 DEF IInv, TypeOK, Silent, Running
<1>10. FrameShape'
  BY <1>0, <1>1, <1>2, <1>3, <1>4, <1>5, <1>6, SubscriberAssumption
  DEF IInv, FrameShape, StackAt, InTopic, HoldsGate, Frames
<1>11. Issued'
  BY <1>0, <1>1, <1>2, <1>6 DEF IInv, Issued, Live, HoldsGate, TypeOK, Frames
<1>12. GateHeld'
  BY <1>0, <1>1, <1>2, <1>6, SubscriberAssumption
  DEF IInv, GateHeld, HoldsGate, TypeOK, FrameShape, Frames
<1>13. GoneSilent'
  BY <1>0, <1>1, <1>2, <1>6, <1>9 DEF IInv, GoneSilent, Live
<1>14. FreedSilent'
  BY <1>0, <1>1, <1>2, <1>6, <1>9 DEF IInv, FreedSilent, TypeOK
<1>15. CallSilent'
  BY <1>0, <1>1, <1>2, <1>6, <1>9 DEF IInv, CallSilent, CallShape
<1>16. DeferredRetired'
  BY <1>0, <1>1, <1>2, <1>6, <1>9, DueTyped DEF IInv, DeferredRetired, FrameShape
<1>17. FlightOpen'
  BY <1>0, <1>1, <1>2, <1>6, SubscriberAssumption
  DEF IInv, FlightOpen, Frames, FrameShape, InTopic
<1>18. SlotShape'
  BY <1>0, <1>1, <1>2, <1>6, Zenon DEF IInv, SlotShape, SlotShapeOf, Frames
<1>. QED
  BY <1>7, <1>8, <1>10, <1>11, <1>12, <1>13, <1>14, <1>15, <1>16,
     <1>17, <1>18 DEF IInv

\* That callback ends.
LEMMA PeerEndInv ==
    ASSUME IInv, NEW th \in Threads, PeerEnd(th)
    PROVE  IInv'
<1> DEFINE s == << >>
<1> DEFINE f == NoFrame
<1>0. frame[th] \in Frames /\ frame \in [Threads -> Frames]
  BY DEF IInv, TypeOK
<1>1. frame[th].pc = "peer" /\ call[<<th, 1>>].pc = "idle"
  BY DEF PeerEnd, At, Self, Ctx
<1>2. frame' = [frame EXCEPT ![th] = f] /\ f \in Frames
  BY NoneTyped DEF PeerEnd
<1>3. f.pc = "none" /\ f.topic = NoTopic /\ f.todo = {} /\ f.cur = NoId
  BY DEF NoFrame
<1>4. /\ stack \in [Threads -> Seq(Tokens)] /\ stack[th] \in Seq(Tokens)
      /\ Len(stack[th]) \in Nat
  BY DEF IInv, TypeOK, Tokens
<1>5. s \in Seq(Tokens) /\ StackAt(s, "none")
  BY DEF StackAt, Tokens, Provider, Identity, PeerIdentity
<1>6. stack' = [stack EXCEPT ![th] = s]
  BY DEF PeerEnd, PushScope, PopScope
<1> HIDE DEF s
<1>7. UNCHANGED <<mu, next_id, subscription_topic, entries, options,
                 retirements, gate, retired, provider_subscribed, in_progress,
                 opened, raced, call, dtor, known, freed, deferred>>
  BY DEF PeerEnd, coreVars, gateVars, providerVars, frameVars
<1>8. TypeOK'
  BY <1>0, <1>1, <1>2, <1>3, <1>4, <1>5, <1>6, <1>7 DEF IInv, TypeOK, Tokens
<1>9. CallShape' /\ Listed' /\ LiveNotRetiring' /\ SubscribeOwnId' /\
      RetiringRetired' /\ OpenHeld' /\ DtorShape' /\ MuHeld'
  BY <1>7, Kept DEF IInv
<1>10. \A j \in Ids : Silent(j) => Silent(j)'
  BY <1>0, <1>1, <1>2, <1>3, <1>7 DEF IInv, TypeOK, Silent, Running
<1>11. FrameShape'
  BY <1>0, <1>1, <1>2, <1>3, <1>4, <1>5, <1>6, <1>7, SubscriberAssumption
  DEF IInv, FrameShape, StackAt, InTopic, HoldsGate, Frames
<1>12. Issued'
  BY <1>0, <1>1, <1>2, <1>3, <1>7 DEF IInv, Issued, Live, HoldsGate, TypeOK, Frames
<1>13. GateHeld'
  BY <1>0, <1>1, <1>2, <1>3, <1>7, SubscriberAssumption
  DEF IInv, GateHeld, HoldsGate, TypeOK, FrameShape, Frames
<1>14. GoneSilent'
  BY <1>0, <1>1, <1>2, <1>3, <1>7, <1>10 DEF IInv, GoneSilent, Live
<1>15. FreedSilent'
  BY <1>0, <1>1, <1>2, <1>3, <1>7, <1>10 DEF IInv, FreedSilent, TypeOK
<1>16. CallSilent'
  BY <1>0, <1>1, <1>2, <1>3, <1>7, <1>10 DEF IInv, CallSilent, CallShape
<1>17. DeferredRetired'
  BY <1>0, <1>1, <1>2, <1>3, <1>7, <1>10, DueTyped
  DEF IInv, DeferredRetired, FrameShape
<1>18. FlightOpen'
  BY <1>0, <1>1, <1>2, <1>3, <1>7, SubscriberAssumption
  DEF IInv, FlightOpen, Frames, FrameShape, InTopic
<1>19. SlotShape'
  BY <1>0, <1>1, <1>2, <1>3, <1>7, Zenon DEF IInv, SlotShape, SlotShapeOf, Frames
<1>. QED
  BY <1>8, <1>9, <1>11, <1>12, <1>13, <1>14, <1>15, <1>16, <1>17,
     <1>18, <1>19 DEF IInv

-----------------------------------------------------------------------------
(* The theorems *)

\* The Subscriber starts with no subscription, no call and no delivery.
LEMMA InitInv == Init => IInv
<1> SUFFICES ASSUME Init PROVE IInv
  OBVIOUS
<1> USE DEF Init, FrameInit
<1>0. NoFrame \in Frames /\ NoCall \in Calls
  BY NoneTyped
<1>1. /\ \A th \in Threads : frame[th] = NoFrame
      /\ \A c \in Contexts : call[c] = NoCall
      /\ NoFrame.pc = "none" /\ NoFrame.topic = NoTopic /\ NoFrame.todo = {}
      /\ NoCall.pc = "idle" /\ NoCall.deferred = FALSE
  BY DEF NoFrame, NoCall
<1>2. TypeOK
  <2>1. dtor \in Dtors
    BY DEF Dtors, DtorPCs, NoId
  <2>2. frame \in [Threads -> Frames] /\ call \in [Contexts -> Calls]
    BY <1>0
  <2>3. next_id \in 1..(MaxId + 1)
    BY SubscriberAssumption
  <2>. QED
    BY <2>1, <2>2, <2>3 DEF TypeOK
<1>3. FrameShape /\ CallShape /\ GateHeld
  BY <1>1, SubscriberAssumption
  DEF FrameShape, CallShape, GateHeld, StackAt, InTopic, HoldsGate
<1>4. Issued /\ Listed /\ LiveNotRetiring
  BY <1>1, SubscriberAssumption DEF Issued, Listed, LiveNotRetiring, Live, HoldsGate
<1>5. GoneSilent /\ SubscribeOwnId /\ FreedSilent
  BY <1>1 DEF GoneSilent, SubscribeOwnId, FreedSilent, Ids
<1>6. CallSilent /\ DeferredRetired /\ RetiringRetired
  <2>1. CallSilent
    BY <1>1 DEF CallSilent
  <2>2. DeferredRetired
    <3>1. \A th \in Threads : Len(deferred[th]) = 0 /\ frame[th].pc = "none"
      BY <1>1
    <3>2. 1..0 = {}
      OBVIOUS
    <3>3. \A th \in Threads : 1..Len(deferred[th]) = {} /\ frame[th].pc # "swept"
      BY <3>1, <3>2
    <3> HIDE DEF Init
    <3>. QED
      BY <3>3, Zenon DEF DeferredRetired
  <2>3. RetiringRetired
    BY <1>1 DEF RetiringRetired
  <2>. QED
    BY <2>1, <2>2, <2>3
<1>7. FlightOpen /\ OpenHeld /\ DtorShape
  BY <1>1, SubscriberAssumption DEF FlightOpen, OpenHeld, DtorShape
<1>8. SlotShape /\ MuHeld
  BY <1>1, SubscriberAssumption DEF SlotShape, SlotShapeOf, MuHeld, Contexts, Slots
<1>. QED
  BY <1>2, <1>3, <1>4, <1>5, <1>6, <1>7, <1>8 DEF IInv

\* The invariant is about the variables alone.
LEMMA StutterInv == IInv /\ UNCHANGED vars => IInv'
<1> SUFFICES ASSUME IInv, UNCHANGED vars PROVE IInv'
  OBVIOUS
<1>0. UNCHANGED <<mu, next_id, subscription_topic, entries, options,
                  retirements, gate, retired, provider_subscribed, in_progress,
                  opened, raced, frame, call, dtor, known, freed, stack, deferred>>
  BY DEF vars, coreVars, gateVars, providerVars, frameVars
<1>1. TypeOK'
  BY <1>0 DEF IInv, TypeOK
<1>. QED
  BY <1>0, <1>1, Kept DEF IInv

\* Every step preserves the invariant: one lemma per action.
LEMMA NextInv == IInv /\ [Next]_vars => IInv'
<1> SUFFICES ASSUME IInv, [Next]_vars PROVE IInv'
  OBVIOUS
<1>1. ASSUME NEW th \in Threads, Start(th) PROVE IInv'
  BY <1>1, DeliverBeginInv, PeerBeginInv, SubscribeInsertInv, UnsubscribeGoneInv,
     UnsubscribeDuplicateInv, UnsubscribeRemoveInv, DtorBeginInv DEF Start
<1>2. ASSUME NEW th \in Threads, Step(th) PROVE IInv'
  <2>1. CASE FanoutLoad(th) \/ (\E i \in Ids : FanoutLockGate(th, i)) \/ FanoutSkip(th)
             \/ FanoutInvoke(th) \/ FanoutEnd(th)
    BY <2>1, FanoutLoadInv, FanoutLockGateInv, FanoutSkipInv, FanoutInvokeInv,
       FanoutEndInv
  <2>2. CASE DeliverEnd(th) \/ SweepBarrier(th) \/ SweepRelease(th)
    BY <2>2, DeliverEndInv, SweepBarrierInv, SweepReleaseInv
  <2>3. CASE EnsureJoin(th) \/ EnsureRefuse(th) \/ EnsureWait(th) \/ EnsureWake(th)
             \/ EnsureEnter(th)
    BY <2>3, EnsureJoinInv, EnsureRefuseInv, EnsureWaitInv, EnsureWakeInv,
       EnsureEnterInv
  <2>4. CASE SubscribeRollback(th) \/ RollbackRelease(th) \/ Retire(th)
             \/ RetireInsideDelivery(th) \/ Drain(th) \/ UnsubscribeDecide(th)
    BY <2>4, SubscribeRollbackInv, RollbackReleaseInv, RetireInv,
       RetireInsideDeliveryInv,
       DrainInv, UnsubscribeDecideInv
  <2>. QED
    BY <1>2, <2>1, <2>2, <2>3, <2>4 DEF Step
<1>3. ASSUME NEW th \in Threads,
             HandlerReturn(th) \/ InProvider(th) \/ ProviderThrow(th)
      PROVE  IInv'
  BY <1>3, CallbackReturnInv, PeerEndInv, ProviderOpenInv, SubscribeReturnInv,
     ProviderUnsubscribeInv, ProviderThrowInv DEF HandlerReturn, InProvider
<1>4. CASE DtorStep \/ DtorInProvider
  BY <1>4, DtorRetireInv, DtorDrainInv, DtorCollectInv, DtorEndInv, DtorTearDownInv
     DEF DtorStep, DtorInProvider
<1>5. CASE UNCHANGED vars
  BY <1>5, StutterInv
<1>. QED
  BY <1>1, <1>2, <1>3, <1>4, <1>5 DEF Next, Quiet

\* IInv is an invariant of the Subscriber.
LEMMA SpecInv == Spec => []IInv
<1>. QED
  BY InitInv, NextInv, PTL DEF Spec

\* Type correctness of every variable, for any number of threads, topics and ids.
THEOREM TypeCorrect == Spec => []TypeOK
<1>1. IInv => TypeOK
  BY DEF IInv
<1>. QED
  BY <1>1, SpecInv, PTL

\* Once Unsubscribe has returned outside a delivery on this Subscriber, or the
\* destructor has, the callback is not running and never runs again, whatever
\* the threads, the handlers and the provider do.
THEOREM CancellationIsFinal == Spec => []FreedNotRunning
<1>1. IInv => FreedNotRunning
  BY DEF IInv, FreedSilent, Silent, FreedNotRunning
<1>. QED
  BY <1>1, SpecInv, PTL

\* Live, retiring and gone leave no window: what Unsubscribe's no-op branch
\* relies on when it finds an id in neither map.
THEOREM NoWindowBetweenIdStates == Spec => []IdStates
<1>1. IInv => IdStates
  BY DEF IInv, IdStates, Listed, Issued, LiveNotRetiring, GoneSilent
<1>. QED
  BY <1>1, SpecInv, PTL

\* A thread that waits for a gate, or is inside the provider, holds no lock of
\* the Subscriber.
THEOREM NoLockHeldWhileWaiting == Spec => []WaitersHoldNothing
<1>1. IInv => WaitersHoldNothing
  <2> SUFFICES ASSUME IInv, NEW th \in Threads,
                      \/ Self(th).pc \in {"drain", "provider", "opened", "teardown", "wait"}
                      \/ frame[th].pc = "closing"
               PROVE  mu # th /\ \A i \in Ids : gate[i] # th
    BY DEF WaitersHoldNothing
  <2>1. SlotShapeOf(th)
    BY DEF IInv, SlotShape
  <2>2. Ctx(th) = IF frame[th].pc = "none" THEN <<th, 0>> ELSE <<th, 1>>
    BY DEF Ctx
  <2>3. frame[th].pc \notin HoldsGate
    BY <2>1, <2>2 DEF Self, SlotShapeOf, HoldsGate
  <2>4. \A s \in Slots : call[<<th, s>>].pc \notin {"ensure", "rollback"}
    BY <2>1, <2>2 DEF Self, SlotShapeOf, Slots
  <2>. QED
    BY <2>3, <2>4 DEF IInv, GateHeld, MuHeld
<1>. QED
  BY <1>1, SpecInv, PTL

\* When the destructor has returned no callback runs and the provider delivers
\* none of its topics.
THEOREM DestructorIsFinal == Spec => []DestroyedMeansSilent
<1>1. IInv => DestroyedMeansSilent
  <2> SUFFICES ASSUME IInv, dtor.pc = "dead"
               PROVE  /\ \A th \in Threads, i \in Ids : ~Running(th, i)
                      /\ \A t \in Topics : ~opened[t]
    BY DEF DestroyedMeansSilent
  <2>1. \A t \in Topics : ~opened[t]
    BY DEF IInv, OpenHeld, DtorShape
  <2>2. \A u \in Threads : frame[u].pc \notin InTopic
    BY <2>1 DEF IInv, FlightOpen, FrameShape
  <2>. QED
    BY <2>1, <2>2 DEF Running, InTopic
<1>. QED
  BY <1>1, SpecInv, PTL

-----------------------------------------------------------------------------
(* The Subscriber implements Cancellation *)

\* A step that starts or ends no invocation frees at most silent callbacks.
LEMMA NoInvocation ==
    ASSUME IInv, IInv', freed \in SUBSET freed', Invoked' = Invoked
    PROVE  [Cancel!Next]_(Cancel!vars)
<1>1. freed' \in SUBSET Ids
  BY DEF IInv, TypeOK
<1>2. freed' \cap Invoked = {}
  BY DEF IInv, FreedSilent, Silent, Invoked
<1>3. Cancel!Free(freed')
  BY <1>2 DEF Cancel!Free
<1>. QED
  BY <1>1, <1>3 DEF Cancel!Next

\* The frames of a delivery that is not at a callback.
LEMMA OutsideCallback ==
    ASSUME IInv, IInv', NEW th \in Threads, freed' = freed,
           frame[th].pc # "running", frame'[th].pc # "running",
           \A u \in Threads \ {th} : frame'[u] = frame[u]
    PROVE  [Cancel!Next]_(Cancel!vars)
<1>1. \A u \in Threads, i \in Ids : Running(u, i)' <=> Running(u, i)
  BY DEF Running
<1>2. Invoked' = Invoked
  BY <1>1 DEF Invoked
<1>. QED
  BY <1>2, NoInvocation

\* A step that moves no delivery is a stutter of the abstract specification, or
\* a cancel.
LEMMA SameFrames ==
    ASSUME IInv, IInv', freed \in SUBSET freed', frame' = frame
    PROVE  [Cancel!Next]_(Cancel!vars)
<1>1. Invoked' = Invoked
  BY DEF Invoked, Running
<1>. QED
  BY <1>1, NoInvocation

\* A callback is invoked under its gate, which no other delivery holds, and
\* after the retired flag has been read there.
LEMMA InvokeRefines ==
    ASSUME IInv, NEW th \in Threads, FanoutInvoke(th)
    PROVE  Cancel!Next
<1> DEFINE i == frame[th].cur
<1>1. /\ frame[th].pc = "gated" /\ i \in Ids /\ ~retired[i] /\ freed' = freed
      /\ frame \in [Threads -> Frames] /\ frame' = [frame EXCEPT ![th].pc = "running"]
  BY DEF FanoutInvoke, Invocable, IInv, FrameShape, HoldsGate, TypeOK
<1>2. gate[i] = th /\ \A u \in Threads \ {th} : gate[i] # u
  BY <1>1 DEF IInv, GateHeld, HoldsGate
<1>3. i \notin Invoked /\ i \notin freed
  BY <1>1, <1>2 DEF IInv, GateHeld, HoldsGate, Invoked, Running, FreedSilent, Silent
<1>4. /\ frame'[th].pc = "running" /\ frame'[th].cur = i
      /\ \A u \in Threads \ {th} : frame'[u] = frame[u]
  BY <1>1 DEF Frames
<1>5. Invoked' = Invoked \cup {i}
  BY <1>1, <1>4 DEF Invoked, Running
<1>6. Cancel!Invoke(i)
  BY <1>1, <1>3, <1>5 DEF Cancel!Invoke
<1>. QED
  BY <1>1, <1>6 DEF Cancel!Next

\* The return of a callback is one of the abstract specification.
LEMMA ReturnRefines ==
    ASSUME IInv, NEW th \in Threads, CallbackReturn(th)
    PROVE  Cancel!Next
<1> DEFINE i == frame[th].cur
<1>1. /\ frame[th].pc = "running" /\ i \in Ids /\ freed' = freed
      /\ frame \in [Threads -> Frames]
      /\ frame' = [frame EXCEPT ![th].pc = "fanout", ![th].cur = NoId]
  BY DEF CallbackReturn, IInv, FrameShape, HoldsGate, TypeOK
<1>2. gate[i] = th
  BY <1>1 DEF IInv, GateHeld, HoldsGate
<1>3. \A u \in Threads \ {th} : ~Running(u, i)
  BY <1>1, <1>2 DEF IInv, GateHeld, HoldsGate, Running
<1>4. /\ frame'[th].pc = "fanout"
      /\ \A u \in Threads \ {th} : frame'[u] = frame[u]
  BY <1>1 DEF Frames
<1>5. Invoked' = Invoked \ {i} /\ i \in Invoked
  BY <1>1, <1>3, <1>4 DEF Invoked, Running
<1>6. Cancel!Return(i)
  BY <1>1, <1>5 DEF Cancel!Return
<1>. QED
  BY <1>1, <1>6 DEF Cancel!Next

\* The steps of calls and of the destructor move no frame.
LEMMA CallsMoveNoFrame ==
    ASSUME NEW th \in Threads,
           \/ \E t \in Topics, o \in Options \cup {NoOptions} : SubscribeInsert(th, t, o)
           \/ \E i \in known : \/ UnsubscribeGone(th, i) \/ UnsubscribeDuplicate(th, i)
                               \/ UnsubscribeRemove(th, i)
           \/ DtorBegin(th)
           \/ EnsureJoin(th) \/ EnsureRefuse(th) \/ EnsureWait(th) \/ EnsureWake(th)
           \/ EnsureEnter(th) \/ SubscribeRollback(th) \/ RollbackRelease(th)
           \/ Retire(th) \/ RetireInsideDelivery(th) \/ Drain(th) \/ UnsubscribeDecide(th)
           \/ ProviderOpen(th) \/ SubscribeReturn(th) \/ ProviderUnsubscribe(th)
           \/ ProviderThrow(th)
    PROVE  freed \in SUBSET freed' /\ frame' = frame
<1>1. CASE \E t \in Topics, o \in Options \cup {NoOptions} : SubscribeInsert(th, t, o)
  BY <1>1 DEF SubscribeInsert
<1>2. CASE \E i \in known : \/ UnsubscribeGone(th, i) \/ UnsubscribeDuplicate(th, i)
                            \/ UnsubscribeRemove(th, i)
  BY <1>2 DEF UnsubscribeGone, UnsubscribeDuplicate, UnsubscribeRemove, MayFree
<1>3. CASE DtorBegin(th) \/ EnsureJoin(th) \/ EnsureRefuse(th) \/ EnsureWait(th)
           \/ EnsureWake(th) \/ EnsureEnter(th)
  BY <1>3 DEF DtorBegin, EnsureJoin, EnsureRefuse, EnsureWait, EnsureWake, EnsureEnter
<1>4. CASE SubscribeRollback(th) \/ RollbackRelease(th) \/ Retire(th)
           \/ RetireInsideDelivery(th)
  BY <1>4
  DEF SubscribeRollback, RollbackRelease, Retire, RetireInsideDelivery, MayFree
<1>5. CASE Drain(th) \/ UnsubscribeDecide(th) \/ ProviderUnsubscribe(th)
  BY <1>5 DEF Drain, UnsubscribeDecide, ProviderUnsubscribe, MayFree
<1>6. CASE ProviderOpen(th) \/ SubscribeReturn(th) \/ ProviderThrow(th)
  BY <1>6 DEF ProviderOpen, SubscribeReturn, ProviderThrow
<1>. QED
  BY <1>1, <1>2, <1>3, <1>4, <1>5, <1>6

\* The steps of a delivery that begin and end no callback.
LEMMA FramesOutsideCallback ==
    ASSUME IInv, NEW th \in Threads,
           \/ \E t \in Topics : DeliverBegin(th, t)
           \/ PeerBegin(th) \/ FanoutLoad(th) \/ (\E i \in Ids : FanoutLockGate(th, i))
           \/ FanoutSkip(th) \/ FanoutEnd(th) \/ DeliverEnd(th) \/ SweepBarrier(th)
           \/ SweepRelease(th) \/ PeerEnd(th)
    PROVE  /\ freed' = freed /\ frame[th].pc # "running" /\ frame'[th].pc # "running"
           /\ \A u \in Threads \ {th} : frame'[u] = frame[u]
<1>0. frame \in [Threads -> Frames] /\ frame[th] \in Frames /\ NoFrame.pc = "none"
  BY DEF IInv, TypeOK, NoFrame
<1>1. ASSUME NEW t \in Topics, DeliverBegin(th, t)
      PROVE  /\ freed' = freed /\ frame[th].pc = "none" /\ frame'[th].pc = "begun"
             /\ \A u \in Threads \ {th} : frame'[u] = frame[u]
  <2>1. [NoFrame EXCEPT !.pc = "begun", !.topic = t].pc = "begun"
    BY DEF NoFrame
  <2>2. /\ freed' = freed /\ frame[th].pc = "none"
        /\ frame' = [frame EXCEPT ![th] = [NoFrame EXCEPT !.pc = "begun", !.topic = t]]
    BY <1>1 DEF DeliverBegin, MayDeliver
  <2>. QED
    BY <1>0, <2>1, <2>2
<1>2. ASSUME NEW i \in Ids, FanoutLockGate(th, i)
      PROVE  /\ freed' = freed /\ frame[th].pc = "fanout" /\ frame'[th].pc = "gated"
             /\ \A u \in Threads \ {th} : frame'[u] = frame[u]
  <2>1. [frame[th] EXCEPT !.pc = "gated", !.cur = i, !.todo = @ \ {i}].pc = "gated"
    BY <1>0 DEF Frames
  <2>2. /\ freed' = freed /\ frame[th].pc = "fanout"
        /\ frame' = [frame EXCEPT ![th] = [frame[th] EXCEPT !.pc = "gated", !.cur = i,
                                                           !.todo = @ \ {i}]]
    BY <1>0, <1>2 DEF FanoutLockGate, NextEntry
  <2>. QED
    BY <1>0, <2>1, <2>2
<1>7. CASE PeerBegin(th) \/ FanoutLoad(th)
  BY <1>0, <1>7 DEF PeerBegin, FanoutLoad, MayDeliver, Frames
<1>3. CASE FanoutSkip(th) \/ FanoutEnd(th)
  BY <1>0, <1>3 DEF FanoutSkip, FanoutEnd, Frames
<1>4. CASE DeliverEnd(th)
  BY <1>0, <1>4 DEF DeliverEnd, Frames
<1>5. CASE SweepBarrier(th) \/ SweepRelease(th)
  BY <1>0, <1>5 DEF SweepBarrier, SweepRelease, Frames
<1>6. CASE PeerEnd(th)
  BY <1>0, <1>6 DEF PeerEnd
<1>. QED
  BY <1>1, <1>2, <1>3, <1>4, <1>5, <1>6, <1>7

\* The destructor moves no delivery.
LEMMA DtorMovesNoFrame ==
    ASSUME DtorStep \/ DtorInProvider PROVE freed \in SUBSET freed' /\ frame' = frame
BY DEF DtorStep, DtorInProvider, DtorRetire, DtorDrain, DtorCollect, DtorEnd,
   DtorTearDown

\* Every step is a step of the abstract specification or a stutter.
LEMMA NextRefines ==
    ASSUME IInv, IInv', [Next]_vars PROVE [Cancel!Next]_(Cancel!vars)
<1>1. ASSUME NEW th \in Threads, Start(th) PROVE [Cancel!Next]_(Cancel!vars)
  <2>1. CASE (\E t \in Topics : DeliverBegin(th, t)) \/ PeerBegin(th)
    BY <2>1, FramesOutsideCallback, OutsideCallback
  <2>. QED
    BY <1>1, <2>1, CallsMoveNoFrame, SameFrames DEF Start
<1>2. ASSUME NEW th \in Threads, Step(th) PROVE [Cancel!Next]_(Cancel!vars)
  <2>1. CASE FanoutInvoke(th)
    BY <2>1, InvokeRefines
  <2>2. CASE \/ FanoutLoad(th) \/ (\E i \in Ids : FanoutLockGate(th, i))
             \/ FanoutSkip(th) \/ FanoutEnd(th) \/ DeliverEnd(th) \/ SweepBarrier(th)
             \/ SweepRelease(th)
    BY <2>2, FramesOutsideCallback, OutsideCallback
  <2>. QED
    BY <1>2, <2>1, <2>2, CallsMoveNoFrame, SameFrames DEF Step
<1>3. ASSUME NEW th \in Threads, HandlerReturn(th) PROVE [Cancel!Next]_(Cancel!vars)
  BY <1>3, ReturnRefines, FramesOutsideCallback, OutsideCallback DEF HandlerReturn
<1>4. ASSUME NEW th \in Threads, InProvider(th) \/ ProviderThrow(th)
      PROVE  [Cancel!Next]_(Cancel!vars)
  BY <1>4, CallsMoveNoFrame, SameFrames DEF InProvider
<1>5. CASE DtorStep \/ DtorInProvider
  BY <1>5, DtorMovesNoFrame, SameFrames
<1>6. CASE UNCHANGED vars
  BY <1>6, SameFrames DEF vars
<1>. QED
  BY <1>1, <1>2, <1>3, <1>4, <1>5, <1>6 DEF Next, Quiet

\* The Subscriber implements Cancellation, for any threads, topics, ids and
\* provider: a callback is invoked by one delivery at a time, and never once
\* the application has been told that it may free the callback's state.
THEOREM SubscriberImplementsCancellation == Spec => ImplementsCancellation
<1>1. Init => Cancel!Init
  <2> SUFFICES ASSUME Init PROVE Cancel!Init
    OBVIOUS
  <2>1. \A th \in Threads : frame[th] = NoFrame /\ NoFrame.pc = "none"
    BY DEF Init, NoFrame
  <2>2. Invoked = {} /\ freed = {}
    BY <2>1 DEF Init, Invoked, Running
  <2>. QED
    BY <2>2 DEF Cancel!Init
<1>2. IInv /\ IInv' /\ [Next]_vars => [Cancel!Next]_(Cancel!vars)
  BY NextRefines
<1>. QED
  BY <1>1, <1>2, SpecInv, PTL DEF Spec, ImplementsCancellation, Cancel!Spec

-----------------------------------------------------------------------------
(* The Subscriber and its provider: the other steps keep Agrees. *)

\* An id that is cancelled leaves the live map in the step that begins it.
LEMMA UnsubscribeRemoveAgrees ==
    ASSUME IInv, Agrees, NEW th \in Threads, NEW i \in Ids, UnsubscribeRemove(th, i)
    PROVE  Agrees'
<1> DEFINE k == [NoCall EXCEPT !.op = "unsubscribe", !.pc = "retire", !.id = i,
                               !.topic = subscription_topic[i], !.ours = TRUE]
<1>1. /\ call' = [call EXCEPT ![Ctx(th)] = k]
      /\ subscription_topic' = [subscription_topic EXCEPT ![i] = NoTopic]
      /\ UNCHANGED <<provider_subscribed, in_progress, opened, raced>>
  BY DEF UnsubscribeRemove, providerVars
<1>2. k \in Calls /\ k.pc = "retire" /\ k.id = i
  BY DEF NoCall, Calls, CallPCs, IInv, TypeOK
<1>3. Ctx(th) \in Contexts /\ call[Ctx(th)].pc = "idle" /\ call[Ctx(th)].op = "none"
  BY CanCallShape DEF UnsubscribeRemove, Agrees, LiveSide
<1> HIDE DEF k
<1>4. MovesTo(th, k)
  BY <1>1, <1>2, MovesTyped DEF IInv
<1>5. ProviderSide'
  BY <1>1, <1>2, <1>3, <1>4, ProviderSideMoved DEF Agrees, AtProvider, Entering
<1>6. LiveSide'
  BY <1>1, <1>2, <1>3, <1>4, CancellingIds, LiveSideLess DEF IInv, Agrees
<1>. QED
  BY <1>5, <1>6 DEF Agrees

\* A second canceller of an id that is no longer live.
LEMMA UnsubscribeDuplicateAgrees ==
    ASSUME IInv, Agrees, NEW th \in Threads, NEW i \in Ids, UnsubscribeDuplicate(th, i)
    PROVE  Agrees'
<1> DEFINE k == [NoCall EXCEPT !.op = "unsubscribe", !.pc = "retire", !.id = i]
<1>1. /\ call' = [call EXCEPT ![Ctx(th)] = k] /\ ~Live(i)
      /\ UNCHANGED <<provider_subscribed, in_progress, opened, raced, subscription_topic>>
  BY DEF UnsubscribeDuplicate, providerVars, coreVars
<1>2. k \in Calls /\ k.pc = "retire" /\ k.id = i
  BY DEF NoCall, Calls, CallPCs
<1>3. Ctx(th) \in Contexts /\ call[Ctx(th)].pc = "idle" /\ call[Ctx(th)].op = "none"
  BY CanCallShape DEF UnsubscribeDuplicate, Agrees, LiveSide
<1> HIDE DEF k
<1>4. MovesTo(th, k)
  BY <1>1, <1>2, MovesTyped DEF IInv
<1>5. ProviderSide'
  BY <1>1, <1>2, <1>3, <1>4, ProviderSideMoved DEF Agrees, AtProvider, Entering
<1>6. LiveSide'
  BY <1>1, <1>2, <1>3, <1>4, LiveSideMoved DEF IInv, Agrees
<1>. QED
  BY <1>5, <1>6 DEF Agrees

\* Steps of a cancellation away from the provider: the id stays dead.
LEMMA CancellationGoesOn ==
    ASSUME IInv, Agrees, NEW th \in Threads, NEW k \in Calls, MovesTo(th, k),
           call[Ctx(th)].pc \in Cancelling \ {"teardown"}, k.pc # "teardown",
           k = NoCall \/ (k.pc \in Cancelling /\ k.id = call[Ctx(th)].id),
           UNCHANGED <<provider_subscribed, in_progress, opened, raced, subscription_topic>>
    PROVE  Agrees'
<1>1. NoCall.pc = "idle" /\ NoCall.op = "none"
  BY DEF NoCall
<1>2. ~Live(call[Ctx(th)].id)
  BY CtxTyped DEF Agrees, LiveSide
<1>3. ProviderSide'
  BY <1>1, ProviderSideMoved DEF Agrees, AtProvider, Entering, Cancelling
<1>4. LiveSide'
  BY <1>1, <1>2, LiveSideMoved DEF IInv, Agrees, Cancelling
<1>. QED
  BY <1>3, <1>4 DEF Agrees

\* The exception of a failed Subscribe goes on.
LEMMA RollbackReleaseAgrees ==
    ASSUME IInv, Agrees, NEW th \in Threads, RollbackRelease(th)
    PROVE  Agrees'
<1>1. /\ call[Ctx(th)].pc = "release" /\ Return(th)
      /\ UNCHANGED <<provider_subscribed, in_progress, opened, raced, subscription_topic>>
  BY DEF RollbackRelease, At, Self, providerVars
<1>2. MovesTo(th, NoCall) /\ NoCall \in Calls /\ NoCall.pc = "idle"
  BY <1>1, ReturnMoves
<1>. QED
  BY <1>1, <1>2, CancellationGoesOn DEF Cancelling

\* A handler cancels: no wait, and the release is owed.
LEMMA RetireInsideDeliveryAgrees ==
    ASSUME IInv, Agrees, NEW th \in Threads, RetireInsideDelivery(th)
    PROVE  Agrees'
<1> DEFINE c0 == Ctx(th)
           on == call[c0].ours /\ call[c0].op = "unsubscribe"
           k == IF on THEN [call[c0] EXCEPT !.pc = "decide", !.deferred = OwesRelease(th)]
                ELSE NoCall
<1>0. c0 \in Contexts /\ call[c0] \in Calls
  BY CtxTyped DEF IInv, TypeOK
<1>1. /\ call[c0].pc = "retire" /\ call' = [call EXCEPT ![c0] = k]
      /\ UNCHANGED <<provider_subscribed, in_progress, opened, raced, subscription_topic>>
  BY <1>0 DEF RetireInsideDelivery, At, Self, providerVars, coreVars, IInv, TypeOK
<1>2. k \in Calls /\ (k = NoCall \/ (k.pc = "decide" /\ k.id = call[c0].id)) /\ k.pc # "teardown"
  <2>1. CASE on
    <3>1. OwesRelease(th) \in BOOLEAN
      BY <1>0 DEF OwesRelease, Self, Calls
    <3> HIDE DEF on
    <3>. QED
      BY <1>0, <2>1, <3>1 DEF Calls, CallPCs
  <2>2. CASE ~on
    BY <2>2, NoneTyped DEF NoCall
  <2>. QED
    BY <2>1, <2>2
<1> HIDE DEF k
<1>3. MovesTo(th, k)
  BY <1>1, <1>2, MovesTyped DEF IInv
<1>. QED
  BY <1>1, <1>2, <1>3, CancellationGoesOn DEF Cancelling

\* The gate has been waited for.
LEMMA DrainAgrees ==
    ASSUME IInv, Agrees, NEW th \in Threads, Drain(th)
    PROVE  Agrees'
<1>1. /\ call[Ctx(th)].pc = "drain"
      /\ UNCHANGED <<provider_subscribed, in_progress, opened, raced, subscription_topic>>
  BY DEF Drain, At, Self, providerVars, coreVars
<1>2. CASE Return(th)
  <2>1. MovesTo(th, NoCall) /\ NoCall \in Calls /\ NoCall.pc = "idle"
    BY <1>2, ReturnMoves
  <2>. QED
    BY <1>1, <2>1, CancellationGoesOn DEF Cancelling
<1>3. ASSUME NEW pc \in {"release", "decide"}, Goto(th, pc) PROVE Agrees'
  <2>1. pc \in CallPCs
    BY DEF CallPCs
  <2>2. PICK k \in Calls : MovesTo(th, k) /\ k.pc = pc /\ k.id = call[Ctx(th)].id
    BY <1>3, <2>1, GotoMoves
  <2>. QED
    BY <1>1, <1>3, <2>2, CancellationGoesOn DEF Cancelling
<1>. QED
  BY <1>2, <1>3 DEF Drain

\* The second section of Unsubscribe: the last one out takes the flag down.
LEMMA UnsubscribeDecideAgrees ==
    ASSUME IInv, Agrees, NEW th \in Threads, UnsubscribeDecide(th)
    PROVE  Agrees'
<1> PICK c0 \in Contexts : c0 = Ctx(th)
  BY CtxTyped
<1> PICK t : t = call[c0].topic
  OBVIOUS
<1>1. /\ call[c0].pc = "decide"
      /\ provider_subscribed' = [provider_subscribed EXCEPT
                                   ![t] = provider_subscribed[t] /\ ~LastOne(th)]
      /\ UNCHANGED <<in_progress, opened, raced, subscription_topic>>
  BY DEF UnsubscribeDecide, ClearsFlag, At, Self
<1>2. c0 \in Contexts /\ t \in Topics /\ provider_subscribed \in [Topics -> BOOLEAN]
  BY <1>1, CtxTyped DEF IInv, TypeOK, CallShape
<1>3. CASE ~LastOne(th)
  <2>1. provider_subscribed' = provider_subscribed /\ Return(th)
    <3>1. Return(th)
      BY <1>3 DEF UnsubscribeDecide
    <3>2. provider_subscribed' = [provider_subscribed EXCEPT ![t] = provider_subscribed[t]]
      BY <1>1, <1>2, <1>3, Zenon
    <3>. QED
      BY <1>2, <3>1, <3>2
  <2>2. MovesTo(th, NoCall) /\ NoCall \in Calls /\ NoCall.pc = "idle"
    BY <2>1, ReturnMoves
  <2>. QED
    BY <1>1, <2>1, <2>2, CancellationGoesOn DEF Cancelling
<1>4. CASE LastOne(th)
  <2>1. Goto(th, "teardown") /\ entries[t] = {} /\ provider_subscribed[t]
    BY <1>4 DEF UnsubscribeDecide, LastOne, NobodyLeft, Self
  <2>2. /\ ~provider_subscribed'[t]
        /\ \A u \in Topics : u # t => provider_subscribed'[u] = provider_subscribed[u]
    BY <1>1, <1>2, <1>4
  <2>3. PICK k \in Calls : /\ MovesTo(th, k) /\ k.pc = "teardown"
                           /\ k.id = call[c0].id /\ k.topic = t
    <3>1. "teardown" \in CallPCs
      BY DEF CallPCs
    <3>. QED
      BY <2>1, <3>1, GotoMoves
  <2>4. call[Ctx(th)].topic = t /\ call[Ctx(th)].pc = "decide"
    BY <1>1
  <2>5. TopicSide(t) /\ \A c \in Contexts : ~Enters(c, t)
    BY <1>2, <2>1 DEF Agrees, ProviderSide, TopicSide
  <2>6. TopicSide(t)'
    <3>1. \A c \in Contexts : ~Enters(c, t)'
      BY <2>3, <2>5 DEF MovesTo, Enters, Entering
    <3>. QED
      BY <1>1, <1>2, <2>2, <2>5, <3>1 DEF TopicSide
  <2>7. ASSUME NEW u \in Topics, u # t PROVE TopicSide(u)'
    <3>1. TopicSide(u)
      BY DEF Agrees, ProviderSide
    <3>. QED
      BY <1>1, <2>2, <2>3, <2>4, <2>7, <3>1, TopicSideElsewhere
  <2>8. LiveSide'
    <3>1. ~Live(call[Ctx(th)].id) /\ Ctx(th) \in Contexts
      BY <2>4, CtxTyped DEF Agrees, LiveSide, Cancelling
    <3>2. \A i \in Ids : Live(i) => /\ subscription_topic[i] # t
                                   /\ subscription_topic[i] \in Topics
      BY <1>2, <2>1 DEF IInv, Listed, TypeOK, Live
    <3>3. \A c \in Contexts : call'[c].pc = "idle" => call'[c].op = "none"
      BY <2>3 DEF Agrees, LiveSide, MovesTo
    <3>4. \A c \in Contexts : call'[c].pc \in Cancelling => ~Live(call'[c].id)
      BY <2>3, <3>1 DEF Agrees, LiveSide, MovesTo, Cancelling
    <3>5. ASSUME NEW i \in Ids, Live(i)
          PROVE  \/ provider_subscribed'[subscription_topic[i]]
                 \/ \E c \in Contexts : call'[c].op = "subscribe" /\ call'[c].id = i
      <4>1. \A c \in Contexts : c # Ctx(th) =>
                call'[c].op = call[c].op /\ call'[c].id = call[c].id
        BY <2>3 DEF MovesTo
      <4>2. CASE provider_subscribed[subscription_topic[i]]
        BY <2>2, <3>2, <3>5, <4>2
      <4>3. CASE \E c \in Contexts : call[c].op = "subscribe" /\ call[c].id = i
        BY <3>1, <3>5, <4>1, <4>3
      <4>. QED
        BY <3>5, <4>2, <4>3 DEF Agrees, LiveSide, LiveIsServed
    <3>. QED
      BY <1>1, <3>3, <3>4, <3>5 DEF LiveSide, LiveIsServed, Live
  <2>. QED
    BY <2>6, <2>7, <2>8 DEF Agrees, ProviderSide
<1>. QED
  BY <1>3, <1>4

\* The provider closes the topic: whoever opened it meanwhile is raced.
LEMMA ProviderUnsubscribeAgrees ==
    ASSUME IInv, Agrees, NEW th \in Threads, ProviderUnsubscribe(th)
    PROVE  Agrees'
<1> PICK c0 \in Contexts : c0 = Ctx(th)
  BY CtxTyped
<1> PICK t : t = call[c0].topic
  OBVIOUS
<1>1. /\ call[c0].pc = "teardown" /\ Return(th)
      /\ opened' = [opened EXCEPT ![t] = FALSE]
      /\ UNCHANGED <<provider_subscribed, in_progress, raced, subscription_topic>>
  BY DEF ProviderUnsubscribe, At, Self, coreVars
<1>2. c0 \in Contexts /\ t \in Topics
  BY <1>1, CtxTyped, TopicOfCall DEF AtProvider, Entering
<1>3. MovesTo(th, NoCall) /\ NoCall.pc = "idle" /\ NoCall.op = "none"
  BY <1>1, ReturnMoves
<1>4. ~opened'[t] /\ \A u \in Topics : u # t => opened'[u] = opened[u]
  BY <1>1, <1>2 DEF IInv, TypeOK
<1>5. TeardownPending(t)
  BY <1>1, <1>2 DEF TeardownPending
<1>6. call[Ctx(th)].topic = t /\ call[Ctx(th)].pc = "teardown" /\ Ctx(th) \in Contexts
  BY <1>1, <1>2
<1>7. \A c \in Contexts : /\ Enters(c, t)' <=> Enters(c, t)
                          /\ Enters(c, t) => call'[c].pc = call[c].pc
  BY <1>3, <1>6 DEF MovesTo, Enters, Entering
<1>8. TopicSide(t)'
  <2>1. TopicSide(t)
    BY <1>2 DEF Agrees, ProviderSide
  <2>. QED
    BY <1>1, <1>4, <1>5, <1>7, <2>1 DEF TopicSide
<1>9. ASSUME NEW u \in Topics, u # t PROVE TopicSide(u)'
  <2>1. TopicSide(u) /\ NoCall.pc \notin AtProvider
    BY <1>3 DEF Agrees, ProviderSide, AtProvider, Entering
  <2>. QED
    BY <1>1, <1>3, <1>4, <1>6, <1>9, <2>1, TopicSideElsewhere
<1>10. LiveSide'
  <2>1. ~Live(call[Ctx(th)].id)
    BY <1>6 DEF Agrees, LiveSide, Cancelling
  <2>. QED
    BY <1>1, <1>3, <2>1, LiveSideMoved DEF IInv, Agrees, Cancelling
<1>. QED
  BY <1>8, <1>9, <1>10 DEF Agrees, ProviderSide

-----------------------------------------------------------------------------
(* The destructor: no call is in flight *)

\* With every slot idle nobody enters the provider or tears a topic down.
LEMMA DtorTopicSide ==
    ASSUME ProviderSide, call' = call, in_progress' = in_progress, raced' = raced,
           \A c \in Contexts : call[c].pc = "idle",
           NEW t \in Topics, provider_subscribed'[t] => raced'[t] \/ opened'[t]
    PROVE  TopicSide(t)'
<1>1. TopicSide(t) /\ \A c \in Contexts : ~Enters(c, t)
  BY DEF ProviderSide, Enters, Entering
<1>2. (\A c \in Contexts : ~Enters(c, t)') /\ ~TeardownPending(t)'
  BY DEF Enters, Entering, TeardownPending
<1>. QED
  BY <1>1, <1>2 DEF TopicSide

\* The destructor's steps.
LEMMA DtorAgrees ==
    ASSUME IInv, Agrees,
           \/ \E th \in Threads : DtorBegin(th)
           \/ DtorCollect
           \/ \E t \in Topics : DtorTearDown(t)
    PROVE  Agrees'
<1>1. ASSUME NEW th \in Threads, DtorBegin(th) PROVE Agrees'
  <2>1. /\ subscription_topic' = [i \in Ids |-> NoTopic]
        /\ \A c \in Contexts : call[c].pc = "idle"
        /\ UNCHANGED <<provider_subscribed, in_progress, opened, raced, call>>
    BY <1>1 DEF DtorBegin, providerVars
  <2>2. ProviderSide'
    BY <2>1, TopicSideKept DEF Agrees, ProviderSide
  <2>3. LiveSide'
    BY <2>1 DEF Agrees, LiveSide, LiveIsServed, Live, Cancelling
  <2>. QED
    BY <2>2, <2>3 DEF Agrees
<1>2. CASE DtorCollect
  <2>1. /\ provider_subscribed' = [t \in Topics |-> FALSE]
        /\ \A c \in Contexts : call[c].pc = "idle"
        /\ \A i \in Ids : ~Live(i)
        /\ UNCHANGED <<in_progress, opened, raced, call, subscription_topic>>
    BY <1>2 DEF DtorCollect, coreVars, IInv, DtorShape
  <2>2. ProviderSide'
    BY <2>1, DtorTopicSide DEF Agrees, ProviderSide
  <2>3. LiveSide'
    BY <2>1 DEF Agrees, LiveSide, LiveIsServed, Live
  <2>. QED
    BY <2>2, <2>3 DEF Agrees
<1>3. ASSUME NEW t \in Topics, DtorTearDown(t) PROVE Agrees'
  <2>1. /\ \A u \in Topics : ~provider_subscribed[u]
        /\ \A c \in Contexts : call[c].pc = "idle"
        /\ UNCHANGED <<provider_subscribed, in_progress, raced, call, subscription_topic>>
    BY <1>3 DEF DtorTearDown, coreVars, IInv, DtorShape
  <2>2. ProviderSide'
    BY <2>1, DtorTopicSide DEF Agrees, ProviderSide
  <2>3. LiveSide'
    BY <2>1 DEF Agrees, LiveSide, LiveIsServed, Live
  <2>. QED
    BY <2>2, <2>3 DEF Agrees
<1>. QED
  BY <1>1, <1>2, <1>3

\* The constructor establishes Agrees.
LEMMA InitAgrees == Init => Agrees
<1> SUFFICES ASSUME Init PROVE Agrees
  OBVIOUS
<1>1. \A c \in Contexts : call[c] = NoCall /\ NoCall.pc = "idle" /\ NoCall.op = "none"
  BY DEF Init, NoCall
<1>2. ProviderSide
  <2>1. \A t \in Topics : ~in_progress[t] /\ ~provider_subscribed[t]
    BY DEF Init
  <2>. QED
    BY <1>1, <2>1 DEF ProviderSide, TopicSide, Enters, Entering
<1>3. LiveSide
  <2>1. \A i \in Ids : ~Live(i)
    BY DEF Init, Live
  <2>. QED
    BY <1>1, <2>1 DEF LiveSide, LiveIsServed, Cancelling
<1>. QED
  BY <1>2, <1>3 DEF Agrees

\* Every step keeps Agrees.
LEMMA NextAgrees == IInv /\ Agrees /\ [Next]_vars => Agrees'
<1> SUFFICES ASSUME IInv, Agrees, [Next]_vars PROVE Agrees'
  OBVIOUS
<1>0. known \subseteq Ids
  BY DEF IInv, TypeOK
<1>1. ASSUME NEW th \in Threads, Start(th) PROVE Agrees'
  <2>1. ASSUME NEW t \in Topics, DeliverBegin(th, t) PROVE Agrees'
    BY <2>1, AgreesKept DEF DeliverBegin, providerVars, coreVars
  <2>2. CASE PeerBegin(th)
    BY <2>2, AgreesKept DEF PeerBegin, providerVars, coreVars
  <2>3. ASSUME NEW t \in Topics, NEW o \in Options \cup {NoOptions}, SubscribeInsert(th, t, o)
        PROVE  Agrees'
    BY <2>3, SubscribeInsertAgrees
  <2>4. ASSUME NEW i \in known, UnsubscribeGone(th, i) PROVE Agrees'
    BY <2>4, AgreesKept DEF UnsubscribeGone, providerVars, coreVars
  <2>5. ASSUME NEW i \in known, UnsubscribeDuplicate(th, i) \/ UnsubscribeRemove(th, i)
        PROVE  Agrees'
    BY <1>0, <2>5, UnsubscribeDuplicateAgrees, UnsubscribeRemoveAgrees
  <2>6. CASE DtorBegin(th)
    BY <2>6, DtorAgrees
  <2>. QED
    BY <1>1, <2>1, <2>2, <2>3, <2>4, <2>5, <2>6 DEF Start
<1>2. ASSUME NEW th \in Threads, Step(th) PROVE Agrees'
  <2>1. CASE FanoutLoad(th) \/ FanoutSkip(th) \/ FanoutInvoke(th) \/ FanoutEnd(th)
    BY <2>1, AgreesKept
    DEF FanoutLoad, FanoutSkip, FanoutInvoke, FanoutEnd, providerVars, coreVars
  <2>2. ASSUME NEW i \in Ids, FanoutLockGate(th, i) PROVE Agrees'
    BY <2>2, AgreesKept DEF FanoutLockGate, providerVars, coreVars
  <2>3. CASE DeliverEnd(th) \/ SweepBarrier(th) \/ SweepRelease(th)
    BY <2>3, AgreesKept
    DEF DeliverEnd, SweepBarrier, SweepRelease, providerVars, coreVars
  <2>4. CASE EnsureJoin(th) \/ EnsureEnter(th) \/ SubscribeRollback(th) \/ RollbackRelease(th)
    BY <2>4, EnsureJoinAgrees, EnsureEnterAgrees, SubscribeRollbackAgrees,
       RollbackReleaseAgrees
  <2>5. CASE EnsureRefuse(th) \/ EnsureWait(th) \/ EnsureWake(th) \/ Retire(th)
    BY <2>5, GoesOnAgrees
  <2>6. CASE RetireInsideDelivery(th) \/ Drain(th) \/ UnsubscribeDecide(th)
    BY <2>6, RetireInsideDeliveryAgrees, DrainAgrees, UnsubscribeDecideAgrees
  <2>. QED
    BY <1>2, <2>1, <2>2, <2>3, <2>4, <2>5, <2>6 DEF Step
<1>3. ASSUME NEW th \in Threads, HandlerReturn(th) PROVE Agrees'
  BY <1>3, AgreesKept
  DEF HandlerReturn, CallbackReturn, PeerEnd, providerVars, coreVars
<1>4. ASSUME NEW th \in Threads, InProvider(th) \/ ProviderThrow(th) PROVE Agrees'
  BY <1>4, ProviderOpenAgrees, SubscribeReturnAgrees, ProviderUnsubscribeAgrees,
     ProviderThrowAgrees DEF InProvider
<1>5. CASE DtorStep \/ DtorInProvider
  <2>1. ASSUME NEW i \in Ids, DtorRetire(i) PROVE Agrees'
    BY <2>1, AgreesKept DEF DtorRetire, providerVars, coreVars
  <2>2. CASE DtorDrain \/ DtorEnd
    BY <2>2, AgreesKept DEF DtorDrain, DtorEnd, providerVars, coreVars
  <2>. QED
    BY <1>5, <2>1, <2>2, DtorAgrees DEF DtorStep, DtorInProvider
<1>6. CASE UNCHANGED vars
  BY <1>6, AgreesKept DEF vars, providerVars, coreVars
<1>. QED
  BY <1>1, <1>2, <1>3, <1>4, <1>5, <1>6 DEF Next, Quiet

\* The invariant and Agrees hold in every reachable state.
LEMMA SpecAgrees == Spec => [](IInv /\ Agrees)
BY InitAgrees, NextAgrees, SpecInv, PTL DEF Spec

\* The Subscriber and the provider agree on which topics are subscribed,
\* though the decision to open or to close a topic and the provider call are
\* two steps: what the Subscriber counts on is open, nothing stays open that
\* nobody will close, and a topic has one first Subscribe at a time.
THEOREM SubscriberAndProviderAgree == Spec => []ProviderAgreement
<1>1. ASSUME IInv, Agrees, NEW t \in Topics
      PROVE  LET inside == {c \in Contexts : call[c].pc \in {"provider", "opened", "failed"}
                                             /\ call[c].topic = t}
             IN  /\ provider_subscribed[t] /\ ~raced[t] => opened[t]
                 /\ opened[t] => \/ provider_subscribed[t]
                                 \/ TeardownPending(t)
                                 \/ t \in dtor.topics
                                 \/ \E c \in inside : call[c].pc = "opened"
                 /\ \A c, d \in inside : c = d
                 /\ in_progress[t] <=> inside # {}
                 /\ inside # {} => ~provider_subscribed[t]
                 /\ \A c \in inside : call[c].pc = "provider" /\ opened[t]
                                         => TeardownPending(t)
  <2> DEFINE inside == {c \in Contexts : call[c].pc \in {"provider", "opened", "failed"}
                                         /\ call[c].topic = t}
  <2>0. TopicSide(t)
    BY <1>1 DEF Agrees, ProviderSide
  <2>1. \A c : c \in inside <=> c \in Contexts /\ Enters(c, t)
    BY DEF Enters, Entering
  <2>2. opened[t] => \/ provider_subscribed[t] \/ TeardownPending(t) \/ t \in dtor.topics
                     \/ \E c \in inside : call[c].pc = "opened"
    BY <1>1 DEF IInv, OpenHeld, TeardownPending
  <2> HIDE DEF inside
  <2>3. \A c, d \in inside : c = d
    BY <2>0, <2>1 DEF TopicSide
  <2>4. in_progress[t] <=> inside # {}
    BY <2>0, <2>1 DEF TopicSide
  <2>5. /\ provider_subscribed[t] /\ ~raced[t] => opened[t]
        /\ inside # {} => ~provider_subscribed[t]
        /\ \A c \in inside : call[c].pc = "provider" /\ opened[t] => TeardownPending(t)
    BY <2>0, <2>1 DEF TopicSide
  <2>. QED
    BY <2>2, <2>3, <2>4, <2>5 DEF inside
<1>2. IInv /\ Agrees => ProviderAgreement
  BY <1>1 DEF ProviderAgreement
<1>. QED
  BY <1>2, SpecAgrees, PTL

\* A subscription whose Subscribe has returned stays served while it is live,
\* whoever else subscribes to its topic or cancels.
THEOREM LiveIsAlwaysServed == Spec => []LiveIsServed
<1>1. Agrees => LiveIsServed
  BY DEF Agrees, LiveSide
<1>. QED
  BY <1>1, SpecAgrees, PTL
=============================================================================
