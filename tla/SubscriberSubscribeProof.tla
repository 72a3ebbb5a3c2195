---------------------- MODULE SubscriberSubscribeProof ----------------------
(*****************************************************************************)
(* The steps of Subscribe preserve the invariant of the Subscriber.          *)
(*                                                                           *)
(* They preserve Agrees too, which is inductive on top of that invariant.    *)
(* ProviderSide adds to ProviderAgreement what is known before Subscribe     *)
(* returns: a call that is past the provider's door has opened its topic,    *)
(* unless a teardown was on its way.  LiveSide adds to LiveIsServed which    *)
(* calls are about ids that are no longer live.                              *)
(*****************************************************************************)
EXTENDS SubscriberInvariant

\* Subscribe inserts the subscription into its topic.
LEMMA SubscribeInsertInv ==
    ASSUME IInv, NEW th \in Threads, NEW t \in Topics, NEW o \in Options \cup {NoOptions},
           SubscribeInsert(th, t, o)
    PROVE  IInv'
<1> DEFINE c0 == Ctx(th)
<1> DEFINE k == [NoCall EXCEPT !.op = "subscribe", !.pc = "ensure",
                            !.id = next_id, !.topic = t, !.options = o,
                            !.ours = TRUE]
<1>0. c0 \in Contexts /\ call[c0] \in Calls /\ call[c0].pc = "idle"
  BY CanCallShape DEF SubscribeInsert
<1>1. dtor.pc = "alive"
  BY CanCallShape DEF SubscribeInsert
<1>2. frame[th].pc \in {"none", "running", "peer"}
  BY CanCallShape DEF SubscribeInsert
<1>3. next_id \in Ids /\ mu = NoThread
  BY DEF SubscribeInsert
<1>4. /\ k \in Calls
      /\ k.pc = "ensure" /\ k.id = next_id
      /\ k.topic = t /\ k.ours /\ ~k.deferred
  BY <1>3, NoneTyped, Zenon DEF NoCall, Calls, CallPCs
<1>5. call' = [call EXCEPT ![c0] = k]
  BY DEF SubscribeInsert, Goto, Return, Self
<1>6. /\ call' \in [Contexts -> Calls] /\ call'[c0] = k
      /\ \A c \in Contexts : c # c0 => call'[c] = call[c]
  BY <1>4, <1>5, MoveTyped, Zenon DEF IInv
<1>7. mu' = th /\ next_id' = next_id + 1 /\ next_id' \in 1..(MaxId + 1)
  BY <1>3, SubscriberAssumption DEF SubscribeInsert, Ids
<1>8. /\ subscription_topic' = [subscription_topic EXCEPT ![next_id] = t]
      /\ subscription_topic \in [Ids -> Topics \cup {NoTopic}]
  BY DEF SubscribeInsert, IInv, TypeOK
<1>9. /\ entries' = [entries EXCEPT ![t] = @ \cup {next_id}]
      /\ entries \in [Topics -> SUBSET Ids]
  BY DEF SubscribeInsert, IInv, TypeOK
<1>10. ~Live(next_id) /\ next_id \notin retirements
  BY <1>3 DEF IInv, Issued, Ids
<1> HIDE DEF c0, k
<1>11. UNCHANGED <<options, retirements, gate, retired, provider_subscribed,
                 in_progress, opened, raced, frame, dtor, known, freed, stack,
                 deferred>>
  BY DEF SubscribeInsert, coreVars, gateVars, providerVars, frameVars
<1>12. TypeOK'
  BY <1>3, <1>6, <1>7, <1>8, <1>9, <1>10, <1>11 DEF IInv, TypeOK
<1>13. FrameShape' /\ GateHeld' /\ FreedSilent' /\ DeferredRetired' /\
      FlightOpen'
  BY <1>11, Kept DEF IInv
<1>14. \A j \in Ids : Silent(j) => Silent(j)'
  BY <1>11 DEF Silent, Running
<1>15. CallShape'
  BY <1>0, <1>3, <1>4, <1>6, <1>11 DEF IInv, CallShape
<1>16. Issued'
  <2>1. \A i \in Ids : i < next_id => i < next_id'
    BY <1>3, <1>7 DEF Ids
  <2>2. next_id < next_id'
    BY <1>3, <1>7 DEF Ids
  <2>3. \A i \in Ids : Live(i)' => i < next_id'
    BY <1>3, <1>8, <2>1, <2>2 DEF IInv, Issued, Live
  <2>4. \A i \in (retirements \cup known)' : i < next_id'
    BY <1>11, <2>1 DEF IInv, Issued, TypeOK
  <2>5. \A c \in Contexts : call'[c].pc # "idle" => call'[c].id < next_id'
    BY <1>0, <1>4, <1>6, <2>1, <2>2 DEF IInv, Issued, CallShape
  <2>6. \A u \in Threads : /\ \A i \in frame'[u].todo : i < next_id'
                           /\ frame'[u].pc \in HoldsGate => frame'[u].cur < next_id'
    BY <1>11, <2>1 DEF IInv, Issued, FrameShape, TypeOK, Frames
  <2>7. \A i \in retirements' \cup known' : i < next_id'
    BY <2>4
  <2>. QED
    BY <2>3, <2>5, <2>6, <2>7 DEF Issued
<1>17. Listed'
  <2>1. \A u \in Topics : next_id \notin entries[u]
    BY <1>3, <1>10, SubscriberAssumption DEF IInv, Listed, Live
  <2>. QED
    BY <1>3, <1>8, <1>9, <2>1 DEF IInv, Listed
<1>18. LiveNotRetiring'
  BY <1>3, <1>8, <1>10, <1>11, SubscriberAssumption DEF IInv, LiveNotRetiring, Live, TypeOK
<1>19. GoneSilent'
  <2>1. \A i \in Ids : i < next_id' => i < next_id \/ i = next_id
    BY <1>3, <1>7 DEF Ids
  <2>2. subscription_topic'[next_id] # NoTopic
    BY <1>3, <1>8, SubscriberAssumption
  <2>3. \A i \in Ids : i # next_id => subscription_topic'[i] = subscription_topic[i]
    BY <1>3, <1>8
  <2>. QED
    BY <1>11, <1>14, <2>1, <2>2, <2>3 DEF IInv, GoneSilent, Live
<1>20. SubscribeOwnId'
  <2>1. \A c \in Contexts : c # c0 /\ call[c].pc # "idle" =>
            call'[c] = call[c] /\ call[c].id \in Ids /\ call[c].id # next_id
    BY <1>0, <1>3, <1>6 DEF IInv, Issued, CallShape, Ids
  <2>2. call'[c0] = k /\ subscription_topic'[next_id] = t
    BY <1>0, <1>3, <1>6, <1>8
  <2>3. \A i \in Ids : i # next_id => subscription_topic'[i] = subscription_topic[i]
    BY <1>3, <1>8
  <2>4. \A c \in Contexts : c # c0 /\ call[c].pc = "idle" => call'[c].pc = "idle"
    BY <1>0, <1>6
  <2>. QED
    BY <1>4, <2>1, <2>2, <2>3, <2>4 DEF IInv, SubscribeOwnId, Live
<1>21. CallSilent'
  BY <1>0, <1>3, <1>4, <1>6, <1>11, <1>14 DEF IInv, CallSilent, CallShape
<1>22. RetiringRetired'
  BY <1>0, <1>3, <1>4, <1>6, <1>11 DEF IInv, RetiringRetired
<1>23. OpenHeld'
  BY <1>0, <1>3, <1>4, <1>6, <1>11 DEF IInv, OpenHeld
<1>24. DtorShape'
  BY <1>0, <1>1, <1>3, <1>4, <1>6, <1>8, <1>10, <1>11 DEF IInv, DtorShape, Live
<1>25. SlotShape'
  BY <1>0, <1>2, <1>3, <1>4, <1>5, <1>11, SlotShapeKept, Zenon DEF c0
<1>26. MuHeld'
  <2>1. c0 = <<th, 0>> \/ c0 = <<th, 1>>
    BY DEF c0, Ctx
  <2>2. call'[c0].pc = "ensure" /\ mu' = th
    BY <1>0, <1>4, <1>6, <1>7
  <2>. QED
    BY <2>1, <2>2 DEF MuHeld, Slots
<1>. QED
  BY <1>12, <1>13, <1>15, <1>16, <1>17, <1>18, <1>19, <1>20, <1>21,
     <1>22, <1>23, <1>24, <1>25, <1>26 DEF IInv

\* The provider already serves the topic: the call joins it.
LEMMA EnsureJoinInv ==
    ASSUME IInv, NEW th \in Threads, EnsureJoin(th)
    PROVE  IInv'
<1> DEFINE c0 == Ctx(th)
<1> DEFINE k == NoCall
<1>0. ~At(th, "idle") /\ call[c0].pc = "ensure"
  BY DEF EnsureJoin, At, Self
<1>1. c0 \in Contexts /\ call[c0] \in Calls
  BY <1>0, SelfShape
<1>2. call[c0].id \in Ids /\ call[c0].id < next_id
  BY <1>0, SelfShape
<1>3. /\ call[c0].ours => call[c0].topic \in Topics
      /\ call[c0].pc \notin {"retire", "drain"} => call[c0].ours
      /\ call[c0].deferred => call[c0].pc = "decide" /\ frame[th].pc = "running"
  BY <1>0, SelfShape
<1>4. /\ frame[th].pc \in {"none", "running", "peer"}
      /\ call[c0].pc \in {"wait", "woken", "provider", "opened", "failed",
                          "teardown"} => frame[th].pc = "none"
  BY <1>0, SelfShape
<1>5. dtor.pc = "alive"
  BY <1>0, SelfShape
<1>6. k \in Calls /\ k.pc = "idle" /\ ~k.deferred
  BY NoneTyped DEF NoCall
<1>7. call' = [call EXCEPT ![c0] = k]
  BY DEF EnsureJoin, Goto, Return, Self
<1>8. /\ call' \in [Contexts -> Calls] /\ call'[c0] = k
      /\ \A c \in Contexts : c # c0 => call'[c] = call[c]
  BY <1>6, <1>7, MoveTyped, Zenon DEF IInv
<1>9. mu' = NoThread /\ known' = known \cup {call[c0].id}
  BY DEF EnsureJoin, Self
<1> HIDE DEF c0, k
<1>10. UNCHANGED <<next_id, subscription_topic, entries, options, retirements,
                 gate, retired, provider_subscribed, in_progress, opened,
                 raced, frame, dtor, freed, stack, deferred>>
  BY DEF EnsureJoin, coreVars, gateVars, providerVars, frameVars
<1>11. TypeOK'
  BY <1>2, <1>3, <1>8, <1>9, <1>10 DEF IInv, TypeOK
<1>12. FrameShape' /\ GateHeld' /\ Listed' /\ LiveNotRetiring' /\
      GoneSilent' /\ FreedSilent' /\ DeferredRetired' /\ FlightOpen'
  BY <1>10, Kept DEF IInv
<1>13. \A j \in Ids : Silent(j) => Silent(j)'
  BY <1>10 DEF Silent, Running
<1>14. CallShape'
  BY <1>0, <1>1, <1>2, <1>3, <1>6, <1>8, <1>10 DEF IInv, CallShape
<1>15. Issued'
  BY <1>0, <1>1, <1>2, <1>6, <1>8, <1>9, <1>10, Zenon DEF IInv, Issued, Live, TypeOK
<1>16. SubscribeOwnId'
  BY <1>0, <1>1, <1>6, <1>8, <1>10 DEF IInv, SubscribeOwnId, Live, Issued
<1>17. CallSilent'
  BY <1>0, <1>1, <1>6, <1>8, <1>10, <1>13 DEF IInv, CallSilent, CallShape
<1>18. RetiringRetired'
  BY <1>0, <1>1, <1>6, <1>8, <1>10 DEF IInv, RetiringRetired
<1>19. OpenHeld'
  BY <1>0, <1>1, <1>3, <1>6, <1>8, <1>10 DEF IInv, OpenHeld
<1>20. DtorShape'
  BY <1>0, <1>1, <1>5, <1>6, <1>8, <1>10 DEF IInv, DtorShape, Live
<1>21. SlotShape'
  BY <1>0, <1>3, <1>4, <1>6, <1>7, <1>10, SlotShapeKept, Zenon DEF c0
<1>22. MuHeld'
  BY <1>9, SubscriberAssumption DEF MuHeld
<1>. QED
  BY <1>11, <1>12, <1>14, <1>15, <1>16, <1>17, <1>18, <1>19, <1>20,
     <1>21, <1>22 DEF IInv

\* The options conflict, or the call is inside a delivery of the provider.
LEMMA EnsureRefuseInv ==
    ASSUME IInv, NEW th \in Threads, EnsureRefuse(th)
    PROVE  IInv'
<1> DEFINE c0 == Ctx(th)
<1> DEFINE k == [call[c0] EXCEPT !.pc = "rollback"]
<1>0. ~At(th, "idle") /\ call[c0].pc = "ensure"
  BY DEF EnsureRefuse, At, Self
<1>1. c0 \in Contexts /\ call[c0] \in Calls
  BY <1>0, SelfShape
<1>2. call[c0].id \in Ids /\ call[c0].id < next_id
  BY <1>0, SelfShape
<1>3. /\ call[c0].ours => call[c0].topic \in Topics
      /\ call[c0].pc \notin {"retire", "drain"} => call[c0].ours
      /\ call[c0].deferred => call[c0].pc = "decide" /\ frame[th].pc = "running"
  BY <1>0, SelfShape
<1>4. /\ frame[th].pc \in {"none", "running", "peer"}
      /\ call[c0].pc \in {"wait", "woken", "provider", "opened", "failed",
                          "teardown"} => frame[th].pc = "none"
  BY <1>0, SelfShape
<1>5. dtor.pc = "alive"
  BY <1>0, SelfShape
<1>6. /\ k \in Calls /\ k.pc = "rollback" /\ k.id = call[c0].id
      /\ k.topic = call[c0].topic /\ k.ours = call[c0].ours
      /\ k.deferred = call[c0].deferred
  BY <1>1, <1>2, <1>3, <1>4 DEF Calls, CallPCs
<1>7. call' = [call EXCEPT ![c0] = k]
  BY DEF EnsureRefuse, Goto, Return, Self
<1>8. /\ call' \in [Contexts -> Calls] /\ call'[c0] = k
      /\ \A c \in Contexts : c # c0 => call'[c] = call[c]
  BY <1>6, <1>7, MoveTyped, Zenon DEF IInv
<1> HIDE DEF c0, k
<1>9. UNCHANGED <<mu, next_id, subscription_topic, entries, options,
                 retirements, gate, retired, provider_subscribed, in_progress,
                 opened, raced, frame, dtor, known, freed, stack, deferred>>
  BY DEF EnsureRefuse, coreVars, gateVars, providerVars, frameVars
<1>10. TypeOK'
  BY <1>2, <1>3, <1>8, <1>9 DEF IInv, TypeOK
<1>11. FrameShape' /\ GateHeld' /\ Listed' /\ LiveNotRetiring' /\
      GoneSilent' /\ FreedSilent' /\ DeferredRetired' /\ FlightOpen'
  BY <1>9, Kept DEF IInv
<1>12. \A j \in Ids : Silent(j) => Silent(j)'
  BY <1>9 DEF Silent, Running
<1>13. CallShape'
  BY <1>0, <1>1, <1>2, <1>3, <1>6, <1>8, <1>9 DEF IInv, CallShape
<1>14. Issued'
  BY <1>0, <1>1, <1>2, <1>6, <1>8, <1>9, Zenon DEF IInv, Issued, Live, TypeOK
<1>15. SubscribeOwnId'
  BY <1>0, <1>1, <1>6, <1>8, <1>9 DEF IInv, SubscribeOwnId, Live, Issued
<1>16. CallSilent'
  BY <1>0, <1>1, <1>6, <1>8, <1>9, <1>12 DEF IInv, CallSilent, CallShape
<1>17. RetiringRetired'
  BY <1>0, <1>1, <1>6, <1>8, <1>9 DEF IInv, RetiringRetired
<1>18. OpenHeld'
  BY <1>0, <1>1, <1>3, <1>6, <1>8, <1>9 DEF IInv, OpenHeld
<1>19. DtorShape'
  BY <1>0, <1>1, <1>5, <1>6, <1>8, <1>9 DEF IInv, DtorShape, Live
<1>20. SlotShape'
  BY <1>0, <1>3, <1>4, <1>6, <1>7, <1>9, SlotShapeKept, Zenon DEF c0
<1>21. MuHeld'
  BY <1>0, <1>6, <1>8, <1>9, MuHeldKept
<1>. QED
  BY <1>10, <1>11, <1>13, <1>14, <1>15, <1>16, <1>17, <1>18, <1>19,
     <1>20, <1>21 DEF IInv

\* Another call is at the provider: this one waits.
LEMMA EnsureWaitInv ==
    ASSUME IInv, NEW th \in Threads, EnsureWait(th)
    PROVE  IInv'
<1> DEFINE c0 == Ctx(th)
<1> DEFINE k == [call[c0] EXCEPT !.pc = "wait"]
<1>0. ~At(th, "idle") /\ call[c0].pc = "ensure"
  BY DEF EnsureWait, MustEnterProvider, At, Self
<1>1. c0 \in Contexts /\ call[c0] \in Calls
  BY <1>0, SelfShape
<1>2. call[c0].id \in Ids /\ call[c0].id < next_id
  BY <1>0, SelfShape
<1>3. /\ call[c0].ours => call[c0].topic \in Topics
      /\ call[c0].pc \notin {"retire", "drain"} => call[c0].ours
      /\ call[c0].deferred => call[c0].pc = "decide" /\ frame[th].pc = "running"
  BY <1>0, SelfShape
<1>4. /\ frame[th].pc \in {"none", "running", "peer"}
      /\ call[c0].pc \in {"wait", "woken", "provider", "opened", "failed",
                          "teardown"} => frame[th].pc = "none"
  BY <1>0, SelfShape
<1>5. dtor.pc = "alive"
  BY <1>0, SelfShape
<1>6. frame[th].pc = "none"
  BY <1>1, <1>2, <1>3, <1>4, InsideWhere DEF EnsureWait, MustEnterProvider, IInv
<1>7. /\ k \in Calls /\ k.pc = "wait" /\ k.id = call[c0].id
      /\ k.topic = call[c0].topic /\ k.ours = call[c0].ours
      /\ k.deferred = call[c0].deferred
  BY <1>1, <1>2, <1>3, <1>4 DEF Calls, CallPCs
<1>8. call' = [call EXCEPT ![c0] = k]
  BY DEF EnsureWait, Goto, Return, Self
<1>9. /\ call' \in [Contexts -> Calls] /\ call'[c0] = k
      /\ \A c \in Contexts : c # c0 => call'[c] = call[c]
  BY <1>7, <1>8, MoveTyped, Zenon DEF IInv
<1>10. mu' = NoThread
  BY DEF EnsureWait
<1> HIDE DEF c0, k
<1>11. UNCHANGED <<next_id, subscription_topic, entries, options, retirements,
                 gate, retired, provider_subscribed, in_progress, opened,
                 raced, frame, dtor, known, freed, stack, deferred>>
  BY DEF EnsureWait, coreVars, gateVars, providerVars, frameVars
<1>12. TypeOK'
  BY <1>2, <1>3, <1>6, <1>9, <1>10, <1>11 DEF IInv, TypeOK
<1>13. FrameShape' /\ GateHeld' /\ Listed' /\ LiveNotRetiring' /\
      GoneSilent' /\ FreedSilent' /\ DeferredRetired' /\ FlightOpen'
  BY <1>11, Kept DEF IInv
<1>14. \A j \in Ids : Silent(j) => Silent(j)'
  BY <1>11 DEF Silent, Running
<1>15. CallShape'
  BY <1>0, <1>1, <1>2, <1>3, <1>6, <1>7, <1>9, <1>11 DEF IInv, CallShape
<1>16. Issued'
  BY <1>0, <1>1, <1>2, <1>6, <1>7, <1>9, <1>10, <1>11, Zenon DEF IInv, Issued, Live, TypeOK
<1>17. SubscribeOwnId'
  BY <1>0, <1>1, <1>6, <1>7, <1>9, <1>11 DEF IInv, SubscribeOwnId, Live, Issued
<1>18. CallSilent'
  BY <1>0, <1>1, <1>6, <1>7, <1>9, <1>11, <1>14, Zenon DEF IInv, CallSilent, CallShape
<1>19. RetiringRetired'
  BY <1>0, <1>1, <1>6, <1>7, <1>9, <1>11 DEF IInv, RetiringRetired
<1>20. OpenHeld'
  BY <1>0, <1>1, <1>3, <1>6, <1>7, <1>9, <1>11 DEF IInv, OpenHeld
<1>21. DtorShape'
  BY <1>0, <1>1, <1>5, <1>6, <1>7, <1>9, <1>11 DEF IInv, DtorShape, Live
<1>22. SlotShape'
  BY <1>0, <1>3, <1>4, <1>6, <1>7, <1>8, <1>11, SlotShapeKept, Zenon DEF c0
<1>23. MuHeld'
  BY <1>10, SubscriberAssumption DEF MuHeld
<1>. QED
  BY <1>12, <1>13, <1>15, <1>16, <1>17, <1>18, <1>19, <1>20, <1>21,
     <1>22, <1>23 DEF IInv

\* A call that waited looks again.
LEMMA EnsureWakeInv ==
    ASSUME IInv, NEW th \in Threads, EnsureWake(th)
    PROVE  IInv'
<1> DEFINE c0 == Ctx(th)
<1> DEFINE k == [call[c0] EXCEPT !.pc = "ensure"]
<1>0. ~At(th, "idle") /\ call[c0].pc = "woken"
  BY DEF EnsureWake, At, Self
<1>1. c0 \in Contexts /\ call[c0] \in Calls
  BY <1>0, SelfShape
<1>2. call[c0].id \in Ids /\ call[c0].id < next_id
  BY <1>0, SelfShape
<1>3. /\ call[c0].ours => call[c0].topic \in Topics
      /\ call[c0].pc \notin {"retire", "drain"} => call[c0].ours
      /\ call[c0].deferred => call[c0].pc = "decide" /\ frame[th].pc = "running"
  BY <1>0, SelfShape
<1>4. /\ frame[th].pc \in {"none", "running", "peer"}
      /\ call[c0].pc \in {"wait", "woken", "provider", "opened", "failed",
                          "teardown"} => frame[th].pc = "none"
  BY <1>0, SelfShape
<1>5. dtor.pc = "alive"
  BY <1>0, SelfShape
<1>6. /\ k \in Calls /\ k.pc = "ensure" /\ k.id = call[c0].id
      /\ k.topic = call[c0].topic /\ k.ours = call[c0].ours
      /\ k.deferred = call[c0].deferred
  BY <1>1, <1>2, <1>3, <1>4 DEF Calls, CallPCs
<1>7. call' = [call EXCEPT ![c0] = k]
  BY DEF EnsureWake, Goto, Return, Self
<1>8. /\ call' \in [Contexts -> Calls] /\ call'[c0] = k
      /\ \A c \in Contexts : c # c0 => call'[c] = call[c]
  BY <1>6, <1>7, MoveTyped, Zenon DEF IInv
<1>9. mu' = th
  BY DEF EnsureWake
<1> HIDE DEF c0, k
<1>10. UNCHANGED <<next_id, subscription_topic, entries, options, retirements,
                 gate, retired, provider_subscribed, in_progress, opened,
                 raced, frame, dtor, known, freed, stack, deferred>>
  BY DEF EnsureWake, coreVars, gateVars, providerVars, frameVars
<1>11. TypeOK'
  BY <1>2, <1>3, <1>8, <1>9, <1>10 DEF IInv, TypeOK
<1>12. FrameShape' /\ GateHeld' /\ Listed' /\ LiveNotRetiring' /\
      GoneSilent' /\ FreedSilent' /\ DeferredRetired' /\ FlightOpen'
  BY <1>10, Kept DEF IInv
<1>13. \A j \in Ids : Silent(j) => Silent(j)'
  BY <1>10 DEF Silent, Running
<1>14. CallShape'
  BY <1>0, <1>1, <1>2, <1>3, <1>6, <1>8, <1>10 DEF IInv, CallShape
<1>15. Issued'
  BY <1>0, <1>1, <1>2, <1>6, <1>8, <1>9, <1>10, Zenon DEF IInv, Issued, Live, TypeOK
<1>16. SubscribeOwnId'
  BY <1>0, <1>1, <1>6, <1>8, <1>10 DEF IInv, SubscribeOwnId, Live, Issued
<1>17. CallSilent'
  BY <1>0, <1>1, <1>6, <1>8, <1>10, <1>13, Zenon DEF IInv, CallSilent, CallShape
<1>18. RetiringRetired'
  BY <1>0, <1>1, <1>6, <1>8, <1>10 DEF IInv, RetiringRetired
<1>19. OpenHeld'
  BY <1>0, <1>1, <1>3, <1>6, <1>8, <1>10 DEF IInv, OpenHeld
<1>20. DtorShape'
  BY <1>0, <1>1, <1>5, <1>6, <1>8, <1>10 DEF IInv, DtorShape, Live
<1>21. SlotShape'
  BY <1>0, <1>3, <1>4, <1>6, <1>7, <1>10, SlotShapeKept, Zenon DEF c0
<1>22. MuHeld'
  <2>1. c0 = <<th, 0>> \/ c0 = <<th, 1>>
    BY DEF c0, Ctx
  <2>2. call'[c0].pc = "ensure" /\ mu' = th
    BY <1>1, <1>2, <1>3, <1>4, <1>6, <1>8, <1>9
  <2>. QED
    BY <2>1, <2>2 DEF MuHeld, Slots
<1>. QED
  BY <1>11, <1>12, <1>14, <1>15, <1>16, <1>17, <1>18, <1>19, <1>20,
     <1>21, <1>22 DEF IInv

\* The call sets the in-progress flag and turns to the provider.
LEMMA EnsureEnterInv ==
    ASSUME IInv, NEW th \in Threads, EnsureEnter(th)
    PROVE  IInv'
<1> DEFINE c0 == Ctx(th)
<1> DEFINE k == [call[c0] EXCEPT !.pc = "provider"]
<1>0. ~At(th, "idle") /\ call[c0].pc = "ensure"
  BY DEF EnsureEnter, MustEnterProvider, At, Self
<1>1. c0 \in Contexts /\ call[c0] \in Calls
  BY <1>0, SelfShape
<1>2. call[c0].id \in Ids /\ call[c0].id < next_id
  BY <1>0, SelfShape
<1>3. /\ call[c0].ours => call[c0].topic \in Topics
      /\ call[c0].pc \notin {"retire", "drain"} => call[c0].ours
      /\ call[c0].deferred => call[c0].pc = "decide" /\ frame[th].pc = "running"
  BY <1>0, SelfShape
<1>4. /\ frame[th].pc \in {"none", "running", "peer"}
      /\ call[c0].pc \in {"wait", "woken", "provider", "opened", "failed",
                          "teardown"} => frame[th].pc = "none"
  BY <1>0, SelfShape
<1>5. dtor.pc = "alive"
  BY <1>0, SelfShape
<1>6. frame[th].pc = "none"
  BY <1>1, <1>2, <1>3, <1>4, InsideWhere DEF EnsureEnter, MustEnterProvider, IInv
<1>7. /\ k \in Calls /\ k.pc = "provider" /\ k.id = call[c0].id
      /\ k.topic = call[c0].topic /\ k.ours = call[c0].ours
      /\ k.deferred = call[c0].deferred
  BY <1>1, <1>2, <1>3, <1>4 DEF Calls, CallPCs
<1>8. call' = [call EXCEPT ![c0] = k]
  BY DEF EnsureEnter, Goto, Return, Self
<1>9. /\ call' \in [Contexts -> Calls] /\ call'[c0] = k
      /\ \A c \in Contexts : c # c0 => call'[c] = call[c]
  BY <1>7, <1>8, MoveTyped, Zenon DEF IInv
<1>10. mu' = NoThread /\ in_progress' \in [Topics -> BOOLEAN]
  BY <1>1, <1>2, <1>3, <1>4, Zenon DEF EnsureEnter, IInv, TypeOK
<1> HIDE DEF c0, k
<1>11. UNCHANGED <<next_id, subscription_topic, entries, options, retirements,
                 gate, retired, provider_subscribed, opened, raced, frame,
                 dtor, known, freed, stack, deferred>>
  BY DEF EnsureEnter, coreVars, gateVars, providerVars, frameVars
<1>12. TypeOK'
  BY <1>2, <1>3, <1>6, <1>9, <1>10, <1>11 DEF IInv, TypeOK
<1>13. FrameShape' /\ GateHeld' /\ Listed' /\ LiveNotRetiring' /\
      GoneSilent' /\ FreedSilent' /\ DeferredRetired' /\ FlightOpen'
  BY <1>11, Kept DEF IInv
<1>14. \A j \in Ids : Silent(j) => Silent(j)'
  BY <1>11 DEF Silent, Running
<1>15. CallShape'
  BY <1>0, <1>1, <1>2, <1>3, <1>6, <1>7, <1>9, <1>11 DEF IInv, CallShape
<1>16. Issued'
  BY <1>0, <1>1, <1>2, <1>6, <1>7, <1>9, <1>10, <1>11 DEF IInv, Issued, Live, TypeOK
<1>17. SubscribeOwnId'
  BY <1>0, <1>1, <1>6, <1>7, <1>9, <1>11 DEF IInv, SubscribeOwnId, Live, Issued
<1>18. CallSilent'
  BY <1>0, <1>1, <1>6, <1>7, <1>9, <1>11, <1>14 DEF IInv, CallSilent, CallShape
<1>19. RetiringRetired'
  BY <1>0, <1>1, <1>6, <1>7, <1>9, <1>11 DEF IInv, RetiringRetired
<1>20. OpenHeld'
  BY <1>0, <1>1, <1>3, <1>6, <1>7, <1>9, <1>11 DEF IInv, OpenHeld
<1>21. DtorShape'
  BY <1>0, <1>1, <1>5, <1>6, <1>7, <1>9, <1>11 DEF IInv, DtorShape, Live
<1>22. SlotShape'
  BY <1>0, <1>3, <1>4, <1>6, <1>7, <1>8, <1>11, SlotShapeKept, Zenon DEF c0
<1>23. MuHeld'
  BY <1>10, SubscriberAssumption DEF MuHeld
<1>. QED
  BY <1>12, <1>13, <1>15, <1>16, <1>17, <1>18, <1>19, <1>20, <1>21,
     <1>22, <1>23 DEF IInv

\* The provider has opened the subscription.
LEMMA ProviderOpenInv ==
    ASSUME IInv, NEW th \in Threads, ProviderOpen(th)
    PROVE  IInv'
<1> DEFINE c0 == Ctx(th)
<1> DEFINE k == [call[c0] EXCEPT !.pc = "opened"]
<1>0. ~At(th, "idle") /\ call[c0].pc = "provider"
  BY Zenon DEF ProviderOpen, At, Self
<1>1. c0 \in Contexts /\ call[c0] \in Calls
  BY <1>0, SelfShape
<1>2. call[c0].id \in Ids /\ call[c0].id < next_id
  BY <1>0, SelfShape
<1>3. /\ call[c0].ours => call[c0].topic \in Topics
      /\ call[c0].pc \notin {"retire", "drain"} => call[c0].ours
      /\ call[c0].deferred => call[c0].pc = "decide" /\ frame[th].pc = "running"
  BY <1>0, SelfShape
<1>4. /\ frame[th].pc \in {"none", "running", "peer"}
      /\ call[c0].pc \in {"wait", "woken", "provider", "opened", "failed",
                          "teardown"} => frame[th].pc = "none"
  BY <1>0, SelfShape
<1>5. dtor.pc = "alive"
  BY <1>0, SelfShape
<1>6. /\ k \in Calls /\ k.pc = "opened" /\ k.id = call[c0].id
      /\ k.topic = call[c0].topic /\ k.ours = call[c0].ours
      /\ k.deferred = call[c0].deferred
  BY <1>1, <1>2, <1>3, <1>4 DEF Calls, CallPCs
<1>7. call' = [call EXCEPT ![c0] = k]
  BY DEF ProviderOpen, Goto, Return, Self
<1>8. /\ call' \in [Contexts -> Calls] /\ call'[c0] = k
      /\ \A c \in Contexts : c # c0 => call'[c] = call[c]
  BY <1>6, <1>7, MoveTyped, Zenon DEF IInv
<1>9. opened' = [opened EXCEPT ![call[c0].topic] = TRUE] /\ opened \in [Topics -> BOOLEAN]
  BY DEF ProviderOpen, Self, IInv, TypeOK
<1>10. raced' \in [Topics -> BOOLEAN]
  BY Zenon DEF ProviderOpen, TeardownPending, IInv, TypeOK
<1> HIDE DEF c0, k
<1>11. UNCHANGED <<mu, next_id, subscription_topic, entries, options,
                 retirements, gate, retired, provider_subscribed, in_progress,
                 frame, dtor, known, freed, stack, deferred>>
  BY DEF ProviderOpen, coreVars, gateVars, providerVars, frameVars
<1>12. TypeOK'
  BY <1>2, <1>3, <1>8, <1>9, <1>10, <1>11, Zenon DEF IInv, TypeOK
<1>13. FrameShape' /\ GateHeld' /\ Listed' /\ LiveNotRetiring' /\
      GoneSilent' /\ FreedSilent' /\ DeferredRetired'
  BY <1>11, Kept DEF IInv
<1>14. \A j \in Ids : Silent(j) => Silent(j)'
  BY <1>11 DEF Silent, Running
<1>15. CallShape'
  BY <1>0, <1>1, <1>2, <1>3, <1>6, <1>8, <1>11 DEF IInv, CallShape
<1>16. Issued'
  BY <1>0, <1>1, <1>2, <1>6, <1>8, <1>11, Zenon DEF IInv, Issued, Live, TypeOK
<1>17. SubscribeOwnId'
  BY <1>0, <1>1, <1>6, <1>8, <1>11 DEF IInv, SubscribeOwnId, Live, Issued
<1>18. CallSilent'
  BY <1>0, <1>1, <1>6, <1>8, <1>11, <1>14, Zenon DEF IInv, CallSilent, CallShape
<1>19. RetiringRetired'
  BY <1>0, <1>1, <1>6, <1>8, <1>11 DEF IInv, RetiringRetired
<1>20. FlightOpen'
  BY <1>0, <1>9, <1>11, Zenon DEF IInv, FlightOpen
<1>21. OpenHeld'
  <2>1. \A t \in Topics : t # call[c0].topic => opened'[t] = opened[t]
    BY <1>9
  <2>2. \A c \in Contexts : call[c].pc \in {"opened", "teardown"} =>
            call'[c].pc = call[c].pc /\ call'[c].topic = call[c].topic
    BY <1>0, <1>8
  <2>3. call'[c0].pc = "opened" /\ call'[c0].topic = call[c0].topic
    BY <1>6, <1>8
  <2>. QED
    BY <1>1, <1>11, <2>1, <2>2, <2>3 DEF IInv, OpenHeld
<1>22. DtorShape'
  BY <1>0, <1>1, <1>5, <1>6, <1>8, <1>11 DEF IInv, DtorShape, Live
<1>23. SlotShape'
  BY <1>0, <1>3, <1>4, <1>6, <1>7, <1>11, SlotShapeKept, Zenon DEF c0
<1>24. MuHeld'
  BY <1>0, <1>6, <1>8, <1>11, MuHeldKept
<1>. QED
  BY <1>12, <1>13, <1>15, <1>16, <1>17, <1>18, <1>19, <1>20, <1>21,
     <1>22, <1>23, <1>24 DEF IInv

\* The provider throws.
LEMMA ProviderThrowInv ==
    ASSUME IInv, NEW th \in Threads, ProviderThrow(th)
    PROVE  IInv'
<1> DEFINE c0 == Ctx(th)
<1> DEFINE k == [call[c0] EXCEPT !.pc = "failed"]
<1>0. ~At(th, "idle") /\ call[c0].pc \in {"provider", "opened"}
  BY Zenon DEF ProviderThrow, At, Self
<1>1. c0 \in Contexts /\ call[c0] \in Calls
  BY <1>0, SelfShape
<1>2. call[c0].id \in Ids /\ call[c0].id < next_id
  BY <1>0, SelfShape
<1>3. /\ call[c0].ours => call[c0].topic \in Topics
      /\ call[c0].pc \notin {"retire", "drain"} => call[c0].ours
      /\ call[c0].deferred => call[c0].pc = "decide" /\ frame[th].pc = "running"
  BY <1>0, SelfShape
<1>4. /\ frame[th].pc \in {"none", "running", "peer"}
      /\ call[c0].pc \in {"wait", "woken", "provider", "opened", "failed",
                          "teardown"} => frame[th].pc = "none"
  BY <1>0, SelfShape
<1>5. dtor.pc = "alive"
  BY <1>0, SelfShape
<1>6. /\ k \in Calls /\ k.pc = "failed" /\ k.id = call[c0].id
      /\ k.topic = call[c0].topic /\ k.ours = call[c0].ours
      /\ k.deferred = call[c0].deferred
  BY <1>1, <1>2, <1>3, <1>4 DEF Calls, CallPCs
<1>7. call' = [call EXCEPT ![c0] = k]
  BY DEF ProviderThrow, Goto, Return, Self
<1>8. /\ call' \in [Contexts -> Calls] /\ call'[c0] = k
      /\ \A c \in Contexts : c # c0 => call'[c] = call[c]
  BY <1>6, <1>7, MoveTyped, Zenon DEF IInv
<1>9. /\ opened' = [opened EXCEPT ![call[c0].topic] = @ /\ call[c0].pc = "provider"]
      /\ opened \in [Topics -> BOOLEAN]
  BY DEF ProviderThrow, At, Self, IInv, TypeOK
<1>10. call[c0].pc = "opened" => \A u \in Threads : frame[u].topic # call[c0].topic
  BY DEF ProviderThrow, At, Self, MayTearDown
<1> HIDE DEF c0, k
<1>11. UNCHANGED <<mu, next_id, subscription_topic, entries, options,
                 retirements, gate, retired, provider_subscribed, in_progress,
                 raced, frame, dtor, known, freed, stack, deferred>>
  BY DEF ProviderThrow, coreVars, gateVars, providerVars, frameVars
<1>12. TypeOK'
  BY <1>2, <1>3, <1>8, <1>9, <1>11, Zenon DEF IInv, TypeOK
<1>13. FrameShape' /\ GateHeld' /\ Listed' /\ LiveNotRetiring' /\
      GoneSilent' /\ FreedSilent' /\ DeferredRetired'
  BY <1>11, Kept DEF IInv
<1>14. \A j \in Ids : Silent(j) => Silent(j)'
  BY <1>11 DEF Silent, Running
<1>15. CallShape'
  BY <1>0, <1>1, <1>2, <1>3, <1>6, <1>8, <1>11 DEF IInv, CallShape
<1>16. Issued'
  BY <1>0, <1>1, <1>2, <1>6, <1>8, <1>11, Zenon DEF IInv, Issued, Live, TypeOK
<1>17. SubscribeOwnId'
  BY <1>0, <1>1, <1>6, <1>8, <1>11 DEF IInv, SubscribeOwnId, Live, Issued
<1>18. CallSilent'
  BY <1>0, <1>1, <1>6, <1>8, <1>11, <1>14, Zenon DEF IInv, CallSilent, CallShape
<1>19. RetiringRetired'
  BY <1>0, <1>1, <1>6, <1>8, <1>11 DEF IInv, RetiringRetired
<1>20. FlightOpen'
  BY <1>0, <1>9, <1>10, <1>11, Zenon DEF IInv, FlightOpen
<1>21. OpenHeld'
  <2>1. \A t \in Topics : opened'[t] =>
            opened[t] /\ (t = call[c0].topic => call[c0].pc = "provider")
    BY <1>0, <1>3, <1>9, Zenon
  <2>2. \A t \in Topics, c \in Contexts :
            opened'[t] /\ call[c].pc \in {"opened", "teardown"} /\ call[c].topic = t => c # c0
    BY <2>1
  <2>3. OpenHeld /\ provider_subscribed' = provider_subscribed /\ dtor' = dtor
    BY <1>11 DEF IInv
  <2>. QED
    BY <1>8, <2>1, <2>2, <2>3 DEF OpenHeld
<1>22. DtorShape'
  BY <1>0, <1>1, <1>5, <1>6, <1>8, <1>11 DEF IInv, DtorShape, Live
<1>23. SlotShape'
  BY <1>0, <1>3, <1>4, <1>6, <1>7, <1>11, SlotShapeKept, Zenon DEF c0
<1>24. MuHeld'
  BY <1>0, <1>6, <1>8, <1>11, MuHeldKept
<1>. QED
  BY <1>12, <1>13, <1>15, <1>16, <1>17, <1>18, <1>19, <1>20, <1>21,
     <1>22, <1>23, <1>24 DEF IInv

\* Subscribe returns the subscription.
LEMMA SubscribeReturnInv ==
    ASSUME IInv, NEW th \in Threads, SubscribeReturn(th)
    PROVE  IInv'
<1> DEFINE c0 == Ctx(th)
<1> DEFINE k == NoCall
<1>0. ~At(th, "idle") /\ call[c0].pc = "opened"
  BY DEF SubscribeReturn, At, Self
<1>1. c0 \in Contexts /\ call[c0] \in Calls
  BY <1>0, SelfShape
<1>2. call[c0].id \in Ids /\ call[c0].id < next_id
  BY <1>0, SelfShape
<1>3. /\ call[c0].ours => call[c0].topic \in Topics
      /\ call[c0].pc \notin {"retire", "drain"} => call[c0].ours
      /\ call[c0].deferred => call[c0].pc = "decide" /\ frame[th].pc = "running"
  BY <1>0, SelfShape
<1>4. /\ frame[th].pc \in {"none", "running", "peer"}
      /\ call[c0].pc \in {"wait", "woken", "provider", "opened", "failed",
                          "teardown"} => frame[th].pc = "none"
  BY <1>0, SelfShape
<1>5. dtor.pc = "alive"
  BY <1>0, SelfShape
<1>6. k \in Calls /\ k.pc = "idle" /\ ~k.deferred
  BY NoneTyped DEF NoCall
<1>7. Notified(th, k)
  BY <1>6, NotifyTyped DEF SubscribeReturn, Self, IInv
<1>8. /\ call' \in [Contexts -> Calls] /\ call'[c0] = k
      /\ \A c \in Contexts : c # c0 =>
            /\ \/ call'[c].pc = call[c].pc
               \/ call[c].pc = "wait" /\ call'[c].pc = "woken"
            /\ call'[c].id = call[c].id /\ call'[c].topic = call[c].topic
            /\ call'[c].ours = call[c].ours /\ call'[c].deferred = call[c].deferred
  BY <1>7 DEF Notified
<1>9. /\ mu = NoThread /\ known' = known \cup {call[c0].id}
      /\ in_progress' \in [Topics -> BOOLEAN]
      /\ options' \in [Topics -> Options \cup {NoOptions}]
  BY <1>1, <1>2, <1>3, <1>4, Zenon DEF SubscribeReturn, Self, IInv, TypeOK, Calls
<1>10. /\ provider_subscribed' = [provider_subscribed EXCEPT ![call[c0].topic] = TRUE]
      /\ provider_subscribed \in [Topics -> BOOLEAN]
  BY DEF SubscribeReturn, Self, IInv, TypeOK
<1> HIDE DEF c0, k
<1>11. UNCHANGED <<mu, next_id, subscription_topic, entries, retirements, gate,
                 retired, opened, raced, frame, dtor, freed, stack, deferred>>
  BY DEF SubscribeReturn, coreVars, gateVars, providerVars, frameVars
<1>12. TypeOK'
  BY <1>2, <1>3, <1>8, <1>9, <1>10, <1>11, Zenon DEF IInv, TypeOK
<1>13. FrameShape' /\ GateHeld' /\ Listed' /\ LiveNotRetiring' /\
      GoneSilent' /\ FreedSilent' /\ DeferredRetired' /\ FlightOpen'
  BY <1>11, Kept DEF IInv
<1>14. \A j \in Ids : Silent(j) => Silent(j)'
  BY <1>11, Zenon DEF Silent, Running
<1>15. CallShape'
  BY <1>0, <1>1, <1>2, <1>3, <1>6, <1>8, <1>11 DEF IInv, CallShape
<1>16. Issued'
  BY <1>0, <1>1, <1>2, <1>6, <1>8, <1>9, <1>11 DEF IInv, Issued, Live, TypeOK
<1>17. SubscribeOwnId'
  BY <1>0, <1>1, <1>6, <1>8, <1>11 DEF IInv, SubscribeOwnId, Live, Issued
<1>18. CallSilent'
  <2>1. \A c \in Contexts : call'[c].pc \in {"drain", "release", "teardown", "decide"} =>
            /\ call'[c].pc = call[c].pc /\ call'[c].id = call[c].id
            /\ call'[c].deferred = call[c].deferred /\ call[c].id \in Ids
    BY <1>6, <1>8 DEF IInv, CallShape
  <2>2. CallSilent /\ retired' = retired
    BY <1>11 DEF IInv
  <2>. QED
    BY <1>14, <2>1, <2>2, Zenon DEF CallSilent
<1>19. RetiringRetired'
  BY <1>0, <1>1, <1>6, <1>8, <1>11 DEF IInv, RetiringRetired
<1>20. OpenHeld'
  <2>1. \A t \in Topics : provider_subscribed[t] \/ t = call[c0].topic => provider_subscribed'[t]
    BY <1>0, <1>3, <1>10
  <2>2. \A c \in Contexts : c # c0 /\ call[c].pc \in {"opened", "teardown"} =>
            call'[c].pc = call[c].pc /\ call'[c].topic = call[c].topic
    BY <1>8
  <2>3. ASSUME NEW t \in Topics, opened[t], ~provider_subscribed'[t], t \notin dtor.topics
        PROVE  \E c \in Contexts : call'[c].pc \in {"opened", "teardown"} /\ call'[c].topic = t
    <3>1. ~provider_subscribed[t] /\ t # call[c0].topic
      BY <2>1, <2>3
    <3>2. PICK c \in Contexts : call[c].pc \in {"opened", "teardown"} /\ call[c].topic = t
      BY <2>3, <3>1 DEF IInv, OpenHeld
    <3>3. c # c0
      BY <3>1, <3>2
    <3>. QED
      BY <2>2, <3>2, <3>3
  <2>. QED
    BY <1>11, <2>3 DEF OpenHeld
<1>21. DtorShape'
  BY <1>0, <1>1, <1>5, <1>6, <1>8, <1>10, <1>11 DEF IInv, DtorShape, Live
<1>22. SlotShape'
  BY <1>6, <1>4, <1>7, <1>11, SlotShapeNotified, Zenon
<1>23. MuHeld'
  BY <1>0, <1>6, <1>8, <1>11, MuHeldKept
<1>. QED
  BY <1>12, <1>13, <1>15, <1>16, <1>17, <1>18, <1>19, <1>20, <1>21,
     <1>22, <1>23 DEF IInv

\* After a failure the subscription is taken out of its topic again.
LEMMA SubscribeRollbackInv ==
    ASSUME IInv, NEW th \in Threads, SubscribeRollback(th)
    PROVE  IInv'
<1> DEFINE c0 == Ctx(th)
<1> DEFINE k == IF call[c0].id \in entries[call[c0].topic]
                  THEN [call[c0] EXCEPT !.pc = "retire"] ELSE NoCall
<1>0. ~At(th, "idle") /\ call[c0].pc \in {"rollback", "failed"}
  BY DEF SubscribeRollback, At, Self
<1>1. c0 \in Contexts /\ call[c0] \in Calls
  BY <1>0, SelfShape
<1>2. call[c0].id \in Ids /\ call[c0].id < next_id
  BY <1>0, SelfShape
<1>3. /\ call[c0].ours => call[c0].topic \in Topics
      /\ call[c0].pc \notin {"retire", "drain"} => call[c0].ours
      /\ call[c0].deferred => call[c0].pc = "decide" /\ frame[th].pc = "running"
  BY <1>0, SelfShape
<1>4. /\ frame[th].pc \in {"none", "running", "peer"}
      /\ call[c0].pc \in {"wait", "woken", "provider", "opened", "failed",
                          "teardown"} => frame[th].pc = "none"
  BY <1>0, SelfShape
<1>5. dtor.pc = "alive"
  BY <1>0, SelfShape
<1>6. /\ k \in Calls
      /\ k.pc \in {"idle", "retire"} /\ ~k.deferred
      /\ k.pc = "retire" <=> call[c0].id \in entries[call[c0].topic]
      /\ k.pc = "retire" => k.id = call[c0].id /\ k.topic = call[c0].topic
  <2>1. CASE call[c0].id \in entries[call[c0].topic]
    <3>1. k = [call[c0] EXCEPT !.pc = "retire"]
      BY <2>1
    <3> HIDE DEF k
    <3>. QED
      BY <1>0, <1>1, <1>2, <1>3, <1>4, <2>1, <3>1 DEF Calls, CallPCs
  <2>2. CASE call[c0].id \notin entries[call[c0].topic]
    BY <2>2, NoneTyped DEF NoCall
  <2>. QED
    BY <2>1, <2>2
<1>7. Notified(th, k)
  BY <1>6, NotifyTyped, Zenon DEF SubscribeRollback, Self, IInv
<1>8. /\ call' \in [Contexts -> Calls] /\ call'[c0] = k
      /\ \A c \in Contexts : c # c0 =>
            /\ \/ call'[c].pc = call[c].pc
               \/ call[c].pc = "wait" /\ call'[c].pc = "woken"
            /\ call'[c].id = call[c].id /\ call'[c].topic = call[c].topic
            /\ call'[c].ours = call[c].ours /\ call'[c].deferred = call[c].deferred
  BY <1>7 DEF Notified
<1>9. mu' = NoThread /\ in_progress' \in [Topics -> BOOLEAN]
  BY <1>0, <1>1, <1>2, <1>3, <1>4, Zenon DEF SubscribeRollback, Self, IInv, TypeOK
<1>10. /\ subscription_topic' = [subscription_topic EXCEPT ![call[c0].id] = NoTopic]
      /\ subscription_topic \in [Ids -> Topics \cup {NoTopic}]
  BY DEF SubscribeRollback, Self, IInv, TypeOK
<1>11. /\ entries' = [entries EXCEPT ![call[c0].topic] = @ \ {call[c0].id}]
      /\ entries \in [Topics -> SUBSET Ids]
  BY DEF SubscribeRollback, Self, IInv, TypeOK
<1>12. /\ Live(call[c0].id) <=> call[c0].id \in entries[call[c0].topic]
      /\ \A t \in Topics : call[c0].id \in entries[t] => t = call[c0].topic
  <2>1. \A t \in Topics : call[c0].id \in entries[t] <=> subscription_topic[call[c0].id] = t
    BY <1>2 DEF IInv, Listed
  <2>2. call[c0].topic \in Topics /\ call[c0].topic # NoTopic
    BY <1>0, <1>3, SubscriberAssumption
  <2>3. Live(call[c0].id) => subscription_topic[call[c0].id] = call[c0].topic
    BY <1>0, <1>1 DEF IInv, SubscribeOwnId
  <2>4. Live(call[c0].id) <=> subscription_topic[call[c0].id] # NoTopic
    BY DEF Live
  <2>5. Live(call[c0].id) <=> call[c0].id \in entries[call[c0].topic]
    BY <2>1, <2>2, <2>3, <2>4
  <2>6. ASSUME NEW t \in Topics, call[c0].id \in entries[t] PROVE t = call[c0].topic
    <3>1. subscription_topic[call[c0].id] = t /\ t # NoTopic
      BY <2>1, <2>6, SubscriberAssumption
    <3>. QED
      BY <2>3, <2>4, <3>1
  <2>. QED
    BY <2>5, <2>6
<1>13. retirements' = IF call[c0].id \in entries[call[c0].topic]
                       THEN retirements \cup {call[c0].id} ELSE retirements
  BY DEF SubscribeRollback, Self
<1> HIDE DEF c0, k
<1>14. UNCHANGED <<next_id, options, gate, retired, provider_subscribed, opened,
                 raced, frame, dtor, known, freed, stack, deferred>>
  BY DEF SubscribeRollback, coreVars, gateVars, providerVars, frameVars
<1>15. TypeOK'
  BY <1>2, <1>3, <1>8, <1>9, <1>10, <1>11, <1>12, <1>13, <1>14, Zenon DEF IInv, TypeOK
<1>16. FrameShape' /\ GateHeld' /\ FreedSilent' /\ DeferredRetired' /\
      FlightOpen'
  BY <1>14, Kept DEF IInv
<1>17. \A j \in Ids : Silent(j) => Silent(j)'
  BY <1>14 DEF Silent, Running
<1>18. CallShape'
  <2>1. /\ call'[c0].pc # "idle" => call'[c0].id \in Ids /\ call'[c0].topic \in Topics
        /\ call'[c0].pc \in {"idle", "retire"} /\ ~call'[c0].deferred
    BY <1>0, <1>2, <1>3, <1>6, <1>8
  <2>. QED
    BY <1>8, <2>1 DEF IInv, CallShape
<1>19. Issued'
  BY <1>0, <1>1, <1>2, <1>6, <1>8, <1>10, <1>12, <1>13, <1>14 DEF IInv, Issued, Live, TypeOK
<1>20. Listed'
  <2>1. \A j \in Ids : j # call[c0].id => subscription_topic'[j] = subscription_topic[j]
    BY <1>1, <1>2, <1>3, <1>4, <1>10
  <2>2. \A j \in Ids, t \in Topics :
            j # call[c0].id => (j \in entries'[t] <=> j \in entries[t])
    BY <1>0, <1>1, <1>2, <1>3, <1>4, <1>11
  <2>3. \A t \in Topics : call[c0].id \notin entries'[t]
                           /\ subscription_topic'[call[c0].id] # t
    BY <1>0, <1>1, <1>2, <1>3, <1>4, <1>10, <1>11, <1>12, SubscriberAssumption
  <2>. QED
    BY <2>1, <2>2, <2>3 DEF IInv, Listed
<1>21. LiveNotRetiring'
  BY <1>0, <1>10, <1>12, <1>13, <1>14, SubscriberAssumption DEF IInv, LiveNotRetiring, Live, TypeOK
<1>22. GoneSilent'
  BY <1>0, <1>10, <1>12, <1>13, <1>14, <1>17 DEF IInv, GoneSilent, Live
<1>23. SubscribeOwnId'
  <2>1. \A j \in Ids : Live(j)' => Live(j) /\ subscription_topic'[j] = subscription_topic[j]
    BY <1>2, <1>10 DEF Live
  <2>2. \A c \in Contexts :
            call'[c].pc \notin {"idle", "retire", "drain", "release", "decide", "teardown"} =>
            /\ call[c].pc \notin {"idle", "retire", "drain", "release", "decide", "teardown"}
            /\ call'[c].id = call[c].id /\ call'[c].topic = call[c].topic
            /\ call[c].id \in Ids
    BY <1>6, <1>8 DEF IInv, CallShape
  <2>. QED
    BY <2>1, <2>2 DEF IInv, SubscribeOwnId
<1>24. CallSilent'
  <2>1. \A c \in Contexts : call'[c].pc \in {"drain", "release", "teardown", "decide"} =>
            /\ call'[c].pc = call[c].pc /\ call'[c].id = call[c].id
            /\ call'[c].deferred = call[c].deferred /\ call[c].id \in Ids
    BY <1>6, <1>8 DEF IInv, CallShape
  <2>2. CallSilent /\ retired' = retired
    BY <1>14 DEF IInv
  <2>. QED
    BY <1>17, <2>1, <2>2 DEF CallSilent
<1>25. RetiringRetired'
  <2> SUFFICES ASSUME NEW j \in retirements'
               PROVE  \/ retired[j]
                      \/ \E c \in Contexts : call'[c].pc = "retire" /\ call'[c].id = j
                      \/ j \in dtor.ids
    BY <1>14 DEF RetiringRetired
  <2>1. j \in retirements \/ (j = call[c0].id /\ k.pc = "retire")
    BY <1>6, <1>13
  <2>2. CASE j = call[c0].id /\ k.pc = "retire"
    BY <1>1, <1>2, <1>3, <1>4, <1>6, <1>8, <2>2
  <2>3. \A c \in Contexts : call[c].pc = "retire" =>
                            call'[c].pc = "retire" /\ call'[c].id = call[c].id
    BY <1>0, <1>8
  <2>4. CASE j \in retirements
    BY <1>14, <2>3, <2>4 DEF IInv, RetiringRetired
  <2>. QED
    BY <2>1, <2>2, <2>4
<1>26. OpenHeld'
  <2>1. \A c \in Contexts : call[c].pc \in {"opened", "teardown"} =>
            call'[c].pc = call[c].pc /\ call'[c].topic = call[c].topic
    BY <1>0, <1>8
  <2>. QED
    BY <1>14, <2>1 DEF IInv, OpenHeld
<1>27. DtorShape'
  BY <1>0, <1>1, <1>5, <1>6, <1>8, <1>10, <1>12, <1>14, Zenon DEF IInv, DtorShape, Live
<1>28. SlotShape'
  BY <1>6, <1>4, <1>7, <1>14, SlotShapeNotified, Zenon
<1>29. MuHeld'
  BY <1>9, SubscriberAssumption DEF MuHeld
<1>. QED
  BY <1>15, <1>16, <1>18, <1>19, <1>20, <1>21, <1>22, <1>23, <1>24,
     <1>25, <1>26, <1>27, <1>28, <1>29 DEF IInv

\* The rolled-back id leaves the retirements, and the exception goes on.
LEMMA RollbackReleaseInv ==
    ASSUME IInv, NEW th \in Threads, RollbackRelease(th)
    PROVE  IInv'
<1> DEFINE c0 == Ctx(th)
<1> DEFINE k == NoCall
<1>0. ~At(th, "idle") /\ call[c0].pc = "release"
  BY DEF RollbackRelease, At, Self
<1>1. c0 \in Contexts /\ call[c0] \in Calls
  BY <1>0, SelfShape
<1>2. call[c0].id \in Ids /\ call[c0].id < next_id
  BY <1>0, SelfShape
<1>3. /\ call[c0].ours => call[c0].topic \in Topics
      /\ call[c0].pc \notin {"retire", "drain"} => call[c0].ours
      /\ call[c0].deferred => call[c0].pc = "decide" /\ frame[th].pc = "running"
  BY <1>0, SelfShape
<1>4. /\ frame[th].pc \in {"none", "running", "peer"}
      /\ call[c0].pc \in {"wait", "woken", "provider", "opened", "failed",
                          "teardown"} => frame[th].pc = "none"
  BY <1>0, SelfShape
<1>5. dtor.pc = "alive"
  BY <1>0, SelfShape
<1>6. k \in Calls /\ k.pc = "idle" /\ ~k.deferred
  BY NoneTyped DEF NoCall
<1>7. call' = [call EXCEPT ![c0] = k]
  BY DEF RollbackRelease, Goto, Return, Self
<1>8. /\ call' \in [Contexts -> Calls] /\ call'[c0] = k
      /\ \A c \in Contexts : c # c0 => call'[c] = call[c]
  BY <1>6, <1>7, MoveTyped, Zenon DEF IInv
<1>9. retirements' = retirements \ {call[c0].id}
  BY DEF RollbackRelease, Self
<1>10. Silent(call[c0].id)
  BY <1>0, <1>1, <1>2, <1>3, <1>4, Zenon DEF IInv, CallSilent
<1>11. freed' \in SUBSET Ids /\ \A j \in freed' : Silent(j)
  <2>1. freed' \in SUBSET (freed \cup {call[c0].id})
    BY DEF RollbackRelease, MayFree, Self
  <2>2. freed \in SUBSET Ids /\ \A j \in freed : Silent(j)
    BY DEF IInv, TypeOK, FreedSilent
  <2>. QED
    BY <1>2, <1>10, <2>1, <2>2
<1> HIDE DEF c0, k
<1>12. UNCHANGED <<mu, next_id, subscription_topic, entries, options, gate,
                 retired, provider_subscribed, in_progress, opened, raced,
                 frame, dtor, known, stack, deferred>>
  BY DEF RollbackRelease, coreVars, gateVars, providerVars, frameVars
<1>13. TypeOK'
  BY <1>2, <1>3, <1>8, <1>9, <1>11, <1>12 DEF IInv, TypeOK
<1>14. FrameShape' /\ GateHeld' /\ Listed' /\ DeferredRetired' /\
      FlightOpen'
  BY <1>12, Kept DEF IInv
<1>15. \A j \in Ids : Silent(j) => Silent(j)'
  BY <1>12 DEF Silent, Running
<1>16. CallShape'
  BY <1>0, <1>1, <1>2, <1>3, <1>6, <1>8, <1>12 DEF IInv, CallShape
<1>17. Issued'
  BY <1>0, <1>1, <1>2, <1>6, <1>8, <1>9, <1>12, Zenon DEF IInv, Issued, Live, TypeOK
<1>18. LiveNotRetiring'
  BY <1>0, <1>9, <1>12, SubscriberAssumption DEF IInv, LiveNotRetiring, Live, TypeOK
<1>19. GoneSilent'
  BY <1>0, <1>9, <1>10, <1>12, <1>15, Zenon DEF IInv, GoneSilent, Live
<1>20. SubscribeOwnId'
  BY <1>0, <1>1, <1>6, <1>8, <1>12, Zenon DEF IInv, SubscribeOwnId, Live, Issued
<1>21. FreedSilent'
  BY <1>11, <1>15 DEF FreedSilent
<1>22. CallSilent'
  BY <1>0, <1>1, <1>6, <1>8, <1>12, <1>15, Zenon DEF IInv, CallSilent, CallShape
<1>23. RetiringRetired'
  BY <1>0, <1>1, <1>6, <1>8, <1>9, <1>12 DEF IInv, RetiringRetired
<1>24. OpenHeld'
  BY <1>0, <1>1, <1>3, <1>6, <1>8, <1>12 DEF IInv, OpenHeld
<1>25. DtorShape'
  BY <1>0, <1>1, <1>5, <1>6, <1>8, <1>12, Zenon DEF IInv, DtorShape, Live
<1>26. SlotShape'
  BY <1>0, <1>3, <1>4, <1>6, <1>7, <1>12, SlotShapeKept, Zenon DEF c0
<1>27. MuHeld'
  BY <1>0, <1>6, <1>8, <1>12, MuHeldKept, Zenon
<1>. QED
  BY <1>13, <1>14, <1>16, <1>17, <1>18, <1>19, <1>20, <1>21, <1>22,
     <1>23, <1>24, <1>25, <1>26, <1>27 DEF IInv

-----------------------------------------------------------------------------
(* What the Subscriber and its provider know of each other. *)

\* A first Subscribe between the two sections of EnsureProviderSubscription.
Entering == {"provider", "opened", "failed"}
AtProvider == Entering \cup {"teardown"}
Cancelling == {"retire", "drain", "release", "decide", "teardown"}

\* Call c is a first Subscribe of topic t at the provider.
Enters(c, t) == call[c].pc \in Entering /\ call[c].topic = t

\* The flags of topic t, the calls inside the provider and the provider.
TopicSide(t) ==
    /\ \A c, d \in Contexts : Enters(c, t) /\ Enters(d, t) => c = d
    /\ in_progress[t] <=> \E c \in Contexts : Enters(c, t)
    /\ provider_subscribed[t] => /\ raced[t] \/ opened[t]
                                 /\ TeardownPending(t) => raced[t]
    /\ \A c \in Contexts : Enters(c, t) =>
          /\ ~provider_subscribed[t]
          /\ call[c].pc = "opened" => /\ raced[t] \/ opened[t]
                                      /\ TeardownPending(t) => raced[t]
          /\ call[c].pc = "provider" /\ opened[t] => TeardownPending(t)

ProviderSide == \A t \in Topics : TopicSide(t)

\* The live ids, the calls about them and the topics they are served by.
LiveSide ==
    /\ \A c \in Contexts : call[c].pc = "idle" => call[c].op = "none"
    /\ \A c \in Contexts : call[c].pc \in Cancelling => ~Live(call[c].id)
    /\ LiveIsServed

Agrees == ProviderSide /\ LiveSide

-----------------------------------------------------------------------------
(* How calls move *)

\* The call of th becomes k; calls that wait may be woken by it.
MovesTo(th, k) ==
    /\ call'[Ctx(th)] = k
    /\ \A c \in Contexts : c # Ctx(th) =>
           /\ \/ call'[c].pc = call[c].pc
              \/ call[c].pc = "wait" /\ call'[c].pc = "woken"
           /\ call'[c].op = call[c].op /\ call'[c].id = call[c].id
           /\ call'[c].topic = call[c].topic

\* An update of the call map, with and without notify_all, is such a move.
LEMMA MovesTyped ==
    ASSUME TypeOK, NEW th \in Threads, NEW k \in Calls,
           \/ call' = [call EXCEPT ![Ctx(th)] = k]
           \/ k.pc # "wait" /\ call' = NotifyAll([call EXCEPT ![Ctx(th)] = k])
    PROVE  MovesTo(th, k)
<1> DEFINE d == [call EXCEPT ![Ctx(th)] = k]
<1>0. Ctx(th) \in Contexts /\ call \in [Contexts -> Calls] /\ d \in [Contexts -> Calls]
  BY CtxTyped DEF TypeOK
<1>1. d[Ctx(th)] = k /\ \A c \in Contexts : c # Ctx(th) => d[c] = call[c]
  BY <1>0
<1> HIDE DEF d
<1>2. CASE call' = d
  BY <1>0, <1>1, <1>2 DEF MovesTo
<1>3. CASE k.pc # "wait" /\ call' = NotifyAll(d)
  <2>1. \A x \in Contexts : d[x] \in Calls
    BY <1>0
  <2>3. \A x \in Contexts : d[x].pc # "wait" => call'[x] = d[x]
    BY <1>3 DEF NotifyAll
  <2>4. \A x \in Contexts : d[x].pc = "wait" => call'[x] = [d[x] EXCEPT !.pc = "woken"]
    BY <1>3 DEF NotifyAll
  <2>5. \A x \in Contexts : d[x].pc = "wait" =>
            /\ call'[x].pc = "woken" /\ call'[x].id = d[x].id
            /\ call'[x].topic = d[x].topic /\ call'[x].op = d[x].op
    BY <2>1, <2>4, Zenon DEF Calls
  <2>. QED
    BY <1>0, <1>1, <1>3, <2>3, <2>5 DEF MovesTo
<1>. QED
  BY <1>2, <1>3 DEF d

\* A call that goes on is the same call at another step.
LEMMA GotoMoves ==
    ASSUME IInv, NEW th \in Threads, NEW pc \in CallPCs, Goto(th, pc)
    PROVE  \E k \in Calls : /\ MovesTo(th, k) /\ k.pc = pc
                            /\ k.op = call[Ctx(th)].op /\ k.id = call[Ctx(th)].id
                            /\ k.topic = call[Ctx(th)].topic
<1> DEFINE k == [Self(th) EXCEPT !.pc = pc]
<1>1. call' = [call EXCEPT ![Ctx(th)] = k] /\ k \in Calls
  BY GotoTyped DEF IInv
<1>2. Self(th) \in Calls
  BY CtxTyped DEF IInv, TypeOK, Self
<1>3. /\ k.pc = pc /\ k.op = call[Ctx(th)].op /\ k.id = call[Ctx(th)].id
      /\ k.topic = call[Ctx(th)].topic
  BY <1>2 DEF Calls, Self
<1> HIDE DEF k
<1>4. MovesTo(th, k)
  BY <1>1, MovesTyped DEF IInv
<1>. QED
  BY <1>1, <1>3, <1>4

\* A call that returns leaves its slot empty.
LEMMA ReturnMoves ==
    ASSUME IInv, NEW th \in Threads, Return(th)
    PROVE  MovesTo(th, NoCall) /\ NoCall \in Calls /\ NoCall.pc = "idle" /\ NoCall.op = "none"
<1>1. NoCall \in Calls /\ NoCall.pc = "idle" /\ NoCall.op = "none"
  BY NoneTyped DEF NoCall
<1>. QED
  BY <1>1, MovesTyped DEF IInv, Return

-----------------------------------------------------------------------------
(* Steps outside the provider *)

\* TopicSide(t) depends on the calls for t at the provider only.
LEMMA TopicSideKept ==
    ASSUME NEW t \in Topics, TopicSide(t),
           provider_subscribed'[t] = provider_subscribed[t],
           in_progress'[t] = in_progress[t], opened'[t] = opened[t], raced'[t] = raced[t],
           \A c \in Contexts :
               \/ call[c].pc \in AtProvider /\ call[c].topic = t
               \/ call'[c].pc \in AtProvider /\ call'[c].topic = t
               => call'[c].pc = call[c].pc /\ call'[c].topic = call[c].topic
    PROVE  TopicSide(t)'
<1>1. \A c \in Contexts : /\ Enters(c, t)' <=> Enters(c, t)
                          /\ Enters(c, t) => call'[c].pc = call[c].pc
  BY DEF Enters, AtProvider
<1>2. TeardownPending(t)' <=> TeardownPending(t)
  BY DEF AtProvider, TeardownPending
<1>. QED
  BY <1>1, <1>2 DEF TopicSide

\* A move to k, on other topics than t.
LEMMA TopicSideElsewhere ==
    ASSUME NEW t \in Topics, TopicSide(t), NEW th \in Threads, NEW k, MovesTo(th, k),
           provider_subscribed'[t] = provider_subscribed[t],
           in_progress'[t] = in_progress[t], opened'[t] = opened[t], raced'[t] = raced[t],
           call[Ctx(th)].pc \notin AtProvider \/ call[Ctx(th)].topic # t,
           k.pc \notin AtProvider \/ k.topic # t
    PROVE  TopicSide(t)'
<1>1. \A c \in Contexts :
          \/ call[c].pc \in AtProvider /\ call[c].topic = t
          \/ call'[c].pc \in AtProvider /\ call'[c].topic = t
          => call'[c].pc = call[c].pc /\ call'[c].topic = call[c].topic
  BY DEF MovesTo, AtProvider, Entering
<1>. QED
  BY <1>1, TopicSideKept

\* A move to k away from the provider.
LEMMA ProviderSideMoved ==
    ASSUME ProviderSide, NEW th \in Threads, NEW k, MovesTo(th, k),
           call[Ctx(th)].pc \notin AtProvider, k.pc \notin AtProvider,
           UNCHANGED <<provider_subscribed, in_progress, opened, raced>>
    PROVE  ProviderSide'
BY TopicSideElsewhere DEF ProviderSide

\* A move to k that takes no id into or out of the live map.
LEMMA LiveSideMoved ==
    ASSUME TypeOK, LiveSide, NEW th \in Threads, NEW k, MovesTo(th, k),
           subscription_topic' = subscription_topic,
           \A t \in Topics : provider_subscribed[t] => provider_subscribed'[t],
           k.pc = "idle" => k.op = "none",
           k.pc \in Cancelling => ~Live(k.id),
           Live(call[Ctx(th)].id) /\ call[Ctx(th)].op = "subscribe" =>
               \/ k.op = "subscribe" /\ k.id = call[Ctx(th)].id
               \/ provider_subscribed'[subscription_topic[call[Ctx(th)].id]]
    PROVE  LiveSide'
<1>0. Ctx(th) \in Contexts
  BY CtxTyped
<1>1. \A i : Live(i)' <=> Live(i)
  BY DEF Live
<1>2. \A c \in Contexts : call'[c].pc = "idle" => call'[c].op = "none"
  BY DEF LiveSide, MovesTo
<1>3. \A c \in Contexts : call'[c].pc \in Cancelling => ~Live(call'[c].id)
  BY DEF LiveSide, MovesTo, Cancelling
<1>4. ASSUME NEW i \in Ids, Live(i)
      PROVE  \/ provider_subscribed'[subscription_topic[i]]
             \/ \E c \in Contexts : call'[c].op = "subscribe" /\ call'[c].id = i
  <2>1. subscription_topic[i] \in Topics
    BY <1>4 DEF TypeOK, Live
  <2>2. CASE provider_subscribed[subscription_topic[i]]
    BY <2>1, <2>2
  <2>3. CASE \E c \in Contexts : call[c].op = "subscribe" /\ call[c].id = i
    <3>1. PICK c \in Contexts : call[c].op = "subscribe" /\ call[c].id = i
      BY <2>3
    <3>2. CASE c = Ctx(th)
      BY <1>0, <1>4, <3>1, <3>2 DEF MovesTo
    <3>3. CASE c # Ctx(th)
      BY <3>1, <3>3 DEF MovesTo
    <3>. QED
      BY <3>2, <3>3
  <2>. QED
    BY <1>4, <2>2, <2>3 DEF LiveSide, LiveIsServed
<1>5. LiveIsServed'
  BY <1>1, <1>4 DEF LiveIsServed
<1>. QED
  BY <1>1, <1>2, <1>3, <1>5 DEF LiveSide, Live

\* Steps that touch none of what Agrees speaks of: the deliveries, and the
\* destructor's waits.
LEMMA AgreesKept ==
    ASSUME Agrees, UNCHANGED <<provider_subscribed, in_progress, opened, raced, call,
                               subscription_topic>>
    PROVE  Agrees'
<1>1. ProviderSide'
  BY TopicSideKept DEF Agrees, ProviderSide
<1>2. LiveSide'
  BY DEF Agrees, LiveSide, LiveIsServed, Live
<1>. QED
  BY <1>1, <1>2 DEF Agrees

-----------------------------------------------------------------------------
(* Subscribe *)

\* The new id is served by the call that subscribes it.
LEMMA SubscribeInsertAgrees ==
    ASSUME IInv, Agrees, NEW th \in Threads, NEW t \in Topics,
           NEW o \in Options \cup {NoOptions}, SubscribeInsert(th, t, o)
    PROVE  Agrees'
<1> DEFINE k == [NoCall EXCEPT !.op = "subscribe", !.pc = "ensure", !.id = next_id,
                               !.topic = t, !.options = o, !.ours = TRUE]
<1>1. /\ next_id \in Ids /\ call' = [call EXCEPT ![Ctx(th)] = k]
      /\ subscription_topic' = [subscription_topic EXCEPT ![next_id] = t]
      /\ UNCHANGED <<provider_subscribed, in_progress, opened, raced>>
  BY DEF SubscribeInsert, providerVars
<1>2. k \in Calls /\ k.pc = "ensure" /\ k.op = "subscribe" /\ k.id = next_id
  BY <1>1 DEF NoCall, Calls, CallPCs
<1>3. Ctx(th) \in Contexts /\ call[Ctx(th)].pc = "idle"
  BY CanCallShape DEF SubscribeInsert
<1> HIDE DEF k
<1>4. MovesTo(th, k)
  BY <1>1, <1>2, MovesTyped DEF IInv
<1>5. ProviderSide'
  BY <1>1, <1>2, <1>3, <1>4, ProviderSideMoved DEF Agrees, AtProvider, Entering
<1>6. \A i \in Ids : i # next_id => /\ subscription_topic'[i] = subscription_topic[i]
                                    /\ Live(i)' <=> Live(i)
  BY <1>1 DEF IInv, TypeOK, Live
<1>7. \A c \in Contexts : call'[c].pc = "idle" => call'[c].op = "none"
  BY <1>2, <1>4 DEF Agrees, LiveSide, MovesTo
<1>8. ASSUME NEW c \in Contexts, call'[c].pc \in Cancelling
      PROVE  subscription_topic'[call'[c].id] = NoTopic
  <2>1. c # Ctx(th)
    BY <1>2, <1>4, <1>8 DEF MovesTo, Cancelling
  <2>2. call[c].pc = call'[c].pc /\ call'[c].id = call[c].id
    BY <1>4, <1>8, <2>1 DEF MovesTo, Cancelling
  <2>3. call[c].pc # "idle" /\ ~Live(call[c].id)
    BY <1>8, <2>2 DEF Cancelling, Agrees, LiveSide
  <2>4. call[c].id \in Ids /\ call[c].id # next_id
    <3>1. call[c].id \in Ids /\ call[c].id < next_id
      BY <2>3 DEF IInv, CallShape, Issued
    <3>. QED
      BY <1>1, <3>1 DEF Ids
  <2>. QED
    BY <1>6, <2>2, <2>3, <2>4 DEF Live
<1>9. ASSUME NEW i \in Ids, Live(i)'
      PROVE  \/ provider_subscribed'[subscription_topic'[i]]
             \/ \E c \in Contexts : call'[c].op = "subscribe" /\ call'[c].id = i
  <2>1. CASE i = next_id
    BY <1>2, <1>3, <1>4, <2>1 DEF MovesTo
  <2>2. CASE i # next_id
    <3>1. \/ provider_subscribed[subscription_topic[i]]
          \/ \E c \in Contexts : call[c].op = "subscribe" /\ call[c].id = i
      BY <1>6, <1>9, <2>2 DEF Agrees, LiveSide, LiveIsServed
    <3>2. \A c \in Contexts : call[c].op = "subscribe" => c # Ctx(th)
      BY <1>3 DEF Agrees, LiveSide
    <3>3. \A c \in Contexts : c # Ctx(th) => call'[c].op = call[c].op /\ call'[c].id = call[c].id
      BY <1>4 DEF MovesTo
    <3>4. /\ subscription_topic'[i] = subscription_topic[i]
          /\ provider_subscribed' = provider_subscribed
      BY <1>1, <1>6, <2>2
    <3>. QED
      BY <3>1, <3>2, <3>3, <3>4
  <2>. QED
    BY <2>1, <2>2
<1>10. LiveSide'
  BY <1>7, <1>8, <1>9 DEF LiveSide, LiveIsServed, Live
<1>. QED
  BY <1>5, <1>10 DEF Agrees

\* A call that joins leaves its id to the topic's subscription.
LEMMA EnsureJoinAgrees ==
    ASSUME IInv, Agrees, NEW th \in Threads, EnsureJoin(th)
    PROVE  Agrees'
<1>1. /\ call[Ctx(th)].pc = "ensure" /\ provider_subscribed[call[Ctx(th)].topic]
      /\ Return(th)
      /\ UNCHANGED <<provider_subscribed, in_progress, opened, raced, subscription_topic>>
  BY DEF EnsureJoin, At, Self, providerVars, coreVars
<1>2. MovesTo(th, NoCall) /\ NoCall.pc = "idle" /\ NoCall.op = "none"
  BY <1>1, ReturnMoves
<1>3. ProviderSide'
  BY <1>1, <1>2, ProviderSideMoved DEF Agrees, AtProvider, Entering
<1>4. Live(call[Ctx(th)].id) => subscription_topic[call[Ctx(th)].id] = call[Ctx(th)].topic
  BY <1>1, CtxTyped DEF IInv, SubscribeOwnId
<1>5. LiveSide'
  BY <1>1, <1>2, <1>4, LiveSideMoved DEF IInv, Agrees, Cancelling
<1>. QED
  BY <1>3, <1>5 DEF Agrees

\* Steps of a Subscribe before the provider and of a cancellation up to the
\* gate: the call goes on.
LEMMA GoesOnAgrees ==
    ASSUME IInv, Agrees, NEW th \in Threads,
           EnsureRefuse(th) \/ EnsureWait(th) \/ EnsureWake(th) \/ Retire(th)
    PROVE  Agrees'
<1>1. UNCHANGED <<provider_subscribed, in_progress, opened, raced, subscription_topic>>
  BY DEF EnsureRefuse, EnsureWait, EnsureWake, Retire, providerVars, coreVars
<1>2. PICK pc \in {"rollback", "wait", "ensure", "drain"} :
          /\ Goto(th, pc) /\ call[Ctx(th)].pc \in {"ensure", "woken", "retire"}
          /\ pc = "drain" => call[Ctx(th)].pc = "retire"
  BY DEF EnsureRefuse, EnsureWait, EnsureWake, Retire, MustEnterProvider, At, Self
<1>3. PICK k \in Calls : /\ MovesTo(th, k) /\ k.pc = pc
                         /\ k.op = call[Ctx(th)].op /\ k.id = call[Ctx(th)].id
                         /\ k.topic = call[Ctx(th)].topic
  <2>1. pc \in CallPCs
    BY DEF CallPCs
  <2>. QED
    BY <1>2, <2>1, GotoMoves
<1>4. ProviderSide'
  BY <1>1, <1>2, <1>3, ProviderSideMoved DEF Agrees, AtProvider, Entering
<1>5. k.pc \in Cancelling => ~Live(k.id)
  BY <1>2, <1>3, CtxTyped DEF Agrees, LiveSide, Cancelling
<1>6. LiveSide'
  BY <1>1, <1>2, <1>3, <1>5, LiveSideMoved DEF IInv, Agrees
<1>. QED
  BY <1>4, <1>6 DEF Agrees

\* The topic of a call at the provider.
LEMMA TopicOfCall ==
    ASSUME IInv, NEW c \in Contexts, call[c].pc \in AtProvider
    PROVE  call[c].topic \in Topics /\ dtor.topics = {}
BY DEF IInv, CallShape, DtorShape, AtProvider, Entering

\* The first Subscribe enters the provider, over nothing but a teardown.
LEMMA EnsureEnterAgrees ==
    ASSUME IInv, Agrees, NEW th \in Threads, EnsureEnter(th)
    PROVE  Agrees'
<1> PICK c0 \in Contexts : c0 = Ctx(th)
  BY CtxTyped
<1> PICK t : t = call[c0].topic
  OBVIOUS
<1>1. /\ call[c0].pc = "ensure" /\ ~provider_subscribed[t] /\ ~in_progress[t]
      /\ in_progress' = [in_progress EXCEPT ![t] = TRUE] /\ Goto(th, "provider")
      /\ UNCHANGED <<provider_subscribed, opened, raced, subscription_topic>>
  BY DEF EnsureEnter, MustEnterProvider, FirstSubscribe, At, Self, coreVars
<1>2. c0 \in Contexts /\ t \in Topics /\ dtor.topics = {}
  BY <1>1, CtxTyped DEF IInv, CallShape, DtorShape
<1>3. PICK k \in Calls : /\ MovesTo(th, k) /\ k.pc = "provider"
                         /\ k.op = call[c0].op /\ k.id = call[c0].id /\ k.topic = t
  <2>1. "provider" \in CallPCs
    BY DEF CallPCs
  <2>. QED
    BY <1>1, <2>1, GotoMoves
<1>4. /\ in_progress'[t] /\ \A u \in Topics : u # t => in_progress'[u] = in_progress[u]
  BY <1>1, <1>2 DEF IInv, TypeOK
<1>5. /\ call'[c0].pc = "provider" /\ call'[c0].topic = t
      /\ \A c \in Contexts : c # c0 => (Enters(c, t)' <=> Enters(c, t))
      /\ TeardownPending(t)' <=> TeardownPending(t)
  <2>1. call'[c0].pc = "provider" /\ call'[c0].topic = t
    BY <1>3 DEF MovesTo
  <2>2. \A c \in Contexts : c # c0 => (Enters(c, t)' <=> Enters(c, t))
    BY <1>3 DEF MovesTo, Enters, Entering
  <2>3. TeardownPending(t)' <=> TeardownPending(t)
    BY <1>1, <1>2, <1>3, <2>1 DEF MovesTo, TeardownPending
  <2>. QED
    BY <2>1, <2>2, <2>3
<1>6. TopicSide(t) /\ \A c \in Contexts : ~Enters(c, t)
  BY <1>1, <1>2 DEF Agrees, ProviderSide, TopicSide
<1>7. opened[t] => TeardownPending(t)
  BY <1>1, <1>2, <1>6 DEF IInv, OpenHeld, TeardownPending, Enters, Entering
<1>8. TopicSide(t)'
  <2>1. Enters(c0, t)' /\ \A c \in Contexts : Enters(c, t)' => c = c0
    BY <1>5, <1>6 DEF Enters, Entering
  <2>. QED
    BY <1>1, <1>2, <1>4, <1>5, <1>6, <1>7, <2>1 DEF TopicSide
<1>9. ProviderSide'
  <2>1. ASSUME NEW u \in Topics, u # t PROVE TopicSide(u)'
    <3>1. call[Ctx(th)].topic = t /\ TopicSide(u)
      BY DEF Agrees, ProviderSide
    <3>. QED
      BY <1>1, <1>3, <1>4, <2>1, <3>1, TopicSideElsewhere
  <2>. QED
    BY <1>8, <2>1 DEF ProviderSide
<1>10. LiveSide'
  BY <1>1, <1>3, LiveSideMoved DEF IInv, Agrees, Cancelling
<1>. QED
  BY <1>9, <1>10 DEF Agrees

\* The provider opens the topic, possibly before a teardown of it.
LEMMA ProviderOpenAgrees ==
    ASSUME IInv, Agrees, NEW th \in Threads, ProviderOpen(th)
    PROVE  Agrees'
<1> PICK c0 \in Contexts : c0 = Ctx(th)
  BY CtxTyped
<1> PICK t : t = call[c0].topic
  OBVIOUS
<1>1. /\ call[c0].pc = "provider" /\ Goto(th, "opened")
      /\ opened' = [opened EXCEPT ![t] = TRUE]
      /\ raced' = [raced EXCEPT ![t] = TeardownPending(t)]
      /\ UNCHANGED <<provider_subscribed, in_progress, subscription_topic>>
  BY DEF ProviderOpen, At, Self, coreVars
<1>2. c0 \in Contexts /\ t \in Topics
  BY <1>1, CtxTyped, TopicOfCall DEF AtProvider, Entering
<1>3. PICK k \in Calls : /\ MovesTo(th, k) /\ k.pc = "opened"
                         /\ k.op = call[c0].op /\ k.id = call[c0].id /\ k.topic = t
  <2>1. "opened" \in CallPCs
    BY DEF CallPCs
  <2>. QED
    BY <1>1, <2>1, GotoMoves
<1>4. /\ opened'[t] /\ raced'[t] = TeardownPending(t)
      /\ \A u \in Topics : u # t => opened'[u] = opened[u] /\ raced'[u] = raced[u]
  BY <1>1, <1>2 DEF IInv, TypeOK
<1>5. /\ Enters(c0, t) /\ Enters(c0, t)' /\ call'[c0].pc = "opened"
      /\ \A c \in Contexts : c # c0 => (Enters(c, t)' <=> Enters(c, t))
      /\ TeardownPending(t)' <=> TeardownPending(t)
  <2>1. call'[c0].pc = "opened" /\ call'[c0].topic = t /\ call[c0].topic = t
    BY <1>3 DEF MovesTo
  <2>2. \A c \in Contexts : c # c0 => (Enters(c, t)' <=> Enters(c, t))
    BY <1>3 DEF MovesTo, Enters, Entering
  <2>3. TeardownPending(t)' <=> TeardownPending(t)
    BY <1>1, <1>2, <1>3, <2>1 DEF MovesTo, TeardownPending
  <2>. QED
    BY <1>1, <2>1, <2>2, <2>3 DEF Enters, Entering
<1>6. TopicSide(t)
  BY <1>2 DEF Agrees, ProviderSide
<1>7. TopicSide(t)'
  <2>1. \A c \in Contexts : Enters(c, t)' <=> c = c0
    BY <1>2, <1>5, <1>6 DEF TopicSide
  <2>2. in_progress[t] /\ ~provider_subscribed[t]
    BY <1>2, <1>5, <1>6 DEF TopicSide
  <2>. QED
    BY <1>1, <1>2, <1>4, <1>5, <2>1, <2>2 DEF TopicSide
<1>8. ProviderSide'
  <2>1. ASSUME NEW u \in Topics, u # t PROVE TopicSide(u)'
    <3>1. call[Ctx(th)].topic = t /\ TopicSide(u)
      BY DEF Agrees, ProviderSide
    <3>. QED
      BY <1>1, <1>3, <1>4, <2>1, <3>1, TopicSideElsewhere
  <2>. QED
    BY <1>7, <2>1 DEF ProviderSide
<1>9. LiveSide'
  BY <1>1, <1>3, LiveSideMoved DEF IInv, Agrees, Cancelling
<1>. QED
  BY <1>8, <1>9 DEF Agrees

\* The provider throws: its channel, if this call opened it, is closed again.
LEMMA ProviderThrowAgrees ==
    ASSUME IInv, Agrees, NEW th \in Threads, ProviderThrow(th)
    PROVE  Agrees'
<1> PICK c0 \in Contexts : c0 = Ctx(th)
  BY CtxTyped
<1> PICK t : t = call[c0].topic
  OBVIOUS
<1>1. /\ call[c0].pc \in {"provider", "opened"} /\ Goto(th, "failed")
      /\ opened' = [opened EXCEPT ![t] = opened[t] /\ At(th, "provider")]
      /\ UNCHANGED <<provider_subscribed, in_progress, raced, subscription_topic>>
  BY DEF ProviderThrow, At, Self, coreVars
<1>2. c0 \in Contexts /\ t \in Topics
  BY <1>1, CtxTyped, TopicOfCall DEF AtProvider, Entering
<1>3. PICK k \in Calls : /\ MovesTo(th, k) /\ k.pc = "failed"
                         /\ k.op = call[c0].op /\ k.id = call[c0].id /\ k.topic = t
  <2>1. "failed" \in CallPCs
    BY DEF CallPCs
  <2>. QED
    BY <1>1, <2>1, GotoMoves
<1>4. \A u \in Topics : u # t => opened'[u] = opened[u]
  BY <1>1, <1>2 DEF IInv, TypeOK
<1>5. /\ Enters(c0, t) /\ Enters(c0, t)' /\ call'[c0].pc = "failed"
      /\ \A c \in Contexts : c # c0 => (Enters(c, t)' <=> Enters(c, t))
  <2>1. call'[c0].pc = "failed" /\ call'[c0].topic = t /\ call[c0].topic = t
    BY <1>3 DEF MovesTo
  <2>2. \A c \in Contexts : c # c0 => (Enters(c, t)' <=> Enters(c, t))
    BY <1>3 DEF MovesTo, Enters, Entering
  <2>. QED
    BY <1>1, <2>1, <2>2 DEF Enters, Entering
<1>6. TopicSide(t)
  BY <1>2 DEF Agrees, ProviderSide
<1>7. TopicSide(t)'
  <2>1. \A c \in Contexts : Enters(c, t)' <=> c = c0
    BY <1>2, <1>5, <1>6 DEF TopicSide
  <2>2. in_progress[t] /\ ~provider_subscribed[t]
    BY <1>2, <1>5, <1>6 DEF TopicSide
  <2>. QED
    BY <1>1, <1>2, <1>5, <2>1, <2>2 DEF TopicSide
<1>8. ProviderSide'
  <2>1. ASSUME NEW u \in Topics, u # t PROVE TopicSide(u)'
    <3>1. call[Ctx(th)].topic = t /\ TopicSide(u)
      BY DEF Agrees, ProviderSide
    <3>. QED
      BY <1>1, <1>3, <1>4, <2>1, <3>1, TopicSideElsewhere
  <2>. QED
    BY <1>7, <2>1 DEF ProviderSide
<1>9. LiveSide'
  BY <1>1, <1>3, LiveSideMoved DEF IInv, Agrees, Cancelling
<1>. QED
  BY <1>8, <1>9 DEF Agrees

\* The first Subscribe of a topic returns: the flag takes over from the call.
LEMMA SubscribeReturnAgrees ==
    ASSUME IInv, Agrees, NEW th \in Threads, SubscribeReturn(th)
    PROVE  Agrees'
<1> PICK c0 \in Contexts : c0 = Ctx(th)
  BY CtxTyped
<1> PICK t : t = call[c0].topic
  OBVIOUS
<1>1. /\ call[c0].pc = "opened"
      /\ call' = NotifyAll([call EXCEPT ![Ctx(th)] = NoCall])
      /\ provider_subscribed' = [provider_subscribed EXCEPT ![t] = TRUE]
      /\ in_progress' = [in_progress EXCEPT ![t] = FALSE]
      /\ UNCHANGED <<opened, raced, subscription_topic>>
  BY DEF SubscribeReturn, At, Self
<1>2. c0 \in Contexts /\ t \in Topics
  BY <1>1, CtxTyped, TopicOfCall DEF AtProvider, Entering
<1>3. MovesTo(th, NoCall) /\ NoCall.pc = "idle" /\ NoCall.op = "none"
  <2>1. NoCall \in Calls /\ NoCall.pc = "idle" /\ NoCall.op = "none"
    BY NoneTyped DEF NoCall
  <2>. QED
    BY <1>1, <2>1, MovesTyped DEF IInv
<1>4. /\ provider_subscribed'[t] /\ ~in_progress'[t]
      /\ \A u \in Topics : u # t => /\ provider_subscribed'[u] = provider_subscribed[u]
                                    /\ in_progress'[u] = in_progress[u]
  BY <1>1, <1>2 DEF IInv, TypeOK
<1>5. /\ Enters(c0, t) /\ ~Enters(c0, t)'
      /\ \A c \in Contexts : c # c0 => (Enters(c, t)' <=> Enters(c, t))
      /\ TeardownPending(t)' <=> TeardownPending(t)
  <2>1. call'[c0].pc = "idle" /\ call[c0].topic = t
    BY <1>3 DEF MovesTo
  <2>2. \A c \in Contexts : c # c0 => (Enters(c, t)' <=> Enters(c, t))
    BY <1>3 DEF MovesTo, Enters, Entering
  <2>3. TeardownPending(t)' <=> TeardownPending(t)
    BY <1>1, <1>2, <1>3, <2>1 DEF MovesTo, TeardownPending
  <2>. QED
    BY <1>1, <2>1, <2>2, <2>3 DEF Enters, Entering
<1>6. TopicSide(t)
  BY <1>2 DEF Agrees, ProviderSide
<1>7. TopicSide(t)'
  <2>1. \A c \in Contexts : ~Enters(c, t)'
    BY <1>2, <1>5, <1>6 DEF TopicSide
  <2>2. (raced[t] \/ opened[t]) /\ (TeardownPending(t) => raced[t])
    BY <1>1, <1>2, <1>5, <1>6 DEF TopicSide
  <2>. QED
    BY <1>1, <1>2, <1>4, <1>5, <2>1, <2>2 DEF TopicSide
<1>8. ProviderSide'
  <2>1. ASSUME NEW u \in Topics, u # t PROVE TopicSide(u)'
    <3>1. call[Ctx(th)].topic = t /\ TopicSide(u) /\ NoCall.pc \notin AtProvider
      BY <1>3 DEF Agrees, ProviderSide, AtProvider, Entering
    <3>. QED
      BY <1>1, <1>3, <1>4, <2>1, <3>1, TopicSideElsewhere
  <2>. QED
    BY <1>7, <2>1 DEF ProviderSide
<1>9. LiveSide'
  <2>1. Live(call[c0].id) => subscription_topic[call[c0].id] = t
    BY <1>1, <1>2 DEF IInv, SubscribeOwnId
  <2>2. \A u \in Topics : provider_subscribed[u] => provider_subscribed'[u]
    BY <1>4
  <2>. QED
    BY <1>1, <1>3, <1>4, <2>1, <2>2, LiveSideMoved DEF IInv, Agrees, Cancelling
<1>. QED
  BY <1>8, <1>9 DEF Agrees

\* Ids leave the live map, the call of th becomes k, and no topic loses its
\* subscription.
LEMMA LiveSideLess ==
    ASSUME TypeOK, LiveSide, NEW th \in Threads, NEW k, NEW x \in Ids, MovesTo(th, k),
           subscription_topic' = [subscription_topic EXCEPT ![x] = NoTopic],
           provider_subscribed' = provider_subscribed,
           k.pc = "idle" => k.op = "none",
           k.pc \in Cancelling => k.id = x,
           call[Ctx(th)].op = "subscribe" => call[Ctx(th)].id = x,
           \A c \in Contexts : call[c].pc \in Cancelling => call[c].id \in Ids
    PROVE  LiveSide'
<1>0. Ctx(th) \in Contexts
  BY CtxTyped
<1>1. /\ subscription_topic'[x] = NoTopic
      /\ \A i \in Ids : i # x => subscription_topic'[i] = subscription_topic[i]
  BY DEF TypeOK
<1>2. \A c \in Contexts : call'[c].pc = "idle" => call'[c].op = "none"
  BY DEF LiveSide, MovesTo
<1>3. ASSUME NEW c \in Contexts, call'[c].pc \in Cancelling
      PROVE  subscription_topic'[call'[c].id] = NoTopic
  <2>1. CASE c = Ctx(th)
    BY <1>1, <1>3, <2>1 DEF MovesTo
  <2>2. CASE c # Ctx(th)
    <3>1. call[c].pc \in Cancelling /\ call'[c].id = call[c].id
      BY <1>3, <2>2 DEF MovesTo, Cancelling
    <3>2. call[c].id \in Ids /\ subscription_topic[call[c].id] = NoTopic
      BY <3>1 DEF LiveSide, Live
    <3>. QED
      BY <1>1, <3>1, <3>2
  <2>. QED
    BY <2>1, <2>2
<1>4. ASSUME NEW i \in Ids, subscription_topic'[i] # NoTopic
      PROVE  \/ provider_subscribed'[subscription_topic'[i]]
             \/ \E c \in Contexts : call'[c].op = "subscribe" /\ call'[c].id = i
  <2>1. \A c \in Contexts : c # Ctx(th) => call'[c].op = call[c].op /\ call'[c].id = call[c].id
    BY DEF MovesTo
  <2>2. i # x /\ subscription_topic'[i] = subscription_topic[i]
    BY <1>1, <1>4
  <2>3. \/ provider_subscribed[subscription_topic[i]]
        \/ \E c \in Contexts : call[c].op = "subscribe" /\ call[c].id = i
    BY <1>4, <2>2 DEF LiveSide, LiveIsServed, Live
  <2>. QED
    BY <2>1, <2>2, <2>3
<1>. QED
  BY <1>2, <1>3, <1>4 DEF LiveSide, LiveIsServed, Live

\* Every call that cancels names an id.
LEMMA CancellingIds ==
    ASSUME IInv
    PROVE  \A c \in Contexts : call[c].pc \in Cancelling => call[c].id \in Ids
BY DEF IInv, CallShape, Cancelling

\* A Subscribe that failed takes its id back, and the flag if it had set it.
LEMMA SubscribeRollbackAgrees ==
    ASSUME IInv, Agrees, NEW th \in Threads, SubscribeRollback(th)
    PROVE  Agrees'
<1> PICK c0 \in Contexts : c0 = Ctx(th)
  BY CtxTyped
<1> PICK t : t = call[c0].topic
  OBVIOUS
<1> DEFINE i == call[c0].id
           k == IF i \in entries[t] THEN [call[c0] EXCEPT !.pc = "retire"] ELSE NoCall
<1>1. /\ call[c0].pc \in {"rollback", "failed"}
      /\ \/ call' = [call EXCEPT ![c0] = k]
         \/ call' = NotifyAll([call EXCEPT ![c0] = k])
      /\ subscription_topic' = [subscription_topic EXCEPT ![i] = NoTopic]
      /\ UNCHANGED <<provider_subscribed, opened, raced>>
  BY DEF SubscribeRollback, At, Self
<1>2. /\ call[c0].pc = "rollback" => in_progress' = in_progress
      /\ call[c0].pc = "failed" => in_progress' = [in_progress EXCEPT ![t] = FALSE]
  BY DEF SubscribeRollback, At, Self
<1>3. c0 \in Contexts /\ t \in Topics /\ i \in Ids /\ call[c0] \in Calls
  BY <1>1, CtxTyped DEF IInv, TypeOK, CallShape
<1>4. k \in Calls /\ k.pc \in {"retire", "idle"} /\ (k.pc = "idle" => k.op = "none")
      /\ (k.pc = "retire" => k.id = i)
  <2>1. CASE i \in entries[t]
    BY <1>3, <2>1 DEF Calls, CallPCs
  <2>2. CASE i \notin entries[t]
    BY <2>2, NoneTyped DEF NoCall
  <2>. QED
    BY <2>1, <2>2
<1> HIDE DEF k
<1>5. MovesTo(th, k)
  BY <1>1, <1>4, MovesTyped DEF IInv
<1>6. LiveSide'
  <2>1. k.pc \in Cancelling => k.id = i
    BY <1>4 DEF Cancelling
  <2>. QED
    BY <1>1, <1>3, <1>4, <1>5, <2>1, CancellingIds, LiveSideLess DEF IInv, Agrees
<1> HIDE DEF i
<1>7. k.pc \notin AtProvider
  BY <1>4 DEF AtProvider, Entering
<1>8. CASE call[c0].pc = "rollback"
  BY <1>1, <1>2, <1>5, <1>6, <1>7, <1>8, ProviderSideMoved
  DEF Agrees, AtProvider, Entering
<1>9. CASE call[c0].pc = "failed"
  <2>1. ~in_progress'[t] /\ \A u \in Topics : u # t => in_progress'[u] = in_progress[u]
    BY <1>2, <1>3, <1>9 DEF IInv, TypeOK
  <2>2. /\ Enters(c0, t) /\ ~Enters(c0, t)'
        /\ \A c \in Contexts : c # c0 => (Enters(c, t)' <=> Enters(c, t))
        /\ TeardownPending(t)' <=> TeardownPending(t)
    <3>1. call'[c0] = k /\ call[c0].topic = t
      BY <1>5 DEF MovesTo
    <3>2. \A c \in Contexts : c # c0 => (Enters(c, t)' <=> Enters(c, t))
      BY <1>5 DEF MovesTo, Enters, Entering
    <3>3. TeardownPending(t)' <=> TeardownPending(t)
      BY <1>3, <1>4, <1>5, <1>9, <3>1 DEF MovesTo, TeardownPending
    <3>. QED
      BY <1>4, <1>9, <3>1, <3>2, <3>3 DEF Enters, Entering
  <2>3. TopicSide(t)
    BY <1>3 DEF Agrees, ProviderSide
  <2>4. TopicSide(t)'
    <3>1. (\A c \in Contexts : ~Enters(c, t)') /\ ~provider_subscribed[t]
      BY <1>3, <2>2, <2>3 DEF TopicSide
    <3>. QED
      BY <1>1, <2>1, <3>1 DEF TopicSide
  <2>5. ASSUME NEW u \in Topics, u # t PROVE TopicSide(u)'
    <3>1. call[Ctx(th)].topic = t /\ TopicSide(u)
      BY DEF Agrees, ProviderSide
    <3>. QED
      BY <1>1, <1>5, <1>7, <2>1, <2>5, <3>1, TopicSideElsewhere
  <2>. QED
    BY <1>6, <2>4, <2>5 DEF Agrees, ProviderSide
<1>. QED
  BY <1>1, <1>8, <1>9
=============================================================================
