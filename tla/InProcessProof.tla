------------------------- MODULE InProcessProof -------------------------
(***************************************************************************)
(* The safety properties of the loopback provider, for any finite set of   *)
(* threads, any topics and schemas, and any number of subscriptions and    *)
(* rows.                                                                   *)
(*                                                                         *)
(* Four invariants, each resting on the ones before it: the types; who     *)
(* holds `mu` while a handler runs (Handlers); what is known of a topic    *)
(* once it is declared (Shapes); and where each arrival's one token is     *)
(* while its subscription lasts (Reports).                                 *)
(***************************************************************************)
EXTENDS InProcessProvider, FiniteSetTheorems, TLAPS

CallInProgress == [op : Ops, pc : {"lock", "callback", "settle"},
                   topic : Topics, schema : MaybeSchema, token : Nat]

Types ==
    /\ carriage \in {"kCarried", "kAsDeclared"}
    /\ mu \in Threads \cup {NoThread}
    /\ subs \in Nat
    /\ channel \in [Topics -> Nat]
    /\ subscription_schema \in [Topics -> MaybeSchema]
    /\ resolver \in [Topics -> Nat]
    /\ schema \in [Topics -> MaybeSchema]
    /\ declared \in [Topics -> MaybeSchema \cup {NotDeclared}]
    /\ accepted \in [Topics -> SUBSET MaybeSchema]
    /\ call \in [Threads -> CallInProgress \cup {NoCall}]
    /\ delivery \in [Threads -> [sub : Nat, schema : MaybeSchema]]
    /\ DOMAIN arrival = Subs
    /\ DOMAIN stack = Threads

\* The subscription of a running handler is current, and its row has the
\* schema of that subscription.
Current(th) ==
    \E t \in Topics : /\ channel[t] = delivery[th].sub
                      /\ delivery[th].schema = subscription_schema[t]
                      /\ MayPublish(t)

\* A handler runs under mu and inside the provider's delivery frame, which is
\* what makes Refused turn its calls away.
Handlers ==
    \A th \in Threads :
        IF call[th].pc = "callback"
        THEN mu = th /\ stack[th] = <<Provider>> /\ Current(th)
        ELSE stack[th] = << >> /\ delivery[th].sub = NoSub

\* The first declaration stands, and every accepted one that can be compared
\* with it is equal to it.
Shapes ==
    \A t \in Topics :
        /\ schema[t] = IF declared[t] = NotDeclared THEN Null ELSE declared[t]
        /\ declared[t] = NotDeclared => accepted[t] = {}
        /\ declared[t] \notin Opaque => \A x \in accepted[t] \ Opaque : x = declared[t]
        /\ carriage = "kCarried" => declared[t] # Null

\* In the schema-before-data mode CreateTopic has a schema.
Arguments ==
    \A th \in Threads : call[th].op = "CreateTopic" /\ carriage = "kCarried"
                            => call[th].schema # Null

\* Calls of Subscribe on their way keep within the bound.
Entering == {th \in Threads : call[th].pc = "lock" /\ call[th].op = "Subscribe"}

Bounded == subs + Cardinality(Entering) <= MaxSub

Settling(th) == call[th].pc = "settle"

\* The schema x of the subscription s is told: by its arrival, or by the
\* CreateTopic that is about to resolve it.
Told(s, x) ==
    \/ arrival[s] = [status |-> "kOk", schema |-> x]
    \/ \E u \in Threads : Settling(u) /\ call[u].op = "CreateTopic"
                          /\ call[u].token = s /\ call[u].schema = x

\* A current subscription holds its token as long as nothing it waits for is
\* declared; without a token, its schema is told.
Slot(t) ==
    /\ channel[t] <= subs
    /\ channel[t] = NoSub => resolver[t] = NoSub
    /\ resolver[t] # NoSub => /\ resolver[t] = channel[t]
                              /\ arrival[resolver[t]].status = "kPending"
                              /\ carriage = "kCarried"
                              /\ declared[t] = NotDeclared
    /\ channel[t] # NoSub /\ resolver[t] = NoSub =>
          /\ Told(channel[t], subscription_schema[t])
          /\ carriage = "kCarried" => /\ declared[t] # NotDeclared
                                      /\ subscription_schema[t] = declared[t]

Slots ==
    /\ \A t \in Topics : Slot(t)
    /\ \A t, u \in Topics : channel[t] = channel[u] => t = u \/ channel[t] = NoSub

\* A token that left its slot is one thread's, and its arrival still pends.
Tokens ==
    \A th \in Threads : Settling(th) =>
        /\ call[th].token \in 1..subs
        /\ arrival[call[th].token].status = "kPending"
        /\ call[th].op = "CreateTopic" => call[th].schema # Null
        /\ \A t \in Topics : /\ resolver[t] # call[th].token
                             /\ call[th].op # "CreateTopic" => channel[t] # call[th].token
        /\ \A u \in Threads : Settling(u) /\ call[u].token = call[th].token => u = th

Reports == Arguments /\ Bounded /\ Slots /\ Tokens

IInv == Types /\ Handlers /\ Shapes /\ Reports

------------------------------------------------------------------------------
(* Facts about single steps. *)

\* With mu free no handler runs.
LEMMA NoHandler ==
  ASSUME Handlers, mu = NoThread, NEW th \in Threads
  PROVE  call[th].pc # "callback"
  BY InProcessAssumption DEF Handlers

\* A thread whose call is at the lock, or past it, has a call.
LEMMA HasCall ==
  ASSUME Types, NEW th \in Threads, call[th].pc # "idle"
  PROVE  call[th] \in CallInProgress
  BY DEF Types, NoCall

\* What Leave does to the calls.
LEMMA LeaveFacts ==
  ASSUME Types, NEW th \in Threads, call[th] \in CallInProgress,
         NEW k \in Nat, Leave(th, k)
  PROVE  /\ call' \in [Threads -> CallInProgress \cup {NoCall}]
         /\ \A u \in Threads : u # th => call'[u] = call[u]
         /\ k = NoSub => call'[th] = NoCall
         /\ k # NoSub => /\ call'[th].pc = "settle" /\ call'[th].token = k
                         /\ call'[th].op = call[th].op
                         /\ call'[th].schema = call[th].schema
<1> DEFINE r == IF k = NoSub THEN NoCall
                ELSE [call[th] EXCEPT !.pc = "settle", !.token = k]
<1>1. call' = [call EXCEPT ![th] = r]
  BY DEF Leave
<1>2. k # NoSub => /\ r.pc = "settle" /\ r.token = k /\ r.op = call[th].op
                   /\ r.schema = call[th].schema /\ r \in CallInProgress
  BY DEF CallInProgress
<1>3. k = NoSub => r = NoCall
  OBVIOUS
<1> HIDE DEF r
<1>4. r \in CallInProgress \cup {NoCall}
  BY <1>2, <1>3
<1> QED BY <1>1, <1>2, <1>3, <1>4 DEF Types

\* The calls in their locked section that are not Subscribe do not move the
\* bound.
LEMMA BoundedSame ==
  ASSUME Bounded, NEW th \in Threads, subs' = subs,
         \A u \in Threads : u # th => call'[u] = call[u],
         ~(call[th].pc = "lock" /\ call[th].op = "Subscribe"),
         ~(call'[th].pc = "lock" /\ call'[th].op = "Subscribe")
  PROVE  Bounded'
<1>1. Entering' = Entering
  BY DEF Entering
<1> QED BY <1>1 DEF Bounded

\* Finitely many calls are about to take an identity.
LEMMA EnteringFinite == IsFiniteSet(Entering) /\ Cardinality(Entering) \in Nat
<1>1. Entering \subseteq Threads
  BY DEF Entering
<1> QED BY <1>1, InProcessAssumption, FS_Subset, FS_CardinalityType

\* So identities stay among the arrivals.
LEMMA SubsBounded == ASSUME Types, Bounded PROVE subs <= MaxSub
  BY EnteringFinite, InProcessAssumption DEF Types, Bounded

\* A subscription made is one of Subs.
LEMMA MadeIsSub == ASSUME Types, Bounded, NEW s \in 1..subs PROVE s \in Subs
<1>1. subs \in Nat /\ subs <= MaxSub /\ MaxSub \in Nat
  BY SubsBounded, InProcessAssumption DEF Types
<1>. QED
  BY <1>1 DEF Subs

\* A current subscription was made.
LEMMA CurrentIsMade ==
  ASSUME Types, NEW v \in Topics, Slot(v)
  PROVE  channel[v] # NoSub => channel[v] \in 1..subs
<1>1. channel[v] \in Nat /\ subs \in Nat /\ channel[v] <= subs
  BY DEF Types, Slot
<1>. QED
  BY <1>1 DEF NoSub

\* The thread between two calls.
LEMMA IdleCall == NoCall.pc = "idle" /\ NoCall.op = "none"
  BY DEF NoCall

\* A call that runs no handler moves on.
LEMMA HandlersStay ==
  ASSUME Handlers, NEW th \in Threads, call[th].pc # "callback", call'[th].pc # "callback",
         \A u \in Threads : u # th => call'[u] = call[u],
         UNCHANGED <<carriage, mu, channel, subscription_schema, schema, declared, delivery,
                     stack>>
  PROVE  Handlers'
<1>1. ASSUME NEW u \in Threads
      PROVE  (Current(u)' <=> Current(u)) /\ (call'[u].pc = "callback" <=> call[u].pc = "callback")
  BY DEF Current, MayPublish
<1>. QED
  BY <1>1 DEF Handlers

\* A step that moves no token and no slot keeps what is told.
LEMMA ReportsSame ==
  ASSUME Slots, Tokens,
         UNCHANGED <<carriage, subs, channel, subscription_schema, resolver,
                     schema, declared, arrival>>,
         \A u \in Threads : /\ Settling(u)' <=> Settling(u)
                            /\ Settling(u) => call'[u] = call[u]
  PROVE  Slots' /\ Tokens'
<1>1. \A s, x : Told(s, x) => Told(s, x)'
  BY DEF Told
<1>2. Slots'
  BY <1>1 DEF Slots, Slot
<1>3. Tokens'
  BY DEF Tokens
<1> QED BY <1>2, <1>3

------------------------------------------------------------------------------
(* The steps, one by one. *)

\* The provider starts with no call, no subscription and no row.
LEMMA InitIInv == Init => IInv
<1> SUFFICES ASSUME Init PROVE IInv
  OBVIOUS
<1>1. Types
  BY InProcessAssumption
     DEF Init, Types, ArrivalInit, FrameInit, MaybeSchema, NoDelivery, NoSub
<1>2. Handlers
  BY DEF Init, Handlers, NoCall, NoDelivery, FrameInit
<1>3. Shapes
  BY InProcessAssumption DEF Init, Shapes
<1>4. Bounded
  <2>1. Entering = {}
    BY DEF Init, Entering, NoCall
  <2> QED BY <2>1, FS_EmptySet, InProcessAssumption DEF Init, Bounded
<1>5. Arguments /\ Slots /\ Tokens
  BY DEF Init, Arguments, Slots, Slot, Tokens, Settling, NoCall, NoSub
<1> QED BY <1>1, <1>2, <1>3, <1>4, <1>5 DEF IInv, Reports

\* A step that touches none of this: a refused call, or waiting for a schema.
LEMMA Untouched ==
  ASSUME IInv,
         UNCHANGED <<carriage, mu, slotVars, accepted, call, delivery, subs,
                     arrival, stack>>
  PROVE  IInv'
<1>1. Types' /\ Handlers' /\ Shapes'
  BY DEF IInv, Types, Handlers, Current, MayPublish, Shapes, slotVars
<1>2. Arguments' /\ Bounded'
  BY DEF IInv, Reports, Arguments, Bounded, Entering
<1>3. Slots' /\ Tokens'
  BY ReportsSame DEF IInv, Reports, slotVars, Settling
<1> QED BY <1>1, <1>2, <1>3 DEF IInv, Reports

\* A handler's call is refused at the door; any other takes its place.
LEMMA EnterKeeps ==
  ASSUME IInv, NEW th \in Threads, NEW op \in Ops, NEW t \in Topics,
         NEW x \in MaybeSchema, Enter(th, op, t, x)
  PROVE  IInv'
<1> DEFINE c == [op |-> op, pc |-> "lock", topic |-> t, schema |-> x,
                 token |-> NoSub]
<1>1. CASE Refused(th)
  <2>1. UNCHANGED <<carriage, mu, slotVars, accepted, call, delivery, subs,
                    arrival, stack>>
    BY <1>1 DEF Enter, arrivalVars, frameVars
  <2> QED BY <2>1, Untouched
<1>2. CASE ~Refused(th)
  <2>1. call[th].pc # "callback"
    <3> SUFFICES ASSUME call[th].pc = "callback" PROVE FALSE
      OBVIOUS
    <3>1. stack[th] = <<Provider>>
      BY DEF IInv, Handlers
    <3>2. Len(stack[th]) = 1 /\ stack[th][1] = Provider
      BY <3>1
    <3> QED BY <1>2, <3>2 DEF Refused, InsideDeliveryOn
  <2>2. /\ call[th].pc = "idle"
        /\ call' = [call EXCEPT ![th] = c]
        /\ UNCHANGED <<carriage, mu, channel, subscription_schema, resolver,
                       schema, declared, accepted, delivery, subs, arrival,
                       stack>>
    BY <1>2, <2>1 DEF Enter, slotVars, arrivalVars, frameVars
  <2>3. c \in CallInProgress
    BY DEF CallInProgress, NoSub
  <2>4. /\ call' \in [Threads -> CallInProgress \cup {NoCall}]
        /\ call'[th] = c
        /\ \A u \in Threads : u # th => call'[u] = call[u]
    BY <2>2, <2>3 DEF IInv, Types
  <2>5. Types'
    BY <2>2, <2>4 DEF IInv, Types
  <2>6. Handlers'
    BY <2>1, <2>2, <2>4 DEF IInv, Handlers, Current, MayPublish
  <2>7. Shapes'
    BY <2>2 DEF IInv, Shapes
  <2>8. Arguments'
    BY <2>2, <2>4 DEF IInv, Reports, Arguments, Enter, ArgumentsOK
  <2>9. Bounded'
    <3>1. CASE op = "Subscribe"
      <4>1. Entering' = Entering \cup {th} /\ th \notin Entering
        BY <3>1, <2>2, <2>4 DEF Entering
      <4>2. Cardinality(Entering') = Cardinality(Entering) + 1
        BY <4>1, EnteringFinite, FS_AddElement
      <4>3. subs + Cardinality(Entering) < MaxSub
        BY <3>1 DEF Enter, WithinBounds, Entering
      <4> QED BY <2>2, <4>2, <4>3, EnteringFinite, InProcessAssumption
              DEF Bounded, IInv, Types
    <3>2. CASE op # "Subscribe"
      <4>1. Bounded
        BY DEF IInv, Reports
      <4>2. ~(call'[th].pc = "lock" /\ call'[th].op = "Subscribe")
        BY <3>2, <2>4
      <4> QED BY <2>2, <2>4, <4>1, <4>2, BoundedSame
    <3> QED BY <3>1, <3>2
  <2>10. \A u \in Threads : /\ Settling(u)' <=> Settling(u)
                            /\ Settling(u) => call'[u] = call[u]
    BY <2>2, <2>4 DEF Settling
  <2>11. Slots' /\ Tokens'
    BY <2>2, <2>10, ReportsSame DEF IInv, Reports
  <2> QED BY <2>5, <2>6, <2>7, <2>8, <2>9, <2>11 DEF IInv, Reports
<1> QED BY <1>1, <1>2

\* A locked section that only ends its call, having possibly recorded a
\* further acceptance, keeps what concerns the calls and the slots.
LEMMA EndsCall ==
  ASSUME IInv, NEW th \in Threads, call[th].pc = "lock", mu = NoThread,
         call[th].op # "Subscribe", Leave(th, NoSub),
         UNCHANGED <<carriage, mu, channel, subscription_schema, resolver,
                     schema, declared, delivery, subs, arrival, stack>>
  PROVE  /\ call' \in [Threads -> CallInProgress \cup {NoCall}]
         /\ Handlers' /\ Reports'
<1>1. /\ call' \in [Threads -> CallInProgress \cup {NoCall}]
      /\ call'[th] = NoCall
      /\ \A u \in Threads : u # th => call'[u] = call[u]
  BY HasCall, LeaveFacts DEF IInv, NoSub
<1>2. Handlers'
  <2>1. call[th].pc # "callback" /\ call'[th].pc # "callback" /\ Handlers
    BY <1>1, IdleCall DEF IInv
  <2> QED BY <1>1, <2>1, HandlersStay
<1>3. Arguments'
  BY <1>1 DEF IInv, Reports, Arguments, NoCall
<1>4. Bounded'
  BY <1>1, BoundedSame DEF IInv, Reports, NoCall
<1>5. Slots' /\ Tokens'
  <2>1. \A u \in Threads : /\ Settling(u)' <=> Settling(u)
                           /\ Settling(u) => call'[u] = call[u]
    BY <1>1 DEF Settling, NoCall
  <2> QED BY <2>1, ReportsSame DEF IInv, Reports
<1> QED BY <1>1, <1>2, <1>3, <1>4, <1>5 DEF Reports

\* A further declaration is accepted only with the shape of the first, unless
\* one of them cannot be compared.
LEMMA RedeclareKeeps ==
  ASSUME IInv, NEW th \in Threads, Redeclare(th)
  PROVE  IInv'
<1> DEFINE t == call[th].topic
           x == call[th].schema
<1>1. t \in Topics /\ x \in MaybeSchema
  BY HasCall DEF IInv, Redeclare, Entered, CallInProgress
<1>2. UNCHANGED <<carriage, mu, channel, subscription_schema, resolver,
                  schema, declared, delivery, subs, arrival, stack>>
  BY DEF Redeclare, slotVars, arrivalVars, frameVars
<1>3. /\ call' \in [Threads -> CallInProgress \cup {NoCall}]
      /\ Handlers' /\ Reports'
  BY <1>2, EndsCall DEF Redeclare, Entered
<1>4. declared[t] # NotDeclared
  BY DEF Redeclare
<1>5. accepted' = IF ConflictsWith(x, declared[t]) THEN accepted
                  ELSE [accepted EXCEPT ![t] = @ \cup {x}]
  BY DEF Redeclare
<1> HIDE DEF t, x
<1>6. Types'
  BY <1>1, <1>2, <1>3, <1>5 DEF IInv, Types
<1>7. Shapes'
  BY <1>1, <1>2, <1>4, <1>5 DEF IInv, Types, Shapes, ConflictsWith
<1> QED BY <1>3, <1>6, <1>7 DEF IInv

\* Publish to nobody changes nothing.
LEMMA PublishNothingKeeps ==
  ASSUME IInv, NEW th \in Threads, PublishNothing(th)
  PROVE  IInv'
<1>1. UNCHANGED <<carriage, mu, channel, subscription_schema, resolver,
                  schema, declared, accepted, delivery, subs, arrival, stack>>
  BY DEF PublishNothing, slotVars, arrivalVars, frameVars
<1>2. /\ call' \in [Threads -> CallInProgress \cup {NoCall}]
      /\ Handlers' /\ Reports'
  BY <1>1, EndsCall DEF PublishNothing, Entered
<1> QED BY <1>1, <1>2 DEF IInv, Types, Shapes

\* A delivery starts under mu, with the current subscription's schema.
LEMMA PublishBeginKeeps ==
  ASSUME IInv, NEW th \in Threads, PublishBegin(th)
  PROVE  IInv'
<1> DEFINE t == call[th].topic
           d == [sub |-> channel[t], schema |-> subscription_schema[t]]
           r == [call[th] EXCEPT !.pc = "callback"]
<1>1. call[th] \in CallInProgress /\ t \in Topics
  BY HasCall DEF IInv, PublishBegin, Entered, CallInProgress
<1>2. /\ call[th].pc = "lock" /\ call[th].op = "Publish" /\ mu = NoThread
      /\ MayPublish(t) /\ channel[t] # NoSub /\ mu' = th
      /\ delivery' = [delivery EXCEPT ![th] = d]
      /\ stack' = [stack EXCEPT ![th] = Append(@, Provider)]
      /\ UNCHANGED <<carriage, channel, subscription_schema, resolver, schema,
                     declared, accepted, subs, arrival>>
  BY DEF PublishBegin, Entered, HeldAcross, PushScope, slotVars, arrivalVars
<1>3. call' = [call EXCEPT ![th] = r]
  BY DEF PublishBegin
<1>4. r \in CallInProgress /\ r.pc = "callback" /\ r.op = "Publish"
  BY <1>1, <1>2 DEF CallInProgress
<1>5. d \in [sub : Nat, schema : MaybeSchema]
  BY <1>1 DEF IInv, Types
<1> HIDE DEF r
<1>6. /\ call' \in [Threads -> CallInProgress \cup {NoCall}]
      /\ call'[th] = r
      /\ \A u \in Threads : u # th => call'[u] = call[u]
  BY <1>3, <1>4 DEF IInv, Types
<1>7. Types'
  BY <1>2, <1>5, <1>6 DEF IInv, Types
<1>8. Handlers'
  <2>1. \A u \in Threads : call[u].pc # "callback"
    BY <1>2, NoHandler DEF IInv
  <2>2. ASSUME NEW u \in Threads, u # th
        PROVE  /\ call'[u].pc # "callback"
               /\ stack'[u] = << >> /\ delivery'[u].sub = NoSub
    BY <1>2, <1>6, <2>1, <2>2 DEF IInv, Types, Handlers
  <2>3. stack'[th] = <<Provider>>
    <3>1. stack[th] = << >>
      BY <2>1 DEF IInv, Handlers
    <3>2. stack'[th] = Append(stack[th], Provider)
      BY <1>2 DEF IInv, Types
    <3> QED BY <3>1, <3>2
  <2>4. delivery'[th] = d
    BY <1>2 DEF IInv, Types
  <2>5. Current(th)'
    BY <1>1, <1>2, <2>4 DEF Current, MayPublish
  <2> QED BY <1>2, <1>4, <1>6, <2>2, <2>3, <2>5 DEF Handlers
<1>9. Shapes'
  BY <1>2 DEF IInv, Shapes
<1>10. Arguments'
  BY <1>2, <1>4, <1>6 DEF IInv, Reports, Arguments
<1>11. Bounded'
  BY <1>2, <1>4, <1>6, BoundedSame DEF IInv, Reports
<1>12. Slots' /\ Tokens'
  <2>1. \A u \in Threads : /\ Settling(u)' <=> Settling(u)
                           /\ Settling(u) => call'[u] = call[u]
    BY <1>2, <1>4, <1>6 DEF Settling
  <2> QED BY <1>2, <2>1, ReportsSame DEF IInv, Reports
<1> QED BY <1>7, <1>8, <1>9, <1>10, <1>11, <1>12 DEF IInv, Reports

\* It ends and gives mu back.
LEMMA PublishEndKeeps ==
  ASSUME IInv, NEW th \in Threads, PublishEnd(th)
  PROVE  IInv'
<1>1. /\ call[th].pc = "callback" /\ mu' = NoThread
      /\ delivery' = [delivery EXCEPT ![th] = NoDelivery]
      /\ call' = [call EXCEPT ![th] = NoCall]
      /\ stack' = [stack EXCEPT ![th] = SubSeq(@, 1, Len(@) - 1)]
      /\ UNCHANGED <<carriage, channel, subscription_schema, resolver, schema,
                     declared, accepted, subs, arrival>>
  BY DEF PublishEnd, PopScope, slotVars, arrivalVars
<1>2. /\ call' \in [Threads -> CallInProgress \cup {NoCall}]
      /\ call'[th] = NoCall
      /\ \A u \in Threads : u # th => call'[u] = call[u]
  BY <1>1 DEF IInv, Types
<1>3. Types'
  BY <1>1, <1>2 DEF IInv, Types, NoDelivery, MaybeSchema, NoSub
<1>4. Handlers'
  <2>1. ASSUME NEW u \in Threads, u # th
        PROVE  /\ call'[u].pc # "callback"
               /\ stack'[u] = << >> /\ delivery'[u].sub = NoSub
    <3>1. call[u].pc # "callback"
      BY <1>1, <2>1 DEF IInv, Handlers
    <3> QED BY <1>1, <1>2, <2>1, <3>1 DEF IInv, Types, Handlers
  <2>2. stack'[th] = << >>
    <3>1. stack[th] = <<Provider>>
      BY <1>1 DEF IInv, Handlers
    <3>2. stack'[th] = SubSeq(stack[th], 1, Len(stack[th]) - 1)
      BY <1>1 DEF IInv, Types
    <3> QED BY <3>1, <3>2
  <2>3. delivery'[th].sub = NoSub
    BY <1>1 DEF IInv, Types, NoDelivery
  <2> QED BY <1>2, <2>1, <2>2, <2>3 DEF Handlers, NoCall
<1>5. Shapes'
  BY <1>1 DEF IInv, Shapes
<1>6. Arguments'
  BY <1>1, <1>2 DEF IInv, Reports, Arguments, NoCall
<1>7. Bounded'
  BY <1>1, <1>2, BoundedSame DEF IInv, Reports, NoCall
<1>8. Slots' /\ Tokens'
  <2>1. \A u \in Threads : /\ Settling(u)' <=> Settling(u)
                           /\ Settling(u) => call'[u] = call[u]
    BY <1>1, <1>2 DEF Settling, NoCall
  <2> QED BY <1>1, <2>1, ReportsSame DEF IInv, Reports
<1> QED BY <1>3, <1>4, <1>5, <1>6, <1>7, <1>8 DEF IInv, Reports


\* The first declaration: the token of the subscription it reaches leaves the
\* slot with the thread that will resolve it.
LEMMA DeclareKeeps ==
  ASSUME IInv, NEW th \in Threads, Declare(th)
  PROVE  IInv'
<1> DEFINE t == call[th].topic
           x == call[th].schema
           k == IF ReachesSubscription THEN resolver[t] ELSE NoSub
<1>1. call[th] \in CallInProgress /\ t \in Topics /\ x \in MaybeSchema
  BY HasCall DEF IInv, Declare, Entered, CallInProgress
<1>2. /\ call[th].pc = "lock" /\ call[th].op = "CreateTopic" /\ mu = NoThread
      /\ declared[t] = NotDeclared
      /\ declared' = [declared EXCEPT ![t] = x]
      /\ schema' = [schema EXCEPT ![t] = x]
      /\ accepted' = [accepted EXCEPT ![t] = @ \cup {x}]
      /\ UNCHANGED <<carriage, mu, channel, delivery, subs, arrival, stack>>
  BY DEF Declare, Entered, arrivalVars, frameVars
<1>3. /\ subscription_schema' = IF ReachesSubscription
                                THEN [subscription_schema EXCEPT ![t] = x]
                                ELSE subscription_schema
      /\ resolver' = IF ReachesSubscription THEN [resolver EXCEPT ![t] = NoSub]
                     ELSE resolver
      /\ Leave(th, k)
  BY DEF Declare
<1>4. k \in Nat
  BY <1>1 DEF IInv, Types, NoSub
<1>5. x # NotDeclared /\ (carriage = "kCarried" => x # Null)
  BY <1>1, <1>2, InProcessAssumption DEF IInv, Reports, Arguments, MaybeSchema
<1>6. /\ call' \in [Threads -> CallInProgress \cup {NoCall}]
      /\ \A u \in Threads : u # th => call'[u] = call[u]
      /\ k = NoSub => call'[th] = NoCall
      /\ k # NoSub => /\ call'[th].pc = "settle" /\ call'[th].token = k
                      /\ call'[th].op = "CreateTopic" /\ call'[th].schema = x
  BY <1>1, <1>2, <1>3, <1>4, LeaveFacts DEF IInv
<1>7. /\ k = IF carriage = "kCarried" THEN resolver[t] ELSE NoSub
      /\ ReachesSubscription <=> carriage = "kCarried"
  BY DEF ReachesSubscription
<1> HIDE DEF t, x, k
<1>8. Types'
  BY <1>1, <1>2, <1>3, <1>6 DEF IInv, Types, NoSub
<1>9. call'[th].pc \notin {"lock", "callback"} /\ call'[th].op \in {"none", "CreateTopic"}
  <2>1. NoCall.pc = "idle" /\ NoCall.op = "none"
    BY DEF NoCall
  <2>. QED
    BY <1>6, <2>1
<1>10. Handlers'
  BY <1>2, <1>6, <1>9, NoHandler DEF IInv, Handlers
<1>11. Shapes'
  BY <1>1, <1>2, <1>5 DEF IInv, Types, Shapes
<1>12. Arguments'
  <2>1. carriage = "kCarried" /\ call'[th].op = "CreateTopic" => call'[th].schema # Null
    <3>1. NoCall.op = "none"
      BY DEF NoCall
    <3>. QED
      BY <1>5, <1>6, <3>1
  <2>. QED
    BY <1>2, <1>6, <2>1 DEF IInv, Reports, Arguments
<1>13. Bounded'
  BY <1>2, <1>6, <1>9, BoundedSame DEF IInv, Reports
<1>14. \A u \in Threads : u # th => (Settling(u)' <=> Settling(u))
  BY <1>6 DEF Settling
<1>15. ~Settling(th) /\ (Settling(th)' <=> k # NoSub)
  BY <1>2, <1>6 DEF Settling, NoCall
<1>16. k # NoSub => /\ k = resolver[t] /\ k = channel[t] /\ k \in 1..subs
                    /\ arrival[k].status = "kPending" /\ carriage = "kCarried"
  <2>1. Slot(t)
    BY <1>1 DEF IInv, Reports, Slots
  <2>2. /\ channel[t] <= subs /\ subs \in Nat
        /\ resolver[t] # NoSub => /\ resolver[t] = channel[t]
                                  /\ arrival[resolver[t]].status = "kPending"
    BY <2>1 DEF IInv, Types, Slot
  <2>. QED
    BY <1>4, <1>7, <2>2 DEF NoSub
<1>17. \A s, y : Told(s, y) => Told(s, y)'
  BY <1>2, <1>6, <1>14, <1>15 DEF Told
<1>18. ASSUME NEW v \in Topics PROVE Slot(v)'
  <2>0. Slot(v)
    BY DEF IInv, Reports, Slots
  <2>1. CASE v # t
    <3>1. /\ resolver'[v] = resolver[v] /\ declared'[v] = declared[v]
          /\ subscription_schema'[v] = subscription_schema[v]
      BY <1>1, <1>2, <1>3, <2>1 DEF IInv, Types
    <3> QED BY <3>1, <2>0, <1>2, <1>17 DEF Slot
  <2>2. CASE v = t /\ carriage = "kCarried"
    <3>1. /\ resolver'[v] = NoSub /\ declared'[v] = x
          /\ subscription_schema'[v] = x
      BY <1>1, <1>2, <1>3, <1>7, <2>2 DEF IInv, Types
    <3>2. channel[v] # NoSub => k # NoSub /\ k = channel[v]
      BY <2>0, <2>2, <1>2, <1>7 DEF Slot
    <3>3. \A s, y : k # NoSub /\ s = k /\ y = x => Told(s, y)'
      BY <1>6, <1>15 DEF Told
    <3> QED BY <3>1, <3>2, <3>3, <2>0, <2>2, <1>2, <1>5 DEF Slot
  <2>3. CASE v = t /\ carriage # "kCarried"
    <3>1. /\ resolver'[v] = resolver[v]
          /\ subscription_schema'[v] = subscription_schema[v]
      BY <1>3, <1>7, <2>3
    <3> QED BY <3>1, <2>0, <2>3, <1>2, <1>17 DEF Slot
  <2> QED BY <2>1, <2>2, <2>3
<1>19. Slots'
  BY <1>2, <1>18 DEF IInv, Reports, Slots
<1>20. Tokens'
  <2> SUFFICES ASSUME NEW v \in Threads, Settling(v)'
               PROVE  /\ call'[v].token \in 1..subs
                      /\ arrival[call'[v].token].status = "kPending"
                      /\ call'[v].op = "CreateTopic" => call'[v].schema # Null
                      /\ \A w \in Topics :
                           /\ resolver'[w] # call'[v].token
                           /\ call'[v].op # "CreateTopic"
                                => channel[w] # call'[v].token
                      /\ \A u \in Threads :
                           Settling(u)' /\ call'[u].token = call'[v].token => u = v
    BY <1>2 DEF Tokens
  <2>1. \A w \in Topics : resolver'[w] # NoSub => resolver'[w] = resolver[w]
    BY <1>1, <1>3 DEF IInv, Types
  <2>2. k # NoSub => \A w \in Topics : resolver'[w] # k
    <3>1. k # NoSub => resolver'[t] = NoSub
      BY <1>1, <1>3, <1>7, <1>16 DEF IInv, Types
    <3>2. ASSUME NEW w \in Topics, k # NoSub, resolver[w] = k PROVE w = t
      <4>1. Slot(w) /\ (channel[w] = channel[t] => w = t \/ channel[w] = NoSub)
        BY <1>1 DEF IInv, Reports, Slots
      <4>2. channel[w] = k
        BY <3>2, <4>1 DEF Slot
      <4>. QED
        BY <1>16, <3>2, <4>1, <4>2
    <3>. QED
      BY <2>1, <3>1, <3>2
  <2>3. CASE v = th
    <3>1. k # NoSub /\ call'[v].token = k
      BY <2>3, <1>6, <1>15
    <3>2. \A u \in Threads : Settling(u) => call[u].token # k
      BY <3>1, <1>1, <1>16 DEF IInv, Reports, Tokens
    <3> QED BY <3>1, <3>2, <2>2, <2>3, <1>5, <1>6, <1>14, <1>16
  <2>4. CASE v # th
    <3>1. Settling(v) /\ call'[v] = call[v]
      BY <2>4, <1>6, <1>14
    <3>2. /\ call[v].token \in 1..subs
          /\ arrival[call[v].token].status = "kPending"
          /\ call[v].op = "CreateTopic" => call[v].schema # Null
          /\ \A w \in Topics : /\ resolver[w] # call[v].token
                               /\ call[v].op # "CreateTopic"
                                    => channel[w] # call[v].token
          /\ \A u \in Threads : Settling(u) /\ call[u].token = call[v].token
                                   => u = v
      BY <3>1 DEF IInv, Reports, Tokens
    <3>3. k # NoSub => call[v].token # k
      BY <3>2, <1>1, <1>16
    <3>4. \A w \in Topics : resolver'[w] # call[v].token
      BY <3>2, <2>1 DEF NoSub
    <3>5. \A u \in Threads : Settling(u)' /\ call'[u].token = call[v].token
                                => u = v
      BY <3>2, <3>3, <1>6, <1>14, <1>15
    <3> QED BY <3>1, <3>2, <3>4, <3>5
  <2> QED BY <2>3, <2>4
<1> QED BY <1>8, <1>10, <1>11, <1>12, <1>13, <1>19, <1>20 DEF IInv, Reports

\* Unsubscribe empties the slot; its token leaves with the thread.
LEMMA UnsubscribeKeeps ==
  ASSUME IInv, NEW th \in Threads, Unsubscribe(th)
  PROVE  IInv'
<1> DEFINE t == call[th].topic
           k == resolver[t]
<1>1. call[th] \in CallInProgress /\ t \in Topics
  BY HasCall DEF IInv, Unsubscribe, Entered, CallInProgress
<1>2. /\ call[th].pc = "lock" /\ call[th].op = "Unsubscribe" /\ mu = NoThread
      /\ channel' = [channel EXCEPT ![t] = NoSub]
      /\ subscription_schema' = [subscription_schema EXCEPT ![t] = Null]
      /\ resolver' = [resolver EXCEPT ![t] = NoSub]
      /\ Leave(th, k)
      /\ UNCHANGED <<carriage, mu, schema, declared, accepted, delivery, subs,
                     arrival, stack>>
  BY DEF Unsubscribe, Entered, arrivalVars, frameVars
<1>3. k \in Nat
  BY <1>1 DEF IInv, Types
<1>4. /\ call' \in [Threads -> CallInProgress \cup {NoCall}]
      /\ \A u \in Threads : u # th => call'[u] = call[u]
      /\ k = NoSub => call'[th] = NoCall
      /\ k # NoSub => /\ call'[th].pc = "settle" /\ call'[th].token = k
                      /\ call'[th].op = "Unsubscribe"
  BY <1>1, <1>2, <1>3, LeaveFacts DEF IInv
<1>5. k # NoSub => /\ k = channel[t] /\ k \in 1..subs
                   /\ arrival[k].status = "kPending"
  <2>1. Types /\ Slot(t)
    BY <1>1 DEF IInv, Reports, Slots
  <2>2. k # NoSub => k = channel[t] /\ arrival[k].status = "kPending"
    BY <2>1 DEF Slot
  <2>. QED
    BY <1>1, <2>1, <2>2, CurrentIsMade
<1>6. /\ channel'[t] = NoSub /\ resolver'[t] = NoSub
      /\ \A v \in Topics : v # t =>
            /\ channel'[v] = channel[v] /\ resolver'[v] = resolver[v]
            /\ subscription_schema'[v] = subscription_schema[v]
  BY <1>1, <1>2 DEF IInv, Types
<1>7. Types'
  BY <1>1, <1>2, <1>4 DEF IInv, Types, NoSub, MaybeSchema
<1> HIDE DEF t, k
<1>idle. NoCall.pc = "idle"
  BY DEF NoCall
<1>8. call'[th].pc \notin {"lock", "callback"}
  <2>1. call'[th].pc = "idle" \/ call'[th].pc = "settle"
    BY <1>idle, <1>4
  <2>. QED
    BY <2>1
<1>9. Handlers'
  BY <1>2, <1>4, <1>8, NoHandler DEF IInv, Handlers
<1>10. Shapes'
  BY <1>2 DEF IInv, Shapes
<1>11. Arguments'
  <2>1. call'[th].op # "CreateTopic"
    BY <1>4, IdleCall
  <2>. QED
    BY <1>2, <1>4, <2>1 DEF IInv, Reports, Arguments
<1>12. Bounded'
  BY <1>2, <1>4, <1>8, BoundedSame DEF IInv, Reports
<1>13. \A u \in Threads : u # th => (Settling(u)' <=> Settling(u))
  BY <1>4 DEF Settling
<1>14. ~Settling(th) /\ (Settling(th)' <=> k # NoSub)
  <2>1. call[th].pc # "settle"
    BY <1>idle, <1>2
  <2>2. call'[th].pc = "settle" <=> k # NoSub
    BY <1>idle, <1>4
  <2>. QED
    BY <2>1, <2>2 DEF Settling
<1>15. \A s, y : Told(s, y) => Told(s, y)'
  BY <1>2, <1>4, <1>13, <1>14 DEF Told
<1>16. ASSUME NEW v \in Topics PROVE Slot(v)'
  <2>0. Slot(v)
    BY DEF IInv, Reports, Slots
  <2>1. CASE v = t
    <3>1. channel'[v] = NoSub /\ resolver'[v] = NoSub
      BY <2>1, <1>6
    <3>2. NoSub <= subs'
      BY <1>2 DEF IInv, Types, NoSub
    <3>. QED
      BY <3>1, <3>2 DEF Slot
  <2>2. CASE v # t
    BY <2>0, <2>2, <1>2, <1>6, <1>15 DEF Slot
  <2> QED BY <2>1, <2>2
<1>17. Slots'
  BY <1>1, <1>6, <1>16 DEF IInv, Reports, Slots
<1>18. Tokens'
  <2> SUFFICES ASSUME NEW v \in Threads, Settling(v)'
               PROVE  /\ call'[v].token \in 1..subs
                      /\ arrival[call'[v].token].status = "kPending"
                      /\ call'[v].op = "CreateTopic" => call'[v].schema # Null
                      /\ \A w \in Topics :
                           /\ resolver'[w] # call'[v].token
                           /\ call'[v].op # "CreateTopic"
                                => channel'[w] # call'[v].token
                      /\ \A u \in Threads :
                           Settling(u)' /\ call'[u].token = call'[v].token => u = v
    BY <1>2 DEF Tokens
  <2>1. k # NoSub => \A w \in Topics : channel'[w] # k /\ resolver'[w] # k
    BY <1>1, <1>5, <1>6 DEF IInv, Reports, Slots, Slot
  <2>2. CASE v = th
    <3>1. k # NoSub /\ call'[v].token = k
      BY <2>2, <1>4, <1>14
    <3>2. \A u \in Threads : Settling(u) => call[u].token # k
      BY <3>1, <1>1 DEF IInv, Reports, Tokens, k
    <3> QED BY <3>1, <3>2, <2>1, <2>2, <1>4, <1>13, <1>5
  <2>3. CASE v # th
    <3>1. Settling(v) /\ call'[v] = call[v]
      BY <2>3, <1>4, <1>13
    <3>2. /\ call[v].token \in 1..subs
          /\ arrival[call[v].token].status = "kPending"
          /\ call[v].op = "CreateTopic" => call[v].schema # Null
          /\ \A w \in Topics : /\ resolver[w] # call[v].token
                               /\ call[v].op # "CreateTopic"
                                    => channel[w] # call[v].token
          /\ \A u \in Threads : Settling(u) /\ call[u].token = call[v].token
                                   => u = v
      BY <3>1 DEF IInv, Reports, Tokens
    <3>3. call[v].token # k
      BY <3>2, <1>1 DEF k
    <3>4. \A w \in Topics : /\ resolver'[w] # call[v].token
                            /\ call[v].op # "CreateTopic"
                                 => channel'[w] # call[v].token
      <4>1. call[v].token # NoSub
        BY <3>2 DEF NoSub
      <4>2. ASSUME NEW w \in Topics
            PROVE  resolver'[w] \in {NoSub, resolver[w]} /\ channel'[w] \in {NoSub, channel[w]}
        BY <1>6
      <4>3. ASSUME NEW w \in Topics
            PROVE  /\ resolver'[w] # call[v].token
                   /\ call[v].op # "CreateTopic" => channel'[w] # call[v].token
        BY <3>2, <4>1, <4>2
      <4> QED BY <4>3
    <3>5. \A u \in Threads : Settling(u)' /\ call'[u].token = call[v].token
                                => u = v
      BY <3>2, <3>3, <1>4, <1>13, <1>14
    <3> QED BY <3>1, <3>2, <3>4, <3>5
  <2> QED BY <2>2, <2>3
<1> QED BY <1>7, <1>9, <1>10, <1>11, <1>12, <1>17, <1>18 DEF IInv, Reports

\* CreateTopic resolves, or Unsubscribe drops, the token it took.
LEMMA AfterUnlockKeeps ==
  ASSUME IInv, NEW th \in Threads, AfterUnlock(th)
  PROVE  IInv'
<1> DEFINE a == call[th].token
           o == IF call[th].op = "CreateTopic"
                THEN [status |-> "kOk", schema |-> call[th].schema]
                ELSE [status |-> "kSubscriptionEnded", schema |-> Null]
<1>1. call[th].pc = "settle" /\ Settling(th) /\ call[th] \in CallInProgress
  BY HasCall DEF IInv, AfterUnlock, Settling
<1>2. /\ a \in 1..subs /\ a \in Subs /\ arrival[a].status = "kPending"
      /\ call[th].op = "CreateTopic" => call[th].schema # Null
  <2>1. /\ a \in 1..subs /\ arrival[a].status = "kPending"
        /\ call[th].op = "CreateTopic" => call[th].schema # Null
    BY <1>1 DEF IInv, Reports, Tokens
  <2>. QED
    BY <2>1, MadeIsSub DEF IInv, Reports
<1>3. /\ Leave(th, NoSub)
      /\ UNCHANGED <<carriage, mu, channel, subscription_schema, resolver,
                     schema, declared, accepted, delivery, subs, stack>>
  BY DEF AfterUnlock, slotVars, frameVars
<1>4. arrival' = [arrival EXCEPT ![a] = o]
  <2>1. arrival[a].status \notin Outcomes
    BY <1>2 DEF Outcomes
  <2>2. a # NoSub
    BY <1>2 DEF NoSub
  <2> QED BY <2>1, <2>2, <1>2
          DEF AfterUnlock, Resolve, DropResolver, Settle
<1>5. /\ call' \in [Threads -> CallInProgress \cup {NoCall}]
      /\ call'[th] = NoCall
      /\ \A u \in Threads : u # th => call'[u] = call[u]
  BY <1>1, <1>3, LeaveFacts DEF IInv, NoSub
<1>6. /\ DOMAIN arrival' = Subs /\ arrival'[a] = o
      /\ \A s \in Subs : s # a => arrival'[s] = arrival[s]
  BY <1>2, <1>4 DEF IInv, Types
<1>7. Types'
  BY <1>3, <1>5, <1>6 DEF IInv, Types
<1>8. Handlers'
  BY <1>1, <1>3, <1>5, IdleCall, HandlersStay DEF IInv
<1>9. Shapes'
  BY <1>3 DEF IInv, Shapes
<1>10. Arguments'
  <2>1. call'[th].op # "CreateTopic"
    BY <1>5, IdleCall
  <2>. QED
    BY <1>3, <1>5, <2>1 DEF IInv, Reports, Arguments
<1>11. Bounded'
  <2>1. call[th].pc # "lock" /\ call'[th].pc # "lock"
    BY <1>1, <1>5, IdleCall
  <2>. QED
    BY <1>3, <1>5, <2>1, BoundedSame DEF IInv, Reports
<1>12. \A u \in Threads : /\ Settling(u)' => u # th /\ Settling(u)
                          /\ u # th => (Settling(u)' <=> Settling(u))
  BY <1>5 DEF Settling, NoCall
<1>13. \A u \in Threads : u # th /\ Settling(u) => call[u].token # a
  BY <1>1 DEF IInv, Reports, Tokens
<1> HIDE DEF a
<1>14. \A s, y : (/\ s \in Subs /\ Told(s, y)
                  /\ s # a \/ call[th].op = "CreateTopic")
                    => Told(s, y)'
  <2> SUFFICES ASSUME NEW s \in Subs, NEW y, Told(s, y),
                      s # a \/ call[th].op = "CreateTopic"
               PROVE  Told(s, y)'
    OBVIOUS
  <2>1. CASE s # a
    <3>1. arrival'[s] = arrival[s]
      BY <2>1, <1>6
    <3>2. \A u \in Threads : Settling(u) /\ call[u].token = s
                                => Settling(u)' /\ call'[u] = call[u]
      BY <2>1, <1>5, <1>12 DEF a
    <3> QED BY <3>1, <3>2 DEF Told
  <2>2. CASE s = a
    <3>1. \E u \in Threads : Settling(u) /\ call[u].token = s /\ call[u].schema = y
      BY <2>2, <1>2 DEF Told
    <3>2. call[th].schema = y
      BY <3>1, <2>2, <1>13
    <3>3. arrival'[s] = [status |-> "kOk", schema |-> y]
      BY <2>2, <3>2, <1>6
    <3> QED BY <3>3 DEF Told
  <2> QED BY <2>1, <2>2
<1>15. ASSUME NEW v \in Topics PROVE Slot(v)'
  <2>0. Slot(v)
    BY DEF IInv, Reports, Slots
  <2>1. /\ resolver[v] # a
        /\ call[th].op # "CreateTopic" => channel[v] # a
    BY <1>1 DEF IInv, Reports, Tokens, a
  <2>2. channel[v] # NoSub => channel[v] \in Subs
    BY <2>0, CurrentIsMade, MadeIsSub DEF IInv, Reports
  <2>3. resolver[v] # NoSub => arrival'[resolver[v]] = arrival[resolver[v]]
    BY <2>0, <2>1, <2>2, <1>6 DEF Slot
  <2>4. channel[v] # NoSub /\ resolver[v] = NoSub
           => Told(channel[v], subscription_schema[v])'
    <3>1. \A s, y : (/\ channel[v] # NoSub /\ resolver[v] = NoSub
                     /\ s = channel[v] /\ y = subscription_schema[v])
                       => Told(s, y)'
      <4> SUFFICES ASSUME NEW s, NEW y,
                          channel[v] # NoSub, resolver[v] = NoSub,
                          s = channel[v], y = subscription_schema[v]
                   PROVE  Told(s, y)'
        OBVIOUS
      <4>1. s \in Subs
        BY <2>2
      <4>2. Told(s, y)
        BY <2>0 DEF Slot
      <4>3. s # a \/ call[th].op = "CreateTopic"
        BY <2>1
      <4> QED BY <4>1, <4>2, <4>3, <1>14
    <3> QED BY <3>1, <1>3
  <2> QED BY <2>0, <2>3, <2>4, <1>3 DEF Slot
<1>16. Slots'
  BY <1>3, <1>15 DEF IInv, Reports, Slots
<1>17. Tokens'
  <2> SUFFICES ASSUME NEW v \in Threads, v # th, Settling(v)
               PROVE  /\ call[v].token \in 1..subs
                      /\ arrival'[call[v].token].status = "kPending"
                      /\ call[v].op = "CreateTopic" => call[v].schema # Null
                      /\ \A w \in Topics :
                           /\ resolver[w] # call[v].token
                           /\ call[v].op # "CreateTopic"
                                => channel[w] # call[v].token
                      /\ \A u \in Threads :
                           Settling(u) /\ call[u].token = call[v].token => u = v
    BY <1>3, <1>5, <1>12 DEF Tokens
  <2>0. call[v].token \in 1..subs
    BY DEF IInv, Reports, Tokens
  <2>1. call[v].token \in Subs
    BY <2>0, MadeIsSub DEF IInv, Reports
  <2>2. call[v].token # a
    BY <1>13
  <2> QED BY <2>1, <2>2, <1>6 DEF IInv, Reports, Tokens
<1> QED BY <1>7, <1>8, <1>9, <1>10, <1>11, <1>16, <1>17 DEF IInv, Reports

\* Subscribe gives the topic a fresh subscription: with a token, or, where
\* nothing has to be declared first, told at once.
LEMMA SubscribeKeeps ==
  ASSUME IInv, NEW th \in Threads, Subscribe(th)
  PROVE  IInv'
<1> DEFINE t == call[th].topic
           n == subs + 1
           k == resolver[t]
           open == carriage = "kCarried" /\ schema[t] = Null
<1>1. call[th] \in CallInProgress /\ t \in Topics
  BY HasCall DEF IInv, Subscribe, Entered, CallInProgress
<1>2. /\ call[th].pc = "lock" /\ call[th].op = "Subscribe" /\ mu = NoThread
      /\ subs' = n
      /\ channel' = [channel EXCEPT ![t] = n]
      /\ resolver' = [resolver EXCEPT ![t] = IF open THEN n ELSE NoSub]
      /\ subscription_schema' = IF open THEN subscription_schema
            ELSE [subscription_schema EXCEPT ![t] = schema[t]]
      /\ arrival' = IF open THEN Create(DropResolver(arrival, k), n)
                    ELSE Ready(DropResolver(arrival, k), n, schema[t])
      /\ Leave(th, NoSub)
      /\ UNCHANGED <<carriage, mu, schema, declared, accepted, delivery, stack>>
  BY DEF Subscribe, Entered, frameVars
<1>3. /\ call' \in [Threads -> CallInProgress \cup {NoCall}]
      /\ call'[th] = NoCall
      /\ \A u \in Threads : u # th => call'[u] = call[u]
  BY <1>1, <1>2, LeaveFacts DEF IInv, NoSub
<1>4. /\ k \in Nat /\ subs \in Nat /\ channel[t] \in Nat
      /\ schema[t] \in MaybeSchema
  BY <1>1 DEF IInv, Types
\* The call was counted while it was on its way.
<1>5. Bounded' /\ n \in Subs
  <2>0. NoCall.pc # "lock"
    BY DEF NoCall
  <2>a. call'[th].pc # "lock" /\ \A u \in Threads : u # th => call'[u] = call[u]
    BY <2>0, <1>3
  <2>1. /\ th \in Entering
        /\ Entering' = Entering \ {th}
    BY <2>a, <1>2 DEF Entering
  <2>2. Cardinality(Entering') = Cardinality(Entering) - 1
        /\ Cardinality(Entering) \in Nat /\ Cardinality(Entering') \in Nat
    BY <2>1, EnteringFinite, FS_RemoveElement, FS_CardinalityType
  <2>3. subs + Cardinality(Entering) <= MaxSub
    BY DEF IInv, Reports, Bounded
  <2>b. subs' = subs + 1
    BY <1>2
  <2>c. PICK e \in Nat, f \in Nat :
          e = Cardinality(Entering) /\ f = Cardinality(Entering') /\ f = e - 1
    BY <2>2
  <2>d. subs \in Nat /\ MaxSub \in Nat /\ subs + e <= MaxSub
    BY <2>3, <2>c, <1>4, InProcessAssumption
  <2>e. subs + 1 + f <= MaxSub
    BY <2>c, <2>d
  <2>4. Bounded'
    BY <2>b, <2>c, <2>e DEF Bounded
  <2>5. n \in Subs
    BY <2>2, <2>3, <1>4, InProcessAssumption DEF Subs
  <2> QED BY <2>4, <2>5
<1>6. \A s \in 1..subs : s \in Subs /\ s # n
  BY <1>4, <1>5, InProcessAssumption DEF Subs
\* Of the earlier arrivals only the one whose token is dropped is settled.
<1>7. /\ DOMAIN arrival' = Subs
      /\ arrival'[n] = IF open THEN [status |-> "kPending", schema |-> Null]
                       ELSE [status |-> "kOk", schema |-> schema[t]]
      /\ \A s \in Subs : s # n /\ s # k => arrival'[s] = arrival[s]
  <2>1. DOMAIN arrival = Subs
    BY DEF IInv, Types
  <2>2. /\ DOMAIN DropResolver(arrival, k) = Subs
        /\ \A s \in Subs : s # k => DropResolver(arrival, k)[s] = arrival[s]
    BY <2>1 DEF DropResolver, Settle
  <2> HIDE DEF k
  <2> QED BY <2>2, <1>2, <1>5 DEF Create, Ready
<1>8. /\ channel'[t] = n
      /\ resolver'[t] = IF open THEN n ELSE NoSub
      /\ ~open => subscription_schema'[t] = schema[t]
      /\ \A v \in Topics : v # t =>
            /\ channel'[v] = channel[v] /\ resolver'[v] = resolver[v]
            /\ subscription_schema'[v] = subscription_schema[v]
  BY <1>1, <1>2 DEF IInv, Types
<1>9. Types'
  <2>0. subs \in Nat
    BY <1>4
  <2>1. n \in Nat /\ NoSub \in Nat
    BY <2>0 DEF NoSub
  <2>2. /\ channel' \in [Topics -> Nat] /\ resolver' \in [Topics -> Nat]
        /\ subscription_schema' \in [Topics -> MaybeSchema]
    BY <2>1, <1>2, <1>4 DEF IInv, Types
  <2>3. DOMAIN arrival' = Subs /\ subs' \in Nat
    BY <2>1, <1>2, <1>7
  <2>4. /\ carriage' = carriage /\ mu' = mu /\ schema' = schema /\ declared' = declared
        /\ accepted' = accepted /\ delivery' = delivery /\ stack' = stack
    BY <1>2
  <2> HIDE DEF n
  <2> QED BY <2>2, <2>3, <2>4, <1>3 DEF IInv, Types
<1>10. k # NoSub => k = channel[t]
  BY <1>1 DEF IInv, Reports, Slots, Slot
<1>11. \A v \in Topics : channel[v] # NoSub => channel[v] \in 1..subs
  BY CurrentIsMade DEF IInv, Reports, Slots
<1>12. open <=> carriage = "kCarried" /\ declared[t] = NotDeclared
  BY <1>1 DEF IInv, Shapes
<1>13. declared[t] # NotDeclared => schema[t] = declared[t]
  BY <1>1 DEF IInv, Shapes
<1> HIDE DEF t, n, k, open
<1>idle. NoCall.op = "none" /\ NoCall.pc = "idle"
  BY DEF NoCall
<1>14. Handlers'
  <2>1. \A u \in Threads : call[u].pc # "callback"
    BY <1>2, NoHandler DEF IInv
  <2>. QED
    BY <1>idle, <1>2, <1>3, <2>1 DEF IInv, Handlers
<1>15. Shapes'
  BY <1>2 DEF IInv, Shapes
<1>16. Arguments'
  BY <1>idle, <1>2, <1>3 DEF IInv, Reports, Arguments
<1>17. \A u \in Threads : Settling(u)' <=> Settling(u)
  BY <1>idle, <1>2, <1>3 DEF Settling
<1>18. \A u \in Threads : Settling(u) => u # th
  BY <1>2 DEF Settling
<1>19. \A s, y : s \in Subs /\ s # n /\ s # k /\ Told(s, y) => Told(s, y)'
  BY <1>3, <1>7, <1>17, <1>18 DEF Told
<1>20. ASSUME NEW v \in Topics PROVE Slot(v)'
  <2>0. Slot(v)
    BY DEF IInv, Reports, Slots
  <2>1. CASE v = t
    <3>1. n # NoSub /\ n <= n
      BY <1>4 DEF n, NoSub
    <3>2. CASE open
      <4>1. resolver'[v] = n /\ channel'[v] = n /\ subs' = n
        BY <3>2, <2>1, <1>2, <1>8
      <4>2. arrival'[n].status = "kPending"
        BY <3>2, <1>7
      <4>3. carriage' = "kCarried" /\ declared'[v] = NotDeclared
        BY <3>2, <2>1, <1>2, <1>12
      <4> QED BY <3>1, <4>1, <4>2, <4>3 DEF Slot
    <3>3. CASE ~open
      <4>1. resolver'[v] = NoSub /\ channel'[v] = n
            /\ subscription_schema'[v] = schema[t]
        BY <3>3, <2>1, <1>8
      <4>2. \A s, y : s = n /\ y = schema[t] => Told(s, y)'
        BY <3>3, <1>7 DEF Told
      <4>3. Told(channel[v], subscription_schema[v])'
        BY <4>1, <4>2
      <4>4. carriage = "kCarried" => declared[v] # NotDeclared
                                     /\ schema[t] = declared[v]
        BY <3>3, <2>1, <1>12, <1>13
      <4> QED BY <3>1, <4>1, <4>3, <4>4, <1>2 DEF Slot
    <3> QED BY <3>2, <3>3
  <2>2. CASE v # t
    <3>1. channel[v] # NoSub => /\ channel[v] \in Subs /\ channel[v] # n
                                /\ channel[v] # k
      BY <2>2, <1>1, <1>6, <1>10, <1>11 DEF IInv, Reports, Slots
    <3>2. \A s, y : (/\ channel[v] # NoSub /\ resolver[v] = NoSub
                     /\ s = channel[v] /\ y = subscription_schema[v])
                       => Told(s, y)'
      BY <3>1, <2>0, <1>19 DEF Slot
    <3>3. channel[v] # NoSub /\ resolver[v] = NoSub
             => Told(channel[v], subscription_schema[v])'
      BY <3>2, <2>2, <1>8
    <3>4. resolver[v] # NoSub => arrival'[resolver[v]] = arrival[resolver[v]]
      BY <3>1, <2>0, <1>7 DEF Slot
    <3>5. channel[v] <= n
      <4>1. channel[v] <= subs
        BY <2>0 DEF Slot
      <4>2. subs \in Nat /\ channel[v] \in Nat
        BY DEF IInv, Types
      <4>. QED
        BY <4>1, <4>2 DEF n
    <3> QED BY <3>3, <3>4, <3>5, <2>0, <2>2, <1>2, <1>8 DEF Slot
  <2> QED BY <2>1, <2>2
<1>21. Slots'
  <2>1. \A v \in Topics : channel[v] # n
    BY <1>4, <1>6, <1>11 DEF n, NoSub
  <2> QED BY <2>1, <1>1, <1>8, <1>20 DEF IInv, Reports, Slots
<1>22. Tokens'
  <2> SUFFICES ASSUME NEW v \in Threads, Settling(v)
               PROVE  /\ call[v].token \in 1..n
                      /\ arrival'[call[v].token].status = "kPending"
                      /\ call[v].op = "CreateTopic" => call[v].schema # Null
                      /\ \A w \in Topics :
                           /\ resolver'[w] # call[v].token
                           /\ call[v].op # "CreateTopic"
                                => channel'[w] # call[v].token
                      /\ \A u \in Threads :
                           Settling(u) /\ call[u].token = call[v].token => u = v
    <3>1. subs' = n
      BY <1>2
    <3>2. \A u \in Threads : Settling(u)' => Settling(u) /\ call'[u] = call[u]
      BY <1>3, <1>17, <1>18
    <3>3. SUFFICES ASSUME NEW v \in Threads, Settling(v)'
                   PROVE  /\ call'[v].token \in 1..subs'
                          /\ arrival'[call'[v].token].status = "kPending"
                          /\ call'[v].op = "CreateTopic" => call'[v].schema # Null
                          /\ \A w \in Topics :
                               /\ resolver'[w] # call'[v].token
                               /\ call'[v].op # "CreateTopic"
                                    => channel'[w] # call'[v].token
                          /\ \A u \in Threads :
                               Settling(u)' /\ call'[u].token = call'[v].token => u = v
      BY DEF Tokens
    <3>4. Settling(v) /\ call'[v] = call[v]
      BY <3>2, <3>3
    <3>. QED
      BY <3>1, <3>2, <3>4
  <2>1. /\ call[v].token \in 1..subs
        /\ arrival[call[v].token].status = "kPending"
        /\ call[v].op = "CreateTopic" => call[v].schema # Null
        /\ \A w \in Topics : /\ resolver[w] # call[v].token
                             /\ call[v].op # "CreateTopic"
                                  => channel[w] # call[v].token
        /\ \A u \in Threads : Settling(u) /\ call[u].token = call[v].token
                                 => u = v
    BY DEF IInv, Reports, Tokens
  <2>2. call[v].token # k
    BY <2>1, <1>1 DEF k
  <2>3. call[v].token \in Subs /\ call[v].token # n /\ call[v].token # NoSub
    BY <2>1, <1>6 DEF NoSub
  <2>4. arrival'[call[v].token] = arrival[call[v].token]
    BY <2>2, <2>3, <1>7
  <2>5. call[v].token \in 1..n
    <3>1. PICK x \in 1..subs : x = call[v].token
      BY <2>1
    <3>2. subs \in Nat
      BY <1>4
    <3>3. x \in 1..n
      BY <3>2 DEF n
    <3>. QED
      BY <3>1, <3>3
  <2>6. \A w \in Topics : /\ resolver'[w] # call[v].token
                          /\ call[v].op # "CreateTopic"
                               => channel'[w] # call[v].token
    BY <2>1, <2>3, <1>8
  <2> QED BY <2>1, <2>4, <2>5, <2>6
<1> QED BY <1>5, <1>9, <1>14, <1>15, <1>16, <1>21, <1>22 DEF IInv, Reports

\* Every step keeps the invariant.
LEMMA NextIInv == IInv /\ [Next]_vars => IInv'
<1> SUFFICES ASSUME IInv, [Next]_vars PROVE IInv'
  OBVIOUS
<1>1. CASE UNCHANGED vars
  BY <1>1, Untouched DEF vars, arrivalVars, frameVars
<1>2. CASE Next
  <2>1. PICK th \in Threads :
          \/ \E t \in Topics, op \in Ops \ {"CreateTopic"} : Enter(th, op, t, Null)
          \/ \E t \in Topics, x \in MaybeSchema : Enter(th, "CreateTopic", t, x)
          \/ Finish(th)
          \/ \E a \in Subs, forever \in BOOLEAN : Wait(th, a, forever)
    BY <1>2 DEF Next
  <2>2. CASE \E t \in Topics, op \in Ops \ {"CreateTopic"} : Enter(th, op, t, Null)
    BY <2>2, EnterKeeps DEF MaybeSchema
  <2>3. CASE \E t \in Topics, x \in MaybeSchema : Enter(th, "CreateTopic", t, x)
    BY <2>3, EnterKeeps DEF Ops
  <2>4. CASE \E a \in Subs, forever \in BOOLEAN : Wait(th, a, forever)
    BY <2>4, Untouched DEF Wait, WaitBegin, frameVars
  <2>5. CASE Answered(th) \/ TimedOut(th)
    BY <2>5, Untouched DEF Answered, TimedOut, WaitAnswered, WaitTimeout,
                           frameVars
  <2>6. CASE Redeclare(th) \/ Declare(th)
    BY <2>6, RedeclareKeeps, DeclareKeeps
  <2>7. CASE PublishNothing(th) \/ PublishBegin(th) \/ PublishEnd(th)
    BY <2>7, PublishNothingKeeps, PublishBeginKeeps, PublishEndKeeps
  <2>8. CASE Subscribe(th) \/ Unsubscribe(th) \/ AfterUnlock(th)
    BY <2>8, SubscribeKeeps, UnsubscribeKeeps, AfterUnlockKeeps
  <2> QED BY <2>1, <2>2, <2>3, <2>4, <2>5, <2>6, <2>7, <2>8 DEF Finish
<1> QED BY <1>1, <1>2

\* So the invariant holds throughout.
LEMMA AlwaysIInv == Spec => []IInv
  BY InitIInv, NextIInv, PTL DEF Spec

------------------------------------------------------------------------------
(* The theorems. *)

\* A row is delivered under the schema that its arrival reported.
LEMMA IInvDelivered == IInv => DeliveredAsReported
<1> SUFFICES ASSUME IInv, NEW th \in Threads, Delivering(th)
             PROVE  /\ carriage = "kCarried" => delivery[th].schema # Null
                    /\ \/ arrival[delivery[th].sub] =
                             [status |-> "kOk", schema |-> delivery[th].schema]
                       \/ \E u \in Threads :
                             /\ call[u].pc = "settle"
                             /\ call[u].op = "CreateTopic"
                             /\ call[u].token = delivery[th].sub
                             /\ call[u].schema = delivery[th].schema
  BY DEF DeliveredAsReported
<1>1. Current(th)
  BY DEF IInv, Handlers, Delivering
<1>2. PICK t \in Topics : /\ channel[t] = delivery[th].sub
                          /\ delivery[th].schema = subscription_schema[t]
                          /\ MayPublish(t)
  BY <1>1 DEF Current
<1>3. channel[t] # NoSub /\ resolver[t] = NoSub
  BY <1>2 DEF IInv, Reports, Slots, Slot, MayPublish, Delivering
<1>4. /\ Told(channel[t], subscription_schema[t])
      /\ carriage = "kCarried" => subscription_schema[t] = declared[t]
  BY <1>3 DEF IInv, Reports, Slots, Slot
<1>5. carriage = "kCarried" => declared[t] # Null
  BY DEF IInv, Shapes
<1> QED BY <1>2, <1>4, <1>5 DEF Told, Settling

\* Publish hands a subscriber's callback no row whose schema its arrival has
\* not told, or is not about to tell with the CreateTopic that declared it;
\* and a carrying instance hands over none without a schema.
THEOREM DeliveriesAreReported == Spec => []DeliveredAsReported
  BY AlwaysIInv, IInvDelivered, PTL

\* No handler runs for a subscription whose cancelling call has returned.
LEMMA IInvQuiet == IInv => QuietAfterCancel
<1> SUFFICES ASSUME IInv PROVE QuietAfterCancel
  OBVIOUS
<1> DEFINE D == {th \in Threads : Delivering(th)}
<1>1. \A th \in Threads : Delivering(th) => mu = th /\ Current(th)
  BY DEF IInv, Handlers, Delivering
<1>2. D = {} \/ D = {mu}
  BY <1>1
<1>3. Cardinality(D) <= 1
  <2>1. Cardinality({}) = 0 /\ Cardinality({mu}) = 1
    BY FS_EmptySet, FS_Singleton
  <2> HIDE DEF D
  <2> QED BY <2>1, <1>2
<1> QED BY <1>1, <1>3 DEF QuietAfterCancel, Current

\* Unsubscribe, and a Subscribe that replaces, take the mutex that Publish
\* keeps across the callback: no handler of a subscription that is over runs,
\* and no two handlers run at once.
THEOREM CancelledStaysQuiet == Spec => []QuietAfterCancel
  BY AlwaysIInv, IInvQuiet, PTL

\* CreateTopic accepts a second declaration of a topic only when it equals the
\* first, wherever the two can be compared.
THEOREM ShapeIsUnique == Spec => []OneShapePerTopic
<1>1. IInv => OneShapePerTopic
  BY DEF IInv, Shapes, OneShapePerTopic
<1> QED BY <1>1, AlwaysIInv, PTL
=============================================================================
