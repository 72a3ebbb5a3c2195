---------------------------- MODULE LibraryProof ----------------------------
(***************************************************************************)
(* The library's two registries over a provider's contract.                *)
(*                                                                         *)
(* RegistryBacked for any number of Publishers, threads, topics, schemas   *)
(* and options.  The invariant adds to it only where the pieces of state   *)
(* can be: a call in progress has a Publisher, a topic and an entry, and   *)
(* an entry is never mistaken for its absence.                             *)
(*                                                                         *)
(* GrantsAreServed and DestroyedReleases for any number of threads, calls  *)
(* and deliveries.  The invariant says what the call that has the          *)
(* in-progress flag knows: that nobody else was granted a watch, what the  *)
(* count is, and whether the provider has a watch open.                    *)
(***************************************************************************)
EXTENDS Publisher, SchemaWatch, FiniteSetTheorems, TLAPS

------------------------------------------------------------------------------
(* The Publishers' topics *)

MaybeEntry == TopicEntry \cup {NoEntry}

CallRecord == [pc : {"provider", "failed"}, publisher : Publishers,
               topic : Topics, entry : TopicEntry]

\* The registries, the calls and what the provider has.
Shape ==
    /\ topics \in [Publishers -> [Topics -> MaybeEntry]]
    /\ created \in [Topics -> MaybeEntry]
    /\ call \in [Callers -> CallRecord \cup {NoCall}]

\* The provider has what the entry e says, unless nothing can compare them.
Backs(c, e) ==
    /\ c # NoEntry
    /\ {e.schema, c.schema} \cap Opaque = {} => e.schema = c.schema
    /\ e.options.profile \in {NoProfile, c.options.profile}
    /\ e.options.bound \in {0, c.options.bound}

\* The first conjunct of RegistryBacked.
Backed ==
    \A p \in Publishers, t \in Topics :
        topics[p][t] # NoEntry /\ (\A th \in Callers : ~InProvider(th, p, t))
            => Backs(created[t], topics[p][t])

\* The second: a call owns the entry it reserved.
Owned ==
    \A p \in Publishers, t \in Topics, th, u \in Callers :
        InProvider(th, p, t) =>
            /\ topics[p][t] = call[th].entry
            /\ InProvider(u, p, t) => u = th

PInv == Shape /\ Backed /\ Owned

------------------------------------------------------------------------------
\* An entry has a schema, which the absence of one has not.
LEMMA EntryIsThere == ASSUME NEW e \in TopicEntry PROVE e # NoEntry
  BY PublisherAssumption DEF TopicEntry, NoEntry

\* NoCall is idle and a call in progress is not.
LEMMA CallCases ==
  ASSUME Shape, NEW th \in Callers
  PROVE  /\ call[th].pc = "idle" <=> call[th] = NoCall
         /\ call[th].pc # "idle" => call[th] \in CallRecord
  BY DEF Shape, CallRecord, NoCall

\* What the provider accepted is backed by what it has (the provider's own
\* check of a re-declaration, against ConflictsWith and the options).
LEMMA AcceptableIsBacked ==
  ASSUME NEW e \in TopicEntry, NEW c \in TopicEntry, Acceptable(e, c)
  PROVE  Backs(c, e)
  BY EntryIsThere DEF Acceptable, ConflictsWith, OptionsConflict, Backs

\* An entry is backed by itself.
LEMMA BackedByItself ==
  ASSUME NEW e \in TopicEntry
  PROVE  Backs(e, e)
  BY EntryIsThere DEF Backs

\* The Publishers start without a topic.
LEMMA InitPInv == Init => PInv
  BY DEF Init, PInv, Shape, MaybeEntry, Backed, Owned, InProvider, NoCall

\* CreateTopic reserves: the entry is new, so no other call is at it.
LEMMA FirstKeeps ==
  ASSUME PInv, NEW th \in Callers, NEW p \in Publishers, NEW t \in Topics,
         NEW e \in TopicEntry, CreateTopicFirst(th, p, t, e)
  PROVE  PInv'
<1>1. Shape'
  BY DEF PInv, Shape, CreateTopicFirst, Reserve, CallRecord, MaybeEntry
<1>2. \A q \in Publishers, s \in Topics :
        topics'[q][s] = IF q = p /\ s = t THEN e ELSE topics[q][s]
  BY DEF PInv, Shape, CreateTopicFirst, Reserve
<1>3. \A u \in Callers, q \in Publishers, s \in Topics :
        InProvider(u, q, s)' <=> IF u = th THEN q = p /\ s = t
                                 ELSE InProvider(u, q, s)
  BY DEF PInv, Shape, CreateTopicFirst, InProvider
<1>4. \A u \in Callers : ~InProvider(u, p, t)
  <2> SUFFICES ASSUME NEW u \in Callers, InProvider(u, p, t) PROVE FALSE
    OBVIOUS
  <2>1. call[u].entry \in TopicEntry
    BY CallCases DEF PInv, InProvider, CallRecord
  <2>2. topics[p][t] = call[u].entry
    BY DEF PInv, Owned
  <2> QED BY <2>1, <2>2, EntryIsThere DEF CreateTopicFirst
<1>5. Backed'
  <2> SUFFICES ASSUME NEW q \in Publishers, NEW s \in Topics,
                      topics'[q][s] # NoEntry,
                      \A u \in Callers : ~InProvider(u, q, s)'
               PROVE  Backs(created[s], topics'[q][s])
    BY DEF Backed, Backs, CreateTopicFirst
  <2>1. ~(q = p /\ s = t)
    BY <1>3
  <2>2. topics'[q][s] = topics[q][s]
    BY <2>1, <1>2
  <2>3. ~InProvider(th, q, s)
    BY CallCases DEF PInv, CreateTopicFirst, InProvider
  <2>4. \A u \in Callers : ~InProvider(u, q, s)
    BY <1>3, <2>3
  <2> QED BY <2>2, <2>4 DEF PInv, Backed
<1>6. Owned'
  <2> SUFFICES ASSUME NEW q \in Publishers, NEW s \in Topics,
                      NEW v \in Callers, NEW u \in Callers,
                      InProvider(v, q, s)'
               PROVE  topics'[q][s] = call'[v].entry
                      /\ (InProvider(u, q, s)' => u = v)
    BY DEF Owned
  <2>1. call'[th].entry = e
    BY DEF PInv, Shape, CreateTopicFirst
  <2>2. v # th => call'[v] = call[v]
    BY DEF PInv, Shape, CreateTopicFirst
  <2>3. CASE v = th
    BY <2>1, <2>3, <1>2, <1>3, <1>4
  <2>4. CASE v # th
    <3>1. InProvider(v, q, s) /\ ~(q = p /\ s = t)
      BY <2>4, <1>3, <1>4
    <3> QED BY <3>1, <2>2, <2>4, <1>2, <1>3 DEF PInv, Owned
  <2> QED BY <2>3, <2>4
<1> QED BY <1>1, <1>5, <1>6 DEF PInv

\* The provider has the topic: the entry is what it made, or one it accepts;
\* what it has for a topic never changes.
LEMMA CreatesKeeps ==
  ASSUME PInv, NEW th \in Callers, ProviderCreates(th)
  PROVE  PInv'
<1> DEFINE p == call[th].publisher
           t == call[th].topic
           e == call[th].entry
<1>0. p \in Publishers /\ t \in Topics /\ e \in TopicEntry
  BY CallCases DEF PInv, ProviderCreates, CallRecord
<1>1. Shape'
  BY <1>0 DEF PInv, Shape, ProviderCreates, MaybeEntry
<1>2. topics' = topics
  BY DEF ProviderCreates
<1>3. \A u \in Callers, q \in Publishers, s \in Topics :
        InProvider(u, q, s)' <=> u # th /\ InProvider(u, q, s)
  BY DEF PInv, Shape, ProviderCreates, InProvider, NoCall
<1>4. \A u \in Callers : u # th => call'[u] = call[u]
  BY DEF PInv, Shape, ProviderCreates
<1>5. Backs(created'[t], e)
  <2>1. CASE created[t] = NoEntry
    <3>1. created'[t] = e
      BY <2>1, <1>0 DEF PInv, Shape, ProviderCreates
    <3> QED BY <3>1, <1>0, BackedByItself
  <2>2. CASE created[t] # NoEntry
    <3>1. created[t] \in TopicEntry /\ created'[t] = created[t]
      BY <2>2, <1>0 DEF PInv, Shape, MaybeEntry, ProviderCreates
    <3>2. Acceptable(e, created[t])
      BY <2>2 DEF ProviderCreates
    <3> QED BY <3>1, <3>2, <1>0, AcceptableIsBacked
  <2> QED BY <2>1, <2>2
<1>6. \A s \in Topics : created[s] # NoEntry => created'[s] = created[s]
  BY DEF PInv, Shape, ProviderCreates
<1>7. Backed'
  <2> SUFFICES ASSUME NEW q \in Publishers, NEW s \in Topics,
                      topics[q][s] # NoEntry,
                      \A u \in Callers : ~InProvider(u, q, s)'
               PROVE  Backs(created'[s], topics[q][s])
    BY <1>2 DEF Backed, Backs
  <2>1. CASE InProvider(th, q, s)
    <3>1. q = p /\ s = t /\ topics[q][s] = e
      BY <2>1 DEF InProvider, PInv, Owned
    <3> HIDE DEF p, t, e
    <3> QED BY <3>1, <1>5
  <2>2. CASE ~InProvider(th, q, s)
    <3>1. Backs(created[s], topics[q][s])
      BY <2>2, <1>3 DEF PInv, Backed
    <3>2. created'[s] = created[s]
      BY <3>1, <1>6 DEF Backs
    <3> QED BY <3>1, <3>2
  <2> QED BY <2>1, <2>2
<1>8. Owned'
  BY <1>2, <1>3, <1>4 DEF PInv, Owned
<1> QED BY <1>1, <1>7, <1>8 DEF PInv

\* The provider throws: the entry is still the call's.
LEMMA ThrowsKeeps ==
  ASSUME PInv, NEW th \in Callers, ProviderThrows(th)
  PROVE  PInv'
<1>0. call[th] \in CallRecord
  BY CallCases DEF PInv, ProviderThrows
<1>1. Shape'
  BY <1>0 DEF PInv, Shape, ProviderThrows, CallRecord
<1>2. \A u \in Callers, q \in Publishers, s \in Topics :
        /\ InProvider(u, q, s)' <=> InProvider(u, q, s)
        /\ call'[u].entry = call[u].entry
  BY <1>0 DEF PInv, Shape, ProviderThrows, InProvider, CallRecord
<1>3. topics' = topics /\ created' = created
  BY DEF ProviderThrows
<1>4. Backed'
  BY <1>2, <1>3 DEF PInv, Backed, Backs
<1>5. Owned'
  BY <1>2, <1>3 DEF PInv, Owned
<1> QED BY <1>1, <1>4, <1>5 DEF PInv

\* The catch block: the entry that goes is this call's own.
LEMMA FailsKeeps ==
  ASSUME PInv, NEW th \in Callers, CreateTopicFails(th)
  PROVE  PInv'
<1> DEFINE p == call[th].publisher
           t == call[th].topic
<1>0. p \in Publishers /\ t \in Topics
  BY CallCases DEF PInv, CreateTopicFails, CallRecord
<1>1. Shape'
  BY <1>0 DEF PInv, Shape, CreateTopicFails, Erase, MaybeEntry
<1>2. \A q \in Publishers, s \in Topics :
        topics'[q][s] = IF q = p /\ s = t THEN NoEntry ELSE topics[q][s]
  BY <1>0 DEF PInv, Shape, CreateTopicFails, Erase
<1>3. \A u \in Callers, q \in Publishers, s \in Topics :
        InProvider(u, q, s)' <=> u # th /\ InProvider(u, q, s)
  BY DEF PInv, Shape, CreateTopicFails, InProvider, NoCall
<1>4. \A u \in Callers : u # th => call'[u] = call[u]
  BY DEF PInv, Shape, CreateTopicFails
<1>5. created' = created
  BY DEF CreateTopicFails
<1>6. InProvider(th, p, t)
  BY DEF InProvider, CreateTopicFails
<1>7. \A q \in Publishers, s \in Topics :
        InProvider(th, q, s) => q = p /\ s = t
  BY DEF InProvider
<1> HIDE DEF p, t
<1>8. Backed'
  <2> SUFFICES ASSUME NEW q \in Publishers, NEW s \in Topics,
                      topics'[q][s] # NoEntry,
                      \A u \in Callers : ~InProvider(u, q, s)'
               PROVE  Backs(created[s], topics'[q][s])
    BY <1>5 DEF Backed, Backs
  <2>1. ~(q = p /\ s = t) /\ topics'[q][s] = topics[q][s]
    BY <1>2
  <2>2. \A u \in Callers : ~InProvider(u, q, s)
    BY <2>1, <1>3, <1>7
  <2> QED BY <2>1, <2>2 DEF PInv, Backed
<1>9. Owned'
  <2> SUFFICES ASSUME NEW q \in Publishers, NEW s \in Topics,
                      NEW v \in Callers, NEW u \in Callers,
                      InProvider(v, q, s)'
               PROVE  topics'[q][s] = call'[v].entry
                      /\ (InProvider(u, q, s)' => u = v)
    BY DEF Owned
  <2>1. v # th /\ InProvider(v, q, s) /\ call'[v] = call[v]
    BY <1>3, <1>4
  <2>2. ~(q = p /\ s = t)
    BY <2>1, <1>6, <1>0 DEF PInv, Owned
  <2> QED BY <2>1, <2>2, <1>2, <1>3 DEF PInv, Owned
<1> QED BY <1>1, <1>8, <1>9 DEF PInv

\* Every step of a Publisher preserves the invariant.
LEMMA NextPInv == PInv /\ [Next]_vars => PInv'
<1> SUFFICES ASSUME PInv, [Next]_vars PROVE PInv'
  OBVIOUS
<1>1. CASE UNCHANGED <<topics, call, created>>
  BY <1>1 DEF PInv, Shape, Backed, Backs, Owned, InProvider
<1>2. ASSUME NEW th \in Callers, NEW p \in Publishers, NEW t \in Topics,
             NEW e \in TopicEntry, CreateTopicFirst(th, p, t, e)
      PROVE  PInv'
  BY <1>2, FirstKeeps
<1>3. ASSUME NEW th \in Callers, NEW p \in Publishers, NEW t \in Topics,
             NEW e \in TopicEntry, CreateTopicAgain(th, p, t, e)
      PROVE  PInv'
  BY <1>3, <1>1 DEF CreateTopicAgain
<1>4. ASSUME NEW th \in Callers, ProviderCreates(th) PROVE PInv'
  BY <1>4, CreatesKeeps
<1>5. ASSUME NEW th \in Callers, ProviderThrows(th) PROVE PInv'
  BY <1>5, ThrowsKeeps
<1>6. ASSUME NEW th \in Callers, CreateTopicFails(th) PROVE PInv'
  BY <1>6, FailsKeeps
<1> QED BY <1>1, <1>2, <1>3, <1>4, <1>5, <1>6 DEF Next, vars

\* A registry entry that no CreateTopic is still working on is what the
\* provider has, whatever the Publishers, the threads, the schemas and the
\* failures: a reservation is taken back by the call that made it and by no
\* other (Publisher::CreateTopic, its catch block included).
THEOREM RegistryStaysBacked == Spec => []RegistryBacked
<1>1. PInv => RegistryBacked
  BY DEF PInv, Backed, Backs, Owned, RegistryBacked
<1> QED BY InitPInv, NextPInv, <1>1, PTL DEF Spec

------------------------------------------------------------------------------
(* The Subscriber's schema watches *)

\* Where a call that has the in-progress flag can be.
Busy == {"open", "opened", "failed", "release", "released", "refused"}

WatchPcs == {"idle", "enter", "wait"} \cup Busy

WatchTypes ==
    /\ schema_watches \in Nat /\ cached \in Nat /\ watch \in Nat /\ opened \in Nat
    /\ in_progress \in BOOLEAN /\ alive \in BOOLEAN
    /\ watch_call \in [Threads -> [pc : WatchPcs, got : Nat]]
    /\ granted \in [Threads -> Seq(Nat)]

\* How many watches each thread was granted.
Lens(g) == [th \in Threads |-> Len(g[th])]

\* The watches granted, as GrantsAreServed counts them, from their numbers.
Held(l) == {p \in Threads \X {1, 2} : p[2] <= l[p[1]]}

\* A thread is granted no third watch.
AtMostTwo ==
    \A th \in Threads :
        /\ Lens(granted)[th] <= 2
        /\ watch_call[th].pc \in {"enter", "wait"} => Lens(granted)[th] < 2

\* The flag is that of one call, and while it is up nobody else has a watch.
OneBusy ==
    /\ \A th, u \in Threads :
          watch_call[th].pc \in Busy /\ watch_call[u].pc \in Busy => u = th
    /\ in_progress <=> \E th \in Threads : watch_call[th].pc \in Busy
    /\ in_progress => \A th \in Threads : granted[th] = << >>

\* What the call that has the flag knows of the count and of the provider.
Knows(c) ==
    /\ c.pc \in {"open", "failed"} => schema_watches = 1 /\ watch = NoWatch
    /\ c.pc = "opened" => schema_watches = 1 /\ watch # NoWatch /\ c.got = watch
    /\ c.pc \in {"release", "refused"} =>
          schema_watches = 0 /\ watch # NoWatch /\ c.got = watch /\ cached = watch
    /\ c.pc = "released" => schema_watches = 0 /\ watch = NoWatch

Counted ==
    ~in_progress /\ alive =>
        /\ schema_watches = Cardinality(Held(Lens(granted)))
        /\ schema_watches > 0 <=> watch # NoWatch
        /\ schema_watches > 0 => cached = watch

\* After the destructor nobody calls and nothing is granted.
AfterDestroy ==
    ~alive => \A th \in Threads : watch_call[th].pc = "idle" /\ granted[th] = << >>

\* Who dispatches holds the provider's mutex.
Dispatching ==
  /\ stack \in [Threads -> Seq({WatchProvider})]
  /\ \A th \in Threads :
        stack[th] = IF provider_mu = th THEN <<WatchProvider>> ELSE << >>

WInv ==
    /\ WatchTypes /\ AtMostTwo /\ OneBusy /\ Counted /\ AfterDestroy
    /\ \A th \in Threads : Knows(watch_call[th])
    /\ \A th \in Threads : \A k \in 1..Len(granted[th]) : granted[th][k] = watch

\* The number of watches of a thread is a number, and 0 when it has none.
LEMMA LensAre ==
  ASSUME NEW g \in [Threads -> Seq(Nat)]
  PROVE  /\ Lens(g) \in [Threads -> Nat]
         /\ \A th \in Threads : Lens(g)[th] = Len(g[th]) /\ (Lens(g)[th] = 0 <=> g[th] = << >>)
<1>2. ASSUME NEW th \in Threads
      PROVE  Len(g[th]) \in Nat /\ (Len(g[th]) = 0 <=> g[th] = << >>)
  <2>1. g[th] \in Seq(Nat)
    OBVIOUS
  <2>. QED
    BY <2>1
<1>. QED
  BY <1>2 DEF Lens

\* The set of watches granted is finite, and empty when there are none.
LEMMA HeldFinite ==
  ASSUME NEW l \in [Threads -> Nat]
  PROVE  /\ IsFiniteSet(Held(l)) /\ Cardinality(Held(l)) \in Nat
         /\ Cardinality(Held(l)) = 0 <=> \A th \in Threads : l[th] = 0
<1>1. IsFiniteSet({} \cup {1})
  BY FS_EmptySet, FS_AddElement
<1>2. IsFiniteSet(({} \cup {1}) \cup {2}) /\ ({} \cup {1}) \cup {2} = {1, 2}
  BY <1>1, FS_AddElement
<1>3. IsFiniteSet(Threads \X {1, 2})
  BY <1>1, <1>2, FS_Product, SchemaWatchAssumption
<1>4. IsFiniteSet(Held(l))
  BY <1>3, FS_Subset DEF Held
<1>5. Cardinality(Held(l)) \in Nat /\ (Cardinality(Held(l)) = 0 <=> Held(l) = {})
  BY <1>4, FS_EmptySet, FS_CardinalityType
<1>6. ASSUME Held(l) = {}, NEW th \in Threads
      PROVE  l[th] = 0
  <2>1. <<th, 1>> \notin Held(l) /\ <<th, 1>> \in Threads \X {1, 2}
    BY <1>6
  <2>2. ~(1 <= l[th]) /\ l[th] \in Nat
    BY <2>1 DEF Held
  <2>. QED
    BY <2>2
<1>7. ASSUME \A th \in Threads : l[th] = 0
      PROVE  Held(l) = {}
  <2> SUFFICES ASSUME NEW p \in Threads \X {1, 2}, p[2] <= l[p[1]]
               PROVE  FALSE
    BY DEF Held
  <2>1. p[1] \in Threads /\ p[2] \in {1, 2}
    OBVIOUS
  <2>. QED
    BY <1>7, <2>1
<1>. QED
  BY <1>4, <1>5, <1>6, <1>7

\* A grant adds one.
LEMMA HeldGrows ==
  ASSUME NEW l \in [Threads -> Nat], NEW m \in [Threads -> Nat], NEW th \in Threads,
         l[th] < 2, m[th] = l[th] + 1, \A u \in Threads : u # th => m[u] = l[u]
  PROVE  Cardinality(Held(m)) = Cardinality(Held(l)) + 1
<1>1. PICK n \in Nat : n = l[th] + 1
  OBVIOUS
<1>2. n \in {1, 2} /\ ~(n <= l[th]) /\ n <= m[th]
  BY <1>1
<1>3. <<th, n>> \notin Held(l)
  BY <1>2 DEF Held
<1>4. ASSUME NEW u \in Threads, NEW k \in {1, 2}
      PROVE  <<u, k>> \in Held(m) <=> <<u, k>> \in Held(l) \/ <<u, k>> = <<th, n>>
  <2>1. (<<u, k>> \in Held(m) <=> k <= m[u]) /\ (<<u, k>> \in Held(l) <=> k <= l[u])
    BY DEF Held
  <2>2. CASE u = th
    BY <1>1, <2>1, <2>2
  <2>3. CASE u # th
    BY <2>1, <2>3
  <2>. QED
    BY <2>2, <2>3
<1>5. Held(m) = Held(l) \cup {<<th, n>>}
  <2>1. Held(m) \subseteq Threads \X {1, 2} /\ Held(l) \subseteq Threads \X {1, 2}
    BY DEF Held
  <2>2. <<th, n>> \in Threads \X {1, 2}
    BY <1>2
  <2>3. ASSUME NEW p \in Threads \X {1, 2}
        PROVE  p \in Held(m) <=> p \in Held(l) \/ p = <<th, n>>
    <3>1. PICK u \in Threads, k \in {1, 2} : p = <<u, k>>
      OBVIOUS
    <3>. QED
      BY <1>4, <3>1
  <2>. QED
    BY <2>1, <2>2, <2>3
<1>6. PICK x : x = <<th, n>>
  OBVIOUS
<1>7. IsFiniteSet(Held(l)) /\ x \notin Held(l)
  BY <1>3, <1>6, HeldFinite
<1>8. Cardinality(Held(l) \cup {x}) = Cardinality(Held(l)) + 1
  BY <1>7, FS_AddElement
<1>. QED
  BY <1>5, <1>6, <1>8

\* A release takes one away.
LEMMA HeldShrinks ==
  ASSUME NEW l \in [Threads -> Nat], NEW m \in [Threads -> Nat], NEW th \in Threads,
         l[th] <= 2, l[th] = m[th] + 1, \A u \in Threads : u # th => m[u] = l[u]
  PROVE  Cardinality(Held(m)) = Cardinality(Held(l)) - 1
<1>1. m[th] < 2 /\ \A u \in Threads : u # th => l[u] = m[u]
  OBVIOUS
<1>2. Cardinality(Held(l)) = Cardinality(Held(m)) + 1
  BY <1>1, HeldGrows
<1>3. Cardinality(Held(m)) \in Nat
  BY HeldFinite
<1>. QED
  BY <1>2, <1>3

\* Grant and Drop, thread by thread.
LEMMA GrantIs ==
  ASSUME WatchTypes, NEW th \in Threads, NEW w \in Nat, Grant(th, w)
  PROVE  /\ granted' \in [Threads -> Seq(Nat)] /\ granted'[th] = Append(granted[th], w)
         /\ \A u \in Threads : u # th => granted'[u] = granted[u]
         /\ Lens(granted) \in [Threads -> Nat] /\ Lens(granted') \in [Threads -> Nat]
         /\ Lens(granted')[th] = Lens(granted)[th] + 1
         /\ \A u \in Threads : u # th => Lens(granted')[u] = Lens(granted)[u]
<1>1. granted \in [Threads -> Seq(Nat)]
  BY DEF WatchTypes
<1>2. /\ granted' \in [Threads -> Seq(Nat)] /\ granted'[th] = Append(granted[th], w)
      /\ \A u \in Threads : u # th => granted'[u] = granted[u]
  BY <1>1 DEF Grant
<1>3. Len(granted'[th]) = Len(granted[th]) + 1
  BY <1>1, <1>2
<1>. QED
  BY <1>1, <1>2, <1>3, LensAre

\* A thread gives up the first watch that it was granted.
LEMMA DropIs ==
  ASSUME WatchTypes, NEW th \in Threads, granted[th] # << >>, Drop(th)
  PROVE  /\ granted' \in [Threads -> Seq(Nat)] /\ granted'[th] = Tail(granted[th])
         /\ \A u \in Threads : u # th => granted'[u] = granted[u]
         /\ Lens(granted) \in [Threads -> Nat] /\ Lens(granted') \in [Threads -> Nat]
         /\ Lens(granted)[th] = Lens(granted')[th] + 1
         /\ \A u \in Threads : u # th => Lens(granted')[u] = Lens(granted)[u]
<1>1. granted \in [Threads -> Seq(Nat)]
  BY DEF WatchTypes
<1>2. /\ granted' \in [Threads -> Seq(Nat)] /\ granted'[th] = Tail(granted[th])
      /\ \A u \in Threads : u # th => granted'[u] = granted[u]
  BY <1>1 DEF Drop
<1>3. Len(granted[th]) = Len(granted'[th]) + 1
  BY <1>1, <1>2
<1>. QED
  BY <1>1, <1>2, <1>3, LensAre

\* A call moves on; the others stay where they are.
LEMMA CallGoesOn ==
  ASSUME WatchTypes, NEW th \in Threads, NEW x \in WatchPcs, WatchTo(th, x)
  PROVE  /\ watch_call' \in [Threads -> [pc : WatchPcs, got : Nat]]
         /\ watch_call'[th].pc = x /\ watch_call'[th].got = watch_call[th].got
         /\ \A u \in Threads : u # th => watch_call'[u] = watch_call[u]
  BY DEF WatchTypes, WatchTo

\* A call ends and wakes those that wait for the flag.
LEMMA CallEnds ==
  ASSUME WatchTypes, NEW th \in Threads, EndAndNotify(th)
  PROVE  /\ watch_call' \in [Threads -> [pc : WatchPcs, got : Nat]]
         /\ watch_call'[th].pc = "idle"
         /\ \A u \in Threads : u # th =>
               /\ watch_call'[u].pc \in Busy => watch_call[u].pc \in Busy
               /\ watch_call'[u].pc \in {"enter", "wait"} => watch_call[u].pc \in {"enter", "wait"}
               /\ watch_call[u].pc = "idle" => watch_call'[u].pc = "idle"
<1>1. watch_call'[th] = NoWatchCall /\ DOMAIN watch_call' = Threads
  BY DEF EndAndNotify
<1>2. NoWatchCall \in [pc : WatchPcs, got : Nat] /\ NoWatchCall.pc = "idle"
  BY DEF NoWatchCall, NoWatch, WatchPcs
<1>3. ASSUME NEW u \in Threads, u # th
      PROVE  /\ watch_call'[u] \in [pc : WatchPcs, got : Nat]
             /\ watch_call[u].pc = "wait" => watch_call'[u].pc = "enter"
             /\ watch_call[u].pc # "wait" => watch_call'[u] = watch_call[u]
  <2>1. watch_call[u] \in [pc : WatchPcs, got : Nat]
    BY DEF WatchTypes
  <2>2. CASE watch_call[u].pc = "wait"
    <3>1. watch_call'[u] = [watch_call[u] EXCEPT !.pc = "enter"]
      BY <1>3, <2>2 DEF EndAndNotify
    <3>2. "enter" \in WatchPcs
      BY DEF WatchPcs
    <3>. QED
      BY <2>1, <2>2, <3>1, <3>2
  <2>3. CASE watch_call[u].pc # "wait"
    BY <1>3, <2>1, <2>3 DEF EndAndNotify
  <2>. QED
    BY <2>2, <2>3
<1>4. watch_call' \in [Threads -> [pc : WatchPcs, got : Nat]]
  <2>1. watch_call' = [u \in Threads |-> watch_call'[u]]
    BY DEF EndAndNotify
  <2>2. \A u \in Threads : watch_call'[u] \in [pc : WatchPcs, got : Nat]
    BY <1>1, <1>2, <1>3
  <2>. QED
    BY <2>1, <2>2
<1>. QED
  BY <1>1, <1>2, <1>3, <1>4 DEF Busy

\* While a call has the flag, the Subscriber is there and nothing is granted.
LEMMA WhileBusy ==
  ASSUME WInv, NEW th \in Threads, watch_call[th].pc \in Busy
  PROVE  /\ in_progress /\ alive
         /\ \A u \in Threads : granted[u] = << >> /\ (u # th => watch_call[u].pc \notin Busy)
         /\ \A u \in Threads : Lens(granted)[u] = 0
         /\ Cardinality(Held(Lens(granted))) = 0
<1>1. /\ in_progress
      /\ \A u \in Threads : granted[u] = << >> /\ (u # th => watch_call[u].pc \notin Busy)
  BY DEF WInv, OneBusy
<1>2. alive
  BY DEF WInv, AfterDestroy, WatchTypes, Busy
<1>3. granted \in [Threads -> Seq(Nat)]
  BY DEF WInv, WatchTypes
<1>4. Lens(granted) \in [Threads -> Nat] /\ \A u \in Threads : Lens(granted)[u] = 0
  BY <1>1, <1>3, LensAre
<1>5. Cardinality(Held(Lens(granted))) = 0
  BY <1>4, HeldFinite
<1>. QED
  BY <1>1, <1>2, <1>4, <1>5

\* A call that has no flag knows nothing.
LEMMA KnowsNothing == ASSUME NEW c, c.pc \notin Busy PROVE Knows(c)
  BY DEF Knows, Busy

\* The call that has the flag goes on inside the provider.
LEMMA FlagStays ==
  ASSUME WInv, NEW th \in Threads, watch_call[th].pc \in Busy,
         watch_call' \in [Threads -> [pc : WatchPcs, got : Nat]],
         watch_call'[th].pc \in Busy, Knows(watch_call[th])',
         \A u \in Threads : u # th => watch_call'[u] = watch_call[u],
         UNCHANGED <<schema_watches, in_progress, cached, granted, alive>>,
         watch' \in Nat, opened' \in Nat
  PROVE  WInv'
<1>1. /\ in_progress /\ alive
      /\ \A u \in Threads : granted[u] = << >> /\ (u # th => watch_call[u].pc \notin Busy)
      /\ \A u \in Threads : Lens(granted)[u] = 0
  BY WhileBusy
<1>2. WatchTypes' /\ Counted' /\ AfterDestroy'
  BY <1>1 DEF WInv, WatchTypes, Counted, AfterDestroy
<1>3. AtMostTwo'
  BY <1>1 DEF AtMostTwo, Lens
<1>4. OneBusy'
  BY <1>1 DEF OneBusy
<1>5. ASSUME NEW u \in Threads
      PROVE  Knows(watch_call[u])'
  <2>1. CASE u = th
    BY <2>1
  <2>2. CASE u # th
    <3>1. watch_call'[u].pc \notin Busy
      BY <1>1, <2>2
    <3>. QED
      BY <3>1 DEF Knows, Busy
  <2>. QED
    BY <2>1, <2>2
<1>6. (\A u \in Threads : \A k \in 1..Len(granted[u]) : granted[u][k] = watch)'
  <2>1. \A u \in Threads : 1..Len(granted'[u]) = {}
    BY <1>1
  <2>. QED
    BY <2>1
<1>. QED
  BY <1>2, <1>3, <1>4, <1>5, <1>6 DEF WInv

\* The call that has the flag takes it down and ends.
LEMMA FlagFalls ==
  ASSUME WInv, NEW th \in Threads, watch_call[th].pc \in Busy, EndAndNotify(th),
         in_progress' = FALSE, alive' = alive, opened' = opened, watch' = watch,
         cached' \in Nat, schema_watches' \in Nat,
         granted' \in [Threads -> Seq(Nat)],
         \A u \in Threads : Lens(granted')[u] = 0 \/ Lens(granted')[u] = 1,
         \A u \in Threads : \A k \in 1..Len(granted'[u]) : granted'[u][k] = watch,
         schema_watches' = Cardinality(Held(Lens(granted'))),
         schema_watches' > 0 <=> watch # NoWatch,
         schema_watches' > 0 => cached' = watch
  PROVE  WInv'
<1>1. /\ in_progress /\ alive
      /\ \A u \in Threads : granted[u] = << >> /\ (u # th => watch_call[u].pc \notin Busy)
  BY WhileBusy
<1>2. WatchTypes
  BY DEF WInv
<1>3. /\ watch_call' \in [Threads -> [pc : WatchPcs, got : Nat]]
      /\ watch_call'[th].pc = "idle"
      /\ \A u \in Threads : u # th => (watch_call'[u].pc \in Busy => watch_call[u].pc \in Busy)
  BY <1>2, CallEnds
<1>4. \A u \in Threads : watch_call'[u].pc \notin Busy
  BY <1>1, <1>3 DEF Busy
<1>5. WatchTypes'
  BY <1>2, <1>3 DEF WatchTypes
<1>6. AtMostTwo'
  <2>1. ASSUME NEW u \in Threads
        PROVE  Lens(granted')[u] <= 2 /\ Lens(granted')[u] < 2
    <3>1. PICK n \in Nat : n = Lens(granted')[u] /\ (n = 0 \/ n = 1)
      OBVIOUS
    <3>. QED
      BY <3>1
  <2>. QED
    BY <2>1 DEF AtMostTwo
<1>7. OneBusy'
  BY <1>4 DEF OneBusy
<1>8. Counted' /\ AfterDestroy'
  BY <1>1 DEF Counted, AfterDestroy
<1>9. \A u \in Threads : Knows(watch_call[u])'
  BY <1>4 DEF Knows, Busy
<1>. QED
  BY <1>5, <1>6, <1>7, <1>8, <1>9 DEF WInv

\* A call that has no flag moves on, before or behind the wait.
LEMMA QuietCallKeeps ==
  ASSUME WInv, NEW th \in Threads, watch_call[th].pc \notin Busy,
         watch_call' \in [Threads -> [pc : WatchPcs, got : Nat]],
         watch_call'[th].pc \notin Busy, alive, Lens(granted)[th] < 2,
         \A u \in Threads : u # th => watch_call'[u] = watch_call[u],
         UNCHANGED <<schema_watches, in_progress, cached, granted, alive, watch, opened>>
  PROVE  WInv'
<1>1. WatchTypes' /\ Counted' /\ AfterDestroy'
  BY DEF WInv, WatchTypes, Counted, AfterDestroy
<1>2. AtMostTwo'
  <2>1. Lens(granted') = Lens(granted)
    OBVIOUS
  <2>. QED
    BY <2>1 DEF WInv, AtMostTwo
<1>3. \A u \in Threads : watch_call'[u].pc \in Busy <=> watch_call[u].pc \in Busy
  OBVIOUS
<1>4. OneBusy'
  BY <1>3 DEF WInv, OneBusy
<1>5. ASSUME NEW u \in Threads
      PROVE  Knows(watch_call[u])'
  <2>1. CASE u = th
    BY <2>1 DEF Knows, Busy
  <2>2. CASE u # th
    BY <2>2 DEF WInv, Knows
  <2>. QED
    BY <2>1, <2>2
<1>6. (\A u \in Threads : \A k \in 1..Len(granted[u]) : granted[u][k] = watch)'
  BY DEF WInv
<1>. QED
  BY <1>1, <1>2, <1>4, <1>5, <1>6 DEF WInv

\* SubscribeSchema is called.
LEMMA SubscribeSchemaKeeps ==
  ASSUME WInv, NEW th \in Threads, SubscribeSchema(th)
  PROVE  WInv'
<1>1. /\ WatchTypes /\ "enter" \in WatchPcs
      /\ UNCHANGED <<schema_watches, in_progress, cached, granted, alive, watch, opened>>
      /\ alive /\ watch_call[th].pc = "idle" /\ WatchTo(th, "enter")
      /\ Len(granted[th]) < 2 /\ granted \in [Threads -> Seq(Nat)]
  BY DEF WInv, SubscribeSchema, watchVars, providerVars, WatchPcs, WatchTypes
<1>3. Lens(granted)[th] < 2
  BY <1>1, LensAre
<1>2. /\ watch_call' \in [Threads -> [pc : WatchPcs, got : Nat]] /\ watch_call'[th].pc = "enter"
      /\ \A u \in Threads : u # th => watch_call'[u] = watch_call[u]
  BY <1>1, CallGoesOn
<1>. QED
  BY <1>1, <1>2, <1>3, QuietCallKeeps DEF Busy

\* A call that finds the in-progress flag set waits.
LEMMA WatchWaitKeeps ==
  ASSUME WInv, NEW th \in Threads, WatchWait(th)
  PROVE  WInv'
<1>1. /\ WatchTypes /\ "wait" \in WatchPcs
      /\ UNCHANGED <<schema_watches, in_progress, cached, granted, alive, watch, opened>>
      /\ watch_call[th].pc = "enter" /\ WatchTo(th, "wait")
  BY DEF WInv, WatchWait, WatchEntering, watchVars, providerVars, WatchPcs
<1>2. /\ watch_call' \in [Threads -> [pc : WatchPcs, got : Nat]] /\ watch_call'[th].pc = "wait"
      /\ \A u \in Threads : u # th => watch_call'[u] = watch_call[u]
  BY <1>1, CallGoesOn
<1>3. alive /\ Lens(granted)[th] < 2
  BY <1>1 DEF WInv, AfterDestroy, AtMostTwo, WatchTypes
<1>. QED
  BY <1>1, <1>2, <1>3, QuietCallKeeps DEF Busy

\* A grant from the cache: the watch is there, and the cache has its arrival.
LEMMA WatchJoinKeeps ==
  ASSUME WInv, NEW th \in Threads, WatchJoin(th)
  PROVE  WInv'
<1>1. /\ watch_call[th].pc = "enter" /\ ~in_progress /\ schema_watches > 0
      /\ schema_watches' = schema_watches + 1 /\ Grant(th, cached)
      /\ watch_call' = [watch_call EXCEPT ![th] = NoWatchCall]
      /\ UNCHANGED <<in_progress, cached, alive, watch, opened>>
  BY DEF WatchJoin, WatchEntering, providerVars
<1>2. /\ WatchTypes /\ granted \in [Threads -> Seq(Nat)] /\ cached \in Nat /\ schema_watches \in Nat
      /\ alive /\ Lens(granted)[th] < 2
  BY <1>1 DEF WInv, AfterDestroy, AtMostTwo, WatchTypes
<1>3. /\ schema_watches = Cardinality(Held(Lens(granted))) /\ watch # NoWatch /\ cached = watch
      /\ \A u \in Threads : watch_call[u].pc \notin Busy
  BY <1>1, <1>2 DEF WInv, Counted, OneBusy
<1>4. /\ granted' \in [Threads -> Seq(Nat)] /\ granted'[th] = Append(granted[th], cached)
      /\ \A u \in Threads : u # th => granted'[u] = granted[u]
      /\ Lens(granted) \in [Threads -> Nat] /\ Lens(granted') \in [Threads -> Nat]
      /\ Lens(granted')[th] = Lens(granted)[th] + 1
      /\ \A u \in Threads : u # th => Lens(granted')[u] = Lens(granted)[u]
  BY <1>1, <1>2, GrantIs
<1>14. Cardinality(Held(Lens(granted'))) = Cardinality(Held(Lens(granted))) + 1
  BY <1>2, <1>4, HeldGrows
<1>5. NoWatchCall \in [pc : WatchPcs, got : Nat] /\ NoWatchCall.pc = "idle"
  BY DEF NoWatchCall, NoWatch, WatchPcs
<1>6. /\ watch_call' \in [Threads -> [pc : WatchPcs, got : Nat]]
      /\ watch_call'[th].pc = "idle" /\ \A u \in Threads : u # th => watch_call'[u] = watch_call[u]
  BY <1>1, <1>2, <1>5 DEF WatchTypes
<1>7. \A u \in Threads : watch_call'[u].pc \notin Busy
  BY <1>3, <1>6 DEF Busy
<1>8. WatchTypes'
  BY <1>1, <1>2, <1>4, <1>6 DEF WatchTypes
<1>9. AtMostTwo'
  <2>1. Lens(granted')[th] <= 2
    BY <1>2, <1>4
  <2>2. \A u \in Threads : u # th => Lens(granted')[u] = Lens(granted)[u]
                                      /\ watch_call'[u] = watch_call[u]
    BY <1>4, <1>6
  <2>. QED
    BY <1>6, <2>1, <2>2 DEF WInv, AtMostTwo
<1>10. OneBusy' /\ AfterDestroy'
  BY <1>1, <1>2, <1>7 DEF OneBusy, AfterDestroy
<1>11. Counted'
  BY <1>1, <1>2, <1>3, <1>14 DEF Counted
<1>12. \A u \in Threads : Knows(watch_call[u])'
  BY <1>7 DEF Knows, Busy
<1>13. (\A u \in Threads : \A k \in 1..Len(granted[u]) : granted[u][k] = watch)'
  <2> SUFFICES ASSUME NEW u \in Threads, NEW k \in 1..Len(granted'[u])
               PROVE  granted'[u][k] = watch
    BY <1>1
  <2>1. CASE u = th
    <3>1. granted'[th] = Append(granted[th], cached) /\ granted[th] \in Seq(Nat)
      BY <1>2, <1>4
    <3>2. k = Len(granted[th]) + 1 \/ k \in 1..Len(granted[th])
      BY <2>1, <3>1
    <3>3. \A j \in 1..Len(granted[th]) : granted[th][j] = watch
      BY DEF WInv
    <3>. QED
      BY <1>3, <2>1, <3>1, <3>2, <3>3
  <2>2. CASE u # th
    BY <1>2, <1>4, <2>2 DEF WInv
  <2>. QED
    BY <2>1, <2>2
<1>. QED
  BY <1>8, <1>9, <1>10, <1>11, <1>12, <1>13 DEF WInv

\* While nobody has the flag, the count is right.
LEMMA CountIs ==
  ASSUME WInv, ~in_progress, alive
  PROVE  /\ schema_watches \in Nat /\ schema_watches = Cardinality(Held(Lens(granted)))
         /\ schema_watches > 0 <=> watch # NoWatch
         /\ schema_watches > 0 => cached = watch
         /\ \A u \in Threads : watch_call[u].pc \notin Busy
<1>1. WatchTypes /\ Counted /\ OneBusy
  BY Zenon DEF WInv
<1>2. schema_watches \in Nat
  BY <1>1 DEF WatchTypes
<1>3. \A u \in Threads : watch_call[u].pc \notin Busy
  BY <1>1 DEF OneBusy
<1>. QED
  BY <1>1, <1>2, <1>3 DEF Counted

\* The first watch: the count goes up and the flag is set before the provider
\* is called.
LEMMA WatchFirstKeeps ==
  ASSUME WInv, NEW th \in Threads, WatchFirst(th)
  PROVE  WInv'
<1>1. /\ watch_call[th].pc = "enter" /\ ~in_progress /\ schema_watches = 0
      /\ schema_watches' = schema_watches + 1 /\ in_progress' = TRUE /\ WatchTo(th, "open")
      /\ UNCHANGED <<cached, granted, alive, watch, opened>>
  BY DEF WatchFirst, WatchEntering, providerVars
<1>2. /\ WatchTypes /\ granted \in [Threads -> Seq(Nat)] /\ alive /\ "open" \in WatchPcs
      /\ "open" \in Busy
  BY <1>1 DEF WInv, AfterDestroy, WatchTypes, WatchPcs, Busy
<1>3. /\ Cardinality(Held(Lens(granted))) = 0 /\ watch = NoWatch
      /\ \A u \in Threads : watch_call[u].pc \notin Busy
  BY <1>1, <1>2, CountIs
<1>4. \A u \in Threads : granted[u] = << >> /\ Lens(granted)[u] = 0
  BY <1>2, <1>3, LensAre, HeldFinite
<1>5. /\ watch_call' \in [Threads -> [pc : WatchPcs, got : Nat]]
      /\ watch_call'[th].pc = "open" /\ \A u \in Threads : u # th => watch_call'[u] = watch_call[u]
  BY <1>1, <1>2, CallGoesOn
<1>6. WatchTypes' /\ Counted' /\ AfterDestroy'
  BY <1>1, <1>2, <1>5 DEF WatchTypes, Counted, AfterDestroy
<1>7. AtMostTwo'
  <2>1. Lens(granted') = Lens(granted)
    BY <1>1
  <2>. QED
    BY <1>4, <2>1 DEF AtMostTwo
<1>8. OneBusy'
  BY <1>1, <1>2, <1>3, <1>4, <1>5 DEF OneBusy
<1>9. ASSUME NEW u \in Threads
      PROVE  Knows(watch_call[u])'
  <2>1. CASE u = th
    BY <1>1, <1>3, <1>5, <2>1 DEF Knows
  <2>2. CASE u # th
    BY <1>3, <1>5, <2>2 DEF Knows, Busy
  <2>. QED
    BY <2>1, <2>2
<1>10. (\A u \in Threads : \A k \in 1..Len(granted[u]) : granted[u][k] = watch)'
  <2>1. \A u \in Threads : 1..Len(granted'[u]) = {}
    BY <1>1, <1>4
  <2>. QED
    BY <2>1
<1>. QED
  BY <1>6, <1>7, <1>8, <1>9, <1>10 DEF WInv

\* The provider opens the watch, or refuses; it closes it, or refuses.
LEMMA ProviderKeeps ==
  ASSUME WInv, NEW th \in Threads,
         \/ ProviderOpen(th) \/ ProviderOpenFails(th)
         \/ ProviderClose(th) \/ ProviderCloseRefused(th)
  PROVE  WInv'
<1>1. /\ WatchTypes /\ watch \in Nat /\ opened \in Nat /\ Knows(watch_call[th])
      /\ {"failed", "released", "refused"} \subseteq WatchPcs
      /\ UNCHANGED <<schema_watches, in_progress, cached, granted, alive>>
  BY DEF WInv, WatchTypes, WatchPcs, Busy, ProviderOpen, ProviderOpenFails, ProviderClose,
         ProviderCloseRefused, watchVars
<1>2. CASE ProviderOpen(th)
  <2>1. watch = NoWatch /\ schema_watches = 1 /\ watch_call[th].pc = "open"
    BY <1>1, <1>2 DEF ProviderOpen, Knows
  <2>2. /\ watch' = opened + 1 /\ opened' = opened + 1
        /\ watch_call' = [watch_call EXCEPT ![th] = [pc |-> "opened", got |-> watch']]
    BY <1>2, <2>1 DEF ProviderOpen
  <2>3. watch' \in Nat /\ watch' # NoWatch /\ opened' \in Nat
    BY <1>1, <2>2 DEF NoWatch
  <2>4. /\ watch_call' \in [Threads -> [pc : WatchPcs, got : Nat]]
        /\ watch_call'[th].pc = "opened" /\ watch_call'[th].got = watch'
        /\ \A u \in Threads : u # th => watch_call'[u] = watch_call[u]
    BY <1>1, <2>2, <2>3 DEF WatchTypes, WatchPcs, Busy
  <2>5. Knows(watch_call[th])'
    BY <1>1, <2>1, <2>3, <2>4 DEF Knows
  <2>. QED
    BY <1>1, <2>1, <2>3, <2>4, <2>5, FlagStays DEF Busy
<1>3. CASE ProviderOpenFails(th)
  <2>1. watch_call[th].pc = "open" /\ WatchTo(th, "failed") /\ UNCHANGED <<watch, opened>>
    BY <1>3 DEF ProviderOpenFails, providerVars
  <2>2. /\ watch_call' \in [Threads -> [pc : WatchPcs, got : Nat]]
        /\ watch_call'[th].pc = "failed"
        /\ \A u \in Threads : u # th => watch_call'[u] = watch_call[u]
    BY <1>1, <2>1, CallGoesOn
  <2>3. Knows(watch_call[th])'
    BY <1>1, <2>1, <2>2 DEF Knows
  <2>. QED
    BY <1>1, <2>1, <2>2, <2>3, FlagStays DEF Busy
<1>4. CASE ProviderClose(th)
  <2>1. /\ watch_call[th].pc = "release" /\ WatchTo(th, "released")
        /\ watch' = NoWatch /\ opened' = opened
    BY <1>4 DEF ProviderClose
  <2>2. /\ watch_call' \in [Threads -> [pc : WatchPcs, got : Nat]]
        /\ watch_call'[th].pc = "released"
        /\ \A u \in Threads : u # th => watch_call'[u] = watch_call[u]
    BY <1>1, <2>1, CallGoesOn
  <2>3. Knows(watch_call[th])' /\ watch' \in Nat
    BY <1>1, <2>1, <2>2 DEF Knows, NoWatch
  <2>. QED
    BY <1>1, <2>1, <2>2, <2>3, FlagStays DEF Busy
<1>5. CASE ProviderCloseRefused(th)
  <2>1. /\ watch_call[th].pc = "release" /\ WatchTo(th, "refused")
        /\ UNCHANGED <<watch, opened>>
    BY <1>5 DEF ProviderCloseRefused, providerVars
  <2>2. /\ watch_call' \in [Threads -> [pc : WatchPcs, got : Nat]]
        /\ watch_call'[th].pc = "refused" /\ watch_call'[th].got = watch_call[th].got
        /\ \A u \in Threads : u # th => watch_call'[u] = watch_call[u]
    BY <1>1, <2>1, CallGoesOn
  <2>3. Knows(watch_call[th])'
    BY <1>1, <2>1, <2>2 DEF Knows
  <2>. QED
    BY <1>1, <2>1, <2>2, <2>3, FlagStays DEF Busy
<1>. QED
  BY <1>2, <1>3, <1>4, <1>5

\* One grant and nothing else: what the call that had the flag leaves behind.
LEMMA OneGrant ==
  ASSUME WatchTypes, \A u \in Threads : granted[u] = << >>,
         \A u \in Threads : Lens(granted)[u] = 0, Cardinality(Held(Lens(granted))) = 0,
         NEW th \in Threads, NEW w \in Nat, Grant(th, w)
  PROVE  /\ granted' \in [Threads -> Seq(Nat)] /\ Cardinality(Held(Lens(granted'))) = 1
         /\ \A u \in Threads : Lens(granted')[u] = 0 \/ Lens(granted')[u] = 1
         /\ \A u \in Threads : \A k \in 1..Len(granted'[u]) : granted'[u][k] = w
<1>1. /\ granted' \in [Threads -> Seq(Nat)] /\ granted'[th] = Append(granted[th], w)
      /\ \A u \in Threads : u # th => granted'[u] = granted[u]
      /\ Lens(granted) \in [Threads -> Nat] /\ Lens(granted') \in [Threads -> Nat]
      /\ Lens(granted')[th] = Lens(granted)[th] + 1
      /\ \A u \in Threads : u # th => Lens(granted')[u] = Lens(granted)[u]
  BY GrantIs
<1>2. Lens(granted')[th] = 1 /\ \A u \in Threads : u # th => Lens(granted')[u] = 0
  BY <1>1
<1>3. Cardinality(Held(Lens(granted'))) = 1
  <2>1. Lens(granted)[th] < 2
    <3>1. PICK n \in Nat : n = Lens(granted)[th] /\ n = 0
      OBVIOUS
    <3>. QED
      BY <3>1
  <2>2. Cardinality(Held(Lens(granted'))) = Cardinality(Held(Lens(granted))) + 1
    BY <1>1, <2>1, HeldGrows
  <2>. QED
    BY <2>2
<1>4. granted[th] = << >> /\ Append(<< >>, w) = <<w>>
  OBVIOUS
<1>5. granted'[th] = <<w>> /\ \A u \in Threads : u # th => granted'[u] = << >>
  BY <1>1, <1>4
<1>6. ASSUME NEW u \in Threads, NEW k \in 1..Len(granted'[u])
      PROVE  granted'[u][k] = w
  <2>1. CASE u = th
    <3>1. Len(<<w>>) = 1 /\ <<w>>[1] = w
      OBVIOUS
    <3>2. granted'[u] = <<w>> /\ k \in 1..Len(<<w>>)
      BY <1>5, <2>1
    <3>3. k \in 1..1
      BY <3>1, <3>2
    <3>4. k = 1
      BY <3>3
    <3>. QED
      BY <3>1, <3>2, <3>4
  <2>2. CASE u # th
    <3>1. Len(<< >>) = 0
      OBVIOUS
    <3>. QED
      BY <1>5, <2>2, <3>1
  <2>. QED
    BY <2>1, <2>2
<1>. QED
  BY <1>1, <1>2, <1>3, <1>6

\* The provider has opened the watch, and the call stores its handle.
LEMMA WatchStoreKeeps ==
  ASSUME WInv, NEW th \in Threads, WatchStore(th)
  PROVE  WInv'
<1>1. /\ watch_call[th].pc = "opened" /\ watch_call[th].pc \in Busy
      /\ cached' = watch_call[th].got /\ in_progress' = FALSE
      /\ Grant(th, watch_call[th].got)
      /\ EndAndNotify(th) /\ UNCHANGED <<schema_watches, alive, watch, opened>>
  BY DEF WatchStore, providerVars, Busy
<1>2. /\ WatchTypes /\ granted \in [Threads -> Seq(Nat)] /\ watch \in Nat
      /\ watch_call[th].got = watch /\ watch # NoWatch /\ schema_watches = 1
  BY <1>1 DEF WInv, WatchTypes, Knows
<1>3. /\ \A u \in Threads : granted[u] = << >>
      /\ \A u \in Threads : Lens(granted)[u] = 0
      /\ Cardinality(Held(Lens(granted))) = 0
  BY <1>1, WhileBusy
<1>4. Grant(th, watch)
  BY <1>1, <1>2
<1>6. /\ granted' \in [Threads -> Seq(Nat)] /\ Cardinality(Held(Lens(granted'))) = 1
      /\ \A u \in Threads : Lens(granted')[u] = 0 \/ Lens(granted')[u] = 1
      /\ \A u \in Threads : \A k \in 1..Len(granted'[u]) : granted'[u][k] = watch
  BY <1>2, <1>3, <1>4, OneGrant
<1>5. /\ schema_watches' \in Nat /\ schema_watches' = Cardinality(Held(Lens(granted')))
      /\ schema_watches' > 0 <=> watch # NoWatch
      /\ schema_watches' > 0 => cached' = watch
      /\ cached' \in Nat
  <2>1. schema_watches' = 1 /\ cached' = watch /\ watch \in Nat /\ watch # NoWatch
    BY <1>1, <1>2
  <2>2. Cardinality(Held(Lens(granted'))) = 1
    BY <1>6
  <2>. QED
    BY <2>1, <2>2
<1>. QED
  BY <1>1, <1>4, <1>5, <1>6, FlagFalls

\* The provider refused to close the watch: the count goes back.
LEMMA ReleaseUndoKeeps ==
  ASSUME WInv, NEW th \in Threads, ReleaseUndo(th)
  PROVE  WInv'
<1>1. /\ watch_call[th].pc = "refused" /\ watch_call[th].pc \in Busy
      /\ schema_watches' = schema_watches + 1 /\ in_progress' = FALSE
      /\ Grant(th, watch_call[th].got)
      /\ EndAndNotify(th) /\ UNCHANGED <<cached, alive, watch, opened>>
  BY DEF ReleaseUndo, providerVars, Busy
<1>2. /\ WatchTypes /\ granted \in [Threads -> Seq(Nat)] /\ watch \in Nat /\ cached \in Nat
      /\ watch_call[th].got = watch /\ watch # NoWatch /\ schema_watches = 0 /\ cached = watch
  BY <1>1 DEF WInv, WatchTypes, Knows
<1>3. /\ \A u \in Threads : granted[u] = << >>
      /\ \A u \in Threads : Lens(granted)[u] = 0
      /\ Cardinality(Held(Lens(granted))) = 0
  BY <1>1, WhileBusy
<1>4. Grant(th, watch)
  BY <1>1, <1>2
<1>6. /\ granted' \in [Threads -> Seq(Nat)] /\ Cardinality(Held(Lens(granted'))) = 1
      /\ \A u \in Threads : Lens(granted')[u] = 0 \/ Lens(granted')[u] = 1
      /\ \A u \in Threads : \A k \in 1..Len(granted'[u]) : granted'[u][k] = watch
  BY <1>2, <1>3, <1>4, OneGrant
<1>5. /\ schema_watches' \in Nat /\ schema_watches' = Cardinality(Held(Lens(granted')))
      /\ schema_watches' > 0 <=> watch # NoWatch
      /\ schema_watches' > 0 => cached' = watch
      /\ cached' \in Nat
  <2>1. schema_watches' = 1 /\ cached' = watch /\ watch \in Nat /\ watch # NoWatch
    BY <1>1, <1>2
  <2>2. Cardinality(Held(Lens(granted'))) = 1
    BY <1>6
  <2>. QED
    BY <2>1, <2>2
<1>. QED
  BY <1>1, <1>4, <1>5, <1>6, FlagFalls

\* The two calls that end with no watch: one that was refused, one that released it.
LEMMA NoWatchKeeps ==
  ASSUME WInv, NEW th \in Threads, WatchRollback(th) \/ ReleaseEnd(th)
  PROVE  WInv'
<1>1. /\ watch_call[th].pc \in {"failed", "released"} /\ watch_call[th].pc \in Busy
      /\ in_progress' = FALSE /\ EndAndNotify(th)
      /\ UNCHANGED <<cached, granted, alive, watch, opened>>
  BY DEF WatchRollback, ReleaseEnd, providerVars, Busy
<1>2. granted \in [Threads -> Seq(Nat)] /\ cached \in Nat /\ watch = NoWatch
  BY <1>1 DEF WInv, WatchTypes, Knows
<1>3. schema_watches' = 0
  BY DEF WInv, WatchTypes, Knows, WatchRollback, RolledBack, ReleaseEnd
<1>4. /\ \A u \in Threads : granted[u] = << >> /\ Lens(granted)[u] = 0
      /\ Cardinality(Held(Lens(granted))) = 0
  BY <1>1, WhileBusy
<1>8. Len(<< >>) = 0
  OBVIOUS
<1>5. \A u \in Threads : Len(granted'[u]) = 0 /\ Lens(granted')[u] = 0
  BY <1>1, <1>4, <1>8
<1>6. /\ \A u \in Threads : Lens(granted')[u] = 0 \/ Lens(granted')[u] = 1
      /\ \A u \in Threads : \A k \in 1..Len(granted'[u]) : granted'[u][k] = watch
  BY <1>5
<1>7. /\ schema_watches' \in Nat /\ schema_watches' = Cardinality(Held(Lens(granted')))
      /\ schema_watches' > 0 <=> watch # NoWatch
      /\ schema_watches' > 0 => cached' = watch
      /\ cached' \in Nat /\ granted' \in [Threads -> Seq(Nat)]
  <2>1. cached' \in Nat /\ granted' = granted /\ granted \in [Threads -> Seq(Nat)]
    BY <1>1, <1>2
  <2>2. Cardinality(Held(Lens(granted'))) = 0
    BY <1>4, <2>1
  <2>. QED
    BY <1>2, <1>3, <2>1, <2>2
<1>. QED
  BY <1>1, <1>6, <1>7, FlagFalls

\* What is left after a release is still the provider's watch.
LEMMA DropServed ==
  ASSUME WInv, NEW th \in Threads, granted[th] # << >>, Drop(th)
  PROVE  /\ \A u \in Threads : \A k \in 1..Len(granted'[u]) : granted'[u][k] = watch
         /\ Head(granted[th]) = watch
<1>1. /\ granted'[th] = Tail(granted[th])
      /\ \A u \in Threads : u # th => granted'[u] = granted[u]
  BY DropIs DEF WInv
<1>2. PICK s \in Seq(Nat) : s = granted[th]
  BY DEF WInv, WatchTypes
<1>3. s # << >> /\ \A k \in 1..Len(s) : s[k] = watch
  BY <1>2 DEF WInv
<1>4. Head(s) = watch
  <2>1. Head(s) = s[1] /\ 1 \in 1..Len(s)
    BY <1>3
  <2>. QED
    BY <1>3, <2>1
<1>5. ASSUME NEW k \in 1..Len(Tail(s))
      PROVE  Tail(s)[k] = watch
  <2>1. Tail(s)[k] = s[k + 1] /\ k + 1 \in 1..Len(s)
    BY <1>3
  <2>. QED
    BY <1>3, <2>1
<1>. QED
  BY <1>1, <1>2, <1>4, <1>5 DEF WInv

\* A watch is released that is not the last one.
LEMMA ReleaseOneKeeps ==
  ASSUME WInv, NEW th \in Threads, ReleaseOne(th)
  PROVE  WInv'
<1>1. /\ watch_call[th].pc = "idle" /\ granted[th] # << >> /\ schema_watches > 1
      /\ schema_watches' = schema_watches - 1
      /\ Drop(th)
      /\ alive /\ UNCHANGED <<in_progress, cached, watch_call, alive, watch, opened>>
  BY DEF ReleaseOne, providerVars
<1>2. granted \in [Threads -> Seq(Nat)] /\ schema_watches \in Nat /\ Lens(granted)[th] <= 2
  BY DEF WInv, WatchTypes, AtMostTwo
<1>3. ~in_progress
  BY <1>1 DEF WInv, OneBusy
<1>4. /\ granted' \in [Threads -> Seq(Nat)]
      /\ Lens(granted) \in [Threads -> Nat] /\ Lens(granted') \in [Threads -> Nat]
      /\ Lens(granted)[th] = Lens(granted')[th] + 1
      /\ \A u \in Threads : u # th => Lens(granted')[u] = Lens(granted)[u]
  BY <1>1, DropIs DEF WInv
<1>13. Cardinality(Held(Lens(granted'))) = Cardinality(Held(Lens(granted))) - 1
  BY <1>2, <1>4, HeldShrinks
<1>5. \A u \in Threads : \A k \in 1..Len(granted'[u]) : granted'[u][k] = watch
  BY <1>1, DropServed
<1>6. WatchTypes'
  BY <1>1, <1>2, <1>4 DEF WInv, WatchTypes
<1>7. AtMostTwo'
  <2>1. Lens(granted')[th] < 2
    BY <1>2, <1>4
  <2>2. Lens(granted')[th] <= 2
    BY <1>4, <2>1
  <2>. QED
    BY <1>1, <1>4, <2>1, <2>2 DEF WInv, AtMostTwo
<1>8. OneBusy' /\ AfterDestroy'
  BY <1>1, <1>3 DEF WInv, OneBusy, AfterDestroy
<1>9. Counted'
  <2>1. PICK c \in Nat, d \in Nat :
          c = Cardinality(Held(Lens(granted))) /\ d = Cardinality(Held(Lens(granted')))
    BY <1>4, HeldFinite
  <2>2. schema_watches = c /\ d = c - 1 /\ (c > 0 <=> watch # NoWatch) /\ (c > 0 => cached = watch)
    BY <1>1, <1>3, <1>13, <2>1, CountIs
  <2>3. c > 1 /\ schema_watches' = d /\ d > 0
    BY <1>1, <2>1, <2>2
  <2>4. watch' = watch /\ cached' = cached /\ watch # NoWatch /\ cached = watch
    BY <1>1, <2>2, <2>3
  <2>. QED
    BY <2>1, <2>3, <2>4 DEF Counted
<1>10. \A u \in Threads : watch_call[u].pc \notin Busy
  BY <1>3 DEF WInv, OneBusy
<1>11. \A u \in Threads : Knows(watch_call[u])'
  BY <1>1, <1>10 DEF Knows, Busy
<1>12. (\A u \in Threads : \A k \in 1..Len(granted[u]) : granted[u][k] = watch)'
  BY <1>1, <1>5
<1>. QED
  BY <1>6, <1>7, <1>8, <1>9, <1>11, <1>12 DEF WInv

\* The last watch: the count goes to zero and the flag is set before the
\* provider is called.
LEMMA ReleaseLastKeeps ==
  ASSUME WInv, NEW th \in Threads, ReleaseLast(th)
  PROVE  WInv'
<1>1. /\ watch_call[th].pc = "idle" /\ granted[th] # << >> /\ schema_watches = 1
      /\ schema_watches' = 0 /\ in_progress' = TRUE
      /\ Drop(th)
      /\ watch_call' = [watch_call EXCEPT ![th] = [pc |-> "release", got |-> Head(granted[th])]]
      /\ alive /\ UNCHANGED <<cached, alive, watch, opened>>
  BY DEF ReleaseLast, Raised, providerVars
<1>2. /\ granted \in [Threads -> Seq(Nat)] /\ Lens(granted)[th] <= 2 /\ watch \in Nat
      /\ watch_call \in [Threads -> [pc : WatchPcs, got : Nat]]
  BY DEF WInv, WatchTypes, AtMostTwo
<1>3. ~in_progress
  BY <1>1 DEF WInv, OneBusy
<1>4. Cardinality(Held(Lens(granted))) = 1 /\ watch # NoWatch /\ cached = watch
  <2>1. /\ schema_watches \in Nat /\ schema_watches = Cardinality(Held(Lens(granted)))
        /\ schema_watches > 0 <=> watch # NoWatch
        /\ schema_watches > 0 => cached = watch
    BY <1>1, <1>3, CountIs
  <2>. QED
    BY <1>1, <2>1
<1>15. /\ granted' \in [Threads -> Seq(Nat)]
       /\ Lens(granted) \in [Threads -> Nat] /\ Lens(granted') \in [Threads -> Nat]
       /\ Lens(granted)[th] = Lens(granted')[th] + 1
       /\ \A u \in Threads : u # th => Lens(granted')[u] = Lens(granted)[u]
  BY <1>1, DropIs DEF WInv
<1>5. granted' \in [Threads -> Seq(Nat)] /\ Cardinality(Held(Lens(granted'))) = 0
  <2>2. Cardinality(Held(Lens(granted'))) = Cardinality(Held(Lens(granted))) - 1
    BY <1>2, <1>15, HeldShrinks
  <2>. QED
    BY <1>4, <1>15, <2>2
<1>6. \A u \in Threads : granted'[u] = << >> /\ Lens(granted')[u] = 0
  BY <1>5, <1>15, LensAre, HeldFinite
<1>7. Head(granted[th]) = watch
  BY <1>1, DropServed
<1>8. /\ watch_call' \in [Threads -> [pc : WatchPcs, got : Nat]]
      /\ watch_call'[th].pc = "release" /\ watch_call'[th].got = watch
      /\ \A u \in Threads : u # th => watch_call'[u] = watch_call[u]
  BY <1>1, <1>2, <1>7 DEF WatchPcs, Busy
<1>9. \A u \in Threads : watch_call[u].pc \notin Busy
  BY <1>3 DEF WInv, OneBusy
<1>10. WatchTypes' /\ Counted' /\ AfterDestroy'
  BY <1>1, <1>5, <1>8 DEF WInv, WatchTypes, Counted, AfterDestroy
<1>11. AtMostTwo'
  BY <1>6 DEF AtMostTwo
<1>12. OneBusy'
  BY <1>1, <1>6, <1>8, <1>9 DEF OneBusy, Busy
<1>13. ASSUME NEW u \in Threads
       PROVE  Knows(watch_call[u])'
  <2>1. CASE u = th
    BY <1>1, <1>4, <1>8, <2>1 DEF Knows
  <2>2. CASE u # th
    BY <1>8, <1>9, <2>2 DEF Knows, Busy
  <2>. QED
    BY <2>1, <2>2
<1>14. (\A u \in Threads : \A k \in 1..Len(granted[u]) : granted[u][k] = watch)'
  <2>1. \A u \in Threads : 1..Len(granted'[u]) = {}
    BY <1>6
  <2>. QED
    BY <2>1
<1>. QED
  BY <1>10, <1>11, <1>12, <1>13, <1>14 DEF WInv

\* The destructor takes what was granted away.
LEMMA DestroyKeeps ==
  ASSUME WInv, NEW th \in Threads, Destroy(th)
  PROVE  WInv'
<1>1. /\ \A u \in Threads : watch_call[u].pc = "idle"
      /\ alive' = FALSE /\ granted' = [u \in Threads |-> << >>]
      /\ UNCHANGED <<in_progress, cached, watch_call, opened>>
      /\ schema_watches' \in {0, schema_watches} /\ watch' \in {NoWatch, watch}
  BY DEF Destroy
<1>2. /\ schema_watches \in Nat /\ watch \in Nat /\ NoWatch \in Nat /\ << >> \in Seq(Nat)
  BY DEF WInv, WatchTypes, NoWatch
<1>3. granted' \in [Threads -> Seq(Nat)] /\ \A u \in Threads : granted'[u] = << >>
  BY <1>1, <1>2
<1>4. \A u \in Threads : Lens(granted')[u] = 0
  BY <1>3, LensAre
<1>5. WatchTypes' /\ Counted' /\ AfterDestroy'
  <2>1. schema_watches' \in Nat /\ watch' \in Nat
    <3>1. 0 \in Nat /\ schema_watches' \in Nat
      <4>1. 0 \in Nat
        OBVIOUS
      <4>. QED
        BY <1>1, <1>2, <4>1, Zenon
    <3>2. watch' \in Nat
      BY <1>1, <1>2, Zenon
    <3>. QED
      BY <3>1, <3>2
  <2>2. WatchTypes'
    BY <1>1, <1>3, <2>1 DEF WInv, WatchTypes
  <2>3. Counted'
    BY <1>1 DEF Counted
  <2>4. AfterDestroy'
    BY <1>1, <1>3 DEF AfterDestroy
  <2>. QED
    BY <2>2, <2>3, <2>4
<1>6. AtMostTwo'
  BY <1>4 DEF AtMostTwo
<1>7. OneBusy'
  BY <1>1, <1>3 DEF WInv, OneBusy
<1>8. \A u \in Threads : Knows(watch_call[u])'
  BY <1>1 DEF Knows
<1>9. (\A u \in Threads : \A k \in 1..Len(granted[u]) : granted[u][k] = watch)'
  <2>1. \A u \in Threads : 1..Len(granted'[u]) = {}
    BY <1>3
  <2>. QED
    BY <2>1
<1>. QED
  BY <1>5, <1>6, <1>7, <1>8, <1>9 DEF WInv

\* A delivery touches nothing of the Subscriber's.
LEMMA WatchesStay ==
  ASSUME WInv, UNCHANGED <<schema_watches, in_progress, cached, watch_call, granted, alive,
                           watch, opened>>
  PROVE  WInv'
<1>1. WatchTypes' /\ AtMostTwo' /\ AfterDestroy'
  BY DEF WInv, WatchTypes, AtMostTwo, AfterDestroy
<1>2. OneBusy'
  BY DEF WInv, OneBusy
<1>3. Counted'
  BY DEF WInv, Counted
<1>4. \A u \in Threads : Knows(watch_call[u])'
  BY DEF WInv, Knows
<1>. QED
  BY <1>1, <1>2, <1>3, <1>4 DEF WInv

\* A Subscriber starts with no watch and no delivery.
LEMMA WatchInitKeeps == WatchInit => WInv /\ Dispatching
<1> SUFFICES ASSUME WatchInit
             PROVE  WInv /\ Dispatching
  OBVIOUS
<1>1. NoWatchCall \in [pc : WatchPcs, got : Nat] /\ NoWatchCall.pc = "idle" /\ NoWatch = 0
  BY DEF NoWatchCall, NoWatch, WatchPcs
<1>2. << >> \in Seq(Nat)
  OBVIOUS
<1>3. /\ watch_call \in [Threads -> [pc : WatchPcs, got : Nat]]
      /\ \A u \in Threads : watch_call[u].pc = "idle"
  BY <1>1 DEF WatchInit
<1>4. granted \in [Threads -> Seq(Nat)] /\ \A u \in Threads : granted[u] = << >>
  BY <1>2 DEF WatchInit
<1>5. Lens(granted) \in [Threads -> Nat] /\ \A u \in Threads : Lens(granted)[u] = 0
  BY <1>4, LensAre
<1>6. Cardinality(Held(Lens(granted))) = 0
  BY <1>5, HeldFinite
<1>7. WatchTypes /\ Counted /\ AfterDestroy
  <2>1. /\ schema_watches = 0 /\ cached = 0 /\ watch = 0 /\ opened = 0
        /\ in_progress = FALSE /\ alive = TRUE
    BY <1>1 DEF WatchInit
  <2>2. WatchTypes
    BY <1>3, <1>4, <2>1 DEF WatchTypes
  <2>3. Counted
    BY <1>1, <1>6, <2>1 DEF Counted
  <2>4. AfterDestroy
    BY <2>1 DEF AfterDestroy
  <2>. QED
    BY <2>2, <2>3, <2>4
<1>8. AtMostTwo
  BY <1>5 DEF AtMostTwo
<1>9. OneBusy
  BY <1>3 DEF WatchInit, OneBusy, Busy
<1>10. \A u \in Threads : Knows(watch_call[u])
  BY <1>3 DEF Knows
<1>11. \A u \in Threads : \A k \in 1..Len(granted[u]) : granted[u][k] = watch
  <2>1. \A u \in Threads : 1..Len(granted[u]) = {}
    <3>1. 1..Len(<< >>) = {}
      OBVIOUS
    <3>. QED
      BY <1>4, <3>1, Zenon
  <2>. QED
    BY <2>1
<1>12. Dispatching
  BY SchemaWatchAssumption DEF WatchInit, FrameInit, Dispatching
<1>. QED
  BY <1>7, <1>8, <1>9, <1>10, <1>11, <1>12 DEF WInv

\* Every step preserves the invariant: one lemma above per action.
LEMMA WatchStepKeeps == ASSUME WInv, [WatchNext]_<<watchesVars, frameVars>> PROVE WInv'
<1>1. CASE UNCHANGED <<watchesVars, frameVars>>
  BY <1>1, WatchesStay DEF watchesVars, watchVars, providerVars
<1>2. ASSUME NEW th \in Threads, DeliverBegin(th) \/ DeliverEnd(th)
      PROVE  WInv'
  BY <1>2, WatchesStay DEF DeliverBegin, DeliverEnd, watchVars
<1>3. ASSUME NEW th \in Threads, Progress(th)
      PROVE  WInv'
  BY <1>2, <1>3, WatchWaitKeeps, WatchJoinKeeps, WatchFirstKeeps, ProviderKeeps,
     WatchStoreKeeps, NoWatchKeeps, ReleaseUndoKeeps DEF Progress
<1>. QED
  BY <1>1, <1>2, <1>3, SubscribeSchemaKeeps, ReleaseOneKeeps, ReleaseLastKeeps, DestroyKeeps
     DEF WatchNext

\* Deliveries begin and end under the provider's mutex.
LEMMA DispatchingKeeps ==
  ASSUME Dispatching, [WatchNext]_<<watchesVars, frameVars>>
  PROVE  Dispatching'
<1>1. CASE UNCHANGED <<stack, provider_mu>>
  BY <1>1 DEF Dispatching
<1>2. ASSUME NEW th \in Threads, DeliverBegin(th)
      PROVE  Dispatching'
  <2>1. /\ provider_mu = NoOwner /\ provider_mu' = th
        /\ stack' = [stack EXCEPT ![th] = Append(@, WatchProvider)]
    BY <1>2 DEF DeliverBegin, PushScope
  <2>2. \A u \in Threads : stack[u] = << >>
    BY <2>1, SchemaWatchAssumption DEF Dispatching
  <2>3. Append(<< >>, WatchProvider) = <<WatchProvider>>
    OBVIOUS
  <2>4. /\ <<WatchProvider>> \in Seq({WatchProvider})
        /\ stack \in [Threads -> Seq({WatchProvider})]
    BY DEF Dispatching
  <2>5. /\ stack' = [stack EXCEPT ![th] = <<WatchProvider>>]
    BY <2>1, <2>2, <2>3
  <2>6. stack' \in [Threads -> Seq({WatchProvider})]
    BY <2>4, <2>5
  <2>7. stack'[th] = <<WatchProvider>> /\ \A u \in Threads : u # th => stack'[u] = << >>
    BY <2>2, <2>4, <2>5
  <2>. QED
    BY <2>1, <2>6, <2>7 DEF Dispatching
<1>3. ASSUME NEW th \in Threads, DeliverEnd(th)
      PROVE  Dispatching'
  <2>1. /\ \E k \in 1..Len(stack[th]) : stack[th][k] = WatchProvider
        /\ provider_mu' = NoOwner
        /\ stack' = [stack EXCEPT ![th] = SubSeq(@, 1, Len(@) - 1)]
    BY <1>3 DEF DeliverEnd, InsideProvider, InsideDeliveryOn, PopScope
  <2>2. provider_mu = th /\ stack[th] = <<WatchProvider>>
    BY <2>1 DEF Dispatching
  <2>3. \A u \in Threads : u # th => stack[u] = << >>
    BY <2>2 DEF Dispatching
  <2>4. Len(<<WatchProvider>>) = 1 /\ SubSeq(<<WatchProvider>>, 1, 0) = << >>
    OBVIOUS
  <2>5. /\ << >> \in Seq({WatchProvider}) /\ stack \in [Threads -> Seq({WatchProvider})]
    BY DEF Dispatching
  <2>6. stack' = [stack EXCEPT ![th] = << >>]
    <3>1. Len(stack[th]) - 1 = 0
      BY <2>2, <2>4
    <3>2. SubSeq(stack[th], 1, Len(stack[th]) - 1) = << >>
      BY <2>2, <2>4, <3>1
    <3>. QED
      BY <2>1, <3>2, Zenon
  <2>7. stack' \in [Threads -> Seq({WatchProvider})]
    BY <2>5, <2>6
  <2>8. \A u \in Threads : stack'[u] = << >>
    BY <2>3, <2>5, <2>6
  <2>. QED
    BY <2>1, <2>7, <2>8, SchemaWatchAssumption DEF Dispatching
<1>. QED
  BY <1>1, <1>2, <1>3 DEF WatchNext, Progress, SubscribeSchema, ReleaseOne, ReleaseLast, Destroy,
     WatchWait, WatchJoin, WatchFirst, ProviderOpen, ProviderOpenFails, WatchStore, WatchRollback,
     ProviderClose, ProviderCloseRefused, ReleaseEnd, ReleaseUndo, providerVars, frameVars,
     watchesVars

\* So it holds throughout.
LEMMA WatchesAreInv == WatchSpec => [](WInv /\ Dispatching)
<1>1. WInv /\ Dispatching /\ [WatchNext]_<<watchesVars, frameVars>> => (WInv /\ Dispatching)'
  BY WatchStepKeeps, DispatchingKeeps
<1>. QED
  BY <1>1, WatchInitKeeps, PTL DEF WatchSpec

\* SubscribeSchema and UnsubscribeSchema: whoever was granted a schema watch
\* holds the arrival of the one that the provider has open, and the count is
\* the number of watches granted, whatever the calls, refusals and deliveries
\* of any number of threads.
THEOREM SchemaGrantsAreServed == WatchSpec => []GrantsAreServed
<1>1. WInv => GrantsAreServed
  <2> SUFFICES ASSUME WInv
               PROVE  GrantsAreServed
    OBVIOUS
  <2>1. \A g \in Threads \X {1, 2} : Lens(granted)[g[1]] = Len(granted[g[1]])
    BY DEF Lens
  <2>2. {g \in Threads \X {1, 2} : g[2] <= Len(granted[g[1]])} = Held(Lens(granted))
    BY <2>1, Zenon DEF Held
  <2>. QED
    BY <2>2 DEF WInv, Counted, GrantsAreServed
<1>. QED
  BY <1>1, WatchesAreInv, PTL

\* ~Subscriber: outside a delivery the destructor closes the provider's watch,
\* inside one it leaves it as it is.
THEOREM DestructorReleasesWatches == WatchSpec => DestroyedReleases
<1>1. WInv /\ Dispatching /\ [WatchNext]_<<watchesVars, frameVars>> =>
        [alive /\ ~alive' =>
           watch' = IF provider_mu = NoOwner THEN NoWatch ELSE watch]_<<watchesVars, frameVars>>
  <2> SUFFICES ASSUME WInv, Dispatching, WatchNext, alive, ~alive'
               PROVE  watch' = IF provider_mu = NoOwner THEN NoWatch ELSE watch
    OBVIOUS
  <2>1. PICK th \in Threads : Destroy(th)
    BY DEF WatchNext, Progress, SubscribeSchema, ReleaseOne, ReleaseLast,
       WatchWait, WatchJoin, WatchFirst, ProviderOpen, ProviderOpenFails, WatchStore,
       WatchRollback, ProviderClose, ProviderCloseRefused, ReleaseEnd, ReleaseUndo,
       DeliverBegin, DeliverEnd
  <2>2. ~in_progress
    <3>1. \A u \in Threads : watch_call[u].pc \notin Busy
      BY <2>1 DEF Destroy, Busy
    <3>. QED
      BY <3>1 DEF WInv, OneBusy
  <2>3. schema_watches \in Nat /\ (schema_watches > 0 <=> watch # NoWatch)
    BY <2>2 DEF WInv, WatchTypes, Counted
  <2>4. CASE provider_mu # NoOwner
    BY <2>1, <2>4 DEF Destroy
  <2>5. CASE provider_mu = NoOwner
    <3>1. stack[th] = << >>
      BY <2>5, SchemaWatchAssumption DEF Dispatching
    <3>2. 1..Len(<< >>) = {}
      OBVIOUS
    <3>3. ~InsideProvider(th)
      BY <3>1, <3>2 DEF InsideProvider, InsideDeliveryOn
    <3>. QED
      BY <2>1, <2>3, <2>5, <3>3 DEF Destroy, DtorReleases
  <2>. QED
    BY <2>4, <2>5
<1>. QED
  BY <1>1, WatchesAreInv, PTL DEF WatchSpec, DestroyedReleases
=============================================================================
