------------------------------ MODULE Publisher ------------------------------
(***************************************************************************)
(* fletcher::Publisher (pubsub/src/publisher.cpp): the topic registries of *)
(* several Publishers that share one provider, and CreateTopic, which      *)
(* reserves the registry entry under the mutex, calls the provider without *)
(* it, and takes the entry back when the provider throws.                  *)
(*                                                                         *)
(* The provider is its contract (provider.hpp): the first declaration of a *)
(* topic stands, a conflicting one is refused, and any may fail.           *)
(***************************************************************************)
EXTENDS Naturals

CONSTANTS
    Publishers,     \* Publisher objects over the one provider
    Callers,        \* threads that call them
    Topics,         \* topic keys
    Schemas,        \* schemas, "no schema" being one of them
    Opaque,         \* those the IPC writer rejects, so nothing compares them
    Profiles,       \* non-empty TopicOptions::profile values
    Bounds,         \* non-zero TopicOptions::max_payload_bytes values
    NoProfile, NoTopic, NoPublisher, NoSchema

ASSUME PublisherAssumption ==
    /\ Opaque \subseteq Schemas
    /\ NoProfile \notin Profiles /\ 0 \notin Bounds
    /\ NoTopic \notin Topics /\ NoPublisher \notin Publishers
    /\ NoSchema \notin Schemas

VARIABLES
    topics,     \* Impl::topics of each Publisher
    call,       \* the CreateTopic each thread is in
    created,    \* external: what the provider has for each topic
    succeeded   \* history: topics for which a CreateTopic returned normally

vars == <<topics, call, created, succeeded>>

TopicOptions == [profile : Profiles \cup {NoProfile}, bound : Bounds \cup {0}]
NoOptions == [profile |-> NoProfile, bound |-> 0]
TopicEntry == [schema : Schemas, options : TopicOptions]
NoEntry == [schema |-> NoSchema, options |-> NoOptions]
NoCall == [pc |-> "idle", publisher |-> NoPublisher, topic |-> NoTopic,
           entry |-> NoEntry]

Init ==
    /\ topics = [p \in Publishers |-> [t \in Topics |-> NoEntry]]
    /\ call = [th \in Callers |-> NoCall]
    /\ created = [t \in Topics |-> NoEntry]
    /\ succeeded = {}

\* DeclaredSchema::ConflictsWith: provably different shapes.
ConflictsWith(incoming, existing) ==
    incoming \notin Opaque /\ existing \notin Opaque /\ incoming # existing

\* Field by field, a call may repeat or omit what is stored, never change it;
\* a field against an empty stored one is a change.
OptionsConflict(options, stored) ==
    \/ options.profile # NoProfile /\ options.profile # stored.profile
    \/ options.bound # 0 /\ options.bound # stored.bound

Acceptable(e, stored) ==
    /\ ~ConflictsWith(e.schema, stored.schema)
    /\ ~OptionsConflict(e.options, stored.options)

\* The registry after `topics.emplace`, before the provider is called.
Reserve(p, t, e) == [topics EXCEPT ![p][t] = e]

\* CreateTopic on a topic this Publisher does not have yet.
CreateTopicFirst(th, p, t, e) ==
    /\ call[th].pc = "idle"
    /\ topics[p][t] = NoEntry
    /\ topics' = Reserve(p, t, e)
    /\ call' = [call EXCEPT ![th] = [pc |-> "provider", publisher |-> p,
                                     topic |-> t, entry |-> e]]
    /\ UNCHANGED <<created, succeeded>>

\* CreateTopic on one it has: refused, or nothing to do.
CreateTopicAgain(th, p, t, e) ==
    /\ call[th].pc = "idle"
    /\ topics[p][t] # NoEntry
    /\ succeeded' = IF Acceptable(e, topics[p][t]) THEN succeeded \cup {t}
                    ELSE succeeded
    /\ UNCHANGED <<topics, call, created>>

\* External: the provider has the topic, or makes it, and CreateTopic returns.
ProviderCreates(th) ==
    LET t == call[th].topic
        e == call[th].entry IN
    /\ call[th].pc = "provider"
    /\ created[t] # NoEntry => Acceptable(e, created[t])
    /\ created' = IF created[t] = NoEntry THEN [created EXCEPT ![t] = e]
                  ELSE created
    /\ call' = [call EXCEPT ![th] = NoCall]
    /\ succeeded' = succeeded \cup {t}
    /\ UNCHANGED topics

\* External: the provider throws, for a conflict or for any other reason.
ProviderThrows(th) ==
    /\ call[th].pc = "provider"
    /\ call' = [call EXCEPT ![th].pc = "failed"]
    /\ UNCHANGED <<topics, created, succeeded>>

\* Mutant: the entry stays.
KeepEntry(p, t) == topics

\* The registry after `topics.erase`.
Erase(p, t) == [topics EXCEPT ![p][t] = NoEntry]

\* The catch block: the reservation is taken back and the exception goes on.
CreateTopicFails(th) ==
    /\ call[th].pc = "failed"
    /\ topics' = Erase(call[th].publisher, call[th].topic)
    /\ call' = [call EXCEPT ![th] = NoCall]
    /\ UNCHANGED <<created, succeeded>>

Next ==
    \E th \in Callers :
        \/ \E p \in Publishers, t \in Topics, e \in TopicEntry :
              CreateTopicFirst(th, p, t, e) \/ CreateTopicAgain(th, p, t, e)
        \/ ProviderCreates(th) \/ ProviderThrows(th) \/ CreateTopicFails(th)

Spec == Init /\ [][Next]_vars

------------------------------------------------------------------------------
(* Properties *)

InProvider(th, p, t) ==
    call[th].pc # "idle" /\ call[th].publisher = p /\ call[th].topic = t

\* A registry entry that no CreateTopic is still working on is backed by the
\* provider: it has the topic, with that shape and with every option the
\* entry names.  So what ListTopics lists and what a re-declaration is checked
\* against is what the provider has, once the calls are over.  Until then one
\* thread declares the topic for its Publisher, and the entry it takes back
\* when the provider refuses is its own.
RegistryBacked ==
    /\ \A p \in Publishers, t \in Topics :
         LET e == topics[p][t]
             c == created[t] IN
         e # NoEntry /\ (\A th \in Callers : ~InProvider(th, p, t)) =>
             /\ c # NoEntry
             /\ {e.schema, c.schema} \cap Opaque = {} => e.schema = c.schema
             /\ e.options.profile \in {NoProfile, c.options.profile}
             /\ e.options.bound \in {0, c.options.bound}
    /\ \A p \in Publishers, t \in Topics, th, u \in Callers :
         InProvider(th, p, t) =>
             /\ topics[p][t] = call[th].entry
             /\ InProvider(u, p, t) => u = th

\* publisher.hpp, CreateTopic: "Create a topic on the underlying provider and
\* register it in the local topic registry."  Once every call has returned,
\* the provider has each topic for which one returned normally.
CreatedMeansDeclared ==
    (\A th \in Callers : call[th].pc = "idle") =>
        \A t \in succeeded : created[t] # NoEntry
=============================================================================
