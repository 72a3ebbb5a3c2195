----------------------------- MODULE Deployment -----------------------------
(***************************************************************************)
(* How a process comes by its providers: the selector and the registry of  *)
(* pubsub/src/provider_registry.cpp, the documents the three providers     *)
(* read, the Fast DDS profile registry of the process and the endpoint QoS *)
(* it decides, and the command line of the gateway.                        *)
(*                                                                         *)
(* A text is [text, shape, number, colons]: its spelling, what the         *)
(* character tests of the code say about it ("empty", "nul", "spaced",     *)
(* "name" or "path"), the number its digits spell (<<>> when they spell    *)
(* none) and the colons in it.  A document is [bytes, lines, xml]: its     *)
(* identity, its key=value lines (<<>> a blank one, <<t>> one with no '=', *)
(* <<key, value>>), and what Fast DDS reads in it (<<>> when it cannot).   *)
(***************************************************************************)
EXTENDS Integers, Sequences

CONSTANTS
  Word32,          \* 2^32
  MaxBound,        \* kMaxPayloadBytes
  Names,           \* the texts factories are registered under
  Asks,            \* the <<selector text, ProviderConfig>> the process may ask for
  CommandLines,    \* the sequences of argument texts of the gateway
  Files,           \* path -> [kind, document] for the files of --provider-config
  ProfileNames,    \* the TopicOptions::profile values
  DeployTopics,    \* the joined topic names
  MaxProviders     \* bound: providers a process creates

VARIABLES
  provider_registry,    \* ProviderRegistry: [alive, factories, path_resolver]
  loaded,      \* LoadDocumentOnce's static: <<>> or <<document>>
  providers,   \* the handles Create returned
  endpoints,   \* the data writers and readers, with the QoS resolved for them
  outcome      \* the last status, and what the gateway's process did

deployVars == <<provider_registry, loaded, providers, endpoints, outcome>>

kOk == "kOk"
kInvalidArgument == "kInvalidArgument"
kNotSupported == "kNotSupported"
kInternal == "kInternal"

\* A call that throws yields the status; one that returns, <<value>>.
Failed(status) == [status |-> status, value |-> <<>>]
Done(value) == [status |-> kOk, value |-> <<value>>]
IfDone(result, F(_)) == IF result.status = kOk THEN F(result.value[1]) ELSE result

-----------------------------------------------------------------------------
(* core/status.hpp *)

Sanitize(status) ==
  IF status \in {kOk, "kPending", "kSubscriptionEnded"} THEN kInternal ELSE status

PubSubError(status) == Failed(Sanitize(status))

\* What leaves the seam when the call behind it throws.
TranslateSeamFailure(thrown, status) ==
  CASE thrown = "PubSubError" -> PubSubError(status)
    [] thrown = "overflow_error" -> Failed("kPayloadTooLarge")
    [] OTHER -> Failed(kInternal)

-----------------------------------------------------------------------------
(* The key=value documents of the loopback and of XRCE. *)

NoDocument == [bytes |-> "empty", lines |-> <<>>, xml |-> <<>>]
HoldsNul(document) ==
  \E i \in DOMAIN document.lines : \E j \in DOMAIN document.lines[i] :
    document.lines[i][j].shape = "nul"

\* The loop both readers share the shape of: blank lines skipped, a line with
\* no '=' and a second line for a key refused, the others applied in turn.
ReadLines(document, settings, Legal(_), Apply(_, _, _)) ==
  LET Step(sofar, line) ==
        CASE sofar.status # kOk -> sofar
          [] line = <<>> -> sofar
          [] OTHER ->
               LET read == sofar.value[1]
               IN  IF \/ ~Legal(line) \/ Len(line) = 1
                      \/ line[1].text \in read.seen
                   THEN Failed(kInvalidArgument)
                   ELSE IfDone(Apply(read.settings, line[1].text, line[2]),
                               LAMBDA s : Done([settings |-> s,
                                                seen |-> read.seen \cup {line[1].text}]))
      After[n \in 0..Len(document.lines)] ==
        IF n = 0 THEN Done([settings |-> settings, seen |-> {}])
        ELSE Step(After[n - 1], document.lines[n])
  IN  IF HoldsNul(document) THEN Failed(kInvalidArgument)
      ELSE IfDone(After[Len(document.lines)], LAMBDA read : Done(read.settings))

ParseSchemaCarriage(document) ==
  LET Apply(carriage, key, value) ==
        IF key = "schema_carriage" /\ value.text \in {"as_declared", "carried"}
        THEN Done(value.text) ELSE Failed(kInvalidArgument)
  IN  ReadLines(document, "as_declared", LAMBDA line : TRUE, Apply)

XrceDefaults == [transport |-> "udp", agent_host |-> "127.0.0.1", agent_port |-> 2018,
                 session_key |-> Word32 \div 2, connect_timeout |-> 3000]

DecimalIn(value, low, high) == value.number # <<>> /\ value.number[1] \in low..high

\* An agent's address is a text whose spelling is the host and whose number
\* is the port; colons counts the ':' in it.
ParseXrceDocument(document) ==
  LET Unspaced(line) == \A j \in DOMAIN line : line[j].shape # "spaced"
      Apply(s, key, value) ==
        CASE key = "transport" ->
               CASE value.text \in {"udp", "tcp"} -> Done([s EXCEPT !.transport = value.text])
                 [] value.text = "serial" -> Failed(kNotSupported)
                 [] OTHER -> Failed(kInvalidArgument)
          [] key = "agent" /\ value.colons = 1 /\ value.text # ""
                          /\ DecimalIn(value, 1, 65535) ->
               Done([s EXCEPT !.agent_host = value.text, !.agent_port = value.number[1]])
          [] key = "session_key" /\ DecimalIn(value, 0, Word32 - 1) ->
               Done([s EXCEPT !.session_key = value.number[1]])
          [] key = "connect_timeout_ms" /\ DecimalIn(value, 0, 60000) ->
               Done([s EXCEPT !.connect_timeout = value.number[1]])
          [] OTHER -> Failed(kInvalidArgument)
  IN  ReadLines(document, XrceDefaults, Unspaced, Apply)

\* A budget bought as whole attempts of a second each.
SessionAttempts(ms) == IF ms <= 0 THEN 0 ELSE (ms + 999) \div 1000

-----------------------------------------------------------------------------
(* The Fast DDS profiles: the baked-in document, the registry of the process, *)
(* and the QoS it decides for an endpoint.                                 *)

Qos(reliability, durability, history, depth, samples, blocks) ==
  [reliability |-> reliability, durability |-> durability, history |-> history,
   depth |-> depth, max_samples |-> samples, max_samples_per_instance |-> samples,
   allocated_samples |-> samples, blocks |-> blocks]

FireAndForget == Qos("BEST_EFFORT", "VOLATILE", "KEEP_LAST", 1, 1, FALSE)
Latest == Qos("RELIABLE", "VOLATILE", "KEEP_LAST", 1, 1, FALSE)
StoreLatest == Qos("RELIABLE", "TRANSIENT_LOCAL", "KEEP_LAST", 1, 1, FALSE)
StoreHistory == Qos("RELIABLE", "TRANSIENT_LOCAL", "KEEP_LAST", 25, 25, FALSE)
LosslessWriter == Qos("RELIABLE", "VOLATILE", "KEEP_ALL", 0, 25, TRUE)
LosslessReader == Qos("RELIABLE", "VOLATILE", "KEEP_ALL", 0, 25, FALSE)
Stream == Qos("RELIABLE", "VOLATILE", "KEEP_LAST", 25, 25, FALSE)

Pairs(lossless, default) ==
  [n \in {"fire_and_forget", "latest", "store_latest", "store_history", "lossless", default} |->
     CASE n = "fire_and_forget" -> FireAndForget
       [] n = "latest" -> Latest
       [] n = "store_latest" -> StoreLatest
       [] n = "store_history" -> StoreHistory
       [] n = "lossless" -> lossless
       [] OTHER -> Stream]

FletcherDefaultProfilesDocument ==
  [bytes |-> "built in", lines |-> <<>>,
   xml |-> <<[anchor |-> TRUE, domainId |-> 0,
              writers |-> Pairs(LosslessWriter, "default_writer"),
              readers |-> Pairs(LosslessReader, "default_reader"),
              default_writer |-> Stream, default_reader |-> Stream]>>]

MakeSchemaChannelWriterQos == Qos("RELIABLE", "TRANSIENT_LOCAL", "KEEP_LAST", 1, 1, FALSE)
MakeSchemaChannelReaderQos == Qos("RELIABLE", "TRANSIENT_LOCAL", "KEEP_LAST", 1, 1, FALSE)

\* Mutant: every document is taken, and the last one counts.
LoadDocumentLast(document) ==
  IF document.xml = <<>> THEN Failed(kInvalidArgument) ELSE Done(document)

\* The first document that parses is the process's; another one is refused.
LoadDocumentOnce(document) ==
  LET agrees == IF loaded = <<>> THEN document.xml # <<>> ELSE loaded[1] = document
  IN  IF agrees THEN Done(document) ELSE Failed(kInvalidArgument)

\* The anchor has to be there and has to agree on the domain.  The document
\* is the process's whatever this says.
ResolveParticipantQos(document, domain_id) ==
  IfDone(LoadDocumentOnce(document),
         LAMBDA d : IF /\ d.xml[1].anchor
                       /\ d.xml[1].domainId \in {0, domain_id}
                    THEN Done(d) ELSE Failed(kInvalidArgument))

ResolveQos(named, default, topic_name, profile) ==
  IF profile # ""
  THEN IF profile \in DOMAIN named THEN Done(named[profile]) ELSE Failed(kInvalidArgument)
  ELSE Done(IF topic_name \in DOMAIN named THEN named[topic_name] ELSE default)

ResolveDataWriterQos(topic_name, profile) ==
  ResolveQos(loaded[1].xml[1].writers, loaded[1].xml[1].default_writer, topic_name, profile)
ResolveDataReaderQos(topic_name, profile) ==
  ResolveQos(loaded[1].xml[1].readers, loaded[1].xml[1].default_reader, topic_name, profile)

-----------------------------------------------------------------------------
(* The constructors, as the factories call them. *)

IsPayloadBound(bytes) == bytes >= 4 /\ bytes <= MaxBound /\ bytes % 4 = 0
BoundOr(config, default) ==
  IF config.max_payload_bytes = 0 THEN default ELSE config.max_payload_bytes

InProcessPubSubProvider(config) ==
  IfDone(ParseSchemaCarriage(config.document),
         LAMBDA s : Done([settings |-> s, document |-> config.document,
                          domain |-> 0, bound |-> 0, attempts |-> 0]))

\* The participant and what it is made of come from the middleware, which may
\* fail: the document is loaded by then.
FastDDSPubSubProvider(config, up) ==
  LET document == IF config.document = NoDocument THEN FletcherDefaultProfilesDocument
                  ELSE config.document
      bound == BoundOr(config, 65536)
  IN  IF ~IsPayloadBound(bound) THEN Failed(kInvalidArgument)
      ELSE IfDone(ResolveParticipantQos(document, config.domain_id),
                  LAMBDA d : IF ~up THEN Failed("kTransportFailure")
                             ELSE Done([settings |-> "profiles", document |-> d,
                                        domain |-> config.domain_id, bound |-> bound,
                                        attempts |-> 0]))

\* Everything is validated before the transport and the session are tried; a
\* session that is given no attempt never connects.
XrceDDSPubSubProvider(config, up) ==
  LET bound == BoundOr(config, 65536)
  IN  IfDone(ParseXrceDocument(config.document),
             LAMBDA s :
               IF config.domain_id > 65535 \/ ~IsPayloadBound(bound)
               THEN Failed(kInvalidArgument)
               ELSE IF ~up \/ SessionAttempts(s.connect_timeout) = 0
               THEN Failed("kTransportFailure")
               ELSE Done([settings |-> s, document |-> config.document,
                          domain |-> config.domain_id, bound |-> bound,
                          attempts |-> SessionAttempts(s.connect_timeout)]))

\* What becomes of a factory's call: the middleware is up, or a factory of the
\* application returns nothing or throws.
FactoryOutcomes ==
  {<<"provider", kOk>>, <<"nothing", kOk>>, <<"PubSubError", "kTransportFailure">>,
   <<"PubSubError", kOk>>, <<"overflow_error", kOk>>, <<"other", kOk>>}

Factory(seat, config, made) ==
  CASE seat = "inprocess" -> InProcessPubSubProvider(config)
    [] seat = "fastdds" -> FastDDSPubSubProvider(config, made[1] = "provider")
    [] seat = "xrce" -> XrceDDSPubSubProvider(config, made[1] = "provider")
    [] OTHER ->
         CASE made[1] = "provider" -> Done([settings |-> "own", document |-> config.document,
                                            domain |-> config.domain_id, bound |-> 0,
                                            attempts |-> 0])
           [] made[1] = "nothing" -> Failed(kInternal)
           [] OTHER -> TranslateSeamFailure(made[1], made[2])

\* A Fast DDS constructor leaves its document loaded even when it refuses it
\* for the anchor or the domain.
LoadedAfter(seat, config) ==
  LET document == IF config.document = NoDocument THEN FletcherDefaultProfilesDocument
                  ELSE config.document
  IN  IF /\ seat = "fastdds" /\ IsPayloadBound(BoundOr(config, 65536))
         /\ LoadDocumentOnce(document).status = kOk
      THEN <<document>> ELSE loaded

-----------------------------------------------------------------------------
(* provider_registry.cpp *)

\* ProviderSelector::Parse.
ParseSelector(text) ==
  IF text.shape \in {"empty", "nul"} THEN Failed(kInvalidArgument)
  ELSE Done([text |-> text.text, is_name |-> text.shape = "name"])

\* Mutant: the seat goes with the registry.
ForgetSeat(p, seat) == [provider |-> p, seat |-> "none", from |-> seat]

\* The handle owns the provider and the callable that made it.
KeepSeatAlive(p, seat) == [provider |-> p, seat |-> seat, from |-> seat]

\* The seat that Create calls for a selector: a factory by its name, the
\* path resolver for anything else.
SeatOf(selector) ==
  IF selector.is_name
  THEN IF selector.text \in provider_registry.factories THEN Done(selector.text)
       ELSE Failed(kInvalidArgument)
  ELSE IF provider_registry.path_resolver THEN Done("path resolver") ELSE Failed(kNotSupported)

CreateProvider(text, config, made) ==
  IfDone(ParseSelector(text), LAMBDA selector :
    IfDone(SeatOf(selector), LAMBDA seat :
      IfDone(Factory(seat, config, made), LAMBDA p : Done(KeepSeatAlive(p, seat)))))

\* Who still owns a callable: the registry that holds it, or a handle.
SeatAlive(seat) ==
  \/ provider_registry.alive /\ (seat \in provider_registry.factories \/ seat = "path resolver")
  \/ \E i \in DOMAIN providers : providers[i].held /\ providers[i].seat = seat

DeployInit ==
  /\ provider_registry = [alive |-> TRUE, factories |-> {}, path_resolver |-> FALSE]
  /\ loaded = <<>> /\ providers = <<>> /\ endpoints = {}
  /\ outcome = [status |-> kOk, phase |-> "start", args |-> <<>>, exit |-> -1]

Reports(status) == outcome' = [outcome EXCEPT !.status = status, !.phase = "app"]
InApplication == outcome.phase \in {"start", "app"}

\* ProviderRegistry::Register.
RegisterFactory(name, callable) ==
  /\ InApplication /\ provider_registry.alive
  /\ IF callable /\ name.shape = "name" /\ name.text \notin provider_registry.factories
     THEN /\ provider_registry' = [provider_registry EXCEPT !.factories = @ \cup {name.text}]
          /\ Reports(kOk)
     ELSE Reports(kInvalidArgument) /\ UNCHANGED provider_registry
  /\ UNCHANGED <<loaded, providers, endpoints>>

SetPathResolver(callable) ==
  /\ InApplication /\ provider_registry.alive
  /\ provider_registry' = [provider_registry EXCEPT !.path_resolver = @ \/ callable]
  /\ Reports(IF provider_registry.path_resolver \/ ~callable THEN kInvalidArgument ELSE kOk)
  /\ UNCHANGED <<loaded, providers, endpoints>>

\* A handle that Create returns, and what it was asked for.
Handle(anchor, config) ==
  [provider |-> anchor.provider, seat |-> anchor.seat, from |-> anchor.from,
   held |-> TRUE, alive |-> TRUE, asked |-> config]

\* What a Create call leaves behind: the document it loaded, and the handle
\* when it returned one.
Hands(text, config, made) ==
  LET result == CreateProvider(text, config, made)
      seat == IfDone(ParseSelector(text), SeatOf)
  IN  /\ loaded' = IF seat.status = kOk THEN LoadedAfter(seat.value[1], config) ELSE loaded
      /\ providers' = IF result.status = kOk
                      THEN Append(providers, Handle(result.value[1], config))
                      ELSE providers

CreateAnother(text, config, made) ==
  /\ InApplication /\ provider_registry.alive /\ Len(providers) < MaxProviders
  /\ Hands(text, config, made)
  /\ Reports(CreateProvider(text, config, made).status)
  /\ UNCHANGED <<provider_registry, endpoints>>

\* ~ProviderRegistry, while providers live on.
DropRegistry ==
  /\ InApplication /\ provider_registry.alive
  /\ provider_registry' = [provider_registry EXCEPT !.alive = FALSE]
  /\ Reports(kOk) /\ UNCHANGED <<loaded, providers, endpoints>>

\* The last handle goes: ~Anchor destroys the provider, then lets go of the
\* seat.
DestroyProvider(i) ==
  /\ providers[i].alive
  /\ providers' = [providers EXCEPT ![i].alive = FALSE]
  /\ endpoints' = {e \in endpoints : e.of # i}
  /\ UNCHANGED <<provider_registry, loaded, outcome>>

ReleaseSeat(i) ==
  /\ ~providers[i].alive /\ providers[i].held
  /\ providers' = [providers EXCEPT ![i].held = FALSE]
  /\ UNCHANGED <<provider_registry, loaded, endpoints, outcome>>

Endpoint(i, role, topic, profile, qos) ==
  [of |-> i, role |-> role, topic |-> topic, profile |-> profile, qos |-> qos]

\* CreateTopic and Subscribe: the data endpoint by its profile, which is
\* refused before anything exists, and the schema channel's.  Bound: one
\* topic and profile at a time.
Open(i, role, topic, profile, schema, resolved) ==
  /\ providers[i].alive /\ providers[i].from = "fastdds"
  /\ \A e \in endpoints : e.topic = topic => e.profile = profile
  /\ endpoints # {} => \E e \in endpoints : e.topic = topic
  /\ endpoints' = endpoints \cup
       (IF resolved.status # kOk THEN {}
        ELSE {Endpoint(i, role, topic, profile, resolved.value[1]),
              Endpoint(i, role, <<topic, "schema">>, "", schema)})
  /\ UNCHANGED <<provider_registry, loaded, providers, outcome>>

OpenWriter(i, topic, profile) ==
  Open(i, "writer", <<topic>>, profile, MakeSchemaChannelWriterQos,
       ResolveDataWriterQos(topic, profile))
OpenReader(i, topic, profile) ==
  Open(i, "reader", <<topic>>, profile, MakeSchemaChannelReaderQos,
       ResolveDataReaderQos(topic, profile))

-----------------------------------------------------------------------------
(* gateway/src/main.cpp *)

\* ReadProviderDocument: only a file that was read and is not blank.
ReadProviderDocument(path) ==
  IF Files[path].kind = "file" THEN Done(Files[path].document) ELSE Failed("exit 2")

Text(text, shape, number, colons) ==
  [text |-> text, shape |-> shape, number |-> number, colons |-> colons]
DefaultArgs == [port |-> 9090, bind |-> "0.0.0.0",
                provider |-> Text("inprocess", "name", <<>>, 0), domain_id |-> 0, path |-> <<>>]

\* The flag loop.  A flag that takes a value takes the next argument; the
\* last argument has none and is unknown then.
ParseFlags(args) ==
  LET Taken(a, flag, value) ==
        CASE flag = "--port" -> IF value.number = <<>> THEN Failed("exit 2")
                                ELSE Done([a EXCEPT !.port = value.number[1] % 65536])
          [] flag = "--bind-address" -> Done([a EXCEPT !.bind = value.text])
          [] flag = "--provider" -> Done([a EXCEPT !.provider = value])
          [] flag = "--domain-id" -> IF value.number = <<>> THEN Failed("exit 2")
                                     ELSE Done([a EXCEPT !.domain_id = value.number[1] % Word32])
          [] flag = "--provider-config" -> Done([a EXCEPT !.path = <<value.text>>])
      Step(sofar, i) ==
        IF sofar.result.status # kOk THEN sofar
        ELSE IF sofar.skip THEN [sofar EXCEPT !.skip = FALSE]
        ELSE IF /\ args[i].text \in {"--port", "--bind-address", "--provider", "--domain-id",
                                     "--provider-config"}
                /\ i < Len(args)
        THEN [skip |-> TRUE, result |-> Taken(sofar.result.value[1], args[i].text, args[i + 1])]
        ELSE [skip |-> FALSE, result |-> Failed(IF args[i].text \in {"--version", "--help", "-h"}
                                                THEN "exit 0" ELSE "exit 2")]
      After[n \in 0..Len(args)] ==
        IF n = 0 THEN [skip |-> FALSE, result |-> Done(DefaultArgs)] ELSE Step(After[n - 1], n)
  IN  After[Len(args)].result

\* The document is read behind the loop.
ParseArgs(args) ==
  IfDone(ParseFlags(args), LAMBDA a :
    IF a.path = <<>> THEN Done([args |-> a, document |-> NoDocument])
    ELSE IfDone(ReadProviderDocument(a.path[1]),
                LAMBDA d : Done([args |-> a, document |-> d])))

\* main up to its registry, which both built-ins are registered with.
MainParses(line) ==
  LET parsed == ParseArgs(line)
  IN  /\ outcome.phase = "start"
      /\ provider_registry.factories = {} /\ ~provider_registry.path_resolver
      /\ IF parsed.status = kOk
         THEN /\ outcome' = [outcome EXCEPT !.phase = "parsed",
                                            !.args = <<line, parsed.value[1]>>]
              /\ provider_registry' =
                   [provider_registry EXCEPT !.factories = {"inprocess", "fastdds"}]
         ELSE /\ outcome' = [outcome EXCEPT !.phase = "exited",
                                            !.exit = IF parsed.status = "exit 0" THEN 0 ELSE 2]
              /\ UNCHANGED provider_registry
      /\ UNCHANGED <<loaded, providers, endpoints>>

\* The provider is made, the registry goes out of scope, and the gateway
\* prints READY.
MainCreates(made) ==
  LET a == outcome.args[2]
      config == [max_payload_bytes |-> 0, domain_id |-> a.args.domain_id,
                 document |-> a.document]
      result == CreateProvider(a.args.provider, config, made)
  IN  /\ outcome.phase = "parsed"
      /\ Hands(a.args.provider, config, made)
      /\ provider_registry' = [provider_registry EXCEPT !.alive = FALSE]
      /\ outcome' = IF result.status = kOk THEN [outcome EXCEPT !.phase = "ready"]
                    ELSE [outcome EXCEPT !.phase = "exited", !.status = result.status, !.exit = 2]
      /\ UNCHANGED endpoints

MainStops ==
  /\ outcome.phase = "ready"
  /\ outcome' = [outcome EXCEPT !.phase = "exited", !.exit = 0]
  /\ UNCHANGED <<provider_registry, loaded, providers, endpoints>>

DeployNext ==
  \/ \E name \in Names, callable \in BOOLEAN : RegisterFactory(name, callable)
  \/ \E callable \in BOOLEAN : SetPathResolver(callable)
  \/ \E ask \in Asks, made \in FactoryOutcomes : CreateAnother(ask[1], ask[2], made)
  \/ DropRegistry
  \/ \E i \in DOMAIN providers :
       \/ DestroyProvider(i)
       \/ ReleaseSeat(i)
       \/ \E topic \in DeployTopics, profile \in ProfileNames :
            OpenWriter(i, topic, profile) \/ OpenReader(i, topic, profile)
  \/ \E line \in CommandLines : MainParses(line)
  \/ \E made \in FactoryOutcomes : MainCreates(made)
  \/ MainStops

DeploySpec == DeployInit /\ [][DeployNext]_deployVars

-----------------------------------------------------------------------------
(* Properties *)

\* What a document's lines say about a key: the value of its only line.
Says(document, key) ==
  {document.lines[i][2] : i \in {j \in DOMAIN document.lines :
                                   Len(document.lines[j]) = 2 /\ document.lines[j][1].text = key}}
SaysOnly(document, key, number, default) ==
  IF Says(document, key) = {} THEN number = default
  ELSE \A v \in Says(document, key) : v.number = <<number>>

\* The value behind the last of a flag on a command line of flag-value pairs.
LastGiven(line, flag) ==
  LET at == {i \in 1..Len(line) - 1 : i % 2 = 1 /\ line[i].text = flag}
  IN  {line[i + 1] : i \in {j \in at : \A k \in at : k <= j}}

\* A provider that exists runs on what it was asked for: the callable that
\* made it outlives it, also past the registry (KeepSeatAlive); an XRCE client
\* has exactly the address, key and attempts its document names, none of them
\* narrowed or taken from a second line (ParseXrceDocument, SessionAttempts);
\* a gateway that printed READY runs the provider and the document file of its
\* command line (ParseArgs, main); and a failed Create reports a failure
\* (PubSubError::Sanitize).
RunsAsConfigured ==
  /\ \A i \in DOMAIN providers : providers[i].alive =>
       LET p == providers[i].provider s == p.settings
       IN  /\ SeatAlive(providers[i].from)
           /\ providers[i].from = "xrce" =>
                /\ SaysOnly(p.document, "agent", s.agent_port, 2018)
                /\ SaysOnly(p.document, "session_key", s.session_key, Word32 \div 2)
                /\ SaysOnly(p.document, "connect_timeout_ms", s.connect_timeout, 3000)
                /\ p.attempts * 1000 >= s.connect_timeout
                /\ (p.attempts - 1) * 1000 < s.connect_timeout
                /\ p.domain = providers[i].asked.domain_id
  /\ outcome.phase = "ready" /\ providers[1].alive =>
       LET line == outcome.args[1] file == LastGiven(line, "--provider-config")
       IN  /\ \A v \in LastGiven(line, "--provider") : providers[1].from = v.text
           /\ \A v \in file : providers[1].provider.document = Files[v.text].document
           /\ file # {} => providers[1].asked.document # NoDocument
  /\ outcome.status \notin {"kPending", "kSubscriptionEnded"}
  /\ outcome.phase = "exited" /\ providers = <<>> => outcome.exit = 2 \/ outcome.args = <<>>

\* One profile document decides the QoS of a process: whatever documents later
\* providers bring, also ones refused half way, a live Fast DDS provider's is
\* the loaded one (LoadDocumentOnce), and on the built-in document a writer and
\* a reader opened on one topic under one profile match: the writer offers at
\* least the reliability and durability the reader asks for, and each can hold
\* the history it keeps (ResolveDataWriterQos, ResolveDataReaderQos and the
\* document of qos_defaults.cpp).
OneDocumentDecides ==
  /\ \A i \in DOMAIN providers :
       providers[i].alive /\ providers[i].from = "fastdds" =>
         /\ loaded = <<providers[i].provider.document>>
         /\ providers[i].provider.document.xml[1].domainId \in {0, providers[i].asked.domain_id}
  /\ loaded = <<FletcherDefaultProfilesDocument>> =>
       \A e \in endpoints :
         /\ e.qos.history = "KEEP_LAST" => e.qos.depth <= e.qos.max_samples_per_instance
         /\ e.qos.history = "KEEP_ALL" /\ e.role = "writer" => e.qos.blocks
         /\ \A f \in endpoints :
              /\ e.role = "writer" /\ f.role = "reader"
              /\ e.topic = f.topic /\ e.profile = f.profile
              => /\ f.qos.reliability = "RELIABLE" => e.qos.reliability = "RELIABLE"
                 /\ f.qos.durability = "TRANSIENT_LOCAL" => e.qos.durability = "TRANSIENT_LOCAL"
=============================================================================
