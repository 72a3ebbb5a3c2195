---------------------------- MODULE MCDeployment ----------------------------
(* Documents, configurations and command lines a deployment may be given. *)
EXTENDS Deployment

Name(t) == Text(t, "name", <<>>, 0)
Digits(t, n) == Text(t, "name", <<n>>, 0)
Address(host, port) == Text(host, "path", port, 1)
Lines(name, lines) == [bytes |-> name, lines |-> lines, xml |-> <<>>]
MCProfilesOf(anchor, domain) ==
  <<[anchor |-> anchor, domainId |-> domain, writers |-> [n \in {"t1"} |-> StoreHistory],
     readers |-> [n \in {"t1"} |-> StoreHistory], default_writer |-> Latest, default_reader |-> FireAndForget]>>
Xml(name, anchor, domain) == [bytes |-> name, lines |-> << <<Name(name)>> >>, xml |-> MCProfilesOf(anchor, domain)]

MCDocuments ==
  { NoDocument,
    Xml("own", TRUE, 0), Xml("domain 7", TRUE, 7), Xml("no anchor", FALSE, 0),
    Lines("blank", << <<>>, <<>> >>),
    Lines("nul", << <<Text("agent", "nul", <<>>, 0), Address("h", <<5>>)>> >>),
    Lines("spaced", << <<Name("agent"), Text(" h", "spaced", <<5>>, 1)>> >>),
    Lines("carried", << <<Name("schema_carriage"), Name("carried")>>, <<>> >>),
    Lines("carried twice", << <<Name("schema_carriage"), Name("carried")>>,
                              <<Name("schema_carriage"), Name("as_declared")>> >>),
    Lines("full", << <<Name("transport"), Name("tcp")>>, <<>>, <<Name("agent"), Address("h", <<65535>>)>>,
                     <<Name("session_key"), Digits("999", 999)>>,
                     <<Name("connect_timeout_ms"), Digits("1001", 1001)>> >>),
    Lines("serial", << <<Name("transport"), Name("serial")>> >>),
    Lines("tpc", << <<Name("transport"), Name("tpc")>> >>),
    Lines("port 65536", << <<Name("agent"), Address("h", <<65536>>)>> >>),
    Lines("port x", << <<Name("agent"), Address("h", <<>>)>> >>),
    Lines("no host", << <<Name("agent"), Address("", <<5>>)>> >>),
    Lines("ipv6", << <<Name("agent"), Text("h", "path", <<5>>, 2)>> >>),
    Lines("key 1000", << <<Name("session_key"), Digits("1000", 1000)>> >>),
    Lines("timeout 0", << <<Name("connect_timeout_ms"), Digits("0", 0)>> >>),
    Lines("timeout 60001", << <<Name("connect_timeout_ms"), Digits("60001", 60001)>> >>),
    Lines("agent twice", << <<Name("agent"), Address("h", <<5>>)>>, <<Name("agent"), Address("h", <<6>>)>> >>),
    Lines("no equals", << <<Name("agent")>> >>) }

Config(bound, domain, document) ==
  [max_payload_bytes |-> bound, domain_id |-> domain, document |-> document]
MCAsks ==
  {<<Name("xrce"), Config(0, 0, d)>> : d \in MCDocuments} \cup
  {<<Name("inprocess"), Config(0, 0, d)>> :
      d \in {e \in MCDocuments : e.bytes \in {"empty", "carried", "carried twice", "nul", "serial", "no equals"}}} \cup
  {<<Name("fastdds"), Config(0, 7, d)>> :
      d \in {e \in MCDocuments : e.bytes \in {"empty", "own", "domain 7", "no anchor", "serial"}}} \cup
  {<<Name("fastdds"), Config(6, 0, NoDocument)>>, <<Name("xrce"), Config(0, 65536, NoDocument)>>,
   <<Name("fastdds"), Config(0, 0, CHOOSE d \in MCDocuments : d.bytes = "domain 7")>>,
   <<Text("", "empty", <<>>, 0), Config(0, 0, NoDocument)>>,
   <<Text("fastdds", "nul", <<>>, 0), Config(0, 0, NoDocument)>>,
   <<Text("./driver.so", "path", <<>>, 0), Config(0, 0, NoDocument)>>}

MCRegistered ==
  {Name("inprocess"), Name("fastdds"), Name("xrce"), Text("", "empty", <<>>, 0),
   Text("./driver.so", "path", <<>>, 0)}

MCFiles ==
  [f \in {"dir", "gone", "torn", "blank", "own.xml", "carried.txt"} |->
     CASE f = "own.xml" -> [kind |-> "file", document |-> Xml("own", TRUE, 0)]
       [] f = "carried.txt" -> [kind |-> "file", document |-> Lines("carried",
                                  << <<Name("schema_carriage"), Name("carried")>>, <<>> >>)]
       [] OTHER -> [kind |-> f, document |-> NoDocument]]

MCCommandLines ==
  { <<>>, <<Name("--help")>>, <<Name("--verbose")>>, <<Name("--port")>>,
    <<Name("--port"), Digits("70000", 70000)>>, <<Name("--port"), Name("http")>>,
    <<Name("--provider-config"), Name("gone"), Name("--help")>> } \cup
  { <<Name("--provider"), Name(p), Name("--provider-config"), Name(f)>> :
      p \in {"inprocess", "fastdds", "xrce"}, f \in DOMAIN MCFiles } \cup
  { <<Name("--provider"), Name("inprocess"), Name("--domain-id"), Digits("7", 7),
      Name("--bind-address"), Name("::1"), Name("--provider"), Name("fastdds")>> }
=============================================================================
