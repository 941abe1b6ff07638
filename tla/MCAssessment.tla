---------------------------- MODULE MCAssessment -----------------------------
(***************************************************************************)
(* Instances of what is made of a sweep's facts: the agents, the inventory *)
(* and the risk of each; and the evidence of them.  A behaviour is about   *)
(* one of them, the focus: a universe of facts and the longest stream that *)
(* is drawn from it, or an instance of EvidenceVerify.  Where it is about  *)
(* another, the bundle stays as the sensor begins it.                      *)
(*                                                                         *)
(*   anchors: two runs that share a pid, facts about neither, all orders   *)
(*   endpoints: sockets, attempts, teardowns and traffic of one run        *)
(*   resources: a credential under both of its names, grants and a sandbox,*)
(*     and the replay of a candidate policy over them                      *)
(*   swept: the endpoints in the order of default_collectors               *)
(*   sensor: the sensor only produces: records of two origins, two         *)
(*     handovers between three keys, and a return to an earlier key        *)
(*   carried: the bundle is damaged twice on its way; a record can say two *)
(*     things                                                              *)
(*   handed over: a bundle with a handover is damaged twice                *)
(*   produced: SweepEvidence of three facts, two collectors, two factors   *)
(*   written: of one fact of every kind, altered once on its way           *)
(*   identity: SensorIdentity, two surfaces that ask four times            *)
(*   gate: ReportGate, two rules, and a build that had one of them         *)
(*   capped: the same, and one of them is never covered in full            *)
(***************************************************************************)
EXTENDS EvidenceVerify, SensorIdentity, ReportGate

CONSTANTS Foci, NoProcess, fact1, fact2, elsewhere, k1, k2, k3

VARIABLES
  focus, stream, pending, builders, rejected, asOf,
  swept, runs, scored, phase, made, bytes, harms, found

factVars == <<stream, pending, builders, rejected, asOf>>
sweptVars == <<swept, runs, scored, phase, made, bytes, harms, found>>
mcVars == <<focus, factVars, allVars, sweptVars, identityVars, gateVars>>

A == <<7, 1>>
B == <<7, 2>>
Said(n, subject, confidence, claim) ==
  [x \in DOMAIN claim \cup {"n", "subject", "confidence", "probe"} |->
     CASE x = "n" -> n [] x = "subject" -> subject [] x = "confidence" -> confidence
       [] x = "probe" -> "probe" [] OTHER -> claim[x]]

Seen(s, uid) == [kind |-> "process_seen", exe |-> "x", path_known |-> TRUE, uid |-> uid]
Family(name) == [kind |-> "agent_family", family |-> name]
Touch(path, access) == [kind |-> "file_touched", path |-> path, access |-> access]
Grant(path, access, granted) ==
  [kind |-> "permission_declared", path |-> path, access |-> access, granted |-> granted]
Reach(path, evidence) ==
  [kind |-> "resource_reachable", path |-> path, access |-> "read", sensitive |-> TRUE, evidence |-> evidence]
Socket(protocol, host, port, direction, opened, counted) ==
  [kind |-> "socket_open", protocol |-> protocol, host |-> host, port |-> port,
   direction |-> direction, opened |-> opened, bytes |-> counted]
Event(kind, host, port) ==
  [kind |-> kind, protocol |-> "unstated", host |-> host, port |-> port, direction |-> "outbound"]
Traffic(protocol, host, port, packets) ==
  [kind |-> "traffic_observed", protocol |-> protocol, host |-> host, port |-> port,
   direction |-> "outbound", packets |-> packets]

AnchorFacts ==
  {Said(1, A, 3, Seen(A, 501)), Said(2, A, 2, Family("codex")),
   Said(3, B, 1, Seen(B, 0)),
   Said(4, B, 3, [kind |-> "editor_extension_active", family |-> "cline", extension |-> "ext"]),
   Said(5, NoProcess, 3, Touch(<<"other", "f">>, "read")),
   Said(6, A, 1, [kind |-> "child_process_seen", pid |-> 9, name |-> "nmap", depth |-> 1]),
   Said(7, B, 2, [kind |-> "child_process_seen", pid |-> 9, name |-> "nmap", depth |-> 1]),
   Said(8, A, 2, [kind |-> "invokes_agent", target |-> 7, via |-> "mcp"]),
   Said(9, A, 3, [kind |-> "subject_not_evaluated", reason |-> "r"]),
   Said(10, A, 2, [kind |-> "connector_declared", name |-> "shell", access |-> "execute"]),
   Said(11, B, 3, [kind |-> "model_in_use", provider |-> "p", model |-> "m"]),
   Said(12, A, 3, [kind |-> "process_parent", parent |-> 1]),
   Said(13, A, 1, [kind |-> "action_taken", action |-> "stop", succeeded |-> TRUE]),
   Said(14, B, 3, [kind |-> "dns_query_observed", name |-> "n"])}
EndpointFacts ==
  {Said(1, A, 3, Seen(A, 501)), Said(2, A, 2, Family("codex")),
   Said(3, A, 3, Socket("tcp", "lan", 22, "outbound", 5, Nothing)),
   Said(4, A, 2, Socket("tcp", "lan", 22, "outbound", 3, 7)),
   Said(5, A, 3, Socket("udp", "lan", 22, "outbound", Nothing, 9)),
   Said(6, A, 3, Socket("tcp", "any", 80, "listening", Nothing, Nothing)),
   Said(7, A, 1, Event("connection_attempt", "lan", 22)),
   Said(8, A, 3, Event("socket_closed", "meta", 80)),
   Said(9, A, 2, Traffic("tcp", "lan", 22, 2)),
   Said(10, A, 3, Traffic("tcp", "lan", 22, 5)),
   Said(11, A, 3, Traffic("udp", "raw", 4444, 1))}
ResourceFacts ==
  {Said(1, A, 3, Seen(A, 501)), Said(2, A, 2, Family("codex")),
   Said(3, A, 3, Touch(<<"home", "aws">>, "read")),
   Said(4, A, 2, Reach(<<"tilde", "aws">>, "account_readable")),
   Said(5, A, 3, Reach(<<"home", "aws">>, "path_resolves")),
   Said(6, A, 3, Reach(<<"tilde", "ssh">>, "account_readable")),
   Said(7, A, 3, Reach(<<"tilde", "gpg">>, "account_readable")),
   Said(8, A, 2, Grant(<<"home", "**">>, "write", TRUE)),
   Said(9, A, 2, Grant(<<"other", "bash">>, "execute", TRUE)),
   Said(10, A, 2, Grant(<<"tilde", "rc">>, "read", FALSE)),
   Said(11, A, 3, Touch(<<"home", "rc">>, "write")),
   Said(12, A, 3, Grant(<<"other", "<sandbox>">>, "read", TRUE)),
   Said(13, A, 3, Touch(<<"other", "topgent">>, "write")),
   Said(14, A, 3, Touch(<<"tilde", "rc">>, "read"))}

(* default_collectors: the audit records of the network are read before    *)
(* the socket table, and the capture after it.                             *)
Turn(f) ==
  CASE f.kind \in {"connection_attempt", "socket_closed"} -> 2
    [] f.kind = "socket_open" -> 3
    [] f.kind = "traffic_observed" -> 4
    [] OTHER -> 1
Swept(f, g) == Turn(f) > Turn(g)
AnyOrder(f, g) == FALSE

Points ==
  [SANDBOX_ESCAPE |-> 100, RECON_FANOUT |-> 60, ARBITRARY_EXECUTION |-> 30, BROAD_WRITE |-> 20,
   UNRESTRICTED_NETWORK |-> 15, SECRET_REACHABLE |-> 6, FURTHER_SECRET |-> 2,
   EXFILTRATION_PATH |-> 8, AGENT_CHAIN |-> 12, DECLARATION_DRIFT |-> 10, WATCHLIST |-> 100,
   EXPOSED_LISTENER |-> 35, OFFENSIVE_TOOL |-> 60, PROCESS_EXPLOSION |-> 45,
   SUSPICIOUS_ENDPOINT |-> 45, PRIVATE_PEER |-> 30, METADATA_SERVICE |-> 55,
   CREDENTIAL_ACCESS |-> 70, PERSISTENCE_WRITE |-> 70, SELF_TAMPERING |-> 100,
   DISALLOWED_ASSET |-> 80]
Small == [network_spread |-> 2, recon_hosts |-> 3, recon_ports |-> 2, process_children |-> 2]
Rules ==
  {[path |-> <<"tilde", "aws">>, condition |-> "reachable", points |-> 25],
   [path |-> <<"tilde", "rc">>, condition |-> "write", points |-> 40],
   [path |-> <<"tilde", "aws">>, condition |-> "observed", points |-> 15]}
Accepted ==
  <<[factor |-> "SECRET_REACHABLE", family |-> "codex", target |-> <<"secret", <<"tilde", "ssh">>>>, created |-> 1, expires |-> 2],
    [factor |-> "PRIVATE_PEER", family |-> Nothing, target |-> Nothing, created |-> 0, expires |-> 2]>>
AssetDecisions ==
  {[asset |-> <<"endpoint", "lan", 22>>, family |-> Nothing, disposition |-> "disallowed"],
   [asset |-> <<"tool", "nmap">>, family |-> "codex", disposition |-> "disallowed"],
   [asset |-> <<"tool", "nmap">>, family |-> Nothing, disposition |-> "approved"]}
Manifests ==
  {[kind |-> "tool", name |-> "nmap", at |-> 4], [kind |-> "skill", name |-> "s", at |-> 2],
   [kind |-> "skill", name |-> "s", at |-> 3]}
Hosts == [lan |-> {"private_peer", "raw_address"}, any |-> {"raw_address"},
          meta |-> {"metadata_service", "raw_address"}, raw |-> {"raw_address"}]

Anchors == INSTANCE AgentRisk WITH
  Universe <- AnchorFacts, MaxFacts <- 5, Late <- AnyOrder, Decisions <- AssetDecisions,
  Installed <- Manifests, Weight <- Points, Threshold <- Small, Watchlist <- Rules,
  Exceptions <- Accepted, HostFlags <- Hosts, SuspiciousPorts <- {4444}, OffensiveTools <- {"nmap"},
  Persistence <- {<<"tilde", "rc">>}, OwnFiles <- {<<"other", "topgent">>}, MaxWindow <- 2, MaxInstant <- 2
Endpoints == INSTANCE AgentRisk WITH
  Universe <- EndpointFacts, MaxFacts <- 5, Late <- AnyOrder, Decisions <- AssetDecisions,
  Installed <- {}, Weight <- Points, Threshold <- Small, Watchlist <- {},
  Exceptions <- Accepted, HostFlags <- Hosts, SuspiciousPorts <- {4444}, OffensiveTools <- {"nmap"},
  Persistence <- {}, OwnFiles <- {}, MaxWindow <- 2, MaxInstant <- 2
Resources == INSTANCE AgentRisk WITH
  Universe <- ResourceFacts, MaxFacts <- 5, Late <- AnyOrder, Decisions <- {},
  Installed <- {}, Weight <- Points, Threshold <- Small, Watchlist <- Rules,
  Exceptions <- Accepted, HostFlags <- Hosts, SuspiciousPorts <- {4444}, OffensiveTools <- {"nmap"},
  Persistence <- {<<"tilde", "rc">>}, OwnFiles <- {<<"other", "topgent">>}, MaxWindow <- 2, MaxInstant <- 2
InSweepOrder == INSTANCE AgentRisk WITH
  Universe <- EndpointFacts, MaxFacts <- 5, Late <- Swept, Decisions <- {},
  Installed <- {}, Weight <- Points, Threshold <- Small, Watchlist <- {},
  Exceptions <- <<>>, HostFlags <- Hosts, SuspiciousPorts <- {4444}, OffensiveTools <- {"nmap"},
  Persistence <- {}, OwnFiles <- {}, MaxWindow <- 2, MaxInstant <- 0

(* A candidate policy: a heavier credential, another rule, and another     *)
(* finding that is accepted.                                               *)
Retried ==
  <<[factor |-> "PERSISTENCE_WRITE", family |-> Nothing, target |-> Nothing, created |-> 0, expires |-> 2]>>
Retuned == INSTANCE AgentRisk WITH
  Universe <- ResourceFacts, MaxFacts <- 5, Late <- AnyOrder, Decisions <- {},
  Installed <- {}, Weight <- [Points EXCEPT !.CREDENTIAL_ACCESS = 90], Threshold <- Small,
  Watchlist <- {[path |-> <<"tilde", "ssh">>, condition |-> "reachable", points |-> 25]},
  Exceptions <- Retried, HostFlags <- Hosts, SuspiciousPorts <- {4444}, OffensiveTools <- {"nmap"},
  Persistence <- {<<"tilde", "rc">>}, OwnFiles <- {<<"other", "topgent">>}, MaxWindow <- 2, MaxInstant <- 2
Replay == INSTANCE Firing

Carried == INSTANCE EvidenceVerify WITH
  Fact <- {fact1, fact2}, Key <- {k1},
  MaxSequence <- 3, MaxClaims <- 1, MaxSeals <- 2, MaxRotations <- 0, MaxRestores <- 0,
  MaxDamage <- 2, Unreachable <- 9
HandedOver == INSTANCE EvidenceVerify WITH
  Fact <- {fact1}, Origin <- {Here}, Key <- {k1, k2},
  MaxSequence <- 3, MaxClaims <- 1, MaxSeals <- 2, MaxRotations <- 1, MaxRestores <- 0,
  MaxDamage <- 2, Unreachable <- 9

(* One fact of each kind, of each subject, with and without each option.   *)
Process == <<"process", "7", "1">>
Other == <<"process", "8", "1">>
Telling(n, subject, kind, fields, collector) ==
  [n |-> n, subject |-> subject, kind |-> kind, fields |-> fields, collector |-> collector, probe |-> "probe",
   confidence |-> "certain", at |-> "now"]
EveryKind ==
  {Telling(1, Process, "process_seen", <<"x", "1", "501", "u">>, "c1"),
   Telling(2, Process, "process_parent", <<"1">>, "c1"),
   Telling(3, Process, "child_process_seen", <<"9", "nmap", "1">>, "c1"),
   Telling(4, Process, "socket_open", <<"tcp", "h", "22", "outbound", "absent", "absent", "exact_tuple">>, "c1"),
   Telling(5, Process, "socket_open", <<"udp", "h", "22", "listening", "5", "7", "listener">>, "c1"),
   Telling(6, Process, "socket_closed", <<"h", "22", "outbound", "3">>, "c1"),
   Telling(7, Process, "connection_attempt", <<"h", "22", "outbound", "blocked">>, "c1"),
   Telling(8, Process, "traffic_observed", <<"tcp", "h", "22", "outbound", "2", "1", "3">>, "c1"),
   Telling(9, Process, "dns_query_observed", <<"q", "1", "answered">>, "c1"),
   Telling(10, Process, "file_touched", <<"p", "write">>, "c1"),
   Telling(11, Process, "permission_declared", <<"p", "read_write", "0">>, "c1"),
   Telling(12, <<"resource", "p">>, "resource_reachable", <<"p", "read", "1", "path_resolves">>, "c1"),
   Telling(13, Process, "agent_family", <<"codex">>, "c1"),
   Telling(14, Process, "editor_extension_active", <<"cline", "ext">>, "c1"),
   Telling(15, Process, "model_in_use", <<"p", "m">>, "c1"),
   Telling(16, Process, "connector_declared", <<"shell", "execute">>, "c1"),
   Telling(17, Process, "invokes_agent", <<"7", "mcp">>, "c1"),
   Telling(18, <<"endpoint", "h", "22">>, "subject_not_evaluated", <<"r">>, "c1"),
   Telling(19, Process, "action_taken", <<"stop", "1">>, "c1"),
   Telling(20, Process, "invokes_agent", <<"7", "long">>, "c1")}
SomeFacts ==
  {Telling(1, Process, "process_seen", <<"x", "1", "501", "u">>, "c1"),
   Telling(2, Process, "file_touched", <<"p", "write">>, "c2"),
   Telling(3, Other, "agent_family", <<"codex">>, "c2"),
   Telling(4, <<"resource", "long">>, "resource_reachable", <<"p", "read", "1", "path_resolves">>, "c1"),
   Telling(5, Other, "agent_family", <<"codex">>, "c3"),
   [Telling(6, Other, "process_parent", <<"1">>, "c1") EXCEPT !.at = "1970"]}
Code(code, confidence) == [code |-> code, title |-> code, confidence |-> confidence]

Produced == INSTANCE SweepEvidence WITH
  Universe <- SomeFacts, MaxFacts <- 3, Collectors <- {"c1", "c2"},
  Factors <- {Code("broad", "certain"), Code("drift", "possible")}, Long <- {"long"}, MaxHarm <- 0
Written == INSTANCE SweepEvidence WITH
  Universe <- EveryKind, MaxFacts <- 1, Collectors <- {"c1"}, Factors <- {Code("broad", "likely")},
  Long <- {"long"}, MaxHarm <- 1

Watched(code, sensor, ceiling) == [code |-> code, sensor |-> sensor, ceiling |-> ceiling]
Drifted == Watched("drift", "socket", Nothing)
Reached == Watched("reach", "reach", Nothing)
TwoRules == {Drifted, Reached}
OneRule == {Drifted}
Capped == INSTANCE ReportGate WITH
  Rule <- {Watched("drift", "socket", "degraded"), Reached}, Former <- {Reached}, MaxLosses <- 0

ASSUME AssessmentAssumption ==
  /\ BundleAssumption /\ Carried!BundleAssumption /\ HandedOver!BundleAssumption
  /\ GateAssumption /\ Capped!GateAssumption
  /\ VerifyAssumption /\ Carried!VerifyAssumption /\ HandedOver!VerifyAssumption
  /\ Resources!CatalogueLoads
  /\ \A n \in DOMAIN Accepted : Resources!Validated(Accepted[n])

NoFacts == stream = 0 /\ pending = 0 /\ builders = 0 /\ rejected = 0 /\ asOf = 0
NoSwept ==
  /\ swept = 0 /\ runs = 0 /\ scored = 0 /\ phase = 0 /\ made = 0 /\ bytes = 0 /\ harms = 0 /\ found = 0
NoGate ==
  /\ states = 0 /\ grades = 0 /\ decided = 0 /\ inForce = 0 /\ report = 0 /\ way = 0 /\ losses = 0
  /\ asked = 0 /\ verdict = Nothing

MCInit ==
  /\ focus \in Foci
  /\ \/ focus = "anchors" /\ Anchors!AInit /\ VInit
     \/ focus = "endpoints" /\ Endpoints!AInit /\ VInit
     \/ focus = "resources" /\ Resources!AInit /\ VInit
     \/ focus = "swept" /\ InSweepOrder!AInit /\ VInit
     \/ focus = "gate" /\ GateInit /\ NoFacts /\ VInit
     \/ focus = "capped" /\ Capped!GateInit /\ NoFacts /\ VInit
     \/ focus = "sensor" /\ VInit /\ NoFacts
     \/ focus = "carried" /\ Carried!VInit /\ NoFacts
     \/ focus = "handed over" /\ HandedOver!VInit /\ NoFacts
     \/ focus = "produced" /\ Produced!Init /\ NoFacts /\ VInit
     \/ focus = "written" /\ Written!Init /\ NoFacts /\ VInit
     \/ focus = "identity" /\ NoFacts /\ VInit
  /\ focus \notin {"produced", "written"} => NoSwept
  /\ IdentityInit
  /\ focus \notin {"gate", "capped"} => NoGate

FoldStep ==
  /\ \/ focus = "anchors" /\ Anchors!ANext
     \/ focus = "endpoints" /\ Endpoints!ANext
     \/ focus = "resources" /\ Resources!ANext
     \/ focus = "swept" /\ InSweepOrder!ANext
  /\ UNCHANGED <<focus, allVars, sweptVars, identityVars, gateVars>>

EvidenceStep ==
  /\ \/ focus = "sensor" /\ VNext
     \/ focus = "carried" /\ Carried!VNext
     \/ focus = "handed over" /\ HandedOver!VNext
  /\ UNCHANGED <<focus, factVars, sweptVars, identityVars, gateVars>>

SweptStep ==
  /\ \/ focus = "produced" /\ Produced!Next
     \/ focus = "written" /\ Written!Next
  /\ UNCHANGED <<focus, factVars, allVars, identityVars, gateVars>>

IdentityStep ==
  /\ focus = "identity" /\ IdentityNext
  /\ UNCHANGED <<focus, factVars, allVars, sweptVars, gateVars>>

GateStep ==
  /\ \/ focus = "gate" /\ GateNext
     \/ focus = "capped" /\ Capped!GateNext
  /\ UNCHANGED <<focus, factVars, allVars, sweptVars, identityVars>>

MCNext == FoldStep \/ EvidenceStep \/ SweptStep \/ IdentityStep \/ GateStep

MCSpec == MCInit /\ [][MCNext]_mcVars

-----------------------------------------------------------------------------
(* graph.rs: what the report says of an agent is what the stream says of   *)
(* it, in whatever order the collectors delivered: its sockets and their   *)
(* traffic, its resources without a word of reassurance, its evidence no   *)
(* surer than the weakest, and no fact lost or given to another run.       *)
(* graph.rs:567-568, 938-941: no column reassures that nothing established.*)
(* inventory.rs: the inventory is closed under its relationships and says  *)
(* both that an asset runs and that it is installed.  evidence.rs:216-225, *)
(* reader.rs:12-17: a bundle is made of the whole sweep, its claims say no *)
(* more than their records, and it reads back as it was written.           *)
SweepAsTold ==
  /\ focus = "anchors" => Anchors!NothingDisappears /\ Anchors!ConfidenceIsTheWeakest
  /\ focus = "endpoints" => Endpoints!SocketsAsTold
  /\ focus = "resources" => Resources!ConfidenceIsTheWeakest /\ Resources!NeverReassures
  /\ focus = "anchors" => Anchors!InventoryHolds
  /\ focus = "endpoints" => Endpoints!InventoryHolds
  /\ focus = "produced" => Produced!EvidenceHolds
  /\ focus = "written" => Written!EvidenceHolds

(* scan.rs:530-540: a difference is the policy's and nothing else's.       *)
DifferenceIsThePolicys ==
  Resources!Done =>
    Replay!DifferenceIsThePolicys(
      \A n \in DOMAIN Retried : Retuned!Validated(Retried[n]),
      [id \in DOMAIN builders |-> Replay!Side(Resources!Residual(id), Resources!Accepted(id))],
      [id \in DOMAIN builders |-> Replay!Side(Retuned!Residual(id), Retuned!Accepted(id))],
      [id \in DOMAIN builders |-> Resources!Risk(id)],
      [id \in DOMAIN builders |-> Retuned!Risk(id)])

(* assess.rs:245-325, lint.rs: exceptions, ceilings and warnings take      *)
(* nothing out of sight; scan.rs:530-540: a candidate policy is compared   *)
(* fairly; gate.rs:108-228: what was not looked at does not pass, neither  *)
(* where a rule has a ceiling.                                             *)
NothingOutOfSight ==
  /\ focus = "anchors" => Anchors!AcceptedIsTraced /\ Anchors!LintIsSound
  /\ focus = "endpoints" => Endpoints!AcceptedIsTraced
  /\ focus = "resources" => Resources!AcceptedIsTraced /\ Resources!CeilingKeepsFindings
  /\ focus = "resources" => DifferenceIsThePolicys
  /\ focus = "capped" => Capped!GateHolds

(* assess.rs: an agent that is seen to do more never looks safer, and what *)
(* is accepted, capped or compared is not out of sight.                    *)
MoreIsNeverLess ==
  [][/\ focus = "anchors" => Anchors!MoreIsNeverLess
     /\ focus = "endpoints" => Endpoints!MoreIsNeverLess
     /\ focus = "resources" => Resources!MoreIsNeverLess]_mcVars
RiskHolds == []NothingOutOfSight /\ MoreIsNeverLess

(* graph.rs:421-424: one connection is one endpoint.                       *)
OneEndpointPerDestination == focus = "swept" => InSweepOrder!OneEndpointPerDestination

(* inventory.rs:124-125: running instances remain separately identified.   *)
EveryRunIsAnAsset == focus = "anchors" => Anchors!EveryRunIsAnAsset

(* README.md:216-229: a pipeline that requires coverage passes a host on   *)
(* which everything was looked at and nothing found.                       *)
CleanCappedPasses == focus = "capped" => Capped!CleanHostPasses

(* wire.rs:468-471: every claim that is written is read.                   *)
WrittenIsRead == focus = "written" => Written!WrittenIsRead
=============================================================================
