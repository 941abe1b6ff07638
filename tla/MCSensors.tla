------------------------------ MODULE MCSensors ------------------------------
(***************************************************************************)
(* Instances of what a host is watched with. A behaviour is about one of   *)
(* them, the focus; the variables of the others are out of use.            *)
(*                                                                         *)
(*   direct: Flows, two readers in this process, ceilings of one or two    *)
(*   helped: the same, one reader in a helper, whose batches are folded    *)
(*   table: every process table of four pids and two families              *)
(*   listing: every listing of two processes whose container is known      *)
(*   catalogue: Catalogue, two families, three patterns of two characters  *)
(*   sockets: Attribution, two agents of two families, a port used twice   *)
(*   packets: one family, one packet, a helper of the agent's and its exit *)
(*   raw: the same with a raw socket another process takes over            *)
(*   calls: AuditEvents, one pid two runs have, one descriptor, three calls*)
(*   reused: the same, two calls, and the second run within a second       *)
(*   attempts: that on a Windows host                                      *)
(*   ping: the same, two datagrams                                         *)
(*   home: HomeFiles, two agents, one pid used twice, two changes meanwhile*)
(*   touches: FileTouches, one pid two runs have, one call of two          *)
(*   audited: the same on a Windows host, two calls of four                *)
(*   editors: EditorHosts, two logs, two pids, three runs                  *)
(*   mac: the same on a Mac that looks for one log                         *)
(***************************************************************************)
EXTENDS Flows, ProcessTable, SequencesExt

CONSTANTS Foci, t1, t2, h1, h2, p1, Icmp

VARIABLES
  focus,
  given,
  procs, runs, socks, raws, held, wire, frames, owners, icmp, taken, step, drained, rows, inodes,
  facts, sweeps,
  now, hosted, born, fds, made, log, calls, stage, what, text, table, live, result,
  contacts, looks,
  settings, codex, transcripts, access, since, todo, source, assets, changes

attributionVars == <<procs, runs, socks, raws, held, wire, frames, owners, icmp, taken, step, drained,
                     rows, inodes, facts, sweeps>>
auditVars == <<now, hosted, born, fds, made, log, calls, stage, what, text, table, live, result,
               contacts, looks>>
homeVars == <<settings, codex, transcripts, access, since, todo, source, assets, changes>>
vars == <<focus, flowVars, given, tree, attributionVars, auditVars, homeVars>>

Alike == Permutations({h1, h2})

Ports == 0..2
Pids == 1..4
Helper == INSTANCE Flows WITH Thread <- {t1}, Port <- 1..2, Helped <- TRUE, MaxFlows <- 1

(* In a listing the first process has its parent outside of it.            *)
Listing ==
  {<<first, second>> :
     first \in {p \in Raw : p.parent = Nothing /\ p.name # "b"},
     second \in {p \in Raw : p.parent = 1 /\ p.state = "running" /\ p.image # "b" /\ p.name = Nothing}}

Definitions == INSTANCE Catalogue WITH Char <- {1, 2}

(* Catalogues of two families, of which one may have two patterns, and the *)
(* names they are asked for.                                               *)
Lists ==
  LET patterns == [match : {"exact", "prefix"}, value : SeqOf({1, 2}, 2)]
  IN  SeqOf(patterns, 1) \cup {<<p, [match |-> "exact", value |-> <<1>>]>> : p \in patterns}
Families(id, marked, imaged) ==
  [id : {id}, executables : Lists, markers : marked, images : imaged, extensions : {{}, {"extension"}}]
Catalogues ==
  {<<f, g>> : f \in Families("a", {{}, {"marker"}}, {{}, {"image"}}), g \in Families("b", {{}}, {{"image"}})}
Names == SeqOf({1, 2}, 3)
ModelSources ==
  [kind : {"argv", "file"}, flag : BOOLEAN, key : BOOLEAN, path : SeqOf({"", "..", "/", "*", "directory"}, 3)]

Sockets == INSTANCE Attribution WITH
  Pid <- 1..3, Family <- {"a", "b"}, Port <- {1}, PortsAgain <- TRUE, PidsAgain <- FALSE,
  Crowded <- FALSE, MaxRuns <- 3, MaxSockets <- 2, MaxFrames <- 0, MaxProcs <- 3, MaxSweeps <- 1,
  flows <- taken, pc <- step
Packets == INSTANCE Attribution WITH
  Pid <- 1..3, Family <- {"a"}, Port <- {1}, PortsAgain <- FALSE, PidsAgain <- FALSE,
  Crowded <- FALSE, MaxRuns <- 3, MaxSockets <- 1, MaxFrames <- 1, MaxProcs <- 2, MaxSweeps <- 1,
  flows <- taken, pc <- step
RawSockets == INSTANCE Attribution WITH
  Pid <- 1..2, Family <- {"a"}, Port <- {}, PortsAgain <- FALSE, PidsAgain <- FALSE,
  Crowded <- TRUE, MaxRuns <- 2, MaxSockets <- 2, MaxFrames <- 1, MaxProcs <- 2, MaxSweeps <- 1,
  flows <- taken, pc <- step

Calls == INSTANCE AuditEvents WITH
  Pid <- {7}, Fd <- {3}, Endpoint <- {"a"}, Resolver <- {}, Windows <- FALSE, Second <- 2,
  Window <- 2, MaxLines <- 5, PidsInASecond <- FALSE, MaxTime <- 3, MaxCalls <- 3, MaxRuns <- 2,
  MaxSweeps <- 1,
  procs <- hosted, runs <- born, pc <- stage, told <- contacts, sweeps <- looks
Reused == INSTANCE AuditEvents WITH
  Pid <- {7}, Fd <- {3}, Endpoint <- {"a"}, Resolver <- {}, Windows <- FALSE, Second <- 2,
  Window <- 2, MaxLines <- 4, PidsInASecond <- TRUE, MaxTime <- 3, MaxCalls <- 2, MaxRuns <- 2,
  MaxSweeps <- 1,
  procs <- hosted, runs <- born, pc <- stage, told <- contacts, sweeps <- looks
Attempts == INSTANCE AuditEvents WITH
  Pid <- {7}, Fd <- {3}, Endpoint <- {"a"}, Resolver <- {"a"}, Windows <- TRUE, Second <- 2,
  Window <- 2, MaxLines <- 3, PidsInASecond <- TRUE, MaxTime <- 3, MaxCalls <- 2, MaxRuns <- 2,
  MaxSweeps <- 1,
  procs <- hosted, runs <- born, pc <- stage, told <- contacts, sweeps <- looks
Ping == INSTANCE AuditEvents WITH
  Pid <- {7}, Fd <- {3}, Endpoint <- {"a"}, Resolver <- {}, Windows <- FALSE, Second <- 2,
  Window <- 1, MaxLines <- 5, PidsInASecond <- FALSE, MaxTime <- 4, MaxCalls <- 2, MaxRuns <- 1,
  MaxSweeps <- 1,
  procs <- hosted, runs <- born, pc <- stage, told <- contacts, sweeps <- looks

(* The settings of a home: a rule that lets another agent be run, one that *)
(* only reads what has an agent's name, and one that names nothing.        *)
Hop == [tool |-> "Bash", arg |-> "codex", runs |-> "codex-cli"]
Look == [tool |-> "Read", arg |-> "codex", runs |-> "codex-cli"]
Typo == [tool |-> "Bash", arg |-> "", runs |-> "none"]

Home == INSTANCE HomeFiles WITH
  Pid <- 1..2, Owner <- {"me", "other"}, Transcript <- 1..3, Resource <- {"key"}, Sensitive <- {"key"},
  Agent <- {[family |-> "claude-code", model |-> 1], [family |-> "claude-code", model |-> 2],
            [family |-> "codex-cli", model |-> 1]},
  Setting <- {[allow |-> {Hop, Typo}, deny |-> {Look}, hooks |-> FALSE, model |-> 0],
              [allow |-> {Look}, deny |-> {Hop}, hooks |-> TRUE, model |-> 1]},
  Sandbox <- {<<"danger">>, <<"danger", "safe">>}, Reject <- {0},
  Skill <- <<"directory", "link">>, MaxAssets <- 2, MaxTail <- 1, MaxRuns <- 3, MaxChanges <- 2,
  pc <- step, held <- since

(* What is called, on either system: a read, a read that makes the file, a *)
(* removal, and a program that is run.                                     *)
Rd == [name |-> "open", mode |-> "read", makes |-> FALSE, mask |-> {"data", "run"}]
Mk == [name |-> "open", mode |-> "read", makes |-> TRUE, mask |-> {"append", "attributes"}]
Rm == [name |-> "unlink", mode |-> "write", makes |-> FALSE, mask |-> {"delete"}]
Ex == [name |-> "execve", mode |-> "read", makes |-> FALSE, mask |-> {"run"}]

Touches == INSTANCE FileTouches WITH
  Pid <- {7}, Call <- {Rd, Mk}, Names <- {<<"unsafe", "file">>, <<"directory", "file">>},
  Windows <- FALSE, Second <- 2, Window <- 2, MaxLines <- 4, MaxTime <- 4,
  MaxCalls <- 1, MaxRuns <- 2,
  procs <- hosted, runs <- born, done <- made, pc <- stage
Audited == INSTANCE FileTouches WITH
  Pid <- {7}, Call <- {Rd, Mk, Rm, Ex}, Names <- {<<"file">>},
  Windows <- TRUE, Second <- 2, Window <- 2, MaxLines <- 1, MaxTime <- 4,
  MaxCalls <- 2, MaxRuns <- 2,
  procs <- hosted, runs <- born, done <- made, pc <- stage

Editors == INSTANCE EditorHosts WITH
  Pid <- 1..2, Log <- {"a", "b"}, Extension <- {"agent", "other"}, Recognised <- {"agent"}, Mac <- FALSE,
  MaxTail <- 1, MaxLogs <- 1, MaxRuns <- 3, MaxChanges <- 5,
  holds <- held, logs <- socks, written <- raws, pc <- step, table <- rows, found <- inodes,
  unread <- drained, told <- facts
Mac == INSTANCE EditorHosts WITH
  Pid <- 1..2, Log <- {"a", "b"}, Extension <- {"agent", "other"}, Recognised <- {"agent"}, Mac <- TRUE,
  MaxTail <- 1, MaxLogs <- 1, MaxRuns <- 3, MaxChanges <- 5,
  holds <- held, logs <- socks, written <- raws, pc <- step, table <- rows, found <- inodes,
  unread <- drained, told <- facts

ASSUME SensorsAssumption ==
  /\ FlowsAssumption /\ Helper!FlowsAssumption /\ TableAssumption
  /\ Editors!EditorsAssumption /\ Mac!EditorsAssumption

NoFlows == FlowInit
NoTree == given = 0 /\ tree = <<>>
NoAttribution ==
  /\ procs = 0 /\ runs = 0 /\ socks = 0 /\ raws = 0 /\ held = 0 /\ wire = 0 /\ frames = 0
  /\ owners = 0 /\ icmp = 0 /\ taken = 0 /\ step = 0 /\ drained = 0 /\ rows = 0 /\ inodes = 0
  /\ facts = 0 /\ sweeps = 0
NoAudit ==
  /\ now = 0 /\ hosted = 0 /\ born = 0 /\ fds = 0 /\ made = 0 /\ log = 0 /\ calls = 0
  /\ stage = 0 /\ what = 0 /\ text = 0 /\ table = 0 /\ live = 0 /\ result = 0 /\ contacts = 0
  /\ looks = 0

NoHome ==
  /\ settings = 0 /\ codex = 0 /\ transcripts = 0 /\ access = 0 /\ since = 0 /\ todo = 0
  /\ source = 0 /\ assets = 0 /\ changes = 0

(* Of the attribution's variables, those the home and the editors use not. *)
NoSockets ==
  /\ wire = 0 /\ frames = 0 /\ owners = 0 /\ icmp = 0 /\ taken = 0 /\ sweeps = 0
  /\ focus = "home" => socks = 0 /\ raws = 0 /\ held = 0 /\ drained = 0 /\ inodes = 0
  /\ focus # "home" => settings = 0 /\ codex = 0 /\ transcripts = 0 /\ access = 0 /\ since = 0
                       /\ todo = 0 /\ source = 0 /\ assets = 0
NoConnections == fds = 0 /\ calls = 0 /\ what = 0 /\ table = 0 /\ live = 0 /\ contacts = 0 /\ looks = 0

(* The first agent of a home is a session of this account.                 *)
HomeInit ==
  /\ Home!Init
  /\ runs[1] = [runs[1] EXCEPT !.owner = "me", !.model = 1, !.family = "claude-code"]
  /\ access["key"] = "readable" /\ \A i \in 1..2 : runs[i].session < 3

Init ==
  /\ focus \in Foci
  /\ \/ focus = "direct" /\ FlowInit /\ NoTree /\ NoAttribution /\ NoAudit /\ NoHome
     \/ focus = "helped" /\ Helper!FlowInit /\ NoTree /\ NoAttribution /\ NoAudit /\ NoHome
     \/ focus = "table" /\ tree \in Tables /\ given = 0 /\ NoFlows /\ NoAttribution /\ NoAudit /\ NoHome
     \/ focus = "listing" /\ given \in Listing /\ tree = Snapshot(given, FALSE, 1) /\ NoFlows /\ NoAttribution /\ NoAudit /\ NoHome
     \/ focus = "catalogue" /\ given \in Catalogues /\ tree = <<>> /\ NoFlows /\ NoAttribution /\ NoAudit /\ NoHome
     \/ focus = "sockets" /\ Sockets!Init /\ NoFlows /\ NoTree /\ NoAudit /\ NoHome
     \/ focus = "packets" /\ Packets!Init /\ NoFlows /\ NoTree /\ NoAudit /\ NoHome
     \/ focus = "raw" /\ RawSockets!Init /\ NoFlows /\ NoTree /\ NoAudit /\ NoHome
     \/ focus = "calls" /\ Calls!Init /\ NoFlows /\ NoTree /\ NoAttribution /\ NoHome
     \/ focus = "reused" /\ Reused!Init /\ NoFlows /\ NoTree /\ NoAttribution /\ NoHome
     \/ focus = "attempts" /\ Attempts!Init /\ NoFlows /\ NoTree /\ NoAttribution /\ NoHome
     \/ focus = "ping" /\ Ping!Init /\ NoFlows /\ NoTree /\ NoAttribution /\ NoHome
     \/ focus = "home" /\ HomeInit /\ NoSockets /\ NoFlows /\ NoTree /\ NoAudit
     \/ focus = "touches" /\ Touches!Init /\ NoConnections /\ NoFlows /\ NoTree /\ NoAttribution /\ NoHome
     \/ focus = "audited" /\ Audited!Init /\ NoConnections /\ NoFlows /\ NoTree /\ NoAttribution /\ NoHome
     \/ focus = "editors" /\ Editors!Init /\ NoSockets /\ NoFlows /\ NoTree /\ NoAudit
     \/ focus = "mac" /\ Mac!Init /\ NoSockets /\ NoFlows /\ NoTree /\ NoAudit

FlowStep ==
  /\ \/ focus = "direct" /\ FlowNext
     \/ focus = "helped" /\ Helper!FlowNext
  /\ UNCHANGED <<focus, given, tree, attributionVars, auditVars, homeVars>>

AttributionStep ==
  /\ \/ focus = "sockets" /\ Sockets!Next
     \/ focus = "packets" /\ Packets!Next
     \/ focus = "raw" /\ RawSockets!Next
  /\ UNCHANGED <<focus, flowVars, given, tree, auditVars, homeVars>>

AuditStep ==
  /\ \/ focus = "calls" /\ Calls!Next
     \/ focus = "reused" /\ Reused!Next
     \/ focus = "attempts" /\ Attempts!Next
     \/ focus = "ping" /\ Ping!Next
  /\ UNCHANGED <<focus, flowVars, given, tree, attributionVars, homeVars>>

HomeStep ==
  /\ focus = "home" /\ Home!Next
  /\ UNCHANGED <<focus, flowVars, given, tree, auditVars, socks, raws, held, wire, frames, owners, icmp, taken,
                 drained, inodes, sweeps>>

TouchStep ==
  /\ \/ focus = "touches" /\ Touches!Next
     \/ focus = "audited" /\ Audited!Next
  /\ UNCHANGED <<focus, flowVars, given, tree, attributionVars, homeVars, fds, calls, what, table, live,
                 contacts, looks>>

EditorStep ==
  /\ \/ focus = "editors" /\ Editors!Next
     \/ focus = "mac" /\ Mac!Next
  /\ UNCHANGED <<focus, flowVars, given, tree, auditVars, wire, frames, owners, icmp, taken, sweeps,
                 settings, codex, transcripts, access, since, todo, source, assets>>

Next == FlowStep \/ AttributionStep \/ AuditStep \/ HomeStep \/ TouchStep \/ EditorStep

Spec == Init /\ [][Next]_vars

-----------------------------------------------------------------------------
(* session.rs:21-24, ports.rs:14-18: no agent is told of another's traffic *)
(* or socket; config.rs:294-301, reach.rs:213-240, editor.rs:8-13: nor of  *)
(* the files of a home that is not its own, or an extension that is not;   *)
(* table.rs:141-153, signatures.rs:209-213: an agent is known by the       *)
(* program it runs or is handed, as one family and no other; model.rs:266-290: a model is read     *)
(* from below the home;                                                    *)
(* network_event.rs:18-22, filesystem.rs:64-71: an event is told of the    *)
(* process that made it, or of the next of its pid within a second, what   *)
(* is told as closed or open was, and no access that can change a file is  *)
(* told as a read.                                                         *)
NobodyElses ==
  /\ focus = "listing" => RecognitionHolds(given, 1)
  /\ focus = "catalogue" =>
       /\ Definitions!Unambiguous(given, Names, {"image"}, {"extension"})
       /\ Definitions!RefusedWithCause(given, Names, {{}, {"marker"}})
       /\ \A s \in ModelSources : Definitions!StaysHome(s, <<"home">>, {"entry"})
  /\ focus = "sockets" => Sockets!NobodyElses
  /\ focus = "packets" => Packets!NobodyElses
  /\ focus = "home" => Home!HomeHolds
  /\ focus = "editors" => Editors!EditorsHold
  /\ focus = "mac" => Mac!EditorsHold
  /\ focus = "calls" => Calls!EventsHold
  /\ focus = "reused" => Reused!EventsHold
  /\ focus = "attempts" => Attempts!EventsHold
  /\ focus = "touches" => Touches!TouchesHold
  /\ focus = "audited" => Audited!TouchesHold

(* ports.rs:121-130: an ICMP packet is not pinned on the likeliest of      *)
(* several holders of a raw socket.                                        *)
IcmpIsNotGuessed == focus = "raw" => RawSockets!IcmpIsNotGuessed

(* network_event.rs:18-22: only a pid that still identifies the same       *)
(* process is told of, and only successful connects.                       *)
TheSameRun == focus = "reused" => Reused!TheSameRun
ToldCameUp == focus = "calls" => Calls!ToldCameUp

(* launcher.rs:5-7, 15-18: a first argument is read of a runtime only.     *)
AnEditorIsNobody == focus = "listing" => ArgumentsNameNobody(given, 1)

(* model.rs:484-489: a session is not told of another's model.             *)
ModelIsOwn == focus = "home" => Home!ModelIsOwn

(* network_event.rs:13-16: a ping is told of while it runs.                *)
PingsAreTold == focus = "ping" => Ping!PingsAreTold
=============================================================================
