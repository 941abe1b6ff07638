---------------------------- MODULE Attribution ----------------------------
(***************************************************************************)
(* Whose the sockets and the packets of a host are                         *)
(* (topgent-collect/src: socket/collector.rs, socket/proc_net.rs,          *)
(* capture/ports.rs, capture/session.rs, capture/live.rs). The kernel      *)
(* says which process holds a socket, and the process table which agent is *)
(* above it; both are read at moments of their own, while processes start, *)
(* end and hand on what they hold.                                         *)
(*                                                                         *)
(* The other end of a connection is left out; what is told of one is told  *)
(* with the run of a process that held it, so that it can be compared.     *)
(***************************************************************************)
EXTENDS Naturals, FiniteSets, FiniteSetsExt, Sequences, Functions, TLC

CONSTANTS
  Pid, Family, Nothing,
  Port,       \* local ports; a socket is known by one
  Icmp,       \* what a packet without ports names
  PortsAgain, \* whether a port is handed out again
  PidsAgain,  \* whether a pid is
  Crowded,    \* whether a second process may take a raw socket
  MaxRuns,    \* bound on the processes started
  MaxSockets, \* bound on the sockets opened
  MaxFrames,  \* bound on the packets
  MaxProcs,   \* MAX_PROCS
  MaxSweeps

VARIABLES
  procs,      \* the processes that run: [run, parent, family]
  runs,       \* history: how many were started
  socks,      \* the socket of each port: [id, holders]
  raws,       \* who holds a raw socket, and which
  held,       \* history: of each socket, the agents it was ever held for
  wire,       \* a packet that was not read yet
  frames,
  owners, icmp,   \* what the reader knows: the map of the ports, the sole holder
  flows,      \* what it recorded: [pid, id, agents]
  pc,         \* the step of the sweep
  drained,    \* the flows it took
  rows,       \* the rows it read of the socket table: [port, id]
  inodes,     \* and who holds each
  facts,      \* what it told: [agent, id]
  sweeps

hostVars == <<procs, runs, socks, raws, held, frames>>
readerVars == <<owners, icmp, flows>>
sweepVars == <<pc, drained, rows, inodes, facts, sweeps>>
vars == <<hostVars, wire, readerVars, sweepVars>>

Running(ps) == {pid \in Pid : ps[pid] # Nothing}
Live == Running(procs)
TableOf(ps) == [pid \in Running(ps) |-> [parent |-> ps[pid].parent, family |-> ps[pid].family]]

INSTANCE ProcessTable WITH tree <- TableOf(procs)

(* The runs a process works for: the agent that owns it, and what of the   *)
(* same family that one started.                                           *)
AgentsIn(ps, pid) ==
  LET table == TableOf(ps)
      of == AgentOwners(table)
      n == Cardinality(DOMAIN table)
  IN IF pid \notin DOMAIN of THEN {}
     ELSE {ps[p].run : p \in {p \in Above(table, pid, n) :
             table[p].family = table[of[pid]].family /\ of[pid] \in Above(table, p, n)}}

Holders(ss, rs, id) ==
  UNION {ss[port].holders : port \in {p \in Port : ss[p] # Nothing /\ ss[p].id = id}}
  \cup {pid \in DOMAIN rs : rs[pid] = id}

(* The history of a step: ps, ss and rs are what it leaves.                *)
HeldAfter(ps, ss, rs, n) ==
  [id \in 1..n |-> (IF id \in DOMAIN held THEN held[id] ELSE {})
                     \cup UNION {AgentsIn(ps, pid) : pid \in Holders(ss, rs, id)}]

Init ==
  /\ procs = [pid \in Pid |-> Nothing] /\ runs = 0
  /\ socks = [port \in Port |-> Nothing]
  /\ raws = <<>> /\ held = <<>> /\ wire = <<>> /\ frames = 0
  /\ owners = [port \in Port |-> Nothing] /\ icmp = Nothing /\ flows = {}
  /\ pc = "idle" /\ drained = {} /\ rows = {} /\ inodes = <<>> /\ facts = {} /\ sweeps = 0

-----------------------------------------------------------------------------
(* What the host does after the last sweep is of no matter.                *)
Watched == sweeps < MaxSweeps \/ pc # "idle"

(* The host. A process inherits the sockets of its parent or does not.     *)
Spawn(pid, parent, family, inherits) ==
  /\ Watched /\ runs < MaxRuns /\ procs[pid] = Nothing
  /\ PidsAgain \/ pid = runs + 1
  /\ parent \in Live \cup {Nothing}
  /\ runs' = runs + 1
  /\ procs' = [procs EXCEPT ![pid] = [run |-> runs + 1, parent |-> parent, family |-> family]]
  /\ socks' = [port \in Port |->
       IF inherits /\ socks[port] # Nothing /\ parent \in socks[port].holders
       THEN [socks[port] EXCEPT !.holders = @ \cup {pid}] ELSE socks[port]]
  /\ held' = HeldAfter(procs', socks', raws, Len(held))
  /\ UNCHANGED <<raws, wire, frames, readerVars, sweepVars>>

Without(socket, pid) ==
  IF socket = Nothing \/ socket.holders \subseteq {pid} THEN Nothing
  ELSE [socket EXCEPT !.holders = @ \ {pid}]

(* Its children are handed to init.                                        *)
Exit(pid) ==
  /\ Watched /\ pid \in Live
  /\ procs' = [p \in Pid |-> IF p = pid \/ procs[p] = Nothing THEN Nothing
                             ELSE [procs[p] EXCEPT !.parent = IF @ = pid THEN Nothing ELSE @]]
  /\ socks' = [port \in Port |-> Without(socks[port], pid)]
  /\ raws' = Restrict(raws, DOMAIN raws \ {pid})
  /\ held' = HeldAfter(procs', socks', raws', Len(held))
  /\ UNCHANGED <<runs, wire, frames, readerVars, sweepVars>>

Open(pid, port) ==
  /\ Watched /\ pid \in Live /\ socks[port] = Nothing /\ Len(held) < MaxSockets
  /\ PortsAgain \/ port = Len(held) + 1
  /\ socks' = [socks EXCEPT ![port] = [id |-> Len(held) + 1, holders |-> {pid}]]
  /\ held' = HeldAfter(procs, socks', raws, Len(held) + 1)
  /\ UNCHANGED <<procs, runs, raws, wire, frames, readerVars, sweepVars>>

Close(pid, port) ==
  /\ Watched /\ socks[port] # Nothing /\ pid \in socks[port].holders
  /\ socks' = [socks EXCEPT ![port] = Without(@, pid)]
  /\ UNCHANGED <<procs, runs, raws, held, wire, frames, readerVars, sweepVars>>

(* One that no packet will be sent by is of no matter.                     *)
OpenRaw(pid) ==
  /\ Watched /\ frames < MaxFrames /\ pid \in Live \ DOMAIN raws /\ Len(held) < MaxSockets
  /\ Crowded \/ DOMAIN raws = {}
  /\ raws' = (pid :> Len(held) + 1) @@ raws
  /\ held' = HeldAfter(procs, socks, raws', Len(held) + 1)
  /\ UNCHANGED <<procs, runs, socks, wire, frames, readerVars, sweepVars>>

(* A packet is sent, and waits to be read.                                 *)
Sends(pid, at) ==
  /\ Watched /\ frames < MaxFrames /\ wire = <<>>
  /\ IF at = Icmp THEN pid \in DOMAIN raws ELSE socks[at] # Nothing /\ pid \in socks[at].holders
  /\ frames' = frames + 1
  /\ wire' = <<[at |-> at, id |-> IF at = Icmp THEN raws[pid] ELSE socks[at].id]>>
  /\ UNCHANGED <<procs, runs, socks, raws, held, readerVars, sweepVars>>

-----------------------------------------------------------------------------
(* inode_owners walks the directories of the first MAX_PROCS processes,    *)
(* and the first that holds a socket is its owner.                         *)
Walked == {pid \in Live : Cardinality({p \in Live : p < pid}) < MaxProcs}
FirstHolder(pids) == IF pids \cap Walked = {} THEN Nothing ELSE Min(pids \cap Walked)

(* ports.rs, owners, and sole.                                             *)
PortOwners == [port \in Port |-> IF socks[port] = Nothing THEN Nothing ELSE FirstHolder(socks[port].holders)]
SoleRaw == IF Cardinality(DOMAIN raws \cap Walked) = 1 THEN FirstHolder(DOMAIN raws) ELSE Nothing

(* The map is rebuilt on a schedule. (After the last packet it is of no    *)
(* matter.)                                                                *)
Refresh ==
  /\ wire # <<>> \/ frames < MaxFrames
  /\ owners' = PortOwners /\ icmp' = SoleRaw
  /\ <<owners', icmp'>> # <<owners, icmp>>
  /\ UNCHANGED <<hostVars, wire, flows, sweepVars>>

(* owner_of.                                                               *)
OwnerIn(map, sole, at) == IF at = Icmp THEN sole ELSE map[at]

Recorded(frame, pid) ==
  flows' = IF pid = Nothing THEN flows
           ELSE flows \cup {[pid |-> pid, id |-> frame.id, agents |-> AgentsIn(procs, pid)]}

(* run: a packet whose port is not known is a reason to rebuild the map,   *)
(* unless that was just done; then it stays unattributed.                  *)
ReadFrame ==
  /\ wire # <<>>
  /\ wire' = <<>>
  /\ LET frame == Head(wire)
         known == OwnerIn(owners, icmp, frame.at)
     IN \/ known # Nothing /\ Recorded(frame, known) /\ UNCHANGED <<owners, icmp>>
        \/ known = Nothing /\ UNCHANGED readerVars
        \/ /\ known = Nothing
           /\ owners' = PortOwners /\ icmp' = SoleRaw
           /\ Recorded(frame, OwnerIn(owners', icmp', frame.at))
  /\ UNCHANGED <<hostVars, sweepVars>>

-----------------------------------------------------------------------------
(* The sweep: SocketCollector reads the table, who holds its sockets and   *)
(* the processes, one after the other.                                     *)
ReadTable ==
  /\ pc = "idle" /\ sweeps < MaxSweeps
  /\ sweeps' = sweeps + 1
  /\ rows' = {[port |-> port, id |-> socks[port].id] : port \in {p \in Port : socks[p] # Nothing}}
  /\ facts' = {}
  /\ pc' = "table"
  /\ UNCHANGED <<hostVars, wire, readerVars, drained, inodes>>

WalkDescriptors ==
  /\ pc = "table"
  /\ inodes' = [id \in {socks[p].id : p \in {p \in Port : socks[p] # Nothing}} |->
       LET port == CHOOSE p \in Port : socks[p] # Nothing /\ socks[p].id = id
       IN FirstHolder(socks[port].holders)]
  /\ pc' = "walked"
  /\ UNCHANGED <<hostVars, wire, readerVars, drained, rows, facts, sweeps>>

(* Mutant: a socket belongs to whoever has its port now.                   *)
SocketFactsByPort ==
  /\ pc = "walked"
  /\ facts' = LET of == AgentOwners(TableOf(procs))
                  now == [r \in rows |-> IF socks[r.port] = Nothing THEN Nothing ELSE FirstHolder(socks[r.port].holders)]
              IN {[agent |-> procs[of[now[r]]].run, id |-> r.id] : r \in {x \in rows : now[x] \in DOMAIN of}}
  /\ pc' = "socket"
  /\ UNCHANGED <<hostVars, wire, readerVars, drained, rows, inodes, sweeps>>

(* attribute, and the agents by the processes that run by then.            *)
SocketFacts ==
  /\ pc = "walked"
  /\ facts' = LET of == AgentOwners(TableOf(procs))
                  owned == {r \in rows : r.id \in DOMAIN inodes /\ inodes[r.id] \in DOMAIN of}
              IN {[agent |-> procs[of[inodes[r.id]]].run, id |-> r.id] : r \in owned}
  /\ pc' = "socket"
  /\ UNCHANGED <<hostVars, wire, readerVars, drained, rows, inodes, sweeps>>

(* CaptureCollector::collect takes the flows, and                          *)
Drain ==
  /\ pc = "socket"
  /\ drained' = flows /\ flows' = {}
  /\ pc' = "drained"
  /\ UNCHANGED <<hostVars, wire, owners, icmp, rows, inodes, facts, sweeps>>

(* facts_from tells of those whose process still runs below an agent.      *)
CaptureFacts ==
  /\ pc = "drained"
  /\ facts' = LET of == AgentOwners(TableOf(procs))
              IN facts \cup {[agent |-> procs[of[f.pid]].run, id |-> f.id] :
                               f \in {x \in drained : x.pid \in DOMAIN of}}
  /\ pc' = "told"
  /\ UNCHANGED <<hostVars, wire, readerVars, drained, rows, inodes, sweeps>>

Rest ==
  /\ pc = "told"
  /\ pc' = "idle" /\ drained' = {} /\ rows' = {} /\ inodes' = <<>> /\ facts' = {}
  /\ UNCHANGED <<hostVars, wire, readerVars, sweeps>>

Next ==
  \/ \E pid \in Pid, parent \in Pid \cup {Nothing}, family \in Signs, inherits \in BOOLEAN :
       Spawn(pid, parent, family, inherits)
  \/ \E pid \in Pid : Exit(pid) \/ OpenRaw(pid)
  \/ \E pid \in Pid, port \in Port : Open(pid, port) \/ Close(pid, port)
  \/ \E pid \in Pid, at \in Port \cup {Icmp} : Sends(pid, at)
  \/ Refresh \/ ReadFrame
  \/ ReadTable \/ WalkDescriptors \/ SocketFacts \/ Drain \/ CaptureFacts \/ Rest

Spec == Init /\ [][Next]_vars

-----------------------------------------------------------------------------
(* session.rs:21-24, ports.rs:14-18: no agent is told of traffic or of a   *)
(* socket that was another's, though the tables are read at different      *)
(* moments. (As long as no port and no pid is handed out again and one     *)
(* process at a time has a raw socket; else see the next one.)             *)
NobodyElses == \A f \in facts : f.agent \in held[f.id]

(* ports.rs:121-130, session.rs:266-269: an ICMP packet is not pinned on   *)
(* the likeliest of several holders of a raw socket.                       *)
IcmpIsNotGuessed == NobodyElses

(* live.rs:333-341: what a helper sent is told of its agent, even if it    *)
(* lived for a second. (The code finds its agent at the sweep, when the    *)
(* helper may be gone.)                                                    *)
ShortLivedCount ==
  pc = "told" => \A f \in drained : f.agents # {} => \E g \in facts : g.id = f.id
=============================================================================
