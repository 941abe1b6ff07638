------------------------------- MODULE Flows --------------------------------
(***************************************************************************)
(* What becomes of every frame a capture reads                             *)
(* (topgent-collect/src/capture: session.rs, flows.rs, handoff.rs,         *)
(* helper.rs; topgent-capture/src/main.rs). Reader threads fold frames     *)
(* into a bounded accumulator; a sweep takes what has built up, either     *)
(* from that accumulator or, when a helper does the reading, from a second *)
(* one into which the helper's batches are folded.                         *)
(*                                                                         *)
(* Frames are numbered in the order they are read, and a counter is the    *)
(* set of what it has counted: frames, or for the flows that were refused  *)
(* the frames of each. Times, the protocol and the direction of a flow and *)
(* the packets of a scan are left out.                                     *)
(***************************************************************************)
EXTENDS Integers, Sequences, FiniteSets, FiniteSetsExt

CONSTANTS
  Thread,           \* readers, one for each interface
  Host, Port,       \* the other ends; port 0 is a protocol without ports
  Process,          \* processes that hold local ports
  Other,            \* what a reader holds between two frames
  Helped,           \* whether a helper reads the wire
  MaxFlows,         \* MAX_FLOWS
  ScanPorts,        \* SCAN_PORTS
  MaxProbed,        \* MAX_PROBED
  MaxPortsPerHost,  \* MAX_PORTS_PER_HOST
  MaxFrames,        \* bound on the frames
  MaxDrains         \* bound on the sweeps, and on the helper's batches

FlowsAssumption ==
  /\ Helped \in BOOLEAN
  /\ IsFiniteSet(Host) /\ IsFiniteSet(Port)
  /\ MaxFlows \in Nat /\ MaxProbed \in Nat /\ MaxFrames \in Nat /\ MaxDrains \in Nat
  /\ ScanPorts \in Nat \ {0} /\ MaxPortsPerHost \in Nat /\ ScanPorts <= MaxPortsPerHost

Packet == [peer : Host, port : Port]
FlowKey == [pid : Process, peer : Host, port : Port]

VARIABLES
  flows,    \* the accumulator the readers fill
  pipe,     \* the helper's batches on their way
  folded,   \* the accumulator they are folded into
  hand,     \* the frame each reader holds, and its packet
  pc,       \* and what it does next with it
  report,   \* what the last sweep took
  read,     \* the frames read
  told,     \* history: the frames sweeps accounted for
  touched,  \* history: the ports of each host since the last drain
  ever,     \* history: and since the start
  drains, batches

flowVars == <<flows, pipe, folded, hand, pc, report, read, told, touched, ever, drains, batches>>

Counters == {"frames", "notModelled", "unattributed", "overflowed"}
None == [field \in Counters |-> {}]
Empty == [seen |-> <<>>, probed |-> <<>>, carried |-> <<>>, missed |-> None]
Nil == [seen |-> <<>>, scans |-> {}, missed |-> None]

-----------------------------------------------------------------------------
FlowInit ==
  /\ flows = Empty /\ folded = Empty
  /\ pipe = <<>>
  /\ hand = [t \in Thread |-> Other]
  /\ pc = [t \in Thread |-> "read"]
  /\ report = Nil
  /\ read = 0 /\ told = {}
  /\ touched = [h \in Host |-> {}] /\ ever = [h \in Host |-> {}]
  /\ drains = 0 /\ batches = 0

Count(f, field, what) == [f EXCEPT !.missed[field] = @ \cup {what}]

(* run: the frame is counted before anything decides not to keep it.       *)
Read(t) ==
  /\ pc[t] = "read"
  /\ read < MaxFrames
  /\ read' = read + 1
  /\ \/ /\ flows' = Count(Count(flows, "frames", read'), "notModelled", read')
        /\ UNCHANGED <<hand, pc>>
     \/ \E packet \in Packet :
          /\ flows' = Count(flows, "frames", read')
          /\ hand' = [hand EXCEPT ![t] = [frame |-> read', packet |-> packet]]
          /\ pc' = [pc EXCEPT ![t] = IF packet.port = 0 THEN "attribute" ELSE "probe"]
  /\ UNCHANGED <<pipe, folded, report, told, touched, ever, drains, batches>>

(* Flows::probe. A host beyond the last one tracked is not noted.          *)
At(f, x) == IF x \in DOMAIN f THEN f[x] ELSE {}
Noted(probed, host, port) ==
  LET held == At(probed, host)
      more == IF Cardinality(held) < MaxPortsPerHost THEN held \cup {port} ELSE held
  IN [h \in DOMAIN probed \cup {host} |-> IF h = host THEN more ELSE probed[h]]
Probed(f, packet) ==
  IF packet.peer \notin DOMAIN f.probed /\ Cardinality(DOMAIN f.probed) >= MaxProbed
  THEN f
  ELSE [f EXCEPT !.probed = Noted(@, packet.peer, packet.port)]

Probe(t) ==
  LET packet == hand[t].packet
  IN /\ pc[t] = "probe"
     /\ flows' = Probed(flows, packet)
     /\ pc' = [pc EXCEPT ![t] = "attribute"]
     /\ touched' = [touched EXCEPT ![packet.peer] = @ \cup {packet.port}]
     /\ ever' = [ever EXCEPT ![packet.peer] = @ \cup {packet.port}]
     /\ UNCHANGED <<pipe, folded, hand, report, read, told, drains, batches>>

(* Flows::record. Nothing is evicted to make room.                         *)
Together(seen, new) == [k \in DOMAIN seen \cup DOMAIN new |-> At(seen, k) \cup At(new, k)]
Recorded(f, key, frame) ==
  IF key \in DOMAIN f.seen \/ Cardinality(DOMAIN f.seen) < MaxFlows
  THEN [f EXCEPT !.seen = Together(@, [k \in {key} |-> {frame}])]
  ELSE Count(f, "overflowed", {frame})

(* owner_of finds a process in the socket table, or it closed before.      *)
Attribute(t) ==
  LET packet == hand[t].packet
  IN /\ pc[t] = "attribute"
     /\ pc' = [pc EXCEPT ![t] = "read"]
     /\ hand' = [hand EXCEPT ![t] = Other]
     /\ \/ flows' = Count(flows, "unattributed", hand[t].frame)
        \/ \E pid \in Process :
             flows' = Recorded(flows, [pid |-> pid, peer |-> packet.peer, port |-> packet.port],
                               hand[t].frame)
     /\ UNCHANGED <<pipe, folded, report, read, told, touched, ever, drains, batches>>

Scanned(f) == {h \in DOMAIN f.probed : Cardinality(f.probed[h]) >= ScanPorts}

(* Mutant: only more ports than that are a scan.                           *)
ScansMore(f) ==
  {[peer |-> h, ports |-> Cardinality(f.probed[h])] :
     h \in {h \in DOMAIN f.probed : Cardinality(f.probed[h]) > ScanPorts}}
  \cup {[peer |-> h, ports |-> f.carried[h]] : h \in DOMAIN f.carried}

Scans(f) ==
  {[peer |-> h, ports |-> Cardinality(f.probed[h])] : h \in Scanned(f)}
  \cup {[peer |-> h, ports |-> f.carried[h]] : h \in DOMAIN f.carried}

(* Flows::drain.                                                           *)
Drained(f) == [seen |-> f.seen, scans |-> Scans(f), missed |-> f.missed]

(* The helper drains once an interval and writes a batch.                  *)
Batch ==
  /\ Helped
  /\ batches < MaxDrains
  /\ batches' = batches + 1
  /\ pipe' = Append(pipe, Drained(flows))
  /\ flows' = Empty
  /\ touched' = [h \in Host |-> {}]
  /\ UNCHANGED <<folded, hand, pc, report, read, told, ever, drains>>

(* Flows::absorb: which ports a batch's scan touched is not known, so the  *)
(* larger count stands.                                                    *)
Carried(carried, scans) ==
  [h \in DOMAIN carried \cup {s.peer : s \in scans} |->
     Max({carried[g] : g \in {h} \cap DOMAIN carried} \cup {s.ports : s \in {z \in scans : z.peer = h}})]

(* The flows of a batch that fit, in the order of their keys: any of them. *)
Fits(f, batch, admitted) ==
  LET new == DOMAIN batch.seen \ DOMAIN f.seen
      room == MaxFlows - Cardinality(DOMAIN f.seen)
  IN admitted \subseteq new /\ Cardinality(admitted) = Min({room, Cardinality(new)})

Sum(m, n) == [field \in Counters |-> m[field] \cup n[field]]

Absorbed(f, batch, admitted) ==
  LET kept == admitted \cup (DOMAIN batch.seen \cap DOMAIN f.seen)
      left == {batch.seen[k] : k \in DOMAIN batch.seen \ kept}
  IN [f EXCEPT !.seen = Together(@, [k \in kept |-> batch.seen[k]]),
               !.carried = Carried(@, batch.scans),
               !.missed = Sum(Sum(@, batch.missed), [None EXCEPT !.overflowed = left])]

(* helper.rs, read: a batch is folded in whole, under the lock.            *)
Absorb ==
  /\ pipe # <<>>
  /\ \E admitted \in SUBSET DOMAIN Head(pipe).seen :
       Fits(folded, Head(pipe), admitted) /\ folded' = Absorbed(folded, Head(pipe), admitted)
  /\ pipe' = Tail(pipe)
  /\ UNCHANGED <<flows, hand, pc, report, read, told, touched, ever, drains, batches>>

(* What a frame was told as: a packet of a flow, or why it is in none.     *)
Outcomes(d) ==
  {<<x, "not modelled", 0>> : x \in d.missed.notModelled}
  \cup {<<x, "unattributed", 0>> : x \in d.missed.unattributed}
  \cup {<<x, "overflowed", 0>> : x \in UNION d.missed.overflowed}
  \cup UNION {{<<x, "flow", k>> : x \in d.seen[k]} : k \in DOMAIN d.seen}

(* CaptureCollector::collect takes everything since the last sweep.        *)
Sweep ==
  /\ drains < MaxDrains
  /\ drains' = drains + 1
  /\ IF Helped
     THEN /\ report' = Drained(folded)
          /\ folded' = Empty
          /\ UNCHANGED <<flows, touched>>
     ELSE /\ report' = Drained(flows)
          /\ flows' = Empty
          /\ touched' = [h \in Host |-> {}]
          /\ UNCHANGED folded
  /\ told' = told \cup {o[1] : o \in Outcomes(report')}
  /\ UNCHANGED <<pipe, hand, pc, read, ever, batches>>

FlowNext ==
  \/ \E t \in Thread : Read(t) \/ Probe(t) \/ Attribute(t)
  \/ Batch \/ Absorb \/ Sweep

FlowSpec == FlowInit /\ [][FlowNext]_flowVars

-----------------------------------------------------------------------------
(* flows.rs:13-19: each part stays within its ceiling.                     *)
CeilingsHold ==
  \A f \in {flows, folded} :
    /\ Cardinality(DOMAIN f.seen) <= MaxFlows
    /\ Cardinality(DOMAIN f.probed) <= MaxProbed
    /\ \A h \in DOMAIN f.probed : Cardinality(f.probed[h]) <= MaxPortsPerHost

(* Where a frame is: with a reader, in an accumulator, on its way, or told.*)
Of(d, x) == {o \in Outcomes(d) : o[1] = x}
InHand(x) == {<<"hand", t, x>> : t \in {u \in DOMAIN pc : pc[u] # "read" /\ hand[u].frame = x}}
InFlows(x) == {<<"flows", 0, o>> : o \in Of(flows, x)}
InFolded(x) == {<<"folded", 0, o>> : o \in Of(folded, x)}
OnItsWay(x) == UNION {{<<"pipe", i, o>> : o \in Of(pipe[i], x)} : i \in DOMAIN pipe}
WasTold(x) == {<<"told", 0, y>> : y \in told \cap {x}}
Places(x) == InHand(x) \cup InFlows(x) \cup InFolded(x) \cup OnItsWay(x) \cup WasTold(x)

(* session.rs, flows.rs: every frame read is in the hands of a reader, in  *)
(* an accumulator or batch, or was told of by a sweep, exactly once: as a  *)
(* packet of a flow or under one of the reasons it was not kept.           *)
EveryFrameOnce == \A x \in 1..read : \E p \in Places(x) : Places(x) = {p}

(* flows.rs: a scan is never overstated: the host was touched on as many   *)
(* ports as are reported, and on enough of them.                           *)
ScansAreReal ==
  \A s \in report.scans : s.ports >= ScanPorts /\ s.ports <= Cardinality(ever[s.peer])

(* flows.rs: a host touched on enough ports between two drains, of a sweep *)
(* or of a helper, is told of as scanned, unless more hosts were touched   *)
(* than are tracked.                                                       *)
Taken == IF batches' # batches THEN pipe'[Len(pipe')] ELSE report'
DrainSeesScans ==
  flows # Empty /\ flows' = Empty =>
    \A h \in DOMAIN touched : Cardinality(touched[h]) >= ScanPorts =>
      \/ \E s \in Taken.scans : s.peer = h
      \/ Cardinality({g \in DOMAIN touched : touched[g] # {}}) > MaxProbed

(* session.rs:157-250, flows.rs: no frame is lost or told of twice, with   *)
(* or without a helper; no scan is invented or overstated, and none of a   *)
(* host that is tracked is missed; and nothing outgrows its ceiling.       *)
FlowsHold == [](EveryFrameOnce /\ ScansAreReal /\ CeilingsHold) /\ [][DrainSeesScans]_flowVars
=============================================================================
