---------------------------- MODULE ContainerStop ----------------------------
(***************************************************************************)
(* stop_exact for an agent that is the first process of a container, and   *)
(* execute_container: the processes are listed, the containers inspected   *)
(* some time after, and before `docker stop` both are done once more.      *)
(* Containers exit and restart under their id at any point in between, and *)
(* the system hands their pids to other processes.                         *)
(***************************************************************************)
EXTENDS Integers, FiniteSets

CONSTANTS
  Container,   \* full container ids
  HostPid,
  ChosenPid,   \* the pid the operator chose
  MaxStarted   \* bound on the processes that are started

ContainerAssumption ==
  /\ ChosenPid \in HostPid /\ MaxStarted \in Nat /\ IsFiniteSet(HostPid)
  /\ HostPid = 1..Cardinality(HostPid)

VARIABLES
  pids,       \* pid -> the run it is of, 0 when free
  started,    \* runs so far
  init,       \* container -> its first process while it runs, or 0
  stage,      \* where the stop is
  starts,     \* the starts of the last process listing
  chosen,     \* the identity that was approved
  relisted,   \* history: at the second listing, the run of the pid and the runs so far
  stopped,    \* history: runs of containers that were stopped
  outcome

containerVars == <<pids, started, init, stage, starts, chosen, relisted, stopped, outcome>>

ContainerRefusals == {"not running", "changed", "denied"}
NoContainer == [container |-> "none", run |-> 0]

Running == {c \in Container : init[c] # 0}

ContainerInit ==
  /\ init \in [Container -> {0} \cup HostPid]
  /\ \A c, d \in Container : init[c] = init[d] /\ c # d => init[c] = 0
  /\ pids = [p \in HostPid |-> IF p = ChosenPid \/ \E c \in Container : init[c] = p THEN p ELSE 0]
  /\ started = Cardinality(HostPid)
  /\ stage = "listing" /\ starts = pids
  /\ chosen = NoContainer /\ relisted = [run |-> 0, runs |-> 0]
  /\ stopped = {} /\ outcome = "none"

-----------------------------------------------------------------------------
(* The host: a container exits, or starts on a free pid; so do processes.  *)
HostExit(p) ==
  /\ pids[p] # 0
  /\ pids' = [pids EXCEPT ![p] = 0]
  /\ init' = [c \in Container |-> IF init[c] = p THEN 0 ELSE init[c]]
  /\ UNCHANGED <<started, stage, starts, chosen, relisted, stopped, outcome>>

HostStart(p) ==
  /\ pids[p] = 0 /\ started < MaxStarted
  /\ started' = started + 1
  /\ pids' = [pids EXCEPT ![p] = started + 1]
  /\ \/ init' = init
     \/ \E c \in Container \ Running : init' = [init EXCEPT ![c] = p]
  /\ UNCHANGED <<stage, starts, chosen, relisted, stopped, outcome>>

-----------------------------------------------------------------------------
Done(with) == stage' = "done" /\ outcome' = with

(* process::snapshot and the search for pid and start: nothing to stop.    *)
List ==
  /\ stage = "listing"
  /\ starts' = pids
  /\ IF pids[ChosenPid] = 0 THEN Done("not running") ELSE stage' = "inspecting" /\ outcome' = outcome
  /\ UNCHANGED <<pids, started, init, chosen, relisted, stopped>>

(* parse_inspect: a running container is dated by the listing before it.   *)
Dated(c) == [container |-> c, run |-> starts[init[c]]]
Inspected(p) == {c \in Running : init[c] = p /\ starts[p] # 0}

(* container::snapshot: without a container of that pid the tree is        *)
(* stopped instead (TreeKill).                                             *)
Inspect ==
  /\ stage = "inspecting"
  /\ IF Inspected(ChosenPid) = {} THEN Done("tree") /\ chosen' = chosen
     ELSE /\ chosen' = [container |-> CHOOSE c \in Inspected(ChosenPid) : TRUE, run |-> starts[ChosenPid]]
          /\ stage' = "relisting" /\ outcome' = outcome
  /\ UNCHANGED <<pids, started, init, starts, relisted, stopped>>

Relist ==
  /\ stage = "relisting"
  /\ starts' = pids
  /\ relisted' = [run |-> pids[ChosenPid], runs |-> started]
  /\ stage' = "checking"
  /\ UNCHANGED <<pids, started, init, chosen, stopped, outcome>>

(* Mutant: a container of that name and pid will do.                       *)
RecheckUndated ==
  LET c == chosen.container
      found == c \in Running /\ starts[init[c]] # 0
  IN /\ stage = "checking"
     /\ IF found /\ init[c] = ChosenPid THEN stage' = "stopping" /\ outcome' = outcome
        ELSE Done("changed")
     /\ UNCHANGED <<pids, started, init, starts, chosen, relisted, stopped>>

(* execute_container: the identity is the one that was approved.           *)
Recheck ==
  LET c == chosen.container
      found == c \in Running /\ starts[init[c]] # 0
      same == found /\ init[c] = ChosenPid /\ Dated(c) = chosen
  IN /\ stage = "checking"
     /\ CASE ~found -> Done("not running")
          [] found /\ ~same -> Done("changed")
          [] OTHER -> stage' = "stopping" /\ outcome' = outcome
     /\ UNCHANGED <<pids, started, init, starts, chosen, relisted, stopped>>

(* docker stop goes by the id; of a container that is not running it is    *)
(* done, and it may be refused.                                            *)
DockerStop ==
  LET c == chosen.container
  IN /\ stage = "stopping"
     /\ \/ /\ Done("stopped")
           /\ stopped' = stopped \cup {pids[init[c]] : x \in {c} \cap Running}
           /\ pids' = [p \in HostPid |-> IF p = init[c] THEN 0 ELSE pids[p]]
           /\ init' = [init EXCEPT ![c] = 0]
        \/ Done("denied") /\ UNCHANGED <<stopped, pids, init>>
     /\ UNCHANGED <<started, starts, chosen, relisted>>

OnTheHost == \E p \in HostPid : HostExit(p) \/ HostStart(p)
ContainerStep == List \/ Inspect \/ Relist \/ Recheck \/ DockerStop
ContainerNext == ContainerStep \/ OnTheHost
ContainerSpec == ContainerInit /\ [][ContainerNext]_containerVars /\ WF_containerVars(ContainerStep)

-----------------------------------------------------------------------------
(* container.rs:44-46: it comes to a stop only if the approved run was     *)
(* there at the second listing, and what is stopped is that run or, when   *)
(* the container restarted since, one that is younger than the listing; a  *)
(* refusal stops nothing.                                                  *)
OnlyTheApprovedContainer ==
  /\ outcome = "stopped" => relisted.run = chosen.run
  /\ \A r \in stopped : r = chosen.run \/ r > relisted.runs
  /\ outcome \in ContainerRefusals \cup {"tree", "none"} => stopped = {}
=============================================================================
