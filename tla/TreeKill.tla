------------------------------ MODULE TreeKill -------------------------------
(***************************************************************************)
(* Action::KillTree of topgent-enforce: execute, attempt_tree, tree_targets *)
(* and Guard::check against a process table that goes on changing.  One    *)
(* snapshot fixes the targets; every later decision re-reads the identity  *)
(* of one pid, and the identity check and the kill are two system calls.   *)
(*                                                                         *)
(* A process is its run: a number no other process ever has, standing for  *)
(* (pid, started_at).  A pid is reused by a later run.                     *)
(***************************************************************************)
EXTENDS Naturals, FiniteSets

CONSTANTS
  Pid,        \* pids of the table, ordered as numbers
  Root,       \* the pid the action was authorised against
  MaxRuns,    \* bound on the processes ever started
  MayDeny     \* TRUE: the system may refuse any signal

TreeAssumption ==
  /\ Pid \subseteq Nat \ {0} /\ IsFiniteSet(Pid)
  /\ Root \in Pid
  /\ MaxRuns \in Nat \ {0}
  /\ MayDeny \in BOOLEAN

VARIABLES
  table,      \* the process table: what each pid runs, or Free
  runs,       \* processes started so far
  phase,      \* where attempt_tree stands
  targets,    \* the snapshot's tree
  left,       \* the members the current loop has not come to
  seen,       \* history: runs when the member's identity was last checked
  attempted,  \* attempted_count
  forced,     \* whether a forced signal was tried
  result,     \* the Outcome or Refusal
  sent        \* history: the signals delivered

treeVars == <<table, runs, phase, targets, left, seen, attempted, forced, result, sent>>
code == <<phase, targets, left, seen, attempted, forced, result, sent>>

NoPid == 0
Free == [run |-> 0, parent |-> NoPid, guarded |-> FALSE]
ProcessRun == 1..MaxRuns

(* `guarded': Guard::check refuses it.                                     *)
Process == [run : ProcessRun, parent : Pid \cup {NoPid}, guarded : BOOLEAN]
Target == [pid : Pid, run : ProcessRun, guarded : BOOLEAN, depth : 0..Cardinality(Pid)]
Signals == [rung : {"terminate", "force"}, member : ProcessRun, hit : ProcessRun, seen : 0..MaxRuns]
Phases == {"snapshot", "preflight", "terminate", "sendTerminate", "grace",
           "force", "sendForce", "poll", "done"}
Refusals == {"NotRunning", "IdentityChanged", "Protected", "Denied", "Partial", "Survived"}
Outcomes == {"TreeStoppedGracefully", "TreeKilled"}

TreeTypeOK ==
  /\ table \in [Pid -> Process \cup {Free}]
  /\ runs \in 0..MaxRuns
  /\ phase \in Phases
  /\ targets \subseteq Target /\ left \subseteq targets
  /\ seen \in 0..MaxRuns
  /\ attempted \in Nat
  /\ forced \in BOOLEAN
  /\ result \in {"none"} \cup Refusals \cup Outcomes
  /\ sent \subseteq Signals

(* The authorised agent is run 1 with, perhaps, children of its own.       *)
TreeInit ==
  /\ table = [p \in Pid |->
                IF p = Root
                  THEN [run |-> 1, parent |-> NoPid, guarded |-> FALSE]
                  ELSE Free]
  /\ runs = 1
  /\ phase = "snapshot"
  /\ targets = {} /\ left = {}
  /\ seen = 0
  /\ attempted = 0
  /\ forced = FALSE
  /\ result = "none"
  /\ sent = {}

Identity(p) == table[p].run
Alive(r) == \E p \in Pid : Identity(p) = r
Finish(r) == phase' = "done" /\ result' = r

-----------------------------------------------------------------------------
(* The rest of the machine.                                                *)
Spawn(p, parent, guarded) ==
  /\ runs < MaxRuns
  /\ table[p] = Free
  /\ runs' = runs + 1
  /\ table' = [table EXCEPT ![p] =
       [run |-> runs + 1, parent |-> parent, guarded |-> guarded]]
  /\ UNCHANGED code

Fork(p) == \E q \in Pid, g \in BOOLEAN : table[q] # Free /\ Spawn(p, q, g)
Launch(p) == \E g \in BOOLEAN : Spawn(p, NoPid, g)

(* The children of a process that exits go to init.                        *)
Quit(p) ==
  /\ table[p] # Free
  /\ table' = [q \in Pid |->
       IF q = p THEN Free
       ELSE IF table[q].parent = p THEN [table[q] EXCEPT !.parent = NoPid]
       ELSE table[q]]
  /\ UNCHANGED <<runs, code>>

-----------------------------------------------------------------------------
(* tree_targets, plus the root: what the root is the n-th parent of, at    *)
(* depth n.                                                                *)
Above[n \in 0..Cardinality(Pid)] ==
  IF n = 0 THEN [p \in Pid |-> p]
  ELSE [p \in Pid |-> IF Above[n - 1][p] = NoPid THEN NoPid ELSE table[Above[n - 1][p]].parent]
Depths(p) == {n \in 0..Cardinality(Pid) : table[p] # Free /\ Above[n][p] = Root}

Tree ==
  {[pid |-> p, run |-> Identity(p), guarded |-> table[p].guarded, depth |-> CHOOSE n \in Depths(p) : TRUE] :
     p \in {q \in Pid : Depths(q) # {}}}

Snapshot ==
  /\ phase = "snapshot"
  /\ \/ table[Root] = Free /\ Finish("NotRunning") /\ UNCHANGED targets
     \/ /\ table[Root] # Free
        /\ Identity(Root) # 1
        /\ Finish("IdentityChanged")
        /\ UNCHANGED targets
     \/ Identity(Root) = 1 /\ targets' = Tree /\ phase' = "preflight" /\ UNCHANGED result
  /\ left' = targets'
  /\ UNCHANGED <<table, runs, seen, attempted, forced, sent>>

(* Mutant: parents before their children.                                  *)
ParentFirst(a, b) == a.depth < b.depth \/ (a.depth = b.depth /\ a.pid < b.pid)

(* The deepest first, and of those the lowest pid.                         *)
Before(a, b) == a.depth > b.depth \/ (a.depth = b.depth /\ a.pid < b.pid)
Member == CHOOSE m \in left : \A n \in left \ {m} : Before(m, n)
Same(m) == Identity(m.pid) = m.run
AtEnd == left = {}
Pass == left' = left \ {Member}
Again == left' = targets

(* Every member is guarded and re-identified before any is signalled; one  *)
(* that has exited meanwhile does not stop the operation.                  *)
Preflight ==
  /\ phase = "preflight"
  /\ \/ AtEnd /\ phase' = "terminate" /\ Again /\ UNCHANGED result
     \/ ~AtEnd /\ Member.guarded /\ Finish("Protected") /\ UNCHANGED left
     \/ /\ ~AtEnd /\ ~Member.guarded
        /\ table[Member.pid] # Free /\ ~Same(Member)
        /\ Finish("IdentityChanged")
        /\ UNCHANGED left
     \/ /\ ~AtEnd /\ ~Member.guarded
        /\ table[Member.pid] = Free \/ Same(Member)
        /\ Pass
        /\ UNCHANGED <<phase, result>>
  /\ UNCHANGED <<table, runs, targets, seen, attempted, forced, sent>>

(* One member of the Terminate or Force loop: skip it when its pid no      *)
(* longer has the run of the snapshot, otherwise go on to signal it.       *)
Check(loop, send, next) ==
  /\ phase = loop
  /\ \/ AtEnd /\ phase' = next /\ Again /\ UNCHANGED <<seen, forced>>
     \/ ~AtEnd /\ ~Same(Member) /\ Pass /\ UNCHANGED <<phase, seen, forced>>
     \/ /\ ~AtEnd /\ Same(Member)
        /\ phase' = send
        /\ seen' = runs
        /\ forced' = (forced \/ loop = "force")
        /\ UNCHANGED left
  /\ UNCHANGED <<table, runs, targets, attempted, result, sent>>

(* kill(2) hits whatever has the pid by now.  It fails on a free pid, or   *)
(* because the system refuses; a failure ends the operation.  Neither      *)
(* signal takes effect at once: the process exits when it does.            *)
Send(rung, send, loop) ==
  /\ phase = send
  /\ \/ /\ table[Member.pid] # Free
        /\ sent' = sent \cup {[rung |-> rung, member |-> Member.run,
                               hit |-> Identity(Member.pid), seen |-> seen]}
        /\ attempted' = attempted + 1
        /\ Pass
        /\ phase' = loop
        /\ UNCHANGED result
     \/ /\ table[Member.pid] = Free \/ MayDeny
        /\ Finish(IF attempted = 0 THEN "Denied" ELSE "Partial")
        /\ UNCHANGED <<left, attempted, sent>>
  /\ UNCHANGED <<table, runs, targets, seen, forced>>

Terminate == Check("terminate", "sendTerminate", "grace")
SendTerminate == Send("terminate", "sendTerminate", "terminate")

(* Mutant: only the root is waited for.                                    *)
RootGone == \A m \in targets : m.pid = Root => ~Same(m)

AllGone == \A m \in targets : ~Same(m)

(* The grace period: all gone ends it early, otherwise it elapses.         *)
Grace ==
  /\ phase = "grace"
  /\ \/ AllGone /\ Finish("TreeStoppedGracefully")
     \/ phase' = "force" /\ UNCHANGED result
  /\ UNCHANGED <<table, runs, targets, left, seen, attempted, forced, sent>>

(* Mutant: whoever has the pid after the grace period is the target.       *)
ForceUnchecked ==
  /\ phase = "force"
  /\ IF AtEnd THEN phase' = "poll" /\ Again ELSE phase' = "sendForce" /\ UNCHANGED left
  /\ forced' = TRUE
  /\ seen' = runs
  /\ UNCHANGED <<table, runs, targets, attempted, result, sent>>

ForceCheck == Check("force", "sendForce", "poll")
SendForce == Send("force", "sendForce", "force")

(* Mutant: the second wait has no bound.                                   *)
PollForever ==
  /\ phase = "poll"
  /\ AllGone
  /\ Finish(IF forced THEN "TreeKilled" ELSE "TreeStoppedGracefully")
  /\ UNCHANGED <<table, runs, targets, left, seen, attempted, forced, sent>>

(* Twenty polls, then Survived.                                            *)
Poll ==
  /\ phase = "poll"
  /\ \/ AllGone /\ Finish(IF forced THEN "TreeKilled" ELSE "TreeStoppedGracefully")
     \/ ~AllGone /\ Finish("Survived")
  /\ UNCHANGED <<table, runs, targets, left, seen, attempted, forced, sent>>

Step ==
  \/ Snapshot \/ Preflight \/ Terminate \/ SendTerminate
  \/ Grace \/ ForceCheck \/ SendForce \/ Poll

TreeNext == Step \/ \E p \in Pid : Fork(p) \/ Launch(p) \/ Quit(p)

(* The enforcing thread is scheduled; no process is obliged to exit.       *)
TreeSpec == TreeInit /\ [][TreeNext]_treeVars /\ WF_treeVars(Step)

-----------------------------------------------------------------------------
(* execute.rs:5-7: a pid reused between the decision and the signal is not *)
(* stopped in place of the process that was approved, except by a run that *)
(* starts after the check that precedes the kill.                          *)
OnlyTheApproved == \A s \in sent : s.hit = s.member \/ s.hit > s.seen

(* execute.rs:12-13: when a member is asked to stop, every deeper member   *)
(* of the snapshot has been asked or is gone.                              *)
Asked(m) == \E s \in sent : s.member = m.run
DeepestFirst ==
  \A m, n \in targets : Asked(m) /\ n.depth > m.depth => ~Same(n) \/ Asked(n)

(* A reported success: no target of the snapshot is still running.         *)
SuccessMeansGone == result \in Outcomes => \A m \in targets : ~Alive(m.run)

(* A stop always comes to a result, whatever the machine does meanwhile.   *)
EveryStopEnds == <>(phase = "done")
=============================================================================
