----------------------------- MODULE MCResponse ------------------------------
(***************************************************************************)
(* Instances of the response, from the prompt to the signal.  Each module  *)
(* takes what the others do for one step, so a behaviour is about one of   *)
(* them, the focus; the variables of the others are out of use, those of   *)
(* Termination and TreeKill stay as they begin.                            *)
(*                                                                         *)
(*   pair: Termination, two surfaces and one run                           *)
(*   solo: one surface and two runs, the surface may be killed             *)
(*   tree: TreeKill, three pids and a run more than pids, so that a tree   *)
(*     of three levels, two siblings and a reused pid all occur            *)
(*   container: ContainerStop, two containers, two pids and five runs      *)
(*   ladder: ResponseLadder, two rules, three edits, a host that allows all*)
(*   hosts: the same with one edit, on hosts that do not                   *)
(*   desktop: Desktop, one pid, three looks, one act of the operator       *)
(*   desktops: the same with two pids and two looks                        *)
(*   reused: one pid, for StopsTheAsked, which does not hold               *)
(***************************************************************************)
EXTENDS Termination, TreeKill, Desktop, ContainerStop, ResponseLadder

CONSTANTS Foci, ui, cli, r1, r2

VARIABLE focus

allVars == <<focus, vars, treeVars, containerVars, ladderVars, desktopVars>>

Solo == INSTANCE Termination WITH
  Surface <- {ui}, Run <- {r1, r2}, MaxStops <- 3

AbleHost == [config |-> "with", status |-> "admin", terminate |-> TRUE]
AbleHosts == {AbleHost}
Unable == INSTANCE ResponseLadder WITH
  MaxEdits <- 1,
  Hosts <- {[AbleHost EXCEPT !.config = "without"], [AbleHost EXCEPT !.config = "unreadable"],
            [AbleHost EXCEPT !.status = "user", !.terminate = FALSE]}
Window == INSTANCE Desktop WITH
  MaxPid <- 1, MaxAgents <- 2, MaxLooks <- 3, MaxChanges <- 3, MaxRules <- 1

ASSUME ResponseAssumption ==
  /\ TerminationAssumption /\ Solo!TerminationAssumption /\ TreeAssumption
  /\ ContainerAssumption /\ LadderAssumption /\ Unable!LadderAssumption
  /\ Window!DesktopAssumption /\ DesktopAssumption

NoBox == ContainerInit /\ \A c \in Container : init[c] = 0
NoLadder == LadderInit
NoWindow == DesktopInit /\ ~refreshing /\ \A p \in AgentPid : machine[p].grade = "low"

MCInit ==
  /\ focus \in Foci
  /\ \/ focus = "solo" /\ Solo!Init /\ TreeInit /\ NoBox /\ NoLadder /\ NoWindow
     \/ focus = "pair" /\ Init /\ TreeInit /\ NoBox /\ NoLadder /\ NoWindow
     \/ focus = "tree" /\ TreeInit /\ Init /\ NoBox /\ NoLadder /\ NoWindow
     \/ focus = "container" /\ ContainerInit /\ Init /\ TreeInit /\ NoLadder /\ NoWindow
     \/ focus = "ladder" /\ LadderInit /\ Init /\ TreeInit /\ NoBox /\ NoWindow
     \/ focus = "hosts" /\ Unable!LadderInit /\ Init /\ TreeInit /\ NoBox /\ NoWindow
     \/ focus \in {"desktop", "reused"} /\ Window!DesktopInit /\ Init /\ TreeInit /\ NoBox /\ NoLadder
     \/ focus = "desktops" /\ DesktopInit /\ machine[2].grade = "low"
          /\ Init /\ TreeInit /\ NoBox /\ NoLadder

CallStep ==
  /\ \/ focus = "solo" /\ Solo!Next
     \/ focus = "pair" /\ Next
  /\ UNCHANGED <<focus, treeVars, containerVars, ladderVars, desktopVars>>

OnlyTree == UNCHANGED <<focus, vars, containerVars, ladderVars, desktopVars>>
TreeStep == focus = "tree" /\ TreeNext /\ OnlyTree
ThreadStep == focus = "tree" /\ Step /\ OnlyTree

BoxStep ==
  focus = "container" /\ ContainerNext /\ UNCHANGED <<focus, vars, treeVars, ladderVars, desktopVars>>

LadderStep ==
  /\ \/ focus = "ladder" /\ LadderNext
     \/ focus = "hosts" /\ Unable!LadderNext
  /\ UNCHANGED <<focus, vars, treeVars, containerVars, desktopVars>>

OnlyWindow == UNCHANGED <<focus, vars, treeVars, containerVars, ladderVars>>
WindowStep ==
  /\ \/ focus \in {"desktop", "reused"} /\ Window!DesktopNext
     \/ focus = "desktops" /\ DesktopNext
  /\ OnlyWindow
TaskStep(s) == focus = "desktop" /\ Window!Work(s) /\ OnlyWindow

MCNext == CallStep \/ TreeStep \/ BoxStep \/ LadderStep \/ WindowStep

(* The fairness of TreeKill, its thread is scheduled, and of Desktop, the  *)
(* tasks it started run.                                                   *)
MCSpec ==
  /\ MCInit /\ [][MCNext]_allVars
  /\ WF_allVars(ThreadStep) /\ \A s \in 1..2 : WF_allVars(TaskStep(s))

-----------------------------------------------------------------------------
(* Every stop comes to a result, and every sweep of the window comes back. *)
EveryCallComesBack ==
  /\ <>(focus # "tree" \/ phase = "done")
  /\ (focus = "desktop" /\ sweeping) ~> (focus # "desktop" \/ ~sweeping \/ looks = 3)
=============================================================================
