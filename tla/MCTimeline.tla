----------------------------- MODULE MCTimeline ------------------------------
(***************************************************************************)
(* Instances of a sweep and what it is part of: the capture it drains, the *)
(* timeline of what changed (SweepJournal), the log that is appended to    *)
(* (EventLog) and the timeline of what agents did (Activity). SweepJournal *)
(* takes an append for one step that may fail part of the way, EventLog is *)
(* that step against rotations and clearings: a behaviour is about one of  *)
(* them, the focus; the variables of the others are out of use, those of   *)
(* SweepJournal, EventLog and the switch of the capture stay as they begin.*)
(*                                                                         *)
(*   pair: SweepJournal, two surfaces and one run; one sweep fails         *)
(*   alone: one surface and one run that moves twice; two sweeps fail      *)
(*   log: EventLog, one surface that may be killed while it is cleared     *)
(*   activity: one surface sweeps six times; a child process touches a     *)
(*     secret while its agent connects, or a connection is closed          *)
(*   activity pair: two surfaces, four sweeps; there is room for fewer     *)
(*     events than a sweep finds, and the clock is set back once           *)
(*   capture: Capture, every installation, two launches, two interfaces    *)
(*   permission: CaptureGrant on every host, two changes and three uses    *)
(***************************************************************************)
EXTENDS SweepJournal, Capture, EventLog, CaptureGrant, Activity, Integers

CONSTANTS Foci, app, cli, r1

VARIABLE focus

timelineVars == <<vars, logVars, activityVars>>
allVars == <<focus, timelineVars, captureVars, grantVars>>

Alone == INSTANCE SweepJournal WITH
  Surface <- {app}, MaxMoves <- 2, MaxCount <- 5, MaxFailures <- 2

(* The agent is process 1, its child process 2.  Of the files 1 is secret; *)
(* of the connections 5 was attempted and 6 is closed.                     *)
Claimed(claim, subject, what) ==
  [claim |-> claim, subject |-> subject, what |-> what, child |-> 2]
Scene(children, facts) ==
  [agents |-> {[run |-> <<1, 0>>, children |-> children]}, facts |-> facts]
Scenery ==
  {Scene({}, {Claimed("socket_closed", <<1, 0>>, 6)}),
   Scene({2}, {Claimed("child_process_seen", <<1, 0>>, 2), Claimed("process_seen", <<2, 0>>, 0),
               Claimed("file_touched", <<2, 0>>, 1), Claimed("connection_attempt", <<1, 0>>, 5)})}
Shared == INSTANCE Activity WITH
  Watcher <- {app, cli}, MaxNow <- 3, StepsBack <- 1, MaxSweeps <- 4

ASSUME TimelineAssumption ==
  /\ SweepAssumption /\ Alone!SweepAssumption
  /\ LogAssumption
  /\ ActivityAssumption /\ Shared!ActivityAssumption
  /\ CaptureAssumption /\ GrantAssumption

NoTimeline == Init /\ LogInit /\ ActivityInit
NoSwitch ==
  /\ up = FALSE /\ setting = "on" /\ switching = "free"
  /\ granted = 0 /\ wires = 0 /\ child = 0 /\ orphan = 0 /\ ended = 0 /\ stop = 0 /\ report = 0
  /\ launches = 0 /\ helper = 0 /\ wanted = 0 /\ source = 0 /\ switches = 0
NoGrant == GrantInit /\ Linux /\ ~Installed /\ ~binary

TimelineInit ==
  /\ \/ focus = "alone" /\ Alone!Init /\ LogInit /\ ActivityInit
     \/ focus = "pair" /\ Init /\ LogInit /\ ActivityInit
     \/ focus = "log" /\ LogInit /\ Init /\ ActivityInit
     \/ focus = "activity" /\ ActivityInit /\ Init /\ LogInit
     \/ focus = "activity pair" /\ Shared!ActivityInit /\ Init /\ LogInit

MCInit ==
  /\ focus \in Foci
  /\ \/ TimelineInit /\ NoSwitch /\ NoGrant
     \/ focus = "capture" /\ CaptureInit /\ NoTimeline /\ NoGrant
     \/ focus = "permission" /\ GrantInit /\ NoTimeline /\ NoSwitch

NotTimeline == UNCHANGED <<focus, captureVars, grantVars>>
SweepStep ==
  /\ \/ focus = "alone" /\ Alone!Next
     \/ focus = "pair" /\ Next
  /\ UNCHANGED <<logVars, activityVars>> /\ NotTimeline

LogStep ==
  focus = "log" /\ LogNext /\ UNCHANGED <<vars, activityVars>> /\ NotTimeline

ActivityStep ==
  /\ \/ focus = "activity" /\ ActivityNext
     \/ focus = "activity pair" /\ Shared!ActivityNext
  /\ UNCHANGED <<vars, logVars>> /\ NotTimeline

OnlyCapture == UNCHANGED <<focus, timelineVars, grantVars>>
CaptureStep ==
  focus = "capture" /\ CaptureNext /\ OnlyCapture

GrantStep ==
  focus = "permission" /\ GrantNext /\ UNCHANGED <<focus, timelineVars, captureVars>>

MCNext == SweepStep \/ LogStep \/ ActivityStep \/ CaptureStep \/ GrantStep

(* The fairness of SweepJournal: a surface goes on sweeping, time passes;  *)
(* and of Capture: threads run, reads time out, a helper writes.           *)
PairStep(s) == focus = "pair" /\ Step(s) /\ UNCHANGED <<logVars, activityVars>> /\ NotTimeline
PairGrowOld == focus = "pair" /\ GrowOld /\ UNCHANGED <<logVars, activityVars>> /\ NotTimeline
ThreadStep(w) == focus = "capture" /\ WireStops(w) /\ OnlyCapture
ProgramStep ==
  focus = "capture" /\ (Switched \/ ChildExits \/ ReaderNotices) /\ OnlyCapture

MCSpec ==
  /\ MCInit /\ [][MCNext]_allVars
  /\ \A s \in {app, cli} : WF_allVars(PairStep(s))
  /\ WF_allVars(PairGrowOld)
  /\ \A w \in Wire : WF_allVars(ThreadStep(w))
  /\ WF_allVars(ProgramStep)

-----------------------------------------------------------------------------
(* activity_history.rs:5: a late observation with a backwards clock cannot *)
(* reorder what came before.                                               *)
OrderStandsBackwards == 
  [][\A s \in DOMAIN sweep : focus = "activity pair" /\ Merges(s) => KeepsOrder(s)]_allVars

(* activity/build.rs:238: current observations are always preferred.       *)
CurrentIsPreferred == focus = "activity" => CorrelatedIsKept

(* sweep.rs:18: the timeline catches up with the host again and again;     *)
(* session.rs:30-31: a use of the switch returns; live.rs:159-163: a       *)
(* capture that reads no more is not said to be running for long.          *)
EverythingSettles ==
  /\ []<>(focus # "pair" \/ CaughtUp)
  /\ (focus = "capture" /\ switching # "free") ~> (focus # "capture" \/ switching = "free")
  /\ (focus = "capture" /\ Running /\ ~Reading) ~> (focus # "capture" \/ ~Running \/ Reading)
=============================================================================
