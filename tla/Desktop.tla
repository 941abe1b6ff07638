------------------------------- MODULE Desktop -------------------------------
(***************************************************************************)
(* App of topgent-ui: one drawing thread that takes messages in turn, and  *)
(* the tasks it starts beside itself, which sweep, stop, edit and clear    *)
(* while the machine goes on.  A task answers with a message, and answers  *)
(* of two tasks may come in either order.  What is drawn is a function of  *)
(* this state; the capture switch is in Capture.                           *)
(***************************************************************************)
EXTENDS Integers, FiniteSets, Sequences, SequencesExt

CONSTANTS
  MaxPid,     \* pids agents run on; run n is on pid n at first
  MaxAgents,  \* bound on the runs of agents
  MaxTasks,   \* bound on the tasks at one time
  MaxLooks,   \* bound on the sweeps that look at the machine
  MaxChanges, \* bound on what happens to the agents
  MaxActs,    \* bound on the operator's stops, clears, edits and choices
  MaxRules    \* rules of the policy at first

DesktopAssumption ==
  /\ MaxPid \in Nat \ {0}
  /\ MaxAgents \in Nat /\ MaxTasks \in Nat /\ MaxLooks \in Nat /\ MaxChanges \in Nat
  /\ MaxActs \in Nat /\ MaxRules \in Nat

AgentPid == 1..MaxPid

VARIABLES
  machine,    \* pid -> the agent on it, or None
  hostRuns,   \* runs of agents so far
  policy,     \* the rules of policy.json
  tasks,      \* what runs beside the drawing thread
  report,     \* App::report
  selected,   \* App::selected, 0 for none
  sweeping,   \* App::sweeping
  failed,     \* App::error
  stopping,   \* App::stopping, 0 for none
  refreshing, \* whether refresh_ms is not zero
  notify,     \* Settings::notify
  raised,     \* App::raised, "none" for no entry
  looks,      \* history: sweeps that looked
  prompted,   \* history: what ran on the pid when the prompt was opened
  confirmed,  \* history: what a confirmation was for, and what it stopped
  alarmed,    \* history: runs that were announced
  repeats,    \* history: whether an unchanged finding was announced again
  lapsed,     \* history: notifications were off, the event log was cleared, rules were edited
  changes, acts

machineVars == <<machine, hostRuns, changes>>
histories == <<looks, prompted, confirmed, alarmed, repeats, lapsed>>
view == <<report, selected, failed, stopping>>
settings == <<refreshing, notify>>
desktopVars == <<machineVars, policy, tasks, view, sweeping, settings, raised, histories, acts>>

Grade == {"low", "medium", "critical"}
None == [run |-> 0, grade |-> "low"]
NoReport == [at |-> 0, agents |-> [p \in AgentPid |-> None], rules |-> <<>>]
Worth(grade) == grade # "low"

Idle == [kind |-> "none", about |-> 0, got |-> NoReport]
Task(kind, about) == [kind |-> kind, about |-> about, got |-> NoReport]
Shown == {p \in DOMAIN report.agents : report.agents[p].run # 0}
Sweeps == {s \in DOMAIN tasks : tasks[s].kind \in {"sweep", "swept", "broken"}}

DesktopInit ==
  /\ \E g \in [AgentPid -> Grade] : machine = [p \in AgentPid |-> [run |-> p, grade |-> g[p]]]
  /\ hostRuns = MaxPid
  /\ policy = [n \in 1..MaxRules |-> n]
  /\ tasks = [s \in 1..MaxTasks |-> IF s = 1 THEN Task("sweep", 0) ELSE Idle]
  /\ report = NoReport /\ selected = 0 /\ sweeping = TRUE /\ failed = FALSE
  /\ stopping = 0
  /\ refreshing \in BOOLEAN /\ notify = TRUE
  /\ raised = [p \in AgentPid |-> "none"]
  /\ looks = 0 /\ prompted = 0 /\ confirmed = {} /\ alarmed = {} /\ repeats = FALSE
  /\ lapsed = {} /\ changes = 0 /\ acts = 0

-----------------------------------------------------------------------------
(* Task::perform in a free slot.                                           *)
Perform(taken, task) ==
  LET free == {s \in DOMAIN taken : taken[s].kind = "none"}
  IN free # {} /\ tasks' = [taken EXCEPT ![CHOOSE s \in free : \A r \in free : s <= r] = task]

(* Mutant: the sweep that is running is not asked about.                   *)
AskSweepAlways(taken) == sweeping' = TRUE /\ Perform(taken, Task("sweep", 0))

(* Message::Sweep, also at the end of a stop or an edit.                   *)
AskSweep(taken) ==
  \/ sweeping /\ tasks' = taken /\ UNCHANGED sweeping
  \/ ~sweeping /\ sweeping' = TRUE /\ Perform(taken, Task("sweep", 0))

(* subscription: not while a prompt waits, not when it is paused.          *)
RefreshTick ==
  /\ refreshing /\ stopping = 0 /\ ~sweeping
  /\ AskSweep(tasks)
  /\ UNCHANGED <<machineVars, policy, view, settings, raised, histories, acts>>

(* scan, in a thread of the runtime: it may panic, or fail to be read.     *)
Look(s) ==
  /\ tasks[s].kind = "sweep" /\ looks < MaxLooks
  /\ looks' = looks + 1
  /\ \/ tasks' = [tasks EXCEPT ![s] = [kind |-> "swept", about |-> 0,
                    got |-> [at |-> looks + 1, agents |-> machine, rules |-> policy]]]
     \/ tasks' = [tasks EXCEPT ![s].kind = "broken"]
  /\ UNCHANGED <<machineVars, policy, view, sweeping, settings, raised, prompted, confirmed,
                 alarmed, repeats, lapsed, acts>>

(* Report::worst: the last of the highest.                                 *)
Rank(grade) == CASE grade = "low" -> 1 [] grade = "medium" -> 2 [] grade = "critical" -> 3
Worst(agents) ==
  LET there == {p \in AgentPid : agents[p].run # 0}
      top == {p \in there : \A q \in there : Rank(agents[q].grade) <= Rank(agents[p].grade)}
  IN IF there = {} THEN 0 ELSE CHOOSE p \in top : \A q \in top : q <= p

(* announce: an agent that improves is forgotten, one that is gone is not. *)
Raised(agents) ==
  [p \in AgentPid |-> IF agents[p].run = 0 THEN raised[p]
                 ELSE IF Worth(agents[p].grade) THEN agents[p].grade ELSE "none"]

Announced(agents) ==
  {p \in AgentPid : /\ agents[p].run # 0 /\ Worth(agents[p].grade)
               /\ raised[p] # agents[p].grade}

(* Message::Swept.                                                         *)
Swept(s) ==
  LET got == tasks[s].got
      told == IF notify THEN Announced(got.agents) ELSE {}
  IN /\ tasks[s].kind \in {"swept", "broken"}
     /\ tasks' = [tasks EXCEPT ![s] = Idle]
     /\ sweeping' = FALSE
     /\ IF tasks[s].kind = "broken"
          THEN failed' = TRUE /\ UNCHANGED <<report, selected, raised, alarmed, repeats>>
          ELSE /\ failed' = FALSE
               /\ report' = got
               /\ selected' = IF selected # 0 /\ got.agents[selected].run # 0 THEN selected
                              ELSE Worst(got.agents)
               /\ raised' = IF notify THEN Raised(got.agents) ELSE raised
               /\ alarmed' = alarmed \cup {got.agents[p] : p \in told}
               /\ repeats' = (repeats \/ \E p \in told : report.agents[p] = got.agents[p])
     /\ UNCHANGED <<machineVars, policy, stopping, settings, looks, prompted, confirmed, lapsed,
                    acts>>

-----------------------------------------------------------------------------
(* A row is chosen.  Overlays, tables and the window itself are only drawn. *)
Select(p) ==
  /\ p \in Shown /\ ~failed /\ stopping = 0 /\ selected # p
  /\ selected' = p
  /\ UNCHANGED <<machineVars, policy, tasks, report, failed, stopping, sweeping, settings,
                 raised, histories, acts>>

(* settle: the choices in the settings.                                    *)
SetRefresh(on) ==
  /\ refreshing # on /\ acts < MaxActs /\ acts' = acts + 1
  /\ refreshing' = on
  /\ UNCHANGED <<machineVars, policy, tasks, view, sweeping, notify, raised, histories>>

SetNotify(on) ==
  /\ notify # on /\ acts < MaxActs /\ acts' = acts + 1
  /\ notify' = on
  /\ lapsed' = lapsed \cup {"notify"}
  /\ UNCHANGED <<machineVars, policy, tasks, view, sweeping, refreshing, raised, looks, prompted,
                 confirmed, alarmed, repeats>>

(* The stop button of the agent whose detail is drawn.                     *)
AskStop ==
  /\ selected \in Shown /\ ~failed /\ stopping = 0 /\ acts < MaxActs
  /\ acts' = acts + 1
  /\ stopping' = selected
  /\ prompted' = machine[selected].run
  /\ UNCHANGED <<machineVars, policy, tasks, report, selected, failed, sweeping, settings,
                 raised, looks, confirmed, alarmed, repeats, lapsed>>

CancelStop ==
  /\ stopping # 0 /\ stopping' = 0
  /\ UNCHANGED <<machineVars, policy, tasks, report, selected, failed, sweeping, settings,
                 raised, histories, acts>>

ConfirmStop ==
  /\ stopping # 0 /\ stopping' = 0
  /\ Perform(tasks, [Task("stop", stopping) EXCEPT !.got.at = prompted])
  /\ UNCHANGED <<machineVars, policy, report, selected, failed, sweeping, settings, raised,
                 histories, acts>>

(* topgent_report::stop: whatever has the pid now, by its own start time.  *)
(* Message::Stopped asks for a sweep.                                      *)
Stopped(s) ==
  LET p == tasks[s].about
  IN /\ tasks[s].kind = "stop"
     /\ confirmed' = confirmed \cup {[meant |-> tasks[s].got.at, hit |-> machine[p].run]}
     /\ machine' = [machine EXCEPT ![p] = None]
     /\ AskSweep([tasks EXCEPT ![s] = Idle])
     /\ UNCHANGED <<hostRuns, changes, policy, view, settings, raised, looks, prompted, alarmed,
                    repeats, lapsed, acts>>

(* ClearEvents, and EventsCleared, which starts a sweep of its own.        *)
ClearEvents ==
  /\ acts < MaxActs /\ acts' = acts + 1
  /\ Perform(tasks, Task("clear", 0))
  /\ UNCHANGED <<machineVars, policy, view, sweeping, settings, raised, histories>>

EventsCleared(s) ==
  /\ tasks[s].kind = "clear"
  /\ tasks' = [tasks EXCEPT ![s] = Task("sweep", 0)]
  /\ lapsed' = lapsed \cup {"clear"}
  /\ UNCHANGED <<machineVars, policy, view, sweeping, settings, raised, looks, prompted, confirmed,
                 alarmed, repeats, acts>>

(* RemoveRule goes by the place the rule has in the report that is drawn.  *)
RemoveRule(n) ==
  /\ n \in DOMAIN report.rules /\ acts < MaxActs /\ acts' = acts + 1
  /\ Perform(tasks, Task("remove", n))
  /\ UNCHANGED <<machineVars, policy, view, sweeping, settings, raised, histories>>

RuleChanged(s) ==
  LET n == tasks[s].about
  IN /\ tasks[s].kind = "remove"
     /\ policy' = IF n \in DOMAIN policy THEN RemoveAt(policy, n) ELSE policy
     /\ AskSweep([tasks EXCEPT ![s] = Idle])
     /\ UNCHANGED <<machineVars, view, settings, raised, histories, acts>>

-----------------------------------------------------------------------------
(* The machine: agents exit, start on a free pid, get better and worse.    *)
AgentExits(p) ==
  /\ machine[p].run # 0 /\ machine' = [machine EXCEPT ![p] = None]
  /\ UNCHANGED hostRuns

AgentStarts(p) ==
  /\ machine[p].run = 0 /\ hostRuns < MaxAgents
  /\ hostRuns' = hostRuns + 1
  /\ \E g \in Grade : machine' = [machine EXCEPT ![p] = [run |-> hostRuns + 1, grade |-> g]]

AgentScores(p, g) ==
  /\ machine[p].run # 0 /\ machine[p].grade # g
  /\ machine' = [machine EXCEPT ![p].grade = g]
  /\ UNCHANGED hostRuns

Machine ==
  /\ changes < MaxChanges /\ changes' = changes + 1
  /\ \E p \in AgentPid : AgentExits(p) \/ AgentStarts(p) \/ \E g \in Grade : AgentScores(p, g)
  /\ UNCHANGED <<policy, tasks, view, sweeping, settings, raised, histories, acts>>

Operator ==
  \/ \E p \in AgentPid : Select(p)
  \/ \E on \in BOOLEAN : SetRefresh(on) \/ SetNotify(on)
  \/ AskStop \/ CancelStop \/ ConfirmStop \/ ClearEvents
  \/ \E n \in 1..MaxRules : RemoveRule(n)

Work(s) == Look(s) \/ Swept(s) \/ Stopped(s) \/ EventsCleared(s) \/ RuleChanged(s)
DesktopNext == RefreshTick \/ Operator \/ Machine \/ \E s \in 1..MaxTasks : Work(s)

(* The runtime runs what was started.                                      *)
DesktopFairness == \A s \in 1..MaxTasks : WF_desktopVars(Work(s))
DesktopSpec == DesktopInit /\ [][DesktopNext]_desktopVars /\ DesktopFairness

-----------------------------------------------------------------------------
(* lib.rs:426-430: sweeps do not pile up: there is one at most, or one     *)
(* more for each time the event log was cleared; whatever is selected is   *)
(* on the screen; and an agent that is shown at a grade worth raising has  *)
(* been announced at it, unless notifications were off in between, a sweep *)
(* was overtaken or its pid was another agent's; and is not announced      *)
(* again for nothing.                                                      *)
DesktopHolds ==
  /\ "clear" \notin lapsed => Cardinality(Sweeps) <= 1 /\ (Sweeps # {} => sweeping)
  /\ selected # 0 => selected \in Shown
  /\ lapsed = {} =>
       \A p \in Shown : LET a == report.agents[p]
                        IN a.run = p /\ Worth(a.grade) =>
                             a \in alarmed
  /\ "notify" \notin lapsed => ~repeats

(* A sweep that is outstanding comes back: the window does not stop        *)
(* looking, unless the bound on looks is used up.                          *)
SweepReturns == sweeping ~> (~sweeping \/ looks = MaxLooks)

(* agents.rs:930-932: what a confirmed stop stops is what was asked about. *)
StopsTheAsked == \A s \in confirmed : s.hit \in {0, s.meant}
=============================================================================
