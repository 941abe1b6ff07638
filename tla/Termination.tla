---------------------------- MODULE Termination ------------------------------
(***************************************************************************)
(* How a stop comes about (topgent-report/src/actions.rs): `stop',         *)
(* resolve_termination_approval and stop_exact, run by surfaces that share *)
(* one journal directory: the desktop application and the command line.    *)
(* Resolving an approval is one step (it holds the record lock; Approval   *)
(* has its details), a stop of the process tree is one step (TreeKill has  *)
(* its own), but Journal::acquire_response_cooldown takes no lock: its     *)
(* read and its write are two steps.                                       *)
(***************************************************************************)
EXTENDS Integers, Sequences, FiniteSets

CONSTANTS
  Surface,     \* processes that may stop an agent
  Run,         \* exact process identities (pid, started_at)
  COOLDOWN,    \* TERMINATION_COOLDOWN_MS in ticks
  MaxRecords,  \* MAX_RESPONSE_COOLDOWNS
  MaxTime,     \* bound on the clock
  MaxStops,    \* bound on the stops executed
  MaxCrashes,  \* surfaces that may die between two steps
  NoRun        \* no process identity

TerminationAssumption ==
  /\ COOLDOWN \in Nat \ {0}
  /\ MaxRecords \in Nat \ {0}
  /\ MaxTime \in Nat /\ MaxStops \in Nat /\ MaxCrashes \in Nat
  /\ NoRun \notin Run

VARIABLES
  now,         \* the clock
  alive,       \* the runs that still exist
  request,     \* the approval of each run, as Approval keeps it
  cooldowns,   \* response-cooldowns.json; no two are of one run
  pc,          \* where each surface stands
  target,      \* the run each surface is about
  approved,    \* whether it came with an approval it has just consumed
  attemptedAt, \* attempted_at of its stop_exact
  loaded,      \* the cooldowns it read
  stops,       \* history: the stops executed
  crashes      \* surfaces that have died so far

vars == <<now, alive, request, cooldowns, pc, target, approved, attemptedAt,
          loaded, stops, crashes>>
file == <<cooldowns, loaded>>
world == <<now, alive, crashes>>

Cooldown == [run : Run, acquired : 0..MaxTime, until : 0..(MaxTime + COOLDOWN)]
Stop == [run : Run, at : 0..MaxTime, by : Surface, approved : BOOLEAN]

TypeOK ==
  /\ now \in 0..MaxTime
  /\ alive \subseteq Run
  /\ request \in [Run -> {"pending", "approved", "denied"}]
  /\ cooldowns \subseteq Cooldown /\ Cardinality(cooldowns) <= MaxRecords
  /\ pc \in [Surface -> {"idle", "resolve", "stop", "load", "save", "execute"}]
  /\ target \in [Surface -> Run \cup {NoRun}]
  /\ approved \in [Surface -> BOOLEAN]
  /\ attemptedAt \in [Surface -> 0..MaxTime]
  /\ loaded \in [Surface -> SUBSET Cooldown]
  /\ stops \in Seq(Stop)
  /\ crashes \in 0..MaxCrashes

Init ==
  /\ now = 0
  /\ alive = Run
  /\ request = [r \in Run |-> "pending"]
  /\ cooldowns = {}
  /\ pc = [s \in Surface |-> "idle"]
  /\ target = [s \in Surface |-> NoRun]
  /\ approved = [s \in Surface |-> FALSE]
  /\ attemptedAt = [s \in Surface |-> 0]
  /\ loaded = [s \in Surface |-> {}]
  /\ stops = <<>>
  /\ crashes = 0

Goto(s, to) == pc' = [pc EXCEPT ![s] = to]

(* The call returns: nothing of it is kept.                                *)
Return(s) ==
  /\ Goto(s, "idle")
  /\ target' = [target EXCEPT ![s] = NoRun]
  /\ approved' = [approved EXCEPT ![s] = FALSE]
  /\ attemptedAt' = [attemptedAt EXCEPT ![s] = 0]
  /\ loaded' = [loaded EXCEPT ![s] = {}]

-----------------------------------------------------------------------------
(* `stop' finds the run that has the pid now; nobody approved anything.    *)
StopByPid(s, r) ==
  /\ pc[s] = "idle"
  /\ r \in alive
  /\ target' = [target EXCEPT ![s] = r]
  /\ Goto(s, "stop")
  /\ UNCHANGED <<world, request, file, approved, attemptedAt, stops>>

(* An approving surface first looks whether the run is still that agent.   *)
Approve(s, r) ==
  /\ pc[s] = "idle"
  /\ r \in alive
  /\ target' = [target EXCEPT ![s] = r]
  /\ Goto(s, "resolve")
  /\ UNCHANGED <<world, request, file, approved, attemptedAt, stops>>

(* Mutant: `nothing resolved' is taken for success.                        *)
ResolveIgnored(s) ==
  /\ pc[s] = "resolve"
  /\ request' = [request EXCEPT ![target[s]] = IF @ = "pending" THEN "approved" ELSE @]
  /\ approved' = [approved EXCEPT ![s] = TRUE]
  /\ Goto(s, "stop")
  /\ UNCHANGED <<world, file, target, attemptedAt, stops>>

(* resolve_approval consumes the pending request, or the call fails.       *)
Resolve(s) ==
  /\ pc[s] = "resolve"
  /\ \/ /\ request[target[s]] = "pending"
        /\ request' = [request EXCEPT ![target[s]] = "approved"]
        /\ approved' = [approved EXCEPT ![s] = TRUE]
        /\ Goto(s, "stop")
        /\ UNCHANGED <<target, attemptedAt, loaded>>
     \/ /\ request[target[s]] # "pending"
        /\ Return(s)
        /\ UNCHANGED request
  /\ UNCHANGED <<world, cooldowns, stops>>

(* A denial needs no running target and stops nothing.                     *)
Deny(s, r) ==
  /\ pc[s] = "idle"
  /\ request[r] = "pending"
  /\ request' = [request EXCEPT ![r] = "denied"]
  /\ UNCHANGED <<world, file, pc, target, approved, attemptedAt, stops>>

-----------------------------------------------------------------------------
(* stop_exact: a fresh snapshot must still have the exact run.             *)
Identify(s) ==
  /\ pc[s] = "stop"
  /\ \/ /\ target[s] \in alive
        /\ attemptedAt' = [attemptedAt EXCEPT ![s] = now]
        /\ Goto(s, "load")
        /\ UNCHANGED <<target, approved, loaded>>
     \/ target[s] \notin alive /\ Return(s)
  /\ UNCHANGED <<world, request, cooldowns, stops>>

Open(records, s) == {c \in records : attemptedAt[s] < c.until}

(* Mutant: the cooldowns are read but the target is not looked up in them. *)
LoadBlind(s) ==
  /\ pc[s] = "load"
  /\ loaded' = [loaded EXCEPT ![s] = cooldowns]
  /\ Goto(s, "save")
  /\ UNCHANGED <<world, request, cooldowns, target, approved, attemptedAt, stops>>

(* acquire_response_cooldown reads the file: an unelapsed cooldown of the  *)
(* same run suppresses the stop ...                                        *)
Load(s) ==
  /\ pc[s] = "load"
  /\ LET open == Open(cooldowns, s)
     IN \/ /\ \E c \in open : c.run = target[s]
           /\ Return(s)
        \/ /\ \A c \in open : c.run # target[s]
           /\ loaded' = [loaded EXCEPT ![s] = open]
           /\ Goto(s, "save")
           /\ UNCHANGED <<target, approved, attemptedAt>>
  /\ UNCHANGED <<world, request, cooldowns, stops>>

(* What may stay of the records with a new one: past the bound the first   *)
(* of the sorted file goes, and the sort leaves the new one behind those   *)
(* as old as itself.  Which of several as old goes is left open.           *)
First(records, mine) ==
  {c \in records : \A d \in records \ {c} :
     c.acquired < d.acquired \/ (c.acquired = d.acquired /\ c # mine)}
Newest(records, mine) ==
  IF Cardinality(records) <= MaxRecords THEN {records}
                                        ELSE {records \ {c} : c \in First(records, mine)}

(* ... otherwise its own is appended to what was read, sorted, bounded and *)
(* renamed over the file.  A write that fails fails closed.                *)
Save(s) ==
  /\ pc[s] = "save"
  /\ \/ LET mine == [run |-> target[s], acquired |-> attemptedAt[s],
                     until |-> attemptedAt[s] + COOLDOWN]
        IN /\ cooldowns' \in Newest(loaded[s] \cup {mine}, mine)
           /\ Goto(s, "execute")
           /\ UNCHANGED <<target, approved, attemptedAt, loaded>>
     \/ Return(s) /\ UNCHANGED cooldowns
  /\ UNCHANGED <<world, request, stops>>

(* The guarded path runs: a process tree or, through its runtime, a        *)
(* container.  What it does to the target is up to the target.             *)
Execute(s) ==
  /\ pc[s] = "execute"
  /\ Len(stops) < MaxStops
  /\ stops' = Append(stops, [run |-> target[s], at |-> attemptedAt[s], by |-> s,
                             approved |-> approved[s]])
  /\ Return(s)
  /\ UNCHANGED <<world, request, cooldowns>>

-----------------------------------------------------------------------------
Exit(r) ==
  /\ r \in alive
  /\ alive' = alive \ {r}
  /\ UNCHANGED <<now, request, file, pc, target, approved, attemptedAt, stops, crashes>>

(* A surface is killed and started again: only the files remain.           *)
Crash(s) ==
  /\ pc[s] # "idle"
  /\ crashes < MaxCrashes
  /\ crashes' = crashes + 1
  /\ Return(s)
  /\ UNCHANGED <<now, alive, request, cooldowns, stops>>

Tick ==
  /\ now < MaxTime
  /\ now' = now + 1
  /\ UNCHANGED <<alive, request, file, pc, target, approved, attemptedAt, stops, crashes>>

Next ==
  \/ \E s \in Surface, r \in Run : StopByPid(s, r) \/ Approve(s, r) \/ Deny(s, r)
  \/ \E s \in Surface :
       Resolve(s) \/ Identify(s) \/ Load(s) \/ Save(s) \/ Execute(s) \/ Crash(s)
  \/ \E r \in Run : Exit(r)
  \/ Tick

Spec == Init /\ [][Next]_vars

-----------------------------------------------------------------------------
(* actions.rs:191-192: an approval is consumed exactly once, even when two *)
(* surfaces approve it together; a surface that dies has consumed it too.  *)
ConsumedOnce ==
  \A r \in Run :
    Cardinality({k \in DOMAIN stops : stops[k].run = r /\ stops[k].approved}) <= 1

(* A denied request never becomes an approved stop, whatever another       *)
(* surface was doing with it when it was denied.                           *)
DenialHolds ==
  \A k \in DOMAIN stops : stops[k].approved => request[stops[k].run] = "approved"

(* What the operator answered is what is done, once.                       *)
AnswersHold == ConsumedOnce /\ DenialHolds

(* cooldown.rs:3-6: no run is stopped twice within one cooldown.           *)
OneStopPerCooldown ==
  \A j, k \in DOMAIN stops :
    j < k /\ stops[j].run = stops[k].run => stops[k].at - stops[j].at >= COOLDOWN

(* One surface keeps to it, even one that is killed after it has signalled *)
(* (actions.rs:281-301: the cooldown is on disk before the first signal).  *)
OneSurface == \A s, t \in DOMAIN pc : s = t
StopsAreSpaced == OneSurface => OneStopPerCooldown
=============================================================================
