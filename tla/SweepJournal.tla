---------------------------- MODULE SweepJournal -----------------------------
(***************************************************************************)
(* Journal::advance_sweep with SweepLock, reconcile, diff and save_sweep   *)
(* (topgent-journal/src/journal.rs, sweep.rs): the timeline of what        *)
(* changed on the host.  Every surface looks at the host, takes the sweep  *)
(* lock, compares its look with the saved baseline, appends what moved to  *)
(* the event log and saves its look as the next baseline.                  *)
(*                                                                         *)
(* A run is one exact process (pid and start time).  Its grade stands for  *)
(* every attribute whose change is an entry, its scanning for every one    *)
(* that is an entry on its rising edge.  A baseline without start times,   *)
(* which only an older version writes, is left out.  The log is kept as    *)
(* the number of entries of each kind; EventLog models the file.           *)
(***************************************************************************)
EXTENDS Naturals

CONSTANTS
  Surface,     \* the desktop app, the CLI, the viewer
  Run,         \* exact agent runs
  NoOne,       \* no surface
  MaxMoves,    \* bound on the changes of grade or scanning of a run
  MaxCount,    \* the counters of the log stop here
  MaxFailures, \* bound on kills and failed appends
  Prompt       \* TRUE: a lock grows stale only when its holder is dead

SweepAssumption ==
  /\ NoOne \notin Surface
  /\ MaxMoves \in Nat /\ MaxCount \in Nat \ {0} /\ MaxFailures \in Nat
  /\ Prompt \in BOOLEAN

VARIABLES
  life,      \* whether each run is "unborn", "live" or "gone"
  truth,     \* its grade and whether it is scanning
  moves,     \* history: changes of its grade, and rising edges of scanning
  pc,        \* where each surface stands
  look,      \* what it saw
  before,    \* the baseline it read
  lock,      \* sweep.lock: "none", "empty", "fresh" or "old"
  holder,    \* ghost: the surface inside that created the lock file
  baseline,  \* sweep.json
  torn,      \* whether a save of it began and did not end
  log,       \* history: entries of each kind in the event log, by run
  failures   \* kills and failed appends so far

vars == <<life, truth, moves, pc, look, before, lock, holder, baseline, torn, log, failures>>
world == <<life, truth, moves>>

Grade == {"low", "high"}
Seen == [agent : {"known", "unclassified"}, grade : Grade, scanning : BOOLEAN]
Absent == [agent |-> "absent", grade |-> "low", scanning |-> FALSE]
Snapshot == [Run -> Seen \cup {Absent}]
Nothing == [r \in Run |-> Absent]
Present(snap) == {r \in Run : snap[r] # Absent}
Live == {r \in Run : life[r] = "live"}

PcSet == {"idle", "claim", "held", "remove", "reclaim", "claimed", "read", "append",
          "save", "saving", "release"}
Goto(s, to) == pc' = [pc EXCEPT ![s] = to] /\ UNCHANGED <<look, before>>

Capped(n) == IF n > MaxCount THEN MaxCount ELSE n

(* The call returns, or its process dies: what it had read is gone.        *)
Return(s) ==
  /\ pc' = [pc EXCEPT ![s] = "idle"]
  /\ look' = [look EXCEPT ![s] = Nothing]
  /\ before' = [before EXCEPT ![s] = Nothing]

TypeOK ==
  /\ life \in [Run -> {"unborn", "live", "gone"}]
  /\ truth \in [Run -> [grade : Grade, scanning : BOOLEAN]]
  /\ moves \in [Run -> [grade : 0..MaxMoves, scanning : 0..MaxMoves]]
  /\ pc \in [Surface -> PcSet]
  /\ look \in [Surface -> Snapshot]
  /\ before \in [Surface -> Snapshot]
  /\ lock \in {"none", "empty", "fresh", "old"}
  /\ holder \in Surface \cup {NoOne}
  /\ baseline \in Snapshot
  /\ torn \in BOOLEAN
  /\ log \in [Run -> [started : 0..MaxCount, stopped : 0..MaxCount,
                      graded : 0..MaxCount, alarms : 0..MaxCount]]
  /\ failures \in 0..MaxFailures

Init ==
  /\ life = [r \in Run |-> "unborn"]
  /\ truth = [r \in Run |-> [grade |-> "low", scanning |-> FALSE]]
  /\ moves = [r \in Run |-> [grade |-> 0, scanning |-> 0]]
  /\ pc = [s \in Surface |-> "idle"]
  /\ look = [s \in Surface |-> Nothing]
  /\ before = [s \in Surface |-> Nothing]
  /\ lock = "none"
  /\ holder = NoOne
  /\ baseline = Nothing
  /\ torn = FALSE
  /\ log = [r \in Run |-> [started |-> 0, stopped |-> 0, graded |-> 0, alarms |-> 0]]
  /\ failures = 0

-----------------------------------------------------------------------------
(* The host.                                                               *)
Start(r) ==
  /\ life[r] = "unborn"
  /\ life' = [life EXCEPT ![r] = "live"]
  /\ UNCHANGED <<truth, moves, pc, look, before, lock, holder, baseline, torn, log, failures>>

Exit(r) ==
  /\ life[r] = "live"
  /\ life' = [life EXCEPT ![r] = "gone"]
  /\ UNCHANGED <<truth, moves, pc, look, before, lock, holder, baseline, torn, log, failures>>

Regrade(r) ==
  /\ life[r] = "live" /\ moves[r].grade < MaxMoves
  /\ \E g \in Grade \ {truth[r].grade} : truth' = [truth EXCEPT ![r].grade = g]
  /\ moves' = [moves EXCEPT ![r].grade = @ + 1]
  /\ UNCHANGED <<life, pc, look, before, lock, holder, baseline, torn, log, failures>>

Scan(r) ==
  /\ life[r] = "live" /\ (truth[r].scanning \/ moves[r].scanning < MaxMoves)
  /\ truth' = [truth EXCEPT ![r].scanning = ~@]
  /\ moves' = IF truth[r].scanning THEN moves ELSE [moves EXCEPT ![r].scanning = @ + 1]
  /\ UNCHANGED <<life, pc, look, before, lock, holder, baseline, torn, log, failures>>

-----------------------------------------------------------------------------
(* snapshot of one sweep: every live run, each recognised or not.  A run   *)
(* whose executable could not be read is unclassified and graded high.     *)
Look(s) ==
  /\ pc[s] = "idle"
  /\ \E known \in SUBSET Live :
       look' = [look EXCEPT ![s] = [r \in Run |->
         CASE r \in known -> [agent |-> "known", grade |-> truth[r].grade,
                              scanning |-> truth[r].scanning]
           [] r \in Live \ known -> [agent |-> "unclassified", grade |-> "high",
                                     scanning |-> truth[r].scanning]
           [] OTHER -> Absent]]
  /\ pc' = [pc EXCEPT ![s] = "claim"]
  /\ UNCHANGED <<life, truth, moves, before, lock, holder, baseline, torn, log, failures>>

(* SweepLock::claim: create_new, and a write of the time that follows it.  *)
(* The second attempt, after a removal, is the last.                       *)
Claim(s) ==
  /\ pc[s] \in {"claim", "reclaim"}
  /\ IF lock = "none"
       THEN lock' = "empty" /\ holder' = s /\ Goto(s, "claimed")
       ELSE /\ UNCHANGED <<lock, holder>>
            /\ IF pc[s] = "claim" THEN Goto(s, "held") ELSE Return(s)
  /\ UNCHANGED <<life, truth, moves, baseline, torn, log, failures>>

(* The write goes to the file that was opened, which another surface may   *)
(* have removed since.                                                     *)
Stamp(s) ==
  /\ pc[s] = "claimed"
  /\ lock' = IF holder = s /\ lock = "empty" THEN "fresh" ELSE lock
  /\ Goto(s, "read")
  /\ UNCHANGED <<life, truth, moves, holder, baseline, torn, log, failures>>

(* Mutant: a lock is never taken for abandoned.                            *)
ReadHolderTrusting(s) ==
  /\ pc[s] = "held"
  /\ Return(s)
  /\ UNCHANGED <<life, truth, moves, lock, holder, baseline, torn, log, failures>>

(* A missing or unreadable holder, or one past SWEEP_LOCK_STALE_MS, is     *)
(* taken for abandoned; any other makes this call journal nothing.         *)
ReadHolder(s) ==
  /\ pc[s] = "held"
  /\ IF lock = "fresh" THEN Return(s) ELSE Goto(s, "remove")
  /\ UNCHANGED <<life, truth, moves, lock, holder, baseline, torn, log, failures>>

RemoveStale(s) ==
  /\ pc[s] = "remove"
  /\ lock' = "none"
  /\ holder' = NoOne
  /\ IF lock = "none" THEN Return(s) ELSE Goto(s, "reclaim")
  /\ UNCHANGED <<life, truth, moves, baseline, torn, log, failures>>

(* last_sweep: an unreadable file is an empty snapshot.                    *)
Read(s) ==
  /\ pc[s] = "read"
  /\ before' = [before EXCEPT ![s] = IF torn THEN Nothing ELSE baseline]
  /\ pc' = [pc EXCEPT ![s] = "append"]
  /\ UNCHANGED <<life, truth, moves, look, lock, holder, baseline, torn, log, failures>>

(* Mutant: seeing less replaces what was confirmed.                        *)
ReconcileNot(was, observed) == observed

(* Less visibility of the same exact run is not a change: the earlier      *)
(* record is retained, as degraded.                                        *)
Degraded(was, observed) == observed.agent = "unclassified" /\ was.agent = "known"
Reconcile(was, observed) ==
  [r \in Run |-> IF Degraded(was[r], observed[r]) THEN was[r] ELSE observed[r]]

Add(n, cond) == IF cond THEN Capped(n + 1) ELSE n

(* Mutant: an alarm on every sweep while the scan continues.               *)
DiffLevel(l, was, now) ==
  [started |-> Add(l.started, was = Absent /\ now # Absent),
   stopped |-> Add(l.stopped, was # Absent /\ now = Absent),
   graded  |-> Add(l.graded, was # Absent /\ now # Absent /\ was.grade # now.grade),
   alarms  |-> Add(l.alarms, was # Absent /\ now.scanning)]

(* The entries of one run.  A degraded run has the record it had.  A first *)
(* sighting is one entry, whatever the run does.                           *)
Diff(l, was, now) ==
  [started |-> Add(l.started, was = Absent /\ now # Absent),
   stopped |-> Add(l.stopped, was # Absent /\ now = Absent),
   graded  |-> Add(l.graded, was # Absent /\ now # Absent /\ was.grade # now.grade),
   alarms  |-> Add(l.alarms, was # Absent /\ now.scanning /\ ~was.scanning)]

(* The log when the entries of the runs in `written' have been appended.   *)
Appended(s, written) ==
  LET after == Reconcile(before[s], look[s])
  IN [r \in Run |-> IF r \in written THEN Diff(log[r], before[s][r], after[r]) ELSE log[r]]

(* Mutant: the baseline is saved before the entries are written.           *)
AppendMovedLate(s) ==
  /\ pc[s] = "append"
  /\ UNCHANGED log
  /\ Goto(s, "save")
  /\ UNCHANGED <<life, truth, moves, lock, holder, baseline, torn, failures>>

AppendMoved(s) ==
  /\ pc[s] = "append"
  /\ log' = Appended(s, Run)
  /\ Goto(s, "save")
  /\ UNCHANGED <<life, truth, moves, lock, holder, baseline, torn, failures>>

(* std::fs::write of save_sweep truncates the file and then fills it.      *)
Truncate(s) ==
  /\ pc[s] = "save"
  /\ torn' = TRUE
  /\ Goto(s, "saving")
  /\ UNCHANGED <<life, truth, moves, lock, holder, baseline, log, failures>>

Fill(s) ==
  /\ pc[s] = "saving"
  /\ baseline' = Reconcile(before[s], look[s])
  /\ torn' = FALSE
  /\ Goto(s, "release")
  /\ UNCHANGED <<life, truth, moves, lock, holder, log, failures>>

(* Dropping a SweepLock removes whatever file has the name.                *)
Release(s) ==
  /\ pc[s] = "release"
  /\ lock' = "none"
  /\ holder' = NoOne
  /\ Return(s)
  /\ UNCHANGED <<life, truth, moves, baseline, torn, log, failures>>

(* The append fails part of the way: the lock is dropped, nothing saved.   *)
AppendFails(s) ==
  /\ pc[s] = "append" /\ failures < MaxFailures
  /\ \E written \in SUBSET Run : log' = Appended(s, written)
  /\ failures' = failures + 1
  /\ lock' = "none"
  /\ holder' = NoOne
  /\ Return(s)
  /\ UNCHANGED <<life, truth, moves, baseline, torn>>

(* A surface is killed, and started again.  The lock file stays.           *)
Kill(s) ==
  /\ pc[s] # "idle" /\ failures < MaxFailures
  /\ failures' = failures + 1
  /\ IF pc[s] = "append"
       THEN \E written \in SUBSET Run : log' = Appended(s, written)
       ELSE UNCHANGED log
  /\ holder' = IF holder = s THEN NoOne ELSE holder
  /\ Return(s)
  /\ UNCHANGED <<life, truth, moves, lock, baseline, torn>>

(* Thirty seconds pass over a stamped lock.                                *)
GrowOld ==
  /\ lock = "fresh"
  /\ Prompt => holder = NoOne
  /\ lock' = "old"
  /\ UNCHANGED <<life, truth, moves, pc, look, before, holder, baseline, torn, log, failures>>

Step(s) ==
  \/ Look(s) \/ Claim(s) \/ Stamp(s) \/ ReadHolder(s) \/ RemoveStale(s) \/ Read(s)
  \/ AppendMoved(s) \/ Truncate(s) \/ Fill(s) \/ Release(s)

Next ==
  \/ \E r \in Run : Start(r) \/ Exit(r) \/ Regrade(r) \/ Scan(r)
  \/ \E s \in Surface : Step(s) \/ AppendFails(s) \/ Kill(s)
  \/ GrowOld

(* A surface that runs goes on sweeping, and time passes.                  *)
Fairness == (\A s \in Surface : WF_vars(Step(s))) /\ WF_vars(GrowOld)

Spec == Init /\ [][Next]_vars
FairSpec == Spec /\ Fairness

-----------------------------------------------------------------------------
(* advance_sweep appends before it saves: a run the baseline takes for     *)
(* known is in the log, whoever raced or was killed.                       *)
LoggedBeforeSaved ==
  \A r \in Run : ~torn /\ baseline[r] # Absent => log[r].started > 0

(* sweep.rs:4-7: a change is reported once; only a sweep that was cut      *)
(* short repeats the entries it had written.  And sweep.rs:88-90: a run    *)
(* that does not change must not alternate between grades as it is         *)
(* recognised and not; it may settle once, when it is first recognised,    *)
(* and again after a lost baseline.                                        *)
RepeatsOnlyByFailure ==
  \A r \in Run :
    /\ log[r].started <= 1 + failures
    /\ log[r].stopped <= 1 + failures
    /\ log[r].graded <= moves[r].grade + 1 + failures

(* sweep.rs:226: alert once when scanning begins, not on every sweep while *)
(* it continues.                                                           *)
AlarmOnRisingEdge ==
  \A r \in Run : log[r].alarms <= moves[r].scanning + failures

(* Of two surfaces the slower may put an older look in place of a newer.   *)
OneSurface == \A s, t \in DOMAIN pc : s = t
ChangesAreToldOnce == OneSurface => RepeatsOnlyByFailure /\ AlarmOnRisingEdge

(* sweep.rs:18: a surface killed in mid-sweep does not stop every later    *)
(* sweep from journaling: the baseline catches up with the host again and  *)
(* again, and with it the log.                                             *)
CaughtUp == ~torn /\ Present(baseline) = Live /\ \A r \in Live : log[r].started > 0
CatchesUp == []<>CaughtUp
=============================================================================
