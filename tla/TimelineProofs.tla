--------------------------- MODULE TimelineProofs ----------------------------
(***************************************************************************)
(* Theorems about a sweep and the capture it drains.                       *)
(*                                                                         *)
(* SweepJournal: for any surfaces and runs and any bounds, with any number *)
(* of kills and failed appends, and whether a lock grows stale under a     *)
(* live holder or not.  Capture: for any interfaces, any installation and  *)
(* any launches and uses of the switch.  EventLog: for any surfaces and    *)
(* any size of the log, with any number of clearings and kills.            *)
(* CaptureGrant: for any hosts and any changes and uses of the permission. *)
(* Activity: for any surfaces, scenes and bounds, however the clock is set.*)
(***************************************************************************)
EXTENDS
  SweepJournal, Capture, EventLog, CaptureGrant, Activity,
  FiniteSetTheorems, WellFoundedInduction, TLAPS

Entries == [started : 0..MaxCount, stopped : 0..MaxCount, graded : 0..MaxCount,
            alarms : 0..MaxCount]

LEMMA AbsentIsNotSeen == Absent \notin Seen
BY DEF Absent, Seen

LEMMA AddIsCounted ==
  ASSUME SweepAssumption, NEW n \in 0..MaxCount, NEW c \in BOOLEAN
  PROVE  Add(n, c) \in 0..MaxCount /\ n <= Add(n, c) /\ (c => Add(n, c) > 0)
BY DEF SweepAssumption, Add, Capped

(* The entries of a comparison are added to those there are, and a run     *)
(* that was not there before gets one that says it started.                *)
LEMMA DiffGrows ==
  ASSUME SweepAssumption, NEW l \in Entries,
         NEW was \in Seen \cup {Absent}, NEW new \in Seen \cup {Absent}
  PROVE  /\ Diff(l, was, new) \in Entries
         /\ l.started <= Diff(l, was, new).started
         /\ was = Absent /\ new # Absent => Diff(l, was, new).started > 0
<1>1. new.scanning \in BOOLEAN /\ was.scanning \in BOOLEAN
  <2>1. \A x \in Seen : x.scanning \in BOOLEAN
    BY DEF Seen
  <2>2. Absent.scanning \in BOOLEAN
    BY DEF Absent
  <2> QED
    BY <2>1, <2>2
<1>2. l.started \in 0..MaxCount /\ l.stopped \in 0..MaxCount
      /\ l.graded \in 0..MaxCount /\ l.alarms \in 0..MaxCount
  BY DEF Entries
<1> DEFINE a == Add(l.started, was = Absent /\ new # Absent)
           b == Add(l.stopped, was # Absent /\ new = Absent)
           c == Add(l.graded, was # Absent /\ new # Absent /\ was.grade # new.grade)
           d == Add(l.alarms, was # Absent /\ new.scanning /\ ~was.scanning)
<1>3. a \in 0..MaxCount /\ l.started <= a /\ (was = Absent /\ new # Absent => a > 0)
  BY <1>2, AddIsCounted
<1>4. b \in 0..MaxCount /\ c \in 0..MaxCount /\ d \in 0..MaxCount
  BY <1>1, <1>2, AddIsCounted
<1>5. Diff(l, was, new) = [started |-> a, stopped |-> b, graded |-> c, alarms |-> d]
  BY DEF Diff
<1> HIDE DEF a, b, c, d
<1> QED
  BY <1>3, <1>4, <1>5 DEF Entries

(* What a sweep saves is a snapshot, and it has a run only if the baseline *)
(* it read had it, or the host.                                            *)
LEMMA ReconcileIsSnapshot ==
  ASSUME NEW was \in Snapshot, NEW observed \in Snapshot
  PROVE  Reconcile(was, observed) \in Snapshot
BY DEF Snapshot, Reconcile

LEMMA AppendedGrows ==
  ASSUME SweepAssumption, TypeOK, NEW s \in Surface, NEW written \in SUBSET Run
  PROVE  /\ Appended(s, written) \in [Run -> Entries]
         /\ \A r \in Run : log[r].started <= Appended(s, written)[r].started
         /\ \A r \in written :
              before[s][r] = Absent /\ Reconcile(before[s], look[s])[r] # Absent
                => Appended(s, written)[r].started > 0
<1> DEFINE after == Reconcile(before[s], look[s])
<1>1. after \in Snapshot /\ before[s] \in Snapshot
  BY ReconcileIsSnapshot DEF TypeOK
<1>2. \A r \in Run : log[r] \in Entries
  BY DEF TypeOK, Entries
<1>3. \A r \in Run : /\ before[s][r] \in Seen \cup {Absent}
                     /\ after[r] \in Seen \cup {Absent}
  BY <1>1 DEF Snapshot
<1>4. Appended(s, written)
        = [r \in Run |-> IF r \in written THEN Diff(log[r], before[s][r], after[r]) ELSE log[r]]
  BY DEF Appended
<1> HIDE DEF after
<1>5. \A r \in Run :
        /\ Diff(log[r], before[s][r], after[r]) \in Entries
        /\ log[r].started <= Diff(log[r], before[s][r], after[r]).started
        /\ before[s][r] = Absent /\ after[r] # Absent
             => Diff(log[r], before[s][r], after[r]).started > 0
  BY <1>2, <1>3, DiffGrows
<1>6. \A r \in Run : log[r].started <= log[r].started
  BY <1>2 DEF Entries
<1> QED
  BY <1>2, <1>4, <1>5, <1>6 DEF after

-----------------------------------------------------------------------------
(* Type correctness: no step leaves the sets the variables range over.     *)
THEOREM TypeCorrect ==
  ASSUME SweepAssumption
  PROVE  Spec => []TypeOK
<1>1. Init => TypeOK
  <2> SUFFICES ASSUME Init PROVE TypeOK
    OBVIOUS
  <2> USE DEF SweepAssumption, Init
  <2>1. Nothing \in Snapshot
    BY DEF Nothing, Snapshot
  <2>2. truth \in [Run -> [grade : Grade, scanning : BOOLEAN]]
    BY DEF Grade
  <2>3. log \in [Run -> Entries]
    BY DEF Entries
  <2>4. moves \in [Run -> [grade : 0..MaxMoves, scanning : 0..MaxMoves]]
    OBVIOUS
  <2> QED
    BY <2>1, <2>2, <2>3, <2>4, NoOne \in Surface \cup {NoOne}, 0 \in 0..MaxFailures
       DEF TypeOK, PcSet, Entries
<1>2. TypeOK /\ [Next]_vars => TypeOK'
  <2> SUFFICES ASSUME TypeOK, [Next]_vars PROVE TypeOK'
    OBVIOUS
  <2> USE DEF SweepAssumption, TypeOK
  <2>1. ASSUME NEW r \in Run, Start(r) PROVE TypeOK'
    BY <2>1 DEF Start
  <2>2. ASSUME NEW r \in Run, Exit(r) PROVE TypeOK'
    BY <2>2 DEF Exit
  <2>3. ASSUME NEW r \in Run, Regrade(r) PROVE TypeOK'
    BY <2>3 DEF Regrade
  <2>4. ASSUME NEW r \in Run, Scan(r) PROVE TypeOK'
    <3>1. truth' \in [Run -> [grade : Grade, scanning : BOOLEAN]]
      <4>1. truth[r] \in [grade : Grade, scanning : BOOLEAN]
        OBVIOUS
      <4>2. (~truth[r].scanning) \in BOOLEAN
        OBVIOUS
      <4>3. [truth[r] EXCEPT !.scanning = ~truth[r].scanning] \in [grade : Grade, scanning : BOOLEAN]
        BY <4>1, <4>2
      <4> QED
        BY <2>4, <4>3 DEF Scan
    <3>2. moves' \in [Run -> [grade : 0..MaxMoves, scanning : 0..MaxMoves]]
      <4>1. CASE truth[r].scanning
        BY <2>4, <4>1 DEF Scan
      <4>2. CASE ~truth[r].scanning
        <5>1. moves[r].scanning + 1 \in 0..MaxMoves
          BY <2>4, <4>2 DEF Scan
        <5>2. moves[r] \in [grade : 0..MaxMoves, scanning : 0..MaxMoves]
          OBVIOUS
        <5>3. [moves[r] EXCEPT !.scanning = moves[r].scanning + 1]
                \in [grade : 0..MaxMoves, scanning : 0..MaxMoves]
          BY <5>1, <5>2
        <5>4. moves' = [moves EXCEPT ![r] = [moves[r] EXCEPT !.scanning = moves[r].scanning + 1]]
          BY <2>4, <4>2 DEF Scan
        <5> QED
          BY <5>3, <5>4
      <4> QED
        BY <4>1, <4>2
    <3> QED
      BY <2>4, <3>1, <3>2 DEF Scan
  <2>5. Nothing \in Snapshot
    BY DEF Nothing, Snapshot
  <2>6. ASSUME NEW s \in Surface, Look(s) PROVE TypeOK'
    <3>1. PICK known \in SUBSET Live :
            look' = [look EXCEPT ![s] = [r \in Run |->
              CASE r \in known -> [agent |-> "known", grade |-> truth[r].grade,
                                   scanning |-> truth[r].scanning]
                [] r \in Live \ known -> [agent |-> "unclassified", grade |-> "high",
                                          scanning |-> truth[r].scanning]
                [] OTHER -> Absent]]
      BY <2>6 DEF Look
    <3>2. look'[s] \in Snapshot
      <4>1. \A r \in Run : truth[r].grade \in Grade /\ truth[r].scanning \in BOOLEAN
        OBVIOUS
      <4> QED
        BY <3>1, <4>1 DEF Snapshot, Seen, Grade
    <3> QED
      BY <2>6, <3>1, <3>2 DEF Look, PcSet
  <2>7. ASSUME NEW s \in Surface, Claim(s) PROVE TypeOK'
    <3>1. CASE lock = "none"
      BY <2>5, <2>7, <3>1 DEF Claim, Goto, Return, PcSet
    <3>2. CASE lock # "none" /\ pc[s] = "claim"
      BY <2>5, <2>7, <3>2 DEF Claim, Goto, Return, PcSet
    <3>3. CASE lock # "none" /\ pc[s] # "claim"
      <4>1. Return(s) /\ UNCHANGED <<life, truth, moves, lock, holder, baseline, torn, log, failures>>
        BY <2>7, <3>3 DEF Claim
      <4> QED
        BY <2>5, <4>1 DEF Return, PcSet
    <3> QED
      BY <3>1, <3>2, <3>3
  <2>8. ASSUME NEW s \in Surface, Stamp(s) PROVE TypeOK'
    BY <2>8 DEF Stamp, Goto, PcSet
  <2>9. ASSUME NEW s \in Surface, ReadHolder(s) PROVE TypeOK'
    <3>1. CASE lock = "fresh"
      <4>1. Return(s) /\ UNCHANGED <<life, truth, moves, lock, holder, baseline, torn, log, failures>>
        BY <2>9, <3>1 DEF ReadHolder
      <4> QED
        BY <2>5, <4>1 DEF Return, PcSet
    <3>2. CASE lock # "fresh"
      BY <2>5, <2>9, <3>2 DEF ReadHolder, Goto, Return, PcSet
    <3> QED
      BY <3>1, <3>2
  <2>10. ASSUME NEW s \in Surface, RemoveStale(s) PROVE TypeOK'
    <3>1. CASE lock = "none"
      <4>1. Return(s) /\ UNCHANGED <<life, truth, moves, baseline, torn, log, failures>> /\ lock' = "none" /\ holder' = NoOne
        BY <2>10, <3>1 DEF RemoveStale
      <4> QED
        BY <2>5, <4>1 DEF Return, PcSet
    <3>2. CASE lock # "none"
      BY <2>5, <2>10, <3>2 DEF RemoveStale, Goto, Return, PcSet
    <3> QED
      BY <3>1, <3>2
  <2>11. ASSUME NEW s \in Surface, Read(s) PROVE TypeOK'
    BY <2>5, <2>11 DEF Read, PcSet
  <2>12. ASSUME NEW s \in Surface, AppendMoved(s) PROVE TypeOK'
    <3>1. log' \in [Run -> Entries]
      BY <2>12, AppendedGrows DEF AppendMoved
    <3> QED
      BY <2>12, <3>1 DEF AppendMoved, Goto, PcSet, Entries
  <2>13. ASSUME NEW s \in Surface, Truncate(s) PROVE TypeOK'
    BY <2>13 DEF Truncate, Goto, PcSet
  <2>14. ASSUME NEW s \in Surface, Fill(s) PROVE TypeOK'
    BY <2>14, ReconcileIsSnapshot DEF Fill, Goto, PcSet
  <2>15. ASSUME NEW s \in Surface, Release(s) PROVE TypeOK'
    BY <2>5, <2>15 DEF Release, Return, PcSet
  <2>16. ASSUME NEW s \in Surface, AppendFails(s) PROVE TypeOK'
    <3>1. log' \in [Run -> Entries]
      BY <2>16, AppendedGrows DEF AppendFails
    <3> QED
      BY <2>5, <2>16, <3>1 DEF AppendFails, Return, PcSet, Entries
  <2>17. ASSUME NEW s \in Surface, Kill(s) PROVE TypeOK'
    <3>1. log' \in [Run -> Entries]
      BY <2>17, AppendedGrows DEF Kill, Entries
    <3> QED
      BY <2>5, <2>17, <3>1 DEF Kill, Return, PcSet, Entries
  <2>18. CASE GrowOld
    BY <2>18 DEF GrowOld
  <2>19. CASE UNCHANGED vars
    BY <2>19 DEF vars
  <2> QED
    BY <2>1, <2>2, <2>3, <2>4, <2>6, <2>7, <2>8, <2>9, <2>10, <2>11, <2>12, <2>13,
       <2>14, <2>15, <2>16, <2>17, <2>18, <2>19 DEF Next, Step
<1> QED
  BY <1>1, <1>2, PTL DEF Spec

-----------------------------------------------------------------------------
(***************************************************************************)
(* LoggedBeforeSaved is not inductive: it needs that the baseline a        *)
(* surface has read was logged, and that what a surface is about to save   *)
(* is in the log already.  No lock is needed for it: a baseline is never   *)
(* taken back, and the log only grows.                                     *)
(***************************************************************************)
Logged(r) == log[r].started > 0
SavedIsLogged == \A r \in Run : baseline[r] # Absent => Logged(r)
ReadIsLogged == \A s \in Surface, r \in Run : before[s][r] # Absent => Logged(r)
DueIsLogged ==
  \A s \in Surface, r \in Run :
    pc[s] \in {"save", "saving"} /\ Reconcile(before[s], look[s])[r] # Absent => Logged(r)

IInv == SavedIsLogged /\ ReadIsLogged /\ DueIsLogged

LEMMA StepIInv ==
  ASSUME SweepAssumption, TypeOK, TypeOK', IInv, [Next]_vars
  PROVE  IInv'
<1> USE DEF SweepAssumption, IInv, SavedIsLogged, ReadIsLogged, DueIsLogged, Logged
<1> USE DEF TypeOK
<1>1. ASSUME NEW r \in Run, Start(r) \/ Exit(r) \/ Regrade(r) \/ Scan(r) PROVE IInv'
  BY <1>1 DEF Start, Exit, Regrade, Scan
<1>2. \A r \in Run : Nothing[r] = Absent
  BY DEF Nothing
<1>3. ASSUME NEW s \in Surface, Look(s) PROVE IInv'
  BY <1>3 DEF Look
<1>4. ASSUME NEW s \in Surface, Claim(s) PROVE IInv'
  <2>1. CASE lock = "none"
    BY <1>2, <1>4, <2>1 DEF Claim, Goto, Return
  <2>2. CASE lock # "none" /\ pc[s] = "claim"
    BY <1>2, <1>4, <2>2 DEF Claim, Goto, Return
  <2>3. CASE lock # "none" /\ pc[s] # "claim"
    <3>1. Return(s) /\ UNCHANGED <<life, truth, moves, lock, holder, baseline, torn, log, failures>>
      BY <1>4, <2>3 DEF Claim
    <3> QED
      BY <1>2, <3>1 DEF Return
  <2> QED
    BY <2>1, <2>2, <2>3
<1>5. ASSUME NEW s \in Surface, Stamp(s) PROVE IInv'
  BY <1>5 DEF Stamp, Goto
<1>6. ASSUME NEW s \in Surface, ReadHolder(s) PROVE IInv'
  <2>1. CASE lock = "fresh"
    <3>1. Return(s) /\ UNCHANGED <<life, truth, moves, lock, holder, baseline, torn, log, failures>>
      BY <1>6, <2>1 DEF ReadHolder
    <3> QED
      BY <1>2, <3>1 DEF Return
  <2>2. CASE lock # "fresh"
    BY <1>2, <1>6, <2>2 DEF ReadHolder, Goto, Return
  <2> QED
    BY <2>1, <2>2
<1>7. ASSUME NEW s \in Surface, RemoveStale(s) PROVE IInv'
  <2>1. CASE lock = "none"
    <3>1. Return(s) /\ UNCHANGED <<life, truth, moves, baseline, torn, log, failures>> /\ lock' = "none" /\ holder' = NoOne
      BY <1>7, <2>1 DEF RemoveStale
    <3> QED
      BY <1>2, <3>1 DEF Return
  <2>2. CASE lock # "none"
    BY <1>2, <1>7, <2>2 DEF RemoveStale, Goto, Return
  <2> QED
    BY <2>1, <2>2
<1>8. ASSUME NEW s \in Surface, Read(s) PROVE IInv'
  BY <1>2, <1>8 DEF Read
<1>9. ASSUME NEW s \in Surface, Truncate(s) PROVE IInv'
  BY <1>9 DEF Truncate, Goto
<1>10. ASSUME NEW s \in Surface, Fill(s) PROVE IInv'
  BY <1>10 DEF Fill, Goto
<1>11. ASSUME NEW s \in Surface, Release(s) PROVE IInv'
  BY <1>2, <1>11 DEF Release, Return
(* The actions that write to the log: nothing that was there goes.         *)
<1>12. ASSUME NEW s \in Surface, NEW written \in SUBSET Run, log' = Appended(s, written)
       PROVE  \A r \in Run : Logged(r) => Logged(r)'
  <2>1. \A r \in Run : log[r].started <= log'[r].started
    BY <1>12, AppendedGrows
  <2>2. \A r \in Run : log[r].started \in Nat /\ log'[r].started \in Nat
    OBVIOUS
  <2> QED
    BY <2>1, <2>2
<1>13. ASSUME NEW s \in Surface, AppendMoved(s) PROVE IInv'
  <2>1. \A r \in Run : Logged(r) => Logged(r)'
    BY <1>12, <1>13 DEF AppendMoved
  <2>2. \A r \in Run : before[s][r] = Absent /\ Reconcile(before[s], look[s])[r] # Absent
                        => Logged(r)'
    BY <1>13, AppendedGrows DEF AppendMoved
  <2> QED
    BY <1>13, <2>1, <2>2 DEF AppendMoved, Goto
<1>14. ASSUME NEW s \in Surface, AppendFails(s) PROVE IInv'
  <2>1. \A r \in Run : Logged(r) => Logged(r)'
    BY <1>12, <1>14 DEF AppendFails
  <2> QED
    BY <1>2, <1>14, <2>1 DEF AppendFails, Return
<1>15. ASSUME NEW s \in Surface, Kill(s) PROVE IInv'
  <2>1. \A r \in Run : Logged(r) => Logged(r)'
    BY <1>12, <1>15 DEF Kill
  <2> QED
    BY <1>2, <1>15, <2>1 DEF Kill, Return
<1>16. CASE GrowOld
  BY <1>16 DEF GrowOld
<1>17. CASE UNCHANGED vars
  BY <1>17 DEF vars
<1> QED
  BY <1>1, <1>3, <1>4, <1>5, <1>6, <1>7, <1>8, <1>9, <1>10, <1>11, <1>13, <1>14,
     <1>15, <1>16, <1>17 DEF Next, Step

(* What the baseline takes for known is in the log, however many surfaces  *)
(* race and wherever they are killed (journal.rs:1089).                    *)
THEOREM NothingUntold ==
  ASSUME SweepAssumption
  PROVE  Spec => []LoggedBeforeSaved
<1>1. Init => IInv
  BY DEF Init, IInv, SavedIsLogged, ReadIsLogged, DueIsLogged, Nothing
<1>2. TypeOK /\ TypeOK' /\ IInv /\ [Next]_vars => IInv'
  BY StepIInv
<1>3. IInv => LoggedBeforeSaved
  BY DEF IInv, SavedIsLogged, Logged, LoggedBeforeSaved
<1> QED
  BY <1>1, <1>2, <1>3, TypeCorrect, PTL DEF Spec

-----------------------------------------------------------------------------
(***************************************************************************)
(* One surface tells a change once.  What the log has of a run is bounded  *)
(* by what happened to it, less what is still owed: the entries that the   *)
(* look in hand, and the run as it is now, have yet to bring.  Over is a   *)
(* run that has gone and that nothing remembers.                           *)
(***************************************************************************)
Known == IF torn THEN Nothing ELSE baseline
Looking == {"claim", "held", "remove", "reclaim", "claimed", "read", "append"}
Base(s, r) ==
  IF pc[s] \in {"save", "saving"} THEN Reconcile(before[s], look[s])[r] ELSE Known[r]
Due(s, r) == pc[s] \in Looking /\ look[s][r] # Absent
To(s, r) == IF Degraded(Known[r], look[s][r]) THEN Known[r] ELSE look[s][r]
Over(s, r) == life[r] = "gone" /\ Base(s, r) = Absent /\ ~Due(s, r)

One(cond) == IF cond THEN 1 ELSE 0
Differs(a, b) == One(a.grade # b.grade)
Rises(a, b) == One(~a.scanning /\ b.scanning)

GradesOwed(s, r) ==
  IF Base(s, r) = Absent THEN One(~Over(s, r))
  ELSE IF Due(s, r) THEN Differs(Base(s, r), To(s, r)) + Differs(To(s, r), truth[r])
  ELSE Differs(Base(s, r), truth[r])
AlarmsOwed(s, r) ==
  IF Base(s, r) = Absent THEN IF Due(s, r) THEN Rises(To(s, r), truth[r]) ELSE 0
  ELSE IF Due(s, r) THEN Rises(Base(s, r), To(s, r)) + Rises(To(s, r), truth[r])
  ELSE Rises(Base(s, r), truth[r])

Told(s, r) ==
  /\ log[r].started <= failures + One(Base(s, r) # Absent \/ Over(s, r))
  /\ log[r].stopped <= failures + One(Over(s, r))
  /\ log[r].graded + GradesOwed(s, r) <= moves[r].grade + 1 + failures
  /\ log[r].alarms + AlarmsOwed(s, r) <= moves[r].scanning + failures

(* What the surface read is what is saved, as nobody else saves; what is   *)
(* remembered or seen has lived; what a look misses has gone; and what is  *)
(* not recognised is graded high.                                          *)
Facts(s) ==
  /\ pc[s] = "append" => before[s] = Known
  /\ \A r \in Run :
       /\ life[r] = "unborn" => /\ baseline[r] = Absent /\ before[s][r] = Absent
                                /\ look[s][r] = Absent
       /\ pc[s] \in Looking /\ Known[r] # Absent /\ look[s][r] = Absent => life[r] = "gone"
       /\ \A x \in {baseline[r], before[s][r], look[s][r]} :
            x.agent = "unclassified" => x.grade = "high"

OnceInv(s) == Facts(s) /\ \A r \in Run : Told(s, r)

Counts(l, m, f) ==
  /\ l.started \in Nat /\ l.stopped \in Nat /\ l.graded \in Nat /\ l.alarms \in Nat
  /\ m.grade \in Nat /\ m.scanning \in Nat
  /\ f \in Nat

LEMMA Counted ==
  ASSUME SweepAssumption, NEW r \in Run
  PROVE  /\ TypeOK => Counts(log[r], moves[r], failures)
         /\ TypeOK' => Counts(log'[r], moves'[r], failures')
<1> DEFINE InBounds(l, m, f) == /\ l \in Entries /\ f \in 0..MaxFailures
                                /\ m \in [grade : 0..MaxMoves, scanning : 0..MaxMoves]
<1>1. /\ TypeOK => InBounds(log[r], moves[r], failures)
      /\ TypeOK' => InBounds(log'[r], moves'[r], failures')
  BY DEF TypeOK, Entries
<1>2. ASSUME NEW l, NEW m, NEW f, InBounds(l, m, f) PROVE Counts(l, m, f)
  BY <1>2 DEF Counts, Entries, SweepAssumption
<1> QED BY <1>1, <1>2

LEMMA Ones ==
  /\ \A c \in BOOLEAN : One(c) \in {0, 1}
  /\ \A a, b : Differs(a, b) \in {0, 1} /\ Rises(a, b) \in {0, 1}
BY DEF One, Differs, Rises

(* A change that is passed over is not owed twice.                         *)
LEMMA Triangle ==
  ASSUME NEW a, NEW b, NEW c
  PROVE  /\ Differs(a, c) <= Differs(a, b) + Differs(b, c)
         /\ Rises(a, c) <= Rises(a, b) + Rises(b, c)
         /\ Differs(a, a) = 0 /\ Rises(a, a) = 0
BY DEF One, Differs, Rises

LEMMA DiffCounts ==
  ASSUME SweepAssumption, NEW l \in Entries, NEW was \in Seen \cup {Absent}, NEW new \in Seen \cup {Absent}
  PROVE  /\ Diff(l, was, new).started <= l.started + One(was = Absent /\ new # Absent)
         /\ Diff(l, was, new).stopped <= l.stopped + One(was # Absent /\ new = Absent)
         /\ Diff(l, was, new).graded
              <= l.graded + One(was # Absent /\ new # Absent /\ was.grade # new.grade)
         /\ Diff(l, was, new).alarms
              <= l.alarms + One(was # Absent /\ new.scanning /\ ~was.scanning)
<1>1. \A n \in 0..MaxCount : \A c \in BOOLEAN : Add(n, c) <= n + One(c)
  BY DEF SweepAssumption, Add, Capped, One
<1>2. l.started \in 0..MaxCount /\ l.stopped \in 0..MaxCount
      /\ l.graded \in 0..MaxCount /\ l.alarms \in 0..MaxCount
  BY DEF Entries
<1> DEFINE ca == was = Absent /\ new # Absent
           cb == was # Absent /\ new = Absent
           cc == was # Absent /\ new # Absent /\ was.grade # new.grade
           cd == was # Absent /\ new.scanning /\ ~was.scanning
<1>3. ca \in BOOLEAN /\ cb \in BOOLEAN /\ cc \in BOOLEAN /\ cd \in BOOLEAN
  OBVIOUS
<1>4. /\ Diff(l, was, new).started = Add(l.started, ca)
      /\ Diff(l, was, new).stopped = Add(l.stopped, cb)
      /\ Diff(l, was, new).graded = Add(l.graded, cc)
      /\ Diff(l, was, new).alarms = Add(l.alarms, cd)
  BY DEF Diff
<1> HIDE DEF ca, cb, cc, cd
<1>5. /\ Add(l.started, ca) <= l.started + One(ca) /\ Add(l.stopped, cb) <= l.stopped + One(cb)
      /\ Add(l.graded, cc) <= l.graded + One(cc) /\ Add(l.alarms, cd) <= l.alarms + One(cd)
  BY <1>1, <1>2, <1>3
<1> QED BY <1>4, <1>5 DEF ca, cb, cc, cd

LEMMA NothingIsAbsent == \A r \in Run : Nothing[r] = Absent /\ Absent.agent = "absent"
BY DEF Nothing, Absent

LEMMA FactsStep ==
  ASSUME SweepAssumption, NEW s, Surface = {s}, TypeOK, Facts(s), [Next]_vars
  PROVE  Facts(s)'
<1>1. s \in Surface /\ pc \in [Surface -> PcSet]
  BY DEF TypeOK
<1>2. \A r \in Run : Known[r] = baseline[r] \/ Known[r] = Absent
  BY NothingIsAbsent DEF Known
<1>3. \A r \in Run : life[r] \in {"unborn", "live", "gone"}
  BY DEF TypeOK
<1>4. ASSUME NEW r \in Run, Start(r) \/ Exit(r) PROVE Facts(s)'
  <2>1. UNCHANGED <<pc, look, before, baseline, torn>>
    BY <1>4 DEF Start, Exit
  <2>2. \A q \in Run : /\ life'[q] = "unborn" => life[q] = "unborn"
                       /\ life[q] = "gone" => life'[q] = "gone"
    BY <1>3, <1>4 DEF Start, Exit, TypeOK
  <2> QED BY <2>1, <2>2 DEF Facts, Known
<1>5. ASSUME NEW r \in Run, Regrade(r) \/ Scan(r) PROVE Facts(s)'
  BY <1>5 DEF Regrade, Scan, Facts, Known
<1>6. CASE Look(s)
  <2>1. UNCHANGED <<life, before, baseline, torn>> /\ pc'[s] = "claim"
    BY <1>1, <1>6 DEF Look
  <2>2. PICK known \in SUBSET Live :
          look' = [look EXCEPT ![s] = [r \in Run |->
            CASE r \in known -> [agent |-> "known", grade |-> truth[r].grade,
                                 scanning |-> truth[r].scanning]
              [] r \in Live \ known -> [agent |-> "unclassified", grade |-> "high",
                                        scanning |-> truth[r].scanning]
              [] OTHER -> Absent]]
    BY <1>6 DEF Look
  <2>3. \A r \in Run : /\ r \notin Live => look'[s][r] = Absent
                       /\ r \in Live => look'[s][r] # Absent
                       /\ look'[s][r].agent = "unclassified" => look'[s][r].grade = "high"
    <3>1. look'[s] = [r \in Run |->
            CASE r \in known -> [agent |-> "known", grade |-> truth[r].grade,
                                 scanning |-> truth[r].scanning]
              [] r \in Live \ known -> [agent |-> "unclassified", grade |-> "high",
                                        scanning |-> truth[r].scanning]
              [] OTHER -> Absent]
      BY <1>1, <2>2 DEF TypeOK
    <3> QED BY <3>1 DEF Absent
  <2>4. ASSUME NEW r \in Run, Known'[r] # Absent, look'[s][r] = Absent PROVE life[r] = "gone"
    <3>1. Known'[r] = Known[r] /\ baseline[r] # Absent
      BY <1>2, <2>1, <2>4 DEF Known
    <3>2. life[r] # "unborn" /\ r \notin Live
      BY <2>3, <2>4, <3>1 DEF Facts
    <3> QED BY <1>3, <3>2 DEF Live
  <2>5. \A r \in Run : life[r] = "unborn" => look'[s][r] = Absent
    BY <2>3 DEF Live
  <2> QED BY <2>1, <2>3, <2>4, <2>5 DEF Facts
<1>7. ASSUME Return(s), UNCHANGED <<life, baseline, torn>> PROVE Facts(s)'
  <2>1. pc'[s] = "idle" /\ look'[s] = Nothing /\ before'[s] = Nothing
    BY <1>1, <1>7 DEF Return, TypeOK
  <2> QED BY <1>7, <2>1, NothingIsAbsent DEF Facts, Looking
<1>8. ASSUME NEW to \in PcSet, Goto(s, to), UNCHANGED <<life, baseline, torn>>,
             to \in Looking => pc[s] \in Looking, to = "append" => pc[s] = "append"
      PROVE  Facts(s)'
  <2>1. pc'[s] = to /\ UNCHANGED <<look, before>>
    BY <1>1, <1>8 DEF Goto
  <2> QED BY <1>8, <2>1 DEF Facts, Known
<1>9. CASE Claim(s)
  <2>1. CASE lock # "none" /\ pc[s] # "claim"
    BY <1>7, <1>9, <2>1 DEF Claim
  <2>2. CASE lock = "none"
    BY <1>8, <1>9, <2>2 DEF Claim, PcSet, Looking
  <2>3. CASE lock # "none" /\ pc[s] = "claim"
    BY <1>8, <1>9, <2>3 DEF Claim, PcSet, Looking
  <2> QED BY <2>1, <2>2, <2>3
<1>10. CASE Stamp(s)
  BY <1>8, <1>10 DEF Stamp, PcSet, Looking
<1>11. CASE ReadHolder(s)
  <2>1. CASE lock = "fresh"
    BY <1>7, <1>11, <2>1 DEF ReadHolder
  <2>2. CASE lock # "fresh"
    BY <1>8, <1>11, <2>2 DEF ReadHolder, PcSet, Looking
  <2> QED BY <2>1, <2>2
<1>12. CASE RemoveStale(s)
  <2>1. CASE lock = "none"
    BY <1>7, <1>12, <2>1 DEF RemoveStale
  <2>2. CASE lock # "none"
    BY <1>8, <1>12, <2>2 DEF RemoveStale, PcSet, Looking
  <2> QED BY <2>1, <2>2
<1>13. CASE Read(s)
  <2>1. /\ pc'[s] = "append" /\ pc[s] \in Looking
        /\ before'[s] = Known /\ Known' = Known /\ UNCHANGED <<life, look, baseline>>
    BY <1>1, <1>13 DEF Read, TypeOK, Known, Looking
  <2> QED BY <1>2, <2>1, NothingIsAbsent DEF Facts
<1>14. CASE AppendMoved(s)
  BY <1>8, <1>14 DEF AppendMoved, PcSet, Looking
<1>15. CASE Truncate(s)
  <2>1. pc'[s] = "saving" /\ UNCHANGED <<life, look, before, baseline>>
    BY <1>1, <1>15 DEF Truncate, Goto
  <2> QED BY <2>1 DEF Facts, Looking
<1>16. CASE Fill(s)
  <2>1. /\ pc'[s] = "release" /\ UNCHANGED <<life, look, before>>
        /\ baseline' = Reconcile(before[s], look[s])
    BY <1>1, <1>16 DEF Fill, Goto
  <2>2. \A r \in Run : baseline'[r] = before[s][r] \/ baseline'[r] = look[s][r]
    BY <2>1 DEF Reconcile
  <2>3. ASSUME NEW r \in Run
        PROVE  /\ life'[r] = "unborn" => baseline'[r] = Absent
               /\ baseline'[r].agent = "unclassified" => baseline'[r].grade = "high"
    <3>1. CASE baseline'[r] = before[s][r]
      BY <2>1, <3>1 DEF Facts
    <3>2. CASE baseline'[r] = look[s][r]
      BY <2>1, <3>2 DEF Facts
    <3> QED BY <2>2, <3>1, <3>2
  <2> QED BY <2>1, <2>3 DEF Facts, Looking
<1>17. CASE Release(s) \/ AppendFails(s) \/ Kill(s)
  BY <1>7, <1>17 DEF Release, AppendFails, Kill
<1>18. CASE GrowOld \/ UNCHANGED vars
  BY <1>18 DEF GrowOld, vars, Facts, Known
<1> QED
  BY <1>4, <1>5, <1>6, <1>9, <1>10, <1>11, <1>12, <1>13, <1>14, <1>15, <1>16, <1>17, <1>18
     DEF Next, Step

OwesLittle(s, r) ==
  /\ GradesOwed(s, r) \in 0..2 /\ AlarmsOwed(s, r) \in 0..2
  /\ ~Due(s, r) => GradesOwed(s, r) <= 1 /\ AlarmsOwed(s, r) <= 1

LEMMA Owing == \A s : \A r \in Run : OwesLittle(s, r)
<1> SUFFICES ASSUME NEW s, NEW r \in Run PROVE OwesLittle(s, r)
  OBVIOUS
<1>1. One(~Over(s, r)) \in {0, 1}
  BY DEF One
<1>2. \A a, b, c : Differs(a, b) + Differs(b, c) \in 0..2 /\ Rises(a, b) + Rises(b, c) \in 0..2
  BY Ones
<1>3. \A a, b : /\ Differs(a, b) \in 0..2 /\ Differs(a, b) <= 1
                /\ Rises(a, b) \in 0..2 /\ Rises(a, b) <= 1
  BY Ones
<1> QED BY <1>1, <1>2, <1>3 DEF OwesLittle, GradesOwed, AlarmsOwed

LEMMA OwingNext == \A s : \A r \in Run : OwesLittle(s, r)'
<1>1. (\A s : \A r \in Run : OwesLittle(s, r))'
  BY Owing, PTL
<1> QED BY <1>1

(* A step that leaves the host, the log and what is remembered alone.  It  *)
(* may drop the look in hand.                                              *)
LEMMA KeptTold ==
  ASSUME SweepAssumption, TypeOK, NEW s, NEW r \in Run, Told(s, r),
         UNCHANGED <<life, truth, moves, log, failures>>,
         Base(s, r)' = Base(s, r),
         Due(s, r)' => Due(s, r) /\ To(s, r)' = To(s, r)
  PROVE  Told(s, r)'
<1>1. Over(s, r) => Over(s, r)'
  BY DEF Over
<1>2. GradesOwed(s, r)' <= GradesOwed(s, r)
  <2>1. CASE Base(s, r) = Absent
    BY <1>1, <2>1 DEF GradesOwed, One
  <2>2. CASE Base(s, r) # Absent /\ Due(s, r)'
    BY <2>2, Owing DEF GradesOwed, OwesLittle
  <2>3. CASE Base(s, r) # Absent /\ ~Due(s, r)'
    <3>1. GradesOwed(s, r)' = Differs(Base(s, r), truth[r])
      BY <2>3 DEF GradesOwed
    <3>2. \/ GradesOwed(s, r) = Differs(Base(s, r), truth[r])
          \/ GradesOwed(s, r) = Differs(Base(s, r), To(s, r)) + Differs(To(s, r), truth[r])
      BY <2>3 DEF GradesOwed
    <3> QED BY <3>1, <3>2, Triangle, Ones
  <2> QED BY <2>1, <2>2, <2>3
<1>3. AlarmsOwed(s, r)' <= AlarmsOwed(s, r)
  <2>1. CASE Due(s, r)'
    BY <2>1, Owing DEF AlarmsOwed, OwesLittle
  <2>2. CASE ~Due(s, r)' /\ Base(s, r) = Absent
    BY <2>2, Owing DEF AlarmsOwed, OwesLittle
  <2>3. CASE ~Due(s, r)' /\ Base(s, r) # Absent
    <3>1. AlarmsOwed(s, r)' = Rises(Base(s, r), truth[r])
      BY <2>3 DEF AlarmsOwed
    <3>2. \/ AlarmsOwed(s, r) = Rises(Base(s, r), truth[r])
          \/ AlarmsOwed(s, r) = Rises(Base(s, r), To(s, r)) + Rises(To(s, r), truth[r])
      BY <2>3 DEF AlarmsOwed
    <3> QED BY <3>1, <3>2, Triangle, Ones
  <2> QED BY <2>1, <2>2, <2>3
<1>4. /\ GradesOwed(s, r) \in Nat /\ GradesOwed(s, r)' \in Nat
      /\ AlarmsOwed(s, r) \in Nat /\ AlarmsOwed(s, r)' \in Nat
  <2>1. GradesOwed(s, r) \in 0..2 /\ AlarmsOwed(s, r) \in 0..2
    BY Owing DEF OwesLittle
  <2>2. GradesOwed(s, r)' \in 0..2 /\ AlarmsOwed(s, r)' \in 0..2
    BY OwingNext DEF OwesLittle
  <2> QED BY <2>1, <2>2
<1>5. /\ One(Base(s, r) # Absent \/ Over(s, r)) <= One(Base(s, r) # Absent \/ Over(s, r))'
      /\ One(Over(s, r)) <= One(Over(s, r))'
  BY <1>1 DEF One
<1>6. /\ One(Base(s, r) # Absent \/ Over(s, r)) \in Nat /\ One(Base(s, r) # Absent \/ Over(s, r))' \in Nat
      /\ One(Over(s, r)) \in Nat /\ One(Over(s, r))' \in Nat
  BY DEF One
<1> HIDE DEF Told
<1>7. /\ log[r].started <= failures + One(Base(s, r) # Absent \/ Over(s, r))'
      /\ log[r].stopped <= failures + One(Over(s, r))'
  BY <1>5, <1>6, Counted DEF Told, Counts
<1>8. /\ log[r].graded + GradesOwed(s, r)' <= moves[r].grade + 1 + failures
      /\ log[r].alarms + AlarmsOwed(s, r)' <= moves[r].scanning + failures
  BY <1>2, <1>3, <1>4, Counted DEF Told, Counts
<1> QED BY <1>7, <1>8 DEF Told

(* A sweep that is cut short may repeat what it had told.                  *)
LEMMA FailedTold ==
  ASSUME SweepAssumption, TypeOK, TypeOK', NEW s, NEW r \in Run, Told(s, r),
         UNCHANGED <<life, truth, moves>>, failures' = failures + 1, ~Due(s, r)',
         log'[r].started <= log[r].started + One(Base(s, r) = Absent /\ Due(s, r)),
         log'[r].stopped <= log[r].stopped + One(Base(s, r) # Absent),
         log'[r].graded <= log[r].graded + GradesOwed(s, r),
         log'[r].alarms <= log[r].alarms + AlarmsOwed(s, r)
  PROVE  Told(s, r)'
<1> DEFINE remembered == Base(s, r) # Absent \/ Over(s, r)
<1>1. /\ log[r].started \in Nat /\ log[r].stopped \in Nat /\ log[r].graded \in Nat
      /\ log[r].alarms \in Nat /\ moves[r].grade \in Nat /\ moves[r].scanning \in Nat
      /\ failures \in Nat
  BY Counted DEF Counts
<1>2. /\ log'[r].started \in Nat /\ log'[r].stopped \in Nat /\ log'[r].graded \in Nat
      /\ log'[r].alarms \in Nat
  BY Counted DEF Counts
<1>3. GradesOwed(s, r) \in 0..2 /\ AlarmsOwed(s, r) \in 0..2
  BY Owing DEF OwesLittle
<1>4. /\ GradesOwed(s, r)' \in 0..2 /\ AlarmsOwed(s, r)' \in 0..2
      /\ GradesOwed(s, r)' <= 1 /\ AlarmsOwed(s, r)' <= 1
  BY OwingNext DEF OwesLittle
<1>5. One(Base(s, r) = Absent /\ Due(s, r)) + One(remembered) <= 1
  BY DEF One, Over
<1>6. One(Base(s, r) # Absent) + One(Over(s, r)) <= 1
  BY DEF One, Over
<1>7. \A c : One(c) \in {0, 1}
  BY DEF One
<1>8. log'[r].started <= failures'
  BY <1>1, <1>2, <1>5, <1>7 DEF Told
<1>9. log'[r].stopped <= failures'
  BY <1>1, <1>2, <1>6, <1>7 DEF Told
<1>10. log'[r].started <= failures' + One(Base(s, r)' # Absent \/ Over(s, r)')
  BY <1>1, <1>2, <1>7, <1>8
<1>11. log'[r].stopped <= failures' + One(Over(s, r)')
  BY <1>1, <1>2, <1>7, <1>9
<1>12. /\ log'[r].graded + GradesOwed(s, r)' <= moves'[r].grade + 1 + failures'
       /\ log'[r].alarms + AlarmsOwed(s, r)' <= moves'[r].scanning + failures'
  BY <1>1, <1>2, <1>3, <1>4 DEF Told
<1> QED BY <1>10, <1>11, <1>12 DEF Told

(* A step of the host: what comes to be owed is what moved.                *)
LEMMA HostTold ==
  ASSUME SweepAssumption, TypeOK, TypeOK', NEW s, NEW r \in Run, Told(s, r),
         UNCHANGED <<pc, look, before, baseline, torn, log, failures>>,
         life[r] = "gone" => life'[r] = "gone",
         \A x : Differs(x, truth'[r]) + moves[r].grade <= Differs(x, truth[r]) + moves'[r].grade,
         \A x : Rises(x, truth'[r]) + moves[r].scanning <= Rises(x, truth[r]) + moves'[r].scanning
  PROVE  Told(s, r)'
<1>1. /\ Base(s, r)' = Base(s, r) /\ Due(s, r)' = Due(s, r) /\ To(s, r)' = To(s, r)
      /\ Over(s, r) => Over(s, r)'
  BY DEF Base, Known, Due, To, Over
<1>2. /\ log[r].started \in Nat /\ log[r].stopped \in Nat /\ log[r].graded \in Nat
      /\ log[r].alarms \in Nat /\ moves[r].grade \in Nat /\ moves[r].scanning \in Nat
      /\ failures \in Nat
  BY Counted DEF Counts
<1>3. moves'[r].grade \in Nat /\ moves'[r].scanning \in Nat
  BY Counted DEF Counts
<1>4. GradesOwed(s, r) \in 0..2 /\ AlarmsOwed(s, r) \in 0..2
  BY Owing DEF OwesLittle
<1>5. GradesOwed(s, r)' \in 0..2 /\ AlarmsOwed(s, r)' \in 0..2
  BY OwingNext DEF OwesLittle
<1>6. \A a, b : Differs(a, b) \in {0, 1} /\ Rises(a, b) \in {0, 1}
  BY Ones
<1>7. One(~Over(s, r)) \in {0, 1} /\ One(~Over(s, r)') \in {0, 1} /\ One(~Over(s, r)') <= One(~Over(s, r))
  BY <1>1 DEF One
<1>8. moves[r].grade <= moves'[r].grade /\ moves[r].scanning <= moves'[r].scanning
  <2>1. Differs(truth[r], truth'[r]) + moves[r].grade <= Differs(truth[r], truth[r]) + moves'[r].grade
    OBVIOUS
  <2>2. Rises(truth'[r], truth'[r]) + moves[r].scanning <= Rises(truth'[r], truth[r]) + moves'[r].scanning
    OBVIOUS
  <2>3. Rises(truth[r], truth'[r]) + moves[r].scanning <= Rises(truth[r], truth[r]) + moves'[r].scanning
    OBVIOUS
  <2>4. Differs(truth[r], truth[r]) = 0 /\ Rises(truth[r], truth[r]) = 0
    BY Triangle
  <2> QED BY <1>2, <1>3, <1>6, <2>1, <2>3, <2>4
<1>9. GradesOwed(s, r)' + moves[r].grade <= GradesOwed(s, r) + moves'[r].grade
  <2>1. CASE Base(s, r) = Absent
    <3>1. GradesOwed(s, r)' = One(~Over(s, r)') /\ GradesOwed(s, r) = One(~Over(s, r))
      BY <1>1, <2>1 DEF GradesOwed
    <3> QED BY <1>2, <1>3, <1>7, <1>8, <3>1
  <2>2. CASE Base(s, r) # Absent /\ Due(s, r)
    <3>1. /\ GradesOwed(s, r)' = Differs(Base(s, r), To(s, r)) + Differs(To(s, r), truth'[r])
          /\ GradesOwed(s, r) = Differs(Base(s, r), To(s, r)) + Differs(To(s, r), truth[r])
      BY <1>1, <2>2 DEF GradesOwed
    <3>2. Differs(To(s, r), truth'[r]) + moves[r].grade <= Differs(To(s, r), truth[r]) + moves'[r].grade
      OBVIOUS
    <3> QED BY <1>2, <1>3, <1>6, <3>1, <3>2
  <2>3. CASE Base(s, r) # Absent /\ ~Due(s, r)
    <3>1. /\ GradesOwed(s, r)' = Differs(Base(s, r), truth'[r])
          /\ GradesOwed(s, r) = Differs(Base(s, r), truth[r])
      BY <1>1, <2>3 DEF GradesOwed
    <3> QED BY <3>1
  <2> QED BY <2>1, <2>2, <2>3
<1>10. AlarmsOwed(s, r)' + moves[r].scanning <= AlarmsOwed(s, r) + moves'[r].scanning
  <2>1. CASE Base(s, r) = Absent /\ Due(s, r)
    <3>1. /\ AlarmsOwed(s, r)' = Rises(To(s, r), truth'[r])
          /\ AlarmsOwed(s, r) = Rises(To(s, r), truth[r])
      BY <1>1, <2>1 DEF AlarmsOwed
    <3> QED BY <3>1
  <2>2. CASE Base(s, r) = Absent /\ ~Due(s, r)
    <3>1. AlarmsOwed(s, r)' = 0 /\ AlarmsOwed(s, r) = 0
      BY <1>1, <2>2 DEF AlarmsOwed
    <3> QED BY <1>2, <1>3, <1>8, <3>1
  <2>3. CASE Base(s, r) # Absent /\ Due(s, r)
    <3>1. /\ AlarmsOwed(s, r)' = Rises(Base(s, r), To(s, r)) + Rises(To(s, r), truth'[r])
          /\ AlarmsOwed(s, r) = Rises(Base(s, r), To(s, r)) + Rises(To(s, r), truth[r])
      BY <1>1, <2>3 DEF AlarmsOwed
    <3>2. Rises(To(s, r), truth'[r]) + moves[r].scanning <= Rises(To(s, r), truth[r]) + moves'[r].scanning
      OBVIOUS
    <3> QED BY <1>2, <1>3, <1>6, <3>1, <3>2
  <2>4. CASE Base(s, r) # Absent /\ ~Due(s, r)
    <3>1. /\ AlarmsOwed(s, r)' = Rises(Base(s, r), truth'[r])
          /\ AlarmsOwed(s, r) = Rises(Base(s, r), truth[r])
      BY <1>1, <2>4 DEF AlarmsOwed
    <3> QED BY <3>1
  <2> QED BY <2>1, <2>2, <2>3, <2>4
<1>11. /\ log[r].started <= failures + One(Base(s, r)' # Absent \/ Over(s, r)')
       /\ log[r].stopped <= failures + One(Over(s, r)')
  BY <1>1, <1>2 DEF Told, One
<1>12. /\ log[r].graded + GradesOwed(s, r)' <= moves'[r].grade + 1 + failures
       /\ log[r].alarms + AlarmsOwed(s, r)' <= moves'[r].scanning + failures
  BY <1>2, <1>3, <1>4, <1>5, <1>9, <1>10 DEF Told
<1> QED BY <1>11, <1>12 DEF Told

LEMMA LookTold ==
  ASSUME SweepAssumption, TypeOK, TypeOK', NEW s \in Surface, Facts(s), Look(s),
         NEW r \in Run, Told(s, r)
  PROVE  Told(s, r)'
<1>1. /\ UNCHANGED <<life, truth, moves, log, failures, before, baseline, torn>>
      /\ pc[s] = "idle" /\ pc'[s] = "claim"
  BY DEF Look, TypeOK
<1>2. Base(s, r) = Known[r] /\ Base(s, r)' = Base(s, r) /\ Known[r]' = Known[r] /\ ~Due(s, r)
  BY <1>1 DEF Base, Known, Due, Looking
<1>3. /\ r \notin Live => look'[s][r] = Absent
      /\ r \in Live => /\ look'[s][r] # Absent
                       /\ look'[s][r].scanning = truth[r].scanning
                       /\ \/ look'[s][r].agent = "known" /\ look'[s][r].grade = truth[r].grade
                          \/ look'[s][r].agent = "unclassified" /\ look'[s][r].grade = "high"
  <2>1. PICK known \in SUBSET Live :
          look' = [look EXCEPT ![s] = [q \in Run |->
            CASE q \in known -> [agent |-> "known", grade |-> truth[q].grade,
                                 scanning |-> truth[q].scanning]
              [] q \in Live \ known -> [agent |-> "unclassified", grade |-> "high",
                                        scanning |-> truth[q].scanning]
              [] OTHER -> Absent]]
    BY DEF Look
  <2>2. look'[s] = [q \in Run |->
            CASE q \in known -> [agent |-> "known", grade |-> truth[q].grade,
                                 scanning |-> truth[q].scanning]
              [] q \in Live \ known -> [agent |-> "unclassified", grade |-> "high",
                                        scanning |-> truth[q].scanning]
              [] OTHER -> Absent]
    BY <2>1 DEF TypeOK
  <2>3. CASE r \in known
    <3>1. look'[s][r] = [agent |-> "known", grade |-> truth[r].grade, scanning |-> truth[r].scanning]
      BY <2>2, <2>3
    <3> QED BY <2>3, <3>1 DEF Absent
  <2>4. CASE r \in Live \ known
    <3>1. look'[s][r] = [agent |-> "unclassified", grade |-> "high", scanning |-> truth[r].scanning]
      BY <2>2, <2>4
    <3> QED BY <2>4, <3>1 DEF Absent
  <2>5. CASE r \notin Live
    BY <2>2, <2>5
  <2> QED BY <2>3, <2>4, <2>5
<1>4. Due(s, r)' <=> r \in Live
  BY <1>1, <1>3 DEF Due, Looking
<1>5. Over(s, r)' <=> Over(s, r)
  <2>1. life[r] = "gone" => r \notin Live
    BY DEF Live
  <2> QED BY <1>1, <1>2, <1>4, <2>1 DEF Over
<1>6. ASSUME r \in Live
      PROVE  /\ Base(s, r) = Absent => Rises(To(s, r)', truth[r]) = 0
             /\ Base(s, r) # Absent =>
                  /\ Differs(Base(s, r), To(s, r)') + Differs(To(s, r)', truth[r])
                       = Differs(Base(s, r), truth[r])
                  /\ Rises(Base(s, r), To(s, r)') + Rises(To(s, r)', truth[r])
                       = Rises(Base(s, r), truth[r])
  <2>1. /\ To(s, r)' = IF Degraded(Known[r], look'[s][r]) THEN Known[r] ELSE look'[s][r]
        /\ Degraded(Known[r], look'[s][r])
             <=> look'[s][r].agent = "unclassified" /\ Known[r].agent = "known"
    BY <1>2 DEF To, Degraded
  <2>2. \/ Known[r] = Absent
        \/ Known[r].agent = "known"
        \/ Known[r].agent = "unclassified" /\ Known[r].grade = "high"
    <3>1. Known[r] = Absent \/ Known[r] = baseline[r]
      BY NothingIsAbsent DEF Known
    <3>2. baseline[r] \in Seen \cup {Absent}
      BY DEF TypeOK, Snapshot
    <3>3. baseline[r].agent = "unclassified" => baseline[r].grade = "high"
      BY DEF Facts
    <3> QED BY <3>1, <3>2, <3>3 DEF Seen
  <2>3. CASE Degraded(Known[r], look'[s][r])
    <3>1. To(s, r)' = Base(s, r) /\ Base(s, r) # Absent
      BY <1>2, <2>1, <2>3, NothingIsAbsent
    <3> QED BY <3>1, Triangle, Ones DEF Rises, Differs, One
  <2>4. CASE ~Degraded(Known[r], look'[s][r]) /\ look'[s][r].agent = "known"
    <3>1. To(s, r)'.grade = truth[r].grade /\ To(s, r)'.scanning = truth[r].scanning
      BY <1>3, <1>6, <2>1, <2>4
    <3> QED BY <3>1 DEF Rises, Differs, One
  <2>5. CASE ~Degraded(Known[r], look'[s][r]) /\ look'[s][r].agent # "known"
    <3>1. /\ To(s, r)'.grade = "high" /\ To(s, r)'.scanning = truth[r].scanning
          /\ Base(s, r) = Absent \/ Base(s, r).grade = "high"
      BY <1>2, <1>3, <1>6, <2>1, <2>2, <2>5
    <3> QED BY <3>1 DEF Rises, Differs, One
  <2> QED BY <2>3, <2>4, <2>5
<1>7. truth' = truth
  BY <1>1
<1>8. GradesOwed(s, r)' = GradesOwed(s, r) /\ AlarmsOwed(s, r)' = AlarmsOwed(s, r)
  <2>1. CASE Base(s, r) = Absent
    <3>1. GradesOwed(s, r)' = GradesOwed(s, r)
      BY <1>2, <1>5, <2>1 DEF GradesOwed, One
    <3>2. AlarmsOwed(s, r) = 0
      BY <1>2, <2>1 DEF AlarmsOwed
    <3>3. AlarmsOwed(s, r)' = 0
      BY <1>2, <1>4, <1>6, <1>7, <2>1 DEF AlarmsOwed
    <3> QED BY <3>1, <3>2, <3>3
  <2>2. CASE Base(s, r) # Absent /\ r \in Live
    <3>1. /\ GradesOwed(s, r) = Differs(Base(s, r), truth[r])
          /\ AlarmsOwed(s, r) = Rises(Base(s, r), truth[r])
      BY <1>2, <2>2 DEF GradesOwed, AlarmsOwed
    <3>2. /\ GradesOwed(s, r)' = Differs(Base(s, r), To(s, r)') + Differs(To(s, r)', truth[r])
          /\ AlarmsOwed(s, r)' = Rises(Base(s, r), To(s, r)') + Rises(To(s, r)', truth[r])
      BY <1>2, <1>4, <1>7, <2>2 DEF GradesOwed, AlarmsOwed
    <3> QED BY <1>6, <2>2, <3>1, <3>2
  <2>3. CASE Base(s, r) # Absent /\ r \notin Live
    <3>1. /\ GradesOwed(s, r) = Differs(Base(s, r), truth[r])
          /\ AlarmsOwed(s, r) = Rises(Base(s, r), truth[r])
      BY <1>2, <2>3 DEF GradesOwed, AlarmsOwed
    <3>2. /\ GradesOwed(s, r)' = Differs(Base(s, r), truth[r])
          /\ AlarmsOwed(s, r)' = Rises(Base(s, r), truth[r])
      BY <1>2, <1>4, <1>7, <2>3 DEF GradesOwed, AlarmsOwed
    <3> QED BY <3>1, <3>2
  <2> QED BY <2>1, <2>2, <2>3
<1> QED BY <1>1, <1>2, <1>5, <1>8 DEF Told, One

(* What a comparison adds to the log, and that what it adds was owed.      *)
Adds(s, r) ==
  /\ log'[r].started <= log[r].started + One(Base(s, r) = Absent /\ Due(s, r))
  /\ log'[r].stopped <= log[r].stopped + One(Base(s, r) # Absent /\ ~Due(s, r))
  /\ log'[r].graded <= log[r].graded
       + (IF Base(s, r) # Absent /\ Due(s, r) THEN Differs(Base(s, r), To(s, r)) ELSE 0)
  /\ log'[r].alarms <= log[r].alarms
       + (IF Base(s, r) # Absent /\ Due(s, r) THEN Rises(Base(s, r), To(s, r)) ELSE 0)

LEMMA AtAppend ==
  ASSUME SweepAssumption, TypeOK, NEW s \in Surface, Facts(s), pc[s] = "append", NEW r \in Run
  PROVE  /\ Base(s, r) = Known[r] /\ before[s][r] = Known[r]
         /\ Reconcile(before[s], look[s])[r] = To(s, r)
         /\ Due(s, r) <=> To(s, r) # Absent
         /\ Base(s, r) # Absent /\ ~Due(s, r) => life[r] = "gone"
<1>1. before[s] = Known /\ pc[s] \in Looking
  BY DEF Facts, Looking
<1>2. Reconcile(before[s], look[s])[r] = To(s, r)
  BY <1>1 DEF Reconcile, To
<1>3. Due(s, r) <=> look[s][r] # Absent
  BY <1>1 DEF Due
<1>4. look[s][r] # Absent <=> To(s, r) # Absent
  <2>1. CASE Degraded(Known[r], look[s][r])
    BY <2>1, NothingIsAbsent DEF To, Degraded
  <2>2. CASE ~Degraded(Known[r], look[s][r])
    BY <2>2 DEF To
  <2> QED BY <2>1, <2>2
<1> QED BY <1>1, <1>2, <1>3, <1>4 DEF Base, Facts

LEMMA AppendAdds ==
  ASSUME SweepAssumption, TypeOK, NEW s \in Surface, Facts(s), pc[s] = "append",
         NEW written \in SUBSET Run, log' = Appended(s, written), NEW r \in Run
  PROVE  Adds(s, r)
<1> DEFINE was == before[s][r]
           new == Reconcile(before[s], look[s])[r]
           l == log[r]
<1>1. l \in Entries /\ was \in Seen \cup {Absent} /\ new \in Seen \cup {Absent}
  <2>1. before[s] \in Snapshot /\ Reconcile(before[s], look[s]) \in Snapshot
    BY ReconcileIsSnapshot DEF TypeOK
  <2> QED BY <2>1 DEF TypeOK, Snapshot, Entries
<1>2. /\ Base(s, r) = was /\ new = To(s, r)
      /\ Due(s, r) <=> new # Absent
  BY AtAppend
<1>3. log'[r] = Diff(l, was, new) \/ log'[r] = l
  BY DEF Appended
<1>4. new = Absent => new.scanning = FALSE
  BY DEF Absent
<1> HIDE DEF was, new, l
<1>5. /\ Diff(l, was, new).started <= l.started + One(was = Absent /\ new # Absent)
      /\ Diff(l, was, new).stopped <= l.stopped + One(was # Absent /\ new = Absent)
      /\ Diff(l, was, new).graded
           <= l.graded + One(was # Absent /\ new # Absent /\ was.grade # new.grade)
      /\ Diff(l, was, new).alarms
           <= l.alarms + One(was # Absent /\ new.scanning /\ ~was.scanning)
  BY <1>1, DiffCounts
<1>6. /\ One(was # Absent /\ new # Absent /\ was.grade # new.grade)
           = IF was # Absent /\ new # Absent THEN Differs(was, new) ELSE 0
      /\ One(was # Absent /\ new.scanning /\ ~was.scanning)
           = IF was # Absent /\ new # Absent THEN Rises(was, new) ELSE 0
  BY <1>4 DEF One, Differs, Rises
<1>7. l.started \in Nat /\ l.stopped \in Nat /\ l.graded \in Nat /\ l.alarms \in Nat
  BY <1>1 DEF Entries, SweepAssumption
<1>8. \A c : One(c) \in {0, 1}
  BY DEF One
<1>9. Differs(was, new) \in {0, 1} /\ Rises(was, new) \in {0, 1}
  BY Ones
<1>10. l = log[r]
  BY DEF l
<1>11. CASE log'[r] = Diff(l, was, new)
  BY <1>2, <1>5, <1>6, <1>10, <1>11 DEF Adds
<1>12. CASE log'[r] = l
  BY <1>2, <1>7, <1>8, <1>9, <1>10, <1>12 DEF Adds
<1> QED BY <1>3, <1>11, <1>12

LEMMA AppendTold ==
  ASSUME SweepAssumption, TypeOK, TypeOK', NEW s \in Surface, Facts(s), AppendMoved(s),
         NEW r \in Run, Told(s, r)
  PROVE  Told(s, r)'
<1>1. /\ UNCHANGED <<life, truth, moves, failures, look, before, baseline, torn>>
      /\ pc[s] = "append" /\ pc'[s] = "save" /\ log' = Appended(s, Run)
  BY DEF AppendMoved, Goto, TypeOK
<1>2. Adds(s, r)
  BY <1>1, AppendAdds
<1>3. /\ Base(s, r)' = To(s, r) /\ ~Due(s, r)'
      /\ Due(s, r) <=> To(s, r) # Absent
      /\ Base(s, r) # Absent /\ ~Due(s, r) => life[r] = "gone"
  BY <1>1, AtAppend DEF Base, Due, Looking
<1>4. Over(s, r)' <=> life[r] = "gone" /\ ~Due(s, r)
  BY <1>1, <1>3 DEF Over
<1>5. /\ log[r].started \in Nat /\ log[r].stopped \in Nat /\ log[r].graded \in Nat
      /\ log[r].alarms \in Nat /\ moves[r].grade \in Nat /\ moves[r].scanning \in Nat
      /\ failures \in Nat
  BY Counted DEF Counts
<1>6. /\ log'[r].started \in Nat /\ log'[r].stopped \in Nat /\ log'[r].graded \in Nat
      /\ log'[r].alarms \in Nat
  BY Counted DEF Counts
<1>7. truth' = truth
  BY <1>1
<1>8. \A a, b : Differs(a, b) \in {0, 1} /\ Rises(a, b) \in {0, 1}
  BY Ones
<1>9. CASE Base(s, r) = Absent /\ ~Due(s, r)
  <2>1. Base(s, r)' = Absent /\ (Over(s, r)' <=> Over(s, r))
    BY <1>3, <1>4, <1>9 DEF Over
  <2>2. /\ GradesOwed(s, r)' = One(~Over(s, r)) /\ GradesOwed(s, r) = One(~Over(s, r))
        /\ AlarmsOwed(s, r)' = 0 /\ AlarmsOwed(s, r) = 0
    BY <1>3, <1>9, <2>1 DEF GradesOwed, AlarmsOwed, One
  <2>3. /\ log'[r].started <= log[r].started /\ log'[r].stopped <= log[r].stopped
        /\ log'[r].graded <= log[r].graded /\ log'[r].alarms <= log[r].alarms
    BY <1>2, <1>5, <1>9 DEF Adds, One
  <2>4. One(~Over(s, r)) \in {0, 1}
    BY DEF One
  <2>5. /\ log[r].started <= failures + One(Over(s, r))
        /\ log[r].stopped <= failures + One(Over(s, r))
        /\ log[r].graded + One(~Over(s, r)) <= moves[r].grade + 1 + failures
        /\ log[r].alarms <= moves[r].scanning + failures
    BY <1>5, <1>9, <2>2 DEF Told, One
  <2>6. One(Over(s, r)) \in {0, 1}
    BY DEF One
  <2>7. /\ log'[r].started <= failures + One(Over(s, r))
        /\ log'[r].stopped <= failures + One(Over(s, r))
        /\ log'[r].graded + One(~Over(s, r)) <= moves[r].grade + 1 + failures
        /\ log'[r].alarms <= moves[r].scanning + failures
    BY <1>5, <1>6, <2>3, <2>4, <2>5, <2>6
  <2> QED BY <1>1, <1>6, <2>1, <2>2, <2>7 DEF Told, One
<1>10. CASE Base(s, r) = Absent /\ Due(s, r)
  <2>1. Base(s, r)' # Absent /\ ~Over(s, r) /\ ~Over(s, r)'
    BY <1>3, <1>4, <1>10 DEF Over
  <2>2. /\ GradesOwed(s, r)' = Differs(To(s, r), truth[r]) /\ GradesOwed(s, r) = 1
        /\ AlarmsOwed(s, r)' = Rises(To(s, r), truth[r])
        /\ AlarmsOwed(s, r) = Rises(To(s, r), truth[r])
    BY <1>3, <1>7, <1>10, <2>1 DEF GradesOwed, AlarmsOwed, One
  <2>3. /\ log'[r].started <= log[r].started + 1 /\ log'[r].stopped <= log[r].stopped
        /\ log'[r].graded <= log[r].graded /\ log'[r].alarms <= log[r].alarms
    BY <1>2, <1>5, <1>10 DEF Adds, One
  <2>4. /\ log[r].started <= failures /\ log[r].stopped <= failures
        /\ log[r].graded + 1 <= moves[r].grade + 1 + failures
        /\ log[r].alarms + Rises(To(s, r), truth[r]) <= moves[r].scanning + failures
    BY <1>5, <1>10, <2>1, <2>2 DEF Told, One
  <2>5. /\ log'[r].started <= failures + 1 /\ log'[r].stopped <= failures
        /\ log'[r].graded + Differs(To(s, r), truth[r]) <= moves[r].grade + 1 + failures
        /\ log'[r].alarms + Rises(To(s, r), truth[r]) <= moves[r].scanning + failures
    BY <1>5, <1>6, <1>8, <2>3, <2>4
  <2> QED BY <1>1, <1>5, <1>6, <2>1, <2>2, <2>5 DEF Told, One
<1>11. CASE Base(s, r) # Absent /\ ~Due(s, r)
  <2>1. Base(s, r)' = Absent /\ ~Over(s, r) /\ Over(s, r)'
    BY <1>3, <1>4, <1>11 DEF Over
  <2>2. GradesOwed(s, r)' = 0 /\ AlarmsOwed(s, r)' = 0
    BY <1>3, <2>1 DEF GradesOwed, AlarmsOwed, One
  <2>3. /\ log'[r].started <= log[r].started /\ log'[r].stopped <= log[r].stopped + 1
        /\ log'[r].graded <= log[r].graded /\ log'[r].alarms <= log[r].alarms
    BY <1>2, <1>5, <1>11 DEF Adds, One
  <2>4. GradesOwed(s, r) \in 0..2 /\ AlarmsOwed(s, r) \in 0..2
    BY Owing DEF OwesLittle
  <2>5. /\ log[r].started <= failures + 1 /\ log[r].stopped <= failures
        /\ log[r].graded <= moves[r].grade + 1 + failures
        /\ log[r].alarms <= moves[r].scanning + failures
    BY <1>5, <1>11, <2>1, <2>4 DEF Told, One
  <2>6. /\ log'[r].started <= failures + 1 /\ log'[r].stopped <= failures + 1
        /\ log'[r].graded <= moves[r].grade + 1 + failures
        /\ log'[r].alarms <= moves[r].scanning + failures
    BY <1>5, <1>6, <2>3, <2>5
  <2> QED BY <1>1, <1>5, <1>6, <2>1, <2>2, <2>6 DEF Told, One
<1>12. CASE Base(s, r) # Absent /\ Due(s, r)
  <2>1. Base(s, r)' # Absent /\ ~Over(s, r) /\ ~Over(s, r)'
    BY <1>3, <1>4, <1>12 DEF Over
  <2>2. /\ GradesOwed(s, r)' = Differs(To(s, r), truth[r])
        /\ GradesOwed(s, r) = Differs(Base(s, r), To(s, r)) + Differs(To(s, r), truth[r])
        /\ AlarmsOwed(s, r)' = Rises(To(s, r), truth[r])
        /\ AlarmsOwed(s, r) = Rises(Base(s, r), To(s, r)) + Rises(To(s, r), truth[r])
    BY <1>3, <1>7, <1>12, <2>1 DEF GradesOwed, AlarmsOwed
  <2>3. /\ log'[r].started <= log[r].started /\ log'[r].stopped <= log[r].stopped
        /\ log'[r].graded <= log[r].graded + Differs(Base(s, r), To(s, r))
        /\ log'[r].alarms <= log[r].alarms + Rises(Base(s, r), To(s, r))
    BY <1>2, <1>5, <1>12 DEF Adds, One
  <2>4. /\ log[r].started <= failures + 1 /\ log[r].stopped <= failures
        /\ log[r].graded + (Differs(Base(s, r), To(s, r)) + Differs(To(s, r), truth[r]))
             <= moves[r].grade + 1 + failures
        /\ log[r].alarms + (Rises(Base(s, r), To(s, r)) + Rises(To(s, r), truth[r]))
             <= moves[r].scanning + failures
    BY <1>5, <1>12, <2>1, <2>2 DEF Told, One
  <2>5. /\ log'[r].started <= failures + 1 /\ log'[r].stopped <= failures
        /\ log'[r].graded + Differs(To(s, r), truth[r]) <= moves[r].grade + 1 + failures
        /\ log'[r].alarms + Rises(To(s, r), truth[r]) <= moves[r].scanning + failures
    BY <1>5, <1>6, <1>8, <2>3, <2>4
  <2> QED BY <1>1, <1>5, <1>6, <2>1, <2>2, <2>5 DEF Told, One
<1> QED BY <1>9, <1>10, <1>11, <1>12

(* A sweep that is cut short, with the entries it had written.             *)
LEMMA CutTold ==
  ASSUME SweepAssumption, TypeOK, TypeOK', NEW s \in Surface, Facts(s), Return(s),
         UNCHANGED <<life, truth, moves>>, failures' = failures + 1,
         \/ log' = log
         \/ pc[s] = "append" /\ \E written \in SUBSET Run : log' = Appended(s, written),
         NEW r \in Run, Told(s, r)
  PROVE  Told(s, r)'
<1>1. ~Due(s, r)'
  BY DEF Return, TypeOK, Due, Looking
<1>2. /\ log[r].started \in Nat /\ log[r].stopped \in Nat /\ log[r].graded \in Nat
      /\ log[r].alarms \in Nat
  BY Counted DEF Counts
<1>3. GradesOwed(s, r) \in 0..2 /\ AlarmsOwed(s, r) \in 0..2
  BY Owing DEF OwesLittle
<1>4. Adds(s, r)
  <2>1. CASE log' = log
    <3>1. \A c : One(c) \in {0, 1}
      BY DEF One
    <3>2. Differs(Base(s, r), To(s, r)) \in {0, 1} /\ Rises(Base(s, r), To(s, r)) \in {0, 1}
      BY Ones
    <3> QED BY <1>2, <2>1, <3>1, <3>2 DEF Adds
  <2>2. CASE pc[s] = "append" /\ \E written \in SUBSET Run : log' = Appended(s, written)
    BY <2>2, AppendAdds
  <2> QED BY <2>1, <2>2
<1>5. One(Base(s, r) # Absent /\ ~Due(s, r)) <= One(Base(s, r) # Absent)
  BY DEF One
<1>6. /\ (IF Base(s, r) # Absent /\ Due(s, r) THEN Differs(Base(s, r), To(s, r)) ELSE 0)
           <= GradesOwed(s, r)
      /\ (IF Base(s, r) # Absent /\ Due(s, r) THEN Rises(Base(s, r), To(s, r)) ELSE 0)
           <= AlarmsOwed(s, r)
  <2>1. \A a, b : Differs(a, b) \in {0, 1} /\ Rises(a, b) \in {0, 1}
    BY Ones
  <2>2. CASE Base(s, r) # Absent /\ Due(s, r)
    BY <2>1, <2>2 DEF GradesOwed, AlarmsOwed
  <2>3. CASE ~(Base(s, r) # Absent /\ Due(s, r))
    BY <1>3, <2>3
  <2> QED BY <2>2, <2>3
<1>7. /\ log'[r].started \in Nat /\ log'[r].stopped \in Nat /\ log'[r].graded \in Nat
      /\ log'[r].alarms \in Nat
  BY Counted DEF Counts
<1>8. \A c : One(c) \in {0, 1}
  BY DEF One
<1>9. /\ log'[r].started <= log[r].started + One(Base(s, r) = Absent /\ Due(s, r))
      /\ log'[r].stopped <= log[r].stopped + One(Base(s, r) # Absent)
  BY <1>2, <1>4, <1>5, <1>7, <1>8 DEF Adds
<1>10. /\ (IF Base(s, r) # Absent /\ Due(s, r) THEN Differs(Base(s, r), To(s, r)) ELSE 0) \in Nat
       /\ (IF Base(s, r) # Absent /\ Due(s, r) THEN Rises(Base(s, r), To(s, r)) ELSE 0) \in Nat
  BY Ones
<1>11. /\ log'[r].graded <= log[r].graded + GradesOwed(s, r)
       /\ log'[r].alarms <= log[r].alarms + AlarmsOwed(s, r)
  BY <1>2, <1>3, <1>4, <1>6, <1>7, <1>10 DEF Adds
<1> QED BY <1>1, <1>9, <1>11, FailedTold

LEMMA ToldStep ==
  ASSUME SweepAssumption, NEW s, Surface = {s}, TypeOK, TypeOK', Facts(s), [Next]_vars,
         NEW r \in Run, Told(s, r)
  PROVE  Told(s, r)'
<1>1. s \in Surface
  OBVIOUS
<1>2. ASSUME NEW q \in Run, Start(q) \/ Exit(q) \/ Regrade(q) \/ Scan(q) PROVE Told(s, r)'
  <2>1. /\ UNCHANGED <<pc, look, before, baseline, torn, log, failures>>
        /\ life[r] = "gone" => life'[r] = "gone"
    BY <1>2 DEF Start, Exit, Regrade, Scan, TypeOK
  <2>2. /\ moves[r].grade \in Nat /\ moves[r].scanning \in Nat
        /\ moves'[r].grade \in Nat /\ moves'[r].scanning \in Nat
    BY Counted DEF Counts
  <2>3. \A a, b : Differs(a, b) \in {0, 1} /\ Rises(a, b) \in {0, 1}
    BY Ones
  <2>4. CASE truth'[r] = truth[r] /\ moves'[r] = moves[r]
    <3>1. /\ \A x : Differs(x, truth'[r]) + moves[r].grade <= Differs(x, truth[r]) + moves'[r].grade
          /\ \A x : Rises(x, truth'[r]) + moves[r].scanning <= Rises(x, truth[r]) + moves'[r].scanning
      BY <2>2, <2>3, <2>4
    <3> QED BY <2>1, <3>1, HostTold
  <2>5. CASE Regrade(r)
    <3>1. /\ truth'[r].scanning = truth[r].scanning
          /\ moves'[r].grade = moves[r].grade + 1 /\ moves'[r].scanning = moves[r].scanning
      BY <2>5 DEF Regrade, TypeOK
    <3>2. \A x : Rises(x, truth'[r]) = Rises(x, truth[r])
      BY <3>1 DEF Rises, One
    <3>3. /\ \A x : Differs(x, truth'[r]) + moves[r].grade <= Differs(x, truth[r]) + moves'[r].grade
          /\ \A x : Rises(x, truth'[r]) + moves[r].scanning <= Rises(x, truth[r]) + moves'[r].scanning
      BY <2>2, <2>3, <3>1, <3>2
    <3> QED BY <2>1, <3>3, HostTold
  <2>6. CASE Scan(r)
    <3>1. truth'[r].grade = truth[r].grade /\ moves'[r].grade = moves[r].grade
      BY <2>6 DEF Scan, TypeOK
    <3>2. \/ truth[r].scanning /\ ~truth'[r].scanning /\ moves'[r].scanning = moves[r].scanning
          \/ moves'[r].scanning = moves[r].scanning + 1
      <4>1. truth'[r].scanning = ~truth[r].scanning
        BY <2>6 DEF Scan, TypeOK
      <4>2. CASE truth[r].scanning
        BY <2>6, <4>1, <4>2 DEF Scan
      <4>3. CASE ~truth[r].scanning
        BY <2>6, <4>3 DEF Scan, TypeOK
      <4> QED BY <4>2, <4>3
    <3>3. \A x : Differs(x, truth'[r]) = Differs(x, truth[r])
      BY <3>1 DEF Differs
    <3>4. ~truth'[r].scanning => \A x : Rises(x, truth'[r]) = 0
      BY DEF Rises, One
    <3>5. /\ \A x : Differs(x, truth'[r]) + moves[r].grade <= Differs(x, truth[r]) + moves'[r].grade
          /\ \A x : Rises(x, truth'[r]) + moves[r].scanning <= Rises(x, truth[r]) + moves'[r].scanning
      BY <2>2, <2>3, <3>1, <3>2, <3>3, <3>4
    <3> QED BY <2>1, <3>5, HostTold
  <2>7. \/ truth'[r] = truth[r] /\ moves'[r] = moves[r]
        \/ Regrade(r) \/ Scan(r)
    <3>1. CASE q = r
      BY <1>2, <3>1 DEF Start, Exit
    <3>2. CASE q # r
      BY <1>2, <3>2 DEF Start, Exit, Regrade, Scan, TypeOK
    <3> QED BY <3>1, <3>2
  <2> QED BY <2>4, <2>5, <2>6, <2>7
<1>3. CASE Look(s)
  BY <1>1, <1>3, LookTold
(* The look is dropped, or the surface goes on with it.                    *)
<1>4. ASSUME Return(s), UNCHANGED <<life, truth, moves, baseline, torn, log, failures>>,
             pc[s] \notin {"save", "saving"}
      PROVE  Told(s, r)'
  <2>1. pc'[s] = "idle"
    BY <1>1, <1>4 DEF Return, TypeOK
  <2>2. Base(s, r)' = Base(s, r) /\ ~Due(s, r)'
    BY <1>4, <2>1 DEF Base, Known, Due, Looking
  <2> QED BY <1>4, <2>2, KeptTold
<1>5. ASSUME NEW to, pc' = [pc EXCEPT ![s] = to], pc[s] \in Looking, to \in Looking,
             UNCHANGED <<life, truth, moves, look, baseline, torn, log, failures>>
      PROVE  Told(s, r)'
  <2>1. pc'[s] = to
    BY <1>1, <1>5 DEF TypeOK
  <2>2. Base(s, r)' = Base(s, r) /\ Due(s, r)' = Due(s, r) /\ To(s, r)' = To(s, r)
    BY <1>5, <2>1 DEF Base, Known, Due, To, Looking
  <2> QED BY <1>5, <2>2, KeptTold
<1>6. CASE Claim(s)
  <2>1. CASE lock # "none" /\ pc[s] # "claim"
    BY <1>4, <1>6, <2>1 DEF Claim
  <2>2. CASE lock = "none"
    BY <1>5, <1>6, <2>2 DEF Claim, Goto, Looking
  <2>3. CASE lock # "none" /\ pc[s] = "claim"
    BY <1>5, <1>6, <2>3 DEF Claim, Goto, Looking
  <2> QED BY <2>1, <2>2, <2>3
<1>7. CASE Stamp(s)
  BY <1>5, <1>7 DEF Stamp, Goto, Looking
<1>8. CASE ReadHolder(s)
  <2>1. CASE lock = "fresh"
    BY <1>4, <1>8, <2>1 DEF ReadHolder
  <2>2. CASE lock # "fresh"
    BY <1>5, <1>8, <2>2 DEF ReadHolder, Goto, Looking
  <2> QED BY <2>1, <2>2
<1>9. CASE RemoveStale(s)
  <2>1. CASE lock = "none"
    BY <1>4, <1>9, <2>1 DEF RemoveStale
  <2>2. CASE lock # "none"
    BY <1>5, <1>9, <2>2 DEF RemoveStale, Goto, Looking
  <2> QED BY <2>1, <2>2
<1>10. CASE Read(s)
  BY <1>5, <1>10 DEF Read, Looking
<1>11. CASE AppendMoved(s)
  BY <1>1, <1>11, AppendTold
<1>12. CASE Truncate(s)
  <2>1. /\ UNCHANGED <<life, truth, moves, look, before, log, failures>>
        /\ pc[s] = "save" /\ pc'[s] = "saving"
    BY <1>1, <1>12 DEF Truncate, Goto, TypeOK
  <2>2. Base(s, r)' = Base(s, r) /\ ~Due(s, r)'
    BY <2>1 DEF Base, Due, Looking
  <2> QED BY <2>1, <2>2, KeptTold
<1>13. CASE Fill(s)
  <2>1. /\ UNCHANGED <<life, truth, moves, look, before, log, failures>>
        /\ pc[s] = "saving" /\ pc'[s] = "release"
        /\ baseline' = Reconcile(before[s], look[s]) /\ torn' = FALSE
    BY <1>1, <1>13 DEF Fill, Goto, TypeOK
  <2>2. Base(s, r)' = Base(s, r) /\ ~Due(s, r)'
    BY <2>1 DEF Base, Due, Known, Looking
  <2> QED BY <2>1, <2>2, KeptTold
<1>14. CASE Release(s)
  BY <1>4, <1>14 DEF Release
<1>15. CASE AppendFails(s)
  BY <1>1, <1>15, CutTold DEF AppendFails
<1>16. CASE Kill(s)
  <2>1. \/ log' = log
        \/ pc[s] = "append" /\ \E written \in SUBSET Run : log' = Appended(s, written)
    BY <1>16 DEF Kill
  <2> QED BY <1>1, <1>16, <2>1, CutTold DEF Kill
<1>17. CASE GrowOld \/ UNCHANGED vars
  <2>1. UNCHANGED <<life, truth, moves, pc, look, before, baseline, torn, log, failures>>
    BY <1>17 DEF GrowOld, vars
  <2>2. Base(s, r)' = Base(s, r) /\ Due(s, r)' = Due(s, r) /\ To(s, r)' = To(s, r)
    BY <2>1 DEF Base, Known, Due, To
  <2> QED BY <2>1, <2>2, KeptTold
<1> QED
  BY <1>2, <1>3, <1>6, <1>7, <1>8, <1>9, <1>10, <1>11, <1>12, <1>13, <1>14, <1>15, <1>16,
     <1>17 DEF Next, Step

LEMMA OnceStarts ==
  ASSUME SweepAssumption, NEW s, Surface = {s}, Init
  PROVE  OnceInv(s)
<1>1. /\ pc[s] = "idle" /\ before[s] = Nothing /\ look[s] = Nothing /\ baseline = Nothing
      /\ ~torn /\ failures = 0
  BY DEF Init
<1>2. \A r \in Run : /\ life[r] = "unborn" /\ Known[r] = Absent
                     /\ truth[r] = [grade |-> "low", scanning |-> FALSE]
                     /\ moves[r] = [grade |-> 0, scanning |-> 0]
                     /\ log[r] = [started |-> 0, stopped |-> 0, graded |-> 0, alarms |-> 0]
  BY <1>1, NothingIsAbsent DEF Init, Known
<1>3. \A r \in Run : ~Due(s, r) /\ Base(s, r) = Absent /\ ~Over(s, r)
  BY <1>1, <1>2 DEF Due, Base, Over, Looking
<1>4. \A r \in Run : GradesOwed(s, r) = 1 /\ AlarmsOwed(s, r) = 0
  BY <1>3 DEF GradesOwed, AlarmsOwed, One
<1>5. Facts(s)
  BY <1>1, <1>2, NothingIsAbsent DEF Facts, Looking
<1> QED BY <1>1, <1>2, <1>3, <1>4, <1>5 DEF OnceInv, Told, One

LEMMA OnceIsEnough ==
  ASSUME SweepAssumption, TypeOK, NEW s, OnceInv(s)
  PROVE  RepeatsOnlyByFailure /\ AlarmOnRisingEdge
<1> SUFFICES ASSUME NEW r \in Run
             PROVE  /\ log[r].started <= 1 + failures /\ log[r].stopped <= 1 + failures
                    /\ log[r].graded <= moves[r].grade + 1 + failures
                    /\ log[r].alarms <= moves[r].scanning + failures
  BY DEF RepeatsOnlyByFailure, AlarmOnRisingEdge
<1>1. Told(s, r)
  BY DEF OnceInv
<1>2. /\ log[r].started \in Nat /\ log[r].stopped \in Nat /\ log[r].graded \in Nat
      /\ log[r].alarms \in Nat /\ moves[r].grade \in Nat /\ moves[r].scanning \in Nat
      /\ failures \in Nat
  BY Counted DEF Counts
<1>3. GradesOwed(s, r) \in 0..2 /\ AlarmsOwed(s, r) \in 0..2
  BY Owing DEF OwesLittle
<1>4. One(Base(s, r) # Absent \/ Over(s, r)) \in {0, 1} /\ One(Over(s, r)) \in {0, 1}
  BY DEF One
<1> QED BY <1>1, <1>2, <1>3, <1>4 DEF Told

(* A host that no surface looks at has an empty log.                       *)
LEMMA UnwatchedIsUntold ==
  ASSUME SweepAssumption, Surface = {}
  PROVE  Spec => [](RepeatsOnlyByFailure /\ AlarmOnRisingEdge)
<1> DEFINE Empty == /\ failures = 0
                    /\ \A r \in Run : log[r] = [started |-> 0, stopped |-> 0, graded |-> 0, alarms |-> 0]
<1>1. Init => Empty
  BY DEF Init
<1>2. Empty /\ [Next]_vars => Empty'
  BY DEF Next, Start, Exit, Regrade, Scan, GrowOld, vars
<1>3. TypeOK /\ Empty => RepeatsOnlyByFailure /\ AlarmOnRisingEdge
  <2> SUFFICES ASSUME TypeOK, Empty PROVE RepeatsOnlyByFailure /\ AlarmOnRisingEdge
    OBVIOUS
  <2>1. \A r \in Run : moves[r].grade \in Nat /\ moves[r].scanning \in Nat
    BY Counted DEF Counts
  <2> QED BY <2>1 DEF RepeatsOnlyByFailure, AlarmOnRisingEdge
<1> HIDE DEF Empty
<1> QED BY <1>1, <1>2, <1>3, TypeCorrect, PTL DEF Spec

(* sweep.rs:4-7, 226: with one surface a change is told once, but for what *)
(* a sweep that was cut short repeats; and an alarm only when scanning     *)
(* begins.                                                                 *)
THEOREM ToldOnce ==
  ASSUME SweepAssumption
  PROVE  Spec => []ChangesAreToldOnce
<1>1. CASE Surface = {}
  <2>1. RepeatsOnlyByFailure /\ AlarmOnRisingEdge => ChangesAreToldOnce
    BY DEF ChangesAreToldOnce
  <2> QED BY <1>1, <2>1, UnwatchedIsUntold, PTL
<1>2. ASSUME NEW s, Surface = {s} PROVE Spec => []ChangesAreToldOnce
  <2>1. Init => OnceInv(s)
    BY <1>2, OnceStarts
  <2>2. TypeOK /\ TypeOK' /\ OnceInv(s) /\ [Next]_vars => OnceInv(s)'
    BY <1>2, FactsStep, ToldStep DEF OnceInv
  <2>3. TypeOK /\ OnceInv(s) => ChangesAreToldOnce
    BY OnceIsEnough DEF ChangesAreToldOnce
  <2> QED BY <2>1, <2>2, <2>3, TypeCorrect, PTL DEF Spec
<1>3. CASE \E s, t \in Surface : s # t
  <2>1. TypeOK => ChangesAreToldOnce
    BY <1>3 DEF TypeOK, ChangesAreToldOnce, OneSurface
  <2> QED BY <2>1, TypeCorrect, PTL
<1>4. Surface = {} \/ (\E s : Surface = {s}) \/ (\E s, t \in Surface : s # t)
  <2> SUFFICES ASSUME NEW s \in Surface, \A t \in Surface : s = t PROVE Surface = {s}
    OBVIOUS
  <2> QED OBVIOUS
<1> QED BY <1>1, <1>2, <1>3, <1>4

-----------------------------------------------------------------------------
(***************************************************************************)
(* Capture.  OffIsOff needs that what reads belongs to a source, and that  *)
(* a switch has killed the helper before it waits; OffStays that an        *)
(* interface that is up has read the setting it finds switched off.        *)
(***************************************************************************)
SourceReads ==
  /\ Reading => source \in {"helper", "session"}
  /\ child = "running" => source = "helper"

SwitchIsUp ==
  /\ switching # "free" => up /\ wanted = switching /\ child # "running"
  /\ ~up => source = "none" /\ switching = "free"

OffIsWanted ==
  /\ up /\ setting = "off" => wanted = "off"
  /\ up /\ wanted = "off" /\ switching = "free" => source = "none"

CaptureInv == CaptureTypeOK /\ SourceReads /\ SwitchIsUp /\ OffIsWanted

LEMMA CaptureInvStarts == CaptureInit => CaptureInv
  BY DEF CaptureInit, CaptureInv, CaptureTypeOK, SourceReads, SwitchIsUp, OffIsWanted, Reading, Idle

(* What ensure_started leaves.                                             *)
LEMMA StartedIs ==
  ASSUME Started, CaptureTypeOK, child # "running"
  PROVE  /\ source' \in {"helper", "session", "failed"}
         /\ wires' \in [Wire -> {"gone", "reading", "lost"}]
         /\ child' \in {"gone", "running", "exited"}
         /\ Reading' => source' \in {"helper", "session"}
         /\ child' = "running" => source' = "helper"
<1>1. CASE helper # "none"
  BY <1>1 DEF Started, CaptureTypeOK, Reading, Idle
<1>2. CASE helper = "none" /\ granted
  BY <1>2 DEF Started, CaptureTypeOK, Reading, Idle
<1>3. CASE helper = "none" /\ ~granted
  BY <1>3 DEF Started, CaptureTypeOK, Reading, Idle
<1> QED BY <1>1, <1>2, <1>3

LEMMA CaptureInvStep ==
  ASSUME CaptureInv, [CaptureNext]_captureVars
  PROVE  CaptureInv'
<1> USE DEF CaptureInv
<1>1. CASE Launch
  BY <1>1 DEF Launch, threads, CaptureTypeOK, SourceReads, SwitchIsUp, OffIsWanted, Reading
<1>2. CASE Sweep
  <2>1. /\ up /\ switching = "free" /\ UNCHANGED <<setting, up, wanted, switching>>
    BY <1>2 DEF Sweep
  <2>2. CASE UNCHANGED <<source, threads>>
    BY <2>1, <2>2 DEF threads, CaptureTypeOK, SourceReads, SwitchIsUp, OffIsWanted, Reading
  <2>3. CASE wanted # "off" /\ source = "none" /\ Started
    <3>1. child # "running"
      BY <2>3 DEF SourceReads
    <3> QED BY <2>1, <2>3, <3>1, StartedIs DEF CaptureTypeOK, SourceReads, SwitchIsUp, OffIsWanted
  <2> QED BY <1>2, <2>2, <2>3 DEF Sweep
<1>3. CASE Switched
  <2>1. /\ up /\ switching # "free" /\ ~Reading /\ switching' = "free" /\ UNCHANGED <<up, wanted>>
        /\ wanted = switching /\ child # "running"
    BY <1>3 DEF Switched, SwitchIsUp
  <2>2. CASE switching = "on"
    <3>1. Started /\ setting' = setting
      BY <1>3, <2>2 DEF Switched
    <3> QED BY <2>1, <2>2, <3>1, StartedIs DEF CaptureTypeOK, SourceReads, SwitchIsUp, OffIsWanted
  <2>3. CASE switching = "off"
    <3>1. source' = "none" /\ setting' = "off" /\ UNCHANGED <<wires, child>>
      BY <1>3, <2>3 DEF Switched
    <3> QED BY <2>1, <2>3, <3>1 DEF CaptureTypeOK, SourceReads, SwitchIsUp, OffIsWanted, Reading
  <2> QED BY <2>1, <2>2, <2>3 DEF CaptureTypeOK
<1>4. CASE ChildExits
  BY <1>4 DEF ChildExits, Idle, CaptureTypeOK, SourceReads, SwitchIsUp, OffIsWanted, Reading
<1>5. CASE ReaderNotices \/ OrphanExits
  BY <1>5 DEF ReaderNotices, OrphanExits, threads, CaptureTypeOK, SourceReads, SwitchIsUp, OffIsWanted, Reading
<1>6. CASE Quit
  BY <1>6 DEF Quit, Idle, CaptureTypeOK, SourceReads, SwitchIsUp, OffIsWanted, Reading
<1>7. ASSUME NEW to \in {"on", "off"}, Switch(to) PROVE CaptureInv'
  BY <1>7 DEF Switch, CaptureTypeOK, SourceReads, SwitchIsUp, OffIsWanted, Reading
<1>8. ASSUME NEW w \in Wire, WireStops(w) \/ WireEnds(w) PROVE CaptureInv'
  <2>1. /\ wires' \in [Wire -> {"gone", "reading", "lost"}]
        /\ Reading' => Reading
        /\ UNCHANGED <<setting, up, wanted, source, child, switching>>
    BY <1>8 DEF WireStops, WireEnds, CaptureTypeOK, Reading
  <2> QED BY <2>1 DEF CaptureTypeOK, SourceReads, SwitchIsUp, OffIsWanted
<1>9. CASE UNCHANGED captureVars
  BY <1>9 DEF captureVars, threads, installation, bounds, CaptureTypeOK, SourceReads, SwitchIsUp, OffIsWanted, Reading
<1> QED BY <1>1, <1>2, <1>3, <1>4, <1>5, <1>6, <1>7, <1>8, <1>9 DEF CaptureNext

LEMMA OffStaysStep ==
  ASSUME CaptureInv, [CaptureNext]_captureVars
  PROVE  OffStays
<1> SUFFICES ASSUME setting = "off", ~Reads, setting' = setting PROVE ~Reads'
  BY DEF OffStays
<1>0. up => wanted = "off" /\ child # "running"
  BY DEF CaptureInv, OffIsWanted, SwitchIsUp, SourceReads
<1> USE DEF Reads, Reading
<1>1. CASE Launch
  BY <1>1 DEF Launch, threads
<1>2. CASE Sweep
  BY <1>0, <1>2 DEF Sweep, threads
<1>3. CASE Switched
  <2>1. switching = "off"
    BY <1>0, <1>3 DEF Switched, CaptureInv, SwitchIsUp
  <2> QED BY <1>3, <2>1 DEF Switched
<1>4. CASE ChildExits \/ Quit
  BY <1>0, <1>4 DEF ChildExits, Quit, Idle
<1>5. CASE ReaderNotices \/ OrphanExits
  BY <1>5 DEF ReaderNotices, OrphanExits, threads
<1>6. ASSUME NEW to \in {"on", "off"}, Switch(to) PROVE ~Reads'
  BY <1>6 DEF Switch
<1>7. ASSUME NEW w \in Wire, WireStops(w) \/ WireEnds(w) PROVE ~Reads'
  BY <1>7 DEF WireStops, WireEnds
<1>8. CASE UNCHANGED captureVars
  BY <1>8 DEF captureVars, threads
<1> QED BY <1>1, <1>2, <1>3, <1>4, <1>5, <1>6, <1>7, <1>8 DEF CaptureNext

(* However often the interface is launched, killed and switched, whatever  *)
(* its helper and its interfaces do: once switching off has returned       *)
(* nothing reads, and a capture that was switched off stays off across     *)
(* restarts (live.rs:123-127, settings.rs:41-43).                          *)
THEOREM OffIsKept == CaptureSpec => OffStaysOff
<1>1. CaptureInit => CaptureInv
  BY CaptureInvStarts
<1>2. CaptureInv /\ [CaptureNext]_captureVars => CaptureInv'
  BY CaptureInvStep
<1>3. CaptureInv => OffIsOff
  BY DEF CaptureInv, OffIsOff, SourceReads, OffIsWanted
<1>4. CaptureInv /\ [CaptureNext]_captureVars => [OffStays]_captureVars
  BY OffStaysStep
<1> QED BY <1>1, <1>2, <1>3, <1>4, PTL DEF CaptureSpec, OffStaysOff

-----------------------------------------------------------------------------
Contents == Seq(LogEntry)
Rising(s) == \A i, j \in DOMAIN s : i < j => s[i] < s[j]
Within(s, n) == \A i \in DOMAIN s : s[i] <= n
SoFar(s) == Rising(s) /\ Within(s, issued)

(* Whoever is about to write has the log open.                             *)
HandleIsOpen == \A w \in Writer : at[w] \in {"refill", "write"} => handle[w] # 0

(* A rotation holds what it read, and nobody writes the log meanwhile.     *)
TextIsRead(w) ==
  /\ SoFar(text[w])
  /\ at[w] \notin {"truncate", "refill"} => text[w] = <<>>
  /\ at[w] = "truncate" /\ current # 0 => files[current] = text[w]
  /\ at[w] = "refill" => files[handle[w]] = <<>>

OneAtWork ==
  /\ \A f \in DOMAIN files : SoFar(files[f])
  /\ \A w \in Writer : TextIsRead(w)
  /\ kills = 0 => OnlyTheOldestGo

LogInv == LogTypeOK /\ HandleIsOpen /\ (OneWriter => OneAtWork)

(* What a change of one file does to the files.                            *)
LEMMA FileReplaced ==
  ASSUME NEW fs \in Seq(Contents), NEW f \in 1..Len(fs), NEW s \in Contents
  PROVE  /\ [fs EXCEPT ![f] = s] \in Seq(Contents)
         /\ Len([fs EXCEPT ![f] = s]) = Len(fs)
         /\ DOMAIN [fs EXCEPT ![f] = s] = DOMAIN fs
         /\ [fs EXCEPT ![f] = s][f] = s
         /\ \A g \in DOMAIN fs : g # f => [fs EXCEPT ![f] = s][g] = fs[g]
<1> DEFINE T == Contents
<1>1. fs \in Seq(T) /\ s \in T
  OBVIOUS
<1> HIDE DEF T
<1>2. [fs EXCEPT ![f] = s] \in Seq(T) /\ Len([fs EXCEPT ![f] = s]) = Len(fs)
  BY <1>1
<1>3. DOMAIN fs = 1..Len(fs)
  BY <1>1
<1>4. DOMAIN [fs EXCEPT ![f] = s] = DOMAIN fs /\ [fs EXCEPT ![f] = s][f] = s
  BY <1>3
<1>5. \A g \in DOMAIN fs : g # f => [fs EXCEPT ![f] = s][g] = fs[g]
  OBVIOUS
<1> QED BY <1>2, <1>4, <1>5 DEF T

LEMMA FileAdded ==
  ASSUME NEW fs \in Seq(Contents)
  PROVE  /\ Append(fs, <<>>) \in Seq(Contents)
         /\ Len(Append(fs, <<>>)) = Len(fs) + 1
         /\ DOMAIN Append(fs, <<>>) = 1..Len(fs) + 1
         /\ Append(fs, <<>>)[Len(fs) + 1] = <<>>
         /\ \A g \in DOMAIN fs : Append(fs, <<>>)[g] = fs[g]
<1> DEFINE T == Contents
<1>1. fs \in Seq(T) /\ <<>> \in T
  BY DEF Contents
<1> HIDE DEF T
<1>2. Append(fs, <<>>) \in Seq(T) /\ Len(Append(fs, <<>>)) = Len(fs) + 1
  BY <1>1
<1>3. DOMAIN Append(fs, <<>>) = 1..Len(fs) + 1
  BY <1>2
<1>4. Append(fs, <<>>)[Len(fs) + 1] = <<>> /\ \A g \in DOMAIN fs : Append(fs, <<>>)[g] = fs[g]
  BY <1>1
<1> QED BY <1>2, <1>3, <1>4 DEF T

LEMMA NothingInEmpty == ToSet(<<>>) = {} /\ \A n : Rising(<<>>) /\ Within(<<>>, n)
BY DEF ToSet, Rising, Within

(* An entry behind all there are keeps the order.                          *)
LEMMA EntryAdded ==
  ASSUME NEW n \in Nat, n + 1 \in LogEntry, NEW s \in Contents, Rising(s), Within(s, n)
  PROVE  /\ Append(s, n + 1) \in Contents
         /\ Rising(Append(s, n + 1)) /\ Within(Append(s, n + 1), n + 1)
         /\ ToSet(Append(s, n + 1)) = ToSet(s) \cup {n + 1}
<1> DEFINE t == Append(s, n + 1)
<1>1. t \in Contents /\ Len(t) = Len(s) + 1 /\ Len(s) \in Nat
  BY DEF Contents
<1>2. DOMAIN t = 1..Len(s) + 1 /\ DOMAIN s = 1..Len(s)
  BY <1>1 DEF Contents
<1>3. t[Len(s) + 1] = n + 1 /\ \A i \in 1..Len(s) : t[i] = s[i] /\ s[i] \in Nat /\ s[i] <= n
  <2>1. \A i \in 1..Len(s) : s[i] \in LogEntry
    BY DEF Contents
  <2>2. LogEntry \subseteq Nat
    BY DEF LogEntry
  <2>3. \A i \in 1..Len(s) : s[i] <= n
    BY <1>2 DEF Within
  <2>4. t[Len(s) + 1] = n + 1 /\ \A i \in 1..Len(s) : t[i] = s[i]
    BY DEF Contents
  <2> QED BY <2>1, <2>2, <2>3, <2>4
<1> HIDE DEF t
<1>4. Within(t, n + 1)
  BY <1>1, <1>2, <1>3 DEF Within
<1>5. ASSUME NEW i \in DOMAIN t, NEW j \in DOMAIN t, i < j PROVE t[i] < t[j]
  <2>1. i \in 1..Len(s)
    BY <1>1, <1>2, <1>5
  <2>2. CASE j = Len(s) + 1
    BY <2>1, <2>2, <1>3
  <2>3. CASE j \in 1..Len(s)
    BY <2>1, <2>3, <1>2, <1>3, <1>5 DEF Rising
  <2> QED BY <1>1, <1>2, <2>2, <2>3
<1>6. ToSet(t) = ToSet(s) \cup {n + 1}
  <2>1. ASSUME NEW e \in ToSet(t) PROVE e \in ToSet(s) \cup {n + 1}
    <3>1. PICK i \in DOMAIN t : e = t[i]
      BY DEF ToSet
    <3>2. i \in DOMAIN s \/ i = Len(s) + 1
      BY <1>1, <1>2
    <3> QED BY <3>1, <3>2, <1>2, <1>3 DEF ToSet
  <2>2. ASSUME NEW e \in ToSet(s) PROVE e \in ToSet(t)
    <3>1. PICK i \in DOMAIN s : e = s[i]
      BY DEF ToSet
    <3>2. i \in DOMAIN t /\ e = t[i]
      BY <3>1, <1>1, <1>2, <1>3
    <3> QED BY <3>2 DEF ToSet
  <2>3. n + 1 \in ToSet(t)
    <3>1. Len(s) + 1 \in DOMAIN t
      BY <1>1, <1>2
    <3> QED BY <3>1, <1>3 DEF ToSet
  <2> QED BY <2>1, <2>2, <2>3
<1> QED BY <1>1, <1>4, <1>5, <1>6 DEF t, Rising

(* A log falls into the half that goes and the half that is kept.          *)
LEMMA Halves ==
  ASSUME NEW s \in Contents
  PROVE  /\ Keep(s) \in Contents /\ ToSet(Older(s)) \subseteq LogEntry
         /\ ToSet(s) \subseteq ToSet(Keep(s)) \cup ToSet(Older(s))
         /\ Rising(s) => Rising(Keep(s))
         /\ \A n : Within(s, n) => Within(Keep(s), n)
<1> DEFINE h == Half(s)
           k == Keep(s)
           o == Older(s)
<1>1. h \in 0..Len(s) /\ Len(s) \in Nat /\ DOMAIN s = 1..Len(s)
  BY DEF Half, Contents
<1>2. k = SubSeq(s, h + 1, Len(s)) /\ o = SubSeq(s, 1, h)
  BY DEF Keep, Older
<1> HIDE DEF h, k, o
<1>3. k \in Contents /\ o \in Contents
  BY <1>1, <1>2 DEF Contents
<1>4. Len(k) = Len(s) - h /\ Len(o) = h
  <2>1. Len(k) = IF h + 1 <= Len(s) THEN Len(s) - (h + 1) + 1 ELSE 0
    BY <1>1, <1>2 DEF Contents
  <2>2. Len(o) = IF 1 <= h THEN h - 1 + 1 ELSE 0
    BY <1>1, <1>2 DEF Contents
  <2>3. Len(k) = Len(s) - h
    <3>1. CASE h + 1 <= Len(s)
      <4>1. Len(k) = Len(s) - (h + 1) + 1
        BY <3>1, <2>1
      <4> QED BY <4>1, <1>1
    <3>2. CASE ~(h + 1 <= Len(s))
      <4>1. Len(k) = 0
        BY <3>2, <2>1
      <4>2. \A x, y \in Nat : y \in 0..x /\ ~(y + 1 <= x) => y = x
        OBVIOUS
      <4>3. h \in Nat /\ h \in 0..Len(s) /\ Len(s) \in Nat
        BY <1>1
      <4>4. h = Len(s)
        BY <3>2, <4>2, <4>3, Zenon
      <4> QED BY <4>1, <4>3, <4>4
    <3> QED BY <3>1, <3>2
  <2>4. Len(o) = h
    BY <1>1, <2>2
  <2> QED BY <2>3, <2>4
<1>5. DOMAIN k = 1..Len(s) - h /\ DOMAIN o = 1..h
  BY <1>3, <1>4 DEF Contents
<1>6. \A i \in DOMAIN k : i + h \in DOMAIN s /\ k[i] = s[i + h]
  BY <1>1, <1>2, <1>5 DEF Contents
<1>7. \A i \in DOMAIN o : o[i] = s[i]
  BY <1>1, <1>2, <1>5 DEF Contents
<1>8. ASSUME NEW e \in ToSet(s) PROVE e \in ToSet(k) \cup ToSet(o)
  <2>1. PICK i \in DOMAIN s : e = s[i]
    BY DEF ToSet
  <2>2. CASE i <= h
    <3>1. i \in DOMAIN o
      BY <1>1, <1>5, <2>2
    <3> QED BY <3>1, <2>1, <1>7 DEF ToSet
  <2>3. CASE i > h
    <3>1. i - h \in DOMAIN k /\ (i - h) + h = i
      BY <1>1, <1>5, <2>3
    <3>2. k[i - h] = e
      BY <3>1, <2>1, <1>6
    <3> QED BY <3>1, <3>2 DEF ToSet
  <2> QED BY <1>1, <2>2, <2>3
<1>9. ASSUME Rising(s) PROVE Rising(k)
  <2>1. ASSUME NEW i \in DOMAIN k, NEW j \in DOMAIN k, i < j PROVE k[i] < k[j]
    <3>1. i + h \in DOMAIN s /\ j + h \in DOMAIN s /\ k[i] = s[i + h] /\ k[j] = s[j + h]
      BY <1>6
    <3>2. i + h < j + h
      BY <1>1, <1>5, <2>1
    <3> QED BY <3>1, <3>2, <1>9 DEF Rising
  <2> QED BY <2>1 DEF Rising
<1>10. ASSUME NEW n, Within(s, n) PROVE Within(k, n)
  BY <1>6, <1>10 DEF Within
<1>11. ToSet(o) \subseteq LogEntry
  <2>1. \A i \in DOMAIN o : o[i] \in LogEntry
    BY <1>3 DEF Contents
  <2> QED BY <2>1 DEF ToSet
<1> QED BY <1>3, <1>8, <1>9, <1>10, <1>11 DEF k, o


LEMMA OnDiskIs ==
  ASSUME NEW e PROVE e \in OnDisk <=> \E f \in DOMAIN files : e \in ToSet(files[f])
BY DEF OnDisk

LEMMA InHandIs ==
  ASSUME NEW e PROVE e \in InHand <=> \E w \in Writer : e \in ToSet(text[w])
BY DEF InHand

LEMMA LogTypes ==
  ASSUME LogTypeOK
  PROVE  /\ files \in Seq(Contents) /\ Len(files) \in Nat /\ DOMAIN files = 1..Len(files)
         /\ \A f \in DOMAIN files : files[f] \in Contents
         /\ current \in 0..Len(files)
         /\ DOMAIN at = Writer /\ DOMAIN handle = Writer /\ DOMAIN text = Writer
         /\ \A w \in Writer : handle[w] \in 0..Len(files) /\ text[w] \in Contents
<1>1. files \in Seq(Contents)
  BY DEF LogTypeOK, Contents
<1> DEFINE T == Contents
<1>2. files \in Seq(T)
  BY <1>1
<1> HIDE DEF T
<1>3. Len(files) \in Nat /\ DOMAIN files = 1..Len(files) /\ \A f \in DOMAIN files : files[f] \in T
  BY <1>2
<1> QED BY <1>1, <1>3 DEF LogTypeOK, T, Contents

LEMMA LogInvStarts == LogAssumption /\ LogInit => LogInv
<1> SUFFICES ASSUME LogAssumption, LogInit PROVE LogInv
  OBVIOUS
<1>1. files \in Seq(Seq(LogEntry)) /\ Len(files) = 0 /\ DOMAIN files = {}
  BY DEF LogInit
<1>2. LogTypeOK
  BY <1>1 DEF LogAssumption, LogInit, LogTypeOK
<1>3. HandleIsOpen
  BY DEF LogInit, HandleIsOpen
<1>4. \A w \in Writer : TextIsRead(w)
  BY NothingInEmpty DEF LogInit, TextIsRead, SoFar
<1>5. OnlyTheOldestGo
  BY DEF LogInit, OnlyTheOldestGo
<1> QED BY <1>1, <1>2, <1>3, <1>4, <1>5 DEF LogInv, OneAtWork

(* Opening the log leaves every other file as it is.                       *)
LEMMA OpenTypes ==
  ASSUME LogInv, NEW w \in Writer, NEW s \in Contents, OpenCurrent(w, s)
  PROVE  /\ files' \in Seq(Contents) /\ current' \in 1..Len(files') /\ Len(files) <= Len(files')
         /\ DOMAIN files' = DOMAIN files \cup {current'}
         /\ handle' = [handle EXCEPT ![w] = current']
         /\ files'[current'] = IF current = 0 THEN <<>> ELSE s
         /\ current # 0 => current' = current
         /\ current = 0 => current' \notin DOMAIN files
         /\ \A f \in DOMAIN files : f # current' => files'[f] = files[f]
<1>1. files \in Seq(Contents) /\ Len(files) \in Nat /\ DOMAIN files = 1..Len(files) /\ current \in 0..Len(files)
  BY LogTypes DEF LogInv
<1>2. CASE current = 0
  <2>1. /\ files' = Append(files, <<>>) /\ current' = Len(files) + 1
        /\ handle' = [handle EXCEPT ![w] = Len(files) + 1]
    BY <1>2 DEF OpenCurrent
  <2>2. /\ files' \in Seq(Contents) /\ Len(files') = Len(files) + 1
        /\ DOMAIN files' = 1..Len(files) + 1 /\ files'[current'] = <<>>
        /\ \A f \in DOMAIN files : files'[f] = files[f]
    BY <1>1, <2>1, FileAdded
  <2>3. DOMAIN files' = DOMAIN files \cup {current'} /\ current' \notin DOMAIN files
    BY <1>1, <2>1, <2>2
  <2>4. current' \in 1..Len(files') /\ Len(files) <= Len(files')
    BY <1>1, <2>1, <2>2
  <2> QED BY <1>2, <2>1, <2>2, <2>3, <2>4
<1>3. CASE current # 0
  <2>1. /\ files' = [files EXCEPT ![current] = s] /\ current' = current
        /\ handle' = [handle EXCEPT ![w] = current]
    BY <1>3 DEF OpenCurrent
  <2>2. current \in 1..Len(files)
    BY <1>1, <1>3
  <2>3. /\ files' \in Seq(Contents) /\ Len(files') = Len(files) /\ DOMAIN files' = DOMAIN files
        /\ files'[current] = s /\ \A f \in DOMAIN files : f # current => files'[f] = files[f]
    BY <1>1, <2>1, <2>2, FileReplaced
  <2> QED BY <1>1, <1>3, <2>1, <2>2, <2>3
<1> QED BY <1>2, <1>3

LEMMA LogTypeStep ==
  ASSUME LogAssumption, LogInv, [LogNext]_logVars
  PROVE  LogTypeOK' /\ HandleIsOpen'
<1>0. LogTypeOK /\ HandleIsOpen
  BY DEF LogInv
<1>1. /\ files \in Seq(Contents) /\ Len(files) \in Nat /\ DOMAIN files = 1..Len(files)
      /\ \A f \in DOMAIN files : files[f] \in Contents
      /\ current \in 0..Len(files)
      /\ DOMAIN at = Writer /\ DOMAIN handle = Writer /\ DOMAIN text = Writer
      /\ \A w \in Writer : handle[w] \in 0..Len(files) /\ text[w] \in Contents
  BY <1>0, LogTypes
<1>2. MaxEntries \in Nat /\ MaxClears \in Nat /\ MaxKills \in Nat
  BY DEF LogAssumption
<1>3. ASSUME NEW w \in Writer, StartAppend(w) PROVE LogTypeOK' /\ HandleIsOpen'
  <2>1. LogTypeOK'
    BY <1>0, <1>3 DEF StartAppend, Goes, LogTypeOK
  <2>2. HandleIsOpen'
    BY <1>0, <1>1, <1>3 DEF StartAppend, Goes, HandleIsOpen
  <2> QED BY <2>1, <2>2
<1>4. ASSUME NEW w \in Writer, ReadAll(w) PROVE LogTypeOK' /\ HandleIsOpen'
  <2>1. CASE current = 0
    <3>1. LogTypeOK'
      <4>1. <<>> \in Seq(LogEntry) /\ 0 \in 0..Len(files)
        BY <1>1
      <4>2. Leaves(w) /\ UNCHANGED <<files, current, issued, dropped, clears, kills>>
        BY <1>4, <2>1 DEF ReadAll
      <4> QED BY <1>0, <4>1, <4>2 DEF Leaves, Goes, LogTypeOK
    <3>2. HandleIsOpen'
      BY <1>0, <1>1, <1>4, <2>1 DEF ReadAll, Leaves, Goes, HandleIsOpen
    <3> QED BY <3>1, <3>2
  <2>2. CASE current # 0
    <3>0. files[current] \in Contents
      BY <1>1, <2>2
    <3>1. LogTypeOK'
      BY <1>0, <1>4, <2>2, <3>0 DEF ReadAll, Goes, LogTypeOK, Contents
    <3>2. HandleIsOpen'
      BY <1>0, <1>1, <1>4, <2>2 DEF ReadAll, Goes, HandleIsOpen
    <3> QED BY <3>1, <3>2
  <2> QED BY <2>1, <2>2
<1>5. ASSUME NEW w \in Writer, NEW s \in Contents, NEW to \in {"refill", "write"},
             OpenCurrent(w, s), Goes(w, to), UNCHANGED <<text, issued, dropped, clears, kills>>
      PROVE  LogTypeOK' /\ HandleIsOpen'
  <2>1. /\ files' \in Seq(Contents) /\ current' \in 1..Len(files') /\ Len(files) <= Len(files')
        /\ DOMAIN files' = DOMAIN files \cup {current'}
        /\ handle' = [handle EXCEPT ![w] = current']
    BY <1>5, OpenTypes
  <2>2. Len(files') \in Nat
    BY <2>1
  <2>3. current' \in 0..Len(files') /\ \A v \in Writer : handle[v] \in 0..Len(files')
    BY <1>1, <2>1, <2>2
  <2>4. handle' \in [Writer -> 0..Len(files')]
    BY <1>1, <2>1, <2>3
  <2>5. LogTypeOK'
    BY <1>0, <1>5, <2>1, <2>3, <2>4 DEF Goes, LogTypeOK, Contents
  <2>6. HandleIsOpen'
    BY <1>0, <1>1, <1>5, <2>1, <2>2 DEF Goes, HandleIsOpen
  <2> QED BY <2>5, <2>6
<1>6. ASSUME NEW w \in Writer, TruncateLog(w) PROVE LogTypeOK' /\ HandleIsOpen'
  <2>1. <<>> \in Contents
    BY DEF Contents
  <2> QED BY <1>5, <1>6, <2>1 DEF TruncateLog
<1>7. ASSUME NEW w \in Writer, OpenLog(w) PROVE LogTypeOK' /\ HandleIsOpen'
  <2>1. (IF current = 0 THEN <<>> ELSE files[current]) \in Contents
    <3>1. <<>> \in Contents
      BY DEF Contents
    <3> QED BY <1>1, <3>1
  <2> QED BY <1>5, <1>7, <2>1 DEF OpenLog
<1>8. ASSUME NEW w \in Writer, Refill(w) PROVE LogTypeOK' /\ HandleIsOpen'
  <2> DEFINE there == files[handle[w]]
             s == Keep(text[w]) \o SubSeq(there, Len(Keep(text[w])) + 1, Len(there))
  <2>1. handle[w] \in 1..Len(files)
    BY <1>0, <1>1, <1>8 DEF Refill, HandleIsOpen
  <2>2. Keep(text[w]) \in Contents /\ ToSet(Older(text[w])) \subseteq LogEntry
    BY <1>1, Halves
  <2>3. there \in Contents
    BY <1>1, <2>1
  <2>4. s \in Contents
    <3>1. Len(Keep(text[w])) \in Nat /\ Len(there) \in Nat
      BY <2>2, <2>3 DEF Contents
    <3> HIDE DEF there
    <3>2. SubSeq(there, Len(Keep(text[w])) + 1, Len(there)) \in Contents
      BY <2>3, <3>1 DEF Contents
    <3> QED BY <2>2, <3>2 DEF Contents
  <2>5. files' = [files EXCEPT ![handle[w]] = s]
    BY <1>8 DEF Refill
  <2> HIDE DEF s, there
  <2>6. files' \in Seq(Contents) /\ Len(files') = Len(files)
    BY <1>1, <2>1, <2>4, <2>5, FileReplaced
  <2>7. LogTypeOK'
    BY <1>0, <1>8, <2>2, <2>6 DEF Refill, Goes, LogTypeOK, Contents
  <2>8. HandleIsOpen'
    BY <1>0, <1>1, <1>8 DEF Refill, Goes, HandleIsOpen
  <2> QED BY <2>7, <2>8
<1>9. ASSUME NEW w \in Writer, WriteEntry(w) PROVE LogTypeOK' /\ HandleIsOpen'
  <2>1. handle[w] \in 1..Len(files)
    BY <1>0, <1>1, <1>9 DEF WriteEntry, HandleIsOpen
  <2>2. files[handle[w]] \in Contents
    BY <1>1, <2>1
  <2>3. issued + 1 \in LogEntry /\ issued' \in 0..MaxEntries
    BY <1>0, <1>2, <1>9 DEF WriteEntry, LogTypeOK, LogEntry
  <2>4. Append(files[handle[w]], issued + 1) \in Contents
    BY <2>2, <2>3 DEF Contents
  <2>5. files' = [files EXCEPT ![handle[w]] = Append(files[handle[w]], issued + 1)]
    BY <1>9 DEF WriteEntry
  <2>6. files' \in Seq(Contents) /\ Len(files') = Len(files)
    BY <1>1, <2>1, <2>4, <2>5, FileReplaced
  <2>7. LogTypeOK'
    BY <1>0, <1>9, <2>3, <2>6 DEF WriteEntry, Leaves, Goes, LogTypeOK, Contents
  <2>8. HandleIsOpen'
    BY <1>0, <1>1, <1>9 DEF WriteEntry, Leaves, Goes, HandleIsOpen
  <2> QED BY <2>7, <2>8
<1>10. CASE Archive
  <2>1. LogTypeOK'
    BY <1>0, <1>1, <1>2, <1>10 DEF Archive, LogTypeOK
  <2>2. HandleIsOpen'
    BY <1>0, <1>10 DEF Archive, HandleIsOpen
  <2> QED BY <2>1, <2>2
<1>11. ASSUME NEW w \in Writer, KillWriter(w) PROVE LogTypeOK' /\ HandleIsOpen'
  <2>1. LogTypeOK'
    BY <1>0, <1>2, <1>11 DEF KillWriter, Leaves, Goes, LogTypeOK
  <2>2. HandleIsOpen'
    BY <1>0, <1>1, <1>11 DEF KillWriter, Leaves, Goes, HandleIsOpen
  <2> QED BY <2>1, <2>2
<1>12. CASE UNCHANGED logVars
  BY <1>0, <1>12 DEF logVars, LogTypeOK, HandleIsOpen
<1> QED
  BY <1>3, <1>4, <1>6, <1>7, <1>8, <1>9, <1>10, <1>11, <1>12 DEF LogNext, LogDone


LEMMA StillWithin ==
  ASSUME NEW n \in Nat, NEW s \in Contents, Within(s, n)
  PROVE  Within(s, n + 1)
<1>1. \A i \in DOMAIN s : s[i] \in LogEntry
  BY DEF Contents
<1>2. \A x \in LogEntry : x <= n => x <= n + 1
  BY DEF LogEntry
<1> QED BY <1>1, <1>2 DEF Within

(* Nothing is gone when no file lost an entry that is not in hand or among *)
(* those that were dropped.                                                *)
LEMMA NothingElseGoes ==
  ASSUME issued' = issued, OnlyTheOldestGo,
         \A e \in OnDisk \cup InHand \cup dropped : e \in OnDisk' \cup InHand' \cup dropped'
  PROVE  OnlyTheOldestGo'
BY DEF OnlyTheOldestGo

LEMMA OneStep ==
  ASSUME LogAssumption, LogInv, OneWriter, [LogNext]_logVars
  PROVE  OneAtWork'
<1>0. LogTypeOK /\ HandleIsOpen /\ OneAtWork
  BY DEF LogInv
<1>1. /\ files \in Seq(Contents) /\ Len(files) \in Nat /\ DOMAIN files = 1..Len(files)
      /\ \A f \in DOMAIN files : files[f] \in Contents
      /\ current \in 0..Len(files)
      /\ DOMAIN at = Writer /\ DOMAIN handle = Writer /\ DOMAIN text = Writer
      /\ \A w \in Writer : handle[w] \in 0..Len(files) /\ text[w] \in Contents
  BY <1>0, LogTypes
<1>2. \A f \in DOMAIN files : SoFar(files[f])
  BY <1>0 DEF OneAtWork
<1>3. \A w \in Writer : TextIsRead(w)
  BY <1>0 DEF OneAtWork
<1>4. kills \in Nat /\ issued \in Nat /\ (kills = 0 => OnlyTheOldestGo)
  BY <1>0 DEF OneAtWork, LogTypeOK
<1>5. \A v, w \in Writer : v = w
  BY DEF OneWriter
<1>6. SoFar(<<>>)
  BY NothingInEmpty DEF SoFar
<1>7. ASSUME NEW w \in Writer, StartAppend(w) PROVE OneAtWork'
  <2>1. at[w] = "idle" /\ at'[w] \in {"open", "rotate"}
    BY <1>1, <1>7 DEF StartAppend, Goes
  <2>2. UNCHANGED <<files, current, handle, text, issued, dropped, clears, kills>>
    BY <1>7 DEF StartAppend
  <2>3. TextIsRead(w)'
    BY <1>3, <2>1, <2>2 DEF TextIsRead, SoFar
  <2>4. \A v \in Writer : TextIsRead(v)'
    BY <2>3, <1>5
  <2>5. \A f \in DOMAIN files' : SoFar(files[f])'
    BY <1>2, <2>2 DEF SoFar
  <2>6. OnlyTheOldestGo => OnlyTheOldestGo'
    BY <2>2 DEF OnlyTheOldestGo, OnDisk, InHand
  <2> QED BY <2>2, <2>4, <2>5, <2>6, <1>4 DEF OneAtWork
<1>8. ASSUME NEW w \in Writer, ReadAll(w) PROVE OneAtWork'
  <2>1. at[w] = "rotate" /\ text[w] = <<>>
    BY <1>3, <1>8 DEF ReadAll, TextIsRead
  <2>2. UNCHANGED <<files, current, issued, dropped, clears, kills>>
    BY <1>8 DEF ReadAll
  <2>3. TextIsRead(w)'
    <3>1. CASE current = 0
      <4>1. at'[w] = "idle" /\ text'[w] = <<>>
        BY <1>1, <1>8, <3>1 DEF ReadAll, Leaves, Goes
      <4>2. SoFar(text[w])'
        BY <4>1, NothingInEmpty DEF SoFar
      <4> QED BY <4>1, <4>2 DEF TextIsRead
    <3>2. CASE current # 0
      <4>1. at'[w] = "truncate" /\ text'[w] = files[current]
        BY <1>1, <1>8, <3>2 DEF ReadAll, Goes
      <4>2. SoFar(text[w])'
        BY <4>1, <2>2, <1>1, <1>2, <3>2 DEF SoFar
      <4> QED BY <4>1, <4>2, <2>2 DEF TextIsRead
    <3> QED BY <3>1, <3>2
  <2>4. \A v \in Writer : TextIsRead(v)'
    BY <2>3, <1>5
  <2>5. \A f \in DOMAIN files' : SoFar(files[f])'
    BY <1>2, <2>2 DEF SoFar
  <2>6. InHand = {}
    BY <2>1, <1>5, NothingInEmpty DEF InHand
  <2>7. OnlyTheOldestGo => OnlyTheOldestGo'
    BY <2>2, <2>6 DEF OnlyTheOldestGo, OnDisk
  <2> QED BY <2>2, <2>4, <2>5, <2>7, <1>4 DEF OneAtWork
<1>9. ASSUME NEW w \in Writer, TruncateLog(w) PROVE OneAtWork'
  <2>0. OpenCurrent(w, <<>>) /\ UNCHANGED <<text, issued, dropped, clears, kills>>
    BY <1>9 DEF TruncateLog
  <2>1. /\ DOMAIN files' = DOMAIN files \cup {current'}
        /\ handle' = [handle EXCEPT ![w] = current']
        /\ files'[current'] = <<>>
        /\ current # 0 => current' = current
        /\ current = 0 => current' \notin DOMAIN files
        /\ \A f \in DOMAIN files : f # current' => files'[f] = files[f]
    <3>1. <<>> \in Contents
      BY DEF Contents
    <3> QED BY <2>0, <3>1, OpenTypes
  <2>2. at[w] = "truncate" /\ at'[w] = "refill" /\ handle'[w] = current'
    BY <1>1, <1>9, <2>1 DEF TruncateLog, Goes
  <2>3. TextIsRead(w)'
    <3>1. SoFar(text[w])'
      BY <1>3, <2>0 DEF TextIsRead, SoFar
    <3> QED BY <3>1, <2>1, <2>2 DEF TextIsRead
  <2>4. \A v \in Writer : TextIsRead(v)'
    BY <2>3, <1>5
  <2>5. \A f \in DOMAIN files' : SoFar(files[f])'
    BY <1>2, <1>6, <2>0, <2>1 DEF SoFar
  <2>6. OnlyTheOldestGo => OnlyTheOldestGo'
    <3>1. ASSUME NEW e \in OnDisk PROVE e \in OnDisk' \cup InHand'
      <4>1. PICK f \in DOMAIN files : e \in ToSet(files[f])
        BY DEF OnDisk
      <4>2. CASE f # current'
        <5>1. f \in DOMAIN files' /\ e \in ToSet(files'[f])
          BY <4>1, <4>2, <2>1
        <5> QED BY <5>1 DEF OnDisk
      <4>3. CASE f = current'
        <5>1. files[f] = text[w]
          BY <4>3, <2>1, <2>2, <1>3 DEF TextIsRead
        <5>2. e \in ToSet(text'[w])
          BY <4>1, <5>1, <2>0
        <5> QED BY <5>2 DEF InHand
      <4> QED BY <4>2, <4>3
    <3>2. InHand' = InHand
      BY <2>0 DEF InHand
    <3> QED BY <3>1, <3>2, <2>0, NothingElseGoes
  <2> QED BY <2>0, <2>4, <2>5, <2>6, <1>4 DEF OneAtWork
<1>10. ASSUME NEW w \in Writer, Refill(w) PROVE OneAtWork'
  <2> DEFINE h == handle[w]
             k == Keep(text[w])
  <2>1. at[w] = "refill" /\ h \in 1..Len(files) /\ files[h] = <<>>
    BY <1>0, <1>1, <1>3, <1>10 DEF Refill, HandleIsOpen, TextIsRead
  <2>2. /\ k \in Contents
        /\ ToSet(text[w]) \subseteq ToSet(k) \cup ToSet(Older(text[w]))
        /\ Rising(text[w]) => Rising(k)
        /\ \A n : Within(text[w], n) => Within(k, n)
    BY <1>1, Halves
  <2>3. files' = [files EXCEPT ![h] = k]
    <3>1. files' = [files EXCEPT ![h] = k \o SubSeq(files[h], Len(k) + 1, Len(files[h]))]
      BY <1>10 DEF Refill
    <3> HIDE DEF k
    <3>2. Len(k) \in Nat
      BY <2>2 DEF Contents
    <3>3. SubSeq(<<>>, Len(k) + 1, 0) = <<>>
      BY <3>2
    <3>4. k \o <<>> = k
      BY <2>2 DEF Contents
    <3>5. SubSeq(files[h], Len(k) + 1, Len(files[h])) = <<>>
      BY <2>1, <3>3
    <3> QED BY <3>1, <3>4, <3>5
  <2> HIDE DEF k
  <2>4. /\ DOMAIN files' = DOMAIN files /\ files'[h] = k
        /\ \A f \in DOMAIN files : f # h => files'[f] = files[f]
    BY <1>1, <2>1, <2>2, <2>3, FileReplaced
  <2>5. /\ dropped' = dropped \cup ToSet(Older(text[w])) /\ text'[w] = <<>> /\ at'[w] = "open"
        /\ UNCHANGED <<current, issued, clears, kills>>
    BY <1>1, <1>10 DEF Refill, Goes
  <2>6. TextIsRead(w)'
    <3>1. SoFar(text[w])'
      BY <2>5, NothingInEmpty DEF SoFar
    <3> QED BY <3>1, <2>5 DEF TextIsRead
  <2>7. \A v \in Writer : TextIsRead(v)'
    BY <2>6, <1>5
  <2>8. SoFar(k)
    BY <1>3, <2>2 DEF TextIsRead, SoFar
  <2>9. \A f \in DOMAIN files' : SoFar(files[f])'
    BY <1>2, <2>4, <2>5, <2>8 DEF SoFar
  <2>10. OnlyTheOldestGo => OnlyTheOldestGo'
    <3>1. ASSUME NEW e \in OnDisk PROVE e \in OnDisk'
      <4>1. PICK f \in DOMAIN files : e \in ToSet(files[f])
        BY DEF OnDisk
      <4>2. f # h
        BY <4>1, <2>1, NothingInEmpty
      <4>3. f \in DOMAIN files' /\ e \in ToSet(files'[f])
        BY <4>1, <4>2, <2>4
      <4> QED BY <4>3 DEF OnDisk
    <3>2. ASSUME NEW e \in InHand PROVE e \in OnDisk' \cup dropped'
      <4>1. e \in ToSet(text[w])
        BY <1>5 DEF InHand
      <4>2. CASE e \in ToSet(k)
        <5>1. h \in DOMAIN files' /\ e \in ToSet(files'[h])
          BY <4>2, <1>1, <2>1, <2>4
        <5> QED BY <5>1 DEF OnDisk
      <4>3. CASE e \in ToSet(Older(text[w]))
        BY <4>3, <2>5
      <4> QED BY <4>1, <4>2, <4>3, <2>2
    <3>3. dropped \subseteq dropped'
      BY <2>5
    <3> QED BY <3>1, <3>2, <3>3, <2>5, NothingElseGoes
  <2> QED BY <2>5, <2>7, <2>9, <2>10, <1>4 DEF OneAtWork
<1>11. ASSUME NEW w \in Writer, OpenLog(w) PROVE OneAtWork'
  <2> DEFINE s == IF current = 0 THEN <<>> ELSE files[current]
  <2>0. /\ OpenCurrent(w, s) /\ s \in Contents
        /\ UNCHANGED <<text, issued, dropped, clears, kills>>
    <3>1. <<>> \in Contents
      BY DEF Contents
    <3> QED BY <1>1, <1>11, <3>1 DEF OpenLog
  <2>1. /\ DOMAIN files' = DOMAIN files \cup {current'}
        /\ files'[current'] = IF current = 0 THEN <<>> ELSE s
        /\ current # 0 => current' = current
        /\ current = 0 => current' \notin DOMAIN files
        /\ \A f \in DOMAIN files : f # current' => files'[f] = files[f]
    BY <2>0, OpenTypes
  <2>2. at[w] = "open" /\ at'[w] = "write" /\ text[w] = <<>> /\ text'[w] = <<>>
    BY <1>1, <1>3, <1>11, <2>0 DEF OpenLog, Goes, TextIsRead
  <2>3. TextIsRead(w)'
    <3>1. SoFar(text[w])'
      BY <2>2, NothingInEmpty DEF SoFar
    <3> QED BY <3>1, <2>2 DEF TextIsRead
  <2>4. \A v \in Writer : TextIsRead(v)'
    BY <2>3, <1>5
  <2>5. \A f \in DOMAIN files : f \in DOMAIN files' /\ files'[f] = files[f]
    BY <2>1
  <2>6. files'[current'] = <<>> \/ (current' \in DOMAIN files /\ files'[current'] = files[current'])
    BY <2>1, <1>1
  <2>7. \A f \in DOMAIN files' : SoFar(files[f])'
    BY <1>2, <1>6, <2>0, <2>1, <2>5, <2>6 DEF SoFar
  <2>8. OnDisk \subseteq OnDisk'
    BY <2>5 DEF OnDisk
  <2>9. InHand' = InHand
    BY <2>0 DEF InHand
  <2>10. OnlyTheOldestGo => OnlyTheOldestGo'
    BY <2>0, <2>8, <2>9, NothingElseGoes
  <2> QED BY <2>0, <2>4, <2>7, <2>10, <1>4 DEF OneAtWork
<1>12. ASSUME NEW w \in Writer, WriteEntry(w) PROVE OneAtWork'
  <2> DEFINE h == handle[w]
             s == Append(files[h], issued + 1)
  <2>1. at[w] = "write" /\ h \in 1..Len(files) /\ text[w] = <<>>
    BY <1>0, <1>1, <1>3, <1>12 DEF WriteEntry, HandleIsOpen, TextIsRead
  <2>2. /\ issued' = issued + 1 /\ files' = [files EXCEPT ![h] = s]
        /\ at'[w] = "idle" /\ text'[w] = <<>> /\ UNCHANGED <<current, dropped, clears, kills>>
    BY <1>1, <1>12 DEF WriteEntry, Leaves, Goes
  <2>3. issued + 1 \in LogEntry
    BY <1>0, <1>12 DEF LogAssumption, WriteEntry, LogTypeOK, LogEntry
  <2>4. /\ s \in Contents /\ Rising(s) /\ Within(s, issued + 1)
        /\ ToSet(s) = ToSet(files[h]) \cup {issued + 1}
    BY <1>1, <1>2, <1>4, <2>1, <2>3, EntryAdded DEF SoFar
  <2> HIDE DEF s
  <2>5. /\ DOMAIN files' = DOMAIN files /\ files'[h] = s
        /\ \A f \in DOMAIN files : f # h => files'[f] = files[f]
    BY <1>1, <2>1, <2>2, <2>4, FileReplaced
  <2>6. TextIsRead(w)'
    <3>1. SoFar(text[w])'
      BY <2>2, NothingInEmpty DEF SoFar
    <3> QED BY <3>1, <2>2 DEF TextIsRead
  <2>7. \A v \in Writer : TextIsRead(v)'
    BY <2>6, <1>5
  <2>8. ASSUME NEW f \in DOMAIN files' PROVE SoFar(files[f])'
    <3>1. CASE f = h
      BY <3>1, <2>2, <2>4, <2>5 DEF SoFar
    <3>2. CASE f # h
      <4>1. files'[f] = files[f] /\ files[f] \in Contents /\ Rising(files[f]) /\ Within(files[f], issued)
        BY <3>2, <2>5, <1>1, <1>2 DEF SoFar
      <4>2. Within(files[f], issued + 1)
        BY <4>1, <1>4, StillWithin
      <4> QED BY <4>1, <4>2, <2>2 DEF SoFar
    <3> QED BY <3>1, <3>2
  <2>9. OnlyTheOldestGo => OnlyTheOldestGo'
    <3>0. h \in DOMAIN files
      BY <1>1, <2>1
    <3>1. ASSUME NEW e \in OnDisk PROVE e \in OnDisk'
      <4>1. PICK f \in DOMAIN files : e \in ToSet(files[f])
        BY DEF OnDisk
      <4>2. f \in DOMAIN files' /\ e \in ToSet(files'[f])
        BY <4>1, <2>4, <2>5
      <4> QED BY <4>2 DEF OnDisk
    <3>2. issued + 1 \in OnDisk'
      BY <3>0, <2>4, <2>5 DEF OnDisk
    <3>3. InHand = {}
      BY <2>1, <1>5, NothingInEmpty DEF InHand
    <3>4. \A e \in 1..issued' : e \in 1..issued \/ e = issued + 1
      BY <1>4, <2>2
    <3> QED BY <3>1, <3>2, <3>3, <3>4, <2>2 DEF OnlyTheOldestGo
  <2> QED BY <2>2, <2>7, <2>8, <2>9, <1>4 DEF OneAtWork
<1>13. CASE Archive
  <2>1. current' = 0 /\ UNCHANGED <<files, at, handle, text, issued, dropped, kills>>
    BY <1>13 DEF Archive
  <2>2. \A v \in Writer : TextIsRead(v)'
    BY <1>3, <2>1 DEF TextIsRead, SoFar
  <2>3. \A f \in DOMAIN files' : SoFar(files[f])'
    BY <1>2, <2>1 DEF SoFar
  <2>4. OnlyTheOldestGo => OnlyTheOldestGo'
    BY <2>1 DEF OnlyTheOldestGo, OnDisk, InHand
  <2> QED BY <2>1, <2>2, <2>3, <2>4, <1>4 DEF OneAtWork
<1>14. ASSUME NEW w \in Writer, KillWriter(w) PROVE OneAtWork'
  <2>1. /\ at'[w] = "idle" /\ text'[w] = <<>> /\ kills' = kills + 1
        /\ UNCHANGED <<files, current, issued, dropped, clears>>
    BY <1>1, <1>14 DEF KillWriter, Leaves, Goes
  <2>2. TextIsRead(w)'
    <3>1. SoFar(text[w])'
      BY <2>1, NothingInEmpty DEF SoFar
    <3> QED BY <3>1, <2>1 DEF TextIsRead
  <2>3. \A v \in Writer : TextIsRead(v)'
    BY <2>2, <1>5
  <2>4. \A f \in DOMAIN files' : SoFar(files[f])'
    BY <1>2, <2>1 DEF SoFar
  <2>5. kills' # 0
    BY <1>4, <2>1
  <2> QED BY <2>3, <2>4, <2>5 DEF OneAtWork
<1>15. CASE UNCHANGED logVars
  <2>1. UNCHANGED <<files, current, at, handle, text, issued, dropped, kills>>
    BY <1>15 DEF logVars
  <2>2. \A v \in Writer : TextIsRead(v)'
    BY <1>3, <2>1 DEF TextIsRead, SoFar
  <2>3. \A f \in DOMAIN files' : SoFar(files[f])'
    BY <1>2, <2>1 DEF SoFar
  <2>4. OnlyTheOldestGo => OnlyTheOldestGo'
    BY <2>1 DEF OnlyTheOldestGo, OnDisk, InHand
  <2> QED BY <2>1, <2>2, <2>3, <2>4, <1>4 DEF OneAtWork
<1> QED
  BY <1>7, <1>8, <1>9, <1>10, <1>11, <1>12, <1>13, <1>14, <1>15 DEF LogNext, LogDone

(* However many surfaces append, whatever the size of the log: no step     *)
(* takes it out of its types.  With one surface, killed at any moment and  *)
(* its log cleared at any moment, what is in a log is in the order it      *)
(* happened, also after a rotation; and until a call is cut short whatever *)
(* was appended is on disk, in the hand of the rotation, or in a half that *)
(* was rotated out (journal.rs:950, journal.rs:1118).                      *)
THEOREM LogStands == ASSUME LogAssumption PROVE LogSpec => []LogHolds
<1>1. LogInit => LogInv
  BY LogInvStarts
<1>2. LogInv /\ [LogNext]_logVars => LogInv'
  <2> SUFFICES ASSUME LogInv, [LogNext]_logVars PROVE LogInv'
    OBVIOUS
  <2>1. LogTypeOK' /\ HandleIsOpen'
    BY LogTypeStep
  <2>2. OneWriter => OneAtWork'
    BY OneStep
  <2> QED BY <2>1, <2>2 DEF LogInv, OneWriter
<1>3. LogInv => LogHolds
  BY DEF LogInv, LogHolds, OneAtWork, InOrder, SoFar, Rising
<1> QED BY <1>1, <1>2, <1>3, PTL DEF LogSpec


-----------------------------------------------------------------------------
(* CaptureGrant.  Only Linux has a helper and capabilities to ask for, and *)
(* there every host can open a wire; so what reads is on a host that can.  *)
GrantTyped ==
  /\ host \in [platform : {"linux", "macos", "windows"}, driver : BOOLEAN, backend : BOOLEAN]
  /\ helperFile \in [there : BOOLEAN, safe : BOOLEAN, open : BOOLEAN, cap : BOOLEAN]
  /\ binary \in BOOLEAN /\ raw \in BOOLEAN
  /\ choice \in {"unset", "on", "off"}
  /\ reader.state \in {"none", "reading", "ended", "failed"}
LinuxHasAWire == Linux => host.backend
OnlyLinuxHasCapabilities == ~Linux => ~helperFile.there /\ ~binary /\ ~raw
AskedOnLinux == task # NoTask => Linux /\ task.does \in {"grant", "revoke"}
ReadsOnAWire == reader.state = "reading" => host.backend
GrantInv ==
  GrantTyped /\ LinuxHasAWire /\ OnlyLinuxHasCapabilities /\ AskedOnLinux /\ ReadsOnAWire

(* What State says of the host decides how a capture begins.               *)
Decides ==
  /\ State \in {"available", "needs_grant", "needs_restart", "needs_install", "unsupported"}
  /\ State = "available" => Begun.state = "reading"
  /\ State = "needs_restart" => ~Installed /\ binary
  /\ State = "unsupported" => ~host.backend \/ Distrusted
  /\ State = "needs_grant" => Linux
  /\ State \in {"needs_grant", "unsupported"} /\ ~Distrusted => Begun.state # "reading"

LEMMA StateTells == GrantInv => Decides
<1> SUFFICES ASSUME GrantInv
             PROVE  Decides
  OBVIOUS
<1> USE DEF GrantInv, GrantTyped, LinuxHasAWire, OnlyLinuxHasCapabilities, Linux, Installed, Usable,
            Distrusted, Decides
<1>1. CASE ~host.backend \/ (Installed /\ ~helperFile.safe)
  <2>1. State = "unsupported"
    BY <1>1 DEF State
  <2> QED
    BY <1>1, <2>1 DEF Begun
<1>2. CASE host.backend /\ Usable
  <2>1. State = IF helperFile.cap THEN "available" ELSE "needs_grant"
    BY <1>2 DEF State
  <2> QED
    BY <1>2, <2>1 DEF Begun
<1>3. CASE host.backend /\ Linux /\ ~Installed
  <2>1. State = IF raw THEN "available" ELSE IF binary THEN "needs_restart" ELSE "needs_grant"
    BY <1>3 DEF State
  <2> QED
    BY <1>3, <2>1 DEF Begun
<1>4. CASE host.backend /\ ~Linux /\ ~Installed
  <2>1. State = IF host.platform = "windows" /\ ~host.driver THEN "needs_install" ELSE "available"
    BY <1>4 DEF State
  <2> QED
    BY <1>4, <2>1 DEF Begun
<1> QED
  BY <1>1, <1>2, <1>3, <1>4

(* A capture that begins to read is on a host that can.                    *)
LEMMA BegunOnAWire ==
  ASSUME GrantInv
  PROVE  /\ Begun.state \in {"none", "reading", "ended", "failed"}
         /\ Begun.state = "reading" => host.backend
<1>1. State = "available" => host.backend
  <2> SUFFICES ASSUME ~host.backend
               PROVE  State # "available"
    BY DEF GrantInv, GrantTyped
  <2>1. State = "unsupported"
    BY DEF State, Linux, Usable, Installed
  <2> QED
    BY <2>1
<1> QED
  BY <1>1 DEF Begun, GrantInv, GrantTyped, LinuxHasAWire

LEMMA HelpersTyped ==
  /\ NoHelper \in [there : BOOLEAN, safe : BOOLEAN, open : BOOLEAN, cap : BOOLEAN] /\ ~NoHelper.there
  /\ [NoHelper EXCEPT !.there = TRUE] \in [there : BOOLEAN, safe : BOOLEAN, open : BOOLEAN, cap : BOOLEAN]
BY DEF NoHelper

LEMMA GrantStarts ==
  ASSUME GrantAssumption, GrantInit
  PROVE  GrantInv
<1>1. helperFile = NoHelper \/ Linux
  BY DEF GrantInit, Linux
<1>2. reader.state = "none"
  BY DEF GrantInit, NoReader
<1>3. host \in [platform : {"linux", "macos", "windows"}, driver : BOOLEAN, backend : BOOLEAN]
  BY DEF GrantInit, GrantAssumption
<1>4. GrantTyped
  BY <1>2, <1>3 DEF GrantInit, GrantTyped
<1>5. LinuxHasAWire /\ OnlyLinuxHasCapabilities
  BY <1>1, HelpersTyped DEF GrantInit, LinuxHasAWire, OnlyLinuxHasCapabilities, Linux
<1> QED
  BY <1>2, <1>4, <1>5 DEF GrantInit, GrantInv, AskedOnLinux, ReadsOnAWire

LEMMA GrantIsKept ==
  ASSUME GrantAssumption, GrantInv, [GrantNext]_grantVars
  PROVE  GrantInv'
<1> USE DEF GrantInv, GrantTyped, LinuxHasAWire, OnlyLinuxHasCapabilities, AskedOnLinux, ReadsOnAWire,
            Linux
<1>1. CASE SweepStarts
  BY <1>1, BegunOnAWire DEF SweepStarts, hostVars, interfaceVars
<1>2. CASE Restart
  BY <1>2 DEF Restart, hostVars, NoReader, NoTask
<1>3. CASE HostChanges
  <2>1. helperFile' \in [there : BOOLEAN, safe : BOOLEAN, open : BOOLEAN, cap : BOOLEAN]
    BY <1>3, HelpersTyped DEF HostChanges
  <2> QED
    BY <1>3, <2>1 DEF HostChanges, interfaceVars
<1>4. CASE AskCapture \/ CancelCapture
  BY <1>4 DEF AskCapture, CancelCapture, hostVars
<1>5. CASE StopCapture
  BY <1>5 DEF StopCapture, hostVars, NoReader
<1>6. CASE StartCapture
  <2>1. /\ host' = host /\ helperFile' = helperFile /\ binary' = binary /\ raw' = raw
        /\ task' = task /\ choice' = "on" /\ reader' = Begun
    BY <1>6 DEF StartCapture, hostVars
  <2>2. /\ Begun.state \in {"none", "reading", "ended", "failed"}
        /\ Begun.state = "reading" => host.backend
    BY BegunOnAWire
  <2> QED
    BY <2>1, <2>2
<1>7. ASSUME NEW does \in {"grant", "revoke"}, Ask(does)
      PROVE  GrantInv'
  <2>1. Linux
    BY <1>7, StateTells DEF Decides, Ask, Buttons
  <2>2. task'.does \in {"grant", "revoke"}
    BY <1>7 DEF Ask
  <2>3. /\ host' = host /\ helperFile' = helperFile /\ binary' = binary /\ raw' = raw
        /\ choice' = choice /\ reader' = reader
    BY <1>7 DEF Ask, hostVars
  <2> QED
    BY <2>1, <2>2, <2>3
<1>8. CASE Elevated
  <2>1. /\ helperFile' \in [there : BOOLEAN, safe : BOOLEAN, open : BOOLEAN, cap : BOOLEAN]
        /\ binary' \in BOOLEAN /\ host' = host /\ raw' = raw
    BY <1>8 DEF Elevated, hostVars
  <2>2. task' = NoTask /\ choice' = choice /\ reader' = reader /\ Linux
    BY <1>8 DEF Elevated, Finish
  <2> QED
    BY <2>1, <2>2
<1>9. CASE Refused
  BY <1>9 DEF Refused, Finish, hostVars
<1>10. CASE UNCHANGED grantVars
  BY <1>10 DEF grantVars, hostVars, interfaceVars
<1> QED
  BY <1>1, <1>2, <1>3, <1>4, <1>5, <1>6, <1>7, <1>8, <1>9, <1>10 DEF GrantNext

(* What is said holds of every state of the invariant.                     *)
LEMMA WhatIsSaidHolds ==
  ASSUME GrantInv
  PROVE  PermissionHolds
<1>1. OnIsOn
  <2>1. Indicator = "on" => reader.state = "reading"
    BY StateTells DEF Decides, Indicator, GrantInv, GrantTyped
  <2>2. reader.state = "reading" /\ ~Distrusted => State # "unsupported" /\ "turn off" \in Buttons
    BY StateTells DEF Decides, Buttons, GrantInv, ReadsOnAWire
  <2> QED
    BY <2>1, <2>2 DEF OnIsOn
<1>2. RestartHelps
  BY StateTells DEF Decides, RestartHelps
<1>3. WideIsTold
  BY DEF WideIsTold, Exposure, Installed
<1> QED
  BY <1>1, <1>2, <1>3 DEF PermissionHolds

(* An attempt is over by Elevated, Refused or a restart, and only the      *)
(* first says that it succeeded, after it looked.                          *)
LEMMA SuccessWasSeen ==
  ASSUME GrantInv, GrantInv', [GrantNext]_grantVars
  PROVE  AttemptsAreHonest
<1> SUFFICES ASSUME task # NoTask, task' = NoTask, ~Distrusted
             PROVE  /\ outcome' = "enabled" => (Begun.state)' = "reading" \/ binary'
                    /\ outcome' = "removed" => (Begun.state)' # "reading"
  BY DEF AttemptsAreHonest
<1>1. CASE Elevated
  <2>1. ~Distrusted'
    BY <1>1 DEF Elevated, hostVars, Distrusted, Installed, GrantInv, GrantTyped
  <2>2. outcome' = "enabled" => State' \in {"available", "needs_restart"}
    BY <1>1 DEF Elevated, Finish, Done, Enabled, GrantInv, AskedOnLinux
  <2>3. outcome' = "removed" => State' \in {"needs_grant", "unsupported"}
    BY <1>1 DEF Elevated, Finish, Done, Removed, GrantInv, AskedOnLinux
  <2>4. GrantInv' => Decides'
    BY StateTells, PTL
  <2> QED
    BY <2>1, <2>2, <2>3, <2>4 DEF Decides
<1>2. CASE Refused
  BY <1>2 DEF Refused, Finish
<1>3. CASE Restart
  BY <1>3 DEF Restart
<1>4. CASE ~Elevated /\ ~Refused /\ ~Restart
  BY <1>4 DEF GrantNext, SweepStarts, HostChanges, AskCapture, CancelCapture, StopCapture, StartCapture,
              Ask, interfaceVars, grantVars
<1> QED
  BY <1>1, <1>2, <1>3, <1>4

(* mod.rs:443-453, platform.rs:54-63: what the interface says of the       *)
(* permission to capture is what the next capture meets, whatever others   *)
(* change on the host meanwhile.                                           *)
THEOREM PermissionIsTold ==
  ASSUME GrantAssumption
  PROVE  GrantSpec => PermissionStands
<1>1. GrantInit => GrantInv
  BY GrantStarts
<1>2. GrantInv /\ [GrantNext]_grantVars => GrantInv'
  BY GrantIsKept
<1>3. GrantInv => PermissionHolds
  BY WhatIsSaidHolds
<1>4. GrantInv /\ GrantInv' /\ [GrantNext]_grantVars => AttemptsAreHonest
  BY SuccessWasSeen
<1> QED
  BY <1>1, <1>2, <1>3, <1>4, PTL DEF GrantSpec, PermissionStands

(***************************************************************************)
(* Activity.  Its orders are lexicographic, and total on the events.       *)
(***************************************************************************)
Tuples == [1..6 -> Int]
Kinds == DOMAIN KindRank
Events == [pid : Nat, start : Nat, actor : Nat, at : Nat, kind : Kinds, what : Nat]

LEMMA LeastOfNumbers ==
  ASSUME NEW T \in SUBSET Nat, T # {}
  PROVE  \E x \in T : \A y \in T : x <= y
<1> DEFINE R == OpToRel(<, Nat)
<1>1. IsWellFoundedOn(R, Nat)
  BY ONLY NatLessThanWellFounded, Zenon
<1>2. \A x, y \in Nat : x < y => <<x, y>> \in R
  BY SMT DEF OpToRel
<1> HIDE DEF R
<1>3. PICK x \in T : \A y \in T : ~ (<<y, x>> \in R)
  BY <1>1, WFMin, Zenon
<1>4. x \in Nat /\ \A y \in T : y \in Nat /\ ~(y < x)
  BY <1>2, <1>3
<1> QED
  BY <1>4

LEMMA PrecedesIsTotal ==
  ASSUME NEW s \in Tuples, NEW t \in Tuples, s # t
  PROVE  Precedes(s, t) \/ Precedes(t, s)
<1> DEFINE D == {i \in 1..6 : s[i] # t[i]}
<1>1. D # {} /\ D \in SUBSET Nat /\ DOMAIN s = 1..6 /\ DOMAIN t = 1..6
  BY DEF Tuples
<1>2. PICK i \in D : \A j \in D : i <= j
  BY <1>1, LeastOfNumbers
<1>3. i \in 1..6 /\ s[i] # t[i] /\ s[i] \in Int /\ t[i] \in Int
  BY <1>2 DEF Tuples
<1>4. \A j \in 1..(i - 1) : s[j] = t[j]
  BY <1>2, <1>3
<1>5. s[i] < t[i] \/ t[i] < s[i]
  BY <1>3
<1> QED
  BY <1>1, <1>3, <1>4, <1>5 DEF Precedes

LEMMA PrecedesIsStrict ==
  ASSUME NEW s \in Tuples, NEW t \in Tuples, NEW u \in Tuples
  PROVE  /\ ~Precedes(s, s)
         /\ Precedes(s, t) /\ Precedes(t, u) => Precedes(s, u)
<1>1. DOMAIN s = 1..6 /\ DOMAIN t = 1..6 /\ DOMAIN u = 1..6
  BY DEF Tuples
<1>2. \A i \in 1..6 : s[i] \in Int /\ t[i] \in Int /\ u[i] \in Int
  BY DEF Tuples
<1>3. ~Precedes(s, s)
  BY <1>1, <1>2 DEF Precedes
<1>4. ASSUME Precedes(s, t), Precedes(t, u)
      PROVE  Precedes(s, u)
  <2>1. PICK i \in 1..6 : s[i] < t[i] /\ \A j \in 1..(i - 1) : s[j] = t[j]
    BY <1>1, <1>4 DEF Precedes
  <2>2. PICK k \in 1..6 : t[k] < u[k] /\ \A j \in 1..(k - 1) : t[j] = u[j]
    BY <1>1, <1>4 DEF Precedes
  <2>3. CASE i <= k
    <3>1. s[i] < u[i]
      BY <2>1, <2>2, <2>3, <1>2
    <3>2. \A j \in 1..(i - 1) : s[j] = u[j]
      BY <2>1, <2>2, <2>3
    <3> QED
      BY <3>1, <3>2, <1>1 DEF Precedes
  <2>4. CASE k < i
    <3>1. s[k] < u[k]
      BY <2>1, <2>2, <2>4, <1>2
    <3>2. \A j \in 1..(k - 1) : s[j] = u[j]
      BY <2>1, <2>2, <2>4
    <3> QED
      BY <3>1, <3>2, <1>1 DEF Precedes
  <2> QED
    BY <2>3, <2>4
<1> QED
  BY <1>3, <1>4

ByName(e) == <<e.at, e.pid, e.start, KindRank[e.kind], e.actor, e.what>>
ByDraft(e) == <<e.pid, e.start, e.actor, e.at, DraftRank[e.kind], e.what>>

LEMMA KeysAreOwn ==
  ASSUME NEW e \in Events, NEW f \in Events
  PROVE  /\ ByName(e) \in Tuples /\ ByDraft(e) \in Tuples
         /\ e # f => ByName(e) # ByName(f) /\ ByDraft(e) # ByDraft(f)
<1>1. e.kind \in Kinds /\ f.kind \in Kinds
  BY DEF Events
<1>2. /\ KindRank[e.kind] \in Nat /\ DraftRank[e.kind] \in Nat
      /\ e.kind # f.kind => KindRank[e.kind] # KindRank[f.kind] /\ DraftRank[e.kind] # DraftRank[f.kind]
  BY <1>1 DEF Kinds, KindRank, DraftRank
<1>3. /\ e.pid \in Nat /\ e.start \in Nat /\ e.actor \in Nat /\ e.at \in Nat /\ e.what \in Nat
      /\ f.pid \in Nat /\ f.start \in Nat /\ f.actor \in Nat /\ f.at \in Nat /\ f.what \in Nat
  BY DEF Events
<1>4. e = [pid |-> e.pid, start |-> e.start, actor |-> e.actor, at |-> e.at, kind |-> e.kind, what |-> e.what]
  BY DEF Events
<1>5. f = [pid |-> f.pid, start |-> f.start, actor |-> f.actor, at |-> f.at, kind |-> f.kind, what |-> f.what]
  BY DEF Events
<1>6. ByName(e) \in Tuples /\ ByDraft(e) \in Tuples
  BY <1>2, <1>3 DEF ByName, ByDraft, Tuples
<1>7. ASSUME ByName(e) = ByName(f) PROVE e = f
  <2>1. /\ e.at = f.at /\ e.pid = f.pid /\ e.start = f.start /\ e.actor = f.actor /\ e.what = f.what
        /\ KindRank[e.kind] = KindRank[f.kind]
    BY <1>7 DEF ByName
  <2> QED
    BY <2>1, <1>2, <1>4, <1>5
<1>8. ASSUME ByDraft(e) = ByDraft(f) PROVE e = f
  <2>1. /\ e.at = f.at /\ e.pid = f.pid /\ e.start = f.start /\ e.actor = f.actor /\ e.what = f.what
        /\ DraftRank[e.kind] = DraftRank[f.kind]
    BY <1>8 DEF ByDraft
  <2> QED
    BY <2>1, <1>2, <1>4, <1>5
<1> QED
  BY <1>6, <1>7, <1>8

(***************************************************************************)
(* A strict total order of a finite set, as its pairs: how many come ahead *)
(* of one tells its place, one is first, and of those with all but M ahead *)
(* of them there are no more than M.                                       *)
(***************************************************************************)
Orders(R, S) ==
  \A a, b, c \in S :
    /\ <<a, a>> \notin R
    /\ a # b => <<a, b>> \in R \/ <<b, a>> \in R
    /\ <<a, b>> \in R /\ <<b, c>> \in R => <<a, c>> \in R
Ahead(R, S, e) == {f \in S : <<f, e>> \in R}

LEMMA AheadCounts ==
  ASSUME NEW S, IsFiniteSet(S), NEW R, Orders(R, S), NEW e \in S
  PROVE  /\ IsFiniteSet(Ahead(R, S, e)) /\ Cardinality(Ahead(R, S, e)) \in Nat
         /\ Cardinality(Ahead(R, S, e)) < Cardinality(S)
         /\ Cardinality(S) \in Nat
         /\ \A f \in S : <<e, f>> \in R =>
              Cardinality(Ahead(R, S, e)) < Cardinality(Ahead(R, S, f))
<1>1. /\ IsFiniteSet(Ahead(R, S, e)) /\ Cardinality(Ahead(R, S, e)) \in Nat
      /\ Cardinality(S) \in Nat /\ Cardinality(Ahead(R, S, e)) <= Cardinality(S)
  BY FS_Subset, FS_CardinalityType DEF Ahead
<1>2. e \notin Ahead(R, S, e)
  BY DEF Ahead, Orders
<1>3. Cardinality(Ahead(R, S, e)) # Cardinality(S)
  BY <1>2, FS_Subset DEF Ahead
<1>4. ASSUME NEW f \in S, <<e, f>> \in R
      PROVE  Cardinality(Ahead(R, S, e)) < Cardinality(Ahead(R, S, f))
  <2>1. Ahead(R, S, e) \subseteq Ahead(R, S, f) /\ e \in Ahead(R, S, f)
    BY <1>4 DEF Ahead, Orders
  <2>2. IsFiniteSet(Ahead(R, S, f)) /\ Cardinality(Ahead(R, S, f)) \in Nat
    BY FS_Subset, FS_CardinalityType DEF Ahead
  <2>3. /\ Cardinality(Ahead(R, S, e)) <= Cardinality(Ahead(R, S, f))
        /\ Cardinality(Ahead(R, S, e)) # Cardinality(Ahead(R, S, f))
    BY <2>1, <2>2, <1>2, FS_Subset
  <2> QED
    BY <2>2, <2>3, <1>1
<1> QED
  BY <1>1, <1>3, <1>4

LEMMA OneIsFirst ==
  ASSUME NEW S, IsFiniteSet(S), S # {}, NEW R, Orders(R, S)
  PROVE  \E e \in S : \A f \in S : f = e \/ <<e, f>> \in R
<1> DEFINE places == {Cardinality(Ahead(R, S, e)) : e \in S}
<1>1. places \in SUBSET Nat /\ places # {}
  BY AheadCounts
<1>2. PICK n \in places : \A m \in places : n <= m
  BY <1>1, LeastOfNumbers
<1>3. PICK e \in S : n = Cardinality(Ahead(R, S, e))
  BY <1>2
<1>4. ASSUME NEW f \in S, <<f, e>> \in R PROVE FALSE
  <2>1. Cardinality(Ahead(R, S, f)) < Cardinality(Ahead(R, S, e))
    BY <1>4, AheadCounts
  <2>2. Cardinality(Ahead(R, S, f)) \in places
    BY <1>4
  <2> QED
    BY <2>1, <2>2, <1>1, <1>2, <1>3
<1> QED
  BY <1>4 DEF Orders

LEMMA LastAreFew ==
  ASSUME NEW S, IsFiniteSet(S), NEW R, Orders(R, S), NEW M \in Nat
  PROVE  LET last == {e \in S : Cardinality(Ahead(R, S, e)) >= Cardinality(S) - M}
         IN  IsFiniteSet(last) /\ Cardinality(last) <= M
<1> DEFINE last == {e \in S : Cardinality(Ahead(R, S, e)) >= Cardinality(S) - M}
           n == Cardinality(S)
           places == (n - M)..(n - 1)
           f == [e \in last |-> Cardinality(Ahead(R, S, e))]
<1>1. n \in Nat
  BY FS_CardinalityType
<1>2. \A e \in last : f[e] \in places
  BY AheadCounts, <1>1
<1>3. \A e, g \in last : f[e] = f[g] => e = g
  <2> TAKE e, g \in last
  <2>1. e # g => <<e, g>> \in R \/ <<g, e>> \in R
    BY DEF Orders
  <2>2. /\ <<e, g>> \in R => f[e] < f[g]
        /\ <<g, e>> \in R => f[g] < f[e]
        /\ f[e] \in Nat /\ f[g] \in Nat
    BY AheadCounts
  <2> QED
    BY <2>1, <2>2
<1>4. f \in Injection(last, places)
  BY <1>2, <1>3 DEF Injection, IsInjective
<1>5. IsFiniteSet(places) /\ Cardinality(places) = M
  <2> HIDE DEF n
  <2>1. n - M \in Int /\ n - 1 \in Int
    BY <1>1
  <2>2. IsFiniteSet(places) /\ Cardinality(places) = IF n - M > n - 1 THEN 0 ELSE (n - 1) - (n - M) + 1
    BY <2>1, FS_Interval
  <2> QED
    BY <2>2, <1>1
<1>6. IsFiniteSet(last) /\ Cardinality(last) <= Cardinality(places)
  BY <1>4, <1>5, FS_Injection
<1> QED
  BY <1>5, <1>6
-----------------------------------------------------------------------------
ByBefore(S) == {p \in S \X S : Before(p[1], p[2])}
ByLastDraft(S) == {p \in S \X S : DraftedBefore(p[2], p[1])}

LEMMA EventsAreOrdered ==
  ASSUME NEW S \in SUBSET Events
  PROVE  Orders(ByBefore(S), S) /\ Orders(ByLastDraft(S), S)
<1>1. \A e, f \in S : /\ Before(e, f) = Precedes(ByName(e), ByName(f))
                      /\ DraftedBefore(e, f) = Precedes(ByDraft(e), ByDraft(f))
  BY DEF Before, DraftedBefore, ByName, ByDraft
<1>2. \A e, f \in S : <<e, f>> \in ByBefore(S) <=> Precedes(ByName(e), ByName(f))
  BY <1>1 DEF ByBefore
<1>3. \A e, f \in S : <<e, f>> \in ByLastDraft(S) <=> Precedes(ByDraft(f), ByDraft(e))
  BY <1>1 DEF ByLastDraft
<1>4. SUFFICES ASSUME NEW a \in S, NEW b \in S, NEW c \in S
      PROVE  /\ ~Precedes(ByName(a), ByName(a)) /\ ~Precedes(ByDraft(a), ByDraft(a))
             /\ a # b => /\ Precedes(ByName(a), ByName(b)) \/ Precedes(ByName(b), ByName(a))
                         /\ Precedes(ByDraft(a), ByDraft(b)) \/ Precedes(ByDraft(b), ByDraft(a))
             /\ Precedes(ByName(a), ByName(b)) /\ Precedes(ByName(b), ByName(c))
                  => Precedes(ByName(a), ByName(c))
             /\ Precedes(ByDraft(c), ByDraft(b)) /\ Precedes(ByDraft(b), ByDraft(a))
                  => Precedes(ByDraft(c), ByDraft(a))
  BY <1>2, <1>3 DEF Orders
<1>5. /\ ByName(a) \in Tuples /\ ByName(b) \in Tuples /\ ByName(c) \in Tuples
      /\ ByDraft(a) \in Tuples /\ ByDraft(b) \in Tuples /\ ByDraft(c) \in Tuples
      /\ a # b => ByName(a) # ByName(b) /\ ByDraft(a) # ByDraft(b)
  BY KeysAreOwn
<1> QED
  BY <1>5, PrecedesIsTotal, PrecedesIsStrict

LEMMA EarliestIsThere ==
  ASSUME NEW S \in SUBSET Events, IsFiniteSet(S), S # {}
  PROVE  Earliest(S) \in S
<1> DEFINE R == ByBefore(S)
<1>1. Orders(R, S)
  BY EventsAreOrdered
<1>2. \A e, f \in S : <<e, f>> \in R => Before(e, f)
  BY DEF ByBefore
<1> HIDE DEF R
<1>3. \E e \in S : \A f \in S : f = e \/ <<e, f>> \in R
  BY <1>1, OneIsFirst
<1>4. \E e \in S : \A f \in S : f = e \/ Before(e, f)
  BY <1>2, <1>3
<1> QED
  BY <1>4, Zenon DEF Earliest

LEMMA LargestOfNumbers ==
  ASSUME NEW T \in SUBSET Nat, IsFiniteSet(T), T # {}
  PROVE  Max(T) \in T /\ \A y \in T : y <= Max(T)
<1> DEFINE R == {p \in T \X T : p[1] > p[2]}
<1>1. \A a, b \in T : <<a, b>> \in R <=> a > b
  OBVIOUS
<1> HIDE DEF R
<1>2. Orders(R, T)
  <2> SUFFICES ASSUME NEW a \in T, NEW b \in T, NEW c \in T
      PROVE  /\ <<a, a>> \notin R
             /\ a # b => <<a, b>> \in R \/ <<b, a>> \in R
             /\ <<a, b>> \in R /\ <<b, c>> \in R => <<a, c>> \in R
    BY DEF Orders
  <2>1. a \in Nat /\ b \in Nat /\ c \in Nat
    OBVIOUS
  <2> QED
    BY <1>1, <2>1
<1>3. PICK x \in T : \A y \in T : y = x \/ <<x, y>> \in R
  BY <1>2, OneIsFirst
<1>4. \A y \in T : x >= y
  <2> TAKE y \in T
  <2>1. x \in Nat /\ y \in Nat /\ (y = x \/ x > y)
    BY <1>1, <1>3
  <2> QED
    BY <2>1
<1>5. \E z \in T : \A y \in T : z >= y
  BY <1>4
<1> QED
  BY <1>5 DEF Max

-----------------------------------------------------------------------------
(* What is dropped leaves room, and is of what was there.                  *)
LEMMA BoundedFits ==
  ASSUME MaxEvents \in Nat, NEW S \in SUBSET Events, IsFiniteSet(S), NEW found
  PROVE  /\ Bounded(S, found) \subseteq S /\ IsFiniteSet(Bounded(S, found))
         /\ Cardinality(Bounded(S, found)) <= MaxEvents
<1> DEFINE class(e) == CASE e.kind = "started" -> 3
                         [] e.kind # "started" /\ e \in found -> 2
                         [] OTHER -> 1
           R == {p \in S \X S : \/ class(p[1]) < class(p[2])
                                \/ class(p[1]) = class(p[2]) /\ Before(p[1], p[2])}
           last == {e \in S : Cardinality(Ahead(R, S, e)) >= Cardinality(S) - MaxEvents}
<1>1. \A e \in S : class(e) \in Nat
  OBVIOUS
<1>2. \A e, f \in S : <<e, f>> \in R <=> \/ class(e) < class(f)
                                         \/ class(e) = class(f) /\ Before(e, f)
  OBVIOUS
<1>3. \A e \in S : Ahead(R, S, e) = {f \in S : \/ class(f) < class(e)
                                               \/ class(f) = class(e) /\ Before(f, e)}
  BY <1>2 DEF Ahead
<1>4. Bounded(S, found) = last
  BY <1>3 DEF Bounded
<1> HIDE DEF class, R
<1>5. \A e, f \in S : <<e, f>> \in ByBefore(S) <=> Before(e, f)
  BY DEF ByBefore
<1>6. Orders(R, S)
  <2> SUFFICES ASSUME NEW a \in S, NEW b \in S, NEW c \in S
      PROVE  /\ <<a, a>> \notin R
             /\ a # b => <<a, b>> \in R \/ <<b, a>> \in R
             /\ <<a, b>> \in R /\ <<b, c>> \in R => <<a, c>> \in R
    BY DEF Orders
  <2>1. /\ ~Before(a, a)
        /\ a # b => Before(a, b) \/ Before(b, a)
        /\ Before(a, b) /\ Before(b, c) => Before(a, c)
    BY <1>5, EventsAreOrdered DEF Orders
  <2>2. class(a) \in Nat /\ class(b) \in Nat /\ class(c) \in Nat
    BY <1>1
  <2> QED
    BY <1>2, <2>1, <2>2
<1>7. IsFiniteSet(last) /\ Cardinality(last) <= MaxEvents
  BY <1>6, LastAreFew
<1> QED
  BY <1>4, <1>7

-----------------------------------------------------------------------------
Stamps(P) == [seq : Nat, parent : P]

LEMMA NextIsBeyond ==
  ASSUME NEW S \in SUBSET Events, IsFiniteSet(S), NEW P, NEW stamp \in [S -> Stamps(P)],
         NEW known, NEW run
  PROVE  /\ NextNumber(stamp, known, run) \in Nat /\ NextNumber(stamp, known, run) > 0
         /\ \A e \in S \cap known : RunOf(e) = run => stamp[e].seq < NextNumber(stamp, known, run)
<1> DEFINE mine == {g \in DOMAIN stamp \cap known : RunOf(g) = run}
           beyond == {stamp[f].seq + 1 : f \in mine}
           T == {1} \cup beyond
<1>1. DOMAIN stamp = S /\ \A e \in S : stamp[e].seq \in Nat
  BY DEF Stamps
<1>2. IsFiniteSet(mine) /\ mine \subseteq S
  BY <1>1, FS_Subset
<1>3. IsFiniteSet(beyond)
  <2> DEFINE g == [f \in mine |-> stamp[f].seq + 1]
  <2>1. g \in Surjection(mine, beyond)
    BY DEF Surjection
  <2> QED
    BY <1>2, <2>1, FS_Surjection
<1>4. T \in SUBSET Nat /\ T # {} /\ 1 \in T
  BY <1>1, <1>2
<1>5. IsFiniteSet(T)
  BY <1>3, FS_Union, FS_Singleton
<1>6. Max(T) \in T /\ \A y \in T : y <= Max(T)
  BY <1>4, <1>5, LargestOfNumbers
<1>7. NextNumber(stamp, known, run) = Max(T)
  BY DEF NextNumber
<1>8. \A e \in S \cap known : RunOf(e) = run => stamp[e].seq + 1 \in T
  BY <1>1
<1> HIDE DEF T
<1>9. Max(T) \in Nat /\ Max(T) >= 1
  BY <1>4, <1>6
<1> QED
  BY <1>1, <1>6, <1>7, <1>8, <1>9

Kept(stamp, known, e) ==
  /\ e \in known /\ stamp[e].seq > 0
  /\ \A f \in DOMAIN stamp \cap known :
       RunOf(f) = RunOf(e) /\ f.kind # "started" /\ stamp[f].seq = stamp[e].seq => ~Before(f, e)
Fresh(stamp, known, e) ==
  {f \in DOMAIN stamp : RunOf(f) = RunOf(e) /\ f.kind # "started" /\ ~Kept(stamp, known, f) /\ Before(f, e)}

LEMMA NumberedIs ==
  ASSUME NEW S, NEW P, NEW stamp \in [S -> Stamps(P)], NEW known, NEW e \in S
  PROVE  /\ DOMAIN Numbered(stamp, known) = S
         /\ Numbered(stamp, known)[e].parent = stamp[e].parent
         /\ Numbered(stamp, known)[e] =
              [stamp[e] EXCEPT !.seq = Numbered(stamp, known)[e].seq]
         /\ e.kind = "started" => Numbered(stamp, known)[e].seq = 0
         /\ e.kind # "started" /\ Kept(stamp, known, e) => Numbered(stamp, known)[e].seq = stamp[e].seq
         /\ e.kind # "started" /\ ~Kept(stamp, known, e) =>
              Numbered(stamp, known)[e].seq =
                NextNumber(stamp, known, RunOf(e)) + Cardinality(Fresh(stamp, known, e))
<1> DEFINE n == CASE e.kind = "started" -> 0
                  [] e.kind # "started" /\ Kept(stamp, known, e) -> stamp[e].seq
                  [] OTHER -> NextNumber(stamp, known, RunOf(e)) + Cardinality(Fresh(stamp, known, e))
<1>1. DOMAIN stamp = S /\ stamp[e] \in Stamps(P)
  OBVIOUS
<1>2. DOMAIN Numbered(stamp, known) = S
  BY <1>1 DEF Numbered
<1>3. Numbered(stamp, known)[e] = [stamp[e] EXCEPT !.seq = n]
  BY <1>1, Zenon DEF Numbered, Kept, Fresh
<1>4. [stamp[e] EXCEPT !.seq = n].seq = n /\ [stamp[e] EXCEPT !.seq = n].parent = stamp[e].parent
  BY <1>1 DEF Stamps
<1>5. /\ e.kind = "started" => n = 0
      /\ e.kind # "started" /\ Kept(stamp, known, e) => n = stamp[e].seq
      /\ e.kind # "started" /\ ~Kept(stamp, known, e) =>
           n = NextNumber(stamp, known, RunOf(e)) + Cardinality(Fresh(stamp, known, e))
  OBVIOUS
<1> HIDE DEF n
<1> QED
  BY <1>2, <1>3, <1>4, <1>5

LEMMA NumbersAreOwn ==
  ASSUME NEW S \in SUBSET Events, IsFiniteSet(S), NEW P, NEW stamp \in [S -> Stamps(P)], NEW known
  PROVE  LET next == Numbered(stamp, known)
         IN  /\ next \in [S -> Stamps(P)]
             /\ \A e \in NonStart(S) :
                  next[e].seq > 0 /\ (Kept(stamp, known, e) => next[e].seq = stamp[e].seq)
             /\ \A e \in NonStart(S), f \in NonStart(S) :
                  RunOf(e) = RunOf(f) /\ next[e].seq = next[f].seq => e = f
             /\ \A e \in S \cap known, f \in NonStart(S) \ known :
                  RunOf(e) = RunOf(f) => stamp[e].seq < next[f].seq
<1> DEFINE next == Numbered(stamp, known)
           fresh(e) == Fresh(stamp, known, e)
           start(e) == NextNumber(stamp, known, RunOf(e))
<1>1. DOMAIN stamp = S /\ \A e \in S : stamp[e].seq \in Nat /\ stamp[e].parent \in P
  BY DEF Stamps
<1>2. \A e \in S : IsFiniteSet(fresh(e)) /\ Cardinality(fresh(e)) \in Nat
  BY <1>1, FS_Subset, FS_CardinalityType DEF Fresh
<1>3. \A e \in S : start(e) \in Nat /\ start(e) > 0
  BY NextIsBeyond
<1>4. \A e \in S : /\ next[e].parent = stamp[e].parent
                   /\ next[e] = [stamp[e] EXCEPT !.seq = next[e].seq]
                   /\ e.kind = "started" => next[e].seq = 0
                   /\ e.kind # "started" /\ Kept(stamp, known, e) => next[e].seq = stamp[e].seq
                   /\ e.kind # "started" /\ ~Kept(stamp, known, e) =>
                        next[e].seq = start(e) + Cardinality(fresh(e))
  BY NumberedIs
<1>5. DOMAIN next = S
  BY <1>1 DEF Numbered
<1>6. \A e \in S : Kept(stamp, known, e) => e \in known /\ stamp[e].seq > 0
  BY DEF Kept
<1> HIDE DEF next, fresh, start
<1>7. \A e \in S : next[e].seq \in Nat /\ (e.kind # "started" => next[e].seq > 0)
  <2> TAKE e \in S
  <2>1. CASE e.kind = "started"
    <3>1. next[e].seq = 0
      BY <1>4, <2>1, Zenon
    <3> QED
      BY <3>1, <2>1
  <2>2. CASE e.kind # "started" /\ Kept(stamp, known, e)
    BY <1>1, <1>4, <1>6, <2>2
  <2>3. CASE e.kind # "started" /\ ~Kept(stamp, known, e)
    <3> DEFINE m == start(e)
               n == Cardinality(fresh(e))
    <3>1. m \in Nat /\ m > 0 /\ n \in Nat
      BY <1>2, <1>3
    <3>2. next[e].seq = m + n
      BY <1>4, <2>3
    <3> HIDE DEF m, n
    <3> QED
      BY <3>1, <3>2, <2>3
  <2> QED
    BY <2>1, <2>2, <2>3
<1>8. next \in [S -> Stamps(P)]
  <2>1. \A e \in S : next[e] \in Stamps(P)
    <3> TAKE e \in S
    <3>1. stamp[e] \in Stamps(P) /\ next[e].seq \in Nat
      BY <1>7
    <3> QED
      BY <3>1, <1>4 DEF Stamps
  <2>2. next = [e \in S |-> next[e]]
    BY <1>5 DEF next, Numbered
  <2> QED
    BY <2>1, <2>2
<1>9. ASSUME NEW e \in NonStart(S), NEW f \in NonStart(S), RunOf(e) = RunOf(f), Before(e, f)
      PROVE  next[e].seq # next[f].seq
  <2>1. e \in S /\ f \in S /\ e.kind # "started" /\ f.kind # "started" /\ start(e) = start(f)
    BY <1>9 DEF NonStart, start
  <2>2. CASE Kept(stamp, known, f) /\ Kept(stamp, known, e)
    <3>1. e \in DOMAIN stamp \cap known
      BY <1>1, <1>6, <2>1, <2>2
    <3>2. stamp[e].seq # stamp[f].seq
      BY <1>9, <2>1, <2>2, <3>1 DEF Kept
    <3> QED
      BY <3>2, <2>1, <2>2, <1>4
  <2>3. ASSUME NEW a \in {e, f}, NEW b \in {e, f}, Kept(stamp, known, a), ~Kept(stamp, known, b)
        PROVE  next[a].seq < next[b].seq
    <3>1. a \in S \cap known /\ RunOf(a) = RunOf(b) /\ b \in S /\ a.kind # "started" /\ b.kind # "started"
      BY <1>6, <1>9, <2>1, <2>3
    <3>2. stamp[a].seq < start(b)
      BY <3>1, NextIsBeyond DEF start
    <3>3. next[a].seq = stamp[a].seq /\ next[b].seq = start(b) + Cardinality(fresh(b))
      BY <1>4, <2>3, <3>1
    <3> QED
      BY <3>1, <3>2, <3>3, <1>1, <1>2, <1>3
  <2>4. CASE ~Kept(stamp, known, e) /\ ~Kept(stamp, known, f)
    <3>1. fresh(e) \subseteq fresh(f) /\ e \in fresh(f) /\ e \notin fresh(e)
      <4>1. \A a, b, c \in S : /\ <<a, a>> \notin ByBefore(S)
                               /\ <<a, b>> \in ByBefore(S) /\ <<b, c>> \in ByBefore(S)
                                    => <<a, c>> \in ByBefore(S)
        BY EventsAreOrdered DEF Orders
      <4>2. \A a, b \in S : <<a, b>> \in ByBefore(S) <=> Before(a, b)
        BY DEF ByBefore
      <4> QED
        BY <4>1, <4>2, <1>1, <1>9, <2>1, <2>4 DEF fresh, Fresh
    <3>2. Cardinality(fresh(e)) # Cardinality(fresh(f))
      BY <3>1, <1>2, <2>1, FS_Subset
    <3>3. next[e].seq = start(e) + Cardinality(fresh(e)) /\ next[f].seq = start(e) + Cardinality(fresh(f))
      BY <2>1, <2>4, <1>4
    <3> QED
      BY <3>2, <3>3, <2>1, <1>2, <1>3
  <2> QED
    BY <2>2, <2>3, <2>4, <1>7, <2>1
<1>10. ASSUME NEW e \in NonStart(S), NEW f \in NonStart(S), RunOf(e) = RunOf(f), next[e].seq = next[f].seq
       PROVE  e = f
  <2>1. e # f => Before(e, f) \/ Before(f, e)
    BY EventsAreOrdered DEF Orders, ByBefore, NonStart
  <2> QED
    BY <1>9, <1>10, <2>1
<1>11. ASSUME NEW e \in S \cap known, NEW f \in NonStart(S) \ known, RunOf(e) = RunOf(f)
       PROVE  stamp[e].seq < next[f].seq
  <2>1. f \in S /\ f.kind # "started" /\ ~Kept(stamp, known, f)
    BY <1>6, <1>11 DEF NonStart
  <2>2. stamp[e].seq < start(f)
    BY <1>11, NextIsBeyond DEF start
  <2>3. next[f].seq = start(f) + Cardinality(fresh(f)) /\ e \in S
    BY <2>1, <1>4, <1>11
  <2> QED
    BY <2>1, <2>2, <2>3, <1>1, <1>2, <1>3
<1>12. \A e \in NonStart(S) :
         next[e].seq > 0 /\ (Kept(stamp, known, e) => next[e].seq = stamp[e].seq)
  BY <1>4, <1>7 DEF NonStart
<1> QED
  BY <1>8, <1>10, <1>11, <1>12 DEF next

-----------------------------------------------------------------------------
(* What a sweep draws up.                                                  *)
Claims == Events \cup {NoClaim}

LEMMA OwnersAreRuns ==
  ASSUME ActivityAssumption, NEW scene \in Scenes, NEW f \in scene.facts,
         OwnerOf(scene, f.subject) # NoClaim
  PROVE  OwnerOf(scene, f.subject) \in Nat \X Nat
<1>1. \A a \in scene.agents : a.run \in Nat \X Nat
  BY DEF ActivityAssumption
<1>2. CASE f.subject \in Subjects(scene)
  <2>1. f.subject \in Nat \X Nat
    BY DEF ActivityAssumption
  <2>2. OwnerOf(scene, f.subject) = f.subject
    BY <1>2 DEF OwnerOf
  <2> QED
    BY <2>1, <2>2
<1>3. CASE f.subject \notin Subjects(scene)
  <2> DEFINE owners == Owners(scene, f.subject)
  <2>1. /\ Cardinality(owners) = 1
        /\ OwnerOf(scene, f.subject) = CHOOSE r \in owners : TRUE
    BY <1>3 DEF OwnerOf
  <2>2. owners # {}
    BY <2>1, FS_EmptySet
  <2>3. owners \subseteq Nat \X Nat
    BY <1>1 DEF Owners
  <2> HIDE DEF owners
  <2>4. (CHOOSE r \in owners : TRUE) \in owners
    BY <2>2, Zenon
  <2> QED
    BY <2>1, <2>3, <2>4
<1> QED
  BY <1>2, <1>3

LEMMA DraftsAreEvents ==
  ASSUME ActivityAssumption, NEW scene \in Scenes, NEW clock \in Nat
  PROVE  /\ IsFiniteSet(Drafts(scene, clock))
         /\ \A d \in Drafts(scene, clock) :
              d.event \in Events /\ d.event.kind # "started" /\ d.event.at = clock
<1> DEFINE told == {g \in scene.facts : g.claim \in DOMAIN DraftKind /\ OwnerOf(scene, g.subject) # NoClaim}
<1>1. Drafts(scene, clock) = {Draft(scene, f, clock) : f \in told}
  BY DEF Drafts
<1>2. IsFiniteSet(Drafts(scene, clock))
  <2>1. IsFiniteSet(told)
    BY FS_Subset DEF ActivityAssumption
  <2> DEFINE g == [f \in told |-> Draft(scene, f, clock)]
  <2>2. g \in Surjection(told, {Draft(scene, f, clock) : f \in told})
    BY DEF Surjection
  <2> HIDE DEF told
  <2> QED
    BY <2>1, <2>2, <1>1, FS_Surjection
<1>3. ASSUME NEW f \in told
      PROVE  LET e == Draft(scene, f, clock).event
             IN  e \in Events /\ e.kind # "started" /\ e.at = clock
  <2>1. f.subject \in Nat \X Nat /\ f.what \in Nat /\ f.child \in Nat
    BY DEF ActivityAssumption
  <2> DEFINE run == OwnerOf(scene, f.subject)
             actor == CASE f.claim = "child_process_seen" -> f.child
                        [] f.claim \in {"file_touched", "socket_open", "socket_closed",
                                        "connection_attempt", "dns_query_observed"} -> f.subject[1]
                        [] OTHER -> run[1]
  <2>2. run \in Nat \X Nat
    BY OwnersAreRuns
  <2>3. Draft(scene, f, clock).event = Event(run, actor, clock, DraftKind[f.claim], f.what)
    BY DEF Draft
  <2>4. DraftKind[f.claim] \in Kinds /\ DraftKind[f.claim] # "started"
    BY DEF DraftKind, Kinds, KindRank
  <2> HIDE DEF run
  <2>5. run[1] \in Nat /\ run[2] \in Nat /\ f.subject[1] \in Nat
    BY <2>1, <2>2
  <2>6. actor \in Nat
    BY <2>1, <2>5
  <2> HIDE DEF actor
  <2> QED
    BY <2>1, <2>3, <2>4, <2>5, <2>6 DEF Event, Events
<1> HIDE DEF told
<1> QED
  BY <1>1, <1>2, <1>3

LEMMA SpawnedIsThere ==
  ASSUME NEW drafts, IsFiniteSet(drafts), \A d \in drafts : d.event \in Events,
         NEW d \in drafts, ActorsOwn(drafts, d) # NoClaim
  PROVE  /\ ActorsOwn(drafts, d) \in {c.event : c \in drafts}
         /\ RunOf(ActorsOwn(drafts, d)) = RunOf(d.event)
<1> DEFINE acted == {q \in drafts : q.event.kind = "process"
                         /\ RunOf(q.event) = RunOf(d.event) /\ q.event.actor = d.event.actor}
           spawned == {p.event : p \in acted}
           R == ByLastDraft(spawned)
<1>1. /\ spawned # {}
      /\ ActorsOwn(drafts, d) = CHOOSE p \in spawned : \A q \in spawned : q = p \/ DraftedBefore(q, p)
  BY DEF ActorsOwn
<1>2. IsFiniteSet(acted)
  BY FS_Subset
<1>3. IsFiniteSet(spawned)
  <2> DEFINE g == [p \in acted |-> p.event]
  <2>1. g \in Surjection(acted, spawned)
    BY DEF Surjection
  <2> HIDE DEF acted
  <2> QED
    BY <1>2, <2>1, FS_Surjection
<1>4. spawned \in SUBSET Events
  OBVIOUS
<1>5. \A p, q \in spawned : <<p, q>> \in R => DraftedBefore(q, p)
  BY DEF ByLastDraft
<1>6. \A p \in spawned : p \in {c.event : c \in drafts} /\ RunOf(p) = RunOf(d.event)
  OBVIOUS
<1>7. Orders(R, spawned)
  BY <1>4, EventsAreOrdered
<1> HIDE DEF spawned, R, acted
<1>8. \E p \in spawned : \A q \in spawned : q = p \/ <<p, q>> \in R
  BY <1>1, <1>3, <1>7, OneIsFirst
<1>9. \E p \in spawned : \A q \in spawned : q = p \/ DraftedBefore(q, p)
  BY <1>5, <1>8
<1>10. ActorsOwn(drafts, d) \in spawned
  BY <1>1, <1>9, Zenon
<1> QED
  BY <1>6, <1>10

-----------------------------------------------------------------------------
(* A history that can be read, and that is whole.                          *)
Sound(history) ==
  /\ history = [events |-> history.events, links |-> history.links, paths |-> history.paths]
  /\ DOMAIN history.events \in SUBSET Events /\ IsFiniteSet(DOMAIN history.events)
  /\ history.events \in [DOMAIN history.events -> Stamps(Claims)]
  /\ \A l \in history.links : RunOf(l.from) = RunOf(l.to)
  /\ \A p \in DOMAIN history.paths : \A e \in history.paths[p] : RunOf(e) = p[1]

LEMMA CorrelatedIsOfOneRun ==
  ASSUME NEW scene, NEW S \in SUBSET Events, IsFiniteSet(S)
  PROVE  \A p \in DOMAIN Correlated(scene, S) : \A e \in Correlated(scene, S)[p] : RunOf(e) = p[1]
<1> DEFINE secrets(run) == {e \in S : RunOf(e) = run /\ Secret(e)}
           reached(run) == {e \in S : RunOf(e) = run /\ Outward(e)}
           both == {r \in Subjects(scene) : secrets(r) # {} /\ reached(r) # {}}
<1>1. Correlated(scene, S) =
        [p \in {<<r, "sensitive-to-network">> : r \in both} |->
           {Earliest(secrets(p[1])), Earliest(reached(p[1]))}]
  BY DEF Correlated
<1>2. ASSUME NEW r \in both
      PROVE  RunOf(Earliest(secrets(r))) = r /\ RunOf(Earliest(reached(r))) = r
  <2>1. /\ secrets(r) \in SUBSET Events /\ secrets(r) # {} /\ IsFiniteSet(secrets(r))
        /\ reached(r) \in SUBSET Events /\ reached(r) # {} /\ IsFiniteSet(reached(r))
    BY FS_Subset
  <2>2. Earliest(secrets(r)) \in secrets(r) /\ Earliest(reached(r)) \in reached(r)
    <3> HIDE DEF secrets, reached
    <3> QED
      BY <2>1, EarliestIsThere
  <2> QED
    BY <2>2
<1> HIDE DEF secrets, reached, both
<1>3. ASSUME NEW p \in DOMAIN Correlated(scene, S), NEW e \in Correlated(scene, S)[p]
      PROVE  RunOf(e) = p[1]
  <2>1. PICK r \in both : p = <<r, "sensitive-to-network">>
    BY <1>1, <1>3
  <2>2. e \in {Earliest(secrets(r)), Earliest(reached(r))} /\ p[1] = r
    BY <1>1, <1>3, <2>1
  <2> QED
    BY <1>2, <2>2
<1> QED
  BY <1>3

LEMMA PeriodicIsOfOneRun ==
  ASSUME NEW S \in SUBSET Events, IsFiniteSet(S)
  PROVE  \A k \in DOMAIN Periodic(S) :
           Periodic(S)[k] \subseteq S /\ \A e \in Periodic(S)[k] : RunOf(e) = k[1]
<1> DEFINE of(run, what) == {e \in S : Closed(e) /\ RunOf(e) = run /\ e.what = what}
           instants(run, what) == {e.at : e \in of(run, what)}
           one(k, clock) == Earliest({e \in of(k[1], k[3]) : e.at = clock})
           last8(all) == {t \in all : Cardinality({u \in all : u > t}) < 8}
<1>1. \A k \in DOMAIN Periodic(S) : Periodic(S)[k] = {one(k, clock) : clock \in last8(instants(k[1], k[3]))}
  BY Zenon DEF Periodic
<1>2. \A run, what : last8(instants(run, what)) \subseteq instants(run, what)
  OBVIOUS
<1>3. ASSUME NEW k, NEW clock \in instants(k[1], k[3])
      PROVE  one(k, clock) \in S /\ RunOf(one(k, clock)) = k[1]
  <2> DEFINE T == {e \in of(k[1], k[3]) : e.at = clock}
  <2>1. T # {}
    BY <1>3
  <2>2. T \subseteq S /\ \A e \in T : RunOf(e) = k[1]
    OBVIOUS
  <2> HIDE DEF T
  <2>3. Earliest(T) \in T
    BY <2>1, <2>2, FS_Subset, EarliestIsThere
  <2>4. one(k, clock) = Earliest(T)
    BY DEF T
  <2> QED
    BY <2>2, <2>3, <2>4
<1> HIDE DEF of, instants, one, last8
<1>4. ASSUME NEW k \in DOMAIN Periodic(S), NEW e \in Periodic(S)[k]
      PROVE  e \in S /\ RunOf(e) = k[1]
  <2>1. PICK clock \in last8(instants(k[1], k[3])) : e = one(k, clock)
    BY <1>1, <1>4
  <2> QED
    BY <1>2, <1>3, <2>1
<1> QED
  BY <1>4

LEMMA BuildIsSound ==
  ASSUME ActivityAssumption, NEW scene \in Scenes, NEW clock \in Nat
  PROVE  /\ Sound(Build(scene, clock))
         /\ \A e \in NonStart(DOMAIN Build(scene, clock).events) : e.at = clock
<1> DEFINE drafts == Drafts(scene, clock)
           roots == {Root(r) : r \in Subjects(scene)}
           parent(d) == ActorsOwn(drafts, d)
           linked(d) == IF parent(d) # NoClaim THEN parent(d) ELSE Root(RunOf(d.event))
           number(d) == 1 + Cardinality({c \in drafts : RunOf(c.event) = RunOf(d.event)
                                                          /\ DraftedBefore(c.event, d.event)})
           drafted == {d.event : d \in drafts}
           of(e) == CHOOSE d \in drafts : d.event = e
           stamp(e) == IF e \in roots THEN [seq |-> 0, parent |-> NoClaim]
                       ELSE [seq |-> number(of(e)),
                             parent |-> CASE parent(of(e)) # NoClaim -> parent(of(e))
                                          [] parent(of(e)) = NoClaim /\ of(e).direct -> Root(RunOf(e))
                                          [] OTHER -> NoClaim]
           link(d) == [from |-> linked(d), to |-> d.event, relation |-> d.relation,
                       certainty |-> IF d.direct \/ parent(d) # NoClaim THEN "direct" ELSE "attributed"]
           b == Build(scene, clock)
<1>1. b = [events |-> [e \in roots \cup drafted |-> stamp(e)],
           links |-> {link(d) : d \in drafts},
           paths |-> Correlated(scene, roots \cup drafted)]
  BY Zenon DEF Build
<1>2. /\ b.events = [e \in roots \cup drafted |-> stamp(e)]
      /\ b.links = {link(d) : d \in drafts}
      /\ b.paths = Correlated(scene, roots \cup drafted)
      /\ b = [events |-> b.events, links |-> b.links, paths |-> b.paths]
  <2> HIDE DEF stamp, link, roots, drafted, b
  <2> QED
    BY <1>1
<1>3. \A run \in Nat \X Nat : /\ Root(run) \in Events /\ Root(run).kind = "started"
                              /\ RunOf(Root(run)) = run
  BY DEF Root, Event, Events, Kinds, KindRank, RunOf
<1>4. /\ IsFiniteSet(drafts)
      /\ \A d \in drafts : d.event \in Events /\ d.event.kind # "started" /\ d.event.at = clock
  BY DraftsAreEvents
<1>5. IsFiniteSet(roots) /\ roots \subseteq Events /\ \A e \in roots : e.kind = "started"
  <2>1. IsFiniteSet(scene.agents) /\ \A a \in scene.agents : a.run \in Nat \X Nat
    BY DEF ActivityAssumption
  <2> DEFINE g == [a \in scene.agents |-> Root(a.run)]
  <2>2. g \in Surjection(scene.agents, roots)
    BY DEF Surjection, Subjects
  <2>3. IsFiniteSet(roots)
    BY <2>1, <2>2, FS_Surjection
  <2> QED
    BY <1>3, <2>1, <2>3 DEF Subjects
<1>6. IsFiniteSet(drafted) /\ drafted \subseteq Events /\ \A e \in drafted : e.kind # "started" /\ e.at = clock
  <2> DEFINE g == [d \in drafts |-> d.event]
  <2>1. g \in Surjection(drafts, drafted)
    BY DEF Surjection
  <2>2. IsFiniteSet(drafted)
    BY <1>4, <2>1, FS_Surjection
  <2> QED
    BY <1>4, <2>2
<1>7. \A e \in Events : RunOf(e) \in Nat \X Nat
  BY DEF Events, RunOf
<1>8. \A d \in drafts : parent(d) = NoClaim \/ (parent(d) \in Events /\ RunOf(parent(d)) = RunOf(d.event))
  <2> TAKE d \in drafts
  <2>1. parent(d) # NoClaim => /\ parent(d) \in {c.event : c \in drafts}
                               /\ RunOf(parent(d)) = RunOf(d.event)
    BY <1>4, SpawnedIsThere
  <2> QED
    BY <1>4, <2>1
<1>9. \A d \in drafts : number(d) \in Nat
  BY <1>4, FS_Subset, FS_CardinalityType
<1>10. \A e \in drafted : of(e) \in drafts /\ of(e).event = e
  <2> TAKE e \in drafted
  <2>1. \E d \in drafts : d.event = e
    OBVIOUS
  <2> QED
    BY <2>1, Zenon
<1> HIDE DEF drafts, parent, number, of, b
<1>11. \A d \in drafts : RunOf(linked(d)) = RunOf(d.event)
  BY <1>3, <1>4, <1>7, <1>8
<1>12. \A e \in roots \cup drafted : stamp(e) \in Stamps(Claims)
  <2> TAKE e \in roots \cup drafted
  <2>1. CASE e \in roots
    BY <2>1 DEF Stamps, Claims
  <2>2. CASE e \notin roots
    <3>1. of(e) \in drafts /\ e \in Events
      BY <1>6, <1>10, <2>2
    <3>2. number(of(e)) \in Nat /\ (parent(of(e)) = NoClaim \/ parent(of(e)) \in Events)
      BY <3>1, <1>8, <1>9
    <3>3. Root(RunOf(e)) \in Events
      BY <1>3, <1>7, <3>1
    <3> QED
      BY <3>2, <3>3, <2>2 DEF Stamps, Claims
  <2> QED
    BY <2>1, <2>2
<1>13. \A l \in b.links : RunOf(l.from) = RunOf(l.to)
  BY <1>2, <1>11
<1> HIDE DEF stamp, link, roots, drafted
<1>14. /\ DOMAIN b.events = roots \cup drafted
       /\ b.events \in [DOMAIN b.events -> Stamps(Claims)]
  BY <1>2, <1>12
<1>15. IsFiniteSet(roots \cup drafted) /\ roots \cup drafted \subseteq Events
  BY <1>5, <1>6, FS_Union
<1>16. \A p \in DOMAIN b.paths : \A e \in b.paths[p] : RunOf(e) = p[1]
  BY <1>2, <1>15, CorrelatedIsOfOneRun
<1>17. Sound(b)
  BY <1>2, <1>13, <1>14, <1>15, <1>16 DEF Sound
<1>18. \A e \in NonStart(DOMAIN b.events) : e.at = clock
  BY <1>5, <1>6, <1>14 DEF NonStart
<1> QED
  BY <1>17, <1>18 DEF b

-----------------------------------------------------------------------------
(* What a surface merges, and so what it saves, is whole.                  *)
Whole(history) ==
  LET there == DOMAIN history.events
  IN /\ Cardinality(there) <= MaxEvents
     /\ \A e \in NonStart(there) : history.events[e].seq > 0
     /\ \A e, f \in NonStart(there) :
          RunOf(e) = RunOf(f) /\ history.events[e].seq = history.events[f].seq => e = f
     /\ \A l \in history.links : {l.from, l.to} \subseteq there
     /\ \A p \in DOMAIN history.paths : history.paths[p] \subseteq there
     /\ \A e \in there : history.events[e].parent \in there \cup {NoClaim}

Past(previous, clock) == {e \in DOMAIN previous.events : e.at >= clock - Retention /\ e.at <= clock}
Both(previous, found, clock) ==
  [e \in Past(previous, clock) \cup DOMAIN found.events |->
     IF e \notin DOMAIN found.events THEN previous.events[e]
     ELSE [found.events[e] EXCEPT !.seq = IF e \in Past(previous, clock) THEN previous.events[e].seq ELSE @]]
Renumbered(previous, found, clock) == Numbered(Both(previous, found, clock), DOMAIN previous.events)

LEMMA BothAreSound ==
  ASSUME NEW previous, Sound(previous), NEW found, Sound(found), NEW clock \in Nat
  PROVE  LET S == Past(previous, clock) \cup DOMAIN found.events
         IN  /\ S \in SUBSET Events /\ IsFiniteSet(S)
             /\ Both(previous, found, clock) \in [S -> Stamps(Claims)]
             /\ \A e \in Past(previous, clock) :
                  Both(previous, found, clock)[e].seq = previous.events[e].seq
<1> DEFINE P == DOMAIN previous.events
           C == DOMAIN found.events
           O == Past(previous, clock)
           B == Both(previous, found, clock)
<1>1. /\ P \in SUBSET Events /\ IsFiniteSet(P) /\ previous.events \in [P -> Stamps(Claims)]
      /\ C \in SUBSET Events /\ IsFiniteSet(C) /\ found.events \in [C -> Stamps(Claims)]
  BY DEF Sound
<1>2. O \subseteq P /\ IsFiniteSet(O)
  BY <1>1, FS_Subset DEF Past
<1>3. /\ DOMAIN B = O \cup C
      /\ \A e \in O \cup C :
           B[e] = IF e \notin C THEN previous.events[e]
                  ELSE [found.events[e] EXCEPT !.seq = IF e \in O THEN previous.events[e].seq ELSE @]
  BY DEF Both
<1>4. B = [e \in O \cup C |-> B[e]]
  BY <1>3 DEF Both
<1> HIDE DEF O, P, C, B
<1>5. \A e \in O \cup C : B[e] \in Stamps(Claims)
  <2> TAKE e \in O \cup C
  <2>1. CASE e \notin C
    BY <1>1, <1>2, <1>3, <2>1
  <2>2. CASE e \in C /\ e \in O
    <3>1. found.events[e] \in Stamps(Claims) /\ previous.events[e] \in Stamps(Claims)
      BY <1>1, <1>2, <2>2
    <3>2. B[e] = [found.events[e] EXCEPT !.seq = previous.events[e].seq]
      BY <1>3, <2>2
    <3> QED
      BY <3>1, <3>2 DEF Stamps
  <2>3. CASE e \in C /\ e \notin O
    <3>1. found.events[e] \in Stamps(Claims)
      BY <1>1, <2>3
    <3>2. B[e] = [found.events[e] EXCEPT !.seq = @]
      BY <1>3, <2>3
    <3> QED
      BY <3>1, <3>2 DEF Stamps
  <2> QED
    BY <2>1, <2>2, <2>3
<1>6. \A e \in O : B[e].seq = previous.events[e].seq
  <2> TAKE e \in O
  <2>1. CASE e \notin C
    BY <1>3, <2>1
  <2>2. CASE e \in C
    <3>1. found.events[e] \in Stamps(Claims)
      BY <1>1, <2>2
    <3>2. B[e] = [found.events[e] EXCEPT !.seq = previous.events[e].seq]
      BY <1>3, <2>2
    <3> QED
      BY <3>1, <3>2 DEF Stamps
  <2> QED
    BY <2>1, <2>2
<1>7. O \cup C \in SUBSET Events /\ IsFiniteSet(O \cup C)
  BY <1>1, <1>2, FS_Union
<1>8. B \in [O \cup C -> Stamps(Claims)]
  BY <1>4, <1>5
<1> QED
  BY <1>6, <1>7, <1>8 DEF O, C, B

LEMMA MergedIs ==
  ASSUME NEW previous, NEW found, NEW clock,
         DOMAIN Renumbered(previous, found, clock) = Past(previous, clock) \cup DOMAIN found.events
  PROVE  LET numbered == Renumbered(previous, found, clock)
             kept == Bounded(Past(previous, clock) \cup DOMAIN found.events, DOMAIN found.events)
             told == {<<l.from, l.to>> : l \in previous.links}
             links == previous.links \cup {l \in found.links : <<l.from, l.to>> \notin told}
             paths == Overlay(previous.paths, found.paths)
         IN  Merged(previous, found, clock) =
               [events |-> [e \in kept |-> [numbered[e] EXCEPT !.parent = IF @ \in kept THEN @ ELSE NoClaim]],
                links |-> {l \in links : {l.from, l.to} \subseteq kept},
                paths |-> Overlay(Periodic(kept),
                                  [p \in {q \in DOMAIN paths : paths[q] \subseteq kept} |-> paths[p]])]
BY Zenon DEF Merged, Past, Both, Renumbered

LEMMA MergedIsWhole ==
  ASSUME ActivityAssumption, NEW previous, Sound(previous), NEW found, Sound(found), NEW clock \in Nat
  PROVE  LET next == Merged(previous, found, clock)
         IN  /\ Sound(next) /\ Whole(next)
             /\ DOMAIN next.events \subseteq Past(previous, clock) \cup DOMAIN found.events
             /\ \A e \in DOMAIN next.events :
                  next.events[e].seq = Renumbered(previous, found, clock)[e].seq
<1> DEFINE S == Past(previous, clock) \cup DOMAIN found.events
           numbered == Renumbered(previous, found, clock)
           kept == Bounded(S, DOMAIN found.events)
           told == {<<l.from, l.to>> : l \in previous.links}
           links == previous.links \cup {l \in found.links : <<l.from, l.to>> \notin told}
           paths == Overlay(previous.paths, found.paths)
           stamp(e) == [numbered[e] EXCEPT !.parent = IF @ \in kept THEN @ ELSE NoClaim]
           linked == {l \in links : {l.from, l.to} \subseteq kept}
           still == [p \in {q \in DOMAIN paths : paths[q] \subseteq kept} |-> paths[p]]
           next == Merged(previous, found, clock)
<1>1. S \in SUBSET Events /\ IsFiniteSet(S) /\ Both(previous, found, clock) \in [S -> Stamps(Claims)]
  BY BothAreSound
<1>2. /\ numbered \in [S -> Stamps(Claims)]
      /\ \A e \in NonStart(S) : numbered[e].seq > 0
      /\ \A e \in NonStart(S), f \in NonStart(S) :
           RunOf(e) = RunOf(f) /\ numbered[e].seq = numbered[f].seq => e = f
  <2> DEFINE B == Both(previous, found, clock)
             T == S
  <2>1. numbered = Numbered(B, DOMAIN previous.events)
    BY DEF Renumbered
  <2> HIDE DEF numbered, B, T
  <2>2. T \in SUBSET Events /\ IsFiniteSet(T) /\ B \in [T -> Stamps(Claims)]
    BY <1>1 DEF B, T
  <2>3. /\ numbered \in [T -> Stamps(Claims)]
        /\ \A e \in NonStart(T) : numbered[e].seq > 0
        /\ \A e \in NonStart(T), f \in NonStart(T) :
             RunOf(e) = RunOf(f) /\ numbered[e].seq = numbered[f].seq => e = f
    BY <2>1, <2>2, NumbersAreOwn
  <2> QED
    BY <2>3 DEF T
<1>3. kept \subseteq S /\ IsFiniteSet(kept) /\ Cardinality(kept) <= MaxEvents
  BY <1>1, BoundedFits DEF ActivityAssumption
<1>4. next = [events |-> [e \in kept |-> stamp(e)], links |-> linked, paths |-> Overlay(Periodic(kept), still)]
  <2>1. DOMAIN numbered = S
    <3> HIDE DEF numbered, S
    <3> QED
      BY <1>2
  <2> QED
    BY <2>1, MergedIs, Zenon
<1>5. \A l \in linked : {l.from, l.to} \subseteq kept /\ RunOf(l.from) = RunOf(l.to)
  BY DEF Sound
<1>6. \A p \in DOMAIN still : still[p] \subseteq kept /\ \A e \in still[p] : RunOf(e) = p[1]
  <2>1. \A p \in DOMAIN paths : \A e \in paths[p] : RunOf(e) = p[1]
    BY DEF Sound, Overlay
  <2> QED
    BY <2>1
<1> HIDE DEF S, numbered, kept, links, linked, still, next
<1>7. /\ next.events = [e \in kept |-> stamp(e)]
      /\ next.links = linked
      /\ next.paths = Overlay(Periodic(kept), still)
      /\ next = [events |-> next.events, links |-> next.links, paths |-> next.paths]
  <2> HIDE DEF stamp
  <2> QED
    BY <1>4
<1>8. \A e \in kept : /\ stamp(e) \in Stamps(Claims) /\ stamp(e).seq = numbered[e].seq
                      /\ stamp(e).parent \in kept \cup {NoClaim}
  <2> TAKE e \in kept
  <2> DEFINE p == IF numbered[e].parent \in kept THEN numbered[e].parent ELSE NoClaim
  <2>1. numbered[e] \in Stamps(Claims)
    BY <1>2, <1>3
  <2>2. p \in Claims /\ p \in kept \cup {NoClaim}
    BY <1>1, <1>3 DEF Claims
  <2>3. stamp(e) = [numbered[e] EXCEPT !.parent = p]
    OBVIOUS
  <2> HIDE DEF p, stamp
  <2> QED
    BY <2>1, <2>2, <2>3 DEF Stamps
<1>9. \A p \in DOMAIN next.paths : next.paths[p] \subseteq kept /\ \A e \in next.paths[p] : RunOf(e) = p[1]
  <2>1. kept \in SUBSET Events
    BY <1>1, <1>3
  <2>2. \A p \in DOMAIN Periodic(kept) :
          Periodic(kept)[p] \subseteq kept /\ \A e \in Periodic(kept)[p] : RunOf(e) = p[1]
    BY <1>3, <2>1, PeriodicIsOfOneRun
  <2> QED
    BY <1>6, <1>7, <2>2 DEF Overlay
<1> HIDE DEF stamp
<1>10. /\ DOMAIN next.events = kept
       /\ next.events \in [kept -> Stamps(Claims)]
       /\ \A e \in kept : /\ next.events[e].seq = numbered[e].seq
                          /\ next.events[e].parent \in kept \cup {NoClaim}
  BY <1>7, <1>8
<1>11. Sound(next)
  <2>1. kept \in SUBSET Events
    BY <1>1, <1>3
  <2> QED
    BY <2>1, <1>3, <1>5, <1>7, <1>9, <1>10 DEF Sound
<1>12. Whole(next)
  <2>1. NonStart(kept) \subseteq NonStart(S) /\ NonStart(kept) \subseteq kept
    BY <1>3 DEF NonStart
  <2> QED
    BY <2>1, <1>2, <1>3, <1>5, <1>7, <1>9, <1>10 DEF Whole
<1> QED
  BY <1>3, <1>10, <1>11, <1>12 DEF S, numbered, next

LEMMA LoadedIsSound ==
  ASSUME NEW history, Sound(history)
  PROVE  /\ Sound(Loaded(history))
         /\ DOMAIN Loaded(history).events = DOMAIN history.events
         /\ \A e \in DOMAIN history.events : Loaded(history).events[e].seq = history.events[e].seq
<1> DEFINE S == DOMAIN history.events
           comes(p, e) ==
             p \in S /\ RunOf(p) = RunOf(e) /\ history.events[p].seq < history.events[e].seq
           parent(e) == history.events[e].parent
           followed(e, p) == IF p = NoClaim \/ comes(p, e) THEN p ELSE NoClaim
           stamp(e) == [history.events[e] EXCEPT !.parent = followed(e, @)]
           links == {l \in history.links : l.relation \in KnownRelations}
           next == Loaded(history)
<1>1. /\ history = [events |-> history.events, links |-> history.links, paths |-> history.paths]
      /\ S \in SUBSET Events /\ IsFiniteSet(S) /\ history.events \in [S -> Stamps(Claims)]
  BY DEF Sound
<1>2. next = [events |-> [e \in S |-> stamp(e)], links |-> links, paths |-> history.paths]
  BY Zenon DEF Loaded
<1>3. \A e \in S : stamp(e) \in Stamps(Claims) /\ stamp(e).seq = history.events[e].seq
  <2> TAKE e \in S
  <2>1. history.events[e] \in Stamps(Claims)
    BY <1>1
  <2>2. NoClaim \in Claims /\ parent(e) \in Claims
    BY <2>1 DEF Claims, Stamps
  <2> QED
    BY <2>1, <2>2 DEF Stamps
<1>4. /\ next.events = [e \in S |-> stamp(e)] /\ next.links = links /\ next.paths = history.paths
      /\ next = [events |-> next.events, links |-> next.links, paths |-> next.paths]
  <2> HIDE DEF stamp, links, next, S
  <2> QED
    BY <1>2
<1> HIDE DEF stamp, next
<1>5. DOMAIN next.events = S /\ next.events \in [S -> Stamps(Claims)]
  BY <1>3, <1>4
<1>6. Sound(next)
  BY <1>1, <1>4, <1>5 DEF Sound
<1> QED
  BY <1>3, <1>4, <1>5, <1>6 DEF next

SweepStands(s) ==
  \/ sweep[s] = Resting
  \/ sweep[s].step = "looking" /\ sweep[s].at \in Nat
  \/ sweep[s].step = "merged" /\ Sound(sweep[s].history) /\ Whole(sweep[s].history)
(* One surface alone, and no clock set back.                               *)
ClockStands(s) ==
  Watcher = {s} /\ back = 0 =>
    /\ \A e \in NonStart(DOMAIN file.events) : e.at <= now
    /\ sweep[s].step = "looking" =>
         sweep[s].at <= now /\ \A e \in NonStart(DOMAIN file.events) : e.at <= sweep[s].at
    /\ sweep[s].step = "merged" =>
         \A e \in NonStart(DOMAIN sweep[s].history.events) : e.at <= now
ActivityInv ==
  /\ now \in Nat /\ back \in Nat
  /\ Sound(file) /\ Whole(file)
  /\ DOMAIN sweep = Watcher
  /\ \A s \in Watcher : SweepStands(s) /\ ClockStands(s)

LEMMA ActivityBegins == ActivityAssumption /\ ActivityInit => ActivityInv
<1> SUFFICES ASSUME ActivityAssumption, ActivityInit PROVE ActivityInv
  OBVIOUS
<1>1. /\ file = [events |-> <<>>, links |-> {}, paths |-> <<>>] /\ DOMAIN file.events = {}
      /\ DOMAIN file.paths = {} /\ file.links = {}
  BY DEF ActivityInit, EmptyHistory
<1>2. Sound(file)
  <2>1. file.events \in [{} -> Stamps(Claims)]
    BY <1>1
  <2> QED
    BY <1>1, <2>1, FS_EmptySet DEF Sound
<1>3. Whole(file)
  BY <1>1, FS_EmptySet DEF Whole, NonStart, ActivityAssumption
<1>4. ASSUME NEW s \in Watcher PROVE SweepStands(s) /\ ClockStands(s)
  BY <1>1 DEF ActivityInit, SweepStands, ClockStands, Resting, NonStart
<1> QED
  BY <1>2, <1>3, <1>4 DEF ActivityInit, ActivityInv

(* What Observe merges.                                                    *)
LEMMA ObservedIsWhole ==
  ASSUME ActivityAssumption, ActivityInv, NEW s \in Watcher, NEW scene \in Scenes, Observe(s, scene)
  PROVE  /\ sweep'[s].step = "merged"
         /\ Sound(sweep'[s].history) /\ Whole(sweep'[s].history)
         /\ \A t \in Watcher : t # s => sweep'[t] = sweep[t]
         /\ DOMAIN sweep' = Watcher
         /\ ClockStands(s)'
<1> DEFINE seen == Build(scene, now)
           next == Merged(Loaded(file), seen, sweep[s].at)
<1>1. /\ sweep[s].step = "looking" /\ DOMAIN sweep = Watcher
      /\ sweep' = [sweep EXCEPT ![s] = [step |-> "merged", correlated |-> seen.paths, history |-> next]]
      /\ UNCHANGED <<file, now, back, sweeps>>
  BY DEF Observe, ActivityInv
<1>2. sweep[s].at \in Nat /\ now \in Nat
  BY <1>1 DEF ActivityInv, SweepStands, Resting
<1>3. Sound(seen) /\ Sound(Loaded(file)) /\ \A e \in NonStart(DOMAIN seen.events) : e.at = now
  BY <1>2, BuildIsSound, LoadedIsSound DEF ActivityInv
<1>4. /\ Sound(next) /\ Whole(next)
      /\ DOMAIN next.events \subseteq Past(Loaded(file), sweep[s].at) \cup DOMAIN seen.events
  <2> HIDE DEF seen
  <2> QED
    BY <1>2, <1>3, MergedIsWhole
<1> HIDE DEF seen, next
<1>5. sweep'[s] = [step |-> "merged", correlated |-> seen.paths, history |-> next]
  BY <1>1
<1>6. /\ DOMAIN sweep' = Watcher /\ \A t \in Watcher : t # s => sweep'[t] = sweep[t]
      /\ sweep'[s].step = "merged" /\ sweep'[s].history = next
  BY <1>1, <1>5
<1>7. ASSUME Watcher = {s}, back = 0, NEW e \in NonStart(DOMAIN next.events)
      PROVE  e.at <= now
  <2>1. CASE e \in DOMAIN seen.events
    BY <1>2, <1>3, <1>7, <2>1 DEF NonStart
  <2>2. CASE e \in Past(Loaded(file), sweep[s].at)
    <3>1. e.at <= sweep[s].at /\ sweep[s].at <= now /\ e \in DOMAIN file.events
      BY <1>1, <1>7, <2>2, LoadedIsSound DEF Past, ActivityInv, ClockStands
    <3>2. e.at \in Nat
      BY <3>1 DEF ActivityInv, Sound, Events
    <3> QED
      BY <1>2, <3>1, <3>2
  <2> QED
    BY <1>4, <1>7, <2>1, <2>2 DEF NonStart
<1>8. ClockStands(s)'
  BY <1>1, <1>6, <1>7 DEF ClockStands, ActivityInv
<1> QED
  BY <1>4, <1>6, <1>8

LEMMA ActivityGoesOn == ActivityAssumption /\ ActivityInv /\ [ActivityNext]_activityVars => ActivityInv'
<1> SUFFICES ASSUME ActivityAssumption, ActivityInv, [ActivityNext]_activityVars PROVE ActivityInv'
  OBVIOUS
<1>1. /\ now \in Nat /\ back \in Nat /\ Sound(file) /\ Whole(file) /\ DOMAIN sweep = Watcher
      /\ \A s \in Watcher : SweepStands(s) /\ ClockStands(s)
      /\ \A e \in NonStart(DOMAIN file.events) : e.at \in Nat
  BY DEF ActivityInv, Sound, Events, NonStart
<1>2. ASSUME NEW s \in Watcher, Glance(s) PROVE ActivityInv'
  <2>1. /\ UNCHANGED <<file, now, back>>
        /\ sweep' = [sweep EXCEPT ![s] = [step |-> "looking", at |-> now]]
    BY <1>2 DEF Glance
  <2>2. /\ DOMAIN sweep' = Watcher /\ sweep'[s] = [step |-> "looking", at |-> now]
        /\ \A t \in Watcher : t # s => sweep'[t] = sweep[t]
    BY <2>1, <1>1
  <2>3. SweepStands(s)' /\ ClockStands(s)'
    BY <2>1, <2>2, <1>1 DEF SweepStands, ClockStands
  <2>4. \A t \in Watcher : t # s => SweepStands(t)' /\ ClockStands(t)'
    BY <2>1, <2>2, <1>1 DEF SweepStands, ClockStands
  <2>5. \A t \in Watcher : SweepStands(t)' /\ ClockStands(t)'
    BY <2>3, <2>4
  <2> QED
    BY <2>1, <2>2, <2>5, <1>1 DEF ActivityInv
<1>3. ASSUME NEW s \in Watcher, Save(s) PROVE ActivityInv'
  <2>1. /\ sweep[s].step = "merged" /\ file' = sweep[s].history /\ UNCHANGED <<now, back>>
        /\ sweep' = [sweep EXCEPT ![s] = Resting]
    BY <1>3 DEF Save
  <2>2. /\ DOMAIN sweep' = Watcher /\ sweep'[s] = Resting
        /\ \A t \in Watcher : t # s => sweep'[t] = sweep[t]
    BY <2>1, <1>1
  <2>3. Sound(sweep[s].history) /\ Whole(sweep[s].history)
    BY <2>1, <1>1 DEF SweepStands, Resting
  <2>4. Sound(file)' /\ Whole(file)'
    BY <2>1, <2>3 DEF Sound, Whole
  <2>5. SweepStands(s)' /\ ClockStands(s)'
    BY <2>1, <2>2, <1>1 DEF SweepStands, ClockStands, Resting
  <2>6. \A t \in Watcher : t # s => SweepStands(t)' /\ ClockStands(t)'
    BY <2>1, <2>2, <1>1 DEF SweepStands, ClockStands
  <2>7. \A t \in Watcher : SweepStands(t)' /\ ClockStands(t)'
    BY <2>5, <2>6
  <2> QED
    BY <2>1, <2>2, <2>4, <2>7, <1>1 DEF ActivityInv
<1>4. ASSUME NEW s \in Watcher, Fail(s) PROVE ActivityInv'
  <2>1. UNCHANGED <<file, now, back>> /\ sweep' = [sweep EXCEPT ![s] = Resting]
    BY <1>4 DEF Fail
  <2>2. /\ DOMAIN sweep' = Watcher /\ sweep'[s] = Resting
        /\ \A t \in Watcher : t # s => sweep'[t] = sweep[t]
    BY <2>1, <1>1
  <2>3. \A t \in Watcher : SweepStands(t)' /\ ClockStands(t)'
    BY <2>1, <2>2, <1>1 DEF SweepStands, ClockStands, Resting
  <2> QED
    BY <2>1, <2>2, <2>3, <1>1 DEF ActivityInv
<1>5. ASSUME NEW s \in Watcher, NEW scene \in Scenes, Observe(s, scene) PROVE ActivityInv'
  <2>1. UNCHANGED <<file, now, back>>
    BY <1>5 DEF Observe
  <2>2. /\ sweep'[s].step = "merged"
        /\ Sound(sweep'[s].history) /\ Whole(sweep'[s].history)
        /\ \A t \in Watcher : t # s => sweep'[t] = sweep[t]
        /\ DOMAIN sweep' = Watcher
        /\ ClockStands(s)'
    BY <1>5, ObservedIsWhole
  <2>3. SweepStands(s)'
    BY <2>2 DEF SweepStands
  <2>4. \A t \in Watcher : t # s => SweepStands(t)' /\ ClockStands(t)'
    BY <2>1, <2>2, <1>1 DEF SweepStands, ClockStands
  <2>5. \A t \in Watcher : SweepStands(t)' /\ ClockStands(t)'
    BY <2>2, <2>3, <2>4
  <2> QED
    BY <2>1, <2>2, <2>5, <1>1 DEF ActivityInv
<1>6. ASSUME Tick PROVE ActivityInv'
  <2>1. now' = now + 1 /\ UNCHANGED <<file, back, sweep>>
    BY <1>6 DEF Tick
  <2>2. ASSUME NEW s \in Watcher PROVE ClockStands(s)'
    <3>1. ClockStands(s) /\ SweepStands(s)
      BY <1>1
    <3>2. sweep[s].step = "looking" => sweep[s].at \in Nat
      BY <3>1 DEF SweepStands, Resting
    <3>3. sweep[s].step = "merged" => \A e \in NonStart(DOMAIN sweep[s].history.events) : e.at \in Nat
      BY <3>1 DEF SweepStands, Resting, Sound, Events, NonStart
    <3> QED
      BY <2>1, <3>1, <3>2, <3>3, <1>1 DEF ClockStands
  <2>3. \A s \in Watcher : SweepStands(s)'
    BY <2>1, <1>1 DEF SweepStands
  <2> QED
    BY <2>1, <2>2, <2>3, <1>1 DEF ActivityInv
<1>7. ASSUME StepBack PROVE ActivityInv'
  <2>1. now > 1 /\ now' = now - 1 /\ back' = back + 1 /\ UNCHANGED <<file, sweep>>
    BY <1>7 DEF StepBack
  <2>2. \A s \in Watcher : ClockStands(s)'
    BY <2>1, <1>1 DEF ClockStands
  <2>3. \A s \in Watcher : SweepStands(s)'
    BY <2>1, <1>1 DEF SweepStands
  <2>4. now' \in Nat /\ back' \in Nat
    BY <2>1, <1>1
  <2> QED
    BY <2>1, <2>2, <2>3, <2>4, <1>1 DEF ActivityInv
<1>8. ASSUME UNCHANGED activityVars PROVE ActivityInv'
  <2>1. UNCHANGED <<file, now, back, sweep>>
    BY <1>8 DEF activityVars
  <2> QED
    BY <2>1, <1>1 DEF ActivityInv, SweepStands, ClockStands
<1> QED
  BY <1>2, <1>3, <1>4, <1>5, <1>6, <1>7, <1>8 DEF ActivityNext, Rest


(* What was there before the look, and is there after it, is of the past.  *)
LEMMA ObservedKeepsOrder ==
  ASSUME ActivityAssumption, ActivityInv, NEW s \in Watcher, NEW scene \in Scenes, Observe(s, scene),
         Timely(s)
  PROVE  KeepsOrder(s)
<1> DEFINE seen == Build(scene, now)
           clock == sweep[s].at
           was == Loaded(file)
           known == DOMAIN file.events
           there == Past(was, clock) \cup DOMAIN seen.events
           both == Both(was, seen, clock)
           numbered == Renumbered(was, seen, clock)
           next == Merged(was, seen, clock)
<1>1. /\ sweep[s].step = "looking" /\ DOMAIN sweep = Watcher /\ now \in Nat
      /\ sweep' = [sweep EXCEPT ![s] = [step |-> "merged", correlated |-> seen.paths, history |-> next]]
      /\ Sound(file) /\ Whole(file) /\ SweepStands(s) /\ ClockStands(s)
  BY DEF Observe, ActivityInv
<1>2. clock \in Nat /\ clock <= now /\ \A e \in NonStart(known) : e.at <= clock
  BY <1>1 DEF SweepStands, ClockStands, Resting, Timely
<1>3. /\ Sound(seen) /\ Sound(was) /\ \A e \in NonStart(DOMAIN seen.events) : e.at = now
      /\ DOMAIN was.events = known /\ \A e \in known : was.events[e].seq = file.events[e].seq
  BY <1>1, BuildIsSound, LoadedIsSound
<1>4. sweep'[s].history = next
  <2> HIDE DEF next, seen
  <2>1. sweep'[s] = [step |-> "merged", correlated |-> seen.paths, history |-> next]
    BY <1>1
  <2> QED
    BY <2>1
<1>5. Past(was, clock) = {e \in known : e.at >= clock - Retention /\ e.at <= clock}
  BY <1>3 DEF Past
<1> HIDE DEF seen, clock, was, both
<1>6. /\ there \in SUBSET Events /\ IsFiniteSet(there) /\ both \in [there -> Stamps(Claims)]
      /\ \A e \in Past(was, clock) : both[e].seq = was.events[e].seq
  BY <1>2, <1>3, BothAreSound DEF both
<1>7. /\ DOMAIN next.events \subseteq there
      /\ \A e \in DOMAIN next.events : next.events[e].seq = numbered[e].seq
  <2> HIDE DEF seen, clock, was
  <2>1. Sound(was) /\ Sound(seen) /\ clock \in Nat
    BY <1>2, <1>3
  <2> QED
    BY <2>1, MergedIsWhole
<1>8. numbered = Numbered(both, known)
  BY <1>3 DEF Renumbered, both
<1> HIDE DEF next, numbered, there
<1>9. ASSUME NEW e \in NonStart(there), e \in known
      PROVE  e \in Past(was, clock) /\ both[e].seq = file.events[e].seq
  <2>1. e \in there /\ e.kind # "started" /\ e \in Events
    BY <1>6, <1>9 DEF NonStart
  <2>2. e.at \in Nat /\ e.at <= clock
    BY <1>2, <1>9, <2>1 DEF NonStart, Events
  <2>3. CASE e \in Past(was, clock)
    BY <2>3, <1>3, <1>6, <1>9
  <2>4. CASE e \in DOMAIN seen.events
    <3>1. e.at = now
      BY <1>3, <2>1, <2>4 DEF NonStart
    <3>2. Retention \in Nat
      BY DEF ActivityAssumption
    <3>3. e.at >= clock - Retention
      BY <3>1, <3>2, <2>2, <1>1, <1>2
    <3>4. e \in Past(was, clock)
      BY <3>3, <2>2, <1>5, <1>9
    <3> QED
      BY <3>4, <1>3, <1>6, <1>9
  <2> QED
    BY <2>1, <2>3, <2>4 DEF there
<1>10. \A e, f \in NonStart(known) :
         RunOf(e) = RunOf(f) /\ file.events[e].seq = file.events[f].seq => e = f
  BY <1>1 DEF Whole
<1>11. \A e \in NonStart(known) : file.events[e].seq > 0
  BY <1>1 DEF Whole
<1>12. \A e \in there : ~Before(e, e)
  BY <1>6, EventsAreOrdered DEF Orders, ByBefore
<1>13. ASSUME NEW e \in NonStart(there), e \in known
       PROVE  numbered[e].seq = file.events[e].seq
  <2>1. e \in there /\ e.kind # "started" /\ e \in NonStart(known)
    BY <1>13 DEF NonStart
  <2>2. both[e].seq = file.events[e].seq /\ both[e].seq > 0
    BY <1>9, <1>11, <1>13, <2>1
  <2>3. ASSUME NEW f \in DOMAIN both \cap known, RunOf(f) = RunOf(e), f.kind # "started",
               both[f].seq = both[e].seq
        PROVE  ~Before(f, e)
    <3>1. f \in NonStart(there) /\ f \in NonStart(known)
      BY <1>6, <2>3 DEF NonStart
    <3>2. file.events[f].seq = file.events[e].seq
      BY <1>9, <2>2, <2>3, <3>1
    <3>3. f = e
      BY <1>10, <2>1, <2>3, <3>1, <3>2
    <3> QED
      BY <1>12, <2>1, <3>3
  <2>4. Kept(both, known, e)
    BY <1>13, <2>2, <2>3 DEF Kept
  <2>5. numbered[e].seq = both[e].seq
    <3>1. \A x \in NonStart(there) : Kept(both, known, x) => Numbered(both, known)[x].seq = both[x].seq
      BY <1>6, NumbersAreOwn
    <3> QED
      BY <3>1, <1>8, <1>13, <2>4
  <2> QED
    BY <2>2, <2>5
<1>14. ASSUME NEW e \in NonStart(there), e \in known, NEW f \in NonStart(there), f \notin known,
              RunOf(e) = RunOf(f)
       PROVE  numbered[e].seq < numbered[f].seq
  <2>1. e \in there \cap known /\ f \in NonStart(there) \ known
    BY <1>14 DEF NonStart
  <2>2. \A x \in there \cap known, y \in NonStart(there) \ known :
          RunOf(x) = RunOf(y) => both[x].seq < numbered[y].seq
    BY <1>6, <1>8, NumbersAreOwn
  <2>3. both[e].seq < numbered[f].seq
    BY <1>14, <2>1, <2>2
  <2> QED
    BY <1>9, <1>13, <1>14, <2>3
<1>15. NonStart(DOMAIN next.events) \subseteq NonStart(there) /\ NonStart(there) \subseteq there
  BY <1>7 DEF NonStart
<1>16. \A e \in NonStart(DOMAIN next.events) : next.events[e].seq = numbered[e].seq
  BY <1>7 DEF NonStart
<1>17. ASSUME NEW e \in NonStart(DOMAIN next.events), NEW f \in NonStart(DOMAIN next.events),
              RunOf(e) = RunOf(f)
       PROVE  /\ {e, f} \subseteq known =>
                   (next.events[e].seq < next.events[f].seq) = (file.events[e].seq < file.events[f].seq)
              /\ e \in known /\ f \notin known => next.events[e].seq < next.events[f].seq
  BY <1>13, <1>14, <1>15, <1>16, <1>17
<1> QED
  BY <1>4, <1>17 DEF KeepsOrder, known

LEMMA OnlyLooksMerge ==
  ASSUME ActivityAssumption, ActivityInv, ActivityNext, NEW s \in Watcher, Merges(s)
  PROVE  \E scene \in Scenes : Observe(s, scene)
<1>1. sweep[s].step = "looking" /\ sweep'[s].step = "merged" /\ DOMAIN sweep = Watcher
  BY DEF Merges, ActivityInv
<1>2. ASSUME NEW t \in Watcher, Glance(t) \/ Save(t) \/ Fail(t) PROVE FALSE
  <2>1. /\ sweep' = [sweep EXCEPT ![t] = [step |-> "looking", at |-> now]]
           \/ sweep' = [sweep EXCEPT ![t] = Resting]
    BY <1>2 DEF Glance, Save, Fail
  <2> QED
    BY <2>1, <1>1 DEF Resting
<1>3. ASSUME NEW t \in Watcher, NEW scene \in Scenes, Observe(t, scene) PROVE t = s
  <2>1. t # s => sweep'[s] = sweep[s]
    BY <1>3, ObservedIsWhole
  <2> QED
    BY <2>1, <1>1
<1>4. ~(sweep' = sweep)
  BY <1>1
<1> QED
  BY <1>2, <1>3, <1>4 DEF ActivityNext, Tick, StepBack, Rest, activityVars

LEMMA StepsKeepOrder ==
  ActivityAssumption /\ ActivityInv /\ [ActivityNext]_activityVars => [EventsInOrder]_activityVars
<1> SUFFICES ASSUME ActivityAssumption, ActivityInv, ActivityNext PROVE EventsInOrder
  OBVIOUS
<1>1. DOMAIN sweep = Watcher
  BY DEF ActivityInv
<1>2. ASSUME NEW s \in Watcher, Merges(s), Timely(s) PROVE KeepsOrder(s)
  <2>1. PICK scene \in Scenes : Observe(s, scene)
    BY <1>2, OnlyLooksMerge
  <2> QED
    BY <1>2, <2>1, ObservedKeepsOrder
<1> QED
  BY <1>1, <1>2 DEF EventsInOrder

LEMMA InvIsWhole == ActivityInv => HistoryIsWhole
BY DEF ActivityInv, Sound, Whole, HistoryIsWhole

(* activity_history.rs:3-7, build.rs:234-242: whatever surfaces race and   *)
(* however the clock is set, the timeline of the agents is bounded, gives  *)
(* each number of a run once and refers to nothing that is not there.  A   *)
(* merge whose clock is behind neither the file nor the look, and so each  *)
(* merge of a surface that sweeps alone with a clock that is not set back, *)
(* leaves every event in its place.                                        *)
THEOREM ActivityStands == ASSUME ActivityAssumption PROVE ActivitySpec => HistoryStands
<1>1. ActivityInit => ActivityInv
  BY ActivityBegins
<1>2. ActivityInv /\ [ActivityNext]_activityVars => ActivityInv'
  BY ActivityGoesOn
<1>3. ActivityInv => HistoryIsWhole
  BY InvIsWhole
<1>4. ActivityInv /\ [ActivityNext]_activityVars => [EventsInOrder]_activityVars
  BY StepsKeepOrder
<1> QED
  BY <1>1, <1>2, <1>3, <1>4, PTL DEF ActivitySpec, HistoryStands
=============================================================================
