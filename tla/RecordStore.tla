----------------------------- MODULE RecordStore -----------------------------
(***************************************************************************)
(* Journal::with_record_lock, RecordLock and replace_atomically            *)
(* (topgent-journal/src/journal.rs): the read-modify-write every locked    *)
(* record file goes through.  A call creates <name>.lock exclusively,      *)
(* reads the whole file, writes a scratch file, renames it over the        *)
(* record, and removes the lock on drop.  A lock file older than STALE is  *)
(* taken for abandoned and removed by whoever finds it.                    *)
(*                                                                         *)
(* Only ages and what is left of a wait matter to the code, so they are    *)
(* kept as capped counters and no clock grows.  `owner' of the lock file   *)
(* is a history: no code can read it.                                      *)
(***************************************************************************)
EXTENDS Naturals, TLAPS

CONSTANTS
  Writer,      \* threads of any process that share the journal directory
  STALE,       \* RECORD_LOCK_STALE_MS in ticks
  WAIT,        \* RECORD_LOCK_WAIT_MS in ticks
  MaxCrashes,  \* writers that may be killed inside the critical section
  MaxUpdates,  \* bound on the calls of one writer
  NoFile,      \* no writer: the lock file does not exist
  Prompt       \* TRUE: no step of a running writer takes as long as a tick

ASSUME StoreAssumption ==
  /\ STALE \in Nat \ {0}
  /\ WAIT \in Nat
  /\ MaxCrashes \in Nat
  /\ MaxUpdates \in Nat
  /\ Prompt \in BOOLEAN
  /\ NoFile \notin Writer

VARIABLES
  pc,        \* where each writer stands in its call
  lock,      \* the lock file: NoFile, or (ghost) the writer that created it
  age,       \* ticks since the lock file was created, as far as STALE
  left,      \* ticks left before the writer's deadline
  record,    \* the record file: the updates of each writer it holds
  loaded,    \* what each writer read, the basis of its rewrite
  applied,   \* history: renames each writer has completed
  crashed,   \* how many writers have been killed
  parity     \* of the ticks so far, which makes every tick a step

vars == <<pc, lock, age, left, record, loaded, applied, crashed, parity>>

Versions == [Writer -> Nat]
Empty == [w \in Writer |-> 0]

(***************************************************************************)
(* "try", "exists", "reclaim" are the three system calls of                *)
(* RecordLock::acquire; "backoff" is the sleep between two attempts;       *)
(* "locked", "loaded", "saved" are the closure `work' up to the drop.      *)
(***************************************************************************)
Acquiring == {"try", "exists", "reclaim"}
Working == {"locked", "loaded", "saved"}
PcSet == {"idle", "backoff", "dead"} \cup Acquiring \cup Working

Holds(w) == pc[w] \in Working
Goto(w, to) == pc' = [pc EXCEPT ![w] = to]

Locked == lock # NoFile
CreateLock(w) == ~Locked /\ lock' = w /\ age' = 0
RemoveLock == lock' = NoFile /\ age' = 0

TypeOK ==
  /\ pc \in [Writer -> PcSet]
  /\ lock \in Writer \cup {NoFile}
  /\ age \in 0..STALE
  /\ left \in [Writer -> 0..WAIT]
  /\ record \in Versions
  /\ loaded \in [Writer -> Versions]
  /\ applied \in Versions
  /\ crashed \in 0..MaxCrashes
  /\ parity \in {0, 1}

Init ==
  /\ pc = [w \in Writer |-> "idle"]
  /\ lock = NoFile
  /\ age = 0
  /\ left = [w \in Writer |-> 0]
  /\ record = Empty
  /\ loaded = [w \in Writer |-> Empty]
  /\ applied = Empty
  /\ crashed = 0
  /\ parity = 0

-----------------------------------------------------------------------------
(* Mutant: the deadline is an extra tick late.                             *)
CallLateDeadline(w) ==
  /\ pc[w] = "idle"
  /\ applied[w] < MaxUpdates
  /\ left' = [left EXCEPT ![w] = WAIT + 1]
  /\ Goto(w, "try")
  /\ UNCHANGED <<lock, age, record, loaded, applied, crashed, parity>>

(* with_record_lock: the deadline is fixed when the call starts.           *)
Call(w) ==
  /\ pc[w] = "idle"
  /\ applied[w] < MaxUpdates
  /\ left' = [left EXCEPT ![w] = WAIT]
  /\ Goto(w, "try")
  /\ UNCHANGED <<lock, age, record, loaded, applied, crashed, parity>>

(* create_new, tried only while the deadline has not passed.               *)
TryCreate(w) ==
  /\ pc[w] = "try"
  /\ left[w] > 0
  /\ \/ CreateLock(w) /\ Goto(w, "locked")
     \/ Locked /\ UNCHANGED <<lock, age>> /\ Goto(w, "exists")
  /\ UNCHANGED <<left, record, loaded, applied, crashed, parity>>

(* The deadline passed: WouldBlock.                                        *)
GiveUp(w) ==
  /\ pc[w] = "try"
  /\ left[w] = 0
  /\ Goto(w, "idle")
  /\ UNCHANGED <<lock, age, left, record, loaded, applied, crashed, parity>>

(* Mutant: a file still empty reads as abandoned, as in SweepLock.         *)
ReadAgeFromContent(w) ==
  /\ pc[w] = "exists"
  /\ IF Locked /\ (age = 0 \/ age >= STALE)
       THEN Goto(w, "reclaim")
       ELSE Goto(w, "backoff")
  /\ UNCHANGED <<lock, age, left, record, loaded, applied, crashed, parity>>

(* metadata().modified().elapsed(): a file already gone is not abandoned.  *)
ReadAge(w) ==
  /\ pc[w] = "exists"
  /\ IF Locked /\ age >= STALE
       THEN Goto(w, "reclaim")
       ELSE Goto(w, "backoff")
  /\ UNCHANGED <<lock, age, left, record, loaded, applied, crashed, parity>>

(* remove_file, by name: it removes whatever file has that name by now,    *)
(* and the caller goes back to the loop without holding anything.          *)
Reclaim(w) ==
  /\ pc[w] = "reclaim"
  /\ RemoveLock
  /\ Goto(w, "backoff")
  /\ UNCHANGED <<left, record, loaded, applied, crashed, parity>>

(* Mutant: the deadline is computed anew for every attempt.                *)
RetryNewDeadline(w) ==
  /\ pc[w] = "backoff"
  /\ left' = [left EXCEPT ![w] = WAIT]
  /\ Goto(w, "try")
  /\ UNCHANGED <<lock, age, record, loaded, applied, crashed, parity>>

(* The sleep ends: between 1 and 26 ms, so many times in a tick.           *)
Retry(w) ==
  /\ pc[w] = "backoff"
  /\ Goto(w, "try")
  /\ UNCHANGED <<lock, age, left, record, loaded, applied, crashed, parity>>

-----------------------------------------------------------------------------
(* Mutant: the records are read once and cached between calls.             *)
LoadCached(w) ==
  /\ pc[w] = "locked"
  /\ loaded' = [loaded EXCEPT ![w] = IF @ = Empty THEN record ELSE @]
  /\ Goto(w, "loaded")
  /\ UNCHANGED <<lock, age, left, record, applied, crashed, parity>>

(* The closure reads the whole record file ...                             *)
Load(w) ==
  /\ pc[w] = "locked"
  /\ loaded' = [loaded EXCEPT ![w] = record]
  /\ Goto(w, "loaded")
  /\ UNCHANGED <<lock, age, left, record, applied, crashed, parity>>

(* ... and renames a scratch file holding what it read plus its own change *)
(* over it.  Readers see the old file or the new one.                      *)
Replace(w) ==
  /\ pc[w] = "loaded"
  /\ record' = [loaded[w] EXCEPT ![w] = @ + 1]
  /\ applied' = [applied EXCEPT ![w] = @ + 1]
  /\ Goto(w, "saved")
  /\ UNCHANGED <<lock, age, left, loaded, crashed, parity>>

(* Mutant: the target is truncated and written in place.                   *)
ReplaceFailsInPlace(w) ==
  /\ pc[w] = "loaded"
  /\ record' = Empty
  /\ Goto(w, "saved")
  /\ UNCHANGED <<lock, age, left, loaded, applied, crashed, parity>>

(* Creating, writing, syncing or renaming the scratch file failed: it is   *)
(* removed, the error is returned, the record is as it was.                *)
ReplaceFails(w) ==
  /\ pc[w] = "loaded"
  /\ Goto(w, "saved")
  /\ UNCHANGED <<lock, age, left, record, loaded, applied, crashed, parity>>

(* RecordLock::drop removes the file by name, whoever created it.          *)
Release(w) ==
  /\ pc[w] = "saved"
  /\ RemoveLock
  /\ Goto(w, "idle")
  /\ UNCHANGED <<left, record, loaded, applied, crashed, parity>>

(* The process is killed inside the critical section: the lock file stays. *)
Crash(w) ==
  /\ Holds(w)
  /\ crashed < MaxCrashes
  /\ crashed' = crashed + 1
  /\ Goto(w, "dead")
  /\ UNCHANGED <<lock, age, left, record, loaded, applied, parity>>

-----------------------------------------------------------------------------
(***************************************************************************)
(* Time passes: ages and waits advance, and whoever is still asleep wakes  *)
(* (a tick is about a second).  With Prompt, a writer that is running      *)
(* finishes the system calls it is in, and a holder its critical section,  *)
(* before a lock file it created could age to STALE.                       *)
(***************************************************************************)
Busy(w) == pc[w] \in Acquiring \/ (Holds(w) /\ Locked /\ age + 1 >= STALE)

Tick ==
  /\ Prompt => \A w \in Writer : ~Busy(w)
  /\ age' = IF Locked /\ age < STALE THEN age + 1 ELSE age
  /\ left' = [w \in Writer |-> IF left[w] > 0 THEN left[w] - 1 ELSE 0]
  /\ pc' = [w \in Writer |-> IF pc[w] = "backoff" THEN "try" ELSE pc[w]]
  /\ parity' = 1 - parity
  /\ UNCHANGED <<lock, record, loaded, applied, crashed>>

Step(w) ==
  \/ TryCreate(w) \/ GiveUp(w) \/ ReadAge(w) \/ Reclaim(w) \/ Retry(w)
  \/ Load(w) \/ Replace(w) \/ ReplaceFails(w) \/ Release(w)

Next ==
  \/ \E w \in Writer : Call(w) \/ Step(w) \/ Crash(w)
  \/ Tick

Spec == Init /\ [][Next]_vars

(* A thread that is not killed is scheduled, and time passes: no behaviour *)
(* has infinitely many steps before a tick.  Nobody is obliged to call,    *)
(* and nobody to be killed.                                                *)
Fairness == []<><<Tick>>_vars /\ \A w \in Writer : WF_vars(Step(w))
FairSpec == Spec /\ Fairness

-----------------------------------------------------------------------------
(* journal.rs:83: the lock is the exclusive right to rewrite one record    *)
(* file, so no two writers are between its creation and its removal.       *)
ExclusiveRight == \A v, w \in Writer : Holds(v) /\ Holds(w) => v = w

(* A writer in its critical section is the creator of the lock file on     *)
(* disk: nobody reclaimed it and its drop removes its own file.            *)
HolderOwnsFile == \A w \in Writer : Holds(w) => lock = w

(* No update that was reported Ok is missing from the file, and nothing    *)
(* else is in it (journal.rs:378-381, "loses records silently").           *)
NoLostUpdate == record = applied

(* Every call returns, with or without the lock: a monitor never hangs on  *)
(* its own journal.                                                        *)
EveryCallReturns == \A w \in Writer : pc[w] = "try" ~> pc[w] \in {"idle", "dead"}

(* journal.rs:108-110: WAIT outlasts STALE on purpose, so a call that     *)
(* starts behind the lock of a killed holder gets in before its deadline   *)
(* (unless another writer competes for the freed lock: one waiter).        *)
Abandoned == Locked /\ pc[lock] = "dead"
GetsPastTheDead ==
  \A w \in Writer :
    (Abandoned /\ pc[w] = "try" /\ left[w] = WAIT) ~> (pc[w] = "locked")

(* The calls refine indivisible updates.                                   *)
Atomic == INSTANCE AtomicRecord WITH store <- record
RefinesAtomicRecord == Atomic!ASpec

(* journal.rs:95-101, 126: every call returns, with the right or refused,  *)
(* and a holder that died does not keep the others out.                    *)
CallsReturn == EveryCallReturns /\ GetsPastTheDead

-----------------------------------------------------------------------------
(***************************************************************************)
(* Theorems, for any set of writers, any STALE > 0, any WAIT and any       *)
(* number of calls.  TypeOK holds without conditions.  The rest holds when *)
(* no writer is killed inside its critical section and every writer runs   *)
(* promptly: the instance of RecordStore_reclaim shows that exclusion is   *)
(* lost with one crash.                                                    *)
(***************************************************************************)
Undisturbed == MaxCrashes = 0 /\ Prompt = TRUE

(* Type correctness: no step leaves the sets the variables range over.     *)
THEOREM TypeCorrect == Spec => []TypeOK
<1>1. Init => TypeOK
  BY StoreAssumption DEF Init, TypeOK, PcSet, Versions, Empty
<1>2. TypeOK /\ [Next]_vars => TypeOK'
  <2> SUFFICES ASSUME TypeOK, [Next]_vars PROVE TypeOK'
    OBVIOUS
  <2> USE StoreAssumption
       DEF TypeOK, PcSet, Acquiring, Working, Versions, Goto, Locked, CreateLock, RemoveLock
  <2>1. ASSUME NEW w \in Writer, Call(w) PROVE TypeOK'
    BY <2>1 DEF Call
  <2>2. ASSUME NEW w \in Writer, TryCreate(w) PROVE TypeOK'
    BY <2>2 DEF TryCreate
  <2>3. ASSUME NEW w \in Writer, GiveUp(w) PROVE TypeOK'
    BY <2>3 DEF GiveUp
  <2>4. ASSUME NEW w \in Writer, ReadAge(w) PROVE TypeOK'
    BY <2>4 DEF ReadAge
  <2>5. ASSUME NEW w \in Writer, Reclaim(w) PROVE TypeOK'
    BY <2>5 DEF Reclaim
  <2>6. ASSUME NEW w \in Writer, Retry(w) PROVE TypeOK'
    BY <2>6 DEF Retry
  <2>7. ASSUME NEW w \in Writer, Load(w) PROVE TypeOK'
    BY <2>7 DEF Load
  <2>8. ASSUME NEW w \in Writer, Replace(w) PROVE TypeOK'
    BY <2>8 DEF Replace
  <2>9. ASSUME NEW w \in Writer, ReplaceFails(w) PROVE TypeOK'
    BY <2>9 DEF ReplaceFails
  <2>10. ASSUME NEW w \in Writer, Release(w) PROVE TypeOK'
    BY <2>10 DEF Release
  <2>11. ASSUME NEW w \in Writer, Crash(w) PROVE TypeOK'
    BY <2>11 DEF Crash
  <2>12. CASE Tick
    BY <2>12 DEF Tick
  <2>13. CASE UNCHANGED vars
    BY <2>13 DEF vars
  <2> QED
    BY <2>1, <2>2, <2>3, <2>4, <2>5, <2>6, <2>7, <2>8, <2>9, <2>10, <2>11,
       <2>12, <2>13 DEF Next, Step
<1> QED
  BY <1>1, <1>2, PTL DEF Spec

-----------------------------------------------------------------------------
(***************************************************************************)
(* Exclusion is not inductive: it needs that the lock file is its holder's *)
(* own and younger than STALE, so that nobody reclaims it, that a lock     *)
(* file implies a live holder, and that what the holder read is still what *)
(* the file holds.                                                         *)
(***************************************************************************)
YoungLock == \A w \in Writer : Holds(w) => age < STALE
LockIsHeld == Locked => Holds(lock)
NobodyReclaims == \A w \in Writer : pc[w] # "reclaim"
ReadIsCurrent == \A w \in Writer : pc[w] = "loaded" => loaded[w] = record

IInv ==
  /\ HolderOwnsFile
  /\ YoungLock
  /\ LockIsHeld
  /\ NobodyReclaims
  /\ ReadIsCurrent
  /\ NoLostUpdate

LEMMA InitIInv == Init => IInv
BY DEF Init, IInv, HolderOwnsFile, YoungLock, LockIsHeld, NobodyReclaims,
       ReadIsCurrent, NoLostUpdate, Holds, Working, Locked

LEMMA OneHolder ==
  ASSUME HolderOwnsFile, NEW v \in Writer, NEW w \in Writer, Holds(v), Holds(w)
  PROVE  v = w
BY DEF HolderOwnsFile

LEMMA StepIInv ==
  ASSUME Undisturbed, TypeOK, IInv, [Next]_vars
  PROVE  IInv'
<1> USE StoreAssumption
     DEF Undisturbed, TypeOK, IInv, HolderOwnsFile, YoungLock, LockIsHeld,
         NobodyReclaims, ReadIsCurrent, NoLostUpdate, Holds, Goto, Working,
         Locked, CreateLock, RemoveLock
<1>1. ASSUME NEW w \in Writer, Call(w) PROVE IInv'
  BY <1>1 DEF Call
<1>2. ASSUME NEW w \in Writer, TryCreate(w) PROVE IInv'
  BY <1>2 DEF TryCreate
<1>3. ASSUME NEW w \in Writer, GiveUp(w) PROVE IInv'
  BY <1>3 DEF GiveUp
<1>4. ASSUME NEW w \in Writer, ReadAge(w) PROVE IInv'
  BY <1>4 DEF ReadAge
<1>5. ASSUME NEW w \in Writer, Reclaim(w) PROVE IInv'
  BY <1>5 DEF Reclaim
<1>6. ASSUME NEW w \in Writer, Retry(w) PROVE IInv'
  BY <1>6 DEF Retry
<1>7. ASSUME NEW w \in Writer, Load(w) PROVE IInv'
  BY <1>7 DEF Load
<1>8. ASSUME NEW w \in Writer, Replace(w) PROVE IInv'
  BY <1>8, OneHolder DEF Replace, Versions
<1>9. ASSUME NEW w \in Writer, ReplaceFails(w) PROVE IInv'
  BY <1>9 DEF ReplaceFails
<1>10. ASSUME NEW w \in Writer, Release(w) PROVE IInv'
  BY <1>10, OneHolder DEF Release
<1>11. ASSUME NEW w \in Writer, Crash(w) PROVE IInv'
  BY <1>11 DEF Crash
<1>12. CASE Tick
  BY <1>12 DEF Tick, Busy
<1>13. CASE UNCHANGED vars
  BY <1>13 DEF vars
<1> QED
  BY <1>1, <1>2, <1>3, <1>4, <1>5, <1>6, <1>7, <1>8, <1>9, <1>10, <1>11,
     <1>12, <1>13 DEF Next, Step

LEMMA Inductive ==
  ASSUME Undisturbed
  PROVE  Spec => [](TypeOK /\ IInv)
<1>1. TypeOK /\ IInv /\ [Next]_vars => IInv'
  BY StepIInv
<1> QED
  BY InitIInv, <1>1, TypeCorrect, PTL DEF Spec

(* The lock is an exclusive right (journal.rs:83): at most one writer is   *)
(* between creating a record's lock file and removing it.                  *)
THEOREM Exclusion ==
  ASSUME Undisturbed
  PROVE  Spec => []ExclusiveRight
<1>1. IInv => ExclusiveRight
  BY OneHolder DEF IInv, ExclusiveRight
<1> QED
  BY <1>1, Inductive, PTL

(* A holder's drop removes its own lock file, never another writer's.      *)
THEOREM OwnFile ==
  ASSUME Undisturbed
  PROVE  Spec => []HolderOwnsFile
<1>1. IInv => HolderOwnsFile
  BY DEF IInv
<1> QED
  BY <1>1, Inductive, PTL

(* No completed record update is lost, however the calls interleave.       *)
THEOREM NothingLost ==
  ASSUME Undisturbed
  PROVE  Spec => []NoLostUpdate
<1>1. IInv => NoLostUpdate
  BY DEF IInv
<1> QED
  BY <1>1, Inductive, PTL

(* The three-step read, modify, rename behaves as one indivisible update   *)
(* of the file, the contract every record_... function is written against. *)
THEOREM Refinement ==
  ASSUME Undisturbed
  PROVE  Spec => RefinesAtomicRecord
<1>1. Init => Atomic!AInit
  BY DEF Init, Atomic!AInit, Empty
<1>2. ASSUME TypeOK, IInv, [Next]_vars
      PROVE  [Atomic!ANext]_record
  <2>1. ASSUME NEW w \in Writer, Replace(w) PROVE Atomic!ANext
    BY <1>2, <2>1 DEF Replace, Atomic!ANext, Atomic!Update, IInv, ReadIsCurrent
  <2>2. ASSUME NEW w \in Writer,
               Call(w) \/ TryCreate(w) \/ GiveUp(w) \/ ReadAge(w) \/ Reclaim(w)
               \/ Retry(w) \/ Load(w) \/ ReplaceFails(w) \/ Release(w) \/ Crash(w)
        PROVE UNCHANGED record
    BY <2>2 DEF Call, TryCreate, GiveUp, ReadAge, Reclaim, Retry, Load,
                ReplaceFails, Release, Crash
  <2>3. Tick \/ UNCHANGED vars => UNCHANGED record
    BY DEF Tick, vars
  <2> QED
    BY <1>2, <2>1, <2>2, <2>3 DEF Next, Step
<1> QED
  BY <1>1, <1>2, Inductive, PTL DEF Spec, RefinesAtomicRecord, Atomic!ASpec
=============================================================================
