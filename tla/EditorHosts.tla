---------------------------- MODULE EditorHosts ----------------------------
(***************************************************************************)
(* Agents that run as extensions inside of an editor                       *)
(* (topgent-collect/src/editor.rs). An extension host writes the           *)
(* activations of its extensions to a log it keeps open. A sweep takes the *)
(* process table, looks which processes have such a log open, and reads    *)
(* the end of each log. Threads and children have the descriptors of their *)
(* host; macOS asks for the holders of the logs it found in the editors'   *)
(* directories, which are no more than so many.                            *)
(***************************************************************************)
EXTENDS Naturals, FiniteSets, SequencesExt, SequenceTheorems, TLAPS

CONSTANTS
  Pid, Log, Nothing,
  Extension,    \* the extensions that are activated
  Recognised,   \* those of them the catalogue names
  Mac,          \* whether this is macOS
  MaxTail,      \* MAX_LOG_TAIL, in activations
  MaxLogs,      \* MAX_EDITOR_LOGS
  MaxRuns, MaxChanges

EditorsAssumption == Nothing \notin Nat \cup Pid \cup Log

VARIABLES
  procs,     \* the run of each pid, or none
  runs,      \* history: [pid, parent, thread, opened] of each run
  holds,     \* the logs each pid has open
  logs,      \* what each log holds, or nothing once it was removed
  written,   \* history: every activation there was, <<log, run, extension>>
  pc, table, \* the processes the sweep found: [run, parent]
  found,     \* the holders it found: <<log, pid>>
  unread,    \* the logs it has still to read
  told,      \* [run, extension]
  changes

hostVars == <<procs, runs, holds, logs, written>>
sweepVars == <<pc, table, found, unread, told>>
vars == <<hostVars, sweepVars, changes>>

Init ==
  /\ procs = [pid \in Pid |-> Nothing] /\ runs = <<>>
  /\ holds = [pid \in Pid |-> {}] /\ logs = [l \in Log |-> <<>>] /\ written = {}
  /\ pc = "idle" /\ table = <<>> /\ found = {} /\ unread = {} /\ told = {} /\ changes = 0

-----------------------------------------------------------------------------
Alive == {pid \in Pid : procs[pid] # Nothing}

Change ==
  /\ pc \in {"idle", "listed", "held"} /\ changes < MaxChanges
  /\ changes' = changes + 1
  /\ UNCHANGED sweepVars

(* An editor starts a host, which opens its log.                           *)
Open(pid, l) ==
  /\ procs[pid] = Nothing /\ Len(runs) < MaxRuns /\ logs[l] # Nothing
  /\ \A r \in ToSet(runs) : r.opened # l
  /\ runs' = Append(runs, [pid |-> pid, parent |-> Nothing, thread |-> FALSE, opened |-> l])
  /\ procs' = [procs EXCEPT ![pid] = Len(runs')]
  /\ holds' = [holds EXCEPT ![pid] = {l}]
  /\ UNCHANGED <<logs, written>> /\ Change

(* A child or a thread of a host, which has what the host has open.        *)
Fork(parent, pid, thread) ==
  /\ procs[parent] # Nothing /\ procs[pid] = Nothing /\ Len(runs) < MaxRuns /\ (Mac => ~thread)
  /\ ~runs[procs[parent]].thread
  /\ runs' = Append(runs, [pid |-> pid, parent |-> parent, thread |-> thread, opened |-> Nothing])
  /\ procs' = [procs EXCEPT ![pid] = Len(runs')]
  /\ holds' = [holds EXCEPT ![pid] = holds[parent]]
  /\ UNCHANGED <<logs, written>> /\ Change

(* Its threads go with it and its children are handed to another parent.   *)
Exit(pid) ==
  /\ procs[pid] # Nothing
  /\ LET gone == {p \in Alive : p = pid \/ (runs[procs[p]].parent = pid /\ runs[procs[p]].thread)}
     IN  /\ procs' = [p \in Pid |-> IF p \in gone THEN Nothing ELSE procs[p]]
         /\ holds' = [p \in Pid |-> IF p \in gone THEN {} ELSE holds[p]]
         /\ runs' = [i \in DOMAIN runs |->
                       IF i \in {procs[p] : p \in Alive \ gone} /\ runs[i].parent = pid
                       THEN [runs[i] EXCEPT !.parent = Nothing] ELSE runs[i]]
  /\ UNCHANGED <<logs, written>> /\ Change

Activate(pid, e) ==
  /\ procs[pid] # Nothing
  /\ LET l == runs[procs[pid]].opened
     IN  /\ l # Nothing
         /\ logs' = IF logs[l] = Nothing THEN logs ELSE [logs EXCEPT ![l] = Append(@, e)]
         /\ written' = written \cup {<<l, procs[pid], e>>}
  /\ UNCHANGED <<procs, runs, holds>> /\ Change

(* An editor removes the logs of old sessions. (The descriptor of a log    *)
(* that was removed names no log.)                                         *)
Unlink(l) ==
  /\ logs[l] # Nothing
  /\ logs' = [logs EXCEPT ![l] = Nothing]
  /\ holds' = [pid \in Pid |-> holds[pid] \ {l}]
  /\ UNCHANGED <<procs, runs, written>> /\ Change

-----------------------------------------------------------------------------
(* Threads are listed as processes.                                        *)
Snapshot ==
  /\ pc = "idle"
  /\ table' = [pid \in Alive |-> [run |-> procs[pid], parent |-> runs[procs[pid]].parent]]
  /\ pc' = "listed" /\ told' = {}
  /\ UNCHANGED <<hostVars, found, unread, changes>>

(* The holders as they are when they are asked for, of the pids in the     *)
(* table. A thread is known by what its group is.                          *)
Holders ==
  /\ pc = "listed"
  /\ \E asked \in {ls \in SUBSET Log : ~Mac \/ Cardinality(ls) <= MaxLogs} :
       /\ ~Mac => asked = Log
       /\ Mac => (Cardinality(asked) = MaxLogs \/ asked = {l \in Log : logs[l] # Nothing})
       /\ found' = {x \in asked \X DOMAIN table :
                      /\ procs[x[2]] # Nothing /\ x[1] \in holds[x[2]]
                      /\ ~runs[procs[x[2]]].thread}
  /\ unread' = {x[1] : x \in found'}
  /\ pc' = "held"
  /\ UNCHANGED <<hostVars, table, told, changes>>

(* root_holder_pids: the holders whose parent is not a holder.             *)
Roots(l) ==
  LET pids == {x[2] : x \in {y \in found : y[1] = l}}
  IN  {pid \in pids : table[pid].parent \notin pids}

(* activated_extensions, in the end of the log.                            *)
Activated(lines) ==
  {lines[i] : i \in {j \in DOMAIN lines : j + MaxTail > Len(lines)}} \cap Recognised

(* What of it is told of each of its hosts.                                *)
Hosted(l) == {[run |-> table[pid].run, extension |-> e] : pid \in Roots(l), e \in Activated(logs[l])}

(* A log that cannot be opened is the failure of the whole collector.      *)
ReadHostLog ==
  /\ pc = "held" /\ unread # {}
  /\ LET l == CHOOSE x \in unread : TRUE
     IN  IF logs[l] = Nothing
         THEN pc' = "failed" /\ told' = {} /\ UNCHANGED unread
         ELSE /\ told' = told \cup Hosted(l)
              /\ unread' = unread \ {l}
              /\ UNCHANGED pc
  /\ UNCHANGED <<hostVars, table, found, changes>>

Collected ==
  /\ pc = "held" /\ unread = {}
  /\ pc' = "told"
  /\ UNCHANGED <<hostVars, table, found, unread, told, changes>>

Next ==
  \/ \E pid \in Pid, l \in Log : Open(pid, l)
  \/ \E parent, pid \in Pid, thread \in BOOLEAN : Fork(parent, pid, thread)
  \/ \E pid \in Pid : Exit(pid)
  \/ \E pid \in Pid, e \in Extension : Activate(pid, e)
  \/ \E l \in Log : Unlink(l)
  \/ Snapshot \/ Holders \/ ReadHostLog \/ Collected

Spec == Init /\ [][Next]_vars

-----------------------------------------------------------------------------
TypeOK ==
  /\ pc \in {"idle", "listed", "held", "failed", "told"}
  /\ found \subseteq Log \X DOMAIN table /\ unread \subseteq Log
  /\ \A f \in told : f.run \in DOMAIN runs /\ f.extension \in Recognised

(* An extension that is told was activated in a log that a process with    *)
(* this pid had open when it was asked (editor.rs:8-13, 191-205).          *)
BoundByDescriptor ==
  \A f \in told : \E w \in written : w[3] = f.extension /\ <<w[1], runs[f.run].pid>> \in found

(* A thread is never told of, nor a child of a host that was found with it *)
(* (editor.rs:141-149, 193-199; editor.rs test:                            *)
(* inherited_log_descriptor_stays_with_the_root_host_process).             *)
ChildrenAreNotHosts ==
  \A f \in told :
    /\ procs[runs[f.run].pid] = f.run => ~runs[f.run].thread
    /\ ~\E x \in found : /\ x[2] = table[runs[f.run].pid].parent
                         /\ \A y \in found : y[2] = runs[f.run].pid => <<y[1], x[2]>> \in found

(* The extension is told of the process it was activated in, while no host *)
(* exits and leaves its log to a child, and no pid is given out again.     *)
HostIsOwn ==
  (\A i \in DOMAIN runs : procs[runs[i].pid] = i) =>
     \A f \in told : \E w \in written : w[2] = f.run /\ w[3] = f.extension

EditorsHold == TypeOK /\ BoundByDescriptor /\ ChildrenAreNotHosts /\ HostIsOwn

-----------------------------------------------------------------------------
(* What EditorsHold rests on.                                              *)
Run == [pid : Pid, parent : Pid \cup {Nothing}, thread : BOOLEAN, opened : Log \cup {Nothing}]

Types ==
  /\ runs \in Seq(Run) /\ procs \in [Pid -> Nat \cup {Nothing}] /\ holds \in [Pid -> SUBSET Log]
  /\ logs \in [Log -> Seq(Extension) \cup {Nothing}]
  /\ pc \in {"idle", "listed", "held", "failed", "told"} /\ unread \in SUBSET Log
  /\ \A pid \in Pid : procs[pid] # Nothing => procs[pid] \in DOMAIN runs /\ runs[procs[pid]].pid = pid

(* A log is of the one run that opened it, and holds what was activated.   *)
OpenedOnce == \A i, j \in DOMAIN runs : runs[i].opened # Nothing /\ runs[i].opened = runs[j].opened => i = j
Logged ==
  /\ \A w \in written : w[1] \in Log /\ w[2] \in DOMAIN runs /\ runs[w[2]].opened = w[1]
  /\ \A l \in Log : logs[l] # Nothing => \A i \in DOMAIN logs[l] : \E w \in written : w[1] = l /\ w[3] = logs[l][i]

(* What the sweep has listed and found: runs that were alive, and holders  *)
(* that are no threads, unless others have their pids by now.              *)
Tabled ==
  /\ DOMAIN table \in SUBSET Pid
  /\ \A pid \in DOMAIN table : table[pid].run \in DOMAIN runs /\ runs[table[pid].run].pid = pid
  /\ found \in SUBSET (Log \X DOMAIN table)
  /\ \A x \in found : procs[x[2]] = table[x[2]].run => ~runs[table[x[2]].run].thread
  /\ pc \in {"idle", "listed"} => found = {} /\ unread = {} /\ told = {}

(* What is told is of a root of a log that has it.                         *)
OfRoot(f) ==
  /\ f.extension \in Recognised
  /\ \E l \in Log : \E pid \in Roots(l) :
       f.run = table[pid].run /\ \E w \in written : w[1] = l /\ w[3] = f.extension
Told == \A f \in told : OfRoot(f)

(* As long as every run is alive: who holds a log opened it, or so did     *)
(* what it was forked of; and the table and the roots are as found.        *)
Quiet == \A i \in DOMAIN runs : procs[runs[i].pid] = i
Heir(i) ==
  LET r == runs[i]
  IN IF r.parent = Nothing THEN holds[r.pid] \subseteq {r.opened}
     ELSE /\ procs[r.parent] # Nothing /\ ~runs[procs[r.parent]].thread
          /\ holds[r.pid] \subseteq holds[r.parent]
Heirs == \A i \in DOMAIN runs : Heir(i)
StillListed ==
  \A pid \in DOMAIN table :
    /\ table[pid].run = procs[pid] /\ table[pid].parent = runs[procs[pid]].parent
    /\ table[pid].parent # Nothing => table[pid].parent \in DOMAIN table
RootsOpened == \A l \in Log : \A pid \in Roots(l) : runs[table[pid].run].opened = l
WhileQuiet == Quiet => Heirs /\ StillListed /\ RootsOpened

EditorInv == Types /\ OpenedOnce /\ Logged /\ Tabled /\ Told /\ WhileQuiet

-----------------------------------------------------------------------------
LEMMA RootIs ==
  ASSUME NEW l
  PROVE  \A pid : pid \in Roots(l) <=>
           \E x \in found : x[1] = l /\ x[2] = pid /\ ~\E y \in found : y[1] = l /\ y[2] = table[pid].parent
BY DEF Roots

LEMMA RunsGrow ==
  ASSUME Types, NEW r \in Run, runs' = Append(runs, r)
  PROVE  /\ runs' \in Seq(Run) /\ Len(runs) \in Nat /\ Len(runs') = Len(runs) + 1
         /\ DOMAIN runs = 1..Len(runs) /\ DOMAIN runs' = DOMAIN runs \cup {Len(runs')}
         /\ Len(runs') \notin DOMAIN runs /\ runs'[Len(runs')] = r
         /\ \A i \in DOMAIN runs : runs'[i] = runs[i]
<1>1. runs \in Seq(Run)
  BY DEF Types
<1>2. /\ runs' \in Seq(Run) /\ Len(runs') = Len(runs) + 1 /\ runs'[Len(runs) + 1] = r
      /\ \A i \in 1..Len(runs) : runs'[i] = runs[i]
  BY <1>1, AppendProperties
<1>3. DOMAIN runs = 1..Len(runs) /\ Len(runs) \in Nat /\ DOMAIN runs' = 1..Len(runs')
  BY <1>1, <1>2, LenProperties
<1> QED BY <1>2, <1>3

(* What the host does to what a sweep has found.                           *)
Same(r, s) == s.pid = r.pid /\ s.thread = r.thread /\ s.opened = r.opened
Later ==
  /\ UNCHANGED sweepVars /\ written \subseteq written'
  /\ \A i \in DOMAIN runs : i \in DOMAIN runs' /\ Same(runs[i], runs'[i])
  /\ \A pid \in Pid : procs'[pid] \in {procs[pid], Nothing} \/ procs'[pid] \notin DOMAIN runs

LEMMA LaterStands ==
  ASSUME EditorsAssumption, Types, Tabled, Told, Later PROVE Tabled' /\ Told'
<1>1. UNCHANGED <<pc, table, found, unread, told>> /\ \A l : Roots(l)' = Roots(l)
  BY DEF Later, sweepVars, Roots
<1>2. DOMAIN runs \in SUBSET Nat
  <2>1. runs \in Seq(Run)
    BY DEF Types
  <2> QED BY <2>1, LenProperties
<1>3. ASSUME NEW pid \in DOMAIN table
      PROVE  table[pid].run \in DOMAIN runs' /\ runs'[table[pid].run].pid = pid
  BY DEF Tabled, Later, Same
<1>4. ASSUME NEW x \in found, procs'[x[2]] = table[x[2]].run PROVE ~runs'[table[x[2]].run].thread
  <2>1. x[2] \in DOMAIN table /\ x[2] \in Pid /\ table[x[2]].run \in DOMAIN runs
    BY DEF Tabled
  <2>2. table[x[2]].run # Nothing
    BY <1>2, <2>1 DEF EditorsAssumption
  <2>3. procs[x[2]] = table[x[2]].run
    BY <1>4, <2>1, <2>2 DEF Later
  <2>4. ~runs[table[x[2]].run].thread
    BY <2>3 DEF Tabled
  <2> QED BY <2>1, <2>4 DEF Later, Same
<1>5. Tabled'
  BY <1>1, <1>3, <1>4 DEF Tabled
<1>6. Told'
  <2> SUFFICES ASSUME NEW f \in told PROVE OfRoot(f)'
    BY <1>1 DEF Told
  <2>1. OfRoot(f)
    BY DEF Told
  <2>2. PICK l \in Log : \E pid \in Roots(l) : f.run = table[pid].run /\ \E w \in written : w[1] = l /\ w[3] = f.extension
    BY <2>1 DEF OfRoot
  <2>0. PICK pid \in Roots(l) : f.run = table[pid].run /\ \E w \in written : w[1] = l /\ w[3] = f.extension
    BY <2>2
  <2>3. pid \in Roots(l)' /\ f.run = table'[pid].run /\ \E w \in written' : w[1] = l /\ w[3] = f.extension
    BY <1>1, <2>0 DEF Later
  <2> QED BY <2>1, <2>3 DEF OfRoot
<1> QED BY <1>5, <1>6

-----------------------------------------------------------------------------
LEMMA EditorInvStarts == ASSUME EditorsAssumption, Init PROVE EditorInv
<1>1. runs = <<>> /\ runs \in Seq(Run) /\ DOMAIN runs = {}
  BY EmptySeq, LenProperties DEF Init
<1>2. ASSUME NEW l \in Log PROVE logs[l] \in Seq(Extension) /\ DOMAIN logs[l] = {}
  BY EmptySeq, LenProperties DEF Init
<1>3. logs \in [Log -> Seq(Extension) \cup {Nothing}]
  BY <1>2 DEF Init
<1>4. Types
  BY <1>1, <1>3 DEF Init, Types
<1>5. DOMAIN table = {} /\ \A l \in Log : Roots(l) = {}
  <2>1. DOMAIN table = {}
    BY <1>1 DEF Init
  <2> QED BY <2>1, RootIs DEF Init
<1>6. OpenedOnce /\ Logged /\ Tabled /\ Told
  BY <1>1, <1>2, <1>5 DEF Init, OpenedOnce, Logged, Tabled, Told
<1>7. WhileQuiet
  BY <1>1, <1>5 DEF WhileQuiet, Heirs, StillListed, RootsOpened
<1> QED BY <1>4, <1>6, <1>7 DEF EditorInv

(* A run that begins, with the logs it has and the one it opened, if any.  *)
Begins(pid, r, has) ==
  /\ procs[pid] = Nothing /\ r.pid = pid
  /\ runs' = Append(runs, r)
  /\ procs' = [procs EXCEPT ![pid] = Len(runs')]
  /\ holds' = [holds EXCEPT ![pid] = has]
  /\ UNCHANGED <<logs, written, sweepVars>>

LEMMA BeginsStands ==
  ASSUME EditorsAssumption, EditorInv, NEW pid \in Pid, NEW r \in Run, NEW has \in SUBSET Log,
         Begins(pid, r, has),
         r.opened # Nothing => \A i \in DOMAIN runs : runs[i].opened # r.opened,
         IF r.parent = Nothing THEN has \subseteq {r.opened}
         ELSE procs[r.parent] # Nothing /\ ~runs[procs[r.parent]].thread /\ has \subseteq holds[r.parent]
  PROVE  EditorInv'
<1>0. Types /\ OpenedOnce /\ Logged /\ Tabled /\ Told /\ WhileQuiet
  BY DEF EditorInv
<1>1. PICK n : n = Len(runs')
  OBVIOUS
<1>2. /\ runs' \in Seq(Run) /\ n \in Nat
      /\ DOMAIN runs' = DOMAIN runs \cup {n} /\ n \notin DOMAIN runs /\ runs'[n] = r
      /\ \A i \in DOMAIN runs : runs'[i] = runs[i] /\ runs[i] \in Run
  <2>1. runs' = Append(runs, r)
    BY DEF Begins
  <2>2. \A i \in DOMAIN runs : runs[i] \in Run
    <3>1. runs \in Seq(Run)
      BY <1>0 DEF Types
    <3> QED BY <3>1, LenProperties, ElementOfSeq
  <2> QED BY <1>0, <1>1, <2>1, <2>2, RunsGrow
<1>3. /\ procs' \in [Pid -> Nat \cup {Nothing}] /\ procs'[pid] = n /\ procs[pid] = Nothing
      /\ \A p \in Pid \ {pid} : procs'[p] = procs[p]
  BY <1>0, <1>1, <1>2 DEF Begins, Types
<1>4. /\ holds' \in [Pid -> SUBSET Log] /\ holds'[pid] = has
      /\ \A p \in Pid \ {pid} : holds'[p] = holds[p]
  BY <1>0 DEF Begins, Types
<1>5. UNCHANGED <<logs, written, pc, table, found, unread, told>> /\ r.pid = pid
  BY DEF Begins, sweepVars
<1>6. Types'
  <2>1. ASSUME NEW p \in Pid, procs'[p] # Nothing PROVE procs'[p] \in DOMAIN runs' /\ runs'[procs'[p]].pid = p
    <3>1. CASE p = pid
      BY <1>2, <1>3, <1>5, <3>1
    <3>2. CASE p # pid
      <4>1. procs'[p] = procs[p] /\ procs[p] \in DOMAIN runs /\ runs[procs[p]].pid = p
        BY <1>0, <1>3, <2>1, <3>2 DEF Types
      <4> QED BY <1>2, <4>1
    <3> QED BY <3>1, <3>2
  <2> QED BY <1>0, <1>2, <1>3, <1>4, <1>5, <2>1 DEF Types
<1>7. OpenedOnce'
  BY <1>0, <1>2 DEF OpenedOnce
<1>8. Logged'
  BY <1>0, <1>2, <1>5 DEF Logged
<1>9. Tabled' /\ Told'
  <2>1. Later
    BY <1>2, <1>3, <1>5 DEF Later, sweepVars, Same
  <2> QED BY <1>0, <2>1, LaterStands
<1>10. ASSUME Quiet' PROVE Heirs' /\ StillListed' /\ RootsOpened'
  <2>1. \A i \in DOMAIN runs : procs'[runs[i].pid] = i /\ i # n
    BY <1>2, <1>10 DEF Quiet
  <2>2. \A i \in DOMAIN runs : runs[i].pid # pid
    BY <1>3, <2>1
  <2>3. Quiet
    <3>1. \A i \in DOMAIN runs : runs[i].pid \in Pid
      BY <1>2 DEF Run
    <3> QED BY <1>3, <2>1, <2>2, <3>1 DEF Quiet
  <2>4. Heirs /\ StillListed /\ RootsOpened
    BY <1>0, <2>3 DEF WhileQuiet
  <2>5. ASSUME NEW i \in DOMAIN runs PROVE Heir(i)'
    <3>1. PICK q : q = runs[i]
      OBVIOUS
    <3>2. q \in Run /\ runs'[i] = q /\ q.pid \in Pid /\ q.pid # pid /\ q.parent \in Pid \cup {Nothing}
      BY <1>2, <2>2, <3>1 DEF Run
    <3>3. holds'[q.pid] = holds[q.pid]
      BY <1>4, <3>2
    <3>4. CASE q.parent = Nothing
      BY <2>4, <3>1, <3>2, <3>3, <3>4 DEF Heirs, Heir
    <3>5. CASE q.parent # Nothing
      <4>1. procs[q.parent] # Nothing /\ ~runs[procs[q.parent]].thread /\ holds[q.pid] \subseteq holds[q.parent]
        BY <2>4, <3>1, <3>5 DEF Heirs, Heir
      <4>2. q.parent \in Pid \ {pid}
        BY <1>3, <3>2, <3>5, <4>1
      <4>3. procs'[q.parent] = procs[q.parent] /\ holds'[q.parent] = holds[q.parent]
        BY <1>3, <1>4, <4>2
      <4>4. runs'[procs[q.parent]] = runs[procs[q.parent]]
        BY <1>0, <1>2, <4>1, <4>2 DEF Types
      <4> QED BY <3>2, <3>3, <3>5, <4>1, <4>3, <4>4 DEF Heir
    <3> QED BY <3>4, <3>5
  <2>6. Heir(n)'
    <3>1. CASE r.parent = Nothing
      BY <1>2, <1>4, <1>5, <3>1 DEF Heir
    <3>2. CASE r.parent # Nothing
      <4>1. procs[r.parent] # Nothing /\ ~runs[procs[r.parent]].thread /\ has \subseteq holds[r.parent]
        BY <3>2
      <4>2. r.parent \in Pid \ {pid}
        BY <1>3, <3>2, <4>1 DEF Run
      <4>3. procs'[r.parent] = procs[r.parent] /\ holds'[r.parent] = holds[r.parent]
        BY <1>3, <1>4, <4>2
      <4>4. runs'[procs[r.parent]] = runs[procs[r.parent]]
        BY <1>0, <1>2, <4>1, <4>2 DEF Types
      <4> QED BY <1>2, <1>4, <1>5, <3>2, <4>1, <4>3, <4>4 DEF Heir
    <3> QED BY <3>1, <3>2
  <2>7. Heirs'
    BY <1>2, <2>5, <2>6 DEF Heirs
  <2>8. StillListed'
    <3> SUFFICES ASSUME NEW p \in DOMAIN table
                 PROVE  /\ table[p].run = procs'[p] /\ table[p].parent = runs'[procs'[p]].parent
                        /\ table[p].parent # Nothing => table[p].parent \in DOMAIN table
      BY <1>5 DEF StillListed
    <3>1. p \in Pid /\ table[p].run \in DOMAIN runs /\ table[p].run = procs[p]
      BY <1>0, <2>4 DEF Tabled, StillListed
    <3>2. procs[p] # Nothing
      <4>1. Nothing \notin DOMAIN runs
        <5>1. runs \in Seq(Run)
          BY <1>0 DEF Types
        <5> QED BY <5>1, LenProperties DEF EditorsAssumption
      <4> QED BY <3>1, <4>1
    <3>3. p # pid /\ procs'[p] = procs[p]
      BY <1>3, <3>1, <3>2
    <3> QED BY <1>2, <2>4, <3>1, <3>3 DEF StillListed
  <2>9. RootsOpened'
    <3>1. \A l : Roots(l)' = Roots(l)
      BY <1>5 DEF Roots
    <3>2. ASSUME NEW l \in Log, NEW p \in Roots(l) PROVE runs'[table[p].run].opened = l
      <4>1. p \in DOMAIN table
        BY <1>0, RootIs DEF Tabled
      <4> QED BY <1>0, <1>2, <2>4, <4>1 DEF Tabled, RootsOpened
    <3> QED BY <1>5, <3>1, <3>2 DEF RootsOpened
  <2> QED BY <2>7, <2>8, <2>9
<1> QED BY <1>6, <1>7, <1>8, <1>9, <1>10 DEF EditorInv, WhileQuiet

LEMMA OpenStands ==
  ASSUME EditorsAssumption, EditorInv, NEW pid \in Pid, NEW l \in Log, Open(pid, l) PROVE EditorInv'
<1>1. PICK r : r = [pid |-> pid, parent |-> Nothing, thread |-> FALSE, opened |-> l]
  OBVIOUS
<1>2. r \in Run /\ r.parent = Nothing /\ r.opened = l
  BY <1>1 DEF Run
<1>3. Begins(pid, r, {l})
  BY <1>1 DEF Open, Change, Begins, sweepVars
<1>4. \A i \in DOMAIN runs : runs[i].opened # l
  BY DEF Open, ToSet
<1> QED BY <1>2, <1>3, <1>4, BeginsStands

LEMMA ForkStands ==
  ASSUME EditorsAssumption, EditorInv, NEW parent \in Pid, NEW pid \in Pid, NEW thread \in BOOLEAN,
         Fork(parent, pid, thread)
  PROVE  EditorInv'
<1>1. PICK r : r = [pid |-> pid, parent |-> parent, thread |-> thread, opened |-> Nothing]
  OBVIOUS
<1>2. r \in Run /\ r.parent = parent /\ r.opened = Nothing /\ parent # Nothing
  BY <1>1 DEF Run, EditorsAssumption
<1>3. PICK has : has = holds[parent]
  OBVIOUS
<1>4. has \in SUBSET Log
  BY <1>3 DEF EditorInv, Types
<1>5. Begins(pid, r, has)
  BY <1>1, <1>3 DEF Fork, Change, Begins, sweepVars
<1>6. procs[parent] # Nothing /\ ~runs[procs[parent]].thread
  BY DEF Fork
<1> QED BY <1>2, <1>3, <1>4, <1>5, <1>6, BeginsStands

LEMMA ExitStands ==
  ASSUME EditorsAssumption, EditorInv, NEW pid \in Pid, Exit(pid) PROVE EditorInv'
<1>0. Types /\ OpenedOnce /\ Logged /\ Tabled /\ Told
  BY DEF EditorInv
<1>1. PICK gone : /\ gone = {p \in Alive : p = pid \/ (runs[procs[p]].parent = pid /\ runs[procs[p]].thread)}
                  /\ procs' = [p \in Pid |-> IF p \in gone THEN Nothing ELSE procs[p]]
                  /\ holds' = [p \in Pid |-> IF p \in gone THEN {} ELSE holds[p]]
                  /\ runs' = [i \in DOMAIN runs |->
                       IF i \in {procs[p] : p \in Alive \ gone} /\ runs[i].parent = pid
                       THEN [runs[i] EXCEPT !.parent = Nothing] ELSE runs[i]]
  BY DEF Exit
<1>2. UNCHANGED <<logs, written, pc, table, found, unread, told>> /\ procs[pid] # Nothing
  BY DEF Exit, Change, sweepVars
<1>3. runs \in [1..Len(runs) -> Run] /\ Len(runs) \in Nat /\ DOMAIN runs = 1..Len(runs)
  BY <1>0, LenProperties DEF Types
<1>4. ASSUME NEW i \in DOMAIN runs PROVE runs'[i] \in Run /\ Same(runs[i], runs'[i])
  <2>1. PICK r \in Run : r = runs[i]
    BY <1>3
  <2>2. r = [pid |-> r.pid, parent |-> r.parent, thread |-> r.thread, opened |-> r.opened]
    BY DEF Run
  <2>3. PICK s : s = [r EXCEPT !.parent = Nothing]
    OBVIOUS
  <2>4. s \in Run /\ Same(r, s)
    BY <2>2, <2>3 DEF Run, Same
  <2>5. runs'[i] \in {r, s}
    BY <1>1, <2>1, <2>3
  <2> QED BY <2>1, <2>4, <2>5 DEF Same
<1>5. runs' \in [1..Len(runs) -> Run] /\ DOMAIN runs' = DOMAIN runs
  BY <1>1, <1>3, <1>4
<1>6. runs' \in Seq(Run)
  BY <1>3, <1>5, SeqDef
<1>7. \A p \in Pid : procs'[p] \in {procs[p], Nothing}
  BY <1>1
<1>8. Types'
  <2>1. procs' \in [Pid -> Nat \cup {Nothing}] /\ holds' \in [Pid -> SUBSET Log]
    BY <1>0, <1>1 DEF Types
  <2>2. ASSUME NEW p \in Pid, procs'[p] # Nothing PROVE procs'[p] \in DOMAIN runs' /\ runs'[procs'[p]].pid = p
    <3>1. procs'[p] = procs[p] /\ procs[p] \in DOMAIN runs /\ runs[procs[p]].pid = p
      BY <1>0, <1>7, <2>2 DEF Types
    <3> QED BY <1>4, <1>5, <3>1 DEF Same
  <2> QED BY <1>0, <1>2, <1>6, <2>1, <2>2 DEF Types
<1>9. OpenedOnce'
  BY <1>0, <1>4, <1>5 DEF OpenedOnce, Same
<1>10. Logged'
  BY <1>0, <1>2, <1>4, <1>5 DEF Logged, Same
<1>11. Tabled' /\ Told'
  <2>1. Later
    BY <1>2, <1>4, <1>5, <1>7 DEF Later, sweepVars
  <2> QED BY <1>0, <2>1, LaterStands
<1>12. ~Quiet'
  <2>1. procs[pid] \in DOMAIN runs /\ runs[procs[pid]].pid = pid
    BY <1>0, <1>2 DEF Types
  <2>2. runs'[procs[pid]].pid = pid /\ procs[pid] \in DOMAIN runs'
    BY <1>4, <1>5, <2>1 DEF Same
  <2>3. procs'[pid] = Nothing /\ procs[pid] # Nothing
    BY <1>1, <1>2 DEF Alive
  <2> QED BY <2>2, <2>3 DEF Quiet
<1> QED BY <1>8, <1>9, <1>10, <1>11, <1>12 DEF EditorInv, WhileQuiet

LEMMA ActivateStands ==
  ASSUME EditorsAssumption, EditorInv, NEW pid \in Pid, NEW e \in Extension, Activate(pid, e) PROVE EditorInv'
<1>0. Types /\ OpenedOnce /\ Logged /\ Tabled /\ Told /\ WhileQuiet
  BY DEF EditorInv
<1>1. PICK l : /\ l = runs[procs[pid]].opened /\ l # Nothing
               /\ logs' = IF logs[l] = Nothing THEN logs ELSE [logs EXCEPT ![l] = Append(@, e)]
               /\ written' = written \cup {<<l, procs[pid], e>>}
  BY DEF Activate
<1>2. UNCHANGED <<procs, runs, holds, pc, table, found, unread, told>>
  BY DEF Activate, Change, sweepVars
<1>3. procs[pid] \in DOMAIN runs /\ l \in Log
  <2>1. procs[pid] \in DOMAIN runs /\ runs \in Seq(Run)
    BY <1>0 DEF Types, Activate
  <2>2. runs[procs[pid]] \in Run
    BY <2>1, LenProperties, ElementOfSeq
  <2> QED BY <1>1, <2>1, <2>2 DEF Run
<1>4. ASSUME logs[l] # Nothing
      PROVE  /\ logs[l] \in Seq(Extension) /\ logs'[l] \in Seq(Extension)
             /\ DOMAIN logs'[l] = DOMAIN logs[l] \cup {Len(logs[l]) + 1}
             /\ logs'[l][Len(logs[l]) + 1] = e /\ \A i \in DOMAIN logs[l] : logs'[l][i] = logs[l][i]
  <2>1. logs[l] \in Seq(Extension) /\ logs'[l] = Append(logs[l], e)
    BY <1>0, <1>1, <1>3, <1>4 DEF Types
  <2>2. PICK q \in Seq(Extension) : q = logs[l]
    BY <2>1
  <2>3. /\ Append(q, e) \in Seq(Extension) /\ Len(Append(q, e)) = Len(q) + 1
        /\ \A i \in 1..Len(q) : Append(q, e)[i] = q[i]
        /\ Append(q, e)[Len(q) + 1] = e
    BY AppendProperties
  <2>4. Len(q) \in Nat /\ DOMAIN q = 1..Len(q) /\ DOMAIN Append(q, e) = 1..(Len(q) + 1)
    BY <2>3, LenProperties
  <2> QED BY <2>1, <2>2, <2>3, <2>4
<1>5. logs' \in [Log -> Seq(Extension) \cup {Nothing}] /\ \A k \in Log \ {l} : logs'[k] = logs[k]
  BY <1>0, <1>1, <1>3, <1>4 DEF Types
<1>6. Types' /\ OpenedOnce'
  BY <1>0, <1>2, <1>5 DEF Types, OpenedOnce
<1>7. Logged'
  <2>1. ASSUME NEW w \in written' PROVE w[1] \in Log /\ w[2] \in DOMAIN runs /\ runs[w[2]].opened = w[1]
    <3>1. CASE w \in written
      BY <1>0, <3>1 DEF Logged
    <3>2. CASE w = <<l, procs[pid], e>>
      BY <1>1, <1>3, <3>2
    <3> QED BY <1>1, <3>1, <3>2
  <2>2. ASSUME NEW k \in Log, logs'[k] # Nothing, NEW i \in DOMAIN logs'[k]
        PROVE  \E w \in written' : w[1] = k /\ w[3] = logs'[k][i]
    <3>1. CASE logs[k] # Nothing /\ i \in DOMAIN logs[k] /\ logs'[k][i] = logs[k][i]
      <4>1. \E w \in written : w[1] = k /\ w[3] = logs[k][i]
        BY <1>0, <3>1 DEF Logged
      <4> QED BY <1>1, <3>1, <4>1
    <3>2. CASE k = l /\ logs[l] # Nothing /\ i = Len(logs[l]) + 1
      <4>1. logs'[k][i] = e /\ <<l, procs[pid], e>> \in written'
        BY <1>1, <1>4, <3>2
      <4> QED BY <3>2, <4>1
    <3>3. CASE k # l \/ logs[l] = Nothing
      <4>1. logs'[k] = logs[k]
        BY <1>1, <1>5, <3>3
      <4> QED BY <2>2, <3>1, <4>1
    <3> QED BY <1>4, <2>2, <3>1, <3>2, <3>3
  <2> QED BY <1>2, <2>1, <2>2 DEF Logged
<1>8. Tabled' /\ Told'
  <2>1. Later
    BY <1>1, <1>2 DEF Later, sweepVars, Same
  <2> QED BY <1>0, <2>1, LaterStands
<1>9. WhileQuiet'
  BY <1>0, <1>2 DEF WhileQuiet, Quiet, Heirs, Heir, StillListed, RootsOpened, Roots
<1> QED BY <1>6, <1>7, <1>8, <1>9 DEF EditorInv

LEMMA UnlinkStands ==
  ASSUME EditorsAssumption, EditorInv, NEW l \in Log, Unlink(l) PROVE EditorInv'
<1>0. Types /\ OpenedOnce /\ Logged /\ Tabled /\ Told /\ WhileQuiet
  BY DEF EditorInv
<1>1. UNCHANGED <<procs, runs, written, pc, table, found, unread, told>>
  BY DEF Unlink, Change, sweepVars
<1>2. /\ logs' \in [Log -> Seq(Extension) \cup {Nothing}] /\ logs'[l] = Nothing
      /\ \A k \in Log \ {l} : logs'[k] = logs[k]
  BY <1>0 DEF Unlink, Types
<1>3. holds' \in [Pid -> SUBSET Log] /\ \A p \in Pid : holds'[p] = holds[p] \ {l}
  BY <1>0 DEF Unlink, Types
<1>4. Types' /\ OpenedOnce'
  BY <1>0, <1>1, <1>2, <1>3 DEF Types, OpenedOnce
<1>5. Logged'
  <2>1. ASSUME NEW k \in Log, logs'[k] # Nothing
        PROVE  \A i \in DOMAIN logs'[k] : \E w \in written : w[1] = k /\ w[3] = logs'[k][i]
    <3>1. logs'[k] = logs[k]
      BY <1>2, <2>1
    <3> QED BY <1>0, <2>1, <3>1 DEF Logged
  <2> QED BY <1>0, <1>1, <2>1 DEF Logged
<1>6. Tabled' /\ Told'
  <2>1. Later
    BY <1>1 DEF Later, sweepVars, Same
  <2> QED BY <1>0, <2>1, LaterStands
<1>7. ASSUME Quiet' PROVE Heirs' /\ StillListed' /\ RootsOpened'
  <2>1. Heirs /\ StillListed /\ RootsOpened
    BY <1>0, <1>1, <1>7 DEF WhileQuiet, Quiet
  <2>2. ASSUME NEW i \in DOMAIN runs PROVE Heir(i)'
    <3>1. PICK r : r = runs[i]
      OBVIOUS
    <3>2. r \in Run
      BY <1>0, <3>1, LenProperties, ElementOfSeq DEF Types
    <3>3. r.pid \in Pid /\ r.parent \in Pid \cup {Nothing} /\ runs'[i] = r
      BY <1>1, <3>1, <3>2 DEF Run
    <3>4. holds'[r.pid] = holds[r.pid] \ {l} /\ (r.parent # Nothing => holds'[r.parent] = holds[r.parent] \ {l})
      BY <1>3, <3>3
    <3> QED BY <1>1, <2>1, <3>1, <3>3, <3>4 DEF Heirs, Heir
  <2> QED BY <1>1, <2>1, <2>2 DEF Heirs, StillListed, RootsOpened, Roots
<1> QED BY <1>4, <1>5, <1>6, <1>7 DEF EditorInv, WhileQuiet

-----------------------------------------------------------------------------
LEMMA SnapshotStands ==
  ASSUME EditorsAssumption, EditorInv, Snapshot PROVE EditorInv'
<1>0. Types /\ OpenedOnce /\ Logged /\ Tabled /\ Told /\ WhileQuiet
  BY DEF EditorInv
<1>1. /\ UNCHANGED <<procs, runs, holds, logs, written, found, unread>> /\ pc = "idle" /\ pc' = "listed"
      /\ told' = {} /\ found' = {} /\ unread' = {}
  BY <1>0 DEF Snapshot, hostVars, Tabled
<1>2. /\ DOMAIN table' = Alive
      /\ \A p \in Alive : table'[p].run = procs[p] /\ table'[p].parent = runs[procs[p]].parent
  BY DEF Snapshot
<1>3. Types' /\ OpenedOnce' /\ Logged' /\ Told'
  BY <1>0, <1>1 DEF Types, OpenedOnce, Logged, Told
<1>4. Tabled'
  <2>1. \A p \in Alive : p \in Pid /\ procs[p] \in DOMAIN runs /\ runs[procs[p]].pid = p
    BY <1>0 DEF Alive, Types
  <2> QED BY <1>1, <1>2, <2>1 DEF Tabled
<1>5. ASSUME Quiet' PROVE Heirs' /\ StillListed' /\ RootsOpened'
  <2>1. Heirs
    BY <1>0, <1>1, <1>5 DEF WhileQuiet, Quiet
  <2>2. Heirs'
    BY <1>1, <2>1 DEF Heirs, Heir
  <2>3. ASSUME NEW p \in Alive, runs[procs[p]].parent # Nothing PROVE runs[procs[p]].parent \in Alive
    <3>1. procs[p] \in DOMAIN runs /\ runs \in Seq(Run)
      BY <1>0 DEF Alive, Types
    <3>2. runs[procs[p]] \in Run
      BY <3>1, LenProperties, ElementOfSeq
    <3>3. procs[runs[procs[p]].parent] # Nothing
      BY <2>1, <2>3, <3>1 DEF Heirs, Heir
    <3> QED BY <2>3, <3>2, <3>3 DEF Run, Alive
  <2>4. StillListed'
    BY <1>1, <1>2, <2>3 DEF StillListed
  <2>5. RootsOpened'
    BY <1>1 DEF RootsOpened, Roots
  <2> QED BY <2>2, <2>4, <2>5
<1> QED BY <1>3, <1>4, <1>5 DEF EditorInv, WhileQuiet

LEMMA HoldersStands ==
  ASSUME EditorsAssumption, EditorInv, Holders PROVE EditorInv'
<1>0. Types /\ OpenedOnce /\ Logged /\ Tabled /\ Told /\ WhileQuiet
  BY DEF EditorInv
<1>1. UNCHANGED <<procs, runs, holds, logs, written, table, told>> /\ pc' = "held" /\ told = {}
  BY <1>0 DEF Holders, hostVars, Tabled
<1>2. PICK asked \in SUBSET Log :
        found' = {x \in asked \X DOMAIN table :
                    procs[x[2]] # Nothing /\ x[1] \in holds[x[2]] /\ ~runs[procs[x[2]]].thread}
  BY DEF Holders
<1>3. unread' \in SUBSET Log
  BY <1>2 DEF Holders
<1>4. Types' /\ OpenedOnce' /\ Logged' /\ Told'
  BY <1>0, <1>1, <1>3 DEF Types, OpenedOnce, Logged, Told
<1>5. Tabled'
  BY <1>0, <1>1, <1>2 DEF Tabled
<1>6. ASSUME Quiet' PROVE Heirs' /\ StillListed' /\ RootsOpened'
  <2>1. Heirs /\ StillListed
    BY <1>0, <1>1, <1>6 DEF WhileQuiet, Quiet
  <2>2. Heirs' /\ StillListed'
    BY <1>1, <2>1 DEF Heirs, Heir, StillListed
  <2>3. ASSUME NEW l \in Log, NEW p, p \in Roots(l)' PROVE runs[table[p].run].opened = l
    <3>1. PICK x \in found' : x[1] = l /\ x[2] = p /\ ~\E y \in found' : y[1] = l /\ y[2] = table[p].parent
      BY <1>1, <2>3 DEF Roots
    <3>2. l \in asked /\ p \in DOMAIN table /\ procs[p] # Nothing /\ l \in holds[p]
      BY <1>2, <3>1
    <3>3. p \in Pid /\ procs[p] \in DOMAIN runs /\ runs[procs[p]].pid = p
      BY <1>0, <3>2 DEF Tabled, Types
    <3>4. PICK r : r = runs[procs[p]]
      OBVIOUS
    <3>5. r.pid = p /\ table[p].run = procs[p] /\ table[p].parent = r.parent
      BY <2>1, <3>2, <3>3, <3>4 DEF StillListed
    <3>6. CASE r.parent = Nothing
      BY <2>1, <3>2, <3>3, <3>4, <3>5, <3>6 DEF Heirs, Heir
    <3>7. CASE r.parent # Nothing
      <4>1. procs[r.parent] # Nothing /\ ~runs[procs[r.parent]].thread /\ l \in holds[r.parent]
        BY <2>1, <3>2, <3>3, <3>4, <3>5, <3>7 DEF Heirs, Heir
      <4>2. r.parent \in DOMAIN table
        BY <2>1, <3>2, <3>5, <3>7 DEF StillListed
      <4>3. PICK y : y = <<l, r.parent>>
        OBVIOUS
      <4>4. y \in asked \X DOMAIN table /\ y[1] = l /\ y[2] = r.parent
        BY <3>2, <4>2, <4>3
      <4>5. y \in found'
        BY <1>2, <4>1, <4>4
      <4> QED BY <3>1, <3>5, <4>4, <4>5
    <3> QED BY <3>6, <3>7
  <2>4. RootsOpened'
    BY <1>1, <2>3 DEF RootsOpened
  <2> QED BY <2>2, <2>4
<1> QED BY <1>4, <1>5, <1>6 DEF EditorInv, WhileQuiet

LEMMA ReadStands ==
  ASSUME EditorsAssumption, EditorInv, ReadHostLog PROVE EditorInv'
<1>0. Types /\ OpenedOnce /\ Logged /\ Tabled /\ Told /\ WhileQuiet
  BY DEF EditorInv
<1>1. UNCHANGED <<procs, runs, holds, logs, written, table, found>> /\ pc = "held" /\ unread # {}
  BY DEF ReadHostLog, hostVars
<1>2. PICK l \in unread :
        \/ logs[l] = Nothing /\ pc' = "failed" /\ told' = {} /\ unread' = unread
        \/ /\ logs[l] # Nothing /\ pc' = pc /\ unread' = unread \ {l}
           /\ told' = told \cup Hosted(l)
  <2>1. PICK l : l = CHOOSE x \in unread : TRUE
    OBVIOUS
  <2>2. l \in unread
    BY <1>1, <2>1
  <2>3. \/ logs[l] = Nothing /\ pc' = "failed" /\ told' = {} /\ UNCHANGED unread
        \/ /\ logs[l] # Nothing /\ unread' = unread \ {l} /\ UNCHANGED pc
           /\ told' = told \cup Hosted(l)
    BY <2>1 DEF ReadHostLog
  <2> QED BY <2>2, <2>3
<1>3. l \in Log /\ unread' \in SUBSET Log /\ pc' \in {"held", "failed"}
  BY <1>0, <1>1, <1>2 DEF Types
<1>4. Types' /\ OpenedOnce' /\ Logged'
  BY <1>0, <1>1, <1>3 DEF Types, OpenedOnce, Logged
<1>5. Tabled'
  BY <1>0, <1>1, <1>3 DEF Tabled
<1>6. WhileQuiet'
  BY <1>0, <1>1 DEF WhileQuiet, Quiet, Heirs, Heir, StillListed, RootsOpened, Roots
<1>7. \A k : Roots(k)' = Roots(k)
  BY <1>1 DEF Roots
<1>8. ASSUME NEW f \in told' PROVE OfRoot(f)'
  <2>1. CASE f \in told
    BY <1>0, <1>1, <1>7, <2>1 DEF Told, OfRoot
  <2>2. CASE f \notin told
    <3>1. logs[l] # Nothing /\ f \in Hosted(l)
      BY <1>2, <1>8, <2>2
    <3>2. PICK pid \in Roots(l), e \in Activated(logs[l]) : f = [run |-> table[pid].run, extension |-> e]
      BY <3>1 DEF Hosted
    <3>3. e \in Recognised /\ \E i \in DOMAIN logs[l] : e = logs[l][i]
      BY DEF Activated
    <3>4. \E w \in written : w[1] = l /\ w[3] = e
      BY <1>0, <1>3, <3>1, <3>3 DEF Logged
    <3>5. f.run = table[pid].run /\ f.extension = e
      BY <3>2
    <3> QED BY <1>1, <1>3, <1>7, <3>3, <3>4, <3>5 DEF OfRoot
  <2> QED BY <2>1, <2>2
<1>9. Told'
  BY <1>8 DEF Told
<1> QED BY <1>4, <1>5, <1>6, <1>9 DEF EditorInv

LEMMA SweptStands ==
  ASSUME EditorInv, Collected \/ UNCHANGED vars PROVE EditorInv'
<1>0. Types /\ OpenedOnce /\ Logged /\ Tabled /\ Told /\ WhileQuiet
  BY DEF EditorInv
<1>1. /\ UNCHANGED <<procs, runs, holds, logs, written, table, found, unread, told>>
      /\ pc' = pc \/ pc' = "told"
  BY DEF Collected, vars, hostVars, sweepVars
<1>2. Types' /\ OpenedOnce' /\ Logged' /\ Tabled'
  BY <1>0, <1>1 DEF Types, OpenedOnce, Logged, Tabled
<1>3. Told'
  BY <1>0, <1>1 DEF Told, OfRoot, Roots
<1>4. WhileQuiet'
  BY <1>0, <1>1 DEF WhileQuiet, Quiet, Heirs, Heir, StillListed, RootsOpened, Roots
<1> QED BY <1>2, <1>3, <1>4 DEF EditorInv

-----------------------------------------------------------------------------
LEMMA EditorInvTells ==
  ASSUME EditorsAssumption, EditorInv PROVE EditorsHold
<1>0. Types /\ OpenedOnce /\ Logged /\ Tabled /\ Told /\ WhileQuiet
  BY DEF EditorInv
<1>1. ASSUME NEW f \in told
      PROVE  \E l \in Log : \E pid \in DOMAIN table :
               /\ pid \in Roots(l) /\ f.run = table[pid].run /\ f.extension \in Recognised
               /\ f.run \in DOMAIN runs /\ runs[f.run].pid = pid /\ <<l, pid>> \in found
               /\ <<l, table[pid].parent>> \notin found
               /\ \E w \in written : w[1] = l /\ w[3] = f.extension
  <2>1. OfRoot(f)
    BY <1>0 DEF Told
  <2>2. PICK l \in Log : \E pid \in Roots(l) : f.run = table[pid].run /\ \E w \in written : w[1] = l /\ w[3] = f.extension
    BY <2>1 DEF OfRoot
  <2>3. PICK pid \in Roots(l) : f.run = table[pid].run /\ \E w \in written : w[1] = l /\ w[3] = f.extension
    BY <2>2
  <2>4. PICK x \in found : x[1] = l /\ x[2] = pid /\ ~\E y \in found : y[1] = l /\ y[2] = table[pid].parent
    BY RootIs
  <2>5. x = <<l, pid>> /\ pid \in DOMAIN table
    BY <1>0, <2>4 DEF Tabled
  <2>6. <<l, table[pid].parent>> \notin found
    <3>1. PICK y : y = <<l, table[pid].parent>>
      OBVIOUS
    <3> QED BY <2>4, <3>1
  <2>7. table[pid].run \in DOMAIN runs /\ runs[table[pid].run].pid = pid
    BY <1>0, <2>5 DEF Tabled
  <2> QED BY <2>1, <2>3, <2>4, <2>5, <2>6, <2>7 DEF OfRoot
<1>2. TypeOK
  BY <1>0, <1>1 DEF TypeOK, Types, Tabled
<1>3. BoundByDescriptor
  BY <1>1 DEF BoundByDescriptor
<1>4. ChildrenAreNotHosts
  <2> SUFFICES ASSUME NEW f \in told
               PROVE  /\ procs[runs[f.run].pid] = f.run => ~runs[f.run].thread
                      /\ ~\E x \in found : /\ x[2] = table[runs[f.run].pid].parent
                                           /\ \A y \in found : y[2] = runs[f.run].pid => <<y[1], x[2]>> \in found
    BY DEF ChildrenAreNotHosts
  <2>1. PICK l \in Log : \E pid \in DOMAIN table :
               /\ f.run = table[pid].run
               /\ f.run \in DOMAIN runs /\ runs[f.run].pid = pid /\ <<l, pid>> \in found
               /\ <<l, table[pid].parent>> \notin found
    BY <1>1
  <2>2. PICK pid \in DOMAIN table :
               /\ f.run = table[pid].run
               /\ f.run \in DOMAIN runs /\ runs[f.run].pid = pid /\ <<l, pid>> \in found
               /\ <<l, table[pid].parent>> \notin found
    BY <2>1
  <2>3. PICK z \in found : z = <<l, pid>> /\ z[1] = l /\ z[2] = pid
    BY <2>2
  <2>4. procs[pid] = f.run => ~runs[f.run].thread
    BY <1>0, <2>2, <2>3 DEF Tabled
  <2> QED BY <2>2, <2>3, <2>4
<1>5. HostIsOwn
  <2> SUFFICES ASSUME Quiet, NEW f \in told PROVE \E w \in written : w[2] = f.run /\ w[3] = f.extension
    BY DEF HostIsOwn, Quiet
  <2>1. PICK l \in Log : \E pid \in DOMAIN table :
               /\ pid \in Roots(l) /\ f.run = table[pid].run /\ f.run \in DOMAIN runs
               /\ \E w \in written : w[1] = l /\ w[3] = f.extension
    BY <1>1
  <2>2. PICK w \in written : w[1] = l /\ w[3] = f.extension
    BY <2>1
  <2>3. f.run \in DOMAIN runs /\ runs[f.run].opened = l
    BY <1>0, <2>1 DEF WhileQuiet, RootsOpened
  <2>4. w[2] \in DOMAIN runs /\ runs[w[2]].opened = l
    BY <1>0, <2>2 DEF Logged
  <2>5. l # Nothing
    BY DEF EditorsAssumption
  <2>6. w[2] = f.run
    BY <1>0, <2>3, <2>4, <2>5 DEF OpenedOnce
  <2> QED BY <2>2, <2>6
<1> QED BY <1>2, <1>3, <1>4, <1>5 DEF EditorsHold

(* What a sweep tells of the extensions of an editor (editor.rs), for any  *)
(* processes, logs and extensions and whatever is forked, exits or is      *)
(* removed while it looks: an extension that is told was activated in a    *)
(* log its process had open; a thread, or a child that was found with its  *)
(* host, is not told of; and while no host exits, it is told of the host   *)
(* it was activated in.                                                    *)
THEOREM ExtensionsAreOfTheirHost == ASSUME EditorsAssumption PROVE Spec => []EditorsHold
<1>1. Init => EditorInv
  BY EditorInvStarts
<1>2. EditorInv /\ [Next]_vars => EditorInv'
  <2> SUFFICES ASSUME EditorInv, [Next]_vars PROVE EditorInv'
    OBVIOUS
  <2>1. ASSUME NEW pid \in Pid, NEW l \in Log, Open(pid, l) PROVE EditorInv'
    BY <2>1, OpenStands
  <2>2. ASSUME NEW parent \in Pid, NEW pid \in Pid, NEW thread \in BOOLEAN, Fork(parent, pid, thread) PROVE EditorInv'
    BY <2>2, ForkStands
  <2>3. ASSUME NEW pid \in Pid, Exit(pid) PROVE EditorInv'
    BY <2>3, ExitStands
  <2>4. ASSUME NEW pid \in Pid, NEW e \in Extension, Activate(pid, e) PROVE EditorInv'
    BY <2>4, ActivateStands
  <2>5. ASSUME NEW l \in Log, Unlink(l) PROVE EditorInv'
    BY <2>5, UnlinkStands
  <2>6. CASE Snapshot
    BY <2>6, SnapshotStands
  <2>7. CASE Holders
    BY <2>7, HoldersStands
  <2>8. CASE ReadHostLog
    BY <2>8, ReadStands
  <2>9. CASE Collected \/ UNCHANGED vars
    BY <2>9, SweptStands
  <2> QED BY <2>1, <2>2, <2>3, <2>4, <2>5, <2>6, <2>7, <2>8, <2>9 DEF Next
<1>3. EditorInv => EditorsHold
  BY EditorInvTells
<1> QED BY <1>1, <1>2, <1>3, PTL DEF Spec
=============================================================================
