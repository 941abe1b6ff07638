---------------------------- MODULE FileTouches ----------------------------
(***************************************************************************)
(* The accesses to files that the operating system logs                    *)
(* (topgent-collect/src/filesystem.rs). A call is written as one line for  *)
(* itself and one for each name it resolved, the directory as well as the  *)
(* file; Windows writes one event. A sweep reads the end of the log, then  *)
(* the process table, and tells the accesses of processes it finds there.  *)
(***************************************************************************)
EXTENDS Naturals, FiniteSets, SequencesExt

CONSTANTS
  Pid, Nothing,
  Call,       \* the [name, mode, makes, mask] that are called
  Names,      \* the sequences of names that calls resolve
  Windows,
  Second,     \* the units in which a start is known
  Window,     \* EVENT_WINDOW_MS
  MaxLines,   \* MAX_AUDIT_BYTES, or the 128 events of a query
  MaxTime, MaxCalls, MaxRuns

VARIABLES
  now, procs,  \* the run of each pid, or none
  runs,        \* history: [pid, born, gone]
  done,        \* history: [run, pid, at, serial, call, ok, names]
  log,
  pc, text, result

hostVars == <<now, procs, runs, done, log>>
sweepVars == <<pc, text, result>>
vars == <<hostVars, sweepVars>>

Init ==
  /\ now = 1 /\ procs = [pid \in Pid |-> Nothing] /\ runs = <<>> /\ done = <<>> /\ log = <<>>
  /\ pc = "idle" /\ text = <<>> /\ result = [state |-> "none", facts |-> {}]

-----------------------------------------------------------------------------
(* How a call opens a file. A call that changes the name is a write.       *)
SyscallAccess(call) ==
  CASE call.name = "execve" -> "execute"
    [] call.name \in {"unlink", "rename", "truncate"} -> "write"
    [] call.name = "open" ->
         IF call.mode = "read" /\ ~call.makes THEN "read"
         ELSE IF call.mode = "both" THEN "both" ELSE "write"
    [] OTHER -> "none"

(* The bits of an access mask: a right to run counts only by itself.       *)
WindowsAccess(mask) ==
  LET reads  == mask \cap {"data", "attributes", "extended"} # {}
      writes == mask \cap {"add", "append", "set", "delete"} # {}
  IN  CASE reads /\ writes -> "both"
        [] ~reads /\ writes -> "write"
        [] reads /\ ~writes -> "read"
        [] OTHER -> IF "run" \in mask THEN "execute" ELSE "none"

AccessOf(call) == IF Windows THEN WindowsAccess(call.mask) ELSE SyscallAccess(call)

-----------------------------------------------------------------------------
Watched == pc \in {"idle", "read"}

Tick ==
  /\ Watched /\ now < MaxTime
  /\ now' = now + 1
  /\ UNCHANGED <<procs, runs, done, log, sweepVars>>

Spawn(pid) ==
  /\ Watched /\ procs[pid] = Nothing /\ Len(runs) < MaxRuns
  /\ runs' = Append(runs, [pid |-> pid, born |-> now, gone |-> 0])
  /\ procs' = [procs EXCEPT ![pid] = Len(runs) + 1]
  /\ UNCHANGED <<now, done, log, sweepVars>>

Exit(pid) ==
  /\ Watched /\ procs[pid] # Nothing
  /\ runs' = [runs EXCEPT ![procs[pid]].gone = now]
  /\ procs' = [procs EXCEPT ![pid] = Nothing]
  /\ UNCHANGED <<now, done, log, sweepVars>>

Lines(pid, call, ok, names) ==
  LET head == [type |-> "SYSCALL", serial |-> Len(done) + 1, at |-> now, pid |-> pid,
               call |-> call, ok |-> ok, name |-> Nothing]
  IN  IF Windows THEN {[head EXCEPT !.name = Last(names)]}
      ELSE {head} \cup {[head EXCEPT !.type = "PATH", !.name = names[i]] : i \in DOMAIN names}

(* The lines of a call come together, the call first; some may be lost.    *)
Touch(pid, call, ok, names) ==
  /\ pc = "idle" /\ procs[pid] # Nothing /\ Len(done) < MaxCalls
  /\ Windows => ok
  /\ done' = Append(done, [run |-> procs[pid], pid |-> pid, at |-> now, serial |-> Len(done) + 1,
                           call |-> call, ok |-> ok, names |-> ToSet(names)])
  /\ \E kept \in SUBSET Lines(pid, call, ok, names) :
        log' = log \o SetToSortSeq(kept, LAMBDA a, b : a.type = "SYSCALL" /\ b.type = "PATH")
  /\ UNCHANGED <<now, procs, runs, sweepVars>>

-----------------------------------------------------------------------------
Tailed(lines, n) == SubSeq(lines, 1 + (IF Len(lines) > n THEN Len(lines) - n ELSE 0), Len(lines))

(* read_bounded_tail, read_windows_security_events. The log may be read    *)
(* while a call's lines are being written, and may not be readable: it is  *)
(* absent, forbidden, or cut inside a character.                           *)
ReadLog ==
  /\ pc = "idle"
  /\ \/ /\ result' \in [state : {"unsupported", "permission_required", "error"}, facts : {{}}]
        /\ pc' = "told"
        /\ UNCHANGED text
     \/ /\ \E n \in {Len(log), IF Len(log) > 0 THEN Len(log) - 1 ELSE 0} :
              text' = Tailed(SubSeq(log, 1, n), MaxLines)
        /\ pc' = "read"
        /\ UNCHANGED result
  /\ UNCHANGED hostVars

(* parse_audit_events, parse_windows_security_events. Lines are grouped by *)
(* their serial, and a group without its call, or of a call that failed,   *)
(* is nothing.                                                             *)
SafeName(name) == name # "unsafe"

EventsOf(lines) ==
  LET heads == {l \in ToSet(lines) : l.type = "SYSCALL" /\ l.ok /\ AccessOf(l.call) # "none"}
      paths(h) == IF Windows THEN {h} ELSE {l \in ToSet(lines) : l.type = "PATH" /\ l.serial = h.serial}
  IN  UNION {{[pid |-> h.pid, at |-> h.at, path |-> l.name, access |-> AccessOf(h.call)]
                : l \in {p \in paths(h) : SafeName(p.name)}} : h \in heads}

(* event_matches_process: the table knows a start to the second.           *)
Started(pid) == (runs[procs[pid]].born \div Second) * Second

MatchesProcess(e) ==
  /\ procs[e.pid] # Nothing
  /\ e.at >= Started(e.pid) /\ e.at <= now
  /\ e.at >= IF now > Window THEN now - Window ELSE 0

(* What is told is said to have been observed at the event on Windows and  *)
(* when it is told on Linux.                                               *)
Collect ==
  /\ pc = "read"
  /\ result' = [state |-> "available",
                facts |-> {[run |-> procs[e.pid], path |-> e.path, access |-> e.access,
                            at |-> IF Windows THEN e.at ELSE now] : e \in {x \in EventsOf(text) : MatchesProcess(x)}}]
  /\ pc' = "told"
  /\ UNCHANGED <<hostVars, text>>

Next ==
  \/ Tick \/ ReadLog \/ Collect
  \/ \E pid \in Pid : Spawn(pid) \/ Exit(pid)
  \/ \E pid \in Pid, call \in Call, ok \in BOOLEAN, names \in Names : Touch(pid, call, ok, names)

Spec == Init /\ [][Next]_vars

-----------------------------------------------------------------------------
TypeOK ==
  /\ pc \in {"idle", "read", "told"}
  /\ \A pid \in Pid : procs[pid] = Nothing \/ runs[procs[pid]].pid = pid
  /\ \A f \in result.facts : f.run \in DOMAIN runs

(* The runs a fact may be about: a start is known to the second, and of    *)
(* runs of one pid within it the table cannot tell which made a call.      *)
RunsOf(f) ==
  LET r == runs[f.run]
  IN {k \in 1..f.run : runs[k].pid = r.pid /\ (k = f.run \/ runs[k].gone >= (r.born \div Second) * Second)}
CallsOf(f) == {c \in ToSet(done) : c.run \in RunsOf(f) /\ f.path \in c.names /\ c.ok}

(* What is told of a process it did itself, or one that had its pid until  *)
(* within the second it started in, though lines may be lost and the log   *)
(* cut: nothing is told of a call that failed, of a name that is no path,  *)
(* or of what is older than the window (filesystem.rs:64-71, 158-162,      *)
(* 302-333).                                                               *)
OwnTouches ==
  \A f \in result.facts :
    /\ f.path \in {"directory", "file"}
    /\ \E c \in CallsOf(f) : c.at + Window >= now

(* An access that can change a file is not told as a read, and one that    *)
(* reads is not told as a change (filesystem.rs:225-239, 373-411).         *)
Changes(call) ==
  IF Windows THEN call.mask \cap {"add", "append", "set", "delete"} # {}
  ELSE call.name # "execve" /\ (call.mode # "read" \/ call.makes)

ReadsStayReads ==
  \A f \in result.facts :
    \E c \in CallsOf(f) : (f.access \in {"write", "both"}) = Changes(c.call)

(* What is whole in the lines that were read is told, if it is of a        *)
(* process that is still there (filesystem.rs:109-136).                    *)
WholeIsTold ==
  pc = "told" /\ result.state = "available" =>
    \A c \in ToSet(done) :
      (/\ c.ok /\ procs[c.pid] = c.run /\ c.at + Window >= now /\ AccessOf(c.call) # "none"
       /\ \E h \in ToSet(text) : h.serial = c.serial /\ h.type = "SYSCALL"
       /\ \E l \in ToSet(text) : l.serial = c.serial /\ l.name = "file")
      => \E f \in result.facts : f.run = c.run /\ f.path = "file" /\ f.access = AccessOf(c.call)

TouchesHold == TypeOK /\ OwnTouches /\ ReadsStayReads /\ WholeIsTold
=============================================================================
