---------------------------- MODULE AuditEvents ----------------------------
(***************************************************************************)
(* The connections and name lookups that the operating system logs         *)
(* (topgent-collect/src: network_event.rs, dns_event.rs, lib.rs). Calls of *)
(* processes are written to a log as they happen; a sweep reads the end of *)
(* the log, then the process table, then the open sockets, and tells what  *)
(* it can join. Linux logs calls with descriptors and Windows attempts.    *)
(*                                                                         *)
(* Time is counted in units of which Second make the unit a process'       *)
(* start is known to. Serials stay within one number of digits.            *)
(***************************************************************************)
EXTENDS Naturals, FiniteSets, SequencesExt

CONSTANTS
  Pid, Fd,
  Endpoint,     \* the other ends that have a port
  Resolver,     \* those of them at port 53
  Nothing,
  Windows,      \* whether this is a Windows host
  Second,       \* the units in which a start is known
  Window,       \* EVENT_WINDOW_MS, or WINDOWS_EVENT_WINDOW_MS
  MaxLines,     \* MAX_AUDIT_BYTES, or the most events a query returns
  PidsInASecond,   \* whether a pid is given out again within a second
  MaxTime, MaxCalls, MaxRuns, MaxSweeps

VARIABLES
  now,
  procs,      \* the run of each pid, or none
  runs,       \* history: [pid, born, gone] of every run
  fds,        \* the connection of each descriptor of a pid
  made,       \* history: every contact a run made
  log,        \* lines: SYSCALL and SOCKADDR of a call share its serial
  calls,      \* the last serial
  pc, what,   \* the step of the sweep and its collector
  text,       \* the lines it read
  table,      \* the processes it found: [run, started]
  live,       \* the connections it found: <<pid, endpoint>>
  result,     \* what the collector returned: a state and facts
  told,       \* history: every contact told of, <<run, endpoint>>
  sweeps

hostVars == <<now, procs, runs, fds, made, log, calls>>
sweepVars == <<pc, what, text, table, live, result, told, sweeps>>
vars == <<hostVars, sweepVars>>

NoResult == [state |-> "none", facts |-> {}]

Init ==
  /\ now = 1
  /\ procs = [pid \in Pid |-> Nothing] /\ runs = <<>>
  /\ fds = [pid \in Pid |-> [fd \in Fd |-> Nothing]]
  /\ made = <<>> /\ log = <<>> /\ calls = 0
  /\ pc = "idle" /\ what = "network"
  /\ text = <<>> /\ table = <<>> /\ live = {} /\ result = NoResult
  /\ told = {} /\ sweeps = 0

-----------------------------------------------------------------------------
(* The host. What it does after the last sweep has read is of no matter.   *)
Watched == sweeps < MaxSweeps \/ pc \in {"read", "listed"}

Tick ==
  /\ Watched /\ now < MaxTime
  /\ now' = now + 1
  /\ UNCHANGED <<procs, runs, fds, made, log, calls, sweepVars>>

Spawn(pid) ==
  /\ Watched /\ procs[pid] = Nothing /\ Len(runs) < MaxRuns
  /\ PidsInASecond \/ \A r \in ToSet(runs) : r.pid = pid => r.gone \div Second < now \div Second
  /\ runs' = Append(runs, [pid |-> pid, born |-> now, gone |-> 0])
  /\ procs' = [procs EXCEPT ![pid] = Len(runs) + 1]
  /\ UNCHANGED <<now, fds, made, log, calls, sweepVars>>

(* Its descriptors are closed without a call.                              *)
Exit(pid) ==
  /\ Watched /\ procs[pid] # Nothing
  /\ runs' = [runs EXCEPT ![procs[pid]].gone = now]
  /\ procs' = [procs EXCEPT ![pid] = Nothing]
  /\ fds' = [fds EXCEPT ![pid] = [fd \in Fd |-> Nothing]]
  /\ UNCHANGED <<now, made, log, calls, sweepVars>>

(* One call is one or two lines, which the daemon may lose, or which are   *)
(* gone when the log is rotated. (No sweep reads what is written after the *)
(* last.)                                                                  *)
Logs(pid, fd, op, res, to) ==
  LET call == [type |-> "SYSCALL", serial |-> calls + 1, at |-> now, pid |-> pid, fd |-> fd,
               op |-> op, result |-> res, to |-> Nothing]
      address == [call EXCEPT !.type = "SOCKADDR", !.to = to]
  IN /\ calls < MaxCalls
     /\ calls' = calls + 1
     /\ \/ sweeps < MaxSweeps /\ log' = log \o (IF to = Nothing THEN <<call>> ELSE <<call, address>>)
        \/ log' = log

Contact(pid, fd, op, res, to) ==
  [run |-> procs[pid], pid |-> pid, fd |-> fd, to |-> to, op |-> op, at |-> now,
   serial |-> calls + 1, up |-> res = "success", closed |-> 0]

Connect(pid, fd, to, res) ==
  /\ Watched /\ procs[pid] # Nothing /\ fds[pid][fd] = Nothing
  /\ Windows => res # "pending"
  /\ Logs(pid, fd, "connect", res, to)
  /\ made' = Append(made, Contact(pid, fd, "connect", res, to))
  /\ fds' = IF res = "failed" THEN fds ELSE [fds EXCEPT ![pid][fd] = Len(made) + 1]
  /\ UNCHANGED <<now, procs, runs, sweepVars>>

(* A connect that was pending succeeds.                                    *)
Established(i) ==
  /\ Watched /\ made[i].op = "connect" /\ ~made[i].up
  /\ \E fd \in Fd : fds[made[i].pid][fd] = i
  /\ made' = [made EXCEPT ![i].up = TRUE]
  /\ UNCHANGED <<now, procs, runs, fds, log, calls, sweepVars>>

(* A datagram, by a descriptor that is not connected.                      *)
Send(pid, fd, to) ==
  /\ Watched /\ procs[pid] # Nothing /\ fds[pid][fd] = Nothing /\ ~Windows
  /\ Logs(pid, fd, "send", "success", to)
  /\ made' = Append(made, Contact(pid, fd, "send", "success", to))
  /\ UNCHANGED <<now, procs, runs, fds, sweepVars>>

(* A descriptor is closed, be it a connection or a file.                   *)
Close(pid, fd) ==
  /\ Watched /\ procs[pid] # Nothing
  /\ IF Windows THEN UNCHANGED <<log, calls>> ELSE Logs(pid, fd, "close", "success", Nothing)
  /\ made' = IF fds[pid][fd] = Nothing THEN made ELSE [made EXCEPT ![fds[pid][fd]].closed = now]
  /\ fds' = [fds EXCEPT ![pid][fd] = Nothing]
  /\ UNCHANGED <<now, procs, runs, sweepVars>>

-----------------------------------------------------------------------------
(* read_bounded_tail, and the queries of the Windows logs: the end of the  *)
(* log, which a writer may be in the middle of, if it may be read. (Lines  *)
(* are not all of one length, so one more or less of them may fit.)        *)
EndOf(lines, n) == SubSeq(lines, 1 + (IF Len(lines) > n THEN Len(lines) - n ELSE 0), Len(lines))
Torn(lines) == IF lines # <<>> /\ Last(lines).type = "SOCKADDR" THEN Front(lines) ELSE lines

ReadLog(w) ==
  /\ pc = "idle" /\ sweeps < MaxSweeps
  /\ sweeps' = sweeps + 1
  /\ what' = w
  /\ \/ /\ result' \in [state : {"permission_required", "unsupported", "error"}, facts : {{}}]
        /\ pc' = "told"
        /\ UNCHANGED text
     \/ /\ text' \in {EndOf(lines, n) : lines \in {log, Torn(log)}, n \in (MaxLines - 1)..MaxLines}
        /\ pc' = "read"
        /\ UNCHANGED result
  /\ UNCHANGED <<hostVars, table, live, told>>

(* snapshot: the start of a process is known to the second.                *)
ReadProcesses ==
  /\ pc = "read"
  /\ table' = [pid \in {p \in Pid : procs[p] # Nothing} |->
       [run |-> procs[pid], started |-> (runs[procs[pid]].born \div Second) * Second]]
  /\ pc' = "listed"
  /\ UNCHANGED <<hostVars, what, text, live, result, told, sweeps>>

(* current_outbound_sockets.                                               *)
ReadSockets ==
  /\ pc = "listed"
  /\ live' = {<<c.pid, c.to>> : c \in {c \in ToSet(made) : c.op = "connect" /\ c.up /\ c.closed = 0
                                                            /\ procs[c.pid] = c.run}}
  /\ pc' = "listed too"
  /\ UNCHANGED <<hostVars, what, text, table, result, told, sweeps>>

-----------------------------------------------------------------------------
(* parse_audit_connections. Lines are grouped by serial; an event without  *)
(* its call names no process.                                              *)
Events(lines) ==
  LET events == {l \in ToSet(lines) : l.type = "SYSCALL"}
      addressed(e) == {l.to : l \in {l \in ToSet(lines) : l.type = "SOCKADDR" /\ l.serial = e.serial}}
      whole == {[e EXCEPT !.to = IF addressed(e) = {} THEN Nothing ELSE CHOOSE to \in addressed(e) : TRUE] :
                  e \in events}
  IN SetToSortSeq(whole, LAMBDA a, b : a.at < b.at \/ (a.at = b.at /\ a.serial < b.serial))

Row(e) == [pid |-> e.pid, to |-> e.to, at |-> e.at, pending |-> e.result = "pending", closed |-> Nothing]

(* A connection is closed by the next close of its descriptor. A datagram  *)
(* is never, and is told of once for a destination.                        *)
Join(acc, e) ==
  LET key == <<e.pid, e.fd>>
      held == {k \in DOMAIN acc.open : k # key}
  IN IF e.op = "connect" /\ e.result # "failed" /\ e.to # Nothing
     THEN [rows |-> Append(acc.rows, Row(e)),
           open |-> [k \in held \cup {key} |-> IF k = key THEN Len(acc.rows) + 1 ELSE acc.open[k]]]
     ELSE IF e.op = "send" /\ e.result = "success" /\ e.to # Nothing
     THEN IF \E r \in ToSet(acc.rows) : r.pid = e.pid /\ r.to = e.to THEN acc
          ELSE [acc EXCEPT !.rows = Append(@, Row(e))]
     ELSE IF e.op = "close" /\ key \in DOMAIN acc.open
     THEN [rows |-> [acc.rows EXCEPT ![acc.open[key]].closed = e.at],
           open |-> [k \in held |-> acc.open[k]]]
     ELSE acc

Connections(lines) == ToSet(FoldLeft(Join, [rows |-> <<>>, open |-> <<>>], Events(lines)).rows)

Ended(r) == IF r.closed = Nothing THEN r.at ELSE r.closed
Earliest == IF now > Window THEN now - Window ELSE 0

(* event_matches_process and event_is_confirmed.                           *)
Matches(r) ==
  /\ r.pid \in DOMAIN table
  /\ r.at >= table[r.pid].started
  /\ Ended(r) >= r.at /\ Ended(r) <= now /\ Ended(r) >= Earliest
Confirmed(r) == ~r.pending \/ <<r.pid, r.to>> \in live

(* The facts are about the process that made the call.                     *)
NetworkFacts ==
  {[run |-> table[r.pid].run, to |-> r.to, at |-> r.at, closed |-> r.closed,
    claim |-> IF r.closed = Nothing THEN "socket_open" ELSE "socket_closed"] :
     r \in {r \in Connections(text) : Matches(r) /\ Confirmed(r)}}

(* attempt_matches_process, and the same for lookups.                      *)
Timely(e) == e.pid \in DOMAIN table /\ e.at >= table[e.pid].started /\ e.at <= now /\ e.at >= Earliest

(* parse_windows_filtering_events.                                         *)
Attempts == {e \in ToSet(Events(text)) : e.op = "connect" /\ e.to # Nothing}

AttemptFacts ==
  {[run |-> table[e.pid].run, to |-> e.to, at |-> e.at, closed |-> Nothing,
    claim |-> IF e.result = "failed" THEN "blocked" ELSE "allowed"] : e \in {e \in Attempts : Timely(e)}}

(* parse_dns_contacts, or parse_windows_dns_events: here a lookup is what  *)
(* contacts a resolver. Windows tells of those that failed too.            *)
Lookups ==
  {e \in ToSet(Events(text)) : e.op \in {"connect", "send"} /\ e.to \in Resolver
                                 /\ (Windows \/ e.result = "success")}

LookupFacts ==
  {[run |-> table[e.pid].run, to |-> e.to, at |-> e.at, closed |-> Nothing, claim |-> "lookup"] :
     e \in {e \in Lookups : Timely(e)}}

Tell ==
  /\ pc = "listed too"
  /\ result' = [state |-> "available",
                facts |-> IF what = "dns" THEN LookupFacts ELSE IF Windows THEN AttemptFacts ELSE NetworkFacts]
  /\ told' = told \cup {<<f.run, f.to>> : f \in result'.facts}
  /\ pc' = "told"
  /\ UNCHANGED <<hostVars, what, text, table, live, sweeps>>

Rest ==
  /\ pc = "told"
  /\ pc' = "idle" /\ text' = <<>> /\ table' = <<>> /\ live' = {} /\ result' = NoResult
  /\ UNCHANGED <<hostVars, what, told, sweeps>>

Next ==
  \/ Tick
  \/ \E pid \in Pid : Spawn(pid) \/ Exit(pid)
  \/ \E pid \in Pid, fd \in Fd, to \in Endpoint :
       Send(pid, fd, to) \/ \E res \in {"success", "pending", "failed"} : Connect(pid, fd, to, res)
  \/ \E pid \in Pid, fd \in Fd : Close(pid, fd)
  \/ \E i \in DOMAIN made : Established(i)
  \/ ReadLog("network") \/ (Resolver # {} /\ ReadLog("dns"))
  \/ ReadProcesses \/ ReadSockets \/ Tell \/ Rest

Spec == Init /\ [][Next]_vars

-----------------------------------------------------------------------------
(* The runs a fact may be about: a start is known to the second, and of    *)
(* runs of one pid within it the table cannot tell which made a call.      *)
RunsOf(f) ==
  LET r == runs[f.run]
  IN {k \in 1..f.run : runs[k].pid = r.pid /\ (k = f.run \/ runs[k].gone >= (r.born \div Second) * Second)}
ContactsOf(f) == {c \in ToSet(made) : c.run \in RunsOf(f) /\ c.to = f.to /\ c.at = f.at}

(* network_event.rs:18-22: what is told of a process is what that process  *)
(* did, or one that had its pid until within the second it started in,     *)
(* though records may be lost, and the log may be cut anywhere.            *)
TheSameProcess == \A f \in result.facts : ContactsOf(f) # {}

(* VIOLATED where a pid is given out again within a second: by             *)
(* network_event.rs:20 only edges whose pid still identifies the same      *)
(* process are admitted.                                                   *)
TheSameRun == \A f \in result.facts : \E c \in ContactsOf(f) : c.run = f.run

(* When a connection ended: its run closed it or exited.                   *)
GoneAt(c) == IF c.closed # 0 THEN c.closed ELSE runs[c.run].gone
CameUp(c) == c.op = "connect" /\ c.up

(* network_event.rs:18-22, 305-307, 395-398: a connection told as closed   *)
(* ended no later than it is said and was not a datagram; one that was     *)
(* pending is told only if it, or another of its pid's to the same         *)
(* endpoint, came up; what is told as allowed or as blocked was.           *)
ClosedWasClosed ==
  \A f \in result.facts :
    /\ f.claim = "socket_closed" =>
         \E c \in ContactsOf(f) : c.op = "connect" /\ GoneAt(c) # 0 /\ GoneAt(c) <= f.closed
    /\ f.claim \in {"socket_open", "socket_closed"} =>
         \/ \E c \in ContactsOf(f) : c.up
         \/ \E c \in ToSet(made) : CameUp(c) /\ c.pid = runs[f.run].pid /\ c.to = f.to
    /\ f.claim = "allowed" => \E c \in ContactsOf(f) : c.up
    /\ f.claim = "blocked" => \E c \in ContactsOf(f) : ~c.up

(* VIOLATED: by network_event.rs:18-20 successful connects are joined, and *)
(* by the test at 871 a pending one needs a live socket. (Any socket of    *)
(* the pid's to that endpoint will do, for a pending one closed long ago.) *)
ToldCameUp ==
  \A f \in result.facts :
    f.claim \in {"socket_open", "socket_closed"} => \E c \in ContactsOf(f) : c.up

(* The close of a connection is in the lines that were read.               *)
CloseRead(c) ==
  \E l \in ToSet(text) : l.op = "close" /\ l.pid = c.pid /\ l.fd = c.fd /\ l.at = c.closed /\ l.serial > c.serial

(* network_event.rs:18-22: a connection whose close can be read is not     *)
(* told as open.                                                           *)
OpenWasOpen ==
  \A f \in result.facts :
    f.claim = "socket_open" /\ (\A c \in ContactsOf(f) : c.op = "connect")
      => \E c \in ContactsOf(f) : c.closed = 0 \/ ~CloseRead(c)

EventsHold == TheSameProcess /\ ClosedWasClosed /\ OpenWasOpen

(* network_event.rs:13-16: a ping, which sends a datagram every second, is *)
(* told of while it runs. (The code tells of a destination at its first    *)
(* datagram in the log, which may be too old to be told.)                  *)
PingsAreTold ==
  pc = "told" /\ result.state = "available" /\ what = "network" =>
    \A c \in ToSet(made) :
      /\ c.op = "send" /\ c.at >= Earliest
      /\ c.pid \in DOMAIN table /\ table[c.pid].run = c.run
      /\ Cardinality({l \in ToSet(text) : l.serial = c.serial}) = 2
      => <<c.run, c.to>> \in told
=============================================================================
