------------------------------ MODULE Approval -------------------------------
(***************************************************************************)
(* The approval file of topgent-journal: Journal::request_approval,        *)
(* resolve_approval and approval_records, with the codec of approval.rs    *)
(* that decides which persisted members a reader sees.  Both writers hold  *)
(* the record lock, so each call is one step (RecordStore).                *)
(*                                                                         *)
(* The scan asks again on every sweep for every rule that still matches;   *)
(* a person answers at most when a prompt is shown.  `now' is the wall     *)
(* clock, which an operator or NTP may step back.                          *)
(***************************************************************************)
EXTENDS Integers, FiniteSets

CONSTANTS
  Request,      \* one exact (pid, started_at, scope) each: approval_id
  TTL,          \* ttl_ms in ticks
  MaxRecords,   \* MAX_APPROVAL_RECORDS
  MaxTime,      \* bound on the clock
  MaxStepsBack  \* how often the clock may be stepped back

ApprovalAssumption ==
  /\ TTL \in Nat \ {0}
  /\ MaxRecords \in Nat \ {0}
  /\ MaxTime \in Nat
  /\ MaxStepsBack \in Nat

VARIABLES
  now,          \* now_ms() of the process that calls
  file,         \* approvals.json; no two records are of one request
  decided,      \* history: decisions accepted for each request, up to two
  stepsBack     \* clock steps so far

vars == <<now, file, decided, stepsBack>>

Decision == {"approved", "denied"}
Unresolved == -1

Record == [id : Request, state : {"pending", "expired"} \cup Decision,
           created : 0..MaxTime, expires : 0..(MaxTime + TTL),
           resolved : {Unresolved} \cup 0..(MaxTime + TTL)]

TypeOK ==
  /\ now \in 0..MaxTime
  /\ file \subseteq Record /\ Cardinality(file) <= MaxRecords
  /\ decided \in [Request -> 0..2]
  /\ stepsBack \in 0..MaxStepsBack

Init ==
  /\ now = 0
  /\ file = {}
  /\ decided = [q \in Request |-> 0]
  /\ stepsBack = 0

-----------------------------------------------------------------------------
(* approval_record_from_json: a member whose times contradict its state is *)
(* skipped, so for every reader it is not there.                           *)
WellFormed(r) ==
  /\ r.expires > r.created
  /\ \/ r.state = "pending" /\ r.resolved = Unresolved
     \/ r.state \in Decision /\ r.created <= r.resolved /\ r.resolved <= r.expires
     \/ r.state = "expired" /\ r.resolved = r.expires

Elapsed(r) == r.state = "pending" /\ now >= r.expires

(* approval_records: elapsed requests expire, fail closed, and are saved   *)
(* so.  A skipped member is dropped here at once: nobody can read it.      *)
Settled(r) ==
  IF Elapsed(r) THEN [r EXCEPT !.state = "expired", !.resolved = r.expires] ELSE r
Current == {Settled(r) : r \in {x \in file : WellFormed(x)}}

Known(q) == \E r \in Current : r.id = q

(* push, the stable sort_by_key(created_at), and drain of the oldest: past *)
(* the bound the first goes, and the new one is behind those as old as     *)
(* itself.  Which of several as old goes is left open.                     *)
First(records, new) ==
  {r \in records : \A x \in records \ {r} :
     r.created < x.created \/ (r.created = x.created /\ r # new)}
Retained(records, new) ==
  IF Cardinality(records) <= MaxRecords THEN {records}
                                        ELSE {records \ {r} : r \in First(records, new)}

Fresh(q) == [id |-> q, state |-> "pending", created |-> now,
             expires |-> now + TTL, resolved |-> Unresolved]

(* Mutant: a request that was answered or ran out is asked anew.           *)
AskAnew(q) ==
  /\ file' \in IF \E r \in Current : r.id = q /\ r.state = "pending" THEN {Current}
               ELSE Retained({r \in Current : r.id # q} \cup {Fresh(q)}, Fresh(q))
  /\ UNCHANGED <<now, decided, stepsBack>>

(* request_approval: an existing request, whatever its state, is returned. *)
Ask(q) ==
  /\ file' \in IF Known(q) THEN {Current} ELSE Retained(Current \cup {Fresh(q)}, Fresh(q))
  /\ UNCHANGED <<now, decided, stepsBack>>

Count(q) == decided' = [decided EXCEPT ![q] = IF @ < 2 THEN @ + 1 ELSE @]

Answered(r, d) == (Current \ {r}) \cup {[r EXCEPT !.state = d, !.resolved = now]}

(* Mutant: a second answer overwrites the first.                           *)
ResolveAgain(q, d) ==
  \E r \in Current :
    /\ r.id = q
    /\ r.state # "expired"
    /\ file' = Answered(r, d)
    /\ Count(q)
    /\ UNCHANGED <<now, stepsBack>>

Open(r, q) == r.id = q /\ r.state = "pending" /\ now < r.expires

(* resolve_approval: pending and unexpired, or nothing is resolved.        *)
Resolve(q, d) ==
  \/ \E r \in Current :
       /\ Open(r, q)
       /\ file' = Answered(r, d)
       /\ Count(q)
       /\ UNCHANGED <<now, stepsBack>>
  \/ /\ \A r \in Current : ~Open(r, q)
     /\ file' = Current
     /\ UNCHANGED <<now, decided, stepsBack>>

Tick ==
  /\ now < MaxTime
  /\ now' = now + 1
  /\ UNCHANGED <<file, decided, stepsBack>>

(* The wall clock is set back: now_ms() is not monotonic.                  *)
StepBack ==
  /\ stepsBack < MaxStepsBack
  /\ stepsBack' = stepsBack + 1
  /\ now' \in {t \in 0..MaxTime : t < now}
  /\ UNCHANGED <<file, decided>>

Next ==
  \/ \E q \in Request : Ask(q)
  \/ \E q \in Request, d \in Decision : Resolve(q, d)
  \/ Tick
  \/ StepBack

Spec == Init /\ [][Next]_vars

-----------------------------------------------------------------------------
(* approval.rs:3-6: an approval is spent once and cannot be replayed.  No  *)
(* request is answered twice, however often the scan asks for it.          *)
DecidedOnce == \A q \in Request : decided[q] <= 1

(* What any reader sees of a request: a record past its deadline counts as *)
(* expired before anybody has rewritten it.                                *)
StatusOf(q) ==
  IF Known(q) THEN (CHOOSE r \in Current : r.id = q).state ELSE "unasked"

(* What survives a full file and a clock that is set back: as long as a    *)
(* decision can be read at all, it is the decision that was made.          *)
DecisionStands ==
  [][\A q \in Request, d \in Decision :
       StatusOf(q) = d => StatusOf(q)' \in {d, "unasked"}]_vars

(* journal.rs:674-676: a resolved or expired request is not silently       *)
(* reset.  Seen by any reader, each request walks Lifecycle, provided the  *)
(* file has room for all of them and the clock is never set back.          *)
Promise == INSTANCE Lifecycle WITH status <- [q \in Request |-> StatusOf(q)]
NeverReset == Promise!LSpec
=============================================================================
