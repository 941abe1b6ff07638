------------------------------ MODULE Activity ------------------------------
(***************************************************************************)
(* activity/*.rs and activity_history.rs: what a sweep saw of each agent   *)
(* run as a timeline of events, merged with the timeline kept on disk.     *)
(* Surfaces read the file, merge and replace it without a lock (scan.rs,   *)
(* report_from_sweep).  An event is identified by its run, when it was     *)
(* observed, what kind it is, who acted and what it says.                  *)
(***************************************************************************)
EXTENDS Integers, Sequences, FiniteSets, FiniteSetsExt

CONSTANTS
  Watcher,      \* processes that sweep
  Scenes,       \* what a sweep may find: [agents, facts]
  MaxEvents,    \* MAX_ACTIVITY_EVENTS
  Retention,    \* ACTIVITY_RETENTION_MS
  MinEvents, MinInterval, MaxInterval, MaxJitter,   \* LIFECYCLE_PERIODIC_*
  MaxNow,       \* bound on the clock
  StepsBack,    \* bound on how often it is set back
  MaxSweeps,    \* bound on the sweeps
  NoClaim

ActivityAssumption ==
  /\ MaxEvents \in Nat /\ Retention \in Nat /\ MaxNow \in Nat
  /\ \A scene \in Scenes :
       /\ IsFiniteSet(scene.agents) /\ IsFiniteSet(scene.facts)
       /\ \A a \in scene.agents : a.run \in Nat \X Nat /\ a.children \subseteq Nat
       /\ \A f \in scene.facts : f.subject \in Nat \X Nat /\ f.what \in Nat /\ f.child \in Nat
  /\ NoClaim \notin Nat \X Nat

VARIABLES
  file,         \* activity-history.json
  now, back,    \* the wall clock, and how often it was set back
  sweeps,       \* how many were begun
  sweep         \* of each surface: idle, or what it looked at or merged

activityVars == <<file, now, back, sweeps, sweep>>

EmptyHistory == [events |-> <<>>, links |-> {}, paths |-> <<>>]
Resting == [step |-> "idle"]

(* Kinds by the order of their names, which is the order of the ids.       *)
KindRank ==
  [action |-> 1, agent |-> 2, connector |-> 3, file |-> 4, model |-> 5, network |-> 6,
   process |-> 7, started |-> 8]
(* And by the order of the enumeration, which is the order of the drafts.  *)
DraftRank ==
  [started |-> 1, process |-> 2, file |-> 3, network |-> 4, model |-> 5, connector |-> 6,
   agent |-> 7, action |-> 8]

RunOf(e) == <<e.pid, e.start>>
Precedes(s, t) ==
  \E i \in DOMAIN s : s[i] < t[i] /\ \A j \in 1..(i - 1) : s[j] = t[j]
Before(e, f) ==
  Precedes(<<e.at, e.pid, e.start, KindRank[e.kind], e.actor, e.what>>,
           <<f.at, f.pid, f.start, KindRank[f.kind], f.actor, f.what>>)
DraftedBefore(e, f) ==
  Precedes(<<e.pid, e.start, e.actor, e.at, DraftRank[e.kind], e.what>>,
           <<f.pid, f.start, f.actor, f.at, DraftRank[f.kind], f.what>>)

Event(run, actor, at, kind, what) ==
  [pid |-> run[1], start |-> run[2], actor |-> actor, at |-> at, kind |-> kind, what |-> what]
Root(run) == Event(run, run[1], run[2], "started", 0)

-----------------------------------------------------------------------------
(* fact_draft: the event of a claim, how it relates to its agent, and      *)
(* whether the evidence is direct.                                         *)
DraftKind ==
  [child_process_seen |-> "process", file_touched |-> "file", socket_open |-> "network",
   socket_closed |-> "network", connection_attempt |-> "network", dns_query_observed |-> "network",
   model_in_use |-> "model", connector_declared |-> "connector", invokes_agent |-> "agent",
   action_taken |-> "action"]
Relation ==
  [child_process_seen |-> "spawned", file_touched |-> "accessed", socket_open |-> "observed socket",
   socket_closed |-> "closed socket", connection_attempt |-> "attempted connection",
   dns_query_observed |-> "resolver record", model_in_use |-> "selected model",
   connector_declared |-> "declared", invokes_agent |-> "can invoke", action_taken |-> "acted on"]
Direct == {"child_process_seen", "invokes_agent", "action_taken"}

(* build: the runs of the sweep, and the children that have one owner and  *)
(* one start.                                                              *)
Subjects(scene) == {a.run : a \in scene.agents}
Starts(scene, pid) ==
  {f.subject[2] : f \in {g \in scene.facts : g.claim = "process_seen" /\ g.subject[1] = pid}}
Owners(scene, child) == {a.run : a \in {b \in scene.agents : child[1] \in b.children}}
OwnerOf(scene, subject) ==
  CASE subject \in Subjects(scene) -> subject
    [] /\ subject \notin Subjects(scene) /\ Starts(scene, subject[1]) = {subject[2]}
       /\ Cardinality(Owners(scene, subject)) = 1 -> CHOOSE r \in Owners(scene, subject) : TRUE
    [] OTHER -> NoClaim

Draft(scene, f, at) ==
  LET run == OwnerOf(scene, f.subject)
      actor == CASE f.claim = "child_process_seen" -> f.child
                 [] f.claim \in {"file_touched", "socket_open", "socket_closed",
                                 "connection_attempt", "dns_query_observed"} -> f.subject[1]
                 [] OTHER -> run[1]
  IN [event |-> Event(run, actor, at, DraftKind[f.claim], f.what),
      relation |-> Relation[f.claim], direct |-> f.claim \in Direct]

Drafts(scene, at) ==
  {Draft(scene, f, at) : f \in {g \in scene.facts :
     g.claim \in DOMAIN DraftKind /\ OwnerOf(scene, g.subject) # NoClaim}}

(* The process event of the actor, the last of them, is its parent.        *)
ActorsOwn(drafts, d) ==
  LET spawned == {p.event : p \in {q \in drafts : q.event.kind = "process"
                                     /\ RunOf(q.event) = RunOf(d.event) /\ q.event.actor = d.event.actor}}
  IN IF d.event.kind = "process" \/ d.event.actor = d.event.pid \/ spawned = {} THEN NoClaim
     ELSE CHOOSE p \in spawned : \A q \in spawned : q = p \/ DraftedBefore(q, p)

(* correlated_paths: a secret that was touched and an outbound connection. *)
Secret(e) == e.kind = "file" /\ e.what = 1
Outward(e) == e.kind = "network" /\ e.what < 8
Earliest(events) == CHOOSE e \in events : \A f \in events : f = e \/ Before(e, f)
Correlated(scene, events) ==
  LET secrets(run) == {e \in events : RunOf(e) = run /\ Secret(e)}
      reached(run) == {e \in events : RunOf(e) = run /\ Outward(e)}
      both == {r \in Subjects(scene) : secrets(r) # {} /\ reached(r) # {}}
  IN [p \in {<<r, "sensitive-to-network">> : r \in both} |->
        {Earliest(secrets(p[1])), Earliest(reached(p[1]))}]

(* build: numbered in the order of the drafts, linked to the process that  *)
(* acted or to the start of the run.                                       *)
Build(scene, at) ==
  LET drafts == Drafts(scene, at)
      roots == {Root(r) : r \in Subjects(scene)}
      parent(d) == ActorsOwn(drafts, d)
      linked(d) == IF parent(d) # NoClaim THEN parent(d) ELSE Root(RunOf(d.event))
      number(d) == 1 + Cardinality({c \in drafts : RunOf(c.event) = RunOf(d.event)
                                                     /\ DraftedBefore(c.event, d.event)})
      drafted == {d.event : d \in drafts}
      of(e) == CHOOSE d \in drafts : d.event = e
  IN [events |-> [e \in roots \cup drafted |->
        IF e \in roots THEN [seq |-> 0, parent |-> NoClaim]
        ELSE [seq |-> number(of(e)),
              parent |-> CASE parent(of(e)) # NoClaim -> parent(of(e))
                           [] parent(of(e)) = NoClaim /\ of(e).direct -> Root(RunOf(e))
                           [] OTHER -> NoClaim]],
      links |-> {[from |-> linked(d), to |-> d.event, relation |-> d.relation,
                  certainty |-> IF d.direct \/ parent(d) # NoClaim THEN "direct" ELSE "attributed"] :
                   d \in drafts},
      paths |-> Correlated(scene, roots \cup drafted)]

-----------------------------------------------------------------------------
(* lifecycle_periodicity_paths: completed connections at a regular pace.   *)
Closed(e) == e.kind = "network" /\ e.what \in 6..7
Distance(a, b) == IF a >= b THEN a - b ELSE b - a
Periodic(events) ==
  LET of(run, what) == {e \in events : Closed(e) /\ RunOf(e) = run /\ e.what = what}
      instants(run, what) == {e.at : e \in of(run, what)}
      next(at, all) == Min({t \in all : t > at})
      gaps(all) == [at \in all \ {Max(all)} |-> next(at, all) - at]
      median(all) ==
        CHOOSE m \in {gaps(all)[t] : t \in DOMAIN gaps(all)} :
          /\ Cardinality({t \in DOMAIN gaps(all) : gaps(all)[t] < m}) <= Cardinality(DOMAIN gaps(all)) \div 2
          /\ Cardinality({t \in DOMAIN gaps(all) : gaps(all)[t] <= m}) > Cardinality(DOMAIN gaps(all)) \div 2
      regular(all) ==
        /\ Cardinality(all) >= MinEvents
        /\ median(all) \in MinInterval..MaxInterval
        /\ \A t \in DOMAIN gaps(all) : Distance(gaps(all)[t], median(all)) * 100 <= median(all) * MaxJitter
      keys == {<<RunOf(e), "periodic", e.what>> : e \in {f \in events : Closed(f)}}
      \* of several that closed at one instant the first stands
      one(k, at) == Earliest({e \in of(k[1], k[3]) : e.at = at})
      last8(all) == {t \in all : Cardinality({u \in all : u > t}) < 8}
  IN [k \in {k \in keys : regular(instants(k[1], k[3]))} |->
        {one(k, at) : at \in last8(instants(k[1], k[3]))}]

(* Mutant: new numbers begin after as many as there are.                   *)
NumberByCount(events, known, run) ==
  1 + Cardinality({f \in DOMAIN events \cap known : RunOf(f) = run /\ f.kind # "started"})

NextNumber(events, known, run) ==
  Max({1} \cup {events[f].seq + 1 : f \in {g \in DOMAIN events \cap known : RunOf(g) = run}})

(* assign_durable_sequences: a number that was given stays; what is new is *)
(* counted on from the last number of its run.                             *)
Numbered(events, known) ==
  LET kept(e) ==
        /\ e \in known /\ events[e].seq > 0
        /\ \A f \in DOMAIN events \cap known :
             RunOf(f) = RunOf(e) /\ f.kind # "started" /\ events[f].seq = events[e].seq => ~Before(f, e)
      fresh(e) == {f \in DOMAIN events : RunOf(f) = RunOf(e) /\ f.kind # "started" /\ ~kept(f) /\ Before(f, e)}
  IN [e \in DOMAIN events |->
        [events[e] EXCEPT !.seq = CASE e.kind = "started" -> 0
                                    [] e.kind # "started" /\ kept(e) -> @
                                    [] OTHER -> NextNumber(events, known, RunOf(e)) + Cardinality(fresh(e))]]

(* The oldest of what is not current goes first, then the oldest of what   *)
(* is, and the start of a run last.                                        *)
Bounded(events, current) ==
  LET class(e) == CASE e.kind = "started" -> 3 [] e.kind # "started" /\ e \in current -> 2 [] OTHER -> 1
      ahead(e) == {f \in events : class(f) < class(e) \/ (class(f) = class(e) /\ Before(f, e))}
  IN {e \in events : Cardinality(ahead(e)) >= Cardinality(events) - MaxEvents}

(* merge_activity_history: the current observation is preferred, what is   *)
(* too old or of the future is dropped, and nothing refers to an event     *)
(* that is not kept.                                                       *)
Overlay(f, g) == [x \in DOMAIN f \cup DOMAIN g |-> IF x \in DOMAIN f THEN f[x] ELSE g[x]]
Merged(previous, current, at) ==
  LET old == {e \in DOMAIN previous.events : e.at >= at - Retention /\ e.at <= at}
      both == [e \in old \cup DOMAIN current.events |->
                 IF e \notin DOMAIN current.events THEN previous.events[e]
                 ELSE [current.events[e] EXCEPT !.seq = IF e \in old THEN previous.events[e].seq ELSE @]]
      numbered == Numbered(both, DOMAIN previous.events)
      kept == Bounded(DOMAIN numbered, DOMAIN current.events)
      told == {<<l.from, l.to>> : l \in previous.links}
      links == previous.links \cup {l \in current.links : <<l.from, l.to>> \notin told}
      \* one path of a name: the one that was there, even if it goes next
      paths == Overlay(previous.paths, current.paths)
  IN [events |-> [e \in kept |-> [numbered[e] EXCEPT !.parent = IF @ \in kept THEN @ ELSE NoClaim]],
      links |-> {l \in links : {l.from, l.to} \subseteq kept},
      paths |-> Overlay(Periodic(kept), [p \in {q \in DOMAIN paths : paths[q] \subseteq kept} |-> paths[p]])]

-----------------------------------------------------------------------------
(* activity_from_json: a relation the reader does not know is discarded,   *)
(* and a parent that does not come before its child in the same run is not *)
(* followed.                                                               *)
KnownRelations ==
  {"spawned", "accessed", "opened socket", "observed socket", "closed socket", "selected model",
   "declared", "can invoke", "acted on"}
Loaded(history) ==
  LET comes(p, e) ==
        p \in DOMAIN history.events /\ RunOf(p) = RunOf(e) /\ history.events[p].seq < history.events[e].seq
      followed(e, p) == IF p = NoClaim \/ comes(p, e) THEN p ELSE NoClaim
  IN [events |-> [e \in DOMAIN history.events |-> [history.events[e] EXCEPT !.parent = followed(e, @)]],
      links |-> {l \in history.links : l.relation \in KnownRelations},
      paths |-> history.paths]

-----------------------------------------------------------------------------
ActivityInit ==
  /\ file = EmptyHistory
  /\ now = 1 /\ back = 0 /\ sweeps = 0
  /\ sweep = [s \in Watcher |-> Resting]

(* The clock of the report is read before the host is looked at.           *)
Glance(s) ==
  /\ sweep[s].step = "idle" /\ sweeps < MaxSweeps /\ sweeps' = sweeps + 1
  /\ sweep' = [sweep EXCEPT ![s] = [step |-> "looking", at |-> now]]
  /\ UNCHANGED <<file, now, back>>

(* What a sweep finds it finds at one instant.                             *)
Observe(s, scene) ==
  LET seen == Build(scene, now)
  IN /\ sweep[s].step = "looking"
     /\ sweep' = [sweep EXCEPT ![s] = [step |-> "merged", correlated |-> seen.paths,
                                       history |-> Merged(Loaded(file), seen, sweep[s].at)]]
     /\ UNCHANGED <<file, now, back, sweeps>>

Save(s) ==
  /\ sweep[s].step = "merged"
  /\ file' = sweep[s].history
  /\ sweep' = [sweep EXCEPT ![s] = Resting]
  /\ UNCHANGED <<now, back, sweeps>>

(* The surface is killed, or the file cannot be replaced.                  *)
Fail(s) ==
  /\ sweep[s].step # "idle"
  /\ sweep' = [sweep EXCEPT ![s] = Resting]
  /\ UNCHANGED <<file, now, back, sweeps>>

Tick == now < MaxNow /\ now' = now + 1 /\ UNCHANGED <<file, back, sweeps, sweep>>
StepBack == back < StepsBack /\ now > 1 /\ now' = now - 1 /\ back' = back + 1 /\ UNCHANGED <<file, sweeps, sweep>>

(* No deadlock: the bounds are used up.                                    *)
Rest == sweeps = MaxSweeps /\ now = MaxNow /\ (\A s \in Watcher : sweep[s] = Resting) /\ UNCHANGED activityVars

ActivityNext ==
  \/ \E s \in Watcher : Glance(s) \/ Save(s) \/ Fail(s) \/ \E scene \in Scenes : Observe(s, scene)
  \/ Tick \/ StepBack \/ Rest

ActivitySpec == ActivityInit /\ [][ActivityNext]_activityVars

-----------------------------------------------------------------------------
(* activity_history.rs:3-7: an event keeps its place in the order it was   *)
(* first given: of a run, two events that are there before and after a     *)
(* merge stay in their order, and what is new comes after what was there.  *)
(* That is so where the clock of the report is behind neither the file nor *)
(* the look: always, when one surface sweeps and no clock is set back.     *)
NonStart(events) == {e \in events : e.kind # "started"}
Timely(s) ==
  \/ DOMAIN sweep = {s} /\ back = 0
  \/ sweep[s].at <= now /\ \A e \in NonStart(DOMAIN file.events) : e.at <= sweep[s].at
KeepsOrder(s) ==
  LET known == DOMAIN file.events
      next == sweep'[s].history.events
  IN \A e, f \in NonStart(DOMAIN next) :
       RunOf(e) = RunOf(f) =>
         /\ {e, f} \subseteq known => (next[e].seq < next[f].seq) = (file.events[e].seq < file.events[f].seq)
         /\ e \in known /\ f \notin known => next[e].seq < next[f].seq
Merges(s) == sweep[s].step = "looking" /\ sweep'[s].step = "merged"
EventsInOrder == \A s \in DOMAIN sweep : Merges(s) /\ Timely(s) => KeepsOrder(s)

(* build.rs:234-242: the file is bounded, each number of a run is given    *)
(* once, and nothing in it refers to what is not there or to another run.  *)
HistoryIsWhole ==
  LET there == DOMAIN file.events
  IN /\ Cardinality(there) <= MaxEvents
     /\ \A e, f \in NonStart(there) :
          RunOf(e) = RunOf(f) /\ file.events[e].seq = file.events[f].seq => e = f
     /\ \A l \in file.links : {l.from, l.to} \subseteq there /\ RunOf(l.from) = RunOf(l.to)
     /\ \A p \in DOMAIN file.paths : file.paths[p] \subseteq there
                                       /\ \A e \in file.paths[p] : RunOf(e) = p[1]
     /\ \A e \in there : file.events[e].parent \in there \cup {NoClaim}

(* Whatever surfaces race and however the clock is set, the timeline of    *)
(* the agents is whole, and what is in it keeps its place.                 *)
HistoryStands == []HistoryIsWhole /\ [][EventsInOrder]_activityVars

(* activity/build.rs:238: current observations are always preferred: what  *)
(* the sweep correlates is in what it saves.                               *)
CorrelatedIsKept ==
  \A s \in Watcher : sweep[s].step = "merged" =>
    \A p \in DOMAIN sweep[s].correlated :
      sweep[s].correlated[p] \subseteq DOMAIN sweep[s].history.events => p \in DOMAIN sweep[s].history.paths
=============================================================================
