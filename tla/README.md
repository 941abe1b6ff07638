# Topgent in TLA+

Topgent watches the AI agents of a host: every sweep collects facts about
processes, sockets, files and packets, folds them into agents with a risk grade,
evaluates the operator's policy, may ask for an approval to stop an agent, keeps a
journal of what changed, and can hand over a signed bundle of evidence.  Several
*surfaces* (the desktop interface, the command line, the editor hooks, the viewer)
run at the same time on one state directory, with no daemon between them: what makes
the program correct is what its files, threads and signals do under interleaving,
kills and full tables.  That is what these modules are about.

Unless a path says otherwise it is relative to `src/crates/`.

1. Inventory
2. Modules
3. What is checked
4. What is proved
5. Where the code and its documentation disagree
6. Abstractions
7. What is not modelled
8. Plan
9. Running it

## 1. Inventory

`PROJECT.json` lists every component with its sources and status; this is the same
inventory with what matters about each.

### The journal (`topgent-journal`)

| component | state | operations | what is hard | what makes it correct |
|---|---|---|---|---|
| record lock and atomic replace (`journal.rs`) | `<name>.lock`, the record file, a scratch file | acquire with a deadline, reclaim a stale lock, read-modify-rename, release on drop | several processes, a holder that is killed, age judged before the file is removed | exclusion, no lost update, a call returns, a dead holder is got past |
| approvals (`approval.rs`) | one record per exact run and scope: pending, approved, denied, expired | ask (by every sweep), answer (by a person), read with expiry | asked again for ever, answered twice, the bound, the wall clock | answered once; a resolved request is not reset |
| response transitions (`transition.rs`) | one record per agent and rule: active, count, times | evaluate | every agent and rule on every sweep, restarts | one finding per rising edge |
| response cooldowns (`cooldown.rs`) | one record per run just stopped | acquire: read, decide, write, **without** the record lock | two surfaces at the same moment | one stop in a cooldown |
| sensor health (`sensor_health.rs`) | last success, failures since, drop counter per collector | record | runs of failures between other collectors' records | a failure does not erase the last success |
| tool attestations (`tool.rs`, `journal.rs`) | which binary each sensor would run | look, record | a look that is recorded late, an unreadable file | a record tells what was seen; a refused place is never used |
| sweep timeline (`sweep.rs`) | `sweep.lock`, the baseline `sweep.json` | take the lock, reconcile, diff, append, save | two surfaces, kills between append and save, identities that come and go | a change is told once, and before the baseline says so |
| event log (`event_log.rs`) | `events.jsonl` and the logs set aside | append, rotate, archive, read back | rotation and archive take no lock | the log reads back in order; only the oldest half goes |
| network history | endpoints per run, baselines | merge, reset | bounds on records and samples, retention by wall clock | presence marks are of the latest look; a ready baseline stays |
| activity (`activity_history.rs`) | numbered events of each run with parents and links | build, merge, bound, save | no lock, evictions, a clock that is set back | each number once, no dangling link, order kept |
| semantic context (`semantic.rs`, hooks) | what agents say of themselves | a hook finds its agent and adds, an operator clears | short-lived processes, no lock | in order, bounded, said by the nearest agent |

### Response (`topgent-enforce`, `topgent-report/src/actions.rs`, `response.rs`)

* **Response ladder**: every rule of the policy goes through the transition file and,
  for a kill, the approval file; then it is decided what to announce, ask or do.
* **Approved and manual stop**: consumes an approval, acquires the cooldown, stops.
  Two surfaces may race; a surface may die between any two of these.
* **Guarded stop of a process tree** (`execute.rs`): one snapshot, a preflight over
  the whole tree, a graceful signal to each member from the deepest up, a grace period,
  a forced signal, a bounded wait.  The process table moves all the while: forks, exits,
  reused pids, refused signals.
* **Stop of a container**: inspect, inspect again, stop, while a runtime restarts,
  replaces and renames.

### From facts to a verdict (`topgent-core`, `topgent-report`, `topgent-policy`, `topgent-export`)

* **Agent graph and inventory**: a stream of facts from many collectors, in any order
  and about subjects that may be no agent, is folded into agents, endpoints, resources.
* **Risk and rules**: factors, weights, ceilings, exceptions; a linter; the replay of a
  candidate policy over an old sweep.
* **Policy file**: `policy.json` and its last-known-good copy; load, modify, save with
  no lock; a person edits the same file; reading recovers from the copy.
* **Gate**: a build reads a report that another build wrote, and passes or fails a
  pipeline.

### Evidence (`topgent-evidence`, `topgent-verify`, `topgent-report/src/evidence.rs`)

* **A sensor's bundle**: a ledger of records, claims that name records, a hash chain,
  checkpoints that sign a head, key handovers.  Calls come in any order.
* **Offline verification**: has nothing but the bundle and the first key.
* **Production and encoding**: a sweep's facts are redacted, written, carried, read.
* **Identity**: host id and key seed, two files made by whoever needs them first.

### Sensors (`topgent-collect`, `topgent-capture`)

* **Capture session**: one capture per process behind a mutex, either threads of this
  process or a helper program; the switch joins the threads; the setting survives
  restarts; interfaces go away, the helper may die or may not be permitted; and the
  permission itself is asked for, granted and given back.
* **Accumulator**: reader threads fold frames into bounded tables, a sweep takes them, a
  helper sends batches that are folded once more.
* **Attribution**: whose process a packet or a socket is, from tables read at other
  moments; which process is an agent, and which agent a helper process is below.
* **Collectors**: audit logs that lose and tear lines, editor logs, the home's files.

### Surfaces (`topgent-ui`, `topgent-cli`)

* **The window** takes messages in turn and starts tasks that sweep, stop and edit while
  the host goes on; their answers may come in another order.

### How they interact

A sweep (`topgent-report/src/scan.rs`) drains the capture, runs the collectors, folds,
reads and replaces the network history and the activity, records sensor health and
attestations, evaluates the policy through the transition record, asks for approvals,
and advances the timeline, which appends to the log.  A person answers an approval or
stops an agent through `actions.rs`, which goes approval -> cooldown -> tree stop.  The
files are the only state surfaces share, and no journal file is computed from another
one; within a process, the capture is shared by the drawing thread, the sweep and the
reader threads.  Evidence and reports leave the host as files and may arrive damaged.
## 2. Modules

| module | models | state and actions |
|---|---|---|
| `AtomicRecord` | abstract: a record file on which updates are indivisible | `store`; one `Update` |
| `RecordStore` | `RecordLock`, `with_record_lock`, `replace_atomically` | each file operation of a call is a step (`TryCreate`, `ReadAge`, `Reclaim`, `Retry`, `Load`, `Replace`, `ReplaceFails`, `Release`), `Crash` inside the critical section, `Tick` |
| `Lifecycle` | abstract: the life of an approval as its readers see it | `status` of each request |
| `Approval` | `request_approval`, `resolve_approval`, `approval_records` and the codec | each locked call is one step |
| `ResponseTransition`, `SensorHealth` | `record_response_transition`, `record_sensor_health` and their codecs | one step each |
| `NetworkHistory` | `merge_network_history`, `build_network_baselines`, reset | reading and replacing the file are two steps |
| `PolicyFile` | load with recovery, the edits, save in its file operations | `Call`, `Modify`, `Rename`, `SaveFails`, `Truncate`, `Fill`, `Killed`, `ByHand` |
| `Attestation` | the choice of a tool, `record_attestation` and its reader | look and record are two steps, the file may be spoiled |
| `SemanticContext` | the hooks and `clear`; installing them is an operator | finding the agent, reading, saving are steps of a hook |
| `SweepJournal` | `advance_sweep`, `SweepLock`, `reconcile`, `diff`, `save_sweep` | every file operation is a step |
| `EventLog` | append, rotation, archive, tail | every file operation is a step; a file is its inode |
| `Activity` | `build`, `merge`, the bounds, save and reload | reading and replacing are two steps |
| `Termination` | `stop`, `resolve_termination_approval`, `stop_exact`, the cooldown | reading and writing the cooldown are two steps |
| `TreeKill` | `attempt_tree` and the guard, against a moving process table | identity check and signal are two steps |
| `ContainerStop` | `stop_exact` for the first process of a container | each call to the runtime is a step |
| `ResponseLadder` | `response_json`, `decide_response` over both files | one rule of one sweep is a step |
| `Desktop` | `App::update` and its tasks | one message is a step; tasks work beside |
| `Capture` | switch, sweeps, threads, helper, launches | one action per step another actor can observe |
| `CaptureGrant` | permission: asked for, granted, revoked, shown | the person's dialogs, the host's changes |
| `Flows` | the accumulator, scans, batches | reading, probing and recording a frame are steps of a reader; a counter is the set of the frames it has counted |
| `ProcessTable` | which processes are agents, and below which agent others are | operators over one table |
| `Attribution` | socket and packet owners | each table is read at its own moment, on a host that moves |
| `AuditEvents` | joining audit records into connections and lookups | a log that loses and tears lines, read late |
| `FileTouches` | file accesses from the same log | as above |
| `EditorHosts` | agents inside an editor, from its logs | as above |
| `HomeFiles` | settings, transcripts, reach, assets of the home | one file for one agent is a step |
| `Catalogue` | the signature and model catalogues, and one theorem | operators |
| `AgentGraph` | `fold_with_home`, the inventory | one fact is a step, in any order |
| `AgentRisk`, `Firing` | factors, ceilings, exceptions, linter, replay | operators over the folded agents |
| `ReportGate` | coverage, the report, the gate's exit | write, carry, decide |
| `SweepEvidence` | the bundle of a sweep: redaction, encoding, decoding | write, harm, read |
| `SensorIdentity` | host id and key seed | each file operation is a step |
| `EvidenceBundle` | append, claims, seal, rotate | one action per call |
| `EvidenceVerify` | `verify_bundle` over what was made, damaged on its way | the verifier is an operator; the harms are external actions |
| `FilesProofs`, `TimelineProofs`, `ResponseProofs`, `EvidenceBundleProofs`, `FlowsProofs` | theorems (section 4); those about `RecordStore` are at its end | |

How they build on each other: a locked call is *one* step in `Approval`,
`ResponseTransition`, `SensorHealth` and `Attestation` because `RecordStore` is shown,
and proved, to implement `AtomicRecord`; `ResponseLadder` takes a proposal for one step
and `Termination` is what follows it; `Termination` takes a tree stop for one step and
`TreeKill` is that step; `SweepJournal` takes an append for one step that may fail
half-way and `EventLog` is that step; `Capture` leaves out what is read and `Flows` is
that; `EvidenceVerify` extends `EvidenceBundle`; `AgentRisk` extends `AgentGraph`;
`Attribution` instantiates `ProcessTable` with the processes that run; `Approval` implements `Lifecycle`.

The MC modules instantiate these:

| run module | components |
|---|---|
| `MCFiles` | `Approval`, `ResponseTransition`, `SensorHealth`, `NetworkHistory`, `PolicyFile`, `Attestation`, `SemanticContext` |
| `MCResponse` | `Termination`, `TreeKill`, `ContainerStop`, `ResponseLadder`, `Desktop` |
| `MCTimeline` | `SweepJournal`, `EventLog`, `Activity`, `Capture`, `CaptureGrant` |
| `MCAssessment` | `AgentGraph`, `AgentRisk`, `Firing`, `ReportGate`, `SweepEvidence`, `SensorIdentity`, `EvidenceBundle`, `EvidenceVerify` |
| `MCSensors` | `Flows`, `ProcessTable`, `Catalogue`, `Attribution`, `AuditEvents`, `HomeFiles`, `FileTouches`, `EditorHosts` |

Where several components have no state in common, one run checks them side by side: a
variable `focus` is chosen in the initial state and never changes, and a behaviour is a
behaviour of the instance it names, with the variables of the others out of use.  This
loses nothing: the instances share no variable in the program, so their product would
only repeat each one's states.  Each instance has bounds of its own, and the comment at
the head of each MC module says what they are for.  To keep the number of variables
down, an instance may borrow variables of another one by `WITH`.

Variables marked *history* or *ghost* are read by no code: they record what the
properties compare with (how often a rule's match rose, who created a lock file, which
frames were read).
## 3. What is checked

Six runs pass; six more show a disagreement of code and documentation (section 5).

**store** (two writers, two calls each, one kill, a lock that is stale after 2 ticks, a
deadline of 5, as the code's 2 s and 5 s).  `ExclusiveRight`: at most one writer is
between creating and removing the lock.  `NoLostUpdate`: the file holds exactly the
completed updates.  `RefinesAtomicRecord`: the calls are indivisible updates.
`CallsReturn`: with or without the lock; and a call that starts behind a killed holder's
lock gets in before its own deadline, which is why the one constant is larger than the
other.  `TypeOK` includes that no wait exceeds the deadline.

**files** (seven files). `HistoriesHold`: every file is within its bound and well formed, what
agents say is in order and there once, in the tight instances (too little room, a clock that
is set back) what still holds of them, and with room and a clock that advances the approvals
refine `Lifecycle`. `NetworkHolds`: the network history is within its bounds and counts every
change of visibility, whoever races; while the clock is not set back the bound evicts what was
seen least recently; with one surface the marks are of the latest saved sweep, and a ready
baseline is what it was until a sample goes. `FindingsHold`: a rising edge of a rule is a finding,
and as long as no record went for want of room or for the clock, the only one.
`HealthHolds`: until then a sensor's success survives its failures; afterwards nothing is
reported that was not. `DecisionStands`: a decision that can be read is the one that was
made, in every instance of the approvals. `AttestationHolds`: an attestation tells what was
seen, whichever surface was slow, and no tool is taken from a place that was refused.
`PolicyHolds`: with two editors that interleave, are killed, fail to write, and a person's
edits, the policy is never half written by the program and only what was in force is
changed; with one editor the copy is what it saved last.

**response** `AnswersHold`: an approval is spent once, a denied request is never carried
out. `StopsAreSpaced`: one surface, killed anywhere, keeps to the cooldown.
`OnlyTheApproved`: a signal hits another process only if the pid was reused between the last
check of that pid and the signal. `DeepestFirst`, `SuccessMeansGone`. `LadderHolds`: nothing
is proposed that the operator did not answer for or the host cannot do, nothing is asked
twice. `OnlyTheApprovedContainer`: a container is stopped if it was the approved one when it
was last looked at, and otherwise nothing is. `DesktopHolds`: one sweep at a time (unless
the log was cleared), what is selected is shown, and what got worse is announced, once.
`EveryCallComesBack`.

**timeline** `LoggedBeforeSaved`: nothing enters the baseline that was not told.
`ChangesAreToldOnce`: an entry is repeated at most once for each sweep that was cut short,
an identity that comes and goes is no change, and an alarm is told when it rises.
`LogHolds`: the log of one surface reads back in order, and until a call is cut short
nothing is gone but the older halves. `HistoryStands`: the activity is bounded and numbered
once, refers to nothing that is gone, and events keep their order in a
sweep whose clock is behind neither the file nor its own look. `OffStaysOff`: once the
switch has returned nothing of this capture reads, also across kills and launches.
`PermissionStands`: what the interface says of the permission is what the next capture
meets. `EverythingSettles`: the timeline catches up again and again, the switch returns
though it joins threads that may be in a read, the death of a source is noticed.

**assessment** (every order of five facts out of three universes).  `SweepAsTold`: agents
and inventory say what the facts say, and a bundle is made of the whole sweep, says no more
than its records and reads back as written.  `GateHolds`: whatever became of the report on its
way, the gate passes nothing that was not looked at and nothing that says it was scored by
other rules than the operator's, a stricter one passes no more, and a report that arrives
as it was written is refused only for a sensor in error or a policy it cannot read.
`RiskHolds`: another fact never lowers a score, exceptions, ceilings and lint drop nothing,
and a replay differs by the policy only.  `ChainHolds`,
`LedgerHolds`, `CheckpointsHold`: what the sensor builds.  `AsMadeIsIntact`: what arrives
as it was made verifies, handovers included.  `IntactIsAsMade`: after any two of eight
harms, one of them a consistent rebuild of the whole chain, a bundle that verifies has, up
to its covering checkpoint, the sensor's records in the sensor's order.
`IdentityStays`: a sensor's identity and key stay once they are made.

**sensors** `FlowsHold`: every frame that was read is in the accumulator, on its way, in a
reader's hand or told in exactly one sweep, as a flow or as refused, also when batches are
folded into a full table; no scan is invented and none on its own is missed. `TreesHold`:
over every table of four pids in which nobody is above itself, what is below an agent is
attributed to one above it that is listed, none of another family lying between, and the
processes below one are found once, at their distance. `NobodyElses`: no agent is told of
another's sockets, traffic or files, what is joined from a torn log is of the process that
did it or of the next of its pid within a second, a connection told as closed has ended and
it, or another of its pid's to that endpoint, came up, an agent is recognised by the program
it runs or is handed (on Linux by the argument of anything), and a name that a catalogue's
patterns match is of one family.

Each property has a mutant in `PROJECT.json`: a plausible bug in a definition (the age
of a lock read from its content, a table truncated from the wrong end, a loop with no
bound) under which TLC finds the property violated in the same run.  Mutants stand before
the definition they change and are used nowhere else.

### Bounds, and why they are enough

* Two actors: each hazard listed is a race of two, but for two reclaimers of one lock,
  which needs a victim too; `store_two_reclaimers` has three writers.
* One or two kills or failures: each is a step that may happen at any point, so that
  every point is tried; two tell a repeated failure from one.
* Tables of one or two entries, with one key more: the bound is reached, and what is
  evicted can come back.  Code that treats the n-th entry like the second is not
  distinguished by larger tables; all of these do, by sorting and truncating.
* Clocks to between 2 and 5, with one step back in the tight, skewed and paired
  instances: a deadline can be before, at and after the clock, and a record can lie in
  the future.
* Three pids and one process more than pids: a tree of three levels, two siblings, and a
  reused pid.  Process tables have four: two helpers between two agents.
* Five facts of a universe of eleven to fourteen, in every order: each pair of
  kinds that the fold joins, with the process and the family that make an agent.
* Warm-up of 2 samples for 5, expiry and retention of a tick or five: what matters is
  their order and that each is passed.
* Scan thresholds and flow tables of one or two: full on the second frame.
* Two damages to a bundle: one to change something, one to make it consistent again.

Hosts are symmetric in `MCSensors`: nothing in the code orders them, and the run has no
liveness property.

`CHECK_DEADLOCK FALSE` is set where the system may stop: a tree stop is done, the
interface is not launched again, a bound on the moves is reached.

### Fairness

* `RecordStore`: a writer that is not dead is scheduled (weak fairness of its
  steps), and time passes infinitely often; a thread's sleep is at most 26 ms, so it
  cannot take infinitely many steps in a tick.  Nobody is obliged to call.  `Prompt`
  says that no step of a running writer takes as long as the two seconds after which its
  lock counts as abandoned: the code's own assumption (`journal.rs:97-104`).
* `SweepJournal`: a surface that runs goes on sweeping (the interface does, on a timer,
  `topgent-ui/src/lib.rs:898`), and locks grow old.
* `TreeKill`: the stopping thread is scheduled.  Its poll loop is bounded by a deadline,
  not by the process's death.
* `Desktop`: the tasks the window started run; nobody has to click.
* `Capture`: threads run, reads time out (`READ_TIMEOUT_MS`), the helper writes each
  second.  Nobody has to launch, sweep, quit or use the switch.
## 4. What is proved

42 theorems, checked by TLAPS from no axiom.  A theorem quantifies over every value of
the constants that satisfies the assumption it names; the run named in `PROJECT.json`
checks the same definition on its instance.

| property of a run | theorem | for every |
|---|---|---|
| `TypeOK` | `RecordStore!TypeCorrect` | writers, constants, kills and delays |
| `ExclusiveRight`, `NoLostUpdate`, `RefinesAtomicRecord` | `Exclusion`, `NothingLost`, `Refinement` (and `OwnFile`) | writers, when `Undisturbed` |
| `DecisionStands` | `FilesProofs!DecisionsStand` | requests, bounds, clocks |
| `PolicyHolds` | `FilesProofs!PolicyIsKept` | editors, rules, assets, policies by hand |
| `AttestationHolds` | `FilesProofs!AttestationsTell` | surfaces, tools, places, damage to the file |
| `FindingsHold` | `FilesProofs!EdgesAreFound` | rules and agents, room, clocks |
| `HealthHolds` | `FilesProofs!SuccessIsRemembered` | sensors, room, clocks |
| `NetworkHolds` | `FilesProofs!NetworkIsKept` | surfaces, endpoints, bounds, clocks (marks and baselines: one surface) |
| `AnswersHold` | `ResponseProofs!AnswersAreKept` | surfaces, runs, kills |
| `StopsAreSpaced` | `ResponseProofs!StopsAreACooldownApart` | runs that have room, kills |
| `OnlyTheApproved`, `DeepestFirst`, `SuccessMeansGone` | `StopsTheApproved`, `StopsTheDeepestFirst`, `SuccessIsGone` | pids, process tables and what happens to them |
| `OnlyTheApprovedContainer` | `ResponseProofs!ContainerIsTheApproved` | containers, pids, what happens to them |
| `LadderHolds` | `ResponseProofs!LadderIsClimbed` | paths, hosts, answers, edits of the policy |
| `DesktopHolds` | `ResponseProofs!WindowTells` | agents, tasks, operators |
| `LoggedBeforeSaved`, `ChangesAreToldOnce` | `TimelineProofs!NothingUntold`, `ToldOnce` | surfaces, runs, kills, failures |
| `LogHolds` | `TimelineProofs!LogStands` | sizes of the log, clearings, kills, surfaces (its order and contents: one) |
| `OffStaysOff` | `TimelineProofs!OffIsKept` | interfaces, installations, launches |
| `PermissionStands` | `TimelineProofs!PermissionIsTold` | hosts, changes by others, uses |
| `HistoryStands` | `TimelineProofs!ActivityStands` | facts, runs, capacities, resets, clocks (the order of events: while it is timely) |
| `ChainHolds`, `LedgerHolds`, `CheckpointsHold` | `Chained`, `Recorded`, `Sealed` | facts, origins, keys |
| `IntactIsAsMade` | `VerifiedIsAsMade` | any number of harms |
| `AsMadeIsIntact` | `MadeVerifies` | facts, origins, keys, handovers |
| `IdentityStays` | `OnceMadeStays` | surfaces, kills |
| `GateHolds` | `EvidenceBundleProofs!NothingUnseenPasses` | catalogues, agents, assets, damage to the report |
| `FlowsHold` | `FlowsProofs!EveryFrameIsTold` | readers, hosts, ports, processes, ceilings, with or without a helper |
| `TreesHold` | `FlowsProofs!HelpersAreOwned` | process tables |

Besides: the type invariants of `Approval`, `Termination` and `SweepJournal`
(`TypeCorrect` in `FilesProofs`, `ResponseProofs`, `TimelineProofs`), `AnsweredOnce` and
`Refinement` of `Lifecycle` by `Approval`, `Catalogue!AcceptedIsUnambiguous`: the first
family that matches is the only one, and `FlowsProofs!KnownByItsProgram` (`RecognitionHolds`,
a part of `NobodyElses`): for every listing, what a process is recognised by; and
`EditorHosts!ExtensionsAreOfTheirHost` (`EditorsHold`, another part of it): for any processes,
logs and changes meanwhile, whose the extensions of an editor are.

### The assumptions

Each component's `...Assumption` says that bounds are numbers, that model values differ and
little more; all are evaluated by the runs.  Beyond these:

* `Undisturbed == MaxCrashes = 0 /\ Prompt`: nobody is killed inside the record's
  critical section and no holder outlives its own lock.  It is needed: without it
  `store_two_reclaimers` is a counterexample.
* `Roomy` (approvals, cooldowns): as many records as requests or runs.  `Steady`
  (approvals): the clock is never set back.  `AnsweredOnce` and `Refinement` need both, as
  section 5 says; `DecisionsStand` needs neither.
* One surface in `StopsAreSpaced` (`stop_race` is the counterexample with two), in
  `ChangesAreToldOnce` and for the order and the contents of the log in `LogHolds`
  (section 5); these are in the property, not in the theorem.  The clock of
  `Termination` only advances.
* `GateAssumption`: catalogues are finite, and between two builds a factor may be added or
  dropped, but a code keeps its sensor and its ceiling; this build's ceilings are states the
  gate knows.
* `TableAssumption`: a table is finite.  `TreesHold` speaks of tables whose parents form no
  circle (`Forest`), which it says itself; a reused parent's pid can make one (Windows).
* In `AsMadeIsIntact`, that no earlier key came back and nothing was altered; again in the
  property.
* Hashes and signatures are ideal (section 6).

### The arguments

*Record lock.*  Exclusion is not inductive.  A holder is safe because the lock file is
its own (`HolderOwnsFile`), it is younger than `STALE` (`YoungLock`), a lock file implies
a live holder (`LockIsHeld`), so that nobody ever gets to remove one (`NobodyReclaims`).
`NoLostUpdate` needs in addition that what a holder read is still what the file holds
(`ReadIsCurrent`).  With `ExclusiveRight` these are the inductive `IInv`.  `Refinement`
maps `Replace` to the abstract update and every other step to a stutter.

*Approvals.*  `DecisionStands` is an action property.  It needs only that a request has
one record (`IdsUnique`), which a bounded insert keeps; eviction may take a decision out
of the file, and what can be read is still what was written.  With room nothing is
evicted, with a steady clock every record stays plausible (`AllPlausible`), so what was
decided stays (`DecisionsKept`); this is the invariant under which every step is one of
`Lifecycle` or a stutter.

*Policy.*  `PolicyInv` is `NeverHalf` (only a person leaves a file that does not parse)
with `Provenance` and `CopyFollows`: what is in either file, held for saving, or held for
refreshing the copy was once written by the operator or is the default that was in force
for want of a file; and a lone editor that refreshes the copy holds what it saved last.  The
lemmas are about the watchlist: taking a rule out, adding or changing one leaves at most
one entry of a rule.

*Attestations.*  `AttestationInv` is that a look on its way to the lock is of what a surface
found (`LooksAreFound`), and that every record tells of what was found (`RecordsTell`): a
merge with another state takes what the record said so far for its witness of before, and
pruning changes no record.  What is resolved is the first usable place, again by smallest
elements.

*Edges and health.*  Both properties say what holds whatever is drained or skipped, and what
holds as long as nothing was (`NoneWent`, `NoneForgotten`).  The second needs that until then
every record is legible (`AllLegible`, `AllReported`: no instant in it lies after the one it
was last seen) and what has no record has not happened yet (`AllRecorded`, `AllObserved`).
That a count never exceeds the edges needs that a rule that matches rose at least once: its
record may be gone and begin again at one.

*Network history.*  `NetworkInv` says of the file, and of what each surface has merged and not
yet written (`Drafted`), that it is within its bounds with an odd count for what is visible
and an even one for what is not; that it is of times that are over, while the clock is not
set back; and, if nobody else writes, that it *follows* on the file: no sample is new but
those of one instant, and an endpoint keeps its first instant or begins with that one
(`Follows`).  The bound is a prefix of a total order, so it keeps all or as many as there is
room for, and with an endpoint all that come before it (`TheFirst`, `BoundedIs`).  If besides no
sample went, the `Warmup`-th smallest sample is the same before and after, and so is what was
first seen by then (`NthIsOne`, `BaselineKept`); `network_drift` shows what happens otherwise.

*Answers and cooldown.*  An approval in hand is of a request the file says is approved
(`HandIsOfTarget`), is in one hand (`OneHand`), was not used (`UsedIsNotInHand`), is
used once.  `CooldownInv` for one surface: every earlier stop is a cooldown ago, or
guarded by a cooldown in the file (`StopsAreGuarded`), which holds because the file is
written before the first signal (`MineIsSaved`) and with room nothing is evicted; so the stop
that is about to be executed is spaced (`NextIsSpaced`).

*Tree stop.*  The process table is anybody's: forks, exits, reuse of pids.  `KillInv` has
that runs are never given out twice (`RunsAreNew`), that the snapshot names processes
once, at the pid they keep (`TargetsAreExact`), that between the check and the signal a
pid keeps its run, is free or has a run younger than the check (`CheckedIsOwn`), that
what was passed over is asked or gone and as deep as what is left (`PassedIsSettled`),
and that nothing is reported before the end (`Unended`).  A step of the environment
preserves it because a run that is gone does not come back.  That there is a next target
is by smallest elements, not by induction.

*Container.*  Nothing stands between the check of a container and its stop but its
identifier, so `BoxInv` follows the pid: since the second listing every pid has the run it
was listed with, none, or a younger one (`ListedOrYounger`), and the first process of the
container that was checked is the approved run, or younger (`ChosenOrYounger`).

*Ladder.*  `LadderInv`: an approved request is one the operator said yes to
(`YesIsAnswered`), a sweep matched what was touched when it began (`InSweep`), and as long as
no rule was taken out a request or an edge at a place is of the rule there (`Placed`); so a
path whose edge is not triggered has been announced less often than it rose
(`RisesAreAhead`), and an answer is in the file (`AnsweredIsKept`).  The proof failed first
where two arms of a `CASE` overlapped, which leaves the result open where the code tries
them in order; the arms now exclude one another.

*Window.*  `DesktopInv` is `OneSweep` with `Announcing` and `SelectedIsShown`.  A look that
is on its way may be of a run that is gone by the time it is shown, so the invariant
speaks of every answer as well as of what is shown: what was found is of the past
(`FoundIsPast`), an entry for a pid was announced as long as its run is there
(`RaisedIsTold`), what is shown was announced and entered (`ShownIsTold`,
`ShownIsRaised`).

*Timeline.*  `SavedIsLogged`, `ReadIsLogged`, `DueIsLogged`: the log has told of what is
saved, what was read, and what is due to be saved; no lock is needed for it.  `ToldOnce` is an
accounting: what was told of a run is at most its moves, one more, and the failures so
far, with the slack of each phase of a sweep stated (`OnceInv`).

*Log.*  `LogInv`: what a rotation read is what the log still holds until it truncates it
(`TextIsRead`), the file it truncated is empty until it is refilled, and entries and text
rise and stay below what was issued (`SoFar`).  All three fail with a second writer, which
appends between the read and the rewrite.  The lemmas are about the halves: the kept one is
in order, and both together are all there was (`Halves`).

*Activity.*  `ActivityInv` says of the file, and of what a surface has merged and not yet
written, that its events are numbered once, within the counter, and refer only to events
that are there (`Sound`, `Whole`), and of the clock that a lone surface never merges what
is older than what it read (`ClockStands`).  Order is kept on the condition `Timely`, which
is part of the property.

*Frames.*  `FlowInv` has `Placed`, which is the conservation: a frame that was read has one
place (a reader's hand, an accumulator, a batch, a sweep that told of it) and one that was
not read has none.  What an accumulator has counted are sets of frames, so nothing is
summed; each action is shown to move the places of a frame one to one, a fold of a batch
with all the flows that fit and those that do not (`AbsorbedTells`).  For the scans,
`Tracked` relates what is noted of a host to what was touched since the last drain: within
it always, equal to it while there is room for the port, and all hosts are noted while there is
room for hosts; `Genuine` says that a scan in a batch, in the accumulator it is folded into
or in a report is of a host that was touched on that many ports.

*Process table.*  The walk up (`Ancestors`), the walk to the owner (`OwnerWalk`) and the walk
down (`Levels`) are recursive functions of the number of steps.  That the function exists is
shown by induction over the set of numbers for which it does (`CountedUp`, from smallest
elements).  In a forest no two ancestors of a process are the same (`UpDiffers`), so by an
injection every walk has left the table after as many steps as there are processes
(`UpEnds`), which is where the code stops.  `Walked` says of each step of the owner's walk what
it has met: nobody, or the last of one family with none of another below it; and if it met a
second family, where.  So the owner has no parent of its family and is listed
(`OwnersAnchored`).  A process is on a level if its ancestor of that rank is the root
(`LevelsAre`), so it is on one, and has as many more ancestors (`DepthsAdd`).

*Editors.*  `EditorInv` says whatever happens that a log is of the one run that opened it and
holds what was activated in it (`OpenedOnce`, `Logged`), and that what was found of a pid is
of the run that was listed or of one that is gone (`Tabled`).  `HostIsOwn` needs more, and only
while nobody exits (`Quiet`, which no later step restores): a run has no log open but its own
or its parent's (`Heirs`), and what was listed is still there with its parent
(`StillListed`), so a holder whose parent is not one opened the log (`RootsOpened`).

*Capture.*  What reads belongs to a source (`SourceReads`), a switch has killed the helper
before it waits (`SwitchIsUp`), and an interface that is up has read the setting it finds
switched off (`OffIsWanted`).  No assumption is needed.

*Permission.*  `GrantInv`: capabilities and helpers are of Linux, where every host can open a
wire and where alone one is asked for (`AskedOnLinux`), and what reads is on a host that can
(`ReadsOnAWire`).  One lemma (`StateTells`) says what each answer of the probe means for the
capture that would begin then; by it an answer is true where it is given, and true again
after the elevation, in whose course others may have changed the host.

*Evidence.*  An append leaves earlier entries where they were, so a checkpoint's head is
found at its place for ever; a record that is chained has a greater number than every
entry, so it cannot be in the ledger already.  `VerifiedIsAsMade`: no harm makes a
signature the sensor did not make (`Signed`), so a verified checkpoint has a hash that
the sensor signed; and a hash that was signed fixes the whole chain up to it
(`SameUpTo`), for at the largest place with another hash, the next place has the hash of
both.  `MadeVerifies`: handovers follow one another and each key is new (`InOrder`,
`Handed`), so the authority the verifier computes after each is the key that was handed
to, by the smallest place where it would not be.

*Identity.*  What the history variable keeps of a file is what the file has, and nobody is
making it (`KeptStands`); since nobody begins to make a file that is not blank, no step can
change it any more (`KeptStep`), so what a surface may count on when it begins to ask is
still kept when it reads (`SinceStands`, `Got`).

*Gate.*  `GateInv` says of the report on its way that a row that reads "available" is of a
factor that was covered in the sweep (`TrueRow`); losing, repeating and spoiling rows keep
that, whichever of the two catalogues the rows are of (`DamagesAreTrue`).  Rows that are of
the gate's own catalogue, of which none is there twice and which are as many as it has codes,
are an injection between two sets of one size, so every rule has one
(`CompleteHasEveryRule`).  The rows this build writes are one for each rule (`OwnRows`), and
the state of each is one the gate knows unless its sensor is in error (`CoveredIsAState`), so
as they were written they are refused for that alone (`OnlyAnErrorIsRefused`).

*Catalogue.*  Two families that both match a name would have patterns that overlap, and
`Validate` refuses those.

### What stays with TLC

* Liveness (`CallsReturn`, `EveryCallComesBack`, `EverythingSettles`) and anything that
  needs `ENABLED`: the provers have no rule for it.
* Exclusion with one kill, and a dead holder's lock, which depend on real time.
* What folds and sums compute (scores in `AgentRisk`): the library's theorems on induction
  and folds have an operator as a parameter, which none of the provers can instantiate.
  Where an argument wants induction, these proofs take the smallest or largest
  counterexample, or the set of numbers for which a fact holds (process table).
* `SemanticContext` and `HomeFiles` select subsequences (`SelectSeq`), of
  which the provers know nothing; `SweepEvidence`, `AgentRisk` and `AuditEvents` fold
  over what they hold.
* The safety properties of the remaining components (`HistoriesHold`, `SweepAsTold`, `RiskHolds`,
  `NobodyElses` but for its recognition and its editors): model-checked only; section 8.
## 5. Where the code and its documentation disagree

Six have a run that shows them.

| run | property | what happens |
|---|---|---|
| `store_two_reclaimers` | `ExclusiveRight` | a waiter that saw a dead holder's lock removes whatever lock has that name by then, a fresh one included (`journal.rs:126`) |
| `stop_race` | `OneStopPerCooldown` | the cooldown is read and written without the lock, so two surfaces both acquire it (`journal.rs:588`) |
| `evidence_traffic` | `WrittenIsRead` | a captured flow is written under a tag that is never read back, and takes the whole bundle with it (`wire.rs:467`) |
| `network_drift` | `BaselineFrozen` | a baseline is computed from the samples that are retained, and after 64 sweeps the fifth of these is a later one (`network.rs:307`) |
| `policy_unread` | `UnreadIsKept` | a file that could not be read is overwritten by an edit of the copy it was recovered from (`actions.rs:28`) |
| `capture_fallback` | `FallsBack` | a helper that was spawned but cannot capture is kept, and nothing falls back (`live.rs:118`) |

Others have a property that TLC finds violated when the focus is set (section 9) and no
run of their own:

| property | module, focus | what happens |
|---|---|---|
| `StopsTheAsked` | `MCResponse`, "reused" | a stop confirmed for a pid goes to the run that has the pid by then (`actions.rs:183`, `agents.rs:930-932`) |
| `OrderStandsBackwards` | `MCTimeline`, "activity pair" | a clock that is set back reorders events, against `activity_history.rs:5` |
| `CurrentIsPreferred` | `MCTimeline`, "activity" | the one file of a path is the older one (`activity/build.rs:319-331` against `:238`) |
| `IcmpIsNotGuessed` | `MCSensors`, "raw" | an ICMP packet is told of one of several possible holders (`ports.rs:121-130`) |
| `ToldCameUp` | `MCSensors`, "calls" | a connect that was pending and never came up is told, once another socket of the process reaches the same endpoint (`network_event.rs:395-398` against `:17-20`) |
| `TheSameRun` | `MCSensors`, "reused" | what a process did is told of the next of its pid within a second (`network_event.rs:387-393` against `:19-20`) |
| `AnEditorIsNobody` | `MCSensors`, "listing" | on Linux the first argument of any process names it, an editor's that has an agent's program open (`launcher.rs:33-41`, `table.rs:141-145` against `launcher.rs:5-7`, `:15-18`) |
| `PingsAreTold` | `MCSensors`, "ping" | datagrams of an open socket are told of once it is closed only (`network_event.rs:13-16`) |
| `ModelIsOwn` | `MCSensors`, "home" | the first transcript by name speaks for every session (`model.rs:484-489` rejects just that for another agent) |
| `ClearedIsGone` | `MCFiles`, "hook" | a hook that read before the clearing writes the records back (`journal.rs:838`) |
| `CleanCappedPasses` | `MCAssessment`, "capped" | the gate's documented recipe always exits 3, for two factors are never covered in full (`README.md:213-229` of the repository, `health.rs:164-171`) |
| `WrittenIsAReport` | `MCAssessment`, "gate" | a sensor in error is written as "error", which the gate refuses as no report (`health.rs:154-158` against `gate.rs:93-102`) |
| `EveryRunIsAnAsset` | `MCAssessment`, "anchors" | of two agents on one pid the first is no asset, and what it relates to is related to the last (`inventory.rs:298-306` against `:124-125`) |
| `OneEndpointPerDestination` | `MCAssessment`, "swept" | attempts are delivered before sockets, so the joining in `graph.rs:421-424` never happens |
| `RemovedIsOff`, `OffIsNotInferred` (`CaptureGrant`) | `MCTimeline`, "permission" | "Permission removed. Capture is off." while the helper reads on (`report.rs:420`) |
| `SameIdentity` (`SensorIdentity`) | `MCAssessment`, "identity" | two surfaces that start together sign with two identities (`identity.rs:119-122`) |

The rest was met on the way; the models have the behaviour where it is in their scope, and
the properties are stated so that they are true with it.

*Journal.*
* Approvals and transitions past their bound drop the oldest whatever its state, so a
  decided request is asked again and a matching rule found again (`journal.rs:707`, `:369`).
* A record saved before the clock was set back fails its own reader's plausibility
  check and vanishes (`approval.rs:98`, `transition.rs:46`, `sensor_health.rs:69`).
* The sweep lock is created before its time is written, and reads as abandoned in
  between (`sweep.rs:294`); a slow surface advances the timeline with an older look
  (`scan.rs:184`); the baseline is written in place (`journal.rs:1054`).
* A rotation that is cut short loses the log, and one that races an append loses that
  entry (`journal.rs:1129-1132`).
* A network reset is undone by a sweep that read the history before it (`scan.rs:175`).
* An unreadable attestation or settings file is taken for an empty one, though "Returns
  read failures" (`journal.rs:217-218`).
* Two hooks that overlap lose a record; installing the codex hook replaces the first
  `notify =` line wherever it is.
* Reloading the activity loses links and parents of events whose parent is numbered
  later; an event's identity includes its time, against `draft.rs:3-5`.

*Response.*
* A partial tree stop counts signals where it says members (`execute.rs:186`), and a
  child forked after the snapshot survives a stop that reports success (`:168`).
* The index of a rule is part of its transition and approval keys, so that removing a
  rule asks again for the ones behind it (`response.rs:30-61`); an expired approval of a
  kill is never asked again; an unreadable approval file reads as "awaiting approval".
* The window keys what it announced by pid; clearing the log starts a sweep beside the
  one under way (`lib.rs:501-506` against `:426-428`), and a sweep that a change asked for is
  dropped while one runs; a rule is removed by its place in the report that is drawn
  (`topgent-policy/src/lib.rs:593`).
* The settings are written in place, and a torn file loads with capture on
  (`settings.rs:87-103` against `:41-43`).

*Facts and verdicts.*
* A grade that is unknown is below every floor of the gate (`gate.rs:39-54`); exit 3
  hides violations (`policy.rs:93-99`).
* A report that does not say by whose rules it was scored passes (`gate.rs:206-212`; meant
  for older reports, and so tested at `:443-451`), also one that lost the field on its way.
* An asset of two agents on one pid keeps the name of the first that was inserted.
* Replay falls back silently when the policy is unreadable, applies no exceptions (simulate
  does), compares accepted findings by their number, and folds in the order of digests.
* `apply_exceptions` is called by `simulate` only, though `assess.rs:245-257` says the live
  path; one lint can never fire (`firing.rs:390-393`).
* `Intact` says nothing of records after the furthest checkpoint (the summary says how
  far it reaches; `verify.rs:53`), and a key that was handed over can be handed over again
  (`:88`).  One over-long text, time out of range or unknown collector refuses a whole
  bundle.
* Session recordings redact two keys where `session.rs:43-47` says addresses.

*Sensors.*
* A second agent started through a shell is taken for the first one's helper when its
  sockets are attributed, though the process collector tells of it (`collector.rs:114-122`).
* Events of a helper process are told of the helper and dropped by the fold, against
  `process.rs:34-40`.
* Flows of a helper that is gone by the sweep are dropped uncounted (`live.rs:346`);
  refused flows are counted by packet in one place and by flow in another
  (`flows.rs:207`); the loss of one of several interfaces ends the whole capture
  (`session.rs:170`); the list of scans outlives the sweep that found them (`live.rs:327`).
* A port map may be older than the packet it is used for (`ports.rs:14-18`).
* One editor log that cannot be read fails every other; a tail cut inside a character
  fails the collector; audit groups are ordered as strings.
* The inventory takes 256 entries before it sorts; a rule in both lists of a settings file is
  told as both.
## 6. Abstractions

* A locked record call is one step (justified in section 2).  The unlocked ones are not.
* The files of approvals and cooldowns are sets, that of transitions a record for each
  key: of records of the same age past a bound, which ones are dropped is left open.
* Names, paths, commands and messages are values; digests are what they are taken of,
  signatures are the key that made them.
* In `SweepJournal` one grade stands for each compared attribute whose change is an
  entry and one alarm for each that is told on its rising edge; a baseline of an older
  version that knows runs by pid only is left out.
* `NetworkHistory` reads the clock and the file in one step, where a sweep takes the time
  (`scan.rs:112`, `:139`) before it reads the file (`:175`): of one surface nothing differs,
  of two the times may be as far apart as a sweep takes.
* `ProcessTable` lists hosts with Linux and with Windows; on a Mac no first argument is read
  (`launcher.rs:60-63`).  The names of assets are left out.
* `NetworkHistory` leaves out host names, services and counts; `Flows` times, protocols,
  directions and the packets of a scan, and a counter in it is a set of frames; `PolicyFile` exceptions and the contents of a rule; `Termination` the
  wording of a report; `Attribution` the other end of a connection; `CaptureGrant` threads.
* A universe of facts in `MCAssessment` has one or two facts of each kind that the fold
  tells apart, and weights, thresholds and rules small enough that each is reached.
* `OffStaysOff` is about the capture of the interface that is up: a helper whose
  interface was killed reads until its next write, a second later, which the property
  takes into account.
* External, modelled from how the code uses it: the process table and signals, the
  container runtime, audit logs, kills, a person at an editor or a dialog, an installer,
  damage to a bundle on its way.

## 7. What is not modelled

* The parsing of frames, audit lines, manifests and transcripts, and the bytes of the
  encoding: data, fuzzed in the repository.
* The platforms' own reads (`/proc`, `netstat`, event logs of Windows and macOS): what
  they return is external.
* Fact vocabulary: types without behaviour, used as values.
* Drawing, formats of exports, terminal output, argument parsing: layout.
* The simulation lab, the browser viewer, fuzz targets and scripts: tools around the
  program.

## 8. Plan

Done: models and runs of every component with state; proofs for the record lock, approvals,
the policy, attestations, edges and health, the network history, answers, cooldowns, stops of trees and
containers, the ladder, the window, the timeline, the log, the activity, the accumulator, the process table, the switch and the permission of
the capture, evidence and its verifier, the gate, the hosts of editors, and the catalogue.

Next, proofs: whose sockets `Attribution` tells of, and whose events `AuditEvents` does.

## 9. Running it

    tlc -config RecordStore.cfg RecordStore            (and MCFiles, MCResponse, MCTimeline,
                                                        MCAssessment, MCSensors)
    tlc -config MCResponse_race.cfg MCResponse         (a disagreement: TLC reports a violation)
    tlapm RecordStore.tla                              (and FilesProofs, TimelineProofs, ResponseProofs,
                                                        EvidenceBundleProofs, FlowsProofs, EditorHosts, Catalogue)

For a disagreement without a run of its own, copy the configuration of the module, set
`Foci` to the one focus of the table in section 5, and name that property only under
`INVARIANT` (`PROPERTY` for `OrderStandsBackwards`).

`PROJECT.json` has the runs with their modules and configurations, the mutants, the
source lines of every definition, the hazards with the properties that cover them, and
the theorems.
