---------------------------- MODULE SensorHealth -----------------------------
(***************************************************************************)
(* Journal::record_sensor_health and the codec of sensor_health.rs: what   *)
(* is remembered of each collector between sweeps.  The call holds the     *)
(* record lock and is one step (RecordStore).                              *)
(***************************************************************************)
EXTENDS Integers, FiniteSets

CONSTANTS
  Sensor,         \* collector ids, numbered in the order of their names
  MaxSensors,     \* MAX_SENSOR_HEALTH_RECORDS
  MaxObservedAt,  \* bound on the clock and on the failures in a row
  MaxDropped,     \* bound on a sensor's own counter of dropped events
  MaxHealthBacks  \* how often the clock may be set back

HealthAssumption ==
  /\ IsFiniteSet(Sensor) /\ Sensor \subseteq Nat
  /\ MaxSensors \in Nat \ {0}
  /\ MaxObservedAt \in Nat /\ MaxDropped \in Nat /\ MaxHealthBacks \in Nat

VARIABLES
  observedAt,  \* the wall clock of the sweep
  health,      \* sensor-health.json: the record of each sensor it has one of
  lastGood,    \* history: the instant of each sensor's latest success
  failedSince, \* history: its failures since then
  counter,     \* history: the latest counter it supplied
  forgotten,   \* history: whether a record went for want of room
  healthBacks  \* how often the clock was set back

healthVars == <<observedAt, health, lastGood, failedSince, counter, forgotten, healthBacks>>

Never == -1
Outcome == {"available", "unsupported", "permission_required", "error"}
Supplied == 0..MaxDropped \cup {Never}

HealthInit ==
  /\ observedAt = 0
  /\ health = [s \in {} |-> 0]
  /\ lastGood = [s \in Sensor |-> Never]
  /\ failedSince = [s \in Sensor |-> 0]
  /\ counter = [s \in Sensor |-> Never]
  /\ forgotten = FALSE
  /\ healthBacks = 0

-----------------------------------------------------------------------------
(* sensor_health_from_json skips a record whose success or error lies      *)
(* after its last observation.                                             *)
Reported ==
  {s \in DOMAIN health : health[s].success <= health[s].seen /\ health[s].error <= health[s].seen}

(* Mutant: a failure replaces the record of the success.                   *)
NotedForgetful(r, outcome, dropped) ==
  LET good == outcome = "available"
  IN [state |-> outcome, seen |-> observedAt,
      dropped |-> IF dropped = Never THEN r.dropped ELSE dropped,
      success |-> IF good THEN observedAt ELSE Never,
      error |-> IF good THEN Never ELSE observedAt,
      failures |-> IF good THEN 0 ELSE r.failures + 1]

(* A success clears the failures, a failure keeps the success; a counter   *)
(* moves only when the sensor supplies one.                                *)
Noted(r, outcome, dropped) ==
  LET good == outcome = "available"
  IN [state |-> outcome, seen |-> observedAt,
      dropped |-> IF dropped = Never THEN r.dropped ELSE dropped,
      success |-> IF good THEN observedAt ELSE r.success,
      error |-> IF good THEN r.error ELSE observedAt,
      failures |-> IF good THEN 0 ELSE r.failures + 1]

FirstNoted(outcome, dropped) ==
  LET good == outcome = "available"
  IN [state |-> outcome, seen |-> observedAt, dropped |-> dropped,
      success |-> IF good THEN observedAt ELSE Never,
      error |-> IF good THEN Never ELSE observedAt,
      failures |-> IF good THEN 0 ELSE 1]

(* Sorted by id; past the bound the records of the first ids are drained.  *)
Held(sensors) ==
  {s \in sensors : Cardinality({q \in sensors : q >= s}) <= MaxSensors}

Observe(s, outcome, dropped) ==
  LET good == outcome = "available"
      record == IF s \in Reported THEN Noted(health[s], outcome, dropped)
                ELSE FirstNoted(outcome, dropped)
      sensors == Reported \cup {s}
  IN /\ failedSince[s] < MaxObservedAt
     /\ health' = [q \in Held(sensors) |-> IF q = s THEN record ELSE health[q]]
     /\ forgotten' = (forgotten \/ Held(sensors) # sensors)
     /\ lastGood' = [lastGood EXCEPT ![s] = IF good THEN observedAt ELSE @]
     /\ failedSince' = [failedSince EXCEPT ![s] = IF good THEN 0 ELSE @ + 1]
     /\ counter' = [counter EXCEPT ![s] = IF dropped = Never THEN @ ELSE dropped]
     /\ UNCHANGED <<observedAt, healthBacks>>

ObserveLater ==
  /\ observedAt < MaxObservedAt
  /\ observedAt' = observedAt + 1
  /\ UNCHANGED <<health, lastGood, failedSince, counter, forgotten, healthBacks>>

ClockBack ==
  /\ healthBacks < MaxHealthBacks
  /\ healthBacks' = healthBacks + 1
  /\ observedAt' \in {t \in 0..MaxObservedAt : t < observedAt}
  /\ UNCHANGED <<health, lastGood, failedSince, counter, forgotten>>

HealthNext ==
  \/ \E s \in Sensor, outcome \in Outcome, dropped \in Supplied : Observe(s, outcome, dropped)
  \/ ObserveLater
  \/ ClockBack

HealthSpec == HealthInit /\ [][HealthNext]_healthVars

-----------------------------------------------------------------------------
(* As long as no record went, for want of room or because a clock that was *)
(* set back made it one that is skipped.                                   *)
NoneForgotten == ~forgotten /\ healthBacks = 0

(* sensor_health.rs:3-5, journal.rs:500-501: a later failure does not erase*)
(* the last time a sensor did see something, failures count since then and *)
(* nothing else, and a dropped-event counter is one the sensor supplied    *)
(* and survives sweeps without one.  Where records went, what is there may *)
(* know of less, and of nothing that was not.                              *)
HealthHolds ==
  /\ \A s \in Reported :
       /\ health[s].success \in {Never, lastGood[s]}
       /\ health[s].failures <= failedSince[s]
       /\ health[s].dropped \in {Never, counter[s]}
  /\ NoneForgotten =>
       /\ \A s \in Sensor : lastGood[s] # Never => s \in Reported
       /\ \A s \in Reported :
            /\ health[s].success = lastGood[s]
            /\ health[s].failures = failedSince[s]
            /\ health[s].dropped = counter[s]
  /\ Cardinality(DOMAIN health) <= MaxSensors
=============================================================================
