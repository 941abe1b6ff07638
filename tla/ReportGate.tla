----------------------------- MODULE ReportGate ------------------------------
(***************************************************************************)
(* From a sweep to the verdict of a pipeline (topgent-report/src/health.rs,*)
(* topgent-export/src/gate.rs, topgent-cli/src/commands/policy.rs): one    *)
(* build writes a report of what it saw, the file is carried and may       *)
(* arrive damaged, and a build that may be another decides on it.          *)
(***************************************************************************)
EXTENDS Naturals, Sequences, FiniteSets

CONSTANTS
  Nothing, Unreadable,  \* no policy is given; the one that is cannot be read
  Collector, AgentId, AssetId,
  Rule,        \* the factors of this build's catalogue: [code, sensor, ceiling]
  Former,      \* those of the build that wrote the report
  MaxLosses

VARIABLES
  states,      \* the state of each collector in the sweep
  grades,      \* the grade of each agent
  decided,     \* what the host's policy decided of each asset
  inForce,     \* whether that is the operator's policy
  report, way, losses,
  asked,       \* what the gate was asked: [floor, require, policy]
  verdict      \* the exit code

gateVars == <<states, grades, decided, inForce, report, way, losses, asked, verdict>>

(* CapabilityState: what became of a collector in a sweep.                 *)
CollectorState == {"available", "unsupported", "permission_required", "error"}
(* COVERAGE_STATES: what the gate lets a row of the coverage say.          *)
State == {"available", "degraded", "permission_required", "unsupported"}
Band == <<"LOW", "MEDIUM", "HIGH", "CRITICAL">>
Grade == {Band[n] : n \in DOMAIN Band} \cup {"NOT EVALUATED"}
Disposition == {"unreviewed", "disallowed"}
Floor == 1..4

Codes(rules) == {r.code : r \in rules}
Rows == [rule : Codes(Rule), state : State \cup CollectorState]

(* Between the two builds a factor may be added or dropped, not changed:   *)
(* a code stands for the same sensor and the same ceiling; the ceilings of *)
(* this build are states a row may have (risk-factors.json).               *)
GateAssumption ==
  /\ IsFiniteSet(Rule) /\ IsFiniteSet(Former) /\ MaxLosses \in Nat
  /\ \A r, q \in Rule \cup Former : r.code = q.code => r = q
  /\ \A r \in Rule : r.ceiling \in State \cup {Nothing}
  /\ Nothing # Unreadable /\ {Nothing, Unreadable} \cap ((0..3) \cup [AssetId -> Disposition]) = {}
  /\ Nothing \notin [AgentId -> Grade] \cup [1..Cardinality(Rule) -> Rows] \cup State

-----------------------------------------------------------------------------
(* detection_coverage: a rule is as well covered as its sensor is, and no  *)
(* better than its ceiling.                                                *)
Covered(rule, seen) ==
  LET state == IF rule.sensor \in DOMAIN seen THEN seen[rule.sensor] ELSE "unsupported"
  IN  IF rule.ceiling # Nothing /\ state = "available" THEN rule.ceiling ELSE state

CatalogueOrder(rules) ==
  CHOOSE order \in [1..Cardinality(rules) -> rules] :
    \A k, l \in DOMAIN order : order[k] = order[l] => k = l

Coverage(rules, seen) ==
  [k \in 1..Cardinality(rules) |->
     [rule |-> CatalogueOrder(rules)[k].code, state |-> Covered(CatalogueOrder(rules)[k], seen)]]

(* health: whether the operator's rules were in force; Nothing if the      *)
(* report does not say.                                                    *)
ReportOf(rules, health) ==
  [agents |-> grades, assets |-> decided, coverage |-> Coverage(rules, states), health |-> health]

-----------------------------------------------------------------------------
(* Mutant: that a row is there twice is not noticed.                       *)
MalformedIfUnknown(rows) ==
  \E k \in DOMAIN rows : rows[k].rule \notin Codes(Rule) \/ rows[k].state \notin State

(* coverage_is_complete: a row that is not of this catalogue, or is there  *)
(* twice, is of no report of Topgent's.                                    *)
Malformed(rows) ==
  \/ \E k \in DOMAIN rows : rows[k].rule \notin Codes(Rule) \/ rows[k].state \notin State
  \/ \E k, l \in DOMAIN rows : k # l /\ rows[k].rule = rows[l].rule

Complete(rows) ==
  /\ Len(rows) = Cardinality(Codes(Rule))
  /\ \A k \in DOMAIN rows : rows[k].state = "available"

(* A grade that is no band is below every floor.                           *)
Reaches(grade, floor) == \E n \in floor..Len(Band) : Band[n] = grade

(* A report that does not say by whose rules it was scored violates none.  *)
Violations(r, floor) ==
  {<<"POLICY_NOT_IN_FORCE", Nothing>> : x \in {r.health} \cap {FALSE}}
  \cup {<<"RISK_THRESHOLD", a>> : a \in {b \in DOMAIN r.agents : Reaches(r.agents[b], floor)}}
  \cup {<<"DISALLOWED_ASSET", a>> : a \in {b \in DOMAIN r.assets : r.assets[b] = "disallowed"}}

(* policy_command: with a policy of its own, the gate decides on the assets*)
(* again. What is missing from the coverage comes before what was found.   *)
Decided(r, policy) == IF policy = Nothing THEN r ELSE [r EXCEPT !.assets = policy]

Verdict(r, ask) ==
  CASE ask.policy = Unreadable \/ Nothing \in {r.agents, r.assets, r.coverage} \/ Malformed(r.coverage) -> 2
    [] OTHER -> IF ask.require /\ ~Complete(r.coverage) THEN 3
                ELSE IF Violations(Decided(r, ask.policy), ask.floor) # {} THEN 1 ELSE 0

-----------------------------------------------------------------------------
GateInit ==
  /\ \E present \in SUBSET Collector : states \in [present -> CollectorState]
  /\ grades \in [AgentId -> Grade] /\ decided \in [AssetId -> Disposition] /\ inForce \in BOOLEAN
  /\ report = Nothing /\ way = "swept" /\ losses = 0 /\ asked = Nothing /\ verdict = Nothing

(* This build says whether the operator's rules were in force; a former one*)
(* may not have.                                                           *)
Write ==
  /\ way = "swept"
  /\ \/ report' = ReportOf(Rule, inForce)
     \/ \E health \in {inForce, Nothing} : report' = ReportOf(Former, health)
  /\ way' = "written"
  /\ UNCHANGED <<states, grades, decided, inForce, losses, asked, verdict>>

(* On its way a field is lost, or rows of the coverage are lost, are there  *)
(* twice, or are not what they were.                                       *)
Without(rows, k) == SubSeq(rows, 1, k - 1) \o SubSeq(rows, k + 1, Len(rows))
Damages(rows, k) ==
  {Without(rows, k), Append(rows, rows[k]), SubSeq(rows, 1, k - 1), [rows EXCEPT ![k].state = "fine"]}

LoseRows ==
  /\ way = "written" /\ losses < MaxLosses
  /\ losses' = losses + 1
  /\ \/ \E field \in {"agents", "assets", "coverage", "health"} : report' = [report EXCEPT ![field] = Nothing]
     \/ /\ report.coverage # Nothing
        /\ \E k \in DOMAIN report.coverage : \E rows \in Damages(report.coverage, k) :
             report' = [report EXCEPT !.coverage = rows]
  /\ UNCHANGED <<states, grades, decided, inForce, way, asked, verdict>>

Check(ask) ==
  /\ way = "written" /\ way' = "checked"
  /\ asked' = ask /\ verdict' = Verdict(report, ask)
  /\ UNCHANGED <<states, grades, decided, inForce, report, losses>>

Asking == [floor : Floor, require : BOOLEAN, policy : {Nothing, Unreadable} \cup [AssetId -> Disposition]]

GateNext == Write \/ LoseRows \/ \E ask \in Asking : Check(ask)

GateSpec == GateInit /\ [][GateNext]_gateVars

-----------------------------------------------------------------------------
(* gate.rs:108-172, 206-228: whatever happened to the coverage on its way, *)
(* a report passes a gate that requires coverage only if the sweep had the *)
(* sensor of every rule of the gate's own catalogue, for rules that are    *)
(* watched in full; and passes any gate only if nothing in it reached the  *)
(* floor and, where it says by whose rules it was scored, they were the    *)
(* operator's.                                                             *)
PassMeansLooked ==
  verdict = 0 =>
    /\ report.health # Nothing => inForce
    /\ \A a \in AgentId : ~Reaches(grades[a], asked.floor)
    /\ \A a \in AssetId : "disallowed" # IF asked.policy = Nothing THEN decided[a] ELSE asked.policy[a]
    /\ asked.require => \A r \in Rule : /\ r.sensor \in DOMAIN states
                                        /\ states[r.sensor] = "available"
                                        /\ r.ceiling \in {Nothing, "available"}

(* What passes a stricter gate passes a laxer one, and what is no report   *)
(* is none however it is asked about.                                      *)
StricterIsStricter ==
  verdict # Nothing =>
    \A ask \in Asking : ask.policy = asked.policy =>
      /\ (verdict = 2) = (Verdict(report, ask) = 2)
      /\ (verdict = 0 /\ ask.floor >= asked.floor /\ (ask.require => asked.require)) =>
            Verdict(report, ask) = 0

(* gate.rs:97-172, health.rs:154-158: of reports that arrive as this build *)
(* wrote them, those are refused as no report, and only those, in which    *)
(* the sensor of a rule could not be read.                                 *)
AsWritten == verdict # Nothing /\ report = ReportOf(Rule, inForce) /\ asked.policy # Unreadable
RefusedForAnError ==
  AsWritten =>
    (verdict = 2) = (\E r \in Rule : r.sensor \in DOMAIN states /\ states[r.sensor] = "error")

(* VIOLATED: by gate.rs:93-96 the states are of the vocabulary the         *)
(* collectors report, and what a gate refuses nobody can have produced.    *)
WrittenIsAReport == AsWritten => verdict # 2

(* VIOLATED, with one rule that has a ceiling, as two of the built-in      *)
(* catalogue have (risk-factors.json:16, 196): README.md:216-229 checks a  *)
(* report just written with --require-coverage, and 0 when it passes.      *)
CleanHostPasses ==
  (/\ AsWritten
   /\ \A r \in Rule : r.sensor \in DOMAIN states /\ states[r.sensor] = "available"
   /\ Violations(Decided(report, asked.policy), asked.floor) = {}) => verdict = 0

GateHolds == PassMeansLooked /\ StricterIsStricter /\ RefusedForAnError
=============================================================================
