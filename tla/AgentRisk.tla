------------------------------ MODULE AgentRisk ------------------------------
(***************************************************************************)
(* risk/*.rs: the factors an agent of the graph has earned, what they add  *)
(* up to, and what the operator's exceptions take away (simulate).         *)
(***************************************************************************)
EXTENDS AgentGraph, Sequences, SequencesExt

F == INSTANCE Firing

CONSTANTS
  Weight,        \* points of each factor in the policy's weights
  Threshold,     \* the policy's thresholds
  Watchlist,     \* the operator's rules: [path, condition, points]
  Exceptions,    \* accepted findings, in the order of the file
  HostFlags,     \* what is known of a host from its address
  SuspiciousPorts,
  OffensiveTools,
  Persistence, OwnFiles,  \* paths of the detection signals
  MaxWindow,     \* the longest an exception may run
  MaxInstant     \* bound on the instant a bundle is scored at

VARIABLE asOf    \* the instant that is scored, a sweep's or a bundle's

MaxScore == 100
Multiplier == [delegated_human |-> 100, service_account |-> 75, unknown |-> 85]
Bit(b) == IF b THEN 1 ELSE 0

(* signals_for: the typed facts a condition may read.                      *)
Signals(a) ==
  [can_execute |-> Bit(CanExecute(a)), can_write_broadly |-> Bit(CanWriteBroadly(a)),
   outbound_count |-> Cardinality(Outbound(a)), distinct_hosts |-> DistinctHosts(a),
   max_ports_to_one_host |-> MaxPortsToOneHost(a),
   latent_secret_count |-> Cardinality(LatentSecrets(a)),
   drift_count |-> Cardinality(Drift(a)), invokes_count |-> Cardinality(a.invokes),
   children_count |-> Cardinality(a.children)]

Flags == {"can_execute", "can_write_broadly"}

(* The conditions the built-in catalogue gives a factor of a whole agent.  *)
When ==
  [ARBITRARY_EXECUTION |-> F!Is("can_execute"),
   BROAD_WRITE |-> F!Is("can_write_broadly"),
   UNRESTRICTED_NETWORK |-> F!AtLeast("outbound_count", Threshold.network_spread),
   SECRET_REACHABLE |-> F!AtLeast("latent_secret_count", 1),
   DECLARATION_DRIFT |-> F!AtLeast("drift_count", 1),
   AGENT_CHAIN |-> F!AtLeast("invokes_count", 1),
   EXFILTRATION_PATH |-> F!All({F!Is("can_execute"), F!AtLeast("latent_secret_count", 1)}),
   RECON_FANOUT |-> F!Any({F!AtLeast("distinct_hosts", Threshold.recon_hosts),
                           F!AtLeast("max_ports_to_one_host", Threshold.recon_ports)}),
   PROCESS_EXPLOSION |-> F!AtLeast("children_count", Threshold.process_children)]

(* And one for each endpoint, child or resource.                           *)
PerItem ==
  {[code |-> "EXPOSED_LISTENER", of |-> "endpoints", title |-> {"words", "host", "port"},
    where |-> F!All({F!Is("listening"), F!Is("held"), F!Not(F!Is("loopback"))})],
   [code |-> "SUSPICIOUS_ENDPOINT", of |-> "endpoints", title |-> {"words", "host", "port"},
    where |-> F!All({F!Is("outbound"), F!Is("raw_address"), F!InList("port", SuspiciousPorts)})],
   [code |-> "PRIVATE_PEER", of |-> "endpoints", title |-> {"words", "host", "port"},
    where |-> F!All({F!Is("outbound"), F!Is("private_peer"), F!Not(F!Is("loopback"))})],
   [code |-> "METADATA_SERVICE", of |-> "endpoints", title |-> {"words", "host", "port"},
    where |-> F!All({F!Is("outbound"), F!Is("metadata_service")})],
   [code |-> "OFFENSIVE_TOOL", of |-> "children", title |-> {"words", "name"}, where |-> F!Is("offensive_tool")],
   [code |-> "CREDENTIAL_ACCESS", of |-> "resources", title |-> {"words", "path"},
    where |-> F!All({F!Is("observed"), F!Is("sensitive")})],
   [code |-> "PERSISTENCE_WRITE", of |-> "resources", title |-> {"words", "path"},
    where |-> F!All({F!Is("observed"), F!Is("mutating"), F!Is("persistence_location")})],
   [code |-> "SELF_TAMPERING", of |-> "resources", title |-> {"words", "path"},
    where |-> F!All({F!Is("observed"), F!Is("mutating"), F!Is("topgent_owned")})]}

(* The catalogue the program is built with is one that loads.              *)
Codes == DOMAIN Weight \ {"FURTHER_SECRET"}
SecretCeiling == 12
Entry(code) ==
  [code |-> code, points |-> Weight[code],
   subsequent |-> IF code = "SECRET_REACHABLE" THEN Weight["FURTHER_SECRET"] ELSE Weight[code],
   ceiling |-> IF code = "SECRET_REACHABLE" THEN SecretCeiling ELSE 0,
   recurs |-> code = "SECRET_REACHABLE",
   ways |-> Cardinality({code} \cap DOMAIN When) + Cardinality({e \in PerItem : e.code = code})
              + Bit(code \in {"WATCHLIST", "SANDBOX_ESCAPE", "DISALLOWED_ASSET"})]
Fields ==
  [endpoints |-> {"loopback", "private_peer", "raw_address", "metadata_service", "listening",
                  "outbound", "port"} \cup Sighting,
   children |-> {"offensive_tool"},
   resources |-> {"observed", "declared", "reachable", "sensitive", "mutating",
                  "persistence_location", "topgent_owned"}]
CatalogueLoads ==
  /\ F!Loads({Entry(c) : c \in Codes}, Codes)
  /\ \A e \in PerItem : F!WellFormedPerItem(e, Fields)
  /\ F!SignalsLoad(OffensiveTools, SuspiciousPorts, Persistence, DOMAIN HostFlags)

(* items_of: what a condition may read of one item.                        *)
EndpointItem(k, e) ==
  [name \in Fields.endpoints |->
     CASE name = "port" -> k.port
       [] name \in {"listening", "outbound"} -> Bit(k.direction = name)
       [] name \in Sighting -> Bit(name \in e.sightings)
       [] OTHER -> Bit(name \in HostFlags[k.host])]

ResourceItem(p, r) ==
  [observed |-> Bit(r.observed = "yes"), declared |-> Bit(r.declared = "yes"),
   reachable |-> Bit(r.reachable = "yes"), sensitive |-> Bit(r.sensitive),
   mutating |-> Bit(r.access \in Mutating), persistence_location |-> Bit(p \in Persistence),
   topgent_owned |-> Bit(p \in OwnFiles)]

Items(a, of) ==
  CASE of = "endpoints" -> {[about |-> k, reading |-> EndpointItem(k, a.endpoints[k])] : k \in DOMAIN a.endpoints}
    [] of = "children" -> {[about |-> c, reading |-> [offensive_tool |-> Bit(c[2][1] \in OffensiveTools)]] : c \in a.children}
    [] of = "resources" -> {[about |-> p, reading |-> ResourceItem(p, a.resources[p])] : p \in DOMAIN a.resources}

(* What a factor is about is named by what kind of thing it is.            *)
Factor(code, points, about, n) == [code |-> code, points |-> points, about |-> about, n |-> n]

(* per_item_factors: at the weight itself, whoever's identity it is; a     *)
(* tool only once.                                                         *)
PerItemFactors(a) ==
  UNION {LET matched == SetToSeq({i \in Items(a, e.of) : F!Holds(e.where, i.reading)})
             last == IF e.of = "children" THEN 1 ELSE Len(matched)
         IN {Factor(e.code, Weight[e.code], <<e.of, matched[n].about>>, n) :
               n \in {m \in 1..last : m <= Len(matched)}} : e \in PerItem}

(* resource_matches_rule: what a rule of the operator's asks of a resource. *)
Matches(r, rule) ==
  CASE rule.condition = "reachable" -> r.reachable = "yes"
    [] rule.condition = "observed" -> r.observed = "yes"
    [] rule.condition = "write" -> r.access \in Mutating /\ "yes" \in {r.declared, r.observed}

MatchedRules(a) ==
  {rule \in Watchlist : rule.path \in DOMAIN a.resources /\ Matches(a.resources[rule.path], rule)}

WatchlistFactors(a) == {Factor("WATCHLIST", r.points, <<r.condition, r.path>>, 1) : r \in MatchedRules(a)}

(* disallowed_asset_factors: what the agent uses, and what it is.          *)
DisallowedFactors(id) ==
  LET a == Agents[id]
      used == {r \in Relationships(id, [i \in {id} |-> a]) : r.disposition = "disallowed"}
      self == IF Disposition(AgentAsset(a), FamilyOf(a)) = "disallowed" THEN {AgentAsset(a)} ELSE {}
  IN {Factor("DISALLOWED_ASSET", Weight["DISALLOWED_ASSET"], <<r.kind, r.to>>, 1) : r \in used}
     \cup {Factor("DISALLOWED_ASSET", Weight["DISALLOWED_ASSET"], <<"self", s>>, 1) : s \in self}

(* sandbox_factor: confinement that was declared against what was done.    *)
SandboxFactors(a) ==
  IF IsSandboxed(a) /\ (Drift(a) # {} \/ Outbound(a) # {})
  THEN {Factor("SANDBOX_ESCAPE", 100, <<"agent", "sandbox">>, 1)} ELSE {}

(* The factors of the agent as a whole, scaled by whose identity it has,   *)
(* but for scanning and a process tree, which count the same for everybody.*)
AgentFactors(a) ==
  LET reading == Signals(a)
      fired == {c \in DOMAIN When : F!Holds(When[c], reading)}
      scaled(points) == (points * Multiplier[Identity(a)]) \div 100
      secrets == SetToSeq(LatentSecrets(a))
  IN {Factor(c, IF c \in {"RECON_FANOUT", "PROCESS_EXPLOSION"} THEN Weight[c] ELSE scaled(Weight[c]), <<"agent", c>>, 1) :
        c \in fired \ {"SECRET_REACHABLE"}}
     \cup {Factor("SECRET_REACHABLE",
                  scaled(IF n = 1 THEN Weight["SECRET_REACHABLE"] ELSE Weight["FURTHER_SECRET"]),
                  <<"secret", secrets[n]>>, n) : n \in DOMAIN secrets}

Earned(id) ==
  LET a == Agents[id]
  IN AgentFactors(a) \cup WatchlistFactors(a) \cup PerItemFactors(a)
     \cup DisallowedFactors(id) \cup SandboxFactors(a)

(* apply_ceilings: the only factor that recurs under a ceiling is a secret *)
(* in reach; past it the occurrences are kept, and worth nothing.          *)
Sum(factors) == FoldSet(LAMBDA f, sum : sum + f.points, 0, factors)
LesserOf(a, b) == IF a <= b THEN a ELSE b
Trimmed(factors) ==
  LET before(f) == {g \in factors : g.code = f.code
                      /\ (g.points > f.points \/ (g.points = f.points /\ g.n < f.n))}
      room(f) == IF Sum(before(f)) >= SecretCeiling THEN 0 ELSE SecretCeiling - Sum(before(f))
  IN {IF f.code = "SECRET_REACHABLE" THEN [f EXCEPT !.points = LesserOf(@, room(f))] ELSE f : f \in factors}

Grade(score) ==
  CASE score >= 80 -> "critical" [] score \in 60..79 -> "high" [] score \in 35..59 -> "medium"
    [] OTHER -> "low"

Judged(a, factors) ==
  LET score == LesserOf(Sum(factors), MaxScore)
  IN [score |-> score, factors |-> factors,
      grade |-> IF a.unevaluated = {} THEN Grade(score) ELSE "not_evaluated"]

(* assess_with: pure, and without a clock.                                 *)
Risk(id) == Judged(Agents[id], Trimmed(Earned(id)))

(* Exception::validate: a decision is dated, of a factor there is, and of  *)
(* no longer than the longest window.                                      *)
Validated(x) ==
  /\ x.factor \in DOMAIN Weight
  /\ x.expires > x.created /\ x.expires - x.created <= MaxWindow

Active(x) == asOf >= x.created /\ asOf < x.expires

Covers(x, f, a) ==
  /\ x.factor = f.code
  /\ x.family \in {Nothing, a.family}
  /\ x.target \in {Nothing, f.about}

Accepted(id) ==
  {f \in Risk(id).factors :
     \E n \in DOMAIN Exceptions : Active(Exceptions[n]) /\ Covers(Exceptions[n], f, Agents[id])}

(* apply_exceptions: the score is of what is left.                         *)
Residual(id) ==
  IF Exceptions = <<>> THEN Risk(id)
  ELSE Judged(Agents[id], Risk(id).factors \ Accepted(id))

(* remediations: what is taken off by each remedy, worst first.            *)
Remedies(risk) ==
  [c \in {f.code : f \in risk.factors} |-> Sum({f \in risk.factors : f.code = c})]

-----------------------------------------------------------------------------
AInit == Init /\ asOf = 0
AFold == Next /\ UNCHANGED asOf
(* The same evidence is scored again, of a later instant or an earlier.    *)
Rescore == Done /\ asOf' \in 0..MaxInstant \ {asOf} /\ UNCHANGED vars
ANext == AFold \/ Rescore
avars == <<vars, asOf>>
ASpec == AInit /\ [][ANext]_avars

-----------------------------------------------------------------------------
(* assess.rs, grade.rs: an agent that is seen to do more never looks safer:*)
(* no fact about behaviour that is folded lowers a score.                  *)
Behaviour == {"file_touched", "socket_open", "socket_closed", "connection_attempt",
              "traffic_observed", "child_process_seen", "invokes_agent"}
MoreIsNeverLess ==
  \A f \in pending : f \in pending \ pending' /\ f.kind \in Behaviour =>
    \A id \in DOMAIN builders : Risk(id)'.score >= Risk(id).score

(* assess.rs:245-257: what is accepted is out of the score for as long as  *)
(* the exception runs and no longer, is named beside it, and does not make *)
(* an agent evaluated that nobody could examine.                           *)
AcceptedIsTraced ==
  Done => \A id \in DOMAIN builders :
    LET covered == {f \in Risk(id).factors : \E n \in DOMAIN Exceptions :
                      /\ Exceptions[n].created <= asOf /\ asOf < Exceptions[n].expires
                      /\ Covers(Exceptions[n], f, Agents[id])}
    IN /\ Residual(id).factors = Risk(id).factors \ covered
       /\ Residual(id).score = LesserOf(Sum(Risk(id).factors \ covered), MaxScore)
       /\ (Residual(id).grade = "not_evaluated") = (Agents[id].unevaluated # {})

(* assess.rs:315-325, remediation.rs: a property of the machine does not   *)
(* dominate the score of an agent, no occurrence is dropped for it, and    *)
(* the remedies of an agent add up to what is held against it.             *)
CeilingKeepsFindings ==
  Done => \A id \in DOMAIN builders :
    LET secrets == {f \in Risk(id).factors : f.code = "SECRET_REACHABLE"}
        remedies == Remedies(Risk(id))
    IN /\ Sum(secrets) <= SecretCeiling
       /\ {f.about[2] : f \in secrets} = LatentSecrets(Agents[id])
       /\ FoldSet(LAMBDA c, sum : sum + remedies[c], 0, DOMAIN remedies) >= Risk(id).score

(* The linter is asked once, where there is nothing else to look at.       *)
LintIsSound == stream = {} => F!LintIsSound
=============================================================================
