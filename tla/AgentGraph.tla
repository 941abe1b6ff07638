----------------------------- MODULE AgentGraph ------------------------------
(***************************************************************************)
(* fold_with_home of graph.rs: a stream of facts becomes the agents of a   *)
(* report.  The loop over the stream is one action for each way a fact is  *)
(* taken, so that the order in which collectors deliver is left open; what *)
(* an agent looks like is Finished of the facts folded so far.             *)
(***************************************************************************)
EXTENDS Naturals, FiniteSets, Functions, FiniteSetsExt

CONSTANTS
  Universe,    \* the facts the collectors may deliver
  MaxFacts,    \* bound on the length of a stream
  NoProcess,   \* the subject of a fact about a bare path or endpoint
  Nothing,     \* None
  Decisions,   \* the asset decisions of the policy: [asset, family, disposition]
  Installed,   \* what the manifests on disk name: [kind, name, at]
  Late(_, _)   \* Late(f, g): f is delivered after g by the collectors' order

VARIABLES
  stream,      \* every fact of the sweep: the first pass reads all of it
  pending,     \* facts the second pass has not reached
  builders,    \* the working state of each agent
  rejected     \* facts that were refused, with the reason

vars == <<stream, pending, builders, rejected>>

Tri == {"yes", "no", "unknown"}
Access == {"read", "write", "read_write", "execute"}
Mutating == {"write", "read_write", "execute"}
Sighting == {"held", "attempted", "closed", "captured"}

(* An address of an endpoint: the protocol is part of it.                  *)
EndpointKey(protocol, host, port, direction) ==
  [protocol |-> protocol, host |-> host, port |-> port, direction |-> direction]

NewEndpoint == [opened |-> Nothing, bytes |-> Nothing, packets |-> Nothing, sightings |-> {}]

(* Every column starts unknown: not looked is not the same as not so.      *)
NewResource ==
  [declared |-> "unknown", observed |-> "unknown", reachable |-> "unknown",
   evidence |-> Nothing, sensitive |-> FALSE, access |-> Nothing, probes |-> {}]

NewBuilder ==
  [family |-> Nothing, extensions |-> {}, exe |-> Nothing, uid |-> Nothing, model |-> Nothing,
   parent |-> Nothing, children |-> {}, connectors |-> {}, endpoints |-> <<>>,
   resources |-> <<>>, invokes |-> {}, actions |-> {}, unevaluated |-> {},
   best |-> 0, weakest |-> <<>>, configured |-> FALSE, facts |-> 0]

With(f, k, v) == [x \in DOMAIN f \cup {k} |-> IF x = k THEN v ELSE f[x]]
At(f, k, new) == IF k \in DOMAIN f THEN f[k] ELSE new

-----------------------------------------------------------------------------
(* The first pass: an agent was seen running and was given a name.         *)
Anchored ==
  LET about(kinds) == {f.subject : f \in {g \in stream : g.kind \in kinds}}
  IN (about({"process_seen"}) \cap about({"agent_family", "editor_extension_active"}))
       \ {NoProcess}

(* The tilde form of a path below the home directory wins.                 *)
ResourceKey(path) == IF path[1] = "home" THEN <<"tilde", path[2]>> ELSE path

(* Mutant: the last access that was told of stands.                        *)
WidenedLast(old, access) == access

(* Execute outranks everything; two different accesses are both.           *)
Widened(old, access) ==
  CASE old = Nothing -> access
    [] "execute" \in {old, access} -> "execute"
    [] old = access -> old
    [] OTHER -> "read_write"

(* Mutant: the creation that was told last stands.                         *)
LatestTold(a, b) == IF b = Nothing THEN a ELSE b

EarlierOf(a, b) == IF a = Nothing THEN b ELSE IF b = Nothing \/ a <= b THEN a ELSE b
LargerOf(a, b) == IF a = Nothing THEN b ELSE IF b = Nothing \/ a >= b THEN a ELSE b

(* note_sighting: a destination named without a protocol joins one that is *)
(* already known with one.                                                 *)
SightingKey(endpoints, f) ==
  LET own == EndpointKey(f.protocol, f.host, f.port, f.direction)
      stated == {k \in DOMAIN endpoints : k.protocol # "unstated" /\ [k EXCEPT !.protocol = f.protocol] = own}
  IN IF f.protocol = "unstated" /\ stated # {} THEN CHOOSE k \in stated : TRUE ELSE own

Sighted(endpoints, f, seen) ==
  LET k == SightingKey(endpoints, f)
      e == At(endpoints, k, NewEndpoint)
  IN With(endpoints, k,
          [e EXCEPT !.sightings = @ \cup {seen},
                    !.packets = IF seen = "captured"
                                THEN (IF @ = Nothing THEN 0 ELSE @) + f.packets ELSE @])

(* A live socket keeps the earliest creation and the largest counter any   *)
(* collector reported for it.                                              *)
Held(endpoints, f) ==
  LET k == EndpointKey(f.protocol, f.host, f.port, f.direction)
      e == At(endpoints, k, NewEndpoint)
  IN With(endpoints, k, [e EXCEPT !.sightings = @ \cup {"held"},
                                  !.opened = EarlierOf(@, f.opened),
                                  !.bytes = LargerOf(@, f.bytes)])

(* Only the kernel's own answer closes the column.                         *)
Reached(r, f) ==
  LET readable == f.evidence = "account_readable"
  IN [r EXCEPT !.reachable = IF readable THEN "yes" ELSE @,
               !.access = IF readable THEN Widened(@, f.access) ELSE @,
               !.evidence = IF @ = "account_readable" THEN @ ELSE f.evidence,
               !.sensitive = @ \/ f.sensitive]

Touched(r, f) == [r EXCEPT !.observed = "yes", !.access = Widened(@, f.access)]

Declared(r, f) ==
  [r EXCEPT !.declared = IF f.granted THEN "yes" ELSE "no",
            !.access = IF f.granted THEN Widened(@, f.access) ELSE @]

OnResource(b, f, Change(_, _)) ==
  LET k == ResourceKey(f.path)
      r == At(b.resources, k, NewResource)
  IN [b EXCEPT !.resources = With(@, k, [Change(r, f) EXCEPT !.probes = @ \cup {f.probe}])]

Replaced(pairs, k, v) == {p \in pairs : p[1] # k} \cup {<<k, v>>}

(* What a claim changes, one case for each arm of apply().                 *)
Apply(b, f) ==
  CASE f.kind = "process_seen" -> [b EXCEPT !.exe = <<f.exe, f.path_known>>,
                                              !.uid = IF f.uid = 0 THEN Nothing ELSE f.uid]
    [] f.kind = "process_parent" -> [b EXCEPT !.parent = f.parent]
    [] f.kind = "child_process_seen" -> [b EXCEPT !.children = Replaced(@, f.pid, <<f.name, f.depth>>)]
    [] f.kind = "socket_open" -> [b EXCEPT !.endpoints = Held(@, f)]
    [] f.kind = "socket_closed" -> [b EXCEPT !.endpoints = Sighted(@, f, "closed")]
    [] f.kind = "connection_attempt" -> [b EXCEPT !.endpoints = Sighted(@, f, "attempted")]
    [] f.kind = "traffic_observed" -> [b EXCEPT !.endpoints = Sighted(@, f, "captured")]
    [] f.kind = "dns_query_observed" -> b
    [] f.kind = "file_touched" -> OnResource(b, f, Touched)
    [] f.kind = "permission_declared" -> [OnResource(b, f, Declared) EXCEPT !.configured = TRUE]
    [] f.kind = "resource_reachable" -> OnResource(b, f, Reached)
    [] f.kind = "agent_family" -> [b EXCEPT !.family = f.family]
    [] f.kind = "editor_extension_active" -> [b EXCEPT !.extensions = Replaced(@, f.extension, f.family)]
    [] f.kind = "model_in_use" -> [b EXCEPT !.model = <<f.provider, f.model>>]
    [] f.kind = "connector_declared" -> [b EXCEPT !.connectors = Replaced(@, f.name, f.access)]
    [] f.kind = "invokes_agent" -> [b EXCEPT !.invokes = Replaced(@, f.target, f.via)]
    [] f.kind = "action_taken" -> [b EXCEPT !.actions = @ \cup {f}]
    [] f.kind = "subject_not_evaluated" -> [b EXCEPT !.unevaluated = @ \cup {f.reason}]

(* The best confidence says whether it is an agent; the weakest of a kind  *)
(* of evidence is what a finding of that kind may claim.                   *)
Counted(b, f) ==
  [b EXCEPT !.facts = @ + 1,
            !.best = IF @ >= f.confidence THEN @ ELSE f.confidence,
            !.weakest = With(@, f.kind, LET c == At(@, f.kind, f.confidence)
                                        IN IF f.confidence < c THEN f.confidence ELSE c)]

-----------------------------------------------------------------------------
Init ==
  /\ stream \in UNION {kSubset(k, Universe) : k \in 0..MaxFacts}
  /\ pending = stream
  /\ builders = <<>>
  /\ rejected = {}

Reachable(f) == f \in pending /\ \A g \in pending : ~Late(f, g)

Reject(f, reason) ==
  /\ Reachable(f)
  /\ rejected' = rejected \cup {[reason |-> reason, kind |-> f.kind, subject |-> f.subject, fact |-> f]}
  /\ pending' = pending \ {f}
  /\ UNCHANGED <<stream, builders>>

RejectSubject(f) == f.subject = NoProcess /\ Reject(f, "unanchored_subject")
RejectIdentity(f) ==
  f.subject # NoProcess /\ f.subject \notin Anchored /\ Reject(f, "unanchored_identity")

Take(f) ==
  /\ Reachable(f)
  /\ f.subject \in Anchored
  /\ builders' = With(builders, f.subject, Apply(Counted(At(builders, f.subject, NewBuilder), f), f))
  /\ pending' = pending \ {f}
  /\ UNCHANGED <<stream, rejected>>

Next == \E f \in pending : RejectSubject(f) \/ RejectIdentity(f) \/ Take(f)

Spec == Init /\ [][Next]_vars

-----------------------------------------------------------------------------
(* finish(): a configuration that was read closes the columns it does not  *)
(* mention, and says whose authority the agent has.                        *)
Closed(tri, b) == IF tri = "unknown" /\ b.configured THEN "no" ELSE tri

Identity(b) ==
  CASE b.uid = Nothing -> "unknown"
    [] b.uid # Nothing /\ b.configured -> "delegated_human"
    [] OTHER -> "service_account"

Finished(b) ==
  [b EXCEPT !.resources =
     [p \in DOMAIN b.resources |->
        [b.resources[p] EXCEPT !.declared = Closed(@, b), !.observed = Closed(@, b)]]]

Agents == [id \in DOMAIN builders |-> Finished(builders[id])]

(* What the rest of the program asks of an agent.                          *)
IsDrift(r) == r.declared = "no" /\ r.observed = "yes"
IsLatentSecret(r) == r.sensitive /\ r.reachable = "yes" /\ r.observed # "yes"
Drift(a) == {p \in DOMAIN a.resources : IsDrift(a.resources[p])}
LatentSecrets(a) == {p \in DOMAIN a.resources : IsLatentSecret(a.resources[p])}
ConfidenceFor(a, kind) == At(a.weakest, kind, 1)
Outbound(a) == {k \in DOMAIN a.endpoints : k.direction = "outbound"}
DistinctHosts(a) == Cardinality({k.host : k \in Outbound(a)})
PortsTo(a, host) == {k.port : k \in {e \in Outbound(a) : e.host = host}}
MaxPortsToOneHost(a) == Max({0} \cup {Cardinality(PortsTo(a, k.host)) : k \in Outbound(a)})
CanExecute(a) ==
  \/ \E p \in DOMAIN a.resources : a.resources[p].access = "execute" /\ a.resources[p].declared = "yes"
  \/ \E c \in a.connectors : c[2] = "execute"
IsSandboxed(a) == <<"other", "<sandbox>">> \in DOMAIN a.resources
CanWriteBroadly(a) ==
  \E p \in DOMAIN a.resources :
    /\ a.resources[p].declared = "yes" /\ a.resources[p].access \in Mutating
    /\ p[2] = "**"
ByPid(pid) ==
  LET hits == {id \in DOMAIN builders : id[1] = pid}
  IN IF Cardinality(hits) = 1 THEN CHOOSE id \in hits : TRUE ELSE Nothing

-----------------------------------------------------------------------------
(*                              Properties                                 *)

About(id) == {f \in stream : f.subject = id}
Done == pending = {}
Of(fs, kinds) == {f \in fs : f.kind \in kinds}
Where(fs) == {EndpointKey(f.protocol, f.host, f.port, f.direction) : f \in fs}

(* What one agent's endpoints should be, read off the set of its facts.    *)
Stated(fs) == Where({f \in Of(fs, {"socket_open", "traffic_observed"}) : f.protocol # "unstated"})
Unjoined(fs) ==
  {k \in Where(Of(fs, {"socket_closed", "connection_attempt"})) :
     \A s \in Stated(fs) : [s EXCEPT !.protocol = "unstated"] # k}

(* graph.rs:640-645: whatever the order, the sockets and the traffic of an *)
(* agent are there once each, with the earliest creation, the largest      *)
(* counter and the sum of the packets; nothing is there that no fact names.*)
SocketsAsTold ==
  Done => \A id \in Anchored :
    LET fs == About(id)
        a == Agents[id]
        at(k) == {f \in Of(fs, {"socket_open", "traffic_observed"}) : Where({f}) = {k}}
    IN /\ Stated(fs) \subseteq DOMAIN a.endpoints
       /\ \A k \in Stated(fs) :
            LET e == a.endpoints[k]
                opens == {f.opened : f \in Of(at(k), {"socket_open"})} \ {Nothing}
            IN /\ e.opened = IF opens = {} THEN Nothing ELSE Min(opens)
               /\ LET carried == Of(at(k), {"traffic_observed"})
                  IN e.packets = IF carried = {} THEN Nothing
                                 ELSE FoldSet(LAMBDA f, sum : sum + f.packets, 0, carried)
               /\ ("held" \in e.sightings) = (Of(at(k), {"socket_open"}) # {})

(* graph.rs:421-424: one destination is one endpoint, whichever record of  *)
(* it came first.                                                          *)
OneEndpointPerDestination ==
  Done => \A id \in Anchored : DOMAIN Agents[id].endpoints = Stated(About(id)) \cup Unjoined(About(id))

(* graph.rs:567-568, 938-941: no column says no, or yes, that was not      *)
(* established: no only below a configuration that was read, reachable     *)
(* only from the kernel's own answer, a credential that was opened is not  *)
(* one that nothing has touched, under either of its names.                *)
NeverReassures ==
  Done => \A id \in Anchored : \A p \in DOMAIN Agents[id].resources :
    LET r == Agents[id].resources[p]
        of(kinds) == {f \in Of(About(id), kinds) : ResourceKey(f.path) = p}
        config == Of(About(id), {"permission_declared"})
    IN /\ "no" \in {r.declared, r.observed} => config # {}
       /\ (r.observed = "yes") = (of({"file_touched"}) # {})
       /\ (r.reachable = "yes") =
            (\E f \in of({"resource_reachable"}) : f.evidence = "account_readable")
       /\ IsLatentSecret(r) => of({"file_touched"}) = {}

(* graph.rs:708-727: an agent is a process that was seen and named, and    *)
(* nothing of the stream disappears: each fact counts for its agent or is  *)
(* refused by name.                                                        *)
NothingDisappears ==
  Done =>
    /\ DOMAIN builders = Anchored
    /\ \A id \in Anchored : builders[id].facts = Cardinality(About(id))
    /\ {r.fact : r \in rejected} = {f \in stream : f.subject \notin Anchored}

(* The weakest confidence of a kind is one a fact of that kind had.        *)
ConfidenceIsTheWeakest ==
  \A id \in DOMAIN builders : \A k \in DOMAIN builders[id].weakest :
    LET had == {f.confidence : f \in Of(About(id) \ pending, {k})}
    IN builders[id].weakest[k] = Min(had)

-----------------------------------------------------------------------------
(* inventory.rs: the assets of a report and how agents are related to      *)
(* them, derived from the agents of the graph and from what is installed,  *)
(* and the operator's decision about each asset (Policy of the policy      *)
(* crate).  An asset is identified by its kind and its name.               *)

(* asset_disposition: a decision for this family outranks one for all.     *)
Disposition(asset, family) ==
  LET for(f) == {d \in Decisions : d.asset = asset /\ d.family = f}
      own == IF family = Nothing THEN {} ELSE for(family)
  IN CASE own # {} -> (CHOOSE d \in own : TRUE).disposition
       [] own = {} /\ for(Nothing) # {} -> (CHOOSE d \in for(Nothing) : TRUE).disposition
       [] OTHER -> "unreviewed"

FamilyOf(a) == IF a.family = Nothing THEN "unclassified" ELSE a.family

(* Two processes of one family and one account are one agent asset.        *)
AgentAsset(a) == <<"agent", FamilyOf(a), a.uid>>

(* agent_ids of build() has one entry for each pid: of agents that share   *)
(* one, the one that started last.                                         *)
LastOn(agents, pid) ==
  CHOOSE i \in DOMAIN agents : i[1] = pid /\ \A j \in DOMAIN agents : j[1] = pid => j[2] <= i[2]
AssetAt(agents, pid) == AgentAsset(agents[LastOn(agents, pid)])

Asset(id, confidence) ==
  [id |-> id, confidence |-> confidence, installed |-> FALSE, active |-> TRUE, seen |-> Nothing]

(* insert_asset: evidence of one asset is joined, and a merge takes away   *)
(* neither that it is installed nor that it runs.                          *)
Merged(old, new) ==
  [old EXCEPT !.confidence = IF @ >= new.confidence THEN @ ELSE new.confidence,
              !.installed = @ \/ new.installed,
              !.active = @ \/ new.active,
              !.seen = EarlierOf(@, new.seen)]

Joined(assets, new) ==
  With(assets, new.id, IF new.id \in DOMAIN assets THEN Merged(assets[new.id], new) ELSE new)

(* What one agent declares, holds and starts, each with the relationship   *)
(* and the evidence it rests on.                                           *)
Related(a) ==
  LET link(id, kind, evidence, family) ==
        [to |-> id, kind |-> kind, confidence |-> ConfidenceFor(a, evidence), family |-> family]
      model == IF a.model = Nothing THEN {} ELSE {a.model}
  IN {link(<<"agent_extension", x[2], x[1]>>, "hosts_extension", "editor_extension_active", x[2]) : x \in a.extensions}
     \cup {link(<<"model", m[1], m[2]>>, "uses_model", "model_in_use", FamilyOf(a)) : m \in model}
     \cup {link(<<"connector", c[1]>>, "declares_connector", "connector_declared", FamilyOf(a)) : c \in a.connectors}
     \cup {link(<<"endpoint", k.host, k.port>>, "connects_to", "socket_open", FamilyOf(a)) : k \in DOMAIN a.endpoints}
     \cup {link(<<"tool", c[2][1]>>, "spawns_tool", "child_process_seen", FamilyOf(a)) : c \in a.children}

(* relate(): the relationships of one agent among those of the report.     *)
Relationships(id, agents) ==
  LET a == agents[id]
      edge(to, kind, family) ==
        [from |-> AssetAt(agents, id[1]), to |-> to, kind |-> kind, pid |-> id[1],
         family |-> family, disposition |-> Disposition(to, family)]
  IN {edge(r.to, r.kind, r.family) : r \in Related(a)}
     \cup {edge(AssetAt(agents, pid), "invokes", FamilyOf(a)) :
             pid \in {e[1] : e \in a.invokes} \cap {i[1] : i \in DOMAIN agents}}

(* build() and build_with_installed(): agents first, manifests after.      *)
Built(agents) ==
  LET own == {Asset(AssetAt(agents, i[1]), agents[i].best) : i \in DOMAIN agents}
      held == UNION {{Asset(r.to, r.confidence) : r \in Related(agents[i])} : i \in DOMAIN agents}
  IN FoldSet(LAMBDA new, assets : Joined(assets, new), <<>>, own \cup held)

WithInstalled(assets) ==
  FoldSet(LAMBDA m, all :
            Joined(all, [id |-> <<m.kind, m.name>>, confidence |-> 3, installed |-> TRUE,
                         active |-> FALSE, seen |-> m.at]),
          assets, Installed)

Relations(agents) == UNION {Relationships(i, agents) : i \in DOMAIN agents}

-----------------------------------------------------------------------------
(* inventory.rs:165-188, 295-420: every relationship is between assets of  *)
(* the report and starts at the agent that was the last on its pid; an     *)
(* asset that runs and is installed says both, is as sure as its best      *)
(* evidence, a former agent's of the pid included, and was seen as early   *)
(* as any; and what is only installed is not shown as running.             *)
InventoryHolds ==
  LET assets == WithInstalled(Built(Agents))
      last == {i \in DOMAIN Agents : ~\E j \in DOMAIN Agents : j[1] = i[1] /\ j[2] > i[2]}
      ran == UNION {{r.to : r \in Related(Agents[i])} : i \in DOMAIN Agents}
               \cup {AgentAsset(Agents[i]) : i \in last}
      manifests == {<<m.kind, m.name>> : m \in Installed}
  IN /\ \A r \in Relations(Agents) :
          /\ {r.from, r.to} \subseteq DOMAIN assets
          /\ \E i \in last : i[1] = r.pid /\ r.from = AgentAsset(Agents[i])
     /\ \A i \in last : \A j \in DOMAIN Agents :
          j[1] = i[1] => assets[AgentAsset(Agents[i])].confidence >= Agents[j].best
     /\ \A id \in DOMAIN assets :
          /\ assets[id].active = (id \in ran)
          /\ assets[id].installed = (id \in manifests)
          /\ id \in manifests =>
               assets[id].seen = Min({m.at : m \in {n \in Installed : <<n.kind, n.name>> = id}})
          /\ \A i \in DOMAIN Agents : \A r \in Related(Agents[i]) :
               r.to = id => assets[id].confidence >= r.confidence

(* VIOLATED where two agents share a pid (inventory.rs:298-306): by        *)
(* inventory.rs:124-125 running instances remain separately identified by  *)
(* pid and start time; of the one that started first there is no asset.    *)
EveryRunIsAnAsset ==
  \A i \in DOMAIN Agents : AgentAsset(Agents[i]) \in DOMAIN WithInstalled(Built(Agents))
=============================================================================
