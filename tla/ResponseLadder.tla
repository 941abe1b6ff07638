---------------------------- MODULE ResponseLadder ----------------------------
(***************************************************************************)
(* response_json of topgent-report for one run of an agent: every rule of  *)
(* the policy that was read is taken through the transition file and, for  *)
(* a kill, the approval file, and decide_response says what follows.  The  *)
(* operator answers prompts and edits the rules at any point of a sweep.   *)
(* Severity and condition stay with a rule and its path; retention is in   *)
(* ResponseTransition and Approval.                                        *)
(***************************************************************************)
EXTENDS Integers, Sequences, SequencesExt

CONSTANTS
  Path,       \* what the rules are about
  Hosts,      \* the machines considered
  TTL,        \* APPROVAL_TTL_MS in ticks
  MaxClock,   \* bound on the clock
  MaxPolicy,  \* bound on the rules of the policy
  MaxSweeps,  \* bound on the sweeps
  MaxEdits    \* bound on the edits of the policy

Machines ==
  [config : {"unreadable", "with", "without"}, status : {"unreadable", "admin", "user"},
   terminate : BOOLEAN]

LadderAssumption ==
  /\ Hosts \subseteq Machines
  /\ TTL \in Nat \ {0}
  /\ MaxClock \in Nat /\ MaxPolicy \in Nat /\ MaxSweeps \in Nat /\ MaxEdits \in Nat

VARIABLES
  clock,
  host,         \* what the machine allows
  rules,        \* the watchlist of policy.json
  touched,      \* the paths the agent's evidence meets
  transitions,  \* response-transitions.json: key -> whether it was active
  approvals,    \* approvals.json: scope -> the request
  sweep,        \* what the running sweep read, and when
  place,        \* the rule it is at
  decisions,    \* of the last or the running sweep
  alerts,       \* history: alerts recorded for a path
  rises,        \* history: how often the evidence began to meet a path
  answers,      \* history: the operator's answers
  reasked,      \* history: whether a path was put to the operator again
  shifted,      \* history: whether a rule was taken from the policy
  sweeps, edits

ladderVars == <<clock, host, rules, touched, transitions, approvals, sweep, place, decisions,
                alerts, rises, answers, reasked, shifted, sweeps, edits>>
files == <<transitions, approvals>>
ladderHistories == <<alerts, rises, answers, reasked, shifted>>

Response == {"observe", "alert", "approval", "block", "kill"}
Rule == [path : Path, response : Response]
NoSweep == [rules |-> <<>>, matched |-> {}, at |-> 0]

LadderInit ==
  /\ clock = 0 /\ host \in Hosts
  /\ rules = <<>> /\ touched = {}
  /\ transitions = << >> /\ approvals = << >>
  /\ sweep = NoSweep /\ place = 1 /\ decisions = {}
  /\ alerts = [p \in Path |-> 0] /\ rises = [p \in Path |-> 0]
  /\ answers = {} /\ reasked = FALSE /\ shifted = FALSE /\ sweeps = 0 /\ edits = 0

-----------------------------------------------------------------------------
(* linux_interception; the other systems are a host that is "without".     *)
Interception(h) ==
  CASE h.config = "without" -> "unsupported"
    [] h.config # "without" /\ h.status = "admin" -> "available"
    [] OTHER -> "privilege_required"

(* EnforcementCapability::local, probed by every sweep.                    *)
Capability ==
  [intercept |-> Interception(host) = "available", terminate |-> host.terminate]

(* Mutant: a request that nobody has answered is no obstacle.              *)
OutcomeHasty(response, capability, approval) ==
  CASE response = "observe" -> "observed"
    [] response = "alert" -> "alert"
    [] response = "block" -> IF capability.intercept THEN "blocked" ELSE "capability_mismatch"
    [] response = "kill" /\ approval \in {"none", "pending", "approved"} -> "terminate"
    [] OTHER -> "no_action"

(* decide_response.                                                        *)
Outcome(response, capability, approval) ==
  LET waiting == approval \in {"none", "pending"}
      yes == approval = "approved"
      able == IF response = "kill" THEN capability.terminate ELSE capability.intercept
  IN CASE response = "observe" -> "observed"
       [] response = "alert" -> "alert"
       [] response \in {"approval", "block", "kill"} /\ ~able -> "capability_mismatch"
       [] response \in {"approval", "kill"} /\ able /\ waiting -> "awaiting_approval"
       [] response = "approval" /\ able /\ yes -> "allowed"
       [] response = "kill" /\ able /\ yes -> "terminate"
       [] response = "kill" /\ able /\ ~waiting /\ ~yes -> "no_action"
       [] OTHER -> "blocked"

-----------------------------------------------------------------------------
(* Both names of a rule hold its place in the list.                        *)
KeyOf(n, rule) == <<n, rule.response, rule.path>>

Label(key, active) ==
  LET was == key \in DOMAIN transitions /\ transitions[key]
  IN IF active /\ ~was THEN "triggered" ELSE IF active THEN "suppressed" ELSE "inactive"

With(f, k, v) == [x \in DOMAIN f \cup {k} |-> IF x = k THEN v ELSE f[x]]

(* approval_records: what has run out by the sweep's clock is expired.     *)
StateOf(r, at) == IF r.state = "pending" /\ at >= r.expires THEN "expired" ELSE r.state

(* request_approval: a request that is there is returned as it is.         *)
Requested(key, at) ==
  IF key \in DOMAIN approvals THEN approvals[key] ELSE [state |-> "pending", expires |-> at + TTL]

(* report_from_sweep: the policy and the evidence are read once.           *)
BeginSweep ==
  /\ place > Len(sweep.rules) /\ sweeps < MaxSweeps
  /\ sweep' = [rules |-> rules, matched |-> touched, at |-> clock]
  /\ place' = 1 /\ decisions' = {} /\ sweeps' = sweeps + 1
  /\ UNCHANGED <<clock, host, rules, touched, files, ladderHistories, edits>>

(* One rule.  Each of the two files may be out of reach: the transition is *)
(* then unknown and the request is none.                                   *)
Decide ==
  /\ place <= Len(sweep.rules)
  /\ \E recorded, asked \in BOOLEAN :
       LET rule == sweep.rules[place]
           key == KeyOf(place, rule)
           active == rule.path \in sweep.matched
           label == IF recorded THEN Label(key, active) ELSE "unknown"
           wants == active /\ rule.response = "kill" /\ Capability.terminate
           request == Requested(key, sweep.at)
           state == IF wants /\ asked THEN StateOf(request, sweep.at) ELSE "none"
       IN /\ ~wants => asked
          /\ transitions' = IF recorded THEN With(transitions, key, active) ELSE transitions
          /\ approvals' = IF wants /\ asked
                            THEN With(approvals, key, [request EXCEPT !.state = state])
                            ELSE approvals
          /\ alerts' = IF rule.response = "alert" /\ label = "triggered"
                         THEN [alerts EXCEPT ![rule.path] = @ + 1] ELSE alerts
          /\ reasked' = (reasked \/ (state = "pending" /\ \E a \in answers : a.path = rule.path))
          /\ decisions' =
               IF ~active THEN decisions
               ELSE decisions \cup
                      {[path |-> rule.path, requested |-> rule.response, label |-> label,
                        outcome |-> Outcome(rule.response, Capability, state)]}
  /\ place' = place + 1
  /\ UNCHANGED <<clock, host, rules, touched, sweep, rises, answers, shifted, sweeps, edits>>

-----------------------------------------------------------------------------
(* resolve_approval at a prompt: pending and not run out.                  *)
Answer(key, yes) ==
  /\ StateOf(approvals[key], clock) = "pending"
  /\ approvals' = [approvals EXCEPT ![key].state = IF yes THEN "approved" ELSE "denied"]
  /\ answers' = answers \cup {[path |-> key[3], yes |-> yes]}
  /\ UNCHANGED <<clock, host, rules, touched, transitions, sweep, place, decisions, alerts, rises,
                 reasked, shifted, sweeps, edits>>

Edited(to) ==
  /\ edits < MaxEdits /\ edits' = edits + 1 /\ rules' = to
  /\ UNCHANGED <<clock, host, touched, files, sweep, place, decisions, alerts, rises, answers, reasked,
                 sweeps>>

(* Policy::add_rule: an equal rule goes, and the new one is the last.      *)
AddRule(p) ==
  LET equal == {n \in DOMAIN rules : rules[n].path = p}
      added == [path |-> p, response |-> "alert"]
  IN \/ /\ equal = {} /\ Len(rules) < MaxPolicy
        /\ Edited(Append(rules, added)) /\ UNCHANGED shifted
     \/ \E n \in equal : Edited(Append(RemoveAt(rules, n), added)) /\ shifted' = TRUE

TakeRule(n) == Edited(RemoveAt(rules, n)) /\ shifted' = TRUE

SetRuleResponse(n, r) ==
  Edited([rules EXCEPT ![n].response = r]) /\ rules[n].response # r /\ UNCHANGED shifted

(* The agent's evidence changes between sweeps.                            *)
Touch(p) ==
  /\ touched' = IF p \in touched THEN touched \ {p} ELSE touched \cup {p}
  /\ rises' = IF p \in touched THEN rises ELSE [rises EXCEPT ![p] = @ + 1]
  /\ rises'[p] <= MaxSweeps
  /\ place > Len(sweep.rules)
  /\ UNCHANGED <<clock, host, rules, files, sweep, place, decisions, alerts, answers, reasked, shifted,
                 sweeps, edits>>

ClockTick ==
  /\ clock < MaxClock /\ clock' = clock + 1
  /\ UNCHANGED <<host, rules, touched, files, sweep, place, decisions, ladderHistories, sweeps, edits>>

Person ==
  \/ \E key \in DOMAIN approvals, yes \in BOOLEAN : Answer(key, yes)
  \/ \E p \in Path : AddRule(p)
  \/ \E n \in DOMAIN rules : TakeRule(n) \/ \E r \in Response : SetRuleResponse(n, r)

LadderNext == BeginSweep \/ Decide \/ Person \/ (\E p \in Path : Touch(p)) \/ ClockTick
LadderSpec == LadderInit /\ [][LadderNext]_ladderVars

-----------------------------------------------------------------------------
(* response.rs:102-107 and ladder.rs:95-99: a termination is only ever     *)
(* proposed where the operator said yes to that path, a request that was   *)
(* answered is not put again, and nothing is said to be held open by a     *)
(* host that cannot; a path is announced at most once for each time the    *)
(* evidence began to meet it.  Answers and edges go with the rule's place, *)
(* so the second half is for a policy of which no rule was taken.          *)
LadderHolds ==
  /\ \A d \in decisions :
       /\ d.outcome = "terminate" => [path |-> d.path, yes |-> TRUE] \in answers
       /\ d.outcome \in {"blocked", "allowed"} => Interception(host) = "available"
  /\ ~shifted => ~reasked /\ \A p \in DOMAIN alerts : alerts[p] <= rises[p]
=============================================================================
