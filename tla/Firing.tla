------------------------------- MODULE Firing --------------------------------
(***************************************************************************)
(* The conditions of the risk catalogue: Firing over the signals of an     *)
(* agent (firing.rs) and ItemCondition over one of its endpoints, children *)
(* or resources (item.rs) are the same small tree over a reading, a        *)
(* function from names to numbers in which a flag that holds reads one.    *)
(* What the linter says of a condition (lint.rs) is in terms of the tree.  *)
(* At the end, what two policies say of one agent is compared.             *)
(***************************************************************************)
EXTENDS Naturals, FiniteSets

Is(name) == [op |-> "is", name |-> name]
AtLeast(name, amount) == [op |-> "at_least", name |-> name, amount |-> amount]
Below(name, amount) == [op |-> "below", name |-> name, amount |-> amount]
InList(name, list) == [op |-> "in_list", name |-> name, list |-> list]
All(branches) == [op |-> "all", branches |-> branches]
Any(branches) == [op |-> "any", branches |-> branches]
Not(inner) == [op |-> "not", branches |-> {inner}]

Leaf(c) == c.op \in {"is", "at_least", "below", "in_list"}
Branches(c) == IF Leaf(c) THEN {} ELSE c.branches

(* A condition with what is below it, down to the depth a catalogue uses.  *)
Tree(c) ==
  LET below(cs) == cs \cup UNION {Branches(d) : d \in cs}
  IN below(below(below({c})))

(* Whether a reading of a leaf meets it.                                   *)
Meets(c, reading) ==
  LET n == reading[c.name]
  IN CASE c.op = "is" -> n > 0
       [] c.op = "at_least" -> n >= c.amount
       [] c.op = "below" -> n < c.amount
       [] c.op = "in_list" -> n \in c.list

(* holds(): the operators are closed and every one of them terminates.     *)
Holds(cond, reading) ==
  LET h[c \in Tree(cond)] ==
        CASE Leaf(c) -> Meets(c, reading)
          [] c.op = "all" -> \A b \in c.branches : h[b]
          [] c.op = "any" -> \E b \in c.branches : h[b]
          [] c.op = "not" -> \A b \in c.branches : ~h[b]
  IN h[cond]

(* signals() and flags(): the names a condition reads.                     *)
Reads(cond) == {c.name : c \in {d \in Tree(cond) : Leaf(d)}}

(* fields_exist_on: a condition on a field the item does not carry is a    *)
(* mistake of the catalogue and refused when it is loaded.                 *)
FieldsExist(cond, fields) == Reads(cond) \subseteq fields

(* is_satisfiable: the shapes that are always false.                       *)
Satisfiable(cond, flags) ==
  LET s[c \in Tree(cond)] ==
        CASE c.op = "any" -> \E b \in c.branches : s[b]
          [] c.op = "all" -> \A b \in c.branches : s[b]
          [] c.op \in {"not", "is", "in_list"} -> TRUE
          [] c.op = "at_least" -> c.name \notin flags \/ c.amount <= 1
          [] c.op = "below" -> c.amount > 0 /\ (c.name \notin flags \/ c.amount <= 2)
  IN s[cond]

-----------------------------------------------------------------------------
(* A factor of the catalogue, as far as it decides anything.               *)
Maturity == {"sandbox", "experimental", "incubating", "stable", "deprecated"}
OnByDefault(maturity) == maturity = "stable"

(* A placeholder of a title, and which of them an item of a kind carries.  *)
Placeholders ==
  [endpoints |-> {"host", "port"}, children |-> {"name", "pid", "depth"}, resources |-> {"path"}]

(* PerItem::validate: a condition reads only what its item carries, and a  *)
(* title renders something.                                                *)
WellFormedPerItem(e, fields) ==
  /\ FieldsExist(e.where, fields[e.of])
  /\ e.title # {} /\ e.title \subseteq Placeholders[e.of] \cup {"words"}

(* parse_and_validate: a catalogue that is loaded describes every factor   *)
(* the scorer knows, once, worth something, and in exactly one way.        *)
WellFormed(entry) ==
  /\ entry.points > 0
  /\ entry.subsequent # 0
  /\ entry.ceiling # 0 => entry.ceiling >= entry.points /\ entry.recurs
  /\ entry.ways = 1

Loads(entries, codes) ==
  /\ \A e \in entries : e.code \in codes /\ WellFormed(e)
  /\ {e.code : e \in entries} = codes
  /\ Cardinality(entries) = Cardinality(codes)

(* signals.rs, parse_and_validate: an entry that could match nothing is a  *)
(* mistake of the file, and so is a list without entries.                  *)
SignalsLoad(tools, ports, persistence, hosts) ==
  /\ {} \notin {tools, ports, persistence, hosts}
  /\ 0 \notin ports

(* fires_with: a factor below stable has to be asked for.                  *)
Fires(entry, reading, also) ==
  /\ OnByDefault(entry.maturity) \/ entry.maturity \in also
  /\ Holds(entry.when, reading)

(* lint(): what is said of a factor of a loaded catalogue.                 *)
Warnings(entry, flags, working) ==
  {w \in {"unsatisfiable", "not_on_by_default", "deprecated", "unproven", "sensor_unavailable"} :
     CASE w = "unsatisfiable" -> ~Satisfiable(entry.when, flags)
       [] w = "not_on_by_default" -> ~OnByDefault(entry.maturity)
       [] w = "deprecated" -> entry.maturity = "deprecated"
       [] w = "unproven" -> entry.verification \in {"degraded", "unavailable"}
       [] w = "sensor_unavailable" -> entry.sensor \notin working}

-----------------------------------------------------------------------------
(* Conditions over one flag and one count, two levels deep, and what an    *)
(* agent may read.                                                         *)
Leaves(amounts) ==
  {Is("flag")} \cup UNION {{AtLeast(x, n), Below(x, n)} : x \in {"flag", "count"}, n \in amounts}
Conditions(amounts) ==
  LET some == {{}} \cup {{c, d} : c, d \in Leaves(amounts)}
  IN Leaves(amounts) \cup {Not(c) : c \in Leaves(amounts)}
       \cup {All(b) : b \in some} \cup {Any(b) : b \in some}
Readings == [flag : 0..1, count : 0..3]

(* firing.rs:366-372, lint.rs: what the linter says can never hold, holds  *)
(* for no agent; and a factor of one test that is silent for every agent   *)
(* is not silent in the linter.  (A flag below three or more is left out   *)
(* of the amounts: it always holds and the linter says that it cannot.)    *)
LintIsSound ==
  /\ \A c \in Conditions(0..2), r \in Readings : Holds(c, r) => Satisfiable(c, {"flag"})
  /\ \A c \in Leaves(0..3), m \in Maturity :
       LET entry == [when |-> c, maturity |-> m, sensor |-> "s", verification |-> "proven"]
       IN (\A r \in Readings : ~Fires(entry, r, {})) =>
            Warnings(entry, {"flag"}, {"s"}) \cap {"unsatisfiable", "not_on_by_default"} # {}

-----------------------------------------------------------------------------
(* Replay of one bundle under two policies (simulate of                    *)
(* topgent-report/src/scan.rs, topgent-cli/src/commands/replay.rs): what a *)
(* candidate would have decided differently, from evidence that is kept.   *)
(* A side is what one policy says of one agent, and `before` and `after`   *)
(* give the side of every agent.                                           *)
Side(residual, accepted) == [risk |-> residual, suppressed |-> accepted]

(* A factor is known by its code and what its title is about.              *)
Titles(factors) == {<<f.code, f.about>> : f \in factors}
Names(side) == Titles(side.risk.factors)

Started(was, is) == Names(is) \ Names(was)

(* An agent of which all this is the same is not mentioned.                *)
Unchanged(was, is) ==
  /\ Started(was, is) = {} /\ Started(is, was) = {}
  /\ was.risk.score = is.risk.score /\ was.risk.grade = is.risk.grade
  /\ Cardinality(was.suppressed) = Cardinality(is.suppressed)

Changed(before, after) == {id \in DOMAIN before : ~Unchanged(before[id], after[id])}

(* replay_command: the exceptions of a candidate are looked at before it   *)
(* is tried.                                                               *)
ExitCode(usable, before, after) ==
  IF ~usable THEN 2 ELSE IF Changed(before, after) # {} THEN 1 ELSE 0

(* scan.rs:530-540: a difference is the policy's and nothing else's. An    *)
(* agent that both policies judge alike is not mentioned; all that starts  *)
(* is earned under the candidate and was not under the policy in force, or *)
(* was accepted there; and an exit code that says nothing changed means    *)
(* that the same findings stand of every agent at the same score.          *)
(* `wasEarned` and `isEarned` are what is earned before anything is        *)
(* accepted.                                                               *)
DifferenceIsThePolicys(usable, before, after, wasEarned, isEarned) ==
  /\ \A id \in DOMAIN before :
        LET new == Started(before[id], after[id])
        IN  /\ (wasEarned[id] = isEarned[id] /\ before[id].suppressed = after[id].suppressed)
                 => id \notin Changed(before, after)
            /\ new \cap Titles(wasEarned[id].factors) \subseteq Titles(before[id].suppressed)
            /\ new \subseteq Titles(isEarned[id].factors)
  /\ ExitCode(usable, before, after) = 0 =>
        \A id \in DOMAIN before : /\ Names(before[id]) = Names(after[id])
                                  /\ before[id].risk.score = after[id].risk.score
=============================================================================
