---------------------------- MODULE ProcessTable ----------------------------
(***************************************************************************)
(* The process table of one instant (topgent-collect/src/process:          *)
(* table.rs, launcher.rs, collector.rs; process.rs): which processes are   *)
(* agents, which of them the process collector tells of, and to which      *)
(* agent the traffic and the sockets of a process are attributed.          *)
(*                                                                         *)
(* What an executable is called is left out, what it is recognised as is   *)
(* kept.                                                                   *)
(***************************************************************************)
EXTENDS Naturals, FiniteSets

CONSTANTS
  Pid,        \* process identifiers, a set of numbers
  Family,     \* agent families
  Nothing     \* no process, no family

TableAssumption ==
  /\ Pid \in SUBSET Nat /\ IsFiniteSet(Pid) /\ Nothing \notin Pid
  /\ {Nothing, "runtime"} \cap Family = {} /\ Nothing # "runtime"

VARIABLE tree   \* the table that was taken

Signs == Family \cup {Nothing}

(* What a listing says of a process before it is judged: what its          *)
(* executable, its first argument, its name and the image of the container *)
(* it runs in are recognised as.                                           *)
Raw == [state : {"running", "zombie", "thread"}, parent : Pid \cup {Nothing},
        exe : Signs \cup {"runtime"}, argument : Signs \cup {"option"}, name : Signs, image : Signs]

Row == [parent : Pid \cup {Nothing}, family : Signs]
Tables == UNION {[pids -> Row] : pids \in SUBSET Pid \ {{}}}
Listings == UNION {[pids -> Raw] : pids \in SUBSET Pid}

(* What is judged is one table, which stays as it was taken.               *)
TreeSpec == tree \in Tables /\ [][UNCHANGED tree]_tree

-----------------------------------------------------------------------------
FirstKnown(a, b) == IF a # Nothing THEN a ELSE b

(* family_of: of these only a family is one.                               *)
FamilyOf(sign) == IF sign \in Family THEN sign ELSE Nothing

(* launcher_path, which a Windows host has none of.                        *)
LauncherPath(p, windows) == IF windows THEN Nothing ELSE p.argument

(* windows_launchers: there a runtime of scripts that nothing else told of *)
(* is asked for its command line, unless too many are.                     *)
WindowsLauncher(raw, pid, most) ==
  LET asked == {p \in DOMAIN raw : raw[p].state = "running" /\ raw[p].exe = "runtime" /\ raw[p].name = Nothing}
  IN IF pid \in asked /\ Cardinality({p \in asked : p < pid}) < most THEN FamilyOf(raw[pid].argument) ELSE Nothing

(* The family by the executable, the launcher, the name, and a container's *)
(* image over them all.                                                    *)
RecognisedAs(raw, pid, windows, most) ==
  LET p == raw[pid]
      own == FirstKnown(FamilyOf(p.exe), FirstKnown(FamilyOf(LauncherPath(p, windows)), p.name))
  IN FirstKnown(IF windows THEN Nothing ELSE p.image,
                FirstKnown(own, IF windows THEN WindowsLauncher(raw, pid, most) ELSE Nothing))

(* snapshot: neither what has ended nor a thread is a process.             *)
Snapshot(raw, windows, most) ==
  [pid \in {p \in DOMAIN raw : raw[p].state = "running"} |->
     [parent |-> raw[pid].parent, family |-> RecognisedAs(raw, pid, windows, most)]]

(* agent_owners: the walk goes up until it meets a second family, and what *)
(* it has met last of the first one owns the process. It takes at most as  *)
(* many steps as there are processes, for parents may form a circle.       *)
Climbing(table, w) ==
  IF w.at \notin DOMAIN table \/ w.met THEN w
  ELSE LET family == table[w.at].family
           second == w.owner # Nothing /\ family \notin {Nothing, table[w.owner].family}
       IN [at |-> table[w.at].parent,
           owner |-> IF family = Nothing \/ second THEN w.owner ELSE w.at,
           met |-> second]

OwnerWalk(table, pid) ==
  LET walk[i \in 0..Cardinality(DOMAIN table)] ==
        IF i = 0 THEN [at |-> pid, owner |-> Nothing, met |-> FALSE] ELSE Climbing(table, walk[i - 1])
  IN walk

(* Mutant: the nearest agent is the owner though a launcher started it.    *)
OwnerNearest(table, pid) ==
  LET n == Cardinality(DOMAIN table)
      walk[i \in 0..n] ==
        IF i = 0 THEN [at |-> pid, owner |-> Nothing]
        ELSE LET w == walk[i - 1] IN
             IF w.at \notin DOMAIN table \/ w.owner # Nothing THEN w
             ELSE [at |-> table[w.at].parent,
                   owner |-> IF table[w.at].family = Nothing THEN Nothing ELSE w.at]
  IN walk[n].owner

(* What owns it, if anything does.                                         *)
OwnerOf(table, pid) == OwnerWalk(table, pid)[Cardinality(DOMAIN table)].owner

AgentOwners(table) ==
  LET owner == [pid \in DOMAIN table |-> OwnerOf(table, pid)]
  IN [pid \in {p \in DOMAIN table : owner[p] # Nothing} |-> owner[pid]]

(* is_same_family_relaunch.                                                *)
Relaunched(table, pid) ==
  LET p == table[pid]
  IN p.family # Nothing /\ p.parent \in DOMAIN table /\ table[p.parent].family = p.family

(* descendants_of: each with its depth. A circle ends with the depth.      *)
Levels(table, root) ==
  LET level[d \in 0..Cardinality(DOMAIN table)] ==
        IF d = 0 THEN {root} ELSE {p \in DOMAIN table : table[p].parent \in level[d - 1]}
  IN level
Descendants(table, root) ==
  LET level == Levels(table, root) IN UNION {level[d] \X {d} : d \in 1..Cardinality(DOMAIN table)}

(* ProcessCollector::collect, and the facts that make an agent of a        *)
(* process in the graph: that it was seen, and its family.                 *)
Listed(table, everything) ==
  {pid \in DOMAIN table : (everything \/ table[pid].family # Nothing) /\ ~Relaunched(table, pid)}
Anchors(table) == {pid \in Listed(table, FALSE) : table[pid].family # Nothing}

-----------------------------------------------------------------------------
(* The processes above one, itself first, by what they are.                *)
Ancestors(table, pid, steps) ==
  LET up[i \in 0..steps] ==
        IF i = 0 THEN pid
        ELSE IF up[i - 1] \in DOMAIN table THEN table[up[i - 1]].parent ELSE Nothing
  IN up
Above(table, pid, steps) ==
  LET up == Ancestors(table, pid, steps) IN {up[i] : i \in 0..steps} \cap DOMAIN table

(* On a Unix host every process has one ancestry.                          *)
Forest(table) ==
  \A pid \in DOMAIN table :
    table[pid].parent \notin DOMAIN table
    \/ pid \notin Above(table, table[pid].parent, Cardinality(DOMAIN table))

(* process.rs:34-40, collector.rs:43-50, 114-122: what is attributed to an *)
(* agent is attributed to one the process collector tells of, so that the  *)
(* graph does not reject it; it lies above the process; and no agent of    *)
(* another family lies between them.                                       *)
OwnersAreAnchored(table) ==
  LET n == Cardinality(DOMAIN table)
      owners == AgentOwners(table)
  IN \A pid \in DOMAIN owners :
       LET owner == owners[pid]
           between == {p \in Above(table, pid, n) : owner \in Above(table, p, n)}
       IN /\ owner \in Anchors(table)
          /\ owner \in Above(table, pid, n)
          /\ \A p \in between : table[p].family \in {Nothing, table[owner].family}

(* process.rs:34-40: no helper of an agent is left without an owner.       *)
HelpersHaveOwners(table) ==
  \A pid \in DOMAIN table :
    (\E p \in Above(table, pid, Cardinality(DOMAIN table)) : table[p].family # Nothing)
      => pid \in DOMAIN AgentOwners(table)

(* table.rs, descendants_of: it finds who has the process above it, once,  *)
(* at the distance it has.                                                 *)
DescendantsAreBelow(table) ==
  LET n == Cardinality(DOMAIN table) IN
  \A root \in DOMAIN table :
    LET found == Descendants(table, root)
        below == {p \in DOMAIN table \ {root} : root \in Above(table, p, n)}
    IN /\ {f[1] : f \in found} = below
       /\ Cardinality(found) = Cardinality(below)
       /\ \A f \in found : Cardinality(Above(table, f[1], n)) = Cardinality(Above(table, root, n)) + f[2]

(* What a helper does is attributed to an agent above it that the process  *)
(* collector tells of, and the processes below one are found, each once.   *)
TreesHold ==
  Forest(tree) => OwnersAreAnchored(tree) /\ HelpersHaveOwners(tree) /\ DescendantsAreBelow(tree)

(* table.rs:141-153, launcher.rs:33-91: an agent that a script starts is   *)
(* recognised on Linux and on Windows; an argument does not make another   *)
(* agent of an agent's executable, nor on Windows an agent of what is no   *)
(* runtime, though on Linux it does; and what does not run is nobody.      *)
RecognitionHolds(raw, most) ==
  \A windows \in BOOLEAN :
    LET table == Snapshot(raw, windows, most) IN
    /\ \A pid \in DOMAIN table :
         LET p == raw[pid]
             family == table[pid].family
         IN (windows \/ p.image = Nothing) =>
              /\ p.exe \in Family => family = p.exe
              /\ p.exe = "runtime" /\ p.name = Nothing =>
                   family \in {FamilyOf(p.argument)} \cup (IF Cardinality(DOMAIN table) > most THEN {Nothing} ELSE {})
              /\ p.exe = Nothing =>
                   family = IF ~windows /\ p.argument \in Family THEN p.argument ELSE p.name
    /\ \A pid \in DOMAIN raw \ DOMAIN table : OwnerOf(table, pid) = Nothing

(* VIOLATED on Linux, where the first argument of every process is read,   *)
(* an editor's that has an agent's program open: by launcher.rs:5-7 it is  *)
(* read only for a runtime, and by 15-18 anything else is taken at face    *)
(* value.                                                                  *)
ArgumentsNameNobody(raw, most) ==
  \A windows \in BOOLEAN : \A pid \in DOMAIN Snapshot(raw, windows, most) :
    {raw[pid].exe, raw[pid].name, raw[pid].image} = {Nothing} =>
      Snapshot(raw, windows, most)[pid].family = Nothing

(* collector.rs:114-122, 166-180: an agent another one of its family       *)
(* started through a shell is a run of its own, so what it does is its     *)
(* own. (The code attributes it to the first of the two.)                  *)
RunsOwnThemselves(table) ==
  Forest(table) => \A pid \in Anchors(table) : AgentOwners(table)[pid] = pid
=============================================================================
