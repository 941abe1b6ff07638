----------------------------- MODULE HomeFiles -----------------------------
(***************************************************************************)
(* What the files of the operator's home say of the agents that run        *)
(* (topgent-collect/src: config.rs, model.rs, reach.rs,                    *)
(* asset_inventory.rs). A sweep takes the process table, then reads one    *)
(* file after the other for one agent after the other, asks for each path  *)
(* of the inventory whether it can be read, and lists what is installed.   *)
(* Meanwhile processes exit and their pids are given out again, sessions   *)
(* write on their transcripts, and a person edits.                         *)
(***************************************************************************)
EXTENDS Naturals, SequencesExt, Functions

CONSTANTS
  Pid, Nothing,
  Owner,       \* whose a process can be: "me", "other", or "unknown"
  Agent,       \* the [family, model] that are started
  Transcript,  \* the session files, as numbers in the order of their paths
  Setting,     \* what .claude/settings.json can hold
  Sandbox,     \* what .codex/config.toml can hold: its sandbox_mode lines
  Resource,    \* the paths the policy and the watchlist name
  Sensitive,   \* those of them the policy names
  Reject,      \* the values that name no model
  Skill,       \* the skill directories there are, in the order of their names
  MaxAssets,   \* MAX_ASSETS
  MaxTail,     \* the lines of a transcript that extract reads
  MaxRuns, MaxChanges

VARIABLES
  procs,        \* the run of each pid, or none
  runs,         \* history: [pid, family, owner, model, session] of each run
  settings, codex, transcripts, access,
  held,         \* history: what each file held since the table was taken
  pc, rows,     \* the table of the collector: runs of recognised agents
  todo,         \* the rows left, in order
  source,       \* the source of the model that is read next
  facts,        \* <<run, claim, value>> told by this sweep
  assets,
  changes

hostVars == <<procs, runs, settings, codex, transcripts, access>>
fileVars == <<settings, codex, transcripts, access>>
sweepVars == <<pc, rows, todo, source, facts, assets>>
vars == <<hostVars, held, sweepVars, changes>>

Contents == [settings |-> settings, codex |-> codex, transcripts |-> transcripts,
             access |-> access, procs |-> procs]

-----------------------------------------------------------------------------
(* Rules of the settings. Their words are `tool` and `arg`, and `runs` is  *)
(* the family that the catalogue recognises in the first word.             *)
ToolAccess(tool) ==
  CASE tool \in {"Bash", "Execute"} -> "execute"
    [] tool \in {"Write", "Edit", "NotebookEdit"} -> "write"
    [] tool \in {"Read", "Glob", "Grep"} -> "read"
    [] OTHER -> "none"

(* A bare tool is a rule over everything, and empty parentheses are none.  *)
ParsedRule(rule) ==
  IF ToolAccess(rule.tool) = "none" \/ rule.arg = "" THEN Nothing
  ELSE [path |-> IF rule.arg = "bare" THEN "*" ELSE rule.arg, access |-> ToolAccess(rule.tool)]

InvokedFamily(rule) ==
  LET parsed == ParsedRule(rule)
  IN  IF parsed = Nothing \/ rule.arg \in {"bare", "*"} THEN "none"
      ELSE IF parsed.access = "execute" THEN rule.runs ELSE "none"

Mine == {r \in ToSet(rows) : runs[r].owner = "me"}

(* The agents of this sweep that a rule lets this one run.                 *)
Invoked(rule, r) == {t \in Mine : runs[t].family = InvokedFamily(rule) /\ runs[t].pid # runs[r].pid}

Fact(r, claim, value) == <<r, claim, value>>
RunOf(f) == f[1]
ClaimOf(f) == f[2]
ValueOf(f) == f[3]

SettingFacts(r, held_) ==
  LET declared(rules, granted) ==
        {Fact(r, "permission", <<ParsedRule(x).path, ParsedRule(x).access, granted>>)
           : x \in {y \in rules : ParsedRule(y) # Nothing}}
  IN  declared(held_.allow, TRUE) \cup declared(held_.deny, FALSE)
      \cup UNION {{Fact(r, "invokes", t) : t \in Invoked(x, r)} : x \in held_.allow}
      \cup IF held_.hooks THEN {Fact(r, "permission", <<"event hooks", "execute", TRUE>>)} ELSE {}

(* Any line that names a sandbox counts, in whatever part of the file.     *)
Sandboxed(lines) == \E line \in ToSet(lines) : line # "danger"

CodexFacts(r, lines) ==
  {IF Sandboxed(lines) THEN Fact(r, "permission", <<"sandbox", "execute", FALSE>>)
                       ELSE Fact(r, "permission", <<"*", "execute", TRUE>>)}

-----------------------------------------------------------------------------
(* The model. The sources of a family are read in their order and the      *)
(* first that names one is believed.                                       *)
Sources(family) ==
  CASE family = "claude-code" -> <<"transcripts", "settings", "argv">>
    [] family = "codex-cli"   -> <<>>
    [] OTHER                  -> <<"argv", "settings">>

Observed(src) == src \in {"transcripts", "argv"}

Admissible(value) == value # Nothing /\ value \notin Reject

Upto(s, n) == SubSeq(s, 1, IF n < Len(s) THEN n ELSE Len(s))

(* The last model named in the part of a transcript that is read.          *)
Extract(lines) ==
  LET part  == Upto(lines, MaxTail)
      named == {i \in DOMAIN part : part[i] # Nothing}
  IN  IF named = {} THEN Nothing ELSE part[CHOOSE i \in named : \A j \in named : j <= i]

(* The first transcript, in the order of the paths, that names one.        *)
FromTranscripts(files) ==
  LET naming == {t \in Transcript : Admissible(Extract(files[t]))}
  IN  IF naming = {} THEN Nothing
      ELSE Extract(files[CHOOSE t \in naming : \A u \in naming : t <= u])

FlagValue(table, pid) == IF table[pid] = Nothing THEN Nothing ELSE runs[table[pid]].model

ReadSource(src, r, c) ==
  CASE src = "transcripts" -> FromTranscripts(c.transcripts)
    [] src = "settings"    -> IF c.settings = Nothing THEN Nothing ELSE c.settings.model
    [] src = "argv"        -> FlagValue(c.procs, runs[r].pid)

-----------------------------------------------------------------------------
Init ==
  /\ \E started \in [Pid -> (Agent \X Owner)], sessions \in [Pid -> Transcript] :
        /\ IsInjective(sessions)
        /\ runs = [i \in Pid |-> [pid |-> i, family |-> started[i][1].family, owner |-> started[i][2],
                                  model |-> started[i][1].model, session |-> sessions[i]]]
  /\ procs = [pid \in Pid |-> pid]
  /\ settings \in Setting /\ codex \in Sandbox
  /\ \E wrote \in SUBSET {i \in Pid : runs[i].family = "claude-code" /\ runs[i].owner = "me"} :
        transcripts = [t \in Transcript |->
          IF \E i \in wrote : runs[i].session = t
          THEN <<runs[CHOOSE i \in wrote : runs[i].session = t].model>> ELSE <<>>]
  /\ access \in [Resource -> {"readable", "denied", "absent"}]
  /\ held = {} /\ pc = "idle" /\ rows = <<>> /\ todo = <<>> /\ source = 1
  /\ facts = {} /\ assets = <<>> /\ changes = 0

-----------------------------------------------------------------------------
(* What happens beside the sweep: what was there before it is any initial  *)
(* state, and what changes after it was read is of no matter to it.        *)
Configuring == pc \in {"model", "declared"}

Change ==
  /\ changes < MaxChanges
  /\ changes' = changes + 1
  /\ held' = held \cup {Contents'}
  /\ UNCHANGED sweepVars

Exit(pid) ==
  /\ Configuring \/ pc = "reach"
  /\ procs[pid] # Nothing
  /\ procs' = [procs EXCEPT ![pid] = Nothing]
  /\ UNCHANGED <<runs, fileVars>> /\ Change

Start(pid, agent) ==
  /\ Configuring \/ pc = "reach"
  /\ procs[pid] = Nothing /\ Len(runs) < MaxRuns
  /\ \E t \in Transcript \ {runs[i].session : i \in DOMAIN runs} :
        runs' = Append(runs, [pid |-> pid, family |-> agent.family, owner |-> "me",
                              model |-> agent.model, session |-> t])
  /\ procs' = [procs EXCEPT ![pid] = Len(runs')]
  /\ UNCHANGED fileVars /\ Change

(* A session of Claude Code writes a line; not every line names the model. *)
Say(pid, line) ==
  /\ Configuring /\ procs[pid] # Nothing
  /\ LET run == runs[procs[pid]]
     IN  /\ run.family = "claude-code" /\ run.owner = "me" /\ line \in {run.model, Nothing}
         /\ transcripts' = [transcripts EXCEPT ![run.session] = Append(@, line)]
  /\ UNCHANGED <<procs, runs, settings, codex, access>> /\ Change

Edit(content, lines) ==
  /\ Configuring
  /\ <<content, lines>> # <<settings, codex>>
  /\ content = settings \/ lines = codex
  /\ settings' = content /\ codex' = lines
  /\ UNCHANGED <<procs, runs, transcripts, access>> /\ Change

Chmod(x) ==
  /\ pc = "paths"
  /\ \E a \in {"readable", "denied", "absent"} : a # access[x] /\ access' = [access EXCEPT ![x] = a]
  /\ UNCHANGED <<procs, runs, settings, codex, transcripts>> /\ Change

-----------------------------------------------------------------------------
(* The collector of configuration. Agents of one family come together.     *)
Running == SetToSortSeq({procs[pid] : pid \in Pid} \ {Nothing},
                        LAMBDA a, b : runs[a].pid < runs[b].pid)

Snapshot ==
  /\ pc = "idle" /\ pc' = "model"
  /\ rows' = Running
  /\ todo' = SelectSeq(Running, LAMBDA r : runs[r].owner = "me")
  /\ held' = {Contents} /\ source' = 1
  /\ UNCHANGED <<hostVars, facts, assets, changes>>

(* The collector of reach takes a table of its own, and says of every      *)
(* agent of another account that it was not asked about.                   *)
SnapshotForReach ==
  /\ pc = "reach" /\ pc' = "paths"
  /\ rows' = Running
  /\ todo' = SelectSeq(Running, LAMBDA r : runs[r].owner = "me")
  /\ facts' = facts \cup {Fact(r, "not evaluated", Nothing) : r \in {q \in ToSet(Running) : runs[q].owner # "me"}}
  /\ held' = held \cup {Contents} /\ source' = 1
  /\ UNCHANGED <<hostVars, assets, changes>>

(* The answer about a row is followed by the next row, or by the next      *)
(* collector.                                                              *)
NextRow(here, after) ==
  /\ todo' = Tail(todo) /\ source' = 1
  /\ pc' = IF Len(todo) > 1 THEN here ELSE after

NoRow ==
  /\ pc \in {"model", "paths"} /\ todo = <<>>
  /\ pc' = IF pc = "model" THEN "reach" ELSE "assets"
  /\ UNCHANGED <<hostVars, held, rows, todo, source, facts, assets, changes>>

ReadModel ==
  /\ pc = "model" /\ todo # <<>>
  /\ LET r     == Head(todo)
         srcs  == Sources(runs[r].family)
         value == ReadSource(srcs[source], r, Contents)
     IN  IF source > Len(srcs) THEN pc' = "declared" /\ UNCHANGED <<source, facts>>
         ELSE IF Admissible(value)
         THEN /\ facts' = facts \cup {Fact(r, "model", <<value, srcs[source], Observed(srcs[source])>>)}
              /\ pc' = "declared" /\ UNCHANGED source
         ELSE source' = source + 1 /\ UNCHANGED <<pc, facts>>
  /\ UNCHANGED <<hostVars, held, rows, todo, assets, changes>>

(* A file that is missing, too long or not understood declares nothing.    *)
ReadDeclared ==
  /\ pc = "declared"
  /\ LET r == Head(todo)
     IN  facts' = facts \cup
           CASE runs[r].family = "claude-code" /\ settings # Nothing -> SettingFacts(r, settings)
             [] runs[r].family = "codex-cli" /\ codex # Nothing -> CodexFacts(r, codex)
             [] OTHER -> {}
  /\ NextRow("model", "reach")
  /\ UNCHANGED <<hostVars, held, rows, assets, changes>>

(* The collector of reach asks for every path the sweep is configured with,*)
(* and a path the policy names is a credential whoever else names it.      *)
Probe ==
  /\ pc = "paths" /\ todo # <<>>
  /\ facts' = facts \cup {Fact(Head(todo), "reachable", <<x, x \in Sensitive>>)
                            : x \in {y \in Resource : access[y] = "readable"}}
  /\ NextRow("paths", "assets")
  /\ UNCHANGED <<hostVars, held, rows, assets, changes>>

(* What is installed. A directory is listed in no order, no more than so   *)
(* many of its entries are looked at, links and other files are passed     *)
(* over, and the rest is sorted.                                           *)
Inventoried(listing) ==
  LET looked == Upto(listing, MaxAssets)
      found  == {i \in ToSet(looked) : Skill[i] = "directory"}
  IN  Upto(SetToSortSeq(found, <), MaxAssets)

TakeInventory ==
  /\ pc = "assets"
  /\ \E listing \in SetToSeqs(DOMAIN Skill) : assets' = Inventoried(listing)
  /\ pc' = "done"
  /\ UNCHANGED <<hostVars, held, rows, todo, source, facts, changes>>

Next ==
  \/ \E pid \in Pid : Exit(pid)
  \/ \E pid \in Pid, agent \in Agent : Start(pid, agent)
  \/ \E pid \in Pid, line \in {a.model : a \in Agent} \cup {Nothing} : Say(pid, line)
  \/ \E content \in Setting, lines \in Sandbox : Edit(content, lines)
  \/ \E x \in Resource : Chmod(x)
  \/ Snapshot \/ SnapshotForReach \/ NoRow \/ ReadModel \/ ReadDeclared \/ Probe \/ TakeInventory

Spec == Init /\ [][Next]_vars

-----------------------------------------------------------------------------
TypeOK ==
  /\ pc \in {"idle", "model", "declared", "reach", "paths", "assets", "done"}
  /\ ToSet(rows) \subseteq DOMAIN runs /\ ToSet(todo) \subseteq ToSet(rows)
  /\ \A f \in facts : RunOf(f) \in DOMAIN runs
  /\ Len(assets) <= MaxAssets

Told(claim) == {f \in facts : ClaimOf(f) = claim}

(* What this account's files say is told of this account's agents only,    *)
(* and of every other agent it is said that nobody looked (config.rs:      *)
(* 294-301, reach.rs:213-240). What stays readable is told of each agent.  *)
OwnAccountOnly ==
  /\ \A f \in facts : (runs[RunOf(f)].owner = "me") = (ClaimOf(f) # "not evaluated")
  /\ pc = "done" =>
       \A r \in ToSet(rows) :
          IF runs[r].owner # "me" THEN Fact(r, "not evaluated", Nothing) \in facts
          ELSE \A x \in Resource : (\A c \in held : c.access[x] = "readable") =>
                                    Fact(r, "reachable", <<x, x \in Sensitive>>) \in facts

(* A permission is granted only by a rule that allows, denied only by one  *)
(* that denies, and a rule with empty parentheses grants nothing           *)
(* (config.rs:63-70, 155-197).                                             *)
DeclaredWasWritten ==
  \A f \in Told("permission") :
    LET path == ValueOf(f)[1]
        kind == ValueOf(f)[2]
        said(rules) == \E x \in rules : /\ x.arg # "" /\ ToolAccess(x.tool) = kind
                                        /\ path = IF x.arg = "bare" THEN "*" ELSE x.arg
    IN  IF runs[RunOf(f)].family = "codex-cli"
        THEN \E c \in held : c.codex # Nothing /\ (path = "*") = (\A line \in ToSet(c.codex) : line = "danger")
        ELSE \E c \in held : /\ c.settings # Nothing
                             /\ IF ValueOf(f)[3] THEN said(c.settings.allow) \/ (path = "event hooks" /\ c.settings.hooks)
                                              ELSE said(c.settings.deny)

(* A second hop is declared only by a rule that lets a command be run, to  *)
(* another agent of this account that ran when the table was taken, of the *)
(* family the command is (config.rs:73-84, 101-127).                       *)
ChainIsDeclared ==
  \A f \in Told("invokes") :
    /\ ValueOf(f) # RunOf(f) /\ runs[ValueOf(f)].owner = "me"
    /\ \E c \in held : ValueOf(f) \in {c.procs[pid] : pid \in Pid}
    /\ \E c \in held : /\ c.settings # Nothing
                        /\ \E x \in c.settings.allow : /\ x.tool \in {"Bash", "Execute"} /\ x.arg \notin {"", "bare", "*"}
                                                       /\ x.runs = runs[ValueOf(f)].family

(* A model was named where it is said to have been read, is certain only   *)
(* if the agent wrote it while it ran or was started with it, is never a   *)
(* placeholder, and is told from a source only if those before it named    *)
(* none (model.rs:19-26, 157-161, 321-371; config.rs:414-431). One session *)
(* that is the only one there was is told of its own model.                *)
ModelWasNamed ==
  \A f \in Told("model") :
    LET value == ValueOf(f)[1]
        src   == ValueOf(f)[2]
        srcs  == Sources(runs[RunOf(f)].family)
        at    == CHOOSE i \in DOMAIN srcs : srcs[i] = src
    IN  /\ value \notin Reject
        /\ ValueOf(f)[3] = (src # "settings")
        /\ \A i \in 1..at : \E c \in held : IF i = at THEN ReadSource(src, RunOf(f), c) = value
                                              ELSE ~Admissible(ReadSource(srcs[i], RunOf(f), c))
        /\ (ValueOf(f)[3] /\ Len(runs) = 1) => value = runs[RunOf(f)].model

(* VIOLATED: model.rs:484-489 gives as the reason for reading a command    *)
(* line that a model out of a log shared by every session "would be pinned *)
(* on every OpenCode agent equally and would be wrong the moment two of    *)
(* them run different models". The transcript that is read is the first    *)
(* of the home by name, for every session of Claude Code, and certain.     *)
ModelIsOwn ==
  \A f \in Told("model") : ValueOf(f)[3] => ValueOf(f)[1] = runs[RunOf(f)].model

(* What is listed is installed, and all of it when it fits                 *)
(* (asset_inventory.rs:23-36, 70-92, 246-252).                             *)
AssetsStand ==
  pc = "done" =>
    /\ \A i \in ToSet(assets) : Skill[i] = "directory"
    /\ \A i, j \in DOMAIN assets : i < j => assets[i] < assets[j]
    /\ Len(Skill) <= MaxAssets => \A i \in DOMAIN Skill : Skill[i] = "directory" => i \in ToSet(assets)

HomeHolds ==
  /\ TypeOK /\ OwnAccountOnly /\ DeclaredWasWritten /\ ChainIsDeclared
  /\ ModelWasNamed /\ AssetsStand
=============================================================================
