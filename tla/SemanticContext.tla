--------------------------- MODULE SemanticContext ---------------------------
(***************************************************************************)
(* semantic.rs, journal.rs (semantic records), hooks.rs and context.rs:    *)
(* what agents say of themselves, told by short-lived hook processes or    *)
(* piped in.  A hook asks the policy whether it may, finds the agent it    *)
(* belongs to in the process table, reads the file, and replaces it; no    *)
(* lock is held over the two.                                              *)
(***************************************************************************)
EXTENDS Integers, Sequences, FiniteSets

CONSTANTS
  Hook,        \* hook processes
  Tables,      \* process tables a hook may see: pid -> [start, family, parent]
  Self,        \* its own pid there
  Session,     \* session names
  MaxDepth,    \* ancestors that are looked at (12)
  MaxRecords,  \* MAX_SEMANTIC_RECORDS
  MaxNow, MaxTold, MaxClears   \* bounds

ContextAssumption ==
  /\ MaxDepth \in Nat \ {0} /\ MaxRecords \in Nat \ {0}
  /\ MaxNow \in Nat /\ MaxTold \in Nat /\ MaxClears \in Nat

VARIABLES
  enabled,   \* semantic.enabled of the policy
  file,      \* semantic-context.json
  now,
  hook,      \* where each hook is
  told,      \* history: records whose hook has written, since the file was cleared
  count,     \* history: how many were written
  clears     \* history: how often the file was cleared

vars == <<enabled, file, now, hook, told, count, clears>>

Idle == [step |-> "idle"]
Nobody == <<0, 0>>

(* category: the first kind of work one of whose words is in the input.    *)
Category(words) ==
  CASE "test" \in words -> "testing"
    [] "test" \notin words /\ "review" \in words -> "review"
    [] words \cap {"test", "review"} = {} /\ "deploy" \in words -> "deployment"
    [] words \cap {"test", "review", "deploy"} = {} /\ "research" \in words -> "research"
    [] words \cap {"test", "review", "deploy", "research"} = {} /\ "fix" \in words -> "development"
    [] OTHER -> "general"

(* claude_record, codex_record, ollama_record: what an event of a harness  *)
(* says of the outcome; other events are not recorded.                     *)
Outcome ==
  [claude |-> [SessionStart |-> "running", UserPromptSubmit |-> "running", PreToolUse |-> "running",
               Stop |-> "complete", SessionEnd |-> "ended"],
   codex |-> [TurnComplete |-> "complete"],
   ollama |-> [Inference |-> "running"]]
Harness == DOMAIN Outcome
Family == [claude |-> "claude-code", codex |-> "codex-cli", ollama |-> "ollama"]

(* harness_identity: up the parents until one is of the family; Ollama is  *)
(* a service and the first there is.                                       *)
Walk(table, family) ==
  LET at[n \in 0..MaxDepth] ==
        IF n = 0 THEN Self
        ELSE LET p == at[n - 1] IN IF p \in DOMAIN table THEN table[p].parent ELSE 0
      found == {n \in 0..(MaxDepth - 1) :
                  /\ at[n] \in DOMAIN table /\ table[at[n]].family = family
                  /\ \A m \in 0..(n - 1) : at[m] \in DOMAIN table /\ table[at[m]].family # family}
  IN IF found = {} THEN Nobody ELSE LET p == at[CHOOSE n \in found : TRUE] IN <<p, table[p].start>>
Identity(table, harness) ==
  IF harness # "ollama" THEN Walk(table, Family[harness])
  ELSE LET of == {p \in DOMAIN table : table[p].family = "ollama"}
       IN IF of = {} THEN Nobody
          ELSE LET p == CHOOSE q \in of : \A r \in of : q <= r IN <<p, table[p].start>>

-----------------------------------------------------------------------------
(* install_codex_hook: the first line that sets notify is replaced, or one *)
(* is put before the first table.  A line is what it sets, or a table.     *)
Ours == "our notify"
Notifies == {"notify", Ours}
InstalledCodex(lines) ==
  LET sets == {i \in DOMAIN lines : lines[i] \in Notifies}
      tables == {i \in DOMAIN lines : lines[i] = "table"}
      first(s) == CHOOSE i \in s : \A j \in s : i <= j
      at == IF tables = {} THEN Len(lines) + 1 ELSE first(tables)
  IN IF sets # {} THEN [lines EXCEPT ![first(sets)] = Ours]
     ELSE SubSeq(lines, 1, at - 1) \o <<Ours, "blank">> \o SubSeq(lines, at, Len(lines))

(* install_claude_hooks: an entry is added to every event that has none of *)
(* ours; settings that do not parse are refused.                           *)
InstalledClaude(parsed, settings) ==
  IF ~parsed THEN settings
  ELSE [e \in DOMAIN Outcome.claude |->
          IF e \in DOMAIN settings /\ "ours" \in settings[e] THEN settings[e]
          ELSE (IF e \in DOMAIN settings THEN settings[e] ELSE {}) \cup {"ours"}]

-----------------------------------------------------------------------------
Init ==
  /\ enabled \in BOOLEAN
  /\ file = <<>> /\ now = 1
  /\ hook = [h \in Hook |-> Idle]
  /\ told = {} /\ count = 0 /\ clears = 0

(* harness_hook and ingest: nothing is taken from an agent while it is off. *)
Begin(h) ==
  /\ hook[h] = Idle /\ enabled
  /\ hook' = [hook EXCEPT ![h] = [step |-> "allowed"]]
  /\ UNCHANGED <<enabled, file, now, told, count, clears>>

Telling(h, run, session, at, outcome) ==
  hook' = [hook EXCEPT ![h] =
    [step |-> "telling",
     record |-> [session |-> session, run |-> run, at |-> at, outcome |-> outcome]]]

FromHarness(h, harness, event, table, session) ==
  /\ hook[h].step = "allowed"
  /\ event \in DOMAIN Outcome[harness] /\ Identity(table, harness) # Nobody
  /\ Telling(h, Identity(table, harness), session, now, Outcome[harness][event])
  /\ UNCHANGED <<enabled, file, now, told, count, clears>>

(* What is piped in says itself whose it is, and when.                     *)
Ingest(h, run, session, at) ==
  /\ hook[h].step = "allowed"
  /\ Telling(h, run, session, at, "running")
  /\ UNCHANGED <<enabled, file, now, told, count, clears>>

SameKey(r, q) == r.session = q.session /\ r.at = q.at /\ r.run[1] = q.run[1]
Newest(s) == SubSeq(s, IF Len(s) > MaxRecords THEN Len(s) - MaxRecords + 1 ELSE 1, Len(s))
(* append_semantic: the record is put behind those that are not later.     *)
Added(records, r) ==
  LET others == SelectSeq(records, LAMBDA q : ~SameKey(q, r))
      before == SelectSeq(others, LAMBDA q : q.at <= r.at)
      after == SelectSeq(others, LAMBDA q : q.at > r.at)
  IN Newest(before \o <<r>> \o after)

Read(h) ==
  /\ hook[h].step = "telling" /\ count < MaxTold
  /\ hook' = [hook EXCEPT ![h] = [step |-> "holding", record |-> hook[h].record,
                                  records |-> Added(file, hook[h].record)]]
  /\ UNCHANGED <<enabled, file, now, told, count, clears>>

Write(h) ==
  /\ hook[h].step = "holding" /\ count < MaxTold
  /\ file' = hook[h].records
  /\ told' = told \cup {hook[h].record}
  /\ count' = count + 1
  /\ hook' = [hook EXCEPT ![h] = Idle]
  /\ UNCHANGED <<enabled, now, clears>>

(* The harness does not wait, and a hook never says that it failed.        *)
GiveUp(h) ==
  /\ hook[h] # Idle
  /\ hook' = [hook EXCEPT ![h] = Idle]
  /\ UNCHANGED <<enabled, file, now, told, count, clears>>

SetEnabled(on) ==
  enabled # on /\ enabled' = on /\ UNCHANGED <<file, now, hook, told, count, clears>>

Clear ==
  /\ file # <<>> /\ clears < MaxClears
  /\ file' = <<>> /\ told' = {}
  /\ clears' = clears + 1
  /\ UNCHANGED <<enabled, now, hook, count>>

Tick == now < MaxNow /\ now' = now + 1 /\ UNCHANGED <<enabled, file, hook, told, count, clears>>

Next ==
  \/ \E h \in Hook :
       \/ Begin(h) \/ Read(h) \/ Write(h) \/ GiveUp(h)
       \/ \E harness \in Harness, table \in Tables, session \in Session :
            \E event \in DOMAIN Outcome[harness] : FromHarness(h, harness, event, table, session)
       \/ \E session \in Session, at \in 0..now : Ingest(h, <<Self, 1>>, session, at)
  \/ \E on \in BOOLEAN : SetEnabled(on)
  \/ Clear \/ Tick

Spec == Init /\ [][Next]_vars

-----------------------------------------------------------------------------
(* The nearest ancestor of the family, as a path of parents.               *)
IdentityIsNearest ==
  \A table \in Tables, harness \in {"claude", "codex"} :
    LET family == Family[harness]
        Up(s) == /\ s[1] = Self
                 /\ \A i \in DOMAIN s : s[i] \in DOMAIN table
                 /\ \A i \in 1..(Len(s) - 1) : table[s[i]].parent = s[i + 1] /\ table[s[i]].family # family
                 /\ table[s[Len(s)]].family = family
        ways == UNION {[1..n -> DOMAIN table] : n \in 1..MaxDepth}
        run == Identity(table, harness)
    IN IF run = Nobody THEN \A s \in ways : ~Up(s)
       ELSE \E s \in ways : Up(s) /\ s[Len(s)] = run[1] /\ run[2] = table[run[1]].start

(* hooks.rs:84-154: installing twice is installing once, and but for the   *)
(* one that sets notify no line of the person's is lost.                   *)
InstallIsStable ==
  /\ \A n \in 0..3 : \A lines \in [1..n -> {"notify", "table", "other"}] :
       LET once == InstalledCodex(lines)
           others(s) == SelectSeq(s, LAMBDA l : l \in {"table", "other"})
       IN /\ InstalledCodex(once) = once
          /\ others(once) = others(lines)
  /\ \A events \in SUBSET DOMAIN Outcome.claude :
       \A settings \in [events -> SUBSET {"theirs", "ours"}] :
         LET once == InstalledClaude(TRUE, settings)
         IN /\ InstalledClaude(TRUE, once) = once
            /\ \A e \in events : settings[e] \subseteq once[e]

(* journal.rs:814-818: the file is in the order of observation, bounded,   *)
(* and has no record twice, whoever races.                                 *)
InOrder ==
  /\ Len(file) <= MaxRecords
  /\ \A i, j \in DOMAIN file : i < j => file[i].at <= file[j].at /\ ~SameKey(file[i], file[j])

(* With one hook at a time nothing is lost but what is older than all that *)
(* a full file keeps, or was told again.                                   *)
NothingLost ==
  \A r \in told :
    \/ \E i \in DOMAIN file : SameKey(file[i], r)
    \/ Len(file) = MaxRecords /\ \A i \in DOMAIN file : r.at <= file[i].at

(* journal.rs:838: every record is deleted: what was there does not come   *)
(* back.                                                                   *)
ClearedIsGone == \A i \in DOMAIN file : file[i] \in told
=============================================================================
