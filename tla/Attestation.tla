----------------------------- MODULE Attestation -----------------------------
(***************************************************************************)
(* tool.rs, health.rs (tool_attestations) and journal.rs: which binaries   *)
(* the sensors would run, whether they are the system's, and the history   *)
(* of what each sweep found.  A sweep looks at the disk, then records under *)
(* the record lock (RecordStore), and a surface that is slow between the   *)
(* two records an older look.                                              *)
(***************************************************************************)
EXTENDS Integers, Sequences, FiniteSets, FiniteSetsExt

CONSTANTS
  Sweeper,     \* processes that sweep
  Tool,        \* names, numbered in their order
  Candidates,  \* how many places a tool is looked for at
  Kind,        \* what may be there: of AllKinds
  MaxAttested, \* MAX_TOOL_ATTESTATIONS
  MaxInstant,  \* bound on the clock
  MaxSpoils    \* bound on how often the file is made unreadable

AllKinds ==
  {"absent", "dangling", "directory", "unstatable", "unverified", "user file", "user directory",
   "system"}

AttestationAssumption ==
  /\ Tool \subseteq Nat /\ Kind \subseteq AllKinds
  /\ Candidates \in Nat \ {0} /\ MaxAttested \in Nat \ {0}
  /\ MaxInstant \in Nat /\ MaxSpoils \in Nat

VARIABLES
  disk,         \* what is at each place of each tool
  generatedAt,  \* of the sweeps
  attested,     \* tool-attestations.json: the record of each tool, or Spoiled
  look,         \* of each surface: idle, or what it found of which tool, and when
  spoils,       \* how often the file was made unreadable
  found         \* history: what the surfaces found, and when

attestationVars == <<disk, generatedAt, attested, look, spoils, found>>

Place == 1..Candidates
None == 0
Idle == [step |-> "idle"]
Spoiled == [t \in {} |-> None]

(* trust_of: the file and every directory above it are root's, or the      *)
(* user's; where this cannot be told the file is unverified.               *)
TrustOf(kind) ==
  CASE kind = "system" -> "system_trusted"
    [] kind \in {"user file", "user directory"} -> "user_managed"
    [] kind = "unverified" -> "unverified"
    [] OTHER -> "rejected"
Usable == {"system_trusted", "user_managed", "unverified"}

(* Mutant: the first place that is there is taken, whoever owns it.        *)
ResolveFirst(places) ==
  LET there == {p \in Place : places[p] # "absent"}
  IN IF there # {} THEN [state |-> TrustOf(places[Min(there)]), path |-> Min(there)]
     ELSE [state |-> "missing", path |-> None]

(* SystemTool::resolve_checked: the first place that can be used.          *)
ResolveTool(places) ==
  LET there == {p \in Place : places[p] # "absent"}
      usable == {p \in there : TrustOf(places[p]) \in Usable}
  IN CASE usable # {} -> [state |-> TrustOf(places[Min(usable)]), path |-> Min(usable)]
       [] usable = {} /\ there # {} -> [state |-> "rejected", path |-> None]
       [] OTHER -> [state |-> "missing", path |-> None]

-----------------------------------------------------------------------------
AttestationInit ==
  /\ disk \in [Tool -> [Place -> Kind]]
  /\ generatedAt = 1
  /\ attested = Spoiled
  /\ look = [s \in Sweeper |-> Idle]
  /\ spoils = 0
  /\ found = {}

(* Something is installed, removed or handed to another owner.             *)
Change(t, p, kind) ==
  /\ disk[t][p] # kind
  /\ disk' = [disk EXCEPT ![t][p] = kind]
  /\ UNCHANGED <<generatedAt, attested, look, spoils, found>>

Attest(s, t) ==
  /\ look[s] = Idle
  /\ LET saw == ResolveTool(disk[t])
     IN /\ look' = [look EXCEPT ![s] = [step |-> "looked", tool |-> t, at |-> generatedAt, saw |-> saw]]
        /\ found' = found \cup {[tool |-> t, at |-> generatedAt, saw |-> saw]}
  /\ UNCHANGED <<disk, generatedAt, attested, spoils>>

(* A record that saw the same stays as it is but for the instant.          *)
Merged(old, saw, at) ==
  IF saw = [state |-> old.state, path |-> old.path] THEN [old EXCEPT !.last = at]
  ELSE [state |-> saw.state, path |-> saw.path, first |-> old.first, last |-> at,
        previous |-> old.state, changed |-> at]

(* The records are sorted by name, and the first in that order go.         *)
Trimmed(records) ==
  LET kept == {t \in DOMAIN records :
                 Cardinality({u \in DOMAIN records : u > t}) < MaxAttested}
  IN [t \in kept |-> records[t]]

(* record_tool_attestation, under the record lock.                         *)
RecordAttestation(s) ==
  LET t == look[s].tool
      saw == look[s].saw
      at == look[s].at
      record == IF t \in DOMAIN attested THEN Merged(attested[t], saw, at)
                ELSE [state |-> saw.state, path |-> saw.path, first |-> at, last |-> at,
                      previous |-> "", changed |-> None]
  IN /\ look[s].step = "looked"
     /\ attested' = Trimmed([u \in DOMAIN attested \cup {t} |-> IF u = t THEN record ELSE attested[u]])
     /\ look' = [look EXCEPT ![s] = Idle]
     /\ UNCHANGED <<disk, generatedAt, spoils, found>>

(* A file that cannot be read or parsed counts as empty.                   *)
Spoil ==
  /\ spoils < MaxSpoils
  /\ spoils' = spoils + 1
  /\ attested' = Spoiled
  /\ UNCHANGED <<disk, generatedAt, look, found>>

Die(s) ==
  /\ look[s] # Idle
  /\ look' = [look EXCEPT ![s] = Idle]
  /\ UNCHANGED <<disk, generatedAt, attested, spoils, found>>

SweepLater ==
  /\ generatedAt < MaxInstant
  /\ generatedAt' = generatedAt + 1
  /\ UNCHANGED <<disk, attested, look, spoils, found>>

AttestationNext ==
  \/ \E t \in Tool, p \in Place, kind \in Kind : Change(t, p, kind)
  \/ \E s \in Sweeper : RecordAttestation(s) \/ Die(s) \/ \E t \in Tool : Attest(s, t)
  \/ Spoil \/ SweepLater

AttestationSpec == AttestationInit /\ [][AttestationNext]_attestationVars

-----------------------------------------------------------------------------
(* journal.rs:215-219: whichever surface was slow, a record tells what was *)
(* found at its last instant and is so since it changed, and what was      *)
(* found before that.                                                      *)
TellsWhatWasSeen ==
  \A t \in DOMAIN attested :
    LET r == attested[t]
        was(saw, at) == [tool |-> t, at |-> at, saw |-> saw] \in found
        is == [state |-> r.state, path |-> r.path]
    IN /\ was(is, r.last)
       /\ r.changed = None => was(is, r.first)
       /\ r.changed # None =>
            /\ was(is, r.changed)
            /\ \E x \in found : x.tool = t /\ x.saw.state = r.previous /\ x.saw # is

(* tool.rs:97-104: what a sweep takes for a tool was there as a file that  *)
(* is the system's or the user's, never one that was refused, and it looks *)
(* past a place that was refused.                                          *)
NeverARefusedOne ==
  \A s \in DOMAIN look : look[s].step = "idle" /\ look'[s].step = "looked" =>
    LET saw == look'[s].saw
        there == disk[look'[s].tool]
    IN IF saw.path = None THEN \A p \in DOMAIN there : TrustOf(there[p]) = "rejected"
       ELSE TrustOf(there[saw.path]) = saw.state /\ saw.state \in Usable

(* And both, of any behaviour.                                             *)
AttestationHolds == []TellsWhatWasSeen /\ [][NeverARefusedOne]_attestationVars
=============================================================================
