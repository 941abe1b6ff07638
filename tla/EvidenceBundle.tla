--------------------------- MODULE EvidenceBundle ----------------------------
(***************************************************************************)
(* What a sensor exports (topgent-evidence: record.rs, ledger.rs,          *)
(* chain.rs, bundle.rs): records addressed by the digest of what they say, *)
(* claims that name them, a hash chain over them in the order they were    *)
(* made, checkpoints that sign a head of the chain, and the handovers from *)
(* one key to the next.                                                    *)
(*                                                                         *)
(* A digest is what it is taken of: two are equal when the contents are.   *)
(* A signature is the key that made it.                                    *)
(***************************************************************************)
EXTENDS Naturals, Sequences, FiniteSets

CONSTANTS
  Fact,         \* what a record can say
  Origin,       \* sensor instances
  Here,         \* the one whose bundle this is
  Key,          \* signing keys
  Root,         \* the key the sensor starts with
  MaxSequence,  \* bound on the sequence numbers
  MaxClaims,    \* bound on the claims
  MaxSeals,     \* bound on the checkpoints
  MaxRotations, \* bound on the handovers
  MaxRestores   \* how often a sensor comes back with an earlier key

BundleAssumption ==
  /\ Here \in Origin
  /\ Root \in Key
  /\ MaxSequence \in Nat /\ MaxClaims \in Nat /\ MaxSeals \in Nat /\ MaxRotations \in Nat /\ MaxRestores \in Nat

VARIABLES
  ledger,      \* records, each under its own digest
  claims,      \* the sets of records that claims name
  entries,     \* the chain
  checkpoints, \* in the order they were made
  rotations,   \* in the order they were made
  active,      \* the key the sensor signs with
  restores     \* how often it came back with an earlier one

vars == <<ledger, claims, entries, checkpoints, rotations, active, restores>>

Record == [origin : Origin, sequence : 1..MaxSequence, fact : Fact]

(* The digest of an entry is over the digest before it, so that a digest   *)
(* stands for the whole chain up to its entry: it is kept as that chain.   *)
Link(record) == [sequence |-> record.sequence, id |-> record]
Hash(previous, record) == Append(previous, Link(record))
NoHash == <<>>

Last == entries[Len(entries)]
HeadHash == IF entries = <<>> THEN NoHash ELSE Last.hash

-----------------------------------------------------------------------------
Init ==
  /\ ledger = {}
  /\ claims = {}
  /\ entries = <<>>
  /\ checkpoints = <<>>
  /\ rotations = <<>>
  /\ active = Root
  /\ restores = 0

(* Chain::append refuses what is not of its origin or does not follow.     *)
Admitted(record) ==
  /\ record.origin = Here
  /\ entries # <<>> => record.sequence > Last.sequence

(* Mutant: the link is made to the entry before the last.                  *)
LinkedToOlder(record) ==
  LET previous == IF Len(entries) < 2 THEN NoHash ELSE entries[Len(entries) - 1].hash
  IN [previous |-> previous, sequence |-> record.sequence, id |-> record,
      hash |-> Hash(previous, record)]

Linked(record) ==
  [previous |-> HeadHash, sequence |-> record.sequence, id |-> record,
   hash |-> Hash(HeadHash, record)]

(* Bundle::append: the chain first, then the ledger.                       *)
AppendRecord(record) ==
  /\ Admitted(record)
  /\ entries' = Append(entries, Linked(record))
  /\ ledger' = ledger \cup {record}
  /\ UNCHANGED <<claims, checkpoints, rotations, active, restores>>

(* Mutant: a claim may name any records.                                   *)
AddClaimUnchecked(named) ==
  /\ Cardinality(claims) < MaxClaims
  /\ named # {} /\ named \notin claims
  /\ claims' = claims \cup {named}
  /\ UNCHANGED <<ledger, entries, checkpoints, rotations, active, restores>>

(* Ledger::add_claim refuses a claim that names an absent record;          *)
(* DerivedClaim::new one that names none.                                  *)
AddClaim(named) ==
  /\ Cardinality(claims) < MaxClaims
  /\ named # {} /\ named \notin claims
  /\ named \subseteq ledger
  /\ claims' = claims \cup {named}
  /\ UNCHANGED <<ledger, entries, checkpoints, rotations, active, restores>>

(* Mutant: the number of entries is taken for the last sequence number.    *)
CheckpointOf(key) ==
  [key |-> key, through |-> Len(entries), count |-> Len(entries), head |-> Last.hash]

Checkpoint(key) ==
  [key |-> key, through |-> Last.sequence, count |-> Len(entries), head |-> Last.hash]

(* Bundle::seal signs the head; an empty chain has none.                   *)
Seal ==
  /\ Len(checkpoints) < MaxSeals
  /\ entries # <<>>
  /\ checkpoints' = Append(checkpoints, Checkpoint(active))
  /\ UNCHANGED <<ledger, claims, entries, rotations, active, restores>>

(* Rotation::sign and Bundle::rotate: the key in use hands over to one     *)
(* that is new, from the next sequence number on.                          *)
Rotate(next) ==
  /\ Len(rotations) < MaxRotations
  /\ next \notin {Root} \cup {rotations[i].replacing : i \in DOMAIN rotations}
  /\ rotations' = Append(rotations,
       [retiring |-> active, replacing |-> next,
        from |-> IF entries = <<>> THEN 1 ELSE Last.sequence + 1])
  /\ active' = next
  /\ UNCHANGED <<ledger, claims, entries, checkpoints, restores>>

(* The sensor is restored from a backup made before a handover.            *)
Restore ==
  /\ restores < MaxRestores
  /\ \E i \in DOMAIN rotations : active' = rotations[i].retiring
  /\ restores' = restores + 1
  /\ UNCHANGED <<ledger, claims, entries, checkpoints, rotations>>

Produce ==
  \/ \E record \in Record : AppendRecord(record)
  \/ \E named \in SUBSET Record : AddClaim(named)
  \/ Seal
  \/ \E next \in Key : Rotate(next)
  \/ Restore

Spec == Init /\ [][Produce]_vars

-----------------------------------------------------------------------------
(* chain.rs:530: the chain takes what follows and links it to its head.    *)
ChainHolds ==
  /\ \A i \in DOMAIN entries :
       /\ entries[i].previous = (IF i = 1 THEN NoHash ELSE entries[i - 1].hash)
       /\ entries[i].hash = Hash(entries[i].previous, entries[i].id)
       /\ entries[i].sequence = entries[i].id.sequence
  /\ \A i, j \in DOMAIN entries : i < j => entries[i].sequence < entries[j].sequence

(* bundle.rs:415: a record is in the ledger exactly when it is in the      *)
(* chain, and of this origin; and no claim names a record that is not.     *)
LedgerHolds ==
  /\ ledger = {entries[i].id : i \in DOMAIN entries}
  /\ \A record \in ledger : record.origin = Here
  /\ \A named \in claims : named \subseteq ledger

(* bundle.rs:439: what a checkpoint signed is found at its place, whatever *)
(* was appended after it.                                                  *)
CheckpointsHold ==
  \A c \in DOMAIN checkpoints :
    /\ checkpoints[c].count \in DOMAIN entries
    /\ entries[checkpoints[c].count].sequence = checkpoints[c].through
    /\ entries[checkpoints[c].count].hash = checkpoints[c].head
=============================================================================
