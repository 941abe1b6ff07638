--------------------------- MODULE EvidenceVerify ----------------------------
(***************************************************************************)
(* Bundle::verify (topgent-evidence/src/verify.rs) of a bundle that        *)
(* EvidenceBundle produced and that may be damaged or rebuilt on its way.  *)
(* The verifier trusts the key the sensor started with and has nothing     *)
(* but the bundle; the sensor's own state stays what it was.               *)
(***************************************************************************)
EXTENDS EvidenceBundle

Seqs == INSTANCE SequencesExt

CONSTANTS
  MaxDamage,    \* bound on what happens to a bundle on its way
  Unreachable   \* greater than every sequence number: a key not retired

VerifyAssumption == MaxDamage \in Nat /\ Unreachable \in Nat /\ Unreachable > MaxSequence + 1

VARIABLES
  carried,  \* whether the bundle has left the sensor
  bundle,   \* the bundle as the verifier will read it
  damage    \* how much happened to it since it left

allVars == <<vars, carried, bundle, damage>>

Exported ==
  [ledger |-> ledger, claims |-> claims, entries |-> entries,
   checkpoints |-> checkpoints, rotations |-> rotations]

VInit == Init /\ carried = FALSE /\ bundle = Exported /\ damage = 0

MakeMore ==
  /\ ~carried
  /\ Produce
  /\ bundle' = Exported'
  /\ UNCHANGED <<carried, damage>>

Carry ==
  /\ ~carried
  /\ carried' = TRUE
  /\ UNCHANGED <<vars, bundle, damage>>

Harm ==
  /\ carried
  /\ damage < MaxDamage
  /\ damage' = damage + 1
  /\ UNCHANGED <<vars, carried>>

(* A record that says something else has another digest.                   *)
Alter ==
  /\ Harm
  /\ \E old \in bundle.ledger, new \in Record \ bundle.ledger :
       bundle' = [bundle EXCEPT !.ledger = (@ \ {old}) \cup {new}]

Lose ==
  /\ Harm
  /\ \E old \in bundle.ledger : bundle' = [bundle EXCEPT !.ledger = @ \ {old}]

Insert ==
  /\ Harm
  /\ \E new \in Record \ bundle.ledger : bundle' = [bundle EXCEPT !.ledger = @ \cup {new}]

LoseEntry ==
  /\ Harm
  /\ \E i \in DOMAIN bundle.entries : bundle' = [bundle EXCEPT !.entries = Seqs!RemoveAt(@, i)]

SwapEntries ==
  /\ Harm
  /\ \E i, j \in DOMAIN bundle.entries :
       i < j /\ bundle' = [bundle EXCEPT !.entries[i] = bundle.entries[j],
                                        !.entries[j] = bundle.entries[i]]

LoseCheckpoint ==
  /\ Harm
  /\ \E c \in DOMAIN bundle.checkpoints :
       bundle' = [bundle EXCEPT !.checkpoints = Seqs!RemoveAt(@, c)]

LoseRotation ==
  /\ Harm
  /\ \E i \in DOMAIN bundle.rotations : bundle' = [bundle EXCEPT !.rotations = Seqs!RemoveAt(@, i)]

(* The chain is made anew, consistently, over the records that are there;  *)
(* the claims that lost a record are left out.                             *)
Ordered(s) == \A i, j \in DOMAIN s : i < j => s[i].sequence <= s[j].sequence /\ s[i] # s[j]
ChainOver(s) ==
  [i \in DOMAIN s |->
     [previous |-> [j \in 1..(i - 1) |-> Link(s[j])], sequence |-> s[i].sequence, id |-> s[i],
      hash |-> [j \in 1..i |-> Link(s[j])]]]

Rebuild ==
  /\ Harm
  /\ \E s \in [1..Cardinality(bundle.ledger) -> bundle.ledger] :
       /\ Ordered(s)
       /\ bundle' = [bundle EXCEPT !.entries = ChainOver(s),
                                  !.claims = {named \in @ : named \subseteq bundle.ledger}]

VNext ==
  \/ MakeMore \/ Carry
  \/ Alter \/ Lose \/ Insert \/ LoseEntry \/ SwapEntries \/ LoseCheckpoint \/ LoseRotation
  \/ Rebuild

VSpec == VInit /\ [][VNext]_allVars

-----------------------------------------------------------------------------
(* resolve_authority: the rotations in the order of from_sequence, each    *)
(* honoured when its retiring key has authority by then and signed it.     *)
(* Authority is the sequence number a key is retired from, 0 for a key     *)
(* that has none.                                                          *)
Rank(i) ==
  Cardinality({j \in DOMAIN bundle.rotations :
    bundle.rotations[j].from < bundle.rotations[i].from \/ (bundle.rotations[j].from = bundle.rotations[i].from /\ j < i)})
Nth(n) == bundle.rotations[CHOOSE i \in DOMAIN bundle.rotations : Rank(i) = n - 1]
Trusted == [k \in Key |-> IF k = Root THEN Unreachable ELSE 0]

Honoured(authority, rotation) ==
  IF authority[rotation.retiring] = 0 THEN authority
  ELSE [authority EXCEPT ![rotation.retiring] = rotation.from,
                         ![rotation.replacing] = Unreachable]

(* What the keys are worth after the first n rotations.                    *)
After[n \in 0..Len(bundle.rotations)] ==
  IF n = 0 THEN Trusted ELSE Honoured(After[n - 1], Nth(n))

(* Mutant: the key that takes over is not admitted.                        *)
AuthorityFixed == Trusted

Authority == After[Len(bundle.rotations)]

(* Every retiring key was known when its rotation came up.                 *)
RotationsKnown == \A n \in DOMAIN bundle.rotations : After[n - 1][Nth(n).retiring] # 0

Chain == bundle.entries

(* check_records.                                                          *)
RecordsHold ==
  /\ \A record \in bundle.ledger : record.origin = Here
  /\ \A named \in bundle.claims : named \subseteq bundle.ledger

(* check_chain.                                                            *)
LinksHold ==
  /\ \A i \in DOMAIN Chain :
       /\ Chain[i].hash = Append(Chain[i].previous,
                                 [sequence |-> Chain[i].sequence, id |-> Chain[i].id])
       /\ Chain[i].previous = (IF i = 1 THEN NoHash ELSE Chain[i - 1].hash)
       /\ Chain[i].id \in bundle.ledger
  /\ \A i \in 1..(Len(Chain) - 1) : Chain[i].sequence < Chain[i + 1].sequence
  /\ \A record \in bundle.ledger : \E i \in DOMAIN Chain : Chain[i].id = record

Gaps == {i \in 1..(Len(Chain) - 1) : Chain[i + 1].sequence > Chain[i].sequence + 1}

At(through) == CHOOSE i \in DOMAIN Chain :
  Chain[i].sequence = through /\ \A j \in 1..(i - 1) : Chain[j].sequence # through

(* Mutant: the position is compared, not the head.                         *)
SealUnread(checkpoint, authority) ==
  /\ checkpoint.through < authority[checkpoint.key]
  /\ \E i \in DOMAIN Chain : Chain[i].sequence = checkpoint.through
  /\ checkpoint.count = At(checkpoint.through)

(* check_checkpoints: the head that was signed is at its place, by a key   *)
(* with authority there.                                                   *)
SealHolds(checkpoint, authority) ==
  /\ checkpoint.through < authority[checkpoint.key]
  /\ \E i \in DOMAIN Chain : Chain[i].sequence = checkpoint.through
  /\ Chain[At(checkpoint.through)].hash = checkpoint.head
  /\ checkpoint.count = At(checkpoint.through)

SealsHold == \A c \in DOMAIN bundle.checkpoints : SealHolds(bundle.checkpoints[c], Authority)

Intact == RotationsKnown /\ RecordsHold /\ LinksHold /\ bundle.checkpoints # <<>> /\ SealsHold

Through ==
  CHOOSE t \in {bundle.checkpoints[c].through : c \in DOMAIN bundle.checkpoints} :
    \A c \in DOMAIN bundle.checkpoints : bundle.checkpoints[c].through <= t

-----------------------------------------------------------------------------
(* bundle.rs:10-12: what verifies is, up to the covering checkpoint, what  *)
(* the sensor made: nothing modified, inserted, reordered or left out.     *)
IntactIsAsMade ==
  Intact =>
    LET covered == {i \in DOMAIN entries : entries[i].sequence <= Through}
    IN /\ {i \in DOMAIN bundle.entries : bundle.entries[i].sequence <= Through} = covered
       /\ \A i \in covered : bundle.entries[i] = entries[i] /\ entries[i].id \in bundle.ledger

(* bundle.rs:439, 449: a bundle that reached the verifier as it was made   *)
(* verifies, also after handovers between its seals, and has gaps exactly  *)
(* when the sensor skipped a sequence number.                              *)
AsMadeIsIntact ==
  damage = 0 /\ restores = 0 /\ checkpoints # <<>> =>
    /\ Intact
    /\ Through = checkpoints[Len(checkpoints)].through
    /\ Gaps = {} <=> Last.sequence - entries[1].sequence + 1 = Len(entries)
=============================================================================
