------------------------ MODULE EvidenceBundleProofs -------------------------
(***************************************************************************)
(* For every set of facts, origins and keys and every bound: what a sensor *)
(* builds up is chained, recorded and sealed consistently, whatever the    *)
(* order of its calls; a bundle that verifies is what it made, whatever    *)
(* happened to it on its way; and what it made verifies.  For any number   *)
(* of surfaces that make it at once: the sensor that signs stays the same. *)
(* And a report that passes the gate is of a sweep that looked.            *)
(***************************************************************************)
EXTENDS EvidenceVerify, SensorIdentity, ReportGate, FiniteSetTheorems, SequenceTheorems,
        WellFoundedInduction, TLAPS

Ledgers == {records \in SUBSET Record : IsFiniteSet(records)}
Links == [sequence : 1..MaxSequence, id : Record]
Entries == [previous : Seq(Links), sequence : 1..MaxSequence, id : Record, hash : Seq(Links)]
Checkpoints == [key : Key, through : 1..MaxSequence, count : Nat, head : Seq(Links)]
Rotations == [retiring : Key, replacing : Key, from : 1..(MaxSequence + 1)]

Typed ==
  /\ ledger \in Ledgers
  /\ claims \subseteq SUBSET Record
  /\ entries \in Seq(Entries)
  /\ checkpoints \in Seq(Checkpoints)
  /\ rotations \in Seq(Rotations)
  /\ active \in Key

Inv == Typed /\ ChainHolds /\ LedgerHolds /\ CheckpointsHold

(* Of a chain with entries the last is one of them.                        *)
LEMMA LastTyped ==
  ASSUME Typed, entries # <<>>
  PROVE  /\ Len(entries) \in DOMAIN entries /\ Len(entries) \in Nat \ {0}
         /\ Last \in Entries
  BY DEF Typed, Last

(* What is hashed is hashed of a record of its own sequence number.        *)
LEMMA HeadTyped == ASSUME Typed PROVE HeadHash \in Seq(Links)
<1>1. CASE entries = <<>>  BY <1>1 DEF HeadHash, NoHash
<1>2. CASE entries # <<>>  BY <1>2, LastTyped DEF HeadHash, Entries
<1> QED BY <1>1, <1>2

LEMMA LinkedTyped ==
  ASSUME Typed, NEW record \in Record
  PROVE  Linked(record) \in Entries
<1>1. record.sequence \in 1..MaxSequence
  BY DEF Record
<1>2. Link(record) \in Links
  BY <1>1 DEF Link, Links
<1>3. Hash(HeadHash, record) \in Seq(Links)
  BY <1>2, HeadTyped DEF Hash
<1> QED BY <1>1, <1>3, HeadTyped DEF Linked, Entries

LEMMA InitEstablishes == ASSUME BundleAssumption, Init PROVE Inv
<1>1. Typed
  BY FS_EmptySet DEF Init, BundleAssumption, Typed, Ledgers
<1>2. ChainHolds /\ LedgerHolds /\ CheckpointsHold
  BY DEF Init, ChainHolds, LedgerHolds, CheckpointsHold
<1> QED BY <1>1, <1>2 DEF Inv

(* An appended entry leaves those before it where they were.               *)
LEMMA AppendPreserves ==
  ASSUME BundleAssumption, Inv, NEW record \in Record, AppendRecord(record)
  PROVE  Inv'
<1> DEFINE n == Len(entries)
<1> USE DEF Inv
<1>1. /\ entries \in Seq(Entries) /\ n \in Nat
      /\ Linked(record) \in Entries
      /\ entries' = Append(entries, Linked(record))
  BY LinkedTyped DEF Typed, AppendRecord
<1>2. /\ entries' \in Seq(Entries)
      /\ DOMAIN entries = 1..n /\ DOMAIN entries' = 1..(n + 1)
      /\ Len(entries') = n + 1
      /\ \A i \in 1..n : entries'[i] = entries[i]
      /\ entries'[n + 1] = Linked(record)
  BY <1>1
<1> HIDE DEF n
<1>3. Typed'
  <2>1. ledger' \in Ledgers
    BY FS_AddElement DEF Typed, Ledgers, AppendRecord
  <2> QED BY <1>2, <2>1 DEF Typed, AppendRecord
<1>4. ChainHolds'
  <2>1. ASSUME NEW i \in 1..n
        PROVE  /\ entries'[i].previous = (IF i = 1 THEN NoHash ELSE entries'[i - 1].hash)
               /\ entries'[i].hash = Hash(entries'[i].previous, entries'[i].id)
               /\ entries'[i].sequence = entries'[i].id.sequence
    <3>1. i = 1 \/ i - 1 \in 1..n
      BY <1>1
    <3> QED BY <1>2, <3>1 DEF ChainHolds
  <2>2. /\ entries'[n + 1].previous = (IF n + 1 = 1 THEN NoHash ELSE entries'[(n + 1) - 1].hash)
        /\ entries'[n + 1].hash = Hash(entries'[n + 1].previous, entries'[n + 1].id)
        /\ entries'[n + 1].sequence = entries'[n + 1].id.sequence
    <3>1. CASE n = 0
      BY <1>1, <1>2, <3>1 DEF Linked, HeadHash, n
    <3>2. CASE n # 0
      <4>1. entries # <<>> /\ HeadHash = entries[n].hash
        BY <1>1, <3>2 DEF HeadHash, Last, n
      <4>2. n \in 1..n /\ (n + 1) - 1 = n /\ n + 1 # 1
        BY <1>1, <3>2
      <4>3. entries'[n] = entries[n]
        BY <4>2, <1>2
      <4> QED BY <4>1, <4>2, <4>3, <1>2 DEF Linked
    <3> QED BY <3>1, <3>2
  <2>3. ASSUME NEW i \in 1..n
        PROVE  entries'[i].sequence < entries'[n + 1].sequence
    <3>1. n \in 1..n /\ entries # <<>>
      BY <1>1 DEF n
    <3>2. Last = entries[n] /\ Last.sequence < record.sequence
      BY <3>1 DEF AppendRecord, Admitted, Last, n
    <3>3. entries[i] \in Entries /\ entries[n] \in Entries
      BY <1>1, <1>2, <3>1
    <3>4. entries[i].sequence \in Nat /\ entries[n].sequence \in Nat /\ record.sequence \in Nat
      BY <3>3 DEF Entries, Record, BundleAssumption
    <3>5. i = n \/ i < n
      BY <1>1
    <3>6. i < n => entries[i].sequence < entries[n].sequence
      BY <3>1, <1>2 DEF ChainHolds
    <3>7. entries[i].sequence < record.sequence
      BY <3>2, <3>4, <3>5, <3>6
    <3>8. entries'[i] = entries[i] /\ entries'[n + 1].sequence = record.sequence
      BY <1>2 DEF Linked
    <3> QED BY <3>7, <3>8
  <2>4. ASSUME NEW i \in 1..(n + 1), NEW j \in 1..(n + 1), i < j
        PROVE  entries'[i].sequence < entries'[j].sequence
    <3>1. CASE j = n + 1
      <4>1. i \in 1..n
        BY <2>4, <3>1, <1>1
      <4> QED BY <4>1, <2>3, <3>1
    <3>2. CASE j # n + 1
      <4>1. i \in 1..n /\ j \in 1..n
        BY <2>4, <3>2, <1>1
      <4> QED BY <4>1, <2>4, <1>2 DEF ChainHolds
    <3> QED BY <3>1, <3>2
  <2>5. \A i \in 1..(n + 1) : i \in 1..n \/ i = n + 1
    BY <1>1
  <2> QED BY <2>1, <2>2, <2>4, <2>5, <1>2 DEF ChainHolds
<1>5. LedgerHolds'
  <2>1. ledger' = ledger \cup {record} /\ claims' = claims /\ record.origin = Here
    BY DEF AppendRecord, Admitted
  <2>2. entries'[n + 1].id = record
    BY <1>2 DEF Linked
  <2>3. {entries'[i].id : i \in 1..(n + 1)} = {entries[i].id : i \in 1..n} \cup {record}
    <3>1. \A i \in 1..(n + 1) : i \in 1..n \/ i = n + 1
      BY <1>1
    <3>2. 1..n \subseteq 1..(n + 1) /\ n + 1 \in 1..(n + 1)
      BY <1>1
    <3> QED BY <3>1, <3>2, <2>2, <1>2
  <2> QED BY <2>1, <2>3, <1>2 DEF LedgerHolds
<1>6. CheckpointsHold'
  <2>1. checkpoints' = checkpoints
    BY DEF AppendRecord
  <2>2. 1..n \subseteq 1..(n + 1)
    BY <1>1
  <2> QED BY <2>1, <2>2, <1>2 DEF CheckpointsHold
<1> QED BY <1>3, <1>4, <1>5, <1>6

LEMMA SealPreserves ==
  ASSUME BundleAssumption, Inv, Seal
  PROVE  Inv'
<1> USE DEF Inv
<1>1. UNCHANGED <<ledger, claims, entries, rotations, active>>
  BY DEF Seal
<1>2. /\ Len(entries) \in DOMAIN entries /\ Len(entries) \in Nat
      /\ Last \in Entries
  BY LastTyped DEF Seal
<1>3. Checkpoint(active) \in Checkpoints
  BY <1>2 DEF Checkpoint, Checkpoints, Entries, Typed
<1>4. checkpoints' = Append(checkpoints, Checkpoint(active)) /\ checkpoints \in Seq(Checkpoints)
  BY DEF Seal, Typed
<1>5. Typed'
  BY <1>1, <1>3, <1>4 DEF Typed
<1>6. ChainHolds' /\ LedgerHolds'
  BY <1>1 DEF ChainHolds, LedgerHolds, Hash, Link
<1>7. CheckpointsHold'
  <2>1. ASSUME NEW c \in DOMAIN checkpoints'
        PROVE  \/ c \in DOMAIN checkpoints /\ checkpoints'[c] = checkpoints[c]
               \/ checkpoints'[c] = Checkpoint(active)
    BY <1>4
  <2>2. /\ Checkpoint(active).count \in DOMAIN entries
        /\ entries[Checkpoint(active).count].sequence = Checkpoint(active).through
        /\ entries[Checkpoint(active).count].hash = Checkpoint(active).head
    BY <1>2 DEF Checkpoint, Last
  <2> QED BY <2>1, <2>2, <1>1 DEF CheckpointsHold
<1> QED BY <1>5, <1>6, <1>7

(* The remaining steps touch neither the chain nor what was signed.        *)
LEMMA OthersPreserve ==
  ASSUME BundleAssumption, Inv,
         \/ \E named \in SUBSET Record : AddClaim(named)
         \/ \E next \in Key : Rotate(next)
         \/ Restore
         \/ UNCHANGED vars
  PROVE  Inv'
<1> USE DEF Inv
<1>1. UNCHANGED <<ledger, entries, checkpoints>>
  BY DEF AddClaim, Rotate, Restore, vars
<1>2. claims' \subseteq SUBSET Record /\ \A named \in claims' : named \subseteq ledger
  <2>1. claims \subseteq SUBSET Record /\ \A named \in claims : named \subseteq ledger
    BY DEF Typed, LedgerHolds
  <2>2. CASE \E named \in SUBSET Record : AddClaim(named)
    BY <2>1, <2>2 DEF AddClaim
  <2>3. CASE ~ \E named \in SUBSET Record : AddClaim(named)
    BY <2>1, <2>3 DEF Rotate, Restore, vars
  <2> QED BY <2>2, <2>3
<1>3. rotations' \in Seq(Rotations) /\ active' \in Key
  <2>1. CASE \E next \in Key : Rotate(next)
    <3>1. PICK next \in Key : Rotate(next)
      BY <2>1
    <3>2. (IF entries = <<>> THEN 1 ELSE Last.sequence + 1) \in 1..(MaxSequence + 1)
      <4>1. CASE entries = <<>>  BY <4>1 DEF BundleAssumption
      <4>2. CASE entries # <<>>  BY <4>2, LastTyped DEF Entries, BundleAssumption
      <4> QED BY <4>1, <4>2
    <3> DEFINE handover == [retiring |-> active, replacing |-> next,
                            from |-> IF entries = <<>> THEN 1 ELSE Last.sequence + 1]
    <3>3. handover \in Rotations
      BY <3>2 DEF Rotations, Typed
    <3>4. rotations' = Append(rotations, handover) /\ active' = next
      BY <3>1 DEF Rotate
    <3> HIDE DEF handover
    <3> QED BY <3>3, <3>4 DEF Typed
  <2>2. CASE Restore
    <3>1. PICK i \in DOMAIN rotations : active' = rotations[i].retiring
      BY <2>2 DEF Restore
    <3>2. rotations[i] \in Rotations
      BY DEF Typed
    <3>3. rotations[i].retiring \in Key
      BY <3>2 DEF Rotations
    <3> QED BY <2>2, <3>1, <3>3 DEF Restore, Typed
  <2>3. CASE UNCHANGED <<rotations, active>>
    BY <2>3 DEF Typed
  <2> QED BY <2>1, <2>2, <2>3 DEF AddClaim, vars
<1>4. Typed'
  BY <1>1, <1>2, <1>3 DEF Typed
<1>5. ChainHolds' /\ CheckpointsHold'
  BY <1>1 DEF ChainHolds, CheckpointsHold, Hash, Link
<1>6. LedgerHolds'
  BY <1>1, <1>2 DEF LedgerHolds
<1> QED BY <1>4, <1>5, <1>6

LEMMA StepPreserves == ASSUME BundleAssumption, Inv, [Produce]_vars PROVE Inv'
<1>1. CASE \E record \in Record : AppendRecord(record)
  BY <1>1, AppendPreserves
<1>2. CASE Seal
  BY <1>2, SealPreserves
<1>3. CASE \/ \E named \in SUBSET Record : AddClaim(named)
           \/ \E next \in Key : Rotate(next)
           \/ Restore
           \/ UNCHANGED vars
  BY <1>3, OthersPreserve
<1> QED BY <1>1, <1>2, <1>3 DEF Produce

(* bundle.rs:415-446: every interleaving of a sensor's calls keeps         *)
(* the bundle's parts consistent.                                          *)
LEMMA Inductive == ASSUME BundleAssumption PROVE Spec => []Inv
<1>1. Init => Inv
  BY InitEstablishes
<1>2. Inv /\ [Produce]_vars => Inv'
  BY StepPreserves
<1> QED BY <1>1, <1>2, PTL DEF Spec

(* chain.rs:530: entries follow one another by number and by hash.         *)
THEOREM Chained == ASSUME BundleAssumption PROVE Spec => []ChainHolds
<1>1. Inv => ChainHolds  BY DEF Inv
<1> QED BY <1>1, Inductive, PTL

(* bundle.rs:415: the ledger holds exactly what is chained.                *)
THEOREM Recorded == ASSUME BundleAssumption PROVE Spec => []LedgerHolds
<1>1. Inv => LedgerHolds  BY DEF Inv
<1> QED BY <1>1, Inductive, PTL

(* bundle.rs:439: what a checkpoint signed stays at its place.             *)
THEOREM Sealed == ASSUME BundleAssumption PROVE Spec => []CheckpointsHold
<1>1. Inv => CheckpointsHold  BY DEF Inv
<1> QED BY <1>1, Inductive, PTL

-----------------------------------------------------------------------------
(* Among natural numbers there is a smallest, and of finitely many a       *)
(* largest: the provers have no induction, and this stands in for it.      *)
LEMMA Smallest ==
  ASSUME NEW T \in SUBSET Nat, T # {}
  PROVE  \E x \in T : \A y \in T : x <= y
<1> DEFINE R == OpToRel(<, Nat)
<1>1. IsWellFoundedOn(R, Nat)
  BY ONLY NatLessThanWellFounded, Zenon
<1>2. \A x, y \in Nat : x < y => <<x, y>> \in R
  BY SMT DEF OpToRel
<1> HIDE DEF R
<1>3. PICK x \in T : \A y \in T : ~ (<<y, x>> \in R)
  BY <1>1, WFMin, Zenon
<1>4. x \in Nat /\ \A y \in T : y \in Nat /\ ~(y < x)
  BY <1>2, <1>3
<1>5. \A y \in T : x <= y
  BY <1>4
<1> QED BY <1>5

LEMMA Largest ==
  ASSUME NEW bound \in Nat, NEW T \in SUBSET 0..bound, T # {}
  PROVE  \E x \in T : \A y \in T : y <= x
<1> DEFINE below == {bound - x : x \in T}
<1>1. below \in SUBSET Nat /\ below # {}
  <2>1. \A x \in T : bound - x \in Nat
    OBVIOUS
  <2> QED BY <2>1
<1>2. PICK least \in below : \A y \in below : least <= y
  BY <1>1, Smallest
<1>3. PICK x \in T : least = bound - x
  BY <1>2
<1>4. \A y \in T : bound - x <= bound - y
  BY <1>2, <1>3
<1>5. \A y \in T : y <= x
  BY <1>4
<1> QED BY <1>5

(* Equal hashes: the same entry, and the same hash before it.              *)
LEMMA HashInjective ==
  ASSUME NEW p \in Seq(Links), NEW q \in Seq(Links), NEW x \in Links, NEW y \in Links,
         Append(p, x) = Append(q, y)
  PROVE  p = q /\ x = y
BY AppendInjective

LEMMA EntriesAgree ==
  ASSUME NEW x \in Entries, NEW y \in Entries,
         x.previous = y.previous, x.sequence = y.sequence, x.id = y.id, x.hash = y.hash
  PROVE  x = y
BY DEF Entries

(***************************************************************************)
(* What a verifier can rely on.  The bundle may have lost, swapped,        *)
(* altered or rebuilt anything on its way, but no key signs anew: each of  *)
(* its checkpoints is one that the sensor made.                            *)
(***************************************************************************)
Bundles ==
  [ledger : Ledgers, claims : SUBSET SUBSET Record, entries : Seq(Entries),
   checkpoints : Seq(Checkpoints), rotations : Seq(Rotations)]

Signed ==
  \A c \in DOMAIN bundle.checkpoints :
    \E d \in DOMAIN checkpoints : bundle.checkpoints[c] = checkpoints[d]

VInv == Inv /\ bundle \in Bundles /\ Signed /\ (~carried => bundle = Exported)

(* The seal that covers most is one of the seals.                          *)
LEMMA ThroughIsSealed ==
  ASSUME BundleAssumption, bundle \in Bundles, bundle.checkpoints # <<>>
  PROVE  \E c \in DOMAIN bundle.checkpoints : bundle.checkpoints[c].through = Through
<1> DEFINE throughs == {bundle.checkpoints[c].through : c \in DOMAIN bundle.checkpoints}
<1>1. bundle.checkpoints \in Seq(Checkpoints)
  BY DEF Bundles
<1>2. throughs # {}
  <2>1. 1 \in DOMAIN bundle.checkpoints
    BY <1>1
  <2> QED BY <2>1
<1>3. throughs \in SUBSET (0..MaxSequence)
  <2>1. \A c \in DOMAIN bundle.checkpoints : bundle.checkpoints[c].through \in 1..MaxSequence
    <3>1. \A c \in DOMAIN bundle.checkpoints : bundle.checkpoints[c] \in Checkpoints
      BY <1>1
    <3> QED BY <3>1 DEF Checkpoints
  <2>2. 1..MaxSequence \subseteq 0..MaxSequence
    BY DEF BundleAssumption
  <2>3. \A t \in throughs : t \in 0..MaxSequence
    BY <2>1, <2>2
  <2> QED BY <2>3
<1>4. \E t \in throughs : \A u \in throughs : u <= t
  BY <1>2, <1>3, Largest DEF BundleAssumption
<1>5. \E t \in throughs : \A c \in DOMAIN bundle.checkpoints : bundle.checkpoints[c].through <= t
  BY <1>4
<1>6. Through \in throughs
  BY <1>5 DEF Through
<1> QED BY <1>6

LEMMA AtIsThere ==
  ASSUME bundle \in Bundles, NEW through,
         \E i \in DOMAIN Chain : Chain[i].sequence = through
  PROVE  At(through) \in DOMAIN Chain /\ Chain[At(through)].sequence = through
<1> DEFINE places == {i \in DOMAIN Chain : Chain[i].sequence = through}
<1>1. places \in SUBSET Nat /\ places # {}
  BY DEF Bundles, Chain
<1>2. PICK first \in places : \A i \in places : first <= i
  BY <1>1, Smallest
<1>3. first \in Nat
  BY <1>1
<1>4. \A j \in 1..(first - 1) : j \in DOMAIN Chain
  <2>1. first \in DOMAIN Chain
    BY <1>2
  <2> QED BY <2>1 DEF Bundles, Chain
<1>5. \A j \in 1..(first - 1) : j \notin places
  BY <1>2, <1>3
<1>6. Chain[first].sequence = through /\ \A j \in 1..(first - 1) : Chain[j].sequence # through
  BY <1>2, <1>4, <1>5
<1> QED BY <1>2, <1>6 DEF At

(* Sequence numbers that grow from each entry to the next grow throughout. *)
LEMMA ChainGrows ==
  ASSUME bundle \in Bundles, LinksHold, BundleAssumption,
         NEW i \in DOMAIN Chain, NEW j \in DOMAIN Chain, i < j
  PROVE  Chain[i].sequence < Chain[j].sequence
<1> DEFINE wrong == {k \in DOMAIN Chain : i < k /\ ~ (Chain[i].sequence < Chain[k].sequence)}
<1>1. Chain \in Seq(Entries)
  BY DEF Bundles, Chain
<1>2. \A k \in DOMAIN Chain : Chain[k].sequence \in Nat
  <2>1. \A k \in DOMAIN Chain : Chain[k] \in Entries
    BY <1>1
  <2>2. \A x \in Entries : x.sequence \in Nat
    BY DEF Entries, BundleAssumption
  <2> QED BY <2>1, <2>2
<1>3. CASE wrong # {}
  <2>1. wrong \in SUBSET Nat
    BY <1>1
  <2>2. PICK k \in wrong : \A m \in wrong : k <= m
    BY <2>1, <1>3, Smallest
  <2>3. k \in DOMAIN Chain /\ i < k /\ ~(Chain[i].sequence < Chain[k].sequence)
    BY <2>2
  <2>4. k - 1 \in 1..(Len(Chain) - 1) /\ k - 1 \in DOMAIN Chain /\ (k - 1) + 1 = k
    BY <1>1, <2>3
  <2>5. Chain[k - 1].sequence < Chain[k].sequence
    BY <2>4 DEF LinksHold
  <2>6. k - 1 \notin wrong
    <3>1. k - 1 \in wrong => k <= k - 1
      BY <2>2
    <3>2. k \in Nat
      BY <2>1
    <3> QED BY <3>1, <3>2
  <2>7. k - 1 = i \/ Chain[i].sequence < Chain[k - 1].sequence
    <3>1. k - 1 = i \/ i < k - 1
      BY <1>1, <2>3
    <3> QED BY <3>1, <2>4, <2>6
  <2>8. /\ Chain[i].sequence \in Nat /\ Chain[k - 1].sequence \in Nat
        /\ Chain[k].sequence \in Nat
    BY <1>2, <2>3, <2>4
  <2>9. Chain[i].sequence < Chain[k].sequence
    BY <2>5, <2>7, <2>8
  <2> QED BY <2>3, <2>9
<1>4. CASE wrong = {}
  BY <1>4
<1> QED BY <1>3, <1>4

(* The record a chain entry is hashed of.                                  *)
LinkOf(entry) == [sequence |-> entry.sequence, id |-> entry.id]

LEMMA LinkTyped ==
  ASSUME NEW x \in Entries, NEW y \in Entries
  PROVE  /\ LinkOf(x) \in Links
         /\ LinkOf(x) = LinkOf(y) => x.sequence = y.sequence /\ x.id = y.id
BY DEF Entries, Links, LinkOf

(* What the sensor's chain is, in the form the verifier checks it in.      *)
LEMMA MadeChain ==
  ASSUME Inv, NEW j \in DOMAIN entries
  PROVE  /\ entries[j] \in Entries
         /\ entries[j].hash = Append(entries[j].previous, LinkOf(entries[j]))
         /\ entries[j].previous = (IF j = 1 THEN NoHash ELSE entries[j - 1].hash)
<1>1. entries[j] \in Entries
  BY DEF Inv, Typed
<1>2. /\ entries[j].hash = Append(entries[j].previous, Link(entries[j].id))
      /\ entries[j].sequence = entries[j].id.sequence
      /\ entries[j].previous = (IF j = 1 THEN NoHash ELSE entries[j - 1].hash)
  BY DEF Inv, ChainHolds, Hash
<1> QED BY <1>1, <1>2 DEF Link, LinkOf

LEMMA ReadChain ==
  ASSUME bundle \in Bundles, LinksHold, NEW j \in DOMAIN Chain
  PROVE  /\ Chain[j] \in Entries
         /\ Chain[j].hash = Append(Chain[j].previous, LinkOf(Chain[j]))
         /\ Chain[j].previous = (IF j = 1 THEN NoHash ELSE Chain[j - 1].hash)
         /\ Chain[j].id \in bundle.ledger
<1>1. Chain \in Seq(Entries)
  BY DEF Bundles, Chain
<1>2. Chain[j] \in Entries
  BY <1>1
<1> QED BY <1>2 DEF LinksHold, LinkOf

(* Two entries with one hash are one entry, and so are those before them.  *)
LEMMA SameHash ==
  ASSUME VInv, LinksHold, NEW j \in DOMAIN Chain, j \in DOMAIN entries,
         Chain[j].hash = entries[j].hash
  PROVE  /\ Chain[j] = entries[j]
         /\ j # 1 => Chain[j - 1].hash = entries[j - 1].hash
<1> DEFINE x == Chain[j]
           y == entries[j]
<1>1. /\ x \in Entries /\ x.hash = Append(x.previous, LinkOf(x))
      /\ x.previous = (IF j = 1 THEN NoHash ELSE Chain[j - 1].hash)
  BY ReadChain DEF VInv
<1>2. /\ y \in Entries /\ y.hash = Append(y.previous, LinkOf(y))
      /\ y.previous = (IF j = 1 THEN NoHash ELSE entries[j - 1].hash)
  BY MadeChain DEF VInv
<1>3. x.hash = y.hash
  OBVIOUS
<1> HIDE DEF x, y
<1>4. x.previous \in Seq(Links) /\ y.previous \in Seq(Links)
  BY <1>1, <1>2 DEF Entries
<1>5. LinkOf(x) \in Links /\ LinkOf(y) \in Links
  BY <1>1, <1>2, LinkTyped
<1>6. x.previous = y.previous /\ LinkOf(x) = LinkOf(y)
  <2>1. PICK p \in Seq(Links), a \in Links : p = x.previous /\ a = LinkOf(x)
    BY <1>4, <1>5
  <2>2. PICK q \in Seq(Links), b \in Links : q = y.previous /\ b = LinkOf(y)
    BY <1>4, <1>5
  <2>3. Append(p, a) = Append(q, b)
    BY <1>1, <1>2, <1>3, <2>1, <2>2
  <2>4. p = q /\ a = b
    BY <2>3, HashInjective
  <2> QED BY <2>1, <2>2, <2>4
<1>7. x.sequence = y.sequence /\ x.id = y.id
  BY <1>1, <1>2, <1>6, LinkTyped
<1>8. x = y
  BY <1>1, <1>2, <1>3, <1>6, <1>7, EntriesAgree
<1>9. j # 1 => x.previous = Chain[j - 1].hash /\ y.previous = entries[j - 1].hash
  BY <1>1, <1>2
<1>10. j # 1 => Chain[j - 1].hash = entries[j - 1].hash
  BY <1>6, <1>9
<1> QED BY <1>8, <1>10 DEF x, y

(* So a hash that was signed fixes the whole chain up to it.               *)
LEMMA SameUpTo ==
  ASSUME VInv, LinksHold, NEW n \in DOMAIN Chain, n \in DOMAIN entries,
         Chain[n].hash = entries[n].hash
  PROVE  \A j \in 1..n : Chain[j] = entries[j]
<1> DEFINE wrong == {j \in 1..n : Chain[j].hash # entries[j].hash}
<1>1. Chain \in Seq(Entries) /\ entries \in Seq(Entries)
  BY DEF VInv, Inv, Typed, Bundles, Chain
<1>2. n \in Nat /\ \A j \in 1..n : j \in DOMAIN Chain /\ j \in DOMAIN entries
  BY <1>1
<1>3. wrong = {}
  <2>1. SUFFICES ASSUME wrong # {} PROVE FALSE
    OBVIOUS
  <2>2. wrong \in SUBSET (0..n)
    BY <1>2
  <2>3. PICK m \in wrong : \A j \in wrong : j <= m
    BY <1>2, <2>1, <2>2, Largest
  <2>4. m \in 1..n /\ m # n /\ Chain[m].hash # entries[m].hash
    BY <2>3
  <2>5. m + 1 \in 1..n /\ m + 1 # 1 /\ (m + 1) - 1 = m
    BY <1>2, <2>4
  <2>6. m + 1 \notin wrong
    <3>1. m + 1 \in wrong => m + 1 <= m
      BY <2>3
    <3> QED BY <2>4, <3>1
  <2>7. Chain[m + 1].hash = entries[m + 1].hash
    BY <2>5, <2>6
  <2>8. Chain[(m + 1) - 1].hash = entries[(m + 1) - 1].hash
    BY <1>2, <2>5, <2>7, SameHash
  <2> QED BY <2>4, <2>5, <2>8
<1>4. \A j \in 1..n : Chain[j].hash = entries[j].hash
  BY <1>3
<1> QED BY <1>2, <1>4, SameHash

LEMMA IntactAgrees == ASSUME BundleAssumption, VInv PROVE IntactIsAsMade
<1> SUFFICES ASSUME Intact PROVE
      LET covered == {i \in DOMAIN entries : entries[i].sequence <= Through}
      IN /\ {i \in DOMAIN bundle.entries : bundle.entries[i].sequence <= Through} = covered
         /\ \A i \in covered : bundle.entries[i] = entries[i] /\ entries[i].id \in bundle.ledger
  BY DEF IntactIsAsMade
<1>1. bundle \in Bundles /\ Inv /\ LinksHold /\ bundle.checkpoints # <<>>
  BY DEF VInv, Intact
<1>2. PICK c \in DOMAIN bundle.checkpoints : bundle.checkpoints[c].through = Through
  BY <1>1, ThroughIsSealed
<1> DEFINE n == At(Through)
<1>3. /\ \E i \in DOMAIN Chain : Chain[i].sequence = Through
      /\ Chain[n].hash = bundle.checkpoints[c].head
      /\ bundle.checkpoints[c].count = n
  BY <1>2 DEF Intact, SealsHold, SealHolds
<1>4. n \in DOMAIN Chain /\ Chain[n].sequence = Through
  BY <1>1, <1>3, AtIsThere
<1>5. PICK d \in DOMAIN checkpoints : bundle.checkpoints[c] = checkpoints[d]
  BY DEF VInv, Signed
<1>6. /\ n \in DOMAIN entries
      /\ entries[n].sequence = Through
      /\ entries[n].hash = Chain[n].hash
  BY <1>1, <1>2, <1>3, <1>5 DEF Inv, CheckpointsHold
<1> HIDE DEF n
<1>7. \A j \in 1..n : Chain[j] = entries[j]
  BY <1>1, <1>4, <1>6, SameUpTo
<1>8. Chain \in Seq(Entries) /\ entries \in Seq(Entries)
  BY <1>1 DEF Inv, Typed, Bundles, Chain
<1>9. n \in Nat /\ n > 0 /\ \A j \in 1..n : j \in DOMAIN Chain /\ j \in DOMAIN entries
  BY <1>4, <1>6, <1>8
<1>10. /\ \A i \in DOMAIN Chain : Chain[i].sequence \in Nat
       /\ \A i \in DOMAIN entries : entries[i].sequence \in Nat
  <2>1. \A i \in DOMAIN Chain : Chain[i] \in Entries
    BY <1>8
  <2>2. \A i \in DOMAIN entries : entries[i] \in Entries
    BY <1>8
  <2>3. \A x \in Entries : x.sequence \in Nat
    BY DEF Entries, BundleAssumption
  <2> QED BY <2>1, <2>2, <2>3
<1>11. \A i \in DOMAIN Chain : Chain[i].sequence <= Through <=> i \in 1..n
  <2>1. \A i \in DOMAIN Chain : i \in 1..n \/ n < i
    BY <1>8, <1>9
  <2>2. \A i \in DOMAIN Chain : n < i => Chain[n].sequence < Chain[i].sequence
    BY <1>1, <1>4, ChainGrows
  <2>3. \A i \in 1..n : i = n \/ i < n
    BY <1>9
  <2>4. \A i \in DOMAIN Chain : i < n => Chain[i].sequence < Chain[n].sequence
    BY <1>1, <1>4, ChainGrows
  <2> QED BY <1>4, <1>9, <1>10, <2>1, <2>2, <2>3, <2>4
<1>12. \A i \in DOMAIN entries : entries[i].sequence <= Through <=> i \in 1..n
  <2>1. \A i \in DOMAIN entries : i \in 1..n \/ n < i
    BY <1>8, <1>9
  <2>2. \A i, j \in DOMAIN entries : i < j => entries[i].sequence < entries[j].sequence
    BY <1>1 DEF Inv, ChainHolds
  <2>3. \A i \in 1..n : i = n \/ i < n
    BY <1>9
  <2> QED BY <1>6, <1>9, <1>10, <2>1, <2>2, <2>3
<1>13. \A i \in 1..n : entries[i].id \in bundle.ledger
  BY <1>1, <1>7, <1>9, ReadChain
<1> QED BY <1>7, <1>9, <1>11, <1>12, <1>13 DEF Chain

-----------------------------------------------------------------------------
(* What is taken out of a sequence leaves the others, in their order.      *)
LEMMA RemovalIsPart ==
  ASSUME NEW S, NEW s \in Seq(S), NEW i \in DOMAIN s
  PROVE  /\ Seqs!RemoveAt(s, i) \in Seq(S)
         /\ \A c \in DOMAIN Seqs!RemoveAt(s, i) : \E d \in DOMAIN s : Seqs!RemoveAt(s, i)[c] = s[d]
<1> DEFINE low == SubSeq(s, 1, i - 1)
           high == SubSeq(s, i + 1, Len(s))
<1>1. i \in 1..Len(s) /\ Len(s) \in Nat
  OBVIOUS
<1>2. low \in Seq(S) /\ Len(low) = i - 1 /\ \A c \in 1..(i - 1) : low[c] = s[c]
  BY <1>1
<1>3. /\ high \in Seq(S) /\ Len(high) = Len(s) - i
      /\ \A c \in 1..(Len(s) - i) : high[c] = s[i + c]
  BY <1>1
<1>4. Seqs!RemoveAt(s, i) = low \o high
  BY DEF Seqs!RemoveAt
<1> HIDE DEF low, high
<1>5. /\ low \o high \in Seq(S) /\ Len(low \o high) = Len(s) - 1
      /\ \A c \in 1..(Len(s) - 1) :
           (low \o high)[c] = IF c <= i - 1 THEN low[c] ELSE high[c - (i - 1)]
  <2>1. /\ low \o high \in Seq(S) /\ Len(low \o high) = Len(low) + Len(high)
        /\ \A c \in 1..(Len(low) + Len(high)) :
             (low \o high)[c] = IF c <= Len(low) THEN low[c] ELSE high[c - Len(low)]
    BY <1>2, <1>3, ConcatProperties
  <2>2. Len(low) = i - 1 /\ Len(low) + Len(high) = Len(s) - 1
    BY <1>1, <1>2, <1>3
  <2> QED BY <2>1, <2>2
<1>6. ASSUME NEW c \in DOMAIN (low \o high)
      PROVE  \E d \in DOMAIN s : (low \o high)[c] = s[d]
  <2>1. c \in 1..(Len(s) - 1)
    BY <1>5
  <2>2. CASE c <= i - 1
    <3>1. c \in 1..(i - 1) /\ c \in DOMAIN s
      BY <1>1, <2>1, <2>2
    <3> QED BY <1>2, <1>5, <2>1, <2>2, <3>1
  <2>3. CASE ~(c <= i - 1)
    <3>1. c - (i - 1) \in 1..(Len(s) - i) /\ i + (c - (i - 1)) = c + 1 /\ c + 1 \in DOMAIN s
      BY <1>1, <2>1, <2>3
    <3>2. high[c - (i - 1)] = s[c + 1]
      BY <1>3, <3>1
    <3> QED BY <1>5, <2>1, <2>3, <3>1, <3>2
  <2> QED BY <2>2, <2>3
<1> QED BY <1>4, <1>5, <1>6

(* A chain made anew over records is a chain of entries.                   *)
LEMMA RebuiltTyped ==
  ASSUME BundleAssumption, NEW n \in Nat, NEW s \in [1..n -> Record]
  PROVE  ChainOver(s) \in Seq(Entries)
<1>1. \A j \in 1..n : s[j] \in Record /\ s[j].sequence \in 1..MaxSequence
  BY DEF Record
<1>2. \A j \in 1..n : Link(s[j]) \in Links
  BY <1>1 DEF Link, Links
<1>3. ASSUME NEW i \in 1..n
      PROVE  /\ [j \in 1..(i - 1) |-> Link(s[j])] \in Seq(Links)
             /\ [j \in 1..i |-> Link(s[j])] \in Seq(Links)
  <2>1. \A m \in {i - 1, i} : m \in Nat /\ \A j \in 1..m : j \in 1..n
    OBVIOUS
  <2>2. \A m \in {i - 1, i} : [j \in 1..m |-> Link(s[j])] \in [1..m -> Links]
    BY <1>2, <2>1
  <2> QED BY <2>1, <2>2, IsASeq
<1>4. ASSUME NEW i \in 1..n
      PROVE  [previous |-> [j \in 1..(i - 1) |-> Link(s[j])], sequence |-> s[i].sequence,
              id |-> s[i], hash |-> [j \in 1..i |-> Link(s[j])]] \in Entries
  BY <1>1, <1>3 DEF Entries
<1>5. DOMAIN s = 1..n
  OBVIOUS
<1> QED BY <1>4, <1>5 DEF ChainOver

LEMMA ExportedIsMade ==
  ASSUME Inv, bundle = Exported
  PROVE  bundle \in Bundles /\ Signed
BY DEF Inv, Typed, Exported, Bundles, Signed

(* Damage touches nothing of the sensor's own.                             *)
LEMMA HarmSpares ==
  ASSUME BundleAssumption, VInv, Harm, bundle' \in Bundles,
         \A c \in DOMAIN bundle'.checkpoints :
           \E d \in DOMAIN bundle.checkpoints : bundle'.checkpoints[c] = bundle.checkpoints[d]
  PROVE  VInv'
<1>1. UNCHANGED vars /\ carried' = TRUE
  BY DEF Harm
<1>2. Inv'
  BY <1>1, StepPreserves DEF VInv
<1>3. Signed'
  BY <1>1 DEF VInv, Signed, vars
<1> QED BY <1>1, <1>2, <1>3 DEF VInv

LEMMA DamagePreserves ==
  ASSUME BundleAssumption, VInv,
         Alter \/ Lose \/ Insert \/ LoseEntry \/ SwapEntries \/ LoseCheckpoint
           \/ LoseRotation \/ Rebuild
  PROVE  VInv'
<1>1. /\ bundle \in Bundles
      /\ bundle.ledger \in Ledgers /\ bundle.entries \in Seq(Entries)
      /\ bundle.checkpoints \in Seq(Checkpoints) /\ bundle.rotations \in Seq(Rotations)
  BY DEF VInv, Bundles
<1>2. CASE Alter \/ Lose \/ Insert
  <2>1. PICK ledgerNow \in Ledgers : bundle' = [bundle EXCEPT !.ledger = ledgerNow]
    <3>1. CASE Alter
      <4>1. PICK old \in bundle.ledger, new \in Record \ bundle.ledger :
              bundle' = [bundle EXCEPT !.ledger = (@ \ {old}) \cup {new}]
        BY <3>1 DEF Alter
      <4>2. IsFiniteSet((bundle.ledger \ {old}) \cup {new})
        <5>1. IsFiniteSet(bundle.ledger \ {old})
          BY <1>1, FS_RemoveElement DEF Ledgers
        <5> QED BY <5>1, FS_AddElement
      <4> QED BY <1>1, <4>1, <4>2 DEF Ledgers
    <3>2. CASE Lose
      <4>1. PICK old \in bundle.ledger : bundle' = [bundle EXCEPT !.ledger = @ \ {old}]
        BY <3>2 DEF Lose
      <4> QED BY <1>1, <4>1, FS_RemoveElement DEF Ledgers
    <3>3. CASE Insert
      <4>1. PICK new \in Record \ bundle.ledger :
              bundle' = [bundle EXCEPT !.ledger = @ \cup {new}]
        BY <3>3 DEF Insert
      <4> QED BY <1>1, <4>1, FS_AddElement DEF Ledgers
    <3> QED BY <1>2, <3>1, <3>2, <3>3
  <2>2. bundle' \in Bundles /\ bundle'.checkpoints = bundle.checkpoints
    BY <1>1, <2>1 DEF Bundles
  <2> QED BY <1>2, <2>2, HarmSpares DEF Alter, Lose, Insert
<1>3. CASE LoseEntry
  <2>1. PICK i \in DOMAIN bundle.entries :
          bundle' = [bundle EXCEPT !.entries = Seqs!RemoveAt(@, i)]
    BY <1>3 DEF LoseEntry
  <2>2. Seqs!RemoveAt(bundle.entries, i) \in Seq(Entries)
    BY <1>1, RemovalIsPart
  <2>3. bundle' \in Bundles /\ bundle'.checkpoints = bundle.checkpoints
    BY <1>1, <2>1, <2>2 DEF Bundles
  <2> QED BY <1>3, <2>3, HarmSpares DEF LoseEntry
<1>4. CASE SwapEntries
  <2>1. PICK i \in DOMAIN bundle.entries, j \in DOMAIN bundle.entries :
          bundle' = [bundle EXCEPT !.entries[i] = bundle.entries[j],
                                   !.entries[j] = bundle.entries[i]]
    BY <1>4 DEF SwapEntries
  <2> DEFINE first == [bundle.entries EXCEPT ![i] = bundle.entries[j]]
             swapped == [first EXCEPT ![j] = bundle.entries[i]]
  <2>2. bundle.entries[i] \in Entries /\ bundle.entries[j] \in Entries
    BY <1>1
  <2>3. first \in Seq(Entries) /\ DOMAIN first = DOMAIN bundle.entries
    BY <1>1, <2>2
  <2>4. swapped \in Seq(Entries)
    BY <2>2, <2>3
  <2>5. bundle' = [bundle EXCEPT !.entries = swapped]
    BY <1>1, <2>1 DEF Bundles
  <2> HIDE DEF first, swapped
  <2>6. bundle' \in Bundles /\ bundle'.checkpoints = bundle.checkpoints
    BY <1>1, <2>4, <2>5 DEF Bundles
  <2> QED BY <1>4, <2>6, HarmSpares DEF SwapEntries
<1>5. CASE LoseCheckpoint
  <2>1. PICK c \in DOMAIN bundle.checkpoints :
          bundle' = [bundle EXCEPT !.checkpoints = Seqs!RemoveAt(@, c)]
    BY <1>5 DEF LoseCheckpoint
  <2> DEFINE left == Seqs!RemoveAt(bundle.checkpoints, c)
  <2>2. /\ left \in Seq(Checkpoints)
        /\ \A e \in DOMAIN left : \E d \in DOMAIN bundle.checkpoints : left[e] = bundle.checkpoints[d]
    BY <1>1, RemovalIsPart
  <2>3. bundle' = [bundle EXCEPT !.checkpoints = left]
    BY <2>1
  <2> HIDE DEF left
  <2>4. bundle' \in Bundles /\ bundle'.checkpoints = left
    BY <1>1, <2>2, <2>3 DEF Bundles
  <2> QED BY <1>5, <2>2, <2>4, HarmSpares DEF LoseCheckpoint
<1>6. CASE LoseRotation
  <2>1. PICK i \in DOMAIN bundle.rotations :
          bundle' = [bundle EXCEPT !.rotations = Seqs!RemoveAt(@, i)]
    BY <1>6 DEF LoseRotation
  <2>2. Seqs!RemoveAt(bundle.rotations, i) \in Seq(Rotations)
    BY <1>1, RemovalIsPart
  <2>3. bundle' \in Bundles /\ bundle'.checkpoints = bundle.checkpoints
    BY <1>1, <2>1, <2>2 DEF Bundles
  <2> QED BY <1>6, <2>3, HarmSpares DEF LoseRotation
<1>7. CASE Rebuild
  <2>1. PICK s \in [1..Cardinality(bundle.ledger) -> bundle.ledger] :
          bundle' = [bundle EXCEPT !.entries = ChainOver(s),
                                   !.claims = {named \in @ : named \subseteq bundle.ledger}]
    BY <1>7 DEF Rebuild
  <2>2. ChainOver(s) \in Seq(Entries)
    <3>1. Cardinality(bundle.ledger) \in Nat
      BY <1>1, FS_CardinalityType DEF Ledgers
    <3>2. s \in [1..Cardinality(bundle.ledger) -> Record]
      BY <1>1 DEF Ledgers
    <3> QED BY <3>1, <3>2, RebuiltTyped
  <2>3. bundle' \in Bundles /\ bundle'.checkpoints = bundle.checkpoints
    BY <1>1, <2>1, <2>2 DEF Bundles
  <2> QED BY <1>7, <2>3, HarmSpares DEF Rebuild
<1> QED BY <1>2, <1>3, <1>4, <1>5, <1>6, <1>7

LEMMA VInvStarts == ASSUME BundleAssumption, VInit PROVE VInv
<1>1. Inv
  BY InitEstablishes DEF VInit
<1> QED BY <1>1, ExportedIsMade DEF VInit, VInv

LEMMA VInvStep == ASSUME BundleAssumption, VInv, [VNext]_allVars PROVE VInv'
<1>1. CASE MakeMore
  <2>1. Inv'
    BY <1>1, StepPreserves DEF VInv, MakeMore
  <2>2. bundle' = Exported'
    BY <1>1 DEF MakeMore
  <2>3. bundle' \in Bundles /\ Signed'
    BY <2>1, <2>2 DEF Inv, Typed, Exported, Bundles, Signed
  <2> QED BY <2>1, <2>2, <2>3 DEF VInv
<1>2. CASE Carry
  <2>1. UNCHANGED <<vars, bundle>> /\ carried' = TRUE
    BY <1>2 DEF Carry
  <2>2. Inv'
    BY <2>1, StepPreserves DEF VInv
  <2>3. Signed'
    BY <2>1 DEF VInv, Signed, vars
  <2> QED BY <2>1, <2>2, <2>3 DEF VInv
<1>3. CASE Alter \/ Lose \/ Insert \/ LoseEntry \/ SwapEntries \/ LoseCheckpoint
             \/ LoseRotation \/ Rebuild
  BY <1>3, DamagePreserves
<1>4. CASE UNCHANGED allVars
  <2>1. UNCHANGED <<vars, bundle, carried>>
    BY <1>4 DEF allVars
  <2>2. Inv'
    BY <2>1, StepPreserves DEF VInv
  <2>3. Signed' /\ (~carried' => bundle' = Exported')
    BY <2>1 DEF VInv, Signed, Exported, vars
  <2> QED BY <2>1, <2>2, <2>3 DEF VInv
<1> QED BY <1>1, <1>2, <1>3, <1>4 DEF VNext

(* bundle.rs:10-12: whatever happened to it, a bundle that verifies says,  *)
(* up to its covering checkpoint, what the sensor recorded.                *)
THEOREM VerifiedIsAsMade ==
  ASSUME BundleAssumption PROVE VSpec => []IntactIsAsMade
<1>1. VInit => VInv
  BY VInvStarts
<1>2. VInv /\ [VNext]_allVars => VInv'
  BY VInvStep
<1>3. VInv => IntactIsAsMade
  BY IntactAgrees
<1> QED BY <1>1, <1>2, <1>3, PTL DEF VSpec

-----------------------------------------------------------------------------
(* The handovers follow one another: each key is new, each from where the *)
(* chain was.                                                              *)
Position == IF entries = <<>> THEN 1 ELSE Last.sequence + 1

InOrder ==
  /\ \A i, j \in DOMAIN rotations : i < j => rotations[i].from <= rotations[j].from
  /\ \A i \in DOMAIN rotations : rotations[i].from <= Position
  /\ \A i, j \in DOMAIN checkpoints : i < j => checkpoints[i].through <= checkpoints[j].through
  /\ \A i \in DOMAIN rotations : rotations[i].replacing # Root
  /\ \A i, j \in DOMAIN rotations : i # j => rotations[i].replacing # rotations[j].replacing

Introduced(key) == key = Root \/ \E i \in DOMAIN rotations : rotations[i].replacing = key

Handed ==
  /\ active = IF rotations = <<>> THEN Root ELSE rotations[Len(rotations)].replacing
  /\ \A i \in DOMAIN rotations :
       rotations[i].retiring = IF i = 1 THEN Root ELSE rotations[i - 1].replacing
  /\ \A c \in DOMAIN checkpoints :
       /\ Introduced(checkpoints[c].key)
       /\ \A i \in DOMAIN rotations :
            rotations[i].retiring = checkpoints[c].key => checkpoints[c].through < rotations[i].from

HInv == restores \in Nat /\ InOrder /\ (restores = 0 => Handed)

UInv == VInv /\ HInv /\ damage \in Nat /\ (damage = 0 => bundle = Exported)

LEMMA PositionTyped ==
  ASSUME BundleAssumption, Typed
  PROVE  /\ Position \in 1..(MaxSequence + 1)
         /\ entries # <<>> => Last.sequence \in 1..MaxSequence /\ Position = Last.sequence + 1
<1>1. CASE entries = <<>>  BY <1>1 DEF Position, BundleAssumption
<1>2. CASE entries # <<>>
  <2>1. Last.sequence \in 1..MaxSequence
    BY <1>2, LastTyped DEF Entries
  <2> QED BY <1>2, <2>1 DEF Position, BundleAssumption
<1> QED BY <1>1, <1>2

(* No checkpoint is of a later entry than the last.                        *)
LEMMA SealedIsBehind ==
  ASSUME BundleAssumption, Inv, NEW c \in DOMAIN checkpoints
  PROVE  entries # <<>> /\ checkpoints[c].through <= Last.sequence
<1> DEFINE m == checkpoints[c].count
<1>1. m \in DOMAIN entries /\ entries[m].sequence = checkpoints[c].through
  BY DEF Inv, CheckpointsHold
<1>2. entries \in Seq(Entries)
  BY DEF Inv, Typed
<1>3. entries # <<>> /\ Len(entries) \in DOMAIN entries /\ (m = Len(entries) \/ m < Len(entries))
  BY <1>1, <1>2
<1>4. m < Len(entries) => entries[m].sequence < Last.sequence
  BY <1>1, <1>3 DEF Inv, ChainHolds, Last
<1>5. Last.sequence \in Nat
  BY <1>3, PositionTyped DEF Inv
<1>6. entries[m] \in Entries
  BY <1>1, <1>2
<1>7. entries[m].sequence \in Nat
  BY <1>6 DEF Entries
<1> QED BY <1>1, <1>3, <1>4, <1>5, <1>7 DEF Last

(* The handovers and seals stay in order.                                  *)
LEMMA InOrderStep ==
  ASSUME BundleAssumption, Inv, InOrder, [Produce]_vars
  PROVE  InOrder'
<1>1. ASSUME NEW record \in Record, AppendRecord(record) PROVE InOrder'
  <2>1. entries' = Append(entries, Linked(record)) /\ entries \in Seq(Entries) /\ Linked(record) \in Entries
    BY <1>1, LinkedTyped DEF AppendRecord, Inv, Typed
  <2>2. entries' # <<>> /\ entries'[Len(entries')] = Linked(record)
    BY <2>1
  <2>3. record.sequence \in 1..MaxSequence
    BY DEF Record
  <2>4. Position' = record.sequence + 1
    BY <2>2 DEF Position, Last, Linked
  <2>5. Position <= Position'
    BY <1>1, <2>3, <2>4, PositionTyped DEF AppendRecord, Admitted, Inv, BundleAssumption, Position
  <2>6. \A i \in DOMAIN rotations : rotations[i].from <= Position'
    <3> SUFFICES ASSUME NEW i \in DOMAIN rotations PROVE rotations[i].from <= Position'
      OBVIOUS
    <3>1. rotations[i] \in Rotations
      BY DEF Inv, Typed
    <3>2. rotations[i].from \in Nat
      BY <3>1 DEF Rotations
    <3>3. Position \in Nat /\ Position' \in Nat
      BY <2>3, <2>4, PositionTyped DEF Inv
    <3> QED BY <2>5, <3>2, <3>3 DEF InOrder
  <2> QED BY <1>1, <2>6 DEF AppendRecord, InOrder
<1>2. CASE Seal
  <2> DEFINE n == Len(checkpoints)
  <2>1. /\ checkpoints \in Seq(Checkpoints) /\ n \in Nat
        /\ checkpoints' = Append(checkpoints, Checkpoint(active))
    BY <1>2 DEF Seal, Inv, Typed
  <2>2. /\ DOMAIN checkpoints' = 1..(n + 1) /\ DOMAIN checkpoints = 1..n
        /\ \A i \in 1..n : checkpoints'[i] = checkpoints[i]
        /\ checkpoints'[n + 1] = Checkpoint(active)
    BY <2>1
  <2>3. \A i \in 1..n : checkpoints[i].through <= Last.sequence
    BY <2>2, SealedIsBehind
  <2>4. checkpoints'[n + 1].through = Last.sequence
    BY <2>2 DEF Checkpoint
  <2> HIDE DEF n
  <2>5. \A i, j \in DOMAIN checkpoints' : i < j => checkpoints'[i].through <= checkpoints'[j].through
    <3> SUFFICES ASSUME NEW i \in 1..(n + 1), NEW j \in 1..(n + 1), i < j
                 PROVE  checkpoints'[i].through <= checkpoints'[j].through
      BY <2>2
    <3>1. i \in 1..n /\ (j = n + 1 \/ j \in 1..n)
      BY <2>1
    <3> QED BY <2>2, <2>3, <2>4, <3>1 DEF InOrder
  <2>6. UNCHANGED <<rotations, entries>>
    BY <1>2 DEF Seal
  <2> QED BY <2>5, <2>6 DEF InOrder, Position, Last
<1>3. ASSUME NEW next \in Key, Rotate(next) PROVE InOrder'
  <2> DEFINE n == Len(rotations)
  <2> DEFINE new == [retiring |-> active, replacing |-> next, from |-> Position]
  <2>1. /\ rotations \in Seq(Rotations) /\ n \in Nat
        /\ rotations' = Append(rotations, new)
    BY <1>3 DEF Rotate, Inv, Typed, Position
  <2>2. /\ DOMAIN rotations' = 1..(n + 1) /\ DOMAIN rotations = 1..n
        /\ \A i \in 1..n : rotations'[i] = rotations[i]
        /\ rotations'[n + 1] = new
    BY <2>1
  <2>3. UNCHANGED <<checkpoints, entries>> /\ Position' = Position
    BY <1>3 DEF Rotate, Position, Last
  <2>4. next # Root /\ \A i \in 1..n : rotations[i].replacing # next
    BY <1>3, <2>2 DEF Rotate
  <2>5. Position \in Nat
    BY PositionTyped DEF Inv
  <2> HIDE DEF n
  <2>6. \A i, j \in DOMAIN rotations' : i < j => rotations'[i].from <= rotations'[j].from
    <3> SUFFICES ASSUME NEW i \in 1..(n + 1), NEW j \in 1..(n + 1), i < j
                 PROVE  rotations'[i].from <= rotations'[j].from
      BY <2>2
    <3>1. i \in 1..n /\ (j = n + 1 \/ j \in 1..n)
      BY <2>1
    <3> QED BY <2>2, <3>1 DEF InOrder
  <2>7. \A i \in DOMAIN rotations' : rotations'[i].from <= Position'
    <3> SUFFICES ASSUME NEW i \in 1..(n + 1) PROVE rotations'[i].from <= Position
      BY <2>2, <2>3
    <3>1. i = n + 1 \/ i \in 1..n
      BY <2>1
    <3> QED BY <2>2, <2>5, <3>1 DEF InOrder
  <2>8. \A i \in DOMAIN rotations' : rotations'[i].replacing # Root
    <3> SUFFICES ASSUME NEW i \in 1..(n + 1) PROVE rotations'[i].replacing # Root
      BY <2>2
    <3>1. i = n + 1 \/ i \in 1..n
      BY <2>1
    <3> QED BY <2>2, <2>4, <3>1 DEF InOrder
  <2>9. \A i, j \in DOMAIN rotations' : i # j => rotations'[i].replacing # rotations'[j].replacing
    <3> SUFFICES ASSUME NEW i \in 1..(n + 1), NEW j \in 1..(n + 1), i # j
                 PROVE  rotations'[i].replacing # rotations'[j].replacing
      BY <2>2
    <3>1. (i = n + 1 /\ j \in 1..n) \/ (j = n + 1 /\ i \in 1..n) \/ (i \in 1..n /\ j \in 1..n)
      BY <2>1
    <3> QED BY <2>2, <2>4, <3>1 DEF InOrder
  <2> QED BY <2>3, <2>6, <2>7, <2>8, <2>9 DEF InOrder
<1>4. CASE (\E named \in SUBSET Record : AddClaim(named)) \/ Restore \/ UNCHANGED vars
  <2>1. UNCHANGED <<entries, checkpoints, rotations>>
    BY <1>4 DEF AddClaim, Restore, vars
  <2> QED BY <2>1 DEF InOrder, Position, Last
<1> QED BY <1>1, <1>2, <1>3, <1>4 DEF Produce


(* The key in use has not retired, and is known.                           *)
LEMMA ActiveIsUnretired ==
  ASSUME Typed, InOrder, Handed
  PROVE  Introduced(active) /\ \A i \in DOMAIN rotations : rotations[i].retiring # active
<1> DEFINE n == Len(rotations)
<1>1. n \in Nat /\ DOMAIN rotations = 1..n /\ (rotations = <<>> <=> n = 0)
  BY DEF Typed
<1>2. CASE n = 0
  BY <1>1, <1>2 DEF Handed, Introduced
<1>3. CASE n # 0
  <2>1. n \in DOMAIN rotations /\ active = rotations[n].replacing
    BY <1>1, <1>3 DEF Handed
  <2>2. ASSUME NEW i \in DOMAIN rotations PROVE rotations[i].retiring # active
    <3>1. CASE i = 1
      BY <2>1, <3>1 DEF Handed, InOrder
    <3>2. CASE i # 1
      <4>1. i - 1 \in DOMAIN rotations /\ i - 1 # n
        BY <1>1, <3>2
      <4> QED BY <2>1, <3>2, <4>1 DEF Handed, InOrder
    <3> QED BY <3>1, <3>2
  <2> QED BY <2>1, <2>2 DEF Introduced
<1> QED BY <1>2, <1>3

(* While no earlier key comes back, each handover is by the key in use, and *)
(* no key signs what lies past its handover.                               *)
LEMMA HandedStep ==
  ASSUME BundleAssumption, Inv, InOrder, Handed, [Produce]_vars, ~Restore
  PROVE  Handed'
<1>1. CASE Seal
  <2> DEFINE n == Len(checkpoints)
  <2>1. /\ checkpoints \in Seq(Checkpoints) /\ n \in Nat
        /\ checkpoints' = Append(checkpoints, Checkpoint(active))
        /\ UNCHANGED <<rotations, active>>
    BY <1>1 DEF Seal, Inv, Typed
  <2>2. /\ DOMAIN checkpoints' = 1..(n + 1) /\ DOMAIN checkpoints = 1..n
        /\ \A i \in 1..n : checkpoints'[i] = checkpoints[i]
        /\ checkpoints'[n + 1].key = active
    BY <2>1 DEF Checkpoint
  <2> HIDE DEF n
  <2>3. ASSUME NEW c \in DOMAIN checkpoints'
        PROVE  /\ Introduced(checkpoints'[c].key)
               /\ \A i \in DOMAIN rotations :
                    rotations[i].retiring = checkpoints'[c].key
                      => checkpoints'[c].through < rotations[i].from
    <3>1. c \in 1..n \/ c = n + 1
      BY <2>1, <2>2
    <3>2. CASE c \in 1..n
      BY <2>2, <3>2 DEF Handed
    <3>3. CASE c = n + 1
      BY <2>2, <3>3, ActiveIsUnretired DEF Inv
    <3> QED BY <3>1, <3>2, <3>3
  <2> QED BY <2>1, <2>3 DEF Handed, Introduced
<1>2. ASSUME NEW next \in Key, Rotate(next) PROVE Handed'
  <2> DEFINE n == Len(rotations)
  <2> DEFINE new == [retiring |-> active, replacing |-> next, from |-> Position]
  <2>1. /\ rotations \in Seq(Rotations) /\ n \in Nat
        /\ rotations' = Append(rotations, new)
        /\ active' = next /\ UNCHANGED checkpoints
    BY <1>2 DEF Rotate, Inv, Typed, Position
  <2>2. /\ DOMAIN rotations' = 1..(n + 1) /\ DOMAIN rotations = 1..n
        /\ Len(rotations') = n + 1 /\ rotations' # <<>>
        /\ rotations = <<>> <=> n = 0
        /\ \A i \in 1..n : rotations'[i] = rotations[i]
        /\ rotations'[n + 1] = new
    BY <2>1
  <2>3. active' = IF rotations' = <<>> THEN Root ELSE rotations'[Len(rotations')].replacing
    BY <2>1, <2>2
  <2>4. active = IF n = 0 THEN Root ELSE rotations[n].replacing
    BY <2>2 DEF Handed, n
  <2> HIDE DEF n
  <2>5. ASSUME NEW i \in DOMAIN rotations'
        PROVE  rotations'[i].retiring = IF i = 1 THEN Root ELSE rotations'[i - 1].replacing
    <3>1. i \in 1..n \/ i = n + 1
      BY <2>1, <2>2
    <3>2. CASE i \in 1..n
      <4>1. i = 1 \/ i - 1 \in 1..n
        BY <2>1, <3>2
      <4> QED BY <2>2, <3>2, <4>1 DEF Handed
    <3>3. CASE i = n + 1
      <4>1. (n = 0 <=> i = 1) /\ i - 1 = n /\ (n = 0 \/ n \in 1..n)
        BY <2>1, <3>3
      <4> QED BY <2>2, <2>4, <3>3, <4>1
    <3> QED BY <3>1, <3>2, <3>3
  <2>6. ASSUME NEW c \in DOMAIN checkpoints'
        PROVE  /\ \/ checkpoints'[c].key = Root
                  \/ \E i \in DOMAIN rotations' : rotations'[i].replacing = checkpoints'[c].key
               /\ \A i \in DOMAIN rotations' :
                    rotations'[i].retiring = checkpoints'[c].key
                      => checkpoints'[c].through < rotations'[i].from
    <3>1. c \in DOMAIN checkpoints /\ checkpoints'[c] = checkpoints[c]
      BY <2>1
    <3>2. Introduced(checkpoints[c].key)
      BY <3>1 DEF Handed
    <3>3. \/ checkpoints'[c].key = Root
          \/ \E i \in DOMAIN rotations' : rotations'[i].replacing = checkpoints'[c].key
      <4>1. ASSUME NEW i \in DOMAIN rotations
            PROVE  i \in DOMAIN rotations' /\ rotations'[i].replacing = rotations[i].replacing
        BY <2>1, <2>2
      <4> QED BY <3>1, <3>2, <4>1 DEF Introduced
    <3>4. checkpoints[c].through < Position
      <4>1. checkpoints[c] \in Checkpoints
        BY <3>1 DEF Inv, Typed
      <4>2. checkpoints[c].through \in Nat
        BY <4>1 DEF Checkpoints
      <4> QED BY <3>1, <4>2, SealedIsBehind, PositionTyped DEF Inv
    <3>5. ASSUME NEW i \in DOMAIN rotations', rotations'[i].retiring = checkpoints'[c].key
          PROVE  checkpoints'[c].through < rotations'[i].from
      <4>1. i \in 1..n \/ i = n + 1
        BY <2>1, <2>2
      <4>2. CASE i \in 1..n
        BY <2>2, <3>1, <3>5, <4>2 DEF Handed
      <4>3. CASE i = n + 1
        BY <2>2, <3>1, <3>4, <4>3
      <4> QED BY <4>1, <4>2, <4>3
    <3> QED BY <3>3, <3>5
  <2> QED BY <2>3, <2>5, <2>6 DEF Handed, Introduced
<1>3. ASSUME NEW record \in Record, AppendRecord(record) PROVE Handed'
  BY <1>3 DEF AppendRecord, Handed, Introduced
<1>4. CASE (\E named \in SUBSET Record : AddClaim(named)) \/ UNCHANGED vars
  BY <1>4 DEF AddClaim, vars, Handed, Introduced
<1> QED BY <1>1, <1>2, <1>3, <1>4 DEF Produce

LEMMA HInvStep ==
  ASSUME BundleAssumption, Inv, HInv, [Produce]_vars
  PROVE  HInv'
<1>1. InOrder'
  BY InOrderStep DEF HInv
<1>2. CASE Restore
  <2>1. restores \in Nat /\ restores' = restores + 1
    BY <1>2 DEF Restore, HInv
  <2> QED BY <1>1, <2>1 DEF HInv
<1>3. CASE ~Restore
  <2>1. restores' = restores
    BY <1>3 DEF Produce, AppendRecord, AddClaim, Seal, Rotate, vars
  <2>2. restores = 0 => Handed'
    BY <1>3, HandedStep DEF HInv
  <2> QED BY <1>1, <2>1, <2>2 DEF HInv
<1> QED BY <1>2, <1>3


-----------------------------------------------------------------------------
(* The bundle as it was made, by a sensor that never came back with an     *)
(* earlier key.                                                            *)
AsMade == UInv /\ damage = 0 /\ restores = 0

LEMMA AsMadeBundle ==
  ASSUME AsMade
  PROVE  /\ bundle.ledger = ledger /\ bundle.claims = claims /\ bundle.entries = entries
         /\ bundle.checkpoints = checkpoints /\ bundle.rotations = rotations
         /\ Inv /\ InOrder /\ Handed
  BY DEF AsMade, UInv, VInv, HInv, Exported

(* The handovers are stored in the order of their sequence numbers: the    *)
(* stable sort of resolve_authority leaves them where they are.            *)
LEMMA StoredInOrder ==
  ASSUME AsMade, NEW n \in DOMAIN rotations
  PROVE  Nth(n) = rotations[n]
<1>1. /\ bundle.rotations = rotations /\ rotations \in Seq(Rotations)
      /\ \A i, j \in DOMAIN rotations : i < j => rotations[i].from <= rotations[j].from
  BY AsMadeBundle DEF Inv, Typed, InOrder
<1>2. DOMAIN rotations = 1..Len(rotations) /\ Len(rotations) \in Nat
  BY <1>1
<1>3. \A i \in DOMAIN rotations : rotations[i].from \in Int
  <2>1. \A i \in DOMAIN rotations : rotations[i] \in Rotations
    BY <1>1
  <2> QED BY <2>1 DEF Rotations
<1>4. ASSUME NEW i \in DOMAIN rotations PROVE Rank(i) = i - 1
  <2> DEFINE before == {j \in DOMAIN rotations :
               \/ rotations[j].from < rotations[i].from
               \/ rotations[j].from = rotations[i].from /\ j < i}
  <2>1. before = 1..(i - 1)
    <3>1. ASSUME NEW j \in before PROVE j \in 1..(i - 1)
      <4> HIDE DEF before
      <4>0. /\ j \in DOMAIN rotations
            /\ \/ rotations[j].from < rotations[i].from
               \/ rotations[j].from = rotations[i].from /\ j < i
        BY DEF before
      <4>1. j < i \/ j = i \/ i < j
        BY <1>2, <4>0
      <4>2. i < j => rotations[i].from <= rotations[j].from
        BY <1>1, <4>0
      <4>3. rotations[i].from \in Int /\ rotations[j].from \in Int
        BY <1>3, <4>0
      <4>4. j < i
        BY <1>1, <4>0, <4>1, <4>2, <4>3
      <4> QED BY <1>2, <4>0, <4>4
    <3>2. ASSUME NEW j \in 1..(i - 1) PROVE j \in before
      <4>1. j \in DOMAIN rotations /\ j < i
        BY <1>2
      <4>2. rotations[i].from \in Int /\ rotations[j].from \in Int
        BY <1>3, <4>1
      <4> QED BY <1>1, <4>1, <4>2
    <3> QED BY <3>1, <3>2
  <2>2. Rank(i) = Cardinality(before)
    BY <1>1 DEF Rank
  <2> HIDE DEF before
  <2>3. i \in Nat /\ i > 0
    BY <1>2
  <2>4. Cardinality(1..(i - 1)) = i - 1
    <3>1. i - 1 \in Int /\ 1 \in Int
      BY <2>3
    <3>2. Cardinality(1..(i - 1)) = IF 1 > i - 1 THEN 0 ELSE (i - 1) - 1 + 1
      BY <3>1, FS_Interval
    <3> QED BY <2>3, <3>2
  <2> QED BY <2>1, <2>2, <2>4
<1>5. (CHOOSE i \in DOMAIN rotations : Rank(i) = n - 1) = n
  <2>1. \A i \in DOMAIN rotations : Rank(i) = n - 1 <=> i = n
    <3> SUFFICES ASSUME NEW i \in DOMAIN rotations PROVE Rank(i) = n - 1 <=> i = n
      OBVIOUS
    <3>1. Rank(i) = i - 1 /\ i \in Nat /\ n \in Nat
      BY <1>2, <1>4
    <3> QED BY <3>1
  <2> QED BY <2>1
<1> QED BY <1>1, <1>5 DEF Nth

LEMMA RetiresOnce ==
  ASSUME AsMade, NEW i \in DOMAIN rotations, NEW j \in DOMAIN rotations
  PROVE  /\ i # j => rotations[i].retiring # rotations[j].retiring
         /\ i <= j => rotations[i].retiring # rotations[j].replacing
<1>1. InOrder /\ Handed /\ rotations \in Seq(Rotations)
  BY AsMadeBundle DEF Inv, Typed
<1>2. /\ i = 1 \/ i - 1 \in DOMAIN rotations
      /\ j = 1 \/ j - 1 \in DOMAIN rotations
      /\ i # j => i - 1 # j - 1
      /\ i <= j => i - 1 # j
  BY <1>1
<1>3. i # j => rotations[i].retiring # rotations[j].retiring
  BY <1>1, <1>2 DEF Handed, InOrder
<1>4. i <= j => rotations[i].retiring # rotations[j].replacing
  BY <1>1, <1>2 DEF Handed, InOrder
<1> QED BY <1>3, <1>4

(* What a key is worth after n handovers, said outright.                   *)
Retired(n, key) == \E i \in 1..n : rotations[i].retiring = key
Retirement(n, key) == rotations[CHOOSE i \in 1..n : rotations[i].retiring = key].from
Known(n, key) == key = Root \/ \E i \in 1..n : rotations[i].replacing = key
Worth(n, key) ==
  IF Retired(n, key) THEN Retirement(n, key) ELSE IF Known(n, key) THEN Unreachable ELSE 0
Standing == [n \in 0..Len(rotations) |-> [key \in Key |-> Worth(n, key)]]

LEMMA RetirementIs ==
  ASSUME AsMade, NEW n \in 0..Len(rotations), NEW i \in 1..n
  PROVE  Retired(n, rotations[i].retiring) /\ Retirement(n, rotations[i].retiring) = rotations[i].from
<1>1. rotations \in Seq(Rotations)
  BY AsMadeBundle DEF Inv, Typed
<1>2. \A j \in 1..n : j \in DOMAIN rotations
  BY <1>1
<1>3. \A j \in 1..n : rotations[j].retiring = rotations[i].retiring => j = i
  BY <1>2, RetiresOnce
<1> QED BY <1>3 DEF Retired, Retirement

LEMMA StandingStep ==
  ASSUME AsMade, BundleAssumption, VerifyAssumption, NEW n \in 1..Len(rotations)
  PROVE  /\ Standing[n - 1][rotations[n].retiring] = Unreachable
         /\ Standing[n] = Honoured(Standing[n - 1], rotations[n])
<1> DEFINE m == n - 1
<1> DEFINE old == rotations[n].retiring
<1> DEFINE new == rotations[n].replacing
<1>1. /\ rotations \in Seq(Rotations) /\ InOrder /\ Handed
      /\ rotations[n] \in Rotations
  <2>1. rotations \in Seq(Rotations) /\ InOrder /\ Handed
    BY AsMadeBundle DEF Inv, Typed
  <2> QED BY <2>1
<1>2. old \in Key /\ new \in Key
  BY <1>1 DEF Rotations
<1>3. /\ m \in 0..Len(rotations) /\ n \in 0..Len(rotations) /\ n \in DOMAIN rotations
      /\ \A i \in 1..m : i \in DOMAIN rotations /\ i < n /\ i \in 1..n
      /\ \A i \in 1..n : i = n \/ i \in 1..m
      /\ \A i \in 1..n : i \in DOMAIN rotations /\ i <= n
      /\ n \in 1..n
      /\ n = 1 \/ m \in 1..m
  BY <1>1
<1>4. Standing[m] = [key \in Key |-> Worth(m, key)] /\ Standing[n] = [key \in Key |-> Worth(n, key)]
  BY <1>3 DEF Standing
<1> HIDE DEF m
<1>5. ~Retired(m, old) /\ ~Retired(n, new) /\ ~Retired(m, new) /\ old # new
  <2>1. \A i \in 1..m : rotations[i].retiring # old
    BY <1>3, RetiresOnce
  <2>2. \A i \in 1..n : rotations[i].retiring # new
    BY <1>3, RetiresOnce
  <2> QED BY <1>3, <2>1, <2>2 DEF Retired
<1>6. Known(m, old)
  <2>1. CASE n = 1
    BY <1>1, <1>3, <2>1 DEF Handed, Known
  <2>2. CASE n # 1
    BY <1>1, <1>3, <2>2 DEF Handed, Known, m
  <2> QED BY <2>1, <2>2
<1>7. Standing[m][old] = Unreachable
  BY <1>2, <1>4, <1>5, <1>6 DEF Worth
<1>8. Honoured(Standing[m], rotations[n]) =
        [Standing[m] EXCEPT ![old] = rotations[n].from, ![new] = Unreachable]
  <2>1. Unreachable # 0
    BY DEF VerifyAssumption, BundleAssumption
  <2> QED BY <1>7, <2>1 DEF Honoured
<1>9. ASSUME NEW key \in Key
      PROVE  Worth(n, key) = IF key = new THEN Unreachable
                             ELSE IF key = old THEN rotations[n].from ELSE Worth(m, key)
  <2>1. CASE key = new
    <3>1. Known(n, new)
      BY <1>3 DEF Known
    <3> QED BY <1>5, <2>1, <3>1 DEF Worth
  <2>2. CASE key = old
    BY <1>3, <1>5, <2>2, RetirementIs DEF Worth
  <2>3. CASE key # new /\ key # old
    <3>1. Retired(n, key) <=> Retired(m, key)
      BY <1>3, <2>3 DEF Retired
    <3>2. Known(n, key) <=> Known(m, key)
      BY <1>3, <2>3 DEF Known
    <3>3. ASSUME Retired(m, key) PROVE Retirement(n, key) = Retirement(m, key)
      <4>1. PICK i \in 1..m : rotations[i].retiring = key
        BY <3>3 DEF Retired
      <4>2. i \in 1..n
        BY <1>3
      <4> QED BY <1>3, <4>1, <4>2, RetirementIs
    <3> QED BY <2>3, <3>1, <3>2, <3>3 DEF Worth
  <2> QED BY <2>1, <2>2, <2>3
<1>10. Standing[n] = [Standing[m] EXCEPT ![old] = rotations[n].from, ![new] = Unreachable]
  <2>1. [Standing[m] EXCEPT ![old] = rotations[n].from, ![new] = Unreachable] =
          [key \in Key |-> IF key = new THEN Unreachable
                           ELSE IF key = old THEN rotations[n].from ELSE Worth(m, key)]
    BY <1>2, <1>4
  <2>2. Standing[n] = [key \in Key |-> IF key = new THEN Unreachable
                           ELSE IF key = old THEN rotations[n].from ELSE Worth(m, key)]
    BY <1>4, <1>9
  <2> QED BY <2>1, <2>2
<1> QED BY <1>7, <1>8, <1>10 DEF m


(* resolve_authority goes through the handovers one by one.                *)
LEMMA AfterIsStanding ==
  ASSUME AsMade, BundleAssumption, VerifyAssumption, NEW n \in 0..Len(rotations)
  PROVE  After[n] = Standing[n]
<1> DEFINE N == Len(rotations)
<1>1. rotations \in Seq(Rotations) /\ N \in Nat /\ bundle.rotations = rotations /\ DOMAIN rotations = 1..N
  BY AsMadeBundle DEF Inv, Typed
<1>2. Standing[0] = Trusted
  <2>1. ASSUME NEW key \in Key PROVE Worth(0, key) = IF key = Root THEN Unreachable ELSE 0
    BY DEF Worth, Retired, Known
  <2> QED BY <1>1, <2>1 DEF Standing, Trusted
<1>3. \A m \in 1..N : Standing[m] = Honoured(Standing[m - 1], Nth(m))
  BY <1>1, StandingStep, StoredInOrder
<1>4. Standing = [m \in 0..N |-> IF m = 0 THEN Trusted ELSE Honoured(Standing[m - 1], Nth(m))]
  <2>1. Standing = [m \in 0..N |-> Standing[m]]
    BY DEF Standing
  <2>2. \A m \in 0..N : Standing[m] = IF m = 0 THEN Trusted ELSE Honoured(Standing[m - 1], Nth(m))
    <3>1. \A m \in 0..N : m = 0 \/ m \in 1..N
      BY <1>1
    <3> QED BY <1>2, <1>3, <3>1
  <2> HIDE DEF N
  <2> QED BY <2>1, <2>2, Zenon
<1>5. After = [m \in 0..N |-> IF m = 0 THEN Trusted ELSE Honoured(After[m - 1], Nth(m))]
  BY <1>1, <1>4, Zenon DEF After
<1> HIDE DEF N
<1>6. /\ After[0] = Trusted
      /\ \A m \in 1..N : After[m] = Honoured(After[m - 1], Nth(m))
  <2>1. 0 \in 0..N /\ \A m \in 1..N : m \in 0..N /\ m # 0
    BY <1>1
  <2> QED BY <1>5, <2>1
<1> DEFINE wrong == {m \in 0..N : After[m] # Standing[m]}
<1>7. wrong = {}
  <2> SUFFICES ASSUME wrong # {} PROVE FALSE
    OBVIOUS
  <2>1. wrong \in SUBSET Nat
    BY <1>1
  <2>2. PICK least \in wrong : \A m \in wrong : least <= m
    BY <2>1, Smallest
  <2>3. least \in 0..N /\ After[least] # Standing[least]
    OBVIOUS
  <2>4. least # 0
    BY <1>2, <1>6, <2>3
  <2>5. least \in 1..N /\ least - 1 \in 0..N /\ ~(least <= least - 1)
    BY <1>1, <2>3, <2>4
  <2>6. After[least - 1] = Standing[least - 1]
    BY <2>2, <2>5
  <2> QED BY <1>3, <1>6, <2>3, <2>5, <2>6
<1> QED BY <1>7 DEF N

(* Every handover of the sensor is by a key with authority.                *)
LEMMA MadeIsKnown ==
  ASSUME AsMade, BundleAssumption, VerifyAssumption PROVE RotationsKnown
<1> SUFFICES ASSUME NEW n \in DOMAIN rotations PROVE After[n - 1][Nth(n).retiring] # 0
  BY AsMadeBundle DEF RotationsKnown
<1>1. n \in 1..Len(rotations) /\ n - 1 \in 0..Len(rotations)
  BY AsMadeBundle DEF Inv, Typed
<1>2. After[n - 1][Nth(n).retiring] = Unreachable
  BY <1>1, AfterIsStanding, StandingStep, StoredInOrder
<1> QED BY <1>2 DEF VerifyAssumption, BundleAssumption

(* The records and the links read as they were made.                       *)
LEMMA MadeIsRecorded == ASSUME AsMade PROVE RecordsHold
  BY AsMadeBundle DEF RecordsHold, Inv, LedgerHolds

LEMMA MadeIsLinked == ASSUME AsMade PROVE LinksHold
<1>1. /\ Chain = entries /\ entries \in Seq(Entries) /\ bundle.ledger = ledger
      /\ ChainHolds /\ LedgerHolds
  BY AsMadeBundle DEF Chain, Inv, Typed
<1>2. ASSUME NEW i \in DOMAIN Chain
      PROVE  /\ Chain[i].hash = Append(Chain[i].previous,
                                       [sequence |-> Chain[i].sequence, id |-> Chain[i].id])
             /\ Chain[i].previous = (IF i = 1 THEN NoHash ELSE Chain[i - 1].hash)
             /\ Chain[i].id \in bundle.ledger
  BY <1>1 DEF ChainHolds, Hash, Link, LedgerHolds
<1>3. ASSUME NEW i \in 1..(Len(Chain) - 1) PROVE Chain[i].sequence < Chain[i + 1].sequence
  <2>1. i \in DOMAIN entries /\ i + 1 \in DOMAIN entries /\ i < i + 1
    BY <1>1
  <2> QED BY <1>1, <2>1 DEF ChainHolds
<1>4. \A record \in bundle.ledger : \E i \in DOMAIN Chain : Chain[i].id = record
  BY <1>1 DEF LedgerHolds
<1> QED BY <1>2, <1>3, <1>4 DEF LinksHold

(* Every seal is of a key that had authority over what it signed.          *)
LEMMA MadeIsSealed ==
  ASSUME AsMade, BundleAssumption, VerifyAssumption PROVE SealsHold
<1>1. /\ Chain = entries /\ entries \in Seq(Entries) /\ bundle.checkpoints = checkpoints
      /\ checkpoints \in Seq(Checkpoints) /\ rotations \in Seq(Rotations)
      /\ bundle.rotations = rotations
      /\ ChainHolds /\ CheckpointsHold /\ Handed
  BY AsMadeBundle DEF Chain, Inv, Typed
<1> SUFFICES ASSUME NEW c \in DOMAIN checkpoints PROVE SealHolds(checkpoints[c], Authority)
  BY <1>1 DEF SealsHold
<1> DEFINE key == checkpoints[c].key
<1> DEFINE through == checkpoints[c].through
<1> DEFINE m == checkpoints[c].count
<1>2. checkpoints[c] \in Checkpoints
  BY <1>1
<1>3. key \in Key /\ through \in 1..MaxSequence
  BY <1>2 DEF Checkpoints
<1>4. /\ m \in DOMAIN entries /\ entries[m].sequence = through
      /\ entries[m].hash = checkpoints[c].head
  BY <1>1 DEF CheckpointsHold
<1>5. At(through) = m
  <2>1. \A i \in DOMAIN entries : i = m \/ entries[i].sequence # through
    <3> SUFFICES ASSUME NEW i \in DOMAIN entries, i # m PROVE entries[i].sequence # through
      OBVIOUS
    <3>1. i < m \/ m < i
      BY <1>1, <1>4
    <3>2. entries[i] \in Entries
      BY <1>1
    <3>3. entries[i].sequence \in Nat /\ through \in Nat
      BY <1>3, <3>2 DEF Entries
    <3> QED BY <1>1, <1>4, <3>1, <3>3 DEF ChainHolds
  <2>2. \A j \in 1..(m - 1) : j \in DOMAIN entries /\ j # m
    BY <1>1, <1>4
  <2> HIDE DEF m, through
  <2>3. \A i \in DOMAIN entries :
          (entries[i].sequence = through /\ \A j \in 1..(i - 1) : entries[j].sequence # through) <=> i = m
    BY <1>4, <2>1, <2>2
  <2>4. At(through) = CHOOSE i \in DOMAIN entries :
          entries[i].sequence = through /\ \A j \in 1..(i - 1) : entries[j].sequence # through
    BY <1>1 DEF At
  <2> QED BY <1>4, <2>3, <2>4
<1>6. through < Authority[key]
  <2> DEFINE n == Len(rotations)
  <2>1. n \in 0..n /\ n \in Nat /\ DOMAIN rotations = 1..n
    BY <1>1
  <2>2. Authority[key] = Worth(n, key)
    <3>1. After[n] = Standing[n]
      BY <2>1, AfterIsStanding
    <3>2. Standing[n] = [k \in Key |-> Worth(n, k)]
      BY <2>1 DEF Standing
    <3>3. Authority = After[n]
      BY <1>1 DEF Authority
    <3> QED BY <1>3, <3>1, <3>2, <3>3
  <2>3. CASE Retired(n, key)
    <3>1. PICK i \in 1..n : rotations[i].retiring = key
      BY <2>3 DEF Retired
    <3>2. Worth(n, key) = rotations[i].from
      BY <2>1, <2>3, <3>1, RetirementIs DEF Worth
    <3> QED BY <1>1, <2>1, <2>2, <3>1, <3>2 DEF Handed
  <2>4. CASE ~Retired(n, key)
    <3>1. Known(n, key)
      BY <1>1, <2>1 DEF Known, Handed, Introduced
    <3> QED BY <1>3, <2>2, <2>4, <3>1 DEF Worth, VerifyAssumption, BundleAssumption
  <2> QED BY <2>3, <2>4
<1> QED BY <1>1, <1>4, <1>5, <1>6 DEF SealHolds

LEMMA MadeIsThrough ==
  ASSUME AsMade, BundleAssumption, checkpoints # <<>>
  PROVE  Through = checkpoints[Len(checkpoints)].through
<1>1. bundle.checkpoints = checkpoints /\ checkpoints \in Seq(Checkpoints) /\ InOrder
  BY AsMadeBundle DEF Inv, Typed
<1> DEFINE n == Len(checkpoints)
<1>2. n \in DOMAIN checkpoints /\ \A c \in DOMAIN checkpoints : c = n \/ c < n
  BY <1>1
<1>3. \A c \in DOMAIN checkpoints : checkpoints[c].through \in Nat
  <2>1. \A c \in DOMAIN checkpoints : checkpoints[c] \in Checkpoints
    BY <1>1
  <2> QED BY <2>1 DEF Checkpoints
<1> HIDE DEF n
<1>4. \A c \in DOMAIN checkpoints : checkpoints[c].through <= checkpoints[n].through
  BY <1>1, <1>2, <1>3 DEF InOrder
<1> DEFINE S == {checkpoints[c].through : c \in DOMAIN checkpoints}
<1>5. \A t \in S : (\A c \in DOMAIN checkpoints : checkpoints[c].through <= t) <=> t = checkpoints[n].through
  BY <1>2, <1>3, <1>4
<1>6. (CHOOSE t \in S : \A c \in DOMAIN checkpoints : checkpoints[c].through <= t) = checkpoints[n].through
  BY <1>2, <1>5
<1> QED BY <1>1, <1>6 DEF Through, n


(* The numbers grow at least as fast as the positions.                     *)
LEMMA NumbersOutrun ==
  ASSUME BundleAssumption, Inv, NEW k \in DOMAIN entries, NEW n \in DOMAIN entries, k <= n
  PROVE  entries[n].sequence >= entries[k].sequence + (n - k)
<1> DEFINE f(j) == entries[j].sequence
<1>1. /\ entries \in Seq(Entries) /\ ChainHolds
      /\ \A j \in DOMAIN entries : f(j) \in Nat
  <2>1. entries \in Seq(Entries) /\ ChainHolds
    BY DEF Inv, Typed
  <2>2. \A j \in DOMAIN entries : entries[j] \in Entries
    BY <2>1
  <2> QED BY <2>1, <2>2 DEF Entries
<1>2. \A i, j \in DOMAIN entries : i < j => f(i) < f(j)
  BY <1>1 DEF ChainHolds
<1> DEFINE wrong == {j \in k..n : f(j) < f(k) + (j - k)}
<1>3. k \in Nat /\ n \in Nat /\ \A j \in k..n : j \in DOMAIN entries /\ j \in Nat /\ (j = k \/ j - 1 \in k..n)
  BY <1>1
<1> HIDE DEF f
<1>4. wrong = {}
  <2> SUFFICES ASSUME wrong # {} PROVE FALSE
    OBVIOUS
  <2>1. wrong \in SUBSET Nat
    BY <1>3
  <2>2. PICK j \in wrong : \A i \in wrong : j <= i
    BY <2>1, Smallest
  <2>3. j \in k..n /\ f(j) < f(k) + (j - k)
    OBVIOUS
  <2>4. f(k) \in Nat /\ f(j) \in Nat
    BY <1>1, <1>3, <2>3
  <2>5. j # k
    BY <1>3, <2>3, <2>4
  <2>6. j - 1 \in k..n /\ j - 1 \in DOMAIN entries /\ j - 1 < j /\ f(j - 1) \in Nat
    BY <1>1, <1>3, <2>3, <2>5
  <2>7. j - 1 \notin wrong
    <3>1. j - 1 \in wrong => j <= j - 1
      BY <2>2
    <3> QED BY <2>6, <3>1
  <2>8. f(j - 1) >= f(k) + ((j - 1) - k)
    BY <1>3, <2>4, <2>6, <2>7
  <2>9. f(j - 1) < f(j)
    BY <1>2, <1>3, <2>3, <2>6
  <2> QED BY <1>3, <2>3, <2>4, <2>6, <2>8, <2>9
<1>5. n \in k..n
  BY <1>3
<1>6. f(n) >= f(k) + (n - k)
  BY <1>1, <1>3, <1>4, <1>5
<1> QED BY <1>6 DEF f

LEMMA GapsAreSkips ==
  ASSUME AsMade, BundleAssumption, entries # <<>>
  PROVE  Gaps = {} <=> Last.sequence - entries[1].sequence + 1 = Len(entries)
<1> DEFINE f(j) == entries[j].sequence
<1> DEFINE n == Len(entries)
<1>1. /\ Chain = entries /\ entries \in Seq(Entries) /\ ChainHolds
      /\ \A j \in DOMAIN entries : f(j) \in Nat
      /\ Inv
  <2>1. Chain = entries /\ entries \in Seq(Entries) /\ ChainHolds /\ Inv
    BY AsMadeBundle DEF Chain, Inv, Typed
  <2>2. \A j \in DOMAIN entries : entries[j] \in Entries
    BY <2>1
  <2> QED BY <2>1, <2>2 DEF Entries
<1>2. /\ n \in Nat /\ DOMAIN entries = 1..n /\ 1 \in DOMAIN entries /\ n \in DOMAIN entries
      /\ f(1) \in Nat /\ f(n) \in Nat
  BY <1>1
<1>3. \A i, j \in DOMAIN entries : i <= j => f(j) >= f(i) + (j - i)
  BY <1>1, NumbersOutrun
<1>4. Gaps = {i \in 1..(n - 1) : f(i + 1) > f(i) + 1}
  BY <1>1 DEF Gaps
<1>5. Last.sequence = f(n)
  BY DEF Last
<1> HIDE DEF f, n
<1>6. ASSUME Gaps = {} PROVE f(n) = f(1) + (n - 1)
  <2> DEFINE wrong == {j \in 1..n : f(j) # f(1) + (j - 1)}
  <2>1. wrong = {}
    <3> SUFFICES ASSUME wrong # {} PROVE FALSE
      OBVIOUS
    <3>1. wrong \in SUBSET Nat
      BY <1>2
    <3>2. PICK j \in wrong : \A i \in wrong : j <= i
      BY <3>1, Smallest
    <3>3. j \in 1..n /\ f(j) # f(1) + (j - 1)
      OBVIOUS
    <3>4. j # 1
      BY <1>2, <3>3
    <3>5. j - 1 \in 1..n /\ j - 1 \in 1..(n - 1) /\ (j - 1) + 1 = j /\ ~(j <= j - 1) /\ j - 1 <= j
      BY <1>2, <3>3, <3>4
    <3>6. f(j - 1) = f(1) + ((j - 1) - 1)
      BY <3>2, <3>5
    <3>7. ~(f(j) > f(j - 1) + 1)
      BY <1>4, <1>6, <3>5
    <3>8. f(j) >= f(j - 1) + (j - (j - 1))
      BY <1>2, <1>3, <3>3, <3>5
    <3>9. f(j) \in Nat /\ f(j - 1) \in Nat /\ j \in Nat
      BY <1>1, <1>2, <3>3, <3>5
    <3> QED BY <1>2, <3>3, <3>6, <3>7, <3>8, <3>9
  <2> QED BY <1>2, <2>1
<1>7. ASSUME f(n) = f(1) + (n - 1), NEW i \in Gaps PROVE FALSE
  <2>1. i \in 1..(n - 1) /\ f(i + 1) > f(i) + 1
    BY <1>4
  <2>2. i \in Nat /\ i \in DOMAIN entries /\ i + 1 \in DOMAIN entries /\ 1 <= i /\ i + 1 <= n
    BY <1>2, <2>1
  <2>3. f(i) \in Nat /\ f(i + 1) \in Nat
    BY <1>1, <2>2
  <2>4. f(i) >= f(1) + (i - 1)
    BY <1>2, <1>3, <2>2
  <2>5. f(n) >= f(i + 1) + (n - (i + 1))
    BY <1>2, <1>3, <2>2
  <2> QED BY <1>2, <1>7, <2>1, <2>2, <2>3, <2>4, <2>5
<1>8. f(n) = f(1) + (n - 1) <=> f(n) - f(1) + 1 = n
  BY <1>2
<1> QED BY <1>5, <1>6, <1>7, <1>8 DEF f, n

(* bundle.rs:439, 449: while no earlier key comes back, whatever the sensor *)
(* makes verifies, whoever signed it, through its last seal, and shows a   *)
(* gap exactly where a sequence number was skipped.                        *)
THEOREM MadeVerifies ==
  ASSUME BundleAssumption, VerifyAssumption PROVE VSpec => []AsMadeIsIntact
<1>1. VInit => UInv
  <2> SUFFICES ASSUME VInit PROVE UInv
    OBVIOUS
  <2>1. VInv
    BY VInvStarts
  <2>2. HInv
    BY DEF VInit, Init, HInv, InOrder, Handed
  <2> QED BY <2>1, <2>2 DEF UInv, VInit
<1>2. UInv /\ [VNext]_allVars => UInv'
  <2> SUFFICES ASSUME UInv, [VNext]_allVars PROVE UInv'
    OBVIOUS
  <2>1. VInv'
    BY VInvStep DEF UInv
  <2>2. [Produce]_vars
    BY DEF VNext, MakeMore, Carry, Harm, Alter, Lose, Insert, LoseEntry, SwapEntries,
           LoseCheckpoint, LoseRotation, Rebuild, allVars, vars
  <2>3. HInv'
    BY <2>2, HInvStep DEF UInv, VInv
  <2>4. damage' \in Nat /\ (damage' = 0 => bundle' = Exported')
    <3>1. CASE MakeMore
      BY <3>1 DEF MakeMore, UInv
    <3>2. CASE Carry \/ UNCHANGED allVars
      BY <3>2 DEF Carry, allVars, vars, UInv, Exported
    <3>3. CASE Harm
      BY <3>3 DEF Harm, UInv
    <3> QED BY <3>1, <3>2, <3>3 DEF VNext, Alter, Lose, Insert, LoseEntry, SwapEntries,
           LoseCheckpoint, LoseRotation, Rebuild
  <2> QED BY <2>1, <2>3, <2>4 DEF UInv
<1>3. UInv => AsMadeIsIntact
  <2> SUFFICES ASSUME UInv, damage = 0, restores = 0, checkpoints # <<>>
               PROVE  /\ Intact
                      /\ Through = checkpoints[Len(checkpoints)].through
                      /\ Gaps = {} <=> Last.sequence - entries[1].sequence + 1 = Len(entries)
    BY DEF AsMadeIsIntact
  <2>1. AsMade
    BY DEF AsMade
  <2>2. Intact
    BY <2>1, MadeIsKnown, MadeIsRecorded, MadeIsLinked, MadeIsSealed, AsMadeBundle DEF Intact
  <2>3. entries # <<>>
    <3>1. 1 \in DOMAIN checkpoints
      BY <2>1, AsMadeBundle DEF Inv, Typed
    <3> QED BY <2>1, <3>1, AsMadeBundle, SealedIsBehind
  <2> QED BY <2>1, <2>2, <2>3, MadeIsThrough, GapsAreSkips
<1> QED BY <1>1, <1>2, <1>3, PTL DEF VSpec

-----------------------------------------------------------------------------
FileName == {"host-id", "sensor-key"}
Value == {Absent, Empty} \cup (Maker \X Nat)
Untouched(f) == \A q \in Maker : ~Making(q, f)

(* What is kept of a file is what it has, and nobody is making it.         *)
KeptStands == \A f \in FileName : ~Blank(kept[f]) => file[f] = kept[f] /\ Untouched(f)

(* What somebody may count on is kept.                                     *)
SinceStands == \A p \in Maker, f \in FileName : ~Blank(since[p][f]) => kept[f] = since[p][f]

(* How many of the two files somebody has, and that they are those.        *)
HasAll(p, n) ==
  /\ Len(held[p]) = n
  /\ \A i \in 1..n : ~Blank(since[p][Files[i]]) => held[p][i] = since[p][Files[i]]
Got(p) ==
  /\ pc[p] \in {"read", "make", "write", "back"} => HasAll(p, at[p] - 1)
  /\ pc[p] = "made" => HasAll(p, 2)

IdentityTyped ==
  /\ file \in [FileName -> Value] /\ kept \in [FileName -> Value]
  /\ pc \in [Maker -> {"idle", "read", "make", "write", "back", "made", "refused"}]
  /\ at \in [Maker -> {1, 2}]
  /\ held \in [Maker -> Seq(Value)] /\ since \in [Maker -> [FileName -> Value]]
  /\ starts \in Nat

IdentityInv == IdentityTyped /\ KeptStands /\ SinceStands /\ \A p \in Maker : Got(p)

LEMMA NamesAreFiles ==
  ASSUME IdentityTyped
  PROVE  /\ \A p \in Maker : Name(p) \in FileName
         /\ Files[1] = "host-id" /\ Files[2] = "sensor-key" /\ Len(Files) = 2
         /\ DOMAIN Files = {1, 2} /\ Files[1] # Files[2]
<1>1. Files[1] = "host-id" /\ Files[2] = "sensor-key" /\ Len(Files) = 2
  BY DEF Files
<1>2. DOMAIN Files = 1..2
  BY DEF Files
<1>3. 1..2 = {1, 2}
  OBVIOUS
<1>4. \A p \in Maker : Name(p) \in FileName
  BY <1>1 DEF IdentityTyped, Name, FileName
<1> QED BY <1>1, <1>2, <1>3, <1>4

(* What changes a file is what somebody does who is making it, and nobody  *)
(* begins to make a file that is not blank: what was kept stays, and with  *)
(* it what somebody may count on.                                          *)
LEMMA KeptStep ==
  ASSUME IdentityTyped, KeptStands, Keep, DOMAIN file' = FileName,
         \A f \in FileName : Untouched(f) /\ ~Blank(file[f]) => file'[f] = file[f] /\ Untouched(f)'
  PROVE  /\ KeptStands'
         /\ \A f \in FileName : ~Blank(kept[f]) => kept'[f] = kept[f]
         /\ (file' \in [FileName -> Value]) => (kept' \in [FileName -> Value])
<1>1. DOMAIN file = FileName
  BY DEF IdentityTyped
<1>2. kept' = [f \in FileName |-> IF Blank(file'[f]) \/ (\E q \in Maker : Making(q, f)')
                                   THEN kept[f] ELSE file'[f]]
  BY <1>1 DEF Keep
<1>3. ASSUME NEW f \in FileName
      PROVE  kept'[f] = kept[f] \/ (kept'[f] = file'[f] /\ ~Blank(file'[f]) /\ Untouched(f)')
  BY <1>2 DEF Untouched
<1>4. ASSUME NEW f \in FileName, ~Blank(kept[f])
      PROVE  kept'[f] = kept[f] /\ file'[f] = kept[f] /\ Untouched(f)'
  <2>1. file[f] = kept[f] /\ Untouched(f) /\ ~Blank(file[f])
    BY <1>4 DEF KeptStands
  <2>2. file'[f] = kept[f] /\ Untouched(f)'
    BY <2>1
  <2> QED BY <2>2, <1>3
<1>5. ASSUME NEW f \in FileName, ~Blank(kept'[f])
      PROVE  file'[f] = kept'[f] /\ Untouched(f)'
  <2>1. CASE ~Blank(kept[f])
    BY <1>4, <2>1
  <2>2. CASE Blank(kept[f])
    BY <1>3, <1>5, <2>2
  <2> QED BY <2>1, <2>2
<1>6. KeptStands'
  BY <1>5 DEF KeptStands, Blank
<1>7. ASSUME file' \in [FileName -> Value] PROVE kept' \in [FileName -> Value]
  BY <1>2, <1>7 DEF IdentityTyped
<1> QED BY <1>4, <1>6, <1>7


(* Somebody who is given a file has one more, and it is the one that he    *)
(* may count on if there is one.                                           *)
LEMMA HoldsGets ==
  ASSUME IdentityTyped, NEW p \in Maker, NEW value \in Value, Holds(p, value),
         pc[p] \in {"read", "back"}, Got(p), since' = since,
         ~Blank(since[p][Name(p)]) => value = since[p][Name(p)]
  PROVE  /\ Got(p)'
         /\ pc' \in [Maker -> {"idle", "read", "make", "write", "back", "made", "refused"}]
         /\ at' \in [Maker -> {1, 2}] /\ held' \in [Maker -> Seq(Value)]
         /\ pc'[p] \in {"read", "made", "refused"}
         /\ \A q \in Maker : q # p => pc'[q] = pc[q] /\ at'[q] = at[q] /\ held'[q] = held[q]
<1>0. /\ pc \in [Maker -> {"idle", "read", "make", "write", "back", "made", "refused"}]
      /\ at \in [Maker -> {1, 2}] /\ held \in [Maker -> Seq(Value)]
      /\ held[p] \in Seq(Value) /\ at[p] \in {1, 2}
  BY DEF IdentityTyped
<1>1. held' = [held EXCEPT ![p] = Append(held[p], value)]
  BY DEF Holds
<1>2. \/ pc' = [pc EXCEPT ![p] = "refused"] /\ at' = at
      \/ pc' = [pc EXCEPT ![p] = "read"] /\ at' = [at EXCEPT ![p] = at[p] + 1] /\ at[p] < 2
      \/ pc' = [pc EXCEPT ![p] = "made"] /\ at' = at /\ at[p] = 2
  <2>1. Len(Files) = 2
    BY NamesAreFiles
  <2>2. CASE Blank(value)
    BY <2>2 DEF Holds
  <2>3. CASE ~Blank(value) /\ at[p] < 2
    BY <2>1, <2>3 DEF Holds
  <2>4. CASE ~Blank(value) /\ ~(at[p] < 2)
    BY <1>0, <2>1, <2>4 DEF Holds
  <2> QED BY <2>2, <2>3, <2>4
<1>3. Append(held[p], value) \in Seq(Value)
  BY <1>0
<1>4. /\ pc' \in [Maker -> {"idle", "read", "make", "write", "back", "made", "refused"}]
      /\ at' \in [Maker -> {1, 2}] /\ held' \in [Maker -> Seq(Value)]
      /\ pc'[p] \in {"read", "made", "refused"}
      /\ \A q \in Maker : q # p => pc'[q] = pc[q] /\ at'[q] = at[q] /\ held'[q] = held[q]
  <2>1. held' \in [Maker -> Seq(Value)] /\ \A q \in Maker : q # p => held'[q] = held[q]
    BY <1>0, <1>1, <1>3
  <2>2. \/ pc' = [pc EXCEPT ![p] = "refused"] \/ pc' = [pc EXCEPT ![p] = "read"]
        \/ pc' = [pc EXCEPT ![p] = "made"]
    BY <1>2
  <2>3. at' \in [Maker -> {1, 2}] /\ \A q \in Maker : q # p => at'[q] = at[q]
    <3>1. CASE at' = at
      BY <1>0, <3>1
    <3>2. CASE at' = [at EXCEPT ![p] = at[p] + 1] /\ at[p] < 2
      <4>1. at[p] + 1 \in {1, 2}
        BY <1>0, <3>2
      <4> QED BY <1>0, <3>2, <4>1
    <3> QED BY <1>2, <3>1, <3>2
  <2>4. /\ pc' \in [Maker -> {"idle", "read", "make", "write", "back", "made", "refused"}]
        /\ pc'[p] \in {"read", "made", "refused"} /\ \A q \in Maker : q # p => pc'[q] = pc[q]
    BY <1>0, <2>2
  <2> QED BY <2>1, <2>3, <2>4
<1>5. HasAll(p, at[p] - 1)
  BY DEF Got
<1>6. Len(held'[p]) = at[p] /\ \A k \in 1..at[p] : ~Blank(since[p][Files[k]]) => held'[p][k] = since[p][Files[k]]
  <2>1. held'[p] = Append(held[p], value) /\ Len(held[p]) = at[p] - 1
    BY <1>0, <1>1, <1>5 DEF HasAll
  <2>2. Len(held'[p]) = at[p] /\ held'[p][at[p]] = value /\ \A k \in 1..at[p] - 1 : held'[p][k] = held[p][k]
    BY <1>0, <2>1
  <2>3. ASSUME NEW k \in 1..at[p], ~Blank(since[p][Files[k]])
        PROVE  held'[p][k] = since[p][Files[k]]
    <3>1. CASE k = at[p]
      BY <2>2, <2>3, <3>1 DEF Name
    <3>2. CASE k \in 1..at[p] - 1
      BY <1>5, <2>2, <2>3, <3>2 DEF HasAll
    <3> QED BY <1>0, <3>1, <3>2
  <2> QED BY <2>2, <2>3
<1>7. Got(p)'
  <2>1. pc'[p] = "read" => at'[p] - 1 = at[p]
    BY <1>0, <1>2
  <2>2. pc'[p] = "made" => at[p] = 2
    BY <1>0, <1>2
  <2>3. CASE pc'[p] = "read"
    BY <1>6, <2>1, <2>3 DEF Got, HasAll, Blank
  <2>4. CASE pc'[p] = "made"
    BY <1>6, <2>2, <2>4 DEF Got, HasAll, Blank
  <2>5. CASE pc'[p] = "refused"
    BY <2>5 DEF Got
  <2> QED BY <1>4, <2>3, <2>4, <2>5
<1> QED BY <1>4, <1>7

(* A step of somebody leaves what the others have.                         *)
LEMMA OthersHave ==
  ASSUME IdentityTyped, NEW p \in Maker, \A r \in Maker : Got(r), Got(p)',
         \A q \in Maker : q # p => /\ pc'[q] = pc[q] /\ at'[q] = at[q] /\ held'[q] = held[q]
                                   /\ since'[q] = since[q]
  PROVE  \A r \in Maker : Got(r)'
<1>1. ASSUME NEW r \in Maker, r # p PROVE Got(r)'
  <2>1. pc'[r] = pc[r] /\ at'[r] = at[r] /\ held'[r] = held[r] /\ since'[r] = since[r] /\ Got(r)
    BY <1>1
  <2> QED BY <2>1 DEF Got, HasAll, Blank
<1> QED BY <1>1

LEMMA IdentityStep ==
  ASSUME IdentityInv, NEW p \in Maker,
         Ask(p) \/ Look(p) \/ Truncate(p) \/ Put(p) \/ ReadBack(p) \/ Die(p)
  PROVE  IdentityInv'
<1> DEFINE Stage == {"idle", "read", "make", "write", "back", "made", "refused"}
           Stays == \A f \in FileName : Untouched(f) /\ ~Blank(file[f]) => file'[f] = file[f] /\ Untouched(f)'
           Same(q) == pc'[q] = pc[q] /\ at'[q] = at[q] /\ held'[q] = held[q] /\ since'[q] = since[q]
<1>0. IdentityTyped /\ KeptStands /\ SinceStands /\ \A r \in Maker : Got(r)
  BY DEF IdentityInv
<1>1. /\ pc \in [Maker -> Stage] /\ at \in [Maker -> {1, 2}] /\ held \in [Maker -> Seq(Value)]
      /\ since \in [Maker -> [FileName -> Value]] /\ file \in [FileName -> Value]
      /\ kept \in [FileName -> Value] /\ starts \in Nat
  BY <1>0 DEF IdentityTyped
<1>2. Name(p) \in FileName /\ file[Name(p)] \in Value
  BY <1>0, <1>1, NamesAreFiles
<1>3. ~Blank(since[p][Name(p)]) => file[Name(p)] = since[p][Name(p)]
  BY <1>0, <1>2 DEF SinceStands, KeptStands
(* What is left to show of a step.                                         *)
<1>4. ASSUME Keep, file' \in [FileName -> Value], pc' \in [Maker -> Stage], at' \in [Maker -> {1, 2}],
             held' \in [Maker -> Seq(Value)], starts' \in Nat,
             since' = since \/ since' = [since EXCEPT ![p] = kept],
             Stays, Got(p)', \A q \in Maker : q # p => Same(q)
      PROVE  IdentityInv'
  <2>1. DOMAIN file' = FileName
    BY <1>4
  <2>2. /\ KeptStands' /\ kept' \in [FileName -> Value]
        /\ \A f \in FileName : ~Blank(kept[f]) => kept'[f] = kept[f]
    BY <1>0, <1>4, <2>1, KeptStep
  <2>3. since' \in [Maker -> [FileName -> Value]]
    BY <1>1, <1>4
  <2>4. SinceStands'
    <3>1. ASSUME NEW q \in Maker, NEW f \in FileName, ~Blank(since'[q][f])
          PROVE  kept'[f] = since'[q][f]
      <4>1. since'[q] = since[q] \/ since'[q] = kept
        BY <1>1, <1>4
      <4>2. CASE since'[q] = since[q]
        <5>1. kept[f] = since[q][f] /\ ~Blank(kept[f])
          BY <1>0, <3>1, <4>2 DEF SinceStands
        <5> QED BY <5>1, <4>2, <2>2
      <4>3. CASE since'[q] = kept
        BY <2>2, <3>1, <4>3
      <4> QED BY <4>1, <4>2, <4>3
    <3> QED BY <3>1 DEF SinceStands, Blank
  <2>5. \A r \in Maker : Got(r)'
    BY <1>0, <1>4, OthersHave
  <2>6. IdentityTyped'
    BY <1>4, <2>2, <2>3 DEF IdentityTyped
  <2> QED BY <2>2, <2>4, <2>5, <2>6 DEF IdentityInv
(* Nobody begins to make a file who is not making it already.              *)
<1>5. ASSUME UNCHANGED file, pc'[p] \notin {"make", "write"},
             \A q \in Maker : q # p => pc'[q] = pc[q] /\ at'[q] = at[q]
      PROVE  Stays
  <2>1. ASSUME NEW f \in FileName, Untouched(f), NEW q \in Maker PROVE ~Making(q, f)'
    <3>1. CASE q = p
      BY <3>1, <1>5 DEF Making
    <3>2. CASE q # p
      <4>1. ~Making(q, f) /\ pc'[q] = pc[q] /\ at'[q] = at[q]
        BY <3>2, <2>1, <1>5 DEF Untouched
      <4> QED BY <4>1 DEF Making, Name
    <3> QED BY <3>1, <3>2
  <2> QED BY <2>1, <1>5 DEF Untouched
<1>6. CASE Ask(p)
  <2>1. /\ starts' = starts + 1 /\ pc' = [pc EXCEPT ![p] = "read"] /\ at' = [at EXCEPT ![p] = 1]
        /\ held' = [held EXCEPT ![p] = <<>>] /\ since' = [since EXCEPT ![p] = kept]
        /\ UNCHANGED file /\ Keep
    BY <1>6 DEF Ask
  <2>2. <<>> \in Seq(Value)
    OBVIOUS
  <2>3. held' \in [Maker -> Seq(Value)] /\ held'[p] = <<>> /\ pc'[p] = "read" /\ at'[p] = 1
    BY <1>1, <2>1, <2>2
  <2>4. Got(p)'
    BY <2>3 DEF Got, HasAll
  <2>5. \A q \in Maker : q # p => Same(q)
    BY <1>1, <2>1
  <2>6. Stays
    BY <1>5, <2>1, <2>3, <2>5
  <2>7. pc' \in [Maker -> Stage] /\ at' \in [Maker -> {1, 2}] /\ starts' \in Nat
    BY <1>1, <2>1
  <2> HIDE DEF Stays, Same, Stage
  <2> QED BY <1>1, <1>4, <2>1, <2>3, <2>4, <2>5, <2>6, <2>7
<1>7. ASSUME Holds(p, file[Name(p)]), pc[p] \in {"read", "back"}, UNCHANGED <<file, starts, since>>, Keep
      PROVE  IdentityInv'
  <2>1. /\ Got(p)' /\ pc' \in [Maker -> Stage] /\ at' \in [Maker -> {1, 2}]
        /\ held' \in [Maker -> Seq(Value)] /\ pc'[p] \in {"read", "made", "refused"}
        /\ \A q \in Maker : q # p => pc'[q] = pc[q] /\ at'[q] = at[q] /\ held'[q] = held[q]
    BY <1>0, <1>2, <1>3, <1>7, HoldsGets
  <2>2. Stays
    BY <1>5, <1>7, <2>1
  <2>3. \A q \in Maker : q # p => Same(q)
    BY <1>7, <2>1
  <2> HIDE DEF Stays, Same, Stage
  <2> QED BY <1>1, <1>4, <1>7, <2>1, <2>2, <2>3
<1>8. CASE Look(p)
  <2>1. CASE ~Blank(file[Name(p)])
    BY <1>7, <1>8, <2>1 DEF Look
  <2>2. CASE Blank(file[Name(p)])
    <3>1. /\ pc[p] = "read" /\ pc' = [pc EXCEPT ![p] = "make"]
          /\ UNCHANGED <<held, at, file, starts, since>> /\ Keep
      BY <1>8, <2>2 DEF Look
    <3>2. Stays
      <4>1. ASSUME NEW f \in FileName, Untouched(f), ~Blank(file[f]), NEW q \in Maker
            PROVE  ~Making(q, f)'
        <5>1. CASE q = p
          BY <2>2, <3>1, <4>1, <5>1 DEF Making, Name
        <5>2. CASE q # p
          BY <1>1, <3>1, <4>1, <5>2 DEF Making, Name, Untouched
        <5> QED BY <5>1, <5>2
      <4> QED BY <3>1, <4>1 DEF Untouched
    <3>3. Got(p)'
      <4>1. pc'[p] = "make" /\ HasAll(p, at[p] - 1)
        BY <1>0, <1>1, <3>1 DEF Got
      <4> QED BY <3>1, <4>1 DEF Got, HasAll, Blank
    <3>4. \A q \in Maker : q # p => Same(q)
      BY <1>1, <3>1
    <3>5. pc' \in [Maker -> Stage]
      BY <1>1, <3>1
    <3> HIDE DEF Stays, Same, Stage
    <3> QED BY <1>1, <1>4, <3>1, <3>2, <3>3, <3>4, <3>5
  <2> QED BY <2>1, <2>2
<1>9. ASSUME NEW value \in Value, NEW to \in {"write", "back"}, pc[p] \in {"make", "write"},
             file' = [file EXCEPT ![Name(p)] = value], pc' = [pc EXCEPT ![p] = to],
             UNCHANGED <<at, held, starts, since>>, Keep
      PROVE  IdentityInv'
  <2>1. Stays
    <3>1. ASSUME NEW f \in FileName, Untouched(f) PROVE f # Name(p) /\ Untouched(f)'
      <4>1. f # Name(p)
        BY <1>9, <3>1 DEF Untouched, Making
      <4>2. ASSUME NEW q \in Maker PROVE ~Making(q, f)'
        <5>1. CASE q = p
          BY <1>9, <4>1, <5>1 DEF Making, Name
        <5>2. CASE q # p
          BY <1>1, <1>9, <3>1, <5>2 DEF Making, Name, Untouched
        <5> QED BY <5>1, <5>2
      <4> QED BY <4>1, <4>2 DEF Untouched
    <3> QED BY <1>1, <1>9, <3>1
  <2>2. Got(p)'
    <3>1. pc'[p] \in {"write", "back"} /\ HasAll(p, at[p] - 1)
      BY <1>0, <1>1, <1>9 DEF Got
    <3> QED BY <1>9, <3>1 DEF Got, HasAll, Blank
  <2>3. \A q \in Maker : q # p => Same(q)
    BY <1>1, <1>9
  <2>4. pc' \in [Maker -> Stage] /\ file' \in [FileName -> Value]
    BY <1>1, <1>2, <1>9
  <2> HIDE DEF Stays, Same, Stage
  <2> QED BY <1>1, <1>4, <1>9, <2>1, <2>2, <2>3, <2>4
<1>10. CASE Truncate(p)
  <2>1. Empty \in Value
    BY DEF Value
  <2> QED BY <1>9, <1>10, <2>1 DEF Truncate
<1>11. CASE Put(p)
  <2>1. Drawn(p) \in Value
    BY <1>1 DEF Value, Drawn
  <2> QED BY <1>9, <1>11, <2>1 DEF Put
<1>12. CASE ReadBack(p)
  BY <1>7, <1>12 DEF ReadBack
<1>13. CASE Die(p)
  <2>1. pc' = [pc EXCEPT ![p] = "idle"] /\ UNCHANGED <<file, at, held, starts, since>> /\ Keep
    BY <1>13 DEF Die
  <2>2. pc'[p] = "idle" /\ pc' \in [Maker -> Stage]
    BY <1>1, <2>1
  <2>3. Got(p)'
    BY <2>2 DEF Got
  <2>4. \A q \in Maker : q # p => Same(q)
    BY <1>1, <2>1
  <2>5. Stays
    BY <1>5, <2>1, <2>2, <2>4
  <2> HIDE DEF Stays, Same, Stage
  <2> QED BY <1>1, <1>4, <2>1, <2>2, <2>3, <2>4, <2>5
<1> QED BY <1>6, <1>8, <1>10, <1>11, <1>12, <1>13

(* For any number of surfaces that make a bundle at the same time, that    *)
(* die anywhere and start again: an identity or a key that is there, and   *)
(* that nobody is making, is never made anew, and whoever asks from then   *)
(* on uses it (identity.rs:117).                                           *)
THEOREM OnceMadeStays == IdentitySpec => []IdentityStays
<1>1. IdentityInit => IdentityInv
  <2> SUFFICES ASSUME IdentityInit PROVE IdentityInv
    OBVIOUS
  <2>1. \A f \in FileName : file[f] = Absent /\ kept[f] = Absent
    BY DEF IdentityInit, FileName
  <2>2. \A p \in Maker, f \in FileName : since[p][f] = Absent
    BY <2>1 DEF IdentityInit
  <2>3. Blank(Absent)
    BY DEF Blank
  <2>4. IdentityTyped
    <3>1. Absent \in Value /\ <<>> \in Seq(Value)
      BY DEF Value
    <3> QED BY <3>1 DEF IdentityInit, IdentityTyped, FileName
  <2>5. \A p \in Maker : Got(p)
    BY DEF IdentityInit, Got
  <2> QED BY <2>1, <2>2, <2>3, <2>4, <2>5 DEF IdentityInv, KeptStands, SinceStands
<1>2. IdentityInv /\ [IdentityNext]_identityVars => IdentityInv'
  <2> SUFFICES ASSUME IdentityInv, [IdentityNext]_identityVars PROVE IdentityInv'
    OBVIOUS
  <2>1. CASE UNCHANGED identityVars
    BY <2>1 DEF identityVars, IdentityInv, IdentityTyped, KeptStands, SinceStands, Untouched, Making,
                Name, Got, HasAll, Blank
  <2> QED BY <2>1, IdentityStep DEF IdentityNext
<1>3. IdentityInv => IdentityStays
  <2> SUFFICES ASSUME IdentityInv PROVE IdentityStays
    OBVIOUS
  <2>0. IdentityTyped /\ KeptStands /\ \A p \in Maker : Got(p)
    BY DEF IdentityInv
  <2>1. DOMAIN file = FileName /\ DOMAIN Files = 1..2
    <3>1. DOMAIN Files = {1, 2} /\ {1, 2} = 1..2
      BY <2>0, NamesAreFiles
    <3> QED BY <2>0, <3>1 DEF IdentityTyped
  <2>2. \A f \in DOMAIN file : ~Blank(kept[f]) => file[f] = kept[f]
    BY <2>0, <2>1 DEF KeptStands
  <2>3. \A p \in Maker : pc[p] = "made" =>
          \A i \in DOMAIN Files : ~Blank(since[p][Files[i]]) => held[p][i] = since[p][Files[i]]
    BY <2>0, <2>1 DEF Got, HasAll
  <2> QED BY <2>2, <2>3 DEF IdentityStays
<1> QED BY <1>1, <1>2, <1>3, PTL DEF IdentitySpec


-----------------------------------------------------------------------------
(* The gate.  A row of a report that arrives tells what one build saw of a *)
(* factor, or is damaged.                                                  *)
Factors == Rule \cup Former
TrueRow(row, seen) ==
  row.state = "available" => \E r \in Factors : r.code = row.rule /\ Covered(r, seen) = "available"
TrueRows(seen) ==
  {row \in [rule : Codes(Factors), state : {Covered(r, seen) : r \in Factors} \cup {"fine"}] : TrueRow(row, seen)}

GateInv ==
  /\ grades \in [AgentId -> Grade] /\ decided \in [AssetId -> Disposition] /\ inForce \in BOOLEAN
  /\ \A c \in DOMAIN states : states[c] \in CollectorState
  /\ way \in {"swept", "written", "checked"}
  /\ way = "checked" => asked \in Asking /\ verdict = Verdict(report, asked)
  /\ way # "checked" => verdict = Nothing
  /\ way # "swept" =>
       /\ report = [agents |-> report.agents, assets |-> report.assets, coverage |-> report.coverage,
                    health |-> report.health]
       /\ report.health \in {inForce, Nothing}
       /\ report.agents \in {grades, Nothing} /\ report.assets \in {decided, Nothing}
       /\ report.coverage = Nothing \/ report.coverage \in Seq(TrueRows(states))

(* A catalogue has an order.                                               *)
LEMMA CatalogueInOrder ==
  ASSUME NEW rules, IsFiniteSet(rules)
  PROVE  /\ Cardinality(rules) \in Nat /\ CatalogueOrder(rules) \in [1..Cardinality(rules) -> rules]
         /\ \A k, l \in 1..Cardinality(rules) : CatalogueOrder(rules)[k] = CatalogueOrder(rules)[l] => k = l
<1>1. Cardinality(rules) \in Nat /\ ExistsBijection(1..Cardinality(rules), rules)
  BY FS_CardinalityType
<1>2. \E order \in [1..Cardinality(rules) -> rules] :
        \A k, l \in DOMAIN order : order[k] = order[l] => k = l
  BY <1>1 DEF ExistsBijection, Bijection, Injection, IsInjective
<1> QED BY <1>1, <1>2 DEF CatalogueOrder

LEMMA CoverageIsTrue ==
  ASSUME NEW rules \in {Rule, Former}, NEW seen, GateAssumption
  PROVE  Coverage(rules, seen) \in Seq(TrueRows(seen))
<1>1. IsFiniteSet(rules)
  BY DEF GateAssumption
<1>2. PICK n : n = Cardinality(rules)
  OBVIOUS
<1>3. PICK order : order = CatalogueOrder(rules)
  OBVIOUS
<1>4. n \in Nat /\ order \in [1..n -> rules]
  BY <1>1, <1>2, <1>3, CatalogueInOrder
<1>5. ASSUME NEW r \in rules PROVE [rule |-> r.code, state |-> Covered(r, seen)] \in TrueRows(seen)
  <2>1. r \in Factors
    BY DEF Factors
  <2>2. r.code \in Codes(Factors) /\ Covered(r, seen) \in {Covered(q, seen) : q \in Factors}
    BY <2>1 DEF Codes
  <2>3. TrueRow([rule |-> r.code, state |-> Covered(r, seen)], seen)
    BY <2>1 DEF TrueRow
  <2> QED BY <2>2, <2>3 DEF TrueRows
<1>6. Coverage(rules, seen) \in [1..n -> TrueRows(seen)]
  BY <1>2, <1>3, <1>4, <1>5 DEF Coverage
<1> QED BY <1>4, <1>6

(* Whatever happens to its rows, none of them says that more was looked at.*)
LEMMA DamagesAreTrue ==
  ASSUME NEW seen, NEW rows \in Seq(TrueRows(seen)), NEW k \in DOMAIN rows,
         NEW damaged \in Damages(rows, k)
  PROVE  damaged \in Seq(TrueRows(seen))
<1> DEFINE T == TrueRows(seen)
<1>1. k \in 1..Len(rows) /\ Len(rows) \in Nat /\ \A i \in 1..Len(rows) : rows[i] \in T
  OBVIOUS
<1>2. ASSUME NEW e, e = [rows[k] EXCEPT !.state = "fine"] PROVE e \in T
  BY <1>1, <1>2 DEF TrueRows, TrueRow
<1> HIDE DEF T
<1>3. rows \in Seq(T)
  BY DEF T
<1>4. SubSeq(rows, 1, k - 1) \in Seq(T)
  <2>1. \A i \in 1..(k - 1) : rows[i] \in T
    BY <1>1
  <2> QED BY <1>1, <2>1, SubSeqProperties
<1>5. SubSeq(rows, k + 1, Len(rows)) \in Seq(T)
  <2>1. \A i \in (k + 1)..Len(rows) : rows[i] \in T
    BY <1>1
  <2> QED BY <1>1, <2>1, SubSeqProperties
<1>6. Without(rows, k) \in Seq(T)
  BY <1>4, <1>5, ConcatProperties DEF Without
<1>7. Append(rows, rows[k]) \in Seq(T)
  BY <1>1, <1>3, AppendProperties
<1>8. [rows EXCEPT ![k].state = "fine"] \in Seq(T)
  <2>1. PICK e : e = [rows[k] EXCEPT !.state = "fine"]
    OBVIOUS
  <2>2. e \in T
    BY <1>2, <2>1
  <2>3. [rows EXCEPT ![k] = e] \in Seq(T)
    BY <1>1, <1>3, <2>2, ExceptSeq
  <2> QED BY <2>1, <2>3
<1> QED BY <1>4, <1>6, <1>7, <1>8 DEF Damages, T

(* Rows of this catalogue, none twice, and as many as it has codes: all.   *)
LEMMA CompleteHasEveryRule ==
  ASSUME GateAssumption, NEW seen, NEW rows \in Seq(TrueRows(seen)), ~Malformed(rows), Complete(rows),
         NEW r \in Rule
  PROVE  Covered(r, seen) = "available"
<1>1. PICK C : C = Codes(Rule)
  OBVIOUS
<1>2. PICK n : n = Len(rows)
  OBVIOUS
<1>3. n \in Nat /\ DOMAIN rows = 1..n /\ n = Cardinality(C)
  BY <1>1, <1>2 DEF Complete
<1>4. IsFiniteSet(C)
  <2>1. PICK f : f = [q \in Rule |-> q.code]
    OBVIOUS
  <2>2. f \in Surjection(Rule, C)
    BY <1>1, <2>1 DEF Surjection, Codes
  <2> QED BY <2>2, FS_Surjection DEF GateAssumption
<1>5. PICK g : g = [k \in 1..n |-> rows[k].rule]
  OBVIOUS
<1>6. g \in Injection(1..n, C)
  <2>1. g \in [1..n -> C]
    BY <1>1, <1>3, <1>5 DEF Malformed
  <2>2. \A k, l \in 1..n : g[k] = g[l] => k = l
    BY <1>3, <1>5 DEF Malformed
  <2> QED BY <2>1, <2>2 DEF Injection, IsInjective
<1>7. Cardinality(1..n) = Cardinality(C)
  BY <1>3, FS_Interval
<1>8. g \in Surjection(1..n, C)
  BY <1>4, <1>6, <1>7, FS_Injection
<1>9. PICK k \in 1..n : g[k] = r.code
  BY <1>1, <1>8 DEF Surjection, Codes
<1>10. rows[k] \in TrueRows(seen) /\ rows[k].rule = r.code /\ rows[k].state = "available"
  BY <1>3, <1>5, <1>9 DEF Complete
<1>11. PICK q \in Factors : q.code = r.code /\ Covered(q, seen) = "available"
  BY <1>10 DEF TrueRows, TrueRow
<1>12. q = r
  BY <1>11 DEF Factors, GateAssumption
<1> QED BY <1>11, <1>12

LEMMA CoveredIsAvailable ==
  ASSUME NEW r, NEW seen, Covered(r, seen) = "available"
  PROVE  r.sensor \in DOMAIN seen /\ seen[r.sensor] = "available" /\ r.ceiling \in {Nothing, "available"}
BY DEF Covered

LEMMA GateHeldFromTheStart ==
  ASSUME GateAssumption, GateInit PROVE GateInv
BY DEF GateInit, GateInv

LEMMA GateHeldByEveryStep ==
  ASSUME GateAssumption, GateInv, [GateNext]_gateVars PROVE GateInv'
<1>1. CASE UNCHANGED gateVars
  BY <1>1 DEF gateVars, GateInv
<1>2. CASE Write
  <2>1. PICK rules \in {Rule, Former}, health \in {inForce, Nothing} : report' = ReportOf(rules, health)
    BY <1>2 DEF Write
  <2>2. Coverage(rules, states) \in Seq(TrueRows(states))
    BY CoverageIsTrue
  <2>3. UNCHANGED <<states, grades, decided, inForce, asked, verdict>> /\ way = "swept" /\ way' = "written"
    BY <1>2 DEF Write
  <2>4. /\ report' = [agents |-> grades, assets |-> decided, coverage |-> report'.coverage,
                      health |-> report'.health]
        /\ report'.health \in {inForce, Nothing}
        /\ report'.agents = grades /\ report'.assets = decided
        /\ report'.coverage \in Seq(TrueRows(states))
    BY <2>1, <2>2 DEF ReportOf
  <2> QED BY <2>3, <2>4 DEF GateInv
<1>3. CASE LoseRows
  <2>1. /\ way = "written" /\ way' = "written"
        /\ UNCHANGED <<states, grades, decided, inForce, asked, verdict>>
    BY <1>3 DEF LoseRows
  <2>2. CASE \E field \in {"agents", "assets", "coverage", "health"} : report' = [report EXCEPT ![field] = Nothing]
    <3>1. PICK field \in {"agents", "assets", "coverage", "health"} : report' = [report EXCEPT ![field] = Nothing]
      BY <2>2
    <3>2. PICK a, b, c, h : a = report.agents /\ b = report.assets /\ c = report.coverage /\ h = report.health
      OBVIOUS
    <3>3. /\ report = [agents |-> a, assets |-> b, coverage |-> c, health |-> h]
          /\ a \in {grades, Nothing} /\ b \in {decided, Nothing} /\ h \in {inForce, Nothing}
          /\ c = Nothing \/ c \in Seq(TrueRows(states))
      BY <2>1, <3>2 DEF GateInv
    <3>4. \/ report' = [agents |-> Nothing, assets |-> b, coverage |-> c, health |-> h]
          \/ report' = [agents |-> a, assets |-> Nothing, coverage |-> c, health |-> h]
          \/ report' = [agents |-> a, assets |-> b, coverage |-> Nothing, health |-> h]
          \/ report' = [agents |-> a, assets |-> b, coverage |-> c, health |-> Nothing]
      BY <3>1, <3>3
    <3>5. /\ report' = [agents |-> report'.agents, assets |-> report'.assets, coverage |-> report'.coverage,
                        health |-> report'.health]
          /\ report'.agents \in {grades, Nothing} /\ report'.assets \in {decided, Nothing}
          /\ report'.health \in {inForce, Nothing}
          /\ report'.coverage = Nothing \/ report'.coverage \in Seq(TrueRows(states))
      BY <3>3, <3>4
    <3> QED BY <2>1, <3>5 DEF GateInv
  <2>3. CASE /\ report.coverage # Nothing
             /\ \E k \in DOMAIN report.coverage : \E rows \in Damages(report.coverage, k) :
                  report' = [report EXCEPT !.coverage = rows]
    <3>1. PICK was : was = report.coverage
      OBVIOUS
    <3>2. was \in Seq(TrueRows(states))
      BY <2>1, <2>3, <3>1 DEF GateInv
    <3>3. PICK k \in DOMAIN was : \E rows \in Damages(was, k) : report' = [report EXCEPT !.coverage = rows]
      BY <2>3, <3>1
    <3>6. PICK rows \in Damages(was, k) : report' = [report EXCEPT !.coverage = rows]
      BY <3>3
    <3>4. rows \in Seq(TrueRows(states))
      BY <3>2, <3>6, DamagesAreTrue
    <3>5. /\ report' = [agents |-> report.agents, assets |-> report.assets, coverage |-> rows,
                        health |-> report.health]
          /\ report.health \in {inForce, Nothing}
          /\ report.agents \in {grades, Nothing} /\ report.assets \in {decided, Nothing}
      BY <2>1, <3>6 DEF GateInv
    <3> QED BY <2>1, <3>4, <3>5 DEF GateInv
  <2> QED BY <1>3, <2>2, <2>3 DEF LoseRows
<1>4. CASE \E ask \in Asking : Check(ask)
  <2>1. PICK ask \in Asking : Check(ask)
    BY <1>4
  <2>2. /\ way = "written" /\ way' = "checked" /\ asked' = ask
        /\ verdict' = Verdict(report, ask)
        /\ UNCHANGED <<states, grades, decided, inForce, report>>
    BY <2>1 DEF Check
  <2>3. verdict' = Verdict(report, asked)'
    BY <2>2
  <2> QED BY <2>2, <2>3 DEF GateInv
<1> QED BY <1>1, <1>2, <1>3, <1>4 DEF GateNext

LEMMA PassedIsLookedAt ==
  ASSUME GateAssumption, GateInv PROVE PassMeansLooked
<1> SUFFICES ASSUME verdict = 0
             PROVE  /\ report.health # Nothing => inForce
                    /\ \A a \in AgentId : ~Reaches(grades[a], asked.floor)
                    /\ \A a \in AssetId : asked.policy = Nothing => "disallowed" # decided[a]
                    /\ \A a \in AssetId : asked.policy # Nothing => "disallowed" # asked.policy[a]
                    /\ asked.require => \A r \in Rule : Covered(r, states) = "available"
  BY CoveredIsAvailable DEF PassMeansLooked
<1>1. Nothing # 0
  BY DEF GateAssumption
<1>2. way = "checked" /\ asked \in Asking /\ Verdict(report, asked) = 0
  BY <1>1 DEF GateInv
<1>3. /\ asked.policy # Unreadable /\ report.agents # Nothing /\ report.assets # Nothing
      /\ report.coverage # Nothing /\ ~Malformed(report.coverage)
      /\ asked.require => Complete(report.coverage)
      /\ Violations(Decided(report, asked.policy), asked.floor) = {}
  BY <1>2 DEF Verdict
<1>4. /\ report = [agents |-> grades, assets |-> decided, coverage |-> report.coverage, health |-> report.health]
      /\ report.health \in {inForce, Nothing}
  BY <1>2, <1>3 DEF GateInv
<1>5. report.coverage \in Seq(TrueRows(states))
  BY <1>2, <1>3 DEF GateInv
<1>6. PICK r : r = Decided(report, asked.policy)
  OBVIOUS
<1>7. /\ r.agents = grades /\ r.health = report.health
      /\ asked.policy = Nothing => r.assets = decided
      /\ asked.policy # Nothing => r.assets = asked.policy
  BY <1>4, <1>6 DEF Decided
<1>8. asked.policy # Nothing => DOMAIN asked.policy = AssetId
  BY <1>2, <1>3 DEF Asking
<1>9. DOMAIN grades = AgentId /\ DOMAIN decided = AssetId /\ inForce \in BOOLEAN
  BY DEF GateInv
<1>10. report.health # Nothing => inForce
  <2>1. r.health # FALSE
    BY <1>3, <1>6 DEF Violations
  <2> QED BY <2>1, <1>4, <1>7, <1>9
<1>11. \A a \in AgentId : ~Reaches(grades[a], asked.floor)
  BY <1>3, <1>6, <1>7, <1>9 DEF Violations
<1>12. \A a \in AssetId : r.assets[a] # "disallowed"
  BY <1>3, <1>6, <1>7, <1>8, <1>9 DEF Violations
<1>13. asked.require => \A q \in Rule : Covered(q, states) = "available"
  BY <1>3, <1>5, CompleteHasEveryRule
<1> QED BY <1>7, <1>10, <1>11, <1>12, <1>13

LEMMA FewerAtAHigherFloor ==
  ASSUME NEW r, NEW low \in Floor, NEW high \in Floor, low <= high, Violations(r, low) = {}
  PROVE  Violations(r, high) = {}
<1>1. \A grade : Reaches(grade, high) => Reaches(grade, low)
  BY DEF Reaches, Floor, Band
<1> QED BY <1>1 DEF Violations

LEMMA LaxerPasses ==
  ASSUME GateAssumption, GateInv PROVE StricterIsStricter
<1> SUFFICES ASSUME verdict # Nothing, NEW ask \in Asking, ask.policy = asked.policy
             PROVE  /\ (verdict = 2) = (Verdict(report, ask) = 2)
                    /\ (verdict = 0 /\ ask.floor >= asked.floor /\ (ask.require => asked.require)) =>
                          Verdict(report, ask) = 0
  BY DEF StricterIsStricter
<1>1. asked \in Asking /\ verdict = Verdict(report, asked)
  BY DEF GateInv
<1>2. PICK none : none = (asked.policy = Unreadable \/ Nothing \in {report.agents, report.assets, report.coverage}
                            \/ Malformed(report.coverage)) /\ none \in BOOLEAN
  OBVIOUS
<1>3. CASE none
  <2>1. Verdict(report, asked) = 2 /\ Verdict(report, ask) = 2
    BY <1>2, <1>3 DEF Verdict
  <2> QED BY <1>1, <2>1
<1>4. CASE ~none
  <2>1. \A x \in {ask, asked} : Verdict(report, x) =
          IF x.require /\ ~Complete(report.coverage) THEN 3
          ELSE IF Violations(Decided(report, x.policy), x.floor) # {} THEN 1 ELSE 0
    BY <1>2, <1>4 DEF Verdict
  <2>2. verdict # 2 /\ Verdict(report, ask) # 2
    BY <1>1, <2>1
  <2>3. ASSUME verdict = 0, ask.floor >= asked.floor, ask.require => asked.require
        PROVE  Verdict(report, ask) = 0
    <3>1. ~(asked.require /\ ~Complete(report.coverage))
          /\ Violations(Decided(report, asked.policy), asked.floor) = {}
      <4>1. Verdict(report, asked) = 0
        BY <1>1, <2>3
      <4> QED BY <2>1, <4>1
    <3>2. ask.floor \in Floor /\ asked.floor \in Floor /\ asked.floor <= ask.floor
      BY <1>1, <2>3 DEF Asking, Floor
    <3>3. Violations(Decided(report, ask.policy), ask.floor) = {}
      BY <3>1, <3>2, FewerAtAHigherFloor
    <3> QED BY <2>1, <2>3, <3>1, <3>3
  <2> QED BY <2>2, <2>3
<1> QED BY <1>2, <1>3, <1>4

(* A state of a collector is one a row may say, except that of an error.   *)
LEMMA CoveredIsAState ==
  ASSUME GateAssumption, NEW r \in Rule, NEW seen, \A c \in DOMAIN seen : seen[c] \in CollectorState
  PROVE  /\ Covered(r, seen) \in State \cup CollectorState
         /\ (Covered(r, seen) \notin State) = (r.sensor \in DOMAIN seen /\ seen[r.sensor] = "error")
<1>1. r.ceiling \in State \cup {Nothing}
  BY DEF GateAssumption
<1>2. CASE r.sensor \notin DOMAIN seen
  BY <1>1, <1>2 DEF Covered, State, CollectorState
<1>3. CASE r.sensor \in DOMAIN seen
  <2>1. PICK s : s = seen[r.sensor]
    OBVIOUS
  <2>2. s \in CollectorState
    BY <1>3, <2>1
  <2>3. Covered(r, seen) = IF r.ceiling # Nothing /\ s = "available" THEN r.ceiling ELSE s
    BY <1>3, <2>1 DEF Covered
  <2> QED BY <1>1, <1>3, <2>1, <2>2, <2>3 DEF State, CollectorState
<1> QED BY <1>2, <1>3

(* What a build writes of its own catalogue it refuses only for an error.  *)
LEMMA OwnRows ==
  ASSUME GateAssumption, NEW seen, \A c \in DOMAIN seen : seen[c] \in CollectorState
  PROVE  /\ Coverage(Rule, seen) \in [1..Cardinality(Rule) -> Rows]
         /\ Malformed(Coverage(Rule, seen)) =
              (\E r \in Rule : r.sensor \in DOMAIN seen /\ seen[r.sensor] = "error")
<1>1. IsFiniteSet(Rule) /\ \A r, q \in Rule : r.code = q.code => r = q
  BY DEF GateAssumption
<1>2. PICK n : n = Cardinality(Rule)
  OBVIOUS
<1>3. PICK order : order = CatalogueOrder(Rule)
  OBVIOUS
<1>4. /\ n \in Nat /\ order \in [1..n -> Rule]
      /\ \A k, l \in 1..n : order[k] = order[l] => k = l
  BY <1>1, <1>2, <1>3, CatalogueInOrder
<1>5. order \in Surjection(1..n, Rule)
  <2>1. order \in Injection(1..n, Rule)
    BY <1>4 DEF Injection, IsInjective
  <2>2. Cardinality(1..n) = Cardinality(Rule)
    BY <1>2, <1>4, FS_Interval
  <2> QED BY <1>1, <2>1, <2>2, FS_Injection
<1>6. PICK rows : rows = Coverage(Rule, seen)
  OBVIOUS
<1>7. rows = [k \in 1..n |-> [rule |-> order[k].code, state |-> Covered(order[k], seen)]]
  BY <1>2, <1>3, <1>6 DEF Coverage
<1>8. DOMAIN rows = 1..n /\ \A k \in 1..n : /\ rows[k].rule = order[k].code
                                            /\ rows[k].state = Covered(order[k], seen)
                                            /\ rows[k] \in Rows
  <2>1. ASSUME NEW k \in 1..n
        PROVE  [rule |-> order[k].code, state |-> Covered(order[k], seen)] \in Rows
    <3>1. PICK r \in Rule : r = order[k]
      BY <1>4
    <3>2. r.code \in Codes(Rule) /\ Covered(r, seen) \in State \cup CollectorState
      BY CoveredIsAState DEF Codes
    <3> QED BY <3>1, <3>2 DEF Rows
  <2> QED BY <1>7, <2>1
<1>9. \A k, l \in 1..n : k # l => rows[k].rule # rows[l].rule
  BY <1>1, <1>4, <1>8
<1>10. \A k \in 1..n : rows[k].rule \in Codes(Rule)
  BY <1>4, <1>8 DEF Codes
<1>11. Malformed(rows) = (\E k \in 1..n : rows[k].state \notin State)
  BY <1>8, <1>9, <1>10 DEF Malformed
<1>12. (\E k \in 1..n : rows[k].state \notin State)
         = (\E r \in Rule : r.sensor \in DOMAIN seen /\ seen[r.sensor] = "error")
  <2>1. ASSUME NEW k \in 1..n, rows[k].state \notin State
        PROVE  \E r \in Rule : r.sensor \in DOMAIN seen /\ seen[r.sensor] = "error"
    <3>1. PICK r \in Rule : r = order[k]
      BY <1>4
    <3>2. Covered(r, seen) \notin State
      BY <1>8, <2>1, <3>1
    <3> QED BY <3>2, CoveredIsAState
  <2>2. ASSUME NEW r \in Rule, r.sensor \in DOMAIN seen, seen[r.sensor] = "error"
        PROVE  \E k \in 1..n : rows[k].state \notin State
    <3>1. PICK k \in 1..n : order[k] = r
      BY <1>5 DEF Surjection
    <3>2. Covered(r, seen) \notin State
      BY <2>2, CoveredIsAState
    <3> QED BY <1>8, <3>1, <3>2
  <2> QED BY <2>1, <2>2
<1>13. rows \in [1..n -> Rows]
  BY <1>7, <1>8
<1> QED BY <1>2, <1>6, <1>11, <1>12, <1>13

LEMMA OnlyAnErrorIsRefused ==
  ASSUME GateAssumption, GateInv PROVE RefusedForAnError
<1> SUFFICES ASSUME AsWritten
             PROVE  (verdict = 2) = (\E r \in Rule : r.sensor \in DOMAIN states /\ states[r.sensor] = "error")
  BY DEF RefusedForAnError
<1>1. verdict = Verdict(report, asked) /\ asked.policy # Unreadable
  BY DEF AsWritten, GateInv
<1>2. PICK rows : rows = Coverage(Rule, states)
  OBVIOUS
<1>3. /\ rows \in [1..Cardinality(Rule) -> Rows]
      /\ Malformed(rows) = (\E r \in Rule : r.sensor \in DOMAIN states /\ states[r.sensor] = "error")
  BY <1>2, OwnRows DEF GateInv
<1>4. report.agents = grades /\ report.assets = decided /\ report.coverage = rows
  BY <1>2 DEF AsWritten, ReportOf
<1>5. Nothing # grades /\ Nothing # decided /\ Nothing # rows
  BY <1>3 DEF GateAssumption, GateInv
<1>6. CASE \E r \in Rule : r.sensor \in DOMAIN states /\ states[r.sensor] = "error"
  <2>1. Malformed(rows)
    BY <1>3, <1>6
  <2>2. verdict = 2
    BY <1>1, <1>4, <2>1 DEF Verdict
  <2> QED BY <1>6, <2>2
<1>7. CASE ~\E r \in Rule : r.sensor \in DOMAIN states /\ states[r.sensor] = "error"
  <2>1. ~Malformed(rows)
    BY <1>3, <1>7
  <2>2. verdict \in {0, 1, 3}
    BY <1>1, <1>4, <1>5, <2>1 DEF Verdict
  <2>3. verdict # 2
    BY <2>2
  <2> QED BY <1>7, <2>3
<1> QED BY <1>6, <1>7

(* gate.rs:97-228: whatever two catalogues the builds have, and however a  *)
(* report is damaged, it passes only if what was asked for was looked at,  *)
(* nothing was found and it does not say that it was scored by other rules *)
(* than the operator's; a stricter gate passes nothing more; and as it was *)
(* written it is refused only for a sensor that could not be read.         *)
THEOREM NothingUnseenPasses ==
  ASSUME GateAssumption PROVE GateSpec => []GateHolds
<1>1. GateInit => GateInv
  BY GateHeldFromTheStart
<1>2. GateInv /\ [GateNext]_gateVars => GateInv'
  BY GateHeldByEveryStep
<1>3. GateInv => GateHolds
  BY PassedIsLookedAt, LaxerPasses, OnlyAnErrorIsRefused DEF GateHolds
<1> QED BY <1>1, <1>2, <1>3, PTL DEF GateSpec
=============================================================================
