------------------------------ MODULE FilesProofs ------------------------------
(***************************************************************************)
(* Theorems about Approval and PolicyFile, the two files a person answers  *)
(* and edits, about Attestation, what sweeps found of the sensors' tools,  *)
(* ResponseTransition, the edges of the rules, SensorHealth and            *)
(* NetworkHistory, for any requests, editors, rules, tools, keys, sensors, *)
(* surfaces, endpoints and bounds.                                         *)
(***************************************************************************)
EXTENDS Approval, PolicyFile, Attestation, ResponseTransition, SensorHealth, NetworkHistory,
        FiniteSetTheorems, SequenceTheorems, WellFoundedInduction, TLAPS

TypeInv == TypeOK /\ IsFiniteSet(file)

(* The file never holds two records of one request.                        *)
Unique(records) == \A a, b \in records : a.id = b.id => a = b
IdsUnique == Unique(file)
-----------------------------------------------------------------------------
(* Settling a record changes neither whose it is nor when it was made.     *)
LEMMA SettledIsRecord ==
  ASSUME ApprovalAssumption, NEW r \in Record
  PROVE  /\ Settled(r) \in Record /\ Settled(r).id = r.id /\ Settled(r).created = r.created
         /\ Settled(r).expires = r.expires
         /\ Settled(r).state = (IF Elapsed(r) THEN "expired" ELSE r.state)
         /\ Settled(r).resolved = (IF Elapsed(r) THEN r.expires ELSE r.resolved)
         /\ ~Elapsed(r) => Settled(r) = r
<1>1. r.expires \in 0..(MaxTime + TTL)
  BY DEF Record
<1> DEFINE x == [r EXCEPT !.state = "expired", !.resolved = r.expires]
<1>2. /\ x \in Record /\ x.id = r.id /\ x.created = r.created /\ x.expires = r.expires
      /\ x.state = "expired" /\ x.resolved = r.expires
  BY <1>1 DEF Record
<1>3. CASE Elapsed(r)
  BY <1>1, <1>2, <1>3 DEF Settled, Record
<1>4. CASE ~Elapsed(r)
  BY <1>4 DEF Settled
<1> QED
  BY <1>3, <1>4

LEMMA CurrentIsBounded ==
  ASSUME ApprovalAssumption, TypeInv
  PROVE  /\ Current \subseteq Record /\ IsFiniteSet(Current)
         /\ Cardinality(Current) <= MaxRecords
         /\ \A c \in Current : \E r \in file : WellFormed(r) /\ c = Settled(r)
<1> DEFINE read == {x \in file : WellFormed(x)}
<1>1. IsFiniteSet(read) /\ Cardinality(read) <= Cardinality(file)
  BY FS_Subset DEF TypeInv
<1>2. IsFiniteSet(Current) /\ Cardinality(Current) <= Cardinality(read)
  <2> DEFINE f == [x \in read |-> Settled(x)]
  <2>1. f \in Surjection(read, Current)
    BY DEF Surjection, Current
  <2> QED
    BY <1>1, <2>1, FS_Surjection
<1>3. Cardinality(file) \in Nat /\ Cardinality(read) \in Nat /\ Cardinality(Current) \in Nat
  BY <1>1, <1>2, FS_CardinalityType DEF TypeInv
<1>4. Current \subseteq Record
  BY SettledIsRecord DEF Current, TypeInv, TypeOK
<1>5. \A c \in Current : \E r \in file : WellFormed(r) /\ c = Settled(r)
  BY DEF Current
<1> QED
  BY <1>1, <1>2, <1>3, <1>4, <1>5 DEF TypeInv, TypeOK, ApprovalAssumption

LEMMA FreshIsRecord ==
  ASSUME ApprovalAssumption, TypeOK, NEW q \in Request
  PROVE  Fresh(q) \in Record
BY DEF ApprovalAssumption, TypeOK, Fresh, Record, Unresolved

LEMMA RetainedIsBounded ==
  ASSUME ApprovalAssumption, NEW old, IsFiniteSet(old), Cardinality(old) <= MaxRecords,
         NEW new, NEW kept \in Retained(old \cup {new}, new)
  PROVE  kept \subseteq old \cup {new} /\ IsFiniteSet(kept) /\ Cardinality(kept) <= MaxRecords
<1> DEFINE all == old \cup {new}
<1>1. IsFiniteSet(all) /\ Cardinality(all) \in Nat /\ Cardinality(all) <= Cardinality(old) + 1
      /\ Cardinality(old) \in Nat
  <2>1. Cardinality(old) \in Nat
    BY FS_CardinalityType
  <2>2. IsFiniteSet(all) /\ Cardinality(all) = IF new \in old THEN Cardinality(old)
                                                               ELSE Cardinality(old) + 1
    BY FS_AddElement
  <2> QED
    BY <2>1, <2>2
<1>2. CASE Cardinality(all) <= MaxRecords
  BY <1>1, <1>2 DEF Retained
<1>3. CASE ~(Cardinality(all) <= MaxRecords)
  <2>1. PICK c \in First(all, new) : kept = all \ {c}
    BY <1>3 DEF Retained
  <2>2. c \in all
    BY <2>1 DEF First
  <2>3. IsFiniteSet(all \ {c}) /\ Cardinality(all \ {c}) = Cardinality(all) - 1
    BY <1>1, <2>2, FS_RemoveElement
  <2> QED
    BY <1>1, <2>1, <2>3 DEF ApprovalAssumption
<1> QED
  BY <1>2, <1>3

LEMMA AnsweredIsBounded ==
  ASSUME ApprovalAssumption, TypeInv, NEW r \in Current, NEW d \in Decision
  PROVE  /\ Answered(r, d) \subseteq Record /\ IsFiniteSet(Answered(r, d))
         /\ Cardinality(Answered(r, d)) <= MaxRecords
         /\ \A x \in Answered(r, d) :
              \/ x \in Current /\ x # r
              \/ x.id = r.id /\ x.state = d /\ x.created = r.created /\ x.expires = r.expires
                 /\ x.resolved = now
         /\ \E x \in Answered(r, d) : x.id = r.id /\ x.state = d
         /\ \A x \in Current : x # r => x \in Answered(r, d)
<1> DEFINE x == [r EXCEPT !.state = d, !.resolved = now]
           rest == Current \ {r}
<1>1. r \in Record /\ IsFiniteSet(Current) /\ Cardinality(Current) <= MaxRecords
      /\ Current \subseteq Record
  BY CurrentIsBounded
<1>2. now \in 0..(MaxTime + TTL)
  BY DEF TypeInv, TypeOK, ApprovalAssumption
<1>3. x \in Record
  BY <1>1, <1>2 DEF Record
<1>4. IsFiniteSet(rest) /\ Cardinality(rest) = Cardinality(Current) - 1
  BY <1>1, FS_RemoveElement
<1>5. Cardinality(rest) \in Nat /\ Cardinality(Current) \in Nat
  BY <1>1, <1>4, FS_CardinalityType
<1>6. IsFiniteSet(rest \cup {x}) /\ Cardinality(rest \cup {x}) <= Cardinality(rest) + 1
  <2>1. IsFiniteSet(rest \cup {x}) /\ Cardinality(rest \cup {x}) = IF x \in rest
                                         THEN Cardinality(rest) ELSE Cardinality(rest) + 1
    BY <1>4, FS_AddElement
  <2> QED
    BY <1>5, <2>1
<1>7. Cardinality(rest \cup {x}) \in Nat /\ MaxRecords \in Nat
  BY <1>6, FS_CardinalityType DEF ApprovalAssumption
<1>8. Answered(r, d) = rest \cup {x}
  BY DEF Answered
<1>9. x.id = r.id /\ x.state = d /\ x.created = r.created /\ x.expires = r.expires
      /\ x.resolved = now
  BY <1>1 DEF Record
<1> HIDE DEF x
<1>10. Cardinality(rest \cup {x}) <= MaxRecords
  BY <1>1, <1>4, <1>5, <1>6, <1>7
<1> QED
  BY <1>1, <1>3, <1>6, <1>8, <1>9, <1>10
-----------------------------------------------------------------------------
LEMMA StepTypeInv ==
  ASSUME ApprovalAssumption, TypeInv, [Next]_vars
  PROVE  TypeInv'
<1> USE DEF TypeInv, TypeOK, ApprovalAssumption
<1>0. /\ Current \subseteq Record /\ IsFiniteSet(Current)
      /\ Cardinality(Current) <= MaxRecords
  BY CurrentIsBounded
<1>1. ASSUME NEW q \in Request, Ask(q) PROVE TypeInv'
  <2>1. UNCHANGED <<now, decided, stepsBack>>
    BY <1>1 DEF Ask
  <2>2. CASE Known(q)
    BY <1>0, <1>1, <2>1, <2>2 DEF Ask
  <2>3. CASE ~Known(q)
    <3>1. file' \in Retained(Current \cup {Fresh(q)}, Fresh(q))
      BY <1>1, <2>3 DEF Ask
    <3>2. file' \subseteq Current \cup {Fresh(q)} /\ IsFiniteSet(file')
          /\ Cardinality(file') <= MaxRecords
      BY <1>0, <3>1, RetainedIsBounded
    <3>3. Fresh(q) \in Record
      BY FreshIsRecord
    <3> QED
      BY <1>0, <2>1, <3>2, <3>3
  <2> QED
    BY <2>2, <2>3
<1>2. ASSUME NEW q \in Request, NEW d \in Decision, Resolve(q, d) PROVE TypeInv'
  <2>1. ASSUME NEW r \in Current, Open(r, q), file' = Answered(r, d), Count(q),
               UNCHANGED <<now, stepsBack>>
        PROVE  TypeInv'
    <3>1. decided' \in [Request -> 0..2]
      BY <2>1 DEF Count
    <3> QED
      BY <2>1, <3>1, AnsweredIsBounded
  <2>2. CASE file' = Current /\ UNCHANGED <<now, decided, stepsBack>>
    BY <1>0, <2>2
  <2> QED
    BY <1>2, <2>1, <2>2 DEF Resolve
<1>3. CASE Tick
  BY <1>3 DEF Tick
<1>4. CASE StepBack
  BY <1>4 DEF StepBack
<1>5. CASE UNCHANGED vars
  BY <1>5 DEF vars
<1> QED
  BY <1>1, <1>2, <1>3, <1>4, <1>5 DEF Next

LEMMA TypeInvHolds ==
  ASSUME ApprovalAssumption
  PROVE  Spec => []TypeInv
<1>1. Init => TypeInv
  BY FS_EmptySet DEF Init, TypeInv, TypeOK, ApprovalAssumption
<1> QED
  BY <1>1, StepTypeInv, PTL DEF Spec

(* Type correctness: no step leaves the sets the variables range over, and *)
(* the file stays within its bound whatever is asked and answered.         *)
THEOREM TypeCorrect ==
  ASSUME ApprovalAssumption
  PROVE  Spec => []TypeOK
<1>1. TypeInv => TypeOK
  BY DEF TypeInv
<1> QED
  BY <1>1, TypeInvHolds, PTL
-----------------------------------------------------------------------------
LEMMA CurrentIsUnique ==
  ASSUME ApprovalAssumption, TypeInv, IdsUnique
  PROVE  Unique(Current)
<1> SUFFICES ASSUME NEW a \in Current, NEW b \in Current, a.id = b.id PROVE a = b
  BY DEF Unique
<1>1. PICK x \in file : a = Settled(x)
  BY CurrentIsBounded
<1>2. PICK y \in file : b = Settled(y)
  BY CurrentIsBounded
<1>3. x.id = y.id
  BY <1>1, <1>2, SettledIsRecord DEF TypeInv, TypeOK
<1> QED
  BY <1>1, <1>2, <1>3 DEF IdsUnique, Unique

(* Every call puts back what it read, but for the record of the request it *)
(* is about, of which there is one at most.                                *)
LEMMA StepUnique ==
  ASSUME ApprovalAssumption, TypeInv, IdsUnique, [Next]_vars
  PROVE  IdsUnique'
<1>0. Unique(Current) /\ IsFiniteSet(Current) /\ Cardinality(Current) <= MaxRecords
  BY CurrentIsUnique, CurrentIsBounded
<1>1. ASSUME NEW q \in Request, Ask(q) PROVE IdsUnique'
  <2>1. CASE Known(q)
    BY <1>0, <1>1, <2>1 DEF Ask, IdsUnique, Unique
  <2>2. CASE ~Known(q)
    <3>1. file' \subseteq Current \cup {Fresh(q)}
      BY <1>0, <1>1, <2>2, RetainedIsBounded DEF Ask
    <3>2. Fresh(q).id = q /\ \A r \in Current : r.id # q
      BY <2>2 DEF Known, Fresh
    <3> QED
      BY <1>0, <3>1, <3>2 DEF IdsUnique, Unique
  <2> QED
    BY <2>1, <2>2
<1>2. ASSUME NEW q \in Request, NEW d \in Decision, Resolve(q, d) PROVE IdsUnique'
  <2>1. ASSUME NEW r \in Current, file' = Answered(r, d) PROVE IdsUnique'
    <3> DEFINE x == [r EXCEPT !.state = d, !.resolved = now]
    <3>1. x.id = r.id
      BY CurrentIsBounded DEF Record
    <3> HIDE DEF x
    <3>2. file' = (Current \ {r}) \cup {x}
      BY <2>1 DEF Answered, x
    <3> QED
      BY <1>0, <3>1, <3>2 DEF IdsUnique, Unique
  <2>2. CASE file' = Current
    BY <1>0, <2>2 DEF IdsUnique
  <2> QED
    BY <1>2, <2>1, <2>2 DEF Resolve
<1>3. CASE UNCHANGED file
  BY <1>3 DEF IdsUnique
<1> QED
  BY <1>1, <1>2, <1>3 DEF Next, Tick, StepBack, vars

LEMMA UniqueHolds ==
  ASSUME ApprovalAssumption
  PROVE  Spec => [](TypeInv /\ IdsUnique)
<1>1. Init => IdsUnique
  BY DEF Init, IdsUnique, Unique
<1> QED
  BY <1>1, TypeInvHolds, StepUnique, PTL DEF Spec
-----------------------------------------------------------------------------
Stands == \A q \in Request, d \in Decision :
            StatusOf(q) = d => StatusOf(q)' \in {d, "unasked"}

LEMMA StepStands ==
  ASSUME ApprovalAssumption, TypeInv, IdsUnique, [Next]_vars
  PROVE  Stands
<1> SUFFICES ASSUME NEW q \in Request, NEW d \in Decision, StatusOf(q) = d
             PROVE  StatusOf(q)' \in {d, "unasked"}
  BY DEF Stands
<1>0. d \in {"approved", "denied"}
  BY DEF Decision
(* The decision that is read stands in the file, and nothing else of q.    *)
<1>1. PICK c \in Current : c.id = q /\ c.state = d
  <2>1. Known(q)
    BY <1>0 DEF StatusOf
  <2> QED
    BY <2>1 DEF StatusOf, Known
<1>2. c \in file /\ c \in Record
  <2>1. PICK r \in file : c = Settled(r)
    BY CurrentIsBounded
  <2> QED
    BY <1>0, <1>1, <2>1, SettledIsRecord DEF TypeInv, TypeOK
<1>3. \A x \in Current \cup file : x.id = q => x = c
  <2>1. Unique(Current) /\ Unique(file)
    BY CurrentIsUnique DEF IdsUnique
  <2> QED
    BY <1>1, <1>2, <2>1 DEF Unique
(* Whatever the step, no other record of q is in the file after it.        *)
<1>4. \A x \in file' : x.id = q => x = c
  <2>1. ASSUME NEW p \in Request, Ask(p) PROVE \A x \in file' : x.id = q => x = c
    <3>1. CASE Known(p)
      BY <1>3, <2>1, <3>1 DEF Ask
    <3>2. CASE ~Known(p)
      <4>1. file' \subseteq Current \cup {Fresh(p)}
        BY <2>1, <3>2, RetainedIsBounded, CurrentIsBounded DEF Ask
      <4>2. Fresh(p).id # q
        BY <1>1, <3>2 DEF Known, Fresh
      <4> QED
        BY <1>3, <4>1, <4>2
    <3> QED
      BY <3>1, <3>2
  <2>2. ASSUME NEW p \in Request, NEW e \in Decision, Resolve(p, e)
        PROVE  \A x \in file' : x.id = q => x = c
    <3>1. ASSUME NEW r \in Current, Open(r, p), file' = Answered(r, e)
          PROVE  \A x \in file' : x.id = q => x = c
      <4>1. r.id # q
        BY <1>0, <1>1, <1>3, <3>1 DEF Open
      <4> QED
        BY <1>3, <3>1, <4>1, AnsweredIsBounded
    <3> QED
      BY <1>3, <2>2, <3>1 DEF Resolve
  <2>3. CASE UNCHANGED file
    BY <1>3, <2>3
  <2> QED
    BY <2>1, <2>2, <2>3 DEF Next, Tick, StepBack, vars
<1>5. Settled(c)' = c
  BY <1>0, <1>1 DEF Settled, Elapsed
<1>6. \A y \in Current' : y.id = q => y = c
  <2> SUFFICES ASSUME NEW y \in Current', y.id = q PROVE y = c
    OBVIOUS
  <2>1. PICK x \in file' : y = Settled(x)'
    BY DEF Current
  <2>2. x \in Record
    BY StepTypeInv DEF TypeInv, TypeOK
  <2>3. x.id = q
    BY <2>1, <2>2 DEF Settled, Record
  <2> QED
    BY <1>4, <1>5, <2>1, <2>3
<1>7. CASE Known(q)'
  BY <1>1, <1>6, <1>7 DEF StatusOf, Known
<1>8. CASE ~Known(q)'
  BY <1>8 DEF StatusOf
<1> QED
  BY <1>7, <1>8

(* As long as a decision can be read at all it is the decision that was    *)
(* made, however full the file and wherever the clock goes.                *)
THEOREM DecisionsStand ==
  ASSUME ApprovalAssumption
  PROVE  Spec => DecisionStands
<1>1. TypeInv /\ IdsUnique /\ [Next]_vars => Stands
  BY StepStands
<1> QED
  BY <1>1, UniqueHolds, PTL DEF Spec, DecisionStands, Stands
-----------------------------------------------------------------------------
(***************************************************************************)
(* With room for a record of every request, and a clock that is never set  *)
(* back, nothing is evicted and nothing is skipped.  DecidedOnce and the   *)
(* refinement need that every record is plausible to a reader and that the *)
(* record of a decision is still there.                                    *)
(***************************************************************************)
Roomy == IsFiniteSet(Request) /\ Cardinality(Request) <= MaxRecords
Steady == MaxStepsBack = 0

AllPlausible == \A r \in file : WellFormed(r) /\ r.created <= now
DecisionsKept ==
  \A q \in Request : decided[q] # 0 => \E r \in file : r.id = q /\ r.state \in Decision

RoomInv == IdsUnique /\ AllPlausible /\ DecisionsKept

LEMMA OnePerRequestIsBounded ==
  ASSUME ApprovalAssumption, Roomy, NEW records \in SUBSET Record, Unique(records)
  PROVE  Cardinality(records) <= MaxRecords
<1> DEFINE f == [r \in records |-> r.id]
<1>1. f \in [records -> Request]
  BY DEF Record
<1>2. \A a, b \in records : f[a] = f[b] => a = b
  BY DEF Unique
<1>3. f \in Injection(records, Request)
  BY <1>1, <1>2 DEF Injection, IsInjective
<1>4. IsFiniteSet(records) /\ Cardinality(records) <= Cardinality(Request)
  BY <1>3, FS_Injection DEF Roomy
<1>5. Cardinality(records) \in Nat /\ Cardinality(Request) \in Nat
  BY <1>4, FS_CardinalityType DEF Roomy
<1> QED
  BY <1>4, <1>5 DEF Roomy, ApprovalAssumption

(* With room, a request that is not known is put beside all the others.    *)
LEMMA AskKeepsAll ==
  ASSUME ApprovalAssumption, Roomy, TypeInv, IdsUnique, NEW q \in Request, Ask(q), ~Known(q)
  PROVE  file' = Current \cup {Fresh(q)}
<1>1. Current \cup {Fresh(q)} \in SUBSET Record
  BY CurrentIsBounded, FreshIsRecord DEF TypeInv
<1>2. Fresh(q).id = q /\ \A r \in Current : r.id # q
  BY DEF Known, Fresh
<1>3. Unique(Current \cup {Fresh(q)})
  BY <1>2, CurrentIsUnique DEF Unique
<1>4. Cardinality(Current \cup {Fresh(q)}) <= MaxRecords
  BY <1>1, <1>3, OnePerRequestIsBounded
<1> QED
  BY <1>4 DEF Ask, Retained

LEMMA SettledIsPlausible ==
  ASSUME ApprovalAssumption, TypeInv, AllPlausible, NEW c \in Current
  PROVE  WellFormed(c) /\ c.created <= now /\ ~Elapsed(c)
<1>1. PICK r \in file : c = Settled(r)
  BY CurrentIsBounded
<1>2. r \in Record /\ WellFormed(r) /\ r.created <= now
  BY <1>1 DEF AllPlausible, TypeInv, TypeOK
<1> QED
  BY <1>1, <1>2, SettledIsRecord DEF WellFormed, Elapsed

(* A decision is in the file as anybody reads it.                          *)
LEMMA DecisionsAreRead ==
  ASSUME ApprovalAssumption, TypeInv, RoomInv, NEW q \in Request, decided[q] # 0
  PROVE  \E c \in Current : c.id = q /\ c.state \in Decision
<1>1. PICK r \in file : r.id = q /\ r.state \in Decision
  BY DEF RoomInv, DecisionsKept
<1>2. WellFormed(r) /\ Settled(r) = r
  BY <1>1 DEF RoomInv, AllPlausible, Settled, Elapsed, Decision
<1> QED
  BY <1>1, <1>2 DEF Current

LEMMA StepRoomInv ==
  ASSUME ApprovalAssumption, Roomy, Steady, TypeInv, RoomInv, DecidedOnce, [Next]_vars
  PROVE  RoomInv' /\ DecidedOnce'
<1> USE DEF RoomInv
<1>0. IdsUnique' /\ TypeInv'
  BY StepUnique, StepTypeInv
<1>1. ASSUME NEW q \in Request, Ask(q) PROVE RoomInv' /\ DecidedOnce'
  <2>1. \A c \in Current : WellFormed(c) /\ c.created <= now
    BY SettledIsPlausible
  <2>2. WellFormed(Fresh(q)) /\ Fresh(q).created <= now
    BY DEF WellFormed, Fresh, TypeInv, TypeOK, ApprovalAssumption, Unresolved
  <2>3. file' = Current \/ file' = Current \cup {Fresh(q)}
    BY <1>1, AskKeepsAll DEF Ask
  <2>4. UNCHANGED <<now, decided>>
    BY <1>1 DEF Ask
  <2>5. AllPlausible'
    BY <2>1, <2>2, <2>3, <2>4 DEF AllPlausible, WellFormed
  <2>6. DecisionsKept'
    BY <2>3, <2>4, DecisionsAreRead DEF DecisionsKept
  <2> QED
    BY <1>0, <2>4, <2>5, <2>6 DEF DecidedOnce
<1>2. ASSUME NEW q \in Request, NEW d \in Decision, Resolve(q, d) PROVE RoomInv' /\ DecidedOnce'
  <2>1. ASSUME NEW r \in Current, Open(r, q), file' = Answered(r, d), Count(q),
               UNCHANGED <<now, stepsBack>>
        PROVE  RoomInv' /\ DecidedOnce'
    <3>1. WellFormed(r) /\ r.created <= now /\ r.id = q /\ r.state = "pending" /\ now < r.expires
      BY <2>1, SettledIsPlausible DEF Open
    <3>2. AllPlausible'
      <4> SUFFICES ASSUME NEW x \in Answered(r, d) PROVE WellFormed(x) /\ x.created <= now
        BY <2>1 DEF AllPlausible, WellFormed
      <4>1. CASE x \in Current
        BY <4>1, SettledIsPlausible
      <4>2. CASE x.state = d /\ x.created = r.created /\ x.expires = r.expires
                 /\ x.resolved = now
        <5>1. r \in Record /\ now \in Nat
          BY CurrentIsBounded DEF TypeInv, TypeOK
        <5> QED
          BY <3>1, <4>2, <5>1 DEF WellFormed, Record
      <4> QED
        BY <4>1, <4>2, AnsweredIsBounded
(* An open request was not decided: its decision would be in its place.    *)
    <3>3. decided[q] = 0
      <4>1. Unique(Current)
        BY CurrentIsUnique
      <4> QED
        BY <3>1, <4>1, DecisionsAreRead DEF Unique, Decision
    <3>4. decided' = [decided EXCEPT ![q] = 1]
      BY <2>1, <3>3 DEF Count, TypeInv, TypeOK
    <3>5. DecisionsKept'
      <4> SUFFICES ASSUME NEW p \in Request, decided'[p] # 0
                   PROVE  \E x \in file' : x.id = p /\ x.state \in Decision
        BY DEF DecisionsKept
      <4>1. CASE p = q
        BY <2>1, <3>1, <4>1, AnsweredIsBounded
      <4>2. CASE p # q
        <5>1. decided[p] # 0
          BY <3>4, <4>2 DEF TypeInv, TypeOK
        <5>2. PICK c \in Current : c.id = p /\ c.state \in Decision
          BY <5>1, DecisionsAreRead
        <5>3. c \in Answered(r, d)
          BY <3>1, <4>2, <5>2, AnsweredIsBounded
        <5> QED
          BY <2>1, <5>2, <5>3
      <4> QED
        BY <4>1, <4>2
    <3>6. DecidedOnce'
      BY <3>4 DEF DecidedOnce, TypeInv, TypeOK
    <3> QED
      BY <1>0, <3>2, <3>5, <3>6
  <2>2. CASE file' = Current /\ UNCHANGED <<now, decided, stepsBack>>
    <3>1. AllPlausible'
      BY <2>2, SettledIsPlausible DEF AllPlausible, WellFormed
    <3>2. DecisionsKept'
      BY <2>2, DecisionsAreRead DEF DecisionsKept
    <3> QED
      BY <1>0, <2>2, <3>1, <3>2 DEF DecidedOnce
  <2> QED
    BY <1>2, <2>1, <2>2 DEF Resolve
<1>3. CASE Tick
  <2>1. now' = now + 1 /\ UNCHANGED <<file, decided>> /\ now \in Nat
    BY <1>3 DEF Tick, TypeInv, TypeOK
  <2>2. AllPlausible'
    <3> SUFFICES ASSUME NEW r \in file PROVE WellFormed(r) /\ r.created <= now + 1
      BY <2>1 DEF AllPlausible, WellFormed
    <3>1. r \in Record
      BY DEF TypeInv, TypeOK
    <3> QED
      BY <2>1, <3>1 DEF AllPlausible, Record
  <2> QED
    BY <1>0, <2>1, <2>2 DEF DecisionsKept, DecidedOnce
<1>4. CASE StepBack
  BY <1>4 DEF StepBack, Steady, TypeInv, TypeOK
<1>5. CASE UNCHANGED vars
  BY <1>5 DEF vars, IdsUnique, AllPlausible, DecisionsKept, DecidedOnce, WellFormed, Unique
<1> QED
  BY <1>1, <1>2, <1>3, <1>4, <1>5 DEF Next

LEMMA RoomInvHolds ==
  ASSUME ApprovalAssumption, Roomy, Steady
  PROVE  Spec => [](TypeInv /\ RoomInv /\ DecidedOnce)
<1>1. Init => RoomInv /\ DecidedOnce
  BY DEF Init, RoomInv, IdsUnique, Unique, AllPlausible, DecisionsKept, DecidedOnce
<1> QED
  BY <1>1, TypeInvHolds, StepRoomInv, PTL DEF Spec

(* approval.rs:3-6: with room for every request and a clock that is never  *)
(* set back, no request is answered twice, however often the scans ask.    *)
THEOREM AnsweredOnce ==
  ASSUME ApprovalAssumption, Roomy, Steady
  PROVE  Spec => []DecidedOnce
BY RoomInvHolds, PTL
-----------------------------------------------------------------------------
(***************************************************************************)
(* The refinement.  What a reader sees of a request is told by the one     *)
(* record of it, in this state and in the next.                            *)
(***************************************************************************)
SeenAs(records, q, t, s) ==
  \/ /\ s = "unasked"
     /\ \A r \in records : r.id # q
  \/ \E r \in records :
       /\ r.id = q
       /\ s = IF r.state = "pending" /\ t >= r.expires THEN "expired" ELSE r.state

StatusesAreSeen == \A q \in Request : SeenAs(file, q, now, StatusOf(q))

LEMMA StatusIsSeen ==
  ApprovalAssumption /\ TypeInv /\ AllPlausible => StatusesAreSeen
<1> SUFFICES ASSUME ApprovalAssumption, TypeInv, AllPlausible, NEW q \in Request
             PROVE  SeenAs(file, q, now, StatusOf(q))
  BY DEF StatusesAreSeen
<1>1. CASE Known(q)
  <2>1. PICK c \in Current : c.id = q /\ c.state = StatusOf(q)
    BY <1>1 DEF Known, StatusOf
  <2>2. PICK r \in file : c = Settled(r)
    BY CurrentIsBounded
  <2>3. r \in Record
    BY DEF TypeInv, TypeOK
  <2> QED
    BY <2>1, <2>2, <2>3, SettledIsRecord DEF SeenAs, Elapsed
<1>2. CASE ~Known(q)
  <2>1. StatusOf(q) = "unasked"
    BY <1>2 DEF StatusOf
  <2>2. ASSUME NEW r \in file PROVE r.id # q
    <3>1. Settled(r) \in Current /\ r \in Record
      BY DEF Current, AllPlausible, TypeInv, TypeOK
    <3> QED
      BY <1>2, <3>1, SettledIsRecord DEF Known
  <2> QED
    BY <2>1, <2>2 DEF SeenAs
<1> QED
  BY <1>1, <1>2

(* Two things that are both seen of one request are the same thing.        *)
LEMMA OneStatusIsSeen ==
  ASSUME NEW records, Unique(records), NEW q, NEW t, NEW a, NEW b,
         SeenAs(records, q, t, a), SeenAs(records, q, t, b)
  PROVE  a = b
BY DEF SeenAs, Unique

(* Settling is what a reader does in any case.                             *)
LEMMA CurrentIsSeen ==
  ASSUME ApprovalAssumption, TypeInv, AllPlausible, NEW q \in Request
  PROVE  SeenAs(Current, q, now, StatusOf(q))
<1>1. CASE Known(q)
  <2>1. PICK c \in Current : c.id = q /\ c.state = StatusOf(q)
    BY <1>1 DEF Known, StatusOf
  <2>2. ~Elapsed(c)
    BY SettledIsPlausible
  <2> QED
    BY <2>1, <2>2 DEF SeenAs, Elapsed
<1>2. CASE ~Known(q)
  BY <1>2 DEF SeenAs, StatusOf, Known
<1> QED
  BY <1>1, <1>2

statuses == [q \in Request |-> StatusOf(q)]

(* Each step of the calls is a step of the promise, or none.               *)
LEMMA StepRefines ==
  ASSUME ApprovalAssumption, Roomy, Steady, TypeInv, RoomInv, DecidedOnce, [Next]_vars,
         StatusesAreSeen'
  PROVE  [Promise!LNext]_statuses
<1> USE DEF RoomInv
<1>0. IdsUnique' /\ TypeInv' /\ \A q \in Request : SeenAs(file', q, now', StatusOf(q)')
  BY StepUnique, StepTypeInv DEF StatusesAreSeen
<1>1. ASSUME file' = Current, now' = now PROVE statuses' = statuses
  <2>1. ASSUME NEW q \in Request PROVE StatusOf(q)' = StatusOf(q)
    <3>1. SeenAs(file', q, now', StatusOf(q))
      BY <1>1, CurrentIsSeen
    <3> QED
      BY <1>0, <3>1, OneStatusIsSeen DEF IdsUnique
  <2> QED
    BY <2>1 DEF statuses
<1>2. ASSUME NEW q \in Request, Ask(q) PROVE [Promise!LNext]_statuses
  <2>1. CASE Known(q)
    BY <1>1, <1>2, <2>1 DEF Ask
  <2>2. CASE ~Known(q)
    <3>1. file' = Current \cup {Fresh(q)} /\ now' = now /\ now \in Nat
      BY <1>2, <2>2, AskKeepsAll DEF Ask, TypeInv, TypeOK
    <3>2. Fresh(q).id = q /\ Fresh(q).state = "pending" /\ ~(now >= Fresh(q).expires)
      BY <3>1 DEF Fresh, ApprovalAssumption
    <3>3. StatusOf(q) = "unasked"
      BY <2>2 DEF StatusOf
    <3>4. StatusOf(q)' = "pending"
      <4>1. SeenAs(file', q, now', "pending")
        BY <3>1, <3>2 DEF SeenAs
      <4> QED
        BY <1>0, <4>1, OneStatusIsSeen DEF IdsUnique
    <3>5. ASSUME NEW p \in Request, p # q PROVE StatusOf(p)' = StatusOf(p)
      <4>1. SeenAs(Current, p, now, StatusOf(p))
        BY CurrentIsSeen
      <4>2. SeenAs(file', p, now', StatusOf(p))
        BY <3>1, <3>2, <3>5, <4>1 DEF SeenAs
      <4> QED
        BY <1>0, <4>2, OneStatusIsSeen DEF IdsUnique
    <3>6. statuses' = [statuses EXCEPT ![q] = "pending"]
      BY <3>4, <3>5 DEF statuses
    <3>7. Promise!AskOnce(q)
      BY <3>3, <3>6 DEF statuses, Promise!AskOnce
    <3> QED
      BY <3>7 DEF Promise!LNext
  <2> QED
    BY <2>1, <2>2
<1>3. ASSUME NEW q \in Request, NEW d \in Decision, Resolve(q, d)
      PROVE  [Promise!LNext]_statuses
  <2>1. ASSUME NEW r \in Current, Open(r, q), file' = Answered(r, d),
               UNCHANGED <<now, stepsBack>>
        PROVE  [Promise!LNext]_statuses
    <3>1. StatusOf(q) = "pending"
      <4>1. SeenAs(Current, q, now, StatusOf(q)) /\ Unique(Current)
        BY CurrentIsSeen, CurrentIsUnique
      <4>2. SeenAs(Current, q, now, "pending")
        <5>1. r.id = q /\ r.state = "pending" /\ ~(now >= r.expires)
          BY <2>1, SettledIsPlausible DEF Open, Elapsed
        <5> QED
          BY <5>1 DEF SeenAs
      <4> QED
        BY <4>1, <4>2, OneStatusIsSeen
    <3>2. StatusOf(q)' = d
      <4>1. PICK x \in Answered(r, d) : x.id = r.id /\ x.state = d
        BY AnsweredIsBounded
      <4>2. SeenAs(file', q, now', d)
        BY <2>1, <4>1 DEF SeenAs, Open, Decision
      <4> QED
        BY <1>0, <4>2, OneStatusIsSeen DEF IdsUnique
    <3>3. ASSUME NEW p \in Request, p # q PROVE StatusOf(p)' = StatusOf(p)
      <4>1. SeenAs(Current, p, now, StatusOf(p))
        BY CurrentIsSeen
      <4>2. r.id = q
        BY <2>1 DEF Open
      <4>3. SeenAs(Answered(r, d), p, now, StatusOf(p))
        <5>1. CASE \A x \in Current : x.id # p
          <6>1. StatusOf(p) = "unasked"
            BY <5>1 DEF StatusOf, Known
          <6>2. \A x \in Answered(r, d) : x.id # p
            BY <3>3, <4>2, <5>1, AnsweredIsBounded
          <6> QED
            BY <6>1, <6>2 DEF SeenAs
        <5>2. CASE \E x \in Current : x.id = p
          <6>1. PICK x \in Current :
                  /\ x.id = p
                  /\ StatusOf(p) = IF x.state = "pending" /\ now >= x.expires
                                   THEN "expired" ELSE x.state
            BY <4>1, <5>2 DEF SeenAs
          <6>2. x \in Answered(r, d)
            BY <3>3, <4>2, <6>1, AnsweredIsBounded
          <6> QED
            BY <6>1, <6>2 DEF SeenAs
        <5> QED
          BY <5>1, <5>2
      <4> QED
        BY <1>0, <2>1, <4>3, OneStatusIsSeen DEF IdsUnique
    <3>4. statuses' = [statuses EXCEPT ![q] = d]
      BY <3>2, <3>3 DEF statuses
    <3>5. Promise!SettleOnce(q)
      BY <3>1, <3>4 DEF statuses, Promise!SettleOnce, Decision
    <3> QED
      BY <3>5 DEF Promise!LNext
  <2>2. CASE file' = Current /\ UNCHANGED <<now, decided, stepsBack>>
    BY <1>1, <2>2
  <2> QED
    BY <1>3, <2>1, <2>2 DEF Resolve
<1>4. CASE Tick
  <2>1. now' = now + 1 /\ file' = file /\ now \in Nat
    BY <1>4 DEF Tick, TypeInv, TypeOK
  <2>2. StatusesAreSeen
    BY StatusIsSeen
  <2> DEFINE S == {q \in Request : StatusOf(q) = "pending" /\ StatusOf(q)' = "expired"}
  <2>3. ASSUME NEW q \in Request
        PROVE  StatusOf(q)' = IF q \in S THEN "expired" ELSE StatusOf(q)
    <3>1. SeenAs(file, q, now, StatusOf(q)) /\ SeenAs(file, q, now + 1, StatusOf(q)')
      BY <1>0, <2>1, <2>2 DEF StatusesAreSeen
    <3>2. CASE \A r \in file : r.id # q
      BY <3>1, <3>2 DEF SeenAs
    <3>3. CASE \E r \in file : r.id = q
      <4>1. PICK r \in file : r.id = q
        BY <3>3
      <4>2. \A x \in file : x.id = q => x = r
        BY <4>1 DEF IdsUnique, Unique
      <4>3. /\ StatusOf(q) = IF r.state = "pending" /\ now >= r.expires THEN "expired" ELSE r.state
            /\ StatusOf(q)' = IF r.state = "pending" /\ now + 1 >= r.expires
                              THEN "expired" ELSE r.state
        BY <3>1, <4>1, <4>2 DEF SeenAs
      <4>4. r.expires \in Nat
        BY DEF TypeInv, TypeOK, Record, ApprovalAssumption
      <4> QED
        BY <2>1, <4>3, <4>4
    <3> QED
      BY <3>2, <3>3
  <2>4. S \in SUBSET {q \in Request : statuses[q] = "pending"}
    BY DEF statuses
  <2>5. statuses' = [q \in Request |-> IF q \in S THEN "expired" ELSE statuses[q]]
    BY <2>3 DEF statuses
  <2> HIDE DEF S
  <2>6. Promise!Elapse
    BY <2>4, <2>5 DEF statuses, Promise!Elapse
  <2> QED
    BY <2>6 DEF Promise!LNext
<1>5. CASE StepBack
  BY <1>5 DEF StepBack, Steady, TypeInv, TypeOK
<1>6. CASE UNCHANGED vars
  BY <1>6 DEF vars, statuses, StatusOf, Known, Current, WellFormed, Settled, Elapsed
<1> QED
  BY <1>2, <1>3, <1>4, <1>5, <1>6 DEF Next

(* journal.rs:674-676: with room for every request and a clock that is     *)
(* never set back, each request, as any reader sees it, is asked once, is  *)
(* settled once, by a person or its deadline, and stays settled.           *)
THEOREM Refinement ==
  ASSUME ApprovalAssumption, Roomy, Steady
  PROVE  Spec => NeverReset
<1>1. Init => Promise!LInit
  BY DEF Init, Promise!LInit, StatusOf, Known, Current
<1>2. TypeInv /\ RoomInv /\ DecidedOnce /\ [Next]_vars /\ StatusesAreSeen'
        => [Promise!LNext]_statuses
  BY StepRefines
<1>3. TypeInv /\ RoomInv => StatusesAreSeen
  BY StatusIsSeen DEF RoomInv
<1> QED
  BY <1>1, <1>2, <1>3, RoomInvHolds, PTL DEF Spec, NeverReset, Promise!LSpec, statuses
-----------------------------------------------------------------------------
(***************************************************************************)
(* PolicyFile, for any editors, rules, responses, assets and bounds.       *)
(***************************************************************************)
Refreshing == {"refresh", "fill"}

(* What is about to be saved came from a policy of the operator's, and what *)
(* the copy is refreshed with is in force or was.                          *)
Provenance ==
  /\ Whole(policyFile) => policyFile \in written
  /\ policyFile = NoFile => Default \in written
  /\ Whole(backup) => backup \in written
  /\ \A e \in Editor : phase[e] = "recover" => edit[e] \in Edit
  /\ \A e \in Editor : phase[e] = "save" => base[e] \in written
  /\ \A e \in Editor : phase[e] \in Refreshing => held[e] \in written

(* An editor that is alone saved what it is refreshing the copy with.      *)
CopyFollows ==
  \A e \in Editor : Editor = {e} /\ faults = 0 =>
    /\ phase[e] \in Refreshing => saved = held[e]
    /\ phase[e] = "fill" => backup = Broken
    /\ phase[e] \notin Refreshing => backup = saved

PolicyInv == PolicyTypeOK /\ NeverHalf /\ Provenance /\ CopyFollows
-----------------------------------------------------------------------------
(* Taking one rule out of a watchlist leaves a watchlist, and without that *)
(* rule if it was the place of it.                                         *)
LEMMA RemoveAtKeeps ==
  ASSUME NEW list \in Watchlist, NEW at \in DOMAIN list
  PROVE  /\ RemoveAt(list, at) \in Watchlist
         /\ \A i \in DOMAIN RemoveAt(list, at) : RemoveAt(list, at)[i].rule # list[at].rule
<1>1. list \in Seq(Entry) /\ Len(list) \in Nat /\ DOMAIN list = 1..Len(list) /\ at \in 1..Len(list)
  BY DEF Watchlist
<1> DEFINE before == SubSeq(list, 1, at - 1)
           after == SubSeq(list, at + 1, Len(list))
           rest == RemoveAt(list, at)
<1>2. \A i \in 1..Len(list) : list[i] \in Entry
  BY <1>1
<1>3. /\ before \in Seq(Entry) /\ Len(before) = at - 1
      /\ \A i \in 1..at - 1 : before[i] = list[i]
  <2>1. \A i \in 1..at - 1 : list[i] \in Entry
    BY <1>1, <1>2
  <2>2. 1 \in Int /\ at - 1 \in Int
    BY <1>1
  <2>3. /\ before \in Seq(Entry) /\ Len(before) = IF 1 <= at - 1 THEN at - 1 - 1 + 1 ELSE 0
        /\ \A i \in 1..at - 1 - 1 + 1 : before[i] = list[1 + i - 1]
    BY <2>1, <2>2, SubSeqProperties
  <2> QED
    BY <1>1, <2>3
<1>4. /\ after \in Seq(Entry) /\ Len(after) = Len(list) - at
      /\ \A i \in 1..Len(list) - at : after[i] = list[at + i]
  <2>1. \A i \in at + 1..Len(list) : list[i] \in Entry
    BY <1>1, <1>2
  <2>2. at + 1 \in Int /\ Len(list) \in Int
    BY <1>1
  <2>3. /\ after \in Seq(Entry)
        /\ Len(after) = IF at + 1 <= Len(list) THEN Len(list) - (at + 1) + 1 ELSE 0
        /\ \A i \in 1..Len(list) - (at + 1) + 1 : after[i] = list[at + 1 + i - 1]
    BY <2>1, <2>2, SubSeqProperties
  <2> QED
    BY <1>1, <2>3
<1>5. /\ rest \in Seq(Entry) /\ Len(rest) = Len(list) - 1 /\ DOMAIN rest = 1..Len(list) - 1
      /\ \A i \in 1..Len(list) - 1 : rest[i] = list[IF i < at THEN i ELSE i + 1]
  <2>1. /\ before \o after \in Seq(Entry) /\ Len(before \o after) = Len(before) + Len(after)
        /\ \A i \in 1..Len(before) + Len(after) :
             (before \o after)[i] = IF i <= Len(before) THEN before[i] ELSE after[i - Len(before)]
    BY <1>3, <1>4, ConcatProperties
  <2>2. rest = before \o after
    BY DEF RemoveAt
  <2> HIDE DEF before, after, rest
  <2>3. rest \in Seq(Entry) /\ Len(rest) = Len(list) - 1 /\ DOMAIN rest = 1..Len(list) - 1
    <3>1. rest \in Seq(Entry)
      BY <2>1, <2>2
    <3>2. Len(before) = at - 1 /\ Len(after) = Len(list) - at
      BY <1>3, <1>4
    <3>3. Len(rest) = Len(before) + Len(after)
      BY <2>1, <2>2
    <3>4. Len(rest) = Len(list) - 1
      BY <1>1, <3>2, <3>3
    <3> QED
      BY <3>1, <3>4
  <2>4. ASSUME NEW i \in 1..Len(list) - 1
        PROVE  rest[i] = list[IF i < at THEN i ELSE i + 1]
    <3>1. Len(before) = at - 1 /\ Len(after) = Len(list) - at
      BY <1>3, <1>4
    <3>2. i \in 1..Len(before) + Len(after)
      BY <1>1, <3>1
    <3>3. rest[i] = IF i <= Len(before) THEN before[i] ELSE after[i - Len(before)]
      BY <2>1, <2>2, <3>2
    <3>4. CASE i < at
      <4>1. i \in 1..at - 1 /\ i <= Len(before)
        BY <1>1, <3>1, <3>4
      <4>2. before[i] = list[i]
        BY <1>3, <4>1
      <4> QED
        BY <3>3, <3>4, <4>1, <4>2
    <3>5. CASE ~(i < at)
      <4>1. /\ ~(i <= Len(before)) /\ i - Len(before) \in 1..Len(list) - at
            /\ at + (i - Len(before)) = i + 1
        BY <1>1, <3>1, <3>5
      <4>2. after[i - Len(before)] = list[at + (i - Len(before))]
        BY <1>4, <4>1
      <4> QED
        BY <3>3, <3>5, <4>1, <4>2
    <3> QED
      BY <3>4, <3>5
  <2> QED
    BY <2>3, <2>4
<1> HIDE DEF rest
<1>6. \A i, j \in 1..Len(list) : list[i].rule = list[j].rule => i = j
  BY <1>1 DEF Watchlist
<1>7. \A i, j \in DOMAIN rest : rest[i].rule = rest[j].rule => i = j
  <2> SUFFICES ASSUME NEW i \in DOMAIN rest, NEW j \in DOMAIN rest, rest[i].rule = rest[j].rule
               PROVE  i = j
    OBVIOUS
  <2> DEFINE p == IF i < at THEN i ELSE i + 1
             q == IF j < at THEN j ELSE j + 1
  <2>1. p \in 1..Len(list) /\ q \in 1..Len(list) /\ rest[i] = list[p] /\ rest[j] = list[q]
    BY <1>1, <1>5
  <2>2. p = q
    BY <1>6, <2>1
  <2> QED
    BY <1>1, <1>5, <2>2
<1>8. \A i \in DOMAIN rest : rest[i].rule # list[at].rule
  <2> SUFFICES ASSUME NEW i \in DOMAIN rest, rest[i].rule = list[at].rule
               PROVE  FALSE
    OBVIOUS
  <2> DEFINE p == IF i < at THEN i ELSE i + 1
  <2>1. p \in 1..Len(list) /\ rest[i] = list[p] /\ p # at
    BY <1>1, <1>5
  <2> QED
    BY <1>1, <1>6, <2>1
<1>9. rest \in Watchlist
  BY <1>5, <1>7 DEF Watchlist
<1> QED
  BY <1>8, <1>9 DEF rest

LEMMA WithoutKeeps ==
  ASSUME NEW list \in Watchlist, NEW rule
  PROVE  /\ Without(list, rule) \in Watchlist
         /\ \A i \in DOMAIN Without(list, rule) : Without(list, rule)[i].rule # rule
<1>1. CASE \E i \in DOMAIN list : list[i].rule = rule
  <2> DEFINE at == CHOOSE i \in DOMAIN list : list[i].rule = rule
  <2>1. at \in DOMAIN list /\ list[at].rule = rule
    BY <1>1
  <2>2. Without(list, rule) = RemoveAt(list, at)
    BY <1>1 DEF Without
  <2> QED
    BY <2>1, <2>2, RemoveAtKeeps
<1>2. CASE ~\E i \in DOMAIN list : list[i].rule = rule
  BY <1>2 DEF Without
<1> QED
  BY <1>1, <1>2

LEMMA AppendKeeps ==
  ASSUME NEW list \in Watchlist, NEW entry \in Entry,
         \A i \in DOMAIN list : list[i].rule # entry.rule
  PROVE  Append(list, entry) \in Watchlist
<1> DEFINE longer == Append(list, entry)
<1>1. list \in Seq(Entry) /\ Len(list) \in Nat /\ DOMAIN list = 1..Len(list)
  BY DEF Watchlist
<1>2. /\ longer \in Seq(Entry) /\ Len(longer) = Len(list) + 1
      /\ \A i \in 1..Len(list) : longer[i] = list[i]
      /\ longer[Len(list) + 1] = entry
  BY <1>1, AppendProperties
<1>3. DOMAIN longer = 1..Len(list) + 1
  BY <1>1, <1>2
<1> HIDE DEF longer
<1>4. \A i, j \in 1..Len(list) : list[i].rule = list[j].rule => i = j
  BY <1>1 DEF Watchlist
<1>5. ASSUME NEW i \in DOMAIN longer, NEW j \in DOMAIN longer, longer[i].rule = longer[j].rule
      PROVE  i = j
  <2>1. CASE i \in 1..Len(list) /\ j \in 1..Len(list)
    BY <1>2, <1>4, <1>5, <2>1
  <2>2. CASE i = Len(list) + 1 /\ j \in 1..Len(list)
    BY <1>1, <1>2, <1>5, <2>2
  <2>3. CASE j = Len(list) + 1 /\ i \in 1..Len(list)
    BY <1>1, <1>2, <1>5, <2>3
  <2> QED
    BY <1>1, <1>3, <2>1, <2>2, <2>3
<1> QED
  BY <1>2, <1>5 DEF Watchlist, longer

LEMMA RespondKeeps ==
  ASSUME NEW list \in Watchlist, NEW at \in DOMAIN list, NEW to \in Response
  PROVE  [list EXCEPT ![at].response = to] \in Watchlist
<1> DEFINE other == [list EXCEPT ![at].response = to]
<1>1. list \in Seq(Entry) /\ Len(list) \in Nat /\ DOMAIN list = 1..Len(list)
  BY DEF Watchlist
<1>2. \A i \in DOMAIN list : list[i] \in Entry
  BY <1>1
<1>3. /\ [list[at] EXCEPT !.response = to] \in Entry
      /\ [list[at] EXCEPT !.response = to].rule = list[at].rule
  BY <1>2 DEF Entry
<1>4. other \in Seq(Entry) /\ DOMAIN other = DOMAIN list
  BY <1>1, <1>3, ExceptSeq
<1>5. \A i \in DOMAIN list : other[i].rule = list[i].rule
  BY <1>1, <1>2, <1>3
<1> HIDE DEF other
<1>6. other \in Watchlist
  BY <1>4, <1>5 DEF Watchlist
<1> QED
  BY <1>6 DEF other

(* Every edit that applies to a policy gives a policy.                     *)
LEMMA ApplyKeeps ==
  ASSUME PolicyAssumption, NEW policy \in Policy, NEW change \in Edit, Applies(policy, change)
  PROVE  Apply(policy, change) \in Policy
<1>1. /\ policy.watchlist \in Watchlist /\ policy.assets \in [Asset -> Disposition]
      /\ policy.semantic \in BOOLEAN
  BY DEF Policy
<1>2. CASE change.op = "add"
  <2> DEFINE entry == [rule |-> change.rule, response |-> Alert]
             list == Without(policy.watchlist, change.rule)
  <2>1. entry \in Entry /\ entry.rule = change.rule
    BY <1>2 DEF Edit, Entry, PolicyAssumption
  <2>2. list \in Watchlist /\ \A i \in DOMAIN list : list[i].rule # entry.rule
    BY <1>1, <2>1, WithoutKeeps
  <2>3. Append(list, entry) \in Watchlist
    BY <2>1, <2>2, AppendKeeps
  <2>4. Apply(policy, change) = [policy EXCEPT !.watchlist = Append(list, entry)]
    BY <1>2 DEF Apply
  <2> HIDE DEF list, entry
  <2> QED
    BY <2>3, <2>4 DEF Policy
<1>3. CASE change.op = "remove"
  <2>1. change.at \in DOMAIN policy.watchlist
    BY <1>3 DEF Applies
  <2>2. RemoveAt(policy.watchlist, change.at) \in Watchlist
    BY <1>1, <2>1, RemoveAtKeeps
  <2>3. Apply(policy, change) = [policy EXCEPT !.watchlist = RemoveAt(policy.watchlist, change.at)]
    BY <1>3 DEF Apply
  <2> QED
    BY <2>2, <2>3 DEF Policy
<1>4. CASE change.op = "respond"
  <2>1. change.at \in DOMAIN policy.watchlist /\ change.to \in Response
    BY <1>4 DEF Applies, Edit
  <2> DEFINE list == [policy.watchlist EXCEPT ![change.at].response = change.to]
  <2>2. list \in Watchlist
    BY <1>1, <2>1, RespondKeeps
  <2>3. Apply(policy, change) = [policy EXCEPT !.watchlist = list]
    BY <1>4 DEF Apply
  <2> HIDE DEF list
  <2> QED
    BY <2>2, <2>3 DEF Policy
<1>5. CASE change.op = "judge"
  <2>1. change.asset \in Asset /\ change.to \in Disposition
    BY <1>5 DEF Edit
  <2>2. Apply(policy, change) = [policy EXCEPT !.assets[change.asset] = change.to]
    BY <1>5 DEF Apply
  <2> QED
    BY <1>1, <2>1, <2>2 DEF Policy
<1>6. CASE change.op = "semantic"
  <2>1. change.to \in BOOLEAN
    BY <1>6 DEF Edit
  <2>2. Apply(policy, change) = [policy EXCEPT !.semantic = change.to]
    BY <1>6 DEF Apply
  <2> QED
    BY <1>1, <2>1, <2>2 DEF Policy
<1> QED
  BY <1>2, <1>3, <1>4, <1>5, <1>6 DEF Edit

LEMMA DefaultIsPolicy == Default \in Policy
<1>1. <<>> \in Watchlist
  BY DEF Watchlist
<1> QED
  BY <1>1 DEF Default, Policy, Disposition
-----------------------------------------------------------------------------
LEMMA PolicyInvStarts ==
  ASSUME PolicyAssumption, PolicyInit
  PROVE  PolicyInv
<1>1. PolicyTypeOK
  BY DefaultIsPolicy DEF PolicyAssumption, PolicyInit, PolicyTypeOK
<1>2. NeverHalf /\ CopyFollows
  BY DEF PolicyAssumption, PolicyInit, NeverHalf, CopyFollows, Refreshing
<1>3. Provenance
  BY DEF PolicyAssumption, PolicyInit, Provenance, Refreshing, Whole
<1> QED
  BY <1>1, <1>2, <1>3 DEF PolicyInv

(* What a call does with the policy it read.                               *)
LEMMA ModifyKeeps ==
  ASSUME PolicyAssumption, PolicyInv, NEW e \in Editor, NEW policy \in Policy, NEW change \in Edit,
         policy \in written, phase[e] \notin Refreshing,
         Modify(e, policy, change),
         UNCHANGED <<policyFiles, shown, hands, faults, written, saved>>,
         edits' \in 0..MaxEdits, edit' \in [Editor -> Edit \cup {NoCall}],
         \A x \in Editor \ {e} : edit'[x] = edit[x]
  PROVE  PolicyInv'
<1> USE DEF PolicyInv, policyFiles
<1>1. /\ base' \in [Editor -> Policy] /\ held' \in [Editor -> Policy]
      /\ phase' \in [Editor -> {"idle", "recover", "save", "refresh", "fill"}]
      /\ phase'[e] \in {"idle", "save"} /\ (phase'[e] = "save" => base'[e] = policy)
      /\ \A x \in Editor \ {e} : phase'[x] = phase[x] /\ base'[x] = base[x] /\ held'[x] = held[x]
  <2>1. CASE Applies(policy, change)
    <3>1. Apply(policy, change) \in Policy
      BY <2>1, ApplyKeeps
    <3> QED
      BY <2>1, <3>1 DEF Modify, PolicyTypeOK
  <2>2. CASE ~Applies(policy, change)
    BY <2>2 DEF Modify, End, PolicyTypeOK
  <2> QED
    BY <2>1, <2>2
<1>2. PolicyTypeOK'
  BY <1>1 DEF PolicyTypeOK
<1>3. NeverHalf'
  BY DEF NeverHalf
<1>4. Provenance'
  BY <1>1 DEF Provenance, Whole, Refreshing
<1>5. CopyFollows'
  BY <1>1 DEF CopyFollows, Refreshing
<1> QED
  BY <1>2, <1>3, <1>4, <1>5

LEMMA PolicyInvStep ==
  ASSUME PolicyAssumption, PolicyInv, [PolicyNext]_policyVars
  PROVE  PolicyInv'
<1> USE DEF PolicyInv
<1>1. ASSUME NEW e \in Editor, Look(e)
      PROVE  PolicyInv'
  <2>1. InForce \in Policy
    BY DefaultIsPolicy DEF InForce, Whole
  <2>2. PolicyTypeOK'
    BY <1>1, <2>1 DEF Look, policyFiles, policyBounds, PolicyTypeOK
  <2> QED
    BY <1>1, <2>2 DEF Look, policyFiles, policyBounds, NeverHalf, Provenance, CopyFollows, Refreshing, Whole
<1>2. ASSUME NEW e \in Editor, NEW change \in Edit, Call(e, change)
      PROVE  PolicyInv'
  <2>1. /\ edits' \in 0..MaxEdits /\ edit' \in [Editor -> Edit \cup {NoCall}] /\ edit'[e] = change
        /\ \A x \in Editor \ {e} : edit'[x] = edit[x]
    BY <1>2 DEF Call, PolicyTypeOK, PolicyAssumption
  <2>2. phase[e] \notin Refreshing /\ UNCHANGED <<policyFiles, shown, hands, faults, written, saved>>
    BY <1>2 DEF Call, Refreshing
  <2>3. CASE Whole(policyFile)
    <3>1. Modify(e, policyFile, change)
      BY <1>2, <2>3 DEF Call, PolicyAssumption, Whole
    <3>2. policyFile \in Policy /\ policyFile \in written
      BY <2>3 DEF Whole, Provenance
    <3> QED
      BY <2>1, <2>2, <3>1, <3>2, ModifyKeeps
  <2>4. CASE policyFile = NoFile
    <3>1. Modify(e, Default, change)
      BY <1>2, <2>4 DEF Call, PolicyAssumption, Whole
    <3>2. Default \in Policy /\ Default \in written
      BY <2>4, DefaultIsPolicy DEF Provenance
    <3> QED
      BY <2>1, <2>2, <3>1, <3>2, ModifyKeeps
  <2>5. CASE policyFile = Broken
    <3>1. phase' = [phase EXCEPT ![e] = "recover"] /\ UNCHANGED <<base, held>>
      BY <1>2, <2>5 DEF Call, PolicyAssumption, Whole
    <3>2. PolicyTypeOK'
      BY <2>1, <2>2, <3>1 DEF PolicyTypeOK, policyFiles
    <3>3. Provenance'
      BY <2>1, <2>2, <3>1 DEF PolicyTypeOK, Provenance, policyFiles, Refreshing, Whole
    <3>4. NeverHalf' /\ CopyFollows'
      BY <2>1, <2>2, <3>1 DEF PolicyTypeOK, NeverHalf, CopyFollows, policyFiles, Refreshing
    <3> QED
      BY <3>2, <3>3, <3>4
  <2> QED
    BY <2>3, <2>4, <2>5 DEF PolicyTypeOK, Whole
<1>3. ASSUME NEW e \in Editor, Recover(e)
      PROVE  PolicyInv'
  <2>1. /\ phase[e] = "recover" /\ edit[e] \in Edit /\ phase[e] \notin Refreshing
        /\ UNCHANGED <<policyFiles, shown, hands, faults, written, saved>>
        /\ UNCHANGED <<edit, edits>>
    BY <1>3 DEF Recover, policyBounds, Provenance, Refreshing
  <2>2. CASE Whole(backup)
    <3>1. Modify(e, backup, edit[e])
      BY <1>3, <2>2 DEF Recover
    <3>2. backup \in Policy /\ backup \in written
      BY <2>2 DEF Whole, Provenance
    <3>3. edits' \in 0..MaxEdits /\ edit' \in [Editor -> Edit \cup {NoCall}]
          /\ \A x \in Editor \ {e} : edit'[x] = edit[x]
      BY <2>1 DEF PolicyTypeOK
    <3> QED
      BY <2>1, <3>1, <3>2, <3>3, ModifyKeeps
  <2>3. CASE ~Whole(backup)
    <3>1. phase' = [phase EXCEPT ![e] = "idle"] /\ UNCHANGED <<base, held>>
      BY <1>3, <2>3 DEF Recover, End
    <3>2. PolicyTypeOK'
      BY <2>1, <3>1 DEF PolicyTypeOK, policyFiles
    <3>3. Provenance'
      BY <2>1, <3>1 DEF PolicyTypeOK, Provenance, policyFiles, Refreshing, Whole
    <3>4. NeverHalf' /\ CopyFollows'
      BY <2>1, <3>1 DEF PolicyTypeOK, NeverHalf, CopyFollows, policyFiles, Refreshing
    <3> QED
      BY <3>2, <3>3, <3>4
  <2> QED
    BY <2>2, <2>3
<1>4. ASSUME NEW e \in Editor, Rename(e)
      PROVE  PolicyInv'
  <2>1. held[e] \in Policy
    BY DEF PolicyTypeOK
  <2>2. PolicyTypeOK'
    BY <1>4, <2>1 DEF Rename, policyBounds, PolicyTypeOK
  <2>3. NeverHalf'
    BY <1>4, <2>1 DEF Rename, policyBounds, NeverHalf, PolicyAssumption
  <2>4. Provenance'
    BY <1>4, <2>1 DEF Rename, policyBounds, PolicyTypeOK, Provenance, Refreshing, Whole, PolicyAssumption
  <2>5. CopyFollows'
    BY <1>4 DEF Rename, policyBounds, PolicyTypeOK, CopyFollows, Refreshing
  <2> QED
    BY <2>2, <2>3, <2>4, <2>5
<1>5. ASSUME NEW e \in Editor, SaveFails(e) \/ Killed(e)
      PROVE  PolicyInv'
  <2>1. /\ faults' = faults + 1 /\ faults' \in 0..MaxFaults /\ UNCHANGED <<edits, hands>>
        /\ phase' = [phase EXCEPT ![e] = "idle"]
        /\ UNCHANGED <<policyFile, backup, edit, base, held, shown, unread, written, saved>>
    BY <1>5 DEF SaveFails, Killed, Fault, policyFiles, PolicyTypeOK, PolicyAssumption
  <2>2. PolicyTypeOK'
    BY <2>1 DEF PolicyTypeOK
  <2>3. NeverHalf' /\ Provenance'
    BY <2>1 DEF PolicyTypeOK, NeverHalf, Provenance, Refreshing, Whole
  <2>4. CopyFollows'
    BY <2>1 DEF PolicyTypeOK, CopyFollows
  <2> QED
    BY <2>2, <2>3, <2>4
<1>6. ASSUME NEW e \in Editor, Truncate(e)
      PROVE  PolicyInv'
  <2>1. PolicyTypeOK'
    BY <1>6 DEF Truncate, policyBounds, PolicyTypeOK
  <2>2. NeverHalf' /\ Provenance'
    BY <1>6 DEF Truncate, policyBounds, PolicyTypeOK, NeverHalf, Provenance, Refreshing, Whole, PolicyAssumption
  <2>3. CopyFollows'
    BY <1>6 DEF Truncate, policyBounds, PolicyTypeOK, CopyFollows, Refreshing
  <2> QED
    BY <2>1, <2>2, <2>3
<1>7. ASSUME NEW e \in Editor, Fill(e)
      PROVE  PolicyInv'
  <2>1. backup' \in {held[e], Broken}
    BY <1>7 DEF Fill
  <2>2. PolicyTypeOK'
    BY <1>7, <2>1 DEF Fill, policyBounds, PolicyTypeOK
  <2>3. NeverHalf' /\ Provenance'
    BY <1>7, <2>1 DEF Fill, policyBounds, PolicyTypeOK, NeverHalf, Provenance, Refreshing, Whole, PolicyAssumption
  <2>4. CopyFollows'
    BY <1>7 DEF Fill, policyBounds, PolicyTypeOK, CopyFollows, Refreshing
  <2> QED
    BY <2>2, <2>3, <2>4
<1>8. ASSUME ByHand
      PROVE  PolicyInv'
  <2>1. PICK text \in HandMade : policyFile' = text /\ written' = written \cup ({text} \ {Broken})
    BY <1>8 DEF ByHand
  <2>2. hands' \in 0..MaxHands /\ hands' # 0
    BY <1>8 DEF ByHand, PolicyTypeOK, PolicyAssumption
  <2>3. PolicyTypeOK'
    BY <1>8, <2>1, <2>2 DEF ByHand, PolicyTypeOK, PolicyAssumption
  <2>4. NeverHalf'
    BY <2>2 DEF NeverHalf
  <2>5. Provenance'
    BY <1>8, <2>1 DEF ByHand, Provenance, Refreshing, Whole, PolicyAssumption
  <2>6. CopyFollows'
    BY <1>8 DEF ByHand, CopyFollows
  <2> QED
    BY <2>3, <2>4, <2>5, <2>6
<1>9. CASE UNCHANGED policyVars
  BY <1>9 DEF policyVars, policyFiles, policyBounds, PolicyTypeOK, NeverHalf, Provenance, CopyFollows,
              Refreshing, Whole
<1> QED
  BY <1>1, <1>2, <1>3, <1>4, <1>5, <1>6, <1>7, <1>8, <1>9 DEF PolicyNext, EditorStep

(* Whoever saves, fails, is killed or writes the policy by hand: only a    *)
(* person leaves one that does not parse, only what the operator had in    *)
(* force is changed and saved (never defaults that stood in for it), and   *)
(* the copy of a lone editor is what it saved last (lib.rs:526-575,        *)
(* actions.rs:18-25).                                                      *)
THEOREM PolicyIsKept ==
  ASSUME PolicyAssumption
  PROVE  PolicySpec => []PolicyHolds
<1>1. PolicyInit => PolicyInv
  BY PolicyInvStarts
<1>2. PolicyInv /\ [PolicyNext]_policyVars => PolicyInv'
  BY PolicyInvStep
<1>3. PolicyInv => PolicyHolds
  <2> SUFFICES ASSUME PolicyInv PROVE PolicyHolds
    OBVIOUS
  <2>1. DOMAIN phase = Editor
    BY DEF PolicyInv, PolicyTypeOK
  <2> QED
    BY <2>1 DEF PolicyInv, PolicyHolds, FromTheOperators, CopyIsLatest, Provenance, CopyFollows, Refreshing
<1> QED
  BY <1>1, <1>2, <1>3, PTL DEF PolicySpec
-----------------------------------------------------------------------------
(* What a look can find, and what a record of it can hold.                 *)
ToolStates == Usable \cup {"rejected", "missing"}
Found == [state : ToolStates, path : Place \cup {None}]
Attestations ==
  [state : ToolStates, path : Place \cup {None}, first : Nat \ {0}, last : Nat \ {0},
   previous : ToolStates \cup {""}, changed : Nat]

(* A record r of tool t tells what is in seen.                             *)
WasSeen(t, saw, at, seen) == [tool |-> t, at |-> at, saw |-> saw] \in seen
Is(r) == [state |-> r.state, path |-> r.path]
Tells(t, r, seen) ==
  /\ WasSeen(t, Is(r), r.last, seen)
  /\ r.changed = None => WasSeen(t, Is(r), r.first, seen)
  /\ r.changed # None =>
       /\ WasSeen(t, Is(r), r.changed, seen)
       /\ \E x \in seen : x.tool = t /\ x.saw.state = r.previous /\ x.saw # Is(r)

(* A look that waits for the lock is of what a surface found.              *)
Pending(l) ==
  /\ l.step = "looked" /\ l.tool \in Tool /\ l.at \in Nat \ {0} /\ l.saw \in Found
  /\ WasSeen(l.tool, l.saw, l.at, found)
LooksAreFound == \A s \in Sweeper : look[s] # Idle => Pending(look[s])
RecordsTell == \A t \in DOMAIN attested : attested[t] \in Attestations /\ Tells(t, attested[t], found)
AttestationInv ==
  /\ generatedAt \in Nat \ {0}
  /\ disk \in [Tool -> [Place -> Kind]]
  /\ DOMAIN look = Sweeper
  /\ LooksAreFound
  /\ RecordsTell

LEMMA SmallestIsLeast ==
  ASSUME NEW T \in SUBSET Nat, T # {}
  PROVE  Min(T) \in T /\ \A y \in T : Min(T) <= y
<1> DEFINE R == OpToRel(<, Nat)
<1>1. IsWellFoundedOn(R, Nat)
  BY ONLY NatLessThanWellFounded, Zenon
<1>2. \A x, y \in Nat : x < y => <<x, y>> \in R
  BY SMT DEF OpToRel
<1> HIDE DEF R
<1>3. PICK x \in T : \A y \in T : ~ (<<y, x>> \in R)
  BY <1>1, WFMin, Zenon
<1>4. x \in Nat /\ \A y \in T : y \in Nat /\ ~(y < x)
  BY <1>2, <1>3
<1>5. \A y \in T : x =< y
  BY <1>4
<1>6. \E z \in T : \A y \in T : z =< y
  BY <1>5
<1> QED
  BY <1>6 DEF Min

(* What is resolved is a usable file at its place, or nothing, and then    *)
(* every place that holds something was refused.                           *)
LEMMA ResolvedIsUsable ==
  ASSUME AttestationAssumption, NEW places \in [Place -> Kind]
  PROVE  LET saw == ResolveTool(places)
         IN /\ saw \in Found
            /\ saw.path = None => \A p \in Place : TrustOf(places[p]) = "rejected"
            /\ saw.path # None => /\ saw.path \in Place /\ saw.state \in Usable
                                  /\ TrustOf(places[saw.path]) = saw.state
<1> DEFINE there == {p \in Place : places[p] # "absent"}
           usable == {p \in there : TrustOf(places[p]) \in Usable}
           saw == ResolveTool(places)
<1>1. usable \in SUBSET Nat /\ Place \subseteq Nat /\ None \notin Place
  BY DEF Place, None, AttestationAssumption
<1>2. \A p \in Place : TrustOf(places[p]) \in Usable \cup {"rejected"}
  BY DEF TrustOf, Usable
<1>3. TrustOf("absent") = "rejected"
  BY DEF TrustOf
<1>4. CASE usable # {}
  <2>1. Min(usable) \in usable
    BY <1>1, <1>4, SmallestIsLeast, Zenon
  <2>2. saw = [state |-> TrustOf(places[Min(usable)]), path |-> Min(usable)]
    BY <1>4, Zenon DEF ResolveTool
  <2> HIDE DEF saw
  <2>3. Min(usable) \in Place /\ TrustOf(places[Min(usable)]) \in Usable
    BY <2>1
  <2>4. saw.path = Min(usable) /\ saw.state = TrustOf(places[Min(usable)])
    BY <2>2
  <2>5. saw \in Found
    BY <2>2, <2>3 DEF Found, ToolStates
  <2> QED
    BY <2>3, <2>4, <2>5, <1>1 DEF saw
<1>5. CASE usable = {}
  <2>1. \A p \in Place : TrustOf(places[p]) = "rejected"
    BY <1>2, <1>3, <1>5
  <2>2. saw = [state |-> "rejected", path |-> None] \/ saw = [state |-> "missing", path |-> None]
    BY <1>5, Zenon DEF ResolveTool
  <2> HIDE DEF saw
  <2>3. saw \in Found /\ saw.path = None
    BY <2>2 DEF Found, ToolStates
  <2> QED
    BY <2>1, <2>3 DEF saw
<1> QED
  BY <1>4, <1>5

(* A record tells the truth of more looks too.                             *)
LEMMA TellsOfMore ==
  ASSUME NEW t, NEW r, NEW seen, NEW more, seen \subseteq more, Tells(t, r, seen)
  PROVE  Tells(t, r, more)
  BY DEF Tells, WasSeen

(* The record that is merged into, or made, tells the truth.               *)
LEMMA MergedTells ==
  ASSUME NEW t, NEW old \in Attestations, NEW saw \in Found, NEW at \in Nat \ {0},
         Tells(t, old, found), WasSeen(t, saw, at, found)
  PROVE  Merged(old, saw, at) \in Attestations /\ Tells(t, Merged(old, saw, at), found)
<1> DEFINE r == Merged(old, saw, at)
<1>1. CASE saw = Is(old)
  <2>1. r = [old EXCEPT !.last = at]
    BY <1>1 DEF Merged, Is
  <2> HIDE DEF r
  <2>2. /\ r \in Attestations /\ r.state = old.state /\ r.path = old.path /\ r.first = old.first
        /\ r.last = at /\ r.previous = old.previous /\ r.changed = old.changed
    BY <2>1 DEF Attestations
  <2>3. Is(r) = saw
    BY <1>1, <2>2 DEF Is
  <2>4. Tells(t, r, found)
    BY <1>1, <2>2, <2>3 DEF Tells
  <2> QED
    BY <2>2, <2>4 DEF r
<1>2. CASE saw # Is(old)
  <2>1. r = [state |-> saw.state, path |-> saw.path, first |-> old.first, last |-> at,
             previous |-> old.state, changed |-> at]
    BY <1>2 DEF Merged, Is
  <2> HIDE DEF r
  <2>2. r \in Attestations /\ r.last = at /\ r.changed = at /\ r.previous = old.state
    BY <2>1 DEF Attestations, Found
  <2>3. Is(r) = saw
    BY <2>1 DEF Is, Found
  <2> DEFINE x == [tool |-> t, at |-> old.last, saw |-> Is(old)]
  <2>4. x \in found /\ x.tool = t /\ x.saw = Is(old) /\ x.saw.state = old.state
    BY DEF Tells, WasSeen, Is
  <2> HIDE DEF x
  <2>5. \E y \in found : y.tool = t /\ y.saw.state = r.previous /\ y.saw # Is(r)
    BY <1>2, <2>2, <2>3, <2>4
  <2>6. r.changed # None
    BY <2>2 DEF None
  <2>7. Tells(t, r, found)
    BY <2>2, <2>3, <2>5, <2>6 DEF Tells
  <2> QED
    BY <2>2, <2>7 DEF r
<1> QED
  BY <1>1, <1>2

LEMMA FirstTells ==
  ASSUME NEW t, NEW saw \in Found, NEW at \in Nat \ {0}, WasSeen(t, saw, at, found)
  PROVE  LET r == [state |-> saw.state, path |-> saw.path, first |-> at, last |-> at,
                   previous |-> "", changed |-> None]
         IN r \in Attestations /\ Tells(t, r, found)
<1> DEFINE r == [state |-> saw.state, path |-> saw.path, first |-> at, last |-> at,
                 previous |-> "", changed |-> None]
<1>1. r \in Attestations
  BY DEF Attestations, Found, None
<1>2. Is(r) = saw /\ r.changed = None /\ r.last = at /\ r.first = at
  BY DEF Is, Found
<1> HIDE DEF r
<1>3. Tells(t, r, found)
  BY <1>2 DEF Tells
<1> QED
  BY <1>1, <1>3 DEF r

LEMMA AttestationStarts ==
  ASSUME AttestationAssumption, AttestationInit
  PROVE  AttestationInv
  BY DEF AttestationInit, AttestationInv, LooksAreFound, RecordsTell, Spoiled

(* Pruning drops records and changes none.                                 *)
LEMMA TrimmedKeeps ==
  ASSUME NEW records
  PROVE  /\ DOMAIN Trimmed(records) \subseteq DOMAIN records
         /\ \A t \in DOMAIN Trimmed(records) : Trimmed(records)[t] = records[t]
  BY DEF Trimmed

LEMMA AttestationStep ==
  ASSUME AttestationAssumption, AttestationInv, [AttestationNext]_attestationVars
  PROVE  AttestationInv'
<1> USE DEF AttestationInv
<1>1. ASSUME NEW t \in Tool, NEW p \in Place, NEW kind \in Kind, Change(t, p, kind)
      PROVE  AttestationInv'
  <2>1. disk' \in [Tool -> [Place -> Kind]]
    BY <1>1 DEF Change
  <2>2. LooksAreFound' /\ RecordsTell'
    BY <1>1 DEF Change, LooksAreFound, Pending, RecordsTell
  <2> QED
    BY <1>1, <2>1, <2>2 DEF Change
<1>2. ASSUME NEW s \in Sweeper, NEW t \in Tool, Attest(s, t)
      PROVE  AttestationInv'
  <2> PICK saw, l, f : /\ saw = ResolveTool(disk[t])
                       /\ l = [step |-> "looked", tool |-> t, at |-> generatedAt, saw |-> saw]
                       /\ f = [tool |-> t, at |-> generatedAt, saw |-> saw]
    OBVIOUS
  <2>1. saw \in Found
    BY ResolvedIsUsable
  <2>2. look' = [look EXCEPT ![s] = l] /\ found' = found \cup {f} /\ UNCHANGED <<disk, generatedAt, attested, spoils>>
    BY <1>2 DEF Attest
  <2>3. /\ l.step = "looked" /\ l.tool \in Tool /\ l.at \in Nat \ {0} /\ l.saw \in Found
        /\ [tool |-> l.tool, at |-> l.at, saw |-> l.saw] = f
    BY <2>1
  <2>4. Pending(l)'
    BY <2>2, <2>3 DEF Pending, WasSeen
  <2>5. ASSUME NEW u \in Sweeper, look'[u] # Idle
        PROVE  Pending(look[u])'
    <3>1. CASE u = s
      BY <2>2, <2>4, <3>1
    <3>2. CASE u # s
      <4>1. look'[u] = look[u]
        BY <2>2, <3>2
      <4>2. Pending(look[u])
        BY <2>5, <4>1 DEF LooksAreFound
      <4> QED
        BY <4>1, <4>2, <2>2 DEF Pending, WasSeen
    <3> QED
      BY <3>1, <3>2
  <2>6. LooksAreFound'
    BY <2>5 DEF LooksAreFound
  <2>7. RecordsTell'
    BY <2>2, TellsOfMore DEF RecordsTell
  <2> QED
    BY <2>2, <2>6, <2>7
<1>3. ASSUME NEW s \in Sweeper, RecordAttestation(s)
      PROVE  AttestationInv'
  <2> DEFINE t == look[s].tool
             saw == look[s].saw
             at == look[s].at
             record == IF t \in DOMAIN attested THEN Merged(attested[t], saw, at)
                       ELSE [state |-> saw.state, path |-> saw.path, first |-> at, last |-> at,
                             previous |-> "", changed |-> None]
             records == [u \in DOMAIN attested \cup {t} |-> IF u = t THEN record ELSE attested[u]]
  <2>1. attested' = Trimmed(records) /\ look' = [look EXCEPT ![s] = Idle] /\ UNCHANGED <<disk, generatedAt, found>>
    BY <1>3 DEF RecordAttestation
  <2>2. look[s] # Idle
    <3>1. look[s].step = "looked"
      BY <1>3 DEF RecordAttestation
    <3>2. Idle.step # "looked"
      BY DEF Idle
    <3> QED
      BY <3>1, <3>2
  <2>3. Pending(look[s])
    BY <2>2 DEF LooksAreFound
  <2>4. saw \in Found /\ at \in Nat \ {0} /\ WasSeen(t, saw, at, found)
    BY <2>3 DEF Pending
  <2> HIDE DEF t, saw, at
  <2>5. record \in Attestations /\ Tells(t, record, found)
    <3>1. CASE t \in DOMAIN attested
      BY <2>4, <3>1, MergedTells DEF RecordsTell
    <3>2. CASE t \notin DOMAIN attested
      BY <2>4, <3>2, FirstTells
    <3> QED
      BY <3>1, <3>2
  <2> HIDE DEF record
  <2>6. \A u \in DOMAIN records : records[u] \in Attestations /\ Tells(u, records[u], found)
    BY <2>5 DEF RecordsTell
  <2> HIDE DEF records
  <2>7. RecordsTell'
    BY <2>1, <2>6, TrimmedKeeps DEF RecordsTell
  <2>8. LooksAreFound'
    BY <2>1 DEF LooksAreFound, Pending
  <2> QED
    BY <2>1, <2>7, <2>8
<1>4. CASE Spoil
  BY <1>4 DEF Spoil, Spoiled, LooksAreFound, Pending, RecordsTell
<1>5. ASSUME NEW s \in Sweeper, Die(s)
      PROVE  AttestationInv'
  BY <1>5 DEF Die, LooksAreFound, Pending, RecordsTell
<1>6. CASE SweepLater
  <2>1. generatedAt' \in Nat \ {0}
    BY <1>6 DEF SweepLater
  <2> QED
    BY <1>6, <2>1 DEF SweepLater, LooksAreFound, Pending, RecordsTell
<1>7. CASE UNCHANGED attestationVars
  BY <1>7 DEF attestationVars, LooksAreFound, Pending, RecordsTell
<1> QED
  BY <1>1, <1>2, <1>3, <1>4, <1>5, <1>6, <1>7 DEF AttestationNext

(* Only a look that finds a usable file, or that nothing is to be run,     *)
(* leaves a surface with something to record.                              *)
LEMMA LookIsOfTheDisk ==
  ASSUME AttestationAssumption, AttestationInv, [AttestationNext]_attestationVars
  PROVE  NeverARefusedOne
<1> SUFFICES ASSUME NEW s \in Sweeper, look[s].step = "idle", look'[s].step = "looked"
             PROVE  LET saw == look'[s].saw
                        there == disk[look'[s].tool]
                    IN IF saw.path = None THEN \A p \in DOMAIN there : TrustOf(there[p]) = "rejected"
                       ELSE TrustOf(there[saw.path]) = saw.state /\ saw.state \in Usable
  BY DEF NeverARefusedOne, AttestationInv
<1>1. PICK t \in Tool : Attest(s, t)
  <2>1. DOMAIN look = Sweeper /\ "idle" # "looked" /\ Idle.step = "idle"
    BY DEF AttestationInv, Idle
  <2>2. look'[s] # look[s]
    OBVIOUS
  <2>3. ASSUME NEW u \in Sweeper, RecordAttestation(u) PROVE FALSE
    BY <2>1, <2>2, <2>3 DEF RecordAttestation
  <2>4. ASSUME NEW u \in Sweeper, Die(u) PROVE FALSE
    BY <2>1, <2>2, <2>4 DEF Die
  <2>5. ASSUME NEW t \in Tool, NEW p \in Place, NEW kind \in Kind, Change(t, p, kind) PROVE FALSE
    BY <2>2, <2>5 DEF Change
  <2>6. ~Spoil /\ ~SweepLater /\ ~UNCHANGED attestationVars
    BY <2>2 DEF Spoil, SweepLater, attestationVars
  <2>7. ASSUME NEW u \in Sweeper, NEW t \in Tool, Attest(u, t) PROVE u = s
    BY <2>1, <2>2, <2>7 DEF Attest
  <2> QED
    BY <2>3, <2>4, <2>5, <2>6, <2>7 DEF AttestationNext
<1> DEFINE saw == ResolveTool(disk[t])
<1>2. look'[s] = [step |-> "looked", tool |-> t, at |-> generatedAt, saw |-> saw]
  BY <1>1 DEF Attest, AttestationInv
<1>3. disk[t] \in [Place -> Kind]
  BY DEF AttestationInv
<1>4. /\ saw.path = None => \A p \in Place : TrustOf(disk[t][p]) = "rejected"
      /\ saw.path # None => TrustOf(disk[t][saw.path]) = saw.state /\ saw.state \in Usable
  BY <1>3, ResolvedIsUsable
<1> HIDE DEF saw
<1>5. look'[s].saw = saw /\ look'[s].tool = t /\ DOMAIN disk[t] = Place
  BY <1>2, <1>3
<1> QED
  BY <1>4, <1>5

(* Whichever surfaces sweep, however slow one is and whatever befalls the  *)
(* file: a tool is never taken from a place that was refused, and a record *)
(* tells what was found at its last instant, since when it is so and what  *)
(* was found before (journal.rs:215-219, tool.rs:97-104).                  *)
THEOREM AttestationsTell ==
  ASSUME AttestationAssumption
  PROVE  AttestationSpec => AttestationHolds
<1>1. AttestationInit => AttestationInv
  BY AttestationStarts
<1>2. AttestationInv /\ [AttestationNext]_attestationVars => AttestationInv'
  BY AttestationStep
<1>3. AttestationInv => TellsWhatWasSeen
  BY DEF AttestationInv, RecordsTell, TellsWhatWasSeen, Tells, WasSeen, Is
<1>4. AttestationInv /\ [AttestationNext]_attestationVars => [NeverARefusedOne]_attestationVars
  BY LookIsOfTheDisk
<1> QED
  BY <1>1, <1>2, <1>3, <1>4, PTL DEF AttestationSpec, AttestationHolds

-----------------------------------------------------------------------------
(* ResponseTransition.  What is legible tells the latest evaluation of its *)
(* rule; as long as no record went every record is legible, and a rule     *)
(* without one has not matched.                                            *)
TransitionTyped ==
  /\ sweptAt \in Nat /\ setBacks \in Nat
  /\ drained \in BOOLEAN /\ edge \in BOOLEAN
  /\ matched \in [EdgeKey -> BOOLEAN] /\ edges \in [EdgeKey -> Nat]
  /\ DOMAIN transitions \subseteq EdgeKey
  /\ \A k \in DOMAIN transitions :
       /\ transitions[k].active \in BOOLEAN
       /\ transitions[k].seen \in Nat /\ transitions[k].changed \in Nat /\ transitions[k].count \in Nat
MatchedHasAnEdge == \A k \in EdgeKey : matched[k] => edges[k] > 0
AllLegible ==
  NoneWent => \A k \in DOMAIN transitions :
                transitions[k].changed <= transitions[k].seen /\ transitions[k].seen <= sweptAt
AllRecorded == NoneWent => \A k \in EdgeKey \ DOMAIN transitions : ~matched[k] /\ edges[k] = 0
TransitionInv == TransitionTyped /\ MatchedHasAnEdge /\ AllLegible /\ AllRecorded /\ FindingsHold

LEMMA TransitionStarts ==
  ASSUME TransitionAssumption, TransitionInit
  PROVE  TransitionInv
<1>1. DOMAIN transitions = {}
  BY DEF TransitionInit
<1>2. TransitionTyped /\ MatchedHasAnEdge /\ AllLegible /\ AllRecorded
  BY <1>1 DEF TransitionInit, TransitionTyped, MatchedHasAnEdge, AllLegible, AllRecorded
<1>3. FindingsHold
  BY <1>1, FS_EmptySet DEF TransitionInit, FindingsHold, Legible, TransitionAssumption
<1> QED
  BY <1>2, <1>3 DEF TransitionInv

(* A call answers by what the legible record says of the rule, and the     *)
(* record it writes says the rest.                                         *)
LEMMA EvaluateKeeps ==
  ASSUME TransitionAssumption, TransitionInv,
         NEW k \in EdgeKey, NEW active \in BOOLEAN, Evaluate(k, active)
  PROVE  TransitionInv'
<1> DEFINE record == IF k \in Legible THEN Moved(transitions[k], active) ELSE Begun(active)
           records == [j \in Legible \cup {k} |-> IF j = k THEN record ELSE transitions[j]]
           rises == active /\ ~matched[k]
<1> USE DEF TransitionInv, TransitionTyped
<1>1. PICK kept \in SUBSET (Legible \cup {k}) :
        /\ Newest(kept, records)
        /\ transitions' = [j \in kept |-> records[j]]
        /\ drained' = (drained \/ kept # Legible \cup {k})
  BY DEF Evaluate
<1>2. /\ matched' = [matched EXCEPT ![k] = active]
      /\ edge' = rises
      /\ edges' = IF rises THEN [edges EXCEPT ![k] = @ + 1] ELSE edges
      /\ sweptAt' = sweptAt /\ setBacks' = setBacks
  BY DEF Evaluate
<1>3. answer' = LabelOf(IF k \in Legible THEN transitions[k].active ELSE FALSE, active)
  BY DEF Evaluate
<1>4. Legible \subseteq DOMAIN transitions /\ Legible \subseteq EdgeKey
  BY DEF Legible
<1>5. \A j \in Legible : transitions[j].active = matched[j] /\ transitions[j].count <= edges[j]
  BY DEF FindingsHold
<1>6. /\ record.active = active /\ record.seen = sweptAt
      /\ record.changed \in Nat /\ (NoneWent => record.changed <= sweptAt)
      /\ record.count \in Nat /\ record.count <= edges'[k]
      /\ NoneWent => record.count = edges'[k]
  <2>1. CASE k \in Legible
    <3>1. /\ record.active = active /\ record.seen = sweptAt
          /\ record.changed = IF transitions[k].active = active THEN transitions[k].changed ELSE sweptAt
          /\ record.count = IF rises THEN transitions[k].count + 1 ELSE transitions[k].count
      BY <2>1, <1>5 DEF Moved
    <3>2. NoneWent => transitions[k].changed <= sweptAt /\ transitions[k].count = edges[k]
      BY <2>1, <1>4 DEF AllLegible, FindingsHold
    <3>3. edges'[k] = IF rises THEN edges[k] + 1 ELSE edges[k]
      BY <1>2
    <3>4. /\ transitions[k].count \in Nat /\ transitions[k].changed \in Nat
          /\ transitions[k].count <= edges[k] /\ edges[k] \in Nat /\ sweptAt \in Nat
      BY <2>1, <1>4, <1>5
    <3> HIDE DEF record, rises
    <3> QED
      BY <3>1, <3>2, <3>3, <3>4
  <2>2. CASE k \notin Legible
    <3>1. /\ record.active = active /\ record.seen = sweptAt /\ record.changed = sweptAt
          /\ record.count = IF active THEN 1 ELSE 0
      BY <2>2 DEF Begun
    <3>2. edges'[k] = IF rises THEN edges[k] + 1 ELSE edges[k]
      BY <1>2
    <3>3. NoneWent => ~matched[k] /\ edges[k] = 0
      BY <2>2 DEF AllLegible, AllRecorded, Legible
    <3>4. edges[k] \in Nat /\ (matched[k] => edges[k] > 0)
      BY DEF MatchedHasAnEdge
    <3> QED
      BY <3>1, <3>2, <3>3, <3>4
  <2> QED
    BY <2>1, <2>2
<1>7. \A j \in kept : transitions'[j] = IF j = k THEN record ELSE transitions[j]
  BY <1>1
<1>8. DOMAIN transitions' = kept /\ kept \subseteq EdgeKey /\ DOMAIN records = Legible \cup {k}
  BY <1>1, <1>4
<1>9. /\ matched' \in [EdgeKey -> BOOLEAN] /\ edges' \in [EdgeKey -> Nat]
      /\ \A j \in EdgeKey : j # k => matched'[j] = matched[j] /\ edges'[j] = edges[j]
      /\ matched'[k] = active /\ edges'[k] >= edges[k]
  BY <1>2
<1>10. NoneWent' => NoneWent /\ kept = Legible \cup {k}
  BY <1>1, <1>2 DEF NoneWent
<1> HIDE DEF record, records
<1>11. TransitionTyped'
  <2>1. \A j \in kept :
          /\ transitions'[j].active \in BOOLEAN
          /\ transitions'[j].seen \in Nat /\ transitions'[j].changed \in Nat
          /\ transitions'[j].count \in Nat
    <3> TAKE j \in kept
    <3>1. CASE j = k
      BY <1>6, <1>7, <3>1
    <3>2. CASE j # k
      <4>1. j \in DOMAIN transitions /\ transitions'[j] = transitions[j]
        BY <1>1, <1>4, <1>7, <3>2
      <4> QED
        BY <4>1
    <3> QED
      BY <3>1, <3>2
  <2> QED
    BY <1>1, <1>2, <1>8, <1>9, <2>1
<1>12. MatchedHasAnEdge'
  BY <1>2, <1>9 DEF MatchedHasAnEdge
<1>13. AllLegible' /\ AllRecorded'
  <2> SUFFICES ASSUME NoneWent'
               PROVE  /\ \A j \in kept : /\ transitions'[j].changed <= transitions'[j].seen
                                         /\ transitions'[j].seen <= sweptAt'
                      /\ \A j \in EdgeKey \ kept : ~matched'[j] /\ edges'[j] = 0
    BY <1>8 DEF AllLegible, AllRecorded
  <2>1. NoneWent /\ kept = Legible \cup {k} /\ Legible = DOMAIN transitions
    BY <1>10 DEF AllLegible, Legible
  <2>2. ASSUME NEW j \in kept
        PROVE  transitions'[j].changed <= transitions'[j].seen /\ transitions'[j].seen <= sweptAt'
    BY <1>2, <1>6, <1>7, <2>1, <2>2 DEF AllLegible
  <2>3. ASSUME NEW j \in EdgeKey \ kept
        PROVE  ~matched'[j] /\ edges'[j] = 0
    BY <1>9, <2>1, <2>3 DEF AllRecorded
  <2> QED
    BY <2>2, <2>3
<1>14. FindingsHold'
  <2>1. edge' => answer' = "triggered"
    BY <1>2, <1>3, <1>5 DEF LabelOf
  <2>2. NoneWent' /\ answer' = "triggered" => edge'
    <3> SUFFICES ASSUME NoneWent', answer' = "triggered"
                 PROVE  rises
      BY <1>2
    <3>1. k \notin Legible => ~matched[k]
      BY <1>10 DEF AllLegible, AllRecorded, Legible
    <3> QED
      BY <1>3, <1>5, <3>1 DEF LabelOf
  <2>3. ASSUME NEW j \in Legible'
        PROVE  /\ transitions'[j].active = matched'[j] /\ transitions'[j].count <= edges'[j]
               /\ NoneWent' => transitions'[j].count = edges'[j]
    <3>1. j \in kept
      BY <1>8, <2>3 DEF Legible
    <3>2. CASE j = k
      BY <1>6, <1>7, <1>9, <1>10, <3>1, <3>2
    <3>3. CASE j # k
      <4>1. j \in Legible /\ j \in EdgeKey /\ transitions'[j] = transitions[j]
        BY <1>1, <1>4, <1>7, <3>1, <3>3
      <4>2. NoneWent => transitions[j].count = edges[j]
        BY <4>1 DEF FindingsHold
      <4> QED
        BY <1>5, <1>9, <1>10, <3>3, <4>1, <4>2
    <3> QED
      BY <3>2, <3>3
  <2>4. Cardinality(kept) <= MaxTransitions
    <3>1. Cardinality(kept) <= MaxTransitions \/ Cardinality(kept) = MaxTransitions
      BY <1>1, Zenon DEF Newest
    <3> QED
      BY <3>1 DEF TransitionAssumption
  <2> QED
    BY <1>8, <2>1, <2>2, <2>3, <2>4 DEF FindingsHold
<1> QED
  BY <1>11, <1>12, <1>13, <1>14

LEMMA TransitionStep ==
  ASSUME TransitionAssumption, TransitionInv, [TransitionNext]_transitionVars
  PROVE  TransitionInv'
<1>1. ASSUME NEW k \in EdgeKey, NEW active \in BOOLEAN, Evaluate(k, active)
      PROVE  TransitionInv'
  BY <1>1, EvaluateKeeps
<1>2. CASE SweepLaterOn
  BY <1>2 DEF SweepLaterOn, TransitionInv, TransitionTyped, MatchedHasAnEdge, AllLegible, AllRecorded,
              FindingsHold, NoneWent, Legible
<1>3. CASE SetBack
  <2>1. ~NoneWent' /\ sweptAt' \in Nat
    BY <1>3 DEF SetBack, NoneWent, TransitionInv, TransitionTyped
  <2> QED
    BY <1>3, <2>1 DEF SetBack, TransitionInv, TransitionTyped, MatchedHasAnEdge, AllLegible, AllRecorded,
                      FindingsHold, Legible
<1>4. CASE UNCHANGED transitionVars
  BY <1>4 DEF transitionVars, TransitionInv, TransitionTyped, MatchedHasAnEdge, AllLegible, AllRecorded,
              FindingsHold, NoneWent, Legible
<1> QED
  BY <1>1, <1>2, <1>3, <1>4 DEF TransitionNext

(* transition.rs:3-6: for any rules and agents, however few records there  *)
(* is room for and however the clock is set: no rising edge goes without a *)
(* finding, a record never tells of an outdated evaluation, and as long as *)
(* no record went there is one finding for each edge and no other.         *)
THEOREM EdgesAreFound ==
  ASSUME TransitionAssumption
  PROVE  TransitionSpec => []FindingsHold
<1>1. TransitionInit => TransitionInv
  BY TransitionStarts
<1>2. TransitionInv /\ [TransitionNext]_transitionVars => TransitionInv'
  BY TransitionStep
<1>3. TransitionInv => FindingsHold
  BY DEF TransitionInv
<1> QED
  BY <1>1, <1>2, <1>3, PTL DEF TransitionSpec

-----------------------------------------------------------------------------
(* SensorHealth.  What is reported of a sensor is of what it did; as long  *)
(* as no record went every record is reported, and a sensor without one    *)
(* has done nothing.                                                       *)
HealthTyped ==
  /\ observedAt \in Nat /\ healthBacks \in Nat /\ forgotten \in BOOLEAN
  /\ lastGood \in [Sensor -> Nat \cup {Never}]
  /\ failedSince \in [Sensor -> Nat]
  /\ counter \in [Sensor -> Nat \cup {Never}]
  /\ DOMAIN health \subseteq Sensor
  /\ \A s \in DOMAIN health :
       /\ health[s].seen \in Nat /\ health[s].failures \in Nat
       /\ health[s].success \in Nat \cup {Never} /\ health[s].error \in Nat \cup {Never}
       /\ health[s].dropped \in Nat \cup {Never}
AllReported ==
  NoneForgotten => \A s \in DOMAIN health :
                     /\ health[s].success <= health[s].seen /\ health[s].error <= health[s].seen
                     /\ health[s].seen <= observedAt
AllObserved ==
  NoneForgotten => \A s \in Sensor \ DOMAIN health :
                     lastGood[s] = Never /\ failedSince[s] = 0 /\ counter[s] = Never
HealthInv == HealthTyped /\ AllReported /\ AllObserved /\ HealthHolds

(* The sensors that are kept are at or above the smallest of them, and it  *)
(* was kept for having few enough there.                                   *)
LEMMA HeldFitTheFile ==
  ASSUME HealthAssumption, NEW sensors \in SUBSET Sensor
  PROVE  Held(sensors) \subseteq sensors /\ Cardinality(Held(sensors)) <= MaxSensors
<1> DEFINE kept == Held(sensors)
<1>1. kept \subseteq sensors /\ kept \in SUBSET Nat /\ IsFiniteSet(sensors)
  BY FS_Subset DEF Held, HealthAssumption
<1>2. CASE kept = {}
  BY <1>1, <1>2, FS_EmptySet DEF HealthAssumption
<1>3. CASE kept # {}
  <2>1. Min(kept) \in kept /\ \A s \in kept : Min(kept) <= s
    BY <1>1, <1>3, SmallestIsLeast
  <2> DEFINE above == {q \in sensors : q >= Min(kept)}
  <2>2. Cardinality(above) <= MaxSensors
    BY <2>1 DEF Held
  <2>3. kept \subseteq above /\ above \subseteq sensors
    BY <1>1, <2>1
  <2>4. IsFiniteSet(above) /\ IsFiniteSet(kept)
    BY <1>1, <2>3, FS_Subset
  <2> HIDE DEF above, kept
  <2>5. Cardinality(kept) <= Cardinality(above)
    BY <2>3, <2>4, FS_Subset
  <2>6. Cardinality(kept) \in Nat /\ Cardinality(above) \in Nat
    BY <2>4, FS_CardinalityType
  <2> QED
    BY <1>1, <2>2, <2>5, <2>6 DEF HealthAssumption, kept
<1> QED
  BY <1>2, <1>3

LEMMA HealthStarts ==
  ASSUME HealthAssumption, HealthInit
  PROVE  HealthInv
<1>1. DOMAIN health = {}
  BY DEF HealthInit
<1>2. HealthTyped /\ AllReported /\ AllObserved
  BY <1>1 DEF HealthInit, HealthTyped, AllReported, AllObserved, Never
<1>3. HealthHolds
  BY <1>1, FS_EmptySet DEF HealthInit, HealthHolds, Reported, HealthAssumption, Never
<1> QED
  BY <1>2, <1>3 DEF HealthInv

(* A call writes what the sensor did to what its reported record said, and *)
(* leaves the other records alone.                                         *)
LEMMA ObserveKeeps ==
  ASSUME HealthAssumption, HealthInv,
         NEW s \in Sensor, NEW outcome \in Outcome, NEW dropped \in Supplied,
         Observe(s, outcome, dropped)
  PROVE  HealthInv'
<1> DEFINE good == outcome = "available"
           record == IF s \in Reported THEN Noted(health[s], outcome, dropped)
                     ELSE FirstNoted(outcome, dropped)
           kept == Held(Reported \cup {s})
<1> USE DEF HealthInv, HealthTyped
<1>1. /\ health' = [q \in kept |-> IF q = s THEN record ELSE health[q]]
      /\ forgotten' = (forgotten \/ kept # Reported \cup {s})
      /\ observedAt' = observedAt /\ healthBacks' = healthBacks
  BY DEF Observe
<1>2. /\ lastGood' = [lastGood EXCEPT ![s] = IF good THEN observedAt ELSE @]
      /\ failedSince' = [failedSince EXCEPT ![s] = IF good THEN 0 ELSE @ + 1]
      /\ counter' = [counter EXCEPT ![s] = IF dropped = Never THEN @ ELSE dropped]
  BY DEF Observe
<1>3. Reported \subseteq DOMAIN health /\ Reported \subseteq Sensor
  BY DEF Reported
<1>4. kept \subseteq Reported \cup {s} /\ Cardinality(kept) <= MaxSensors
  BY <1>3, HeldFitTheFile
<1>5. dropped \in Nat \cup {Never}
  BY DEF Supplied, HealthAssumption
<1>6. /\ lastGood'[s] = IF good THEN observedAt ELSE lastGood[s]
      /\ failedSince'[s] = IF good THEN 0 ELSE failedSince[s] + 1
      /\ counter'[s] = IF dropped = Never THEN counter[s] ELSE dropped
      /\ \A q \in Sensor : q # s => /\ lastGood'[q] = lastGood[q]
                                    /\ failedSince'[q] = failedSince[q]
                                    /\ counter'[q] = counter[q]
  BY <1>2
<1>7. /\ lastGood' \in [Sensor -> Nat \cup {Never}] /\ failedSince' \in [Sensor -> Nat]
      /\ counter' \in [Sensor -> Nat \cup {Never}]
  BY <1>2, <1>5
<1>8. NoneForgotten' => NoneForgotten /\ kept = Reported \cup {s} /\ Reported = DOMAIN health
  BY <1>1 DEF NoneForgotten, AllReported, Reported
<1>9. /\ record.seen = observedAt /\ record.failures \in Nat
      /\ record.success \in Nat \cup {Never} /\ record.error \in Nat \cup {Never}
      /\ record.dropped \in Nat \cup {Never}
      /\ record.success \in {Never, lastGood'[s]}
      /\ record.failures <= failedSince'[s]
      /\ record.dropped \in {Never, counter'[s]}
  <2>1. CASE s \in Reported
    <3>1. /\ record.seen = observedAt
          /\ record.dropped = IF dropped = Never THEN health[s].dropped ELSE dropped
          /\ record.success = IF good THEN observedAt ELSE health[s].success
          /\ record.error = IF good THEN health[s].error ELSE observedAt
          /\ record.failures = IF good THEN 0 ELSE health[s].failures + 1
      BY <2>1 DEF Noted
    <3>2. /\ health[s].success \in {Never, lastGood[s]} /\ health[s].failures <= failedSince[s]
          /\ health[s].dropped \in {Never, counter[s]}
      BY <2>1 DEF HealthHolds
    <3>3. /\ health[s].failures \in Nat /\ failedSince[s] \in Nat /\ observedAt \in Nat
          /\ health[s].success \in Nat \cup {Never} /\ health[s].error \in Nat \cup {Never}
          /\ health[s].dropped \in Nat \cup {Never}
      BY <1>3, <2>1
    <3> HIDE DEF record, good
    <3> QED
      BY <1>5, <1>6, <3>1, <3>2, <3>3
  <2>2. CASE s \notin Reported
    <3>1. /\ record.seen = observedAt /\ record.dropped = dropped
          /\ record.success = IF good THEN observedAt ELSE Never
          /\ record.error = IF good THEN Never ELSE observedAt
          /\ record.failures = IF good THEN 0 ELSE 1
      BY <2>2 DEF FirstNoted
    <3>2. failedSince[s] \in Nat /\ observedAt \in Nat
      OBVIOUS
    <3> HIDE DEF record, good
    <3> QED
      BY <1>5, <1>6, <3>1, <3>2
  <2> QED
    BY <2>1, <2>2
<1>10. NoneForgotten' => /\ record.success = lastGood'[s] /\ record.failures = failedSince'[s]
                         /\ record.dropped = counter'[s]
                         /\ record.success <= observedAt /\ record.error <= observedAt
  <2> SUFFICES ASSUME NoneForgotten'
               PROVE  /\ record.success = lastGood'[s] /\ record.failures = failedSince'[s]
                      /\ record.dropped = counter'[s]
                      /\ record.success <= observedAt /\ record.error <= observedAt
    OBVIOUS
  <2>1. CASE s \in Reported
    <3>1. /\ record.dropped = IF dropped = Never THEN health[s].dropped ELSE dropped
          /\ record.success = IF good THEN observedAt ELSE health[s].success
          /\ record.error = IF good THEN health[s].error ELSE observedAt
          /\ record.failures = IF good THEN 0 ELSE health[s].failures + 1
      BY <2>1 DEF Noted
    <3>2. /\ health[s].success = lastGood[s] /\ health[s].failures = failedSince[s]
          /\ health[s].dropped = counter[s]
      BY <1>8, <2>1 DEF HealthHolds
    <3>3. /\ health[s].success <= health[s].seen /\ health[s].error <= health[s].seen
          /\ health[s].seen <= observedAt
      BY <1>8, <2>1 DEF AllReported
    <3>4. /\ health[s].seen \in Nat /\ observedAt \in Nat
          /\ health[s].success \in Nat \cup {Never} /\ health[s].error \in Nat \cup {Never}
      BY <1>3, <2>1
    <3> HIDE DEF record, good
    <3> QED
      BY <1>6, <3>1, <3>2, <3>3, <3>4 DEF Never
  <2>2. CASE s \notin Reported
    <3>1. /\ record.dropped = dropped
          /\ record.success = IF good THEN observedAt ELSE Never
          /\ record.error = IF good THEN Never ELSE observedAt
          /\ record.failures = IF good THEN 0 ELSE 1
      BY <2>2 DEF FirstNoted
    <3>2. lastGood[s] = Never /\ failedSince[s] = 0 /\ counter[s] = Never
      BY <1>8, <2>2 DEF AllObserved
    <3>3. observedAt \in Nat
      OBVIOUS
    <3> HIDE DEF record, good
    <3> QED
      BY <1>6, <3>1, <3>2, <3>3 DEF Never
  <2> QED
    BY <2>1, <2>2
<1> HIDE DEF record, kept, good
<1>11. /\ DOMAIN health' = kept /\ kept \subseteq Sensor
       /\ \A q \in kept : \/ q = s /\ health'[q] = record
                          \/ q # s /\ health'[q] = health[q] /\ q \in Reported
  BY <1>1, <1>3, <1>4
<1>12. HealthTyped'
  <2>1. ASSUME NEW q \in kept
        PROVE  /\ health'[q].seen \in Nat /\ health'[q].failures \in Nat
               /\ health'[q].success \in Nat \cup {Never} /\ health'[q].error \in Nat \cup {Never}
               /\ health'[q].dropped \in Nat \cup {Never}
    <3>1. CASE q = s /\ health'[q] = record
      BY <1>9, <3>1
    <3>2. CASE q # s /\ health'[q] = health[q] /\ q \in Reported
      BY <1>3, <3>2
    <3> QED
      BY <1>11, <2>1, <3>1, <3>2
  <2> QED
    BY <1>1, <1>7, <1>11, <2>1
<1>13. AllReported' /\ AllObserved'
  <2> SUFFICES ASSUME NoneForgotten'
               PROVE  /\ \A q \in kept :
                           /\ health'[q].success <= health'[q].seen /\ health'[q].error <= health'[q].seen
                           /\ health'[q].seen <= observedAt'
                      /\ \A q \in Sensor \ kept :
                           lastGood'[q] = Never /\ failedSince'[q] = 0 /\ counter'[q] = Never
    BY <1>11 DEF AllReported, AllObserved
  <2>1. ASSUME NEW q \in kept
        PROVE  /\ health'[q].success <= health'[q].seen /\ health'[q].error <= health'[q].seen
               /\ health'[q].seen <= observedAt'
    <3>1. CASE q = s /\ health'[q] = record
      BY <1>1, <1>9, <1>10, <3>1
    <3>2. CASE q # s /\ health'[q] = health[q] /\ q \in Reported
      BY <1>1, <1>3, <1>8, <3>2 DEF AllReported
    <3> QED
      BY <1>11, <2>1, <3>1, <3>2
  <2>2. ASSUME NEW q \in Sensor \ kept
        PROVE  lastGood'[q] = Never /\ failedSince'[q] = 0 /\ counter'[q] = Never
    BY <1>6, <1>8, <2>2 DEF AllObserved
  <2> QED
    BY <2>1, <2>2
<1>14. HealthHolds'
  <2>1. ASSUME NEW q \in Reported'
        PROVE  /\ health'[q].success \in {Never, lastGood'[q]}
               /\ health'[q].failures <= failedSince'[q]
               /\ health'[q].dropped \in {Never, counter'[q]}
               /\ NoneForgotten' => /\ health'[q].success = lastGood'[q]
                                    /\ health'[q].failures = failedSince'[q]
                                    /\ health'[q].dropped = counter'[q]
    <3>1. q \in kept
      BY <1>11, <2>1 DEF Reported
    <3>2. CASE q = s /\ health'[q] = record
      BY <1>9, <1>10, <3>2
    <3>3. CASE q # s /\ health'[q] = health[q] /\ q \in Reported
      BY <1>3, <1>6, <1>8, <3>3 DEF HealthHolds
    <3> QED
      BY <1>11, <3>1, <3>2, <3>3
  <2>2. ASSUME NoneForgotten', NEW q \in Sensor, lastGood'[q] # Never
        PROVE  q \in Reported'
    BY <1>11, <1>13, <2>2 DEF AllReported, AllObserved, Reported
  <2> QED
    BY <1>4, <1>11, <2>1, <2>2 DEF HealthHolds
<1> QED
  BY <1>12, <1>13, <1>14

LEMMA HealthStep ==
  ASSUME HealthAssumption, HealthInv, [HealthNext]_healthVars
  PROVE  HealthInv'
<1>1. ASSUME NEW s \in Sensor, NEW outcome \in Outcome, NEW dropped \in Supplied,
             Observe(s, outcome, dropped)
      PROVE  HealthInv'
  BY <1>1, ObserveKeeps
<1>2. CASE ObserveLater
  BY <1>2 DEF ObserveLater, HealthInv, HealthTyped, AllReported, AllObserved, HealthHolds, NoneForgotten,
              Reported
<1>3. CASE ClockBack
  <2>1. ~NoneForgotten' /\ observedAt' \in Nat /\ healthBacks' \in Nat
    BY <1>3 DEF ClockBack, NoneForgotten, HealthInv, HealthTyped
  <2> QED
    BY <1>3, <2>1 DEF ClockBack, HealthInv, HealthTyped, AllReported, AllObserved, HealthHolds, Reported
<1>4. CASE UNCHANGED healthVars
  BY <1>4 DEF healthVars, HealthInv, HealthTyped, AllReported, AllObserved, HealthHolds, NoneForgotten,
              Reported
<1> QED
  BY <1>1, <1>2, <1>3, <1>4 DEF HealthNext

(* sensor_health.rs:3-5, journal.rs:500-501: for any sensors, however few  *)
(* records there is room for and however the clock is set: what is         *)
(* reported of a sensor was so, and as long as no record went its last     *)
(* success, its failures since and its counter are all there.              *)
THEOREM SuccessIsRemembered ==
  ASSUME HealthAssumption
  PROVE  HealthSpec => []HealthHolds
<1>1. HealthInit => HealthInv
  BY HealthStarts
<1>2. HealthInv /\ [HealthNext]_healthVars => HealthInv'
  BY HealthStep
<1>3. HealthInv => HealthHolds
  BY DEF HealthInv
<1> QED
  BY <1>1, <1>2, <1>3, PTL DEF HealthSpec
-----------------------------------------------------------------------------
(* The network history.  An order of a finite set is given by what is      *)
(* ahead of each member; fewer are ahead of what is itself ahead.          *)
Order(S, ahead) ==
  /\ IsFiniteSet(S) /\ ahead \in [S -> SUBSET S]
  /\ \A x \in S : x \notin ahead[x]
  /\ \A x \in S : \A y \in ahead[x] : ahead[y] \subseteq ahead[x]
  /\ \A x, y \in S : x = y \/ x \in ahead[y] \/ y \in ahead[x]

LEMMA FewerAreAhead ==
  ASSUME NEW S, NEW ahead, Order(S, ahead)
  PROVE  /\ \A x \in S : Cardinality(ahead[x]) \in Nat /\ IsFiniteSet(ahead[x])
         /\ \A x \in S : \A y \in ahead[x] : Cardinality(ahead[y]) < Cardinality(ahead[x])
<1>1. ASSUME NEW x \in S PROVE Cardinality(ahead[x]) \in Nat /\ IsFiniteSet(ahead[x])
  BY FS_Subset, FS_CardinalityType DEF Order
<1>2. ASSUME NEW x \in S, NEW y \in ahead[x] PROVE Cardinality(ahead[y]) < Cardinality(ahead[x])
  <2>1. y \in S /\ ahead[y] \subseteq ahead[x] \ {y}
    BY DEF Order
  <2>2. IsFiniteSet(ahead[x] \ {y}) /\ Cardinality(ahead[x] \ {y}) = Cardinality(ahead[x]) - 1
    BY <1>1, FS_RemoveElement
  <2>3. Cardinality(ahead[y]) <= Cardinality(ahead[x] \ {y})
    BY <2>1, <2>2, FS_Subset
  <2> QED BY <1>1, <2>1, <2>2, <2>3
<1> QED BY <1>1, <1>2

(* The first n of an order: all of it, or n.                               *)
LEMMA TheFirst ==
  ASSUME NEW S, NEW ahead, Order(S, ahead), NEW n \in Nat, NEW K,
         K = {x \in S : Cardinality(ahead[x]) < n}
  PROVE  /\ IsFiniteSet(K) /\ Cardinality(K) \in Nat /\ Cardinality(K) <= n
         /\ K = S \/ Cardinality(K) = n
<1> DEFINE rank == [x \in S |-> Cardinality(ahead[x])]
<1>1. /\ \A x \in S : rank[x] \in Nat /\ rank[x] = Cardinality(ahead[x]) /\ IsFiniteSet(ahead[x])
      /\ \A x \in S : \A y \in ahead[x] : y \in S /\ rank[y] < rank[x]
      /\ K = {x \in S : rank[x] < n}
  BY FewerAreAhead DEF Order
<1> HIDE DEF rank
<1>2. IsFiniteSet(K) /\ Cardinality(K) \in Nat
  BY FS_Subset, FS_CardinalityType DEF Order
<1>3. Cardinality(K) <= n
  <2>1. CASE K = {}
    BY <2>1, FS_EmptySet
  <2>2. CASE K # {}
    <3> DEFINE T == {n - rank[x] : x \in K}
    <3>1. T \in SUBSET Nat /\ T # {}
      BY <1>1, <2>2
    <3>2. Min(T) \in T /\ \A y \in T : Min(T) <= y
      BY <3>1, SmallestIsLeast
    <3>3. PICK z \in K : Min(T) = n - rank[z]
      BY <3>2
    <3>4. \A x \in K : n - rank[z] <= n - rank[x]
      BY <3>2, <3>3
    <3> HIDE DEF T
    <3>5. ASSUME NEW x \in K PROVE x \in ahead[z] \cup {z}
      <4>1. ~(z \in ahead[x])
        BY <1>1, <3>4
      <4> QED BY <1>1, <4>1 DEF Order
    <3>6. /\ IsFiniteSet(ahead[z]) /\ z \notin ahead[z]
          /\ Cardinality(ahead[z]) = rank[z] /\ rank[z] \in Nat /\ rank[z] < n
      BY <1>1 DEF Order
    <3>7. IsFiniteSet(ahead[z] \cup {z}) /\ Cardinality(ahead[z] \cup {z}) = rank[z] + 1
      BY <3>6, FS_AddElement
    <3>8. Cardinality(K) <= Cardinality(ahead[z] \cup {z})
      BY <3>5, <3>7, FS_Subset
    <3> QED BY <1>2, <3>6, <3>7, <3>8
  <2> QED BY <2>1, <2>2
<1>4. ASSUME K # S PROVE Cardinality(K) = n
  <2> DEFINE T == {rank[x] : x \in S \ K}
  <2>1. T \in SUBSET Nat /\ T # {}
    BY <1>1, <1>4
  <2>2. Min(T) \in T /\ \A y \in T : Min(T) <= y
    BY <2>1, SmallestIsLeast
  <2>3. PICK z \in S \ K : Min(T) = rank[z]
    BY <2>2
  <2>4. \A x \in S \ K : rank[z] <= rank[x]
    BY <2>2, <2>3
  <2> HIDE DEF T
  <2>5. ASSUME NEW x \in ahead[z] PROVE x \in K
    BY <1>1, <2>4
  <2>6. Cardinality(ahead[z]) <= Cardinality(K)
    BY <1>2, <2>5, FS_Subset
  <2>7. Cardinality(ahead[z]) = rank[z] /\ rank[z] \in Nat /\ ~(rank[z] < n)
    BY <1>1
  <2> QED BY <1>2, <1>3, <2>6, <2>7
<1> QED BY <1>2, <1>3, <1>4

(* The samples that are kept: not more than there is room for, and some.   *)
LEMMA FreshestFit ==
  ASSUME NetworkAssumption, NEW S \in SUBSET Nat, IsFiniteSet(S), S # {}
  PROVE  Freshest(S) \subseteq S /\ Freshest(S) # {} /\ Cardinality(Freshest(S)) <= MaxSamples
<1> DEFINE ahead == [x \in S |-> {y \in S : y > x}]
<1>1. Order(S, ahead)
  <2>1. ahead \in [S -> SUBSET S] /\ \A x, y \in S : y \in ahead[x] <=> y > x
    OBVIOUS
  <2> HIDE DEF ahead
  <2>2. ASSUME NEW x \in S, NEW y \in ahead[x], NEW z \in ahead[y] PROVE z  \in ahead[x]
    <3>1. y \in S /\ z \in S
      BY <2>1
    <3> QED BY <2>1, <3>1
  <2>3. \A x \in S : x \notin ahead[x]
    BY <2>1
  <2>4. \A x, y \in S : x = y \/ x \in ahead[y] \/ y \in ahead[x]
    BY <2>1
  <2> QED BY <2>1, <2>2, <2>3, <2>4 DEF Order
<1>2. Freshest(S) = {x \in S : Cardinality(ahead[x]) < MaxSamples}
  BY DEF Freshest
<1> HIDE DEF ahead
<1>3. MaxSamples \in Nat /\ MaxSamples # 0
  BY DEF NetworkAssumption
<1>4. /\ Cardinality(Freshest(S)) <= MaxSamples
      /\ Freshest(S) = S \/ Cardinality(Freshest(S)) = MaxSamples
  BY <1>1, <1>2, <1>3, TheFirst
<1> QED BY <1>2, <1>3, <1>4, FS_EmptySet

(* There is one n-th member.                                               *)
LEMMA NthIsOne ==
  ASSUME NEW S \in SUBSET Nat, IsFiniteSet(S), NEW n \in Nat \ {0}, n <= Cardinality(S)
  PROVE  /\ Nth(S, n) \in S
         /\ \A x \in S : Cardinality(Earlier(S, x)) = n - 1 <=> x = Nth(S, n)
<1> DEFINE ahead == [x \in S |-> {y \in S : y < x}]
           K(m) == {x \in S : Cardinality(ahead[x]) < m}
<1>1. Order(S, ahead)
  <2>1. ahead \in [S -> SUBSET S] /\ \A x, y \in S : y \in ahead[x] <=> y < x
    OBVIOUS
  <2> HIDE DEF ahead
  <2>2. ASSUME NEW x \in S, NEW y \in ahead[x], NEW z \in ahead[y] PROVE z  \in ahead[x]
    <3>1. y \in S /\ z \in S
      BY <2>1
    <3> QED BY <2>1, <3>1
  <2>3. \A x \in S : x \notin ahead[x]
    BY <2>1
  <2>4. \A x, y \in S : x = y \/ x \in ahead[y] \/ y \in ahead[x]
    BY <2>1
  <2> QED BY <2>1, <2>2, <2>3, <2>4 DEF Order
<1>2. \A x \in S : ahead[x] = Earlier(S, x)
  BY DEF Earlier
<1> HIDE DEF ahead
<1>3. n - 1 \in Nat
  OBVIOUS
<1>4. /\ Cardinality(K(n)) \in Nat /\ Cardinality(K(n)) <= n
      /\ K(n) = S \/ Cardinality(K(n)) = n
  BY <1>1, TheFirst
<1>5. IsFiniteSet(K(n - 1)) /\ Cardinality(K(n - 1)) \in Nat /\ Cardinality(K(n - 1)) <= n - 1
  BY <1>1, <1>3, TheFirst
<1>6. Cardinality(K(n)) = n
  BY <1>4
<1>7. /\ \A x \in S : Cardinality(ahead[x]) \in Nat
      /\ \A x \in S : \A y \in ahead[x] : Cardinality(ahead[y]) < Cardinality(ahead[x])
  BY <1>1, FewerAreAhead
<1>8. \E x \in S : Cardinality(ahead[x]) = n - 1
  <2>1. ~(K(n) \subseteq K(n - 1))
    BY <1>5, <1>6, FS_Subset
  <2>2. PICK x \in S : Cardinality(ahead[x]) < n /\ ~(Cardinality(ahead[x]) < n - 1)
    BY <2>1
  <2> QED BY <1>7, <2>2
<1>9. ASSUME NEW x \in S, NEW y \in S, Cardinality(ahead[x]) = n - 1, Cardinality(ahead[y]) = n - 1
      PROVE  x = y
  <2>1. ~(x \in ahead[y]) /\ ~(y \in ahead[x])
    BY <1>7, <1>9
  <2> QED BY <1>1, <2>1 DEF Order
<1>10. \E x \in S : Cardinality(Earlier(S, x)) = n - 1
  BY <1>2, <1>8
<1>11. Nth(S, n) \in S /\ Cardinality(Earlier(S, Nth(S, n))) = n - 1
  BY <1>10, Zenon DEF Nth
<1> QED BY <1>2, <1>9, <1>11

(* A file within its bounds, whose records count each change of the mark.  *)
IsRecord(r) ==
  /\ r \in Endpoint /\ r.samples # {} /\ IsFiniteSet(r.samples)
  /\ Cardinality(r.samples) <= MaxSamples
  /\ r.current <=> r.changes % 2 = 1
Records(f) == f = [k \in Key |-> f[k]] /\ \A k \in Key : f[k] = Absent \/ IsRecord(f[k])
IsHistory(f) == Records(f) /\ Cardinality(Present(f)) <= MaxEndpoints

LEMMA AbsentIsNoRecord == ~IsRecord(Absent) /\ Absent.samples = {} /\ Absent.current = FALSE
BY DEF IsRecord, Absent

LEMMA NothingIsHistory ==
  ASSUME NetworkAssumption PROVE IsHistory(Nothing) /\ Present(Nothing) = {}
<1>1. Present(Nothing) = {} /\ Records(Nothing)
  BY DEF Present, Nothing, Records
<1> QED BY <1>1, FS_EmptySet DEF IsHistory, NetworkAssumption

LEMMA ParityTurns ==
  ASSUME NEW n \in Nat PROVE (n + 1) % 2 = 1 <=> ~(n % 2 = 1)
OBVIOUS

(* What a sweep makes of one record.                                       *)
LEMMA HiddenIs ==
  ASSUME NEW r, IsRecord(r)
  PROVE  /\ IsRecord(Hidden(r)) /\ Hidden(r).current = FALSE
         /\ Hidden(r).samples = r.samples /\ Hidden(r).first = r.first /\ Hidden(r).last = r.last
<1>1. CASE r.current
  <2>1. Hidden(r) = [r EXCEPT !.current = FALSE, !.changes = @ + 1]
    BY <1>1 DEF Hidden
  <2>2. r.changes \in Nat /\ r \in Endpoint
    BY DEF IsRecord, Endpoint
  <2>3. ~((r.changes + 1) % 2 = 1)
    BY <1>1, <2>2, ParityTurns DEF IsRecord
  <2> DEFINE count == r.changes + 1
  <2>4. Hidden(r) = [r EXCEPT !.current = FALSE, !.changes = count] /\ count \in Nat
    BY <2>1, <2>2
  <2> HIDE DEF count
  <2>5. /\ Hidden(r).current = FALSE /\ Hidden(r).changes = count
        /\ Hidden(r).samples = r.samples /\ Hidden(r).first = r.first /\ Hidden(r).last = r.last
    BY <2>2, <2>4 DEF Endpoint
  <2>6. Hidden(r) \in Endpoint
    BY <2>2, <2>4 DEF Endpoint
  <2> QED BY <2>3, <2>5, <2>6 DEF IsRecord, count
<1>2. CASE ~r.current
  <2>1. Hidden(r) = r /\ r.current \in BOOLEAN
    BY <1>2 DEF Hidden, IsRecord, Endpoint
  <2> QED BY <1>2, <2>1
<1> QED BY <1>1, <1>2

LEMMA SightedIs ==
  ASSUME NetworkAssumption, NEW r, r = Absent \/ IsRecord(r), NEW t \in Nat
  PROVE  /\ IsRecord(Sighted(r, t)) /\ Sighted(r, t).current = TRUE /\ Sighted(r, t).last = t
         /\ Sighted(r, t).samples \subseteq r.samples \cup {t}
         /\ r = Absent => Sighted(r, t).first = t /\ Sighted(r, t).samples = {t}
         /\ r # Absent => Sighted(r, t).first = r.first
<1>1. CASE r = Absent
  <2>1. Sighted(r, t) = [first |-> t, last |-> t, samples |-> {t}, current |-> TRUE, changes |-> 1]
    BY <1>1 DEF Sighted
  <2>2. IsFiniteSet({t}) /\ Cardinality({t}) = 1 /\ MaxSamples \in Nat \ {0}
    BY FS_Singleton DEF NetworkAssumption
  <2>3. Sighted(r, t) \in Endpoint
    BY <2>1 DEF Endpoint
  <2>4. 1 % 2 = 1
    OBVIOUS
  <2> QED BY <1>1, <2>1, <2>2, <2>3, <2>4 DEF IsRecord
<1>2. CASE r # Absent
  <2> DEFINE kept == Freshest(r.samples \cup {t})
             count == IF r.current THEN r.changes ELSE r.changes + 1
  <2>1. r \in Endpoint /\ IsRecord(r) /\ r.changes \in Nat /\ r.samples \in SUBSET Nat
    BY <1>2 DEF IsRecord, Endpoint
  <2>2. Sighted(r, t) = [r EXCEPT !.last = t, !.samples = kept, !.current = TRUE, !.changes = count]
    BY <1>2 DEF Sighted
  <2>3. r.samples \cup {t} \in SUBSET Nat /\ IsFiniteSet(r.samples \cup {t}) /\ r.samples \cup {t} # {}
    BY <2>1, FS_AddElement DEF IsRecord
  <2>4. kept \subseteq r.samples \cup {t} /\ kept # {} /\ Cardinality(kept) <= MaxSamples
    BY <2>3, FreshestFit
  <2>5. IsFiniteSet(kept)
    BY <2>3, <2>4, FS_Subset
  <2>6. count \in Nat /\ count % 2 = 1
    BY <2>1, ParityTurns DEF IsRecord
  <2> HIDE DEF kept, count
  <2>7. /\ Sighted(r, t).last = t /\ Sighted(r, t).samples = kept /\ Sighted(r, t).current = TRUE
        /\ Sighted(r, t).changes = count /\ Sighted(r, t).first = r.first
        /\ Sighted(r, t) \in Endpoint
    BY <2>1, <2>2, <2>3, <2>4, <2>6 DEF Endpoint
  <2> QED BY <1>2, <2>4, <2>5, <2>6, <2>7 DEF IsRecord
<1> QED BY <1>1, <1>2

(* What is carried over is as it was, or gone.                             *)
LEMMA RecentIs ==
  ASSUME NEW f, NEW t, Records(f)
  PROVE  /\ Records(Recent(f, t))
         /\ \A k \in Key : Recent(f, t)[k] = f[k] \/ Recent(f, t)[k] = Absent
BY DEF Records, Recent

(* What a sweep makes of a file: each mark is of its look; no sample but   *)
(* its own is new; a record is as old as it was, or begins with it.        *)
Follows(f, g, t) ==
  \A k \in Key : /\ g[k].samples \subseteq f[k].samples \cup {t}
                 /\ k \in Present(g) => \/ k \in Present(f) /\ g[k].first = f[k].first
                                        \/ g[k].first = t /\ g[k].samples = {t}
Sees(f, g, sight, t) ==
  /\ \A k \in Key : k \in sight => k \in Present(g) /\ g[k].last = t
  /\ \A k \in Present(g) : g[k].current <=> k \in sight
  /\ \A k \in Present(g) : k \notin sight => k \in Present(f) /\ g[k].last = f[k].last

LEMMA UpdatedIs ==
  ASSUME NetworkAssumption, NEW f, Records(f), NEW sight \in SUBSET Key, NEW t \in Nat, NEW g,
         g = Updated(f, sight, t)
  PROVE  Records(g) /\ Sees(f, g, sight, t) /\ Follows(f, g, t)
<1>1. g = [k \in Key |-> g[k]]
  BY DEF Updated
<1>2. ASSUME NEW k \in Key, k \in sight
      PROVE  /\ IsRecord(g[k]) /\ g[k].current /\ g[k].last = t
             /\ g[k].samples \subseteq f[k].samples \cup {t}
             /\ \/ k \in Present(f) /\ g[k].first = f[k].first
                \/ g[k].first = t /\ g[k].samples = {t}
  <2>1. g[k] = Sighted(f[k], t) /\ (f[k] = Absent \/ IsRecord(f[k]))
    BY <1>2 DEF Updated, Records
  <2>2. /\ IsRecord(g[k]) /\ g[k].current = TRUE /\ g[k].last = t
        /\ g[k].samples \subseteq f[k].samples \cup {t}
        /\ f[k] = Absent => g[k].first = t /\ g[k].samples = {t}
        /\ f[k] # Absent => g[k].first = f[k].first
    <3> DEFINE r == f[k]
    <3>1. r = Absent \/ IsRecord(r)
      BY <2>1
    <3>2. g[k] = Sighted(r, t)
      BY <2>1
    <3> HIDE DEF r
    <3>3. /\ IsRecord(Sighted(r, t)) /\ Sighted(r, t).current = TRUE /\ Sighted(r, t).last = t
          /\ Sighted(r, t).samples \subseteq r.samples \cup {t}
          /\ r = Absent => Sighted(r, t).first = t /\ Sighted(r, t).samples = {t}
          /\ r # Absent => Sighted(r, t).first = r.first
      BY <3>1, SightedIs
    <3> QED BY <3>2, <3>3 DEF r
  <2> QED BY <2>2 DEF Present
<1>3. ASSUME NEW k \in Key, k \notin sight, f[k] # Absent
      PROVE  /\ IsRecord(g[k]) /\ ~g[k].current /\ g[k].last = f[k].last
             /\ g[k].samples = f[k].samples /\ g[k].first = f[k].first /\ k \in Present(f)
  <2>1. g[k] = Hidden(f[k]) /\ IsRecord(f[k])
    BY <1>3 DEF Updated, Records
  <2> QED BY <1>3, <2>1, HiddenIs DEF Present
<1>4. ASSUME NEW k \in Key, k \notin sight, f[k] = Absent PROVE g[k] = Absent
  BY <1>4, AbsentIsNoRecord DEF Updated, Hidden
<1>5. Records(g)
  BY <1>1, <1>2, <1>3, <1>4 DEF Records
<1>6. Follows(f, g, t)
  <2> SUFFICES ASSUME NEW k \in Key
               PROVE  /\ g[k].samples \subseteq f[k].samples \cup {t}
                      /\ k \in Present(g) => \/ k \in Present(f) /\ g[k].first = f[k].first
                                             \/ g[k].first = t /\ g[k].samples = {t}
    BY DEF Follows
  <2> QED BY <1>2, <1>3, <1>4, AbsentIsNoRecord DEF Present
<1>7. \A k \in Key : k \in sight => k \in Present(g) /\ g[k].last = t
  BY <1>2, AbsentIsNoRecord DEF Present
<1>8. \A k \in Present(g) : g[k].current <=> k \in sight
  BY <1>2, <1>3, <1>4 DEF Present
<1>9. \A k \in Present(g) : k \notin sight => k \in Present(f) /\ g[k].last = f[k].last
  BY <1>3, <1>4 DEF Present
<1> QED BY <1>5, <1>6, <1>7, <1>8, <1>9 DEF Sees

(* The bound keeps the first of the order, whole.                          *)
LEMMA BoundedIs ==
  ASSUME NetworkAssumption, NEW f, Records(f), NEW g, g = Bounded(f)
  PROVE  /\ IsHistory(g) /\ Present(g) \subseteq Present(f)
         /\ \A k \in Key : g[k] = f[k] \/ g[k] = Absent
         /\ Present(g) = Present(f) \/ Cardinality(Present(g)) = MaxEndpoints
         /\ \A k \in Present(g) : Ahead(f, k) \subseteq Present(g)
<1> DEFINE S == Present(f)  ahead == [k \in S |-> Ahead(f, k)]
<1>1. /\ \A k \in S : k \in Nat /\ f[k].last \in Nat
      /\ IsFiniteSet(S) /\ MaxEndpoints \in Nat
  BY FS_Subset DEF NetworkAssumption, Records, IsRecord, Endpoint, Present
<1>2. ahead \in [S -> SUBSET S] /\ \A x, y \in S : y \in ahead[x] <=> Before(f, y, x)
  BY DEF Ahead
<1>3. Order(S, ahead)
  <2> HIDE DEF ahead, S
  <2>1. ASSUME NEW x \in S, NEW y \in ahead[x], NEW z \in ahead[y] PROVE z \in ahead[x]
    <3>1. y \in S /\ z \in S /\ Before(f, y, x) /\ Before(f, z, y)
      BY <1>2
    <3>2. Before(f, z, x)
      BY <1>1, <3>1 DEF Before
    <3> QED BY <1>2, <3>1, <3>2
  <2>2. \A x \in S : x \notin ahead[x]
    BY <1>1, <1>2 DEF Before
  <2>3. \A x, y \in S : x = y \/ x \in ahead[y] \/ y \in ahead[x]
    BY <1>1, <1>2 DEF Before
  <2> QED BY <1>1, <1>2, <2>1, <2>2, <2>3 DEF Order
<1>4. \A k \in S : ahead[k] = Ahead(f, k)
  OBVIOUS
<1> HIDE DEF ahead
<1>5. Present(g) = {k \in S : Cardinality(ahead[k]) < MaxEndpoints}
  BY <1>4 DEF Present, Bounded
<1>6. /\ Cardinality(Present(g)) <= MaxEndpoints
      /\ Present(g) = S \/ Cardinality(Present(g)) = MaxEndpoints
  BY <1>1, <1>3, <1>5, TheFirst
<1>7. g = [k \in Key |-> g[k]] /\ \A k \in Key : g[k] = f[k] \/ g[k] = Absent
  BY DEF Bounded
<1>8. IsHistory(g)
  BY <1>6, <1>7 DEF IsHistory, Records
<1>9. ASSUME NEW k \in Present(g), NEW q \in Ahead(f, k) PROVE q \in Present(g)
  <2>1. k \in S /\ q \in ahead[k] /\ q \in S /\ Cardinality(ahead[k]) < MaxEndpoints
    BY <1>2, <1>4, <1>5
  <2>2. /\ Cardinality(ahead[q]) < Cardinality(ahead[k])
        /\ Cardinality(ahead[q]) \in Nat /\ Cardinality(ahead[k]) \in Nat
    BY <1>3, <2>1, FewerAreAhead
  <2> QED BY <1>1, <1>5, <2>1, <2>2
<1> QED BY <1>5, <1>6, <1>7, <1>8, <1>9

Stays(g, sight) ==
  sight \subseteq Present(g) \/ (Present(g) \subseteq sight /\ Cardinality(Present(g)) = MaxEndpoints)

(* A file whose marks are of one look, and one of times that are over.     *)
Marked(g, sight) == \A k \in Present(g) : g[k].current <=> k \in sight
Past(f, t) == \A k \in Present(f) : f[k].last < t /\ \A x \in f[k].samples : x < t

LEMMA MergeTells ==
  ASSUME NetworkAssumption, NEW f, Records(f), NEW sight \in SUBSET Key, NEW t \in Nat, NEW g,
         g = Merge(f, sight, t)
  PROVE  /\ IsHistory(g) /\ Marked(g, sight) /\ Follows(f, g, t)
         /\ Past(f, t) => Past(g, t + 1) /\ Stays(g, sight)
<1>0. PICK r : r = Recent(f, t)
  OBVIOUS
<1>1. Records(r) /\ \A k \in Key : r[k] = f[k] \/ r[k] = Absent
  BY <1>0, RecentIs
<1>3. PICK u : u = Updated(r, sight, t) /\ g = Bounded(u)
  BY <1>0 DEF Merge
<1>2. /\ Records(u)
      /\ \A k \in Key : k \in sight => k \in Present(u) /\ u[k].last = t
      /\ \A k \in Present(u) : u[k].current <=> k \in sight
      /\ \A k \in Present(u) : k \notin sight => k \in Present(r) /\ u[k].last = r[k].last
      /\ Follows(r, u, t)
  <2>1. Records(u) /\ Sees(r, u, sight, t) /\ Follows(r, u, t)
    BY <1>1, <1>3, UpdatedIs
  <2> QED BY <2>1 DEF Sees
<1>4. /\ IsHistory(g) /\ Present(g) \subseteq Present(u)
      /\ \A k \in Key : g[k] = u[k] \/ g[k] = Absent
      /\ Present(g) = Present(u) \/ Cardinality(Present(g)) = MaxEndpoints
      /\ \A k \in Present(g) : Ahead(u, k) \subseteq Present(g)
  BY <1>2, <1>3, BoundedIs
<1>5. \A k \in Present(g) : k \in Key /\ g[k] = u[k] /\ k \in Present(u)
  BY <1>4 DEF Present
<1>6. \A k \in Present(r) : k \in Present(f) /\ r[k] = f[k]
  BY <1>1 DEF Present
<1>7. Marked(g, sight)
  BY <1>2, <1>5 DEF Marked
<1>8. \A k \in Present(g) : g[k].last = t \/ (k \in Present(f) /\ g[k].last = f[k].last)
  BY <1>2, <1>5, <1>6
<1>9. Follows(f, g, t)
  <2> SUFFICES ASSUME NEW k \in Key
               PROVE  /\ g[k].samples \subseteq f[k].samples \cup {t}
                      /\ k \in Present(g) => \/ k \in Present(f) /\ g[k].first = f[k].first
                                             \/ g[k].first = t /\ g[k].samples = {t}
    BY DEF Follows
  <2>1. g[k].samples \subseteq u[k].samples
    BY <1>4, AbsentIsNoRecord
  <2>2. u[k].samples \subseteq r[k].samples \cup {t}
    BY <1>2 DEF Follows
  <2>3. r[k].samples \subseteq f[k].samples
    BY <1>1, AbsentIsNoRecord
  <2>4. k \in Present(u) => \/ k \in Present(r) /\ u[k].first = r[k].first
                            \/ u[k].first = t /\ u[k].samples = {t}
    BY <1>2 DEF Follows
  <2> QED BY <1>5, <1>6, <2>1, <2>2, <2>3, <2>4
<1>10. ASSUME Past(f, t) PROVE Stays(g, sight)
  <2>1. CASE Present(g) = Present(u) \/ sight \subseteq Present(g)
    BY <1>2, <2>1 DEF Stays
  <2>2. CASE Present(g) # Present(u) /\ ~(sight \subseteq Present(g))
    <3>1. PICK z \in sight : z \notin Present(g)
      BY <2>2
    <3>2. ASSUME NEW q \in Present(g), q \notin sight PROVE FALSE
      <4>1. u[q].last < t /\ u[z].last = t /\ z \in Present(u)
        BY <1>2, <1>5, <1>6, <1>10, <3>1, <3>2 DEF Past
      <4>2. u[q].last \in Nat
        BY <1>2, <1>5, <3>2, AbsentIsNoRecord DEF Records, IsRecord, Endpoint, Present
      <4>3. z \in Ahead(u, q)
        BY <4>1, <4>2 DEF Ahead, Before
      <4> QED BY <1>4, <3>1, <4>3
    <3> QED BY <1>4, <2>2, <3>2 DEF Stays
  <2> QED BY <2>1, <2>2
<1>11. ASSUME Past(f, t) PROVE Past(g, t + 1)
  <2> SUFFICES ASSUME NEW k \in Present(g)
               PROVE  g[k].last < t + 1 /\ \A x \in g[k].samples : x < t + 1
    BY DEF Past
  <2>1. IsRecord(g[k]) /\ k \in Key
    BY <1>4, Zenon DEF IsHistory, Records, Present
  <2>2. g[k].last \in Nat /\ g[k].samples \in SUBSET Nat
    BY <2>1 DEF IsRecord, Endpoint
  <2>3. g[k].last = t \/ g[k].last < t
    BY <1>8, <1>11 DEF Past
  <2>4. ASSUME NEW x \in g[k].samples PROVE x < t + 1
    <3>1. x = t \/ x \in f[k].samples
      BY <1>9, <2>1, <2>4 DEF Follows
    <3>2. CASE x \in f[k].samples
      <4>1. k \in Present(f)
        BY <2>1, <3>2, AbsentIsNoRecord DEF Present
      <4>2. x < t /\ x \in Nat
        BY <1>11, <2>2, <2>4, <3>2, <4>1 DEF Past
      <4> QED BY <4>2
    <3> QED BY <3>1, <3>2
  <2> QED BY <2>2, <2>3, <2>4
<1> QED BY <1>4, <1>7, <1>9, <1>10, <1>11

LEMMA NothingIsFollowed ==
  ASSUME NEW f, NEW g, NEW t, Records(g), Follows(Nothing, g, t) PROVE Follows(f, g, t)
<1>1. \A k \in Key : Nothing[k].samples = {} /\ k \notin Present(Nothing)
  BY AbsentIsNoRecord DEF Nothing, Present
<1>2. ASSUME NEW k \in Key
      PROVE  /\ g[k].samples \subseteq f[k].samples \cup {t}
             /\ k \in Present(g) => \/ k \in Present(f) /\ g[k].first = f[k].first
                                    \/ g[k].first = t /\ g[k].samples = {t}
  BY <1>1 DEF Follows
<1> QED BY <1>2 DEF Follows

LEMMA PastStays ==
  ASSUME NEW f, Records(f), NEW t \in Nat, NEW u \in Nat, t <= u, Past(f, t) PROVE Past(f, u)
<1> SUFFICES ASSUME NEW k \in Present(f)
             PROVE  f[k].last < u /\ \A x \in f[k].samples : x < u
  BY DEF Past
<1>1. f[k].last \in Nat /\ f[k].samples \in SUBSET Nat
  BY DEF IsRecord, Endpoint, Records, Present
<1>2. f[k].last < t /\ \A x \in f[k].samples : x < t
  BY DEF Past
<1> QED BY <1>1, <1>2

(* What is left of a file when the records of a run are taken out.         *)
LEMMA ClearedIs ==
  ASSUME NetworkAssumption, NEW f, IsHistory(f), NEW a, NEW g, g = Cleared(f, a)
  PROVE  /\ IsHistory(g) /\ OfAgent(g, a) = {}
         /\ \A k \in Present(g) : k \in Present(f) /\ g[k] = f[k]
         /\ \A b \in Agent : b # a => OfAgent(g, b) = OfAgent(f, b)
         /\ \A t \in Nat : Past(f, t) => Past(g, t)
<1>1. \A k \in Key : g[k] = (IF AgentOf[k] = a THEN Absent ELSE f[k])
  BY DEF Cleared
<1>2. g = [k \in Key |-> g[k]]
  BY DEF Cleared
<1>3. Records(g)
  BY <1>1, <1>2 DEF IsHistory, Records
<1>4. \A k \in Present(g) : k \in Present(f) /\ g[k] = f[k]
  BY <1>1 DEF Present
<1>5. IsFiniteSet(Present(f)) /\ Present(g) \subseteq Present(f)
  BY <1>4, FS_Subset DEF Present, NetworkAssumption
<1>6. Cardinality(Present(g)) <= MaxEndpoints
  <2>1. /\ Cardinality(Present(g)) <= Cardinality(Present(f))
        /\ IsFiniteSet(Present(g))
    BY <1>5, FS_Subset
  <2>2. /\ Cardinality(Present(g)) \in Nat /\ Cardinality(Present(f)) \in Nat
        /\ Cardinality(Present(f)) <= MaxEndpoints /\ MaxEndpoints \in Nat
    BY <1>5, <2>1, FS_CardinalityType DEF IsHistory, NetworkAssumption
  <2> QED BY <2>1, <2>2
<1>7. OfAgent(g, a) = {} /\ \A b \in Agent : b # a => OfAgent(g, b) = OfAgent(f, b)
  BY <1>1 DEF OfAgent, Present
<1>8. \A t \in Nat : Past(f, t) => Past(g, t)
  BY <1>4 DEF Past
<1> QED BY <1>3, <1>4, <1>6, <1>7, <1>8 DEF IsHistory
(* The samples of a run.                                                   *)
LEMMA SamplesAre ==
  ASSUME NetworkAssumption, NEW f, Records(f), NEW a
  PROVE  /\ Samples(f, a) \in SUBSET Nat /\ IsFiniteSet(Samples(f, a))
         /\ Cardinality(Samples(f, a)) \in Nat
<1> DEFINE S == {f[k].samples : k \in OfAgent(f, a)}
           h == [k \in OfAgent(f, a) |-> f[k].samples]
<1>1. \A k \in OfAgent(f, a) : f[k].samples \in SUBSET Nat /\ IsFiniteSet(f[k].samples)
  BY DEF OfAgent, Present, Records, IsRecord, Endpoint
<1>2. IsFiniteSet(OfAgent(f, a))
  BY FS_Subset DEF OfAgent, Present, NetworkAssumption
<1>3. h \in Surjection(OfAgent(f, a), S)
  BY DEF Surjection
<1>4. IsFiniteSet(S)
  BY <1>2, <1>3, FS_Surjection
<1>5. \A T \in S : IsFiniteSet(T) /\ T \in SUBSET Nat
  BY <1>1
<1> HIDE DEF S
<1>6. IsFiniteSet(UNION S)
  BY <1>4, <1>5, FS_UNION
<1>7. UNION S \in SUBSET Nat
  BY <1>5
<1>8. Samples(f, a) = UNION S
  BY DEF Samples, S
<1> QED BY <1>6, <1>7, <1>8, FS_CardinalityType

(* A sweep that takes no sample away leaves a ready baseline as it is.     *)
LEMMA BaselineKept ==
  ASSUME NetworkAssumption, NEW f, Records(f), NEW g, Records(g), NEW t \in Nat,
         Past(f, t), Follows(f, g, t), \A k \in Key : f[k].samples \subseteq g[k].samples,
         NEW a, WarmedUp(f, a)
  PROVE  WarmedUp(g, a) /\ KnownTo(g, a) = KnownTo(f, a)
<1> DEFINE S == Samples(f, a)  T == Samples(g, a)
<1>1. /\ S \in SUBSET Nat /\ IsFiniteSet(S) /\ Cardinality(S) \in Nat
      /\ T \in SUBSET Nat /\ IsFiniteSet(T) /\ Cardinality(T) \in Nat
  BY SamplesAre
<1>2. ASSUME NEW k \in OfAgent(f, a)
      PROVE  /\ k \in OfAgent(g, a) /\ g[k].first = f[k].first /\ f[k].first \in Nat
             /\ f[k].samples \subseteq g[k].samples
  <2>1. k \in Key /\ k \in Present(f) /\ AgentOf[k] = a /\ IsRecord(f[k])
    BY Zenon DEF OfAgent, Present, Records
  <2>2. PICK x : x \in f[k].samples /\ x \in g[k].samples /\ x \in Nat /\ x < t
    BY <2>1 DEF Past, IsRecord, Endpoint
  <2>3. k \in Present(g)
    BY <2>1, <2>2, AbsentIsNoRecord DEF Present
  <2>4. g[k].samples # {t}
    BY <2>2
  <2>5. g[k].first = f[k].first
    BY <2>1, <2>3, <2>4 DEF Follows
  <2>6. f[k].first \in Nat
    BY <2>1 DEF IsRecord, Endpoint
  <2> QED BY <2>1, <2>3, <2>5, <2>6 DEF OfAgent
<1>3. ASSUME NEW k \in OfAgent(g, a)
      PROVE  /\ g[k].samples \subseteq f[k].samples \cup {t}
             /\ k \in OfAgent(f, a) \/ g[k].first = t
  <2>1. k \in Key /\ k \in Present(g) /\ AgentOf[k] = a
    BY DEF OfAgent, Present
  <2> QED BY <2>1 DEF Follows, OfAgent
<1>4. S \subseteq T
  BY <1>2 DEF Samples
<1>5. ASSUME NEW x \in T PROVE x = t \/ x \in S
  <2>1. PICK k \in OfAgent(g, a) : x \in g[k].samples
    BY DEF Samples
  <2>2. x = t \/ x \in f[k].samples
    BY <1>3, <2>1
  <2>3. ASSUME x \in f[k].samples PROVE x \in S
    <3>1. k \in Key /\ AgentOf[k] = a
      BY DEF OfAgent, Present
    <3>2. k \in OfAgent(f, a)
      BY <2>3, <3>1, AbsentIsNoRecord DEF OfAgent, Present
    <3> QED BY <2>3, <3>2 DEF Samples
  <2> QED BY <2>2, <2>3
<1>6. \A x \in S : x < t
  <2> SUFFICES ASSUME NEW x \in S PROVE x < t
    OBVIOUS
  <2>1. PICK k \in OfAgent(f, a) : x \in f[k].samples
    BY DEF Samples
  <2> QED BY <2>1 DEF Past, OfAgent
<1>7. Warmup \in Nat \ {0} /\ Warmup <= Cardinality(S)
  BY <1>1 DEF NetworkAssumption, WarmedUp
<1>8. Cardinality(S) <= Cardinality(T)
  BY <1>1, <1>4, FS_Subset
<1>9. Warmup <= Cardinality(T)
  BY <1>1, <1>7, <1>8
<1>10. WarmedUp(g, a)
  BY <1>1, <1>7, <1>9 DEF WarmedUp
<1>11. PICK x : x = ReadyAt(f, a)
  OBVIOUS
<1> HIDE DEF S, T
<1>12. x \in S /\ Cardinality(Earlier(S, x)) = Warmup - 1
  <2>1. Nth(S, Warmup) \in S /\ \A y \in S : Cardinality(Earlier(S, y)) = Warmup - 1 <=> y = Nth(S, Warmup)
    BY <1>1, <1>7, NthIsOne
  <2> QED BY <1>11, <2>1 DEF ReadyAt, S
<1>13. x \in T /\ Earlier(T, x) = Earlier(S, x)
  <2>1. x \in T /\ x \in Nat /\ x < t
    BY <1>1, <1>4, <1>6, <1>12
  <2>2. \A y \in T : y < x => y \in S
    BY <1>1, <1>5, <1>6, <2>1
  <2>3. \A y : y \in Earlier(T, x) <=> y \in Earlier(S, x)
    BY <1>4, <2>2 DEF Earlier
  <2> QED BY <2>1, <2>3
<1>14. x = ReadyAt(g, a)
  <2>1. Nth(T, Warmup) \in T /\ \A y \in T : Cardinality(Earlier(T, y)) = Warmup - 1 <=> y = Nth(T, Warmup)
    BY <1>1, <1>7, <1>9, NthIsOne
  <2> QED BY <1>12, <1>13, <2>1 DEF ReadyAt, T
<1>15. x \in Nat /\ x < t
  BY <1>1, <1>6, <1>12
<1>16. KnownTo(f, a) = {k \in OfAgent(f, a) : f[k].first <= x}
  BY <1>11 DEF KnownTo
<1>17. KnownTo(g, a) = {k \in OfAgent(g, a) : g[k].first <= x}
  BY <1>10, <1>14 DEF KnownTo
<1>18. ASSUME NEW k \in OfAgent(g, a), g[k].first <= x PROVE k \in OfAgent(f, a) /\ f[k].first <= x
  BY <1>2, <1>3, <1>15, <1>18
<1>19. ASSUME NEW k \in OfAgent(f, a), f[k].first <= x PROVE k \in OfAgent(g, a) /\ g[k].first <= x
  BY <1>2, <1>19
<1>20. KnownTo(g, a) = KnownTo(f, a)
  BY <1>16, <1>17, <1>18, <1>19
<1> QED BY <1>10, <1>20

(* Fewer samples do not warm a baseline up.                                *)
LEMMA ColdBefore ==
  ASSUME NetworkAssumption, NEW f, Records(f), NEW g, Records(g),
         \A k \in Key : f[k].samples \subseteq g[k].samples, NEW a, WarmedUp(f, a)
  PROVE  WarmedUp(g, a)
<1>1. /\ IsFiniteSet(Samples(f, a)) /\ Cardinality(Samples(f, a)) \in Nat
      /\ IsFiniteSet(Samples(g, a)) /\ Cardinality(Samples(g, a)) \in Nat
  BY SamplesAre
<1>2. Samples(f, a) \subseteq Samples(g, a)
  <2> SUFFICES ASSUME NEW k \in OfAgent(f, a), NEW x \in f[k].samples PROVE x \in Samples(g, a)
    BY DEF Samples
  <2>1. k \in Key /\ AgentOf[k] = a /\ x \in g[k].samples
    BY DEF OfAgent, Present
  <2>2. k \in OfAgent(g, a)
    BY <2>1, AbsentIsNoRecord DEF OfAgent, Present
  <2> QED BY <2>1, <2>2 DEF Samples
<1>3. Cardinality(Samples(f, a)) <= Cardinality(Samples(g, a))
  BY <1>1, <1>2, FS_Subset
<1> QED BY <1>1, <1>3 DEF WarmedUp, NetworkAssumption

(* What a run's baseline held when it became ready is what it holds.       *)
FrozenFits(f, known) ==
  \A a \in Agent : /\ WarmedUp(f, a) => known[a] = KnownTo(f, a)
                   /\ ~WarmedUp(f, a) => known[a] = NotReady

LEMMA WarmIsThere ==
  ASSUME NetworkAssumption, NEW f, NEW a, OfAgent(f, a) = {} PROVE ~WarmedUp(f, a)
<1>1. Samples(f, a) = {}
  BY DEF Samples
<1> QED BY <1>1, FS_EmptySet DEF WarmedUp, NetworkAssumption

LEMMA KnownIsReady ==
  ASSUME NetworkAssumption, NEW f, NEW a PROVE KnownTo(f, a) # NotReady
<1>1. \A k \in KnownTo(f, a) : k \in Nat
  BY DEF KnownTo, OfAgent, Present, NetworkAssumption
<1>2. NoTime \in NotReady /\ ~(NoTime \in Nat)
  BY DEF NotReady, NoTime
<1> QED BY <1>1, <1>2

LEMMA SweepKeepsFrozen ==
  ASSUME NetworkAssumption, NEW f, Records(f), NEW g, Records(g), NEW t \in Nat,
         Past(f, t), Follows(f, g, t), \A k \in Key : f[k].samples \subseteq g[k].samples,
         FrozenFits(f, frozen), NEW known, known = Frozen(g)
  PROVE  FrozenFits(g, known)
<1> SUFFICES ASSUME NEW a \in Agent
             PROVE  /\ WarmedUp(g, a) => known[a] = KnownTo(g, a)
                    /\ ~WarmedUp(g, a) => known[a] = NotReady
  BY DEF FrozenFits
<1>1. known[a] = (IF OfAgent(g, a) = {} THEN NotReady
                 ELSE IF frozen[a] = NotReady /\ WarmedUp(g, a) THEN KnownTo(g, a) ELSE frozen[a])
  BY DEF Frozen
<1>2. /\ WarmedUp(f, a) => frozen[a] = KnownTo(f, a)
      /\ ~WarmedUp(f, a) => frozen[a] = NotReady
  BY DEF FrozenFits
<1>3. OfAgent(g, a) = {} => ~WarmedUp(g, a)
  BY WarmIsThere
<1>4. CASE WarmedUp(f, a)
  <2>1. WarmedUp(g, a) /\ KnownTo(g, a) = KnownTo(f, a)
    BY <1>4, BaselineKept
  <2>2. KnownTo(f, a) # NotReady
    BY KnownIsReady
  <2> QED BY <1>1, <1>2, <1>3, <1>4, <2>1, <2>2
<1>5. CASE ~WarmedUp(f, a)
  BY <1>1, <1>2, <1>3, <1>5
<1> QED BY <1>4, <1>5

LEMMA ResetKeepsFrozen ==
  ASSUME NetworkAssumption, NEW f, IsHistory(f), NEW b \in Agent, NEW g, g = Cleared(f, b),
         FrozenFits(f, frozen), NEW known, known = Frozen(g)
  PROVE  FrozenFits(g, known)
<1> SUFFICES ASSUME NEW a \in Agent
             PROVE  /\ WarmedUp(g, a) => known[a] = KnownTo(g, a)
                    /\ ~WarmedUp(g, a) => known[a] = NotReady
  BY DEF FrozenFits
<1>1. known[a] = (IF OfAgent(g, a) = {} THEN NotReady
                 ELSE IF frozen[a] = NotReady /\ WarmedUp(g, a) THEN KnownTo(g, a) ELSE frozen[a])
  BY DEF Frozen
<1>2. /\ WarmedUp(f, a) => frozen[a] = KnownTo(f, a)
      /\ ~WarmedUp(f, a) => frozen[a] = NotReady
  BY DEF FrozenFits
<1>3. OfAgent(g, a) = {} => ~WarmedUp(g, a)
  BY WarmIsThere
<1>4. CASE a = b
  <2>1. OfAgent(g, a) = {}
    BY <1>4, ClearedIs
  <2> QED BY <1>1, <1>3, <2>1
<1>5. CASE a # b
  <2>1. /\ OfAgent(g, a) = OfAgent(f, a)
        /\ \A k \in Present(g) : k \in Present(f) /\ g[k] = f[k]
    BY <1>5, ClearedIs
  <2>2. \A k \in OfAgent(f, a) : g[k] = f[k]
    BY <2>1 DEF OfAgent
  <2>3. Samples(g, a) = Samples(f, a)
    BY <2>1, <2>2 DEF Samples
  <2>4. (WarmedUp(g, a) <=> WarmedUp(f, a)) /\ ReadyAt(g, a) = ReadyAt(f, a)
    BY <2>3 DEF WarmedUp, ReadyAt
  <2>5. KnownTo(g, a) = KnownTo(f, a)
    BY <2>1, <2>2, <2>4 DEF KnownTo
  <2> QED BY <1>1, <1>2, <1>3, <2>4, <2>5
<1> QED BY <1>4, <1>5

-----------------------------------------------------------------------------
(* What a surface is about to write: a file, with the marks of its look if *)
(* it is a sweep's; while the clock is not set back, one of times that are *)
(* over; and if no other surface writes, one that follows on the file.     *)
Drafted(d, f, at, backs) ==
  /\ d.kind \in {"none", "sweep", "reset"} /\ (d.kind = "none" => d = NoDraft)
  /\ IsHistory(d.records)
  /\ d.kind = "sweep" => Marked(d.records, d.look)
  /\ backs = 0 => Past(d.records, at) /\ (d.kind = "sweep" => Stays(d.records, d.look))
  /\ OneSurface =>
       /\ d.kind = "reset" => \E a \in Agent : d.records = Cleared(f, a)
       /\ d.kind = "sweep" /\ backs = 0 => \E t \in Nat : Past(f, t) /\ Follows(f, d.records, t)

NetworkInv ==
  /\ scannedAt \in Nat /\ networkBacks \in Nat /\ IsHistory(network)
  /\ draft = [s \in Surface |-> draft[s]] /\ frozen = [a \in Agent |-> frozen[a]]
  /\ \A s \in Surface : Drafted(draft[s], network, scannedAt, networkBacks)
  /\ networkBacks = 0 => Past(network, scannedAt) /\ Stays(network, latest)
  /\ OneSurface => PresentIsLatestLook
  /\ OneSurface /\ networkBacks = 0 /\ ~lost => FrozenFits(network, frozen)

LEMMA NoDraftIsDrafted ==
  ASSUME NetworkAssumption, NEW f, NEW at, NEW backs PROVE Drafted(NoDraft, f, at, backs)
<1>1. NoDraft.kind = "none" /\ NoDraft.records = Nothing
  BY DEF NoDraft
<1>2. IsHistory(Nothing) /\ Past(Nothing, at)
  BY NothingIsHistory DEF Past
<1> QED BY <1>1, <1>2 DEF Drafted

LEMMA DraftStays ==
  ASSUME NEW d, NEW f, NEW at \in Nat, NEW later \in Nat, NEW backs, NEW more,
         Drafted(d, f, at, backs), more = 0 => backs = 0 /\ at <= later
  PROVE  Drafted(d, f, later, more)
<1>1. ASSUME more = 0 PROVE Past(d.records, later)
  <2>1. PICK g : g = d.records
    OBVIOUS
  <2>2. Records(g) /\ Past(g, at) /\ at <= later
    BY <1>1, <2>1 DEF Drafted, IsHistory
  <2> QED BY <2>1, <2>2, PastStays
<1> QED BY <1>1 DEF Drafted

LEMMA NetworkInitFits ==
  ASSUME NetworkAssumption, NetworkInit PROVE NetworkInv
<1>1. IsHistory(network) /\ Present(network) = {} /\ Past(network, scannedAt)
  BY NothingIsHistory DEF NetworkInit, Past
<1>2. Stays(network, latest) /\ PresentIsLatestLook
  BY <1>1 DEF NetworkInit, Stays, PresentIsLatestLook
<1>3. \A s \in Surface : Drafted(draft[s], network, scannedAt, networkBacks)
  BY NoDraftIsDrafted DEF NetworkInit
<1>4. FrozenFits(network, frozen)
  <2> SUFFICES ASSUME NEW a \in Agent PROVE ~WarmedUp(network, a) /\ frozen[a] = NotReady
    BY DEF FrozenFits
  <2>1. OfAgent(network, a) = {}
    BY <1>1 DEF OfAgent
  <2> QED BY <2>1, WarmIsThere DEF NetworkInit
<1> QED BY <1>1, <1>2, <1>3, <1>4 DEF NetworkInv, NetworkInit

(* One draft is made, put down or written; the other surfaces keep theirs. *)
LEMMA SweepFits ==
  ASSUME NetworkAssumption, NetworkInv, NEW s \in Surface, Sweep(s) PROVE NetworkInv'
<1>1. PICK sight \in SUBSET Key, previous \in {network, Nothing} :
        draft' = [draft EXCEPT ![s] =
          [kind |-> "sweep", records |-> Merge(previous, sight, scannedAt), look |-> sight]]
  BY DEF Sweep
<1>2. PICK d : d = [kind |-> "sweep", records |-> Merge(previous, sight, scannedAt), look |-> sight]
  OBVIOUS
<1>3. PICK g : g = Merge(previous, sight, scannedAt)
  OBVIOUS
<1>4. d.kind = "sweep" /\ d.records = g /\ d.look = sight
  BY <1>2, <1>3
<1>5. /\ draft' = [draft EXCEPT ![s] = d] /\ scannedAt' = scannedAt + 1
      /\ UNCHANGED <<networkBacks, network, latest, frozen, lost>>
  BY <1>1, <1>2 DEF Sweep
<1>6. /\ Records(previous) /\ scannedAt \in Nat
      /\ networkBacks = 0 => Past(previous, scannedAt) /\ Past(network, scannedAt)
  BY NothingIsHistory DEF NetworkInv, IsHistory, Past
<1>7. /\ IsHistory(g) /\ Marked(g, sight) /\ Follows(previous, g, scannedAt)
      /\ Past(previous, scannedAt) => Past(g, scannedAt + 1) /\ Stays(g, sight)
  BY <1>3, <1>6, MergeTells
<1>8. Follows(network, g, scannedAt)
  BY <1>1, <1>7, NothingIsFollowed DEF IsHistory
<1>9. Drafted(d, network, scannedAt + 1, networkBacks)
  BY <1>4, <1>6, <1>7, <1>8 DEF Drafted
<1>10. ASSUME NEW q \in Surface PROVE Drafted(draft'[q], network, scannedAt + 1, networkBacks)
  <2>1. CASE q = s
    BY <1>5, <1>9, <2>1 DEF NetworkInv
  <2>2. CASE q # s
    <3>1. PICK e : e = draft[q]
      OBVIOUS
    <3>2. draft'[q] = e
      BY <1>5, <2>2, <3>1 DEF NetworkInv
    <3>3. Drafted(e, network, scannedAt, networkBacks)
      BY <3>1 DEF NetworkInv
    <3> QED BY <1>6, <3>2, <3>3, DraftStays
  <2> QED BY <2>1, <2>2
<1>11. networkBacks = 0 => Past(network, scannedAt + 1)
  BY <1>6, PastStays DEF NetworkInv, IsHistory
<1>12. draft' = [q \in Surface |-> draft'[q]]
  BY <1>5 DEF NetworkInv
<1> QED BY <1>5, <1>6, <1>10, <1>11, <1>12 DEF NetworkInv, PresentIsLatestLook, OneSurface, FrozenFits

LEMMA ResetFits ==
  ASSUME NetworkAssumption, NetworkInv, NEW s \in Surface, Reset(s) PROVE NetworkInv'
<1>1. PICK a \in Agent :
        draft' = [draft EXCEPT ![s] =
          [kind |-> "reset", records |-> Cleared(network, a), look |-> {}]]
  BY DEF Reset
<1>2. PICK d : d = [kind |-> "reset", records |-> Cleared(network, a), look |-> {}]
  OBVIOUS
<1>3. PICK g : g = Cleared(network, a)
  OBVIOUS
<1>4. d.kind = "reset" /\ d.records = g
  BY <1>2, <1>3
<1>5. draft' = [draft EXCEPT ![s] = d] /\ UNCHANGED <<scannedAt, networkBacks, network, latest, frozen, lost>>
  BY <1>1, <1>2 DEF Reset
<1>6. IsHistory(g) /\ \A t \in Nat : Past(network, t) => Past(g, t)
  BY <1>3, ClearedIs DEF NetworkInv
<1>7. Drafted(d, network, scannedAt, networkBacks)
  BY <1>3, <1>4, <1>6 DEF Drafted, NetworkInv
<1>8. \A q \in Surface : Drafted(draft'[q], network, scannedAt, networkBacks)
  BY <1>5, <1>7 DEF NetworkInv
<1>9. draft' = [q \in Surface |-> draft'[q]]
  BY <1>5 DEF NetworkInv
<1> QED BY <1>5, <1>8, <1>9 DEF NetworkInv, PresentIsLatestLook, OneSurface, FrozenFits

LEMMA PutDownFits ==
  ASSUME NetworkAssumption, NetworkInv, NEW s \in Surface, Unwritten(s) PROVE NetworkInv'
<1>1. /\ draft' = [draft EXCEPT ![s] = NoDraft]
      /\ UNCHANGED <<scannedAt, networkBacks, network, latest, frozen, lost>>
  BY DEF Unwritten
<1>2. \A q \in Surface : Drafted(draft'[q], network, scannedAt, networkBacks)
  BY <1>1, NoDraftIsDrafted DEF NetworkInv
<1>3. draft' = [q \in Surface |-> draft'[q]]
  BY <1>1 DEF NetworkInv
<1> QED BY <1>1, <1>2, <1>3 DEF NetworkInv, PresentIsLatestLook, OneSurface, FrozenFits

(* Marks are of the look that is saved, or of the latest one still.        *)
LEMMA MarksAreOfLook ==
  ASSUME NEW g, NEW sight, Marked(g, sight)
  PROVE  {k \in Present(g) : g[k].current} = Present(g) \cap sight
BY DEF Marked

LEMMA WriteFits ==
  ASSUME NetworkAssumption, NetworkInv, NEW s \in Surface, Write(s) PROVE NetworkInv'
<1>1. PICK d : d = draft[s]
  OBVIOUS
<1>2. PICK g : g = d.records
  OBVIOUS
<1>3. /\ network' = g /\ frozen' = Frozen(g) /\ draft' = [draft EXCEPT ![s] = NoDraft]
      /\ d.kind = "sweep" => /\ latest' = d.look
                            /\ lost' = (lost \/ \E k \in Key : ~(network[k].samples \subseteq g[k].samples))
      /\ d.kind # "sweep" => latest' = latest \cap Present(g) /\ lost' = lost
      /\ UNCHANGED <<scannedAt, networkBacks>> /\ d # NoDraft
  BY <1>1, <1>2 DEF Write
<1>4. /\ Drafted(d, network, scannedAt, networkBacks) /\ scannedAt \in Nat
      /\ d.kind = "sweep" \/ d.kind = "reset"
  BY <1>1, <1>3 DEF NetworkInv, Drafted
<1>5. IsHistory(g) /\ (networkBacks = 0 => Past(g, scannedAt))
  BY <1>2, <1>4 DEF Drafted
<1>6. ASSUME networkBacks = 0 PROVE Stays(g, latest')
  <2>1. CASE d.kind = "sweep"
    BY <1>2, <1>3, <1>4, <1>6, <2>1 DEF Drafted
  <2>2. CASE d.kind # "sweep"
    BY <1>3, <2>2 DEF Stays
  <2> QED BY <2>1, <2>2
<1>7. ASSUME NEW q \in Surface PROVE Drafted(draft'[q], g, scannedAt, networkBacks)
  <2>1. CASE q = s
    BY <1>3, <2>1, NoDraftIsDrafted DEF NetworkInv
  <2>2. CASE q # s
    <3>1. PICK e : e = draft[q]
      OBVIOUS
    <3>2. draft'[q] = e /\ Drafted(e, network, scannedAt, networkBacks) /\ ~OneSurface
      BY <1>3, <2>2, <3>1 DEF NetworkInv, OneSurface
    <3> QED BY <3>2 DEF Drafted
  <2> QED BY <2>1, <2>2
<1>8. ASSUME OneSurface PROVE {k \in Present(g) : g[k].current} = Present(g) \cap latest'
  <2>1. CASE d.kind = "sweep"
    BY <1>2, <1>3, <1>4, <2>1, MarksAreOfLook DEF Drafted
  <2>2. CASE d.kind = "reset"
    <3>1. PICK a \in Agent : g = Cleared(network, a)
      BY <1>2, <1>4, <1>8, <2>2 DEF Drafted
    <3>2. \A k \in Present(g) : k \in Present(network) /\ g[k] = network[k]
      BY <3>1, ClearedIs DEF NetworkInv
    <3>3. \A k \in Present(network) : network[k].current <=> k \in latest
      BY <1>8 DEF NetworkInv, PresentIsLatestLook
    <3> QED BY <1>3, <2>2, <3>2, <3>3
  <2> QED BY <1>4, <2>1, <2>2
<1>9. ASSUME OneSurface, networkBacks = 0, ~lost' PROVE FrozenFits(g, frozen')
  <2>1. ~lost
    BY <1>3, <1>9
  <2>2. FrozenFits(network, frozen) /\ Records(network) /\ Records(g) /\ IsHistory(network)
    BY <1>5, <1>9, <2>1 DEF NetworkInv, IsHistory
  <2>3. CASE d.kind = "sweep"
    <3>1. PICK t \in Nat : Past(network, t) /\ Follows(network, g, t)
      BY <1>2, <1>4, <1>9, <2>3 DEF Drafted
    <3>2. \A k \in Key : network[k].samples \subseteq g[k].samples
      BY <1>3, <1>9, <2>3
    <3> QED BY <1>3, <2>2, <3>1, <3>2, SweepKeepsFrozen
  <2>4. CASE d.kind = "reset"
    <3>1. PICK a \in Agent : g = Cleared(network, a)
      BY <1>2, <1>4, <1>9, <2>4 DEF Drafted
    <3> QED BY <1>3, <2>2, <3>1, ResetKeepsFrozen
  <2> QED BY <1>4, <2>3, <2>4
<1>10. draft' = [q \in Surface |-> draft'[q]] /\ frozen' = [a \in Agent |-> frozen'[a]]
  BY <1>3 DEF NetworkInv, Frozen
<1>11. /\ IsHistory(network)'
       /\ networkBacks' = 0 => Past(network, scannedAt)' /\ Stays(network, latest)'
       /\ OneSurface => PresentIsLatestLook'
       /\ OneSurface /\ networkBacks' = 0 /\ ~lost' => FrozenFits(network, frozen)'
  BY <1>3, <1>5, <1>6, <1>8, <1>9
     DEF IsHistory, Records, Present, Past, Stays, PresentIsLatestLook, FrozenFits
<1>12. \A q \in Surface : Drafted(draft[q], network, scannedAt, networkBacks)'
  BY <1>3, <1>7
<1> QED BY <1>3, <1>4, <1>10, <1>11, <1>12 DEF NetworkInv, OneSurface

LEMMA ClockFits ==
  ASSUME NetworkAssumption, NetworkInv, TimePasses \/ NetworkBack PROVE NetworkInv'
<1>1. /\ UNCHANGED <<network, draft, latest, frozen, lost>>
      /\ scannedAt \in Nat /\ scannedAt' \in Nat /\ networkBacks' \in Nat
      /\ networkBacks' = 0 => networkBacks = 0 /\ scannedAt <= scannedAt'
  BY DEF NetworkInv, TimePasses, NetworkBack
<1>2. PICK at, more : at = scannedAt' /\ more = networkBacks'
  OBVIOUS
<1>3. ASSUME NEW q \in Surface PROVE Drafted(draft[q], network, at, more)
  <2>1. PICK e : e = draft[q]
    OBVIOUS
  <2>2. Drafted(e, network, scannedAt, networkBacks)
    BY <2>1 DEF NetworkInv
  <2> QED BY <1>1, <1>2, <2>1, <2>2, DraftStays
<1>4. more = 0 => Past(network, at)
  BY <1>1, <1>2, PastStays DEF NetworkInv, IsHistory
<1> QED BY <1>1, <1>2, <1>3, <1>4 DEF NetworkInv, PresentIsLatestLook, OneSurface, FrozenFits

LEMMA InvTells ==
  ASSUME NetworkAssumption, NetworkInv PROVE NetworkHolds
<1>1. /\ \A k \in Present(network) : IsRecord(network[k])
      /\ Cardinality(Present(network)) <= MaxEndpoints
  BY DEF NetworkInv, IsHistory, Records, Present
<1>2. NetworkFits /\ VisibilityIsParity
  BY <1>1 DEF NetworkFits, VisibilityIsParity, IsRecord
<1>3. networkBacks = 0 => SeenStay
  BY DEF NetworkInv, Stays, SeenStay
<1>4. ASSUME OneSurface, networkBacks = 0, ~lost PROVE BaselineFrozen
  <2> SUFFICES ASSUME NEW a \in Agent, State(network, a, scannedAt) = "ready"
               PROVE  KnownTo(network, a) = frozen[a]
    BY DEF BaselineFrozen
  <2>1. WarmedUp(network, a)
    BY DEF State
  <2> QED BY <1>4, <2>1 DEF NetworkInv, FrozenFits
<1> QED BY <1>2, <1>3, <1>4 DEF NetworkHolds, NetworkInv

(* topgent-core/src/network.rs, topgent-journal/src/journal.rs:883-900:    *)
(* whoever races, the file is within its bounds and counts each change; as *)
(* long as the clock is not set back the bound takes what was seen least   *)
(* recently; with one surface the marks are of the latest saved sweep, and *)
(* a ready baseline is what it was, until a sample goes.                   *)
THEOREM NetworkIsKept ==
  ASSUME NetworkAssumption PROVE NetworkSpec => []NetworkHolds
<1>1. NetworkInit => NetworkInv
  BY NetworkInitFits
<1>2. NetworkInv /\ [NetworkNext]_networkVars => NetworkInv'
  <2> SUFFICES ASSUME NetworkInv, [NetworkNext]_networkVars PROVE NetworkInv'
    OBVIOUS
  <2>1. ASSUME NEW s \in Surface, Sweep(s) PROVE NetworkInv'
    BY <2>1, SweepFits
  <2>2. ASSUME NEW s \in Surface, Reset(s) PROVE NetworkInv'
    BY <2>2, ResetFits
  <2>3. ASSUME NEW s \in Surface, Write(s) PROVE NetworkInv'
    BY <2>3, WriteFits
  <2>4. ASSUME NEW s \in Surface, Unwritten(s) PROVE NetworkInv'
    BY <2>4, PutDownFits
  <2>5. CASE TimePasses \/ NetworkBack
    BY <2>5, ClockFits
  <2>6. CASE UNCHANGED networkVars
    BY <2>6 DEF networkVars, NetworkInv, PresentIsLatestLook, OneSurface, FrozenFits
  <2> QED BY <2>1, <2>2, <2>3, <2>4, <2>5, <2>6 DEF NetworkNext, TimeIsUp
<1>3. NetworkInv => NetworkHolds
  BY InvTells
<1> QED BY <1>1, <1>2, <1>3, PTL DEF NetworkSpec
=============================================================================
