--------------------------- MODULE ResponseProofs ----------------------------
(***************************************************************************)
(* Theorems about Termination, for any surfaces, runs and bounds, about    *)
(* TreeKill, for any pids and any machine around the stop, about Desktop,  *)
(* for any agents and tasks, about ContainerStop, for any containers, and  *)
(* about ResponseLadder, for any paths and edits.                          *)
(***************************************************************************)
EXTENDS Termination, TreeKill, Desktop, ContainerStop, ResponseLadder, FiniteSetTheorems,
        SequenceTheorems, WellFoundedInduction, TLAPS

(***************************************************************************)
(* AnswersHold is not inductive: it needs that an approval in hand is of a *)
(* request that was approved, is in one hand, and was not used yet.        *)
(***************************************************************************)
InHand(s) == approved[s] = TRUE
Used(k) == stops[k].approved = TRUE

HandIsOfTarget ==
  \A s \in Surface :
    /\ pc[s] # "idle" => target[s] \in Run
    /\ InHand(s) => pc[s] \notin {"idle", "resolve"} /\ request[target[s]] = "approved"
OneHand == \A s, t \in Surface : InHand(s) /\ InHand(t) /\ target[s] = target[t] => s = t
UsedIsApproved == \A k \in DOMAIN stops : Used(k) => request[stops[k].run] = "approved"
UsedIsNotInHand ==
  \A s \in Surface, k \in DOMAIN stops : InHand(s) /\ Used(k) => stops[k].run # target[s]
UsedOnce ==
  \A j, k \in DOMAIN stops : Used(j) /\ Used(k) /\ stops[j].run = stops[k].run => j = k

AnswerInv == HandIsOfTarget /\ OneHand /\ UsedIsApproved /\ UsedIsNotInHand /\ UsedOnce

(***************************************************************************)
(* With one surface and room for a cooldown of every run, a stop is in the *)
(* file until it is a cooldown ago for every stop that is to come.         *)
(***************************************************************************)
Spaced(k, t) == t - stops[k].at >= COOLDOWN
Guarded(k, records) ==
  \E c \in records : c.run = stops[k].run /\ c.until >= stops[k].at + COOLDOWN
Due(s) == IF pc[s] \in {"load", "save", "execute"} THEN attemptedAt[s] ELSE now

OnePerRun(records) == \A c, d \in records : c.run = d.run => c = d
Mine(s) == [run |-> target[s], acquired |-> attemptedAt[s], until |-> attemptedAt[s] + COOLDOWN]

FileIsPerRun == OnePerRun(cooldowns)
LoadedIsPerRun ==
  \A s \in Surface : pc[s] = "save" =>
    OnePerRun(loaded[s]) /\ \A c \in loaded[s] : c.run # target[s]
AttemptIsPast == \A s \in Surface : attemptedAt[s] <= now
StopsAreGuarded ==
  \A s \in Surface, k \in DOMAIN stops :
    /\ Spaced(k, Due(s)) \/ Guarded(k, cooldowns)
    /\ pc[s] = "save" => Spaced(k, attemptedAt[s]) \/ Guarded(k, loaded[s])
NextIsSpaced ==
  \A s \in Surface, k \in DOMAIN stops :
    pc[s] \in {"save", "execute"} /\ stops[k].run = target[s] => Spaced(k, attemptedAt[s])
MineIsSaved == \A s \in Surface : pc[s] = "execute" => Mine(s) \in cooldowns

CooldownInv ==
  /\ FileIsPerRun /\ LoadedIsPerRun /\ AttemptIsPast
  /\ StopsAreGuarded /\ NextIsSpaced /\ MineIsSaved
-----------------------------------------------------------------------------
LEMMA NewestIsBounded ==
  ASSUME TerminationAssumption, NEW old \in SUBSET Cooldown, Cardinality(old) <= MaxRecords,
         IsFiniteSet(old), NEW mine \in Cooldown, NEW kept \in Newest(old \cup {mine}, mine)
  PROVE  kept \subseteq old \cup {mine} /\ IsFiniteSet(kept) /\ Cardinality(kept) <= MaxRecords
<1> DEFINE all == old \cup {mine}
<1>1. IsFiniteSet(all) /\ Cardinality(all) \in Nat /\ Cardinality(all) <= Cardinality(old) + 1
      /\ Cardinality(old) \in Nat
  <2>1. Cardinality(old) \in Nat
    BY FS_CardinalityType
  <2>2. IsFiniteSet(all)
    BY FS_AddElement
  <2>3. Cardinality(all) = IF mine \in old THEN Cardinality(old) ELSE Cardinality(old) + 1
    BY FS_AddElement
  <2> QED
    BY <2>1, <2>2, <2>3
<1>2. CASE Cardinality(all) <= MaxRecords
  BY <1>1, <1>2 DEF Newest
<1>3. CASE ~(Cardinality(all) <= MaxRecords)
  <2>1. PICK c \in First(all, mine) : kept = all \ {c}
    BY <1>3 DEF Newest
  <2>2. c \in all
    BY <2>1 DEF First
  <2>3. IsFiniteSet(all \ {c}) /\ Cardinality(all \ {c}) = Cardinality(all) - 1
    BY <1>1, <2>2, FS_RemoveElement
  <2> QED
    BY <1>1, <2>1, <2>3 DEF TerminationAssumption
<1> QED
  BY <1>2, <1>3
-----------------------------------------------------------------------------
(* TypeOK needs that the files hold finitely many records, and that what a *)
(* surface has loaded is no more than there may be.                        *)
FilesAreFinite ==
  /\ IsFiniteSet(cooldowns)
  /\ \A s \in Surface : IsFiniteSet(loaded[s]) /\ Cardinality(loaded[s]) <= MaxRecords
  /\ \A s \in Surface : pc[s] # "idle" => target[s] \in Run

TypeInv == TypeOK /\ FilesAreFinite

LEMMA ReturnKeepsTypes ==
  ASSUME TerminationAssumption, TypeInv, NEW s \in Surface, Return(s)
  PROVE  /\ pc' \in [Surface -> {"idle", "resolve", "stop", "load", "save", "execute"}]
         /\ target' \in [Surface -> Run \cup {NoRun}]
         /\ approved' \in [Surface -> BOOLEAN]
         /\ attemptedAt' \in [Surface -> 0..MaxTime]
         /\ loaded' \in [Surface -> SUBSET Cooldown]
         /\ \A t \in Surface : IsFiniteSet(loaded'[t]) /\ Cardinality(loaded'[t]) <= MaxRecords
         /\ \A t \in Surface : pc'[t] # "idle" => target'[t] \in Run
<1> USE DEF TypeInv, TypeOK, FilesAreFinite, TerminationAssumption, Return, Goto
<1>1. IsFiniteSet({}) /\ Cardinality({}) = 0
  BY FS_EmptySet
<1>2. \A t \in Surface : IsFiniteSet(loaded'[t]) /\ Cardinality(loaded'[t]) <= MaxRecords
  <2> SUFFICES ASSUME NEW t \in Surface
               PROVE  IsFiniteSet(loaded'[t]) /\ Cardinality(loaded'[t]) <= MaxRecords
    OBVIOUS
  <2>1. CASE t = s
    BY <1>1, <2>1
  <2>2. CASE t # s
    BY <2>2
  <2> QED
    BY <2>1, <2>2
<1> QED
  BY <1>2

LEMMA StepTypeInv ==
  ASSUME TerminationAssumption, TypeInv, [Next]_vars
  PROVE  TypeInv'
<1> USE DEF TypeInv, TypeOK, FilesAreFinite, TerminationAssumption, world, file
<1>1. ASSUME NEW s \in Surface, NEW r \in Run, StopByPid(s, r) PROVE TypeInv'
  BY <1>1 DEF StopByPid, Goto
<1>2. ASSUME NEW s \in Surface, NEW r \in Run, Approve(s, r) PROVE TypeInv'
  BY <1>2 DEF Approve, Goto
<1>3. ASSUME NEW s \in Surface, NEW r \in Run, Deny(s, r) PROVE TypeInv'
  BY <1>3 DEF Deny
<1>4. ASSUME NEW s \in Surface, Resolve(s) PROVE TypeInv'
  <2>1. CASE request[target[s]] = "pending"
    <3>1. target[s] \in Run
      BY <1>4 DEF Resolve
    <3>2. /\ request' = [request EXCEPT ![target[s]] = "approved"]
          /\ approved' = [approved EXCEPT ![s] = TRUE]
          /\ pc' = [pc EXCEPT ![s] = "stop"]
          /\ UNCHANGED <<target, attemptedAt, loaded, now, alive, crashes, cooldowns, stops>>
      BY <1>4, <2>1 DEF Resolve, Goto
    <3> QED
      BY <3>1, <3>2
  <2>2. CASE request[target[s]] # "pending"
    <3>1. Return(s) /\ UNCHANGED <<now, alive, crashes, request, cooldowns, stops>>
      BY <1>4, <2>2 DEF Resolve
    <3> QED
      BY <3>1, ReturnKeepsTypes
  <2> QED
    BY <2>1, <2>2
<1>5. ASSUME NEW s \in Surface, Identify(s) PROVE TypeInv'
  <2>1. CASE target[s] \in alive
    <3>1. /\ attemptedAt' = [attemptedAt EXCEPT ![s] = now]
          /\ pc' = [pc EXCEPT ![s] = "load"] /\ pc[s] = "stop"
          /\ UNCHANGED <<target, approved, loaded, now, alive, crashes, request, cooldowns, stops>>
      BY <1>5, <2>1 DEF Identify, Goto, Return
    <3> QED
      BY <3>1
  <2>2. CASE target[s] \notin alive
    <3>1. Return(s) /\ UNCHANGED <<now, alive, crashes, request, cooldowns, stops>>
      BY <1>5, <2>2 DEF Identify
    <3> QED
      BY <3>1, ReturnKeepsTypes
  <2> QED
    BY <2>1, <2>2
<1>6. ASSUME NEW s \in Surface, Load(s) PROVE TypeInv'
  <2> DEFINE open == Open(cooldowns, s)
  <2>1. open \in SUBSET cooldowns
    BY DEF Open
  <2>2. IsFiniteSet(open) /\ Cardinality(open) <= MaxRecords
    <3>1. Cardinality(open) \in Nat /\ Cardinality(cooldowns) \in Nat
          /\ Cardinality(open) <= Cardinality(cooldowns) /\ IsFiniteSet(open)
      BY <2>1, FS_Subset, FS_CardinalityType
    <3> QED
      BY <3>1
  <2>3. UNCHANGED <<now, alive, crashes, request, cooldowns, stops>>
    BY <1>6 DEF Load
  <2>4. CASE \E c \in open : c.run = target[s]
    <3>1. Return(s)
      BY <1>6, <2>4 DEF Load
    <3> QED
      BY <2>3, <3>1, ReturnKeepsTypes
  <2>5. CASE \A c \in open : c.run # target[s]
    <3>1. /\ loaded' = [loaded EXCEPT ![s] = open]
          /\ pc' = [pc EXCEPT ![s] = "save"]
          /\ UNCHANGED <<target, approved, attemptedAt>>
      BY <1>6, <2>5 DEF Load, Goto
    <3>2. \A t \in Surface : IsFiniteSet(loaded'[t]) /\ Cardinality(loaded'[t]) <= MaxRecords
      <4> SUFFICES ASSUME NEW t \in Surface
                   PROVE  IsFiniteSet(loaded'[t]) /\ Cardinality(loaded'[t]) <= MaxRecords
        OBVIOUS
      <4>1. CASE t = s
        BY <2>2, <3>1, <4>1
      <4>2. CASE t # s
        BY <3>1, <4>2
      <4> QED
        BY <4>1, <4>2
    <3>3. target[s] \in Run
      BY <1>6 DEF Load
    <3>4. loaded' \in [Surface -> SUBSET Cooldown]
      BY <2>1, <3>1
    <3> HIDE DEF open
    <3> QED
      BY <2>3, <3>1, <3>2, <3>3, <3>4
  <2> QED
    BY <2>4, <2>5
<1>7. ASSUME NEW s \in Surface, Save(s) PROVE TypeInv'
  <2> DEFINE mine == [run |-> target[s], acquired |-> attemptedAt[s],
                      until |-> attemptedAt[s] + COOLDOWN]
  <2>1. UNCHANGED <<now, alive, crashes, request, stops>>
    BY <1>7 DEF Save
  <2>2. CASE cooldowns' \in Newest(loaded[s] \cup {mine}, mine) /\ Goto(s, "execute")
             /\ UNCHANGED <<target, approved, attemptedAt, loaded>>
    <3>1. mine \in Cooldown
      <4>1. target[s] \in Run /\ attemptedAt[s] \in 0..MaxTime
        BY <1>7 DEF Save
      <4> QED
        BY <4>1 DEF Cooldown
    <3>2. loaded[s] \in SUBSET Cooldown /\ IsFiniteSet(loaded[s])
          /\ Cardinality(loaded[s]) <= MaxRecords
      OBVIOUS
    <3> HIDE DEF mine
    <3>3. cooldowns' \subseteq loaded[s] \cup {mine} /\ IsFiniteSet(cooldowns')
          /\ Cardinality(cooldowns') <= MaxRecords
      BY <2>2, <3>1, <3>2, NewestIsBounded
    <3>4. cooldowns' \subseteq Cooldown
      BY <3>1, <3>2, <3>3
    <3> QED
      BY <1>7, <2>1, <2>2, <3>3, <3>4 DEF Save, Goto
  <2>3. CASE Return(s) /\ UNCHANGED cooldowns
    BY <2>1, <2>3, ReturnKeepsTypes
  <2> QED
    BY <1>7, <2>2, <2>3 DEF Save
<1>8. ASSUME NEW s \in Surface, Execute(s) PROVE TypeInv'
  <2>1. Return(s) /\ UNCHANGED <<now, alive, crashes, request, cooldowns>>
    BY <1>8 DEF Execute
  <2>2. [run |-> target[s], at |-> attemptedAt[s], by |-> s, approved |-> approved[s]] \in Stop
    <3>1. target[s] \in Run /\ attemptedAt[s] \in 0..MaxTime /\ approved[s] \in BOOLEAN
      BY <1>8 DEF Execute
    <3> QED
      BY <3>1 DEF Stop
  <2>3. stops' \in Seq(Stop)
    BY <1>8, <2>2, AppendProperties DEF Execute
  <2> QED
    BY <2>1, <2>3, ReturnKeepsTypes
<1>9. ASSUME NEW s \in Surface, Crash(s) PROVE TypeInv'
  <2>1. Return(s) /\ UNCHANGED <<now, alive, request, cooldowns, stops>>
    BY <1>9 DEF Crash
  <2>2. crashes' \in 0..MaxCrashes
    BY <1>9 DEF Crash
  <2> QED
    BY <2>1, <2>2, ReturnKeepsTypes
<1>10. ASSUME NEW r \in Run, Exit(r) PROVE TypeInv'
  BY <1>10 DEF Exit
<1>11. CASE Tick
  BY <1>11 DEF Tick
<1>12. CASE UNCHANGED vars
  BY <1>12 DEF vars
<1> QED
  BY <1>1, <1>2, <1>3, <1>4, <1>5, <1>6, <1>7, <1>8, <1>9, <1>10, <1>11, <1>12 DEF Next

LEMMA TypeInvHolds ==
  ASSUME TerminationAssumption
  PROVE  Spec => []TypeInv
<1>1. Init => TypeInv
  BY FS_EmptySet DEF Init, TypeInv, TypeOK, FilesAreFinite, TerminationAssumption
<1> QED
  BY <1>1, StepTypeInv, PTL DEF Spec

(* Type correctness: no step leaves the sets the variables range over, and *)
(* the file of the cooldowns stays within its bound.                       *)
THEOREM TypeCorrect ==
  ASSUME TerminationAssumption
  PROVE  Spec => []TypeOK
<1>1. TypeInv => TypeOK
  BY DEF TypeInv
<1> QED
  BY <1>1, TypeInvHolds, PTL
-----------------------------------------------------------------------------
LEMMA StopsAreOfRuns ==
  ASSUME TypeOK
  PROVE  \A k \in DOMAIN stops : stops[k].run \in Run /\ stops[k].at \in 0..MaxTime
<1>1. stops \in Seq(Stop) /\ DOMAIN stops = 1..Len(stops)
  BY LenProperties DEF TypeOK
<1>2. \A k \in DOMAIN stops : stops[k] \in Stop
  BY <1>1, ElementOfSeq
<1> QED
  BY <1>2 DEF Stop

(* A call that returns has nothing in hand any more.                       *)
LEMMA ReturnEmptiesHand ==
  ASSUME TypeOK, NEW s \in Surface, Return(s)
  PROVE  /\ approved'[s] = FALSE /\ pc'[s] = "idle"
         /\ \A t \in Surface \ {s} : approved'[t] = approved[t] /\ target'[t] = target[t]
                                     /\ pc'[t] = pc[t]
BY DEF TypeOK, Return, Goto

LEMMA ReturnKeepsAnswers ==
  ASSUME TypeOK, AnswerInv, NEW s \in Surface, Return(s), UNCHANGED <<request, stops>>
  PROVE  AnswerInv'
<1> USE DEF AnswerInv, InHand, Used
<1>1. /\ approved'[s] = FALSE /\ pc'[s] = "idle"
      /\ \A t \in Surface \ {s} : approved'[t] = approved[t] /\ target'[t] = target[t]
                                  /\ pc'[t] = pc[t]
  BY ReturnEmptiesHand
<1>2. HandIsOfTarget'
  <2> SUFFICES ASSUME NEW t \in Surface
               PROVE  /\ pc'[t] # "idle" => target'[t] \in Run
                      /\ approved'[t] = TRUE => /\ pc'[t] \notin {"idle", "resolve"}
                                               /\ request'[target'[t]] = "approved"
    BY DEF HandIsOfTarget
  <2>1. CASE t = s
    BY <1>1, <2>1
  <2>2. CASE t # s
    BY <1>1, <2>2 DEF HandIsOfTarget
  <2> QED
    BY <2>1, <2>2
<1>3. OneHand'
  BY <1>1 DEF OneHand
<1>4. UsedIsApproved' /\ UsedOnce'
  BY DEF UsedIsApproved, UsedOnce
<1>5. UsedIsNotInHand'
  BY <1>1 DEF UsedIsNotInHand
<1> QED
  BY <1>2, <1>3, <1>4, <1>5

LEMMA StepAnswerInv ==
  ASSUME TerminationAssumption, TypeInv, AnswerInv, [Next]_vars
  PROVE  AnswerInv'
<1> USE DEF TypeInv, TypeOK, TerminationAssumption, world, file
<1> USE DEF AnswerInv, InHand, Used, HandIsOfTarget, OneHand, UsedIsApproved, UsedIsNotInHand,
            UsedOnce
<1>1. ASSUME NEW s \in Surface, NEW r \in Run, StopByPid(s, r) PROVE AnswerInv'
  BY <1>1 DEF StopByPid, Goto
<1>2. ASSUME NEW s \in Surface, NEW r \in Run, Approve(s, r) PROVE AnswerInv'
  BY <1>2 DEF Approve, Goto
<1>3. ASSUME NEW s \in Surface, NEW r \in Run, Deny(s, r) PROVE AnswerInv'
  <2>1. \A q \in Run : request[q] = "approved" => request'[q] = "approved"
    BY <1>3 DEF Deny
  <2>2. \A k \in DOMAIN stops : stops[k].run \in Run
    BY StopsAreOfRuns
  <2> QED
    BY <1>3, <2>1, <2>2 DEF Deny
<1>4. ASSUME NEW s \in Surface, Resolve(s) PROVE AnswerInv'
  <2>1. CASE request[target[s]] = "pending"
    <3>1. target[s] \in Run /\ pc[s] = "resolve"
      BY <1>4 DEF Resolve
    <3>2. /\ request' = [request EXCEPT ![target[s]] = "approved"]
          /\ approved' = [approved EXCEPT ![s] = TRUE]
          /\ pc' = [pc EXCEPT ![s] = "stop"]
          /\ UNCHANGED <<target, stops>>
      BY <1>4, <2>1 DEF Resolve, Goto
(* Nobody else holds or has used an approval of a pending request.         *)
    <3>3. \A t \in Surface : InHand(t) => target[t] # target[s]
      BY <2>1
    <3>4. \A k \in DOMAIN stops : Used(k) => stops[k].run # target[s]
      BY <2>1
    <3>5. \A q \in Run : request[q] = "approved" => request'[q] = "approved"
      BY <3>2
    <3>6. \A k \in DOMAIN stops : stops[k].run \in Run
      BY StopsAreOfRuns
    <3> QED
      BY <3>1, <3>2, <3>3, <3>4, <3>5, <3>6
  <2>2. CASE request[target[s]] # "pending"
    <3>1. Return(s) /\ UNCHANGED <<request, stops>>
      BY <1>4, <2>2 DEF Resolve
    <3> QED
      BY <3>1, ReturnKeepsAnswers
  <2> QED
    BY <2>1, <2>2
<1>5. ASSUME NEW s \in Surface, Identify(s) PROVE AnswerInv'
  <2>1. CASE target[s] \in alive
    BY <1>5, <2>1, SMTT(30) DEF Identify, Goto
  <2>2. CASE target[s] \notin alive
    BY <1>5, <2>2, ReturnKeepsAnswers DEF Identify
  <2> QED
    BY <2>1, <2>2
<1>6. ASSUME NEW s \in Surface, Load(s) PROVE AnswerInv'
  <2>1. CASE \E c \in Open(cooldowns, s) : c.run = target[s]
    BY <1>6, <2>1, ReturnKeepsAnswers DEF Load
  <2>2. CASE \A c \in Open(cooldowns, s) : c.run # target[s]
    BY <1>6, <2>2 DEF Load, Goto
  <2> QED
    BY <2>1, <2>2
<1>7. ASSUME NEW s \in Surface, Save(s) PROVE AnswerInv'
  <2>1. CASE Return(s)
    BY <1>7, <2>1, ReturnKeepsAnswers DEF Save
  <2>2. CASE ~Return(s)
    BY <1>7, <2>2 DEF Save, Goto
  <2> QED
    BY <2>1, <2>2
<1>8. ASSUME NEW s \in Surface, Execute(s) PROVE AnswerInv'
  <2> DEFINE stop == [run |-> target[s], at |-> attemptedAt[s], by |-> s, approved |-> approved[s]]
  <2>1. Return(s) /\ UNCHANGED request /\ stops' = Append(stops, stop) /\ pc[s] = "execute"
    BY <1>8 DEF Execute
  <2>2. target[s] \in Run
    BY <2>1
  <2>3. stop \in Stop
    BY <2>2 DEF Stop
  <2>4. stop.run = target[s] /\ stop.approved = approved[s]
    OBVIOUS
  <2> HIDE DEF stop
  <2>5. /\ DOMAIN stops = 1..Len(stops) /\ DOMAIN stops' = 1..(Len(stops) + 1)
        /\ Len(stops) \in Nat
        /\ \A k \in 1..Len(stops) : stops'[k] = stops[k]
        /\ stops'[Len(stops) + 1] = stop
    BY <2>1, <2>3, AppendProperties, LenProperties
  <2>6. /\ approved'[s] = FALSE /\ pc'[s] = "idle"
        /\ \A t \in Surface \ {s} : approved'[t] = approved[t] /\ target'[t] = target[t]
                                    /\ pc'[t] = pc[t]
    BY <2>1, ReturnEmptiesHand
  <2>7. \A k \in DOMAIN stops' : k \in DOMAIN stops \/ k = Len(stops) + 1
    BY <2>5
  <2>8. HandIsOfTarget' /\ OneHand'
    <3> SUFFICES ASSUME NEW t \in Surface, NEW u \in Surface
                 PROVE  /\ pc'[t] # "idle" => target'[t] \in Run
                        /\ approved'[t] = TRUE => /\ pc'[t] \notin {"idle", "resolve"}
                                                 /\ request'[target'[t]] = "approved"
                        /\ approved'[t] = TRUE /\ approved'[u] = TRUE /\ target'[t] = target'[u]
                             => t = u
      OBVIOUS
    <3>1. CASE t = s \/ u = s
      BY <2>1, <2>6, <3>1
    <3>2. CASE t # s /\ u # s
      BY <2>1, <2>6, <3>2
    <3> QED
      BY <3>1, <3>2
  <2>9. UsedIsApproved'
    BY <2>1, <2>4, <2>5, <2>7
  <2>10. UsedIsNotInHand'
    BY <2>4, <2>5, <2>6, <2>7
  <2>11. UsedOnce'
    BY <2>4, <2>5, <2>7
  <2> QED
    BY <2>8, <2>9, <2>10, <2>11
<1>9. ASSUME NEW s \in Surface, Crash(s) PROVE AnswerInv'
  BY <1>9, ReturnKeepsAnswers DEF Crash
<1>10. ASSUME NEW r \in Run, Exit(r) PROVE AnswerInv'
  BY <1>10 DEF Exit
<1>11. CASE Tick
  BY <1>11 DEF Tick
<1>12. CASE UNCHANGED vars
  BY <1>12 DEF vars
<1> QED
  BY <1>1, <1>2, <1>3, <1>4, <1>5, <1>6, <1>7, <1>8, <1>9, <1>10, <1>11, <1>12 DEF Next

(* An approval is spent once and a denied request is never carried out,    *)
(* whatever surfaces answer and stop together and wherever they are killed *)
(* (actions.rs:191-192).                                                   *)
THEOREM AnswersAreKept ==
  ASSUME TerminationAssumption
  PROVE  Spec => []AnswersHold
<1>1. Init => AnswerInv
  BY DEF Init, AnswerInv, InHand, Used, HandIsOfTarget, OneHand, UsedIsApproved,
         UsedIsNotInHand, UsedOnce
<1>2. AnswerInv => AnswersHold
  <2> SUFFICES ASSUME AnswerInv PROVE AnswersHold
    OBVIOUS
  <2>1. DenialHolds
    BY DEF AnswerInv, UsedIsApproved, Used, DenialHolds
  <2>2. ASSUME NEW r \in Run
        PROVE  Cardinality({k \in DOMAIN stops : stops[k].run = r /\ stops[k].approved}) <= 1
    <3> DEFINE used == {k \in DOMAIN stops : stops[k].run = r /\ stops[k].approved}
    <3>1. \A j, k \in used : j = k
      BY DEF AnswerInv, UsedOnce, Used
    <3>2. CASE used = {}
      BY <3>2, FS_EmptySet
    <3>3. CASE used # {}
      <4>1. PICK k \in used : TRUE
        BY <3>3
      <4>2. used = {k}
        BY <3>1, <4>1
      <4> QED
        BY <4>2, FS_Singleton
    <3> QED
      BY <3>2, <3>3
  <2> QED
    BY <2>1, <2>2 DEF AnswersHold, ConsumedOnce
<1> QED
  BY <1>1, <1>2, StepAnswerInv, TypeInvHolds, PTL DEF Spec
-----------------------------------------------------------------------------
Alone == \A s, t \in Surface : s = t
Roomy == IsFiniteSet(Run) /\ Cardinality(Run) <= MaxRecords

(* A file with one cooldown of each run is within its bound, so that       *)
(* nothing is ever evicted.                                                *)
LEMMA OnePerRunIsBounded ==
  ASSUME Roomy, TerminationAssumption, NEW records \in SUBSET Cooldown, OnePerRun(records)
  PROVE  Cardinality(records) <= MaxRecords
<1> DEFINE f == [c \in records |-> c.run]
<1>1. f \in [records -> Run]
  BY DEF Cooldown
<1>2. \A c, d \in records : f[c] = f[d] => c = d
  BY DEF OnePerRun
<1>3. f \in Injection(records, Run)
  BY <1>1, <1>2 DEF Injection, IsInjective
<1>4. IsFiniteSet(records) /\ Cardinality(records) <= Cardinality(Run)
  BY <1>3, FS_Injection DEF Roomy
<1>5. Cardinality(records) \in Nat /\ Cardinality(Run) \in Nat
  BY <1>4, FS_CardinalityType DEF Roomy
<1> QED
  BY <1>4, <1>5 DEF Roomy, TerminationAssumption

(* The call that returns keeps all that was guarded: what it stood for in  *)
(* time only grows.                                                        *)
LEMMA ReturnKeepsCooldowns ==
  ASSUME TerminationAssumption, TypeInv, CooldownInv, Alone, NEW s \in Surface, Return(s),
         UNCHANGED <<now, cooldowns, stops>>
  PROVE  CooldownInv'
<1> USE DEF TypeInv, TypeOK, TerminationAssumption, Alone
<1>1. \A t \in Surface : pc'[t] = "idle" /\ attemptedAt'[t] = 0
  BY DEF Return, Goto
<1>2. \A k \in DOMAIN stops : stops[k].at \in 0..MaxTime
  BY StopsAreOfRuns
<1>3. Due(s) \in Nat /\ now \in Nat /\ Due(s) <= now
  BY DEF Due, CooldownInv, AttemptIsPast
<1>4. StopsAreGuarded'
  <2> SUFFICES ASSUME NEW t \in Surface, NEW k \in DOMAIN stops
               PROVE  now - stops[k].at >= COOLDOWN \/ Guarded(k, cooldowns)
    BY <1>1 DEF StopsAreGuarded, Spaced, Due, Guarded
  <2>1. Spaced(k, Due(s)) \/ Guarded(k, cooldowns)
    BY DEF CooldownInv, StopsAreGuarded
  <2> QED
    BY <1>2, <1>3, <2>1 DEF Spaced
<1>5. FileIsPerRun'
  BY DEF CooldownInv, FileIsPerRun, OnePerRun
<1>6. AttemptIsPast'
  BY <1>1 DEF AttemptIsPast
<1> QED
  BY <1>1, <1>4, <1>5, <1>6 DEF CooldownInv, LoadedIsPerRun, NextIsSpaced, MineIsSaved

LEMMA StepCooldownInv ==
  ASSUME TerminationAssumption, Roomy, Alone, TypeInv, CooldownInv, [Next]_vars
  PROVE  CooldownInv'
<1> USE DEF TypeInv, TypeOK, TerminationAssumption, world, file, Alone
<1> USE DEF CooldownInv, FileIsPerRun, LoadedIsPerRun, AttemptIsPast, StopsAreGuarded,
            NextIsSpaced, MineIsSaved, OnePerRun
<1>0. \A k \in DOMAIN stops : stops[k].run \in Run /\ stops[k].at \in 0..MaxTime
  BY StopsAreOfRuns
<1>1. ASSUME NEW s \in Surface, NEW r \in Run, StopByPid(s, r) PROVE CooldownInv'
  BY <1>1 DEF StopByPid, Goto, Spaced, Guarded, Due, Mine
<1>2. ASSUME NEW s \in Surface, NEW r \in Run, Approve(s, r) PROVE CooldownInv'
  BY <1>2 DEF Approve, Goto, Spaced, Guarded, Due, Mine
<1>3. ASSUME NEW s \in Surface, NEW r \in Run, Deny(s, r) PROVE CooldownInv'
  BY <1>3 DEF Deny, Spaced, Guarded, Due, Mine
<1>4. ASSUME NEW s \in Surface, Resolve(s) PROVE CooldownInv'
  <2>1. CASE request[target[s]] = "pending"
    <3>1. /\ pc' = [pc EXCEPT ![s] = "stop"] /\ pc[s] = "resolve"
          /\ UNCHANGED <<target, attemptedAt, loaded, now, cooldowns, stops>>
      BY <1>4, <2>1 DEF Resolve, Goto, Return
    <3>2. \A t \in Surface : Due(t)' = Due(t) /\ Mine(t)' = Mine(t)
      BY <3>1 DEF Due, Mine
    <3> QED
      BY <3>1, <3>2 DEF Spaced, Guarded, Due, Mine
  <2>2. CASE request[target[s]] # "pending"
    BY <1>4, <2>2, ReturnKeepsCooldowns DEF Resolve
  <2> QED
    BY <2>1, <2>2
<1>5. ASSUME NEW s \in Surface, Identify(s) PROVE CooldownInv'
  <2>1. CASE target[s] \in alive
    BY <1>5, <2>1 DEF Identify, Goto, Spaced, Guarded, Due, Mine
  <2>2. CASE target[s] \notin alive
    BY <1>5, <2>2, ReturnKeepsCooldowns DEF Identify
  <2> QED
    BY <2>1, <2>2
<1>6. ASSUME NEW s \in Surface, Load(s) PROVE CooldownInv'
  <2> DEFINE open == Open(cooldowns, s)
  <2>1. CASE \E c \in open : c.run = target[s]
    BY <1>6, <2>1, ReturnKeepsCooldowns DEF Load
  <2>2. CASE \A c \in open : c.run # target[s]
    <3>1. /\ pc[s] = "load" /\ pc' = [pc EXCEPT ![s] = "save"]
          /\ loaded' = [loaded EXCEPT ![s] = open]
          /\ UNCHANGED <<now, cooldowns, target, attemptedAt, stops>>
      BY <1>6, <2>2 DEF Load, Goto
    <3>2. ASSUME NEW k \in DOMAIN stops
          PROVE  Spaced(k, attemptedAt[s]) \/ Guarded(k, open)
      <4>1. Spaced(k, attemptedAt[s]) \/ Guarded(k, cooldowns)
        BY <3>1 DEF Due
      <4>2. CASE Guarded(k, cooldowns)
        <5>1. PICK c \in cooldowns : c.run = stops[k].run /\ c.until >= stops[k].at + COOLDOWN
          BY <4>2 DEF Guarded
        <5>2. CASE attemptedAt[s] < c.until
          BY <5>1, <5>2 DEF Guarded, Open
        <5>3. CASE ~(attemptedAt[s] < c.until)
          <6>1. c.until \in Nat /\ attemptedAt[s] \in Nat /\ stops[k].at \in Nat
            BY <1>0 DEF Cooldown
          <6> QED
            BY <5>1, <5>3, <6>1 DEF Spaced
        <5> QED
          BY <5>2, <5>3
      <4> QED
        BY <4>1, <4>2
    <3>3. ASSUME NEW k \in DOMAIN stops, stops[k].run = target[s]
          PROVE  Spaced(k, attemptedAt[s])
      BY <2>2, <3>2, <3>3 DEF Guarded
    <3>4. LoadedIsPerRun'
      BY <2>2, <3>1 DEF Open
    <3> HIDE DEF open
    <3>5. StopsAreGuarded'
      BY <3>1, <3>2 DEF Spaced, Guarded, Due
    <3>6. NextIsSpaced'
      BY <3>1, <3>3 DEF Spaced
    <3> QED
      BY <3>1, <3>4, <3>5, <3>6
  <2> QED
    BY <2>1, <2>2
<1>7. ASSUME NEW s \in Surface, Save(s) PROVE CooldownInv'
  <2>1. CASE Return(s) /\ UNCHANGED cooldowns
    BY <1>7, <2>1, ReturnKeepsCooldowns DEF Save
  <2>2. CASE ~(Return(s) /\ UNCHANGED cooldowns)
    <3> DEFINE all == loaded[s] \cup {Mine(s)}
    <3>1. /\ pc[s] = "save" /\ pc' = [pc EXCEPT ![s] = "execute"]
          /\ cooldowns' \in Newest(all, Mine(s))
          /\ UNCHANGED <<now, target, attemptedAt, loaded, stops>>
      BY <1>7, <2>2 DEF Save, Goto, Mine
    <3>2. Mine(s) \in Cooldown /\ Mine(s).run = target[s]
          /\ Mine(s).until = attemptedAt[s] + COOLDOWN
      <4>1. target[s] \in Run /\ attemptedAt[s] \in 0..MaxTime
        BY <3>1 DEF FilesAreFinite
      <4> QED
        BY <4>1 DEF Mine, Cooldown
    <3>3. all \in SUBSET Cooldown /\ OnePerRun(all)
      BY <3>1, <3>2
    <3>4. cooldowns' = all
      BY <3>1, <3>3, OnePerRunIsBounded DEF Newest
    <3>5. StopsAreGuarded'
      <4> SUFFICES ASSUME NEW t \in Surface, NEW k \in DOMAIN stops
                   PROVE  /\ pc'[t] # "save"
                          /\ Spaced(k, attemptedAt[s]) \/ Guarded(k, all)
        BY <3>1, <3>4 DEF Spaced, Guarded, Due
      <4>1. Spaced(k, attemptedAt[s]) \/ Guarded(k, loaded[s])
        BY <3>1
      <4> QED
        BY <3>1, <4>1 DEF Guarded
    <3>6. NextIsSpaced'
      BY <3>1 DEF Spaced
    <3>7. MineIsSaved'
      BY <3>1, <3>4 DEF Mine
    <3>8. FileIsPerRun' /\ LoadedIsPerRun' /\ AttemptIsPast'
      BY <3>1, <3>3, <3>4
    <3> QED
      BY <3>5, <3>6, <3>7, <3>8
  <2> QED
    BY <2>1, <2>2
<1>8. ASSUME NEW s \in Surface, Execute(s) PROVE CooldownInv'
  <2> DEFINE stop == [run |-> target[s], at |-> attemptedAt[s], by |-> s, approved |-> approved[s]]
  <2>1. Return(s) /\ UNCHANGED <<now, cooldowns>> /\ stops' = Append(stops, stop) /\ pc[s] = "execute"
    BY <1>8 DEF Execute
  <2>2. target[s] \in Run
    BY <2>1 DEF FilesAreFinite
  <2>3. stop \in Stop
    BY <2>2 DEF Stop
  <2>4. stop.run = target[s] /\ stop.at = attemptedAt[s]
    OBVIOUS
  <2> HIDE DEF stop
  <2>5. /\ DOMAIN stops = 1..Len(stops) /\ DOMAIN stops' = 1..(Len(stops) + 1)
        /\ Len(stops) \in Nat
        /\ \A k \in 1..Len(stops) : stops'[k] = stops[k]
        /\ stops'[Len(stops) + 1] = stop
    BY <2>1, <2>3, AppendProperties, LenProperties
  <2>6. \A t \in Surface : pc'[t] = "idle" /\ attemptedAt'[t] = 0
    BY <2>1 DEF Return, Goto
  <2>7. StopsAreGuarded'
    <3> SUFFICES ASSUME NEW k \in DOMAIN stops'
                 PROVE  \/ now - stops'[k].at >= COOLDOWN
                        \/ \E c \in cooldowns : /\ c.run = stops'[k].run
                                                /\ c.until >= stops'[k].at + COOLDOWN
      BY <2>1, <2>6 DEF Spaced, Guarded, Due
    <3>1. CASE k \in DOMAIN stops
      <4>1. Spaced(k, attemptedAt[s]) \/ Guarded(k, cooldowns)
        BY <2>1, <3>1 DEF Due
      <4>2. stops'[k] = stops[k] /\ stops[k].at \in Nat /\ attemptedAt[s] <= now
            /\ attemptedAt[s] \in Nat /\ now \in Nat
        BY <1>0, <2>5, <3>1
      <4> QED
        BY <4>1, <4>2 DEF Spaced, Guarded
    <3>2. CASE k = Len(stops) + 1
      <4>1. Mine(s) \in cooldowns /\ Mine(s).run = target[s]
            /\ Mine(s).until = attemptedAt[s] + COOLDOWN
        BY <2>1 DEF Mine
      <4>2. stops'[k] = stop /\ attemptedAt[s] \in Nat
        BY <2>5, <3>2
      <4>3. Mine(s).until >= stop.at + COOLDOWN
        BY <2>4, <4>1, <4>2
      <4> QED
        BY <2>4, <4>1, <4>2, <4>3
    <3> QED
      BY <2>5, <3>1, <3>2
  <2>8. FileIsPerRun' /\ LoadedIsPerRun' /\ AttemptIsPast' /\ NextIsSpaced' /\ MineIsSaved'
    BY <2>1, <2>6
  <2> QED
    BY <2>7, <2>8
<1>9. ASSUME NEW s \in Surface, Crash(s) PROVE CooldownInv'
  BY <1>9, ReturnKeepsCooldowns DEF Crash
<1>10. ASSUME NEW r \in Run, Exit(r) PROVE CooldownInv'
  BY <1>10 DEF Exit, Spaced, Guarded, Due, Mine
<1>11. CASE Tick
  <2>1. /\ now' = now + 1
        /\ UNCHANGED <<cooldowns, loaded, pc, target, attemptedAt, stops>>
    BY <1>11 DEF Tick
  <2>2. \A s \in Surface : Due(s) \in Nat /\ Due(s)' \in Nat /\ Due(s) <= Due(s)'
    BY <2>1 DEF Due
  <2>3. StopsAreGuarded'
    <3> SUFFICES ASSUME NEW s \in Surface, NEW k \in DOMAIN stops
                 PROVE  /\ Spaced(k, Due(s)') \/ Guarded(k, cooldowns)
                        /\ pc[s] = "save" => Spaced(k, attemptedAt[s]) \/ Guarded(k, loaded[s])
      BY <2>1 DEF Spaced, Guarded
    <3>1. Spaced(k, Due(s)) => Spaced(k, Due(s)')
      BY <1>0, <2>2 DEF Spaced
    <3> QED
      BY <3>1
  <2> QED
    BY <2>1, <2>3 DEF Mine, Spaced
<1>12. CASE UNCHANGED vars
  BY <1>12 DEF vars, Spaced, Guarded, Due, Mine
<1> QED
  BY <1>1, <1>2, <1>3, <1>4, <1>5, <1>6, <1>7, <1>8, <1>9, <1>10, <1>11, <1>12 DEF Next

LEMMA StepSpaced ==
  ASSUME TerminationAssumption, TypeInv, CooldownInv, OneStopPerCooldown, [Next]_vars
  PROVE  OneStopPerCooldown'
<1> USE DEF TypeInv, TypeOK, TerminationAssumption, world, file
<1>1. CASE UNCHANGED stops
  BY <1>1 DEF OneStopPerCooldown
<1>2. ASSUME NEW s \in Surface, Execute(s) PROVE OneStopPerCooldown'
  <2> DEFINE stop == [run |-> target[s], at |-> attemptedAt[s], by |-> s, approved |-> approved[s]]
  <2>1. stops' = Append(stops, stop) /\ pc[s] = "execute"
    BY <1>2 DEF Execute
  <2>2. target[s] \in Run
    BY <2>1 DEF FilesAreFinite
  <2>3. stop \in Stop
    BY <2>2 DEF Stop
  <2>4. stop.run = target[s] /\ stop.at = attemptedAt[s]
    OBVIOUS
  <2> HIDE DEF stop
  <2>5. /\ DOMAIN stops = 1..Len(stops) /\ DOMAIN stops' = 1..(Len(stops) + 1)
        /\ Len(stops) \in Nat
        /\ \A k \in 1..Len(stops) : stops'[k] = stops[k]
        /\ stops'[Len(stops) + 1] = stop
    BY <2>1, <2>3, AppendProperties, LenProperties
  <2>6. \A k \in DOMAIN stops : stops[k].run = target[s]
                                 => attemptedAt[s] - stops[k].at >= COOLDOWN
    BY <2>1 DEF CooldownInv, NextIsSpaced, Spaced
  <2> SUFFICES ASSUME NEW j \in DOMAIN stops', NEW k \in DOMAIN stops',
                      j < k, stops'[j].run = stops'[k].run
               PROVE  stops'[k].at - stops'[j].at >= COOLDOWN
    BY DEF OneStopPerCooldown
  <2>7. CASE k = Len(stops) + 1
    <3>1. j \in 1..Len(stops) /\ j \in DOMAIN stops
      BY <2>5, <2>7
    <3>2. stops'[j] = stops[j] /\ stops'[k] = stop
      BY <2>5, <2>7, <3>1
    <3>3. stops[j].run = target[s]
      BY <2>4, <3>2
    <3>4. attemptedAt[s] - stops[j].at >= COOLDOWN
      BY <2>6, <3>1, <3>3
    <3> QED
      BY <2>4, <3>2, <3>4
  <2>8. CASE k # Len(stops) + 1
    <3>1. j \in DOMAIN stops /\ k \in DOMAIN stops
      BY <2>5, <2>8
    <3>2. stops'[j] = stops[j] /\ stops'[k] = stops[k]
      BY <2>5, <3>1
    <3> QED
      BY <3>1, <3>2 DEF OneStopPerCooldown
  <2> QED
    BY <2>7, <2>8
<1>3. CASE \A s \in Surface : ~Execute(s)
  <2>1. ASSUME NEW s \in Surface, NEW r \in Run, StopByPid(s, r) \/ Approve(s, r) \/ Deny(s, r)
        PROVE  stops' = stops
    BY <2>1 DEF StopByPid, Approve, Deny
  <2>2. ASSUME NEW s \in Surface, Resolve(s) \/ Identify(s) \/ Load(s) \/ Save(s) \/ Crash(s)
        PROVE  stops' = stops
    BY <2>2 DEF Resolve, Identify, Load, Save, Crash
  <2>3. ASSUME NEW r \in Run, Exit(r) PROVE stops' = stops
    BY <2>3 DEF Exit
  <2>4. ASSUME Tick \/ UNCHANGED vars PROVE stops' = stops
    BY <2>4 DEF Tick, vars
  <2>5. stops' = stops
    BY <1>3, <2>1, <2>2, <2>3, <2>4 DEF Next
  <2> QED
    BY <1>1, <2>5
<1> QED
  BY <1>2, <1>3

LEMMA OneSurfaceStops ==
  ASSUME TerminationAssumption, Alone, Roomy
  PROVE  Spec => []OneStopPerCooldown
<1>1. Init => CooldownInv /\ OneStopPerCooldown
  BY DEF Init, CooldownInv, FileIsPerRun, LoadedIsPerRun, AttemptIsPast, StopsAreGuarded,
         NextIsSpaced, MineIsSaved, OnePerRun, OneStopPerCooldown
<1>2. TypeInv /\ CooldownInv /\ [Next]_vars => CooldownInv'
  BY StepCooldownInv
<1>3. TypeInv /\ CooldownInv /\ OneStopPerCooldown /\ [Next]_vars => OneStopPerCooldown'
  BY StepSpaced
<1> QED
  BY <1>1, <1>2, <1>3, TypeInvHolds, PTL DEF Spec

(* With one surface, and room in the file for every run, no run is stopped *)
(* twice within one cooldown, wherever the surface is killed               *)
(* (cooldown.rs:3-6).  With two surfaces the run of MCResponse_race stops  *)
(* one twice.                                                              *)
THEOREM StopsAreACooldownApart ==
  ASSUME TerminationAssumption, Roomy
  PROVE  Spec => []StopsAreSpaced
<1>1. CASE Alone
  <2>1. OneStopPerCooldown => StopsAreSpaced
    BY DEF StopsAreSpaced
  <2> QED
    BY <1>1, <2>1, OneSurfaceStops, PTL
<1>2. CASE ~Alone
  <2>1. TypeInv => StopsAreSpaced
    BY <1>2 DEF TypeInv, TypeOK, Alone, OneSurface, StopsAreSpaced
  <2> QED
    BY <2>1, TypeInvHolds, PTL
<1> QED
  BY <1>1, <1>2

-----------------------------------------------------------------------------
(***************************************************************************)
(* TreeKill.  None of the three properties is inductive: each needs that   *)
(* runs are never given twice, that the snapshot names a process once, and *)
(* that between the check and the kill a pid keeps its run or gets one     *)
(* that is younger than the check.                                         *)
(***************************************************************************)
LEMMA Smallest ==
  ASSUME NEW T \in SUBSET Nat, T # {}
  PROVE  \E x \in T : \A y \in T : x <= y
<1> DEFINE R == OpToRel(<, Nat)
<1>1. IsWellFoundedOn(R, Nat)
  BY ONLY NatLessThanWellFounded, Zenon
<1>2. \A x, y \in Nat : x < y => <<x, y>> \in R
  BY SMT DEF OpToRel
<1> HIDE DEF R
<1>3. PICK x \in T : \A y \in T : ~ (<<y, x>> \in R)
  BY <1>1, WFMin, Zenon
<1>4. x \in Nat /\ \A y \in T : y \in Nat /\ ~(y < x)
  BY <1>2, <1>3
<1>5. \A y \in T : x <= y
  BY <1>4
<1> QED BY <1>5

(* No pid is taken twice and no run comes back.                            *)
RunsAreNew ==
  /\ \A p \in Pid : Identity(p) <= runs
  /\ \A p, q \in Pid : Identity(p) = Identity(q) /\ Identity(p) # 0 => p = q
  /\ seen <= runs

(* The snapshot names each process once, at the pid that it keeps.         *)
TargetsAreExact ==
  /\ \A m \in targets : m.run <= runs /\ \A p \in Pid : Identity(p) = m.run => p = m.pid
  /\ \A m, n \in targets : m.pid = n.pid \/ m.run = n.run => m = n

(* Between the check and the kill a pid keeps its run, is free, or has a   *)
(* run that is younger than the check.                                     *)
CheckedIsOwn ==
  phase \in {"sendTerminate", "sendForce"} =>
    left # {} /\ (Identity(Member.pid) \in {0, Member.run} \/ Identity(Member.pid) > seen)

Settled(m) == ~Same(m) \/ Asked(m)

(* What has been passed over is asked or gone, and is as deep as what is   *)
(* left.                                                                   *)
PassedIsSettled ==
  /\ phase \in {"snapshot", "preflight"} => sent = {}
  /\ phase \in {"terminate", "sendTerminate"} =>
       /\ \A m \in targets \ left : Settled(m) /\ \A n \in left : ~(n.depth > m.depth)
       /\ \A m \in left : ~Asked(m)
  /\ phase \in {"grace", "force", "sendForce", "poll"} => \A m \in targets : Settled(m)

Unended == phase # "done" => result = "none"

KillInv ==
  /\ TreeTypeOK
  /\ RunsAreNew /\ TargetsAreExact /\ CheckedIsOwn /\ PassedIsSettled /\ Unended
  /\ OnlyTheApproved /\ DeepestFirst /\ SuccessMeansGone

LEMMA IdentityIs ==
  ASSUME TreeAssumption, TreeTypeOK, NEW p \in Pid
  PROVE  /\ table[p] # Free => Identity(p) \in 1..MaxRuns
         /\ table[p] = Free => Identity(p) = 0
         /\ Identity(p) \in Nat
<1>1. table[p] \in Process \/ table[p] = Free
  BY DEF TreeTypeOK
<1>2. table[p] \in Process => table[p].run \in 1..MaxRuns
  BY DEF Process, ProcessRun
<1>3. Free.run = 0
  BY DEF Free
<1> QED BY <1>1, <1>2, <1>3 DEF Identity, TreeAssumption

LEMMA TargetIs ==
  ASSUME TreeAssumption, TreeTypeOK, NEW m \in targets
  PROVE  /\ m \in Target /\ m.pid \in Pid /\ m.pid \in Nat
         /\ m.run \in 1..MaxRuns /\ m.run \in Nat /\ m.run # 0
         /\ m.depth \in 0..Cardinality(Pid) /\ m.depth \in Nat
<1>1. m \in Target
  BY DEF TreeTypeOK
<1>2. Cardinality(Pid) \in Nat
  BY FS_CardinalityType DEF TreeAssumption
<1>3. m.pid \in Pid /\ m.run \in 1..MaxRuns /\ m.depth \in 0..Cardinality(Pid)
  BY <1>1 DEF Target, ProcessRun
<1>4. \A x \in 1..MaxRuns : x \in Nat /\ x # 0
  BY DEF TreeAssumption
<1>5. \A x \in 0..Cardinality(Pid) : x \in Nat
  BY <1>2
<1>6. m.pid \in Nat
  BY <1>3 DEF TreeAssumption
<1> QED BY <1>1, <1>3, <1>4, <1>5, <1>6

(* A loop that has members left has a next one.                            *)
LEMMA MemberIs ==
  ASSUME TreeAssumption, TreeTypeOK, TargetsAreExact, left # {}
  PROVE  /\ Member \in left /\ Member \in targets
         /\ \A n \in left : ~(n.depth > Member.depth)
<1>1. left \subseteq targets /\ Cardinality(Pid) \in Nat
  BY FS_CardinalityType DEF TreeTypeOK, TreeAssumption
<1> DEFINE N == Cardinality(Pid)
<1>2. \A m \in left : m.depth \in 0..N /\ m.pid \in Nat
  BY <1>1, TargetIs
<1> DEFINE height == {N - m.depth : m \in left}
<1>3. height \in SUBSET Nat /\ height # {}
  <2>1. \A m \in left : N - m.depth \in Nat
    BY <1>1, <1>2
  <2> QED BY <2>1
<1>4. PICK h \in height : \A k \in height : h <= k
  BY <1>3, Smallest
<1> DEFINE deepest == {m \in left : N - m.depth = h}
<1>5. deepest # {} /\ deepest \subseteq left
  BY <1>4
<1> DEFINE numbers == {m.pid : m \in deepest}
<1>6. numbers \in SUBSET Nat /\ numbers # {}
  BY <1>2, <1>5
<1>7. PICK x \in numbers : \A y \in numbers : x <= y
  BY <1>6, Smallest
<1>8. PICK first \in deepest : first.pid = x
  BY <1>7
<1>9. \A n \in left \ {first} : Before(first, n)
  <2> SUFFICES ASSUME NEW n \in left, n # first PROVE Before(first, n)
    OBVIOUS
  <2>1. first \in left /\ N - first.depth = h /\ N - n.depth \in height
    BY <1>8
  <2>2. h <= N - n.depth
    BY <1>4, <2>1
  <2>3. first.depth \in 0..N /\ n.depth \in 0..N /\ first.pid \in Nat /\ n.pid \in Nat
    BY <1>2, <2>1
  <2>4. first.pid # n.pid
    BY <1>1, <2>1 DEF TargetsAreExact
  <2>5. CASE first.depth > n.depth
    BY <2>5 DEF Before
  <2>6. CASE ~(first.depth > n.depth)
    <3>1. first.depth = n.depth
      BY <1>1, <2>1, <2>2, <2>3, <2>6
    <3>2. n \in deepest
      BY <2>1, <3>1
    <3>3. first.pid <= n.pid
      BY <1>7, <1>8, <3>2
    <3> QED BY <2>3, <2>4, <3>1, <3>3 DEF Before
  <2> QED BY <2>5, <2>6
<1>10. first \in left
  BY <1>8
<1> HIDE DEF deepest
<1>11. Member \in left /\ \A n \in left \ {Member} : Before(Member, n)
  BY <1>9, <1>10 DEF Member
<1>12. ASSUME NEW n \in left PROVE ~(n.depth > Member.depth)
  <2>1. n.depth \in Nat /\ Member.depth \in Nat
    BY <1>2, <1>11
  <2>2. n = Member \/ Before(Member, n)
    BY <1>11
  <2> QED BY <2>1, <2>2 DEF Before
<1> QED BY <1>1, <1>11, <1>12

(* The snapshot of the tree.                                               *)
LEMMA TreeIs ==
  ASSUME TreeAssumption, TreeTypeOK, RunsAreNew
  PROVE  /\ Tree \subseteq Target
         /\ \A m \in Tree : m.run <= runs /\ \A p \in Pid : Identity(p) = m.run => p = m.pid
         /\ \A m, n \in Tree : m.pid = n.pid \/ m.run = n.run => m = n
<1> DEFINE Of(p) == [pid |-> p, run |-> Identity(p), guarded |-> table[p].guarded,
                     depth |-> CHOOSE n \in Depths(p) : TRUE]
<1>1. Tree = {Of(p) : p \in {q \in Pid : Depths(q) # {}}}
  BY DEF Tree
<1>2. ASSUME NEW p \in Pid, Depths(p) # {}
      PROVE  table[p] # Free /\ (CHOOSE n \in Depths(p) : TRUE) \in 0..Cardinality(Pid)
  <2>1. PICK n \in Depths(p) : TRUE
    BY <1>2
  <2>2. Depths(p) \subseteq 0..Cardinality(Pid) /\ table[p] # Free
    BY <2>1 DEF Depths
  <2>3. (CHOOSE k \in Depths(p) : TRUE) \in Depths(p)
    BY <2>1
  <2> QED BY <2>2, <2>3
<1>3. ASSUME NEW p \in Pid, Depths(p) # {}
      PROVE  Of(p) \in Target /\ Identity(p) # 0
  <2>1. table[p] # Free /\ Identity(p) \in 1..MaxRuns
    BY <1>2, <1>3, IdentityIs
  <2>2. table[p] \in Process
    BY <2>1 DEF TreeTypeOK
  <2>3. table[p].guarded \in BOOLEAN
    BY <2>2 DEF Process
  <2> QED BY <1>2, <1>3, <2>1, <2>3 DEF Target, ProcessRun
<1>4. Tree \subseteq Target
  BY <1>1, <1>3
<1>5. ASSUME NEW m \in Tree PROVE m.run <= runs /\ \A p \in Pid : Identity(p) = m.run => p = m.pid
  <2>1. PICK q \in Pid : Depths(q) # {} /\ m = Of(q)
    BY <1>1
  <2>2. m.run = Identity(q) /\ m.pid = q /\ Identity(q) # 0
    BY <1>3, <2>1
  <2> QED BY <2>2 DEF RunsAreNew
<1>6. ASSUME NEW m \in Tree, NEW n \in Tree, m.pid = n.pid \/ m.run = n.run PROVE m = n
  <2>1. PICK q \in Pid : Depths(q) # {} /\ m = Of(q)
    BY <1>1
  <2>2. PICK r \in Pid : Depths(r) # {} /\ n = Of(r)
    BY <1>1
  <2>3. m.run = Identity(q) /\ m.pid = q /\ n.run = Identity(r) /\ n.pid = r /\ Identity(q) # 0
    BY <1>3, <2>1, <2>2
  <2>4. q = r
    BY <1>6, <2>3 DEF RunsAreNew
  <2> QED BY <2>1, <2>2, <2>4
<1> QED BY <1>4, <1>5, <1>6

LEMMA KillInvStarts == ASSUME TreeAssumption, TreeInit PROVE KillInv
<1>1. TreeTypeOK
  <2>1. table \in [Pid -> Process \cup {Free}]
    <3>1. [run |-> 1, parent |-> NoPid, guarded |-> FALSE] \in Process
      BY DEF Process, ProcessRun, TreeAssumption
    <3> QED BY <3>1 DEF TreeInit
  <2>2. runs \in 0..MaxRuns /\ seen \in 0..MaxRuns /\ attempted \in Nat
    BY DEF TreeInit, TreeAssumption
  <2>3. phase \in Phases /\ forced \in BOOLEAN /\ result \in {"none"} \cup Refusals \cup Outcomes
    BY DEF TreeInit, Phases
  <2>4. targets \subseteq Target /\ left \subseteq targets /\ sent \subseteq Signals
    BY DEF TreeInit
  <2> QED BY <2>1, <2>2, <2>3, <2>4 DEF TreeTypeOK
<1>2. RunsAreNew
  <2>1. \A p \in Pid : Identity(p) = IF p = Root THEN 1 ELSE 0
    BY DEF TreeInit, Identity, Free
  <2> QED BY <2>1 DEF RunsAreNew, TreeInit
<1>3. TargetsAreExact /\ CheckedIsOwn /\ PassedIsSettled /\ Unended
  BY DEF TreeInit, TargetsAreExact, CheckedIsOwn, PassedIsSettled, Unended
<1>4. OnlyTheApproved /\ DeepestFirst /\ SuccessMeansGone
  BY DEF TreeInit, OnlyTheApproved, DeepestFirst, SuccessMeansGone, Outcomes
<1> QED BY <1>1, <1>2, <1>3, <1>4 DEF KillInv

(* What the rest of the machine does, a stutter included: each pid keeps   *)
(* its run, is free, or has a run that is new.                             *)
LEMMA MachineKeeps ==
  ASSUME TreeAssumption, KillInv, UNCHANGED code, TreeTypeOK', RunsAreNew', runs <= runs',
         \A p \in Pid : Identity(p)' = Identity(p) \/ Identity(p)' = 0 \/ Identity(p)' > runs
  PROVE  KillInv'
<1> USE DEF KillInv
<1>1. /\ phase' = phase /\ targets' = targets /\ left' = left /\ seen' = seen
      /\ result' = result /\ sent' = sent
  BY DEF code
<1>2. Member' = Member
  BY <1>1 DEF Member, Before
<1>3. ASSUME NEW m \in targets, NEW p \in Pid, Identity(p)' = m.run
      PROVE  Identity(p) = m.run
  <2>1. m.run \in Nat /\ m.run # 0 /\ m.run <= runs
    BY TargetIs DEF TargetsAreExact
  <2>2. runs \in Nat
    BY DEF TreeTypeOK, TreeAssumption
  <2>3. ~(m.run > runs)
    BY <2>1, <2>2
  <2> QED BY <1>3, <2>1, <2>3
<1>4. ASSUME NEW m \in targets PROVE Same(m)' => Same(m)
  <2>1. m.pid \in Pid
    BY TargetIs
  <2> QED BY <1>3, <2>1 DEF Same
<1>5. \A m : Asked(m)' <=> Asked(m)
  BY <1>1 DEF Asked
<1>6. \A m \in targets : Settled(m) => Settled(m)'
  BY <1>4, <1>5 DEF Settled
<1>7. TargetsAreExact'
  <2>1. ASSUME NEW m \in targets PROVE m.run <= runs'
    <3>1. m.run \in Nat /\ m.run <= runs
      BY TargetIs DEF TargetsAreExact
    <3>2. runs \in Nat /\ runs' \in Nat
      BY DEF TreeTypeOK, TreeAssumption
    <3> QED BY <3>1, <3>2
  <2>2. \A m \in targets, p \in Pid : Identity(p)' = m.run => p = m.pid
    BY <1>3 DEF TargetsAreExact
  <2> QED BY <1>1, <2>1, <2>2 DEF TargetsAreExact
<1>8. CheckedIsOwn'
  <2> SUFFICES ASSUME phase \in {"sendTerminate", "sendForce"}, NEW m \in left, m = Member
               PROVE  Identity(m.pid)' \in {0, m.run} \/ Identity(m.pid)' > seen
    <3>1. phase \in {"sendTerminate", "sendForce"} => left # {} /\ Member \in left
      BY MemberIs DEF CheckedIsOwn
    <3> QED BY <1>1, <1>2, <3>1 DEF CheckedIsOwn, Identity
  <2>1. Identity(m.pid) \in {0, m.run} \/ Identity(m.pid) > seen
    BY DEF CheckedIsOwn
  <2>2. m.pid \in Pid
    BY TargetIs DEF TreeTypeOK
  <2>3. Identity(m.pid)' \in Nat
    <3>1. \A x \in 1..MaxRuns : x \in Nat
      BY DEF TreeAssumption
    <3>2. table'[m.pid] \in Process \cup {Free}
      BY <2>2 DEF TreeTypeOK
    <3> QED BY <3>1, <3>2 DEF Identity, Process, ProcessRun, Free
  <2>4. seen <= runs /\ seen \in Nat /\ runs \in Nat
    BY DEF RunsAreNew, TreeTypeOK, TreeAssumption
  <2>5. Identity(m.pid)' > runs => Identity(m.pid)' > seen
    BY <2>3, <2>4
  <2> QED BY <2>1, <2>2, <2>5
<1>9. PassedIsSettled'
  BY <1>1, <1>5, <1>6 DEF PassedIsSettled, TreeTypeOK
<1>10. Unended' /\ OnlyTheApproved'
  BY <1>1 DEF Unended, OnlyTheApproved
<1>11. DeepestFirst'
  BY <1>1, <1>4, <1>5 DEF DeepestFirst
<1>12. SuccessMeansGone'
  BY <1>1, <1>3 DEF SuccessMeansGone, Alive
<1> QED BY <1>7, <1>8, <1>9, <1>10, <1>11, <1>12

LEMMA SpawnKeeps ==
  ASSUME TreeAssumption, KillInv, NEW p \in Pid, NEW q \in Pid \cup {NoPid}, NEW g \in BOOLEAN,
         Spawn(p, q, g)
  PROVE  KillInv'
<1> USE DEF KillInv
<1>1. runs \in Nat /\ MaxRuns \in Nat /\ runs < MaxRuns /\ runs' = runs + 1
  BY DEF Spawn, TreeTypeOK, TreeAssumption
<1> DEFINE new == [run |-> runs + 1, parent |-> q, guarded |-> g]
<1>2. table \in [Pid -> Process \cup {Free}] /\ table' = [table EXCEPT ![p] = new]
  BY DEF Spawn, TreeTypeOK
<1>3. new \in Process
  BY <1>1 DEF Process, ProcessRun
<1>4. \A r \in Pid : Identity(r)' = IF r = p THEN runs + 1 ELSE Identity(r)
  BY <1>2 DEF Identity
<1>5. TreeTypeOK'
  <2>1. runs' \in 0..MaxRuns
    BY <1>1
  <2>2. table' \in [Pid -> Process \cup {Free}]
    BY <1>2, <1>3
  <2> QED BY <2>1, <2>2 DEF TreeTypeOK, Spawn, code
<1>6. \A r \in Pid : Identity(r) \in Nat /\ Identity(r) <= runs
  BY IdentityIs DEF RunsAreNew
<1>7. RunsAreNew'
  <2>1. \A r \in Pid : Identity(r)' <= runs'
    BY <1>1, <1>4, <1>6
  <2>2. \A r, s \in Pid : Identity(r)' = Identity(s)' /\ Identity(r)' # 0 => r = s
    BY <1>1, <1>4, <1>6 DEF RunsAreNew
  <2>3. seen' = seen /\ seen \in Nat /\ seen <= runs
    BY DEF Spawn, code, RunsAreNew, TreeTypeOK
  <2>4. seen' <= runs'
    BY <1>1, <2>3
  <2> QED BY <2>1, <2>2, <2>4 DEF RunsAreNew
<1>8. \A r \in Pid : Identity(r)' = Identity(r) \/ Identity(r)' > runs
  BY <1>1, <1>4
<1>9. runs <= runs' /\ UNCHANGED code
  BY <1>1 DEF Spawn
<1> HIDE DEF KillInv
<1> QED BY <1>5, <1>7, <1>8, <1>9, MachineKeeps

LEMMA QuitKeeps ==
  ASSUME TreeAssumption, KillInv, NEW p \in Pid, Quit(p)
  PROVE  KillInv'
<1> USE DEF KillInv
<1> DEFINE after(q) ==
      IF q = p THEN Free
      ELSE IF table[q].parent = p THEN [table[q] EXCEPT !.parent = NoPid]
      ELSE table[q]
<1>1. table' = [q \in Pid |-> after(q)] /\ runs' = runs /\ UNCHANGED code
  BY DEF Quit
<1>2. ASSUME NEW q \in Pid
      PROVE  after(q) \in Process \cup {Free} /\ after(q).run \in {Identity(q), 0}
  <2>1. table[q] \in Process \cup {Free}
    BY DEF TreeTypeOK
  <2>2. Free.run = 0 /\ Free.parent = NoPid
    BY DEF Free
  <2>3. ASSUME table[q] \in Process
        PROVE  /\ [table[q] EXCEPT !.parent = NoPid] \in Process
               /\ [table[q] EXCEPT !.parent = NoPid].run = table[q].run
    BY <2>3 DEF Process
  <2>4. p # NoPid
    BY DEF NoPid, TreeAssumption
  <2> QED BY <2>1, <2>2, <2>3, <2>4 DEF Identity
<1>3. \A q \in Pid : Identity(q)' \in {Identity(q), 0}
  BY <1>1, <1>2 DEF Identity
<1>4. TreeTypeOK'
  BY <1>1, <1>2 DEF TreeTypeOK, code
<1>5. RunsAreNew'
  <2>1. runs \in Nat
    BY DEF TreeTypeOK, TreeAssumption
  <2> QED BY <1>1, <1>3, <2>1 DEF RunsAreNew, code
<1>6. runs <= runs'
  BY <1>1 DEF TreeTypeOK, TreeAssumption
<1> HIDE DEF KillInv
<1> QED BY <1>1, <1>3, <1>4, <1>5, <1>6, MachineKeeps

(* What a step of the enforcing thread leaves as it was.                   *)
LEMMA ThreadKeeps ==
  ASSUME TreeAssumption, KillInv, UNCHANGED <<table, runs>>
  PROVE  /\ \A p : Identity(p)' = Identity(p)
         /\ \A m : Same(m)' <=> Same(m)
         /\ \A r : Alive(r)' <=> Alive(r)
         /\ seen' \in {seen, runs} => RunsAreNew' /\ seen' \in 0..MaxRuns
         /\ targets' = targets => TargetsAreExact'
<1>1. \A p : Identity(p)' = Identity(p)
  BY DEF Identity
<1>2. runs \in 0..MaxRuns /\ seen \in 0..MaxRuns /\ runs <= runs
  BY DEF KillInv, TreeTypeOK, TreeAssumption
<1>3. ASSUME seen' \in {seen, runs} PROVE RunsAreNew'
  BY <1>1, <1>2, <1>3 DEF RunsAreNew, KillInv
<1> QED BY <1>1, <1>2, <1>3 DEF Same, Alive, TargetsAreExact, KillInv

LEMMA SnapshotKeeps == ASSUME TreeAssumption, KillInv, Snapshot PROVE KillInv'
<1> USE DEF KillInv
<1>1. /\ phase = "snapshot" /\ left' = targets' /\ sent' = sent /\ sent = {} /\ result = "none"
      /\ UNCHANGED <<table, runs, seen, attempted, forced>>
  BY DEF Snapshot, PassedIsSettled, Unended
<1>2. \/ phase' = "done" /\ targets' = targets /\ result' \in Refusals
      \/ phase' = "preflight" /\ targets' = Tree /\ result' = "none"
  BY <1>1 DEF Snapshot, Finish, Refusals
<1>3. targets' \subseteq Target
  BY <1>2, TreeIs DEF TreeTypeOK
<1>4. TargetsAreExact' /\ RunsAreNew'
  <2>1. RunsAreNew' /\ (targets' = targets => TargetsAreExact') /\ \A p : Identity(p)' = Identity(p)
    BY <1>1, ThreadKeeps
  <2>2. CASE targets' = Tree
    <3>1. /\ \A m \in Tree : m.run <= runs /\ \A p \in Pid : Identity(p) = m.run => p = m.pid
          /\ \A m, n \in Tree : m.pid = n.pid \/ m.run = n.run => m = n
      BY TreeIs
    <3> HIDE DEF KillInv
    <3> QED BY <1>1, <2>1, <2>2, <3>1 DEF TargetsAreExact
  <2> QED BY <1>2, <2>1, <2>2
<1>5. TreeTypeOK'
  <2>1. phase' \in Phases /\ result' \in {"none"} \cup Refusals \cup Outcomes
    BY <1>2 DEF Phases
  <2> QED BY <1>1, <1>3, <2>1 DEF TreeTypeOK
<1>6. CheckedIsOwn' /\ PassedIsSettled' /\ Unended'
  BY <1>1, <1>2 DEF CheckedIsOwn, PassedIsSettled, Unended
<1>7. OnlyTheApproved' /\ DeepestFirst'
  BY <1>1 DEF OnlyTheApproved, DeepestFirst, Asked
<1>8. SuccessMeansGone'
  BY <1>2 DEF SuccessMeansGone, Outcomes, Refusals
<1> QED BY <1>4, <1>5, <1>6, <1>7, <1>8

LEMMA PreflightKeeps == ASSUME TreeAssumption, KillInv, Preflight PROVE KillInv'
<1> USE DEF KillInv
<1>1. /\ phase = "preflight" /\ sent' = sent /\ sent = {} /\ result = "none" /\ targets' = targets
      /\ UNCHANGED <<table, runs, seen, attempted, forced>>
  BY DEF Preflight, PassedIsSettled, Unended
<1>2. \/ phase' = "terminate" /\ left' = targets /\ result' = "none"
      \/ phase' \in {"preflight", "done"} /\ left' \subseteq left /\ result' \in {"none"} \cup Refusals
         /\ (phase' # "done" => result' = "none")
  BY <1>1 DEF Preflight, Finish, Refusals, Again, Pass
<1>3. TargetsAreExact' /\ RunsAreNew'
  BY <1>1, ThreadKeeps
<1>4. TreeTypeOK'
  <2>1. phase' \in Phases /\ result' \in {"none"} \cup Refusals \cup Outcomes
    BY <1>2 DEF Phases
  <2>2. left' \subseteq targets'
    BY <1>1, <1>2 DEF TreeTypeOK
  <2> QED BY <1>1, <2>1, <2>2 DEF TreeTypeOK
<1>5. CheckedIsOwn' /\ PassedIsSettled' /\ Unended'
  BY <1>1, <1>2 DEF CheckedIsOwn, PassedIsSettled, Unended, Asked
<1>6. OnlyTheApproved' /\ DeepestFirst'
  BY <1>1 DEF OnlyTheApproved, DeepestFirst, Asked
<1>7. SuccessMeansGone'
  BY <1>2 DEF SuccessMeansGone, Outcomes, Refusals
<1> QED BY <1>3, <1>4, <1>5, <1>6, <1>7

(* Either loop's check: nothing is signalled.                              *)
LEMMA CheckKeeps ==
  ASSUME TreeAssumption, KillInv,
         Terminate \/ ForceCheck
  PROVE  KillInv'
<1> USE DEF KillInv
<1>1. /\ phase \in {"terminate", "force"} /\ UNCHANGED <<table, runs, targets, attempted, result, sent>>
      /\ result = "none"
  <2>1. phase # "done" => result = "none"
    BY DEF Unended
  <2> HIDE DEF KillInv
  <2>2. CASE Terminate
    BY <2>1, <2>2 DEF Terminate, Check
  <2>3. CASE ForceCheck
    BY <2>1, <2>3 DEF ForceCheck, Check
  <2> QED BY <2>2, <2>3
<1>2. \/ left = {} /\ left' = targets /\ seen' = seen /\ forced' = forced
         /\ phase' = IF phase = "terminate" THEN "grace" ELSE "poll"
      \/ left # {} /\ ~Same(Member) /\ left' = left \ {Member} /\ phase' = phase /\ seen' = seen /\ forced' = forced
      \/ left # {} /\ Same(Member) /\ left' = left /\ seen' = runs /\ forced' \in BOOLEAN
         /\ phase' = IF phase = "terminate" THEN "sendTerminate" ELSE "sendForce"
  <2>1. forced \in BOOLEAN
    BY DEF TreeTypeOK
  <2> HIDE DEF KillInv
  <2>2. CASE Terminate
    BY <2>1, <2>2 DEF Terminate, Check, AtEnd, Again, Pass
  <2>3. CASE ForceCheck
    BY <2>1, <2>3 DEF ForceCheck, Check, AtEnd, Again, Pass
  <2> QED BY <2>2, <2>3
<1>3. /\ \A p : Identity(p)' = Identity(p)
      /\ \A m : Same(m)' <=> Same(m)
      /\ \A r : Alive(r)' <=> Alive(r)
      /\ RunsAreNew' /\ seen' \in 0..MaxRuns /\ TargetsAreExact'
  BY <1>1, <1>2, ThreadKeeps
<1>4. left \subseteq targets /\ left' \subseteq targets
  BY <1>2 DEF TreeTypeOK
<1>5. TreeTypeOK'
  <2>1. phase' \in Phases /\ forced' \in BOOLEAN
    BY <1>1, <1>2 DEF Phases, TreeTypeOK
  <2> QED BY <1>1, <1>3, <1>4, <2>1 DEF TreeTypeOK
<1>6. \A m : (Asked(m)' <=> Asked(m)) /\ (Settled(m)' <=> Settled(m))
  BY <1>1, <1>3 DEF Asked, Settled
<1>7. left # {} => Member \in left /\ Member \in targets /\ \A n \in left : ~(n.depth > Member.depth)
  BY MemberIs
<1>8. CheckedIsOwn'
  <2>1. CASE phase' \notin {"sendTerminate", "sendForce"}
    BY <2>1 DEF CheckedIsOwn
  <2>2. CASE phase' \in {"sendTerminate", "sendForce"}
    <3>1. left' = left /\ left # {} /\ Same(Member)
      BY <1>1, <1>2, <2>2
    <3>2. Member' = Member
      BY <3>1 DEF Member, Before
    <3>3. Identity(Member.pid)' = Member.run
      BY <1>3, <3>1, <3>2 DEF Same
    <3> HIDE DEF KillInv
    <3> QED BY <3>1, <3>2, <3>3 DEF CheckedIsOwn
  <2> QED BY <2>1, <2>2
<1>9. PassedIsSettled'
  <2>1. CASE phase = "terminate"
    <3>1. /\ \A m \in targets \ left : Settled(m) /\ \A n \in left : ~(n.depth > m.depth)
          /\ \A m \in left : ~Asked(m)
      BY <2>1 DEF PassedIsSettled
    <3>2. CASE left = {}
      BY <1>1, <1>2, <1>6, <2>1, <3>1, <3>2 DEF PassedIsSettled
    <3>3. CASE left # {}
      <4>1. phase' \in {"terminate", "sendTerminate"} /\ (left' = left \/ (left' = left \ {Member} /\ ~Same(Member)))
        BY <1>2, <2>1, <3>3
      <4>2. \A m \in targets \ left' : Settled(m)' /\ \A n \in left' : ~(n.depth > m.depth)
        BY <1>6, <1>7, <3>1, <3>3, <4>1 DEF Settled
      <4>3. \A m \in left' : ~Asked(m)'
        BY <1>6, <3>1, <4>1
      <4> HIDE DEF KillInv
      <4> QED BY <1>1, <4>1, <4>2, <4>3 DEF PassedIsSettled
    <3> QED BY <3>2, <3>3
  <2>2. CASE phase = "force"
    <3>1. \A m \in targets : Settled(m)
      BY <2>2 DEF PassedIsSettled
    <3>2. phase' \in {"force", "sendForce", "poll"}
      BY <1>2, <2>2
    <3> QED BY <1>1, <1>6, <3>1, <3>2 DEF PassedIsSettled
  <2> QED BY <1>1, <2>1, <2>2
<1>10. Unended' /\ OnlyTheApproved'
  BY <1>1 DEF Unended, OnlyTheApproved
<1>11. DeepestFirst'
  BY <1>1, <1>3, <1>6 DEF DeepestFirst
<1>12. SuccessMeansGone'
  BY <1>1, <1>3 DEF SuccessMeansGone
<1> QED BY <1>3, <1>5, <1>8, <1>9, <1>10, <1>11, <1>12

(* Either loop's signal.                                                   *)
LEMMA SendKeeps ==
  ASSUME TreeAssumption, KillInv, SendTerminate \/ SendForce
  PROVE  KillInv'
<1> USE DEF KillInv
<1> DEFINE loop == IF phase = "sendTerminate" THEN "terminate" ELSE "force"
           sending(rung) == [rung |-> rung, member |-> Member.run, hit |-> Identity(Member.pid), seen |-> seen]
<1>1. /\ phase \in {"sendTerminate", "sendForce"} /\ UNCHANGED <<table, runs, targets, seen, forced>>
      /\ result = "none" /\ left # {}
  <2>1. phase # "done" => result = "none"
    BY DEF Unended
  <2>2. phase \in {"sendTerminate", "sendForce"} => left # {}
    BY DEF CheckedIsOwn
  <2> HIDE DEF KillInv
  <2>3. CASE SendTerminate
    BY <2>1, <2>2, <2>3 DEF SendTerminate, Send
  <2>4. CASE SendForce
    BY <2>1, <2>2, <2>4 DEF SendForce, Send
  <2> QED BY <2>3, <2>4
<1>2. \/ /\ table[Member.pid] # Free
         /\ \E rung \in {"terminate", "force"} : sent' = sent \cup {sending(rung)}
         /\ attempted' = attempted + 1 /\ left' = left \ {Member} /\ phase' = loop /\ result' = result
      \/ /\ phase' = "done" /\ result' \in Refusals
         /\ UNCHANGED <<left, attempted, sent>>
  <2> HIDE DEF KillInv
  <2>1. CASE SendTerminate
    BY <2>1 DEF SendTerminate, Send, Finish, Pass, Refusals
  <2>2. CASE SendForce
    BY <2>2 DEF SendForce, Send, Finish, Pass, Refusals
  <2> QED BY <2>1, <2>2
<1>3. /\ Member \in left /\ Member \in targets
      /\ \A n \in left : ~(n.depth > Member.depth)
  BY <1>1, MemberIs
<1>4. /\ \A p : Identity(p)' = Identity(p)
      /\ \A m : Same(m)' <=> Same(m)
      /\ \A r : Alive(r)' <=> Alive(r)
      /\ RunsAreNew' /\ TargetsAreExact'
  BY <1>1, ThreadKeeps
<1>5. TreeTypeOK' /\ sent' \subseteq Signals
  <2>1. left' \subseteq targets /\ attempted' \in Nat /\ phase' \in Phases
    BY <1>1, <1>2 DEF TreeTypeOK, Phases
  <2>2. result' \in {"none"} \cup Refusals \cup Outcomes
    BY <1>1, <1>2
  <2>3. ASSUME table[Member.pid] # Free, NEW rung \in {"terminate", "force"}
        PROVE  sending(rung) \in Signals
    <3>1. Member.pid \in Pid /\ Member.run \in 1..MaxRuns
      BY <1>3, TargetIs
    <3>2. Identity(Member.pid) \in 1..MaxRuns
      BY <2>3, <3>1, IdentityIs
    <3>3. seen \in 0..MaxRuns
      BY DEF TreeTypeOK
    <3> QED BY <3>1, <3>2, <3>3 DEF Signals, ProcessRun
  <2>4. sent' \subseteq Signals
    BY <1>2, <2>3 DEF TreeTypeOK
  <2> QED BY <1>1, <2>1, <2>2, <2>4 DEF TreeTypeOK
<1>6. CheckedIsOwn' /\ Unended'
  BY <1>1, <1>2 DEF CheckedIsOwn, Unended
<1>7. SuccessMeansGone'
  BY <1>1, <1>2 DEF SuccessMeansGone, Outcomes, Refusals
<1>8. CASE phase' = "done" /\ UNCHANGED <<left, attempted, sent>>
  <2>1. PassedIsSettled' /\ OnlyTheApproved'
    BY <1>8 DEF PassedIsSettled, OnlyTheApproved
  <2>2. DeepestFirst'
    BY <1>1, <1>4, <1>8 DEF DeepestFirst, Asked
  <2> QED BY <1>4, <1>5, <1>6, <1>7, <2>1, <2>2
<1>9. ASSUME table[Member.pid] # Free, NEW rung \in {"terminate", "force"},
             sent' = sent \cup {sending(rung)}, left' = left \ {Member}, phase' = loop
      PROVE  PassedIsSettled' /\ OnlyTheApproved' /\ DeepestFirst'
  <2>1. \A r : (\E s \in sent' : s.member = r) <=> (\E s \in sent : s.member = r) \/ r = Member.run
    <3>1. sending(rung).member = Member.run
      OBVIOUS
    <3> HIDE DEF KillInv, sending
    <3> QED BY <1>9, <3>1
  <2>2. ASSUME NEW m \in targets PROVE Asked(m)' <=> Asked(m) \/ m = Member
    <3>1. Asked(m)' <=> Asked(m) \/ m.run = Member.run
      BY <2>1 DEF Asked
    <3>2. m.run = Member.run => m = Member
      BY <1>3 DEF TargetsAreExact
    <3> QED BY <3>1, <3>2
  <2>3. \A m \in targets : Settled(m) \/ m = Member => Settled(m)'
    BY <1>3, <1>4, <2>2 DEF Settled
  <2>4. OnlyTheApproved'
    <3>1. Identity(Member.pid) = Member.run \/ Identity(Member.pid) > seen
      <4>1. Identity(Member.pid) # 0
        <5>1. Member.pid \in Pid
          BY <1>3, TargetIs
        <5>2. Identity(Member.pid) \in 1..MaxRuns
          BY <1>9, <5>1, IdentityIs
        <5> QED BY <5>2
      <4> QED BY <1>1, <4>1 DEF CheckedIsOwn
    <3>2. \A s \in sent : s.hit = s.member \/ s.hit > s.seen
      BY DEF OnlyTheApproved
    <3>3. sending(rung).hit = sending(rung).member \/ sending(rung).hit > sending(rung).seen
      BY <3>1
    <3> QED BY <1>9, <3>2, <3>3 DEF OnlyTheApproved
  <2>5. CASE phase = "sendTerminate"
    <3>1. /\ \A m \in targets \ left : Settled(m) /\ \A n \in left : ~(n.depth > m.depth)
          /\ \A m \in left : ~Asked(m)
      BY <2>5 DEF PassedIsSettled
    <3>2. \A m \in targets \ left' : Settled(m)' /\ \A n \in left' : ~(n.depth > m.depth)
      BY <1>3, <1>9, <2>3, <3>1
    <3>3. \A m \in left' : ~Asked(m)'
      BY <1>9, <2>2, <3>1 DEF TreeTypeOK
    <3>4. PassedIsSettled'
      BY <1>1, <1>9, <2>5, <3>2, <3>3 DEF PassedIsSettled
    <3>5. DeepestFirst'
      <4> SUFFICES ASSUME NEW m \in targets, NEW n \in targets, Asked(m)', n.depth > m.depth
                   PROVE  ~Same(n)' \/ Asked(n)'
        BY <1>1 DEF DeepestFirst
      <4>1. CASE Asked(m)
        BY <1>4, <2>2, <4>1 DEF DeepestFirst
      <4>2. CASE m = Member
        <5>1. n \notin left
          BY <1>3, <4>2
        <5>2. Settled(n)
          BY <3>1, <5>1
        <5> QED BY <1>4, <2>2, <5>2 DEF Settled
      <4> QED BY <2>2, <4>1, <4>2
    <3> QED BY <2>4, <3>4, <3>5
  <2>6. CASE phase = "sendForce"
    <3>1. \A m \in targets : Settled(m)'
      BY <2>3, <2>6 DEF PassedIsSettled
    <3>2. PassedIsSettled'
      BY <1>1, <1>9, <2>6, <3>1 DEF PassedIsSettled
    <3>3. DeepestFirst'
      BY <1>1, <3>1 DEF DeepestFirst, Settled
    <3> QED BY <2>4, <3>2, <3>3
  <2> QED BY <1>1, <2>5, <2>6
<1> QED BY <1>2, <1>4, <1>5, <1>6, <1>7, <1>8, <1>9

(* Either wait: a success is only told when every target is gone.          *)
LEMMA WaitKeeps == ASSUME TreeAssumption, KillInv, Grace \/ Poll PROVE KillInv'
<1> USE DEF KillInv
<1>1. /\ phase \in {"grace", "poll"} /\ result = "none"
      /\ UNCHANGED <<table, runs, targets, left, seen, attempted, forced, sent>>
  BY DEF Grace, Poll, Unended
<1>2. \/ phase' = "force" /\ result' = "none"
      \/ phase' = "done" /\ result' \in Refusals \cup Outcomes /\ (result' \in Outcomes => AllGone)
  <2> HIDE DEF KillInv
  <2>1. CASE Grace
    BY <1>1, <2>1 DEF Grace, Finish, Refusals, Outcomes
  <2>2. CASE Poll
    BY <1>1, <2>2 DEF Poll, Finish, Refusals, Outcomes
  <2> QED BY <2>1, <2>2
<1>3. /\ \A m : Same(m)' <=> Same(m)
      /\ \A r : Alive(r)' <=> Alive(r)
      /\ RunsAreNew' /\ TargetsAreExact'
  BY <1>1, ThreadKeeps
<1>4. TreeTypeOK'
  BY <1>1, <1>2 DEF TreeTypeOK, Phases
<1>5. CheckedIsOwn' /\ Unended' /\ OnlyTheApproved'
  BY <1>1, <1>2 DEF CheckedIsOwn, Unended, OnlyTheApproved
<1>6. PassedIsSettled'
  BY <1>1, <1>2, <1>3 DEF PassedIsSettled, Settled, Asked
<1>7. DeepestFirst'
  BY <1>1, <1>3 DEF DeepestFirst, Asked
<1>8. SuccessMeansGone'
  <2> SUFFICES ASSUME AllGone, NEW m \in targets, Alive(m.run) PROVE FALSE
    BY <1>1, <1>2, <1>3 DEF SuccessMeansGone, Outcomes
  <2>1. PICK p \in Pid : Identity(p) = m.run
    BY DEF Alive
  <2> QED BY <2>1 DEF AllGone, Same, TargetsAreExact
<1> QED BY <1>3, <1>4, <1>5, <1>6, <1>7, <1>8

LEMMA KillInvStep ==
  ASSUME TreeAssumption, KillInv, [TreeNext]_treeVars
  PROVE  KillInv'
<1>1. ASSUME NEW p \in Pid, Fork(p) PROVE KillInv'
  BY <1>1, SpawnKeeps DEF Fork
<1>2. ASSUME NEW p \in Pid, Launch(p) PROVE KillInv'
  BY <1>2, SpawnKeeps DEF Launch
<1>3. ASSUME NEW p \in Pid, Quit(p) PROVE KillInv'
  BY <1>3, QuitKeeps
<1>4. ASSUME Step PROVE KillInv'
  BY <1>4, SnapshotKeeps, PreflightKeeps, CheckKeeps, SendKeeps, WaitKeeps DEF Step
<1>5. ASSUME UNCHANGED treeVars PROVE KillInv'
  <2>1. UNCHANGED code /\ table' = table /\ runs' = runs
    BY <1>5 DEF treeVars, code
  <2>2. TreeTypeOK'
    BY <1>5 DEF KillInv, TreeTypeOK, treeVars
  <2>3. RunsAreNew' /\ runs <= runs' /\ \A p \in Pid : Identity(p)' = Identity(p)
    BY <1>5, <2>1, ThreadKeeps DEF treeVars, KillInv, TreeTypeOK, TreeAssumption
  <2> QED BY <2>1, <2>2, <2>3, MachineKeeps
<1> QED BY <1>1, <1>2, <1>3, <1>4, <1>5 DEF TreeNext

LEMMA KillInvHolds == ASSUME TreeAssumption PROVE TreeSpec => []KillInv
<1>1. TreeInit => KillInv
  BY KillInvStarts
<1>2. KillInv /\ [TreeNext]_treeVars => KillInv'
  BY KillInvStep
<1> QED BY <1>1, <1>2, PTL DEF TreeSpec

(* Whatever processes come, go and take over pids during a stop, a signal  *)
(* hits the process that was approved, or one that started after the last  *)
(* check of that pid: the window of execute.rs:5-7 and no other.           *)
THEOREM StopsTheApproved == ASSUME TreeAssumption PROVE TreeSpec => []OnlyTheApproved
<1>1. KillInv => OnlyTheApproved
  BY DEF KillInv
<1> QED BY <1>1, KillInvHolds, PTL

(* No member is asked before one that is deeper in the snapshot and still  *)
(* runs (execute.rs:12-13).                                                *)
THEOREM StopsTheDeepestFirst == ASSUME TreeAssumption PROVE TreeSpec => []DeepestFirst
<1>1. KillInv => DeepestFirst
  BY DEF KillInv
<1> QED BY <1>1, KillInvHolds, PTL

(* A stop that reports success leaves no process of the snapshot running.  *)
THEOREM SuccessIsGone == ASSUME TreeAssumption PROVE TreeSpec => []SuccessMeansGone
<1>1. KillInv => SuccessMeansGone
  BY DEF KillInv
<1> QED BY <1>1, KillInvHolds, PTL

-----------------------------------------------------------------------------
(***************************************************************************)
(* Desktop, for any pids, agents, tasks, looks and acts.                   *)
(***************************************************************************)
Found == [run : Nat, grade : Grade]
Agents == [AgentPid -> Found]
Reports == [at : Nat, agents : Agents, rules : Seq(Nat)]
Kinds == {"none", "sweep", "swept", "broken", "stop", "clear", "remove"}
Tasks == [kind : Kinds, about : Nat, got : Reports]
Slot == 1..MaxTasks
SweepKinds == {"sweep", "swept", "broken"}

DesktopTypeOK ==
  /\ machine \in Agents /\ hostRuns \in Nat /\ hostRuns >= MaxPid
  /\ policy \in Seq(Nat)
  /\ tasks \in [Slot -> Tasks]
  /\ report \in Reports
  /\ selected \in Nat /\ stopping \in Nat /\ looks \in Nat /\ prompted \in Nat
  /\ sweeping \in BOOLEAN /\ notify \in BOOLEAN /\ repeats \in BOOLEAN
  /\ raised \in [AgentPid -> Grade \cup {"none"}]

(* Sweeps do not pile up.                                                  *)
AtMostOne(ts, busy) ==
  /\ \A s, t \in Slot : ts[s].kind \in SweepKinds /\ ts[t].kind \in SweepKinds => s = t
  /\ \A s \in Slot : ts[s].kind \in SweepKinds => busy
OneSweep == "clear" \notin lapsed => AtMostOne(tasks, sweeping)

(* Only a finished sweep has found agents, and a run it found in place of  *)
(* the first one of a pid has that pid for good.                           *)
FoundIsPast ==
  \A s \in Slot, p \in AgentPid :
    LET run == tasks[s].got.agents[p].run
    IN /\ tasks[s].kind # "swept" => run = 0
       /\ run # 0 /\ run # p => machine[p].run # p

(* The first run of a pid is no more, and no sweep has it.                 *)
Gone(p) == machine[p].run # p /\ \A s \in Slot : tasks[s].got.agents[p].run # p

(* An entry for a pid is of an announcement, as long as its run is there.  *)
RaisedIsTold ==
  lapsed = {} => \A p \in AgentPid :
    raised[p] # "none" => Gone(p) \/ [run |-> p, grade |-> raised[p]] \in alarmed

ShownIsTold ==
  lapsed = {} => \A p \in AgentPid :
    LET a == report.agents[p] IN a.run = p /\ Worth(a.grade) => a \in alarmed

(* What is shown has been entered, so that it is no news.                  *)
ShownIsRaised ==
  "notify" \notin lapsed =>
    /\ notify /\ ~repeats
    /\ \A p \in AgentPid : LET a == report.agents[p]
                           IN a.run # 0 /\ Worth(a.grade) => raised[p] = a.grade

SelectedIsShown == selected # 0 => selected \in AgentPid /\ report.agents[selected].run # 0

Announcing == FoundIsPast /\ RaisedIsTold /\ ShownIsTold /\ ShownIsRaised
DesktopInv == DesktopTypeOK /\ OneSweep /\ Announcing /\ SelectedIsShown
-----------------------------------------------------------------------------
LEMMA NoReportIsReport ==
  /\ NoReport \in Reports /\ None \in Found
  /\ \A p \in AgentPid : NoReport.agents[p].run = 0
<1>1. None \in Found /\ None.run = 0
  BY DEF None, Found, Grade
<1>2. [p \in AgentPid |-> None] \in Agents
  BY <1>1 DEF Agents
<1>3. <<>> \in Seq(Nat)
  OBVIOUS
<1> QED
  BY <1>1, <1>2, <1>3 DEF NoReport, Reports

LEMMA TaskIsTask ==
  ASSUME NEW kind \in Kinds, NEW about \in Nat
  PROVE  /\ Task(kind, about) \in Tasks /\ Task(kind, about).kind = kind
         /\ Task(kind, about).got = NoReport
         /\ Idle \in Tasks /\ Idle.kind = "none" /\ Idle.got = NoReport
BY NoReportIsReport DEF Task, Idle, Tasks, Kinds

(* A task is put in a slot that was free.                                  *)
LEMMA PerformFills ==
  ASSUME DesktopAssumption, NEW taken \in [Slot -> Tasks], NEW task \in Tasks, Perform(taken, task)
  PROVE  \E f \in Slot : taken[f].kind = "none" /\ tasks' = [taken EXCEPT ![f] = task]
<1> DEFINE free == {s \in DOMAIN taken : taken[s].kind = "none"}
           first == CHOOSE s \in free : \A r \in free : s <= r
<1>1. free # {} /\ tasks' = [taken EXCEPT ![first] = task]
  BY DEF Perform
<1>2. free \in SUBSET Nat /\ free \subseteq Slot
  BY DEF Slot
<1>3. \E s \in free : \A r \in free : s <= r
  BY <1>1, <1>2, Smallest
<1> HIDE DEF free
<1>4. first \in free
  BY <1>3
<1> HIDE DEF first
<1> QED
  BY <1>1, <1>2, <1>4 DEF free

(* Another task beside those that run is not a sweep.                      *)
LEMMA PerformKeeps ==
  ASSUME DesktopAssumption, NEW taken \in [Slot -> Tasks], NEW task \in Tasks, Perform(taken, task),
         NEW busy, AtMostOne(taken, busy) \/ task.kind \notin SweepKinds
  PROVE  /\ tasks' \in [Slot -> Tasks]
         /\ \A s \in Slot : tasks'[s] = taken[s] \/ tasks'[s] = task
         /\ task.kind \notin SweepKinds /\ AtMostOne(taken, busy) => AtMostOne(tasks', busy)
<1>1. PICK f \in Slot : taken[f].kind = "none" /\ tasks' = [taken EXCEPT ![f] = task]
  BY PerformFills
<1>2. /\ tasks' \in [Slot -> Tasks]
      /\ \A s \in Slot : tasks'[s] = IF s = f THEN task ELSE taken[s]
  BY <1>1
<1> QED
  BY <1>2 DEF AtMostOne

LEMMA AskSweepKeeps ==
  ASSUME DesktopAssumption, sweeping \in BOOLEAN, NEW taken \in [Slot -> Tasks], AskSweep(taken)
  PROVE  /\ tasks' \in [Slot -> Tasks] /\ sweeping' \in BOOLEAN
         /\ \A s \in Slot : tasks'[s] = taken[s] \/ tasks'[s] = Task("sweep", 0)
         /\ AtMostOne(taken, sweeping) => AtMostOne(tasks', sweeping')
<1>1. CASE sweeping /\ tasks' = taken /\ UNCHANGED sweeping
  BY <1>1
<1>2. CASE ~sweeping /\ sweeping' = TRUE /\ Perform(taken, Task("sweep", 0))
  <2>1. Task("sweep", 0) \in Tasks
    BY TaskIsTask DEF Kinds
  <2>2. PICK f \in Slot : taken[f].kind = "none" /\ tasks' = [taken EXCEPT ![f] = Task("sweep", 0)]
    BY <1>2, <2>1, PerformFills
  <2>3. /\ tasks' \in [Slot -> Tasks]
        /\ \A s \in Slot : tasks'[s] = IF s = f THEN Task("sweep", 0) ELSE taken[s]
    BY <2>1, <2>2
  <2> QED
    BY <1>2, <2>3 DEF AtMostOne
<1> QED
  BY <1>1, <1>2 DEF AskSweep

(* Rank orders the grades, and pids are ordered, so that there is a worst. *)
LEMMA WorstIsThere ==
  ASSUME DesktopAssumption, NEW agents \in Agents
  PROVE  Worst(agents) = 0 \/ (Worst(agents) \in AgentPid /\ agents[Worst(agents)].run # 0)
<1> DEFINE there == {p \in AgentPid : agents[p].run # 0}
           top == {p \in there : \A q \in there : Rank(agents[q].grade) <= Rank(agents[p].grade)}
           worst == CHOOSE p \in top : \A q \in top : q <= p
<1>1. CASE there = {}
  BY <1>1 DEF Worst
<1>2. CASE there # {}
  <2>1. \A p \in AgentPid : Rank(agents[p].grade) \in 1..3
    <3>1. \A p \in AgentPid : agents[p].grade \in Grade
      BY DEF Agents, Found
    <3> QED
      BY <3>1 DEF Rank, Grade
  <2>2. top # {}
    <3> DEFINE gaps == {3 - Rank(agents[p].grade) : p \in there}
    <3>1. gaps \in SUBSET Nat /\ gaps # {}
      BY <1>2, <2>1
    <3>2. PICK x \in gaps : \A y \in gaps : x <= y
      BY <3>1, Smallest
    <3>3. PICK p \in there : x = 3 - Rank(agents[p].grade)
      BY <3>2
    <3>4. ASSUME NEW q \in there PROVE Rank(agents[q].grade) <= Rank(agents[p].grade)
      <4>1. x <= 3 - Rank(agents[q].grade)
        BY <3>2
      <4> QED
        BY <2>1, <3>3, <4>1
    <3> QED
      BY <3>4
  <2>3. \E p \in top : \A q \in top : q <= p
    <3> DEFINE gaps == {MaxPid - p : p \in top}
    <3>1. gaps \in SUBSET Nat /\ gaps # {} /\ top \subseteq Nat
      BY <2>2 DEF AgentPid, DesktopAssumption
    <3>2. PICK x \in gaps : \A y \in gaps : x <= y
      BY <3>1, Smallest
    <3>3. PICK p \in top : x = MaxPid - p
      BY <3>2
    <3>4. \A q \in top : MaxPid - p <= MaxPid - q
      BY <3>2, <3>3
    <3> HIDE DEF top
    <3> QED
      BY <3>1, <3>3, <3>4 DEF DesktopAssumption
  <2>4. worst \in top
    BY <2>3
  <2>5. Worst(agents) = worst
    BY <1>2 DEF Worst
  <2> HIDE DEF worst
  <2> QED
    BY <2>4, <2>5
<1> QED
  BY <1>1, <1>2

LEMMA RemoveAtTyped ==
  ASSUME NEW S, NEW s \in Seq(S), NEW n \in DOMAIN s
  PROVE  RemoveAt(s, n) \in Seq(S)
<1>1. Len(s) \in Nat /\ n \in 1..Len(s) /\ \A i \in 1..Len(s) : s[i] \in S
  OBVIOUS
<1>2. SubSeq(s, 1, n - 1) \in Seq(S)
  <2>1. 1 \in Int /\ n - 1 \in Int /\ \A i \in 1..n - 1 : s[i] \in S
    BY <1>1
  <2> QED
    BY <2>1, SubSeqProperties
<1>3. SubSeq(s, n + 1, Len(s)) \in Seq(S)
  <2>1. n + 1 \in Int /\ Len(s) \in Int /\ \A i \in n + 1..Len(s) : s[i] \in S
    BY <1>1
  <2> QED
    BY <2>1, SubSeqProperties
<1> QED
  BY <1>2, <1>3, ConcatProperties DEF RemoveAt
-----------------------------------------------------------------------------
LEMMA DesktopInvStarts ==
  ASSUME DesktopAssumption, DesktopInit
  PROVE  DesktopInv
<1>1. PICK g \in [AgentPid -> Grade] : machine = [p \in AgentPid |-> [run |-> p, grade |-> g[p]]]
  BY DEF DesktopInit
<1>2. machine \in Agents
  <2>1. \A p \in AgentPid : [run |-> p, grade |-> g[p]] \in Found
    BY DEF Found, AgentPid
  <2> QED
    BY <1>1, <2>1 DEF Agents
<1>3. Task("sweep", 0) \in Tasks /\ Idle \in Tasks /\ Idle.kind = "none"
      /\ Task("sweep", 0).kind = "sweep" /\ Task("sweep", 0).got = NoReport /\ Idle.got = NoReport
  BY TaskIsTask DEF Kinds
<1>4. /\ tasks \in [Slot -> Tasks]
      /\ \A s \in Slot : tasks[s] = IF s = 1 THEN Task("sweep", 0) ELSE Idle
  BY <1>3 DEF DesktopInit, Slot
<1>5. policy \in Seq(Nat)
  BY DEF DesktopInit, DesktopAssumption
<1>6. DesktopTypeOK
  <2>1. hostRuns \in Nat /\ hostRuns >= MaxPid
    BY DEF DesktopInit, DesktopAssumption
  <2>2. raised \in [AgentPid -> Grade \cup {"none"}]
    BY DEF DesktopInit
  <2>3. /\ selected \in Nat /\ stopping \in Nat /\ looks \in Nat /\ prompted \in Nat
        /\ sweeping \in BOOLEAN /\ notify \in BOOLEAN /\ repeats \in BOOLEAN /\ report \in Reports
    BY NoReportIsReport DEF DesktopInit
  <2> QED
    BY <1>2, <1>4, <1>5, <2>1, <2>2, <2>3 DEF DesktopTypeOK
<1>7. OneSweep
  BY <1>3, <1>4 DEF DesktopInit, OneSweep, AtMostOne, SweepKinds
<1>8. \A p \in AgentPid : report.agents[p].run = 0 /\ raised[p] = "none"
  BY NoReportIsReport DEF DesktopInit
<1>9. \A p \in AgentPid : p # 0
  BY DEF AgentPid
<1>10. FoundIsPast
  BY <1>3, <1>4, NoReportIsReport DEF FoundIsPast
<1>11. RaisedIsTold /\ ShownIsTold /\ ShownIsRaised /\ SelectedIsShown
  BY <1>8, <1>9 DEF DesktopInit, RaisedIsTold, ShownIsTold, ShownIsRaised, SelectedIsShown
<1> QED
  BY <1>6, <1>7, <1>10, <1>11 DEF DesktopInv, Announcing

(* A step of the machine, the operator or a task that draws no report.     *)
LEMMA QuietKeeps ==
  ASSUME DesktopAssumption, DesktopInv, DesktopTypeOK',
         \A p \in AgentPid : machine[p].run # p => machine'[p].run # p,
         \A s \in Slot : \/ tasks'[s] = tasks[s]
                         \/ \A p \in AgentPid : tasks'[s].got.agents[p].run = 0
                         \/ tasks'[s].kind = "swept" /\ tasks'[s].got.agents = machine
                              /\ machine' = machine,
         UNCHANGED <<report, raised, alarmed, repeats>>,
         lapsed \subseteq lapsed', notify' = notify \/ "notify" \in lapsed'
  PROVE  Announcing'
<1> USE DEF DesktopInv, Announcing
<1>1. FoundIsPast'
  <2> SUFFICES ASSUME NEW s \in Slot, NEW p \in AgentPid
               PROVE  LET run == tasks'[s].got.agents[p].run
                      IN /\ tasks'[s].kind # "swept" => run = 0
                         /\ run # 0 /\ run # p => machine'[p].run # p
    BY DEF FoundIsPast
  <2>1. CASE tasks'[s] = tasks[s]
    BY <2>1 DEF FoundIsPast
  <2>2. CASE \A q \in AgentPid : tasks'[s].got.agents[q].run = 0
    BY <2>2
  <2>3. CASE tasks'[s].kind = "swept" /\ tasks'[s].got.agents = machine /\ machine' = machine
    BY <2>3
  <2> QED
    BY <2>1, <2>2, <2>3
<1>2. ASSUME NEW p \in AgentPid, Gone(p)
      PROVE  Gone(p)'
  <2>1. p # 0
    BY DEF AgentPid
  <2>2. ASSUME NEW s \in Slot PROVE tasks'[s].got.agents[p].run # p
    BY <1>2, <2>1 DEF Gone
  <2> QED
    BY <1>2, <2>2 DEF Gone
<1>3. lapsed' = {} => lapsed = {}
  OBVIOUS
<1>4. RaisedIsTold'
  BY <1>2, <1>3 DEF RaisedIsTold
<1>5. ShownIsTold'
  BY <1>3 DEF ShownIsTold
<1>6. ShownIsRaised'
  BY DEF ShownIsRaised
<1> QED
  BY <1>1, <1>4, <1>5, <1>6

(* The answer of a sweep.                                                  *)
LEMMA SweptKeeps ==
  ASSUME DesktopAssumption, DesktopInv, NEW s \in Slot, Swept(s)
  PROVE  DesktopInv'
<1> USE DEF DesktopInv, Announcing
<1> DEFINE got == tasks[s].got
           told == IF notify THEN Announced(got.agents) ELSE {}
<1>1. /\ tasks[s].kind \in {"swept", "broken"} /\ tasks' = [tasks EXCEPT ![s] = Idle]
      /\ sweeping' = FALSE
      /\ UNCHANGED <<machine, hostRuns, policy, stopping, notify, looks, prompted, lapsed>>
  BY DEF Swept, machineVars, settings
<1>2. /\ tasks' \in [Slot -> Tasks]
      /\ \A t \in Slot : tasks'[t] = IF t = s THEN Idle ELSE tasks[t]
      /\ Idle.kind = "none" /\ Idle.got = NoReport
  BY <1>1, TaskIsTask DEF DesktopTypeOK, Kinds
<1>3. got \in Reports /\ got.agents \in Agents
  BY DEF DesktopTypeOK, Tasks, Reports
<1>4. \A t \in Slot : \A p \in AgentPid : t = s => tasks'[t].got.agents[p].run = 0
  BY <1>2, NoReportIsReport
<1>5. OneSweep'
  BY <1>1, <1>2 DEF OneSweep, AtMostOne, SweepKinds
<1>6. CASE tasks[s].kind = "broken"
  <2>1. UNCHANGED <<report, selected, raised, alarmed, repeats>>
    BY <1>6 DEF Swept
  <2>2. DesktopTypeOK'
    BY <1>1, <1>2, <2>1 DEF DesktopTypeOK
  <2>3. Announcing'
    BY <1>1, <1>2, <1>4, <2>1, <2>2, QuietKeeps
  <2> QED
    BY <1>5, <2>1, <2>2, <2>3 DEF SelectedIsShown
<1>7. CASE tasks[s].kind = "swept"
  <2>1. /\ report' = got
        /\ selected' = IF selected # 0 /\ got.agents[selected].run # 0 THEN selected
                       ELSE Worst(got.agents)
        /\ raised' = IF notify THEN Raised(got.agents) ELSE raised
        /\ alarmed' = alarmed \cup {got.agents[p] : p \in told}
        /\ repeats' = (repeats \/ \E p \in told : report.agents[p] = got.agents[p])
    BY <1>7 DEF Swept
  <2>2. \A p \in AgentPid : got.agents[p] \in Found
    BY <1>3 DEF Agents
  <2>3. raised' \in [AgentPid -> Grade \cup {"none"}]
    BY <2>1, <2>2 DEF Raised, Found, DesktopTypeOK
  <2>4. SelectedIsShown' /\ selected' \in Nat
    <3>1. CASE selected # 0 /\ got.agents[selected].run # 0
      BY <2>1, <3>1 DEF SelectedIsShown, DesktopTypeOK
    <3>2. CASE ~(selected # 0 /\ got.agents[selected].run # 0)
      <4>1. selected' = Worst(got.agents) /\ report' = got
        BY <2>1, <3>2
      <4>2. PICK w : w = Worst(got.agents)
        OBVIOUS
      <4>3. w = 0 \/ (w \in AgentPid /\ got.agents[w].run # 0)
        BY <1>3, <4>2, WorstIsThere
      <4>4. w \in Nat
        BY <4>3 DEF AgentPid
      <4> QED
        BY <4>1, <4>2, <4>3, <4>4 DEF SelectedIsShown
    <3> QED
      BY <3>1, <3>2
  <2>5. DesktopTypeOK'
    BY <1>1, <1>2, <1>3, <2>1, <2>3, <2>4 DEF DesktopTypeOK
  <2>6. FoundIsPast'
    BY <1>1, <1>2, <1>4 DEF FoundIsPast
  <2>7. \A p \in AgentPid : p # 0
    BY DEF AgentPid
  <2>8. ASSUME "notify" \notin lapsed, NEW p \in AgentPid
        PROVE  /\ raised'[p] = IF got.agents[p].run = 0 THEN raised[p]
                               ELSE IF Worth(got.agents[p].grade) THEN got.agents[p].grade ELSE "none"
               /\ p \in told <=> /\ got.agents[p].run # 0 /\ Worth(got.agents[p].grade)
                                 /\ raised[p] # got.agents[p].grade
    <3>1. notify
      BY <2>8 DEF ShownIsRaised
    <3> QED
      BY <2>1, <3>1 DEF Raised, Announced
  <2>9. ShownIsRaised'
    <3> SUFFICES ASSUME "notify" \notin lapsed
                 PROVE  /\ notify /\ ~repeats'
                        /\ \A p \in AgentPid : got.agents[p].run # 0 /\ Worth(got.agents[p].grade) =>
                             raised'[p] = got.agents[p].grade
      BY <1>1, <2>1 DEF ShownIsRaised
    <3>1. notify /\ ~repeats
      BY DEF ShownIsRaised
    <3>2. told \subseteq AgentPid
      BY DEF Announced
    <3>3. ~\E p \in told : report.agents[p] = got.agents[p]
      <4> SUFFICES ASSUME NEW p \in told, report.agents[p] = got.agents[p] PROVE FALSE
        OBVIOUS
      <4>1. p \in AgentPid
        BY <3>2
      <4>2. /\ got.agents[p].run # 0 /\ Worth(got.agents[p].grade)
            /\ raised[p] # got.agents[p].grade
        BY <2>8, <4>1
      <4> QED
        BY <4>1, <4>2 DEF ShownIsRaised
    <3>4. ~repeats'
      BY <2>1, <3>1, <3>3
    <3> QED
      BY <2>8, <3>1, <3>4
  (* A run that is found at the grade it was raised at was announced.      *)
  <2>10. ASSUME lapsed = {}, NEW p \in AgentPid, got.agents[p].run = p, Worth(got.agents[p].grade)
         PROVE  got.agents[p] \in alarmed'
    <3>1. CASE raised[p] # got.agents[p].grade
      BY <2>1, <2>7, <2>8, <2>10, <3>1
    <3>2. CASE raised[p] = got.agents[p].grade
      <4>1. ~Gone(p)
        BY <2>10 DEF Gone
      <4>2. raised[p] # "none"
        BY <2>2, <3>2 DEF Found, Grade
      <4>3. [run |-> p, grade |-> raised[p]] \in alarmed
        BY <2>10, <4>1, <4>2 DEF RaisedIsTold
      <4>4. got.agents[p] = [run |-> p, grade |-> raised[p]]
        BY <2>2, <2>10, <3>2 DEF Found
      <4> QED
        BY <2>1, <4>3, <4>4
    <3> QED
      BY <3>1, <3>2
  <2>11. ShownIsTold'
    BY <1>1, <2>1, <2>10 DEF ShownIsTold
  <2>12. RaisedIsTold'
    <3> SUFFICES ASSUME lapsed = {}, NEW p \in AgentPid, raised'[p] # "none"
                 PROVE  Gone(p)' \/ [run |-> p, grade |-> raised'[p]] \in alarmed'
      BY <1>1 DEF RaisedIsTold
    <3>1. CASE got.agents[p].run = 0
      <4>1. raised'[p] = raised[p]
        BY <2>8, <3>1
      <4>2. Gone(p) => Gone(p)'
        BY <1>1, <1>2, <1>4, <2>7 DEF Gone
      <4> QED
        BY <2>1, <4>1, <4>2 DEF RaisedIsTold
    <3>2. CASE got.agents[p].run = p
      <4>1. Worth(got.agents[p].grade) /\ raised'[p] = got.agents[p].grade
        BY <2>7, <2>8, <3>2
      <4>2. got.agents[p] = [run |-> p, grade |-> raised'[p]]
        BY <2>2, <3>2, <4>1 DEF Found
      <4> QED
        BY <2>10, <3>2, <4>1, <4>2
    <3>3. CASE got.agents[p].run # 0 /\ got.agents[p].run # p
      <4>1. machine[p].run # p
        BY <3>3 DEF FoundIsPast
      <4>2. ASSUME NEW t \in Slot PROVE tasks'[t].got.agents[p].run # p
        <5>1. CASE t = s
          BY <1>4, <2>7, <5>1
        <5>2. CASE t # s
          <6>1. tasks[t].kind # "swept"
            BY <1>7, <5>2 DEF OneSweep, AtMostOne, SweepKinds
          <6> QED
            BY <1>2, <2>7, <5>2, <6>1 DEF FoundIsPast
        <5> QED
          BY <5>1, <5>2
      <4> QED
        BY <1>1, <4>1, <4>2 DEF Gone
    <3> QED
      BY <3>1, <3>2, <3>3
  <2> QED
    BY <1>5, <2>4, <2>5, <2>6, <2>9, <2>11, <2>12
<1> QED
  BY <1>1, <1>6, <1>7

LEMMA DesktopInvStep ==
  ASSUME DesktopAssumption, DesktopInv, [DesktopNext]_desktopVars
  PROVE  DesktopInv'
<1> USE DEF DesktopInv
<1>1. CASE RefreshTick
  <2>1. /\ AskSweep(tasks)
        /\ UNCHANGED <<machine, hostRuns, policy, report, selected, stopping, notify, raised, looks,
                       prompted, alarmed, repeats, lapsed>>
    BY <1>1 DEF RefreshTick, machineVars, view, settings, histories
  <2>2. /\ tasks' \in [Slot -> Tasks] /\ sweeping' \in BOOLEAN
        /\ \A s \in Slot : tasks'[s] = tasks[s] \/ tasks'[s] = Task("sweep", 0)
        /\ AtMostOne(tasks, sweeping) => AtMostOne(tasks', sweeping')
    BY <2>1, AskSweepKeeps DEF DesktopTypeOK
  <2>3. DesktopTypeOK'
    BY <2>1, <2>2 DEF DesktopTypeOK
  <2>4. \A p \in AgentPid : Task("sweep", 0).got.agents[p].run = 0
    BY TaskIsTask, NoReportIsReport DEF Kinds
  <2>5. Announcing'
    BY <2>1, <2>2, <2>3, <2>4, QuietKeeps
  <2> QED
    BY <2>1, <2>2, <2>3, <2>5 DEF OneSweep, SelectedIsShown
<1>2. CASE Machine
  <2>1. UNCHANGED <<policy, tasks, report, selected, stopping, sweeping, notify, raised, looks,
                    prompted, alarmed, repeats, lapsed>>
    BY <1>2 DEF Machine, view, settings, histories
  <2>2. PICK p \in AgentPid : AgentExits(p) \/ AgentStarts(p) \/ \E g \in Grade : AgentScores(p, g)
    BY <1>2 DEF Machine
  <2>3. /\ machine' \in Agents /\ hostRuns' \in Nat /\ hostRuns' >= MaxPid
        /\ \A q \in AgentPid : machine[q].run # q => machine'[q].run # q
    <3>1. CASE AgentExits(p)
      BY <3>1, NoReportIsReport DEF AgentExits, DesktopTypeOK, Agents, AgentPid, None
    <3>2. CASE AgentStarts(p)
      <4>1. PICK g \in Grade : machine' = [machine EXCEPT ![p] = [run |-> hostRuns + 1, grade |-> g]]
        BY <3>2 DEF AgentStarts
      <4>2. [run |-> hostRuns + 1, grade |-> g] \in Found
        BY DEF Found, DesktopTypeOK
      <4>3. p # hostRuns + 1 /\ hostRuns' = hostRuns + 1
        BY <3>2 DEF AgentStarts, AgentPid, DesktopTypeOK, DesktopAssumption
      <4> QED
        BY <4>1, <4>2, <4>3 DEF DesktopTypeOK, Agents, DesktopAssumption
    <3>3. CASE \E g \in Grade : AgentScores(p, g)
      <4>1. PICK g \in Grade : AgentScores(p, g)
        BY <3>3
      <4>2. machine[p] \in Found
        BY DEF DesktopTypeOK, Agents
      <4>3. /\ [machine[p] EXCEPT !.grade = g] \in Found
            /\ [machine[p] EXCEPT !.grade = g].run = machine[p].run
        BY <4>2 DEF Found
      <4> QED
        BY <4>1, <4>3 DEF AgentScores, DesktopTypeOK, Agents
    <3> QED
      BY <2>2, <3>1, <3>2, <3>3
  <2>4. DesktopTypeOK'
    BY <2>1, <2>3 DEF DesktopTypeOK
  <2>5. Announcing'
    BY <2>1, <2>3, <2>4, QuietKeeps DEF DesktopTypeOK
  <2> QED
    BY <2>1, <2>4, <2>5 DEF OneSweep, SelectedIsShown
<1>3. CASE Operator
  <2>1. ASSUME NEW p \in AgentPid, Select(p)
        PROVE  DesktopInv'
    <3>1. selected' = p /\ p \in Shown
          /\ UNCHANGED <<machine, hostRuns, policy, tasks, report, stopping, sweeping, notify, raised,
                         looks, prompted, alarmed, repeats, lapsed>>
      BY <2>1 DEF Select, machineVars, settings, histories
    <3>2. DesktopTypeOK'
      BY <3>1 DEF DesktopTypeOK, AgentPid
    <3>3. Announcing'
      BY <3>1, <3>2, QuietKeeps DEF DesktopTypeOK
    <3> QED
      BY <3>1, <3>2, <3>3 DEF OneSweep, SelectedIsShown, Shown
  <2>2. ASSUME NEW on \in BOOLEAN, SetRefresh(on) \/ SetNotify(on)
        PROVE  DesktopInv'
    <3>1. UNCHANGED <<machine, hostRuns, policy, tasks, report, selected, stopping, sweeping, raised,
                      looks, prompted, alarmed, repeats>>
      BY <2>2 DEF SetRefresh, SetNotify, machineVars, view, histories
    <3>2. lapsed \subseteq lapsed' /\ notify' \in BOOLEAN /\ (notify' = notify \/ "notify" \in lapsed')
      BY <2>2 DEF SetRefresh, SetNotify, histories, DesktopTypeOK
    <3>3. DesktopTypeOK'
      BY <3>1, <3>2 DEF DesktopTypeOK
    <3>4. Announcing'
      BY <3>1, <3>2, <3>3, QuietKeeps DEF DesktopTypeOK
    <3> QED
      BY <3>1, <3>2, <3>3, <3>4 DEF OneSweep, SelectedIsShown
  <2>3. ASSUME AskStop \/ CancelStop
        PROVE  DesktopInv'
    <3>1. UNCHANGED <<machine, hostRuns, policy, tasks, report, selected, sweeping, notify, raised, looks,
                      alarmed, repeats, lapsed>>
      BY <2>3 DEF AskStop, CancelStop, machineVars, settings, histories
    <3>2. stopping' \in Nat /\ prompted' \in Nat
      BY <2>3 DEF AskStop, CancelStop, histories, DesktopTypeOK, Shown, Reports, Agents, Found
    <3>3. DesktopTypeOK'
      BY <3>1, <3>2 DEF DesktopTypeOK
    <3>4. Announcing'
      BY <3>1, <3>3, QuietKeeps DEF DesktopTypeOK
    <3> QED
      BY <3>1, <3>3, <3>4 DEF OneSweep, SelectedIsShown
  <2>4. ASSUME NEW task \in Tasks, task.kind \notin SweepKinds,
               \A p \in AgentPid : task.got.agents[p].run = 0, Perform(tasks, task), stopping' \in Nat,
               UNCHANGED <<machine, hostRuns, policy, report, selected, sweeping, notify, raised, looks,
                           prompted, alarmed, repeats, lapsed>>
        PROVE  DesktopInv'
    <3>1. /\ tasks' \in [Slot -> Tasks]
          /\ \A s \in Slot : tasks'[s] = tasks[s] \/ tasks'[s] = task
          /\ AtMostOne(tasks, sweeping) => AtMostOne(tasks', sweeping)
      BY <2>4, PerformKeeps DEF DesktopTypeOK
    <3>2. DesktopTypeOK'
      BY <2>4, <3>1 DEF DesktopTypeOK
    <3>3. Announcing'
      BY <2>4, <3>1, <3>2, QuietKeeps
    <3> QED
      BY <2>4, <3>1, <3>2, <3>3 DEF OneSweep, SelectedIsShown
  <2>5. CASE ConfirmStop
    <3> DEFINE task == [Task("stop", stopping) EXCEPT !.got.at = prompted]
    <3>1. Task("stop", stopping) \in Tasks /\ Task("stop", stopping).got = NoReport
          /\ Task("stop", stopping).kind = "stop"
      BY TaskIsTask DEF DesktopTypeOK, Kinds
    <3>2. task \in Tasks /\ task.kind = "stop" /\ task.got.agents = NoReport.agents
      BY <3>1 DEF Tasks, Reports, DesktopTypeOK
    <3>3. Perform(tasks, task) /\ stopping' \in Nat
          /\ UNCHANGED <<machine, hostRuns, policy, report, selected, sweeping, notify, raised, looks,
                         prompted, alarmed, repeats, lapsed>>
      BY <2>5 DEF ConfirmStop, machineVars, settings, histories
    <3> HIDE DEF task
    <3> QED
      BY <2>4, <3>2, <3>3, NoReportIsReport DEF SweepKinds
  <2>6. ASSUME NEW kind \in {"clear", "remove"}, NEW n \in Nat, Perform(tasks, Task(kind, n)),
               UNCHANGED <<machineVars, policy, view, sweeping, settings, raised, histories>>
        PROVE  DesktopInv'
    <3>1. /\ Task(kind, n) \in Tasks /\ Task(kind, n).kind = kind /\ Task(kind, n).got = NoReport
      BY TaskIsTask DEF Kinds
    <3>2. stopping' \in Nat
          /\ UNCHANGED <<machine, hostRuns, policy, report, selected, sweeping, notify, raised, looks,
                         prompted, alarmed, repeats, lapsed>>
      BY <2>6 DEF machineVars, view, settings, histories, DesktopTypeOK
    <3> QED
      BY <2>4, <2>6, <3>1, <3>2, NoReportIsReport DEF SweepKinds
  <2>7. CASE ClearEvents
    BY <2>6, <2>7 DEF ClearEvents
  <2>8. ASSUME NEW n \in 1..MaxRules, RemoveRule(n)
        PROVE  DesktopInv'
    BY <2>6, <2>8 DEF RemoveRule
  <2> QED
    BY <1>3, <2>1, <2>2, <2>3, <2>5, <2>7, <2>8 DEF Operator
<1>4. ASSUME NEW s \in Slot, Look(s)
      PROVE  DesktopInv'
  <2> DEFINE found == [kind |-> "swept", about |-> 0,
                       got |-> [at |-> looks + 1, agents |-> machine, rules |-> policy]]
             lost == [tasks[s] EXCEPT !.kind = "broken"]
  <2>1. /\ tasks[s].kind = "sweep" /\ looks' = looks + 1
        /\ tasks' = [tasks EXCEPT ![s] = found] \/ tasks' = [tasks EXCEPT ![s] = lost]
        /\ UNCHANGED <<machine, hostRuns, policy, report, selected, stopping, sweeping, notify, raised,
                       prompted, alarmed, repeats, lapsed>>
    BY <1>4 DEF Look, machineVars, view, settings
  <2>2. /\ found \in Tasks /\ found.kind = "swept" /\ found.got.agents = machine
        /\ lost \in Tasks /\ lost.kind = "broken" /\ lost.got = tasks[s].got
    <3>1. tasks[s] \in Tasks /\ looks + 1 \in Nat /\ machine \in Agents /\ policy \in Seq(Nat)
      BY DEF DesktopTypeOK
    <3>2. found.got \in Reports /\ found.got.agents = machine
      BY <3>1 DEF Reports
    <3>3. found \in Tasks /\ found.kind = "swept"
      BY <3>2 DEF Tasks, Kinds
    <3>4. lost \in Tasks /\ lost.kind = "broken" /\ lost.got = tasks[s].got
      BY <3>1 DEF Tasks, Kinds
    <3> QED
      BY <3>2, <3>3, <3>4
  <2> HIDE DEF found, lost
  <2>3. /\ tasks' \in [Slot -> Tasks] /\ tasks'[s] \in {found, lost}
        /\ \A t \in Slot : t # s => tasks'[t] = tasks[t]
    BY <2>1, <2>2 DEF DesktopTypeOK
  <2>4. DesktopTypeOK'
    BY <2>1, <2>3 DEF DesktopTypeOK
  <2>5. \A p \in AgentPid : lost.got.agents[p].run = 0
    BY <2>1, <2>2 DEF Announcing, FoundIsPast
  <2>6. Announcing'
    BY <2>1, <2>2, <2>3, <2>4, <2>5, QuietKeeps
  <2>7. OneSweep'
    BY <2>1, <2>2, <2>3 DEF OneSweep, AtMostOne, SweepKinds
  <2> QED
    BY <2>1, <2>4, <2>6, <2>7 DEF SelectedIsShown
<1>5. ASSUME NEW s \in Slot, Stopped(s) \/ RuleChanged(s)
      PROVE  DesktopInv'
  <2> DEFINE rest == [tasks EXCEPT ![s] = Idle]
  <2>1. /\ tasks[s].kind \in {"stop", "remove"} /\ AskSweep(rest)
        /\ UNCHANGED <<hostRuns, report, selected, stopping, notify, raised, looks, prompted, alarmed,
                       repeats, lapsed>>
    BY <1>5 DEF Stopped, RuleChanged, machineVars, view, settings, histories
  <2>2. /\ machine' \in Agents /\ policy' \in Seq(Nat)
        /\ \A p \in AgentPid : machine[p].run # p => machine'[p].run # p
    <3>1. CASE Stopped(s)
      <4> DEFINE at == tasks[s].about
      <4>1. machine' = [machine EXCEPT ![at] = None] /\ policy' = policy
        BY <3>1 DEF Stopped
      <4>2. machine \in [AgentPid -> Found] /\ policy \in Seq(Nat) /\ None \in Found /\ None.run = 0
        BY NoReportIsReport DEF DesktopTypeOK, Agents, None
      <4> HIDE DEF at
      <4>3. /\ machine' \in [AgentPid -> Found]
            /\ \A p \in AgentPid : machine'[p] = IF p = at THEN None ELSE machine[p]
        BY <4>1, <4>2
      <4>4. \A p \in AgentPid : p # 0
        BY DEF AgentPid
      <4> QED
        BY <4>1, <4>2, <4>3, <4>4 DEF Agents
    <3>2. CASE RuleChanged(s)
      BY <3>2, RemoveAtTyped DEF RuleChanged, machineVars, DesktopTypeOK
    <3> QED
      BY <1>5, <3>1, <3>2
  <2>3. /\ rest \in [Slot -> Tasks]
        /\ \A t \in Slot : rest[t] = IF t = s THEN Idle ELSE tasks[t]
        /\ Idle.kind = "none" /\ Idle.got = NoReport /\ Task("sweep", 0).got = NoReport
    BY TaskIsTask DEF DesktopTypeOK, Kinds
  <2> HIDE DEF rest
  <2>4. /\ tasks' \in [Slot -> Tasks] /\ sweeping' \in BOOLEAN
        /\ \A t \in Slot : tasks'[t] = rest[t] \/ tasks'[t] = Task("sweep", 0)
        /\ AtMostOne(rest, sweeping) => AtMostOne(tasks', sweeping')
    BY <2>1, <2>3, AskSweepKeeps DEF DesktopTypeOK
  <2>5. DesktopTypeOK'
    BY <2>1, <2>2, <2>4 DEF DesktopTypeOK
  <2>6. \A t \in Slot : tasks'[t] = tasks[t] \/ \A p \in AgentPid : tasks'[t].got.agents[p].run = 0
    BY <2>3, <2>4, NoReportIsReport
  <2>7. Announcing'
    BY <2>1, <2>2, <2>5, <2>6, QuietKeeps
  <2>8. AtMostOne(tasks, sweeping) => AtMostOne(rest, sweeping)
    BY <2>3 DEF AtMostOne, SweepKinds
  <2> QED
    BY <2>1, <2>4, <2>5, <2>7, <2>8 DEF OneSweep, SelectedIsShown
<1>6. ASSUME NEW s \in Slot, EventsCleared(s)
      PROVE  DesktopInv'
  <2>1. /\ tasks' = [tasks EXCEPT ![s] = Task("sweep", 0)] /\ lapsed' = lapsed \cup {"clear"}
        /\ UNCHANGED <<machine, hostRuns, policy, report, selected, stopping, sweeping, notify, raised,
                       looks, prompted, alarmed, repeats>>
    BY <1>6 DEF EventsCleared, machineVars, view, settings
  <2>2. Task("sweep", 0) \in Tasks /\ Task("sweep", 0).got = NoReport
    BY TaskIsTask DEF Kinds
  <2>3. /\ tasks' \in [Slot -> Tasks] /\ tasks'[s] = Task("sweep", 0)
        /\ \A t \in Slot : t # s => tasks'[t] = tasks[t]
    BY <2>1, <2>2 DEF DesktopTypeOK
  <2>4. DesktopTypeOK'
    BY <2>1, <2>3 DEF DesktopTypeOK
  <2>5. Announcing'
    BY <2>1, <2>2, <2>3, <2>4, NoReportIsReport, QuietKeeps
  <2> QED
    BY <2>1, <2>4, <2>5 DEF OneSweep, SelectedIsShown
<1>7. ASSUME NEW s \in Slot, Swept(s)
      PROVE  DesktopInv'
  BY <1>7, SweptKeeps
<1>8. CASE UNCHANGED desktopVars
  <2>1. UNCHANGED <<machine, hostRuns, policy, tasks, report, selected, stopping, sweeping, notify, raised,
                    looks, prompted, alarmed, repeats, lapsed>>
    BY <1>8 DEF desktopVars, machineVars, view, settings, histories
  <2>2. DesktopTypeOK'
    BY <2>1 DEF DesktopTypeOK
  <2>3. Announcing'
    BY <2>1, <2>2, QuietKeeps DEF DesktopTypeOK
  <2> QED
    BY <2>1, <2>2, <2>3 DEF OneSweep, SelectedIsShown
<1> QED
  BY <1>1, <1>2, <1>3, <1>4, <1>5, <1>6, <1>7, <1>8 DEF DesktopNext, Work, Slot

(* However messages, looks, the operator and the agents interleave: at     *)
(* most one sweep is under way, what is selected is shown, and what got    *)
(* worse has been announced, once (lib.rs:426-430, 859-886).               *)
THEOREM WindowTells ==
  ASSUME DesktopAssumption
  PROVE  DesktopSpec => []DesktopHolds
<1>1. DesktopInit => DesktopInv
  BY DesktopInvStarts
<1>2. DesktopInv /\ [DesktopNext]_desktopVars => DesktopInv'
  BY DesktopInvStep
<1>3. DesktopInv => DesktopHolds
  <2> SUFFICES ASSUME DesktopInv PROVE DesktopHolds
    OBVIOUS
  <2> USE DEF DesktopInv, Announcing
  <2>1. DOMAIN tasks = Slot /\ DOMAIN report.agents = AgentPid /\ IsFiniteSet(Slot)
    BY FS_Interval DEF DesktopTypeOK, Reports, Agents, Slot, DesktopAssumption
  <2>2. "clear" \notin lapsed => Cardinality(Sweeps) <= 1 /\ (Sweeps # {} => sweeping)
    <3> SUFFICES ASSUME "clear" \notin lapsed
                 PROVE  Cardinality(Sweeps) <= 1 /\ (Sweeps # {} => sweeping)
      OBVIOUS
    <3>1. \A s, t \in Sweeps : s = t
      BY <2>1 DEF OneSweep, AtMostOne, Sweeps, SweepKinds
    <3>2. Sweeps # {} => sweeping
      BY <2>1 DEF OneSweep, AtMostOne, Sweeps, SweepKinds
    <3>3. CASE Sweeps = {}
      BY <3>2, <3>3, FS_EmptySet
    <3>4. CASE Sweeps # {}
      <4>1. PICK s \in Sweeps : TRUE
        BY <3>4
      <4>2. Sweeps = {s}
        BY <3>1, <4>1
      <4>3. Cardinality(Sweeps) = 1
        BY <4>2, FS_Singleton, Zenon
      <4> QED
        BY <3>2, <4>3
    <3> QED
      BY <3>3, <3>4
  <2>3. selected # 0 => selected \in Shown
    BY <2>1 DEF SelectedIsShown, Shown
  <2>4. lapsed = {} => \A p \in Shown : LET a == report.agents[p]
                                        IN a.run = p /\ Worth(a.grade) => a \in alarmed
    BY <2>1 DEF ShownIsTold, Shown
  <2>5. "notify" \notin lapsed => ~repeats
    BY DEF ShownIsRaised
  <2> QED
    BY <2>2, <2>3, <2>4, <2>5 DEF DesktopHolds
<1> QED
  BY <1>1, <1>2, <1>3, PTL DEF DesktopSpec
-----------------------------------------------------------------------------
(* A container runs on a pid of its own that is in use; what a pid runs    *)
(* after the second listing is what was listed or younger than it; and so  *)
(* is what the container that is about to be stopped runs.                 *)
BoxTyped ==
  /\ started \in Nat /\ pids \in [HostPid -> Nat] /\ starts \in [HostPid -> Nat]
  /\ init \in [Container -> {0} \cup HostPid]
OnOwnPid ==
  /\ \A c \in Running : pids[init[c]] # 0
  /\ \A c, d \in Running : init[c] = init[d] => c = d
ListedOrYounger ==
  stage \in {"checking", "stopping"} =>
    /\ relisted.runs \in Nat /\ relisted.runs <= started
    /\ relisted.run = starts[ChosenPid]
    /\ \A p \in HostPid : pids[p] \in {0, starts[p]} \/ pids[p] > relisted.runs
ChosenOrYounger ==
  stage = "stopping" =>
    /\ chosen.run = starts[ChosenPid]
    /\ chosen.container \in Container
    /\ init[chosen.container] # 0 =>
         \/ pids[init[chosen.container]] = chosen.run
         \/ pids[init[chosen.container]] > relisted.runs
NothingYet == stage # "done" => stopped = {} /\ outcome = "none"
BoxInv ==
  BoxTyped /\ OnOwnPid /\ ListedOrYounger /\ ChosenOrYounger /\ NothingYet /\ OnlyTheApprovedContainer

LEMMA PidsAreNumbers ==
  ASSUME ContainerAssumption
  PROVE  HostPid \subseteq Nat \ {0} /\ ChosenPid \in HostPid /\ Cardinality(HostPid) \in Nat
<1>1. Cardinality(HostPid) \in Nat
  BY FS_CardinalityType DEF ContainerAssumption
<1>2. \A n \in Nat : 1..n \subseteq Nat \ {0}
  OBVIOUS
<1> QED
  BY <1>1, <1>2 DEF ContainerAssumption

LEMMA BoxStarts ==
  ASSUME ContainerAssumption, ContainerInit
  PROVE  BoxInv
<1>1. HostPid \subseteq Nat \ {0} /\ started \in Nat
  BY PidsAreNumbers DEF ContainerInit
<1>2. BoxTyped
  BY <1>1 DEF ContainerInit, BoxTyped
<1>3. OnOwnPid
  BY <1>1 DEF ContainerInit, OnOwnPid, Running
<1>4. stage = "listing" /\ outcome = "none" /\ stopped = {}
  BY DEF ContainerInit
<1> QED
  BY <1>2, <1>3, <1>4
     DEF BoxInv, ListedOrYounger, ChosenOrYounger, NothingYet, OnlyTheApprovedContainer

(* What happens on the host beside the stop.                               *)
LEMMA HostKeepsBox ==
  ASSUME ContainerAssumption, BoxInv, OnTheHost
  PROVE  BoxInv'
<1>1. HostPid \subseteq Nat \ {0}
  BY PidsAreNumbers
<1>2. ASSUME NEW p \in HostPid, HostExit(p)
      PROVE  BoxInv'
  <2>1. /\ pids' = [pids EXCEPT ![p] = 0]
        /\ init' = [c \in Container |-> IF init[c] = p THEN 0 ELSE init[c]]
        /\ UNCHANGED <<started, stage, starts, chosen, relisted, stopped, outcome>>
    BY <1>2 DEF HostExit
  <2>2. BoxTyped'
    BY <2>1 DEF BoxInv, BoxTyped
  <2>3. OnOwnPid'
    BY <2>1 DEF BoxInv, BoxTyped, OnOwnPid, Running
  <2>4. ListedOrYounger'
    BY <2>1 DEF BoxInv, BoxTyped, ListedOrYounger
  <2>5. ChosenOrYounger'
    <3> SUFFICES ASSUME stage' = "stopping" PROVE ChosenOrYounger'
      BY DEF ChosenOrYounger
    <3> DEFINE c == chosen.container
    <3>1. /\ stage = "stopping" /\ c \in Container /\ chosen.run = starts[ChosenPid]
          /\ init[c] # 0 => pids[init[c]] = chosen.run \/ pids[init[c]] > relisted.runs
      BY <2>1 DEF BoxInv, ChosenOrYounger
    <3>2. init'[c] # 0 => init[c] # p /\ init[c] # 0 /\ init'[c] = init[c] /\ init[c] \in HostPid
      BY <2>1, <3>1 DEF BoxInv, BoxTyped
    <3>3. init'[c] # 0 => pids'[init'[c]] = pids[init[c]]
      BY <2>1, <3>2 DEF BoxInv, BoxTyped
    <3> QED
      BY <2>1, <3>1, <3>2, <3>3 DEF ChosenOrYounger
  <2>6. NothingYet' /\ OnlyTheApprovedContainer'
    BY <2>1 DEF BoxInv, NothingYet, OnlyTheApprovedContainer
  <2> QED
    BY <2>2, <2>3, <2>4, <2>5, <2>6 DEF BoxInv
<1>3. ASSUME NEW p \in HostPid, HostStart(p)
      PROVE  BoxInv'
  <2>1. /\ pids[p] = 0 /\ started' = started + 1
        /\ pids' = [pids EXCEPT ![p] = started + 1]
        /\ UNCHANGED <<stage, starts, chosen, relisted, stopped, outcome>>
    BY <1>3 DEF HostStart
  <2>2. init' = init \/ \E c \in Container \ Running : init' = [init EXCEPT ![c] = p]
    BY <1>3 DEF HostStart
  <2>3. started + 1 \in Nat /\ started + 1 # 0 /\ started' > started
    BY <2>1 DEF BoxInv, BoxTyped
  <2>4. \A c \in Running : init[c] # p /\ init[c] \in HostPid
    BY <2>1 DEF BoxInv, BoxTyped, OnOwnPid, Running
  <2>5. BoxTyped'
    BY <2>1, <2>2, <2>3 DEF BoxInv, BoxTyped
  <2>6. OnOwnPid'
    <3>1. CASE init' = init
      BY <2>1, <2>3, <2>4, <3>1 DEF BoxInv, BoxTyped, OnOwnPid, Running
    <3>2. ASSUME NEW c \in Container \ Running, init' = [init EXCEPT ![c] = p]
          PROVE  OnOwnPid'
      <4>1. init'[c] = p /\ \A d \in Container : d # c => init'[d] = init[d]
        BY <3>2 DEF BoxInv, BoxTyped
      <4>2. Running' = Running \cup {c}
        BY <1>1, <4>1 DEF Running
      <4>3. pids'[p] # 0 /\ \A q \in HostPid : q # p => pids'[q] = pids[q]
        BY <2>1, <2>3 DEF BoxInv, BoxTyped
      <4>4. \A d \in Running : d # c /\ init'[d] = init[d] /\ init[d] # p /\ init[d] \in HostPid
        BY <2>4, <4>1 DEF Running
      <4>5. \A d \in Running' : pids'[init'[d]] # 0
        BY <4>1, <4>2, <4>3, <4>4 DEF BoxInv, OnOwnPid
      <4>6. \A d, e \in Running' : init'[d] = init'[e] => d = e
        BY <4>1, <4>2, <4>4 DEF BoxInv, OnOwnPid
      <4> QED
        BY <4>5, <4>6 DEF OnOwnPid
    <3> QED
      BY <2>2, <3>1, <3>2
  <2>7. ListedOrYounger'
    <3> SUFFICES ASSUME stage' \in {"checking", "stopping"} PROVE ListedOrYounger'
      BY DEF ListedOrYounger
    <3>1. /\ relisted.runs \in Nat /\ relisted.runs <= started /\ relisted.run = starts[ChosenPid]
          /\ \A q \in HostPid : pids[q] \in {0, starts[q]} \/ pids[q] > relisted.runs
      BY <2>1 DEF BoxInv, ListedOrYounger
    <3>2. relisted.runs <= started + 1 /\ started + 1 > relisted.runs
      BY <3>1 DEF BoxInv, BoxTyped
    <3>3. \A q \in HostPid : pids'[q] \in {0, starts[q]} \/ pids'[q] > relisted.runs
      BY <2>1, <3>1, <3>2 DEF BoxInv, BoxTyped
    <3> QED
      BY <2>1, <3>1, <3>2, <3>3 DEF ListedOrYounger
  <2>8. ChosenOrYounger'
    <3> SUFFICES ASSUME stage' = "stopping" PROVE ChosenOrYounger'
      BY DEF ChosenOrYounger
    <3> DEFINE c == chosen.container
    <3>1. /\ stage = "stopping" /\ c \in Container /\ chosen.run = starts[ChosenPid]
          /\ init[c] # 0 => pids[init[c]] = chosen.run \/ pids[init[c]] > relisted.runs
      BY <2>1 DEF BoxInv, ChosenOrYounger
    <3>2. relisted.runs \in Nat /\ relisted.runs <= started /\ started + 1 > relisted.runs
      BY <2>1, <3>1 DEF BoxInv, BoxTyped, ListedOrYounger
    <3> HIDE DEF c
    <3>3. CASE init'[c] = init[c]
      <4>1. init[c] # 0 => c \in Running /\ init[c] # p /\ init[c] \in HostPid
        BY <2>4, <3>1 DEF Running
      <4>2. init[c] # 0 => pids'[init'[c]] = pids[init[c]]
        BY <2>1, <3>3, <4>1 DEF BoxInv, BoxTyped
      <4> QED
        BY <2>1, <3>1, <3>3, <4>2 DEF ChosenOrYounger, c
    <3>4. CASE init'[c] = p
      <4>1. pids'[p] = started + 1
        BY <2>1 DEF BoxInv, BoxTyped
      <4> QED
        BY <2>1, <3>1, <3>2, <3>4, <4>1 DEF ChosenOrYounger, c
    <3>5. init'[c] = init[c] \/ init'[c] = p
      BY <2>2, <3>1 DEF BoxInv, BoxTyped
    <3> QED
      BY <3>3, <3>4, <3>5
  <2>9. NothingYet' /\ OnlyTheApprovedContainer'
    BY <2>1 DEF BoxInv, NothingYet, OnlyTheApprovedContainer
  <2> QED
    BY <2>5, <2>6, <2>7, <2>8, <2>9 DEF BoxInv
<1> QED
  BY <1>2, <1>3 DEF OnTheHost

(* What is stopped is the run the container has at that moment.            *)
LEMMA StopKeepsBox ==
  ASSUME ContainerAssumption, BoxInv, ContainerStep
  PROVE  BoxInv'
<1>1. HostPid \subseteq Nat \ {0} /\ ChosenPid \in HostPid
  BY PidsAreNumbers
<1>2. CASE List
  BY <1>2 DEF List, Done, BoxInv, BoxTyped, OnOwnPid, Running, ListedOrYounger, ChosenOrYounger, NothingYet,
              OnlyTheApprovedContainer, ContainerRefusals
<1>3. CASE Inspect
  BY <1>3 DEF Inspect, Done, BoxInv, BoxTyped, OnOwnPid, Running, ListedOrYounger, ChosenOrYounger, NothingYet,
              OnlyTheApprovedContainer, ContainerRefusals
<1>4. CASE Relist
  <2>1. relisted'.runs = started /\ relisted'.run = pids[ChosenPid]
    BY <1>4 DEF Relist
  <2>2. ListedOrYounger'
    BY <1>4, <2>1 DEF Relist, BoxInv, BoxTyped, ListedOrYounger
  <2> QED
    BY <1>4, <2>2 DEF Relist, BoxInv, BoxTyped, OnOwnPid, Running, ChosenOrYounger, NothingYet,
                      OnlyTheApprovedContainer
<1>5. CASE Recheck
  <2> DEFINE c == chosen.container
             found == c \in Running /\ starts[init[c]] # 0
             same == found /\ init[c] = ChosenPid /\ Dated(c) = chosen
  <2>1. UNCHANGED <<pids, started, init, starts, chosen, relisted, stopped>> /\ stage = "checking"
    BY <1>5 DEF Recheck
  <2>2. BoxTyped' /\ OnOwnPid'
    BY <2>1 DEF BoxInv, BoxTyped, OnOwnPid, Running
  <2>3. stopped = {} /\ outcome = "none"
    BY <2>1 DEF BoxInv, NothingYet
  <2>4. CASE ~same
    <3>1. stage' = "done" /\ outcome' \in {"not running", "changed"}
      BY <1>5, <2>4 DEF Recheck, Done
    <3> QED
      BY <2>1, <2>2, <2>3, <3>1 DEF BoxInv, ListedOrYounger, ChosenOrYounger, NothingYet, OnlyTheApprovedContainer
  <2>5. CASE same
    <3>1. stage' = "stopping" /\ outcome' = outcome
      BY <1>5, <2>5 DEF Recheck
    <3>2. chosen.run = starts[ChosenPid]
      BY <2>5 DEF Dated
    <3>3. c \in Container /\ init[c] = ChosenPid /\ pids[ChosenPid] # 0
      BY <2>5 DEF Running, BoxInv, OnOwnPid
    <3>4. pids[ChosenPid] = starts[ChosenPid] \/ pids[ChosenPid] > relisted.runs
      BY <1>1, <2>1, <3>3 DEF BoxInv, ListedOrYounger
    <3>5. ListedOrYounger' /\ ChosenOrYounger'
      BY <2>1, <3>1, <3>2, <3>3, <3>4 DEF BoxInv, ListedOrYounger, ChosenOrYounger
    <3> QED
      BY <2>1, <2>2, <2>3, <3>1, <3>5 DEF BoxInv, NothingYet, OnlyTheApprovedContainer
  <2> QED
    BY <2>4, <2>5
<1>6. CASE DockerStop
  <2> DEFINE c == chosen.container
  <2>1. /\ stage = "stopping" /\ stage' = "done" /\ UNCHANGED <<started, starts, chosen, relisted>>
        /\ \/ /\ outcome' = "stopped"
              /\ stopped' = stopped \cup {pids[init[c]] : x \in {c} \cap Running}
              /\ pids' = [p \in HostPid |-> IF p = init[c] THEN 0 ELSE pids[p]]
              /\ init' = [init EXCEPT ![c] = 0]
           \/ outcome' = "denied" /\ UNCHANGED <<stopped, pids, init>>
    BY <1>6 DEF DockerStop, Done
  <2>2. /\ stopped = {} /\ c \in Container /\ chosen.run = starts[ChosenPid] /\ relisted.run = starts[ChosenPid]
        /\ init[c] # 0 => pids[init[c]] = chosen.run \/ pids[init[c]] > relisted.runs
    BY <2>1 DEF BoxInv, NothingYet, ChosenOrYounger, ListedOrYounger
  <2> HIDE DEF c
  <2>3. ListedOrYounger' /\ ChosenOrYounger' /\ NothingYet'
    BY <2>1 DEF ListedOrYounger, ChosenOrYounger, NothingYet
  <2>4. CASE outcome' = "denied"
    BY <2>1, <2>2, <2>3, <2>4
       DEF BoxInv, BoxTyped, OnOwnPid, Running, OnlyTheApprovedContainer
  <2>5. CASE outcome' = "stopped"
    <3>1. /\ stopped' = {pids[init[c]] : x \in {c} \cap Running}
          /\ pids' = [p \in HostPid |-> IF p = init[c] THEN 0 ELSE pids[p]]
          /\ init' = [init EXCEPT ![c] = 0]
      BY <2>1, <2>2, <2>5
    <3>2. BoxTyped'
      BY <2>1, <3>1 DEF BoxInv, BoxTyped
    <3>3. \A d \in Running' : d # c /\ d \in Running /\ init'[d] = init[d] /\ init[d] \in HostPid
      BY <2>2, <3>1 DEF BoxInv, BoxTyped, Running
    <3>4. \A d \in Running' : init[d] # init[c]
      BY <2>2, <3>3 DEF BoxInv, OnOwnPid, Running
    <3>5. OnOwnPid'
      BY <3>1, <3>3, <3>4 DEF BoxInv, BoxTyped, OnOwnPid
    <3>6. \A r \in stopped' : r = chosen.run \/ r > relisted.runs
      BY <2>2, <3>1 DEF Running
    <3>7. OnlyTheApprovedContainer'
      BY <2>1, <2>2, <2>5, <3>6 DEF OnlyTheApprovedContainer, ContainerRefusals
    <3> QED
      BY <2>3, <3>2, <3>5, <3>7 DEF BoxInv
  <2> QED
    BY <2>1, <2>4, <2>5
<1> QED
  BY <1>2, <1>3, <1>4, <1>5, <1>6 DEF ContainerStep

(* Whatever exits, starts and reuses a pid between two calls: it comes to  *)
(* a stop only if the approved run was there at the second listing, and    *)
(* what is stopped is that run or one that is younger than the listing; a  *)
(* refusal stops nothing (container.rs:44-46).                             *)
THEOREM ContainerIsTheApproved ==
  ASSUME ContainerAssumption
  PROVE  ContainerSpec => []OnlyTheApprovedContainer
<1>1. ContainerInit => BoxInv
  BY BoxStarts
<1>2. BoxInv /\ [ContainerNext]_containerVars => BoxInv'
  <2> SUFFICES ASSUME BoxInv, [ContainerNext]_containerVars PROVE BoxInv'
    OBVIOUS
  <2>1. CASE ContainerStep
    BY <2>1, StopKeepsBox
  <2>2. CASE OnTheHost
    BY <2>2, HostKeepsBox
  <2>3. CASE UNCHANGED containerVars
    BY <2>3 DEF containerVars, BoxInv, BoxTyped, OnOwnPid, Running, ListedOrYounger, ChosenOrYounger,
                NothingYet, OnlyTheApprovedContainer
  <2> QED
    BY <2>1, <2>2, <2>3 DEF ContainerNext
<1>3. BoxInv => OnlyTheApprovedContainer
  BY DEF BoxInv
<1> QED
  BY <1>1, <1>2, <1>3, PTL DEF ContainerSpec
-----------------------------------------------------------------------------
(* A request the operator said yes to was answered; during a sweep the     *)
(* evidence is what was read; a key names a rule of the policy at its      *)
(* place.  A path that the evidence meets and no alert was recorded of is  *)
(* announced less often than it began to be met.  Of a policy from which   *)
(* no rule was taken, an answer stays with its request.                    *)
Asking == [state : {"pending", "approved", "denied", "expired"}, expires : Nat]
LadderTyped ==
  /\ rules \in Seq(Rule) /\ touched \in SUBSET Path /\ place \in Nat \ {0} /\ clock \in Nat
  /\ sweep \in [rules : Seq(Rule), matched : SUBSET Path, at : Nat]
  /\ \A key \in DOMAIN approvals : approvals[key] \in Asking
Counted == alerts \in [Path -> Nat] /\ rises \in [Path -> Nat]
YesIsAnswered ==
  \A key \in DOMAIN approvals :
    approvals[key].state = "approved" => [path |-> key[3], yes |-> TRUE] \in answers
InSweep == place <= Len(sweep.rules) => sweep.matched = touched
PathsOnce == \A m, n \in DOMAIN rules : rules[m].path = rules[n].path => m = n
SweepIsOfRules ==
  \A n \in DOMAIN sweep.rules : n \in DOMAIN rules /\ sweep.rules[n].path = rules[n].path
OfARule(key) ==
  key = <<key[1], key[2], key[3]>> /\ key[1] \in DOMAIN rules /\ rules[key[1]].path = key[3]
Placed ==
  ~shifted =>
    /\ PathsOnce /\ SweepIsOfRules
    /\ \A key \in DOMAIN transitions : OfARule(key)
    /\ \A key \in DOMAIN approvals : OfARule(key) /\ key[2] = "kill"
Triggered(p) == \E key \in DOMAIN transitions : transitions[key] /\ key[2] = "alert" /\ key[3] = p
RisesAreAhead ==
  ~shifted =>
    \A p \in Path : alerts[p] <= rises[p] /\ (p \in touched /\ ~Triggered(p) => alerts[p] < rises[p])
AnsweredIsKept ==
  ~shifted =>
    /\ ~reasked
    /\ \A a \in answers : \E key \in DOMAIN approvals : key[3] = a.path /\ approvals[key].state # "pending"
Proposed ==
  \A d \in decisions :
    /\ d.outcome = "terminate" => [path |-> d.path, yes |-> TRUE] \in answers
    /\ d.outcome \in {"blocked", "allowed"} => Interception(host) = "available"
LadderInv ==
  /\ LadderTyped /\ Counted /\ YesIsAnswered /\ InSweep /\ Placed /\ RisesAreAhead /\ AnsweredIsKept
  /\ Proposed

LEMMA LadderStarts ==
  ASSUME LadderAssumption, LadderInit
  PROVE  LadderInv
<1>1. LadderTyped /\ Counted
  BY DEF LadderInit, NoSweep, LadderTyped, Counted
<1>2. YesIsAnswered /\ InSweep /\ AnsweredIsKept /\ Proposed
  BY DEF LadderInit, NoSweep, YesIsAnswered, InSweep, AnsweredIsKept, Proposed
<1>3. Placed
  BY DEF LadderInit, NoSweep, Placed, PathsOnce, SweepIsOfRules
<1>4. RisesAreAhead
  BY DEF LadderInit, RisesAreAhead
<1> QED
  BY <1>1, <1>2, <1>3, <1>4 DEF LadderInv

(* Steps that leave the files, the sweep and the policy alone.             *)
LEMMA TouchKeepsLadder ==
  ASSUME LadderInv, NEW p \in Path, Touch(p)
  PROVE  LadderInv'
<1>1. /\ touched' = (IF p \in touched THEN touched \ {p} ELSE touched \cup {p})
      /\ rises' = (IF p \in touched THEN rises ELSE [rises EXCEPT ![p] = @ + 1])
      /\ place > Len(sweep.rules)
      /\ UNCHANGED <<clock, host, rules, files, sweep, place, decisions, alerts, answers, reasked, shifted>>
  BY DEF Touch
<1>2. LadderTyped' /\ Counted'
  BY <1>1 DEF LadderInv, LadderTyped, Counted, files
<1>3. InSweep'
  BY <1>1 DEF LadderInv, LadderTyped, InSweep
<1>4. RisesAreAhead'
  <2>1. \A q \in Path : Triggered(q)' <=> Triggered(q)
    BY <1>1 DEF Triggered, files
  <2>2. \A q \in Path : alerts[q] \in Nat /\ rises[q] \in Nat
    BY DEF LadderInv, Counted
  <2>3. \A q \in Path : q # p => rises'[q] = rises[q] /\ (q \in touched' <=> q \in touched)
    BY <1>1 DEF LadderInv, Counted
  <2>4. CASE p \in touched
    BY <1>1, <2>1, <2>3, <2>4 DEF LadderInv, RisesAreAhead
  <2>5. CASE p \notin touched
    <3>1. rises'[p] = rises[p] + 1
      BY <1>1, <2>5 DEF LadderInv, Counted
    <3> QED
      BY <1>1, <2>1, <2>2, <2>3, <3>1 DEF LadderInv, RisesAreAhead
  <2> QED
    BY <2>4, <2>5
<1>5. YesIsAnswered' /\ Placed' /\ AnsweredIsKept' /\ Proposed'
  BY <1>1 DEF LadderInv, YesIsAnswered, Placed, PathsOnce, SweepIsOfRules, OfARule, AnsweredIsKept,
              Proposed, Interception, files
<1> QED
  BY <1>2, <1>3, <1>4, <1>5 DEF LadderInv

LEMMA SweepKeepsLadder ==
  ASSUME LadderInv, BeginSweep
  PROVE  LadderInv'
<1>1. /\ sweep' = [rules |-> rules, matched |-> touched, at |-> clock]
      /\ place' = 1 /\ decisions' = {}
      /\ UNCHANGED <<clock, host, rules, touched, files, ladderHistories>>
  BY DEF BeginSweep
<1>2. sweep'.rules = rules /\ sweep'.matched = touched
  BY <1>1
<1>3. LadderTyped' /\ Counted'
  BY <1>1 DEF LadderInv, LadderTyped, Counted, files, ladderHistories
<1>4. InSweep' /\ Proposed'
  BY <1>1, <1>2 DEF InSweep, Proposed
<1>5. Placed'
  BY <1>1, <1>2 DEF LadderInv, Placed, PathsOnce, SweepIsOfRules, OfARule, files, ladderHistories
<1>6. RisesAreAhead'
  BY <1>1 DEF LadderInv, RisesAreAhead, Triggered, files, ladderHistories
<1>7. YesIsAnswered' /\ AnsweredIsKept'
  BY <1>1 DEF LadderInv, YesIsAnswered, AnsweredIsKept, files, ladderHistories
<1> QED
  BY <1>3, <1>4, <1>5, <1>6, <1>7 DEF LadderInv

LEMMA AnswerKeepsLadder ==
  ASSUME LadderInv, NEW key \in DOMAIN approvals, NEW yes \in BOOLEAN, Answer(key, yes)
  PROVE  LadderInv'
<1> DEFINE said == IF yes THEN "approved" ELSE "denied"
           a == [path |-> key[3], yes |-> yes]
<1>1. /\ approvals' = [approvals EXCEPT ![key].state = said] /\ answers' = answers \cup {a}
      /\ UNCHANGED <<clock, host, rules, touched, transitions, sweep, place, decisions, alerts, rises,
                     reasked, shifted>>
  BY DEF Answer
<1>2. approvals[key] \in Asking
  BY DEF LadderInv, LadderTyped
<1>3. approvals'[key].state = said /\ approvals'[key] \in Asking
  BY <1>1, <1>2 DEF Asking
<1>4. DOMAIN approvals' = DOMAIN approvals /\ \A k \in DOMAIN approvals : k # key => approvals'[k] = approvals[k]
  BY <1>1
<1>5. LadderTyped' /\ Counted'
  BY <1>1, <1>3, <1>4 DEF LadderInv, LadderTyped, Counted
<1>6. YesIsAnswered'
  <2>1. ASSUME NEW k \in DOMAIN approvals, approvals'[k].state = "approved"
        PROVE  [path |-> k[3], yes |-> TRUE] \in answers'
    <3>1. CASE k = key
      <4>1. yes = TRUE
        BY <1>3, <2>1, <3>1
      <4> QED
        BY <1>1, <3>1, <4>1
    <3>2. CASE k # key
      BY <1>1, <1>4, <2>1, <3>2 DEF LadderInv, YesIsAnswered
    <3> QED
      BY <3>1, <3>2
  <2> QED
    BY <1>4, <2>1 DEF YesIsAnswered
<1>7. InSweep' /\ RisesAreAhead' /\ Proposed'
  BY <1>1 DEF LadderInv, InSweep, RisesAreAhead, Triggered, Proposed, Interception
<1>8. Placed'
  BY <1>1, <1>4 DEF LadderInv, Placed, PathsOnce, SweepIsOfRules, OfARule
<1>9. AnsweredIsKept'
  <2> SUFFICES ASSUME ~shifted PROVE AnsweredIsKept'
    BY <1>1 DEF AnsweredIsKept
  <2>1. approvals'[key].state # "pending"
    BY <1>3
  <2>2. ASSUME NEW b \in answers
        PROVE  \E k \in DOMAIN approvals : k[3] = b.path /\ approvals'[k].state # "pending"
    <3>1. PICK k \in DOMAIN approvals : k[3] = b.path /\ approvals[k].state # "pending"
      BY DEF LadderInv, AnsweredIsKept
    <3> QED
      BY <1>4, <2>1, <3>1
  <2> QED
    BY <1>1, <1>4, <2>1, <2>2 DEF LadderInv, AnsweredIsKept
<1> QED
  BY <1>5, <1>6, <1>7, <1>8, <1>9 DEF LadderInv

(* An edit that takes no rule keeps every path at its place.               *)
LEMMA EditKeepsLadder ==
  ASSUME LadderInv, NEW to \in Seq(Rule), Edited(to),
         ~shifted' =>
           /\ ~shifted
           /\ \A n \in DOMAIN rules : n \in DOMAIN to /\ to[n].path = rules[n].path
           /\ \A m, n \in DOMAIN to : to[m].path = to[n].path => m = n
  PROVE  LadderInv'
<1>1. /\ rules' = to
      /\ UNCHANGED <<clock, host, touched, files, sweep, place, decisions, alerts, rises, answers, reasked>>
  BY DEF Edited
<1>2. LadderTyped' /\ Counted' /\ YesIsAnswered' /\ InSweep' /\ Proposed'
  BY <1>1 DEF LadderInv, LadderTyped, Counted, YesIsAnswered, InSweep, Proposed, Interception, files
<1>3. Placed'
  BY <1>1 DEF LadderInv, Placed, PathsOnce, SweepIsOfRules, OfARule, files
<1>4. RisesAreAhead' /\ AnsweredIsKept'
  BY <1>1 DEF LadderInv, RisesAreAhead, Triggered, AnsweredIsKept, files
<1> QED
  BY <1>2, <1>3, <1>4 DEF LadderInv

LEMMA PersonKeepsLadder ==
  ASSUME LadderInv, Person
  PROVE  LadderInv'
<1>1. ASSUME NEW key \in DOMAIN approvals, NEW yes \in BOOLEAN, Answer(key, yes)
      PROVE  LadderInv'
  BY <1>1, AnswerKeepsLadder
<1>2. rules \in Seq(Rule) /\ Len(rules) \in Nat /\ DOMAIN rules = 1..Len(rules)
      /\ \A n \in DOMAIN rules : rules[n] \in Rule
  BY DEF LadderInv, LadderTyped
<1>3. ASSUME NEW p \in Path, AddRule(p)
      PROVE  LadderInv'
  <2> DEFINE added == [path |-> p, response |-> "alert"]
  <2>1. added \in Rule /\ added.path = p
    BY DEF Rule, Response
  <2> HIDE DEF added
  <2>2. CASE /\ {n \in DOMAIN rules : rules[n].path = p} = {}
             /\ Edited(Append(rules, added)) /\ UNCHANGED shifted
    <3> DEFINE to == Append(rules, added)
    <3>1. to \in Seq(Rule) /\ DOMAIN to = 1..(Len(rules) + 1)
      BY <1>2, <2>1
    <3>2. to[Len(rules) + 1] = added /\ \A n \in DOMAIN rules : n \in DOMAIN to /\ to[n] = rules[n]
      BY <1>2, <2>1
    <3> HIDE DEF to
    <3>3. \A n \in DOMAIN to : n \in DOMAIN rules \/ n = Len(rules) + 1
      BY <1>2, <3>1
    <3>4. \A n \in DOMAIN rules : to[n].path = rules[n].path /\ rules[n].path # p
      BY <2>2, <3>2
    <3>5. ~shifted => \A m, n \in DOMAIN to : to[m].path = to[n].path => m = n
      BY <2>1, <3>2, <3>3, <3>4 DEF LadderInv, Placed, PathsOnce
    <3> QED
      BY <2>2, <3>1, <3>2, <3>5, EditKeepsLadder DEF to
  <2>3. ASSUME NEW n \in DOMAIN rules, Edited(Append(RemoveAt(rules, n), added)), shifted' = TRUE
        PROVE  LadderInv'
    <3>1. Append(RemoveAt(rules, n), added) \in Seq(Rule)
      BY <1>2, <2>1, RemoveAtTyped
    <3> QED
      BY <2>3, <3>1, EditKeepsLadder
  <2> QED
    BY <1>3, <2>2, <2>3 DEF AddRule, added
<1>4. ASSUME NEW n \in DOMAIN rules, TakeRule(n)
      PROVE  LadderInv'
  BY <1>2, <1>4, RemoveAtTyped, EditKeepsLadder DEF TakeRule
<1>5. ASSUME NEW n \in DOMAIN rules, NEW r \in Response, SetRuleResponse(n, r)
      PROVE  LadderInv'
  <2> DEFINE to == [rules EXCEPT ![n].response = r]
  <2>1. [rules[n] EXCEPT !.response = r] \in Rule /\ [rules[n] EXCEPT !.response = r].path = rules[n].path
    BY <1>2 DEF Rule
  <2>2. DOMAIN to = DOMAIN rules /\ to \in Seq(Rule) /\ \A m \in DOMAIN rules : to[m].path = rules[m].path
    BY <1>2, <2>1
  <2>3. Edited(to) /\ shifted' = shifted
    BY <1>5 DEF SetRuleResponse
  <2> HIDE DEF to
  <2>4. ~shifted => \A l, m \in DOMAIN to : to[l].path = to[m].path => l = m
    BY <2>2 DEF LadderInv, Placed, PathsOnce
  <2> QED
    BY <2>2, <2>3, <2>4, EditKeepsLadder
<1> QED
  BY <1>1, <1>3, <1>4, <1>5 DEF Person

(* Nothing is held open by a host that cannot.                             *)
LEMMA HeldIsIntercepted ==
  ASSUME NEW response \in Response, NEW said, Outcome(response, Capability, said) \in {"blocked", "allowed"}
  PROVE  Interception(host) = "available"
<1> DEFINE can == Interception(host) = "available"
<1>1. Capability.intercept = can
  BY DEF Capability
<1> SUFFICES ASSUME ~can PROVE FALSE
  OBVIOUS
<1>2. ~Capability.intercept
  BY <1>1
<1> HIDE DEF can
<1>3. CASE response \in {"observe", "alert"}
  BY <1>3 DEF Outcome
<1>4. CASE response \in {"approval", "block"}
  BY <1>2, <1>4 DEF Outcome
<1>5. CASE response = "kill"
  BY <1>5 DEF Outcome
<1> QED
  BY <1>3, <1>4, <1>5 DEF Response

(* One rule of the sweep, with what the two files gave.                    *)
LEMMA DecideKeepsLadder ==
  ASSUME LadderAssumption, LadderInv, Decide
  PROVE  LadderInv'
<1> PICK recorded \in BOOLEAN, asked \in BOOLEAN :
       LET rule == sweep.rules[place]
           key == KeyOf(place, rule)
           active == rule.path \in sweep.matched
           label == IF recorded THEN Label(key, active) ELSE "unknown"
           wants == active /\ rule.response = "kill" /\ Capability.terminate
           ask == Requested(key, sweep.at)
           state == IF wants /\ asked THEN StateOf(ask, sweep.at) ELSE "none"
       IN /\ ~wants => asked
          /\ transitions' = IF recorded THEN With(transitions, key, active) ELSE transitions
          /\ approvals' = IF wants /\ asked
                            THEN With(approvals, key, [ask EXCEPT !.state = state])
                            ELSE approvals
          /\ alerts' = IF rule.response = "alert" /\ label = "triggered"
                         THEN [alerts EXCEPT ![rule.path] = @ + 1] ELSE alerts
          /\ reasked' = (reasked \/ (state = "pending" /\ \E a \in answers : a.path = rule.path))
          /\ decisions' =
               IF ~active THEN decisions
               ELSE decisions \cup
                      {[path |-> rule.path, requested |-> rule.response, label |-> label,
                        outcome |-> Outcome(rule.response, Capability, state)]}
  BY Zenon DEF Decide
<1> DEFINE rule == sweep.rules[place]
           key == KeyOf(place, rule)
           active == rule.path \in sweep.matched
           label == IF recorded THEN Label(key, active) ELSE "unknown"
           wants == active /\ rule.response = "kill" /\ Capability.terminate
           ask == Requested(key, sweep.at)
           state == IF wants /\ asked THEN StateOf(ask, sweep.at) ELSE "none"
           kept == [ask EXCEPT !.state = state]
           d == [path |-> rule.path, requested |-> rule.response, label |-> label,
                 outcome |-> Outcome(rule.response, Capability, state)]
<1>t. transitions' = IF recorded THEN With(transitions, key, active) ELSE transitions
  OBVIOUS
<1>a. approvals' = IF wants /\ asked THEN With(approvals, key, kept) ELSE approvals
  OBVIOUS
<1>l. alerts' = IF rule.response = "alert" /\ label = "triggered"
                  THEN [alerts EXCEPT ![rule.path] = @ + 1] ELSE alerts
  OBVIOUS
<1>r. reasked' = (reasked \/ (state = "pending" /\ \E a \in answers : a.path = rule.path))
  OBVIOUS
<1>d. decisions' = IF ~active THEN decisions ELSE decisions \cup {d}
  OBVIOUS
<1> HIDE DEF rule, key, active, label, wants, ask, state, kept, d
<1>1. /\ place <= Len(sweep.rules) /\ place' = place + 1
      /\ UNCHANGED <<clock, host, rules, touched, sweep, rises, answers, shifted>>
  BY DEF Decide
<1>2. /\ place \in DOMAIN sweep.rules /\ rule \in Rule /\ rule.path \in Path /\ rule.response \in Response
      /\ sweep.at \in Nat /\ sweep.matched = touched
  <2>1. sweep.rules \in Seq(Rule) /\ place \in 1..Len(sweep.rules) /\ sweep.at \in Nat
    BY <1>1 DEF LadderInv, LadderTyped
  <2>2. place \in DOMAIN sweep.rules /\ sweep.rules[place] \in Rule
    BY <2>1
  <2> QED
    BY <1>1, <2>1, <2>2 DEF LadderInv, InSweep, Rule, rule
<1>3. key = <<place, rule.response, rule.path>> /\ key[1] = place /\ key[2] = rule.response /\ key[3] = rule.path
  BY DEF KeyOf, key
<1>4. ~shifted => OfARule(key)
  <2>1. ~shifted => place \in DOMAIN rules /\ rule.path = rules[place].path
    BY <1>2 DEF LadderInv, Placed, SweepIsOfRules, rule
  <2> QED
    BY <1>3, <2>1, Zenon DEF OfARule
<1>5. ask \in Asking
  BY <1>2 DEF Requested, LadderInv, LadderTyped, Asking, LadderAssumption, ask
<1>6. wants /\ asked => state \in {"pending", "approved", "denied", "expired"}
  BY <1>5 DEF StateOf, Asking, state
<1>7. wants /\ asked => kept \in Asking /\ kept.state = state
  BY <1>5, <1>6 DEF Asking, kept
<1>8. /\ wants /\ asked =>
           /\ DOMAIN approvals' = DOMAIN approvals \cup {key} /\ approvals'[key] = kept
           /\ \A k \in DOMAIN approvals : k # key => approvals'[k] = approvals[k]
      /\ ~(wants /\ asked) => approvals' = approvals
  <2>1. /\ DOMAIN With(approvals, key, kept) = DOMAIN approvals \cup {key}
        /\ \A x \in DOMAIN approvals \cup {key} :
             With(approvals, key, kept)[x] = IF x = key THEN kept ELSE approvals[x]
    BY DEF With
  <2> QED
    BY <1>a, <2>1
<1>9. /\ recorded => /\ DOMAIN transitions' = DOMAIN transitions \cup {key} /\ transitions'[key] = active
                     /\ \A k \in DOMAIN transitions : k # key => transitions'[k] = transitions[k]
      /\ ~recorded => transitions' = transitions
  <2>1. /\ DOMAIN With(transitions, key, active) = DOMAIN transitions \cup {key}
        /\ \A x \in DOMAIN transitions \cup {key} :
             With(transitions, key, active)[x] = IF x = key THEN active ELSE transitions[x]
    BY DEF With
  <2> QED
    BY <1>t, <2>1
<1>10. wants => rule.response = "kill"
  BY DEF wants
<1>11. LadderTyped'
  <2>1. \A k \in DOMAIN approvals' : approvals'[k] \in Asking
    BY <1>7, <1>8 DEF LadderInv, LadderTyped
  <2>2. place + 1 \in Nat \ {0}
    BY DEF LadderInv, LadderTyped
  <2> QED
    BY <1>1, <2>1, <2>2 DEF LadderInv, LadderTyped
<1>12. Counted'
  <2>1. alerts \in [Path -> Nat] /\ alerts[rule.path] + 1 \in Nat
    <3>1. alerts \in [Path -> Nat]
      BY DEF LadderInv, Counted
    <3>2. rule.path \in Path
      BY <1>2
    <3>3. alerts[rule.path] \in Nat
      BY <3>1, <3>2
    <3> QED
      BY <3>1, <3>3
  <2>2. alerts' \in [Path -> Nat]
    BY <1>l, <2>1
  <2> QED
    BY <1>1, <2>2 DEF LadderInv, Counted
<1>13. InSweep'
  BY <1>1, <1>2 DEF InSweep
<1>14. wants /\ asked /\ state = "approved" => [path |-> rule.path, yes |-> TRUE] \in answers
  <2> SUFFICES ASSUME wants, asked, state = "approved" PROVE [path |-> rule.path, yes |-> TRUE] \in answers
    OBVIOUS
  <2>1. ask.state = "approved"
    BY DEF StateOf, state
  <2>2. key \in DOMAIN approvals /\ approvals[key] = ask
    BY <2>1 DEF Requested, ask
  <2> QED
    BY <1>3, <2>1, <2>2 DEF LadderInv, YesIsAnswered
<1>15. YesIsAnswered'
  <2>1. CASE wants /\ asked
    <3>1. approvals'[key].state = "approved" => [path |-> key[3], yes |-> TRUE] \in answers
      BY <1>3, <1>7, <1>8, <1>14, <2>1
    <3>2. \A k \in DOMAIN approvals : approvals[k].state = "approved" => [path |-> k[3], yes |-> TRUE] \in answers
      BY DEF LadderInv, YesIsAnswered
    <3>3. ASSUME NEW k \in DOMAIN approvals', approvals'[k].state = "approved"
          PROVE  [path |-> k[3], yes |-> TRUE] \in answers
      <4>1. CASE k = key
        BY <3>1, <3>3, <4>1
      <4>2. CASE k # key
        BY <1>8, <2>1, <3>2, <3>3, <4>2
      <4> QED
        BY <4>1, <4>2
    <3> QED
      BY <1>1, <3>3 DEF YesIsAnswered
  <2>2. CASE ~(wants /\ asked)
    BY <1>1, <1>8, <2>2 DEF LadderInv, YesIsAnswered
  <2> QED
    BY <2>1, <2>2
<1>16. Placed'
  <2> SUFFICES ASSUME ~shifted PROVE Placed'
    BY <1>1 DEF Placed
  <2>1. \A k \in DOMAIN transitions' : OfARule(k)
    BY <1>4, <1>9 DEF LadderInv, Placed
  <2>2. \A k \in DOMAIN approvals' : OfARule(k) /\ k[2] = "kill"
    BY <1>3, <1>4, <1>8, <1>10 DEF LadderInv, Placed
  <2>3. PathsOnce /\ SweepIsOfRules
    BY DEF LadderInv, Placed
  <2> QED
    BY <1>1, <2>1, <2>2, <2>3 DEF Placed, OfARule, PathsOnce, SweepIsOfRules
<1>17. RisesAreAhead'
  <2> SUFFICES ASSUME ~shifted, NEW p \in Path
               PROVE  alerts'[p] <= rises[p] /\ (p \in touched /\ ~Triggered(p)' => alerts'[p] < rises[p])
    BY <1>1 DEF RisesAreAhead
  <2>1. alerts[p] \in Nat /\ rises[p] \in Nat /\ alerts[p] <= rises[p]
        /\ (p \in touched /\ ~Triggered(p) => alerts[p] < rises[p])
    BY DEF LadderInv, Counted, RisesAreAhead
  <2>2. CASE rule.response = "alert" /\ label = "triggered" /\ rule.path = p
    <3>1. recorded /\ active /\ ~(key \in DOMAIN transitions /\ transitions[key])
      BY <2>2 DEF Label, label
    <3>2. p \in touched
      BY <1>2, <2>2, <3>1 DEF active
    <3>3. ~Triggered(p)
      <4> SUFFICES ASSUME NEW k \in DOMAIN transitions, transitions[k], k[2] = "alert", k[3] = p
                   PROVE  FALSE
        BY DEF Triggered
      <4>1. OfARule(k) /\ OfARule(key) /\ PathsOnce
        BY <1>4 DEF LadderInv, Placed
      <4>2. k[1] = key[1] /\ k[2] = key[2] /\ k[3] = key[3]
        BY <1>3, <2>2, <4>1 DEF OfARule, PathsOnce
      <4>3. k = key
        BY <4>1, <4>2 DEF OfARule
      <4> QED
        BY <3>1, <4>3
    <3>4. alerts'[p] = alerts[p] + 1
      BY <1>l, <2>2 DEF LadderInv, Counted
    <3>5. Triggered(p)'
      BY <1>3, <1>9, <2>2, <3>1 DEF Triggered
    <3>6. alerts[p] < rises[p]
      BY <2>1, <3>2, <3>3
    <3>7. alerts'[p] <= rises[p]
      BY <2>1, <3>4, <3>6
    <3> QED
      BY <3>5, <3>7
  <2>3. CASE ~(rule.response = "alert" /\ label = "triggered" /\ rule.path = p)
    <3>1. alerts'[p] = alerts[p]
      BY <1>2, <1>l, <2>3 DEF LadderInv, Counted
    <3>2. p \in touched /\ Triggered(p) => Triggered(p)'
      <4> SUFFICES ASSUME p \in touched, NEW k \in DOMAIN transitions, transitions[k], k[2] = "alert", k[3] = p
                   PROVE  Triggered(p)'
        BY DEF Triggered
      <4>1. CASE k = key
        <5>1. active
          BY <1>2, <1>3, <4>1 DEF active
        <5> QED
          BY <1>9, <4>1, <5>1 DEF Triggered
      <4>2. CASE k # key
        BY <1>9, <4>2 DEF Triggered
      <4> QED
        BY <4>1, <4>2
    <3> QED
      BY <2>1, <3>1, <3>2
  <2> QED
    BY <2>2, <2>3
<1>18. AnsweredIsKept'
  <2> SUFFICES ASSUME ~shifted PROVE AnsweredIsKept'
    BY <1>1 DEF AnsweredIsKept
  <2>1. ~reasked /\ \A a \in answers : \E k \in DOMAIN approvals : k[3] = a.path /\ approvals[k].state # "pending"
    BY DEF LadderInv, AnsweredIsKept
  <2>2. ASSUME wants, asked, NEW a \in answers, a.path = rule.path
        PROVE  state # "pending"
    <3>1. PICK k \in DOMAIN approvals : k[3] = a.path /\ approvals[k].state # "pending"
      BY <2>1
    <3>2. OfARule(k) /\ k[2] = "kill" /\ OfARule(key) /\ PathsOnce /\ key[2] = "kill"
      BY <1>3, <1>4, <1>10, <2>2 DEF LadderInv, Placed
    <3>3. k[1] = key[1] /\ k[2] = key[2] /\ k[3] = key[3]
      BY <1>3, <2>2, <3>1, <3>2 DEF OfARule, PathsOnce
    <3>4. k = key
      BY <3>2, <3>3 DEF OfARule
    <3>5. ask.state # "pending"
      BY <3>1, <3>4 DEF Requested, ask
    <3> QED
      BY <2>2, <3>5 DEF StateOf, state
  <2>3. ~reasked'
    <3>1. ~(wants /\ asked) => state # "pending"
      BY DEF state
    <3> QED
      BY <1>r, <2>1, <2>2, <3>1
  <2>4. ASSUME NEW k \in DOMAIN approvals, approvals[k].state # "pending"
        PROVE  k \in DOMAIN approvals' /\ approvals'[k].state # "pending"
    <3>1. CASE wants /\ asked /\ k = key
      <4>1. ask.state # "pending"
        BY <2>4, <3>1 DEF Requested, ask
      <4>2. state # "pending"
        BY <3>1, <4>1 DEF StateOf, state
      <4> QED
        BY <1>7, <1>8, <3>1, <4>2
    <3>2. CASE ~(wants /\ asked /\ k = key)
      BY <1>8, <2>4, <3>2
    <3> QED
      BY <3>1, <3>2
  <2> QED
    BY <1>1, <2>1, <2>3, <2>4 DEF AnsweredIsKept
<1>19. Proposed'
  <2>1. d.outcome = "terminate" => wants /\ state = "approved"
    BY DEF Outcome, Capability, d, wants, state
  <2>2. d.outcome = "terminate" => asked
    BY <2>1 DEF state
  <2>3. d.outcome \in {"blocked", "allowed"} => Interception(host) = "available"
    BY <1>2, HeldIsIntercepted DEF d
  <2>4. d.path = rule.path
    BY DEF d
  <2> QED
    BY <1>1, <1>14, <1>d, <2>1, <2>2, <2>3, <2>4 DEF LadderInv, Proposed, Interception
<1> QED
  BY <1>11, <1>12, <1>13, <1>15, <1>16, <1>17, <1>18, <1>19 DEF LadderInv

(* Whatever the operator answers and edits between two steps of a sweep    *)
(* and whatever file is out of reach: a termination is only ever proposed  *)
(* where the operator said yes to that path, nothing is said to be held    *)
(* open by a host that cannot, and as long as no rule is taken from the    *)
(* policy, a request that was answered is not put again and a path is      *)
(* announced at most once for each time the evidence began to meet it      *)
(* (response.rs:102-107, ladder.rs:95-99).                                 *)
THEOREM LadderIsClimbed ==
  ASSUME LadderAssumption
  PROVE  LadderSpec => []LadderHolds
<1>1. LadderInit => LadderInv
  BY LadderStarts
<1>2. LadderInv /\ [LadderNext]_ladderVars => LadderInv'
  <2> SUFFICES ASSUME LadderInv, [LadderNext]_ladderVars PROVE LadderInv'
    OBVIOUS
  <2>1. CASE ClockTick
    <3>1. clock' \in Nat
      BY <2>1 DEF ClockTick, LadderInv, LadderTyped
    <3>2. LadderTyped' /\ Counted' /\ YesIsAnswered' /\ InSweep'
      BY <2>1, <3>1 DEF ClockTick, LadderInv, LadderTyped, Counted, YesIsAnswered, InSweep, files, ladderHistories
    <3>3. Placed' /\ RisesAreAhead' /\ AnsweredIsKept' /\ Proposed'
      BY <2>1 DEF ClockTick, LadderInv, Placed, PathsOnce, SweepIsOfRules, OfARule, RisesAreAhead, Triggered,
                  AnsweredIsKept, Proposed, Interception, files, ladderHistories
    <3> QED
      BY <3>2, <3>3 DEF LadderInv
  <2>2. CASE UNCHANGED ladderVars
    <3>1. LadderTyped' /\ Counted' /\ YesIsAnswered' /\ InSweep'
      BY <2>2 DEF ladderVars, LadderInv, LadderTyped, Counted, YesIsAnswered, InSweep
    <3>2. Placed' /\ RisesAreAhead' /\ AnsweredIsKept' /\ Proposed'
      BY <2>2 DEF ladderVars, LadderInv, Placed, PathsOnce, SweepIsOfRules, OfARule, RisesAreAhead, Triggered,
                  AnsweredIsKept, Proposed, Interception
    <3> QED
      BY <3>1, <3>2 DEF LadderInv
  <2> QED
    BY <2>1, <2>2, SweepKeepsLadder, DecideKeepsLadder, PersonKeepsLadder, TouchKeepsLadder DEF LadderNext
<1>3. LadderInv => LadderHolds
  BY DEF LadderInv, LadderHolds, Counted, Proposed, RisesAreAhead, AnsweredIsKept
<1> QED
  BY <1>1, <1>2, <1>3, PTL DEF LadderSpec
=============================================================================
