---------------------------- MODULE FlowsProofs -----------------------------
(***************************************************************************)
(* For any number of readers, any hosts, ports and processes and any       *)
(* ceilings, with or without a helper: every frame that is read is told of *)
(* exactly once, no scan is invented or missed within what is tracked, and *)
(* nothing outgrows its ceiling.                                           *)
(***************************************************************************)
EXTENDS Flows, ProcessTable, FiniteSetTheorems, SequenceTheorems, WellFoundedInduction, TLAPS

(* An accumulator, and what is taken of one.                               *)
Fields(f) == f = [seen |-> f.seen, probed |-> f.probed, carried |-> f.carried, missed |-> f.missed]
Counted(m) == m = [field \in Counters |-> m[field]]
Fitting(f) ==
  /\ Fields(f) /\ Counted(f.missed)
  /\ IsFiniteSet(DOMAIN f.seen) /\ Cardinality(DOMAIN f.seen) <= MaxFlows
  /\ DOMAIN f.probed \in SUBSET Host /\ Cardinality(DOMAIN f.probed) <= MaxProbed
  /\ \A h \in DOMAIN f.probed :
       f.probed[h] \in SUBSET Port /\ Cardinality(f.probed[h]) <= MaxPortsPerHost

Typed ==
  /\ Fitting(flows) /\ Fitting(folded)
  /\ \A i \in DOMAIN pipe : Counted(pipe[i].missed) /\ IsFiniteSet(DOMAIN pipe[i].seen)
  /\ \E S : pipe \in Seq(S)
  /\ pc \in [Thread -> {"read", "probe", "attribute"}]
  /\ DOMAIN hand = Thread /\ hand = [t \in Thread |-> hand[t]]
  /\ \A t \in Thread : pc[t] # "read" => hand[t].packet \in Packet
  /\ read \in Nat /\ drains \in Nat /\ batches \in Nat

(* What is known of a host: the ports that were noted, that were touched   *)
(* since the last drain, and since the start.                              *)
Standing(probed, h) ==
  /\ touched[h] \in SUBSET ever[h] /\ ever[h] \in SUBSET Port
  /\ h \in DOMAIN probed =>
       /\ touched[h] # {} /\ probed[h] \in SUBSET touched[h]
       /\ Cardinality(probed[h]) < MaxPortsPerHost => probed[h] = touched[h]
  /\ touched[h] # {} /\ h \notin DOMAIN probed => Cardinality(DOMAIN probed) >= MaxProbed
Tracked ==
  /\ touched = [h \in Host |-> touched[h]] /\ ever = [h \in Host |-> ever[h]]
  /\ \A h \in Host : Standing(flows.probed, h)
  /\ DOMAIN flows.carried = {} /\ DOMAIN folded.probed = {}

IsReal(host, ports) == host \in Host /\ ports \in ScanPorts..Cardinality(ever[host])
Genuine ==
  /\ \A s \in report.scans : IsReal(s.peer, s.ports)
  /\ \A i \in DOMAIN pipe : \A s \in pipe[i].scans : IsReal(s.peer, s.ports)
  /\ \A h \in DOMAIN folded.carried : IsReal(h, folded.carried[h])

OncePlaced(x) == IF x \in 1..read THEN \E p \in Places(x) : Places(x) = {p} ELSE Places(x) = {}
Placed == \A x : OncePlaced(x)

FlowInv == Typed /\ Tracked /\ Genuine /\ Placed

-----------------------------------------------------------------------------
LEMMA SmallestNumber ==
  ASSUME NEW T \in SUBSET Nat, T # {}
  PROVE  \E x \in T : \A y \in T : x <= y
<1> DEFINE R == OpToRel(<, Nat)
<1>1. IsWellFoundedOn(R, Nat)
  BY ONLY NatLessThanWellFounded, Zenon
<1>2. \A x, y \in Nat : x < y => <<x, y>> \in R
  BY SMT DEF OpToRel
<1> HIDE DEF R
<1>3. PICK x \in T : \A y \in T : ~ (<<y, x>> \in R)
  BY <1>1, WFMin, Zenon
<1>4. x \in Nat /\ \A y \in T : y \in Nat /\ ~(y < x)
  BY <1>2, <1>3
<1> QED BY <1>4

(* The largest of some numbers that are bounded is one of them.            *)
LEMMA MaxOfBounded ==
  ASSUME NEW low \in Nat, NEW high \in Nat, NEW T \in SUBSET (low..high), T # {}
  PROVE  Max(T) \in T
<1> DEFINE below == {high - x : x \in T}
<1>1. below \in SUBSET Nat /\ below # {}
  <2>1. \A x \in T : high - x \in Nat
    OBVIOUS
  <2> QED BY <2>1
<1>2. PICK least \in below : \A y \in below : least <= y
  BY <1>1, SmallestNumber
<1>3. PICK x \in T : least = high - x
  BY <1>2
<1>4. \A y \in T : high - x <= high - y
  BY <1>2, <1>3
<1>5. \A y \in T : x >= y
  BY <1>4
<1> QED BY <1>5, Zenon DEF Max

LEMMA MinOfTwo ==
  ASSUME NEW a \in Int, NEW b \in Int PROVE Min({a, b}) <= a
<1>1. \E x \in {a, b} : \A y \in {a, b} : x <= y
  OBVIOUS
<1>2. \A y \in {a, b} : Min({a, b}) <= y
  BY <1>1, Zenon DEF Min
<1> QED BY <1>2

-----------------------------------------------------------------------------
(* What a frame can be told as.                                            *)
IsOutcome(seen, modelled, attributed, over, o) ==
  \/ \E x \in modelled : o = <<x, "not modelled", 0>>
  \/ \E x \in attributed : o = <<x, "unattributed", 0>>
  \/ \E s \in over : \E x \in s : o = <<x, "overflowed", 0>>
  \/ \E k \in DOMAIN seen : \E x \in seen[k] : o = <<x, "flow", k>>

LEMMA OutcomesAre ==
  ASSUME NEW d, NEW o
  PROVE  o \in Outcomes(d) <=>
           IsOutcome(d.seen, d.missed.notModelled, d.missed.unattributed, d.missed.overflowed, o)
<1>1. o \in {<<x, "not modelled", 0>> : x \in d.missed.notModelled} <=>
        \E x \in d.missed.notModelled : o = <<x, "not modelled", 0>>
  OBVIOUS
<1>2. o \in {<<x, "unattributed", 0>> : x \in d.missed.unattributed} <=>
        \E x \in d.missed.unattributed : o = <<x, "unattributed", 0>>
  OBVIOUS
<1>3. o \in {<<x, "overflowed", 0>> : x \in UNION d.missed.overflowed} <=>
        \E s \in d.missed.overflowed : \E x \in s : o = <<x, "overflowed", 0>>
  OBVIOUS
<1>4. o \in UNION {{<<x, "flow", k>> : x \in d.seen[k]} : k \in DOMAIN d.seen} <=>
        \E k \in DOMAIN d.seen : \E x \in d.seen[k] : o = <<x, "flow", k>>
  OBVIOUS
<1> QED BY <1>1, <1>2, <1>3, <1>4, Zenon DEF Outcomes, IsOutcome

LEMMA NothingTold ==
  ASSUME FlowsAssumption
  PROVE  Fitting(Empty) /\ Outcomes(Empty) = {} /\ DOMAIN Empty.carried = {} /\ DOMAIN Empty.probed = {}
<1>1. Empty.missed = None /\ DOMAIN Empty.seen = {} /\ DOMAIN Empty.probed = {} /\ DOMAIN Empty.carried = {}
  BY DEF Empty
<1>2. None.notModelled = {} /\ None.unattributed = {} /\ None.overflowed = {} /\ Counted(None)
  BY DEF None, Counters, Counted
<1>3. \A o : o \notin Outcomes(Empty)
  <2> TAKE o
  <2>1. ~IsOutcome(Empty.seen, {}, {}, {}, o)
    BY <1>1 DEF IsOutcome
  <2> QED BY <1>1, <1>2, <2>1, OutcomesAre
<1>4. Fields(Empty)
  BY DEF Fields, Empty
<1>5. Fitting(Empty)
  BY <1>1, <1>2, <1>4, FS_EmptySet DEF Fitting, FlowsAssumption
<1> QED BY <1>1, <1>3, <1>5

(* A counter grows by what is counted, and nothing else changes.           *)
LEMMA CountIs ==
  ASSUME NEW f, Fields(f), Counted(f.missed), NEW field \in Counters, NEW what
  PROVE  /\ Fields(Count(f, field, what)) /\ Counted(Count(f, field, what).missed)
         /\ Count(f, field, what).seen = f.seen /\ Count(f, field, what).probed = f.probed
         /\ Count(f, field, what).carried = f.carried
         /\ Count(f, field, what).missed[field] = f.missed[field] \cup {what}
         /\ \A g \in Counters : g # field => Count(f, field, what).missed[g] = f.missed[g]
<1> DEFINE m == [f.missed EXCEPT ![field] = @ \cup {what}]
<1>1. Count(f, field, what) = [seen |-> f.seen, probed |-> f.probed, carried |-> f.carried, missed |-> m]
  BY DEF Count, Fields
<1>2. /\ m = [g \in Counters |-> m[g]]
      /\ \A g \in Counters : m[g] = IF g = field THEN f.missed[g] \cup {what} ELSE f.missed[g]
  BY DEF Counted
<1> HIDE DEF m
<1> QED BY <1>1, <1>2 DEF Fields, Counted

LEMMA CountIsNotEmpty ==
  ASSUME NEW f, Fields(f), Counted(f.missed), NEW field \in Counters, NEW what
  PROVE  Count(f, field, what) # Empty
<1>1. what \in Count(f, field, what).missed[field]
  BY CountIs
<1>2. Empty.missed[field] = {}
  BY DEF Empty, None
<1> QED BY <1>1, <1>2

LEMMA CountFits ==
  ASSUME NEW f, Fitting(f), NEW field \in Counters, NEW what
  PROVE  Fitting(Count(f, field, what))
BY CountIs DEF Fitting

(* What is told of changes with the counters and the flows alone.          *)
LEMMA SameTells ==
  ASSUME NEW d, NEW e, d.seen = e.seen, d.missed.notModelled = e.missed.notModelled,
         d.missed.unattributed = e.missed.unattributed, d.missed.overflowed = e.missed.overflowed
  PROVE  Outcomes(d) = Outcomes(e)
<1>1. \A o : o \in Outcomes(d) <=> o \in Outcomes(e)
  BY OutcomesAre
<1> QED BY <1>1

(* Of the counters, that of all frames tells nothing of one.               *)
LEMMA CountTells ==
  ASSUME NEW f, Fields(f), Counted(f.missed), NEW x
  PROVE  /\ Outcomes(Count(f, "frames", x)) = Outcomes(f)
         /\ Outcomes(Count(f, "notModelled", x)) = Outcomes(f) \cup {<<x, "not modelled", 0>>}
         /\ Outcomes(Count(f, "unattributed", x)) = Outcomes(f) \cup {<<x, "unattributed", 0>>}
         /\ Outcomes(Count(f, "overflowed", {x})) = Outcomes(f) \cup {<<x, "overflowed", 0>>}
<1>0. /\ "frames" \in Counters /\ "notModelled" \in Counters
      /\ "unattributed" \in Counters /\ "overflowed" \in Counters
  BY DEF Counters
<1>1. ASSUME NEW field \in Counters, NEW what
      PROVE  /\ Count(f, field, what).seen = f.seen
             /\ Count(f, field, what).missed.notModelled =
                  IF field = "notModelled" THEN f.missed.notModelled \cup {what} ELSE f.missed.notModelled
             /\ Count(f, field, what).missed.unattributed =
                  IF field = "unattributed" THEN f.missed.unattributed \cup {what} ELSE f.missed.unattributed
             /\ Count(f, field, what).missed.overflowed =
                  IF field = "overflowed" THEN f.missed.overflowed \cup {what} ELSE f.missed.overflowed
  <2>1. /\ Count(f, field, what).seen = f.seen
        /\ Count(f, field, what).missed[field] = f.missed[field] \cup {what}
        /\ \A g \in Counters : g # field => Count(f, field, what).missed[g] = f.missed[g]
    BY CountIs
  <2> QED BY <1>0, <2>1
<1>2. Outcomes(Count(f, "frames", x)) = Outcomes(f)
  <2> DEFINE d == Count(f, "frames", x)
  <2>1. /\ d.seen = f.seen /\ d.missed.notModelled = f.missed.notModelled
        /\ d.missed.unattributed = f.missed.unattributed /\ d.missed.overflowed = f.missed.overflowed
    BY <1>0, <1>1
  <2> QED BY <2>1, SameTells
<1>3. Outcomes(Count(f, "notModelled", x)) = Outcomes(f) \cup {<<x, "not modelled", 0>>}
  <2> DEFINE d == Count(f, "notModelled", x)
  <2>1. /\ d.seen = f.seen /\ d.missed.notModelled = f.missed.notModelled \cup {x}
        /\ d.missed.unattributed = f.missed.unattributed /\ d.missed.overflowed = f.missed.overflowed
    BY <1>0, <1>1
  <2> HIDE DEF d
  <2>2. \A o : IsOutcome(d.seen, d.missed.notModelled, d.missed.unattributed, d.missed.overflowed, o) <=>
                \/ IsOutcome(f.seen, f.missed.notModelled, f.missed.unattributed, f.missed.overflowed, o)
                \/ o = <<x, "not modelled", 0>>
    BY <2>1 DEF IsOutcome
  <2>3. \A o : o \in Outcomes(d) <=>
                IsOutcome(d.seen, d.missed.notModelled, d.missed.unattributed, d.missed.overflowed, o)
    BY OutcomesAre
  <2>4. \A o : o \in Outcomes(f) <=>
                IsOutcome(f.seen, f.missed.notModelled, f.missed.unattributed, f.missed.overflowed, o)
    BY OutcomesAre
  <2>5. Outcomes(d) = Outcomes(f) \cup {<<x, "not modelled", 0>>}
    BY <2>2, <2>3, <2>4
  <2> QED BY <2>5 DEF d
<1>4. Outcomes(Count(f, "unattributed", x)) = Outcomes(f) \cup {<<x, "unattributed", 0>>}
  <2> DEFINE d == Count(f, "unattributed", x)
  <2>1. /\ d.seen = f.seen /\ d.missed.notModelled = f.missed.notModelled
        /\ d.missed.unattributed = f.missed.unattributed \cup {x} /\ d.missed.overflowed = f.missed.overflowed
    BY <1>0, <1>1
  <2> HIDE DEF d
  <2>2. \A o : IsOutcome(d.seen, d.missed.notModelled, d.missed.unattributed, d.missed.overflowed, o) <=>
                \/ IsOutcome(f.seen, f.missed.notModelled, f.missed.unattributed, f.missed.overflowed, o)
                \/ o = <<x, "unattributed", 0>>
    BY <2>1 DEF IsOutcome
  <2>3. \A o : o \in Outcomes(d) <=>
                IsOutcome(d.seen, d.missed.notModelled, d.missed.unattributed, d.missed.overflowed, o)
    BY OutcomesAre
  <2>4. \A o : o \in Outcomes(f) <=>
                IsOutcome(f.seen, f.missed.notModelled, f.missed.unattributed, f.missed.overflowed, o)
    BY OutcomesAre
  <2>5. Outcomes(d) = Outcomes(f) \cup {<<x, "unattributed", 0>>}
    BY <2>2, <2>3, <2>4
  <2> QED BY <2>5 DEF d
<1>5. Outcomes(Count(f, "overflowed", {x})) = Outcomes(f) \cup {<<x, "overflowed", 0>>}
  <2> DEFINE d == Count(f, "overflowed", {x})
  <2>1. /\ d.seen = f.seen /\ d.missed.notModelled = f.missed.notModelled
        /\ d.missed.unattributed = f.missed.unattributed /\ d.missed.overflowed = f.missed.overflowed \cup {{x}}
    BY <1>0, <1>1
  <2> HIDE DEF d
  <2>2. \A o : IsOutcome(d.seen, d.missed.notModelled, d.missed.unattributed, d.missed.overflowed, o) <=>
                \/ IsOutcome(f.seen, f.missed.notModelled, f.missed.unattributed, f.missed.overflowed, o)
                \/ o = <<x, "overflowed", 0>>
    BY <2>1 DEF IsOutcome
  <2>3. \A o : o \in Outcomes(d) <=>
                IsOutcome(d.seen, d.missed.notModelled, d.missed.unattributed, d.missed.overflowed, o)
    BY OutcomesAre
  <2>4. \A o : o \in Outcomes(f) <=>
                IsOutcome(f.seen, f.missed.notModelled, f.missed.unattributed, f.missed.overflowed, o)
    BY OutcomesAre
  <2>5. Outcomes(d) = Outcomes(f) \cup {<<x, "overflowed", 0>>}
    BY <2>2, <2>3, <2>4
  <2> QED BY <2>5 DEF d
<1> QED BY <1>2, <1>3, <1>4, <1>5

(* What two tables hold together.                                          *)
LEMMA TogetherIs ==
  ASSUME NEW f, NEW g
  PROVE  /\ DOMAIN Together(f, g) = DOMAIN f \cup DOMAIN g
         /\ \A k \in DOMAIN f \cup DOMAIN g : \A x :
              x \in Together(f, g)[k] <=>
                (k \in DOMAIN f /\ x \in f[k]) \/ (k \in DOMAIN g /\ x \in g[k])
BY DEF Together, At

(* A frame that is recorded is told of as one thing more.                  *)
LEMMA RecordedTells ==
  ASSUME FlowsAssumption, NEW f, Fitting(f), NEW key, NEW x
  PROVE  /\ Fitting(Recorded(f, key, x)) /\ Recorded(f, key, x) # Empty
         /\ Recorded(f, key, x).probed = f.probed /\ Recorded(f, key, x).carried = f.carried
         /\ \E o : o[1] = x /\ Outcomes(Recorded(f, key, x)) = Outcomes(f) \cup {o}
<1>1. CASE key \in DOMAIN f.seen \/ Cardinality(DOMAIN f.seen) < MaxFlows
  <2> DEFINE new == Together(f.seen, [k \in {key} |-> {x}])
             g == Recorded(f, key, x)
  <2>1. g = [seen |-> new, probed |-> f.probed, carried |-> f.carried, missed |-> f.missed]
    BY <1>1 DEF Recorded, Fitting, Fields
  <2>2. DOMAIN new = DOMAIN f.seen \cup {key}
    BY TogetherIs
  <2>3. \A k \in DOMAIN new : \A y :
          y \in new[k] <=> (k \in DOMAIN f.seen /\ y \in f.seen[k]) \/ (k = key /\ y = x)
    <3> DEFINE one == [k \in {key} |-> {x}]
    <3>1. DOMAIN one = {key} /\ one[key] = {x}
      OBVIOUS
    <3> HIDE DEF one
    <3>2. \A k \in DOMAIN f.seen \cup DOMAIN one : \A y :
            y \in Together(f.seen, one)[k] <=>
              (k \in DOMAIN f.seen /\ y \in f.seen[k]) \/ (k \in DOMAIN one /\ y \in one[k])
      BY TogetherIs
    <3>3. new = Together(f.seen, one)
      BY DEF one
    <3> HIDE DEF new
    <3> QED BY <2>2, <3>1, <3>2, <3>3
  <2> HIDE DEF new, g
  <2>4. g.seen = new /\ g.missed = f.missed /\ g.probed = f.probed /\ g.carried = f.carried
    BY <2>1
  <2>5. ASSUME NEW o
        PROVE  IsOutcome(g.seen, g.missed.notModelled, g.missed.unattributed, g.missed.overflowed, o) <=>
                 \/ IsOutcome(f.seen, f.missed.notModelled, f.missed.unattributed, f.missed.overflowed, o)
                 \/ o = <<x, "flow", key>>
    <3>1. (\E k \in DOMAIN new : \E y \in new[k] : o = <<y, "flow", k>>) <=>
            \/ \E k \in DOMAIN f.seen : \E y \in f.seen[k] : o = <<y, "flow", k>>
            \/ o = <<x, "flow", key>>
      BY <2>2, <2>3
    <3> QED BY <2>4, <3>1 DEF IsOutcome
  <2>12. \A o : IsOutcome(g.seen, g.missed.notModelled, g.missed.unattributed, g.missed.overflowed, o) <=>
                 \/ IsOutcome(f.seen, f.missed.notModelled, f.missed.unattributed, f.missed.overflowed, o)
                 \/ o = <<x, "flow", key>>
    BY <2>5
  <2>6. <<x, "flow", key>>[1] = x
    OBVIOUS
  <2>7. IsFiniteSet(DOMAIN new) /\ Cardinality(DOMAIN new) <= MaxFlows
    <3>1. IsFiniteSet(DOMAIN f.seen) /\ Cardinality(DOMAIN f.seen) \in Nat /\ Cardinality(DOMAIN f.seen) <= MaxFlows
      BY FS_CardinalityType DEF Fitting
    <3>2. IsFiniteSet(DOMAIN f.seen \cup {key})
          /\ Cardinality(DOMAIN f.seen \cup {key}) =
               IF key \in DOMAIN f.seen THEN Cardinality(DOMAIN f.seen) ELSE Cardinality(DOMAIN f.seen) + 1
      BY <3>1, FS_AddElement, Zenon
    <3> QED BY <1>1, <2>2, <3>1, <3>2 DEF FlowsAssumption
  <2>8. Fitting(g)
    BY <2>1, <2>4, <2>7 DEF Fitting, Fields
  <2>9. key \in DOMAIN g.seen
    BY <2>2, <2>4
  <2>10. g # Empty
    BY <2>9 DEF Empty
  <2>11. Outcomes(g) = Outcomes(f) \cup {<<x, "flow", key>>}
    <3>1. \A o : o \in Outcomes(g) <=>
                  IsOutcome(g.seen, g.missed.notModelled, g.missed.unattributed, g.missed.overflowed, o)
      BY OutcomesAre
    <3>2. \A o : o \in Outcomes(f) <=>
                  IsOutcome(f.seen, f.missed.notModelled, f.missed.unattributed, f.missed.overflowed, o)
      BY OutcomesAre
    <3> QED BY <2>12, <3>1, <3>2
  <2> QED BY <2>4, <2>6, <2>8, <2>10, <2>11 DEF g
<1>2. CASE ~(key \in DOMAIN f.seen \/ Cardinality(DOMAIN f.seen) < MaxFlows)
  <2>1. Recorded(f, key, x) = Count(f, "overflowed", {x})
    BY <1>2 DEF Recorded
  <2>2. "overflowed" \in Counters /\ Fields(f) /\ Counted(f.missed)
    BY DEF Counters, Fitting
  <2>4. Count(f, "overflowed", {x}) # Empty
    BY <2>2, CountIsNotEmpty
  <2>5. <<x, "overflowed", 0>>[1] = x
    OBVIOUS
  <2>6. Fitting(Count(f, "overflowed", {x}))
    BY <2>2, CountFits
  <2>7. /\ Count(f, "overflowed", {x}).probed = f.probed /\ Count(f, "overflowed", {x}).carried = f.carried
        /\ Outcomes(Count(f, "overflowed", {x})) = Outcomes(f) \cup {<<x, "overflowed", 0>>}
    <3>1. /\ Count(f, "overflowed", {x}).probed = f.probed
          /\ Count(f, "overflowed", {x}).carried = f.carried
      BY <2>2, CountIs
    <3>2. Outcomes(Count(f, "overflowed", {x})) = Outcomes(f) \cup {<<x, "overflowed", 0>>}
      BY <2>2, CountTells
    <3> QED BY <3>1, <3>2
  <2> QED BY <2>1, <2>4, <2>5, <2>6, <2>7
<1> QED BY <1>1, <1>2

-----------------------------------------------------------------------------
(* A host that is noted has the port, if it has room.                      *)
Room(ports) == Cardinality(ports) < MaxPortsPerHost
More(ports, port) == IF Room(ports) THEN ports \cup {port} ELSE ports
LEMMA MoreIs ==
  ASSUME FlowsAssumption, NEW p, NEW host, NEW port
  PROVE  /\ host \in DOMAIN p /\ Room(p[host]) => More(At(p, host), port) = p[host] \cup {port}
         /\ host \in DOMAIN p /\ ~Room(p[host]) => More(At(p, host), port) = p[host]
         /\ host \notin DOMAIN p => More(At(p, host), port) = {port}
<1>1. host \in DOMAIN p => At(p, host) = p[host]
  BY DEF At
<1>2. host \notin DOMAIN p => At(p, host) = {} /\ Room(At(p, host))
  BY FS_EmptySet DEF At, Room, FlowsAssumption
<1> QED BY <1>1, <1>2 DEF More

LEMMA ProbedIs ==
  ASSUME FlowsAssumption, NEW f, Fitting(f), NEW packet \in Packet
  PROVE  /\ Fitting(Probed(f, packet)) /\ Probed(f, packet).carried = f.carried
         /\ Outcomes(Probed(f, packet)) = Outcomes(f)
         /\ \/ /\ packet.peer \notin DOMAIN f.probed /\ Cardinality(DOMAIN f.probed) >= MaxProbed
               /\ Probed(f, packet) = f
            \/ /\ packet.peer \in DOMAIN f.probed \/ Cardinality(DOMAIN f.probed) < MaxProbed
               /\ Probed(f, packet).probed = Noted(f.probed, packet.peer, packet.port)
<1>1. CASE packet.peer \notin DOMAIN f.probed /\ Cardinality(DOMAIN f.probed) >= MaxProbed
  BY <1>1 DEF Probed
<1>2. CASE ~(packet.peer \notin DOMAIN f.probed /\ Cardinality(DOMAIN f.probed) >= MaxProbed)
  <2> DEFINE host == packet.peer  port == packet.port
             new == Noted(f.probed, host, port)  g == Probed(f, packet)
  <2>1. g = [seen |-> f.seen, probed |-> new, carried |-> f.carried, missed |-> f.missed]
    BY <1>2 DEF Probed, Fitting, Fields
  <2>2. host \in Host /\ port \in Port
    BY DEF Packet
  <2>3. /\ DOMAIN new = DOMAIN f.probed \cup {host}
        /\ \A h \in DOMAIN f.probed : h # host => new[h] = f.probed[h]
        /\ host \in DOMAIN f.probed /\ Room(f.probed[host]) => new[host] = f.probed[host] \cup {port}
        /\ host \in DOMAIN f.probed /\ ~Room(f.probed[host]) => new[host] = f.probed[host]
        /\ host \notin DOMAIN f.probed => new[host] = {port}
    <3> DEFINE more == More(At(f.probed, host), port)
    <3> HIDE DEF host, port
    <3>1. new = [h \in DOMAIN f.probed \cup {host} |-> IF h = host THEN more ELSE f.probed[h]]
      BY DEF Noted, More, Room
    <3>2. /\ host \in DOMAIN f.probed /\ Room(f.probed[host]) => more = f.probed[host] \cup {port}
          /\ host \in DOMAIN f.probed /\ ~Room(f.probed[host]) => more = f.probed[host]
          /\ host \notin DOMAIN f.probed => more = {port}
      BY MoreIs
    <3> HIDE DEF new, more
    <3> QED BY <3>1, <3>2
  <2>4. g.seen = f.seen /\ g.missed = f.missed /\ g.probed = new /\ g.carried = f.carried
    BY <2>1
  <2>5. host \in DOMAIN f.probed \/ Cardinality(DOMAIN f.probed) < MaxProbed
    <3>1. DOMAIN f.probed \in SUBSET Host /\ IsFiniteSet(Host) /\ MaxProbed \in Nat
      BY DEF Fitting, FlowsAssumption
    <3>2. Cardinality(DOMAIN f.probed) \in Nat
      BY <3>1, FS_Subset, FS_CardinalityType
    <3> QED BY <1>2, <3>1, <3>2
  <2> HIDE DEF new, g, host, port
  <2>6. DOMAIN new \in SUBSET Host /\ Cardinality(DOMAIN new) <= MaxProbed
    <3>1. DOMAIN f.probed \in SUBSET Host /\ IsFiniteSet(Host) /\ MaxProbed \in Nat
          /\ Cardinality(DOMAIN f.probed) <= MaxProbed
      BY DEF Fitting, FlowsAssumption
    <3>2. IsFiniteSet(DOMAIN f.probed) /\ Cardinality(DOMAIN f.probed) \in Nat
      BY <3>1, FS_Subset, FS_CardinalityType
    <3>3. Cardinality(DOMAIN f.probed \cup {host}) =
            IF host \in DOMAIN f.probed THEN Cardinality(DOMAIN f.probed) ELSE Cardinality(DOMAIN f.probed) + 1
      BY <3>2, FS_AddElement, Zenon
    <3> QED BY <2>2, <2>3, <2>5, <3>1, <3>2, <3>3
  <2>7. \A h \in DOMAIN new : new[h] \in SUBSET Port /\ Cardinality(new[h]) <= MaxPortsPerHost
    <3> TAKE h \in DOMAIN new
    <3>0. MaxPortsPerHost \in Nat /\ MaxPortsPerHost > 0 /\ IsFiniteSet(Port)
      BY DEF FlowsAssumption
    <3>1. CASE h # host
      BY <2>3, <3>1 DEF Fitting
    <3>2. CASE h = host /\ host \notin DOMAIN f.probed
      <4>1. Cardinality({port}) = 1
        BY FS_Singleton
      <4> QED BY <2>2, <2>3, <3>0, <3>2, <4>1
    <3>3. CASE h = host /\ host \in DOMAIN f.probed
      <4>1. f.probed[host] \in SUBSET Port /\ Cardinality(f.probed[host]) <= MaxPortsPerHost
        BY <3>3 DEF Fitting
      <4>2. IsFiniteSet(f.probed[host]) /\ Cardinality(f.probed[host]) \in Nat
        BY <3>0, <4>1, FS_Subset, FS_CardinalityType
      <4>3. Cardinality(f.probed[host] \cup {port}) =
              IF port \in f.probed[host] THEN Cardinality(f.probed[host]) ELSE Cardinality(f.probed[host]) + 1
        BY <4>2, FS_AddElement, Zenon
      <4>4. CASE Room(f.probed[host])
        <5>1. new[host] = f.probed[host] \cup {port}
          BY <2>3, <3>3, <4>4
        <5> QED BY <2>2, <3>0, <3>3, <4>1, <4>2, <4>3, <4>4, <5>1 DEF Room
      <4>5. CASE ~Room(f.probed[host])
        BY <2>3, <3>3, <4>1, <4>5
      <4> QED BY <4>4, <4>5
    <3> QED BY <2>3, <3>1, <3>2, <3>3
  <2>8. Fitting(g)
    BY <2>1, <2>4, <2>6, <2>7 DEF Fitting, Fields
  <2>10. Outcomes(g) = Outcomes(f)
    BY <2>4, SameTells
  <2> QED BY <2>4, <2>5, <2>8, <2>10 DEF g, new, host, port
<1> QED BY <1>1, <1>2

(* What is folded in is told of too: as it was, or as overflowed.          *)
Takes(f, d, g) ==
  /\ Outcomes(f) \subseteq Outcomes(g)
  /\ \E mv : /\ \A o \in Outcomes(d) : mv[o] \in Outcomes(g) /\ mv[o][1] = o[1]
             /\ \A o \in Outcomes(g) : o \in Outcomes(f) \/ \E e \in Outcomes(d) : o = mv[e]
LEMMA AbsorbedTells ==
  ASSUME FlowsAssumption, NEW f, Fitting(f), NEW d, Counted(d.missed), IsFiniteSet(DOMAIN d.seen),
         NEW admitted \in SUBSET DOMAIN d.seen, Fits(f, d, admitted), NEW g, g = Absorbed(f, d, admitted)
  PROVE  /\ Fitting(g) /\ g.probed = f.probed /\ g.carried = Carried(f.carried, d.scans)
         /\ Takes(f, d, g)
<1> DEFINE kept == admitted \cup (DOMAIN d.seen \cap DOMAIN f.seen)
           left == {d.seen[k] : k \in DOMAIN d.seen \ kept}
           part == [k \in kept |-> d.seen[k]]
           new == Together(f.seen, part)
           more == [None EXCEPT !.overflowed = left]
           m == Sum(Sum(f.missed, d.missed), more)
           mv == [o \in Outcomes(d) |-> IF o[2] = "flow" /\ o[3] \notin kept
                                        THEN <<o[1], "overflowed", 0>> ELSE o]
<1>1. g = [seen |-> new, probed |-> f.probed, carried |-> Carried(f.carried, d.scans), missed |-> m]
  <2>1. g = [f EXCEPT !.seen = new, !.carried = Carried(f.carried, d.scans), !.missed = m]
    BY Zenon DEF Absorbed
  <2> HIDE DEF new, m
  <2> QED BY <2>1 DEF Fitting, Fields
<1>2. /\ DOMAIN new = DOMAIN f.seen \cup kept
      /\ \A k \in DOMAIN new : \A y :
           y \in new[k] <=> (k \in DOMAIN f.seen /\ y \in f.seen[k]) \/ (k \in kept /\ y \in d.seen[k])
  <2>1. DOMAIN part = kept /\ \A k \in kept : part[k] = d.seen[k]
    OBVIOUS
  <2> HIDE DEF part, kept
  <2>2. /\ DOMAIN Together(f.seen, part) = DOMAIN f.seen \cup DOMAIN part
        /\ \A k \in DOMAIN f.seen \cup DOMAIN part : \A y :
             y \in Together(f.seen, part)[k] <=>
               (k \in DOMAIN f.seen /\ y \in f.seen[k]) \/ (k \in DOMAIN part /\ y \in part[k])
    BY TogetherIs
  <2>3. new = Together(f.seen, part)
    OBVIOUS
  <2> HIDE DEF new
  <2> QED BY <2>1, <2>2, <2>3
<1>3. /\ Counted(m)
      /\ m.notModelled = f.missed.notModelled \cup d.missed.notModelled
      /\ m.unattributed = f.missed.unattributed \cup d.missed.unattributed
      /\ m.overflowed = f.missed.overflowed \cup d.missed.overflowed \cup left
  <2>1. /\ more.notModelled = {} /\ more.unattributed = {} /\ more.overflowed = left
    BY DEF None, Counters
  <2> HIDE DEF more
  <2>2. {"frames", "notModelled", "unattributed", "overflowed"} = Counters
    BY DEF Counters
  <2> QED BY <2>1, <2>2 DEF Sum, Counted
<1>4. kept \in SUBSET DOMAIN d.seen
  OBVIOUS
<1>5. IsFiniteSet(DOMAIN new) /\ Cardinality(DOMAIN new) <= MaxFlows
  <2> DEFINE fresh == DOMAIN d.seen \ DOMAIN f.seen
             room == MaxFlows - Cardinality(DOMAIN f.seen)
  <2>1. DOMAIN new = DOMAIN f.seen \cup admitted
    BY <1>2
  <2>2. admitted \subseteq fresh /\ Cardinality(admitted) = Min({room, Cardinality(fresh)})
    BY DEF Fits
  <2>3. IsFiniteSet(fresh) /\ IsFiniteSet(admitted)
    BY <2>2, FS_Subset
  <2>4. /\ Cardinality(fresh) \in Nat /\ Cardinality(admitted) \in Nat
        /\ IsFiniteSet(DOMAIN f.seen) /\ Cardinality(DOMAIN f.seen) \in Nat /\ MaxFlows \in Nat
    BY <2>3, FS_CardinalityType DEF Fitting, FlowsAssumption
  <2>5. Cardinality(admitted) <= room
    <3>1. room \in Int /\ Cardinality(fresh) \in Int
      BY <2>4
    <3> QED BY <2>2, <3>1, MinOfTwo
  <2>6. DOMAIN f.seen \cap admitted = {}
    BY <2>2
  <2>7. /\ IsFiniteSet(DOMAIN f.seen \cup admitted)
        /\ Cardinality(DOMAIN f.seen \cup admitted) =
             Cardinality(DOMAIN f.seen) + Cardinality(admitted) - Cardinality(DOMAIN f.seen \cap admitted)
    BY <2>3, <2>4, FS_Union, Zenon
  <2>8. Cardinality(DOMAIN f.seen \cap admitted) = 0
    BY <2>6, FS_EmptySet
  <2> HIDE DEF new, fresh
  <2> QED BY <2>1, <2>4, <2>5, <2>7, <2>8
<1>6. \A o \in Outcomes(d) : mv[o] = IF o[2] = "flow" /\ o[3] \notin kept THEN <<o[1], "overflowed", 0>> ELSE o
  OBVIOUS
<1>7. \A y : (\E s \in left : y \in s) <=> \E k \in DOMAIN d.seen : k \notin kept /\ y \in d.seen[k]
  OBVIOUS
<1>8. g.seen = new /\ g.missed = m /\ g.probed = f.probed /\ g.carried = Carried(f.carried, d.scans)
  BY <1>1
<1>9. Fitting(g)
  <2> HIDE DEF new, m
  <2> QED BY <1>1, <1>3, <1>5, <1>8 DEF Fitting, Fields
<1> HIDE DEF new, m, left, kept, mv
<1>10. \A o \in Outcomes(f) : o \in Outcomes(g)
  <2> TAKE o \in Outcomes(f)
  <2>1. \/ \E x \in f.missed.notModelled : o = <<x, "not modelled", 0>>
        \/ \E x \in f.missed.unattributed : o = <<x, "unattributed", 0>>
        \/ \E s \in f.missed.overflowed : \E x \in s : o = <<x, "overflowed", 0>>
        \/ \E k \in DOMAIN f.seen : \E x \in f.seen[k] : o = <<x, "flow", k>>
    <3>1. IsOutcome(f.seen, f.missed.notModelled, f.missed.unattributed, f.missed.overflowed, o)
      BY OutcomesAre
    <3> QED BY <3>1, Zenon DEF IsOutcome
  <2>2. \/ \E x \in g.missed.notModelled : o = <<x, "not modelled", 0>>
        \/ \E x \in g.missed.unattributed : o = <<x, "unattributed", 0>>
        \/ \E s \in g.missed.overflowed : \E x \in s : o = <<x, "overflowed", 0>>
        \/ \E k \in DOMAIN g.seen : \E x \in g.seen[k] : o = <<x, "flow", k>>
    BY <1>2, <1>3, <1>8, <2>1
  <2> QED BY <2>2, OutcomesAre DEF IsOutcome
<1>11. \A o \in Outcomes(d) : mv[o] \in Outcomes(g) /\ mv[o][1] = o[1]
  <2> TAKE o \in Outcomes(d)
  <2>1. CASE \E x \in d.missed.notModelled : o = <<x, "not modelled", 0>>
    <3>1. PICK x \in d.missed.notModelled : o = <<x, "not modelled", 0>>
      BY <2>1
    <3>2. mv[o] = o
      BY <1>6, <3>1
    <3>3. x \in g.missed.notModelled
      BY <1>3, <1>8
    <3> QED BY <3>1, <3>2, <3>3, OutcomesAre DEF IsOutcome
  <2>2. CASE \E x \in d.missed.unattributed : o = <<x, "unattributed", 0>>
    <3>1. PICK x \in d.missed.unattributed : o = <<x, "unattributed", 0>>
      BY <2>2
    <3>2. mv[o] = o
      BY <1>6, <3>1
    <3>3. x \in g.missed.unattributed
      BY <1>3, <1>8
    <3> QED BY <3>1, <3>2, <3>3, OutcomesAre DEF IsOutcome
  <2>3. CASE \E s \in d.missed.overflowed : \E x \in s : o = <<x, "overflowed", 0>>
    <3>1. PICK s \in d.missed.overflowed : \E x \in s : o = <<x, "overflowed", 0>>
      BY <2>3
    <3>2. mv[o] = o
      BY <1>6, <3>1
    <3>3. s \in g.missed.overflowed
      BY <1>3, <1>8
    <3> QED BY <3>1, <3>2, <3>3, OutcomesAre DEF IsOutcome
  <2>4. CASE \E k \in DOMAIN d.seen : \E x \in d.seen[k] : o = <<x, "flow", k>>
    <3>1. PICK k \in DOMAIN d.seen : \E x \in d.seen[k] : o = <<x, "flow", k>>
      BY <2>4
    <3>2. PICK x \in d.seen[k] : o = <<x, "flow", k>>
      BY <3>1
    <3>3. o[1] = x /\ o[2] = "flow" /\ o[3] = k
      BY <3>2
    <3>4. CASE k \in kept
      <4>1. mv[o] = o
        BY <1>6, <3>3, <3>4
      <4>2. k \in DOMAIN g.seen /\ x \in g.seen[k]
        BY <1>2, <1>8, <3>4
      <4> QED BY <3>2, <4>1, <4>2, OutcomesAre DEF IsOutcome
    <3>5. CASE k \notin kept
      <4>1. mv[o] = <<x, "overflowed", 0>>
        BY <1>6, <3>3, <3>5
      <4>2. PICK s \in left : x \in s
        BY <1>7, <3>5
      <4>3. s \in g.missed.overflowed
        BY <1>3, <1>8
      <4>4. mv[o] \in Outcomes(g)
        BY <4>1, <4>2, <4>3, OutcomesAre DEF IsOutcome
      <4> QED BY <3>3, <4>1, <4>4
    <3> QED BY <3>4, <3>5
  <2>5. IsOutcome(d.seen, d.missed.notModelled, d.missed.unattributed, d.missed.overflowed, o)
    BY OutcomesAre
  <2> QED BY <2>1, <2>2, <2>3, <2>4, <2>5, Zenon DEF IsOutcome
<1>12. \A o \in Outcomes(g) : o \in Outcomes(f) \/ \E e \in Outcomes(d) : o = mv[e]
  <2> TAKE o \in Outcomes(g)
  <2> SUFFICES ASSUME o \notin Outcomes(f) PROVE \E e \in Outcomes(d) : o = mv[e]
    OBVIOUS
  <2>1. CASE \E x \in g.missed.notModelled : o = <<x, "not modelled", 0>>
    <3>1. PICK x \in g.missed.notModelled : o = <<x, "not modelled", 0>>
      BY <2>1
    <3>2. x \in d.missed.notModelled
      <4>1. x \notin f.missed.notModelled
        BY <3>1, OutcomesAre DEF IsOutcome
      <4> QED BY <1>3, <1>8, <4>1
    <3>3. o \in Outcomes(d)
      BY <3>1, <3>2, OutcomesAre DEF IsOutcome
    <3>4. mv[o] = o
      BY <1>6, <3>1, <3>3
    <3> QED BY <3>3, <3>4
  <2>2. CASE \E x \in g.missed.unattributed : o = <<x, "unattributed", 0>>
    <3>1. PICK x \in g.missed.unattributed : o = <<x, "unattributed", 0>>
      BY <2>2
    <3>2. x \in d.missed.unattributed
      <4>1. x \notin f.missed.unattributed
        BY <3>1, OutcomesAre DEF IsOutcome
      <4> QED BY <1>3, <1>8, <4>1
    <3>3. o \in Outcomes(d)
      BY <3>1, <3>2, OutcomesAre DEF IsOutcome
    <3>4. mv[o] = o
      BY <1>6, <3>1, <3>3
    <3> QED BY <3>3, <3>4
  <2>3. CASE \E s \in g.missed.overflowed : \E x \in s : o = <<x, "overflowed", 0>>
    <3>1. PICK s \in g.missed.overflowed : \E x \in s : o = <<x, "overflowed", 0>>
      BY <2>3
    <3>2. PICK x \in s : o = <<x, "overflowed", 0>>
      BY <3>1
    <3>3. s \notin f.missed.overflowed
      BY <3>2, OutcomesAre DEF IsOutcome
    <3>4. CASE s \in d.missed.overflowed
      <4>1. o \in Outcomes(d)
        BY <3>2, <3>4, OutcomesAre DEF IsOutcome
      <4>2. mv[o] = o
        BY <1>6, <3>2, <4>1
      <4> QED BY <4>1, <4>2
    <3>5. CASE s \in left
      <4>1. PICK k \in DOMAIN d.seen : k \notin kept /\ x \in d.seen[k]
        BY <1>7, <3>2, <3>5
      <4>2. <<x, "flow", k>> \in Outcomes(d)
        BY <4>1, OutcomesAre DEF IsOutcome
      <4>3. mv[<<x, "flow", k>>] = <<x, "overflowed", 0>>
        BY <1>6, <4>1, <4>2
      <4> QED BY <3>2, <4>2, <4>3
    <3> QED BY <1>3, <1>8, <3>3, <3>4, <3>5
  <2>4. CASE \E k \in DOMAIN g.seen : \E x \in g.seen[k] : o = <<x, "flow", k>>
    <3>1. PICK k \in DOMAIN g.seen : \E x \in g.seen[k] : o = <<x, "flow", k>>
      BY <2>4
    <3>2. PICK x \in g.seen[k] : o = <<x, "flow", k>>
      BY <3>1
    <3>3. ~(k \in DOMAIN f.seen /\ x \in f.seen[k])
      BY <3>2, OutcomesAre DEF IsOutcome
    <3>4. k \in kept /\ x \in d.seen[k]
      BY <1>2, <1>8, <3>3
    <3>5. o \in Outcomes(d)
      BY <1>4, <3>2, <3>4, OutcomesAre DEF IsOutcome
    <3>6. mv[o] = o
      BY <1>6, <3>2, <3>4, <3>5
    <3> QED BY <3>5, <3>6
  <2>5. IsOutcome(g.seen, g.missed.notModelled, g.missed.unattributed, g.missed.overflowed, o)
    BY OutcomesAre
  <2> QED BY <2>1, <2>2, <2>3, <2>4, <2>5, Zenon DEF IsOutcome
<1>13. /\ Fitting(g) /\ g.probed = f.probed /\ g.carried = Carried(f.carried, d.scans)
       /\ Outcomes(f) \subseteq Outcomes(g)
       /\ \E w : /\ \A o \in Outcomes(d) : w[o] \in Outcomes(g) /\ w[o][1] = o[1]
                 /\ \A o \in Outcomes(g) : o \in Outcomes(f) \/ \E e \in Outcomes(d) : o = w[e]
  BY <1>8, <1>9, <1>10, <1>11, <1>12
<1> QED BY <1>13 DEF Takes

-----------------------------------------------------------------------------
(* Where a frame is, and will be.                                          *)
LEMMA PlacesAre ==
  ASSUME NEW x, NEW q
  PROVE  q \in Places(x) <=>
           \/ \E t \in DOMAIN pc : pc[t] # "read" /\ hand[t].frame = x /\ q = <<"hand", t, x>>
           \/ \E o \in Outcomes(flows) : o[1] = x /\ q = <<"flows", 0, o>>
           \/ \E o \in Outcomes(folded) : o[1] = x /\ q = <<"folded", 0, o>>
           \/ \E i \in DOMAIN pipe : \E o \in Outcomes(pipe[i]) : o[1] = x /\ q = <<"pipe", i, o>>
           \/ x \in told /\ q = <<"told", 0, x>>
<1>1. q \in InHand(x) <=>
        \E t \in DOMAIN pc : pc[t] # "read" /\ hand[t].frame = x /\ q = <<"hand", t, x>>
  BY DEF InHand
<1>2. q \in InFlows(x) <=> \E o \in Outcomes(flows) : o[1] = x /\ q = <<"flows", 0, o>>
  BY DEF Of, InFlows
<1>3. q \in InFolded(x) <=> \E o \in Outcomes(folded) : o[1] = x /\ q = <<"folded", 0, o>>
  BY DEF Of, InFolded
<1>4. q \in OnItsWay(x) <=>
        \E i \in DOMAIN pipe : \E o \in Outcomes(pipe[i]) : o[1] = x /\ q = <<"pipe", i, o>>
  BY DEF Of, OnItsWay
<1>5. q \in WasTold(x) <=> x \in told /\ q = <<"told", 0, x>>
  BY DEF WasTold
<1>6. q \in Places(x) <=>
        \/ q \in InHand(x) \/ q \in InFlows(x) \/ q \in InFolded(x)
        \/ q \in OnItsWay(x) \/ q \in WasTold(x)
  BY DEF Places
<1> QED BY <1>1, <1>2, <1>3, <1>4, <1>5, <1>6

LEMMA PlacesWillBe ==
  ASSUME NEW x, NEW q
  PROVE  q \in Places(x)' <=>
           \/ \E t \in DOMAIN pc' : pc'[t] # "read" /\ hand'[t].frame = x /\ q = <<"hand", t, x>>
           \/ \E o \in Outcomes(flows') : o[1] = x /\ q = <<"flows", 0, o>>
           \/ \E o \in Outcomes(folded') : o[1] = x /\ q = <<"folded", 0, o>>
           \/ \E i \in DOMAIN pipe' : \E o \in Outcomes(pipe'[i]) : o[1] = x /\ q = <<"pipe", i, o>>
           \/ x \in told' /\ q = <<"told", 0, x>>
<1>1. q \in InHand(x)' <=>
        \E t \in DOMAIN pc' : pc'[t] # "read" /\ hand'[t].frame = x /\ q = <<"hand", t, x>>
  BY DEF InHand
<1>2. q \in InFlows(x)' <=> \E o \in Outcomes(flows') : o[1] = x /\ q = <<"flows", 0, o>>
  BY DEF Of, InFlows
<1>3. q \in InFolded(x)' <=> \E o \in Outcomes(folded') : o[1] = x /\ q = <<"folded", 0, o>>
  BY DEF Of, InFolded
<1>4. q \in OnItsWay(x)' <=>
        \E i \in DOMAIN pipe' : \E o \in Outcomes(pipe'[i]) : o[1] = x /\ q = <<"pipe", i, o>>
  BY DEF Of, OnItsWay
<1>5. q \in WasTold(x)' <=> x \in told' /\ q = <<"told", 0, x>>
  BY DEF WasTold
<1>6. q \in Places(x)' <=>
        \/ q \in InHand(x)' \/ q \in InFlows(x)' \/ q \in InFolded(x)'
        \/ q \in OnItsWay(x)' \/ q \in WasTold(x)'
  BY DEF Places
<1> QED BY <1>1, <1>2, <1>3, <1>4, <1>5, <1>6

(* If every place moves to a place, and every place was moved to, a frame  *)
(* that was in one place is in one place, and one that was nowhere nowhere.*)
LEMMA Moved ==
  ASSUME NEW P, NEW Q, NEW go, \A p \in P : go[p] \in Q, \A q \in Q : \E p \in P : q = go[p]
  PROVE  /\ P = {} => Q = {}
         /\ (\E p \in P : P = {p}) => \E q \in Q : Q = {q}
OBVIOUS

LEMMA OnceMoved ==
  ASSUME NEW x, OncePlaced(x), x \in 1..read <=> x \in 1..read', NEW go,
         \A p \in Places(x) : go[p] \in Places(x)', \A q \in Places(x)' : \E p \in Places(x) : q = go[p]
  PROVE  OncePlaced(x)'
<1>1. /\ Places(x) = {} => Places(x)' = {}
      /\ (\E p \in Places(x) : Places(x) = {p}) => \E q \in Places(x)' : Places(x)' = {q}
  BY Moved
<1> QED BY <1>1, Zenon DEF OncePlaced

LEMMA OnceSame ==
  ASSUME NEW x, OncePlaced(x), x \in 1..read <=> x \in 1..read', Places(x)' = Places(x)
  PROVE  OncePlaced(x)'
BY DEF OncePlaced

LEMMA ReadPlaces ==
  ASSUME FlowInv, NEW t \in Thread, Read(t) PROVE Placed'
<1> DEFINE n == read + 1
<1>0. read \in Nat /\ read' = n /\ n \notin 1..read /\ pc[t] = "read"
  BY DEF FlowInv, Typed, Read
<1>1. Fields(flows) /\ Counted(flows.missed) /\ "frames" \in Counters
      /\ pc \in [Thread -> {"read", "probe", "attribute"}]
  BY DEF FlowInv, Typed, Fitting, Counters
<1> DEFINE one == Count(flows, "frames", n)
<1>2. Outcomes(one) = Outcomes(flows) /\ Fields(one) /\ Counted(one.missed)
  BY <1>1, CountTells, CountIs, Zenon
<1> SUFFICES ASSUME NEW x PROVE OncePlaced(x)'
  BY DEF Placed
<1>3. OncePlaced(x)
  BY DEF FlowInv, Placed
<1>4. x # n => (x \in 1..read <=> x \in 1..read')
  BY <1>0
<1>5. x = n => Places(x) = {} /\ x \in 1..read'
  BY <1>0, <1>3 DEF OncePlaced
<1>6. folded' = folded /\ pipe' = pipe /\ told' = told
  BY DEF Read
<1>7. SUFFICES ASSUME NEW new, new \in Places(x)' <=> x = n,
                      \A q : q # new => (q \in Places(x)' <=> q \in Places(x)),
                      x # n => new \notin Places(x)
               PROVE  OncePlaced(x)'
  <2> HIDE DEF one
  <2>1. CASE flows' = Count(one, "notModelled", n) /\ UNCHANGED <<hand, pc>>
    <3> DEFINE new == <<"flows", 0, <<n, "not modelled", 0>>>>
    <3>1. Outcomes(flows') = Outcomes(flows) \cup {<<n, "not modelled", 0>>}
      <4>1. Outcomes(Count(one, "notModelled", n)) = Outcomes(one) \cup {<<n, "not modelled", 0>>}
        <5> HIDE DEF n
        <5> QED BY <1>2, CountTells
      <4> QED BY <1>2, <2>1, <4>1
    <3>2. <<n, "not modelled", 0>>[1] = n
      OBVIOUS
    <3>3. \A q : q \in Places(x)' <=> q \in Places(x) \/ (x = n /\ q = new)
      <4> TAKE q
      <4>1. q \in Places(x) <=>
               \/ \E u \in DOMAIN pc : pc[u] # "read" /\ hand[u].frame = x /\ q = <<"hand", u, x>>
               \/ \E o \in Outcomes(flows) : o[1] = x /\ q = <<"flows", 0, o>>
               \/ \E o \in Outcomes(folded) : o[1] = x /\ q = <<"folded", 0, o>>
               \/ \E i \in DOMAIN pipe : \E o \in Outcomes(pipe[i]) : o[1] = x /\ q = <<"pipe", i, o>>
               \/ x \in told /\ q = <<"told", 0, x>>
        BY PlacesAre
      <4>2. q \in Places(x)' <=>
               \/ \E u \in DOMAIN pc : pc[u] # "read" /\ hand[u].frame = x /\ q = <<"hand", u, x>>
               \/ \E o \in Outcomes(flows') : o[1] = x /\ q = <<"flows", 0, o>>
               \/ \E o \in Outcomes(folded) : o[1] = x /\ q = <<"folded", 0, o>>
               \/ \E i \in DOMAIN pipe : \E o \in Outcomes(pipe[i]) : o[1] = x /\ q = <<"pipe", i, o>>
               \/ x \in told /\ q = <<"told", 0, x>>
        BY <1>6, <2>1, PlacesWillBe
      <4>3. (\E o \in Outcomes(flows') : o[1] = x /\ q = <<"flows", 0, o>>) <=>
               \/ \E o \in Outcomes(flows) : o[1] = x /\ q = <<"flows", 0, o>>
               \/ x = n /\ q = new
        BY <3>1, <3>2, Zenon
      <4> QED BY <4>1, <4>2, <4>3, Zenon
    <3> HIDE DEF new, n
    <3>4. x = n => Places(x) = {}
      BY <1>5
    <3>5. x # n => new \notin Places(x)
      <4> SUFFICES ASSUME x # n, NEW q \in Places(x), q = new PROVE FALSE
        OBVIOUS
      <4>1. \/ \E u \in DOMAIN pc : pc[u] # "read" /\ hand[u].frame = x /\ q = <<"hand", u, x>>
            \/ \E o \in Outcomes(flows) : o[1] = x /\ q = <<"flows", 0, o>>
            \/ \E o \in Outcomes(folded) : o[1] = x /\ q = <<"folded", 0, o>>
            \/ \E i \in DOMAIN pipe : \E o \in Outcomes(pipe[i]) : o[1] = x /\ q = <<"pipe", i, o>>
            \/ x \in told /\ q = <<"told", 0, x>>
        BY PlacesAre
      <4>2. q[1] = "flows" /\ q[3][1] = n
        BY DEF new
      <4>3. q[1] = "flows" => q[3][1] = x
        BY <4>1
      <4> QED BY <4>2, <4>3
    <3> QED BY <1>7, <3>3, <3>4, <3>5
  <2>2. CASE \E packet \in Packet :
               /\ flows' = one
               /\ hand' = [hand EXCEPT ![t] = [frame |-> n, packet |-> packet]]
               /\ pc' = [pc EXCEPT ![t] = IF packet.port = 0 THEN "attribute" ELSE "probe"]
    <3> DEFINE new == <<"hand", t, n>>
    <3>1. /\ DOMAIN pc' = Thread /\ DOMAIN pc = Thread /\ pc'[t] # "read" /\ hand'[t].frame = n
          /\ \A u \in Thread : u # t => pc'[u] = pc[u] /\ hand'[u] = hand[u]
      BY <1>1, <2>2 DEF FlowInv, Typed
    <3>3. \A q : q \in Places(x)' <=> q \in Places(x) \/ (x = n /\ q = new)
      <4> TAKE q
      <4>1. q \in Places(x) <=>
               \/ \E u \in DOMAIN pc : pc[u] # "read" /\ hand[u].frame = x /\ q = <<"hand", u, x>>
               \/ \E o \in Outcomes(flows) : o[1] = x /\ q = <<"flows", 0, o>>
               \/ \E o \in Outcomes(folded) : o[1] = x /\ q = <<"folded", 0, o>>
               \/ \E i \in DOMAIN pipe : \E o \in Outcomes(pipe[i]) : o[1] = x /\ q = <<"pipe", i, o>>
               \/ x \in told /\ q = <<"told", 0, x>>
        BY PlacesAre
      <4>2. q \in Places(x)' <=>
               \/ \E u \in DOMAIN pc' : pc'[u] # "read" /\ hand'[u].frame = x /\ q = <<"hand", u, x>>
               \/ \E o \in Outcomes(flows) : o[1] = x /\ q = <<"flows", 0, o>>
               \/ \E o \in Outcomes(folded) : o[1] = x /\ q = <<"folded", 0, o>>
               \/ \E i \in DOMAIN pipe : \E o \in Outcomes(pipe[i]) : o[1] = x /\ q = <<"pipe", i, o>>
               \/ x \in told /\ q = <<"told", 0, x>>
        <5>1. Outcomes(flows') = Outcomes(flows)
          BY <1>2, <2>2
        <5> QED BY <1>6, <5>1, PlacesWillBe
      <4>3. (\E u \in DOMAIN pc' : pc'[u] # "read" /\ hand'[u].frame = x /\ q = <<"hand", u, x>>) <=>
               \/ \E u \in DOMAIN pc : pc[u] # "read" /\ hand[u].frame = x /\ q = <<"hand", u, x>>
               \/ x = n /\ q = new
        <5> HIDE DEF n
        <5> QED BY <1>0, <3>1, Zenon
      <4> QED BY <4>1, <4>2, <4>3, Zenon
    <3> HIDE DEF new, n
    <3>4. x = n => Places(x) = {}
      BY <1>5
    <3>5. x # n => new \notin Places(x)
      <4> SUFFICES ASSUME x # n, new \in Places(x) PROVE FALSE
        OBVIOUS
      <4>1. \/ \E u \in DOMAIN pc : pc[u] # "read" /\ hand[u].frame = x /\ new = <<"hand", u, x>>
            \/ \E o \in Outcomes(flows) : o[1] = x /\ new = <<"flows", 0, o>>
            \/ \E o \in Outcomes(folded) : o[1] = x /\ new = <<"folded", 0, o>>
            \/ \E i \in DOMAIN pipe : \E o \in Outcomes(pipe[i]) : o[1] = x /\ new = <<"pipe", i, o>>
            \/ x \in told /\ new = <<"told", 0, x>>
        BY PlacesAre, Zenon
      <4> QED BY <4>1 DEF new
    <3> QED BY <1>7, <3>3, <3>4, <3>5
  <2> QED BY <1>0, <2>1, <2>2 DEF Read, one
<1>8. CASE x # n
  <2>1. Places(x)' = Places(x)
    BY <1>7, <1>8
  <2> QED BY <1>3, <1>4, <1>8, <2>1, OnceSame
<1>9. CASE x = n
  <2>1. Places(x)' = {new}
    BY <1>5, <1>7, <1>9
  <2> QED BY <1>5, <1>9, <2>1, Zenon DEF OncePlaced
<1> QED BY <1>8, <1>9

LEMMA ProbePlaces ==
  ASSUME FlowsAssumption, FlowInv, NEW t \in Thread, Probe(t) PROVE Placed'
<1>1. Fitting(flows) /\ hand[t].packet \in Packet /\ pc \in [Thread -> {"read", "probe", "attribute"}]
  BY DEF FlowInv, Typed, Probe
<1>2. Outcomes(flows') = Outcomes(flows)
  BY <1>1, ProbedIs, Zenon DEF Probe
<1>3. /\ folded' = folded /\ pipe' = pipe /\ told' = told /\ hand' = hand /\ read' = read
      /\ pc[t] = "probe" /\ pc' = [pc EXCEPT ![t] = "attribute"]
  BY DEF Probe
<1>4. DOMAIN pc' = DOMAIN pc /\ \A u \in DOMAIN pc : pc'[u] # "read" <=> pc[u] # "read"
  BY <1>1, <1>3
<1> SUFFICES ASSUME NEW x PROVE OncePlaced(x)'
  BY DEF Placed
<1>5. \A q : q \in Places(x)' <=> q \in Places(x)
  <2> TAKE q
  <2>1. q \in Places(x) <=>
           \/ \E u \in DOMAIN pc : pc[u] # "read" /\ hand[u].frame = x /\ q = <<"hand", u, x>>
           \/ \E o \in Outcomes(flows) : o[1] = x /\ q = <<"flows", 0, o>>
           \/ \E o \in Outcomes(folded) : o[1] = x /\ q = <<"folded", 0, o>>
           \/ \E i \in DOMAIN pipe : \E o \in Outcomes(pipe[i]) : o[1] = x /\ q = <<"pipe", i, o>>
           \/ x \in told /\ q = <<"told", 0, x>>
    BY PlacesAre
  <2>2. q \in Places(x)' <=>
           \/ \E u \in DOMAIN pc' : pc'[u] # "read" /\ hand[u].frame = x /\ q = <<"hand", u, x>>
           \/ \E o \in Outcomes(flows) : o[1] = x /\ q = <<"flows", 0, o>>
           \/ \E o \in Outcomes(folded) : o[1] = x /\ q = <<"folded", 0, o>>
           \/ \E i \in DOMAIN pipe : \E o \in Outcomes(pipe[i]) : o[1] = x /\ q = <<"pipe", i, o>>
           \/ x \in told /\ q = <<"told", 0, x>>
    BY <1>2, <1>3, PlacesWillBe
  <2>3. (\E u \in DOMAIN pc' : pc'[u] # "read" /\ hand[u].frame = x /\ q = <<"hand", u, x>>) <=>
         \E u \in DOMAIN pc : pc[u] # "read" /\ hand[u].frame = x /\ q = <<"hand", u, x>>
    BY <1>4, Zenon
  <2> QED BY <2>1, <2>2, <2>3, Zenon
<1>6. Places(x)' = Places(x)
  BY <1>5
<1> QED BY <1>3, <1>6, OnceSame DEF FlowInv, Placed

(* A frame that is attributed moves from its reader to the accumulator.    *)
LEMMA AttributedPlaces ==
  ASSUME FlowInv, NEW t \in Thread, Attribute(t), NEW o, o[1] = hand[t].frame,
         Outcomes(flows') = Outcomes(flows) \cup {o}
  PROVE  Placed'
<1>1. /\ folded' = folded /\ pipe' = pipe /\ told' = told /\ read' = read
      /\ DOMAIN pc = Thread /\ DOMAIN pc' = Thread /\ pc[t] # "read" /\ pc'[t] = "read"
      /\ \A u \in Thread : u # t => pc'[u] = pc[u] /\ hand'[u] = hand[u]
  BY DEF Attribute, FlowInv, Typed
<1> SUFFICES ASSUME NEW x PROVE OncePlaced(x)'
  BY DEF Placed
<1> DEFINE from == <<"hand", t, x>>  to == <<"flows", 0, o>>
           go == [p \in Places(x) |-> IF p = from THEN to ELSE p]
<1>2. \A p \in Places(x) : (p = from => go[p] = to) /\ (p # from => go[p] = p)
  OBVIOUS
<1> HIDE DEF go
<1>3. ASSUME NEW p \in Places(x) PROVE go[p] \in Places(x)'
  <2>1. CASE \E u \in DOMAIN pc : pc[u] # "read" /\ hand[u].frame = x /\ p = <<"hand", u, x>>
    <3>1. PICK u \in Thread : pc[u] # "read" /\ hand[u].frame = x /\ p = <<"hand", u, x>>
      BY <1>1, <2>1
    <3>2. CASE u = t
      <4>1. go[p] = to /\ o[1] = x
        BY <1>2, <3>1, <3>2
      <4> QED BY <4>1, PlacesWillBe
    <3>3. CASE u # t
      <4>1. p # from
        BY <3>1, <3>3
      <4>2. go[p] = p /\ pc'[u] # "read" /\ hand'[u].frame = x
        BY <1>1, <1>2, <3>1, <3>3, <4>1
      <4> QED BY <1>1, <3>1, <4>2, PlacesWillBe
    <3> QED BY <3>2, <3>3
  <2>2. CASE ~(\E u \in DOMAIN pc : pc[u] # "read" /\ hand[u].frame = x /\ p = <<"hand", u, x>>)
    <3>1. \/ \E e \in Outcomes(flows) : e[1] = x /\ p = <<"flows", 0, e>>
          \/ \E e \in Outcomes(folded) : e[1] = x /\ p = <<"folded", 0, e>>
          \/ \E i \in DOMAIN pipe : \E e \in Outcomes(pipe[i]) : e[1] = x /\ p = <<"pipe", i, e>>
          \/ x \in told /\ p = <<"told", 0, x>>
      BY <2>2, PlacesAre
    <3>2. p # from
      BY <3>1
    <3>3. go[p] = p
      BY <1>2, <3>2
    <3>4. \/ \E e \in Outcomes(flows') : e[1] = x /\ p = <<"flows", 0, e>>
          \/ \E e \in Outcomes(folded') : e[1] = x /\ p = <<"folded", 0, e>>
          \/ \E i \in DOMAIN pipe' : \E e \in Outcomes(pipe'[i]) : e[1] = x /\ p = <<"pipe", i, e>>
          \/ x \in told' /\ p = <<"told", 0, x>>
      BY <1>1, <3>1
    <3> QED BY <3>3, <3>4, PlacesWillBe
  <2> QED BY <2>1, <2>2
<1>4. ASSUME NEW q \in Places(x)' PROVE \E p \in Places(x) : q = go[p]
  <2>1. \/ \E u \in DOMAIN pc' : pc'[u] # "read" /\ hand'[u].frame = x /\ q = <<"hand", u, x>>
        \/ \E e \in Outcomes(flows') : e[1] = x /\ q = <<"flows", 0, e>>
        \/ \E e \in Outcomes(folded') : e[1] = x /\ q = <<"folded", 0, e>>
        \/ \E i \in DOMAIN pipe' : \E e \in Outcomes(pipe'[i]) : e[1] = x /\ q = <<"pipe", i, e>>
        \/ x \in told' /\ q = <<"told", 0, x>>
    BY PlacesWillBe
  <2>2. CASE q = to /\ o[1] = x
    <3>1. from \in Places(x)
      BY <1>1, <2>2, PlacesAre
    <3>2. go[from] = to
      BY <1>2, <3>1
    <3> QED BY <2>2, <3>1, <3>2
  <2>3. CASE ~(q = to /\ o[1] = x)
    <3>1. \/ \E u \in DOMAIN pc : u # t /\ pc[u] # "read" /\ hand[u].frame = x /\ q = <<"hand", u, x>>
          \/ \E e \in Outcomes(flows) : e[1] = x /\ q = <<"flows", 0, e>>
          \/ \E e \in Outcomes(folded) : e[1] = x /\ q = <<"folded", 0, e>>
          \/ \E i \in DOMAIN pipe : \E e \in Outcomes(pipe[i]) : e[1] = x /\ q = <<"pipe", i, e>>
          \/ x \in told /\ q = <<"told", 0, x>>
      <4>1. CASE \E u \in DOMAIN pc' : pc'[u] # "read" /\ hand'[u].frame = x /\ q = <<"hand", u, x>>
        BY <1>1, <4>1
      <4>2. CASE \E e \in Outcomes(flows') : e[1] = x /\ q = <<"flows", 0, e>>
        BY <2>3, <4>2
      <4> QED BY <1>1, <2>1, <4>1, <4>2
    <3>2. q # from
      BY <3>1
    <3>3. q \in Places(x)
      BY <3>1, PlacesAre
    <3> QED BY <1>2, <3>2, <3>3
  <2> QED BY <2>2, <2>3
<1>5. OncePlaced(x)
  BY DEF FlowInv, Placed
<1> QED BY <1>1, <1>3, <1>4, <1>5, OnceMoved

LEMMA AttributePlaces ==
  ASSUME FlowsAssumption, FlowInv, NEW t \in Thread, Attribute(t) PROVE Placed'
<1>1. Fitting(flows) /\ Fields(flows) /\ Counted(flows.missed)
  BY DEF FlowInv, Typed, Fitting
<1>2. CASE flows' = Count(flows, "unattributed", hand[t].frame)
  <2>1. Outcomes(flows') = Outcomes(flows) \cup {<<hand[t].frame, "unattributed", 0>>}
    BY <1>1, <1>2, CountTells
  <2>2. <<hand[t].frame, "unattributed", 0>>[1] = hand[t].frame
    OBVIOUS
  <2> QED BY <2>1, <2>2, AttributedPlaces
<1>3. CASE \E pid \in Process :
             flows' = Recorded(flows, [pid |-> pid, peer |-> hand[t].packet.peer, port |-> hand[t].packet.port],
                               hand[t].frame)
  <2>1. PICK key : flows' = Recorded(flows, key, hand[t].frame)
    BY <1>3
  <2>2. PICK o : o[1] = hand[t].frame /\ Outcomes(flows') = Outcomes(flows) \cup {o}
    BY <1>1, <2>1, RecordedTells
  <2> QED BY <2>2, AttributedPlaces
<1> QED BY <1>2, <1>3 DEF Attribute

(* What is drained is told of by what was drained.                         *)
LEMMA DrainedTells ==
  ASSUME NEW f
  PROVE  Outcomes(Drained(f)) = Outcomes(f) /\ Drained(f).seen = f.seen
         /\ Drained(f).missed = f.missed /\ Drained(f).scans = Scans(f)
<1>1. Drained(f).seen = f.seen /\ Drained(f).missed = f.missed /\ Drained(f).scans = Scans(f)
  BY DEF Drained
<1> QED BY <1>1, SameTells

(* A batch takes every frame of the accumulator along.                     *)
LEMMA BatchPlaces == ASSUME FlowsAssumption, FlowInv, Batch PROVE Placed'
<1> DEFINE l == Len(pipe) + 1
<1>1. /\ folded' = folded /\ told' = told /\ read' = read /\ pc' = pc /\ hand' = hand
  BY DEF Batch
<1>2. /\ Len(pipe) \in Nat /\ DOMAIN pipe = 1..Len(pipe) /\ DOMAIN pipe' = 1..l
      /\ pipe'[l] = Drained(flows) /\ \A i \in 1..Len(pipe) : pipe'[i] = pipe[i]
  <2>1. PICK S : pipe \in Seq(S)
    BY DEF FlowInv, Typed
  <2>2. pipe \in Seq(S \cup {Drained(flows)}) /\ Drained(flows) \in S \cup {Drained(flows)}
    BY <2>1, SeqMonotonic
  <2>3. pipe' = Append(pipe, Drained(flows))
    BY DEF Batch
  <2> HIDE DEF l
  <2> QED BY <2>2, <2>3 DEF l
<1>3. Outcomes(flows') = {} /\ Outcomes(pipe'[l]) = Outcomes(flows)
  BY <1>2, NothingTold, DrainedTells DEF Batch
<1> SUFFICES ASSUME NEW x PROVE OncePlaced(x)'
  BY DEF Placed
<1> DEFINE go == [p \in Places(x) |-> IF p[1] = "flows" THEN <<"pipe", l, p[3]>> ELSE p]
<1>4. \A p \in Places(x) : (p[1] = "flows" => go[p] = <<"pipe", l, p[3]>>) /\ (p[1] # "flows" => go[p] = p)
  OBVIOUS
<1> HIDE DEF go
<1>5. ASSUME NEW p \in Places(x) PROVE go[p] \in Places(x)'
  <2>1. CASE \E e \in Outcomes(flows) : e[1] = x /\ p = <<"flows", 0, e>>
    <3>1. PICK e \in Outcomes(flows) : e[1] = x /\ p = <<"flows", 0, e>>
      BY <2>1
    <3>2. go[p] = <<"pipe", l, e>>
      BY <1>4, <3>1
    <3>3. l \in DOMAIN pipe' /\ e \in Outcomes(pipe'[l])
      BY <1>2, <1>3
    <3> QED BY <3>1, <3>2, <3>3, PlacesWillBe
  <2>2. CASE ~(\E e \in Outcomes(flows) : e[1] = x /\ p = <<"flows", 0, e>>)
    <3>1. \/ \E u \in DOMAIN pc : pc[u] # "read" /\ hand[u].frame = x /\ p = <<"hand", u, x>>
          \/ \E e \in Outcomes(folded) : e[1] = x /\ p = <<"folded", 0, e>>
          \/ \E i \in DOMAIN pipe : \E e \in Outcomes(pipe[i]) : e[1] = x /\ p = <<"pipe", i, e>>
          \/ x \in told /\ p = <<"told", 0, x>>
      BY <2>2, PlacesAre
    <3>2. p[1] # "flows"
      BY <3>1
    <3>3. go[p] = p
      BY <1>4, <3>2
    <3>4. \/ \E u \in DOMAIN pc' : pc'[u] # "read" /\ hand'[u].frame = x /\ p = <<"hand", u, x>>
          \/ \E e \in Outcomes(folded') : e[1] = x /\ p = <<"folded", 0, e>>
          \/ \E i \in DOMAIN pipe' : \E e \in Outcomes(pipe'[i]) : e[1] = x /\ p = <<"pipe", i, e>>
          \/ x \in told' /\ p = <<"told", 0, x>>
      <4>1. \A i \in DOMAIN pipe : i \in DOMAIN pipe' /\ pipe'[i] = pipe[i]
        BY <1>2
      <4> QED BY <1>1, <3>1, <4>1
    <3> QED BY <3>3, <3>4, PlacesWillBe
  <2> QED BY <2>1, <2>2
<1>6. ASSUME NEW q \in Places(x)' PROVE \E p \in Places(x) : q = go[p]
  <2>1. \/ \E u \in DOMAIN pc' : pc'[u] # "read" /\ hand'[u].frame = x /\ q = <<"hand", u, x>>
        \/ \E e \in Outcomes(flows') : e[1] = x /\ q = <<"flows", 0, e>>
        \/ \E e \in Outcomes(folded') : e[1] = x /\ q = <<"folded", 0, e>>
        \/ \E i \in DOMAIN pipe' : \E e \in Outcomes(pipe'[i]) : e[1] = x /\ q = <<"pipe", i, e>>
        \/ x \in told' /\ q = <<"told", 0, x>>
    BY PlacesWillBe
  <2>2. CASE \E e \in Outcomes(flows) : e[1] = x /\ q = <<"pipe", l, e>>
    <3>1. PICK e \in Outcomes(flows) : e[1] = x /\ q = <<"pipe", l, e>>
      BY <2>2
    <3>2. <<"flows", 0, e>> \in Places(x)
      BY <3>1, PlacesAre
    <3>3. <<"flows", 0, e>>[1] = "flows" /\ <<"flows", 0, e>>[3] = e
      OBVIOUS
    <3>4. go[<<"flows", 0, e>>] = <<"pipe", l, e>>
      BY <1>4, <3>2, <3>3
    <3> QED BY <3>1, <3>2, <3>4
  <2>3. CASE ~(\E e \in Outcomes(flows) : e[1] = x /\ q = <<"pipe", l, e>>)
    <3>1. \/ \E u \in DOMAIN pc : pc[u] # "read" /\ hand[u].frame = x /\ q = <<"hand", u, x>>
          \/ \E e \in Outcomes(folded) : e[1] = x /\ q = <<"folded", 0, e>>
          \/ \E i \in DOMAIN pipe : \E e \in Outcomes(pipe[i]) : e[1] = x /\ q = <<"pipe", i, e>>
          \/ x \in told /\ q = <<"told", 0, x>>
      <4>1. ASSUME NEW i \in DOMAIN pipe', NEW e \in Outcomes(pipe'[i]), e[1] = x, q = <<"pipe", i, e>>
            PROVE  i \in DOMAIN pipe /\ e \in Outcomes(pipe[i])
        <5>1. i # l
          BY <1>3, <2>3, <4>1
        <5> QED BY <1>2, <4>1, <5>1
      <4> QED BY <1>1, <1>3, <2>1, <4>1
    <3>2. q[1] # "flows"
      BY <3>1
    <3>3. q \in Places(x)
      BY <3>1, PlacesAre
    <3> QED BY <1>4, <3>2, <3>3
  <2> QED BY <2>2, <2>3
<1>7. OncePlaced(x)
  BY DEF FlowInv, Placed
<1> QED BY <1>1, <1>5, <1>6, <1>7, OnceMoved

(* What a batch told is told of by the accumulator it is folded into.      *)
LEMMA AbsorbPlaces == ASSUME FlowsAssumption, FlowInv, Absorb PROVE Placed'
<1>1. /\ flows' = flows /\ told' = told /\ read' = read /\ pc' = pc /\ hand' = hand
  BY DEF Absorb
<1>2. /\ Len(pipe) \in Nat /\ DOMAIN pipe = 1..Len(pipe) /\ 1 \in DOMAIN pipe /\ Head(pipe) = pipe[1]
      /\ DOMAIN pipe' = 1..(Len(pipe) - 1) /\ \A i \in DOMAIN pipe' : pipe'[i] = pipe[i + 1]
  <2>1. PICK S : pipe \in Seq(S)
    BY DEF FlowInv, Typed
  <2>2. pipe # <<>> /\ pipe' = Tail(pipe)
    BY DEF Absorb
  <2> QED BY <2>1, <2>2
<1>3. PICK admitted \in SUBSET DOMAIN pipe[1].seen :
        Fits(folded, pipe[1], admitted) /\ folded' = Absorbed(folded, pipe[1], admitted)
  BY <1>2 DEF Absorb
<1>4. Fitting(folded) /\ Counted(pipe[1].missed) /\ IsFiniteSet(DOMAIN pipe[1].seen)
  BY <1>2 DEF FlowInv, Typed
<1>5. PICK mv : /\ Outcomes(folded) \subseteq Outcomes(folded')
                /\ \A o \in Outcomes(pipe[1]) : mv[o] \in Outcomes(folded') /\ mv[o][1] = o[1]
                /\ \A o \in Outcomes(folded') : o \in Outcomes(folded) \/ \E e \in Outcomes(pipe[1]) : o = mv[e]
  <2> DEFINE d == pipe[1]  g == folded'
  <2>1. /\ Counted(d.missed) /\ IsFiniteSet(DOMAIN d.seen) /\ admitted \in SUBSET DOMAIN d.seen
        /\ Fits(folded, d, admitted) /\ g = Absorbed(folded, d, admitted)
    BY <1>3, <1>4
  <2> HIDE DEF d, g
  <2>2. Takes(folded, d, g)
    BY <1>4, <2>1, AbsorbedTells
  <2> QED BY <2>2 DEF d, g, Takes
<1> SUFFICES ASSUME NEW x PROVE OncePlaced(x)'
  BY DEF Placed
<1> DEFINE moved(p) == IF p[2] = 1 THEN <<"folded", 0, mv[p[3]]>> ELSE <<"pipe", p[2] - 1, p[3]>>
           go == [p \in Places(x) |-> IF p[1] = "pipe" THEN moved(p) ELSE p]
<1>6. \A p \in Places(x) : (p[1] = "pipe" => go[p] = moved(p)) /\ (p[1] # "pipe" => go[p] = p)
  <2> HIDE DEF moved
  <2> QED OBVIOUS
<1>7. ASSUME NEW p \in Places(x), NEW i \in DOMAIN pipe, NEW e, p = <<"pipe", i, e>>
      PROVE  /\ i = 1 => go[p] = <<"folded", 0, mv[e]>>
             /\ i # 1 => go[p] = <<"pipe", i - 1, e>>
  <2>1. p[1] = "pipe" /\ p[2] = i /\ p[3] = e
    BY <1>7
  <2> HIDE DEF go
  <2> QED BY <1>6, <2>1
<1> HIDE DEF go
<1>8. ASSUME NEW p \in Places(x) PROVE go[p] \in Places(x)'
  <2>1. CASE \E i \in DOMAIN pipe : \E e \in Outcomes(pipe[i]) : e[1] = x /\ p = <<"pipe", i, e>>
    <3>1. PICK i \in DOMAIN pipe : \E e \in Outcomes(pipe[i]) : e[1] = x /\ p = <<"pipe", i, e>>
      BY <2>1
    <3>2. PICK e \in Outcomes(pipe[i]) : e[1] = x /\ p = <<"pipe", i, e>>
      BY <3>1
    <3>3. CASE i = 1
      <4>1. go[p] = <<"folded", 0, mv[e]>>
        BY <1>7, <3>2, <3>3
      <4>2. mv[e] \in Outcomes(folded') /\ mv[e][1] = x
        BY <1>5, <3>2, <3>3
      <4> QED BY <4>1, <4>2, PlacesWillBe
    <3>4. CASE i # 1
      <4>1. go[p] = <<"pipe", i - 1, e>>
        BY <1>7, <3>2, <3>4
      <4>2. i - 1 \in DOMAIN pipe' /\ pipe'[i - 1] = pipe[i]
        BY <1>2, <3>4
      <4> QED BY <3>2, <4>1, <4>2, PlacesWillBe
    <3> QED BY <3>3, <3>4
  <2>2. CASE ~(\E i \in DOMAIN pipe : \E e \in Outcomes(pipe[i]) : e[1] = x /\ p = <<"pipe", i, e>>)
    <3>1. \/ \E u \in DOMAIN pc : pc[u] # "read" /\ hand[u].frame = x /\ p = <<"hand", u, x>>
          \/ \E e \in Outcomes(flows) : e[1] = x /\ p = <<"flows", 0, e>>
          \/ \E e \in Outcomes(folded) : e[1] = x /\ p = <<"folded", 0, e>>
          \/ x \in told /\ p = <<"told", 0, x>>
      BY <2>2, PlacesAre
    <3>2. p[1] # "pipe"
      BY <3>1
    <3>3. go[p] = p
      BY <1>6, <3>2
    <3>4. \/ \E u \in DOMAIN pc' : pc'[u] # "read" /\ hand'[u].frame = x /\ p = <<"hand", u, x>>
          \/ \E e \in Outcomes(flows') : e[1] = x /\ p = <<"flows", 0, e>>
          \/ \E e \in Outcomes(folded') : e[1] = x /\ p = <<"folded", 0, e>>
          \/ x \in told' /\ p = <<"told", 0, x>>
      BY <1>1, <1>5, <3>1
    <3> QED BY <3>3, <3>4, PlacesWillBe
  <2> QED BY <2>1, <2>2
<1>9. ASSUME NEW q \in Places(x)' PROVE \E p \in Places(x) : q = go[p]
  <2>1. \/ \E u \in DOMAIN pc' : pc'[u] # "read" /\ hand'[u].frame = x /\ q = <<"hand", u, x>>
        \/ \E e \in Outcomes(flows') : e[1] = x /\ q = <<"flows", 0, e>>
        \/ \E e \in Outcomes(folded') : e[1] = x /\ q = <<"folded", 0, e>>
        \/ \E i \in DOMAIN pipe' : \E e \in Outcomes(pipe'[i]) : e[1] = x /\ q = <<"pipe", i, e>>
        \/ x \in told' /\ q = <<"told", 0, x>>
    BY PlacesWillBe
  <2>2. CASE \E i \in DOMAIN pipe' : \E e \in Outcomes(pipe'[i]) : e[1] = x /\ q = <<"pipe", i, e>>
    <3>1. PICK i \in DOMAIN pipe' : \E e \in Outcomes(pipe'[i]) : e[1] = x /\ q = <<"pipe", i, e>>
      BY <2>2
    <3>2. PICK e \in Outcomes(pipe'[i]) : e[1] = x /\ q = <<"pipe", i, e>>
      BY <3>1
    <3>3. i + 1 \in DOMAIN pipe /\ i + 1 # 1 /\ (i + 1) - 1 = i /\ e \in Outcomes(pipe[i + 1])
      BY <1>2, <3>2
    <3>4. <<"pipe", i + 1, e>> \in Places(x)
      BY <3>2, <3>3, PlacesAre
    <3>5. go[<<"pipe", i + 1, e>>] = <<"pipe", (i + 1) - 1, e>>
      BY <1>7, <3>3, <3>4
    <3> QED BY <3>2, <3>3, <3>4, <3>5
  <2>3. CASE \E e \in Outcomes(pipe[1]) : mv[e][1] = x /\ q = <<"folded", 0, mv[e]>>
    <3>1. PICK e \in Outcomes(pipe[1]) : mv[e][1] = x /\ q = <<"folded", 0, mv[e]>>
      BY <2>3
    <3>2. <<"pipe", 1, e>> \in Places(x)
      BY <1>2, <1>5, <3>1, PlacesAre
    <3>3. go[<<"pipe", 1, e>>] = <<"folded", 0, mv[e]>>
      BY <1>2, <1>7, <3>2
    <3> QED BY <3>1, <3>2, <3>3
  <2>4. CASE \/ \E u \in DOMAIN pc : pc[u] # "read" /\ hand[u].frame = x /\ q = <<"hand", u, x>>
             \/ \E e \in Outcomes(flows) : e[1] = x /\ q = <<"flows", 0, e>>
             \/ \E e \in Outcomes(folded) : e[1] = x /\ q = <<"folded", 0, e>>
             \/ x \in told /\ q = <<"told", 0, x>>
    <3>1. q[1] # "pipe"
      BY <2>4
    <3>2. q \in Places(x)
      BY <2>4, PlacesAre
    <3> QED BY <1>6, <3>1, <3>2
  <2>5. ASSUME NEW e \in Outcomes(folded'), e[1] = x, q = <<"folded", 0, e>>
        PROVE  \/ e \in Outcomes(folded)
               \/ \E d \in Outcomes(pipe[1]) : mv[d][1] = x /\ q = <<"folded", 0, mv[d]>>
    BY <1>5, <2>5
  <2> QED BY <1>1, <2>1, <2>2, <2>3, <2>4, <2>5
<1>10. OncePlaced(x)
  BY DEF FlowInv, Placed
<1> QED BY <1>1, <1>8, <1>9, <1>10, OnceMoved

(* A sweep tells of everything in the accumulator that it takes.           *)
LEMMA SweepPlaces == ASSUME FlowsAssumption, FlowInv, Sweep PROVE Placed'
<1>1. pipe' = pipe /\ read' = read /\ pc' = pc /\ hand' = hand
  BY DEF Sweep
<1>2. PICK k \in {"flows", "folded"} :
        /\ k = "folded" => flows' = flows /\ folded' = Empty /\ report' = Drained(folded)
        /\ k = "flows" => folded' = folded /\ flows' = Empty /\ report' = Drained(flows)
  BY DEF Sweep
<1>3. Outcomes(Empty) = {}
  BY NothingTold
<1>4. /\ k = "folded" => Outcomes(flows') = Outcomes(flows) /\ Outcomes(folded') = {}
                         /\ told' = told \cup {o[1] : o \in Outcomes(folded)}
      /\ k = "flows" => Outcomes(folded') = Outcomes(folded) /\ Outcomes(flows') = {}
                         /\ told' = told \cup {o[1] : o \in Outcomes(flows)}
  <2>1. told' = told \cup {o[1] : o \in Outcomes(report')}
    BY DEF Sweep
  <2> QED BY <1>2, <1>3, <2>1, DrainedTells
<1> DEFINE T == IF k = "folded" THEN Outcomes(folded) ELSE Outcomes(flows)
<1>5. \A y : y \in told' <=> y \in told \/ \E o \in T : y = o[1]
  BY <1>4
<1> SUFFICES ASSUME NEW x PROVE OncePlaced(x)'
  BY DEF Placed
<1> DEFINE go == [p \in Places(x) |-> IF p[1] = k THEN <<"told", 0, x>> ELSE p]
<1>6. \A p \in Places(x) : (p[1] = k => go[p] = <<"told", 0, x>>) /\ (p[1] # k => go[p] = p)
  OBVIOUS
<1> HIDE DEF go
<1>7. ASSUME NEW p \in Places(x) PROVE go[p] \in Places(x)'
  <2>1. CASE \E e \in T : e[1] = x /\ p = <<k, 0, e>>
    <3>1. go[p] = <<"told", 0, x>>
      BY <1>6, <2>1
    <3>2. x \in told'
      BY <1>5, <2>1
    <3> QED BY <3>1, <3>2, PlacesWillBe
  <2>2. CASE ~(\E e \in T : e[1] = x /\ p = <<k, 0, e>>)
    <3>1. \/ \E u \in DOMAIN pc : pc[u] # "read" /\ hand[u].frame = x /\ p = <<"hand", u, x>>
          \/ k = "folded" /\ \E e \in Outcomes(flows) : e[1] = x /\ p = <<"flows", 0, e>>
          \/ k = "flows" /\ \E e \in Outcomes(folded) : e[1] = x /\ p = <<"folded", 0, e>>
          \/ \E i \in DOMAIN pipe : \E e \in Outcomes(pipe[i]) : e[1] = x /\ p = <<"pipe", i, e>>
          \/ x \in told /\ p = <<"told", 0, x>>
      BY <1>2, <2>2, PlacesAre
    <3>2. p[1] # k
      BY <1>2, <3>1
    <3>3. go[p] = p
      BY <1>6, <3>2
    <3>4. \/ \E u \in DOMAIN pc' : pc'[u] # "read" /\ hand'[u].frame = x /\ p = <<"hand", u, x>>
          \/ \E e \in Outcomes(flows') : e[1] = x /\ p = <<"flows", 0, e>>
          \/ \E e \in Outcomes(folded') : e[1] = x /\ p = <<"folded", 0, e>>
          \/ \E i \in DOMAIN pipe' : \E e \in Outcomes(pipe'[i]) : e[1] = x /\ p = <<"pipe", i, e>>
          \/ x \in told' /\ p = <<"told", 0, x>>
      BY <1>1, <1>4, <1>5, <3>1
    <3> QED BY <3>3, <3>4, PlacesWillBe
  <2> QED BY <2>1, <2>2
<1>8. ASSUME NEW q \in Places(x)' PROVE \E p \in Places(x) : q = go[p]
  <2>1. \/ \E u \in DOMAIN pc : pc[u] # "read" /\ hand[u].frame = x /\ q = <<"hand", u, x>>
        \/ k = "folded" /\ \E e \in Outcomes(flows) : e[1] = x /\ q = <<"flows", 0, e>>
        \/ k = "flows" /\ \E e \in Outcomes(folded) : e[1] = x /\ q = <<"folded", 0, e>>
        \/ \E i \in DOMAIN pipe : \E e \in Outcomes(pipe[i]) : e[1] = x /\ q = <<"pipe", i, e>>
        \/ x \in told /\ q = <<"told", 0, x>>
        \/ (\E o \in T : x = o[1]) /\ q = <<"told", 0, x>>
    <3>1. \/ \E u \in DOMAIN pc' : pc'[u] # "read" /\ hand'[u].frame = x /\ q = <<"hand", u, x>>
          \/ \E e \in Outcomes(flows') : e[1] = x /\ q = <<"flows", 0, e>>
          \/ \E e \in Outcomes(folded') : e[1] = x /\ q = <<"folded", 0, e>>
          \/ \E i \in DOMAIN pipe' : \E e \in Outcomes(pipe'[i]) : e[1] = x /\ q = <<"pipe", i, e>>
          \/ x \in told' /\ q = <<"told", 0, x>>
      BY PlacesWillBe
    <3> HIDE DEF T
    <3> QED BY <1>1, <1>2, <1>4, <1>5, <3>1
  <2>2. CASE (\E o \in T : x = o[1]) /\ q = <<"told", 0, x>>
    <3>1. PICK o \in T : x = o[1]
      BY <2>2
    <3>2. <<k, 0, o>> \in Places(x)
      BY <1>2, <3>1, PlacesAre
    <3>3. <<k, 0, o>>[1] = k
      OBVIOUS
    <3> QED BY <1>6, <2>2, <3>2, <3>3
  <2>3. CASE ~((\E o \in T : x = o[1]) /\ q = <<"told", 0, x>>)
    <3>1. q[1] # k
      BY <1>2, <2>1, <2>3
    <3>2. q \in Places(x)
      BY <2>1, <2>3, PlacesAre
    <3> QED BY <1>6, <3>1, <3>2
  <2> QED BY <2>2, <2>3
<1>9. OncePlaced(x)
  BY DEF FlowInv, Placed
<1> QED BY <1>1, <1>7, <1>8, <1>9, OnceMoved

-----------------------------------------------------------------------------
(* The scans of an accumulator are real, if its ports were touched.        *)
LEMMA ScansAre ==
  ASSUME NEW f
  PROVE  \A s \in Scans(f) :
           \/ \E h \in DOMAIN f.probed :
                Cardinality(f.probed[h]) >= ScanPorts /\ s = [peer |-> h, ports |-> Cardinality(f.probed[h])]
           \/ \E h \in DOMAIN f.carried : s = [peer |-> h, ports |-> f.carried[h]]
BY DEF Scans, Scanned

LEMMA FoldedScansReal ==
  ASSUME FlowInv PROVE \A s \in Drained(folded).scans : IsReal(s.peer, s.ports)
<1>1. DOMAIN folded.probed = {} /\ \A h \in DOMAIN folded.carried : IsReal(h, folded.carried[h])
  BY DEF FlowInv, Tracked, Genuine
<1> QED BY <1>1, ScansAre, DrainedTells

LEMMA FlowsScansReal ==
  ASSUME FlowsAssumption, FlowInv PROVE \A s \in Drained(flows).scans : IsReal(s.peer, s.ports)
<1>1. ASSUME NEW h \in DOMAIN flows.probed, Cardinality(flows.probed[h]) >= ScanPorts
      PROVE  IsReal(h, Cardinality(flows.probed[h]))
  <2>1. h \in Host
    BY DEF FlowInv, Typed, Fitting
  <2>2. flows.probed[h] \in SUBSET ever[h] /\ ever[h] \in SUBSET Port
    BY <2>1 DEF FlowInv, Tracked, Standing
  <2>3. IsFiniteSet(ever[h]) /\ IsFiniteSet(flows.probed[h])
        /\ Cardinality(flows.probed[h]) <= Cardinality(ever[h])
    BY <2>2, FS_Subset DEF FlowsAssumption
  <2>4. Cardinality(flows.probed[h]) \in Nat /\ Cardinality(ever[h]) \in Nat
    BY <2>3, FS_CardinalityType
  <2>5. ScanPorts \in Nat
    BY DEF FlowsAssumption
  <2> QED BY <1>1, <2>1, <2>3, <2>4, <2>5 DEF IsReal
<1>2. DOMAIN flows.carried = {}
  BY DEF FlowInv, Tracked
<1> QED BY <1>1, <1>2, ScansAre, DrainedTells

(* What was touched stays touched.                                         *)
LEMMA RealStays ==
  ASSUME FlowsAssumption, NEW host, NEW ports, IsReal(host, ports),
         ever[host] \in SUBSET ever'[host], ever'[host] \in SUBSET Port
  PROVE  host \in Host /\ ports \in ScanPorts..Cardinality(ever'[host])
<1>1. IsFiniteSet(ever'[host]) /\ Cardinality(ever[host]) <= Cardinality(ever'[host])
  BY FS_Subset DEF FlowsAssumption
<1>2. IsFiniteSet(ever[host])
  BY <1>1, FS_Subset
<1>3. Cardinality(ever[host]) \in Nat /\ Cardinality(ever'[host]) \in Nat
  BY <1>1, <1>2, FS_CardinalityType
<1>4. ScanPorts \in Nat
  BY DEF FlowsAssumption
<1> QED BY <1>1, <1>3, <1>4 DEF IsReal

(* The larger of two counts of real scans is that of a real scan.          *)
LEMMA CarriedReal ==
  ASSUME FlowsAssumption, FlowInv, NEW carried, NEW scans,
         \A h \in DOMAIN carried : IsReal(h, carried[h]), \A s \in scans : IsReal(s.peer, s.ports)
  PROVE  \A h \in DOMAIN Carried(carried, scans) : IsReal(h, Carried(carried, scans)[h])
<1> SUFFICES ASSUME NEW h \in DOMAIN Carried(carried, scans) PROVE IsReal(h, Carried(carried, scans)[h])
  OBVIOUS
<1> DEFINE T == {carried[g] : g \in {h} \cap DOMAIN carried}
                \cup {s.ports : s \in {z \in scans : z.peer = h}}
<1>1. h \in DOMAIN carried \cup {s.peer : s \in scans} /\ Carried(carried, scans)[h] = Max(T)
  BY DEF Carried
<1>2. T # {}
  BY <1>1
<1>3. h \in Host
  BY <1>1 DEF IsReal
<1>4. \A y \in T : y \in ScanPorts..Cardinality(ever[h])
  BY DEF IsReal
<1> HIDE DEF T
<1>5. ScanPorts \in Nat /\ Cardinality(ever[h]) \in Nat
  <2>1. ScanPorts \in Nat
    BY DEF FlowsAssumption
  <2>2. IsFiniteSet(ever[h])
    BY <1>3, FS_Subset DEF FlowInv, Tracked, Standing, FlowsAssumption
  <2> QED BY <2>1, <2>2, FS_CardinalityType
<1>6. Max(T) \in T
  BY <1>2, <1>4, <1>5, MaxOfBounded
<1> QED BY <1>1, <1>3, <1>4, <1>6 DEF IsReal

-----------------------------------------------------------------------------
LEMMA FlowInvStarts == ASSUME FlowsAssumption, FlowInit PROVE FlowInv
<1> USE DEF FlowInit
<1>1. Fitting(Empty) /\ Outcomes(Empty) = {} /\ DOMAIN Empty.carried = {} /\ DOMAIN Empty.probed = {}
  BY NothingTold
<1>2. Typed
  <2>1. <<>> \in Seq({}) /\ DOMAIN pipe = {}
    OBVIOUS
  <2>2. \E S : pipe \in Seq(S)
    BY <2>1
  <2> QED BY <1>1, <2>1, <2>2 DEF Typed
<1>3. Tracked
  <2>1. \A h \in Host : Standing(flows.probed, h)
    BY <1>1 DEF Standing
  <2> QED BY <1>1, <2>1 DEF Tracked
<1>4. Genuine
  BY <1>1 DEF Genuine, Nil
<1>5. Placed
  <2> SUFFICES ASSUME NEW x PROVE OncePlaced(x)
    BY DEF Placed
  <2>1. \A q : q \notin Places(x)
    BY <1>1, PlacesAre
  <2>2. x \notin 1..read
    OBVIOUS
  <2> QED BY <2>1, <2>2 DEF OncePlaced
<1> QED BY <1>2, <1>3, <1>4, <1>5 DEF FlowInv

LEMMA ReadStep == ASSUME FlowsAssumption, FlowInv, NEW t \in Thread, Read(t) PROVE FlowInv'
<1>1. Fitting(flows) /\ "frames" \in Counters /\ "notModelled" \in Counters
  BY DEF FlowInv, Typed, Counters
<1> DEFINE one == Count(flows, "frames", read')
<1>2. Fitting(one) /\ one.probed = flows.probed /\ one.carried = flows.carried
  BY <1>1, CountFits, CountIs DEF Fitting
<1>3. Fitting(flows') /\ flows'.probed = flows.probed /\ flows'.carried = flows.carried
  <2> HIDE DEF one
  <2>1. CASE flows' = one
    BY <1>2, <2>1
  <2>2. CASE flows' = Count(one, "notModelled", read')
    BY <1>1, <1>2, <2>2, CountFits, CountIs DEF Fitting
  <2> QED BY <2>1, <2>2 DEF Read, one
<1>4. Typed'
  <2>1. /\ pc' \in [Thread -> {"read", "probe", "attribute"}]
        /\ DOMAIN hand' = Thread /\ hand' = [u \in Thread |-> hand'[u]]
        /\ \A u \in Thread : pc'[u] # "read" => hand'[u].packet \in Packet
    <3>1. CASE UNCHANGED <<hand, pc>>
      BY <3>1 DEF FlowInv, Typed
    <3>2. CASE \E packet \in Packet :
                 /\ hand' = [hand EXCEPT ![t] = [frame |-> read', packet |-> packet]]
                 /\ pc' = [pc EXCEPT ![t] = IF packet.port = 0 THEN "attribute" ELSE "probe"]
      <4>1. PICK packet \in Packet :
                 /\ hand' = [hand EXCEPT ![t] = [frame |-> read', packet |-> packet]]
                 /\ pc' = [pc EXCEPT ![t] = IF packet.port = 0 THEN "attribute" ELSE "probe"]
        BY <3>2
      <4>2. /\ hand'[t].packet = packet
            /\ \A u \in Thread : u # t => hand'[u] = hand[u] /\ pc'[u] = pc[u]
        BY <4>1 DEF FlowInv, Typed
      <4>3. /\ pc' \in [Thread -> {"read", "probe", "attribute"}]
            /\ DOMAIN hand' = Thread /\ hand' = [u \in Thread |-> hand'[u]]
        BY <4>1 DEF FlowInv, Typed
      <4> QED BY <4>2, <4>3 DEF FlowInv, Typed
    <3> QED BY <3>1, <3>2 DEF Read
  <2> QED BY <1>3, <2>1 DEF FlowInv, Typed, Read
<1>5. Tracked'
  BY <1>3 DEF FlowInv, Tracked, Standing, Read
<1>6. Genuine'
  BY DEF FlowInv, Genuine, IsReal, Read
<1> QED BY <1>4, <1>5, <1>6, ReadPlaces DEF FlowInv

LEMMA AttributeStep == ASSUME FlowsAssumption, FlowInv, NEW t \in Thread, Attribute(t) PROVE FlowInv'
<1>1. Fitting(flows) /\ "unattributed" \in Counters
  BY DEF FlowInv, Typed, Counters
<1>2. Fitting(flows') /\ flows'.probed = flows.probed /\ flows'.carried = flows.carried
  <2>1. CASE flows' = Count(flows, "unattributed", hand[t].frame)
    BY <1>1, <2>1, CountFits, CountIs DEF Fitting
  <2>2. CASE \E key : flows' = Recorded(flows, key, hand[t].frame)
    BY <1>1, <2>2, RecordedTells
  <2> QED BY <2>1, <2>2 DEF Attribute
<1>3. Typed'
  <2>1. /\ pc' \in [Thread -> {"read", "probe", "attribute"}]
        /\ DOMAIN hand' = Thread /\ hand' = [u \in Thread |-> hand'[u]]
        /\ \A u \in Thread : pc'[u] # "read" => hand'[u].packet \in Packet
    BY DEF FlowInv, Typed, Attribute
  <2> QED BY <1>2, <2>1 DEF FlowInv, Typed, Attribute
<1>4. Tracked'
  BY <1>2 DEF FlowInv, Tracked, Standing, Attribute
<1>5. Genuine'
  BY DEF FlowInv, Genuine, IsReal, Attribute
<1> QED BY <1>3, <1>4, <1>5, AttributePlaces DEF FlowInv

(* A port that is touched is noted, or there is no room for its host, or   *)
(* none for it.                                                            *)
LEMMA ProbeTracked == ASSUME FlowsAssumption, FlowInv, NEW t \in Thread, Probe(t) PROVE Tracked'
<1> DEFINE packet == hand[t].packet
<1>0. PICK host, port : host = packet.peer /\ port = packet.port
  OBVIOUS
<1>1. Fitting(flows) /\ packet \in Packet
  BY DEF FlowInv, Typed, Probe
<1>2. host \in Host /\ port \in Port
  BY <1>0, <1>1 DEF Packet
<1>3. /\ flows' = Probed(flows, packet) /\ folded' = folded
      /\ touched' = [touched EXCEPT ![host] = @ \cup {port}]
      /\ ever' = [ever EXCEPT ![host] = @ \cup {port}]
  BY <1>0 DEF Probe
<1>4. /\ flows'.carried = flows.carried
      /\ \/ /\ host \notin DOMAIN flows.probed /\ Cardinality(DOMAIN flows.probed) >= MaxProbed
            /\ flows' = flows
         \/ /\ host \in DOMAIN flows.probed \/ Cardinality(DOMAIN flows.probed) < MaxProbed
            /\ flows'.probed = Noted(flows.probed, host, port)
  BY <1>0, <1>1, <1>3, ProbedIs
<1> HIDE DEF packet
<1>5. /\ touched' = [h \in Host |-> touched'[h]] /\ ever' = [h \in Host |-> ever'[h]]
      /\ touched'[host] = touched[host] \cup {port} /\ ever'[host] = ever[host] \cup {port}
      /\ \A h \in Host : h # host => touched'[h] = touched[h] /\ ever'[h] = ever[h]
  BY <1>2, <1>3 DEF FlowInv, Tracked
<1>6. \A h \in Host : Standing(flows.probed, h)
  BY DEF FlowInv, Tracked
<1>7. CASE host \notin DOMAIN flows.probed /\ Cardinality(DOMAIN flows.probed) >= MaxProbed /\ flows' = flows
  <2>1. \A h \in Host : Standing(flows.probed, h)'
    BY <1>2, <1>5, <1>6, <1>7 DEF Standing
  <2> QED BY <1>3, <1>4, <1>5, <2>1 DEF FlowInv, Tracked
<1>8. CASE /\ host \in DOMAIN flows.probed \/ Cardinality(DOMAIN flows.probed) < MaxProbed
           /\ flows'.probed = Noted(flows.probed, host, port)
  <2> DEFINE old == flows.probed  new == flows'.probed  more == More(At(old, host), port)
  <2>1. new = [h \in DOMAIN old \cup {host} |-> IF h = host THEN more ELSE old[h]]
    BY <1>8 DEF Noted, More, Room
  <2>2. /\ host \in DOMAIN old /\ Room(old[host]) => more = old[host] \cup {port}
        /\ host \in DOMAIN old /\ ~Room(old[host]) => more = old[host]
        /\ host \notin DOMAIN old => more = {port}
    BY MoreIs
  <2> HIDE DEF more
  <2>3. DOMAIN new = DOMAIN old \cup {host} /\ new[host] = more /\ \A h \in DOMAIN old : h # host => new[h] = old[h]
    BY <2>1
  <2> HIDE DEF new
  <2>4. Cardinality(DOMAIN old) >= MaxProbed => Cardinality(DOMAIN new) >= MaxProbed
    <3>1. DOMAIN old \in SUBSET Host /\ IsFiniteSet(Host) /\ MaxProbed \in Nat
      BY <1>1 DEF Fitting, FlowsAssumption
    <3>2. IsFiniteSet(DOMAIN old) /\ IsFiniteSet(DOMAIN new)
      BY <1>2, <2>3, <3>1, FS_Subset
    <3>3. Cardinality(DOMAIN old) <= Cardinality(DOMAIN new)
      BY <2>3, <3>2, FS_Subset
    <3>4. Cardinality(DOMAIN old) \in Nat /\ Cardinality(DOMAIN new) \in Nat
      BY <3>2, FS_CardinalityType
    <3> QED BY <3>1, <3>3, <3>4
  <2>5. ASSUME NEW h \in Host, h # host PROVE Standing(flows.probed, h)'
    <3>1. touched'[h] = touched[h] /\ ever'[h] = ever[h] /\ (h \in DOMAIN new <=> h \in DOMAIN old)
          /\ (h \in DOMAIN old => new[h] = old[h])
      BY <1>5, <2>3, <2>5
    <3>2. Standing(old, h)
      BY <1>6
    <3> QED BY <2>4, <3>1, <3>2 DEF Standing, new
  <2>6. Standing(flows.probed, host)'
    <3>1. Standing(old, host)
      BY <1>2, <1>6
    <3>2. CASE host \notin DOMAIN old
      <4>1. touched[host] = {}
        <5>1. Cardinality(DOMAIN old) < MaxProbed
          BY <1>8, <3>2
        <5>2. Cardinality(DOMAIN old) \in Nat /\ MaxProbed \in Nat
          <6>1. DOMAIN old \in SUBSET Host /\ IsFiniteSet(Host) /\ MaxProbed \in Nat
            BY <1>1 DEF Fitting, FlowsAssumption
          <6> QED BY <6>1, FS_Subset, FS_CardinalityType
        <5> QED BY <3>1, <3>2, <5>1, <5>2 DEF Standing
      <4>2. touched'[host] = {port} /\ new[host] = {port} /\ host \in DOMAIN new
        BY <1>5, <2>2, <2>3, <3>2, <4>1
      <4>3. ever'[host] \in SUBSET Port /\ touched'[host] \in SUBSET ever'[host]
        BY <1>2, <1>5, <3>1 DEF Standing
      <4> QED BY <4>2, <4>3 DEF Standing, new
    <3>3. CASE host \in DOMAIN old /\ Room(old[host])
      <4>1. old[host] = touched[host]
        BY <3>1, <3>3 DEF Standing, Room
      <4>2. touched'[host] = new[host] /\ host \in DOMAIN new /\ touched'[host] # {}
        BY <1>5, <2>2, <2>3, <3>3, <4>1
      <4>3. ever'[host] \in SUBSET Port /\ touched'[host] \in SUBSET ever'[host]
        BY <1>2, <1>5, <3>1 DEF Standing
      <4> QED BY <4>2, <4>3 DEF Standing, new
    <3>4. CASE host \in DOMAIN old /\ ~Room(old[host])
      <4>1. new[host] = old[host] /\ host \in DOMAIN new /\ new[host] \in SUBSET touched'[host] /\ touched'[host] # {}
        BY <1>5, <2>2, <2>3, <3>1, <3>4 DEF Standing
      <4>2. ~(Cardinality(new[host]) < MaxPortsPerHost)
        BY <3>4, <4>1 DEF Room
      <4>3. ever'[host] \in SUBSET Port /\ touched'[host] \in SUBSET ever'[host]
        BY <1>2, <1>5, <3>1 DEF Standing
      <4> QED BY <4>1, <4>2, <4>3 DEF Standing, new
    <3> QED BY <3>2, <3>3, <3>4
  <2>7. \A h \in Host : Standing(flows.probed, h)'
    BY <2>5, <2>6
  <2> QED BY <1>3, <1>4, <1>5, <2>7 DEF FlowInv, Tracked
<1> QED BY <1>4, <1>7, <1>8

LEMMA ProbeStep == ASSUME FlowsAssumption, FlowInv, NEW t \in Thread, Probe(t) PROVE FlowInv'
<1> DEFINE packet == hand[t].packet
<1>1. Fitting(flows) /\ packet \in Packet
  BY DEF FlowInv, Typed, Probe
<1>2. Fitting(flows')
  BY <1>1, ProbedIs DEF Probe
<1>3. Typed'
  <2>1. /\ pc' \in [Thread -> {"read", "probe", "attribute"}]
        /\ \A u \in Thread : pc'[u] # "read" => pc[u] # "read"
    BY DEF FlowInv, Typed, Probe
  <2> QED BY <1>2, <2>1 DEF FlowInv, Typed, Probe
<1>4. Tracked'
  BY ProbeTracked
<1>5. ASSUME NEW h, NEW n, IsReal(h, n) PROVE IsReal(h, n)'
  <2>1. h \in Host
    BY <1>5 DEF IsReal
  <2>2. ever'[h] \in SUBSET Port
    BY <1>4, <2>1 DEF Tracked, Standing
  <2>3. ever[h] \in SUBSET ever'[h]
    BY <2>1 DEF FlowInv, Tracked, Probe
  <2>4. h \in Host /\ n \in ScanPorts..Cardinality(ever'[h])
    BY <1>5, <2>2, <2>3, RealStays
  <2> QED BY <2>4 DEF IsReal
<1>6. report' = report /\ pipe' = pipe /\ folded' = folded
  BY DEF Probe
<1>7. Genuine'
  BY <1>5, <1>6 DEF FlowInv, Genuine
<1> QED BY <1>3, <1>4, <1>7, ProbePlaces DEF FlowInv

(* After a drain nothing is noted of any host, and nothing was touched.    *)
LEMMA DrainTracked ==
  ASSUME FlowsAssumption, FlowInv, flows' = Empty, touched' = [h \in Host |-> {}], ever' = ever,
         DOMAIN folded'.probed = {}
  PROVE  Tracked'
<1>1. DOMAIN Empty.carried = {} /\ DOMAIN Empty.probed = {}
  BY NothingTold
<1>2. \A h \in Host : ever[h] \in SUBSET Port
  BY DEF FlowInv, Tracked, Standing
<1>3. \A h \in Host : Standing(flows.probed, h)'
  BY <1>1, <1>2 DEF Standing
<1> QED BY <1>1, <1>3 DEF FlowInv, Tracked

LEMMA BatchStep == ASSUME FlowsAssumption, FlowInv, Batch PROVE FlowInv'
<1> DEFINE d == Drained(flows)
<1>1. PICK S : pipe \in Seq(S)
  BY DEF FlowInv, Typed
<1>2. pipe \in Seq(S \cup {d}) /\ d \in S \cup {d} /\ pipe' = Append(pipe, d)
  BY <1>1, SeqMonotonic DEF Batch
<1>3. /\ pipe' \in Seq(S \cup {d})
      /\ \A i \in DOMAIN pipe' : pipe'[i] = d \/ (i \in DOMAIN pipe /\ pipe'[i] = pipe[i])
  <2> HIDE DEF d
  <2>1. pipe' \in Seq(S \cup {d})
    BY <1>2
  <2>2. /\ Len(pipe) \in Nat /\ DOMAIN pipe = 1..Len(pipe) /\ DOMAIN pipe' = 1..(Len(pipe) + 1)
        /\ pipe'[Len(pipe) + 1] = d /\ \A i \in 1..Len(pipe) : pipe'[i] = pipe[i]
    BY <1>2
  <2>3. ASSUME NEW i \in DOMAIN pipe' PROVE i = Len(pipe) + 1 \/ i \in 1..Len(pipe)
    BY <2>2
  <2>4. \A i \in DOMAIN pipe' : pipe'[i] = d \/ (i \in DOMAIN pipe /\ pipe'[i] = pipe[i])
    BY <2>2, <2>3
  <2> QED BY <2>1, <2>4
<1>4. Counted(d.missed) /\ IsFiniteSet(DOMAIN d.seen)
  BY DrainedTells DEF FlowInv, Typed, Fitting
<1>5. \A s \in d.scans : IsReal(s.peer, s.ports)
  BY FlowsScansReal
<1> HIDE DEF d
<1>6. \E T : pipe' \in Seq(T)
  BY <1>3
<1>7. \A i \in DOMAIN pipe' : Counted(pipe'[i].missed) /\ IsFiniteSet(DOMAIN pipe'[i].seen)
  BY <1>3, <1>4 DEF FlowInv, Typed
<1>8. Fitting(Empty)
  BY NothingTold
<1>9. Typed'
  BY <1>6, <1>7, <1>8 DEF FlowInv, Typed, Batch
<1>10. Tracked'
  BY DrainTracked DEF Batch, FlowInv, Tracked
<1>11. \A i \in DOMAIN pipe' : \A s \in pipe'[i].scans : IsReal(s.peer, s.ports)
  BY <1>3, <1>5 DEF FlowInv, Genuine
<1>12. Genuine'
  BY <1>11 DEF FlowInv, Genuine, IsReal, Batch
<1> QED BY <1>9, <1>10, <1>12, BatchPlaces DEF FlowInv

LEMMA AbsorbStep == ASSUME FlowsAssumption, FlowInv, Absorb PROVE FlowInv'
<1>1. PICK S : pipe \in Seq(S)
  BY DEF FlowInv, Typed
<1>2. /\ 1 \in DOMAIN pipe /\ Head(pipe) = pipe[1] /\ pipe' \in Seq(S)
      /\ \A i \in DOMAIN pipe' : i + 1 \in DOMAIN pipe /\ pipe'[i] = pipe[i + 1]
  BY <1>1 DEF Absorb
<1>3. PICK admitted \in SUBSET DOMAIN pipe[1].seen :
        Fits(folded, pipe[1], admitted) /\ folded' = Absorbed(folded, pipe[1], admitted)
  BY <1>2 DEF Absorb
<1>4. Fitting(folded) /\ Counted(pipe[1].missed) /\ IsFiniteSet(DOMAIN pipe[1].seen)
  BY <1>2 DEF FlowInv, Typed
<1>5. /\ Fitting(folded') /\ folded'.probed = folded.probed
      /\ folded'.carried = Carried(folded.carried, pipe[1].scans)
  <2> DEFINE d == pipe[1]  g == folded'
  <2>1. /\ Counted(d.missed) /\ IsFiniteSet(DOMAIN d.seen) /\ admitted \in SUBSET DOMAIN d.seen
        /\ Fits(folded, d, admitted) /\ g = Absorbed(folded, d, admitted)
    BY <1>3, <1>4
  <2> HIDE DEF d, g
  <2>2. Fitting(g) /\ g.probed = folded.probed /\ g.carried = Carried(folded.carried, d.scans)
    BY <1>4, <2>1, AbsorbedTells
  <2> QED BY <2>2 DEF d, g
<1>6. \E T : pipe' \in Seq(T)
  BY <1>2
<1>7. Typed'
  BY <1>2, <1>5, <1>6 DEF FlowInv, Typed, Absorb
<1>8. Tracked'
  BY <1>5 DEF FlowInv, Tracked, Standing, Absorb
<1>9. \A h \in DOMAIN folded'.carried : IsReal(h, folded'.carried[h])
  <2>1. /\ \A h \in DOMAIN folded.carried : IsReal(h, folded.carried[h])
        /\ \A s \in pipe[1].scans : IsReal(s.peer, s.ports)
    BY <1>2 DEF FlowInv, Genuine
  <2> QED BY <1>5, <2>1, CarriedReal
<1>10. Genuine'
  BY <1>2, <1>9 DEF FlowInv, Genuine, IsReal, Absorb
<1> QED BY <1>7, <1>8, <1>10, AbsorbPlaces DEF FlowInv

LEMMA SweepStep == ASSUME FlowsAssumption, FlowInv, Sweep PROVE FlowInv'
<1>1. Fitting(Empty) /\ DOMAIN Empty.probed = {} /\ DOMAIN Empty.carried = {}
  BY NothingTold
<1>2. Typed'
  BY <1>1 DEF FlowInv, Typed, Sweep
<1>3. CASE Helped
  <2>1. flows' = flows /\ touched' = touched /\ ever' = ever /\ folded' = Empty /\ report' = Drained(folded) /\ pipe' = pipe
    BY <1>3 DEF Sweep
  <2>2. Tracked'
    BY <1>1, <2>1 DEF FlowInv, Tracked, Standing
  <2>3. \A s \in report'.scans : IsReal(s.peer, s.ports)
    BY <2>1, FoldedScansReal
  <2>4. Genuine'
    BY <1>1, <2>1, <2>3 DEF FlowInv, Genuine, IsReal
  <2> QED BY <1>2, <2>2, <2>4, SweepPlaces DEF FlowInv
<1>4. CASE ~Helped
  <2>1. flows' = Empty /\ touched' = [h \in Host |-> {}] /\ ever' = ever /\ folded' = folded
        /\ report' = Drained(flows) /\ pipe' = pipe
    BY <1>4 DEF Sweep
  <2>2. Tracked'
    BY <2>1, DrainTracked DEF FlowInv, Tracked
  <2>3. \A s \in report'.scans : IsReal(s.peer, s.ports)
    BY <2>1, FlowsScansReal
  <2>4. Genuine'
    BY <2>1, <2>3 DEF FlowInv, Genuine, IsReal
  <2> QED BY <1>2, <2>2, <2>4, SweepPlaces DEF FlowInv
<1> QED BY <1>3, <1>4

LEMMA FlowStutter == ASSUME FlowInv, UNCHANGED flowVars PROVE FlowInv'
<1>1. Typed'
  BY DEF FlowInv, Typed, flowVars
<1>2. Tracked'
  BY DEF FlowInv, Tracked, Standing, flowVars
<1>3. Genuine'
  BY DEF FlowInv, Genuine, IsReal, flowVars
<1>4. Placed'
  <2> SUFFICES ASSUME NEW x PROVE OncePlaced(x)'
    BY DEF Placed
  <2>1. \A q : q \in Places(x)' <=> q \in Places(x)
    BY PlacesAre, PlacesWillBe DEF flowVars
  <2>2. Places(x)' = Places(x)
    BY <2>1
  <2> QED BY <2>2, OnceSame DEF FlowInv, Placed, flowVars
<1> QED BY <1>1, <1>2, <1>3, <1>4 DEF FlowInv

LEMMA FlowInvStep == ASSUME FlowsAssumption, FlowInv, [FlowNext]_flowVars PROVE FlowInv'
BY ReadStep, ProbeStep, AttributeStep, BatchStep, AbsorbStep, SweepStep, FlowStutter DEF FlowNext

-----------------------------------------------------------------------------
(* What drains an accumulator sees every scan it could have tracked.       *)
LEMMA DrainTells ==
  ASSUME FlowsAssumption, FlowInv, NEW h \in Host, Cardinality(touched[h]) >= ScanPorts
  PROVE  \/ \E s \in Drained(flows).scans : s.peer = h
         \/ Cardinality({g \in DOMAIN touched : touched[g] # {}}) > MaxProbed
<1> DEFINE P == flows.probed  G == {g \in Host : touched[g] # {}}
<1>0. /\ IsFiniteSet(Host) /\ IsFiniteSet(Port) /\ MaxProbed \in Nat /\ MaxPortsPerHost \in Nat
      /\ ScanPorts \in Nat /\ ScanPorts > 0 /\ ScanPorts <= MaxPortsPerHost
  BY DEF FlowsAssumption
<1>1. Standing(P, h) /\ DOMAIN touched = Host /\ \A g \in Host : Standing(P, g)
  BY DEF FlowInv, Tracked
<1>2. /\ DOMAIN P \in SUBSET Host
      /\ \A g \in DOMAIN P : P[g] \in SUBSET Port /\ Cardinality(P[g]) <= MaxPortsPerHost
  BY DEF FlowInv, Typed, Fitting
<1>3. touched[h] # {}
  BY <1>0, FS_EmptySet
<1>4. CASE h \notin DOMAIN P
  <2>1. IsFiniteSet(DOMAIN P) /\ Cardinality(DOMAIN P) \in Nat
    BY <1>0, <1>2, FS_Subset, FS_CardinalityType
  <2>2. Cardinality(DOMAIN P) >= MaxProbed
    BY <1>1, <1>3, <1>4 DEF Standing
  <2>3. IsFiniteSet(DOMAIN P \cup {h}) /\ Cardinality(DOMAIN P \cup {h}) = Cardinality(DOMAIN P) + 1
    BY <1>4, <2>1, FS_AddElement
  <2>4. DOMAIN P \cup {h} \in SUBSET G
    BY <1>1, <1>2, <1>3 DEF Standing
  <2>5. IsFiniteSet(G)
    BY <1>0, FS_Subset
  <2> HIDE DEF G, P
  <2>6. Cardinality(DOMAIN P \cup {h}) <= Cardinality(G) /\ Cardinality(G) \in Nat
    BY <2>4, <2>5, FS_Subset, FS_CardinalityType
  <2>7. Cardinality(G) > MaxProbed
    BY <1>0, <2>1, <2>2, <2>3, <2>6
  <2> QED BY <1>1, <2>7 DEF G
<1>5. CASE h \in DOMAIN P
  <2>1. Cardinality(P[h]) \in Nat
    BY <1>0, <1>2, <1>5, FS_Subset, FS_CardinalityType
  <2>2. Cardinality(P[h]) >= ScanPorts
    <3>1. CASE Cardinality(P[h]) < MaxPortsPerHost
      <4>1. P[h] = touched[h]
        BY <1>1, <1>5, <3>1 DEF Standing
      <4> QED BY <4>1
    <3>2. CASE ~(Cardinality(P[h]) < MaxPortsPerHost)
      BY <1>0, <2>1, <3>2
    <3> QED BY <3>1, <3>2
  <2>3. [peer |-> h, ports |-> Cardinality(P[h])] \in Scans(flows)
    BY <1>5, <2>2 DEF Scans, Scanned
  <2> QED BY <2>3, DrainedTells
<1> QED BY <1>4, <1>5

LEMMA DrainSees == ASSUME FlowsAssumption, FlowInv, [FlowNext]_flowVars PROVE [DrainSeesScans]_flowVars
<1> SUFFICES ASSUME flows # Empty, flows' = Empty,
                    NEW h \in DOMAIN touched, Cardinality(touched[h]) >= ScanPorts
             PROVE  \/ \E s \in Taken.scans : s.peer = h
                    \/ Cardinality({g \in DOMAIN touched : touched[g] # {}}) > MaxProbed
  BY DEF DrainSeesScans
<1>0. h \in Host /\ Fitting(flows) /\ Fields(flows) /\ Counted(flows.missed)
  BY DEF FlowInv, Tracked, Typed, Fitting
<1>1. ASSUME NEW t \in Thread, Read(t) PROVE FALSE
  <2> DEFINE one == Count(flows, "frames", read')
  <2>1. /\ "frames" \in Counters /\ "notModelled" \in Counters
    BY DEF Counters
  <2>2. Fields(one) /\ Counted(one.missed) /\ one # Empty
    BY <1>0, <2>1, CountIs, CountIsNotEmpty
  <2> HIDE DEF one
  <2>3. Count(one, "notModelled", read') # Empty
    BY <2>1, <2>2, CountIsNotEmpty
  <2> QED BY <1>1, <2>2, <2>3 DEF Read, one
<1>2. ASSUME NEW t \in Thread, Probe(t) PROVE FALSE
  <2> DEFINE packet == hand[t].packet
  <2>1. packet \in Packet /\ flows' = Probed(flows, packet)
    BY <1>2 DEF FlowInv, Typed, Probe
  <2> HIDE DEF packet
  <2>2. flows'.probed = Noted(flows.probed, packet.peer, packet.port)
    BY <1>0, <2>1, ProbedIs
  <2>3. packet.peer \in DOMAIN flows'.probed
    BY <2>2 DEF Noted
  <2>4. DOMAIN Empty.probed = {}
    BY NothingTold
  <2> QED BY <2>3, <2>4
<1>3. ASSUME NEW t \in Thread, Attribute(t) PROVE FALSE
  <2>1. "unattributed" \in Counters
    BY DEF Counters
  <2>2. Count(flows, "unattributed", hand[t].frame) # Empty
    BY <1>0, <2>1, CountIsNotEmpty
  <2>3. \A key : Recorded(flows, key, hand[t].frame) # Empty
    BY <1>0, RecordedTells
  <2> QED BY <1>3, <2>2, <2>3 DEF Attribute
<1>4. CASE Batch
  <2>1. PICK S : pipe \in Seq(S)
    BY DEF FlowInv, Typed
  <2>2. pipe \in Seq(S \cup {Drained(flows)}) /\ pipe' = Append(pipe, Drained(flows))
    BY <1>4, <2>1, SeqMonotonic DEF Batch
  <2>3. pipe'[Len(pipe')] = Drained(flows)
    BY <2>2
  <2>4. batches' # batches
    BY <1>4 DEF FlowInv, Typed, Batch
  <2>5. Taken = Drained(flows)
    BY <2>3, <2>4 DEF Taken
  <2> QED BY <1>0, <2>5, DrainTells
<1>5. CASE Sweep
  <2>1. report' = Drained(flows) /\ batches' = batches
    BY <1>5 DEF Sweep
  <2>2. Taken = Drained(flows)
    BY <2>1 DEF Taken
  <2> QED BY <1>0, <2>2, DrainTells
<1>6. CASE Absorb
  BY <1>6 DEF Absorb
<1>7. CASE UNCHANGED flowVars
  BY <1>7 DEF flowVars
<1> QED BY <1>1, <1>2, <1>3, <1>4, <1>5, <1>6, <1>7 DEF FlowNext

LEMMA FlowInvTells ==
  ASSUME FlowsAssumption, FlowInv PROVE EveryFrameOnce /\ ScansAreReal /\ CeilingsHold
<1>1. EveryFrameOnce
  BY DEF EveryFrameOnce, FlowInv, Placed, OncePlaced
<1>2. ScansAreReal
  <2>1. \A s \in report.scans : IsReal(s.peer, s.ports)
    BY DEF FlowInv, Genuine
  <2>2. ScanPorts \in Nat
    BY DEF FlowsAssumption
  <2> QED BY <2>1, <2>2 DEF ScansAreReal, IsReal
<1>3. CeilingsHold
  BY DEF CeilingsHold, FlowInv, Typed, Fitting
<1> QED BY <1>1, <1>2, <1>3

(* What the readers, the helper and the sweeps do to a frame and to a scan *)
(* (flows.rs, session.rs, helper.rs), for any of them: a frame that was    *)
(* read is in one place at a time, and is told of once, as a packet of a   *)
(* flow or under the reason it was not kept; a reported scan was a scan,   *)
(* and none of a host that is tracked is missed; no ceiling is passed.     *)
THEOREM EveryFrameIsTold == ASSUME FlowsAssumption PROVE FlowSpec => FlowsHold
<1>1. FlowInit => FlowInv
  BY FlowInvStarts
<1>2. FlowInv /\ [FlowNext]_flowVars => FlowInv'
  BY FlowInvStep
<1>3. FlowInv /\ [FlowNext]_flowVars => [DrainSeesScans]_flowVars
  BY DrainSees
<1>4. FlowInv => EveryFrameOnce /\ ScansAreReal /\ CeilingsHold
  BY FlowInvTells
<1> QED BY <1>1, <1>2, <1>3, <1>4, PTL DEF FlowSpec, FlowsHold

-----------------------------------------------------------------------------
(* Induction, over a set of numbers that is given.                         *)
LEMMA CountedUp ==
  ASSUME NEW S, 0 \in S, \A i \in Nat : i \in S => i + 1 \in S
  PROVE  \A i \in Nat : i \in S
<1> SUFFICES ASSUME NEW i \in Nat, i \notin S PROVE FALSE
  OBVIOUS
<1>1. PICK T : T = {j \in Nat : j \notin S}
  OBVIOUS
<1>2. PICK x \in T : \A y \in T : x <= y
  BY <1>1, SmallestNumber
<1>3. x \in Nat /\ x # 0 /\ x - 1 \in Nat /\ x - 1 \notin T
  BY <1>1, <1>2
<1>4. (x - 1) + 1 \in S
  BY <1>1, <1>3
<1> QED BY <1>1, <1>3, <1>4

Climbed(table, pid, n, up) ==
  up = [i \in 0..n |->
          IF i = 0 THEN pid ELSE IF up[i - 1] \in DOMAIN table THEN table[up[i - 1]].parent ELSE Nothing]

LEMMA ClimbExists ==
  ASSUME NEW table, NEW pid, NEW n \in Nat
  PROVE  \E up : Climbed(table, pid, n, up)
<1>1. PICK S : S = {m \in Nat : \E up : Climbed(table, pid, m, up)}
  OBVIOUS
<1>2. 0 \in S
  <2>1. PICK up : up = [i \in 0..0 |-> pid]
    OBVIOUS
  <2>2. Climbed(table, pid, 0, up)
    BY <2>1 DEF Climbed
  <2> QED BY <1>1, <2>2
<1>3. ASSUME NEW m \in Nat, m \in S PROVE m + 1 \in S
  <2>1. PICK up : Climbed(table, pid, m, up)
    BY <1>1, <1>3
  <2>2. PICK next : next = IF up[m] \in DOMAIN table THEN table[up[m]].parent ELSE Nothing
    OBVIOUS
  <2>3. PICK far : far = [i \in 0..(m + 1) |-> IF i <= m THEN up[i] ELSE next]
    OBVIOUS
  <2>4. Climbed(table, pid, m + 1, far)
    <3>1. \A i \in 0..(m + 1) : i <= m => far[i] = up[i]
      BY <2>3
    <3>2. far[0] = pid
      BY <2>1, <3>1 DEF Climbed
    <3>3. ASSUME NEW i \in 0..(m + 1), i # 0
          PROVE  far[i] = IF far[i - 1] \in DOMAIN table THEN table[far[i - 1]].parent ELSE Nothing
      <4>1. far[i - 1] = up[i - 1] /\ i - 1 \in 0..m
        BY <3>1, <3>3
      <4>2. CASE i <= m
        BY <2>1, <3>1, <3>3, <4>1, <4>2 DEF Climbed
      <4>3. CASE i = m + 1
        BY <2>2, <2>3, <4>1, <4>3
      <4> QED BY <4>2, <4>3
    <3> QED BY <2>3, <3>2, <3>3 DEF Climbed
  <2> QED BY <1>1, <2>4
<1>4. n \in S
  BY <1>2, <1>3, CountedUp
<1> QED BY <1>1, <1>4

(* The ancestors of a process, one step after another.                     *)
LEMMA ClimbSteps ==
  ASSUME NEW table, NEW pid, NEW n \in Nat
  PROVE  /\ Ancestors(table, pid, n)[0] = pid
         /\ \A i \in 0..(n - 1) :
              /\ Ancestors(table, pid, n)[i] \in DOMAIN table =>
                   Ancestors(table, pid, n)[i + 1] = table[Ancestors(table, pid, n)[i]].parent
              /\ Ancestors(table, pid, n)[i] \notin DOMAIN table =>
                   Ancestors(table, pid, n)[i + 1] = Nothing
<1>1. Climbed(table, pid, n, Ancestors(table, pid, n))
  <2>1. \E up : Climbed(table, pid, n, up)
    BY ClimbExists
  <2> QED BY <2>1 DEF Climbed, Ancestors
<1>2. PICK up : up = Ancestors(table, pid, n)
  OBVIOUS
<1>3. up = [i \in 0..n |->
          IF i = 0 THEN pid ELSE IF up[i - 1] \in DOMAIN table THEN table[up[i - 1]].parent ELSE Nothing]
  BY <1>1, <1>2 DEF Climbed
<1>4. up[0] = pid
  BY <1>3
<1>5. ASSUME NEW i \in 0..(n - 1)
      PROVE  /\ up[i] \in DOMAIN table => up[i + 1] = table[up[i]].parent
             /\ up[i] \notin DOMAIN table => up[i + 1] = Nothing
  <2>1. i + 1 \in 0..n /\ i + 1 # 0 /\ (i + 1) - 1 = i
    OBVIOUS
  <2>2. up[i + 1] = IF up[i] \in DOMAIN table THEN table[up[i]].parent ELSE Nothing
    BY <1>3, <2>1
  <2> QED BY <2>2
<1> QED BY <1>2, <1>4, <1>5

-----------------------------------------------------------------------------
Size(t) == Cardinality(DOMAIN t)
Up(t, pid, i) == Ancestors(t, pid, Size(t))[i]
Good(t) == IsFiniteSet(DOMAIN t) /\ Nothing \notin DOMAIN t /\ Forest(t)

LEMMA UpSteps ==
  ASSUME NEW t, Good(t), NEW pid
  PROVE  /\ Size(t) \in Nat
         /\ Up(t, pid, 0) = pid
         /\ \A i \in 0..(Size(t) - 1) :
              /\ Up(t, pid, i) \in DOMAIN t => Up(t, pid, i + 1) = t[Up(t, pid, i)].parent
              /\ Up(t, pid, i) \notin DOMAIN t => Up(t, pid, i + 1) = Nothing
<1>1. Size(t) \in Nat
  BY FS_CardinalityType DEF Size, Good
<1> QED BY <1>1, ClimbSteps DEF Up

(* One step up from a process of the table, and one from outside it.       *)
LEMMA UpParent ==
  ASSUME NEW t, Good(t), NEW pid, NEW i \in 0..(Size(t) - 1), Up(t, pid, i) \in DOMAIN t
  PROVE  Up(t, pid, i + 1) = t[Up(t, pid, i)].parent
<1>1. \A k \in 0..(Size(t) - 1) : Up(t, pid, k) \in DOMAIN t => Up(t, pid, k + 1) = t[Up(t, pid, k)].parent
  BY UpSteps
<1> QED BY <1>1

LEMMA UpOut ==
  ASSUME NEW t, Good(t), NEW pid, NEW i \in 0..(Size(t) - 1), Up(t, pid, i) \notin DOMAIN t
  PROVE  Up(t, pid, i + 1) = Nothing
<1>1. \A k \in 0..(Size(t) - 1) : Up(t, pid, k) \notin DOMAIN t => Up(t, pid, k + 1) = Nothing
  BY UpSteps
<1> QED BY <1>1

(* What is above an ancestor is above the process.                         *)
LEMMA UpAgain ==
  ASSUME NEW t, Good(t), NEW pid, NEW a \in 0..Size(t)
  PROVE  \A k \in 0..(Size(t) - a) : Up(t, Up(t, pid, a), k) = Up(t, pid, a + k)
<1>1. PICK q : q = Up(t, pid, a)
  OBVIOUS
<1>2. Size(t) \in Nat
  BY UpSteps
<1>3. PICK S : S = {k \in Nat : k <= Size(t) - a => Up(t, q, k) = Up(t, pid, a + k)}
  OBVIOUS
<1>4. 0 \in S
  <2>1. Up(t, q, 0) = q /\ a + 0 = a
    BY UpSteps
  <2> QED BY <1>1, <1>3, <2>1
<1>5. ASSUME NEW k \in Nat, k \in S PROVE k + 1 \in S
  <2> SUFFICES ASSUME k + 1 <= Size(t) - a PROVE Up(t, q, k + 1) = Up(t, pid, a + (k + 1))
    BY <1>3
  <2>1. PICK m : m = a + k
    OBVIOUS
  <2>2. k \in 0..(Size(t) - 1) /\ m \in 0..(Size(t) - 1) /\ a + (k + 1) = m + 1
    BY <1>2, <2>1
  <2>3. Up(t, q, k) = Up(t, pid, m)
    BY <1>2, <1>3, <1>5, <2>1
  <2>4. CASE Up(t, q, k) \in DOMAIN t
    <3>1. Up(t, q, k + 1) = t[Up(t, q, k)].parent
      BY <2>2, <2>4, UpParent
    <3>2. Up(t, pid, m) \in DOMAIN t
      BY <2>3, <2>4
    <3>3. Up(t, pid, m + 1) = t[Up(t, pid, m)].parent
      BY <2>2, <3>2, UpParent
    <3> QED BY <2>2, <2>3, <3>1, <3>3
  <2>5. CASE Up(t, q, k) \notin DOMAIN t
    <3>1. Up(t, q, k + 1) = Nothing
      BY <2>2, <2>5, UpOut
    <3>2. Up(t, pid, m) \notin DOMAIN t
      BY <2>3, <2>5
    <3>3. Up(t, pid, m + 1) = Nothing
      BY <2>2, <3>2, UpOut
    <3> QED BY <2>2, <3>1, <3>3
  <2> QED BY <2>4, <2>5
<1>6. \A k \in Nat : k \in S
  BY <1>4, <1>5, CountedUp
<1> QED BY <1>1, <1>2, <1>3, <1>6

(* What is below an ancestor that is in the table is in the table.         *)
LEMMA UpWithin ==
  ASSUME NEW t, Good(t), NEW pid, NEW j \in 0..Size(t), Up(t, pid, j) \in DOMAIN t
  PROVE  \A i \in 0..j : Up(t, pid, i) \in DOMAIN t
<1>1. Size(t) \in Nat
  BY UpSteps
<1>2. PICK S : S = {k \in Nat : k <= j => Up(t, pid, j - k) \in DOMAIN t}
  OBVIOUS
<1>3. 0 \in S
  <2>1. j - 0 = j
    OBVIOUS
  <2> QED BY <1>2, <2>1
<1>4. ASSUME NEW k \in Nat, k \in S PROVE k + 1 \in S
  <2> SUFFICES ASSUME k + 1 <= j, Up(t, pid, j - (k + 1)) \notin DOMAIN t PROVE FALSE
    BY <1>2
  <2>1. PICK m : m = j - (k + 1)
    OBVIOUS
  <2>2. m \in 0..(Size(t) - 1) /\ m + 1 = j - k /\ Up(t, pid, m) \notin DOMAIN t
    BY <1>1, <2>1
  <2>3. Up(t, pid, m + 1) = Nothing
    BY <2>2, UpOut
  <2>4. Up(t, pid, j - k) \in DOMAIN t
    BY <1>2, <1>4
  <2> QED BY <2>2, <2>3, <2>4 DEF Good
<1>5. \A k \in Nat : k \in S
  BY <1>3, <1>4, CountedUp
<1>6. ASSUME NEW i \in 0..j PROVE Up(t, pid, i) \in DOMAIN t
  <2>1. j - i \in Nat /\ j - i <= j /\ j - (j - i) = i
    OBVIOUS
  <2>2. Up(t, pid, j - (j - i)) \in DOMAIN t
    BY <1>2, <1>5, <2>1
  <2> QED BY <2>1, <2>2
<1> QED BY <1>6

LEMMA AboveIs ==
  ASSUME NEW t, NEW pid, NEW x
  PROVE  x \in Above(t, pid, Size(t)) <=> x \in DOMAIN t /\ \E i \in 0..Size(t) : x = Up(t, pid, i)
BY DEF Above, Up

(* Nobody is an ancestor of its own, so no two ancestors are the same.     *)
LEMMA UpDiffers ==
  ASSUME NEW t, Good(t), NEW pid, NEW i \in 0..Size(t), NEW j \in 0..Size(t), i < j,
         Up(t, pid, j) \in DOMAIN t
  PROVE  Up(t, pid, i) # Up(t, pid, j)
<1> SUFFICES ASSUME Up(t, pid, i) = Up(t, pid, j) PROVE FALSE
  OBVIOUS
<1>1. Size(t) \in Nat
  BY UpSteps
<1>2. PICK q : q = Up(t, pid, i)
  OBVIOUS
<1>3. PICK p : p = Up(t, pid, i + 1)
  OBVIOUS
<1>4. i \in 0..(Size(t) - 1) /\ i + 1 \in 0..Size(t) /\ i + 1 \in 0..j
  BY <1>1
<1>5. q \in DOMAIN t /\ p \in DOMAIN t
  BY <1>2, <1>3, <1>4, UpWithin
<1>6. p = t[q].parent
  <2>1. Up(t, pid, i) \in DOMAIN t
    BY <1>2, <1>5
  <2>2. Up(t, pid, i + 1) = t[Up(t, pid, i)].parent
    BY <1>4, <2>1, UpParent
  <2> QED BY <1>2, <1>3, <2>2
<1>7. j - (i + 1) \in 0..(Size(t) - (i + 1)) /\ (i + 1) + (j - (i + 1)) = j /\ j - (i + 1) \in 0..Size(t)
  BY <1>1
<1>8. Up(t, p, j - (i + 1)) = Up(t, pid, (i + 1) + (j - (i + 1)))
  BY <1>3, <1>4, <1>7, UpAgain
<1>9. Up(t, p, j - (i + 1)) = q
  BY <1>2, <1>7, <1>8
<1>10. q \in Above(t, p, Size(t))
  BY <1>5, <1>7, <1>9, AboveIs
<1>11. t[q].parent \notin DOMAIN t \/ q \notin Above(t, t[q].parent, Size(t))
  BY <1>5 DEF Good, Forest, Size
<1> QED BY <1>5, <1>6, <1>10, <1>11

(* So a walk leaves the table before it has taken as many steps as there   *)
(* are processes.                                                          *)
LEMMA UpEnds ==
  ASSUME NEW t, Good(t), NEW pid, NEW j \in 0..Size(t), Up(t, pid, j) \in DOMAIN t
  PROVE  j < Size(t)
<1>1. Size(t) \in Nat
  BY UpSteps
<1>2. PICK f : f = [i \in 0..j |-> Up(t, pid, i)]
  OBVIOUS
<1>3. f \in [0..j -> DOMAIN t]
  BY <1>2, UpWithin
<1>4. ASSUME NEW a \in 0..j, NEW b \in 0..j, f[a] = f[b], a < b PROVE FALSE
  <2>1. Up(t, pid, b) \in DOMAIN t /\ Up(t, pid, a) = Up(t, pid, b)
    BY <1>2, <1>3, <1>4
  <2>2. a \in 0..Size(t) /\ b \in 0..Size(t)
    BY <1>1
  <2> QED BY <1>4, <2>1, <2>2, UpDiffers
<1>5. \A a, b \in 0..j : f[a] = f[b] => a = b
  <2>1. \A a, b \in 0..j : a < b \/ b < a \/ a = b
    OBVIOUS
  <2> QED BY <1>4, <2>1
<1>6. f \in Injection(0..j, DOMAIN t)
  BY <1>3, <1>5 DEF Injection, IsInjective
<1>7. Cardinality(0..j) <= Size(t)
  BY <1>6, FS_Injection DEF Good, Size
<1>8. Cardinality(0..j) = j + 1
  BY FS_Interval
<1> QED BY <1>1, <1>7, <1>8

-----------------------------------------------------------------------------
(* The walk to the owner.                                                  *)
Start(pid) == [at |-> pid, owner |-> Nothing, met |-> FALSE]
Walks(t, pid, n, walk) ==
  walk = [i \in 0..n |-> IF i = 0 THEN Start(pid) ELSE Climbing(t, walk[i - 1])]

LEMMA WalkExists ==
  ASSUME NEW t, NEW pid, NEW n \in Nat
  PROVE  \E walk : Walks(t, pid, n, walk)
<1>1. PICK S : S = {m \in Nat : \E walk : Walks(t, pid, m, walk)}
  OBVIOUS
<1>2. 0 \in S
  <2>1. PICK walk : walk = [i \in 0..0 |-> Start(pid)]
    OBVIOUS
  <2>2. Walks(t, pid, 0, walk)
    BY <2>1 DEF Walks
  <2> QED BY <1>1, <2>2
<1>3. ASSUME NEW m \in Nat, m \in S PROVE m + 1 \in S
  <2>1. PICK walk : Walks(t, pid, m, walk)
    BY <1>1, <1>3
  <2>2. PICK next : next = Climbing(t, walk[m])
    OBVIOUS
  <2>3. PICK far : far = [i \in 0..(m + 1) |-> IF i <= m THEN walk[i] ELSE next]
    OBVIOUS
  <2>4. Walks(t, pid, m + 1, far)
    <3>1. \A i \in 0..(m + 1) : i <= m => far[i] = walk[i]
      BY <2>3
    <3>2. far[0] = Start(pid)
      BY <2>1, <3>1 DEF Walks
    <3>3. ASSUME NEW i \in 0..(m + 1), i # 0 PROVE far[i] = Climbing(t, far[i - 1])
      <4>1. far[i - 1] = walk[i - 1] /\ i - 1 \in 0..m
        BY <3>1, <3>3
      <4>2. CASE i <= m
        <5>1. i \in 0..m /\ i # 0
          BY <3>3, <4>2
        <5>2. walk[i] = Climbing(t, walk[i - 1])
          BY <2>1, <5>1 DEF Walks
        <5> QED BY <3>1, <4>1, <4>2, <5>2
      <4>3. CASE i = m + 1
        BY <2>2, <2>3, <4>1, <4>3
      <4> QED BY <4>2, <4>3
    <3> QED BY <2>3, <3>2, <3>3 DEF Walks
  <2> QED BY <1>1, <2>4
<1>4. n \in S
  BY <1>2, <1>3, CountedUp
<1> QED BY <1>1, <1>4

LEMMA WalkSteps ==
  ASSUME NEW t, NEW pid, Size(t) \in Nat
  PROVE  /\ OwnerWalk(t, pid)[0] = Start(pid)
         /\ \A i \in 0..(Size(t) - 1) : OwnerWalk(t, pid)[i + 1] = Climbing(t, OwnerWalk(t, pid)[i])
<1>1. Size(t) \in Nat
  OBVIOUS
<1>2. PICK walk : walk = OwnerWalk(t, pid)
  OBVIOUS
<1>3. \E w : Walks(t, pid, Size(t), w)
  BY <1>1, WalkExists
<1>4. Walks(t, pid, Size(t), walk)
  BY <1>2, <1>3 DEF Walks, OwnerWalk, Size, Start
<1>5. walk[0] = Start(pid)
  BY <1>1, <1>4 DEF Walks
<1>6. ASSUME NEW i \in 0..(Size(t) - 1) PROVE walk[i + 1] = Climbing(t, walk[i])
  <2>1. i + 1 \in 0..Size(t) /\ i + 1 # 0 /\ (i + 1) - 1 = i
    BY <1>1
  <2> QED BY <1>4, <2>1 DEF Walks
<1> QED BY <1>2, <1>5, <1>6

(* What the walk has found after so many steps: the last of one family,    *)
(* and whether another one is above it.                                    *)
Bare(t, pid, from, to) ==
  \A k \in from..to : Up(t, pid, k) \in DOMAIN t => t[Up(t, pid, k)].family = Nothing
Owned(t, pid, w, i, j) ==
  /\ w.owner = Up(t, pid, j) /\ w.owner \in DOMAIN t /\ t[w.owner].family # Nothing
  /\ \A k \in 0..j : t[Up(t, pid, k)].family \in {Nothing, t[w.owner].family}
  /\ ~w.met => Bare(t, pid, j + 1, i - 1)
  /\ w.met => \E m \in (j + 1)..(i - 1) :
                /\ t[Up(t, pid, m)].family \notin {Nothing, t[w.owner].family}
                /\ Bare(t, pid, j + 1, m - 1)
Walked(t, pid, w, i) ==
  /\ w.met \in BOOLEAN
  /\ ~w.met => w.at = Up(t, pid, i) \/ {w.at, Up(t, pid, i)} \cap DOMAIN t = {}
  /\ w.owner = Nothing => ~w.met /\ Bare(t, pid, 0, i - 1)
  /\ w.owner # Nothing => \E j \in 0..(i - 1) : Owned(t, pid, w, i, j)

LEMMA WalkedOn ==
  ASSUME NEW t, Good(t), NEW pid, NEW i \in 0..(Size(t) - 1), NEW w, Walked(t, pid, w, i)
  PROVE  Walked(t, pid, Climbing(t, w), i + 1)
<1>1. Size(t) \in Nat /\ i \in Nat /\ (i + 1) - 1 = i
  BY UpSteps
<1>2. CASE w.met
  <2>1. Climbing(t, w) = w /\ w.owner # Nothing
    BY <1>2 DEF Climbing, Walked
  <2>2. PICK j \in 0..(i - 1) : Owned(t, pid, w, i, j)
    BY <2>1 DEF Walked
  <2>3. PICK m \in (j + 1)..(i - 1) :
                /\ t[Up(t, pid, m)].family \notin {Nothing, t[w.owner].family}
                /\ Bare(t, pid, j + 1, m - 1)
    BY <1>2, <2>2 DEF Owned
  <2>4. m \in (j + 1)..((i + 1) - 1) /\ j \in 0..((i + 1) - 1)
    BY <1>1
  <2>5. Owned(t, pid, w, i + 1, j)
    BY <1>2, <2>2, <2>3, <2>4 DEF Owned
  <2> QED BY <1>2, <2>1, <2>4, <2>5 DEF Walked
<1>3. CASE ~w.met /\ w.at \notin DOMAIN t
  <2>1. Climbing(t, w) = w
    BY <1>3 DEF Climbing
  <2>2. Up(t, pid, i) \notin DOMAIN t
    BY <1>3 DEF Walked
  <2>3. Up(t, pid, i + 1) \notin DOMAIN t
    <3>1. Up(t, pid, i + 1) = Nothing
      BY <1>1, <2>2, UpOut
    <3> QED BY <3>1 DEF Good
  <2>4. \A from : from \in Nat => (Bare(t, pid, from, i - 1) => Bare(t, pid, from, i))
    BY <1>1, <2>2 DEF Bare
  <2>5. ASSUME w.owner # Nothing PROVE \E j \in 0..((i + 1) - 1) : Owned(t, pid, w, i + 1, j)
    <3>1. PICK j \in 0..(i - 1) : Owned(t, pid, w, i, j)
      BY <2>5 DEF Walked
    <3>2. j + 1 \in Nat /\ j \in 0..((i + 1) - 1)
      BY <1>1
    <3>3. Bare(t, pid, j + 1, (i + 1) - 1)
      BY <1>1, <1>3, <2>4, <3>1, <3>2 DEF Owned
    <3>4. Owned(t, pid, w, i + 1, j)
      BY <1>3, <3>1, <3>3 DEF Owned
    <3> QED BY <3>2, <3>4
  <2>6. w.owner = Nothing => Bare(t, pid, 0, (i + 1) - 1)
    BY <1>1, <2>4 DEF Walked
  <2>7. {w.at, Up(t, pid, i + 1)} \cap DOMAIN t = {}
    BY <1>3, <2>3
  <2> QED BY <1>3, <2>1, <2>5, <2>6, <2>7 DEF Walked
<1>4. CASE ~w.met /\ w.at \in DOMAIN t
  <2>1. PICK q : q = Up(t, pid, i) /\ w.at = q /\ q \in DOMAIN t /\ q # Nothing
    BY <1>4 DEF Walked, Good
  <2>2. Up(t, pid, i + 1) = t[q].parent
    <3>1. Up(t, pid, i) \in DOMAIN t
      BY <2>1
    <3>2. Up(t, pid, i + 1) = t[Up(t, pid, i)].parent
      BY <1>1, <3>1, UpParent
    <3> QED BY <2>1, <3>2
  <2>3. i \in 0..Size(t) /\ \A k \in 0..i : Up(t, pid, k) \in DOMAIN t
    BY <1>1, <2>1, UpWithin
  <2>4. PICK c : c = Climbing(t, w)
    OBVIOUS
  <2>5. PICK family : family = t[q].family
    OBVIOUS
  <2>6. CASE family = Nothing
    <3>1. c = [at |-> t[q].parent, owner |-> w.owner, met |-> FALSE]
      BY <1>4, <2>1, <2>4, <2>5, <2>6 DEF Climbing
    <3>2. ASSUME NEW from \in Nat, Bare(t, pid, from, i - 1) PROVE Bare(t, pid, from, i)
      <4>1. \A k \in from..i : k \in from..(i - 1) \/ k = i
        BY <1>1
      <4>2. t[Up(t, pid, i)].family = Nothing
        BY <2>1, <2>5, <2>6
      <4> QED BY <3>2, <4>1, <4>2 DEF Bare
    <3>3. ASSUME w.owner # Nothing PROVE \E j \in 0..((i + 1) - 1) : Owned(t, pid, c, i + 1, j)
      <4>1. PICK j \in 0..(i - 1) : Owned(t, pid, w, i, j)
        BY <3>3 DEF Walked
      <4>2. j + 1 \in Nat /\ j \in 0..((i + 1) - 1)
        BY <1>1
      <4>3. Bare(t, pid, j + 1, (i + 1) - 1)
        BY <1>1, <1>4, <3>2, <4>1, <4>2 DEF Owned
      <4>4. Owned(t, pid, c, i + 1, j)
        BY <3>1, <4>1, <4>3 DEF Owned
      <4> QED BY <4>2, <4>4
    <3>4. w.owner = Nothing => Bare(t, pid, 0, (i + 1) - 1)
      BY <1>1, <3>2 DEF Walked
    <3>5. c.at = Up(t, pid, i + 1) /\ c.owner = w.owner /\ c.met = FALSE
      BY <2>2, <3>1
    <3>6. c.owner = Nothing => Bare(t, pid, 0, (i + 1) - 1)
      BY <3>4, <3>5
    <3>7. c.owner # Nothing => \E j \in 0..((i + 1) - 1) : Owned(t, pid, c, i + 1, j)
      BY <3>3, <3>5
    <3> QED BY <2>4, <3>5, <3>6, <3>7 DEF Walked
  <2>7. CASE family # Nothing /\ w.owner = Nothing
    <3>1. c = [at |-> t[q].parent, owner |-> q, met |-> FALSE]
      BY <1>4, <2>1, <2>4, <2>5, <2>7 DEF Climbing
    <3>2. \A k \in 0..i : t[Up(t, pid, k)].family \in {Nothing, family}
      BY <1>1, <2>1, <2>3, <2>5, <2>7 DEF Walked, Bare
    <3>3. Bare(t, pid, i + 1, (i + 1) - 1)
      BY <1>1 DEF Bare
    <3>4. Owned(t, pid, c, i + 1, i)
      BY <2>1, <2>5, <2>7, <3>1, <3>2, <3>3 DEF Owned
    <3>5. i \in 0..((i + 1) - 1)
      BY <1>1
    <3> QED BY <2>1, <2>2, <2>4, <3>1, <3>4, <3>5 DEF Walked
  <2>8. CASE family # Nothing /\ w.owner # Nothing
    <3>1. PICK j \in 0..(i - 1) : Owned(t, pid, w, i, j)
      BY <2>8 DEF Walked
    <3>2. w.owner \in DOMAIN t /\ Bare(t, pid, j + 1, i - 1) /\ t[w.owner].family # Nothing
      BY <1>4, <3>1 DEF Owned
    <3>3. i \in 0..((i + 1) - 1) /\ j \in 0..((i + 1) - 1)
      BY <1>1
    <3>4. CASE family = t[w.owner].family
      <4>1. c = [at |-> t[q].parent, owner |-> q, met |-> FALSE]
        BY <1>4, <2>1, <2>4, <2>5, <2>8, <3>4 DEF Climbing
      <4>2. ASSUME NEW k \in 0..i PROVE t[Up(t, pid, k)].family \in {Nothing, family}
        <5>1. CASE k \in 0..j
          BY <3>1, <3>4, <5>1 DEF Owned
        <5>2. CASE k \in (j + 1)..(i - 1)
          BY <2>3, <3>2, <5>2 DEF Bare
        <5>3. CASE k = i
          BY <2>1, <2>5, <5>3
        <5>4. k \in 0..j \/ k \in (j + 1)..(i - 1) \/ k = i
          BY <1>1
        <5> QED BY <5>1, <5>2, <5>3, <5>4
      <4>3. Bare(t, pid, i + 1, (i + 1) - 1)
        BY <1>1 DEF Bare
      <4>4. Owned(t, pid, c, i + 1, i)
        BY <2>1, <2>5, <2>8, <4>1, <4>2, <4>3 DEF Owned
      <4> QED BY <2>1, <2>2, <2>4, <3>3, <4>1, <4>4 DEF Walked
    <3>5. CASE family # t[w.owner].family
      <4>1. c = [at |-> t[q].parent, owner |-> w.owner, met |-> TRUE]
        BY <1>4, <2>1, <2>4, <2>5, <2>8, <3>5 DEF Climbing
      <4>2. i \in (j + 1)..((i + 1) - 1)
        BY <1>1
      <4>3. t[Up(t, pid, i)].family \notin {Nothing, t[w.owner].family}
        BY <2>1, <2>5, <2>8, <3>5
      <4>4. Owned(t, pid, c, i + 1, j)
        BY <3>1, <3>2, <4>1, <4>2, <4>3 DEF Owned
      <4> QED BY <2>4, <2>8, <3>3, <4>1, <4>4 DEF Walked
    <3> QED BY <3>4, <3>5
  <2> QED BY <2>6, <2>7, <2>8
<1> QED BY <1>2, <1>3, <1>4 DEF Walked

LEMMA WalkedToTheEnd ==
  ASSUME NEW t, Good(t), NEW pid
  PROVE  Walked(t, pid, OwnerWalk(t, pid)[Size(t)], Size(t))
<1>1. Size(t) \in Nat
  BY UpSteps
<1>2. PICK walk : walk = OwnerWalk(t, pid)
  OBVIOUS
<1>3. PICK S : S = {i \in Nat : i <= Size(t) => Walked(t, pid, walk[i], i)}
  OBVIOUS
<1>4. 0 \in S
  <2>1. walk[0] = Start(pid) /\ Up(t, pid, 0) = pid
    BY <1>1, <1>2, WalkSteps, UpSteps
  <2>2. Bare(t, pid, 0, 0 - 1)
    BY DEF Bare
  <2>3. Walked(t, pid, walk[0], 0)
    BY <2>1, <2>2 DEF Walked, Start
  <2> QED BY <1>3, <2>3
<1>5. ASSUME NEW i \in Nat, i \in S PROVE i + 1 \in S
  <2> SUFFICES ASSUME i + 1 <= Size(t) PROVE Walked(t, pid, walk[i + 1], i + 1)
    BY <1>3
  <2>1. i \in 0..(Size(t) - 1) /\ Walked(t, pid, walk[i], i)
    BY <1>1, <1>3, <1>5
  <2>2. walk[i + 1] = Climbing(t, walk[i])
    BY <1>1, <1>2, <2>1, WalkSteps
  <2> QED BY <2>1, <2>2, WalkedOn
<1>6. Size(t) \in S
  BY <1>1, <1>4, <1>5, CountedUp
<1> QED BY <1>1, <1>2, <1>3, <1>6

LEMMA OwnersAre ==
  ASSUME NEW t
  PROVE  /\ DOMAIN AgentOwners(t) = {p \in DOMAIN t : OwnerOf(t, p) # Nothing}
         /\ \A p \in DOMAIN AgentOwners(t) : AgentOwners(t)[p] = OwnerOf(t, p)
BY DEF AgentOwners

LEMMA OwnerEnds ==
  ASSUME NEW t, Good(t), NEW pid
  PROVE  /\ OwnerOf(t, pid) = Nothing => Bare(t, pid, 0, Size(t))
         /\ OwnerOf(t, pid) # Nothing =>
              \E j \in 0..(Size(t) - 1) : \E w : w.owner = OwnerOf(t, pid) /\ Owned(t, pid, w, Size(t), j)
                                                 /\ w.met \in BOOLEAN
<1>1. Size(t) \in Nat
  BY UpSteps
<1>2. PICK w : w = OwnerWalk(t, pid)[Size(t)]
  OBVIOUS
<1>3. Walked(t, pid, w, Size(t))
  BY <1>2, WalkedToTheEnd
<1>4. w.owner = OwnerOf(t, pid)
  BY <1>2 DEF OwnerOf, Size
<1>5. ASSUME w.owner = Nothing PROVE Bare(t, pid, 0, Size(t))
  <2>1. Bare(t, pid, 0, Size(t) - 1)
    BY <1>3, <1>5 DEF Walked
  <2>2. \A k \in 0..Size(t) : Up(t, pid, k) \in DOMAIN t => k \in 0..(Size(t) - 1)
    BY <1>1, UpEnds
  <2> QED BY <2>1, <2>2 DEF Bare
<1> QED BY <1>3, <1>4, <1>5 DEF Walked

LEMMA Between ==
  ASSUME NEW t, Good(t), NEW pid, NEW a \in 0..Size(t), NEW p, p = Up(t, pid, a), p \in DOMAIN t,
         NEW b \in 0..Size(t), NEW q, q = Up(t, p, b), q \in DOMAIN t
  PROVE  a + b \in 0..(Size(t) - 1) /\ Up(t, pid, a + b) = q
<1>1. Size(t) \in Nat
  BY UpSteps
<1>2. CASE a + b <= Size(t)
  <2>1. b \in 0..(Size(t) - a) /\ a + b \in 0..Size(t)
    BY <1>1, <1>2
  <2>2. Up(t, pid, a + b) = q
    BY <2>1, UpAgain
  <2>3. a + b < Size(t)
    BY <2>1, <2>2, UpEnds
  <2> QED BY <1>1, <2>1, <2>2, <2>3
<1>3. CASE a + b > Size(t)
  <2>1. PICK c : c = Size(t) - a
    OBVIOUS
  <2>2. c \in 0..(Size(t) - a) /\ c \in 0..b /\ a + c = Size(t) /\ Size(t) \in 0..Size(t)
    BY <1>1, <1>3, <2>1
  <2>3. Up(t, p, c) \in DOMAIN t
    BY <2>2, UpWithin
  <2>4. Up(t, pid, Size(t)) \in DOMAIN t
    BY <2>2, <2>3, UpAgain
  <2>5. Size(t) < Size(t)
    BY <2>2, <2>4, UpEnds
  <2> QED BY <1>1, <2>5
<1> QED BY <1>1, <1>2, <1>3

LEMMA OwnersAnchored ==
  ASSUME NEW t, Good(t) PROVE OwnersAreAnchored(t)
<1>1. Size(t) \in Nat
  BY UpSteps
<1> SUFFICES ASSUME NEW pid \in DOMAIN AgentOwners(t), NEW o, o = AgentOwners(t)[pid]
             PROVE  /\ o \in Anchors(t)
                    /\ o \in Above(t, pid, Size(t))
                    /\ \A p \in Above(t, pid, Size(t)) :
                         o \in Above(t, p, Size(t)) => t[p].family \in {Nothing, t[o].family}
  BY DEF OwnersAreAnchored, Size
<1>2. pid \in DOMAIN t /\ o = OwnerOf(t, pid) /\ o # Nothing
  BY OwnersAre
<1>3. PICK j \in 0..(Size(t) - 1) : \E w : w.owner = o /\ Owned(t, pid, w, Size(t), j) /\ w.met \in BOOLEAN
  BY <1>2, OwnerEnds
<1>4. PICK w : w.owner = o /\ Owned(t, pid, w, Size(t), j) /\ w.met \in BOOLEAN
  BY <1>3
<1>5. /\ o = Up(t, pid, j) /\ o \in DOMAIN t /\ t[o].family # Nothing
      /\ \A k \in 0..j : t[Up(t, pid, k)].family \in {Nothing, t[o].family}
  BY <1>4 DEF Owned
<1>6. ASSUME t[o].parent \in DOMAIN t, t[t[o].parent].family = t[o].family PROVE FALSE
  <2>1. PICK p : p = t[o].parent
    OBVIOUS
  <2>2. j + 1 \in 0..Size(t) /\ p = Up(t, pid, j + 1)
    <3>1. Up(t, pid, j) \in DOMAIN t
      BY <1>5
    <3>2. Up(t, pid, j + 1) = t[Up(t, pid, j)].parent
      BY <3>1, UpParent
    <3> QED BY <1>1, <1>5, <2>1, <3>2
  <2>3. j + 1 \in 0..(Size(t) - 1) /\ j + 1 \in (j + 1)..(Size(t) - 1)
    BY <1>1, <1>6, <2>1, <2>2, UpEnds
  <2>4. CASE ~w.met
    <3>1. Bare(t, pid, j + 1, Size(t) - 1)
      BY <1>4, <2>4 DEF Owned
    <3> QED BY <1>5, <1>6, <2>1, <2>2, <2>3, <3>1 DEF Bare
  <2>5. CASE w.met
    <3>1. PICK m \in (j + 1)..(Size(t) - 1) :
                /\ t[Up(t, pid, m)].family \notin {Nothing, t[o].family}
                /\ Bare(t, pid, j + 1, m - 1)
      BY <1>4, <2>5 DEF Owned
    <3>2. CASE m = j + 1
      BY <1>6, <2>1, <2>2, <3>1, <3>2
    <3>3. CASE m # j + 1
      <4>1. j + 1 \in (j + 1)..(m - 1)
        BY <1>1, <3>3
      <4> QED BY <1>5, <1>6, <2>1, <2>2, <3>1, <4>1 DEF Bare
    <3> QED BY <3>2, <3>3
  <2> QED BY <1>4, <2>4, <2>5
<1>7. o \in Anchors(t)
  BY <1>5, <1>6 DEF Anchors, Listed, Relaunched
<1>8. o \in Above(t, pid, Size(t))
  BY <1>1, <1>5, AboveIs
<1>9. ASSUME NEW p \in Above(t, pid, Size(t)), o \in Above(t, p, Size(t))
      PROVE  t[p].family \in {Nothing, t[o].family}
  <2>1. PICK a \in 0..Size(t) : p = Up(t, pid, a) /\ p \in DOMAIN t
    BY AboveIs
  <2>2. PICK b \in 0..Size(t) : o = Up(t, p, b)
    BY <1>9, AboveIs
  <2>3. a + b \in 0..(Size(t) - 1) /\ Up(t, pid, a + b) = o
    BY <1>5, <2>1, <2>2, Between
  <2>4. a + b = j
    <3>1. a + b \in 0..Size(t) /\ j \in 0..Size(t) /\ (a + b < j \/ j < a + b \/ a + b = j)
      BY <1>1, <2>3
    <3> QED BY <1>5, <2>3, <3>1, UpDiffers
  <2>5. a \in 0..j
    BY <1>1, <2>4
  <2> QED BY <1>5, <2>1, <2>5
<1> QED BY <1>7, <1>8, <1>9

LEMMA HelpersOwned ==
  ASSUME NEW t, Good(t) PROVE HelpersHaveOwners(t)
<1> SUFFICES ASSUME NEW pid \in DOMAIN t, NEW p \in Above(t, pid, Size(t)), t[p].family # Nothing
             PROVE  OwnerOf(t, pid) # Nothing
  BY OwnersAre DEF HelpersHaveOwners, Size
<1>1. PICK k \in 0..Size(t) : p = Up(t, pid, k) /\ p \in DOMAIN t
  BY AboveIs
<1>2. ~Bare(t, pid, 0, Size(t))
  BY <1>1 DEF Bare
<1> QED BY <1>2, OwnerEnds

-----------------------------------------------------------------------------
(* What is below a process.                                                *)
Children(t, level) == {p \in DOMAIN t : t[p].parent \in level}
Descends(t, root, n, level) ==
  level = [d \in 0..n |-> IF d = 0 THEN {root} ELSE Children(t, level[d - 1])]

LEMMA LevelsExist ==
  ASSUME NEW t, NEW root, NEW n \in Nat
  PROVE  \E level : Descends(t, root, n, level)
<1>1. PICK S : S = {m \in Nat : \E level : Descends(t, root, m, level)}
  OBVIOUS
<1>2. 0 \in S
  <2>1. PICK level : level = [d \in 0..0 |-> {root}]
    OBVIOUS
  <2>2. Descends(t, root, 0, level)
    BY <2>1 DEF Descends
  <2> QED BY <1>1, <2>2
<1>3. ASSUME NEW m \in Nat, m \in S PROVE m + 1 \in S
  <2>1. PICK level : Descends(t, root, m, level)
    BY <1>1, <1>3
  <2>2. PICK next : next = Children(t, level[m])
    OBVIOUS
  <2>3. PICK far : far = [d \in 0..(m + 1) |-> IF d <= m THEN level[d] ELSE next]
    OBVIOUS
  <2>4. Descends(t, root, m + 1, far)
    <3>1. \A d \in 0..(m + 1) : d <= m => far[d] = level[d]
      BY <2>3
    <3>2. far[0] = {root}
      BY <2>1, <3>1 DEF Descends
    <3>3. ASSUME NEW d \in 0..(m + 1), d # 0
          PROVE  far[d] = Children(t, far[d - 1])
      <4>1. far[d - 1] = level[d - 1] /\ d - 1 \in 0..m
        BY <3>1, <3>3
      <4>2. CASE d <= m
        <5>1. d \in 0..m /\ d # 0
          BY <3>3, <4>2
        <5>2. level[d] = Children(t, level[d - 1])
          BY <2>1, <5>1 DEF Descends
        <5> QED BY <3>1, <4>1, <4>2, <5>2
      <4>3. CASE d = m + 1
        <5>1. far[d] = next /\ d - 1 = m
          BY <2>3, <4>3
        <5> QED BY <2>2, <4>1, <5>1
      <4> QED BY <4>2, <4>3
    <3> QED BY <2>3, <3>2, <3>3 DEF Descends
  <2> QED BY <1>1, <2>4
<1>4. n \in S
  BY <1>2, <1>3, CountedUp
<1> QED BY <1>1, <1>4

LEMMA LevelSteps ==
  ASSUME NEW t, Good(t), NEW root
  PROVE  /\ Levels(t, root)[0] = {root}
         /\ \A d \in 0..(Size(t) - 1) : \A p : p \in Levels(t, root)[d + 1] <=> p \in DOMAIN t /\ t[p].parent \in Levels(t, root)[d]
<1>1. Size(t) \in Nat
  BY UpSteps
<1>2. PICK level : level = Levels(t, root)
  OBVIOUS
<1>3. \E l : Descends(t, root, Size(t), l)
  BY <1>1, LevelsExist
<1>4. Descends(t, root, Size(t), level)
  BY <1>2, <1>3 DEF Descends, Levels, Size, Children
<1>5. level[0] = {root}
  BY <1>1, <1>4 DEF Descends
<1>6. ASSUME NEW d \in 0..(Size(t) - 1)
      PROVE  \A p : p \in level[d + 1] <=> p \in DOMAIN t /\ t[p].parent \in level[d]
  <2>1. d + 1 \in 0..Size(t) /\ d + 1 # 0 /\ (d + 1) - 1 = d
    BY <1>1
  <2>2. level[d + 1] = Children(t, level[d])
    BY <1>4, <2>1 DEF Descends
  <2> QED BY <2>2 DEF Children
<1> QED BY <1>2, <1>5, <1>6

(* The processes of a level are those whose ancestor of that rank is the   *)
(* root.                                                                   *)
LEMMA LevelsAre ==
  ASSUME NEW t, Good(t), NEW root \in DOMAIN t
  PROVE  \A d \in 1..Size(t) : \A p : p \in Levels(t, root)[d] <=> p \in DOMAIN t /\ Up(t, p, d) = root
<1>1. Size(t) \in Nat
  BY UpSteps
<1>2. PICK level : level = Levels(t, root)
  OBVIOUS
<1>3. PICK S : S = {d \in Nat : d + 1 <= Size(t) => \A p : p \in level[d + 1] <=> p \in DOMAIN t /\ Up(t, p, d + 1) = root}
  OBVIOUS
<1>4. 0 \in S
  <2> SUFFICES ASSUME 1 <= Size(t), NEW p PROVE p \in level[1] <=> p \in DOMAIN t /\ Up(t, p, 1) = root
    BY <1>3
  <2>1. 0 \in 0..(Size(t) - 1) /\ 0 + 1 = 1
    BY <1>1
  <2>2. p \in level[1] <=> p \in DOMAIN t /\ t[p].parent = root
    BY <1>2, <2>1, LevelSteps
  <2>3. ASSUME p \in DOMAIN t PROVE Up(t, p, 1) = t[p].parent
    <3>1. Up(t, p, 0) = p
      BY UpSteps
    <3>2. Up(t, p, 0 + 1) = t[Up(t, p, 0)].parent
      BY <2>1, <2>3, <3>1, UpParent
    <3> QED BY <2>1, <3>1, <3>2
  <2> QED BY <2>2, <2>3
<1>5. ASSUME NEW d \in Nat, d \in S PROVE d + 1 \in S
  <2> SUFFICES ASSUME (d + 1) + 1 <= Size(t), NEW p
               PROVE  p \in level[(d + 1) + 1] <=> p \in DOMAIN t /\ Up(t, p, (d + 1) + 1) = root
    BY <1>3
  <2>1. /\ d + 1 \in 0..(Size(t) - 1) /\ d + 1 <= Size(t) /\ 1 \in 0..Size(t) /\ 0 \in 0..(Size(t) - 1) /\ 0 + 1 = 1
        /\ d + 1 \in 0..(Size(t) - 1) /\ 1 + (d + 1) = (d + 1) + 1 /\ (d + 1) + 1 \in 0..Size(t)
        /\ 1 \in 0..((d + 1) + 1)
    BY <1>1
  <2>2. p \in level[(d + 1) + 1] <=> p \in DOMAIN t /\ t[p].parent \in level[d + 1]
    BY <1>2, <2>1, LevelSteps
  <2>3. t[p].parent \in level[d + 1] <=> t[p].parent \in DOMAIN t /\ Up(t, t[p].parent, d + 1) = root
    BY <1>3, <1>5, <2>1
  <2>4. ASSUME p \in DOMAIN t PROVE Up(t, t[p].parent, d + 1) = Up(t, p, (d + 1) + 1) /\ Up(t, p, 1) = t[p].parent
    <3>1. Up(t, p, 1) = t[p].parent
      <4>1. Up(t, p, 0) = p
        BY UpSteps
      <4>2. Up(t, p, 0 + 1) = t[Up(t, p, 0)].parent
        BY <2>1, <2>4, <4>1, UpParent
      <4> QED BY <2>1, <4>1, <4>2
    <3>2. Up(t, Up(t, p, 1), d + 1) = Up(t, p, 1 + (d + 1))
      BY <2>1, UpAgain
    <3> QED BY <2>1, <3>1, <3>2
  <2>5. ASSUME p \in DOMAIN t, Up(t, p, (d + 1) + 1) = root PROVE t[p].parent \in DOMAIN t
    <3>1. Up(t, p, 1) \in DOMAIN t
      BY <2>1, <2>5, UpWithin
    <3> QED BY <2>4, <2>5, <3>1
  <2> QED BY <2>2, <2>3, <2>4, <2>5
<1>6. ASSUME NEW d \in 1..Size(t), NEW p PROVE p \in level[d] <=> p \in DOMAIN t /\ Up(t, p, d) = root
  <2>1. d - 1 \in Nat /\ (d - 1) + 1 = d /\ d <= Size(t)
    BY <1>1
  <2>2. d - 1 \in S
    BY <1>4, <1>5, <2>1, CountedUp
  <2> QED BY <1>3, <2>1, <2>2
<1> QED BY <1>2, <1>6

LEMMA DescendantsAre ==
  ASSUME NEW t, Good(t), NEW root \in DOMAIN t
  PROVE  \A f : f \in Descendants(t, root) <=>
           \E p \in DOMAIN t, d \in 1..Size(t) : f = <<p, d>> /\ Up(t, p, d) = root
<1>1. \A f : f \in Descendants(t, root) <=> \E d \in 1..Size(t) : f \in Levels(t, root)[d] \X {d}
  BY DEF Descendants, Size
<1>2. \A f, d : f \in Levels(t, root)[d] \X {d} <=> \E p \in Levels(t, root)[d] : f = <<p, d>>
  OBVIOUS
<1> QED BY <1>1, <1>2, LevelsAre

(* With a root so many steps above it, a process has as many more above it.*)
LEMMA DepthsAdd ==
  ASSUME NEW t, Good(t), NEW pid \in DOMAIN t, NEW d \in 1..Size(t), NEW root \in DOMAIN t, Up(t, pid, d) = root
  PROVE  Cardinality(Above(t, pid, Size(t))) = Cardinality(Above(t, root, Size(t))) + d
<1>1. Size(t) \in Nat
  BY UpSteps
<1>2. PICK near : near = {Up(t, pid, i) : i \in 0..(d - 1)}
  OBVIOUS
<1>3. PICK far : far = Above(t, root, Size(t))
  OBVIOUS
<1>4. d \in 0..Size(t) /\ d - 1 \in Nat
  BY <1>1
<1>5. IsFiniteSet(near) /\ Cardinality(near) = d
  <2>1. PICK f : f = [i \in 0..(d - 1) |-> Up(t, pid, i)]
    OBVIOUS
  <2>2. f \in Surjection(0..(d - 1), near)
    BY <1>2, <2>1 DEF Surjection
  <2>3. ASSUME NEW a \in 0..(d - 1), NEW b \in 0..(d - 1), a < b PROVE f[a] # f[b]
    <3>1. a \in 0..Size(t) /\ b \in 0..Size(t) /\ b \in 0..d
      BY <1>1
    <3>2. Up(t, pid, b) \in DOMAIN t
      BY <1>4, <3>1, UpWithin
    <3> QED BY <2>1, <2>3, <3>1, <3>2, UpDiffers
  <2>4. \A a, b \in 0..(d - 1) : f[a] = f[b] => a = b
    <3>1. \A a, b \in 0..(d - 1) : a < b \/ b < a \/ a = b
      OBVIOUS
    <3> QED BY <2>3, <3>1
  <2>5. f \in Injection(0..(d - 1), near)
    BY <2>2, <2>4 DEF Injection, Surjection, IsInjective
  <2>6. IsFiniteSet(0..(d - 1)) /\ Cardinality(0..(d - 1)) = d
    BY <1>4, FS_Interval
  <2> QED BY <2>2, <2>5, <2>6, FS_Surjection
<1>6. IsFiniteSet(far)
  <2>1. far \subseteq DOMAIN t
    BY <1>3 DEF Above
  <2> QED BY <2>1, FS_Subset DEF Good
<1>7. near \cap far = {}
  <2> SUFFICES ASSUME NEW x \in near, x \in far PROVE FALSE
    OBVIOUS
  <2>1. PICK i \in 0..(d - 1) : x = Up(t, pid, i)
    BY <1>2
  <2>2. PICK k \in 0..Size(t) : x = Up(t, root, k) /\ x \in DOMAIN t
    BY <1>3, AboveIs
  <2>3. d + k \in 0..(Size(t) - 1) /\ Up(t, pid, d + k) = x
    BY <1>4, <2>2, Between
  <2>4. i \in 0..Size(t) /\ d + k \in 0..Size(t) /\ i < d + k
    BY <1>1, <2>3
  <2> QED BY <2>1, <2>2, <2>3, <2>4, UpDiffers
<1>8. Above(t, pid, Size(t)) = near \cup far
  <2>1. ASSUME NEW x \in Above(t, pid, Size(t)) PROVE x \in near \cup far
    <3>1. PICK i \in 0..Size(t) : x = Up(t, pid, i) /\ x \in DOMAIN t
      BY <2>1, AboveIs
    <3>2. CASE i < d
      <4>1. i \in 0..(d - 1)
        BY <1>4, <3>2
      <4> QED BY <1>2, <3>1, <4>1
    <3>3. CASE i >= d
      <4>1. PICK k : k = i - d
        OBVIOUS
      <4>2. k \in 0..(Size(t) - d) /\ k \in 0..Size(t) /\ d + k = i
        BY <1>1, <3>3, <4>1
      <4>3. Up(t, root, k) = x
        BY <1>4, <3>1, <4>2, UpAgain
      <4> QED BY <1>3, <3>1, <4>2, <4>3, AboveIs
    <3> QED BY <1>1, <3>2, <3>3
  <2>2. ASSUME NEW x \in near PROVE x \in Above(t, pid, Size(t))
    <3>1. PICK i \in 0..(d - 1) : x = Up(t, pid, i)
      BY <1>2, <2>2
    <3>2. i \in 0..d /\ i \in 0..Size(t)
      BY <1>1
    <3>3. x \in DOMAIN t
      BY <1>4, <3>1, <3>2, UpWithin
    <3> QED BY <3>1, <3>2, <3>3, AboveIs
  <2>3. ASSUME NEW x \in far PROVE x \in Above(t, pid, Size(t))
    <3>1. PICK k \in 0..Size(t) : x = Up(t, root, k) /\ x \in DOMAIN t
      BY <1>3, <2>3, AboveIs
    <3>2. d + k \in 0..(Size(t) - 1) /\ Up(t, pid, d + k) = x
      BY <1>4, <3>1, Between
    <3>3. d + k \in 0..Size(t)
      BY <1>1, <3>2
    <3> QED BY <3>1, <3>2, <3>3, AboveIs
  <2> QED BY <2>1, <2>2, <2>3
<1>9. Cardinality(near \cup far) = Cardinality(near) + Cardinality(far) - Cardinality(near \cap far)
  BY <1>5, <1>6, FS_Union
<1>10. Cardinality({}) = 0 /\ Cardinality(far) \in Nat
  BY <1>6, FS_EmptySet, FS_CardinalityType
<1>11. Cardinality(near \cap far) = 0
  BY <1>7, <1>10
<1>12. Cardinality(near \cup far) = Cardinality(far) + d
  BY <1>5, <1>9, <1>10, <1>11
<1> QED BY <1>3, <1>8, <1>12

LEMMA DescendantsBelow ==
  ASSUME NEW t, Good(t) PROVE DescendantsAreBelow(t)
<1>1. Size(t) \in Nat
  BY UpSteps
<1> SUFFICES ASSUME NEW root \in DOMAIN t,
                    NEW found, found = Descendants(t, root),
                    NEW under, under = {p \in DOMAIN t \ {root} : root \in Above(t, p, Size(t))}
             PROVE  /\ {f[1] : f \in found} = under
                    /\ Cardinality(found) = Cardinality(under)
                    /\ \A f \in found : Cardinality(Above(t, f[1], Size(t))) = Cardinality(Above(t, root, Size(t))) + f[2]
  BY DEF DescendantsAreBelow, Size
<1>2. \A f : f \in found <=> \E p \in DOMAIN t, d \in 1..Size(t) : f = <<p, d>> /\ Up(t, p, d) = root
  BY DescendantsAre
<1>3. ASSUME NEW p \in DOMAIN t, NEW d \in 1..Size(t), Up(t, p, d) = root PROVE p \in under
  <2>1. 0 \in 0..Size(t) /\ d \in 0..Size(t) /\ 0 < d
    BY <1>1
  <2>2. p # root
    BY <1>3, <2>1, UpDiffers, UpSteps
  <2>3. root \in Above(t, p, Size(t))
    BY <1>3, <2>1, AboveIs
  <2> QED BY <2>2, <2>3
<1>4. ASSUME NEW p \in under PROVE \E d \in 1..Size(t) : <<p, d>> \in found
  <2>1. PICK d \in 0..Size(t) : root = Up(t, p, d)
    BY <1>4, AboveIs
  <2>2. d # 0
    BY <1>4, <2>1, UpSteps
  <2>3. d \in 1..Size(t) /\ p \in DOMAIN t
    BY <1>1, <2>2
  <2> QED BY <1>2, <2>1, <2>3
<1>5. ASSUME NEW p \in DOMAIN t, NEW d \in 1..Size(t), NEW e \in 1..Size(t), Up(t, p, d) = root, Up(t, p, e) = root
      PROVE  d = e
  <2>1. d \in 0..Size(t) /\ e \in 0..Size(t) /\ (d < e \/ e < d \/ d = e)
    BY <1>1
  <2> QED BY <1>5, <2>1, UpDiffers
<1>6. PICK h : h = [f \in found |-> f[1]]
  OBVIOUS
<1>7. ASSUME NEW f \in found
      PROVE  \E p \in DOMAIN t, d \in 1..Size(t) : f = <<p, d>> /\ Up(t, p, d) = root /\ f[1] = p /\ f[2] = d /\ p \in under
  <2>1. PICK p \in DOMAIN t, d \in 1..Size(t) : f = <<p, d>> /\ Up(t, p, d) = root
    BY <1>2
  <2> QED BY <1>3, <2>1
<1>8. h \in [found -> under] /\ \A f \in found : h[f] = f[1]
  BY <1>6, <1>7
<1>9. \A p \in under : \E f \in found : h[f] = p
  BY <1>4, <1>8
<1>10. h \in Surjection(found, under)
  BY <1>8, <1>9 DEF Surjection
<1>11. ASSUME NEW f \in found, NEW g \in found, h[f] = h[g] PROVE f = g
  <2>1. PICK p \in DOMAIN t, d \in 1..Size(t) : f = <<p, d>> /\ Up(t, p, d) = root /\ f[1] = p
    BY <1>7
  <2>2. PICK q \in DOMAIN t, e \in 1..Size(t) : g = <<q, e>> /\ Up(t, q, e) = root /\ g[1] = q
    BY <1>7
  <2>3. p = q
    BY <1>8, <1>11, <2>1, <2>2
  <2> QED BY <1>5, <2>1, <2>2, <2>3
<1>12. h \in Injection(found, under)
  BY <1>8, <1>11 DEF Injection, IsInjective
<1>13. IsFiniteSet(under)
  <2>1. under \subseteq DOMAIN t
    OBVIOUS
  <2> QED BY <2>1, FS_Subset DEF Good
<1>14. Cardinality(found) = Cardinality(under)
  BY <1>10, <1>12, <1>13, FS_Injection
<1>15. {f[1] : f \in found} = under
  BY <1>8, <1>9
<1>16. \A f \in found : Cardinality(Above(t, f[1], Size(t))) = Cardinality(Above(t, root, Size(t))) + f[2]
  BY <1>7, DepthsAdd
<1> QED BY <1>14, <1>15, <1>16

-----------------------------------------------------------------------------
(* A table of a finite host whose parents form no circle.                  *)
LEMMA TablesAreGood ==
  ASSUME TableAssumption, NEW t \in Tables, Forest(t) PROVE Good(t)
<1>1. PICK pids \in SUBSET Pid : t \in [pids -> Row]
  BY DEF Tables
<1>2. IsFiniteSet(pids) /\ Nothing \notin pids
  BY <1>1, FS_Subset DEF TableAssumption
<1> QED BY <1>1, <1>2 DEF Good

(* Who the traffic of a process is told of, and what is below a process    *)
(* (collector.rs, agent_owners; table.rs, descendants_of), whatever the    *)
(* process table, as long as no process is above itself: a helper of an    *)
(* agent has an owner, which lies above it with no agent of another family *)
(* between and is told of by the process collector; and what is found      *)
(* below a process is what lies below it, once and at its distance.        *)
THEOREM HelpersAreOwned == ASSUME TableAssumption PROVE TreeSpec => []TreesHold
<1>1. tree \in Tables => TreesHold
  BY TablesAreGood, OwnersAnchored, HelpersOwned, DescendantsBelow DEF TreesHold
<1>2. tree \in Tables /\ [UNCHANGED tree]_tree => (tree \in Tables)'
  OBVIOUS
<1> QED BY <1>1, <1>2, PTL DEF TreeSpec

-----------------------------------------------------------------------------
(* What does not run is below no agent: the walk ends where it starts.     *)
LEMMA AbsentIsNobody ==
  ASSUME NEW t, IsFiniteSet(DOMAIN t), NEW pid, pid \notin DOMAIN t
  PROVE  OwnerOf(t, pid) = Nothing
<1>1. Size(t) \in Nat
  BY FS_CardinalityType DEF Size
<1>2. PICK walk : walk = OwnerWalk(t, pid)
  OBVIOUS
<1>3. PICK S : S = {i \in Nat : i <= Size(t) => walk[i] = Start(pid)}
  OBVIOUS
<1>4. 0 \in S
  BY <1>1, <1>2, <1>3, WalkSteps
<1>5. ASSUME NEW i \in Nat, i \in S PROVE i + 1 \in S
  <2> SUFFICES ASSUME i + 1 <= Size(t) PROVE walk[i + 1] = Start(pid)
    BY <1>3
  <2>1. i \in 0..(Size(t) - 1) /\ walk[i] = Start(pid)
    BY <1>1, <1>3, <1>5
  <2>2. walk[i + 1] = Climbing(t, Start(pid))
    BY <1>1, <1>2, <2>1, WalkSteps
  <2>3. Climbing(t, Start(pid)) = Start(pid)
    BY DEF Climbing, Start
  <2> QED BY <2>2, <2>3
<1>6. walk[Size(t)] = Start(pid)
  BY <1>1, <1>3, <1>4, <1>5, CountedUp
<1> QED BY <1>2, <1>6 DEF OwnerOf, Size, Start

(* What is asked for its command line came before as many others, or there *)
(* are more than so many processes.                                        *)
LEMMA AskedOrMany ==
  ASSUME TableAssumption, NEW pids \in SUBSET Pid, NEW asked \in SUBSET pids, NEW pid \in asked,
         NEW most \in Nat, ~(Cardinality({p \in asked : p < pid}) < most)
  PROVE  Cardinality(pids) > most
<1>1. PICK before : before = {p \in asked : p < pid}
  OBVIOUS
<1>2. before \subseteq pids \ {pid}
  <2>1. \A p \in asked : p \in Nat /\ p \in pids
    BY DEF TableAssumption
  <2>2. \A p \in asked : p < pid => p # pid
    BY <2>1
  <2> QED BY <1>1, <2>1, <2>2
<1>3. IsFiniteSet(pids)
  BY FS_Subset DEF TableAssumption
<1>4. IsFiniteSet(pids \ {pid}) /\ Cardinality(pids \ {pid}) = Cardinality(pids) - 1
  BY <1>3, FS_RemoveElement
<1>5. IsFiniteSet(before) /\ Cardinality(before) <= Cardinality(pids \ {pid})
  BY <1>2, <1>4, FS_Subset
<1>6. Cardinality(before) \in Nat /\ Cardinality(pids) \in Nat
  BY <1>3, <1>5, FS_CardinalityType
<1> QED BY <1>1, <1>4, <1>5, <1>6

(* What a process is recognised as (table.rs, build; launcher.rs), for any *)
(* listing and any bound on what is asked: by its executable if that is an *)
(* agent's, a script by what it was handed unless too many are asked, and  *)
(* what is neither by its name, on Linux by its first argument before it;  *)
(* what has ended is nobody.                                               *)
THEOREM KnownByItsProgram ==
  ASSUME TableAssumption, NEW raw \in Listings, NEW most \in Nat
  PROVE  RecognitionHolds(raw, most)
<1>1. PICK all \in SUBSET Pid : raw \in [all -> Raw]
  BY DEF Listings
<1> SUFFICES ASSUME NEW windows \in BOOLEAN, NEW t, t = Snapshot(raw, windows, most)
             PROVE  /\ \A pid \in DOMAIN t : (windows \/ raw[pid].image = Nothing) =>
                         /\ raw[pid].exe \in Family => t[pid].family = raw[pid].exe
                         /\ raw[pid].exe = "runtime" /\ raw[pid].name = Nothing =>
                              t[pid].family \in {FamilyOf(raw[pid].argument)}
                                                  \cup (IF Cardinality(DOMAIN t) > most THEN {Nothing} ELSE {})
                         /\ raw[pid].exe = Nothing =>
                              t[pid].family = IF ~windows /\ raw[pid].argument \in Family
                                              THEN raw[pid].argument ELSE raw[pid].name
                    /\ \A pid \in DOMAIN raw \ DOMAIN t : OwnerOf(t, pid) = Nothing
  BY DEF RecognitionHolds
<1>2. DOMAIN raw = all /\ DOMAIN t = {p \in all : raw[p].state = "running"}
  BY <1>1 DEF Snapshot
<1>3. IsFiniteSet(DOMAIN t) /\ DOMAIN t \in SUBSET Pid
  BY <1>1, <1>2, FS_Subset DEF TableAssumption
<1>4. ASSUME NEW pid \in DOMAIN t PROVE t[pid].family = RecognisedAs(raw, pid, windows, most)
  BY <1>2 DEF Snapshot
<1>5. Nothing \notin Family /\ "runtime" \notin Family /\ Nothing # "runtime"
  BY DEF TableAssumption
<1>6. ASSUME NEW pid \in DOMAIN t, raw[pid].exe \in Family, windows \/ raw[pid].image = Nothing
      PROVE  t[pid].family = raw[pid].exe
  BY <1>4, <1>5, <1>6 DEF RecognisedAs, FirstKnown, FamilyOf
<1>7. ASSUME NEW pid \in DOMAIN t, raw[pid].exe = "runtime", raw[pid].name = Nothing,
             windows \/ raw[pid].image = Nothing
      PROVE  t[pid].family \in {FamilyOf(raw[pid].argument)}
                                 \cup (IF Cardinality(DOMAIN t) > most THEN {Nothing} ELSE {})
  <2>1. PICK a : a = FamilyOf(raw[pid].argument)
    OBVIOUS
  <2>2. FamilyOf(raw[pid].exe) = Nothing /\ FamilyOf(Nothing) = Nothing
    BY <1>5, <1>7 DEF FamilyOf
  <2>3. CASE ~windows
    BY <1>4, <1>7, <2>2, <2>3 DEF RecognisedAs, FirstKnown, LauncherPath
  <2>4. CASE windows
    <3>1. t[pid].family = WindowsLauncher(raw, pid, most)
      BY <1>4, <1>7, <2>2, <2>4 DEF RecognisedAs, FirstKnown, LauncherPath
    <3>2. PICK asked : asked = {p \in DOMAIN raw : raw[p].state = "running" /\ raw[p].exe = "runtime" /\ raw[p].name = Nothing}
      OBVIOUS
    <3>3. asked \in SUBSET DOMAIN t /\ pid \in asked
      BY <1>2, <1>7, <3>2
    <3>4. WindowsLauncher(raw, pid, most) = IF Cardinality({p \in asked : p < pid}) < most THEN a ELSE Nothing
      BY <2>1, <3>2, <3>3 DEF WindowsLauncher
    <3>5. ~(Cardinality({p \in asked : p < pid}) < most) => Cardinality(DOMAIN t) > most
      BY <1>3, <3>3, AskedOrMany
    <3> QED BY <2>1, <3>1, <3>4, <3>5
  <2> QED BY <2>3, <2>4
<1>8. ASSUME NEW pid \in DOMAIN t, raw[pid].exe = Nothing, windows \/ raw[pid].image = Nothing
      PROVE  t[pid].family = IF ~windows /\ raw[pid].argument \in Family
                             THEN raw[pid].argument ELSE raw[pid].name
  <2>1. FamilyOf(raw[pid].exe) = Nothing /\ FamilyOf(Nothing) = Nothing
    BY <1>5, <1>8 DEF FamilyOf
  <2>2. CASE ~windows
    <3>1. t[pid].family = FirstKnown(FamilyOf(raw[pid].argument), raw[pid].name)
      BY <1>4, <1>8, <2>1, <2>2 DEF RecognisedAs, FirstKnown, LauncherPath
    <3> QED BY <1>5, <2>2, <3>1 DEF FirstKnown, FamilyOf
  <2>3. CASE windows
    <3>1. WindowsLauncher(raw, pid, most) = Nothing
      BY <1>5, <1>8 DEF WindowsLauncher
    <3>2. t[pid].family = raw[pid].name
      BY <1>4, <2>1, <2>3, <3>1 DEF RecognisedAs, FirstKnown, LauncherPath
    <3> QED BY <2>3, <3>2
  <2> QED BY <2>2, <2>3
<1>9. \A pid \in DOMAIN raw \ DOMAIN t : OwnerOf(t, pid) = Nothing
  BY <1>3, AbsentIsNobody
<1> QED BY <1>6, <1>7, <1>8, <1>9
=============================================================================
