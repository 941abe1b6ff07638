------------------------- MODULE ResponseTransition --------------------------
(***************************************************************************)
(* Journal::record_response_transition and the codec of transition.rs: the *)
(* durable edge detector behind policy alerts.  response_json evaluates    *)
(* every agent under every rule on every sweep and raises an alert when    *)
(* the answer is `triggered'.  The call holds the record lock and is one   *)
(* step (RecordStore); any surface, also a restarted one, may make it.     *)
(***************************************************************************)
EXTENDS Naturals, FiniteSets

CONSTANTS
  EdgeKey,        \* one exact agent and rule each: transition_key
  MaxTransitions, \* MAX_RESPONSE_TRANSITIONS
  MaxSweptAt,     \* bound on the clock
  MaxEdges,       \* bound on the rising edges of a key
  MaxSetBacks     \* how often the clock may be set back

TransitionAssumption ==
  /\ IsFiniteSet(EdgeKey) /\ MaxTransitions \in Nat \ {0}
  /\ MaxSweptAt \in Nat /\ MaxEdges \in Nat /\ MaxSetBacks \in Nat

VARIABLES
  sweptAt,     \* the wall clock of the caller
  transitions, \* response-transitions.json: the record of each key it has one of
  answer,      \* the label the last call returned
  matched,     \* history: whether the rule matched at its last evaluation
  edges,       \* history: rising edges of the match
  edge,        \* history: whether the last call saw a rising edge
  drained,     \* history: whether a record went for want of room
  setBacks     \* how often the clock was set back

transitionVars == <<sweptAt, transitions, answer, matched, edges, edge, drained, setBacks>>

TransitionInit ==
  /\ sweptAt = 0
  /\ transitions = [k \in {} |-> 0]
  /\ answer = "none"
  /\ matched = [k \in EdgeKey |-> FALSE]
  /\ edges = [k \in EdgeKey |-> 0]
  /\ edge = FALSE
  /\ drained = FALSE
  /\ setBacks = 0

-----------------------------------------------------------------------------
(* response_transition_from_json skips a record last seen before it last   *)
(* changed.                                                                *)
Legible == {k \in DOMAIN transitions : transitions[k].changed <= transitions[k].seen}

LabelOf(was, active) ==
  IF active THEN (IF was THEN "suppressed" ELSE "triggered")
  ELSE (IF was THEN "recovered" ELSE "inactive")

(* Mutant: every sweep that matches counts.                                *)
MovedEverySweep(r, active) ==
  [active |-> active, seen |-> sweptAt,
   changed |-> IF r.active = active THEN r.changed ELSE sweptAt,
   count |-> IF active THEN r.count + 1 ELSE r.count]

Moved(r, active) ==
  [active |-> active, seen |-> sweptAt,
   changed |-> IF r.active = active THEN r.changed ELSE sweptAt,
   count |-> IF active /\ ~r.active THEN r.count + 1 ELSE r.count]

Begun(active) ==
  [active |-> active, seen |-> sweptAt, changed |-> sweptAt, count |-> IF active THEN 1 ELSE 0]

(* Sorted by last_seen_at, past the bound the first are drained; of those  *)
(* last seen together it is left open which come first.                    *)
Newest(kept, records) ==
  LET keys == DOMAIN records
  IN IF Cardinality(keys) <= MaxTransitions THEN kept = keys
     ELSE /\ Cardinality(kept) = MaxTransitions
          /\ \A k \in kept, dropped \in keys \ kept : records[dropped].seen <= records[k].seen

Evaluate(k, active) ==
  LET was == IF k \in Legible THEN transitions[k].active ELSE FALSE
      record == IF k \in Legible THEN Moved(transitions[k], active) ELSE Begun(active)
      records == [j \in Legible \cup {k} |-> IF j = k THEN record ELSE transitions[j]]
  IN /\ active /\ ~matched[k] => edges[k] < MaxEdges
     /\ answer' = LabelOf(was, active)
     /\ \E kept \in SUBSET DOMAIN records :
          /\ Newest(kept, records)
          /\ transitions' = [j \in kept |-> records[j]]
          /\ drained' = (drained \/ kept # DOMAIN records)
     /\ matched' = [matched EXCEPT ![k] = active]
     /\ edge' = (active /\ ~matched[k])
     /\ edges' = IF active /\ ~matched[k] THEN [edges EXCEPT ![k] = @ + 1] ELSE edges
     /\ UNCHANGED <<sweptAt, setBacks>>

SweepLaterOn ==
  /\ sweptAt < MaxSweptAt
  /\ sweptAt' = sweptAt + 1
  /\ UNCHANGED <<transitions, answer, matched, edges, edge, drained, setBacks>>

SetBack ==
  /\ setBacks < MaxSetBacks
  /\ setBacks' = setBacks + 1
  /\ sweptAt' \in {t \in 0..MaxSweptAt : t < sweptAt}
  /\ UNCHANGED <<transitions, answer, matched, edges, edge, drained>>

TransitionNext ==
  \/ \E k \in EdgeKey, active \in BOOLEAN : Evaluate(k, active)
  \/ SweepLaterOn
  \/ SetBack

TransitionSpec == TransitionInit /\ [][TransitionNext]_transitionVars

-----------------------------------------------------------------------------
(* As long as no record went, for want of room or because a clock that was *)
(* set back made it one that is skipped.                                   *)
NoneWent == ~drained /\ setBacks = 0

(* transition.rs:3-6: a rule that matches on every sweep is one finding,   *)
(* not one per sweep, across restarts: a rising edge is always answered    *)
(* `triggered', and as long as no record went only it is, and              *)
(* trigger_count is the number of edges.  Whatever went, what a reader     *)
(* finds of a rule is its latest evaluation, and no edge is counted twice. *)
FindingsHold ==
  /\ edge => answer = "triggered"
  /\ \A k \in Legible : transitions[k].active = matched[k] /\ transitions[k].count <= edges[k]
  /\ NoneWent =>
       /\ answer = "triggered" => edge
       /\ \A k \in Legible : transitions[k].count = edges[k]
  /\ Cardinality(DOMAIN transitions) <= MaxTransitions
=============================================================================
