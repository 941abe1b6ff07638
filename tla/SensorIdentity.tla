--------------------------- MODULE SensorIdentity ---------------------------
(***************************************************************************)
(* Who a sensor is (topgent-report/src/identity.rs): two files of the      *)
(* state directory, the identity of the host and the seed of the signing   *)
(* key, that are made when they are not there. Every surface that makes a  *)
(* bundle asks for both, one after the other, and no lock is held.         *)
(***************************************************************************)
EXTENDS Naturals, Sequences

CONSTANTS
  Maker,      \* surfaces that make a bundle
  MaxStarts   \* bound on how often one asks

Files == <<"host-id", "sensor-key">>
Absent == <<>>
Empty == <<0>>   \* there, and nothing but blanks

VARIABLES
  file,    \* each file: Absent, Empty, or what a process drew, <<process, start>>
  pc,      \* "idle", "read", "make", "write", "back", "made", "refused"
  at,      \* which file a process asks for
  held,    \* what it got of each
  starts,  \* how often somebody asked
  kept,    \* what a file had when nobody was making it any more
  since    \* what was kept when a process began to ask

identityVars == <<file, pc, at, held, starts, kept, since>>

Name(p) == Files[at[p]]
Drawn(p) == <<p, starts>>
Blank(value) == value \in {Absent, Empty}

IdentityInit ==
  /\ file = [f \in {"host-id", "sensor-key"} |-> Absent]
  /\ pc = [p \in Maker |-> "idle"] /\ at = [p \in Maker |-> 1]
  /\ held = [p \in Maker |-> <<>>]
  /\ starts = 0
  /\ kept = file /\ since = [p \in Maker |-> file]

(* Nobody is about to replace the file that somebody reads.                *)
Making(q, f) == pc[q] \in {"make", "write"} /\ Name(q) = f
Keep ==
  kept' = [f \in DOMAIN file |-> IF Blank(file'[f]) \/ (\E q \in Maker : Making(q, f)') THEN kept[f] ELSE file'[f]]

Ask(p) ==
  /\ pc[p] \in {"idle", "made", "refused"} /\ starts < MaxStarts
  /\ starts' = starts + 1
  /\ pc' = [pc EXCEPT ![p] = "read"] /\ at' = [at EXCEPT ![p] = 1]
  /\ held' = [held EXCEPT ![p] = <<>>] /\ since' = [since EXCEPT ![p] = kept]
  /\ UNCHANGED file /\ Keep

(* An identity is drawn and signed with; a blank one and a short seed are  *)
(* refused by EvidenceRecord::new and sensor_key.                          *)
Holds(p, value) ==
  /\ held' = [held EXCEPT ![p] = Append(@, value)]
  /\ IF Blank(value) THEN pc' = [pc EXCEPT ![p] = "refused"] /\ UNCHANGED at
     ELSE IF at[p] < Len(Files) THEN pc' = [pc EXCEPT ![p] = "read"] /\ at' = [at EXCEPT ![p] = @ + 1]
     ELSE pc' = [pc EXCEPT ![p] = "made"] /\ UNCHANGED at

(* Mutant: what is there is made anew.                                     *)
LookAnew(p) ==
  /\ pc[p] = "read" /\ pc' = [pc EXCEPT ![p] = "make"]
  /\ UNCHANGED <<file, at, held, starts, since>> /\ Keep

(* persistent: what is there and not blank is taken.                       *)
Look(p) ==
  /\ pc[p] = "read"
  /\ IF Blank(file[Name(p)]) THEN pc' = [pc EXCEPT ![p] = "make"] /\ UNCHANGED <<held, at>>
     ELSE Holds(p, file[Name(p)])
  /\ UNCHANGED <<file, starts, since>> /\ Keep

(* std::fs::write empties the file, or creates it, and then writes.        *)
Truncate(p) ==
  /\ pc[p] = "make"
  /\ file' = [file EXCEPT ![Name(p)] = Empty] /\ pc' = [pc EXCEPT ![p] = "write"]
  /\ UNCHANGED <<at, held, starts, since>> /\ Keep
Put(p) ==
  /\ pc[p] = "write"
  /\ file' = [file EXCEPT ![Name(p)] = Drawn(p)] /\ pc' = [pc EXCEPT ![p] = "back"]
  /\ UNCHANGED <<at, held, starts, since>> /\ Keep

(* What is there by then is used.                                          *)
ReadBack(p) ==
  /\ pc[p] = "back"
  /\ Holds(p, file[Name(p)])
  /\ UNCHANGED <<file, starts, since>> /\ Keep

Die(p) ==
  /\ pc[p] \notin {"idle", "made", "refused"}
  /\ pc' = [pc EXCEPT ![p] = "idle"]
  /\ UNCHANGED <<file, at, held, starts, since>> /\ Keep

IdentityNext == \E p \in Maker : Ask(p) \/ Look(p) \/ Truncate(p) \/ Put(p) \/ ReadBack(p) \/ Die(p)

IdentitySpec == IdentityInit /\ [][IdentityNext]_identityVars

-----------------------------------------------------------------------------
(* identity.rs:117: an identity that is there, and that nobody is making,  *)
(* is never made anew, whoever dies, and is what is used from then on.     *)
IdentityStays ==
  /\ \A f \in DOMAIN file : ~Blank(kept[f]) => file[f] = kept[f]
  /\ \A p \in Maker : pc[p] = "made" =>
       \A i \in DOMAIN Files : ~Blank(since[p][Files[i]]) => held[p][i] = since[p][Files[i]]

(* identity.rs:119-122: two processes that start together end up with the  *)
(* same identity.  (The one that read its own back before the other wrote  *)
(* keeps one that is nowhere.)                                             *)
SameIdentity == \A p, q \in Maker : pc[p] = "made" /\ pc[q] = "made" => held[p] = held[q]
=============================================================================
