---------------------------- MODULE AtomicRecord ----------------------------
(***************************************************************************)
(* What a caller of the journal's locked records relies on: each           *)
(* record_... / request_... / resolve_... call behaves as one indivisible  *)
(* update of one record file.  journal.rs:376-387 gives the reason: two    *)
(* writers that each read the whole set and write it back lose records.    *)
(*                                                                         *)
(* The content is abstracted to a count of the updates of every writer     *)
(* the file holds: a lost update is a count that falls behind.             *)
(***************************************************************************)
EXTENDS Naturals

CONSTANT Writer             \* threads of the application and of the CLI

VARIABLE store              \* the updates of each writer the file holds

AInit == store = [w \in Writer |-> 0]

Update(w) == store' = [store EXCEPT ![w] = @ + 1]

ANext == \E w \in Writer : Update(w)

ASpec == AInit /\ [][ANext]_store
=============================================================================
