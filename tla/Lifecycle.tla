------------------------------ MODULE Lifecycle ------------------------------
(***************************************************************************)
(* The promise made for an approval (approval.rs:3-6, journal.rs:674-676): *)
(* a request for one exact run and scope is asked once, is settled at most *)
(* once, by a person or by its deadline, and then stays settled.           *)
(***************************************************************************)
CONSTANT Request            \* one exact (pid, started_at, scope) each

VARIABLE status             \* where each request stands

LInit == status = [q \in Request |-> "unasked"]

AskOnce(q) ==
  /\ status[q] = "unasked"
  /\ status' = [status EXCEPT ![q] = "pending"]

SettleOnce(q) ==
  /\ status[q] = "pending"
  /\ \E s \in {"approved", "denied"} : status' = [status EXCEPT ![q] = s]

(* One instant may be the deadline of several requests.                    *)
Elapse ==
  \E S \in SUBSET {q \in Request : status[q] = "pending"} :
    status' = [q \in Request |-> IF q \in S THEN "expired" ELSE status[q]]

LNext == Elapse \/ \E q \in Request : AskOnce(q) \/ SettleOnce(q)

LSpec == LInit /\ [][LNext]_status
=============================================================================
