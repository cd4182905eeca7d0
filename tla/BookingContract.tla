-------------------------- MODULE BookingContract --------------------------
(***************************************************************************)
(* What the booking endpoints promise each request, whatever the order in  *)
(* which their database calls interleave: a booking is confirmed only with *)
(* its stay and its payment recorded, a booking is rejected only with      *)
(* nothing of it left, and once the request is answered its records are    *)
(* left alone.  A request may also be abandoned: its process died, or its  *)
(* clean-up was incomplete.                                                *)
(***************************************************************************)

CONSTANT Request

VARIABLES
    outcome,    \* what the caller has been told
    records     \* the rows of the request that exist

Record == {"stay", "payment"}

TypeOK ==
    /\ outcome \in [Request -> {"open", "confirmed", "rejected", "abandoned"}]
    /\ records \in [Request -> SUBSET Record]

Init ==
    /\ outcome = [q \in Request |-> "open"]
    /\ records = [q \in Request |-> {}]

Answer(q, needed, answer) ==
    /\ outcome[q] = "open"
    /\ records[q] \in needed
    /\ outcome' = [outcome EXCEPT ![q] = answer]
    /\ UNCHANGED records

\* An open request writes and compensates in any order.
Work(q) ==
    /\ outcome[q] = "open"
    /\ \E rows \in SUBSET Record : records' = [records EXCEPT ![q] = rows]
    /\ UNCHANGED outcome

Confirm(q) == Answer(q, {Record}, "confirmed")

Reject(q) == Answer(q, {{}}, "rejected")

Abandon(q) == Answer(q, SUBSET Record, "abandoned")

Next == \E q \in Request : Work(q) \/ Confirm(q) \/ Reject(q) \/ Abandon(q)

vars == <<outcome, records>>

Spec == Init /\ [][Next]_vars

=============================================================================
