----------------------------- MODULE MCBooking -----------------------------
(* Instances of Booking for TLC: rooms of one type, r1 the cheapest.       *)
EXTENDS Booking, TLC

CONSTANTS r1, double

MCTypeOf == [r \in Room |-> double]
MCPrice == [r \in Room |-> IF r = r1 THEN 80 ELSE 95]

\* Requests and guests are interchangeable; rooms are not, they differ in price.
Symmetric == Permutations(Request) \cup Permutations(Guest)

=============================================================================
