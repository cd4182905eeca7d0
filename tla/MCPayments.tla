----------------------------- MODULE MCPayments -----------------------------
(* Model values and symmetry for checking Payments.                        *)
EXTENDS Payments, TLC

Symmetry == Permutations(Request)

=============================================================================
