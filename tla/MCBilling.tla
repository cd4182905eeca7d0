----------------------------- MODULE MCBilling -----------------------------
(* Model values and symmetry for checking Billing.                         *)
EXTENDS Billing, TLC

Symmetry ==
    Permutations(Stay) \cup Permutations(Folio) \cup Permutations(Charge)
        \cup Permutations(Payment) \cup Permutations(Call)

=============================================================================
