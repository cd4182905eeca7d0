----------------------------- MODULE MCSessions -----------------------------
(* Model values and symmetry for checking Sessions.                        *)
EXTENDS Sessions, TLC

Symmetry == Permutations(Secret) \cup Permutations(Call) \cup Permutations(Ending)

=============================================================================
