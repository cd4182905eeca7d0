--------------------------- MODULE MCBackOffice -----------------------------
(* An instance of BackOffice for TLC.                                      *)
EXTENDS BackOffice, TLC

MCDamaged == {-1, 0, 2}
MCActive == {FALSE, None}

\* Requests are interchangeable, and so are members and roles.
Symmetric == Permutations(Call) \cup Permutations(Member) \cup Permutations(Role)

=============================================================================
