------------------------------ MODULE Amounts ------------------------------
(***************************************************************************)
(* Sums of natural numbers over finite sets.  A sum is the cardinality of  *)
(* a set that has an element for each unit, so that facts about finite     *)
(* sets are all that proofs need.                                          *)
(***************************************************************************)
EXTENDS Integers, FiniteSets

\* What a function adds up to.
Units(f) == UNION {{x} \X (1..f[x]) : x \in DOMAIN f}
Amount(f) == Cardinality(Units(f))

=============================================================================
