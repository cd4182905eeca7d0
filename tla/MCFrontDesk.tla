---------------------------- MODULE MCFrontDesk ----------------------------
(* Model values and symmetry for checking FrontDesk.                       *)
EXTENDS FrontDesk, TLC

Symmetry == Permutations(Room) \cup Permutations(Request) \cup Permutations(Call)

=============================================================================
