--------------------------- MODULE MCMigrations ---------------------------
(* Values and symmetry for checking Migrations.                            *)
EXTENDS Migrations, TLC

CONSTANTS s1, s2

\* A rolling upgrade: s1 is of the version before the last migration.
ShipsMixed == [s \in Server |-> IF s = s1 THEN Last - 1 ELSE Last]

=============================================================================
