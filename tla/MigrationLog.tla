--------------------------- MODULE MigrationLog ---------------------------
(***************************************************************************)
(* What the migration runner promises of the database, however many        *)
(* servers boot at once and however often a boot fails: a migration runs   *)
(* and is recorded in one step, after all earlier ones, and never again.   *)
(***************************************************************************)
EXTENDS Integers

CONSTANT Last       \* number of the last migration

File == 1..Last     \* the migrations, in the order of their names

VARIABLES
    runs,           \* how often each migration took effect on the schema
    ledger          \* schema_migrations

\* A database is new, had migrations run by hand (README: 001), or was left by an
\* earlier version, which recorded every migration of a database that had any.
Init ==
    \E recorded, present \in 0..Last :
        /\ recorded > present => present >= 1
        /\ ledger = 1..recorded
        /\ runs = [f \in File |-> IF f <= present THEN 1 ELSE 0]

Apply(f) ==
    /\ f \notin ledger
    /\ 1..(f - 1) \subseteq ledger
    /\ ledger' = ledger \cup {f}
    /\ runs' = [runs EXCEPT ![f] = @ + 1]

Next == \E f \in File : Apply(f)

Spec == Init /\ [][Next]_<<runs, ledger>>

=============================================================================
