---------------------------- MODULE Migrations ----------------------------
(***************************************************************************)
(* Booting servers on one database: main connects, EnsureAppSchema reads   *)
(* the ledger of migrations, runs each unrecorded one in a transaction     *)
(* together with its ledger row, then creates the compatibility tables;    *)
(* any error ends the process.                                             *)
(*                                                                         *)
(* Servers may ship different numbers of migrations, or none: without a    *)
(* migrations directory the runner returns at once.  The statements of a   *)
(* migration are one step, as its transaction makes them.                  *)
(***************************************************************************)
EXTENDS Integers

CONSTANTS
    Last,           \* number of the last migration
    Server,
    Ships,          \* the number of migrations beside each server, 0 for no directory
    MaxFaults       \* bound on failures and crashes: they stop some day

File == 1..Last

ASSUME MigrationsAssumption ==
    /\ Last \in Nat \ {0}
    /\ Ships \in [Server -> 0..Last]
    /\ MaxFaults \in Nat

\* Migration 002 creates hotels from the tables of 001; the later ones and the
\* compatibility tables refer to it.
Required == {1, 2} \cap File

VARIABLES
    runs,           \* how often each migration took effect on the schema
    ledger,         \* schema_migrations
    at,             \* the step of each server
    todo,           \* the migrations a server has found unrecorded and not run yet
    faults,         \* failures and crashes so far

    inherited       \* history variable: the ledger rows of earlier versions

database == <<runs, ledger>>
migrationVars == <<database, at, todo, faults, inherited>>

At == {"down", "read", "run", "record", "commit", "serving"}

TypeMigrations ==
    /\ runs \in [File -> Nat]
    /\ ledger \subseteq File
    /\ at \in [Server -> At]
    /\ todo \in [Server -> SUBSET File]
    /\ faults \in 0..MaxFaults
    /\ inherited \subseteq ledger

Log == INSTANCE MigrationLog

InitMigrations ==
    /\ Log!Init
    /\ at = [s \in Server |-> "down"]
    /\ todo = [s \in Server |-> {}]
    /\ faults = 0
    /\ inherited = ledger

-----------------------------------------------------------------------------

Present == {f \in File : runs[f] > 0}

\* f is the file the loop of s has come to: the names are sorted.
Current(s, f) == f \in todo[s] /\ \A g \in todo[s] : f <= g

GotoStep(s, from, to) == at[s] = from /\ at' = [at EXCEPT ![s] = to]

Boot(s) ==
    /\ GotoStep(s, "down", "read")
    /\ UNCHANGED <<database, todo, faults, inherited>>

\* Mutant: an off-by-one in the list of files.
ReadLedgerFromZero(s) ==
    /\ GotoStep(s, "read", "run")
    /\ todo' = [todo EXCEPT ![s] = (0..Ships[s]) \ ledger]
    /\ UNCHANGED <<database, faults, inherited>>

\* Mutant: every migration is run on every boot.
ReadLedgerIgnored(s) ==
    /\ GotoStep(s, "read", "run")
    /\ todo' = [todo EXCEPT ![s] = 1..Ships[s]]
    /\ UNCHANGED <<database, faults, inherited>>

ReadLedger(s) ==
    /\ GotoStep(s, "read", "run")
    /\ todo' = [todo EXCEPT ![s] = (1..Ships[s]) \ ledger]
    /\ UNCHANGED <<database, faults, inherited>>

\* The statements, in an open transaction that no other server sees.
Execute(s, f) ==
    /\ Current(s, f)
    /\ {g \in Required : g < f} \subseteq Present
    /\ GotoStep(s, "run", "record")
    /\ UNCHANGED <<database, todo, faults, inherited>>

\* Mutant: the version is not a key of the ledger.
RecordUnchecked(s, f) ==
    /\ Current(s, f)
    /\ GotoStep(s, "record", "commit")
    /\ UNCHANGED <<database, todo, faults, inherited>>

\* version is the primary key: the INSERT waits for a transaction that has inserted it,
\* and fails once it is committed.
Record(s, f) ==
    /\ Current(s, f)
    /\ f \notin ledger
    /\ \A t \in Server : ~(at[t] = "commit" /\ Current(t, f))
    /\ GotoStep(s, "record", "commit")
    /\ UNCHANGED <<database, todo, faults, inherited>>

Commits(f) ==
    /\ runs' = [runs EXCEPT ![f] = @ + 1]
    /\ ledger' = ledger \cup {f}
    /\ UNCHANGED inherited

Commit(s, f) ==
    /\ Current(s, f)
    /\ GotoStep(s, "commit", "run")
    /\ Commits(f)
    /\ todo' = [todo EXCEPT ![s] = @ \ {f}]
    /\ UNCHANGED faults

Stops(s) ==
    /\ at' = [at EXCEPT ![s] = "down"]
    /\ todo' = [todo EXCEPT ![s] = {}]

Fault ==
    /\ faults < MaxFaults
    /\ faults' = faults + 1

\* The database commits and the server does not hear of it.
CommitUnanswered(s, f) ==
    /\ at[s] = "commit" /\ Current(s, f)
    /\ Fault
    /\ Commits(f)
    /\ Stops(s)

\* The compatibility tables; they are created if missing, on every boot.
Ensure(s) ==
    /\ todo[s] = {}
    /\ Required \subseteq Present
    /\ GotoStep(s, "run", "serving")
    /\ UNCHANGED <<database, todo, faults, inherited>>

Rejected(s) ==
    \/ at[s] = "run" /\ todo[s] = {} /\ ~(Required \subseteq Present)
    \/ \E f \in File :
         /\ Current(s, f)
         /\ \/ at[s] = "run" /\ ~({g \in Required : g < f} \subseteq Present)
            \/ at[s] = "record" /\ f \in ledger

\* The database refuses a statement: a table is missing, or another server has recorded
\* the migration meanwhile.  Rollback, and Fatal.
Refused(s) ==
    /\ Rejected(s)
    /\ Stops(s)
    /\ UNCHANGED <<database, faults, inherited>>

\* Mutant: a migration that fails is skipped.
BootFailsGoesOn(s) ==
    /\ at[s] \in {"run", "record", "commit"}
    /\ Fault
    /\ at' = [at EXCEPT ![s] = "run"]
    /\ todo' = [todo EXCEPT ![s] = {f \in @ : ~Current(s, f)}]
    /\ UNCHANGED <<database, inherited>>

\* Any other error, the 30 s of the boot context, or a crash; also of a server that serves.
BootFails(s) ==
    /\ at[s] # "down"
    /\ Fault
    /\ Stops(s)
    /\ UNCHANGED <<database, inherited>>

Step(s) ==
    \/ Boot(s) \/ ReadLedger(s) \/ Ensure(s) \/ Refused(s)
    \/ \E f \in File : Execute(s, f) \/ Record(s, f) \/ Commit(s, f)

MigrationsIdle == (\A s \in Server : at[s] = "serving") /\ UNCHANGED migrationVars

NextMigrations ==
    \/ \E s \in Server : Step(s) \/ BootFails(s) \/ \E f \in File : CommitUnanswered(s, f)
    \/ MigrationsIdle

SpecMigrations == InitMigrations /\ [][NextMigrations]_migrationVars

\* A server that is down is started again, and a boot runs on.
FairMigrations == SpecMigrations /\ \A s \in Server : WF_migrationVars(Step(s))

-----------------------------------------------------------------------------
(* Properties.                                                             *)

\* Each migration takes effect in the step that records it, after all earlier ones, and
\* is not run again once recorded, with any number of boots at once.
OneByOne == Log!Spec

\* A server that serves has every migration it ships recorded, and has had it run unless
\* an earlier version recorded it without; and it has the tables its own depend on.
ServingIsComplete ==
    \A s \in Server : at[s] = "serving" =>
        /\ 1..Ships[s] \subseteq ledger
        /\ (1..Ships[s]) \ inherited \subseteq Present
        /\ Required \subseteq Present

\* Every server that ships the required migrations serves in the end, if the ledger it
\* inherits does not claim one of them that never ran: the loser of a race fails its
\* boot, and not the next one.
ServersServe ==
    ledger \cap Required \subseteq Present
        => <>[](\A s \in Server : Required \subseteq 1..Ships[s] => at[s] = "serving")

=============================================================================
