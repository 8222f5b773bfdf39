------------------------------- MODULE Server -------------------------------
(* The two ways to the database: the pool of the running server, and the    *)
(* connection of its own with which migrations are run.                     *)
EXTENDS ConnectionPool, Migrations

vars == <<poolVars, migrationVars>>

TypeOK == PoolTypeOK /\ MigrationTypeOK

Init == PoolInit /\ MigrationInit

Next ==
    \/ PoolNext /\ UNCHANGED migrationVars
    \/ MigrationNext /\ UNCHANGED poolVars

Spec == Init /\ [][Next]_vars /\ PoolFairness

=============================================================================
