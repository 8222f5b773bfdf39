----------------------------- MODULE Migrations -----------------------------
(* The migration runner (migrations/run.js): scripts of several statements, *)
(* none undone when a later one fails, each script recorded after its last  *)
(* statement.  Nothing keeps two runners apart, and a runner may stop       *)
(* anywhere.                                                                *)
EXTENDS Naturals, Sequences

CONSTANTS
    Runners,        \* processes that run the migrations
    Defects,        \* kinds of rows that statements fail over
    Script          \* the statements of each script, in order

\* CREATE TABLE, ADD COLUMN and the like fail when run "once" more; MODIFY COLUMN
\* and UPDATE may be run "again"; a "guard" looks for rows and changes nothing.
\* What is more, each fails "over" such rows as a NOT NULL cannot be set on.
ASSUME ScriptAssumption ==
    /\ Script \in Seq(Seq([kind : {"once", "again", "guard"}, over : SUBSET Defects]))
    /\ \A s \in DOMAIN Script : Len(Script[s]) > 0

VARIABLES
    applied,        \* the statements the schema has, as <<script, place>>
    recorded,       \* schema_migrations
    unresolved,     \* the defects that some row has
    run,            \* the scripts each runner has left, and the next statement
    upset           \* a history: a runner died, two overlapped, or the data
                    \* was spoiled under one

migrationVars == <<applied, recorded, unresolved, run, upset>>

-----------------------------------------------------------------------------
Scripts == DOMAIN Script

Changes(s) == {i \in DOMAIN Script[s] : Script[s][i].kind # "guard"}
Checks(s) == DOMAIN Script[s] \ Changes(s)

Over(s, places) == UNION {Script[s][i].over : i \in places}

\* "Precondition guards" (migrations/README.md): what could stop the script is
\* looked for in a file of its own before it, or, as 0026 does, in the script
\* itself before it changes anything.  Scripts need not be guarded: 0012 sets a
\* NOT NULL without a look at the rows.
GuardedBefore(s) ==
    /\ s - 1 \in Scripts /\ Changes(s - 1) = {} /\ Checks(s) = {}
    /\ Over(s, Changes(s)) \subseteq Over(s - 1, Checks(s - 1))

GuardedWithin(s) ==
    /\ \A i \in Checks(s), j \in Changes(s) : i < j
    /\ Over(s, Changes(s)) \subseteq Over(s, Checks(s))

Guarded(s) == GuardedBefore(s) \/ GuardedWithin(s)

Off == [todo |-> {}, next |-> 0]

On(r) == run[r].next > 0

MigrationInit ==
    /\ applied = {} /\ recorded = {}
    /\ unresolved \in SUBSET Defects
    /\ run = [r \in Runners |-> Off]
    /\ upset = FALSE

\* Mutant of Start: every script is applied on every run.
StartAfresh(r) ==
    /\ ~On(r)
    /\ run' = [run EXCEPT ![r] = [todo |-> Scripts, next |-> 1]]
    /\ upset' = (upset \/ \E q \in Runners : On(q))
    /\ UNCHANGED <<applied, recorded, unresolved>>

\* getAppliedIds: the scripts already recorded are passed over from here on.
Start(r) ==
    /\ ~On(r)
    /\ run' = [run EXCEPT ![r] = [todo |-> Scripts \ recorded, next |-> 1]]
    /\ upset' = (upset \/ \E q \in Runners : On(q))
    /\ UNCHANGED <<applied, recorded, unresolved>>

\* Scripts are taken in the order of their names.
Current(r, s) ==
    /\ On(r) /\ s \in run[r].todo
    /\ \A t \in run[r].todo : s <= t

\* Mutant of Succeeds: the guard's INSERT only warns, as without STRICT mode.
SucceedsLaxly(s, i) ==
    /\ Script[s][i].kind = "once" => <<s, i>> \notin applied
    /\ Script[s][i].kind # "guard" => Script[s][i].over \cap unresolved = {}

Succeeds(s, i) ==
    /\ Script[s][i].kind = "once" => <<s, i>> \notin applied
    /\ Script[s][i].over \cap unresolved = {}

\* One statement of the script takes effect at once and for good.
Execute(r, s) ==
    LET i == run[r].next IN
    /\ Current(r, s) /\ i <= Len(Script[s])
    /\ Succeeds(s, i)
    /\ applied' = applied \cup ({s} \X ({i} \cap Changes(s)))
    /\ run' = [run EXCEPT ![r].next = i + 1]
    /\ UNCHANGED <<recorded, unresolved, upset>>

\* A statement that fails ends the run: the rest of its script is not executed.
Stop(r, s) ==
    LET i == run[r].next IN
    /\ Current(r, s) /\ i <= Len(Script[s])
    /\ ~Succeeds(s, i)
    /\ run' = [run EXCEPT ![r] = Off]
    /\ UNCHANGED <<applied, recorded, unresolved, upset>>

\* Mutant of Record: the script is recorded while its statements run.
RecordEarly(r, s) ==
    /\ Current(r, s)
    /\ s \notin recorded \/ run[r].next > Len(Script[s])
    /\ recorded' = recorded \cup {s}
    /\ run' = IF run[r].next <= Len(Script[s]) THEN run
              ELSE [run EXCEPT ![r] = [todo |-> @.todo \ {s}, next |-> 1]]
    /\ UNCHANGED <<applied, unresolved, upset>>

\* INSERT INTO schema_migrations: a second record of one script is an error.
Record(r, s) ==
    /\ Current(r, s) /\ run[r].next > Len(Script[s])
    /\ recorded' = recorded \cup {s}
    /\ run' = [run EXCEPT ![r] =
            IF s \in recorded THEN Off
                              ELSE [todo |-> @.todo \ {s}, next |-> 1]]
    /\ UNCHANGED <<applied, unresolved, upset>>

Finish(r) ==
    /\ On(r) /\ run[r].todo = {}
    /\ run' = [run EXCEPT ![r] = Off]
    /\ UNCHANGED <<applied, recorded, unresolved, upset>>

\* The process is stopped, or its connection lost.
Crash(r) ==
    /\ On(r)
    /\ run' = [run EXCEPT ![r] = Off]
    /\ upset' = TRUE
    /\ UNCHANGED <<applied, recorded, unresolved>>

\* The data change: rows with a defect are added, or somebody repairs them.
Spoil(d) ==
    /\ d \notin unresolved
    /\ unresolved' = unresolved \cup {d}
    /\ upset' = (upset \/ \E r \in Runners : On(r))
    /\ UNCHANGED <<applied, recorded, run>>

Mend(d) ==
    /\ d \in unresolved
    /\ unresolved' = unresolved \ {d}
    /\ UNCHANGED <<applied, recorded, run, upset>>

MigrationNext ==
    \/ \E r \in Runners :
        \/ Start(r) \/ Finish(r) \/ Crash(r)
        \/ \E s \in Scripts : Execute(r, s) \/ Stop(r, s) \/ Record(r, s)
    \/ \E d \in Defects : Spoil(d) \/ Mend(d)

-----------------------------------------------------------------------------
MigrationTypeOK ==
    /\ applied \subseteq {p \in Scripts \X Nat : p[2] \in DOMAIN Script[p[1]]}
    /\ recorded \subseteq Scripts
    /\ unresolved \subseteq Defects
    /\ run \in [Runners -> [todo : SUBSET Scripts, next : Nat]]
    /\ upset \in BOOLEAN

Done(s) == {i \in Changes(s) : <<s, i>> \in applied}

\* A script is recorded only with every statement of it applied, whatever
\* runners overlapped and wherever one of them died (run.js:82).
RecordedIsWhole == \A s \in recorded : Done(s) = Changes(s)

\* No statement is executed before every earlier script is recorded: a script
\* may rely on those before it, also when two runners race.
OneAfterAnother ==
    [][\A s \in Scripts :
        Done(s)' # Done(s) => \A t \in Scripts : t < s => t \in recorded]_migrationVars

\* What guards are for: where one runner at a time is left to end by itself, over
\* data nobody spoils under it, no guarded script stays half done, whatever the
\* scripts before it stopped over.  Nothing of the kind holds of a script that
\* is not guarded, for which migrations/README.md asks for a backup.
NoneHalfDone ==
    ~upset /\ (\A r \in Runners : ~On(r)) =>
        \A s \in Scripts : Guarded(s) => Done(s) \in {{}, Changes(s)}

\* There, a guarded script ends a run only by one of its guards and before it has
\* changed anything, so that mending the data and running again is all it takes
\* ("fix the data, re-run", migrations/README.md).  Any other script stops over
\* bad data, or over what an earlier run has left of it.
OnlyBadDataStops ==
    [][\A r \in Runners, s \in Scripts :
        Current(r, s) /\ ~On(r)' /\ ~upset' =>
            \E i \in DOMAIN Script[s] :
                /\ i = run[r].next
                /\ \/ Script[s][i].over \cap unresolved # {}
                   \/ <<s, i>> \in applied
                /\ Guarded(s) => Script[s][i].kind = "guard" /\ Done(s) = {}]_migrationVars

=============================================================================
