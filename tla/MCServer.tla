------------------------------ MODULE MCServer ------------------------------
(* Server with two connections and five short scripts.                      *)
EXTENDS Server

CONSTANTS c1, c2, s1, s2, t1, q1, r1, r2, d1, d2, d3, null

MCKindOf ==
    [r \in Requests |-> IF r \in {s1, s2} THEN "confirm"
                        ELSE IF r = t1 THEN "transaction" ELSE "query"]

Again(d) == [kind |-> "again", over |-> d]
Once(d)  == [kind |-> "once",  over |-> d]
Guard(d) == [kind |-> "guard", over |-> d]

\* Like 0011, which creates tables; 0012, unguarded; 0018, the guard of 0019; and 0026, with its own.
MCScript ==
    << <<Once({})>>, <<Once({}), Once({d1})>>,
       <<Guard({d2})>>, <<Once({}), Again({d2}), Once({})>>,
       <<Guard({d3}), Again({d3}), Once({})>> >>

\* A bound: the pool is in use or migrations are run, not both.
MCNext ==
    \/ /\ upset = FALSE /\ \A r \in Runners : ~On(r)
       /\ recorded = {} /\ applied = {} /\ unresolved = {}
       /\ PoolNext /\ UNCHANGED migrationVars
    \/ /\ at = [r \in Requests |-> 1] /\ queue = <<>>
       /\ MigrationNext /\ UNCHANGED poolVars

MCSpec == Init /\ [][MCNext]_vars /\ PoolFairness

=============================================================================
