--------------------------- MODULE ConnectionPool ---------------------------
(* The pool of database connections every handler shares (src/db/pool.js):  *)
(* a request takes a connection for each query, holds one for the length of *)
(* a transaction, and waits, without limit, in the pool's queue when all    *)
(* are in use.  Confirming a submission alone asks for a second connection  *)
(* while it holds its own (submissions.route.js).                           *)
EXTENDS Naturals, Sequences

CONSTANTS
    Connections,    \* connectionLimit of them
    Requests,       \* the handlers that may run at once
    KindOf,         \* what each request does with the pool
    None            \* the owner of a connection that is free

ASSUME PoolAssumption ==
    /\ KindOf \in [Requests -> {"query", "transaction", "confirm"}]
    /\ None \notin Requests

VARIABLES
    owner,          \* who has which connection
    at,             \* the next step of each request; 1 before it has begun
    queue           \* the requests that wait for a connection, oldest first

poolVars == <<owner, at, queue>>

-----------------------------------------------------------------------------
\* Mutant of Steps: every handler reads its row back before it releases.
EagerSteps ==
    [query       |-> <<"get", "put">>,
     transaction |-> <<"get", "put", "get", "get", "put", "put">>,
     confirm     |-> <<"get", "put", "get", "get", "put", "get", "put", "put">>]

\* What a request asks of the pool.  A plain query takes a connection and gives
\* it back; a handler with a transaction queries before it and reads the row
\* back after it has released the connection; the confirmation of a submission
\* reads the row and its files back before.
Steps ==
    [query       |-> <<"get", "put">>,
     transaction |-> <<"get", "put", "get", "put", "get", "put">>,
     confirm     |-> <<"get", "put", "get", "get", "put", "get", "put", "put">>]

StepOf(r) == Steps[KindOf[r]][at[r]]

After(r) == [at EXCEPT ![r] = IF @ = Len(Steps[KindOf[r]]) THEN 1 ELSE @ + 1]

Owned(r) == {c \in Connections : owner[c] = r}

Waits(r) == \E i \in DOMAIN queue : queue[i] = r

PoolInit ==
    /\ owner = [c \in Connections |-> None]
    /\ at = [r \in Requests |-> 1]
    /\ queue = <<>>

\* pool.getConnection and pool.query with a connection free.
Take(r) ==
    /\ StepOf(r) = "get" /\ ~Waits(r)
    /\ \E c \in Connections :
        /\ owner[c] = None
        /\ owner' = [owner EXCEPT ![c] = r]
    /\ at' = After(r)
    /\ UNCHANGED queue

\* With none free: waitForConnections, and a queueLimit of 0 is no limit.
Wait(r) ==
    /\ StepOf(r) = "get" /\ ~Waits(r)
    /\ \A c \in Connections : owner[c] # None
    /\ queue' = Append(queue, r)
    /\ UNCHANGED <<owner, at>>

\* A connection that comes back goes to the oldest request in the queue; then
\* describes where the request that gave it back is left.
Release(c, then) ==
    \/ /\ queue = <<>>
       /\ owner' = [owner EXCEPT ![c] = None]
       /\ at' = then
       /\ UNCHANGED queue
    \/ /\ queue # <<>>
       /\ owner' = [owner EXCEPT ![c] = Head(queue)]
       /\ at' = [then EXCEPT ![Head(queue)] = @ + 1]
       /\ queue' = Tail(queue)

Put(r) ==
    /\ StepOf(r) = "put" /\ ~Waits(r)
    /\ \E c \in Owned(r) : Release(c, After(r))

\* Mutant of Fail: the handler returns early and keeps its connection.
FailKeeping(r) ==
    /\ at[r] > 1 /\ ~Waits(r)
    /\ at' = [at EXCEPT ![r] = 1]
    /\ UNCHANGED <<owner, queue>>

\* An early return or an exception: what the request holds goes back, in its
\* finally block or at the end of the query that failed.
Fail(r) ==
    /\ at[r] > 1 /\ ~Waits(r)
    /\ \/ /\ Owned(r) = {}
          /\ at' = [at EXCEPT ![r] = 1]
          /\ UNCHANGED <<owner, queue>>
       \/ \E c \in Connections :
            Owned(r) = {c} /\ Release(c, [at EXCEPT ![r] = 1])

PoolNext == \E r \in Requests : Take(r) \/ Wait(r) \/ Put(r) \/ Fail(r)

\* A request that has begun takes its steps; nothing makes another one begin.
Proceed(r) == at[r] > 1 /\ (Take(r) \/ Wait(r) \/ Put(r))

PoolFairness == \A r \in Requests : WF_poolVars(Proceed(r))

-----------------------------------------------------------------------------
PoolTypeOK ==
    /\ owner \in [Connections -> Requests \cup {None}]
    /\ at \in [Requests -> 1..8]
    /\ queue \in Seq(Requests)
    /\ \A i, j \in DOMAIN queue : queue[i] = queue[j] => i = j

\* Everybody who has a connection waits for one: nothing will ever move again.
Stuck ==
    /\ queue # <<>>
    /\ \A c \in Connections : owner[c] # None /\ Waits(owner[c])

\* The server seizes up in one way only: as many confirmations of submissions
\* as the pool has connections, each holding one (submissions.route.js:396).
\* With one fewer of them under way, whatever else is, somebody can go on.
StuckOnlyInConfirms ==
    Stuck =>
        /\ \A c \in Connections : KindOf[owner[c]] = "confirm"
        /\ \A c, d \in Connections : owner[c] = owner[d] => c = d

\* No request ends, well or badly, with a connection in its hands: the pool
\* never runs dry for good.
NothingLeaks == \A c \in Connections : owner[c] # None => at[owner[c]] > 1

\* Unless the server seizes up, whoever waits for a connection gets it: the
\* queue is served in order, and holders are not held up by those behind them.
EveryRequestServed ==
    []~Stuck => \A r \in Requests : Waits(r) ~> ~Waits(r)

=============================================================================
