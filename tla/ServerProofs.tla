---------------------------- MODULE ServerProofs ----------------------------
(* Proofs about Server: the pool seizes up in one way only, and what the    *)
(* migration runner records and leaves behind.                              *)
EXTENDS Server, TLAPS

-----------------------------------------------------------------------------
(* The pool.  At every step of its script a request has at most as many     *)
(* connections as the steps before it have taken and not given back.        *)

Kinds == {"query", "transaction", "confirm"}

Holds ==
    [query       |-> <<0, 1>>,
     transaction |-> <<0, 1, 0, 1, 0, 1>>,
     confirm     |-> <<0, 1, 0, 1, 2, 1, 2, 1>>]

\* The place a step leads to.
Succ(k, i) == IF i = Len(Steps[k]) THEN 1 ELSE i + 1

\* At most n of the connections belong to r.
AtMost(n, r) ==
    /\ n = 0 => \A c \in Connections : owner[c] # r
    /\ n = 1 => \A c, d \in Connections : owner[c] = r /\ owner[d] = r => c = d
    /\ n = 2 => \A c, d, e \in Connections :
                    owner[c] = r /\ owner[d] = r /\ owner[e] = r =>
                        c = d \/ c = e \/ d = e

Held(r) == Holds[KindOf[r]][at[r]]

PInv ==
    /\ owner \in [Connections -> Requests \cup {None}]
    /\ at \in [Requests -> Nat]
    /\ \A r \in Requests : at[r] \in 1..Len(Steps[KindOf[r]])
    /\ queue \in Seq(Requests)
    /\ \A i, j \in DOMAIN queue : queue[i] = queue[j] => i = j
    /\ \A i \in DOMAIN queue : StepOf(queue[i]) = "get"
    /\ \A r \in Requests : AtMost(Held(r), r)

\* The scripts of the pool, place by place.
LEMMA ScriptPlaces ==
    ASSUME NEW k \in Kinds, NEW i \in 1..Len(Steps[k])
    PROVE  /\ Len(Steps[k]) \in 1..8
           /\ Succ(k, i) \in 1..Len(Steps[k])
           /\ Holds[k][1] = 0
           /\ Holds[k][i] \in 0..2
           /\ Steps[k][i] = "get" =>
                /\ Succ(k, i) = i + 1
                /\ Holds[k][i] < 2
                /\ Holds[k][i + 1] = Holds[k][i] + 1
                /\ Holds[k][i] # 0 => k = "confirm"
           /\ Steps[k][i] = "put" =>
                /\ Holds[k][i] > 0
                /\ Holds[k][Succ(k, i)] = Holds[k][i] - 1
<1>1. CASE k = "query"
  <2>1. Steps[k] = <<"get", "put">> /\ Holds[k] = <<0, 1>>
    BY <1>1 DEF Steps, Holds
  <2>2. i \in 1..2
    BY <2>1
  <2> QED  BY <2>1, <2>2, <1>1 DEF Succ
<1>2. CASE k = "transaction"
  <2>1. /\ Steps[k] = <<"get", "put", "get", "put", "get", "put">>
        /\ Holds[k] = <<0, 1, 0, 1, 0, 1>>
    BY <1>2 DEF Steps, Holds
  <2>2. i \in 1..6
    BY <2>1
  <2>3. Len(Steps[k]) = 6
    BY <2>1
  <2>4. i = 1 \/ i = 2 \/ i = 3 \/ i = 4 \/ i = 5 \/ i = 6
    BY <2>2
  <2> QED  BY <2>1, <2>3, <2>4, <1>2 DEF Succ
<1>3. CASE k = "confirm"
  <2>1. /\ Steps[k] = <<"get", "put", "get", "get", "put", "get", "put", "put">>
        /\ Holds[k] = <<0, 1, 0, 1, 2, 1, 2, 1>>
    BY <1>3 DEF Steps, Holds
  <2>2. i \in 1..8
    BY <2>1
  <2>3. Len(Steps[k]) = 8
    BY <2>1
  <2>4. \/ i = 1 \/ i = 2 \/ i = 3 \/ i = 4
        \/ i = 5 \/ i = 6 \/ i = 7 \/ i = 8
    BY <2>2
  <2> QED  BY <2>1, <2>3, <2>4, <1>3 DEF Succ
<1> QED  BY <1>1, <1>2, <1>3 DEF Kinds

\* What the script says of a request's next step.
LEMMA StepFacts ==
    ASSUME PInv, NEW r \in Requests
    PROVE  /\ at[r] \in 1..8
           /\ After(r) \in [Requests -> Nat]
           /\ After(r) = [at EXCEPT ![r] = Succ(KindOf[r], at[r])]
           /\ Succ(KindOf[r], at[r]) \in 1..Len(Steps[KindOf[r]])
           /\ 1 \in 1..Len(Steps[KindOf[r]])
           /\ Holds[KindOf[r]][1] = 0
           /\ Held(r) \in 0..2
           /\ StepOf(r) = "get" =>
                /\ Succ(KindOf[r], at[r]) = at[r] + 1
                /\ Held(r) < 2
                /\ Holds[KindOf[r]][at[r] + 1] = Held(r) + 1
                /\ Held(r) # 0 => KindOf[r] = "confirm"
           /\ StepOf(r) = "put" =>
                /\ Held(r) > 0
                /\ Holds[KindOf[r]][Succ(KindOf[r], at[r])] = Held(r) - 1
<1>1. KindOf[r] \in Kinds /\ at[r] \in 1..Len(Steps[KindOf[r]])
  BY PoolAssumption DEF PInv, Kinds
<1>2. /\ Len(Steps[KindOf[r]]) \in 1..8
      /\ Succ(KindOf[r], at[r]) \in 1..Len(Steps[KindOf[r]])
  BY <1>1, ScriptPlaces
<1>3. After(r) = [at EXCEPT ![r] = Succ(KindOf[r], at[r])]
  BY DEF After, Succ, PInv
<1>4. After(r) \in [Requests -> Nat]
  BY <1>2, <1>3 DEF PInv
<1> DEFINE k == KindOf[r]
           i == at[r]
<1>5. /\ Len(Steps[k]) \in 1..8
      /\ Holds[k][1] = 0
      /\ Holds[k][i] \in 0..2
      /\ Steps[k][i] = "get" =>
           /\ Succ(k, i) = i + 1
           /\ Holds[k][i] < 2
           /\ Holds[k][i + 1] = Holds[k][i] + 1
           /\ Holds[k][i] # 0 => k = "confirm"
      /\ Steps[k][i] = "put" =>
           /\ Holds[k][i] > 0
           /\ Holds[k][Succ(k, i)] = Holds[k][i] - 1
  BY <1>1, ScriptPlaces
<1>6. \A n \in 1..8 : \A j \in 1..n : j \in 1..8 /\ 1 \in 1..n
  OBVIOUS
<1>7. at[r] \in 1..8 /\ 1 \in 1..Len(Steps[KindOf[r]])
  BY <1>1, <1>2, <1>6
<1> QED  BY <1>2, <1>3, <1>4, <1>5, <1>7 DEF StepOf, Held

LEMMA PoolInitInv == PoolInit => PInv
<1> SUFFICES ASSUME PoolInit PROVE PInv  OBVIOUS
<1>1. \A r \in Requests : /\ 1 \in 1..Len(Steps[KindOf[r]])
                          /\ Holds[KindOf[r]][1] = 0
  <2> SUFFICES ASSUME NEW r \in Requests
               PROVE  /\ 1 \in 1..Len(Steps[KindOf[r]])
                      /\ Holds[KindOf[r]][1] = 0
    OBVIOUS
  <2>1. KindOf[r] \in Kinds
    BY PoolAssumption DEF Kinds
  <2>2. 1 \in 1..Len(Steps[KindOf[r]])
    <3>1. CASE KindOf[r] = "query"
      BY <3>1 DEF Steps
    <3>2. CASE KindOf[r] = "transaction"
      BY <3>2 DEF Steps
    <3>3. CASE KindOf[r] = "confirm"
      BY <3>3 DEF Steps
    <3> QED  BY <2>1, <3>1, <3>2, <3>3 DEF Kinds
  <2> QED  BY <2>1, <2>2, ScriptPlaces
<1> QED  BY <1>1, PoolAssumption DEF PoolInit, PInv, AtMost, Held

LEMMA TakeInv ==
    ASSUME PInv, NEW r \in Requests, Take(r)
    PROVE  PInv'
<1> PICK c \in Connections : owner[c] = None /\ owner' = [owner EXCEPT ![c] = r]
  BY DEF Take
<1>1. /\ StepOf(r) = "get" /\ ~Waits(r) /\ queue' = queue
      /\ at' = [at EXCEPT ![r] = at[r] + 1]
  BY StepFacts DEF Take
<1>2. AtMost(Held(r), r)'
  <2>1. AtMost(Held(r), r)
    BY DEF PInv
  <2>2. Held(r)' = Held(r) + 1 /\ Held(r) \in 0..1
    BY <1>1, StepFacts DEF Held, PInv
  <2> QED  BY <2>1, <2>2, PoolAssumption DEF AtMost, PInv
<1>3. ASSUME NEW q \in Requests, q # r
      PROVE  AtMost(Held(q), q)'
  <2>1. AtMost(Held(q), q)
    BY DEF PInv
  <2>2. Held(q)' = Held(q)
    BY <1>1, <1>3 DEF Held, PInv
  <2> QED  BY <2>1, <2>2, <1>3 DEF AtMost, PInv
<1>4. (\A i \in DOMAIN queue : StepOf(queue[i]) = "get")'
  <2> SUFFICES ASSUME NEW i \in DOMAIN queue
               PROVE  Steps[KindOf[queue[i]]][at'[queue[i]]] = "get"
    BY <1>1 DEF StepOf
  <2>1. queue[i] \in Requests /\ queue[i] # r
    BY <1>1 DEF Waits, PInv
  <2>2. StepOf(queue[i]) = "get"
    BY DEF PInv
  <2> QED  BY <2>1, <2>2, <1>1 DEF StepOf, PInv
<1>5. \A q \in Requests : at'[q] \in 1..Len(Steps[KindOf[q]])
  BY <1>1, StepFacts DEF PInv
<1>6. owner' \in [Connections -> Requests \cup {None}] /\ at' \in [Requests -> Nat]
  BY <1>1, StepFacts DEF PInv, Take
<1> QED  BY <1>1, <1>2, <1>3, <1>4, <1>5, <1>6 DEF PInv

LEMMA WaitInv ==
    ASSUME PInv, NEW r \in Requests, Wait(r)
    PROVE  PInv'
<1>1. /\ StepOf(r) = "get" /\ ~Waits(r) /\ queue' = Append(queue, r)
      /\ owner' = owner /\ at' = at
  BY DEF Wait
<1>2. /\ queue' \in Seq(Requests)
      /\ DOMAIN queue' = 1..(Len(queue) + 1)
      /\ \A i \in DOMAIN queue : queue'[i] = queue[i]
      /\ queue'[Len(queue) + 1] = r
      /\ DOMAIN queue = 1..Len(queue) /\ Len(queue) \in Nat
  BY <1>1 DEF PInv
<1>3. \A i, j \in DOMAIN queue' : queue'[i] = queue'[j] => i = j
  BY <1>1, <1>2 DEF Waits, PInv
<1>4. (\A i \in DOMAIN queue : StepOf(queue[i]) = "get")'
  BY <1>1, <1>2 DEF StepOf, PInv
<1>5. \A q \in Requests : AtMost(Held(q), q)'
  BY <1>1 DEF PInv, AtMost, Held
<1> QED  BY <1>1, <1>2, <1>3, <1>4, <1>5 DEF PInv

\* A connection comes back from r, which goes on at place p.
LEMMA ReleaseInv ==
    ASSUME PInv, NEW r \in Requests, ~Waits(r),
           NEW c \in Connections, owner[c] = r,
           NEW p \in 1..Len(Steps[KindOf[r]]), p \in Nat,
           NEW then, then = [at EXCEPT ![r] = p],
           Held(r) \in {1, 2},
           \/ Holds[KindOf[r]][p] = Held(r) - 1
           \/ Holds[KindOf[r]][p] = 0 /\ Owned(r) = {c},
           Release(c, then)
    PROVE  PInv'
<1>1. then \in [Requests -> Nat] /\ then[r] = p
  BY DEF PInv
<1>2. \A q \in Requests : q # r => then[q] = at[q]
  BY DEF PInv
<1>3. r # None
  BY PoolAssumption
<1>4. CASE queue = <<>>
  <2>1. /\ owner' = [owner EXCEPT ![c] = None]
        /\ at' = then /\ queue' = queue
    BY <1>4 DEF Release
  <2>2. AtMost(Held(r), r)'
    <3>1. AtMost(Held(r), r)
      BY DEF PInv
    <3>2. Held(r)' = Holds[KindOf[r]][p]
      BY <2>1, <1>1 DEF Held
    <3> QED  BY <3>1, <3>2, <2>1, <1>3 DEF AtMost, PInv, Owned
  <2>3. ASSUME NEW q \in Requests, q # r
        PROVE  AtMost(Held(q), q)'
    <3>1. AtMost(Held(q), q)
      BY DEF PInv
    <3>2. Held(q)' = Held(q)
      BY <2>1, <1>2, <2>3 DEF Held
    <3> QED  BY <3>1, <3>2, <2>1, <2>3, PoolAssumption DEF AtMost, PInv
  <2>4. \A q \in Requests : at'[q] \in 1..Len(Steps[KindOf[q]])
    BY <2>1, <1>1, <1>2 DEF PInv
  <2>5. (\A i \in DOMAIN queue : StepOf(queue[i]) = "get")'
    BY <2>1, <1>4
  <2> QED  BY <2>1, <2>2, <2>3, <2>4, <2>5, <1>1 DEF PInv
<1>5. CASE queue # <<>>
  <2> PICK h \in Requests : h = Head(queue)
    BY <1>5 DEF PInv
  <2>1. /\ owner' = [owner EXCEPT ![c] = h]
        /\ at' = [then EXCEPT ![h] = @ + 1]
        /\ queue' = Tail(queue)
    BY <1>5 DEF Release
  <2>2. /\ h = queue[1] /\ 1 \in DOMAIN queue /\ h \in Requests
        /\ queue' \in Seq(Requests)
        /\ DOMAIN queue' = 1..(Len(queue) - 1)
        /\ \A i \in DOMAIN queue' : i + 1 \in DOMAIN queue /\ queue'[i] = queue[i + 1]
    BY <2>1, <1>5 DEF PInv
  <2>3. h # r /\ StepOf(h) = "get"
    BY <2>2 DEF Waits, PInv
  <2>4. /\ at'[h] = at[h] + 1 /\ at'[r] = p /\ at' \in [Requests -> Nat]
        /\ \A q \in Requests : q # r /\ q # h => at'[q] = at[q]
    BY <2>1, <2>2, <2>3, <1>1, <1>2 DEF PInv
  <2>5. AtMost(Held(r), r)'
    <3>1. AtMost(Held(r), r)
      BY DEF PInv
    <3>2. Held(r)' = Holds[KindOf[r]][p]
      BY <2>4 DEF Held
    <3> QED  BY <3>1, <3>2, <2>1, <2>2, <2>3 DEF AtMost, PInv, Owned
  <2>6. AtMost(Held(h), h)'
    <3>1. AtMost(Held(h), h)
      BY <2>2 DEF PInv
    <3>2. Held(h)' = Held(h) + 1 /\ Held(h) \in 0..1
      BY <2>2, <2>3, <2>4, StepFacts DEF Held
    <3> QED  BY <3>1, <3>2, <2>1, <2>2, <2>3 DEF AtMost, PInv
  <2>7. ASSUME NEW q \in Requests, q # r, q # h
        PROVE  AtMost(Held(q), q)'
    <3>1. AtMost(Held(q), q)
      BY DEF PInv
    <3>2. Held(q)' = Held(q)
      BY <2>4, <2>7 DEF Held
    <3> QED  BY <3>1, <3>2, <2>1, <2>2, <2>7 DEF AtMost, PInv
  <2>8. ASSUME NEW q \in Requests
        PROVE  at'[q] \in 1..Len(Steps[KindOf[q]])
    <3>1. CASE q = r
      BY <3>1, <2>4
    <3>2. CASE q = h
      <4>1. at[h] + 1 \in 1..Len(Steps[KindOf[h]])
        BY <2>3, StepFacts
      <4> QED  BY <3>2, <4>1, <2>4
    <3>3. CASE q # r /\ q # h
      BY <3>3, <2>4 DEF PInv
    <3> QED  BY <3>1, <3>2, <3>3
  <2>9. \A i, j \in DOMAIN queue' : queue'[i] = queue'[j] => i = j
    BY <2>2 DEF PInv
  <2>10. (\A i \in DOMAIN queue : StepOf(queue[i]) = "get")'
    <3> SUFFICES ASSUME NEW i \in DOMAIN queue'
                 PROVE  Steps[KindOf[queue[i + 1]]][at'[queue[i + 1]]] = "get"
      BY <2>2 DEF StepOf
    <3>1. /\ i + 1 \in DOMAIN queue /\ i + 1 # 1
          /\ queue[i + 1] \in Requests /\ StepOf(queue[i + 1]) = "get"
      BY <2>2 DEF PInv
    <3>2. queue[i + 1] # r /\ queue[i + 1] # h
      BY <3>1, <2>2 DEF Waits, PInv
    <3> QED  BY <3>1, <3>2, <2>4 DEF StepOf
  <2>11. owner' \in [Connections -> Requests \cup {None}]
    BY <2>1, <2>2 DEF PInv
  <2> QED
    BY <2>2, <2>4, <2>5, <2>6, <2>7, <2>8, <2>9, <2>10, <2>11 DEF PInv
<1> QED  BY <1>4, <1>5

LEMMA PutInv ==
    ASSUME PInv, NEW r \in Requests, Put(r)
    PROVE  PInv'
<1> PICK c \in Connections : owner[c] = r /\ Release(c, After(r))
  BY DEF Put, Owned
<1>1. StepOf(r) = "put" /\ ~Waits(r)
  BY DEF Put
<1> DEFINE p == Succ(KindOf[r], at[r])
<1>2. /\ p \in 1..Len(Steps[KindOf[r]]) /\ p \in Nat
      /\ After(r) = [at EXCEPT ![r] = p]
      /\ Held(r) \in {1, 2}
      /\ Holds[KindOf[r]][p] = Held(r) - 1
  BY <1>1, StepFacts
<1> HIDE DEF p
<1> QED  BY <1>1, <1>2, ReleaseInv

LEMMA FailInv ==
    ASSUME PInv, NEW r \in Requests, Fail(r)
    PROVE  PInv'
<1>1. /\ ~Waits(r)
      /\ 1 \in 1..Len(Steps[KindOf[r]]) /\ Holds[KindOf[r]][1] = 0
      /\ Held(r) \in 0..2
  BY StepFacts DEF Fail
<1>2. ASSUME Owned(r) = {}, at' = [at EXCEPT ![r] = 1], owner' = owner,
             queue' = queue
      PROVE  PInv'
  <2>1. /\ at'[r] = 1 /\ at' \in [Requests -> Nat]
        /\ \A q \in Requests : q # r => at'[q] = at[q]
    BY <1>2 DEF PInv
  <2>2. AtMost(Held(r), r)'
    <3>1. Held(r)' = 0
      BY <2>1, <1>1 DEF Held
    <3> QED  BY <3>1, <1>2 DEF AtMost, Owned
  <2>3. ASSUME NEW q \in Requests, q # r
        PROVE  AtMost(Held(q), q)'
    <3>1. AtMost(Held(q), q)
      BY DEF PInv
    <3> QED  BY <3>1, <2>1, <2>3, <1>2 DEF AtMost, Held
  <2>4. (\A i \in DOMAIN queue : StepOf(queue[i]) = "get")'
    <3> SUFFICES ASSUME NEW i \in DOMAIN queue
                 PROVE  Steps[KindOf[queue[i]]][at'[queue[i]]] = "get"
      BY <1>2 DEF StepOf
    <3>1. queue[i] \in Requests /\ queue[i] # r /\ StepOf(queue[i]) = "get"
      BY <1>1 DEF Waits, PInv
    <3> QED  BY <3>1, <2>1 DEF StepOf
  <2> QED  BY <2>1, <2>2, <2>3, <2>4, <1>1, <1>2 DEF PInv
<1>3. ASSUME NEW c \in Connections, Owned(r) = {c},
             Release(c, [at EXCEPT ![r] = 1])
      PROVE  PInv'
  <2>1. owner[c] = r
    BY <1>3 DEF Owned
  <2>2. Held(r) \in {1, 2}
    BY <2>1, <1>1 DEF PInv, AtMost
  <2> QED  BY <1>1, <1>3, <2>1, <2>2, ReleaseInv
<1> QED  BY <1>2, <1>3 DEF Fail

LEMMA PoolStepInv == PInv /\ (PoolNext \/ UNCHANGED poolVars) => PInv'
<1> SUFFICES ASSUME PInv, PoolNext \/ UNCHANGED poolVars PROVE PInv'
  OBVIOUS
<1>1. CASE UNCHANGED poolVars
  BY <1>1 DEF poolVars, PInv, StepOf, AtMost, Held
<1>2. ASSUME NEW r \in Requests, Take(r) \/ Wait(r) \/ Put(r) \/ Fail(r)
      PROVE  PInv'
  BY <1>2, TakeInv, WaitInv, PutInv, FailInv
<1> QED  BY <1>1, <1>2 DEF PoolNext

LEMMA PoolSafety == PInv => PoolTypeOK /\ StuckOnlyInConfirms /\ NothingLeaks
<1> SUFFICES ASSUME PInv PROVE PoolTypeOK /\ StuckOnlyInConfirms /\ NothingLeaks
  OBVIOUS
<1>1. PoolTypeOK
  <2>1. \A r \in Requests : at[r] \in 1..8
    BY StepFacts
  <2> QED  BY <2>1 DEF PInv, PoolTypeOK
<1>2. NothingLeaks
  <2> SUFFICES ASSUME NEW c \in Connections, owner[c] # None
               PROVE  at[owner[c]] > 1
    BY DEF NothingLeaks
  <2> PICK r \in Requests : r = owner[c]
    BY DEF PInv
  <2>1. Held(r) # 0
    BY DEF AtMost, PInv
  <2>2. at[r] \in 1..8 /\ at[r] # 1
    BY <2>1, StepFacts DEF Held
  <2> QED  BY <2>2
<1>3. StuckOnlyInConfirms
  <2> SUFFICES ASSUME Stuck
               PROVE  /\ \A c \in Connections : KindOf[owner[c]] = "confirm"
                      /\ \A c, d \in Connections : owner[c] = owner[d] => c = d
    BY DEF StuckOnlyInConfirms
  <2>1. ASSUME NEW c \in Connections
        PROVE  /\ owner[c] \in Requests /\ KindOf[owner[c]] = "confirm"
               /\ Held(owner[c]) = 1
    <3>1. owner[c] \in Requests /\ Waits(owner[c])
      BY <2>1 DEF Stuck, PInv
    <3>2. StepOf(owner[c]) = "get" /\ AtMost(Held(owner[c]), owner[c])
      BY <3>1 DEF Waits, PInv
    <3>3. Held(owner[c]) # 0
      BY <3>2 DEF AtMost
    <3> QED  BY <3>1, <3>2, <3>3, StepFacts
  <2>2. ASSUME NEW c \in Connections, NEW d \in Connections, owner[c] = owner[d]
        PROVE  c = d
    BY <2>1, <2>2 DEF PInv, AtMost
  <2> QED  BY <2>1, <2>2
<1> QED  BY <1>1, <1>2, <1>3

-----------------------------------------------------------------------------
(* The migrations.  A runner has executed every statement before its next   *)
(* one, and has left only recorded scripts behind.  Unless something upset  *)
(* it, no other runner is on, what is applied of a guarded script that is   *)
(* not recorded is what this one has done of it, and what a guard has       *)
(* passed stays resolved until the script it is for is recorded.            *)

\* The script would fail but for the guards of the one before it.
Relies(s) == s \in Scripts /\ GuardedBefore(s) /\ ~GuardedWithin(s)

InOrder ==
    /\ \A s \in recorded, t \in Scripts : t < s => t \in recorded
    /\ \A r \in Runners : On(r) => Scripts \ run[r].todo \subseteq recorded

Whole ==
    /\ RecordedIsWhole
    /\ \A r \in Runners, s \in Scripts : Current(r, s) =>
        /\ run[r].next \in 1..(Len(Script[s]) + 1)
        /\ \A i \in Changes(s) : i < run[r].next => <<s, i>> \in applied

Calm ==
    /\ \A r, q \in Runners : On(r) /\ On(q) => r = q
    /\ \A r \in Runners : On(r) => run[r].todo = Scripts \ recorded
    /\ \A s \in Scripts \ recorded : Guarded(s) =>
        \A i \in Changes(s) : <<s, i>> \in applied =>
            \E r \in Runners : Current(r, s) /\ i < run[r].next
    /\ \A s \in Scripts \ recorded : Relies(s) /\ s - 1 \in recorded =>
        /\ Over(s - 1, Checks(s - 1)) \cap unresolved = {}
        /\ \E r \in Runners : On(r)
    /\ \A r \in Runners, s \in Scripts : Current(r, s) =>
        \A i \in Checks(s) : i < run[r].next => Script[s][i].over \cap unresolved = {}

MInv ==
    /\ MigrationTypeOK /\ InOrder /\ Whole
    /\ ~upset => Calm

\* What the scripts are made of.
LEMMA ScriptFacts ==
    ASSUME NEW s \in Scripts
    PROVE  /\ s \in Nat
           /\ Len(Script[s]) \in Nat /\ Len(Script[s]) > 0
           /\ DOMAIN Script[s] = 1..Len(Script[s])
           /\ \A i \in 1..Len(Script[s]) :
                /\ Script[s][i].kind \in {"once", "again", "guard"}
                /\ Script[s][i].over \subseteq Defects
           /\ Changes(s) \subseteq 1..Len(Script[s])
           /\ Checks(s) \subseteq 1..Len(Script[s])
           /\ \A i \in 1..Len(Script[s]) : i \in Checks(s) <=> Script[s][i].kind = "guard"
           /\ \A i \in 1..Len(Script[s]) : i \in Checks(s) \/ i \in Changes(s)
<1> DEFINE Statement == [kind : {"once", "again", "guard"}, over : SUBSET Defects]
<1>1. Script \in Seq(Seq(Statement))
  BY ScriptAssumption
<1> HIDE DEF Statement
<1>2. /\ s \in 1..Len(Script) /\ Len(Script) \in Nat
      /\ Script[s] \in Seq(Statement)
  BY <1>1 DEF Scripts
<1>3. /\ Len(Script[s]) \in Nat /\ DOMAIN Script[s] = 1..Len(Script[s])
      /\ \A i \in 1..Len(Script[s]) : Script[s][i] \in Statement
  BY <1>2
<1>4. Len(Script[s]) > 0
  BY ScriptAssumption DEF Scripts
<1> QED  BY <1>2, <1>3, <1>4 DEF Statement, Changes, Checks

LEMMA OneCurrent ==
    ASSUME NEW r \in Runners, NEW s \in Scripts, NEW t \in Scripts,
           Current(r, s), Current(r, t)
    PROVE  s = t
BY ScriptFacts DEF Current

LEMMA MigrationInitInv == MigrationInit => MInv
<1> SUFFICES ASSUME MigrationInit PROVE MInv  OBVIOUS
<1>1. /\ applied = {} /\ recorded = {} /\ unresolved \subseteq Defects
      /\ upset = FALSE /\ run = [r \in Runners |-> Off]
  BY DEF MigrationInit
<1>2. \A r \in Runners : ~On(r)
  BY <1>1 DEF On, Off
<1>3. MigrationTypeOK
  BY <1>1 DEF MigrationTypeOK, Off
<1>4. InOrder /\ Whole /\ Calm
  BY <1>1, <1>2 DEF InOrder, Whole, RecordedIsWhole, Current, Calm
<1> QED  BY <1>3, <1>4 DEF MInv

LEMMA StartInv ==
    ASSUME MInv, NEW r \in Runners, Start(r)
    PROVE  MInv'
<1>1. /\ ~On(r) /\ applied' = applied /\ recorded' = recorded
      /\ unresolved' = unresolved
      /\ run' = [run EXCEPT ![r] = [todo |-> Scripts \ recorded, next |-> 1]]
      /\ upset' = (upset \/ \E q \in Runners : On(q))
  BY DEF Start
<1>2. /\ run' \in [Runners -> [todo : SUBSET Scripts, next : Nat]]
      /\ run'[r] = [todo |-> Scripts \ recorded, next |-> 1]
      /\ \A q \in Runners : q # r => run'[q] = run[q]
  BY <1>1 DEF MInv, MigrationTypeOK
<1>3. MigrationTypeOK'
  BY <1>1, <1>2 DEF MInv, MigrationTypeOK
<1>4. InOrder'
  BY <1>1, <1>2 DEF MInv, InOrder, On
<1>5. Whole'
  <2>1. RecordedIsWhole'
    BY <1>1 DEF MInv, Whole, RecordedIsWhole, Done
  <2>2. ASSUME NEW q \in Runners, NEW s \in Scripts, Current(q, s)'
        PROVE  /\ run'[q].next \in 1..(Len(Script[s]) + 1)
               /\ \A i \in Changes(s) : i < run'[q].next => <<s, i>> \in applied'
    <3>1. CASE q = r
      <4>1. run'[q].next = 1
        BY <1>2, <3>1
      <4>2. \A i \in Changes(s) : i \in Nat /\ ~(i < 1)
        BY ScriptFacts DEF Changes
      <4> QED  BY <4>1, <4>2, ScriptFacts
    <3>2. CASE q # r
      <4>1. Current(q, s)
        BY <1>2, <2>2, <3>2 DEF Current, On
      <4> QED  BY <4>1, <1>1, <1>2, <3>2 DEF MInv, Whole
    <3> QED  BY <3>1, <3>2
  <2> QED  BY <2>1, <2>2 DEF Whole
<1>6. ASSUME ~upset' PROVE Calm'
  <2>1. Calm /\ \A q \in Runners : ~On(q)
    BY <1>1, <1>6 DEF MInv
  <2>2. \A q \in Runners : On(q)' => q = r
    BY <1>2, <2>1 DEF On
  <2>3. \A q \in Runners, s \in Scripts : Current(q, s)' =>
            \A i \in Checks(s) : ~(i < run'[q].next)
    BY <1>2, <2>2, ScriptFacts DEF Current
  <2> QED  BY <1>1, <1>2, <2>1, <2>2, <2>3 DEF Calm, Current, On
<1> QED  BY <1>3, <1>4, <1>5, <1>6 DEF MInv

LEMMA ExecuteInv ==
    ASSUME MInv, NEW r \in Runners, NEW s \in Scripts, Execute(r, s)
    PROVE  MInv'
<1> DEFINE i == run[r].next
<1>1. /\ Current(r, s) /\ i <= Len(Script[s]) /\ Succeeds(s, i)
      /\ applied' = applied \cup ({s} \X ({i} \cap Changes(s)))
      /\ run' = [run EXCEPT ![r].next = i + 1]
      /\ recorded' = recorded /\ unresolved' = unresolved /\ upset' = upset
  BY DEF Execute
<1>2. /\ i \in 1..Len(Script[s])
      /\ run' \in [Runners -> [todo : SUBSET Scripts, next : Nat]]
      /\ run'[r].todo = run[r].todo /\ run'[r].next = i + 1
      /\ \A q \in Runners : q # r => run'[q] = run[q]
  <2>1. run \in [Runners -> [todo : SUBSET Scripts, next : Nat]]
    BY DEF MInv, MigrationTypeOK
  <2>2. i \in 1..(Len(Script[s]) + 1) /\ Len(Script[s]) \in Nat
    BY <1>1, ScriptFacts DEF MInv, Whole
  <2>3. i \in 1..Len(Script[s]) /\ i \in Nat
    BY <1>1, <2>2
  <2> QED  BY <1>1, <2>1, <2>3
<1>3. \A q \in Runners : On(q)' <=> On(q)
  BY <1>1, <1>2 DEF On, Current
<1>4. \A q \in Runners, t \in Scripts : Current(q, t)' <=> Current(q, t)
  BY <1>2, <1>3 DEF Current
<1>5. \A t \in Scripts, j \in Nat : <<t, j>> \in applied' <=>
        <<t, j>> \in applied \/ (t = s /\ j = i /\ i \in Changes(s))
  BY <1>1
<1>6. \A t \in Scripts : Changes(t) \subseteq Nat
  BY ScriptFacts DEF Changes
<1>7. MigrationTypeOK'
  BY <1>1, <1>2, ScriptFacts DEF MInv, MigrationTypeOK
<1>8. InOrder'
  BY <1>1, <1>2, <1>3 DEF MInv, InOrder
<1>9. Whole'
  <2>1. RecordedIsWhole'
    BY <1>1, <1>5, <1>6 DEF MInv, Whole, RecordedIsWhole, Done, MigrationTypeOK
  <2>2. ASSUME NEW q \in Runners, NEW t \in Scripts, Current(q, t)'
        PROVE  /\ run'[q].next \in 1..(Len(Script[t]) + 1)
               /\ \A j \in Changes(t) : j < run'[q].next => <<t, j>> \in applied'
    <3>1. Current(q, t)
      BY <1>4, <2>2
    <3>2. CASE q = r
      <4>1. t = s
        BY <1>1, <3>1, <3>2, OneCurrent
      <4>2. \A j \in Changes(s) : j < i => <<s, j>> \in applied
        BY <1>1 DEF MInv, Whole
      <4>3. \A j \in Changes(s) : j < i + 1 => j < i \/ j = i
        BY <1>2, <1>6
      <4> QED  BY <1>2, <1>5, <1>6, <3>2, <4>1, <4>2, <4>3, ScriptFacts
    <3>3. CASE q # r
      BY <1>2, <1>5, <1>6, <3>1, <3>3 DEF MInv, Whole
    <3> QED  BY <3>2, <3>3
  <2> QED  BY <2>1, <2>2 DEF Whole
<1>10. ASSUME ~upset' PROVE Calm'
  <2>1. Calm
    BY <1>1, <1>10 DEF MInv
  <2>2. /\ \A q, p \in Runners : On(q)' /\ On(p)' => q = p
        /\ \A q \in Runners : On(q)' => run'[q].todo = Scripts \ recorded'
    BY <1>1, <1>2, <1>3, <2>1 DEF Calm
  <2>3. ASSUME NEW t \in Scripts \ recorded', Guarded(t), NEW j \in Changes(t),
               <<t, j>> \in applied'
        PROVE  \E q \in Runners : Current(q, t)' /\ j < run'[q].next
    <3>1. CASE <<t, j>> \in applied
      <4>1. PICK q \in Runners : Current(q, t) /\ j < run[q].next
        BY <1>1, <2>1, <2>3, <3>1 DEF Calm
      <4>2. j < run'[q].next
        BY <1>2, <1>6, <4>1
      <4> QED  BY <1>4, <4>1, <4>2
    <3>2. CASE t = s /\ j = i
      BY <1>1, <1>2, <1>4, <3>2
    <3> QED  BY <1>5, <1>6, <2>3, <3>1, <3>2
  <2>4. \A t \in Scripts \ recorded' : Relies(t) /\ t - 1 \in recorded' =>
            /\ Over(t - 1, Checks(t - 1)) \cap unresolved' = {}
            /\ \E q \in Runners : On(q)'
    BY <1>1, <1>3, <2>1 DEF Calm
  <2>5. ASSUME NEW q \in Runners, NEW t \in Scripts, Current(q, t)',
               NEW j \in Checks(t), j < run'[q].next
        PROVE  Script[t][j].over \cap unresolved' = {}
    <3>1. Current(q, t)
      BY <1>4, <2>5
    <3>2. CASE q = r
      <4>1. t = s
        BY <1>1, <3>1, <3>2, OneCurrent
      <4>2. j < i \/ j = i
        BY <1>2, <2>5, <3>2, ScriptFacts
      <4> QED  BY <1>1, <2>1, <2>5, <4>1, <4>2 DEF Calm, Succeeds
    <3>3. CASE q # r
      BY <1>1, <1>2, <2>1, <2>5, <3>1, <3>3 DEF Calm
    <3> QED  BY <3>2, <3>3
  <2> QED  BY <2>2, <2>3, <2>4, <2>5 DEF Calm
<1> QED  BY <1>7, <1>8, <1>9, <1>10 DEF MInv

\* A run that is calm stops in a guarded script at a guard of its own, with
\* nothing of it to undo.
LEMMA StopsAtGuard ==
    ASSUME MInv, ~upset, NEW r \in Runners, NEW s \in Scripts, Stop(r, s), Guarded(s)
    PROVE  Script[s][run[r].next].kind = "guard" /\ Done(s) = {} /\ ~Relies(s)
<1> DEFINE i == run[r].next
<1>1. /\ Calm /\ Current(r, s) /\ i \in 1..Len(Script[s]) /\ ~Succeeds(s, i)
  BY ScriptFacts DEF Stop, MInv, Whole, MigrationTypeOK
<1>2. s \notin recorded /\ \A t \in Scripts : t < s => t \in recorded
  BY <1>1, ScriptFacts DEF Calm, Current
<1>3. \A j \in Changes(s) : <<s, j>> \in applied => j < i
  <2> SUFFICES ASSUME NEW j \in Changes(s), <<s, j>> \in applied PROVE j < i
    OBVIOUS
  <2>1. PICK q \in Runners : Current(q, s) /\ j < run[q].next
    BY <1>1, <1>2 DEF Calm
  <2>2. q = r
    BY <1>1, <2>1 DEF Calm, Current
  <2> QED  BY <2>1, <2>2
<1>4. Script[s][i].over \cap unresolved # {}
  <2> SUFFICES ASSUME Script[s][i].over \cap unresolved = {} PROVE FALSE
    OBVIOUS
  <2>1. Script[s][i].kind = "once" /\ <<s, i>> \in applied
    BY <1>1 DEF Succeeds
  <2>2. i \in Changes(s)
    BY <1>1, <2>1, ScriptFacts DEF Changes
  <2> QED  BY <1>1, <1>3, <2>1, <2>2
<1>5. CASE i \in Changes(s)
  <2>1. PICK d : d \in Script[s][i].over /\ d \in unresolved
    BY <1>4
  <2>2. d \in Over(s, Changes(s))
    BY <1>5, <2>1 DEF Over
  <2>3. CASE GuardedWithin(s)
    <3>1. PICK j \in Checks(s) : d \in Script[s][j].over
      BY <2>2, <2>3 DEF GuardedWithin, Over
    <3>2. j < i
      BY <1>5, <2>3 DEF GuardedWithin
    <3> QED  BY <1>1, <2>1, <3>1, <3>2 DEF Calm
  <2>4. CASE ~GuardedWithin(s)
    <3>1. GuardedBefore(s) /\ Relies(s)
      BY <2>4 DEF Guarded, Relies
    <3>2. d \in Over(s - 1, Checks(s - 1)) /\ s - 1 \in Scripts
      BY <2>2, <3>1 DEF GuardedBefore
    <3>3. s - 1 \in recorded
      BY <1>2, <3>2, ScriptFacts
    <3> QED  BY <1>1, <1>2, <2>1, <3>1, <3>2, <3>3 DEF Calm
  <2> QED  BY <2>3, <2>4
<1>6. CASE i \in Checks(s)
  <2>1. Checks(s) # {}
    BY <1>6
  <2>2. GuardedWithin(s)
    BY <2>1 DEF Guarded, GuardedBefore
  <2>3. Done(s) = {}
    <3>1. \A j \in Changes(s) : i < j /\ j \in Nat
      BY <1>6, <2>2, ScriptFacts DEF GuardedWithin
    <3> QED  BY <1>1, <1>3, <3>1 DEF Done
  <2>4. Script[s][i].kind = "guard"
    BY <1>1, <1>6, ScriptFacts
  <2> QED  BY <2>2, <2>3, <2>4 DEF Relies
<1> QED  BY <1>1, <1>5, <1>6, ScriptFacts

\* The end of a run, however it comes.
LEMMA OffInv ==
    ASSUME MInv, NEW r \in Runners, On(r),
           run' = [run EXCEPT ![r] = Off],
           applied' = applied, recorded' = recorded, unresolved' = unresolved,
           \/ upset'
           \/ /\ upset' = upset
              /\ \E s \in Scripts :
                    Current(r, s) /\ (Guarded(s) => Done(s) = {} /\ ~Relies(s))
           \/ upset' = upset /\ run[r].todo = {},
           upset' \in BOOLEAN
    PROVE  MInv'
<1>1. /\ run' \in [Runners -> [todo : SUBSET Scripts, next : Nat]]
      /\ run'[r] = Off /\ \A q \in Runners : q # r => run'[q] = run[q]
  BY DEF MInv, MigrationTypeOK, Off
<1>2. /\ ~On(r)' /\ \A s \in Scripts : ~Current(r, s)'
      /\ \A q \in Runners : q # r =>
            (On(q)' <=> On(q)) /\ \A s \in Scripts : Current(q, s)' <=> Current(q, s)
  BY <1>1 DEF On, Off, Current
<1>3. MigrationTypeOK'
  BY <1>1 DEF MInv, MigrationTypeOK
<1>4. InOrder'
  BY <1>1, <1>2 DEF MInv, InOrder
<1>5. Whole'
  BY <1>1, <1>2 DEF MInv, Whole, RecordedIsWhole, Done
<1>6. ASSUME ~upset' PROVE Calm'
  <2>1. Calm
    BY <1>6 DEF MInv
  <2>2. \A q \in Runners : ~On(q)'
    BY <1>2, <2>1 DEF Calm
  <2>3. ASSUME NEW s \in Scripts \ recorded, Guarded(s), NEW i \in Changes(s),
               <<s, i>> \in applied
        PROVE  FALSE
    <3>1. PICK q \in Runners : Current(q, s)
      BY <2>1, <2>3 DEF Calm
    <3>2. q = r
      BY <2>1, <3>1 DEF Calm, Current
    <3>3. run[r].todo # {}
      BY <3>1, <3>2 DEF Current
    <3>4. PICK t \in Scripts : Current(r, t) /\ (Guarded(t) => Done(t) = {})
      BY <1>6, <3>3
    <3>5. t = s
      BY <3>1, <3>2, <3>4, OneCurrent
    <3> QED  BY <2>3, <3>4, <3>5 DEF Done
  <2>4. ASSUME NEW s \in Scripts \ recorded, Relies(s), s - 1 \in recorded
        PROVE  FALSE
    <3>1. PICK q \in Runners : On(q)
      BY <2>1, <2>4 DEF Calm
    <3>2. q = r /\ s \in run[r].todo
      BY <2>1, <2>4, <3>1 DEF Calm
    <3>3. PICK t \in Scripts : Current(r, t) /\ (Guarded(t) => ~Relies(t))
      BY <1>6, <3>2
    <3>4. t <= s /\ t \notin recorded
      BY <2>1, <3>2, <3>3 DEF Calm, Current
    <3>5. t = s
      <4>1. s - 1 \in Scripts
        BY <2>4 DEF Relies, GuardedBefore
      <4>2. ~(t < s - 1) /\ t # s - 1
        BY <2>4, <3>4 DEF MInv, InOrder
      <4> QED  BY <3>4, <4>1, <4>2, ScriptFacts
    <3> QED  BY <2>4, <3>3, <3>5 DEF Relies, Guarded
  <2> QED  BY <1>2, <2>2, <2>3, <2>4 DEF Calm, Current
<1> QED  BY <1>3, <1>4, <1>5, <1>6 DEF MInv

LEMMA RecordInv ==
    ASSUME MInv, NEW r \in Runners, NEW s \in Scripts, Record(r, s)
    PROVE  MInv'
<1>1. /\ Current(r, s) /\ run[r].next > Len(Script[s])
      /\ recorded' = recorded \cup {s}
      /\ applied' = applied /\ unresolved' = unresolved /\ upset' = upset
  BY DEF Record
<1>2. Done(s) = Changes(s)
  <2>1. \A i \in Changes(s) : i < run[r].next
    BY <1>1, ScriptFacts DEF Changes, MInv, MigrationTypeOK
  <2> QED  BY <1>1, <2>1 DEF MInv, Whole, Done
<1>3. \A t \in Scripts : t < s => t \in recorded
  BY <1>1, ScriptFacts DEF Current, MInv, InOrder
<1>4. CASE s \in recorded
  <2>1. run' = [run EXCEPT ![r] = Off] /\ recorded' = recorded
    BY <1>1, <1>4 DEF Record
  <2>2. upset
    BY <1>1, <1>4 DEF MInv, Calm, Current
  <2> QED  BY <1>1, <2>1, <2>2, OffInv DEF Current, MInv, MigrationTypeOK
<1>5. CASE s \notin recorded
  <2>1. run' = [run EXCEPT ![r] = [todo |-> run[r].todo \ {s}, next |-> 1]]
    BY <1>5 DEF Record
  <2>2. /\ run' \in [Runners -> [todo : SUBSET Scripts, next : Nat]]
        /\ run'[r] = [todo |-> run[r].todo \ {s}, next |-> 1]
        /\ \A q \in Runners : q # r => run'[q] = run[q]
    BY <2>1 DEF MInv, MigrationTypeOK
  <2>3. \A q \in Runners : On(q)' <=> On(q)
    BY <1>1, <2>2 DEF On, Current
  <2>4. \A q \in Runners, t \in Scripts : q # r => (Current(q, t)' <=> Current(q, t))
    BY <2>2, <2>3 DEF Current
  <2>5. MigrationTypeOK'
    BY <1>1, <2>2 DEF MInv, MigrationTypeOK
  <2>6. InOrder'
    <3>1. \A u \in recorded', t \in Scripts : t < u => t \in recorded'
      BY <1>1, <1>3 DEF MInv, InOrder
    <3>2. ASSUME NEW q \in Runners, On(q)'
          PROVE  Scripts \ run'[q].todo \subseteq recorded'
      <4>1. Scripts \ run[q].todo \subseteq recorded
        BY <2>3, <3>2 DEF MInv, InOrder
      <4>2. q = r \/ q # r
        OBVIOUS
      <4> QED  BY <4>1, <4>2, <2>2, <1>1
    <3> QED  BY <3>1, <3>2 DEF InOrder
  <2>7. Whole'
    <3>1. RecordedIsWhole'
      BY <1>1, <1>2 DEF MInv, Whole, RecordedIsWhole, Done
    <3>2. ASSUME NEW q \in Runners, NEW t \in Scripts, Current(q, t)'
          PROVE  /\ run'[q].next \in 1..(Len(Script[t]) + 1)
                 /\ \A i \in Changes(t) : i < run'[q].next => <<t, i>> \in applied'
      <4>1. CASE q = r
        <5>1. run'[q].next = 1
          BY <2>2, <4>1
        <5>2. \A i \in Changes(t) : i \in Nat /\ ~(i < 1)
          BY ScriptFacts DEF Changes
        <5> QED  BY <5>1, <5>2, ScriptFacts
      <4>2. CASE q # r
        BY <1>1, <2>2, <2>4, <3>2, <4>2 DEF MInv, Whole
      <4> QED  BY <4>1, <4>2
    <3> QED  BY <3>1, <3>2 DEF Whole
  <2>8. ASSUME ~upset' PROVE Calm'
    <3>1. Calm
      BY <1>1, <2>8 DEF MInv
    <3>2. \A q \in Runners : On(q) => q = r
      BY <1>1, <3>1 DEF Calm, Current
    <3>3. /\ \A q, p \in Runners : On(q)' /\ On(p)' => q = p
          /\ On(r)'
      BY <1>1, <2>3, <3>2 DEF Current
    <3>4. \A q \in Runners : On(q)' => run'[q].todo = Scripts \ recorded'
      <4>1. run[r].todo = Scripts \ recorded
        BY <1>1, <3>1 DEF Calm, Current
      <4> QED  BY <1>1, <2>2, <2>3, <3>2, <4>1
    <3>5. ASSUME NEW t \in Scripts \ recorded', Guarded(t), NEW i \in Changes(t),
                 <<t, i>> \in applied'
          PROVE  FALSE
      <4>1. PICK q \in Runners : Current(q, t)
        BY <1>1, <3>1, <3>5 DEF Calm
      <4>2. q = r
        BY <3>2, <4>1 DEF Current
      <4> QED  BY <1>1, <3>5, <4>1, <4>2, OneCurrent
    <3>6. ASSUME NEW t \in Scripts \ recorded', Relies(t), t - 1 \in recorded'
          PROVE  /\ Over(t - 1, Checks(t - 1)) \cap unresolved' = {}
                 /\ \E q \in Runners : On(q)'
      <4>1. CASE t - 1 = s
        <5>1. \A i \in Checks(s) : i < run[r].next
          BY <1>1, ScriptFacts DEF MInv, MigrationTypeOK
        <5>2. \A i \in Checks(s) : Script[s][i].over \cap unresolved = {}
          BY <1>1, <3>1, <5>1 DEF Calm
        <5>3. Over(s, Checks(s)) \cap unresolved = {}
          BY <5>2 DEF Over
        <5> QED  BY <1>1, <3>3, <4>1, <5>3
      <4>2. CASE t - 1 # s
        BY <1>1, <3>1, <3>3, <3>6, <4>2 DEF Calm
      <4> QED  BY <4>1, <4>2
    <3>7. \A q \in Runners, t \in Scripts : Current(q, t)' =>
            \A i \in Checks(t) : ~(i < run'[q].next)
      BY <2>2, <2>3, <3>2, ScriptFacts DEF Current
    <3> QED  BY <3>3, <3>4, <3>5, <3>6, <3>7 DEF Calm
  <2> QED  BY <2>5, <2>6, <2>7, <2>8 DEF MInv
<1> QED  BY <1>4, <1>5

LEMMA DataInv ==
    ASSUME MInv, NEW d \in Defects, Spoil(d) \/ Mend(d)
    PROVE  MInv'
<1>1. /\ applied' = applied /\ recorded' = recorded /\ run' = run
      /\ unresolved' \in SUBSET Defects /\ upset' \in BOOLEAN
  BY DEF Spoil, Mend, MInv, MigrationTypeOK
<1>2. \A r \in Runners :
        (On(r)' <=> On(r)) /\ \A s \in Scripts : Current(r, s)' <=> Current(r, s)
  BY <1>1 DEF On, Current
<1>3. MigrationTypeOK' /\ InOrder' /\ Whole'
  BY <1>1, <1>2
     DEF MInv, MigrationTypeOK, InOrder, Whole, RecordedIsWhole, Done
<1>4. ASSUME ~upset' PROVE Calm'
  <2>1. Calm /\ (unresolved' \subseteq unresolved \/ \A r \in Runners : ~On(r))
    BY <1>4 DEF Spoil, Mend, MInv
  <2>2. \A r \in Runners, s \in Scripts : Current(r, s)' => Current(r, s) /\ On(r)
    BY <1>2 DEF Current
  <2> QED  BY <1>1, <1>2, <2>1, <2>2 DEF Calm
<1> QED  BY <1>3, <1>4 DEF MInv

LEMMA MigrationStepInv ==
    MInv /\ (MigrationNext \/ UNCHANGED migrationVars) => MInv'
<1> SUFFICES ASSUME MInv, MigrationNext \/ UNCHANGED migrationVars PROVE MInv'
  OBVIOUS
<1>1. CASE UNCHANGED migrationVars
  BY <1>1 DEF migrationVars, MInv, MigrationTypeOK, InOrder, Whole, Calm,
        RecordedIsWhole, Done, On, Current
<1>2. ASSUME NEW r \in Runners, Finish(r) \/ Crash(r) PROVE MInv'
  <2>1. /\ On(r) /\ run' = [run EXCEPT ![r] = Off] /\ applied' = applied
        /\ recorded' = recorded /\ unresolved' = unresolved
        /\ upset' \/ (upset' = upset /\ run[r].todo = {})
        /\ upset' \in BOOLEAN
    BY <1>2 DEF Finish, Crash, MInv, MigrationTypeOK
  <2> QED  BY <2>1, OffInv
<1>3. ASSUME NEW r \in Runners, NEW s \in Scripts, Stop(r, s) PROVE MInv'
  <2>1. /\ On(r) /\ run' = [run EXCEPT ![r] = Off] /\ applied' = applied
        /\ recorded' = recorded /\ unresolved' = unresolved /\ upset' = upset
        /\ Current(r, s) /\ upset' \in BOOLEAN
    BY <1>3 DEF Stop, Current, MInv, MigrationTypeOK
  <2>2. CASE upset
    BY <2>1, <2>2, OffInv
  <2>3. CASE ~upset
    BY <1>3, <2>1, <2>3, StopsAtGuard, OffInv
  <2> QED  BY <2>2, <2>3
<1> QED
  BY <1>1, <1>2, <1>3, StartInv, ExecuteInv, RecordInv, DataInv DEF MigrationNext

LEMMA MigrationSafety == MInv => MigrationTypeOK /\ RecordedIsWhole /\ NoneHalfDone
<1> SUFFICES ASSUME MInv, ~upset, \A r \in Runners : ~On(r), NEW s \in Scripts,
                             Guarded(s)
             PROVE  Done(s) \in {{}, Changes(s)}
  BY DEF MInv, Whole, NoneHalfDone
<1>1. CASE s \in recorded
  BY <1>1 DEF MInv, Whole, RecordedIsWhole
<1>2. CASE s \notin recorded
  BY <1>2 DEF MInv, Calm, Current, Done
<1> QED  BY <1>1, <1>2

-----------------------------------------------------------------------------
(* Server.                                                                  *)

IInv == PInv /\ MInv

LEMMA StepInv == IInv /\ [Next]_vars => IInv'
BY PoolStepInv, MigrationStepInv DEF IInv, Next, vars, poolVars, migrationVars

THEOREM InvHolds == Spec => []IInv
<1>1. Init => IInv
  BY PoolInitInv, MigrationInitInv DEF Init, IInv
<1> QED  BY <1>1, StepInv, PTL DEF Spec

\* Types, and no request waits for two connections at once.
THEOREM TypeCorrect == Spec => []TypeOK
<1>1. IInv => TypeOK
  BY PoolSafety, MigrationSafety DEF IInv, TypeOK
<1> QED  BY <1>1, InvHolds, PTL

\* However many connections and requests there are, the server seizes up only
\* over as many confirmations of submissions as there are connections.
THEOREM SeizesUpOnlyInConfirms == Spec => []StuckOnlyInConfirms
<1>1. IInv => StuckOnlyInConfirms
  BY PoolSafety DEF IInv
<1> QED  BY <1>1, InvHolds, PTL

\* No request ends with a connection in its hands.
THEOREM ConnectionsComeBack == Spec => []NothingLeaks
<1>1. IInv => NothingLeaks
  BY PoolSafety DEF IInv
<1> QED  BY <1>1, InvHolds, PTL

\* A recorded script has been applied to its last statement, for any scripts and
\* any number of runners.
THEOREM RecordsAreTrue == Spec => []RecordedIsWhole
<1>1. IInv => RecordedIsWhole
  BY MigrationSafety DEF IInv
<1> QED  BY <1>1, InvHolds, PTL

\* A run that nothing upset leaves no guarded script half done, whatever other
\* scripts there are.
THEOREM GuardsProtect == Spec => []NoneHalfDone
<1>1. IInv => NoneHalfDone
  BY MigrationSafety DEF IInv
<1> QED  BY <1>1, InvHolds, PTL

\* A statement is executed only with every earlier script recorded.
THEOREM ScriptsInOrder == Spec => OneAfterAnother
<1> DEFINE Step == \A s \in Scripts :
        Done(s)' # Done(s) => \A t \in Scripts : t < s => t \in recorded
<1>1. IInv /\ [Next]_vars => [Step]_migrationVars
  <2> SUFFICES ASSUME IInv, [Next]_vars, applied' # applied PROVE Step
    BY DEF migrationVars, Done
  <2>1. PICK r \in Runners, s \in Scripts : Execute(r, s)
    BY DEF Next, vars, migrationVars, MigrationNext, Start, Stop, Record, Finish,
           Crash, Spoil, Mend
  <2>2. \A t \in Scripts : t < s => t \in recorded
    BY <2>1, ScriptFacts DEF Execute, Current, IInv, MInv, InOrder
  <2>3. \A t \in Scripts : Done(t)' # Done(t) => t = s
    BY <2>1 DEF Execute, Done
  <2> QED  BY <2>2, <2>3
<1> QED  BY <1>1, InvHolds, PTL DEF Spec, OneAfterAnother

\* A run that nothing upset stops over bad data, or a script left half done; and
\* in a guarded script at one of its guards, with nothing of the script applied.
THEOREM StopsForBadDataOnly == Spec => OnlyBadDataStops
<1> DEFINE Step == \A r \in Runners, s \in Scripts :
        Current(r, s) /\ ~On(r)' /\ ~upset' =>
            \E i \in DOMAIN Script[s] :
                /\ i = run[r].next
                /\ \/ Script[s][i].over \cap unresolved # {}
                   \/ <<s, i>> \in applied
                /\ Guarded(s) => Script[s][i].kind = "guard" /\ Done(s) = {}
<1>1. IInv /\ [Next]_vars => [Step]_migrationVars
  <2> SUFFICES ASSUME IInv, [Next]_vars, migrationVars' # migrationVars,
                      NEW r \in Runners, NEW s \in Scripts,
                      Current(r, s), ~On(r)', ~upset'
               PROVE  \E i \in DOMAIN Script[s] :
                        /\ i = run[r].next
                        /\ \/ Script[s][i].over \cap unresolved # {}
                           \/ <<s, i>> \in applied
                        /\ Guarded(s) => Script[s][i].kind = "guard" /\ Done(s) = {}
    OBVIOUS
  <2>1. On(r) /\ s \in run[r].todo
    BY DEF Current
  <2>2. MigrationNext
    BY DEF Next, vars, migrationVars
  <2>3. ~upset
    BY <2>2 DEF MigrationNext, Start, Execute, Stop, Record, Finish, Crash,
                Spoil, Mend
  <2>4. Calm /\ run \in [Runners -> [todo : SUBSET Scripts, next : Nat]]
    BY <2>3 DEF IInv, MInv, MigrationTypeOK
  <2>5. ASSUME NEW q \in Runners, Start(q) PROVE FALSE
    BY <2>1, <2>4, <2>5 DEF Start, On
  <2>6. ASSUME NEW q \in Runners, Finish(q) \/ Crash(q) PROVE FALSE
    BY <2>1, <2>4, <2>6 DEF Finish, Crash, On
  <2>7. ASSUME NEW q \in Runners, NEW t \in Scripts, Execute(q, t) PROVE FALSE
    BY <2>1, <2>4, <2>7 DEF Execute, On
  <2>8. ASSUME NEW q \in Runners, NEW t \in Scripts, Record(q, t) PROVE FALSE
    <3>1. t \notin recorded
      BY <2>4, <2>8 DEF Record, Current, Calm
    <3> QED  BY <2>1, <2>4, <2>8, <3>1 DEF Record, On
  <2>9. ASSUME NEW q \in Runners, NEW t \in Scripts, Stop(q, t)
        PROVE  /\ run[r].next \in DOMAIN Script[s]
               /\ \/ Script[s][run[r].next].over \cap unresolved # {}
                  \/ <<s, run[r].next>> \in applied
               /\ Guarded(s) => Script[s][run[r].next].kind = "guard" /\ Done(s) = {}
    <3>1. q = r
      BY <2>1, <2>4, <2>9 DEF Stop, On
    <3>2. t = s
      BY <2>9, <3>1, OneCurrent DEF Stop
    <3>3. run[r].next \in DOMAIN Script[s] /\ ~Succeeds(s, run[r].next)
      BY <2>9, <3>1, <3>2, ScriptFacts DEF Stop, IInv, MInv, Whole
    <3>4. \/ Script[s][run[r].next].over \cap unresolved # {}
          \/ <<s, run[r].next>> \in applied
      BY <3>3 DEF Succeeds
    <3>5. Guarded(s) => Script[s][run[r].next].kind = "guard" /\ Done(s) = {}
      BY <2>3, <2>9, <3>1, <3>2, StopsAtGuard DEF IInv
    <3> QED  BY <3>3, <3>4, <3>5
  <2>10. ASSUME NEW d \in Defects, Spoil(d) \/ Mend(d) PROVE FALSE
    BY <2>1, <2>10 DEF Spoil, Mend, On
  <2> QED  BY <2>2, <2>5, <2>6, <2>7, <2>8, <2>9, <2>10 DEF MigrationNext
<1> QED  BY <1>1, InvHolds, PTL DEF Spec, OnlyBadDataStops

=============================================================================
