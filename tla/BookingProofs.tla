---------------------------- MODULE BookingProofs ----------------------------
(***************************************************************************)
(* For every number of requests, teachers and existing lessons, with       *)
(* MariaDB's snapshot isolation on or off: the state is well typed, no     *)
(* teacher is double-booked, the unique index never fires behind the FOR   *)
(* UPDATE, and a booking is cancelled by one request only.                 *)
(*                                                                         *)
(* NoDoubleBooking is not inductive: the step that commits a booking says  *)
(* nothing of the other bookings.  What carries it is SlotHeld: from its   *)
(* FOR UPDATE on, a request's slot is met by no other pending or committed *)
(* row, because every row that could meet it starts before the slot ends,  *)
(* and there the locks of the scan keep other INSERTs out.                 *)
(***************************************************************************)
EXTENDS Booking, TLAPS

\* A request's row is there exactly from its INSERT on, and is what it asked for.
RowOfRequest(q) ==
    /\ phase[q] \in {"idle", "resolved", "viewed", "locked"} => rows[q] = NoRow
    /\ phase[q] \in {"resolved"} \cup Viewing =>
          want[q].teacher \in Teachers /\ want[q].student \in Students
    /\ phase[q] = "inserted" =>
          rows[q] = [status |-> "pending", teacher |-> want[q].teacher,
                     student |-> want[q].student, start |-> want[q].start, dur |-> Slot]
    /\ rows[q].status = "pending" => phase[q] = "inserted"

RowsKept == \A q \in Requests : RowOfRequest(q)

\* Every row that is there belongs to people and takes time.
RealRow(r) ==
    rows[r].status # "none" =>
        rows[r].teacher \in Teachers /\ rows[r].student \in Students /\ rows[r].dur > 0

RowsReal ==
    /\ \A r \in RowIds : RealRow(r)
    /\ \A l \in Legacy : rows[l].status # "pending"

\* From its FOR UPDATE on, no other live row meets a request's slot.
SlotHeld ==
    \A q \in Requests : phase[q] \in Locking =>
        \A r \in RowIds \ {q} : Live(r) => ~Takes(r, want[q])

\* An uncommitted cancellation holds the only lock on a booked row.
CancelHolds ==
    \A c \in Cancels :
        /\ phase[c] \in {"sent", "updated", "cancelled"} => undo[c].row \in RowIds
        /\ phase[c] = "updated" => rows[undo[c].row].status = "booked"
        /\ phase[c] \in {"updated", "cancelled"} =>
              \A d \in Cancels \ {c} :
                 phase[d] \in {"updated", "cancelled"} => undo[d].row # undo[c].row
        /\ phase[c] = "cancelled" => rows[undo[c].row].status = "cancelled"

IInv == TypeOK /\ RowsKept /\ RowsReal /\ SlotHeld /\ CancelHolds /\ NoDoubleBooking

USE DEF RowIds, People

-----------------------------------------------------------------------------
(* The two facts of interval arithmetic the argument rests on. *)

\* A row that meets a slot starts before the slot ends, where the scan locks.
LEMMA TakesIsCovered ==
    ASSUME NEW r \in RowIds, NEW w, NEW p \in Plans, Takes(r, w)
    PROVE  Covers(p, w, rows[r].teacher, rows[r].start)
BY DEF Takes, OnCalendar, Overlap, Covers

\* Meeting is symmetric.
LEMMA OverlapSym ==
    ASSUME NEW a, NEW b, NEW c, NEW d
    PROVE  Overlap(a, b, c, d) <=> Overlap(c, d, a, b)
BY DEF Overlap

\* A request moves to a phase of its own kind.
LEMMA PhaseType ==
    ASSUME TypeOK, NEW x \in Requests \cup Cancels, NEW a,
           x \in Requests => a \in PostPhases, x \in Cancels => a \in PatchPhases,
           phase' = [phase EXCEPT ![x] = a]
    PROVE  /\ phase' \in [Requests \cup Cancels -> PostPhases \cup PatchPhases]
           /\ \A p \in Requests : phase'[p] \in PostPhases
           /\ \A d \in Cancels : phase'[d] \in PatchPhases
BY DEF TypeOK

\* A change of status changes nothing else, of no other row.
LEMMA StatusChange ==
    ASSUME rows \in [RowIds -> Row], NEW r \in RowIds,
           NEW st \in {"booked", "cancelled"}, rows' = [rows EXCEPT ![r].status = st]
    PROVE  /\ rows' \in [RowIds -> Row]
           /\ \A k \in RowIds \ {r} : rows'[k] = rows[k]
           /\ rows'[r].status = st
           /\ rows'[r].teacher = rows[r].teacher
           /\ rows'[r].student = rows[r].student
           /\ rows'[r].start = rows[r].start
           /\ rows'[r].dur = rows[r].dur
<1> DEFINE new == [rows[r] EXCEPT !.status = st]
<1>1. /\ new \in Row /\ new.status = st /\ new.teacher = rows[r].teacher
      /\ new.student = rows[r].student /\ new.start = rows[r].start
      /\ new.dur = rows[r].dur
  BY DEF Row
<1>2. rows' = [rows EXCEPT ![r] = new]
  OBVIOUS
<1> HIDE DEF new
<1>. QED
  BY <1>1, <1>2
\* The row an open transaction has inserted.
LEMMA PendingRow ==
    ASSUME IInv, NEW q \in Requests, phase[q] = "inserted"
    PROVE  /\ rows[q].status = "pending" /\ rows[q].teacher = want[q].teacher
           /\ rows[q].start = want[q].start /\ rows[q].dur = Slot
<1>1. rows[q] = [status |-> "pending", teacher |-> want[q].teacher,
                 student |-> want[q].student, start |-> want[q].start, dur |-> Slot]
  BY DEF IInv, RowsKept, RowOfRequest
<1>. QED
  BY <1>1

\* Before its INSERT a transaction has none.
LEMMA NoPendingRow ==
    ASSUME IInv, NEW q \in Requests, phase[q] \in {"idle", "resolved", "viewed", "locked"}
    PROVE  rows[q].status = "none"
<1>1. rows[q] = NoRow
  BY DEF IInv, RowsKept, RowOfRequest
<1>. QED
  BY <1>1 DEF NoRow

-----------------------------------------------------------------------------
(* Each part of the invariant is kept by every step.                        *)

\* Every step keeps the state well typed.
LEMMA TypeStep ==
    ASSUME IInv, [Next]_vars
    PROVE  TypeOK'
<1>1. ASSUME NEW q \in Requests, NEW s \in Students, NEW start \in Starts,
             NEW actor \in Senders, Resolve(q, actor, s, start)
      PROVE  TypeOK'
  <2>1. ResolvedTeacher(actor, s) \in Teachers \cup {None}
    BY DEF IInv, TypeOK, ResolvedTeacher
  <2>2. start \in Nat /\ actor \in People
    BY BookingAssumption
  <2>3. want' \in [Requests -> [actor : People \cup {None}, student : Students \cup {None},
                        teacher : Teachers \cup {None}, start : Nat]]
    BY <1>1, <2>1, <2>2 DEF IInv, TypeOK, Resolve
  <2>4. /\ phase' \in [Requests \cup Cancels -> PostPhases \cup PatchPhases]
        /\ \A p \in Requests : phase'[p] \in PostPhases
        /\ \A d \in Cancels : phase'[d] \in PatchPhases
    <3>1. "resolved" \in PostPhases /\ "rejected" \in PostPhases
      BY DEF PostPhases, Answers
    <3>2. \E a \in {"resolved", "rejected"} : phase' = [phase EXCEPT ![q] = a]
      BY <1>1 DEF Resolve
    <3>. QED
      BY <3>1, <3>2, PhaseType, BookingAssumption DEF IInv
  <2>. QED
    BY <1>1, <2>3, <2>4 DEF IInv, TypeOK, Resolve
<1>2. ASSUME NEW q \in Requests, ReadOpenSlots(q)
      PROVE  TypeOK'
  <2>1. /\ phase' \in [Requests \cup Cancels -> PostPhases \cup PatchPhases]
        /\ \A p \in Requests : phase'[p] \in PostPhases
        /\ \A d \in Cancels : phase'[d] \in PatchPhases
    <3>1. "viewed" \in PostPhases /\ "conflict" \in PostPhases
      BY DEF PostPhases, Viewing, Answers
    <3>2. \E a \in {"viewed", "conflict"} : phase' = [phase EXCEPT ![q] = a]
      BY <1>2 DEF ReadOpenSlots
    <3>. QED
      BY <3>1, <3>2, PhaseType, BookingAssumption DEF IInv
  <2>2. teacher[want[q].student] \in Teachers \cup {None}
    BY <1>2 DEF IInv, TypeOK, RowsKept, RowOfRequest, ReadOpenSlots
  <2>3. view' \in [Requests -> [teacher : Teachers \cup {None}, missed : SUBSET RowIds]]
    BY <1>2, <2>2 DEF IInv, TypeOK, ReadOpenSlots
  <2>. QED
    BY <1>2, <2>1, <2>3 DEF IInv, TypeOK, ReadOpenSlots
<1>3. ASSUME NEW q \in Requests, LockOverlap(q)
      PROVE  TypeOK'
  BY <1>3
     DEF IInv, TypeOK, Row, Note, PostPhases, PatchPhases, Viewing, Locking,
         Answers, Plans, LockOverlap
<1>4. ASSUME NEW q \in Requests, FindOverlap(q)
      PROVE  TypeOK'
  <2>1. /\ phase' \in [Requests \cup Cancels -> PostPhases \cup PatchPhases]
        /\ \A p \in Requests : phase'[p] \in PostPhases
        /\ \A d \in Cancels : phase'[d] \in PatchPhases
    <3>1. "conflict" \in PostPhases /\ phase' = [phase EXCEPT ![q] = "conflict"]
      BY <1>4 DEF PostPhases, Answers, FindOverlap
    <3>. QED
      BY <3>1, PhaseType, BookingAssumption DEF IInv
  <2>. QED
    BY <1>4, <2>1 DEF IInv, TypeOK, FindOverlap
<1>5. ASSUME NEW q \in Requests, MeetChangedRow(q)
      PROVE  TypeOK'
  <2>1. /\ phase' \in [Requests \cup Cancels -> PostPhases \cup PatchPhases]
        /\ \A p \in Requests : phase'[p] \in PostPhases
        /\ \A d \in Cancels : phase'[d] \in PatchPhases
    <3>1. "checkread" \in PostPhases /\ phase' = [phase EXCEPT ![q] = "checkread"]
      BY <1>5 DEF PostPhases, Answers, MeetChangedRow
    <3>. QED
      BY <3>1, PhaseType, BookingAssumption DEF IInv
  <2>. QED
    BY <1>5, <2>1 DEF IInv, TypeOK, MeetChangedRow
<1>6. ASSUME NEW q \in Requests, Insert(q)
      PROVE  TypeOK'
  <2>1. [status |-> "pending", teacher |-> want[q].teacher, student |-> want[q].student,
         start |-> want[q].start, dur |-> Slot] \in Row
    BY BookingAssumption DEF IInv, TypeOK, Row
  <2>2. rows' \in [RowIds -> Row]
    BY <1>6, <2>1 DEF IInv, TypeOK, Insert
  <2>3. /\ phase' \in [Requests \cup Cancels -> PostPhases \cup PatchPhases]
        /\ \A p \in Requests : phase'[p] \in PostPhases
        /\ \A d \in Cancels : phase'[d] \in PatchPhases
    <3>1. "inserted" \in PostPhases /\ "conflict" \in PostPhases
      BY DEF PostPhases, Viewing, Locking, Answers
    <3>2. \E a \in {"inserted", "conflict"} : phase' = [phase EXCEPT ![q] = a]
      BY <1>6 DEF Insert
    <3>. QED
      BY <3>1, <3>2, PhaseType, BookingAssumption DEF IInv
  <2>. QED
    BY <1>6, <2>2, <2>3 DEF IInv, TypeOK, Insert
<1>7. ASSUME NEW q \in Requests, NotifyCommit(q)
      PROVE  TypeOK'
  <2>1. rows' \in [RowIds -> Row]
    BY <1>7, StatusChange DEF IInv, TypeOK, NotifyCommit
  <2>2. view' \in [Requests -> [teacher : Teachers \cup {None}, missed : SUBSET RowIds]]
    BY <1>7 DEF IInv, TypeOK, NotifyCommit, Missed
  <2>3. Recipients(want[q].actor, want[q].student, view[q].teacher) \subseteq People
    BY DEF IInv, TypeOK, Recipients
  <2>4. notes' \subseteq Note
    BY <1>7, <2>3 DEF IInv, TypeOK, Note, NotifyCommit, Notify
  <2>. QED
    BY <1>7, <2>1, <2>2, <2>4
       DEF IInv, TypeOK, Row, Note, PostPhases, PatchPhases, Viewing, Locking,
           Answers, Plans, NotifyCommit
<1>8. ASSUME NEW q \in Requests, DeadlockVictim(q)
      PROVE  TypeOK'
  <2>1. NoRow \in Row
    BY DEF NoRow, Row
  <2>2. rows' \in [RowIds -> Row]
    BY <1>8, <2>1 DEF IInv, TypeOK, DeadlockVictim, Rollback
  <2>. QED
    BY <1>8, <2>2
       DEF IInv, TypeOK, Row, Note, PostPhases, PatchPhases, Viewing, Locking,
           Answers, Plans, DeadlockVictim, Rollback
<1>9. ASSUME NEW q \in Requests, LosePost(q)
      PROVE  TypeOK'
  <2>1. NoRow \in Row
    BY DEF NoRow, Row
  <2>2. rows' \in [RowIds -> Row]
    BY <1>9, <2>1 DEF IInv, TypeOK, LosePost, Rollback
  <2>. QED
    BY <1>9, <2>2
       DEF IInv, TypeOK, Row, Note, PostPhases, PatchPhases, Viewing, Locking,
           Answers, Plans, LosePost, Rollback
<1>10. ASSUME NEW c \in Cancels, NEW actor \in Senders, NEW r \in RowIds,
              SendCancel(c, actor, r)
      PROVE  TypeOK'
  BY <1>10, BookingAssumption
     DEF IInv, TypeOK, Row, Note, PostPhases, PatchPhases, Viewing, Locking,
         Answers, Plans, SendCancel
<1>11. ASSUME NEW c \in Cancels, CancelUpdate(c)
      PROVE  TypeOK'
  <2>1. /\ phase' \in [Requests \cup Cancels -> PostPhases \cup PatchPhases]
        /\ \A p \in Requests : phase'[p] \in PostPhases
        /\ \A d \in Cancels : phase'[d] \in PatchPhases
    <3>1. "updated" \in PatchPhases /\ "notfound" \in PatchPhases
      BY DEF PatchPhases, Answers
    <3>2. \E a \in {"updated", "notfound"} : phase' = [phase EXCEPT ![c] = a]
      BY <1>11 DEF CancelUpdate
    <3>. QED
      BY <3>1, <3>2, PhaseType, BookingAssumption DEF IInv
  <2>. QED
    BY <1>11, <2>1 DEF IInv, TypeOK, CancelUpdate
<1>12. ASSUME NEW c \in Cancels, CancelCommit(c)
      PROVE  TypeOK'
  <2> DEFINE r == undo[c].row
  <2>1. r \in RowIds /\ rows[r].student \in Students
    BY <1>12 DEF IInv, CancelHolds, RowsReal, RealRow, CancelCommit
  <2>2. rows' \in [RowIds -> Row]
    BY <1>12, <2>1, StatusChange DEF IInv, TypeOK, CancelCommit
  <2>3. view' \in [Requests -> [teacher : Teachers \cup {None}, missed : SUBSET RowIds]]
    BY <1>12, <2>1 DEF IInv, TypeOK, CancelCommit, Missed
  <2>4. Recipients(undo[c].actor, rows[r].student, teacher[rows[r].student]) \subseteq People
    BY <2>1 DEF IInv, TypeOK, Recipients
  <2>5. notes' \subseteq Note
    BY <1>12, <2>1, <2>4 DEF IInv, TypeOK, Note, CancelCommit, Notify
  <2>. QED
    BY <1>12, <2>2, <2>3, <2>5
       DEF IInv, TypeOK, Row, Note, PostPhases, PatchPhases, Viewing, Locking,
           Answers, Plans, CancelCommit
<1>13. ASSUME NEW c \in Cancels, LoseCancel(c)
      PROVE  TypeOK'
  BY <1>13
     DEF IInv, TypeOK, Row, Note, PostPhases, PatchPhases, Viewing, Locking,
         Answers, Plans, LoseCancel
<1>14. ASSUME NEW s \in Students, NEW t \in Teachers \cup {None}, Reassign(s, t)
      PROVE  TypeOK'
  BY <1>14
     DEF IInv, TypeOK, Row, Note, PostPhases, PatchPhases, Viewing, Locking,
         Answers, Plans, Reassign
<1>15. ASSUME NEW s \in Students, RefreshToken(s)
      PROVE  TypeOK'
  BY <1>15
     DEF IInv, TypeOK, Row, Note, PostPhases, PatchPhases, Viewing, Locking,
         Answers, Plans, RefreshToken
<1>16. ASSUME UNCHANGED vars
      PROVE  TypeOK'
  BY <1>16
     DEF IInv, TypeOK, Row, Note, PostPhases, PatchPhases, Viewing, Locking,
         Answers, Plans, vars
<1>. QED
  BY <1>1, <1>2, <1>3, <1>4, <1>5, <1>6, <1>7, <1>8, <1>9, <1>10, <1>11,
     <1>12, <1>13, <1>14, <1>15, <1>16
     DEF Next, PostStep, CancelStep

\* The rows of the requests stay what the phases say they are.
LEMMA RowsKeptStep ==
    ASSUME IInv, [Next]_vars
    PROVE  RowsKept'
<1>1. ASSUME NEW q \in Requests, NEW s \in Students, NEW start \in Starts,
             NEW actor \in Senders, Resolve(q, actor, s, start)
      PROVE  RowsKept'
  BY <1>1, BookingAssumption
     DEF IInv, TypeOK, RowsKept, RowOfRequest, NoRow, NoWant, Viewing, Answers,
         Resolve, ResolvedTeacher
<1>2. ASSUME NEW q \in Requests, ReadOpenSlots(q)
      PROVE  RowsKept'
  BY <1>2, BookingAssumption
     DEF IInv, TypeOK, RowsKept, RowOfRequest, NoRow, NoWant, Viewing, Answers,
         ReadOpenSlots
<1>3. ASSUME NEW q \in Requests, LockOverlap(q)
      PROVE  RowsKept'
  BY <1>3, BookingAssumption
     DEF IInv, TypeOK, RowsKept, RowOfRequest, NoRow, NoWant, Viewing, Answers,
         LockOverlap
<1>4. ASSUME NEW q \in Requests, FindOverlap(q)
      PROVE  RowsKept'
  BY <1>4, BookingAssumption
     DEF IInv, TypeOK, RowsKept, RowOfRequest, NoRow, NoWant, Viewing, Answers,
         FindOverlap
<1>5. ASSUME NEW q \in Requests, MeetChangedRow(q)
      PROVE  RowsKept'
  BY <1>5, BookingAssumption
     DEF IInv, TypeOK, RowsKept, RowOfRequest, NoRow, NoWant, Viewing, Answers,
         MeetChangedRow
<1>6. ASSUME NEW q \in Requests, Insert(q)
      PROVE  RowsKept'
  BY <1>6, BookingAssumption
     DEF IInv, TypeOK, RowsKept, RowOfRequest, NoRow, NoWant, Viewing, Answers,
         Insert
<1>7. ASSUME NEW q \in Requests, NotifyCommit(q)
      PROVE  RowsKept'
  BY <1>7, BookingAssumption
     DEF IInv, TypeOK, RowsKept, RowOfRequest, NoRow, NoWant, Viewing, Answers,
         NotifyCommit
<1>8. ASSUME NEW q \in Requests, DeadlockVictim(q)
      PROVE  RowsKept'
  BY <1>8, BookingAssumption
     DEF IInv, TypeOK, RowsKept, RowOfRequest, NoRow, NoWant, Viewing, Answers,
         DeadlockVictim, Rollback
<1>9. ASSUME NEW q \in Requests, LosePost(q)
      PROVE  RowsKept'
  BY <1>9, BookingAssumption
     DEF IInv, TypeOK, RowsKept, RowOfRequest, NoRow, NoWant, Viewing, Answers,
         LosePost, Rollback
<1>10. ASSUME NEW c \in Cancels, NEW actor \in Senders, NEW r \in RowIds,
             SendCancel(c, actor, r)
      PROVE  RowsKept'
  BY <1>10, BookingAssumption
     DEF IInv, TypeOK, RowsKept, RowOfRequest, NoRow, NoWant, Viewing, Answers,
         SendCancel
<1>11. ASSUME NEW c \in Cancels, CancelUpdate(c)
      PROVE  RowsKept'
  BY <1>11, BookingAssumption
     DEF IInv, TypeOK, RowsKept, RowOfRequest, NoRow, NoWant, Viewing, Answers,
         CancelUpdate
<1>12. ASSUME NEW c \in Cancels, CancelCommit(c)
      PROVE  RowsKept'
  <2> DEFINE r == undo[c].row
  <2>1. r \in RowIds /\ rows[r].status = "booked"
    BY <1>12 DEF IInv, CancelHolds, CancelCommit
  <2>2. /\ rows'[r].status = "cancelled" /\ rows'[r].teacher = rows[r].teacher
        /\ rows'[r].student = rows[r].student /\ rows'[r].start = rows[r].start
        /\ rows'[r].dur = rows[r].dur
        /\ \A k \in RowIds \ {r} : rows'[k] = rows[k]
    BY <1>12, <2>1, StatusChange DEF IInv, TypeOK, CancelCommit
  <2>3. \A q \in Requests : phase'[q] = phase[q] /\ want'[q] = want[q]
    BY <1>12, BookingAssumption DEF IInv, TypeOK, CancelCommit
  <2>4. ASSUME NEW q \in Requests PROVE RowOfRequest(q)'
    <3>1. CASE q = r
      <4>1. phase[q] \notin {"idle", "resolved", "viewed", "locked", "inserted"}
        <5>1. rows[q].status = "booked" /\ RowOfRequest(q)
          BY <2>1, <3>1 DEF IInv, RowsKept
        <5>. QED
          BY <5>1 DEF RowOfRequest, NoRow
      <4>. QED
        BY <2>2, <2>3, <3>1, <4>1 DEF IInv, RowsKept, RowOfRequest, Viewing
    <3>2. CASE q # r
      BY <2>2, <2>3, <3>2 DEF IInv, RowsKept, RowOfRequest, Viewing
    <3>. QED
      BY <3>1, <3>2
  <2>. QED
    BY <2>4 DEF RowsKept
<1>13. ASSUME NEW c \in Cancels, LoseCancel(c)
      PROVE  RowsKept'
  BY <1>13, BookingAssumption
     DEF IInv, TypeOK, RowsKept, RowOfRequest, NoRow, NoWant, Viewing, Answers,
         LoseCancel
<1>14. ASSUME NEW s \in Students, NEW t \in Teachers \cup {None}, Reassign(s, t)
      PROVE  RowsKept'
  BY <1>14, BookingAssumption
     DEF IInv, TypeOK, RowsKept, RowOfRequest, NoRow, NoWant, Viewing, Answers,
         Reassign
<1>15. ASSUME NEW s \in Students, RefreshToken(s)
      PROVE  RowsKept'
  BY <1>15, BookingAssumption
     DEF IInv, TypeOK, RowsKept, RowOfRequest, NoRow, NoWant, Viewing, Answers,
         RefreshToken
<1>16. ASSUME UNCHANGED vars
      PROVE  RowsKept'
  BY <1>16
     DEF IInv, TypeOK, RowsKept, RowOfRequest, NoRow, NoWant, Viewing, Answers, vars
<1>. QED
  BY <1>1, <1>2, <1>3, <1>4, <1>5, <1>6, <1>7, <1>8, <1>9, <1>10, <1>11,
     <1>12, <1>13, <1>14, <1>15, <1>16
     DEF Next, PostStep, CancelStep

\* Rows stay bookings of people that take time.
LEMMA RowsRealStep ==
    ASSUME IInv, [Next]_vars
    PROVE  RowsReal'
<1>1. ASSUME NEW q \in Requests, NEW s \in Students, NEW start \in Starts,
             NEW actor \in Senders, Resolve(q, actor, s, start)
      PROVE  RowsReal'
  BY <1>1, BookingAssumption
     DEF IInv, TypeOK, RowsReal, RealRow, RowsKept, RowOfRequest, NoRow, Row,
         Viewing, Resolve
<1>2. ASSUME NEW q \in Requests, ReadOpenSlots(q)
      PROVE  RowsReal'
  BY <1>2, BookingAssumption
     DEF IInv, TypeOK, RowsReal, RealRow, RowsKept, RowOfRequest, NoRow, Row,
         Viewing, ReadOpenSlots
<1>3. ASSUME NEW q \in Requests, LockOverlap(q)
      PROVE  RowsReal'
  BY <1>3, BookingAssumption
     DEF IInv, TypeOK, RowsReal, RealRow, RowsKept, RowOfRequest, NoRow, Row,
         Viewing, LockOverlap
<1>4. ASSUME NEW q \in Requests, FindOverlap(q)
      PROVE  RowsReal'
  BY <1>4, BookingAssumption
     DEF IInv, TypeOK, RowsReal, RealRow, RowsKept, RowOfRequest, NoRow, Row,
         Viewing, FindOverlap
<1>5. ASSUME NEW q \in Requests, MeetChangedRow(q)
      PROVE  RowsReal'
  BY <1>5, BookingAssumption
     DEF IInv, TypeOK, RowsReal, RealRow, RowsKept, RowOfRequest, NoRow, Row,
         Viewing, MeetChangedRow
<1>6. ASSUME NEW q \in Requests, Insert(q)
      PROVE  RowsReal'
  <2>1. want[q].teacher \in Teachers /\ want[q].student \in Students
    BY <1>6 DEF IInv, RowsKept, RowOfRequest, Viewing, Insert
  <2>2. \A k \in RowIds \ {q} : rows'[k] = rows[k]
    BY <1>6 DEF IInv, TypeOK, Insert
  <2>3. \/ rows'[q] = rows[q]
        \/ rows'[q] = [status |-> "pending", teacher |-> want[q].teacher,
                       student |-> want[q].student, start |-> want[q].start, dur |-> Slot]
    BY <1>6 DEF IInv, TypeOK, Insert
  <2>4. Slot > 0 /\ q \notin Legacy
    BY BookingAssumption
  <2>. QED
    BY <2>1, <2>2, <2>3, <2>4 DEF IInv, RowsReal, RealRow
<1>7. ASSUME NEW q \in Requests, NotifyCommit(q)
      PROVE  RowsReal'
  BY <1>7, BookingAssumption
     DEF IInv, TypeOK, RowsReal, RealRow, RowsKept, RowOfRequest, NoRow, Row,
         Viewing, NotifyCommit
<1>8. ASSUME NEW q \in Requests, DeadlockVictim(q)
      PROVE  RowsReal'
  BY <1>8, BookingAssumption
     DEF IInv, TypeOK, RowsReal, RealRow, RowsKept, RowOfRequest, NoRow, Row,
         Viewing, DeadlockVictim, Rollback
<1>9. ASSUME NEW q \in Requests, LosePost(q)
      PROVE  RowsReal'
  BY <1>9, BookingAssumption
     DEF IInv, TypeOK, RowsReal, RealRow, RowsKept, RowOfRequest, NoRow, Row,
         Viewing, LosePost, Rollback
<1>10. ASSUME NEW c \in Cancels, NEW actor \in Senders, NEW r \in RowIds,
             SendCancel(c, actor, r)
      PROVE  RowsReal'
  BY <1>10, BookingAssumption
     DEF IInv, TypeOK, RowsReal, RealRow, RowsKept, RowOfRequest, NoRow, Row,
         Viewing, SendCancel
<1>11. ASSUME NEW c \in Cancels, CancelUpdate(c)
      PROVE  RowsReal'
  BY <1>11, BookingAssumption
     DEF IInv, TypeOK, RowsReal, RealRow, RowsKept, RowOfRequest, NoRow, Row,
         Viewing, CancelUpdate
<1>12. ASSUME NEW c \in Cancels, CancelCommit(c)
      PROVE  RowsReal'
  <2> DEFINE r == undo[c].row
  <2>1. r \in RowIds /\ rows[r].status = "booked"
    BY <1>12 DEF IInv, CancelHolds, CancelCommit
  <2>2. /\ rows'[r].status = "cancelled" /\ rows'[r].teacher = rows[r].teacher
        /\ rows'[r].student = rows[r].student /\ rows'[r].start = rows[r].start
        /\ rows'[r].dur = rows[r].dur
        /\ \A k \in RowIds \ {r} : rows'[k] = rows[k]
    BY <1>12, <2>1, StatusChange DEF IInv, TypeOK, CancelCommit
  <2>. QED
    BY <2>1, <2>2 DEF IInv, RowsReal, RealRow
<1>13. ASSUME NEW c \in Cancels, LoseCancel(c)
      PROVE  RowsReal'
  BY <1>13, BookingAssumption
     DEF IInv, TypeOK, RowsReal, RealRow, RowsKept, RowOfRequest, NoRow, Row,
         Viewing, LoseCancel
<1>14. ASSUME NEW s \in Students, NEW t \in Teachers \cup {None}, Reassign(s, t)
      PROVE  RowsReal'
  BY <1>14, BookingAssumption
     DEF IInv, TypeOK, RowsReal, RealRow, RowsKept, RowOfRequest, NoRow, Row,
         Viewing, Reassign
<1>15. ASSUME NEW s \in Students, RefreshToken(s)
      PROVE  RowsReal'
  BY <1>15, BookingAssumption
     DEF IInv, TypeOK, RowsReal, RealRow, RowsKept, RowOfRequest, NoRow, Row,
         Viewing, RefreshToken
<1>16. ASSUME UNCHANGED vars
      PROVE  RowsReal'
  BY <1>16 DEF IInv, TypeOK, RowsReal, RealRow, RowsKept, RowOfRequest, NoRow, vars
<1>. QED
  BY <1>1, <1>2, <1>3, <1>4, <1>5, <1>6, <1>7, <1>8, <1>9, <1>10, <1>11,
     <1>12, <1>13, <1>14, <1>15, <1>16
     DEF Next, PostStep, CancelStep

\* The slots stay held when no lock is taken and no row becomes live or moves.
LEMMA SlotHeldFrame ==
    ASSUME SlotHeld,
           \A q \in Requests :
              phase'[q] \in Locking => phase[q] \in Locking /\ want'[q] = want[q],
           \A r \in RowIds : Live(r)' =>
              /\ Live(r) /\ rows'[r].teacher = rows[r].teacher
              /\ rows'[r].start = rows[r].start /\ rows'[r].dur = rows[r].dur
    PROVE  SlotHeld'
BY DEF SlotHeld, Takes, OnCalendar

\* The locks of a FOR UPDATE keep its slot free until its transaction ends.
LEMMA SlotHeldStep ==
    ASSUME IInv, [Next]_vars
    PROVE  SlotHeld'
<1>1. ASSUME NEW q \in Requests, NEW s \in Students, NEW start \in Starts,
             NEW actor \in Senders, Resolve(q, actor, s, start)
      PROVE  SlotHeld'
  BY <1>1, SlotHeldFrame, BookingAssumption
     DEF IInv, TypeOK, Locking, Viewing, Answers, Live, Resolve
<1>2. ASSUME NEW q \in Requests, ReadOpenSlots(q)
      PROVE  SlotHeld'
  BY <1>2, SlotHeldFrame, BookingAssumption
     DEF IInv, TypeOK, Locking, Viewing, Answers, Live, ReadOpenSlots
<1>3. ASSUME NEW q \in Requests, LockOverlap(q)
      PROVE  SlotHeld'
  <2>1. /\ rows' = rows /\ want' = want
        /\ \A p \in Requests \ {q} : phase'[p] = phase[p]
    BY <1>3 DEF IInv, TypeOK, LockOverlap
  <2>2. ASSUME NEW r \in RowIds \ {q}, Live(r), Takes(r, want[q])
        PROVE  FALSE
    <3>1. rows[r].status = "pending"
      BY <1>3, <2>2 DEF Live, LockOverlap
    <3>2. r \in Requests /\ phase[r] = "inserted"
      BY <3>1 DEF IInv, RowsReal, RowsKept, RowOfRequest
    <3>3. LockedByOther(q, r)
      BY <2>2, <3>2 DEF LockedByOther
    <3>4. \A p \in Plans : RowCovered(p, want[q], r)
      BY <2>2, <3>1, TakesIsCovered DEF RowCovered
    <3>. QED
      BY <1>3, <3>3, <3>4 DEF LockOverlap
  <2>. QED
    BY <2>1, <2>2 DEF IInv, SlotHeld, Takes, OnCalendar, Live
<1>4. ASSUME NEW q \in Requests, FindOverlap(q)
      PROVE  SlotHeld'
  BY <1>4, SlotHeldFrame, BookingAssumption
     DEF IInv, TypeOK, Locking, Viewing, Answers, Live, FindOverlap
<1>5. ASSUME NEW q \in Requests, MeetChangedRow(q)
      PROVE  SlotHeld'
  BY <1>5, SlotHeldFrame, BookingAssumption
     DEF IInv, TypeOK, Locking, Viewing, Answers, Live, MeetChangedRow
<1>6. ASSUME NEW q \in Requests, Insert(q)
      PROVE  SlotHeld'
  <2>1. /\ want' = want /\ plan' = plan
        /\ \A p \in Requests \ {q} : phase'[p] = phase[p]
        /\ \A r \in RowIds \ {q} : rows'[r] = rows[r]
    BY <1>6 DEF IInv, TypeOK, Insert
  <2>2. phase[q] \in Locking
    BY <1>6 DEF Insert, Locking
  <2>3. ASSUME NEW p \in Requests \ {q}, phase'[p] \in Locking, Live(q)', Takes(q, want[p])'
        PROVE  FALSE
    <3>1. rows[q] = NoRow
      BY <1>6 DEF IInv, RowsKept, RowOfRequest, Insert
    <3>2. rows'[q].teacher = want[q].teacher /\ rows'[q].start = want[q].start
      BY <1>6, <2>3, <3>1 DEF IInv, TypeOK, Live, NoRow, Insert
    <3>3. Covers(plan[p], want[p], rows'[q].teacher, rows'[q].start)
      BY <2>1, <2>3 DEF Takes, OnCalendar, Overlap, Covers
    <3>4. WaitsForGap(q, p)
      BY <2>1, <2>3, <3>2, <3>3 DEF WaitsForGap
    <3>. QED
      BY <1>6, <3>4 DEF Insert
  <2>4. ASSUME NEW p \in Requests, phase'[p] \in Locking,
               NEW r \in RowIds \ {p}, r # q, Live(r)', Takes(r, want[p])'
        PROVE  FALSE
    <3>1. phase[p] \in Locking
      BY <2>1, <2>2, <2>4
    <3>2. Live(r) /\ Takes(r, want[p])
      BY <2>1, <2>4 DEF Live, Takes, OnCalendar
    <3>. QED
      BY <3>1, <3>2 DEF IInv, SlotHeld
  <2>. QED
    BY <2>3, <2>4 DEF SlotHeld
<1>7. ASSUME NEW q \in Requests, NotifyCommit(q)
      PROVE  SlotHeld'
  <2>1. rows[q].status = "pending"
    BY <1>7, PendingRow DEF NotifyCommit
  <2>2. /\ rows'[q].teacher = rows[q].teacher /\ rows'[q].start = rows[q].start
        /\ rows'[q].dur = rows[q].dur /\ \A r \in RowIds \ {q} : rows'[r] = rows[r]
    BY <1>7, StatusChange DEF IInv, TypeOK, NotifyCommit
  <2>3. \A p \in Requests :
           phase'[p] \in Locking => phase[p] \in Locking /\ want'[p] = want[p]
    BY <1>7 DEF IInv, TypeOK, Locking, NotifyCommit
  <2>. QED
    BY <2>1, <2>2, <2>3, SlotHeldFrame DEF IInv, Live
<1>8. ASSUME NEW q \in Requests, DeadlockVictim(q)
      PROVE  SlotHeld'
  BY <1>8, SlotHeldFrame
     DEF IInv, TypeOK, Locking, Viewing, Answers, Live, NoRow, DeadlockVictim,
         Rollback
<1>9. ASSUME NEW q \in Requests, LosePost(q)
      PROVE  SlotHeld'
  BY <1>9, SlotHeldFrame
     DEF IInv, TypeOK, Locking, Viewing, Answers, Live, NoRow, LosePost, Rollback
<1>10. ASSUME NEW c \in Cancels, NEW actor \in Senders, NEW r \in RowIds,
             SendCancel(c, actor, r)
      PROVE  SlotHeld'
  BY <1>10, SlotHeldFrame, BookingAssumption
     DEF IInv, TypeOK, Locking, Viewing, Answers, Live, SendCancel
<1>11. ASSUME NEW c \in Cancels, CancelUpdate(c)
      PROVE  SlotHeld'
  BY <1>11, SlotHeldFrame, BookingAssumption
     DEF IInv, TypeOK, Locking, Viewing, Answers, Live, CancelUpdate
<1>12. ASSUME NEW c \in Cancels, CancelCommit(c)
      PROVE  SlotHeld'
  <2> DEFINE r == undo[c].row
  <2>1. r \in RowIds /\ rows[r].status = "booked"
    BY <1>12 DEF IInv, CancelHolds, CancelCommit
  <2>2. /\ rows'[r].status = "cancelled" /\ rows'[r].teacher = rows[r].teacher
        /\ rows'[r].student = rows[r].student /\ rows'[r].start = rows[r].start
        /\ rows'[r].dur = rows[r].dur
        /\ \A k \in RowIds \ {r} : rows'[k] = rows[k]
    BY <1>12, <2>1, StatusChange DEF IInv, TypeOK, CancelCommit
  <2>3. \A q \in Requests : phase'[q] = phase[q] /\ want'[q] = want[q]
    BY <1>12, BookingAssumption DEF IInv, TypeOK, CancelCommit
  <2>. QED
    BY <2>2, <2>3, SlotHeldFrame DEF IInv, Live
<1>13. ASSUME NEW c \in Cancels, LoseCancel(c)
      PROVE  SlotHeld'
  BY <1>13, SlotHeldFrame, BookingAssumption
     DEF IInv, TypeOK, Locking, Viewing, Answers, Live, LoseCancel
<1>14. ASSUME NEW s \in Students, NEW t \in Teachers \cup {None}, Reassign(s, t)
      PROVE  SlotHeld'
  BY <1>14, SlotHeldFrame, BookingAssumption
     DEF IInv, TypeOK, Locking, Viewing, Answers, Live, Reassign
<1>15. ASSUME NEW s \in Students, RefreshToken(s)
      PROVE  SlotHeld'
  BY <1>15, SlotHeldFrame, BookingAssumption
     DEF IInv, TypeOK, Locking, Viewing, Answers, Live, RefreshToken
<1>16. ASSUME UNCHANGED vars
      PROVE  SlotHeld'
  BY <1>16, SlotHeldFrame DEF IInv, TypeOK, Locking, Viewing, Answers, Live, vars
<1>. QED
  BY <1>1, <1>2, <1>3, <1>4, <1>5, <1>6, <1>7, <1>8, <1>9, <1>10, <1>11,
     <1>12, <1>13, <1>14, <1>15, <1>16
     DEF Next, PostStep, CancelStep

\* The cancellations keep their rows when neither they nor a row that is booked
\* or cancelled changes.
LEMMA CancelHoldsFrame ==
    ASSUME CancelHolds,
           \A c \in Cancels : phase'[c] = phase[c] /\ undo'[c] = undo[c],
           \A r \in RowIds : rows[r].status \in {"booked", "cancelled"} =>
              rows'[r].status = rows[r].status
    PROVE  CancelHolds'
BY DEF CancelHolds

\* Of several PATCHes one gets the row lock; the others find it cancelled.
LEMMA CancelHoldsStep ==
    ASSUME IInv, [Next]_vars
    PROVE  CancelHolds'
<1>1. ASSUME NEW q \in Requests, NEW s \in Students, NEW start \in Starts,
             NEW actor \in Senders, Resolve(q, actor, s, start)
      PROVE  CancelHolds'
  BY <1>1, CancelHoldsFrame, BookingAssumption DEF IInv, TypeOK, Resolve
<1>2. ASSUME NEW q \in Requests, ReadOpenSlots(q)
      PROVE  CancelHolds'
  BY <1>2, CancelHoldsFrame, BookingAssumption DEF IInv, TypeOK, ReadOpenSlots
<1>3. ASSUME NEW q \in Requests, LockOverlap(q)
      PROVE  CancelHolds'
  BY <1>3, CancelHoldsFrame, BookingAssumption DEF IInv, TypeOK, LockOverlap
<1>4. ASSUME NEW q \in Requests, FindOverlap(q)
      PROVE  CancelHolds'
  BY <1>4, CancelHoldsFrame, BookingAssumption DEF IInv, TypeOK, FindOverlap
<1>5. ASSUME NEW q \in Requests, MeetChangedRow(q)
      PROVE  CancelHolds'
  BY <1>5, CancelHoldsFrame, BookingAssumption DEF IInv, TypeOK, MeetChangedRow
<1>6. ASSUME NEW q \in Requests, Insert(q)
      PROVE  CancelHolds'
  <2>1. rows[q].status = "none" /\ \A r \in RowIds \ {q} : rows'[r] = rows[r]
    BY <1>6, NoPendingRow DEF IInv, TypeOK, Insert
  <2>2. \A c \in Cancels : phase'[c] = phase[c] /\ undo'[c] = undo[c]
    BY <1>6, BookingAssumption DEF IInv, TypeOK, Insert
  <2>. QED
    BY <2>1, <2>2, CancelHoldsFrame DEF IInv
<1>7. ASSUME NEW q \in Requests, NotifyCommit(q)
      PROVE  CancelHolds'
  <2>1. rows[q].status = "pending" /\ phase[q] \in Locking
    BY <1>7, PendingRow DEF NotifyCommit, Locking
  <2>2. /\ rows'[q].teacher = rows[q].teacher /\ rows'[q].start = rows[q].start
        /\ rows'[q].dur = rows[q].dur /\ rows'[q].status = "booked"
        /\ \A r \in RowIds \ {q} : rows'[r] = rows[r]
    BY <1>7, StatusChange DEF IInv, TypeOK, NotifyCommit
  <2>3. \A c \in Cancels : phase'[c] = phase[c] /\ undo'[c] = undo[c]
    BY <1>7, BookingAssumption DEF IInv, TypeOK, NotifyCommit
  <2>. QED
    BY <2>1, <2>2, <2>3, CancelHoldsFrame DEF IInv
<1>8. ASSUME NEW q \in Requests, DeadlockVictim(q)
      PROVE  CancelHolds'
  <2>1. rows[q].status \in {"none", "pending"}
    BY <1>8, PendingRow, NoPendingRow DEF Viewing, DeadlockVictim
  <2>2. \A r \in RowIds \ {q} : rows'[r] = rows[r]
    BY <1>8 DEF IInv, TypeOK, DeadlockVictim, Rollback
  <2>3. \A c \in Cancels : phase'[c] = phase[c] /\ undo'[c] = undo[c]
    BY <1>8, BookingAssumption DEF IInv, TypeOK, DeadlockVictim, Rollback
  <2>. QED
    BY <2>1, <2>2, <2>3, CancelHoldsFrame DEF IInv
<1>9. ASSUME NEW q \in Requests, LosePost(q)
      PROVE  CancelHolds'
  <2>1. rows[q].status \in {"none", "pending"}
    BY <1>9, PendingRow, NoPendingRow DEF Viewing, LosePost
  <2>2. \A r \in RowIds \ {q} : rows'[r] = rows[r]
    BY <1>9 DEF IInv, TypeOK, LosePost, Rollback
  <2>3. \A c \in Cancels : phase'[c] = phase[c] /\ undo'[c] = undo[c]
    BY <1>9, BookingAssumption DEF IInv, TypeOK, LosePost, Rollback
  <2>. QED
    BY <2>1, <2>2, <2>3, CancelHoldsFrame DEF IInv
<1>10. ASSUME NEW c \in Cancels, NEW actor \in Senders, NEW r \in RowIds,
             SendCancel(c, actor, r)
      PROVE  CancelHolds'
  BY <1>10 DEF IInv, TypeOK, CancelHolds, SendCancel
<1>11. ASSUME NEW c \in Cancels, CancelUpdate(c)
      PROVE  CancelHolds'
  <2> DEFINE r == undo[c].row
  <2>1. /\ rows' = rows /\ undo' = undo
        /\ \A d \in Cancels \ {c} : phase'[d] = phase[d]
    BY <1>11 DEF IInv, TypeOK, CancelUpdate
  <2>2. r \in RowIds
    BY <1>11 DEF IInv, CancelHolds, CancelUpdate
  <2>3. CASE phase'[c] = "notfound"
    BY <2>1, <2>3 DEF IInv, CancelHolds
  <2>4. CASE phase'[c] = "updated" /\ rows[r].status = "booked"
    <3>1. ASSUME NEW d \in Cancels \ {c}, phase[d] \in {"updated", "cancelled"}
          PROVE  undo[d].row # r
      <4>1. CASE phase[d] = "updated"
        BY <1>11, <4>1 DEF CancelUpdate, LockedByOther
      <4>2. CASE phase[d] = "cancelled"
        BY <2>4, <4>2 DEF IInv, CancelHolds
      <4>. QED
        BY <3>1, <4>1, <4>2
    <3>. QED
      BY <2>1, <2>2, <2>4, <3>1 DEF IInv, CancelHolds
  <2>. QED
    BY <1>11, <2>3, <2>4 DEF IInv, TypeOK, CancelUpdate
<1>12. ASSUME NEW c \in Cancels, CancelCommit(c)
      PROVE  CancelHolds'
  <2> DEFINE r == undo[c].row
  <2>1. r \in RowIds /\ rows[r].status = "booked"
    BY <1>12 DEF IInv, CancelHolds, CancelCommit
  <2>2. /\ rows'[r].status = "cancelled" /\ rows'[r].teacher = rows[r].teacher
        /\ rows'[r].student = rows[r].student /\ rows'[r].start = rows[r].start
        /\ rows'[r].dur = rows[r].dur
        /\ \A k \in RowIds \ {r} : rows'[k] = rows[k]
    BY <1>12, <2>1, StatusChange DEF IInv, TypeOK, CancelCommit
  <2>3. /\ undo' = undo /\ phase'[c] = "cancelled" /\ phase[c] = "updated"
        /\ \A d \in Cancels \ {c} : phase'[d] = phase[d]
    BY <1>12 DEF IInv, TypeOK, CancelCommit
  <2>4. \A d \in Cancels \ {c} : phase[d] \in {"updated", "cancelled"} => undo[d].row # r
    BY <2>3 DEF IInv, CancelHolds
  <2>. QED
    BY <2>1, <2>2, <2>3, <2>4 DEF IInv, CancelHolds
<1>13. ASSUME NEW c \in Cancels, LoseCancel(c)
      PROVE  CancelHolds'
  BY <1>13 DEF IInv, TypeOK, CancelHolds, LoseCancel
<1>14. ASSUME NEW s \in Students, NEW t \in Teachers \cup {None}, Reassign(s, t)
      PROVE  CancelHolds'
  BY <1>14, CancelHoldsFrame, BookingAssumption DEF IInv, TypeOK, Reassign
<1>15. ASSUME NEW s \in Students, RefreshToken(s)
      PROVE  CancelHolds'
  BY <1>15, CancelHoldsFrame, BookingAssumption DEF IInv, TypeOK, RefreshToken
<1>16. ASSUME UNCHANGED vars
      PROVE  CancelHolds'
  BY <1>16, CancelHoldsFrame DEF IInv, TypeOK, vars
<1>. QED
  BY <1>1, <1>2, <1>3, <1>4, <1>5, <1>6, <1>7, <1>8, <1>9, <1>10, <1>11,
     <1>12, <1>13, <1>14, <1>15, <1>16
     DEF Next, PostStep, CancelStep

\* Nobody is double-booked by a step that books nothing.
LEMMA NoDoubleBookingFrame ==
    ASSUME NoDoubleBooking,
           \A r \in RowIds : rows'[r].status = "booked" =>
              /\ rows[r].status = "booked" /\ rows'[r].teacher = rows[r].teacher
              /\ rows'[r].start = rows[r].start /\ rows'[r].dur = rows[r].dur
    PROVE  NoDoubleBooking'
BY DEF NoDoubleBooking

\* The only step that books is the COMMIT, and its slot was held for it.
LEMMA NoDoubleBookingStep ==
    ASSUME IInv, [Next]_vars
    PROVE  NoDoubleBooking'
<1>1. ASSUME NEW q \in Requests, NEW s \in Students, NEW start \in Starts,
             NEW actor \in Senders, Resolve(q, actor, s, start)
      PROVE  NoDoubleBooking'
  BY <1>1, NoDoubleBookingFrame DEF IInv, Resolve
<1>2. ASSUME NEW q \in Requests, ReadOpenSlots(q)
      PROVE  NoDoubleBooking'
  BY <1>2, NoDoubleBookingFrame DEF IInv, ReadOpenSlots
<1>3. ASSUME NEW q \in Requests, LockOverlap(q)
      PROVE  NoDoubleBooking'
  BY <1>3, NoDoubleBookingFrame DEF IInv, LockOverlap
<1>4. ASSUME NEW q \in Requests, FindOverlap(q)
      PROVE  NoDoubleBooking'
  BY <1>4, NoDoubleBookingFrame DEF IInv, FindOverlap
<1>5. ASSUME NEW q \in Requests, MeetChangedRow(q)
      PROVE  NoDoubleBooking'
  BY <1>5, NoDoubleBookingFrame DEF IInv, MeetChangedRow
<1>6. ASSUME NEW q \in Requests, Insert(q)
      PROVE  NoDoubleBooking'
  <2>1. CASE UNCHANGED rows
    BY <2>1, NoDoubleBookingFrame DEF IInv
  <2>2. CASE rows' = [rows EXCEPT ![q] =
                  [status |-> "pending", teacher |-> want[q].teacher,
                   student |-> want[q].student, start |-> want[q].start, dur |-> Slot]]
    <3>1. \A r \in RowIds : r # q => rows'[r] = rows[r]
      BY <2>2 DEF IInv, TypeOK
    <3>2. q \in RowIds => rows'[q].status = "pending"
      BY <2>2 DEF IInv, TypeOK
    <3>. QED
      BY <3>1, <3>2, NoDoubleBookingFrame DEF IInv
  <2>. QED
    BY <1>6, <2>1, <2>2 DEF Insert
<1>7. ASSUME NEW q \in Requests, NotifyCommit(q)
      PROVE  NoDoubleBooking'
  <2>1. rows[q].status = "pending" /\ phase[q] \in Locking
    BY <1>7, PendingRow DEF NotifyCommit, Locking
  <2>2. /\ rows'[q].teacher = rows[q].teacher /\ rows'[q].start = rows[q].start
        /\ rows'[q].dur = rows[q].dur /\ rows'[q].status = "booked"
        /\ \A r \in RowIds \ {q} : rows'[r] = rows[r]
    BY <1>7, StatusChange DEF IInv, TypeOK, NotifyCommit
  <2>3. rows'[q].teacher = want[q].teacher /\ rows'[q].start = want[q].start /\ rows'[q].dur = Slot
    BY <1>7, <2>2, PendingRow DEF NotifyCommit
  <2>4. ASSUME NEW r \in RowIds \ {q}, rows[r].status = "booked", rows[r].teacher = want[q].teacher
        PROVE  /\ ~Overlap(rows[r].start, rows[r].dur, want[q].start, Slot)
               /\ ~Overlap(want[q].start, Slot, rows[r].start, rows[r].dur)
    BY <2>1, <2>4, OverlapSym DEF IInv, SlotHeld, Live, Takes, OnCalendar
  <2>. QED
    BY <2>2, <2>3, <2>4 DEF IInv, NoDoubleBooking
<1>8. ASSUME NEW q \in Requests, DeadlockVictim(q)
      PROVE  NoDoubleBooking'
  BY <1>8, NoDoubleBookingFrame DEF IInv, TypeOK, NoRow, DeadlockVictim, Rollback
<1>9. ASSUME NEW q \in Requests, LosePost(q)
      PROVE  NoDoubleBooking'
  BY <1>9, NoDoubleBookingFrame DEF IInv, TypeOK, NoRow, LosePost, Rollback
<1>10. ASSUME NEW c \in Cancels, NEW actor \in Senders, NEW r \in RowIds,
             SendCancel(c, actor, r)
      PROVE  NoDoubleBooking'
  BY <1>10, NoDoubleBookingFrame DEF IInv, SendCancel
<1>11. ASSUME NEW c \in Cancels, CancelUpdate(c)
      PROVE  NoDoubleBooking'
  BY <1>11, NoDoubleBookingFrame DEF IInv, CancelUpdate
<1>12. ASSUME NEW c \in Cancels, CancelCommit(c)
      PROVE  NoDoubleBooking'
  <2> DEFINE r == undo[c].row
  <2>1. r \in RowIds /\ rows[r].status = "booked"
    BY <1>12 DEF IInv, CancelHolds, CancelCommit
  <2>2. /\ rows'[r].status = "cancelled" /\ rows'[r].teacher = rows[r].teacher
        /\ rows'[r].student = rows[r].student /\ rows'[r].start = rows[r].start
        /\ rows'[r].dur = rows[r].dur
        /\ \A k \in RowIds \ {r} : rows'[k] = rows[k]
    BY <1>12, <2>1, StatusChange DEF IInv, TypeOK, CancelCommit
  <2>. QED
    BY <2>2, NoDoubleBookingFrame DEF IInv
<1>13. ASSUME NEW c \in Cancels, LoseCancel(c)
      PROVE  NoDoubleBooking'
  BY <1>13, NoDoubleBookingFrame DEF IInv, LoseCancel
<1>14. ASSUME NEW s \in Students, NEW t \in Teachers \cup {None}, Reassign(s, t)
      PROVE  NoDoubleBooking'
  BY <1>14, NoDoubleBookingFrame DEF IInv, Reassign
<1>15. ASSUME NEW s \in Students, RefreshToken(s)
      PROVE  NoDoubleBooking'
  BY <1>15, NoDoubleBookingFrame DEF IInv, RefreshToken
<1>16. ASSUME UNCHANGED vars
      PROVE  NoDoubleBooking'
  BY <1>16, NoDoubleBookingFrame DEF IInv, vars
<1>. QED
  BY <1>1, <1>2, <1>3, <1>4, <1>5, <1>6, <1>7, <1>8, <1>9, <1>10, <1>11,
     <1>12, <1>13, <1>14, <1>15, <1>16
     DEF Next, PostStep, CancelStep

-----------------------------------------------------------------------------
\* The states the program starts in satisfy the invariant.
LEMMA InitInv ==
    ASSUME Init
    PROVE  IInv
<1>1. rows \in [RowIds -> Row]
  <2>1. NoRow \in Row
    BY DEF NoRow, Row
  <2>2. [status : {"booked"}, teacher : Teachers, student : Students,
         start : Starts, dur : LegacyDurations] \subseteq Row
    BY BookingAssumption DEF Row
  <2>. QED
    BY <2>1, <2>2 DEF Init
<1>2. /\ want \in [Requests -> [actor : People \cup {None}, student : Students \cup {None},
                              teacher : Teachers \cup {None}, start : Nat]]
      /\ view \in [Requests -> [teacher : Teachers \cup {None}, missed : SUBSET RowIds]]
      /\ undo \in [Cancels -> [actor : People \cup {None}, row : RowIds \cup {None}]]
  BY DEF Init, NoWant, NoView, NoUndo
<1>3. /\ phase \in [Requests \cup Cancels -> PostPhases \cup PatchPhases]
      /\ \A q \in Requests : phase[q] = "idle" /\ phase[q] \in PostPhases
      /\ \A c \in Cancels : phase[c] = "idle" /\ phase[c] \in PatchPhases
  BY DEF Init, PostPhases, PatchPhases
<1>4. TypeOK
  BY <1>1, <1>2, <1>3 DEF Init, TypeOK, Plans
<1>5. /\ \A q \in Requests : rows[q] = NoRow /\ rows[q].status = "none"
      /\ \A l \in Legacy : /\ rows[l].status = "booked" /\ rows[l].teacher \in Teachers
                            /\ rows[l].student \in Students /\ rows[l].dur > 0
  <2>1. \A q \in Requests : rows[q] = NoRow
    BY DEF Init
  <2>2. \A l \in Legacy : rows[l] \in [status : {"booked"}, teacher : Teachers,
                       student : Students, start : Starts, dur : LegacyDurations]
    BY DEF Init
  <2>3. NoRow.status = "none"
    BY DEF NoRow
  <2>. QED
    BY <2>1, <2>2, <2>3, BookingAssumption
<1>6. RowsKept
  BY <1>3, <1>5 DEF RowsKept, RowOfRequest, Viewing
<1>7. RowsReal
  BY <1>5 DEF RowsReal, RealRow
<1>8. SlotHeld /\ CancelHolds
  BY <1>3 DEF SlotHeld, CancelHolds, Locking
<1>9. NoDoubleBooking
  BY <1>5 DEF Init, NoDoubleBooking
<1>. QED
  BY <1>4, <1>6, <1>7, <1>8, <1>9 DEF IInv

\* Every step keeps the whole invariant.
LEMMA StepInv ==
    ASSUME IInv, [Next]_vars
    PROVE  IInv'
BY TypeStep, RowsKeptStep, RowsRealStep, SlotHeldStep, CancelHoldsStep,
   NoDoubleBookingStep
   DEF IInv

-----------------------------------------------------------------------------
\* The inductive invariant holds of every reachable state.
THEOREM Invariance == Spec => []IInv
<1>1. Init => IInv
  BY InitInv
<1>2. IInv /\ [Next]_vars => IInv'
  BY StepInv
<1>. QED
  BY <1>1, <1>2, PTL DEF Spec

\* Every state of the bookings, the requests and the notifications is well typed.
THEOREM TypeCorrect == Spec => []TypeOK
<1>1. IInv => TypeOK
  BY DEF IInv
<1>. QED
  BY <1>1, Invariance, PTL

\* No teacher is ever booked for two lessons that overlap: the transaction of
\* POST /bookings is right for any number of concurrent requests.
THEOREM NeverDoubleBooked == Spec => []NoDoubleBooking
<1>1. IInv => NoDoubleBooking
  BY DEF IInv
<1>. QED
  BY <1>1, Invariance, PTL

\* Behind the FOR UPDATE the INSERT never meets the unique index of migration
\* 0021: a row with the same start would take up part of the slot.
THEOREM IndexIsIdle == Spec => []UniqueIndexNeverFires
<1>1. IInv => UniqueIndexNeverFires
  <2>1. SUFFICES ASSUME IInv, NEW q \in Requests, phase[q] = "locked",
                        NEW r \in RowIds, SameStart(r, want[q])
                 PROVE  FALSE
    BY DEF UniqueIndexNeverFires
  <2>2. /\ rows[r].status = "booked" /\ OnCalendar(want[q], r)
        /\ rows[r].start = want[q].start
    BY <2>1 DEF SameStart
  <2>3. r # q
    BY <2>1, <2>2, NoPendingRow
  <2>4. rows[r].dur > 0 /\ rows[r].dur \in Nat /\ rows[r].start \in Nat
    BY <2>1, <2>2 DEF IInv, TypeOK, Row, RowsReal, RealRow
  <2>5. Takes(r, want[q])
    <3>1. Slot \in Nat /\ Slot > 0
      BY BookingAssumption
    <3>. QED
      BY <2>2, <2>4, <3>1 DEF Takes, Overlap
  <2>. QED
    BY <2>1, <2>2, <2>3, <2>5 DEF IInv, SlotHeld, Live, Locking
<1>. QED
  BY <1>1, Invariance, PTL

\* A booking is cancelled by one PATCH only, and stays cancelled.
THEOREM CancelledByOne == Spec => []CancelledOnce
<1>1. IInv => CancelledOnce
  BY DEF IInv, CancelHolds, CancelledOnce
<1>. QED
  BY <1>1, Invariance, PTL

-----------------------------------------------------------------------------
(* The routes implement the abstract calendar. *)

Entry(r) == [id |-> r, teacher |-> rows[r].teacher,
             start |-> rows[r].start, dur |-> rows[r].dur]

\* The calendars are the entries of the booked rows.
LEMMA EntriesOf ==
    /\ OnCalendars = {Entry(r) : r \in RowsWith("booked")}
    /\ OnCalendars' = {Entry(r)' : r \in RowsWith("booked")'}
BY DEF OnCalendars, Entry

\* Initially nobody's calendar has a clash and nothing is cancelled.
LEMMA InitRefines ==
    ASSUME Init
    PROVE  C!CalendarInit
<1>1. IInv
  BY InitInv
<1>2. OnCalendars \subseteq C!Lesson
  <2>1. ASSUME NEW r \in RowIds, rows[r].status = "booked"
        PROVE  Entry(r) \in C!Lesson
    <3>1. /\ rows[r].teacher \in Teachers /\ rows[r].start \in Nat /\ rows[r].dur \in Nat
      BY <1>1, <2>1 DEF IInv, TypeOK, Row, RowsReal, RealRow
    <3>. QED
      BY <3>1 DEF Entry, C!Lesson
  <2>. QED
    BY <2>1 DEF OnCalendars, RowsWith, Entry
<1>3. C!NoClash(OnCalendars)
  BY <1>1 DEF IInv, NoDoubleBooking, OnCalendars, RowsWith, Overlap,
              C!NoClash, C!Clash, C!Overlap
<1>4. RowsWith("cancelled") = {}
  <2>1. \A r \in RowIds : rows[r].status # "cancelled"
    BY DEF Init, NoRow
  <2>. QED
    BY <2>1 DEF RowsWith
<1>. QED
  BY <1>2, <1>3, <1>4 DEF C!CalendarInit

\* A step that changes no committed row is a stutter of the calendar.
LEMMA Stutter ==
    ASSUME \A r \in RowIds :
              \/ rows'[r] = rows[r]
              \/ /\ rows[r].status \notin {"booked", "cancelled"}
                 /\ rows'[r].status \notin {"booked", "cancelled"}
    PROVE  UNCHANGED C!calendarVars
<1>1. RowsWith("cancelled")' = RowsWith("cancelled")
  BY DEF RowsWith
<1>2. OnCalendars' = OnCalendars
  <2>1. \A l : l \in OnCalendars' <=> l \in OnCalendars
    BY DEF OnCalendars, RowsWith
  <2>. QED
    BY <2>1
<1>. QED
  BY <1>1, <1>2 DEF C!calendarVars

\* Every step books one lesson, cancels one, or leaves the calendars alone.
LEMMA StepRefines ==
    ASSUME IInv, [Next]_vars
    PROVE  [C!CalendarNext]_(C!calendarVars)
<1>1. ASSUME NEW q \in Requests, NEW s \in Students, NEW start \in Starts,
             NEW actor \in Senders, Resolve(q, actor, s, start)
      PROVE  [C!CalendarNext]_(C!calendarVars)
  BY <1>1, Stutter DEF Resolve
<1>2. ASSUME NEW q \in Requests, ReadOpenSlots(q)
      PROVE  [C!CalendarNext]_(C!calendarVars)
  BY <1>2, Stutter DEF ReadOpenSlots
<1>3. ASSUME NEW q \in Requests, LockOverlap(q)
      PROVE  [C!CalendarNext]_(C!calendarVars)
  BY <1>3, Stutter DEF LockOverlap
<1>4. ASSUME NEW q \in Requests, FindOverlap(q)
      PROVE  [C!CalendarNext]_(C!calendarVars)
  BY <1>4, Stutter DEF FindOverlap
<1>5. ASSUME NEW q \in Requests, MeetChangedRow(q)
      PROVE  [C!CalendarNext]_(C!calendarVars)
  BY <1>5, Stutter DEF MeetChangedRow
<1>6. ASSUME NEW q \in Requests, Insert(q)
      PROVE  [C!CalendarNext]_(C!calendarVars)
  <2>1. rows[q].status = "none" /\ \A r \in RowIds \ {q} : rows'[r] = rows[r]
    BY <1>6, NoPendingRow DEF IInv, TypeOK, Insert
  <2>2. rows'[q] = rows[q] \/ rows'[q].status = "pending"
    BY <1>6 DEF IInv, TypeOK, Insert
  <2>. QED
    BY <2>1, <2>2, Stutter
<1>7. ASSUME NEW q \in Requests, NotifyCommit(q)
      PROVE  [C!CalendarNext]_(C!calendarVars)
  <2>1. rows[q].status = "pending" /\ phase[q] \in Locking
    BY <1>7, PendingRow DEF NotifyCommit, Locking
  <2>2. /\ rows'[q].teacher = rows[q].teacher /\ rows'[q].start = rows[q].start
        /\ rows'[q].dur = rows[q].dur /\ rows'[q].status = "booked"
        /\ \A r \in RowIds \ {q} : rows'[r] = rows[r]
    BY <1>7, StatusChange DEF IInv, TypeOK, NotifyCommit
  <2>3. rows'[q].teacher = want[q].teacher /\ rows'[q].start = want[q].start /\ rows'[q].dur = Slot
    BY <1>7, <2>2, PendingRow DEF NotifyCommit
  <2>4. OnCalendars' = OnCalendars \cup {Entry(q)'}
    <3>1. RowsWith("booked")' = RowsWith("booked") \cup {q}
      BY <2>1, <2>2 DEF RowsWith
    <3>2. q \notin RowsWith("booked")
      BY <2>1 DEF RowsWith
    <3>3. \A r \in RowsWith("booked") : Entry(r)' = Entry(r)
      BY <2>2, <3>2 DEF Entry, RowsWith
    <3>. QED
      BY <3>1, <3>3, EntriesOf
  <2>5. RowsWith("cancelled")' = RowsWith("cancelled")
    BY <2>1, <2>2 DEF RowsWith
  <2>6. q \notin C!Used
    BY <2>1 DEF C!Used, OnCalendars, RowsWith
  <2>7. \A l \in OnCalendars : ~C!Clash(l, Entry(q)')
    <3>1. ASSUME NEW r \in RowIds, rows[r].status = "booked"
          PROVE  ~C!Clash(Entry(r), Entry(q)')
      <4>1. ~Takes(r, want[q])
        BY <2>1, <3>1 DEF IInv, SlotHeld, Live
      <4>. QED
        BY <2>3, <4>1 DEF Takes, OnCalendar, Overlap, Entry, C!Clash, C!Overlap
    <3>. QED
      BY <3>1 DEF OnCalendars, RowsWith, Entry
  <2>8. C!Book(Entry(q)')
    BY <2>4, <2>5, <2>6, <2>7 DEF C!Book, Entry
  <2>. QED
    BY <2>4, <2>8 DEF C!CalendarNext
<1>8. ASSUME NEW q \in Requests, DeadlockVictim(q)
      PROVE  [C!CalendarNext]_(C!calendarVars)
  <2>1. rows[q].status \in {"none", "pending"}
    BY <1>8, PendingRow, NoPendingRow DEF Viewing, DeadlockVictim
  <2>2. rows'[q].status = "none" /\ \A r \in RowIds \ {q} : rows'[r] = rows[r]
    BY <1>8 DEF IInv, TypeOK, NoRow, DeadlockVictim, Rollback
  <2>. QED
    BY <2>1, <2>2, Stutter
<1>9. ASSUME NEW q \in Requests, LosePost(q)
      PROVE  [C!CalendarNext]_(C!calendarVars)
  <2>1. rows[q].status \in {"none", "pending"}
    BY <1>9, PendingRow, NoPendingRow DEF Viewing, LosePost
  <2>2. rows'[q].status = "none" /\ \A r \in RowIds \ {q} : rows'[r] = rows[r]
    BY <1>9 DEF IInv, TypeOK, NoRow, LosePost, Rollback
  <2>. QED
    BY <2>1, <2>2, Stutter
<1>10. ASSUME NEW c \in Cancels, NEW actor \in Senders, NEW r \in RowIds,
             SendCancel(c, actor, r)
      PROVE  [C!CalendarNext]_(C!calendarVars)
  BY <1>10, Stutter DEF SendCancel
<1>11. ASSUME NEW c \in Cancels, CancelUpdate(c)
      PROVE  [C!CalendarNext]_(C!calendarVars)
  BY <1>11, Stutter DEF CancelUpdate
<1>12. ASSUME NEW c \in Cancels, CancelCommit(c)
      PROVE  [C!CalendarNext]_(C!calendarVars)
  <2> DEFINE r == undo[c].row
  <2>1. r \in RowIds /\ rows[r].status = "booked"
    BY <1>12 DEF IInv, CancelHolds, CancelCommit
  <2>2. /\ rows'[r].status = "cancelled" /\ rows'[r].teacher = rows[r].teacher
        /\ rows'[r].student = rows[r].student /\ rows'[r].start = rows[r].start
        /\ rows'[r].dur = rows[r].dur
        /\ \A k \in RowIds \ {r} : rows'[k] = rows[k]
    BY <1>12, <2>1, StatusChange DEF IInv, TypeOK, CancelCommit
  <2>3. OnCalendars' = OnCalendars \ {Entry(r)}
    <3>1. RowsWith("booked")' = RowsWith("booked") \ {r}
      BY <2>1, <2>2 DEF RowsWith
    <3>2. \A k \in RowIds \ {r} : Entry(k)' = Entry(k) /\ Entry(k) # Entry(r)
      BY <2>2 DEF Entry
    <3>3. \A k \in RowsWith("booked") : k \in RowIds
      BY DEF RowsWith
    <3>4. r \in RowsWith("booked")
      BY <2>1 DEF RowsWith
    <3>5. \A l : l \in OnCalendars' <=> l \in OnCalendars \ {Entry(r)}
      BY <3>1, <3>2, <3>3, <3>4, EntriesOf
    <3>. QED
      BY <3>5
  <2>4. RowsWith("cancelled")' = RowsWith("cancelled") \cup {Entry(r).id}
    BY <2>1, <2>2 DEF RowsWith, Entry
  <2>5. Entry(r) \in OnCalendars
    BY <2>1 DEF OnCalendars, RowsWith, Entry
  <2>6. C!Cancel(Entry(r))
    BY <2>3, <2>4 DEF C!Cancel
  <2>. QED
    BY <2>5, <2>6 DEF C!CalendarNext
<1>13. ASSUME NEW c \in Cancels, LoseCancel(c)
      PROVE  [C!CalendarNext]_(C!calendarVars)
  BY <1>13, Stutter DEF LoseCancel
<1>14. ASSUME NEW s \in Students, NEW t \in Teachers \cup {None}, Reassign(s, t)
      PROVE  [C!CalendarNext]_(C!calendarVars)
  BY <1>14, Stutter DEF Reassign
<1>15. ASSUME NEW s \in Students, RefreshToken(s)
      PROVE  [C!CalendarNext]_(C!calendarVars)
  BY <1>15, Stutter DEF RefreshToken
<1>16. ASSUME UNCHANGED vars
      PROVE  [C!CalendarNext]_(C!calendarVars)
  BY <1>16, Stutter DEF vars
<1>. QED
  BY <1>1, <1>2, <1>3, <1>4, <1>5, <1>6, <1>7, <1>8, <1>9, <1>10, <1>11,
     <1>12, <1>13, <1>14, <1>15, <1>16
     DEF Next, PostStep, CancelStep

\* The routes implement the abstract calendar: each of their steps is a step of
\* it or changes nothing on it.
THEOREM CalendarImplemented == Spec => ImplementsCalendar
<1>1. Init => C!CalendarInit
  BY InitRefines
<1>2. IInv /\ [Next]_vars => [C!CalendarNext]_(C!calendarVars)
  BY StepRefines
<1>. QED
  BY <1>1, <1>2, Invariance, PTL DEF Spec, ImplementsCalendar, C!CalendarSpec

-----------------------------------------------------------------------------
(* Whose calendar a booking is on. *)

\* A student's teacher, and the one their token names, are or were theirs; so is
\* the one a request has resolved.
Tutored ==
    /\ \A s \in Students : {teacher[s], claim[s]} \subseteq taught[s] \cup {None}
    /\ \A q \in Requests : phase[q] \in {"resolved"} \cup Viewing =>
          want[q].teacher \in taught[want[q].student]
    /\ OnlyOnATeachersCalendar

\* A step that resolves no request and inserts no row leaves the three as they are.
LEMMA TutoredFrame ==
    ASSUME IInv, Tutored, UNCHANGED <<teacher, claim, taught, want>>,
           \A q \in Requests :
              /\ phase'[q] \in {"resolved"} \cup Viewing => phase[q] \in {"resolved"} \cup Viewing
              /\ rows'[q].status # "none" =>
                    /\ rows[q].status # "none"
                    /\ rows'[q].teacher = rows[q].teacher /\ rows'[q].student = rows[q].student
    PROVE  Tutored'
BY DEF Tutored, OnlyOnATeachersCalendar

LEMMA TutoredStep ==
    ASSUME IInv, Tutored, [Next]_vars
    PROVE  Tutored'
<1> USE DEF Viewing
<1>1. ASSUME NEW q \in Requests, NEW s \in Students, NEW start \in Starts,
             NEW actor \in Senders, Resolve(q, actor, s, start)
      PROVE  Tutored'
  <2>1. UNCHANGED <<teacher, claim, taught, rows>> /\ \A p \in Requests \ {q} :
           phase'[p] = phase[p] /\ want'[p] = want[p]
    BY <1>1 DEF Resolve, IInv, TypeOK
  <2>2. \/ phase'[q] = "rejected"
        \/ /\ want'[q].teacher = ResolvedTeacher(actor, s) /\ want'[q].student = s
           /\ ResolvedTeacher(actor, s) # None
    BY <1>1 DEF Resolve, IInv, TypeOK
  <2>3. ResolvedTeacher(actor, s) \in taught[s] \cup {None}
    BY DEF ResolvedTeacher, Tutored
  <2> QED
    BY <2>1, <2>2, <2>3 DEF Tutored, OnlyOnATeachersCalendar
<1>2. ASSUME NEW q \in Requests,
             ReadOpenSlots(q) \/ LockOverlap(q) \/ FindOverlap(q) \/ MeetChangedRow(q)
      PROVE  Tutored'
  BY <1>2, TutoredFrame
     DEF IInv, TypeOK, ReadOpenSlots, LockOverlap, FindOverlap, MeetChangedRow
<1>3. ASSUME NEW q \in Requests, Insert(q)
      PROVE  Tutored'
  <2>1. /\ phase[q] = "locked" /\ UNCHANGED <<teacher, claim, taught, want>>
        /\ \A p \in Requests \ {q} : phase'[p] = phase[p] /\ rows'[p] = rows[p]
        /\ \/ rows'[q] = rows[q]
           \/ rows'[q].teacher = want[q].teacher /\ rows'[q].student = want[q].student
    BY <1>3 DEF Insert, IInv, TypeOK
  <2> QED
    BY <2>1 DEF Tutored, OnlyOnATeachersCalendar
<1>4. ASSUME NEW q \in Requests, NotifyCommit(q)
      PROVE  Tutored'
  <2>1. /\ rows'[q].teacher = rows[q].teacher /\ rows'[q].student = rows[q].student
        /\ \A r \in RowIds \ {q} : rows'[r] = rows[r]
    BY <1>4, StatusChange DEF IInv, TypeOK, NotifyCommit
  <2>2. rows[q].status = "pending"
    BY <1>4, PendingRow DEF NotifyCommit
  <2> QED
    BY <1>4, <2>1, <2>2, TutoredFrame DEF IInv, TypeOK, NotifyCommit
<1>5. ASSUME NEW q \in Requests, DeadlockVictim(q) \/ LosePost(q)
      PROVE  Tutored'
  BY <1>5, TutoredFrame DEF IInv, TypeOK, NoRow, DeadlockVictim, LosePost, Rollback
<1>6. ASSUME NEW c \in Cancels, NEW actor \in Senders, NEW r \in RowIds,
             SendCancel(c, actor, r)
      PROVE  Tutored'
  BY <1>6, BookingAssumption, TutoredFrame DEF IInv, TypeOK, SendCancel
<1>7. ASSUME NEW c \in Cancels, CancelUpdate(c) \/ LoseCancel(c)
      PROVE  Tutored'
  BY <1>7, BookingAssumption, TutoredFrame DEF IInv, TypeOK, CancelUpdate, LoseCancel
<1>8. ASSUME NEW c \in Cancels, CancelCommit(c)
      PROVE  Tutored'
  <2> DEFINE r == undo[c].row
  <2>1. r \in RowIds /\ rows[r].status = "booked"
    BY <1>8 DEF IInv, CancelHolds, CancelCommit
  <2>2. /\ rows'[r].teacher = rows[r].teacher /\ rows'[r].student = rows[r].student
        /\ \A k \in RowIds \ {r} : rows'[k] = rows[k]
    BY <1>8, <2>1, StatusChange DEF IInv, TypeOK, CancelCommit
  <2>3. \A q \in Requests : phase'[q] = phase[q]
    BY <1>8, BookingAssumption DEF IInv, TypeOK, CancelCommit
  <2>4. UNCHANGED <<teacher, claim, taught, want>>
    BY <1>8 DEF CancelCommit
  <2> QED
    BY <2>1, <2>2, <2>3, <2>4, TutoredFrame
<1>9. ASSUME NEW s \in Students, NEW t \in Teachers \cup {None}, Reassign(s, t)
      PROVE  Tutored'
  <2>1. \A k \in Students : taught[k] \subseteq taught'[k]
    BY <1>9 DEF Reassign, IInv, TypeOK
  <2>2. \A k \in Students : {teacher'[k], claim'[k]} \subseteq taught'[k] \cup {None}
    BY <1>9 DEF Reassign, IInv, TypeOK, Tutored
  <2>3. \A q \in Requests : rows[q].status # "none" => rows[q].student \in Students
    BY DEF IInv, RowsReal, RealRow
  <2>4. \A q \in Requests : phase[q] \in {"resolved"} \cup Viewing => want[q].student \in Students
    BY DEF IInv, RowsKept, RowOfRequest
  <2> QED
    BY <1>9, <2>1, <2>2, <2>3, <2>4 DEF Reassign, Tutored, OnlyOnATeachersCalendar
<1>10. ASSUME NEW s \in Students, RefreshToken(s)
       PROVE  Tutored'
  BY <1>10 DEF RefreshToken, IInv, TypeOK, Tutored, OnlyOnATeachersCalendar
<1>11. ASSUME UNCHANGED vars
       PROVE  Tutored'
  BY <1>11, TutoredFrame DEF vars
<1>. QED
  BY <1>1, <1>2, <1>3, <1>4, <1>5, <1>6, <1>7, <1>8, <1>9, <1>10, <1>11
     DEF Next, PostStep, CancelStep

\* A booking is only ever on the calendar of somebody who is or was the student's
\* teacher, however late a token is refreshed (bookings.route.js:120-129).
THEOREM OnATeachersCalendar == Spec => []OnlyOnATeachersCalendar
<1>1. Init => Tutored
  <2>1. SUFFICES ASSUME Init PROVE Tutored
    OBVIOUS
  <2>2. \A q \in Requests : phase[q] = "idle" /\ rows[q].status = "none"
    BY <2>1 DEF Init, NoRow
  <2> QED
    BY <2>1, <2>2 DEF Init, Tutored, Viewing, OnlyOnATeachersCalendar
<1>2. IInv /\ Tutored /\ [Next]_vars => Tutored'
  BY TutoredStep
<1>3. Tutored => OnlyOnATeachersCalendar
  BY DEF Tutored
<1>. QED
  BY <1>1, <1>2, <1>3, Invariance, PTL DEF Spec

=============================================================================
