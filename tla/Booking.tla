------------------------------- MODULE Booking -------------------------------
(***************************************************************************)
(* POST /bookings and PATCH /bookings/:id (src/src/routes/bookings.route.js *)
(* and bookings.helpers.js) over the bookings, users and notifications     *)
(* tables.                                                                 *)
(*                                                                         *)
(* One Node process serves every request; a request gives way at each      *)
(* await, so an action below is what happens between two awaits that other *)
(* requests can tell apart.  The statements of a transaction run at        *)
(* REPEATABLE READ: the first plain SELECT opens a read view, FOR UPDATE   *)
(* and the writes see the current rows and lock what they scan.            *)
(* SnapshotIsolation is MariaDB's innodb_snapshot_isolation (default ON in *)
(* the 11.8 server the repository pins): a locking statement that meets a  *)
(* row committed since the read view fails with ER_CHECKREAD and the       *)
(* transaction is rolled back.                                             *)
(*                                                                         *)
(* Availability (windows and exceptions) is the environment of this        *)
(* module: whether a slot is offered is a free choice when it is read.     *)
(***************************************************************************)
EXTENDS Naturals, FiniteSets

CONSTANTS Requests,           \* POST /bookings requests; also the row each may insert
          Cancels,            \* PATCH /bookings/:id requests
          Legacy,             \* bookings that exist before the requests arrive
          Students, Teachers, Owner,
          Senders,            \* the people who send requests
          None,               \* SQL NULL
          Starts,             \* instants a lesson may start at
          Slot,               \* SLOT_MINUTES, in the unit of Starts
          LegacyDurations,    \* duration_min of existing rows
          SnapshotIsolation

People == Students \cup Teachers \cup {Owner}
RowIds == Requests \cup Legacy

ASSUME BookingAssumption ==
    /\ Starts \subseteq Nat
    /\ Slot \in Nat \ {0}
    /\ LegacyDurations \subseteq Nat \ {0}
    /\ SnapshotIsolation \in BOOLEAN
    /\ Requests \cap Legacy = {}
    /\ Requests \cap Cancels = {}
    /\ Students \cap Teachers = {}
    /\ Owner \notin Students \cup Teachers
    /\ None \notin People
    /\ Senders \subseteq People

VARIABLES teacher,    \* users.admin_id of every student, as committed
          claim,      \* the adminId claim in the student's current access token
          taught,     \* history: everyone who was ever the student's teacher
          rows,       \* the bookings table
          phase,      \* how far each request has come
          want,       \* what a POST asks for, and the teacher it resolved
          plan,       \* the index its FOR UPDATE scanned
          view,       \* its read view: the student's teacher, rows committed since
          undo,       \* what a PATCH cancels, and who asks
          notes       \* committed notifications

vars == <<teacher, claim, taught, rows, phase, want, plan, view, undo, notes>>

-----------------------------------------------------------------------------
NoRow  == [status |-> "none", teacher |-> None, student |-> None, start |-> 0, dur |-> 0]
NoWant == [actor |-> None, student |-> None, teacher |-> None, start |-> 0]
NoView == [teacher |-> None, missed |-> {}]
NoUndo == [actor |-> None, row |-> None]

Plans == {"range", "calendar"}

\* A POST holding a read view; one holding the locks of its FOR UPDATE.
Viewing  == {"viewed", "locked", "inserted"}
Locking  == {"locked", "inserted"}
Answers  == {"rejected", "conflict", "created",
             "checkread", "deadlock", "lost",       \* the three ways to a 500
             "notfound", "cancelled"}

PostPhases  == {"idle", "resolved"} \cup Viewing \cup Answers
PatchPhases == {"idle", "sent", "updated"} \cup Answers

Row == [status  : {"none", "pending", "booked", "cancelled"},
        teacher : Teachers \cup {None},
        student : Students \cup {None},
        start   : Nat,
        dur     : Nat]

Note == [type : {"booking_created", "booking_cancelled"},
         ref  : RowIds,
         user : People]

TypeOK ==
    /\ teacher \in [Students -> Teachers \cup {None}]
    /\ claim \in [Students -> Teachers \cup {None}]
    /\ taught \in [Students -> SUBSET Teachers]
    /\ rows \in [RowIds -> Row]
    /\ phase \in [Requests \cup Cancels -> PostPhases \cup PatchPhases]
    /\ \A q \in Requests : phase[q] \in PostPhases
    /\ \A c \in Cancels : phase[c] \in PatchPhases
    /\ want \in [Requests -> [actor   : People \cup {None},
                              student : Students \cup {None},
                              teacher : Teachers \cup {None},
                              start   : Nat]]
    /\ plan \in [Requests -> Plans]
    /\ view \in [Requests -> [teacher : Teachers \cup {None}, missed : SUBSET RowIds]]
    /\ undo \in [Cancels -> [actor : People \cup {None}, row : RowIds \cup {None}]]
    /\ notes \subseteq Note

-----------------------------------------------------------------------------
(* The interval test shared by the slot computation and the FOR UPDATE.    *)

Overlap(s1, d1, s2, d2) == s1 < s2 + d2 /\ s2 < s1 + d1

Live(r) == rows[r].status \in {"pending", "booked"}

OnCalendar(w, r) == rows[r].teacher = w.teacher

\* Mutant of Takes: scheduled_at < start where the code has scheduled_at < end.
TakesEarlier(r, w) ==
    /\ OnCalendar(w, r)
    /\ rows[r].start < w.start /\ w.start < rows[r].start + rows[r].dur

\* Row r takes up part of the slot w asks for.
Takes(r, w) ==
    /\ OnCalendar(w, r)
    /\ Overlap(rows[r].start, rows[r].dur, w.start, Slot)

(* Locks.  The FOR UPDATE of findOverlappingBooking reads the whole index  *)
(* range admin_id = ? AND scheduled_at < end, or, by the unique index, the *)
(* whole calendar; it keeps an exclusive lock on every row it reads and a  *)
(* lock on the gaps between them.                                          *)

\* Mutant of Covers: the SELECT has lost its FOR UPDATE.
CoversNothing(p, w, t, s) == FALSE

Covers(p, w, t, s) ==
    /\ w.teacher = t
    /\ p = "range" => s < w.start + Slot

RowCovered(p, w, r) ==
    rows[r].status # "none" /\ Covers(p, w, rows[r].teacher, rows[r].start)

\* Mutant of LockedByOther: the 404 branch of PATCH returns without a ROLLBACK.
LockedByLeak(x, r) ==
    \/ \E p \in Requests \ {x} :
          \/ phase[p] \in Locking /\ RowCovered(plan[p], want[p], r)
          \/ phase[p] = "inserted" /\ p = r
    \/ \E c \in Cancels \ {x} :
          phase[c] \in {"updated", "notfound"} /\ undo[c].row = r

\* Row r is exclusively locked by a transaction other than x's.
LockedByOther(x, r) ==
    \/ \E p \in Requests \ {x} :
          \/ phase[p] \in Locking /\ RowCovered(plan[p], want[p], r)
          \/ phase[p] = "inserted" /\ p = r
    \/ \E c \in Cancels \ {x} : phase[c] = "updated" /\ undo[c].row = r

\* q's INSERT waits for the gap that p's scan locked.
WaitsForGap(q, p) ==
    /\ p # q
    /\ phase[p] \in Locking
    /\ Covers(plan[p], want[p], want[q].teacher, want[q].start)

\* Locked transactions that wait for each other's gaps in a cycle through q.
InWaitCycle(q) ==
    \E C \in SUBSET {p \in Requests : phase[p] = "locked"} :
        /\ q \in C
        /\ \A p \in C : /\ \E o \in C : WaitsForGap(p, o)
                        /\ \E o \in C : WaitsForGap(o, p)

\* A commit of row r is a change that no open read view contains.
Missed(r) ==
    [q \in Requests |->
        IF phase[q] \in Viewing
        THEN [view[q] EXCEPT !.missed = @ \cup {r}] ELSE view[q]]

(* resolveRecipients: the counterparty, and the student's teacher as well  *)
(* when a member of staff acts; never NULL, never the actor.               *)
Recipients(actor, student, t) ==
    (IF actor = student THEN {t} ELSE {student, t}) \ {None, actor}

Notify(type, r, users) ==
    notes' = notes \cup {[type |-> type, ref |-> r, user |-> u] : u \in users}

-----------------------------------------------------------------------------
Init ==
    /\ teacher \in [Students -> Teachers \cup {None}]
    /\ claim = teacher
    /\ taught = [s \in Students |-> {teacher[s]} \ {None}]
    /\ rows \in [RowIds -> {NoRow} \cup
                   [status : {"booked"}, teacher : Teachers, student : Students,
                    start : Starts, dur : LegacyDurations]]
    /\ \A q \in Requests : rows[q] = NoRow
    /\ \A l, k \in Legacy :
          /\ rows[l] # NoRow
          /\ l # k /\ rows[l].teacher = rows[k].teacher
                => ~Overlap(rows[l].start, rows[l].dur, rows[k].start, rows[k].dur)
    /\ phase = [x \in Requests \cup Cancels |-> "idle"]
    /\ want = [q \in Requests |-> NoWant]
    /\ plan = [q \in Requests |-> "range"]
    /\ view = [q \in Requests |-> NoView]
    /\ undo = [c \in Cancels |-> NoUndo]
    /\ notes = {}

(* The teacher whose calendar the booking will occupy: a student's own     *)
(* token names it, for staff the student row is read.                      *)
ResolvedTeacher(actor, s) == IF actor = s THEN claim[s] ELSE teacher[s]

\* assertStudentInScope, inside one organization.
InScope(actor, s) == actor \in {s, Owner, teacher[s]}

\* Mutant of Resolve: admin_id taken from the request body.
ResolveFromBody(q, actor, s, start) ==
    /\ phase[q] = "idle"
    /\ InScope(actor, s)
    /\ phase' = [phase EXCEPT ![q] = "resolved"]
    /\ \E t \in Teachers : want' = [want EXCEPT ![q] =
          [actor |-> actor, student |-> s, teacher |-> t, start |-> start]]
    /\ UNCHANGED <<teacher, claim, taught, rows, plan, view, undo, notes>>

Resolve(q, actor, s, start) ==
    /\ phase[q] = "idle"
    /\ IF InScope(actor, s) /\ ResolvedTeacher(actor, s) # None
       THEN /\ phase' = [phase EXCEPT ![q] = "resolved"]
            /\ want' = [want EXCEPT ![q] =
                  [actor |-> actor, student |-> s,
                   teacher |-> ResolvedTeacher(actor, s), start |-> start]]
       ELSE /\ phase' = [phase EXCEPT ![q] = "rejected"]
            /\ UNCHANGED want
    /\ UNCHANGED <<teacher, claim, taught, rows, plan, view, undo, notes>>

(* computeOpenSlots inside the transaction: its first SELECT opens the     *)
(* read view, which shows committed rows only.                             *)
ReadOpenSlots(q) ==
    /\ phase[q] = "resolved"
    /\ \/ /\ \A r \in RowIds : rows[r].status = "booked" => ~Takes(r, want[q])
          /\ phase' = [phase EXCEPT ![q] = "viewed"]
          /\ view' = [view EXCEPT ![q] =
                [teacher |-> teacher[want[q].student], missed |-> {}]]
       \/ /\ phase' = [phase EXCEPT ![q] = "conflict"]
          /\ UNCHANGED view
    /\ UNCHANGED <<teacher, claim, taught, rows, want, plan, undo, notes>>

\* Mutant of LockOverlap: trust the snapshot, skip findOverlappingBooking's rows.
LockUnchecked(q) ==
    /\ phase[q] = "viewed"
    /\ \E p \in Plans :
          /\ \A r \in RowIds : RowCovered(p, want[q], r) => ~LockedByOther(q, r)
          /\ plan' = [plan EXCEPT ![q] = p]
    /\ phase' = [phase EXCEPT ![q] = "locked"]
    /\ UNCHANGED <<teacher, claim, taught, rows, want, view, undo, notes>>

(* findOverlappingBooking ... FOR UPDATE.  It passes when it could lock    *)
(* every row it reads, none has changed since the view, and none overlaps. *)
LockOverlap(q) ==
    /\ phase[q] = "viewed"
    /\ \E p \in Plans :
          /\ \A r \in RowIds : RowCovered(p, want[q], r) =>
                /\ ~LockedByOther(q, r)
                /\ SnapshotIsolation => r \notin view[q].missed
          /\ plan' = [plan EXCEPT ![q] = p]
    /\ \A r \in RowIds : rows[r].status = "booked" => ~Takes(r, want[q])
    /\ phase' = [phase EXCEPT ![q] = "locked"]
    /\ UNCHANGED <<teacher, claim, taught, rows, want, view, undo, notes>>

\* The scan stops at the first overlapping row it can lock (LIMIT 1): 409.
FindOverlap(q) ==
    /\ phase[q] = "viewed"
    /\ \E r \in RowIds :
          /\ rows[r].status = "booked"
          /\ Takes(r, want[q])
          /\ ~LockedByOther(q, r)
          /\ SnapshotIsolation => r \notin view[q].missed
    /\ phase' = [phase EXCEPT ![q] = "conflict"]
    /\ UNCHANGED <<teacher, claim, taught, rows, want, plan, view, undo, notes>>

\* The scan meets a row committed since the read view: ER_CHECKREAD, 500.
MeetChangedRow(q) ==
    /\ phase[q] = "viewed"
    /\ SnapshotIsolation
    /\ \E p \in Plans, r \in view[q].missed :
          RowCovered(p, want[q], r) /\ ~LockedByOther(q, r)
    /\ phase' = [phase EXCEPT ![q] = "checkread"]
    /\ UNCHANGED <<teacher, claim, taught, rows, want, plan, view, undo, notes>>

(* UNIQUE (admin_id, active_scheduled_at), migration 0021.                 *)
SameStart(r, w) ==
    /\ rows[r].status = "booked"
    /\ OnCalendar(w, r)
    /\ rows[r].start = w.start

(* INSERT INTO bookings: waits for the gap locks and the duplicate's lock  *)
(* of others, then either meets ER_DUP_ENTRY (409) or adds the row.        *)
Insert(q) ==
    /\ phase[q] = "locked"
    /\ \A p \in Requests : ~WaitsForGap(q, p)
    /\ \A r \in RowIds : SameStart(r, want[q]) => ~LockedByOther(q, r)
    /\ IF \E r \in RowIds : SameStart(r, want[q])
       THEN /\ phase' = [phase EXCEPT ![q] = "conflict"]
            /\ UNCHANGED rows
       ELSE /\ phase' = [phase EXCEPT ![q] = "inserted"]
            /\ rows' = [rows EXCEPT ![q] =
                  [status |-> "pending", teacher |-> want[q].teacher,
                   student |-> want[q].student, start |-> want[q].start, dur |-> Slot]]
    /\ UNCHANGED <<teacher, claim, taught, want, plan, view, undo, notes>>

(* resolveRecipients reads the student's teacher in the view, the          *)
(* notifications are inserted, COMMIT makes all of it visible at once.     *)
NotifyCommit(q) ==
    /\ phase[q] = "inserted"
    /\ rows' = [rows EXCEPT ![q].status = "booked"]
    /\ phase' = [phase EXCEPT ![q] = "created"]
    /\ view' = Missed(q)
    /\ Notify("booking_created", q,
              Recipients(want[q].actor, want[q].student, view[q].teacher))
    /\ UNCHANGED <<teacher, claim, taught, want, plan, undo>>

\* ROLLBACK of a POST: its row disappears, its locks go with its phase.
Rollback(q, answer) ==
    /\ phase' = [phase EXCEPT ![q] = answer]
    /\ rows' = [rows EXCEPT ![q] = NoRow]
    /\ UNCHANGED <<teacher, claim, taught, want, plan, view, undo, notes>>

\* InnoDB picks a victim in a cycle of waits: ER_LOCK_DEADLOCK, 500.
DeadlockVictim(q) ==
    /\ phase[q] = "locked"
    /\ InWaitCycle(q)
    /\ Rollback(q, "deadlock")

\* The connection, or the process, dies in the middle of a transaction.
LosePost(q) ==
    /\ phase[q] \in {"resolved"} \cup Viewing
    /\ Rollback(q, "lost")

-----------------------------------------------------------------------------
SendCancel(c, actor, r) ==
    /\ phase[c] = "idle"
    /\ phase' = [phase EXCEPT ![c] = "sent"]
    /\ undo' = [undo EXCEPT ![c] = [actor |-> actor, row |-> r]]
    /\ UNCHANGED <<teacher, claim, taught, rows, want, plan, view, notes>>

\* scopeFor on bookings: org for the owner, admin_id for a teacher,
\* student_id for a student.
MayCancel(actor, r) ==
    actor \in {Owner, rows[r].teacher, rows[r].student}

\* Mutant of CancelUpdate: no status = 'booked' in the WHERE.
CancelAnyStatus(c) ==
    LET r == undo[c].row IN
    /\ phase[c] = "sent"
    /\ ~LockedByOther(c, r)
    /\ phase' = [phase EXCEPT ![c] =
          IF rows[r].status # "none" /\ MayCancel(undo[c].actor, r)
          THEN "updated" ELSE "notfound"]
    /\ UNCHANGED <<teacher, claim, taught, rows, want, plan, view, undo, notes>>

(* UPDATE bookings SET status = 'cancelled' WHERE id = ? AND status =      *)
(* 'booked' AND scope: the transaction's first statement, so it has no     *)
(* view; it locks the row, and 404s when the row does not qualify.         *)
CancelUpdate(c) ==
    LET r == undo[c].row IN
    /\ phase[c] = "sent"
    /\ ~LockedByOther(c, r)
    /\ phase' = [phase EXCEPT ![c] =
          IF rows[r].status = "booked" /\ MayCancel(undo[c].actor, r)
          THEN "updated" ELSE "notfound"]
    /\ UNCHANGED <<teacher, claim, taught, rows, want, plan, view, undo, notes>>

CancelCommit(c) ==
    LET r == undo[c].row IN
    /\ phase[c] = "updated"
    /\ rows' = [rows EXCEPT ![r].status = "cancelled"]
    /\ phase' = [phase EXCEPT ![c] = "cancelled"]
    /\ view' = Missed(r)
    /\ Notify("booking_cancelled", r,
              Recipients(undo[c].actor, rows[r].student, teacher[rows[r].student]))
    /\ UNCHANGED <<teacher, claim, taught, want, plan, undo>>

LoseCancel(c) ==
    /\ phase[c] \in {"sent", "updated"}
    /\ phase' = [phase EXCEPT ![c] = "lost"]
    /\ UNCHANGED <<teacher, claim, taught, rows, want, plan, view, undo, notes>>

-----------------------------------------------------------------------------
(* PATCH /students/:id/admin.  The UPDATE waits for the shared lock that   *)
(* the foreign key check of an uncommitted booking holds on the student.   *)
Reassign(s, t) ==
    /\ \A q \in Requests : ~(phase[q] = "inserted" /\ want[q].student = s)
    /\ teacher' = [teacher EXCEPT ![s] = t]
    /\ taught' = [taught EXCEPT ![s] = @ \cup ({t} \ {None})]
    /\ UNCHANGED <<claim, rows, phase, want, plan, view, undo, notes>>

\* POST /auth/refresh (or a new login) mints a token from the user row.
RefreshToken(s) ==
    /\ claim' = [claim EXCEPT ![s] = teacher[s]]
    /\ UNCHANGED <<teacher, taught, rows, phase, want, plan, view, undo, notes>>

-----------------------------------------------------------------------------
PostStep(q) ==
    \/ ReadOpenSlots(q) \/ LockOverlap(q) \/ FindOverlap(q) \/ MeetChangedRow(q)
    \/ Insert(q) \/ NotifyCommit(q) \/ DeadlockVictim(q)

CancelStep(c) == CancelUpdate(c) \/ CancelCommit(c)

Next ==
    \/ \E q \in Requests :
          \/ \E s \in Students, start \in Starts : \E actor \in Senders \ (Students \ {s}) :
                Resolve(q, actor, s, start)
          \/ PostStep(q)
          \/ LosePost(q)
    \/ \E c \in Cancels :
          \/ \E actor \in Senders, r \in RowIds : SendCancel(c, actor, r)
          \/ CancelStep(c)
          \/ LoseCancel(c)
    \/ \E s \in Students :
          \/ \E t \in Teachers \cup {None} : Reassign(s, t)
          \/ RefreshToken(s)

Spec == Init /\ [][Next]_vars

(* A handler that can take its next step takes it: node's event loop and   *)
(* the server both run on, and InnoDB's deadlock detector always runs.     *)
(* Nobody is obliged to send a request, and nothing is obliged to be lost. *)
Fairness ==
    /\ \A q \in Requests : WF_vars(PostStep(q))
    /\ \A c \in Cancels : WF_vars(CancelStep(c))

FairSpec == Spec /\ Fairness

-----------------------------------------------------------------------------
(* Properties *)

\* No teacher is ever booked for two lessons that overlap, whatever the
\* lengths of the older lessons and however the requests interleave
\* (findOverlappingBooking's reason to exist).
NoDoubleBooking ==
    \A r, k \in RowIds :
        /\ r # k
        /\ rows[r].status = "booked" /\ rows[k].status = "booked"
        /\ rows[r].teacher = rows[k].teacher
        => ~Overlap(rows[r].start, rows[r].dur, rows[k].start, rows[k].dur)

\* A booking is cancelled by one request only: of several racing PATCHes one
\* gets the 200 and sends the notifications, the others get a 404.
CancelledOnce ==
    \A c \in Cancels : phase[c] = "cancelled" =>
        /\ rows[undo[c].row].status = "cancelled"
        /\ \A d \in Cancels \ {c} :
              phase[d] \in {"updated", "cancelled"} => undo[d].row # undo[c].row

\* A booking occupies the calendar of somebody who is, or was at some time,
\* the student's own teacher, whoever made it.
OnlyOnATeachersCalendar ==
    \A q \in Requests : rows[q].status # "none" =>
        rows[q].teacher \in taught[rows[q].student]

\* Once the FOR UPDATE has passed, the INSERT cannot meet the unique index:
\* the ER_DUP_ENTRY branch is a second fence that the first one makes idle.
UniqueIndexNeverFires ==
    \A q \in Requests : phase[q] = "locked" =>
        \A r \in RowIds : ~SameStart(r, want[q])

\* A request that was taken up gets an answer: waits for locks end, because
\* the holders finish or one of them is a deadlock victim.
EveryRequestAnswered ==
    /\ \A q \in Requests : phase[q] = "resolved" ~> phase[q] \in Answers
    /\ \A c \in Cancels : phase[c] = "sent" ~> phase[c] \in Answers

\* The routes implement the abstract calendar: a committed booking is put on
\* it without a clash, stays as it is, and is cancelled at most once.
RowsWith(st) == {r \in RowIds : rows[r].status = st}

OnCalendars ==
    {[id |-> r, teacher |-> rows[r].teacher,
      start |-> rows[r].start, dur |-> rows[r].dur] : r \in RowsWith("booked")}

C == INSTANCE Calendar WITH Ids <- RowIds, lessons <- OnCalendars,
                            cancelled <- RowsWith("cancelled")

ImplementsCalendar == C!CalendarSpec

\* counterparty.js:80-85: the teacher whose calendar was just filled is told,
\* unless it is the teacher who acted.
TeacherTold ==
    \A q \in Requests : phase[q] = "created" =>
        \/ want[q].actor = want[q].teacher
        \/ [type |-> "booking_created", ref |-> q, user |-> want[q].teacher] \in notes

=============================================================================
