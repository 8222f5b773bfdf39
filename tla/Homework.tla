------------------------------ MODULE Homework ------------------------------
(***************************************************************************)
(* One course: its enrolments and its deletion (courses.route.js), its     *)
(* assignments (assignments.route.js) and the work students hand in, edit  *)
(* and have reviewed (submissions.route.js).                               *)
(*                                                                         *)
(* As in Booking, an action is what happens between two awaits that other  *)
(* requests can tell apart.  Any transaction may fail at any point (Abort: *)
(* a deadlock, ER_CHECKREAD, a lost connection), so snapshot isolation     *)
(* need not be modelled: all it does to these handlers is make them fail.  *)
(* What an answer contains, and the reads that only produce it, are left   *)
(* out; so are titles, dates, file sizes and types.                        *)
(***************************************************************************)
EXTENDS Naturals, FiniteSets

CONSTANTS Students, Teacher,
          Foreign,      \* students whose admin_id is not the course's teacher
          Assignments,
          Submits,      \* POST submissions; also the row each may insert
          Keys,         \* files uploaded to the bucket, by s3_key
          Edits,        \* PATCH /submissions/:id
          Reviews,      \* PATCH /submissions/:id/review
          Patches,      \* PATCH /courses/:courseId/assignments/:id
          Changes,      \* the bodies those may have
          Deletes,      \* DELETE /courses/:id
          Limits,       \* values of allowed_attempts other than NULL
          None,         \* SQL NULL: no limit, no text, no file
          Same          \* a field that a PATCH leaves out

Requests == Submits \cup Edits \cup Reviews \cup Patches \cup Deletes

Parts == {"text", "files"}    \* accepts_text; accepts_files and accepts_recording
Limit == Limits \cup {None}

\* A flag left out of the body is in neither set.
Change == [status : {Same, "draft", "published"}, limit : Limit \cup {Same},
           on : SUBSET Parts, off : SUBSET Parts]

ASSUME HomeworkAssumption ==
    /\ Limits \subseteq Nat \ {0}
    /\ Same \notin Limit /\ Same \notin {"draft", "published"}
    /\ None \notin Limits \cup Submits \cup Edits \cup Keys \cup Students \cup Assignments
    /\ Foreign \subseteq Students
    /\ Teacher \notin Students
    /\ Submits \cap Edits = {} /\ Deletes \cap (Submits \cup Edits \cup Reviews \cup Patches) = {}
    /\ (Submits \cup Edits) \cap (Reviews \cup Patches) = {} /\ Reviews \cap Patches = {}
    /\ \A c \in Changes : c \in Change /\ c.on \cap c.off = {}

VARIABLES course,     \* is the courses row there?
          hw,         \* the assignments table
          enrolled,   \* course_enrollments
          work,       \* submissions, with their submission_files
          objects,    \* the bucket
          notes,      \* notifications
          phase,      \* how far each request has come
          sent,       \* a POST: what it sends, the limit it read, its attempt
          held,       \* an edit or a review: its row and what it read of it
          patch,      \* a PATCH of an assignment: its body and what it computed
          doomed,     \* a DELETE: what it gathered before its transaction
          limits      \* history: every allowed_attempts an assignment has had

vars == <<course, hw, enrolled, work, objects, notes, phase, sent, held, patch,
          doomed, limits>>

-----------------------------------------------------------------------------
Absent == [status |-> "absent", limit |-> None, accepts |-> {}]
NoWork == [state |-> "none", student |-> None, hw |-> None, attempt |-> 0,
           text |-> None, file |-> None]
NoSent == [student |-> None, hw |-> None, limit |-> None, text |-> FALSE,
           file |-> None, attempt |-> 0]
NoHeld == [row |-> None, blank |-> FALSE, text |-> FALSE, was |-> "none"]
NoPatch == [hw |-> None, status |-> Same, limit |-> Same, on |-> {}, off |-> {},
            was |-> "absent", told |-> {}]
NoDoom == [hw |-> {}, work |-> {}, keys |-> {}, students |-> {}]

Open    == {"read", "numbered", "inserted",        \* POST of a submission
            "viewed", "held",                      \* edit, review
            "sent", "patched",                     \* PATCH of an assignment
            "listed", "gathered", "confirmed"}     \* DELETE of the course
Answers == {"ok", "refused", "failed"}             \* 2xx, 4xx, 5xx

Rows == [state   : {"none", "pending", "submitted", "reviewed"},
         student : Students \cup {None}, hw : Assignments \cup {None}, attempt : Nat,
         text    : Submits \cup Edits \cup {None}, file : Keys \cup {None}]
Sends == [student : Students \cup {None}, hw : Assignments \cup {None}, limit : Limit,
          text    : BOOLEAN, file : Keys \cup {None}, attempt : Nat]
Holds == [row : Submits \cup {None}, blank : BOOLEAN, text : BOOLEAN,
          was : {"none", "submitted", "reviewed"}]
Bodies == [hw  : Assignments \cup {None}, status : {Same, "draft", "published"},
           limit : Limit \cup {Same}, on : SUBSET Parts, off : SUBSET Parts,
           was : {"absent", "draft", "published"}, told : SUBSET Students]

TypeOK ==
    /\ course \in BOOLEAN
    /\ hw \in [Assignments -> [status : {"absent", "draft", "published"},
                               limit : Limit, accepts : SUBSET Parts]]
    /\ enrolled \subseteq Students
    /\ work \in [Submits -> Rows]
    /\ objects \subseteq Keys
    /\ phase \in [Requests -> {"idle"} \cup Open \cup Answers]
    /\ sent \in [Submits -> Sends]
    /\ held \in [Edits \cup Reviews -> Holds]
    /\ patch \in [Patches -> Bodies]
    /\ limits \in [Assignments -> SUBSET Limit]

-----------------------------------------------------------------------------
Committed(r) == work[r].state \in {"submitted", "reviewed"}

\* Rows of one student for one assignment.
Own(a, s) ==
    {r \in Submits : work[r].state # "none" /\ work[r].hw = a /\ work[r].student = s}

\* Mutant of MaxAttempt: WHERE assignment_id = ? without the student.
MaxOfAssignment(a, s) ==
    LET R == UNION {Own(a, z) : z \in Students}
    IN CHOOSE n \in {0} \cup {work[r].attempt : r \in R} :
          \A r \in R : work[r].attempt <= n

\* SELECT COALESCE(MAX(attempt), 0).
MaxAttempt(a, s) ==
    CHOOSE n \in {0} \cup {work[r].attempt : r \in Own(a, s)} :
        \A r \in Own(a, s) : work[r].attempt <= n

(* Row r is exclusively locked by a request other than x: by the FOR       *)
(* UPDATE of an edit or a review, by the transaction that inserted it, or  *)
(* by MAX(attempt) ... FOR UPDATE, which reads the last row of the pair.   *)
RowLocked(x, r) ==
    \/ \E y \in (Edits \cup Reviews) \ {x} : phase[y] = "held" /\ held[y].row = r
    \/ \E p \in Submits \ {x} :
          \/ phase[p] = "inserted" /\ p = r
          \/ /\ phase[p] = "numbered"
             /\ r \in Own(sent[p].hw, sent[p].student)
             /\ work[r].attempt = sent[p].attempt - 1

\* Mutant of PatchLocks: the SELECT of the PATCH has lost its FOR UPDATE.
PatchLocksNothing(a) == FALSE

\* A PATCH of the assignment has its row exclusively locked.
PatchLocks(a) == \E p \in Patches : phase[p] = "patched" /\ patch[p].hw = a

\* The foreign key check of an open INSERT has it locked in shared mode.
SubmitLocks(a) == \E q \in Submits : phase[q] = "inserted" /\ sent[q].hw = a

Answer(x, a) == phase' = [phase EXCEPT ![x] = a]

Note(t, users, ref, by) ==
    {[type |-> t, user |-> u, ref |-> ref, by |-> by] : u \in users}

Init ==
    /\ course = TRUE
    /\ hw = [a \in Assignments |-> Absent]
    /\ enrolled = {}
    /\ work = [q \in Submits |-> NoWork]
    /\ objects = Keys
    /\ notes = {}
    /\ phase = [x \in Requests |-> "idle"]
    /\ sent = [q \in Submits |-> NoSent]
    /\ held = [x \in Edits \cup Reviews |-> NoHeld]
    /\ patch = [p \in Patches |-> NoPatch]
    /\ doomed = [d \in Deletes |-> NoDoom]
    /\ limits = [a \in Assignments |-> {}]

-----------------------------------------------------------------------------
(* Enrolments.                                                             *)

(* Enrolling gives the course's teacher access to the student's work; if   *)
(* somebody else teaches the student, the course's teacher is told.  The   *)
(* unique key answers 409 to a second enrolment, the foreign key fails the *)
(* INSERT when the course has gone.                                        *)
Enrol(s) ==
    /\ course
    /\ s \notin enrolled
    /\ enrolled' = enrolled \cup {s}
    /\ notes' = IF s \in Foreign
                THEN notes \cup Note("course_enrolled", {Teacher}, None, s) ELSE notes
    /\ UNCHANGED <<course, hw, work, objects, phase, sent, held, patch, doomed, limits>>

Unenrol(s) ==
    /\ s \in enrolled
    /\ enrolled' = enrolled \ {s}
    /\ UNCHANGED <<course, hw, work, objects, notes, phase, sent, held, patch, doomed, limits>>

-----------------------------------------------------------------------------
(* Assignments.                                                            *)

\* POST: always a draft; the foreign key needs the course; ids are new.
Create(a, limit, accepts) ==
    /\ course
    /\ limits[a] = {}
    /\ accepts # {}
    /\ hw' = [hw EXCEPT ![a] = [status |-> "draft", limit |-> limit, accepts |-> accepts]]
    /\ limits' = [limits EXCEPT ![a] = {limit}]
    /\ UNCHANGED <<course, enrolled, work, objects, notes, phase, sent, held, patch, doomed>>

SendPatch(p, a, c) ==
    /\ phase[p] = "idle"
    /\ course
    /\ Answer(p, "sent")
    /\ patch' = [patch EXCEPT ![p] = 
          [hw |-> a, status |-> c.status, limit |-> c.limit, on |-> c.on, off |-> c.off,
           was |-> "absent", told |-> {}]]
    /\ UNCHANGED <<course, hw, enrolled, work, objects, notes, sent, held, doomed, limits>>

Set(old, new) == IF new = Same THEN old ELSE new

\* Mutant of Merged: the defaults of POST stand in for the absent flags.
MergedWithDefaults(a, p) == (Parts \cup patch[p].on) \ patch[p].off

\* mergeAcceptsFlags.
Merged(a, p) == (hw[a].accepts \cup patch[p].on) \ patch[p].off

Publishes(p, before) == patch[p].status = "published" /\ before # "published"
Retracts(p, before)  == patch[p].status = "draft" /\ before = "published"

\* 404, 400 (acceptsNothing), 409 (work has been submitted).
RefusesPatch(p, a) ==
    \/ hw[a].status = "absent"
    \/ Merged(a, p) = {}
    \/ /\ Retracts(p, hw[a].status)
       /\ \E r \in Submits : Committed(r) /\ work[r].hw = a

(* SELECT ... FOR UPDATE of the assignment, the checks, the UPDATE and, on *)
(* publication, the read of the enrolled students.                         *)
LockAssignment(p) ==
    LET a == patch[p].hw IN
    /\ phase[p] = "sent"
    /\ ~PatchLocks(a) /\ ~SubmitLocks(a)
    /\ IF RefusesPatch(p, a)
       THEN Answer(p, "refused") /\ UNCHANGED patch
       ELSE /\ Answer(p, "patched")
            /\ patch' = [patch EXCEPT
                  ![p].was = hw[a].status,
                  ![p].told = IF Publishes(p, hw[a].status) THEN enrolled ELSE {}]
    /\ UNCHANGED <<course, hw, enrolled, work, objects, notes, sent, held, doomed, limits>>

CommitPatch(p) ==
    LET a == patch[p].hw IN
    /\ phase[p] = "patched"
    /\ Answer(p, "ok")
    /\ hw' = [hw EXCEPT ![a] = [status  |-> Set(@.status, patch[p].status),
                                limit   |-> Set(@.limit, patch[p].limit),
                                accepts |-> (@.accepts \cup patch[p].on) \ patch[p].off]]
    /\ limits' = [limits EXCEPT ![a] = @ \cup {hw'[a].limit}]
    /\ notes' = LET kept == {n \in notes : ~(/\ Retracts(p, patch[p].was)
                                             /\ n.type = "assignment_published"
                                             /\ n.ref = a)}
                IN kept \cup Note("assignment_published", patch[p].told, a, p)
    /\ UNCHANGED <<course, enrolled, work, objects, sent, held, patch, doomed>>

-----------------------------------------------------------------------------
(* Handing in.                                                             *)

\* loadAssignmentInScope, for a student.
Assigned(s, a) == hw[a].status = "published" /\ s \in enrolled

\* 404 (not published, not enrolled), 400 (a part not accepted, no part at
\* all, a file that is not in the bucket).
RefusesWork(s, a, text, file) ==
    \/ ~Assigned(s, a)
    \/ text /\ "text" \notin hw[a].accepts
    \/ file # None /\ ("files" \notin hw[a].accepts \/ file \notin objects)
    \/ ~text /\ file = None

\* requireAssignment and the HEAD of every file, before the transaction.
ReadAssignment(q, s, a, text, file) ==
    /\ phase[q] = "idle"
    /\ IF RefusesWork(s, a, text, file)
       THEN Answer(q, "refused") /\ UNCHANGED sent
       ELSE /\ Answer(q, "read")
            /\ sent' = [sent EXCEPT ![q] =
                  [student |-> s, hw |-> a, limit |-> hw[a].limit,
                   text |-> text, file |-> file, attempt |-> 0]]
    /\ UNCHANGED <<course, hw, enrolled, work, objects, notes, held, patch, doomed, limits>>

\* Mutant of OverLimit: the attempts so far are compared, not the new one.
OverLimitByOne(q, n) == sent[q].limit # None /\ n - 1 > sent[q].limit

\* The limit is the one read before the transaction.
OverLimit(q, n) == sent[q].limit # None /\ n > sent[q].limit

\* SELECT MAX(attempt) ... FOR UPDATE waits for the last row of the pair.
LockAttempts(q) ==
    LET mine == Own(sent[q].hw, sent[q].student)
        n    == MaxAttempt(sent[q].hw, sent[q].student) + 1
    IN
    /\ phase[q] = "read"
    /\ \A r \in mine : work[r].attempt = n - 1 => ~RowLocked(q, r)
    /\ IF OverLimit(q, n)
       THEN Answer(q, "refused") /\ UNCHANGED sent
       ELSE Answer(q, "numbered") /\ sent' = [sent EXCEPT ![q].attempt = n]
    /\ UNCHANGED <<course, hw, enrolled, work, objects, notes, held, patch, doomed, limits>>

\* Mutant of Duplicate: no unique key on s3_key.
DuplicateAttempt(q) ==
    \E r \in Own(sent[q].hw, sent[q].student) : work[r].attempt = sent[q].attempt

\* ER_DUP_ENTRY, 409: the attempt, or a file that is recorded already.
Duplicate(q) ==
    \/ \E r \in Own(sent[q].hw, sent[q].student) : work[r].attempt = sent[q].attempt
    \/ sent[q].file # None /\ \E r \in Submits : Committed(r) /\ work[r].file = sent[q].file

(* The INSERTs wait for the gap lock of another submission of the pair,    *)
(* for an uncommitted row with the same file, and, checking the foreign    *)
(* key, for the PATCH of the assignment; without the assignment they fail. *)
InsertSubmission(q) ==
    LET a == sent[q].hw IN
    /\ phase[q] = "numbered"
    /\ \A p \in Submits \ {q} :
          /\ ~(/\ phase[p] \in {"numbered", "inserted"}
               /\ sent[p].hw = a /\ sent[p].student = sent[q].student)
          /\ ~(/\ phase[p] = "inserted"
               /\ sent[p].file = sent[q].file /\ sent[q].file # None)
    /\ ~PatchLocks(a)
    /\ \/ /\ hw[a].status = "absent"
          /\ Answer(q, "failed") /\ UNCHANGED work
       \/ /\ hw[a].status # "absent" /\ Duplicate(q)
          /\ Answer(q, "refused") /\ UNCHANGED work
       \/ /\ hw[a].status # "absent" /\ ~Duplicate(q)
          /\ Answer(q, "inserted")
          /\ work' = [work EXCEPT ![q] =
                [state |-> "pending", student |-> sent[q].student, hw |-> a,
                 attempt |-> sent[q].attempt,
                 text |-> IF sent[q].text THEN q ELSE None, file |-> sent[q].file]]
    /\ UNCHANGED <<course, hw, enrolled, objects, notes, sent, held, patch, doomed, limits>>

CommitSubmission(q) ==
    /\ phase[q] = "inserted"
    /\ Answer(q, "ok")
    /\ work' = [work EXCEPT ![q].state = "submitted"]
    /\ notes' = notes \cup Note("submission_received", {Teacher}, q, q)
    /\ UNCHANGED <<course, hw, enrolled, objects, sent, held, patch, doomed, limits>>

-----------------------------------------------------------------------------
(* Editing and reviewing what was handed in.                               *)

\* loadSubmissionInScope opens the read view, in which an edit will find
\* accepts_text later on.
ViewSubmission(x, r, blank) ==
    /\ phase[x] = "idle"
    /\ IF Committed(r)
       THEN /\ Answer(x, "viewed")
            /\ held' = [held EXCEPT ![x] =
                  [row |-> r, blank |-> blank,
                   text |-> "text" \in hw[work[r].hw].accepts, was |-> work[r].state]]
       ELSE Answer(x, "refused") /\ UNCHANGED held
    /\ UNCHANGED <<course, hw, enrolled, work, objects, notes, sent, patch, doomed, limits>>

\* Mutant of LockEdit: the status is taken from the scope load.
LockEditTrusting(e) ==
    LET r == held[e].row IN
    /\ phase[e] = "viewed"
    /\ ~RowLocked(e, r)
    /\ IF work[r].state # "none" /\ held[e].was # "reviewed"
       THEN Answer(e, "held") ELSE Answer(e, "refused")
    /\ UNCHANGED <<course, hw, enrolled, work, objects, notes, sent, held, patch, doomed, limits>>

(* SELECT status ... FOR UPDATE.  The row may have gone with the course:   *)
(* reading the status of no row throws.  409 after the review, 400 for a   *)
(* text that is not accepted or for leaving nothing.                       *)
LockEdit(e) ==
    LET r == held[e].row IN
    /\ phase[e] = "viewed"
    /\ ~RowLocked(e, r)
    /\ \/ work[r].state = "none" /\ Answer(e, "failed")
       \/ /\ \/ work[r].state = "reviewed"
             \/ work[r].state = "submitted" /\ ~held[e].blank /\ ~held[e].text
             \/ work[r].state = "submitted" /\ held[e].blank /\ work[r].file = None
          /\ Answer(e, "refused")
       \/ /\ work[r].state = "submitted"
          /\ IF held[e].blank THEN work[r].file # None ELSE held[e].text
          /\ Answer(e, "held")
    /\ UNCHANGED <<course, hw, enrolled, work, objects, notes, sent, held, patch, doomed, limits>>

CommitEdit(e) ==
    /\ phase[e] = "held"
    /\ Answer(e, "ok")
    /\ work' = [work EXCEPT ![held[e].row].text = IF held[e].blank THEN None ELSE e]
    /\ UNCHANGED <<course, hw, enrolled, objects, notes, sent, held, patch, doomed, limits>>

\* Mutant of LockReview: wasAlreadyReviewed from the scope load.
LockReviewTrusting(v) ==
    /\ phase[v] = "viewed"
    /\ ~RowLocked(v, held[v].row)
    /\ Answer(v, IF work[held[v].row].state = "none" THEN "failed" ELSE "held")
    /\ UNCHANGED <<course, hw, enrolled, work, objects, notes, sent, held, patch, doomed, limits>>

LockReview(v) ==
    LET r == held[v].row IN
    /\ phase[v] = "viewed"
    /\ ~RowLocked(v, r)
    /\ Answer(v, IF work[r].state = "none" THEN "failed" ELSE "held")
    /\ held' = [held EXCEPT ![v].was = work[r].state]
    /\ UNCHANGED <<course, hw, enrolled, work, objects, notes, sent, patch, doomed, limits>>

\* Feedback and status are written again by a second review, the student is
\* told by the first.
CommitReview(v) ==
    LET r == held[v].row IN
    /\ phase[v] = "held"
    /\ Answer(v, "ok")
    /\ work' = [work EXCEPT ![r].state = "reviewed"]
    /\ notes' = IF held[v].was = "reviewed" THEN notes
                ELSE notes \cup Note("submission_reviewed", {work[r].student}, r, v)
    /\ UNCHANGED <<course, hw, enrolled, objects, sent, held, patch, doomed, limits>>

-----------------------------------------------------------------------------
(* Deleting the course: plain reads, each on its own, then a transaction.  *)

ListAssignments(d) ==
    /\ phase[d] = "idle"
    /\ IF course
       THEN /\ Answer(d, "listed")
            /\ doomed' = [doomed EXCEPT ![d].hw = {a \in Assignments : hw[a].status # "absent"}]
       ELSE Answer(d, "refused") /\ UNCHANGED doomed
    /\ UNCHANGED <<course, hw, enrolled, work, objects, notes, sent, held, patch, limits>>

WorkFor(A) == {r \in Submits : Committed(r) /\ work[r].hw \in A}

GatherWork(d) ==
    /\ phase[d] = "listed"
    /\ Answer(d, "gathered")
    /\ doomed' = [doomed EXCEPT
          ![d].work = WorkFor(doomed[d].hw),
          ![d].keys = {work[r].file : r \in WorkFor(doomed[d].hw)} \ {None}]
    /\ UNCHANGED <<course, hw, enrolled, work, objects, notes, sent, held, patch, limits>>

\* The enrolled students, the submissions counted again, and the gate: 409
\* unless confirm=true.
Gate(d, confirm) ==
    /\ phase[d] = "gathered"
    /\ Answer(d, IF WorkFor(doomed[d].hw) # {} /\ ~confirm THEN "refused" ELSE "confirmed")
    /\ doomed' = [doomed EXCEPT ![d].students = enrolled]
    /\ UNCHANGED <<course, hw, enrolled, work, objects, notes, sent, held, patch, limits>>

PointsInto(n, doom) ==
    \/ n.type = "assignment_published" /\ n.ref \in doom.hw
    \/ n.type \in {"submission_received", "submission_reviewed"} /\ n.ref \in doom.work
    \/ n.type = "course_enrolled"

(* The notifications, then DELETE FROM courses with its cascade, which     *)
(* waits for every lock on a row below the course.  404 if another DELETE  *)
(* was faster.                                                             *)
DeleteCourse(d) ==
    /\ phase[d] = "confirmed"
    /\ \A a \in Assignments : ~PatchLocks(a) /\ ~SubmitLocks(a)
    /\ \A r \in Submits : ~RowLocked(d, r)
    /\ IF course
       THEN /\ Answer(d, "ok")
            /\ course' = FALSE
            /\ hw' = [a \in Assignments |-> Absent]
            /\ enrolled' = {}
            /\ work' = [r \in Submits |-> NoWork]
            /\ notes' = {n \in notes : ~PointsInto(n, doomed[d])}
                          \cup Note("course_deleted", doomed[d].students, None, d)
       ELSE /\ Answer(d, "refused")
            /\ UNCHANGED <<course, hw, enrolled, work, notes>>
    /\ UNCHANGED <<objects, sent, held, patch, doomed, limits>>

\* Mutant of CleanObject: the objects go first, as in library.route.js.
CleanFirst(d, k) ==
    /\ phase[d] \in {"confirmed", "ok"}
    /\ k \in doomed[d].keys \cap objects
    /\ objects' = objects \ {k}
    /\ UNCHANGED <<course, hw, enrolled, work, notes, phase, sent, held, patch, doomed, limits>>

\* deleteSubmissionObject after the commit; a failure is logged and forgotten.
CleanObject(d, k) ==
    /\ phase[d] = "ok"
    /\ k \in doomed[d].keys \cap objects
    /\ objects' = objects \ {k}
    /\ UNCHANGED <<course, hw, enrolled, work, notes, phase, sent, held, patch, doomed, limits>>

\* The transaction is rolled back, or the process dies before it.
Abort(x) ==
    /\ phase[x] \in Open
    /\ Answer(x, "failed")
    /\ work' = IF phase[x] = "inserted" THEN [work EXCEPT ![x] = NoWork] ELSE work
    /\ UNCHANGED <<course, hw, enrolled, objects, notes, sent, held, patch, doomed, limits>>

-----------------------------------------------------------------------------
Next ==
    \/ \E s \in Students : Enrol(s) \/ Unenrol(s)
    \/ \E a \in Assignments, limit \in Limit, accepts \in SUBSET Parts :
          Create(a, limit, accepts)
    \/ \E p \in Patches :
          \/ \E a \in Assignments, c \in Changes : SendPatch(p, a, c)
          \/ LockAssignment(p) \/ CommitPatch(p)
    \/ \E q \in Submits :
          \/ \E s \in Students, a \in Assignments, text \in BOOLEAN, file \in Keys \cup {None} :
                ReadAssignment(q, s, a, text, file)
          \/ LockAttempts(q) \/ InsertSubmission(q) \/ CommitSubmission(q)
    \/ \E e \in Edits :
          \/ \E r \in Submits, blank \in BOOLEAN : ViewSubmission(e, r, blank)
          \/ LockEdit(e) \/ CommitEdit(e)
    \/ \E v \in Reviews :
          \/ \E r \in Submits : ViewSubmission(v, r, FALSE)
          \/ LockReview(v) \/ CommitReview(v)
    \/ \E d \in Deletes :
          \/ ListAssignments(d) \/ GatherWork(d)
          \/ \E confirm \in BOOLEAN : Gate(d, confirm)
          \/ DeleteCourse(d)
          \/ \E k \in Keys : CleanObject(d, k)
    \/ \E x \in Requests : Abort(x)

Spec == Init /\ [][Next]_vars

-----------------------------------------------------------------------------
(* Properties *)

\* The attempts of a student at an assignment are 1, 2, ... without a gap or
\* a repetition, committed or not, however many are submitted at once
\* (submissions.route.js:305-319).
AttemptsInSequence ==
    \A a \in Assignments, s \in Students :
        {work[r].attempt : r \in Own(a, s)} = 1 .. Cardinality(Own(a, s))

\* A student has no more attempts than the most generous limit the assignment
\* ever had, although each request checks the limit it read before it took
\* the lock (submissions.route.js:245, 325).
AttemptsWithinLimit ==
    \A a \in Assignments, s \in Students :
        \/ Own(a, s) = {}
        \/ None \in limits[a]
        \/ \E l \in limits[a] : Cardinality(Own(a, s)) <= l

\* A confirmation sent twice makes one attempt: no two submissions hold the
\* same uploaded file (submissions.route.js:412-418).
OneAttemptPerUpload ==
    \A r, k \in Submits :
        r # k /\ Committed(r) /\ Committed(k) /\ work[r].file # None
            => work[r].file # work[k].file

\* The work a teacher has reviewed is the work that stays
\* (submissions.route.js:602-607).
ReviewedIsFrozen ==
    [][\A r \in Submits : work[r].state = "reviewed" /\ work'[r].state # "none" =>
          work'[r].state = "reviewed" /\ work'[r].text = work[r].text]_vars

\* A student hears of a submission's review once, however often and by however
\* many requests it is reviewed (submissions.route.js:733-741).
ReviewToldOnce ==
    \A n, m \in notes :
        n.type = "submission_reviewed" /\ m.type = n.type /\ m.ref = n.ref => m = n

\* A student is told once of a published assignment and never of a draft, for
\* all the publishing and retracting there may be (assignments.route.js:250-261).
PublishToldOnce ==
    \A n \in notes : n.type = "assignment_published" =>
        /\ hw[n.ref].status # "draft"
        /\ \A m \in notes : m.type = n.type /\ m.ref = n.ref /\ m.user = n.user => m = n

\* No assignment is retracted while it has work, committed or about to be
\* (assignments.route.js:281-304).
RetractedWithoutWork ==
    [][\A a \in Assignments :
          hw[a].status = "published" /\ hw'[a].status = "draft" =>
              \A r \in Submits : work[r].hw # a]_vars

\* Changes of single flags, each harmless, never add up to an assignment that
\* accepts nothing (assignments.route.js:60-79).
AcceptsSomething ==
    \A a \in Assignments : hw[a].status # "absent" => hw[a].accepts # {}

\* Every submission's file is in the bucket, whatever became of the deletion
\* of its course (courses.route.js:700-712).
NoBrokenFile ==
    \A r \in Submits : Committed(r) /\ work[r].file # None => work[r].file \in objects

\* The course as a class sees it: committed submissions, and what students have
\* been told of them and of their assignments.
HandedIn ==
    {[id |-> r, student |-> work[r].student, hw |-> work[r].hw, attempt |-> work[r].attempt,
      text |-> work[r].text, file |-> work[r].file, state |-> work[r].state] :
        r \in {q \in Submits : Committed(q)}}

Told == {n \in notes : n.type \in {"assignment_published", "submission_reviewed"}}

C == INSTANCE Coursework WITH Ids <- Submits, open <- course, board <- hw,
                              granted <- limits, handed <- HandedIn, told <- Told

\* Through every interleaving, failure and deletion, the routes do to a course
\* what Coursework allows and nothing else: work is handed in, rewritten and
\* reviewed one whole step at a time (submissions.route.js:301-394, 608-687,
\* 715-765), and what a class sees of a deletion is a single moment
\* (courses.route.js:613-696).
ImplementsCoursework == C!CourseSpec

\* assignments.route.js:285-290, submissions.helpers.js:62-65: nobody hands in
\* work for homework that is not set; what was handed in stays in reach.
NoWorkOnDraft ==
    \A r \in Submits : Committed(r) => hw[work[r].hw].status = "published"

=============================================================================
