--------------------------- MODULE HomeworkProofs ---------------------------
(***************************************************************************)
(* Proofs about Homework, for any number of students, assignments, files   *)
(* and requests.                                                           *)
(*                                                                         *)
(* No check of the handlers is made under a lock that lasts from the first *)
(* read to the commit.  What makes them right is which phases exclude each *)
(* other on one row: Numbering for the attempts of a student, Holding for  *)
(* a submission, Patching for an assignment, Ending for the whole course.  *)
(***************************************************************************)
EXTENDS Homework, FiniteSetTheorems, TLAPS

Markers == Edits \cup Reviews

\* What a POST has sent is what its row says, and a row is uncommitted exactly
\* between the INSERT and the COMMIT.
Handing ==
    \A q \in Submits :
        /\ phase[q] \in {"idle", "read", "numbered", "inserted"} \cup Answers
        /\ phase[q] \in {"read", "numbered", "inserted"} \/ work[q].state # "none" =>
              sent[q].student \in Students /\ sent[q].hw \in Assignments
        /\ phase[q] = "inserted" <=> work[q].state = "pending"
        /\ Committed(q) => phase[q] = "ok"
        /\ work[q].state = "none" => work[q].hw = None
        /\ work[q].state # "none" =>
              /\ work[q].student = sent[q].student /\ work[q].hw = sent[q].hw
              /\ work[q].attempt = sent[q].attempt /\ work[q].file = sent[q].file

\* An edit or a review is of a row that was committed; one that holds it is the
\* only one, and knows its state.
Holding ==
    \A x \in Markers :
        /\ phase[x] \in {"idle", "viewed", "held"} \cup Answers
        /\ phase[x] \in {"viewed", "held"} =>
              held[x].row \in Submits /\ phase[held[x].row] = "ok"
        /\ phase[x] = "held" =>
              /\ Committed(held[x].row)
              /\ \A y \in Markers : phase[y] = "held" /\ held[y].row = held[x].row => y = x
              /\ x \in Reviews => held[x].was = work[held[x].row].state
              /\ x \in Edits => work[held[x].row].state = "submitted"

Pair(q) == Own(sent[q].hw, sent[q].student)

\* Two POSTs of one student for one assignment.
Rivals(q, p) == q # p /\ sent[p].hw = sent[q].hw /\ sent[p].student = sent[q].student

\* The attempts of a pair are numbered in sequence, a POST that has its number
\* has the next one, and beside an uncommitted attempt nobody else has a number.
Numbering ==
    /\ \A a \in Assignments, s \in Students :
          /\ IsFiniteSet(Own(a, s))
          /\ {work[r].attempt : r \in Own(a, s)} = 1 .. Cardinality(Own(a, s))
          /\ \A r, k \in Own(a, s) : work[r].attempt = work[k].attempt => r = k
    /\ \A q \in Submits :
          /\ phase[q] = "numbered" => sent[q].attempt = Cardinality(Pair(q)) + 1
          /\ phase[q] = "inserted" =>
                /\ sent[q].attempt = Cardinality(Pair(q))
                /\ \A p \in Submits : Rivals(q, p) => phase[p] \notin {"numbered", "inserted"}

\* No file is in two rows.
Filed ==
    \A r, k \in Submits :
        /\ r # k /\ work[r].state # "none" /\ work[k].state # "none"
        /\ work[r].file # None
        => work[r].file # work[k].file

\* A PATCH that has its assignment's row is the only one to have it, knows its
\* status, and leaves something to hand in; if it retracts, there is no work.
Patching ==
    \A p \in Patches :
        /\ phase[p] \in {"idle", "sent", "patched"} \cup Answers
        /\ phase[p] \in {"sent", "patched"} => patch[p].hw \in Assignments
        /\ phase[p] = "patched" =>
              /\ hw[patch[p].hw].status = patch[p].was /\ patch[p].was # "absent"
              /\ Merged(patch[p].hw, p) # {}
              /\ \A k \in Patches : phase[k] = "patched" /\ patch[k].hw = patch[p].hw => k = p
              /\ Retracts(p, patch[p].was) => \A r \in Submits : work[r].hw # patch[p].hw
              /\ ~Publishes(p, patch[p].was) => patch[p].told = {}

\* Every limit that an assignment has, or that a POST has read of it, is one it
\* has had, and a number that a POST has is within the limit it read.
Granting ==
    /\ \A a \in Assignments : hw[a].status # "absent" => hw[a].limit \in limits[a]
    /\ \A q \in Submits :
          /\ phase[q] \in {"read", "numbered", "inserted"} => sent[q].limit \in limits[sent[q].hw]
          /\ phase[q] \in {"numbered", "inserted"} => ~OverLimit(q, sent[q].attempt)

\* What notifications are about.
Telling ==
    /\ \A n \in notes : n.type = "submission_reviewed" =>
          /\ n.ref \in Submits /\ phase[n.ref] = "ok"
          /\ work[n.ref].state \in {"reviewed", "none"}
    /\ \A n \in notes : n.type = "assignment_published" =>
          n.ref \in Assignments /\ limits[n.ref] # {}

\* Until the course is deleted no object is; from then on there is no work.
Ending ==
    /\ \A d \in Deletes :
          /\ phase[d] \in {"idle", "listed", "gathered", "confirmed"} \cup Answers
          /\ phase[d] = "ok" => ~course
    /\ course => objects = Keys
    /\ ~course => /\ \A a \in Assignments : hw[a].status = "absent"
                  /\ \A q \in Submits : work[q].state = "none"

-----------------------------------------------------------------------------
(* Types.                                                                  *)

LEMMA Kinds ==
    /\ Submits \subseteq Requests /\ Edits \subseteq Requests /\ Reviews \subseteq Requests
    /\ Patches \subseteq Requests /\ Deletes \subseteq Requests /\ Markers \subseteq Requests
    /\ Submits \cap Markers = {} /\ Submits \cap Patches = {} /\ Submits \cap Deletes = {}
    /\ Markers \cap Patches = {} /\ Markers \cap Deletes = {} /\ Patches \cap Deletes = {}
    /\ Edits \cap Reviews = {} /\ Markers = Edits \cup Reviews
    /\ Requests = Submits \cup Markers \cup Patches \cup Deletes
  BY HomeworkAssumption DEF HomeworkAssumption, Requests, Markers

LEMMA Nulls ==
    /\ None \notin Submits /\ None \notin Keys /\ None \notin Students
    /\ None \notin Assignments /\ None \notin Limits /\ Same \notin Limit
    /\ Limits \subseteq Nat
  BY HomeworkAssumption DEF HomeworkAssumption

LEMMA InitTypeOK == Init => TypeOK
  BY DEF Init, TypeOK, Absent, NoWork, NoSent, NoHeld, NoPatch, NoDoom, Rows, Sends, Holds,
     Bodies, Limit, Parts

LEMMA AnswerType ==
    ASSUME TypeOK, NEW x \in Requests, NEW a \in Open \cup Answers, Answer(x, a)
    PROVE  /\ phase' \in [Requests -> {"idle"} \cup Open \cup Answers]
           /\ phase'[x] = a
           /\ \A y \in Requests \ {x} : phase'[y] = phase[y]
  BY DEF TypeOK, Answer

\* What is left of an answer once its phase is known.
LEMMA Answered ==
    ASSUME TypeOK, NEW x \in Requests, NEW a, Answer(x, a)
    PROVE  /\ phase'[x] = a
           /\ \A y \in Requests \ {x} : phase'[y] = phase[y]
  BY DEF TypeOK, Answer

LEMMA EnrolType ==
    ASSUME TypeOK, NEW s \in Students, Enrol(s) \/ Unenrol(s)
    PROVE  TypeOK'
  BY DEF Enrol, Unenrol, TypeOK

LEMMA CreateType ==
    ASSUME TypeOK, NEW a \in Assignments, NEW limit \in Limit, NEW accepts \in SUBSET Parts,
           Create(a, limit, accepts)
    PROVE  TypeOK'
  BY DEF Create, TypeOK

LEMMA SendPatchType ==
    ASSUME TypeOK, NEW p \in Patches, NEW a \in Assignments, NEW c \in Changes,
           SendPatch(p, a, c)
    PROVE  TypeOK'
<1>1. phase' \in [Requests -> {"idle"} \cup Open \cup Answers]
  BY Kinds, AnswerType DEF SendPatch, Open
<1>2. c \in Change
  BY HomeworkAssumption DEF HomeworkAssumption
<1>3. patch' \in [Patches -> Bodies]
  BY <1>2 DEF SendPatch, TypeOK, Bodies, Change
<1> QED
  BY <1>1, <1>3 DEF SendPatch, TypeOK

LEMMA LockAssignmentType ==
    ASSUME TypeOK, Patching, NEW p \in Patches, LockAssignment(p)
    PROVE  TypeOK'
<1>1. phase' \in [Requests -> {"idle"} \cup Open \cup Answers]
  BY Kinds, AnswerType DEF LockAssignment, Open, Answers
<1>2. CASE UNCHANGED patch
  BY <1>1, <1>2 DEF LockAssignment, TypeOK
<1>3. CASE ~UNCHANGED patch
  <2> DEFINE a     == patch[p].hw
             told  == IF Publishes(p, hw[a].status) THEN enrolled ELSE {}
             first == [patch[p] EXCEPT !.was = hw[a].status]
             both  == [first EXCEPT !.told = told]
  <2>1. patch' = [patch EXCEPT ![p].was = hw[a].status, ![p].told = told]
    BY <1>3 DEF LockAssignment
  <2>2. patch \in [Patches -> Bodies]
    BY DEF TypeOK
  <2>3. patch' = [patch EXCEPT ![p] = both]
    BY <2>1, <2>2
  <2>4. phase[p] = "sent"
    BY DEF LockAssignment
  <2>5. a \in Assignments
    BY <2>4 DEF Patching
  <2>6. hw[a].status \in {"absent", "draft", "published"} /\ told \in SUBSET Students
    BY <2>5 DEF TypeOK
  <2>7. first \in Bodies
    BY <2>2, <2>6 DEF Bodies
  <2>8. both \in Bodies
    BY <2>6, <2>7 DEF Bodies
  <2> QED
    BY <1>1, <2>2, <2>3, <2>8 DEF LockAssignment, TypeOK
<1> QED
  BY <1>2, <1>3

LEMMA CommitPatchType ==
    ASSUME TypeOK, Patching, NEW p \in Patches, CommitPatch(p)
    PROVE  TypeOK'
<1> DEFINE a   == patch[p].hw
           new == [status  |-> Set(hw[a].status, patch[p].status),
                   limit   |-> Set(hw[a].limit, patch[p].limit),
                   accepts |-> (hw[a].accepts \cup patch[p].on) \ patch[p].off]
<1>1. phase' \in [Requests -> {"idle"} \cup Open \cup Answers]
  BY Kinds, AnswerType DEF CommitPatch, Answers
<1>2. a \in Assignments /\ patch[p] \in Bodies
  BY DEF CommitPatch, Patching, TypeOK
<1>3. hw[a] \in [status : {"absent", "draft", "published"}, limit : Limit,
                 accepts : SUBSET Parts]
  BY <1>2 DEF TypeOK
<1>4. new \in [status : {"absent", "draft", "published"}, limit : Limit,
               accepts : SUBSET Parts]
  BY <1>2, <1>3 DEF Set, Bodies
<1>5. hw' = [hw EXCEPT ![a] = new]
  BY DEF CommitPatch, TypeOK
<1>6. hw' \in [Assignments -> [status : {"absent", "draft", "published"}, limit : Limit,
                               accepts : SUBSET Parts]]
  BY <1>4, <1>5 DEF TypeOK
<1>7. limits' = [limits EXCEPT ![a] = limits[a] \cup {hw'[a].limit}]
  BY DEF CommitPatch, TypeOK
<1>8. hw'[a].limit \in Limit
  BY <1>2, <1>6
<1>9. limits' \in [Assignments -> SUBSET Limit]
  BY <1>2, <1>7, <1>8 DEF TypeOK
<1> QED
  BY <1>1, <1>6, <1>9 DEF CommitPatch, TypeOK

LEMMA ReadAssignmentType ==
    ASSUME TypeOK, NEW q \in Submits, NEW s \in Students, NEW a \in Assignments,
           NEW text \in BOOLEAN, NEW file \in Keys \cup {None},
           ReadAssignment(q, s, a, text, file)
    PROVE  TypeOK'
<1>1. phase' \in [Requests -> {"idle"} \cup Open \cup Answers]
  BY Kinds, AnswerType DEF ReadAssignment, Open, Answers
<1>2. sent' \in [Submits -> Sends]
  BY DEF ReadAssignment, TypeOK, Sends
<1> QED
  BY <1>1, <1>2 DEF ReadAssignment, TypeOK

\* MAX(attempt) of attempts that are numbered in sequence.
LEMMA MaxIsCount ==
    ASSUME Numbering, NEW a \in Assignments, NEW s \in Students
    PROVE  /\ MaxAttempt(a, s) = Cardinality(Own(a, s))
           /\ Cardinality(Own(a, s)) \in Nat
           /\ Cardinality(Own(a, s)) > 0 =>
                 \E r \in Own(a, s) : work[r].attempt = Cardinality(Own(a, s))
           /\ \A r \in Own(a, s) :
                 work[r].attempt \in Nat /\ work[r].attempt <= Cardinality(Own(a, s))
<1> DEFINE R == Own(a, s)
           c == Cardinality(R)
           T == {work[r].attempt : r \in R}
<1>1. c \in Nat
  BY FS_CardinalityType DEF Numbering
<1>2. T = 1 .. c
  BY DEF Numbering
<1>3. \A r \in R : work[r].attempt \in 1 .. c
  BY <1>2
<1>4. c > 0 => \E r \in R : work[r].attempt = c
  <2> SUFFICES ASSUME c > 0 PROVE c \in T
    OBVIOUS
  <2> HIDE DEF c, T
  <2> QED
    BY <1>1, <1>2
<1>5. \A n \in {0} \cup T : (\A r \in R : work[r].attempt <= n) <=> n = c
  <2> SUFFICES ASSUME NEW n \in {0} \cup T
               PROVE  (\A r \in R : work[r].attempt <= n) <=> n = c
    OBVIOUS
  <2>1. n \in 0 .. c
    <3> HIDE DEF c, T
    <3> QED
      BY <1>1, <1>2
  <2> HIDE DEF c, T
  <2>2. n = c => \A r \in R : work[r].attempt <= n
    BY <1>1, <1>3
  <2>3. (\A r \in R : work[r].attempt <= n) => n = c
    BY <1>1, <1>3, <1>4, <2>1
  <2> QED
    BY <2>2, <2>3
<1>6. c \in {0} \cup T
  <2> HIDE DEF c, T
  <2> QED
    BY <1>1, <1>2
<1>7. MaxAttempt(a, s) = c
  <2>1. MaxAttempt(a, s) = CHOOSE n \in {0} \cup T : \A r \in R : work[r].attempt <= n
    BY DEF MaxAttempt
  <2> HIDE DEF c, T, R
  <2> QED
    BY <1>5, <1>6, <2>1
<1>8. \A r \in R : work[r].attempt \in Nat /\ work[r].attempt <= c
  <2> HIDE DEF c, T
  <2> QED
    BY <1>1, <1>3
<1> QED
  BY <1>1, <1>4, <1>7, <1>8

LEMMA LockAttemptsType ==
    ASSUME TypeOK, Handing, Numbering, NEW q \in Submits, LockAttempts(q)
    PROVE  TypeOK'
<1>1. phase' \in [Requests -> {"idle"} \cup Open \cup Answers]
  BY Kinds, AnswerType DEF LockAttempts, Open, Answers
<1>2. phase[q] = "read"
  BY DEF LockAttempts
<1>3. sent[q].student \in Students /\ sent[q].hw \in Assignments
  BY <1>2 DEF Handing
<1> DEFINE n == MaxAttempt(sent[q].hw, sent[q].student) + 1
<1>4. n \in Nat
  BY <1>3, MaxIsCount
<1>5. sent' \in [Submits -> Sends]
  <2>1. sent' = sent \/ sent' = [sent EXCEPT ![q].attempt = n]
    BY DEF LockAttempts
  <2>2. sent \in [Submits -> Sends]
    BY DEF TypeOK
  <2> HIDE DEF n
  <2>3. [sent[q] EXCEPT !.attempt = n] \in Sends
    BY <1>4, <2>2 DEF Sends
  <2> QED
    BY <2>1, <2>2, <2>3
<1> QED
  BY <1>1, <1>5 DEF LockAttempts, TypeOK

LEMMA InsertSubmissionType ==
    ASSUME TypeOK, NEW q \in Submits, InsertSubmission(q)
    PROVE  TypeOK'
<1>1. phase' \in [Requests -> {"idle"} \cup Open \cup Answers]
  BY Kinds, AnswerType DEF InsertSubmission, Open, Answers
<1>2. work' \in [Submits -> Rows]
  BY DEF InsertSubmission, TypeOK, Rows, Sends
<1> QED
  BY <1>1, <1>2 DEF InsertSubmission, TypeOK

\* A row whose state or text is changed is a row.
LEMMA RowType ==
    ASSUME TypeOK, NEW r,
           NEW state \in {"none", "pending", "submitted", "reviewed"},
           NEW text \in Submits \cup Edits \cup {None}
    PROVE  /\ [work EXCEPT ![r].state = state] \in [Submits -> Rows]
           /\ [work EXCEPT ![r].text = text] \in [Submits -> Rows]
<1>1. work \in [Submits -> Rows]
  BY DEF TypeOK
<1>2. ASSUME NEW w \in Rows
      PROVE  [w EXCEPT !.state = state] \in Rows /\ [w EXCEPT !.text = text] \in Rows
  BY DEF Rows
<1> QED
  BY <1>1, <1>2

LEMMA CommitSubmissionType ==
    ASSUME TypeOK, NEW q \in Submits, CommitSubmission(q)
    PROVE  TypeOK'
<1>1. phase' \in [Requests -> {"idle"} \cup Open \cup Answers]
  BY Kinds, AnswerType DEF CommitSubmission, Answers
<1>2. work' \in [Submits -> Rows]
  BY RowType DEF CommitSubmission
<1> QED
  BY <1>1, <1>2 DEF CommitSubmission, TypeOK

LEMMA ViewSubmissionType ==
    ASSUME TypeOK, NEW x \in Markers, NEW r \in Submits, NEW blank \in BOOLEAN,
           ViewSubmission(x, r, blank)
    PROVE  TypeOK'
<1>1. phase' \in [Requests -> {"idle"} \cup Open \cup Answers]
  BY Kinds, AnswerType DEF ViewSubmission, Open, Answers
<1>2. held' \in [Edits \cup Reviews -> Holds]
  <2> DEFINE new == [row |-> r, blank |-> blank,
                     text |-> "text" \in hw[work[r].hw].accepts, was |-> work[r].state]
  <2>1. held' = held \/ (Committed(r) /\ held' = [held EXCEPT ![x] = new])
    BY DEF ViewSubmission
  <2>2. Committed(r) => new \in Holds
    BY DEF Committed, Holds
  <2>3. held \in [Edits \cup Reviews -> Holds]
    BY DEF TypeOK
  <2> HIDE DEF new
  <2> QED
    BY <2>1, <2>2, <2>3
<1> QED
  BY <1>1, <1>2 DEF ViewSubmission, TypeOK

LEMMA LockEditType ==
    ASSUME TypeOK, NEW e \in Edits, LockEdit(e)
    PROVE  TypeOK'
<1>1. \E a \in Open \cup Answers : Answer(e, a)
  BY DEF LockEdit, Open, Answers
<1>2. phase' \in [Requests -> {"idle"} \cup Open \cup Answers]
  BY <1>1, Kinds, AnswerType
<1> QED
  BY <1>2 DEF LockEdit, TypeOK

LEMMA CommitEditType ==
    ASSUME TypeOK, NEW e \in Edits, CommitEdit(e)
    PROVE  TypeOK'
<1>1. phase' \in [Requests -> {"idle"} \cup Open \cup Answers]
  BY Kinds, AnswerType DEF CommitEdit, Answers
<1>2. work' \in [Submits -> Rows]
  BY RowType DEF CommitEdit
<1> QED
  BY <1>1, <1>2 DEF CommitEdit, TypeOK

LEMMA LockReviewType ==
    ASSUME TypeOK, Handing, Holding, NEW v \in Reviews, LockReview(v)
    PROVE  TypeOK'
<1>1. phase' \in [Requests -> {"idle"} \cup Open \cup Answers]
  BY Kinds, AnswerType DEF LockReview, Open, Answers
<1>2. phase[v] = "viewed" /\ v \in Markers
  BY Kinds DEF LockReview
<1>3. held[v].row \in Submits /\ phase[held[v].row] = "ok"
  BY <1>2 DEF Holding
<1>4. work[held[v].row].state \in {"none", "submitted", "reviewed"}
  BY <1>3 DEF TypeOK, Handing, Rows
<1>5. held' \in [Edits \cup Reviews -> Holds]
  BY <1>4 DEF LockReview, TypeOK, Holds
<1> QED
  BY <1>1, <1>5 DEF LockReview, TypeOK

LEMMA CommitReviewType ==
    ASSUME TypeOK, NEW v \in Reviews, CommitReview(v)
    PROVE  TypeOK'
<1>1. phase' \in [Requests -> {"idle"} \cup Open \cup Answers]
  BY Kinds, AnswerType DEF CommitReview, Answers
<1>2. work' \in [Submits -> Rows]
  BY RowType DEF CommitReview
<1> QED
  BY <1>1, <1>2 DEF CommitReview, TypeOK

LEMMA DeletionType ==
    ASSUME TypeOK, NEW d \in Deletes,
           \/ ListAssignments(d) \/ GatherWork(d)
           \/ \E confirm \in BOOLEAN : Gate(d, confirm)
           \/ \E k \in Keys : CleanObject(d, k)
    PROVE  TypeOK'
<1>1. CASE ListAssignments(d)
  <2>1. phase' \in [Requests -> {"idle"} \cup Open \cup Answers]
    BY <1>1, Kinds, AnswerType DEF ListAssignments, Open, Answers
  <2> QED
    BY <1>1, <2>1 DEF ListAssignments, TypeOK
<1>2. CASE GatherWork(d)
  <2>1. phase' \in [Requests -> {"idle"} \cup Open \cup Answers]
    BY <1>2, Kinds, AnswerType DEF GatherWork, Open
  <2> QED
    BY <1>2, <2>1 DEF GatherWork, TypeOK
<1>3. ASSUME NEW confirm \in BOOLEAN, Gate(d, confirm) PROVE TypeOK'
  <2>1. phase' \in [Requests -> {"idle"} \cup Open \cup Answers]
    BY <1>3, Kinds, AnswerType DEF Gate, Open, Answers
  <2> QED
    BY <1>3, <2>1 DEF Gate, TypeOK
<1>4. ASSUME NEW k \in Keys, CleanObject(d, k) PROVE TypeOK'
  BY <1>4 DEF CleanObject, TypeOK
<1> QED
  BY <1>1, <1>2, <1>3, <1>4

LEMMA DeleteCourseType ==
    ASSUME TypeOK, NEW d \in Deletes, DeleteCourse(d)
    PROVE  TypeOK'
<1>1. phase' \in [Requests -> {"idle"} \cup Open \cup Answers]
  BY Kinds, AnswerType DEF DeleteCourse, Answers
<1>2. Absent \in [status : {"absent", "draft", "published"}, limit : Limit,
                  accepts : SUBSET Parts]
  BY DEF Absent, Limit
<1>3. NoWork \in Rows
  BY DEF NoWork, Rows
<1> QED
  BY <1>1, <1>2, <1>3 DEF DeleteCourse, TypeOK

LEMMA AbortType ==
    ASSUME TypeOK, NEW x \in Requests, Abort(x)
    PROVE  TypeOK'
<1>1. phase' \in [Requests -> {"idle"} \cup Open \cup Answers]
  BY AnswerType DEF Abort, Answers
<1>2. work' \in [Submits -> Rows]
  BY DEF Abort, TypeOK, NoWork, Rows
<1> QED
  BY <1>1, <1>2 DEF Abort, TypeOK

LEMMA NextTypeOK ==
    ASSUME TypeOK, Handing, Holding, Numbering, Patching, [Next]_vars
    PROVE  TypeOK'
<1>1. CASE UNCHANGED vars
  BY <1>1 DEF vars, TypeOK
<1>2. ASSUME NEW s \in Students, Enrol(s) \/ Unenrol(s) PROVE TypeOK'
  BY <1>2, EnrolType
<1>3. ASSUME NEW a \in Assignments, NEW limit \in Limit, NEW accepts \in SUBSET Parts,
             Create(a, limit, accepts) PROVE TypeOK'
  BY <1>3, CreateType
<1>4. ASSUME NEW p \in Patches,
             \/ \E a \in Assignments, c \in Changes : SendPatch(p, a, c)
             \/ LockAssignment(p) \/ CommitPatch(p)
      PROVE  TypeOK'
  BY <1>4, SendPatchType, LockAssignmentType, CommitPatchType
<1>5. ASSUME NEW q \in Submits,
             \/ \E s \in Students, a \in Assignments, text \in BOOLEAN, file \in Keys \cup {None} :
                   ReadAssignment(q, s, a, text, file)
             \/ LockAttempts(q) \/ InsertSubmission(q) \/ CommitSubmission(q)
      PROVE  TypeOK'
  BY <1>5, ReadAssignmentType, LockAttemptsType, InsertSubmissionType, CommitSubmissionType
<1>6. ASSUME NEW e \in Edits,
             \/ \E r \in Submits, blank \in BOOLEAN : ViewSubmission(e, r, blank)
             \/ LockEdit(e) \/ CommitEdit(e)
      PROVE  TypeOK'
  BY <1>6, Kinds, ViewSubmissionType, LockEditType, CommitEditType
<1>7. ASSUME NEW v \in Reviews,
             \/ \E r \in Submits : ViewSubmission(v, r, FALSE)
             \/ LockReview(v) \/ CommitReview(v)
      PROVE  TypeOK'
  BY <1>7, Kinds, ViewSubmissionType, LockReviewType, CommitReviewType
<1>8. ASSUME NEW d \in Deletes,
             \/ ListAssignments(d) \/ GatherWork(d)
             \/ \E confirm \in BOOLEAN : Gate(d, confirm)
             \/ DeleteCourse(d)
             \/ \E k \in Keys : CleanObject(d, k)
      PROVE  TypeOK'
  BY <1>8, DeletionType, DeleteCourseType
<1>9. ASSUME NEW x \in Requests, Abort(x) PROVE TypeOK'
  BY <1>9, AbortType
<1> QED
  BY <1>1, <1>2, <1>3, <1>4, <1>5, <1>6, <1>7, <1>8, <1>9 DEF Next

-----------------------------------------------------------------------------
(* Which steps change what is handed in.                                   *)

\* Rows change in text until they are reviewed, or from handed in to reviewed,
\* and nothing else does.
KeptRows ==
    /\ UNCHANGED sent
    /\ \A q \in Submits :
          /\ phase'[q] = phase[q]
          /\ work'[q].student = work[q].student /\ work'[q].hw = work[q].hw
          /\ work'[q].attempt = work[q].attempt /\ work'[q].file = work[q].file
          /\ \/ work'[q].state = work[q].state
             \/ Committed(q) /\ work'[q].state = "reviewed"
          /\ work[q].state = "reviewed" => work'[q].text = work[q].text

LEMMA CommitEditRows ==
    ASSUME TypeOK, Holding, NEW e \in Edits, CommitEdit(e)
    PROVE  /\ held[e].row \in Submits /\ work[held[e].row].state = "submitted"
           /\ UNCHANGED <<sent, notes>>
           /\ phase[e] = "held" /\ phase'[e] = "ok"
           /\ \A y \in Requests \ {e} : phase'[y] = phase[y]
           /\ \A q \in Submits :
                 /\ work'[q].student = work[q].student /\ work'[q].hw = work[q].hw
                 /\ work'[q].attempt = work[q].attempt /\ work'[q].file = work[q].file
                 /\ work'[q].state = work[q].state
                 /\ q # held[e].row => work'[q].text = work[q].text
<1>1. e \in Markers /\ e \in Requests /\ phase[e] = "held"
  BY Kinds DEF CommitEdit
<1>2. held[e].row \in Submits /\ work[held[e].row].state = "submitted"
  BY <1>1 DEF Holding
<1>3. /\ UNCHANGED <<sent, notes>> /\ Answer(e, "ok")
      /\ work' = [work EXCEPT ![held[e].row].text = IF held[e].blank THEN None ELSE e]
  BY DEF CommitEdit
<1>4. work \in [Submits -> Rows]
  BY DEF TypeOK
<1>5. phase'[e] = "ok" /\ \A y \in Requests \ {e} : phase'[y] = phase[y]
  BY <1>1, <1>3, Answered
<1>6. \A q \in Submits :
         /\ work'[q].student = work[q].student /\ work'[q].hw = work[q].hw
         /\ work'[q].attempt = work[q].attempt /\ work'[q].file = work[q].file
         /\ work'[q].state = work[q].state
         /\ q # held[e].row => work'[q].text = work[q].text
  BY <1>3, <1>4 DEF Rows
<1> QED
  BY <1>1, <1>2, <1>3, <1>5, <1>6

LEMMA CommitReviewRows ==
    ASSUME TypeOK, Holding, NEW v \in Reviews, CommitReview(v)
    PROVE  /\ held[v].row \in Submits /\ Committed(held[v].row)
           /\ held[v].was = work[held[v].row].state
           /\ UNCHANGED sent
           /\ phase[v] = "held" /\ phase'[v] = "ok"
           /\ \A y \in Requests \ {v} : phase'[y] = phase[y]
           /\ work'[held[v].row].state = "reviewed"
           /\ \A q \in Submits :
                 /\ work'[q].student = work[q].student /\ work'[q].hw = work[q].hw
                 /\ work'[q].attempt = work[q].attempt /\ work'[q].file = work[q].file
                 /\ work'[q].text = work[q].text
                 /\ q # held[v].row => work'[q].state = work[q].state
<1>1. v \in Markers /\ v \in Requests /\ phase[v] = "held"
  BY Kinds DEF CommitReview
<1>2. /\ held[v].row \in Submits /\ Committed(held[v].row)
      /\ held[v].was = work[held[v].row].state
  BY <1>1 DEF Holding
<1>3. /\ UNCHANGED sent /\ Answer(v, "ok")
      /\ work' = [work EXCEPT ![held[v].row].state = "reviewed"]
  BY DEF CommitReview
<1>4. work \in [Submits -> Rows]
  BY DEF TypeOK
<1>5. phase'[v] = "ok" /\ \A y \in Requests \ {v} : phase'[y] = phase[y]
  BY <1>1, <1>3, Answered
<1>6. \A q \in Submits :
         /\ work'[q].student = work[q].student /\ work'[q].hw = work[q].hw
         /\ work'[q].attempt = work[q].attempt /\ work'[q].file = work[q].file
         /\ work'[q].text = work[q].text
         /\ q # held[v].row => work'[q].state = work[q].state
  BY <1>3, <1>4 DEF Rows
<1>7. work'[held[v].row].state = "reviewed"
  BY <1>2, <1>3, <1>4 DEF Rows
<1> QED
  BY <1>1, <1>2, <1>3, <1>5, <1>6, <1>7

\* An answer of a request that is not a POST is no matter of the POSTs.
LEMMA AsideKeeps ==
    ASSUME TypeOK, NEW x \in Requests \ Submits, NEW a, Answer(x, a), UNCHANGED <<work, sent>>
    PROVE  KeptRows
  BY Kinds, Answered DEF KeptRows

LEMMA RowSteps ==
    ASSUME TypeOK, Holding, [Next]_vars
    PROVE  \/ KeptRows
           \/ \E q \in Submits :
                 \/ \E s \in Students, a \in Assignments, text \in BOOLEAN,
                       file \in Keys \cup {None} : ReadAssignment(q, s, a, text, file)
                 \/ LockAttempts(q) \/ InsertSubmission(q) \/ CommitSubmission(q)
                 \/ Abort(q)
           \/ \E d \in Deletes : course /\ DeleteCourse(d)
<1>1. CASE UNCHANGED vars
  BY <1>1 DEF vars, KeptRows
<1>2. ASSUME NEW s \in Students, Enrol(s) \/ Unenrol(s) PROVE KeptRows
  BY <1>2 DEF Enrol, Unenrol, KeptRows
<1>3. ASSUME NEW a \in Assignments, NEW limit \in Limit, NEW accepts \in SUBSET Parts,
             Create(a, limit, accepts) PROVE KeptRows
  BY <1>3 DEF Create, KeptRows
<1>4. ASSUME NEW p \in Patches,
             \/ \E a \in Assignments, c \in Changes : SendPatch(p, a, c)
             \/ LockAssignment(p) \/ CommitPatch(p)
      PROVE  KeptRows
  <2>1. p \in Requests \ Submits
    BY Kinds
  <2>2. UNCHANGED <<work, sent>> /\ \E a : Answer(p, a)
    BY <1>4 DEF SendPatch, LockAssignment, CommitPatch
  <2> QED
    BY <2>1, <2>2, AsideKeeps
<1>5. ASSUME NEW e \in Edits, CommitEdit(e) PROVE KeptRows
  BY <1>5, Kinds, CommitEditRows DEF KeptRows
<1>6. ASSUME NEW v \in Reviews, CommitReview(v) PROVE KeptRows
  BY <1>6, Kinds, CommitReviewRows DEF KeptRows, Committed
<1>7. ASSUME NEW x \in Markers,
             \/ \E r \in Submits, blank \in BOOLEAN : ViewSubmission(x, r, blank)
             \/ LockEdit(x) \/ LockReview(x)
      PROVE  KeptRows
  <2>1. x \in Requests \ Submits
    BY Kinds
  <2>2. UNCHANGED <<work, sent>> /\ \E a : Answer(x, a)
    BY <1>7 DEF ViewSubmission, LockEdit, LockReview
  <2> QED
    BY <2>1, <2>2, AsideKeeps
<1>8. ASSUME NEW d \in Deletes,
             \/ ListAssignments(d) \/ GatherWork(d)
             \/ \E confirm \in BOOLEAN : Gate(d, confirm)
             \/ ~course /\ DeleteCourse(d)
      PROVE  KeptRows
  <2>1. d \in Requests \ Submits
    BY Kinds
  <2>2. UNCHANGED <<work, sent>> /\ \E a : Answer(d, a)
    BY <1>8 DEF ListAssignments, GatherWork, Gate, DeleteCourse
  <2> QED
    BY <2>1, <2>2, AsideKeeps
<1>9. ASSUME NEW d \in Deletes, NEW k \in Keys, CleanObject(d, k) PROVE KeptRows
  BY <1>9 DEF CleanObject, KeptRows
<1>10. ASSUME NEW x \in Requests \ Submits, Abort(x) PROVE KeptRows
  <2>1. work' = work
    BY <1>10 DEF Abort, TypeOK
  <2>2. UNCHANGED <<work, sent>> /\ \E a : Answer(x, a)
    BY <1>10, <2>1 DEF Abort
  <2> QED
    BY <2>2, AsideKeeps
<1>11. CASE Next
  <2>1. CASE \E x \in Requests : Abort(x)
    BY <1>10, <2>1
  <2>2. CASE \/ \E s \in Students : Enrol(s) \/ Unenrol(s)
             \/ \E a \in Assignments, limit \in Limit, accepts \in SUBSET Parts :
                   Create(a, limit, accepts)
    BY <1>2, <1>3, <2>2
  <2>3. CASE \E p \in Patches :
                \/ \E a \in Assignments, c \in Changes : SendPatch(p, a, c)
                \/ LockAssignment(p) \/ CommitPatch(p)
    BY <1>4, <2>3
  <2>4. CASE \E e \in Edits :
                \/ \E r \in Submits, blank \in BOOLEAN : ViewSubmission(e, r, blank)
                \/ LockEdit(e) \/ CommitEdit(e)
    BY <1>5, <1>7, <2>4, Kinds
  <2>5. CASE \E v \in Reviews :
                \/ \E r \in Submits : ViewSubmission(v, r, FALSE)
                \/ LockReview(v) \/ CommitReview(v)
    BY <1>6, <1>7, <2>5, Kinds
  <2>6. CASE \E d \in Deletes :
                \/ ListAssignments(d) \/ GatherWork(d)
                \/ \E confirm \in BOOLEAN : Gate(d, confirm)
                \/ DeleteCourse(d)
                \/ \E k \in Keys : CleanObject(d, k)
    BY <1>8, <1>9, <2>6
  <2> QED
    BY <1>11, <2>1, <2>2, <2>3, <2>4, <2>5, <2>6 DEF Next
<1> QED
  BY <1>1, <1>11

\* The steps of a POST, one by one.
LEMMA ReadStep ==
    ASSUME TypeOK, Handing, NEW q \in Submits, NEW s \in Students, NEW a \in Assignments,
           NEW text \in BOOLEAN, NEW file \in Keys \cup {None},
           ReadAssignment(q, s, a, text, file)
    PROVE  /\ phase[q] = "idle" /\ work[q].state = "none"
           /\ UNCHANGED <<work, hw, limits, course, notes, objects>>
           /\ \A y \in Requests \ {q} : phase'[y] = phase[y]
           /\ \A p \in Submits \ {q} : sent'[p] = sent[p]
           /\ \/ phase'[q] = "refused" /\ sent'[q] = sent[q]
              \/ /\ phase'[q] = "read" /\ hw[a].status # "absent"
                 /\ sent'[q].student = s /\ sent'[q].hw = a /\ sent'[q].limit = hw[a].limit
<1>1. q \in Requests /\ phase[q] = "idle"
  BY Kinds DEF ReadAssignment
<1>2. work[q].state = "none"
  BY <1>1 DEF Handing, TypeOK, Rows, Committed
<1>3. /\ UNCHANGED <<work, hw, limits, course, notes, objects>>
      /\ \/ Answer(q, "refused") /\ UNCHANGED sent
         \/ /\ Answer(q, "read") /\ hw[a].status = "published"
            /\ sent' = [sent EXCEPT ![q] =
                  [student |-> s, hw |-> a, limit |-> hw[a].limit,
                   text |-> text, file |-> file, attempt |-> 0]]
  BY DEF ReadAssignment, RefusesWork, Assigned
<1>4. sent \in [Submits -> Sends]
  BY DEF TypeOK
<1> QED
  BY <1>1, <1>2, <1>3, <1>4, Answered

LEMMA NumberStep ==
    ASSUME TypeOK, Handing, Numbering, NEW q \in Submits, LockAttempts(q)
    PROVE  /\ phase[q] = "read" /\ work[q].state = "none"
           /\ sent[q].student \in Students /\ sent[q].hw \in Assignments
           /\ UNCHANGED <<work, hw, limits, course, notes, objects>>
           /\ \A y \in Requests \ {q} : phase'[y] = phase[y]
           /\ \A p \in Submits \ {q} : sent'[p] = sent[p]
           /\ sent'[q].student = sent[q].student /\ sent'[q].hw = sent[q].hw
           /\ sent'[q].limit = sent[q].limit /\ sent'[q].file = sent[q].file
           /\ \/ phase'[q] = "refused" /\ sent'[q] = sent[q]
              \/ /\ phase'[q] = "numbered" /\ sent'[q].attempt = Cardinality(Pair(q)) + 1
                 /\ ~OverLimit(q, Cardinality(Pair(q)) + 1)
                 /\ \A r \in Pair(q) :
                       work[r].attempt = Cardinality(Pair(q)) => ~RowLocked(q, r)
<1> DEFINE n == MaxAttempt(sent[q].hw, sent[q].student) + 1
<1>1. q \in Requests /\ phase[q] = "read"
  BY Kinds DEF LockAttempts
<1>2. work[q].state = "none"
  BY <1>1 DEF Handing, TypeOK, Rows, Committed
<1>3. sent[q].student \in Students /\ sent[q].hw \in Assignments
  BY <1>1 DEF Handing
<1>4. n = Cardinality(Pair(q)) + 1 /\ n \in Nat /\ n - 1 = Cardinality(Pair(q))
  BY <1>3, MaxIsCount DEF Pair
<1>5. /\ UNCHANGED <<work, hw, limits, course, notes, objects>>
      /\ \/ Answer(q, "refused") /\ UNCHANGED sent
         \/ /\ Answer(q, "numbered") /\ sent' = [sent EXCEPT ![q].attempt = n]
            /\ ~OverLimit(q, n)
      /\ \A r \in Pair(q) : work[r].attempt = n - 1 => ~RowLocked(q, r)
  BY DEF LockAttempts, Pair
<1>6. sent \in [Submits -> Sends]
  BY DEF TypeOK
<1> HIDE DEF n
<1>7. UNCHANGED sent \/ sent' = [sent EXCEPT ![q].attempt = n]
  BY <1>5
<1>8. /\ \A p \in Submits \ {q} : sent'[p] = sent[p]
      /\ sent'[q].student = sent[q].student /\ sent'[q].hw = sent[q].hw
      /\ sent'[q].limit = sent[q].limit /\ sent'[q].file = sent[q].file
  BY <1>6, <1>7 DEF Sends
<1>9. \A y \in Requests \ {q} : phase'[y] = phase[y]
  BY <1>1, <1>5, Answered
<1>10. CASE Answer(q, "refused") /\ UNCHANGED sent
  BY <1>1, <1>2, <1>3, <1>5, <1>8, <1>9, <1>10, Answered
<1>11. CASE Answer(q, "numbered") /\ sent' = [sent EXCEPT ![q].attempt = n] /\ ~OverLimit(q, n)
  <2>1. sent'[q].attempt = n
    BY <1>6, <1>11 DEF Sends
  <2>2. phase'[q] = "numbered"
    BY <1>1, <1>11, Answered
  <2> QED
    BY <1>1, <1>2, <1>3, <1>4, <1>5, <1>8, <1>9, <1>11, <2>1, <2>2
<1> QED
  BY <1>5, <1>10, <1>11

LEMMA InsertStep ==
    ASSUME TypeOK, Handing, NEW q \in Submits, InsertSubmission(q)
    PROVE  /\ phase[q] = "numbered" /\ work[q].state = "none"
           /\ sent[q].student \in Students /\ sent[q].hw \in Assignments
           /\ UNCHANGED <<sent, hw, limits, course, notes, objects>>
           /\ \A y \in Requests \ {q} : phase'[y] = phase[y]
           /\ \A p \in Submits \ {q} : work'[p] = work[p]
           /\ ~PatchLocks(sent[q].hw)
           /\ \/ phase'[q] \in {"failed", "refused"} /\ UNCHANGED work
              \/ /\ phase'[q] = "inserted" /\ work'[q].state = "pending"
                 /\ work'[q].student = sent[q].student /\ work'[q].hw = sent[q].hw
                 /\ work'[q].attempt = sent[q].attempt /\ work'[q].file = sent[q].file
                 /\ hw[sent[q].hw].status # "absent" /\ ~Duplicate(q)
                 /\ \A p \in Submits :
                       Rivals(q, p) => phase[p] \notin {"numbered", "inserted"}
                 /\ \A p \in Submits \ {q} :
                       phase[p] = "inserted" /\ sent[q].file # None => sent[p].file # sent[q].file
<1>1. q \in Requests /\ phase[q] = "numbered"
  BY Kinds DEF InsertSubmission
<1>2. work[q].state = "none"
  BY <1>1 DEF Handing, TypeOK, Rows, Committed
<1>3. sent[q].student \in Students /\ sent[q].hw \in Assignments
  BY <1>1 DEF Handing
<1>4. /\ UNCHANGED <<sent, hw, limits, course, notes, objects>>
      /\ ~PatchLocks(sent[q].hw)
      /\ \/ \E a \in {"failed", "refused"} : Answer(q, a) /\ UNCHANGED work
         \/ /\ Answer(q, "inserted") /\ hw[sent[q].hw].status # "absent" /\ ~Duplicate(q)
            /\ work' = [work EXCEPT ![q] =
                [state |-> "pending", student |-> sent[q].student, hw |-> sent[q].hw,
                 attempt |-> sent[q].attempt,
                 text |-> IF sent[q].text THEN q ELSE None, file |-> sent[q].file]]
      /\ \A p \in Submits : Rivals(q, p) => phase[p] \notin {"numbered", "inserted"}
      /\ \A p \in Submits \ {q} :
            phase[p] = "inserted" /\ sent[q].file # None => sent[p].file # sent[q].file
  BY DEF InsertSubmission, Rivals
<1>5. work \in [Submits -> Rows]
  BY DEF TypeOK
<1> QED
  BY <1>1, <1>2, <1>3, <1>4, <1>5, Answered

LEMMA CommitStep ==
    ASSUME TypeOK, Handing, NEW q \in Submits, CommitSubmission(q)
    PROVE  /\ phase[q] = "inserted" /\ phase'[q] = "ok"
           /\ work[q].state = "pending" /\ work'[q].state = "submitted"
           /\ UNCHANGED <<sent, hw, limits, course, objects>>
           /\ \A y \in Requests \ {q} : phase'[y] = phase[y]
           /\ \A p \in Submits \ {q} : work'[p] = work[p]
           /\ work'[q].student = work[q].student /\ work'[q].hw = work[q].hw
           /\ work'[q].attempt = work[q].attempt /\ work'[q].file = work[q].file
<1>1. q \in Requests /\ phase[q] = "inserted"
  BY Kinds DEF CommitSubmission
<1>2. work[q].state = "pending"
  BY <1>1 DEF Handing
<1>3. /\ UNCHANGED <<sent, hw, limits, course, objects>> /\ Answer(q, "ok")
      /\ work' = [work EXCEPT ![q].state = "submitted"]
  BY DEF CommitSubmission
<1>4. work \in [Submits -> Rows]
  BY DEF TypeOK
<1>5. /\ \A p \in Submits \ {q} : work'[p] = work[p]
      /\ work'[q].student = work[q].student /\ work'[q].hw = work[q].hw
      /\ work'[q].attempt = work[q].attempt /\ work'[q].file = work[q].file
      /\ work'[q].state = "submitted"
  BY <1>3, <1>4 DEF Rows
<1>6. phase'[q] = "ok" /\ \A y \in Requests \ {q} : phase'[y] = phase[y]
  BY <1>1, <1>3, Answered
<1> QED
  BY <1>1, <1>2, <1>3, <1>5, <1>6

LEMMA AbortStep ==
    ASSUME TypeOK, Handing, NEW q \in Submits, Abort(q)
    PROVE  /\ phase'[q] = "failed"
           /\ UNCHANGED <<sent, hw, limits, course, notes, objects>>
           /\ \A y \in Requests \ {q} : phase'[y] = phase[y]
           /\ \A p \in Submits \ {q} : work'[p] = work[p]
           /\ work'[q].state = "none" /\ work'[q].hw = None
           /\ \/ phase[q] \in {"read", "numbered"} /\ work[q].state = "none"
              \/ phase[q] = "inserted" /\ work[q].state = "pending"
<1>1. q \in Requests /\ phase[q] \in Open /\ Answer(q, "failed")
  BY Kinds DEF Abort
<1>2. phase[q] \in {"read", "numbered", "inserted"}
  BY <1>1 DEF Handing, Open, Answers
<1>3. /\ phase[q] = "inserted" <=> work[q].state = "pending"
      /\ phase[q] # "inserted" => work[q].state = "none"
  BY <1>2 DEF Handing, TypeOK, Rows, Committed
<1>4. work[q].state = "none" => work[q].hw = None
  BY DEF Handing
<1>5. /\ UNCHANGED <<sent, hw, limits, course, notes, objects>>
      /\ phase[q] = "inserted" => work' = [work EXCEPT ![q] = NoWork]
      /\ phase[q] # "inserted" => work' = work
  BY DEF Abort
<1>6. work \in [Submits -> Rows]
  BY DEF TypeOK
<1>7. /\ \A p \in Submits \ {q} : work'[p] = work[p]
      /\ work'[q].state = "none" /\ work'[q].hw = None
  BY <1>3, <1>4, <1>5, <1>6 DEF NoWork
<1>8. phase'[q] = "failed" /\ \A y \in Requests \ {q} : phase'[y] = phase[y]
  BY <1>1, Answered
<1> QED
  BY <1>2, <1>3, <1>5, <1>7, <1>8

LEMMA DeleteStep ==
    ASSUME TypeOK, Handing, NEW d \in Deletes, course, DeleteCourse(d)
    PROVE  /\ phase'[d] = "ok" /\ ~course'
           /\ UNCHANGED <<sent, held, patch, limits, objects>>
           /\ \A y \in Requests \ {d} : phase'[y] = phase[y]
           /\ \A q \in Submits :
                 phase[q] # "inserted" /\ work'[q].state = "none" /\ work'[q].hw = None
           /\ \A a \in Assignments : hw'[a].status = "absent" /\ ~PatchLocks(a)
           /\ \A r \in Submits : ~RowLocked(d, r)
<1>1. d \in Requests /\ Answer(d, "ok")
  BY Kinds DEF DeleteCourse
<1>2. \A q \in Submits : phase[q] # "inserted"
  BY DEF DeleteCourse, SubmitLocks, Handing
<1> QED
  BY <1>1, <1>2, Answered DEF DeleteCourse, NoWork, Absent

-----------------------------------------------------------------------------
(* What a POST has sent.                                                   *)

LEMMA InitHanding == Init => Handing
  BY Kinds DEF Init, Handing, NoWork, NoSent, Committed

LEMMA NextHanding ==
    ASSUME TypeOK, Handing, Holding, Numbering, [Next]_vars
    PROVE  Handing'
<1> USE Kinds
<1>1. CASE KeptRows
  BY <1>1 DEF Handing, KeptRows, Committed
<1>2. ASSUME NEW q \in Submits, NEW s \in Students, NEW a \in Assignments,
             NEW text \in BOOLEAN, NEW file \in Keys \cup {None},
             ReadAssignment(q, s, a, text, file)
      PROVE  Handing'
  BY <1>2, ReadStep DEF Handing, Committed, Answers
<1>3. ASSUME NEW q \in Submits, LockAttempts(q) PROVE Handing'
  BY <1>3, NumberStep DEF Handing, Committed, Answers
<1>4. ASSUME NEW q \in Submits, InsertSubmission(q) PROVE Handing'
  BY <1>4, InsertStep DEF Handing, Committed, Answers
<1>5. ASSUME NEW q \in Submits, CommitSubmission(q) PROVE Handing'
  BY <1>5, CommitStep DEF Handing, Committed, Answers
<1>6. ASSUME NEW q \in Submits, Abort(q) PROVE Handing'
  BY <1>6, AbortStep DEF Handing, Committed, Answers
<1>7. ASSUME NEW d \in Deletes, course, DeleteCourse(d) PROVE Handing'
  BY <1>7, DeleteStep DEF Handing, Committed
<1> QED
  BY <1>1, <1>2, <1>3, <1>4, <1>5, <1>6, <1>7, RowSteps

-----------------------------------------------------------------------------
(* The numbers of attempts.                                                *)

LEMMA InitNumbering == Init => Numbering
<1> SUFFICES ASSUME Init PROVE Numbering
  OBVIOUS
<1>1. \A a, s : Own(a, s) = {}
  BY DEF Init, Own, NoWork
<1>2. IsFiniteSet({}) /\ Cardinality({}) = 0 /\ 1 .. 0 = {}
  BY FS_EmptySet
<1>3. \A q \in Submits : phase[q] = "idle"
  BY Kinds DEF Init
<1> QED
  BY <1>1, <1>2, <1>3 DEF Numbering

\* Steps that leave the rows of every pair alone, and numbers and INSERTs too.
LEMMA SameNumbers ==
    ASSUME Numbering,
           \A q \in Submits :
              /\ work'[q].state = "none" <=> work[q].state = "none"
              /\ work'[q].student = work[q].student /\ work'[q].hw = work[q].hw
              /\ work'[q].attempt = work[q].attempt
              /\ phase'[q] \in {"numbered", "inserted"} =>
                    phase'[q] = phase[q] /\ sent'[q] = sent[q]
    PROVE  Numbering'
<1>1. \A a, s : Own(a, s)' = Own(a, s)
  BY DEF Own
<1>2. \A q \in Submits : phase'[q] \in {"numbered", "inserted"} => Pair(q)' = Pair(q)
  BY <1>1 DEF Pair
<1>3. \A q, p \in Submits :
         /\ phase'[q] = "inserted" /\ phase'[p] \in {"numbered", "inserted"}
         /\ Rivals(q, p)'
         => Rivals(q, p)
  BY DEF Rivals
<1>4. ASSUME NEW a \in Assignments, NEW s \in Students
      PROVE  /\ IsFiniteSet(Own(a, s)')
             /\ {work'[r].attempt : r \in Own(a, s)'} = 1 .. Cardinality(Own(a, s)')
             /\ \A r, k \in Own(a, s)' : work'[r].attempt = work'[k].attempt => r = k
  <2>1. \A r \in Own(a, s) : work'[r].attempt = work[r].attempt
    BY DEF Own
  <2>2. {work'[r].attempt : r \in Own(a, s)'} = {work[r].attempt : r \in Own(a, s)}
    BY <1>1, <2>1
  <2> QED
    BY <1>1, <2>1, <2>2 DEF Numbering
<1>5. ASSUME NEW q \in Submits
      PROVE  /\ phase'[q] = "numbered" => sent'[q].attempt = Cardinality(Pair(q)') + 1
             /\ phase'[q] = "inserted" =>
                   /\ sent'[q].attempt = Cardinality(Pair(q)')
                   /\ \A p \in Submits : Rivals(q, p)' => phase'[p] \notin {"numbered", "inserted"}
  BY <1>2, <1>3 DEF Numbering
<1> QED
  BY <1>4, <1>5 DEF Numbering

LEMMA NumberNumbering ==
    ASSUME TypeOK, Handing, Numbering, NEW q \in Submits, LockAttempts(q)
    PROVE  Numbering'
<1>1. CASE phase'[q] = "refused"
  BY <1>1, NumberStep, SameNumbers, Kinds
<1>2. CASE phase'[q] = "numbered"
  <2>1. /\ UNCHANGED work
        /\ \A p \in Submits \ {q} : phase'[p] = phase[p] /\ sent'[p] = sent[p]
        /\ sent'[q].student = sent[q].student /\ sent'[q].hw = sent[q].hw
        /\ sent'[q].attempt = Cardinality(Pair(q)) + 1
        /\ sent[q].student \in Students /\ sent[q].hw \in Assignments
        /\ \A r \in Pair(q) : work[r].attempt = Cardinality(Pair(q)) => ~RowLocked(q, r)
    BY <1>2, NumberStep, Kinds
  <2>2. \A a, s : Own(a, s)' = Own(a, s)
    BY <2>1 DEF Own
  <2>3. \A p \in Submits : Pair(p)' = Pair(p)
    BY <2>1, <2>2 DEF Pair
  <2>4. \A p \in Submits \ {q} : phase[p] = "inserted" => ~Rivals(p, q)
    <3> SUFFICES ASSUME NEW p \in Submits \ {q}, phase[p] = "inserted", Rivals(p, q)
                 PROVE  FALSE
      OBVIOUS
    <3>1. p \in Pair(q) /\ Pair(p) = Pair(q) /\ work[p].attempt = sent[p].attempt
      BY DEF Handing, Pair, Own, Rivals
    <3>2. sent[p].attempt = Cardinality(Pair(q))
      BY <3>1 DEF Numbering
    <3>3. RowLocked(q, p)
      BY DEF RowLocked
    <3> QED
      BY <2>1, <3>1, <3>2, <3>3
  <2>5. \A p \in Submits : Rivals(p, q)' <=> Rivals(p, q)
    BY <2>1 DEF Rivals
  <2>6. \A p \in Submits \ {q}, k \in Submits \ {q} : Rivals(p, k)' <=> Rivals(p, k)
    BY <2>1 DEF Rivals
  <2>7. ASSUME NEW p \in Submits
        PROVE  /\ phase'[p] = "numbered" => sent'[p].attempt = Cardinality(Pair(p)') + 1
               /\ phase'[p] = "inserted" =>
                     /\ sent'[p].attempt = Cardinality(Pair(p)')
                     /\ \A k \in Submits : Rivals(p, k)' => phase'[k] \notin {"numbered", "inserted"}
    <3>1. CASE p = q
      BY <1>2, <2>1, <2>3, <3>1
    <3>2. CASE p # q
      BY <2>1, <2>3, <2>4, <2>5, <2>6, <3>2 DEF Numbering
    <3> QED
      BY <3>1, <3>2
  <2> QED
    BY <2>1, <2>2, <2>7 DEF Numbering
<1> QED
  BY <1>1, <1>2, NumberStep

LEMMA InsertNumbering ==
    ASSUME TypeOK, Handing, Numbering, NEW q \in Submits, InsertSubmission(q)
    PROVE  Numbering'
<1>1. CASE phase'[q] \in {"failed", "refused"}
  BY <1>1, InsertStep, SameNumbers, Kinds
<1>2. CASE phase'[q] = "inserted"
  <2> DEFINE a0 == sent[q].hw
             s0 == sent[q].student
             c  == Cardinality(Own(a0, s0))
  <2>1. /\ a0 \in Assignments /\ s0 \in Students
        /\ work[q].state = "none" /\ work'[q].state = "pending"
        /\ work'[q].student = s0 /\ work'[q].hw = a0 /\ work'[q].attempt = sent[q].attempt
        /\ sent[q].attempt = c + 1
        /\ UNCHANGED sent
        /\ \A p \in Submits \ {q} : work'[p] = work[p] /\ phase'[p] = phase[p]
        /\ \A p \in Submits : Rivals(q, p) => phase[p] \notin {"numbered", "inserted"}
    BY <1>2, InsertStep, Kinds DEF Numbering, Pair
  <2>2. Own(a0, s0)' = Own(a0, s0) \cup {q} /\ q \notin Own(a0, s0)
    BY <2>1 DEF Own
  <2>3. \A a, s : a # a0 \/ s # s0 => Own(a, s)' = Own(a, s)
    BY <2>1 DEF Own
  <2>4. /\ IsFiniteSet(Own(a0, s0)') /\ Cardinality(Own(a0, s0)') = c + 1
        /\ c \in Nat
    BY <2>1, <2>2, FS_AddElement, FS_CardinalityType DEF Numbering
  <2>6. {work[r].attempt : r \in Own(a0, s0)} = 1 .. c
    BY <2>1 DEF Numbering
  <2>5. \A r \in Own(a0, s0) : work'[r] = work[r] /\ work[r].attempt \in 1 .. c
    <3> HIDE DEF c
    <3>1. \A r \in Own(a0, s0) : r \in Submits \ {q}
      BY <2>2 DEF Own
    <3> QED
      BY <2>1, <2>6, <3>1
  <2>7. {work'[r].attempt : r \in Own(a0, s0)'} = 1 .. c + 1
    <3> HIDE DEF c
    <3>1. {work'[r].attempt : r \in Own(a0, s0)'} = 1 .. c \cup {c + 1}
      BY <2>1, <2>2, <2>5, <2>6
    <3> QED
      BY <2>4, <3>1
  <2>8. \A r, k \in Own(a0, s0)' : work'[r].attempt = work'[k].attempt => r = k
    <3>1. \A r \in Own(a0, s0) : work'[r].attempt # work'[q].attempt
      <4> HIDE DEF c
      <4> QED
        BY <2>1, <2>4, <2>5
    <3> QED
      BY <2>1, <2>2, <2>5, <3>1 DEF Numbering
  <2>9. ASSUME NEW a \in Assignments, NEW s \in Students
        PROVE  /\ IsFiniteSet(Own(a, s)')
               /\ {work'[r].attempt : r \in Own(a, s)'} = 1 .. Cardinality(Own(a, s)')
               /\ \A r, k \in Own(a, s)' : work'[r].attempt = work'[k].attempt => r = k
    <3>1. CASE a = a0 /\ s = s0
      <4>1. Own(a, s)' = Own(a0, s0)'
        BY <3>1, <2>1 DEF Own
      <4> QED
        BY <2>4, <2>7, <2>8, <4>1
    <3>2. CASE a # a0 \/ s # s0
      <4>1. Own(a, s)' = Own(a, s) /\ q \notin Own(a, s)
        BY <2>1, <2>3, <3>2 DEF Own
      <4>2. \A r \in Own(a, s) : work'[r] = work[r]
        BY <2>1, <4>1 DEF Own
      <4> QED
        BY <4>1, <4>2 DEF Numbering
    <3> QED
      BY <3>1, <3>2
  <2>10. \A p, k \in Submits : Rivals(p, k)' <=> Rivals(p, k)
    BY <2>1 DEF Rivals
  <2>11. ASSUME NEW p \in Submits
         PROVE  /\ phase'[p] = "numbered" => sent'[p].attempt = Cardinality(Pair(p)') + 1
                /\ phase'[p] = "inserted" =>
                      /\ sent'[p].attempt = Cardinality(Pair(p)')
                      /\ \A k \in Submits :
                            Rivals(p, k)' => phase'[k] \notin {"numbered", "inserted"}
    <3>1. CASE p = q
      <4>1. Pair(q)' = Own(a0, s0)'
        BY <2>1 DEF Pair
      <4>2. sent'[q].attempt = Cardinality(Pair(q)')
        BY <2>1, <2>4, <4>1
      <4>3. \A k \in Submits : Rivals(q, k) => k # q
        BY DEF Rivals
      <4> QED
        BY <1>2, <2>1, <2>10, <3>1, <4>2, <4>3
    <3>2. CASE p # q /\ phase[p] \in {"numbered", "inserted"}
      <4>1. ~Rivals(q, p) /\ ~Rivals(p, q)
        BY <2>1, <3>2 DEF Rivals
      <4>2. Pair(p)' = Pair(p)
        BY <2>1, <2>3, <3>2, <4>1 DEF Pair, Rivals
      <4> QED
        BY <2>1, <2>10, <3>2, <4>1, <4>2 DEF Numbering
    <3>3. CASE p # q /\ phase[p] \notin {"numbered", "inserted"}
      BY <2>1, <3>3
    <3> QED
      BY <3>1, <3>2, <3>3
  <2> QED
    BY <2>9, <2>11 DEF Numbering
<1> QED
  BY <1>1, <1>2, InsertStep

LEMMA AbortNumbering ==
    ASSUME TypeOK, Handing, Numbering, NEW q \in Submits, Abort(q)
    PROVE  Numbering'
<1>1. CASE work[q].state = "none"
  <2>1. work' = work
    <3>1. phase[q] # "inserted"
      BY <1>1, AbortStep
    <3> QED
      BY <3>1 DEF Abort
  <2> QED
    BY <2>1, AbortStep, SameNumbers, Kinds
<1>2. CASE phase[q] = "inserted" /\ work[q].state = "pending"
  <2> DEFINE a0 == sent[q].hw
             s0 == sent[q].student
             c  == Cardinality(Own(a0, s0))
  <2>1. /\ a0 \in Assignments /\ s0 \in Students
        /\ q \in Own(a0, s0) /\ work[q].attempt = c
        /\ work'[q].state = "none" /\ phase'[q] = "failed"
        /\ work[q].hw = a0 /\ work[q].student = s0
        /\ UNCHANGED sent
        /\ \A p \in Submits \ {q} : work'[p] = work[p] /\ phase'[p] = phase[p]
        /\ \A p \in Submits : Rivals(q, p) => phase[p] \notin {"numbered", "inserted"}
    BY <1>2, AbortStep, Kinds DEF Handing, Numbering, Pair, Own
  <2>2. Own(a0, s0)' = Own(a0, s0) \ {q}
    BY <2>1 DEF Own
  <2>3. \A a, s : a # a0 \/ s # s0 => Own(a, s)' = Own(a, s)
    BY <2>1 DEF Own
  <2>4. /\ IsFiniteSet(Own(a0, s0)') /\ Cardinality(Own(a0, s0)') = c - 1
        /\ c \in Nat
    BY <2>1, <2>2, FS_RemoveElement, FS_CardinalityType DEF Numbering
  <2>6. /\ {work[r].attempt : r \in Own(a0, s0)} = 1 .. c
        /\ \A r, k \in Own(a0, s0) : work[r].attempt = work[k].attempt => r = k
    BY <2>1 DEF Numbering
  <2>5. \A r \in Own(a0, s0)' :
           work'[r] = work[r] /\ work[r].attempt \in 1 .. c /\ work[r].attempt # c
    <3> HIDE DEF c
    <3>1. \A r \in Own(a0, s0)' : r \in Submits \ {q} /\ r \in Own(a0, s0)
      BY <2>2 DEF Own
    <3> QED
      BY <2>1, <2>6, <3>1
  <2>7. {work'[r].attempt : r \in Own(a0, s0)'} = 1 .. c - 1
    <3> HIDE DEF c
    <3>1. {work'[r].attempt : r \in Own(a0, s0)'} = (1 .. c) \ {c}
      BY <2>1, <2>2, <2>5, <2>6
    <3> QED
      BY <2>4, <3>1
  <2>8. \A r, k \in Own(a0, s0)' : work'[r].attempt = work'[k].attempt => r = k
    BY <2>1, <2>2, <2>5 DEF Numbering
  <2>9. ASSUME NEW a \in Assignments, NEW s \in Students
        PROVE  /\ IsFiniteSet(Own(a, s)')
               /\ {work'[r].attempt : r \in Own(a, s)'} = 1 .. Cardinality(Own(a, s)')
               /\ \A r, k \in Own(a, s)' : work'[r].attempt = work'[k].attempt => r = k
    <3>1. CASE a = a0 /\ s = s0
      <4>1. Own(a, s)' = Own(a0, s0)'
        BY <3>1, <2>1 DEF Own
      <4> QED
        BY <2>4, <2>7, <2>8, <4>1
    <3>2. CASE a # a0 \/ s # s0
      <4>1. Own(a, s)' = Own(a, s) /\ q \notin Own(a, s)
        BY <2>1, <2>3, <3>2 DEF Own
      <4>2. \A r \in Own(a, s) : work'[r] = work[r]
        BY <2>1, <4>1 DEF Own
      <4> QED
        BY <4>1, <4>2 DEF Numbering
    <3> QED
      BY <3>1, <3>2
  <2>10. \A p, k \in Submits : Rivals(p, k)' <=> Rivals(p, k)
    BY <2>1 DEF Rivals
  <2>11. ASSUME NEW p \in Submits, phase'[p] \in {"numbered", "inserted"}
         PROVE  Pair(p)' = Pair(p) /\ p # q
    BY <2>1, <2>3, <2>11 DEF Pair, Rivals
  <2> QED
    BY <2>1, <2>9, <2>10, <2>11 DEF Numbering
<1> QED
  BY <1>1, <1>2, AbortStep

LEMMA DeleteNumbering ==
    ASSUME TypeOK, Handing, Numbering, NEW d \in Deletes, course, DeleteCourse(d)
    PROVE  Numbering'
<1>1. \A a, s : Own(a, s)' = {}
  BY DeleteStep DEF Own
<1>2. IsFiniteSet({}) /\ Cardinality({}) = 0 /\ 1 .. 0 = {}
  BY FS_EmptySet
<1>3. \A q \in Submits : Pair(q)' = {}
  BY <1>1 DEF Pair
<1>4. ASSUME NEW q \in Submits, phase'[q] = "numbered"
      PROVE  sent'[q].attempt = 1
  <2>1. /\ phase[q] = "numbered" /\ UNCHANGED sent /\ q # d
        /\ \A r \in Submits : ~RowLocked(d, r)
    BY <1>4, DeleteStep, Kinds
  <2>2. sent[q].student \in Students /\ sent[q].hw \in Assignments
    BY <2>1 DEF Handing
  <2>3. sent[q].attempt = Cardinality(Pair(q)) + 1
    BY <2>1 DEF Numbering
  <2>4. CASE Cardinality(Pair(q)) = 0
    BY <2>1, <2>3, <2>4
  <2>5. CASE Cardinality(Pair(q)) > 0
    <3>1. PICK r \in Pair(q) : work[r].attempt = Cardinality(Pair(q))
      BY <2>2, <2>5, MaxIsCount DEF Pair
    <3>2. Cardinality(Pair(q)) \in Nat
      BY <2>2, MaxIsCount DEF Pair
    <3>3. work[r].attempt = sent[q].attempt - 1
      BY <2>3, <3>1, <3>2
    <3>4. RowLocked(d, r)
      BY <2>1, <3>1, <3>3 DEF RowLocked, Pair
    <3> QED
      BY <2>1, <3>1, <3>4 DEF Pair, Own
  <2>6. Cardinality(Pair(q)) \in Nat
    BY <2>2, MaxIsCount DEF Pair
  <2> QED
    BY <2>4, <2>5, <2>6
<1>5. \A q \in Submits : phase'[q] # "inserted"
  BY DeleteStep, Kinds
<1>6. ASSUME NEW a \in Assignments, NEW s \in Students
      PROVE  /\ IsFiniteSet(Own(a, s)')
             /\ {work'[r].attempt : r \in Own(a, s)'} = 1 .. Cardinality(Own(a, s)')
             /\ \A r, k \in Own(a, s)' : work'[r].attempt = work'[k].attempt => r = k
  <2>1. {work'[r].attempt : r \in {}} = {}
    OBVIOUS
  <2> QED
    BY <1>1, <1>2, <2>1
<1>7. \A q \in Submits : phase'[q] = "numbered" => sent'[q].attempt = Cardinality(Pair(q)') + 1
  BY <1>2, <1>3, <1>4
<1> QED
  BY <1>5, <1>6, <1>7 DEF Numbering

LEMMA NextNumbering ==
    ASSUME TypeOK, Handing, Holding, Numbering, [Next]_vars
    PROVE  Numbering'
<1> USE Kinds
<1>1. CASE KeptRows
  BY <1>1, SameNumbers DEF KeptRows, Committed
<1>2. ASSUME NEW q \in Submits, NEW s \in Students, NEW a \in Assignments,
             NEW text \in BOOLEAN, NEW file \in Keys \cup {None},
             ReadAssignment(q, s, a, text, file)
      PROVE  Numbering'
  BY <1>2, ReadStep, SameNumbers
<1>3. ASSUME NEW q \in Submits, CommitSubmission(q) PROVE Numbering'
  BY <1>3, CommitStep, SameNumbers
<1> QED
  BY <1>1, <1>2, <1>3, NumberNumbering, InsertNumbering, AbortNumbering, DeleteNumbering,
     RowSteps

-----------------------------------------------------------------------------
(* One row for one file.                                                   *)

LEMMA InitFiled == Init => Filed
  BY DEF Init, Filed, NoWork

\* Steps that leave the files of the rows alone, except that rows may go.
LEMMA SameFiles ==
    ASSUME Filed,
           \A q \in Submits :
              work'[q].state # "none" => work[q].state # "none" /\ work'[q].file = work[q].file
    PROVE  Filed'
  BY DEF Filed

LEMMA NextFiled ==
    ASSUME TypeOK, Handing, Holding, Numbering, Filed, [Next]_vars
    PROVE  Filed'
<1> USE Kinds
<1>1. CASE KeptRows
  BY <1>1, SameFiles DEF KeptRows, Committed
<1>2. ASSUME NEW q \in Submits, NEW s \in Students, NEW a \in Assignments,
             NEW text \in BOOLEAN, NEW file \in Keys \cup {None},
             ReadAssignment(q, s, a, text, file)
      PROVE  Filed'
  BY <1>2, ReadStep, SameFiles
<1>3. ASSUME NEW q \in Submits, LockAttempts(q) PROVE Filed'
  BY <1>3, NumberStep, SameFiles
<1>4. ASSUME NEW q \in Submits, InsertSubmission(q) PROVE Filed'
  <2>1. CASE phase'[q] \in {"failed", "refused"}
    BY <1>4, <2>1, InsertStep, SameFiles
  <2>2. CASE phase'[q] = "inserted"
    <3>1. /\ \A p \in Submits \ {q} : work'[p] = work[p]
          /\ work'[q].file = sent[q].file /\ ~Duplicate(q)
          /\ \A p \in Submits \ {q} :
                phase[p] = "inserted" /\ sent[q].file # None => sent[p].file # sent[q].file
      BY <1>4, <2>2, InsertStep
    <3>2. ASSUME NEW p \in Submits \ {q}, work[p].state # "none", sent[q].file # None
          PROVE  work[p].file # sent[q].file
      <4>1. Committed(p) \/ work[p].state = "pending"
        BY <3>2 DEF TypeOK, Rows, Committed
      <4>2. CASE Committed(p)
        BY <3>1, <3>2, <4>2 DEF Duplicate
      <4>3. CASE work[p].state = "pending"
        <5>1. phase[p] = "inserted" /\ work[p].file = sent[p].file
          BY <4>3, <3>2 DEF Handing
        <5> QED
          BY <3>1, <3>2, <5>1
      <4> QED
        BY <4>1, <4>2, <4>3
    <3> QED
      BY <3>1, <3>2 DEF Filed
  <2> QED
    BY <1>4, <2>1, <2>2, InsertStep
<1>5. ASSUME NEW q \in Submits, CommitSubmission(q) PROVE Filed'
  BY <1>5, CommitStep, SameFiles
<1>6. ASSUME NEW q \in Submits, Abort(q) PROVE Filed'
  BY <1>6, AbortStep, SameFiles
<1>7. ASSUME NEW d \in Deletes, course, DeleteCourse(d) PROVE Filed'
  BY <1>7, DeleteStep, SameFiles
<1> QED
  BY <1>1, <1>2, <1>3, <1>4, <1>5, <1>6, <1>7, RowSteps

-----------------------------------------------------------------------------
(* Who holds a row.                                                        *)

LEMMA InitHolding == Init => Holding
  BY Kinds DEF Init, Holding

\* Steps that are no matter of the edits and reviews.
LEMMA NobodyHolds ==
    ASSUME Holding, UNCHANGED held,
           \A x \in Markers : phase'[x] = phase[x],
           \A r \in Submits : phase[r] = "ok" => phase'[r] = "ok" /\ work'[r].state = work[r].state
    PROVE  Holding'
  BY DEF Holding, Committed

\* Steps by which an edit or a review x takes no row, or lets go of the one it
\* has, which it may have changed.
LEMMA LetsGo ==
    ASSUME Holding, NEW x \in Markers,
           \A y \in Markers \ {x} : phase'[y] = phase[y] /\ held'[y] = held[y],
           \A r \in Submits :
              /\ phase'[r] = phase[r]
              /\ \/ work'[r].state = work[r].state
                 \/ phase[x] = "held" /\ r = held[x].row,
           phase'[x] \in Answers \cup {"viewed"},
           phase'[x] = "viewed" => held'[x].row \in Submits /\ phase[held'[x].row] = "ok"
    PROVE  Holding'
<1>1. ASSUME NEW y \in Markers \ {x}, phase[y] = "held"
      PROVE  work'[held[y].row].state = work[held[y].row].state
  BY <1>1 DEF Holding
<1> QED
  BY <1>1 DEF Holding, Committed, Answers

\* Taking a row that nobody else has.
LEMMA Takes ==
    ASSUME TypeOK, Holding, NEW x \in Markers, Answer(x, "held"),
           phase[x] = "viewed", ~RowLocked(x, held[x].row),
           UNCHANGED work, Committed(held[x].row),
           \A y \in Markers : held'[y].row = held[y].row,
           \A y \in Markers \ {x} : held'[y] = held[y],
           x \in Reviews => held'[x].was = work[held[x].row].state,
           x \in Edits => work[held[x].row].state = "submitted"
    PROVE  Holding'
<1>1. /\ phase'[x] = "held" /\ \A y \in Markers \ {x} : phase'[y] = phase[y]
      /\ \A r \in Submits : phase'[r] = phase[r]
  BY Kinds, Answered
<1>2. \A y \in Markers \ {x} : phase[y] = "held" => held[y].row # held[x].row
  BY Kinds DEF RowLocked
<1> QED
  BY <1>1, <1>2 DEF Holding, Committed

LEMMA NextHolding ==
    ASSUME TypeOK, Handing, Holding, Numbering, [Next]_vars
    PROVE  Holding'
<1> USE Kinds
<1>1. CASE UNCHANGED vars
  BY <1>1, NobodyHolds DEF vars
<1>2. ASSUME NEW x \in Patches \cup Deletes, NEW a, Answer(x, a), UNCHANGED <<work, held>>
      PROVE  Holding'
  <2>1. x \in Requests /\ x \notin Markers /\ x \notin Submits
    OBVIOUS
  <2> QED
    BY <1>2, <2>1, Answered, NobodyHolds
<1>3. ASSUME NEW s \in Students, Enrol(s) \/ Unenrol(s) PROVE Holding'
  BY <1>3, NobodyHolds DEF Enrol, Unenrol
<1>4. ASSUME NEW a \in Assignments, NEW limit \in Limit, NEW accepts \in SUBSET Parts,
             Create(a, limit, accepts) PROVE Holding'
  BY <1>4, NobodyHolds DEF Create
<1>5. ASSUME NEW p \in Patches,
             \/ \E a \in Assignments, c \in Changes : SendPatch(p, a, c)
             \/ LockAssignment(p) \/ CommitPatch(p)
      PROVE  Holding'
  BY <1>2, <1>5 DEF SendPatch, LockAssignment, CommitPatch
<1>6. ASSUME NEW q \in Submits, UNCHANGED held, phase[q] # "ok",
             \A y \in Requests \ {q} : phase'[y] = phase[y],
             \A r \in Submits \ {q} : work'[r] = work[r]
      PROVE  Holding'
  BY <1>6, NobodyHolds
<1>7. ASSUME NEW q \in Submits,
             \/ \E s \in Students, a \in Assignments, text \in BOOLEAN, file \in Keys \cup {None} :
                   ReadAssignment(q, s, a, text, file)
             \/ LockAttempts(q) \/ InsertSubmission(q) \/ CommitSubmission(q) \/ Abort(q)
      PROVE  Holding'
  <2>1. UNCHANGED held
    BY <1>7 DEF ReadAssignment, LockAttempts, InsertSubmission, CommitSubmission, Abort
  <2>2. CASE \E s \in Students, a \in Assignments, text \in BOOLEAN, file \in Keys \cup {None} :
                ReadAssignment(q, s, a, text, file)
    BY <1>6, <2>1, <2>2, ReadStep
  <2>3. CASE LockAttempts(q)
    BY <1>6, <2>1, <2>3, NumberStep
  <2>4. CASE InsertSubmission(q)
    BY <1>6, <2>1, <2>4, InsertStep
  <2>5. CASE CommitSubmission(q)
    BY <1>6, <2>1, <2>5, CommitStep
  <2>6. CASE Abort(q)
    BY <1>6, <2>1, <2>6, AbortStep
  <2> QED
    BY <1>7, <2>2, <2>3, <2>4, <2>5, <2>6
<1>8. ASSUME NEW x \in Markers, NEW r \in Submits, NEW blank \in BOOLEAN,
             ViewSubmission(x, r, blank)
      PROVE  Holding'
  <2>1. \/ Answer(x, "refused") /\ UNCHANGED <<held, work>>
        \/ /\ Answer(x, "viewed") /\ UNCHANGED work /\ Committed(r)
           /\ held' = [held EXCEPT ![x] =
                 [row |-> r, blank |-> blank,
                  text |-> "text" \in hw[work[r].hw].accepts, was |-> work[r].state]]
    BY <1>8 DEF ViewSubmission
  <2>2. held \in [Markers -> Holds]
    BY DEF TypeOK
  <2>3. Committed(r) => phase[r] = "ok"
    BY DEF Handing
  <2>4. CASE Answer(x, "refused") /\ UNCHANGED <<held, work>>
    BY <2>4, Answered, LetsGo DEF Answers
  <2>5. CASE /\ Answer(x, "viewed") /\ UNCHANGED work /\ Committed(r)
             /\ held' = [held EXCEPT ![x] =
                   [row |-> r, blank |-> blank,
                    text |-> "text" \in hw[work[r].hw].accepts, was |-> work[r].state]]
    BY <2>2, <2>3, <2>5, Answered, LetsGo
  <2> QED
    BY <2>1, <2>4, <2>5
<1>9. ASSUME NEW e \in Edits, LockEdit(e) PROVE Holding'
  <2>1. /\ phase[e] = "viewed" /\ UNCHANGED <<held, work>> /\ ~RowLocked(e, held[e].row)
        /\ \/ \E a \in {"failed", "refused"} : Answer(e, a)
           \/ Answer(e, "held") /\ work[held[e].row].state = "submitted"
    BY <1>9 DEF LockEdit
  <2>2. ASSUME NEW a \in {"failed", "refused"}, Answer(e, a) PROVE Holding'
    BY <2>1, <2>2, Answered, LetsGo DEF Answers
  <2>3. CASE Answer(e, "held") /\ work[held[e].row].state = "submitted"
    BY <2>1, <2>3, Takes DEF Committed
  <2> QED
    BY <2>1, <2>2, <2>3
<1>10. ASSUME NEW v \in Reviews, LockReview(v) PROVE Holding'
  <2>1. /\ phase[v] = "viewed" /\ UNCHANGED work /\ ~RowLocked(v, held[v].row)
        /\ Answer(v, IF work[held[v].row].state = "none" THEN "failed" ELSE "held")
        /\ held' = [held EXCEPT ![v].was = work[held[v].row].state]
    BY <1>10 DEF LockReview
  <2>2. held[v].row \in Submits /\ phase[held[v].row] = "ok"
    BY <2>1 DEF Holding
  <2>3. work[held[v].row].state \in {"none", "submitted", "reviewed"}
    BY <2>2 DEF TypeOK, Handing, Rows
  <2>4. held \in [Markers -> Holds]
    BY DEF TypeOK
  <2>5. /\ \A y \in Markers \ {v} : held'[y] = held[y]
        /\ \A y \in Markers : held'[y].row = held[y].row
        /\ held'[v].was = work[held[v].row].state
    BY <2>1, <2>4 DEF Holds
  <2>6. CASE work[held[v].row].state = "none"
    BY <2>1, <2>5, <2>6, Answered, LetsGo DEF Answers
  <2>7. CASE work[held[v].row].state # "none"
    <3>1. Committed(held[v].row) /\ Answer(v, "held") /\ v \notin Edits
      BY <2>1, <2>3, <2>7 DEF Committed
    <3> QED
      BY <2>1, <2>5, <3>1, Takes
  <2> QED
    BY <2>6, <2>7
<1>11. ASSUME NEW e \in Edits, CommitEdit(e) PROVE Holding'
  <2>1. UNCHANGED held /\ e \in Markers
    BY <1>11 DEF CommitEdit
  <2> QED
    BY <1>11, <2>1, CommitEditRows, LetsGo DEF Answers
<1>12. ASSUME NEW v \in Reviews, CommitReview(v) PROVE Holding'
  <2>1. UNCHANGED held /\ v \in Markers
    BY <1>12 DEF CommitReview
  <2> QED
    BY <1>12, <2>1, CommitReviewRows, LetsGo DEF Answers
<1>13. ASSUME NEW d \in Deletes,
              \/ ListAssignments(d) \/ GatherWork(d)
              \/ \E confirm \in BOOLEAN : Gate(d, confirm)
              \/ ~course /\ DeleteCourse(d)
       PROVE  Holding'
  BY <1>2, <1>13 DEF ListAssignments, GatherWork, Gate, DeleteCourse
<1>14. ASSUME NEW d \in Deletes, course, DeleteCourse(d) PROVE Holding'
  <2>1. \A x \in Markers : phase[x] # "held"
    BY <1>14, DeleteStep DEF RowLocked, Holding
  <2> QED
    BY <1>14, <2>1, DeleteStep DEF Holding
<1>15. ASSUME NEW d \in Deletes, NEW k \in Keys, CleanObject(d, k) PROVE Holding'
  BY <1>15, NobodyHolds DEF CleanObject
<1>16. ASSUME NEW x \in Markers, Abort(x) PROVE Holding'
  <2>1. phase[x] # "inserted"
    BY DEF Holding, Answers
  <2>2. UNCHANGED <<held, work>> /\ Answer(x, "failed")
    BY <1>16, <2>1 DEF Abort
  <2> QED
    BY <2>2, Answered, LetsGo DEF Answers
<1>17. ASSUME NEW x \in Patches \cup Deletes, Abort(x) PROVE Holding'
  <2>1. UNCHANGED <<held, work>> /\ Answer(x, "failed")
    BY <1>17 DEF Abort, TypeOK
  <2> QED
    BY <1>2, <2>1
<1>18. CASE Next
  <2>1. CASE \E x \in Requests : Abort(x)
    BY <1>7, <1>16, <1>17, <2>1
  <2>2. CASE \/ \E s \in Students : Enrol(s) \/ Unenrol(s)
             \/ \E a \in Assignments, limit \in Limit, accepts \in SUBSET Parts :
                   Create(a, limit, accepts)
    BY <1>3, <1>4, <2>2
  <2>3. CASE \E p \in Patches :
                \/ \E a \in Assignments, c \in Changes : SendPatch(p, a, c)
                \/ LockAssignment(p) \/ CommitPatch(p)
    BY <1>5, <2>3
  <2>4. CASE \E q \in Submits :
                \/ \E s \in Students, a \in Assignments, text \in BOOLEAN,
                      file \in Keys \cup {None} : ReadAssignment(q, s, a, text, file)
                \/ LockAttempts(q) \/ InsertSubmission(q) \/ CommitSubmission(q)
    BY <1>7, <2>4
  <2>5. CASE \E e \in Edits :
                \/ \E r \in Submits, blank \in BOOLEAN : ViewSubmission(e, r, blank)
                \/ LockEdit(e) \/ CommitEdit(e)
    BY <1>8, <1>9, <1>11, <2>5
  <2>6. CASE \E v \in Reviews :
                \/ \E r \in Submits : ViewSubmission(v, r, FALSE)
                \/ LockReview(v) \/ CommitReview(v)
    BY <1>8, <1>10, <1>12, <2>6
  <2>7. CASE \E d \in Deletes :
                \/ ListAssignments(d) \/ GatherWork(d)
                \/ \E confirm \in BOOLEAN : Gate(d, confirm)
                \/ DeleteCourse(d)
                \/ \E k \in Keys : CleanObject(d, k)
    BY <1>13, <1>14, <1>15, <2>7
  <2> QED
    BY <1>18, <2>1, <2>2, <2>3, <2>4, <2>5, <2>6, <2>7 DEF Next
<1> QED
  BY <1>1, <1>18

-----------------------------------------------------------------------------
(* The assignments.                                                        *)

\* Nothing about assignments changes; of work, only an INSERT adds.
Elsewhere ==
    /\ UNCHANGED <<course, hw, patch, limits>>
    /\ \A p \in Patches : phase'[p] = phase[p]
    /\ \A d \in Deletes :
          phase'[d] = phase[d] \/ phase'[d] \in {"listed", "gathered", "confirmed", "refused", "failed"}
    /\ UNCHANGED objects \/ \E d \in Deletes : phase[d] = "ok"
    /\ \A q \in Submits :
          \/ /\ work'[q].hw \in {work[q].hw, None}
             /\ work'[q].state # "none" => work[q].state # "none"
          \/ phase'[q] = "inserted" /\ InsertSubmission(q)
    /\ \A n \in notes' :
          \/ n \in notes \/ n.type \in {"course_enrolled", "submission_received"}
          \/ \E v \in Reviews : CommitReview(v) /\ n.type = "submission_reviewed"

LEMMA PostElsewhere ==
    ASSUME TypeOK, Handing, Numbering, NEW q \in Submits,
           \/ \E s \in Students, a \in Assignments, text \in BOOLEAN, file \in Keys \cup {None} :
                 ReadAssignment(q, s, a, text, file)
           \/ LockAttempts(q) \/ InsertSubmission(q) \/ CommitSubmission(q) \/ Abort(q)
    PROVE  Elsewhere
<1> USE Kinds
<1>1. UNCHANGED patch
  BY DEF ReadAssignment, LockAttempts, InsertSubmission, CommitSubmission, Abort
<1>2. CASE \E s \in Students, a \in Assignments, text \in BOOLEAN, file \in Keys \cup {None} :
              ReadAssignment(q, s, a, text, file)
  BY <1>1, <1>2, ReadStep DEF Elsewhere
<1>3. CASE LockAttempts(q)
  BY <1>1, <1>3, NumberStep DEF Elsewhere
<1>4. CASE InsertSubmission(q)
  BY <1>1, <1>4, InsertStep DEF Elsewhere
<1>5. CASE CommitSubmission(q)
  <2>1. \A n \in notes' : n \in notes \/ n.type = "submission_received"
    BY <1>5 DEF CommitSubmission, Note
  <2> QED
    BY <1>1, <1>5, <2>1, CommitStep DEF Elsewhere
<1>6. CASE Abort(q)
  BY <1>1, <1>6, AbortStep DEF Elsewhere
<1> QED
  BY <1>2, <1>3, <1>4, <1>5, <1>6

LEMMA MarkElsewhere ==
    ASSUME TypeOK, Holding, NEW x \in Markers,
           \/ \E r \in Submits, blank \in BOOLEAN : ViewSubmission(x, r, blank)
           \/ x \in Edits /\ (LockEdit(x) \/ CommitEdit(x))
           \/ x \in Reviews /\ (LockReview(x) \/ CommitReview(x))
           \/ Abort(x)
    PROVE  Elsewhere
<1> USE Kinds
<1>1. UNCHANGED <<course, hw, patch, limits, objects>> /\ \E a : Answer(x, a)
  BY DEF ViewSubmission, LockEdit, CommitEdit, LockReview, CommitReview, Abort
<1>2. \A y \in Patches \cup Deletes : phase'[y] = phase[y]
  BY <1>1, Answered
<1>3. CASE UNCHANGED <<work, notes>>
  BY <1>1, <1>2, <1>3 DEF Elsewhere
<1>4. CASE x \in Edits /\ CommitEdit(x)
  BY <1>1, <1>2, <1>4, CommitEditRows DEF Elsewhere
<1>5. CASE x \in Reviews /\ CommitReview(x)
  <2>1. \A n \in notes' : n \in notes \/ n.type = "submission_reviewed"
    BY <1>5 DEF CommitReview, Note
  <2>2. \A q \in Submits : /\ work'[q].hw = work[q].hw
                           /\ work'[q].state # "none" => work[q].state # "none"
    BY <1>5, CommitReviewRows DEF Committed
  <2> QED
    BY <1>1, <1>2, <1>5, <2>1, <2>2 DEF Elsewhere
<1>6. CASE Abort(x)
  <2>1. phase[x] # "inserted"
    BY DEF Holding, Answers
  <2>2. UNCHANGED <<work, notes>>
    BY <1>6, <2>1 DEF Abort
  <2> QED
    BY <1>3, <2>2
<1> QED
  BY <1>3, <1>4, <1>5, <1>6 DEF ViewSubmission, LockEdit, LockReview

LEMMA DeleteElsewhere ==
    ASSUME TypeOK, NEW d \in Deletes,
           \/ ListAssignments(d) \/ GatherWork(d)
           \/ \E confirm \in BOOLEAN : Gate(d, confirm)
           \/ ~course /\ DeleteCourse(d)
           \/ \E k \in Keys : CleanObject(d, k)
           \/ Abort(d)
    PROVE  Elsewhere
<1> USE Kinds
<1>1. CASE \E k \in Keys : CleanObject(d, k)
  BY <1>1 DEF CleanObject, Elsewhere
<1>2. CASE ~\E k \in Keys : CleanObject(d, k)
  <2>1. /\ UNCHANGED <<course, hw, patch, limits, objects, work, notes>>
        /\ \E a \in {"listed", "gathered", "confirmed", "refused", "failed"} : Answer(d, a)
    BY <1>2 DEF ListAssignments, GatherWork, Gate, DeleteCourse, Abort, TypeOK
  <2>2. phase'[d] \in {"listed", "gathered", "confirmed", "refused", "failed"}
    BY <2>1, Answered
  <2>3. \A y \in Requests \ {d} : phase'[y] = phase[y]
    BY <2>1, Answered
  <2> QED
    BY <2>1, <2>2, <2>3 DEF Elsewhere
<1> QED
  BY <1>1, <1>2

LEMMA DeskSteps ==
    ASSUME TypeOK, Handing, Holding, Numbering, [Next]_vars
    PROVE  \/ Elsewhere
           \/ \E a \in Assignments, limit \in Limit, accepts \in SUBSET Parts :
                 Create(a, limit, accepts)
           \/ \E p \in Patches :
                 \/ \E a \in Assignments, c \in Changes : SendPatch(p, a, c)
                 \/ LockAssignment(p) \/ CommitPatch(p) \/ Abort(p)
           \/ \E d \in Deletes : course /\ DeleteCourse(d)
<1> USE Kinds
<1>1. CASE UNCHANGED vars
  BY <1>1 DEF vars, Elsewhere
<1>2. ASSUME NEW s \in Students, Enrol(s) \/ Unenrol(s) PROVE Elsewhere
  BY <1>2 DEF Enrol, Unenrol, Elsewhere, Note
<1>3. CASE Next
  <2>1. CASE \E x \in Requests : Abort(x)
    BY <2>1, PostElsewhere, MarkElsewhere, DeleteElsewhere
  <2>2. CASE \E q \in Submits :
                \/ \E s \in Students, a \in Assignments, text \in BOOLEAN,
                      file \in Keys \cup {None} : ReadAssignment(q, s, a, text, file)
                \/ LockAttempts(q) \/ InsertSubmission(q) \/ CommitSubmission(q)
    BY <2>2, PostElsewhere
  <2>3. CASE \E e \in Edits :
                \/ \E r \in Submits, blank \in BOOLEAN : ViewSubmission(e, r, blank)
                \/ LockEdit(e) \/ CommitEdit(e)
    BY <2>3, MarkElsewhere
  <2>4. CASE \E v \in Reviews :
                \/ \E r \in Submits : ViewSubmission(v, r, FALSE)
                \/ LockReview(v) \/ CommitReview(v)
    BY <2>4, MarkElsewhere
  <2>5. CASE \E d \in Deletes :
                \/ ListAssignments(d) \/ GatherWork(d)
                \/ \E confirm \in BOOLEAN : Gate(d, confirm)
                \/ DeleteCourse(d)
                \/ \E k \in Keys : CleanObject(d, k)
    BY <2>5, DeleteElsewhere
  <2>6. CASE \/ \E s \in Students : Enrol(s) \/ Unenrol(s)
             \/ \E a \in Assignments, limit \in Limit, accepts \in SUBSET Parts :
                   Create(a, limit, accepts)
             \/ \E p \in Patches :
                   \/ \E a \in Assignments, c \in Changes : SendPatch(p, a, c)
                   \/ LockAssignment(p) \/ CommitPatch(p)
    BY <1>2, <2>6
  <2> QED
    BY <1>3, <2>1, <2>2, <2>3, <2>4, <2>5, <2>6 DEF Next
<1> QED
  BY <1>1, <1>3

LEMMA InitPatching == Init => Patching
  BY Kinds DEF Init, Patching

\* Steps that change no PATCH, and no assignment that a PATCH has.
LEMMA SamePatches ==
    ASSUME Patching, UNCHANGED patch,
           \A p \in Patches : phase'[p] = phase[p],
           \A p \in Patches : phase[p] = "patched" =>
              /\ hw'[patch[p].hw] = hw[patch[p].hw]
              /\ \A r \in Submits : work'[r].hw = patch[p].hw => work[r].hw = patch[p].hw
    PROVE  Patching'
  BY DEF Patching, Merged, Retracts, Publishes

\* Steps by which a PATCH p takes no assignment, or lets go of the one it has,
\* which it may have changed.
LEMMA PutsDown ==
    ASSUME TypeOK, Patching, NEW p \in Patches, NEW a, Answer(p, a),
           a \in Answers \cup {"sent"},
           \A k \in Patches \ {p} : patch'[k] = patch[k],
           a = "sent" => patch'[p].hw \in Assignments,
           UNCHANGED work,
           \A b \in Assignments :
              hw'[b] = hw[b] \/ (phase[p] = "patched" /\ patch[p].hw = b)
    PROVE  Patching'
<1>1. phase'[p] = a /\ \A k \in Patches \ {p} : phase'[k] = phase[k]
  BY Kinds, Answered
<1>2. ASSUME NEW k \in Patches \ {p}, phase[k] = "patched"
      PROVE  hw'[patch[k].hw] = hw[patch[k].hw]
  BY <1>2 DEF Patching
<1> QED
  BY <1>1, <1>2 DEF Patching, Merged, Retracts, Publishes, Answers

\* Work that counts when nobody is inserting any.
LEMMA NoneUncommitted ==
    ASSUME TypeOK, Handing, NEW a \in Assignments, ~SubmitLocks(a),
           NEW r \in Submits, work[r].hw = a
    PROVE  Committed(r)
<1>1. work[r].state # "none"
  BY Nulls DEF Handing
<1>2. work[r].state # "pending"
  BY <1>1 DEF Handing, SubmitLocks
<1> QED
  BY <1>1, <1>2 DEF TypeOK, Rows, Committed

LEMMA LockPatching ==
    ASSUME TypeOK, Handing, Patching, NEW p \in Patches, LockAssignment(p)
    PROVE  Patching'
<1> DEFINE a == patch[p].hw
<1>1. phase[p] = "sent" /\ a \in Assignments /\ ~PatchLocks(a) /\ ~SubmitLocks(a)
  BY DEF LockAssignment, Patching
<1>2. UNCHANGED <<hw, work>>
  BY DEF LockAssignment
<1>3. CASE Answer(p, "refused") /\ UNCHANGED patch
  BY <1>1, <1>2, <1>3, PutsDown DEF Answers
<1>4. CASE ~(Answer(p, "refused") /\ UNCHANGED patch)
  <2> DEFINE told == IF Publishes(p, hw[a].status) THEN enrolled ELSE {}
  <2>1. /\ Answer(p, "patched") /\ ~RefusesPatch(p, a)
        /\ patch' = [patch EXCEPT ![p].was = hw[a].status, ![p].told = told]
    BY <1>4 DEF LockAssignment
  <2>2. patch \in [Patches -> Bodies]
    BY DEF TypeOK
  <2>3. /\ \A k \in Patches \ {p} : patch'[k] = patch[k]
        /\ patch'[p].hw = a /\ patch'[p].was = hw[a].status /\ patch'[p].told = told
        /\ patch'[p].status = patch[p].status
        /\ patch'[p].on = patch[p].on /\ patch'[p].off = patch[p].off
    <3> HIDE DEF told
    <3> QED
      BY <2>1, <2>2 DEF Bodies
  <2>4. phase'[p] = "patched" /\ \A k \in Patches \ {p} : phase'[k] = phase[k]
    BY <2>1, Kinds, Answered
  <2>5. /\ hw[a].status # "absent" /\ Merged(a, p) # {}
        /\ Retracts(p, hw[a].status) => \A r \in Submits : work[r].hw # a
    BY <1>1, <2>1, NoneUncommitted DEF RefusesPatch
  <2>6. Merged(a, p)' = Merged(a, p)
    BY <1>2, <2>3 DEF Merged
  <2>7. /\ Retracts(p, patch[p].was)' => Retracts(p, hw[a].status)
        /\ ~Publishes(p, patch[p].was)' => told = {}
    BY <2>3 DEF Retracts, Publishes
  <2>8. \A k \in Patches \ {p} : phase[k] = "patched" => patch[k].hw # a
    BY <1>1 DEF PatchLocks
  <2>9. ASSUME NEW k \in Patches \ {p}, phase[k] = "patched"
        PROVE  /\ Merged(patch[k].hw, k)' = Merged(patch[k].hw, k)
               /\ Retracts(k, patch[k].was)' <=> Retracts(k, patch[k].was)
               /\ Publishes(k, patch[k].was)' <=> Publishes(k, patch[k].was)
    BY <1>2, <2>3 DEF Merged, Retracts, Publishes
  <2>10. ASSUME NEW k \in Patches \ {p}
         PROVE  /\ phase'[k] \in {"idle", "sent", "patched"} \cup Answers
                /\ phase'[k] \in {"sent", "patched"} => patch'[k].hw \in Assignments
                /\ phase'[k] = "patched" =>
                      /\ hw'[patch'[k].hw].status = patch'[k].was /\ patch'[k].was # "absent"
                      /\ Merged(patch[k].hw, k)' # {}
                      /\ \A j \in Patches :
                            phase'[j] = "patched" /\ patch'[j].hw = patch'[k].hw => j = k
                      /\ Retracts(k, patch[k].was)' => \A r \in Submits : work'[r].hw # patch'[k].hw
                      /\ ~Publishes(k, patch[k].was)' => patch'[k].told = {}
    BY <1>2, <2>3, <2>4, <2>8, <2>9 DEF Patching
  <2>11. /\ hw'[patch'[p].hw].status = patch'[p].was /\ patch'[p].was # "absent"
         /\ Merged(patch[p].hw, p)' # {}
         /\ \A j \in Patches : phase'[j] = "patched" /\ patch'[j].hw = patch'[p].hw => j = p
         /\ Retracts(p, patch[p].was)' => \A r \in Submits : work'[r].hw # patch'[p].hw
         /\ ~Publishes(p, patch[p].was)' => patch'[p].told = {}
    <3>1. Merged(patch[p].hw, p)' # {}
      BY <2>3, <2>5, <2>6
    <3> QED
      BY <1>2, <2>3, <2>4, <2>5, <2>7, <2>8, <3>1
  <2> QED
    BY <1>1, <2>3, <2>4, <2>10, <2>11 DEF Patching
<1> QED
  BY <1>3, <1>4

LEMMA NextPatching ==
    ASSUME TypeOK, Handing, Holding, Numbering, Patching, Granting, [Next]_vars
    PROVE  Patching'
<1> USE Kinds
<1>1. CASE Elsewhere
  <2>1. \A p \in Patches : phase[p] = "patched" =>
           \A r \in Submits : work'[r].hw = patch[p].hw => work[r].hw = patch[p].hw
    <3> SUFFICES ASSUME NEW p \in Patches, phase[p] = "patched",
                        NEW r \in Submits, work'[r].hw = patch[p].hw
                 PROVE  work[r].hw = patch[p].hw
      OBVIOUS
    <3>1. patch[p].hw \in Assignments /\ PatchLocks(patch[p].hw)
      BY DEF Patching, PatchLocks
    <3>2. CASE work'[r].hw \in {work[r].hw, None}
      BY <3>1, <3>2, Nulls
    <3>3. CASE phase'[r] = "inserted" /\ InsertSubmission(r)
      BY <3>1, <3>3, InsertStep
    <3> QED
      BY <1>1, <3>2, <3>3 DEF Elsewhere
  <2> QED
    BY <1>1, <2>1, SamePatches DEF Elsewhere
<1>2. ASSUME NEW a \in Assignments, NEW limit \in Limit, NEW accepts \in SUBSET Parts,
             Create(a, limit, accepts) PROVE Patching'
  <2>1. hw[a].status = "absent"
    BY <1>2 DEF Create, Granting
  <2>2. UNCHANGED <<patch, phase, work>> /\ \A b \in Assignments \ {a} : hw'[b] = hw[b]
    BY <1>2 DEF Create, TypeOK
  <2> QED
    BY <2>1, <2>2, SamePatches DEF Patching
<1>3. ASSUME NEW p \in Patches, NEW a \in Assignments, NEW c \in Changes, SendPatch(p, a, c)
      PROVE  Patching'
  <2>1. /\ Answer(p, "sent") /\ UNCHANGED <<work, hw>>
        /\ \A k \in Patches \ {p} : patch'[k] = patch[k]
        /\ patch'[p].hw = a
    BY <1>3 DEF SendPatch, TypeOK
  <2> QED
    BY <2>1, PutsDown
<1>4. ASSUME NEW p \in Patches, CommitPatch(p) PROVE Patching'
  <2>1. /\ Answer(p, "ok") /\ UNCHANGED <<work, patch>> /\ phase[p] = "patched"
        /\ \A b \in Assignments : b # patch[p].hw => hw'[b] = hw[b]
    BY <1>4 DEF CommitPatch, TypeOK
  <2> QED
    BY <2>1, PutsDown DEF Answers
<1>5. ASSUME NEW p \in Patches, Abort(p) PROVE Patching'
  <2>1. Answer(p, "failed") /\ UNCHANGED <<work, patch, hw>>
    BY <1>5 DEF Abort, TypeOK
  <2> QED
    BY <2>1, PutsDown DEF Answers
<1>6. ASSUME NEW d \in Deletes, course, DeleteCourse(d) PROVE Patching'
  <2>1. \A p \in Patches : phase[p] # "patched"
    BY <1>6, DeleteStep DEF PatchLocks, Patching
  <2> QED
    BY <1>6, <2>1, DeleteStep, SamePatches
<1> QED
  BY <1>1, <1>2, <1>3, <1>4, <1>5, <1>6, LockPatching, DeskSteps

-----------------------------------------------------------------------------
(* Limits, notifications, and the end of the course.                       *)

LEMMA InitGranting == Init => Granting
  BY Kinds DEF Init, Granting, Absent

\* Limits are only ever added.
LEMMA LimitsGrow ==
    ASSUME TypeOK, Handing, Holding, Numbering, Patching, [Next]_vars
    PROVE  \A a \in Assignments : limits[a] \subseteq limits'[a]
<1>1. ASSUME NEW a \in Assignments, NEW limit \in Limit, NEW accepts \in SUBSET Parts,
             Create(a, limit, accepts)
      PROVE  \A b \in Assignments : limits[b] \subseteq limits'[b]
  BY <1>1 DEF Create, TypeOK
<1>2. ASSUME NEW p \in Patches, CommitPatch(p)
      PROVE  \A b \in Assignments : limits[b] \subseteq limits'[b]
  BY <1>2 DEF CommitPatch, TypeOK
<1>3. ASSUME NEW p \in Patches,
             \/ \E a \in Assignments, c \in Changes : SendPatch(p, a, c)
             \/ LockAssignment(p) \/ Abort(p)
      PROVE  UNCHANGED limits
  BY <1>3 DEF SendPatch, LockAssignment, Abort
<1> QED
  BY <1>1, <1>2, <1>3, DeleteStep, DeskSteps DEF Elsewhere

LEMMA NextGranting ==
    ASSUME TypeOK, Handing, Holding, Numbering, Patching, Granting, [Next]_vars
    PROVE  Granting'
<1> USE Kinds
<1>1. \A a \in Assignments : hw'[a].status # "absent" => hw'[a].limit \in limits'[a]
  <2>1. ASSUME NEW a \in Assignments, NEW limit \in Limit, NEW accepts \in SUBSET Parts,
               Create(a, limit, accepts)
        PROVE  \A b \in Assignments : hw'[b].status # "absent" => hw'[b].limit \in limits'[b]
    BY <2>1 DEF Create, TypeOK, Granting
  <2>2. ASSUME NEW p \in Patches, CommitPatch(p)
        PROVE  \A b \in Assignments : hw'[b].status # "absent" => hw'[b].limit \in limits'[b]
    <3>1. \A b \in Assignments : b # patch[p].hw => hw'[b] = hw[b] /\ limits'[b] = limits[b]
      BY <2>2 DEF CommitPatch, TypeOK
    <3>2. patch[p].hw \in Assignments
      BY <2>2 DEF CommitPatch, Patching
    <3>3. limits' = [limits EXCEPT ![patch[p].hw] = limits[patch[p].hw] \cup {hw'[patch[p].hw].limit}]
      BY <2>2 DEF CommitPatch, TypeOK
    <3>4. hw'[patch[p].hw].limit \in limits'[patch[p].hw]
      BY <3>2, <3>3 DEF TypeOK
    <3> QED
      BY <3>1, <3>4 DEF Granting
  <2>3. ASSUME NEW p \in Patches,
               \/ \E a \in Assignments, c \in Changes : SendPatch(p, a, c)
               \/ LockAssignment(p) \/ Abort(p)
        PROVE  UNCHANGED <<hw, limits>>
    BY <2>3 DEF SendPatch, LockAssignment, Abort
  <2>4. CASE UNCHANGED <<hw, limits>>
    BY <2>4 DEF Granting
  <2> QED
    BY <2>1, <2>2, <2>3, <2>4, DeleteStep, DeskSteps DEF Elsewhere
<1>2. \A a \in Assignments : limits[a] \subseteq limits'[a]
  BY LimitsGrow
<1> DEFINE Granted(q) ==
              /\ phase[q] \in {"read", "numbered", "inserted"} => sent[q].limit \in limits[sent[q].hw]
              /\ phase[q] \in {"numbered", "inserted"} => ~OverLimit(q, sent[q].attempt)
<1>3. \A q \in Submits : phase[q] \in {"read", "numbered", "inserted"} => sent[q].hw \in Assignments
  BY DEF Handing
<1>4. ASSUME NEW q \in Submits, phase'[q] = phase[q], sent'[q] = sent[q]
      PROVE  Granted(q)'
  BY <1>2, <1>3, <1>4 DEF Granting, OverLimit
<1>5. CASE KeptRows
  BY <1>1, <1>4, <1>5 DEF KeptRows, Granting
<1>6. ASSUME NEW q \in Submits, Granted(q)',
             \A p \in Submits \ {q} : phase'[p] = phase[p] /\ sent'[p] = sent[p]
      PROVE  Granting'
  BY <1>1, <1>4, <1>6 DEF Granting
<1> HIDE DEF Granted
<1>7. ASSUME NEW q \in Submits, NEW s \in Students, NEW a \in Assignments,
             NEW text \in BOOLEAN, NEW file \in Keys \cup {None},
             ReadAssignment(q, s, a, text, file)
      PROVE  Granting'
  <2>1. Granted(q)'
    BY <1>7, ReadStep DEF Granted, Granting
  <2> QED
    BY <1>6, <1>7, <2>1, ReadStep
<1>8. ASSUME NEW q \in Submits, LockAttempts(q) PROVE Granting'
  <2>1. phase[q] = "read" /\ sent[q].limit \in limits[sent[q].hw] /\ UNCHANGED limits
    BY <1>8, NumberStep DEF Granting
  <2>2. CASE phase'[q] = "refused"
    BY <1>6, <1>8, <2>2, NumberStep DEF Granted
  <2>3. CASE phase'[q] = "numbered"
    <3>1. /\ sent'[q].attempt = Cardinality(Pair(q)) + 1
          /\ ~OverLimit(q, Cardinality(Pair(q)) + 1)
          /\ sent'[q].limit = sent[q].limit /\ sent'[q].hw = sent[q].hw
      BY <1>8, <2>3, NumberStep
    <3>2. Granted(q)'
      BY <2>1, <2>3, <3>1 DEF Granted, OverLimit
    <3> QED
      BY <1>6, <1>8, <3>2, NumberStep
  <2> QED
    BY <1>8, <2>2, <2>3, NumberStep
<1>9. ASSUME NEW q \in Submits, InsertSubmission(q) PROVE Granting'
  <2>1. phase[q] = "numbered" /\ UNCHANGED <<limits, sent>>
    BY <1>9, InsertStep
  <2>2. Granted(q)'
    BY <2>1 DEF Granted, Granting, OverLimit
  <2> QED
    BY <1>6, <1>9, <2>2, InsertStep
<1>10. ASSUME NEW q \in Submits, CommitSubmission(q) \/ Abort(q) PROVE Granting'
  <2>1. Granted(q)'
    BY <1>10, CommitStep, AbortStep DEF Granted
  <2> QED
    BY <1>6, <1>10, <2>1, CommitStep, AbortStep
<1>11. ASSUME NEW d \in Deletes, course, DeleteCourse(d) PROVE Granting'
  BY <1>1, <1>4, <1>11, DeleteStep DEF Granting, Granted
<1> QED
  BY <1>5, <1>7, <1>8, <1>9, <1>10, <1>11, RowSteps

LEMMA InitTelling == Init => Telling
  BY DEF Init, Telling

\* A submission that is there for good stays there, or goes for good.
LEMMA StaysDone ==
    ASSUME TypeOK, Handing, Holding, Numbering, [Next]_vars, NEW r \in Submits, phase[r] = "ok"
    PROVE  /\ phase'[r] = "ok"
           /\ work[r].state \in {"reviewed", "none"} => work'[r].state \in {"reviewed", "none"}
<1> USE Kinds
<1>1. CASE KeptRows
  BY <1>1 DEF KeptRows, Committed
<1>2. ASSUME NEW q \in Submits, phase[q] # "ok", \A y \in Requests \ {q} : phase'[y] = phase[y],
             \A p \in Submits \ {q} : work'[p] = work[p]
      PROVE  phase'[r] = "ok" /\ work'[r] = work[r]
  BY <1>2
<1>3. ASSUME NEW q \in Submits,
             \/ \E s \in Students, a \in Assignments, text \in BOOLEAN, file \in Keys \cup {None} :
                   ReadAssignment(q, s, a, text, file)
             \/ LockAttempts(q) \/ InsertSubmission(q) \/ CommitSubmission(q) \/ Abort(q)
      PROVE  phase'[r] = "ok" /\ work'[r] = work[r]
  <2>1. CASE \E s \in Students, a \in Assignments, text \in BOOLEAN, file \in Keys \cup {None} :
                ReadAssignment(q, s, a, text, file)
    BY <1>2, <2>1, ReadStep
  <2>2. CASE LockAttempts(q)
    BY <1>2, <2>2, NumberStep
  <2>3. CASE InsertSubmission(q)
    BY <1>2, <2>3, InsertStep
  <2>4. CASE CommitSubmission(q)
    BY <1>2, <2>4, CommitStep
  <2>5. CASE Abort(q)
    BY <1>2, <2>5, AbortStep
  <2> QED
    BY <1>3, <2>1, <2>2, <2>3, <2>4, <2>5
<1>4. ASSUME NEW d \in Deletes, course, DeleteCourse(d)
      PROVE  phase'[r] = "ok" /\ work'[r].state = "none"
  BY <1>4, DeleteStep
<1> QED
  BY <1>1, <1>3, <1>4, RowSteps

\* What a step can tell: of a review the one that is committed, of a published
\* assignment the PATCH that publishes it.
LEMMA NewNotes ==
    ASSUME TypeOK, Handing, Holding, Numbering, Patching, [Next]_vars, NEW n \in notes' \ notes
    PROVE  /\ n.type = "submission_reviewed" =>
                 \E v \in Reviews :
                    /\ CommitReview(v) /\ held[v].was # "reviewed"
                    /\ notes' = notes \cup Note("submission_reviewed",
                                                {work[held[v].row].student}, held[v].row, v)
           /\ n.type = "assignment_published" =>
                 \E p \in Patches :
                    /\ CommitPatch(p) /\ Publishes(p, patch[p].was)
                    /\ n \in Note("assignment_published", patch[p].told, patch[p].hw, p)
<1>1. CASE Elsewhere
  <2>1. n.type \in {"course_enrolled", "submission_received"} \/
        \E v \in Reviews : CommitReview(v) /\ n.type = "submission_reviewed"
    BY <1>1 DEF Elsewhere
  <2>2. ASSUME NEW v \in Reviews, CommitReview(v)
        PROVE  /\ held[v].was # "reviewed"
               /\ notes' = notes \cup Note("submission_reviewed",
                                           {work[held[v].row].student}, held[v].row, v)
    BY <2>2 DEF CommitReview
  <2> QED
    BY <2>1, <2>2
<1>2. ASSUME NEW p \in Patches, CommitPatch(p)
      PROVE  /\ n.type = "assignment_published" /\ Publishes(p, patch[p].was)
             /\ n \in Note("assignment_published", patch[p].told, patch[p].hw, p)
  <2>1. n \in Note("assignment_published", patch[p].told, patch[p].hw, p)
    BY <1>2 DEF CommitPatch
  <2>2. patch[p].told # {} /\ n.type = "assignment_published"
    BY <2>1 DEF Note
  <2>3. phase[p] = "patched"
    BY <1>2 DEF CommitPatch
  <2> QED
    BY <2>1, <2>2, <2>3 DEF Patching
<1>3. ASSUME \/ \E a \in Assignments, limit \in Limit, accepts \in SUBSET Parts :
                   Create(a, limit, accepts)
             \/ \E p \in Patches :
                   \/ \E a \in Assignments, c \in Changes : SendPatch(p, a, c)
                   \/ LockAssignment(p) \/ Abort(p)
      PROVE  FALSE
  BY <1>3 DEF Create, SendPatch, LockAssignment, Abort
<1>4. ASSUME NEW d \in Deletes, course, DeleteCourse(d) PROVE n.type = "course_deleted"
  BY <1>4 DEF DeleteCourse, Note
<1> QED
  BY <1>1, <1>2, <1>3, <1>4, DeskSteps

LEMMA NextTelling ==
    ASSUME TypeOK, Handing, Holding, Numbering, Patching, Granting, Telling, [Next]_vars
    PROVE  Telling'
<1> USE Kinds
<1>1. ASSUME NEW n \in notes', n.type = "submission_reviewed"
      PROVE  /\ n.ref \in Submits /\ phase'[n.ref] = "ok"
             /\ work'[n.ref].state \in {"reviewed", "none"}
  <2>1. CASE n \in notes
    BY <1>1, <2>1, StaysDone DEF Telling
  <2>2. CASE n \notin notes
    <3>1. PICK v \in Reviews :
             /\ CommitReview(v)
             /\ notes' = notes \cup Note("submission_reviewed",
                                         {work[held[v].row].student}, held[v].row, v)
      BY <1>1, <2>2, NewNotes
    <3>2. n.ref = held[v].row
      BY <2>2, <3>1 DEF Note
    <3>3. /\ held[v].row \in Submits /\ phase[v] = "held"
          /\ work'[held[v].row].state = "reviewed"
      BY <3>1, CommitReviewRows
    <3>4. phase[held[v].row] = "ok"
      BY <3>3 DEF Holding
    <3> QED
      BY <3>2, <3>3, <3>4, StaysDone
  <2> QED
    BY <2>1, <2>2
<1>2. ASSUME NEW n \in notes', n.type = "assignment_published"
      PROVE  n.ref \in Assignments /\ limits'[n.ref] # {}
  <2>1. CASE n \in notes
    BY <1>2, <2>1, LimitsGrow DEF Telling
  <2>2. CASE n \notin notes
    <3>1. PICK p \in Patches :
             /\ CommitPatch(p)
             /\ n \in Note("assignment_published", patch[p].told, patch[p].hw, p)
      BY <1>2, <2>2, NewNotes
    <3>2. n.ref = patch[p].hw
      BY <3>1 DEF Note
    <3>3. patch[p].hw \in Assignments /\ hw[patch[p].hw].status # "absent"
      BY <3>1 DEF CommitPatch, Patching
    <3> QED
      BY <3>2, <3>3, LimitsGrow DEF Granting
  <2> QED
    BY <2>1, <2>2
<1> QED
  BY <1>1, <1>2 DEF Telling

LEMMA InitEnding == Init => Ending
  BY Kinds DEF Init, Ending

LEMMA NextEnding ==
    ASSUME TypeOK, Handing, Holding, Numbering, Patching, Ending, [Next]_vars
    PROVE  Ending'
<1> USE Kinds
<1>1. CASE Elsewhere
  <2>1. ASSUME ~course, NEW q \in Submits PROVE work'[q].state = "none"
    <3>1. work[q].state = "none"
      BY <2>1 DEF Ending
    <3>2. CASE phase'[q] = "inserted" /\ InsertSubmission(q)
      BY <2>1, <3>2, InsertStep DEF Ending
    <3> QED
      BY <1>1, <3>1, <3>2 DEF Elsewhere, TypeOK, Rows
  <2> QED
    BY <1>1, <2>1 DEF Elsewhere, Ending, Answers
<1>2. ASSUME NEW a \in Assignments, NEW limit \in Limit, NEW accepts \in SUBSET Parts,
             Create(a, limit, accepts) PROVE Ending'
  BY <1>2 DEF Create, Ending
<1>3. ASSUME NEW p \in Patches,
             \/ \E a \in Assignments, c \in Changes : SendPatch(p, a, c)
             \/ LockAssignment(p) \/ Abort(p)
      PROVE  Ending'
  <2>1. /\ UNCHANGED <<course, hw, objects>> /\ \E a : Answer(p, a)
        /\ work' = work
    BY <1>3 DEF SendPatch, LockAssignment, Abort, TypeOK
  <2>2. \A d \in Deletes : phase'[d] = phase[d]
    BY <2>1, Answered
  <2> QED
    BY <2>1, <2>2 DEF Ending
<1>4. ASSUME NEW p \in Patches, CommitPatch(p) PROVE Ending'
  <2>1. /\ UNCHANGED <<course, work, objects>> /\ Answer(p, "ok")
        /\ phase[p] = "patched"
    BY <1>4 DEF CommitPatch
  <2>2. course
    BY <2>1 DEF Patching, Ending
  <2>3. \A d \in Deletes : phase'[d] = phase[d]
    BY <2>1, Answered
  <2> QED
    BY <2>1, <2>2, <2>3 DEF Ending
<1>5. ASSUME NEW d \in Deletes, course, DeleteCourse(d) PROVE Ending'
  BY <1>5, DeleteStep DEF Ending, Answers
<1> QED
  BY <1>1, <1>2, <1>3, <1>4, <1>5, DeskSteps

-----------------------------------------------------------------------------
(* The theorems.                                                           *)

IInv ==
    /\ TypeOK /\ Handing /\ Holding /\ Numbering /\ Filed
    /\ Patching /\ Granting /\ Telling /\ Ending

LEMMA IInvStep == IInv /\ [Next]_vars => IInv'
  BY NextTypeOK, NextHanding, NextHolding, NextNumbering, NextFiled, NextPatching,
     NextGranting, NextTelling, NextEnding DEF IInv

\* The inductive invariant: how the phases of the requests exclude each other
\* (submissions.route.js, assignments.route.js and courses.route.js:700-712).
THEOREM Invariance == Spec => []IInv
<1>1. Init => IInv
  BY InitTypeOK, InitHanding, InitHolding, InitNumbering, InitFiled, InitPatching,
     InitGranting, InitTelling, InitEnding DEF IInv
<1>2. IInv /\ [Next]_vars => IInv'
  BY IInvStep
<1> QED
  BY <1>1, <1>2, PTL DEF Spec

\* Every request only ever has the phases, and every row the values, that the
\* handlers and the columns allow (migrations 0007, 0015).
THEOREM TypeCorrect == Spec => []TypeOK
<1>1. IInv => TypeOK
  BY DEF IInv
<1> QED
  BY <1>1, Invariance, PTL

\* Attempts are numbered 1, 2, ... without a gap or a repetition, for any
\* number of concurrent submissions (submissions.route.js:305-319).
THEOREM AttemptsNumbered == Spec => []AttemptsInSequence
<1>1. IInv => AttemptsInSequence
  BY DEF IInv, Numbering, AttemptsInSequence
<1> QED
  BY <1>1, Invariance, PTL

\* An uploaded file becomes one submission (submissions.route.js:412-418).
THEOREM UploadsUsedOnce == Spec => []OneAttemptPerUpload
<1>1. IInv => OneAttemptPerUpload
  BY DEF IInv, Filed, OneAttemptPerUpload, Committed
<1> QED
  BY <1>1, Invariance, PTL

\* A row that a step adds to a pair is that of the POST that inserts it.
LEMMA NewRow ==
    ASSUME TypeOK, Handing, Holding, Numbering, [Next]_vars, NEW a, NEW s,
           NEW r \in Own(a, s)' \ Own(a, s)
    PROVE  /\ r \in Submits /\ phase'[r] = "inserted" /\ UNCHANGED sent
           /\ sent[r].hw = a /\ sent[r].student = s
<1> USE Kinds
<1>1. r \in Submits /\ work'[r].state # "none" /\ work'[r].hw = a /\ work'[r].student = s
  BY DEF Own
<1>2. \/ work[r].state = "none" \/ work[r].hw # work'[r].hw
      \/ work[r].student # work'[r].student
  BY <1>1 DEF Own
<1>3. ASSUME NEW q \in Submits, InsertSubmission(q)
      PROVE  /\ r \in Submits /\ phase'[r] = "inserted" /\ UNCHANGED sent
             /\ sent[r].hw = a /\ sent[r].student = s
  BY <1>1, <1>2, <1>3, InsertStep
<1>4. ~KeptRows
  BY <1>1, <1>2 DEF KeptRows, Committed
<1>5. ASSUME NEW q \in Submits,
             \/ \E z \in Students, b \in Assignments, text \in BOOLEAN, file \in Keys \cup {None} :
                   ReadAssignment(q, z, b, text, file)
             \/ LockAttempts(q)
      PROVE  FALSE
  BY <1>1, <1>2, <1>5, ReadStep, NumberStep
<1>6. ASSUME NEW q \in Submits, CommitSubmission(q) \/ Abort(q) PROVE FALSE
  BY <1>1, <1>2, <1>6, CommitStep, AbortStep
<1>7. ASSUME NEW d \in Deletes, course, DeleteCourse(d) PROVE FALSE
  BY <1>1, <1>7, DeleteStep
<1> QED
  BY <1>3, <1>4, <1>5, <1>6, <1>7, RowSteps

\* No student has more attempts than some limit of the assignment allowed,
\* although the limit is read before the lock (submissions.route.js:245, 325).
THEOREM LimitsRespected == Spec => []AttemptsWithinLimit
<1>1. Init => AttemptsWithinLimit
  BY DEF Init, NoWork, Own, AttemptsWithinLimit
<1>2. AttemptsWithinLimit /\ IInv /\ IInv' /\ [Next]_vars => AttemptsWithinLimit'
  <2> SUFFICES ASSUME AttemptsWithinLimit, IInv, IInv', [Next]_vars,
                      NEW a \in Assignments, NEW s \in Students
               PROVE  \/ Own(a, s)' = {}
                      \/ None \in limits'[a]
                      \/ \E l \in limits'[a] : Cardinality(Own(a, s)') <= l
    BY DEF AttemptsWithinLimit
  <2>1. /\ limits[a] \subseteq limits'[a] /\ limits[a] \subseteq Limit
        /\ limits'[a] \subseteq Limit
    BY LimitsGrow DEF IInv, TypeOK
  <2>2. /\ IsFiniteSet(Own(a, s)) /\ Cardinality(Own(a, s)) \in Nat
        /\ IsFiniteSet(Own(a, s)') /\ Cardinality(Own(a, s)') \in Nat
    BY FS_CardinalityType DEF IInv, Numbering
  <2>3. CASE Own(a, s)' \subseteq Own(a, s)
    <3>1. Cardinality(Own(a, s)') <= Cardinality(Own(a, s))
      BY <2>2, <2>3, FS_Subset
    <3>2. \A l \in limits[a] : l # None => l \in Nat
      BY <2>1, Nulls DEF Limit
    <3>3. CASE Own(a, s) = {} \/ None \in limits[a]
      BY <2>1, <2>3, <3>3
    <3>4. CASE ~(Own(a, s) = {} \/ None \in limits[a])
      <4>1. PICK l \in limits[a] : Cardinality(Own(a, s)) <= l
        BY <3>4 DEF AttemptsWithinLimit
      <4>2. Cardinality(Own(a, s)') <= l
        BY <2>2, <3>1, <3>2, <3>4, <4>1
      <4> QED
        BY <2>1, <4>1, <4>2
    <3> QED
      BY <3>3, <3>4
  <2>4. CASE ~(Own(a, s)' \subseteq Own(a, s))
    <3>1. PICK r \in Own(a, s)' : r \notin Own(a, s)
      BY <2>4
    <3>2. /\ r \in Submits /\ phase'[r] = "inserted"
          /\ sent'[r].hw = a /\ sent'[r].student = s
      BY <3>1, NewRow DEF IInv
    <3>3. sent'[r].attempt = Cardinality(Own(a, s)')
      BY <3>2 DEF IInv, Numbering, Pair
    <3>4. sent'[r].limit \in limits'[a]
      BY <3>2 DEF IInv, Granting
    <3>5. sent'[r].limit = None \/ ~(sent'[r].attempt > sent'[r].limit)
      BY <3>2 DEF IInv, Granting, OverLimit
    <3>6. sent'[r].limit # None => sent'[r].limit \in Nat
      BY <2>1, <3>4, Nulls DEF Limit
    <3> QED
      BY <2>2, <3>3, <3>4, <3>5, <3>6
  <2> QED
    BY <2>3, <2>4
<1> QED
  BY <1>1, <1>2, Invariance, PTL DEF Spec

\* What has been reviewed is not edited any more (submissions.route.js:602-607).
THEOREM ReviewedStays == Spec => ReviewedIsFrozen
<1>1. IInv /\ [Next]_vars =>
         [\A r \in Submits : work[r].state = "reviewed" /\ work'[r].state # "none" =>
             work'[r].state = "reviewed" /\ work'[r].text = work[r].text]_vars
  <2> SUFFICES ASSUME IInv, [Next]_vars, NEW r \in Submits,
                      work[r].state = "reviewed", work'[r].state # "none"
               PROVE  work'[r].state = "reviewed" /\ work'[r].text = work[r].text
    OBVIOUS
  <2> USE Kinds DEF IInv
  <2>1. CASE KeptRows
    BY <2>1 DEF KeptRows
  <2>2. phase[r] = "ok"
    BY DEF Handing, Committed
  <2>3. ASSUME NEW q \in Submits,
               \/ \E s \in Students, a \in Assignments, text \in BOOLEAN,
                     file \in Keys \cup {None} : ReadAssignment(q, s, a, text, file)
               \/ LockAttempts(q)
        PROVE  work'[r] = work[r]
    BY <2>3, ReadStep, NumberStep
  <2>4. ASSUME NEW q \in Submits, InsertSubmission(q) PROVE work'[r] = work[r]
    BY <2>2, <2>4, InsertStep
  <2>5. ASSUME NEW q \in Submits, CommitSubmission(q) \/ Abort(q) PROVE work'[r] = work[r]
    BY <2>2, <2>5, CommitStep, AbortStep
  <2>6. ASSUME NEW d \in Deletes, course, DeleteCourse(d) PROVE FALSE
    BY <2>6, DeleteStep
  <2> QED
    BY <2>1, <2>3, <2>4, <2>5, <2>6, RowSteps
<1> QED
  BY <1>1, Invariance, PTL DEF Spec, ReviewedIsFrozen

\* The student hears of the first review and of no other one
\* (submissions.route.js:733-741).
THEOREM ReviewTold == Spec => []ReviewToldOnce
<1>1. Init => ReviewToldOnce
  BY DEF Init, ReviewToldOnce
<1>2. ReviewToldOnce /\ IInv /\ [Next]_vars => ReviewToldOnce'
  <2> SUFFICES ASSUME ReviewToldOnce, IInv, [Next]_vars, NEW n \in notes', NEW m \in notes',
                      n.type = "submission_reviewed", m.type = n.type, m.ref = n.ref
               PROVE  m = n
    BY DEF ReviewToldOnce
  <2>1. ASSUME NEW i \in notes' \ notes, NEW j \in notes', i.type = "submission_reviewed",
               j.type = i.type, j.ref = i.ref
        PROVE  j = i
    <3>1. PICK v \in Reviews :
             /\ CommitReview(v) /\ held[v].was # "reviewed"
             /\ notes' = notes \cup Note("submission_reviewed",
                                         {work[held[v].row].student}, held[v].row, v)
      BY <2>1, NewNotes DEF IInv
    <3>2. i.ref = held[v].row
      BY <2>1, <3>1 DEF Note
    <3>3. work[held[v].row].state = "submitted"
      BY <3>1, CommitReviewRows DEF IInv, Committed
    <3>4. j \notin notes
      BY <2>1, <3>2, <3>3 DEF IInv, Telling
    <3> QED
      BY <2>1, <3>1, <3>4 DEF Note
  <2> QED
    BY <2>1 DEF ReviewToldOnce
<1> QED
  BY <1>1, <1>2, Invariance, PTL DEF Spec

\* A PATCH of single flags leaves something to hand in
\* (assignments.route.js:60-79, 306-309).
THEOREM SomethingAccepted == Spec => []AcceptsSomething
<1>1. Init => AcceptsSomething
  BY DEF Init, Absent, AcceptsSomething
<1>2. AcceptsSomething /\ IInv /\ [Next]_vars => AcceptsSomething'
  <2> SUFFICES ASSUME AcceptsSomething, IInv, [Next]_vars PROVE AcceptsSomething'
    OBVIOUS
  <2>1. CASE UNCHANGED hw
    BY <2>1 DEF AcceptsSomething
  <2>2. ASSUME NEW a \in Assignments, NEW limit \in Limit, NEW accepts \in SUBSET Parts,
               Create(a, limit, accepts) PROVE AcceptsSomething'
    BY <2>2 DEF Create, AcceptsSomething, IInv, TypeOK
  <2>3. ASSUME NEW p \in Patches, CommitPatch(p) PROVE AcceptsSomething'
    <3>1. Merged(patch[p].hw, p) # {} /\ patch[p].hw \in Assignments
      BY <2>3 DEF IInv, Patching, CommitPatch
    <3>2. hw'[patch[p].hw].accepts = Merged(patch[p].hw, p)
      BY <2>3, <3>1 DEF CommitPatch, Merged, IInv, TypeOK
    <3>3. \A b \in Assignments : b # patch[p].hw => hw'[b] = hw[b]
      BY <2>3 DEF CommitPatch, IInv, TypeOK
    <3> QED
      BY <3>1, <3>2, <3>3 DEF AcceptsSomething
  <2>4. ASSUME NEW p \in Patches,
               \/ \E a \in Assignments, c \in Changes : SendPatch(p, a, c)
               \/ LockAssignment(p) \/ Abort(p)
        PROVE  UNCHANGED hw
    BY <2>4 DEF SendPatch, LockAssignment, Abort
  <2>5. ASSUME NEW d \in Deletes, course, DeleteCourse(d) PROVE AcceptsSomething'
    BY <2>5, DeleteStep DEF AcceptsSomething, IInv
  <2> QED
    BY <2>1, <2>2, <2>3, <2>4, <2>5, DeskSteps DEF IInv, Elsewhere
<1> QED
  BY <1>1, <1>2, Invariance, PTL DEF Spec

\* The bytes of a submission outlive every deletion that does not commit
\* (courses.route.js:700-712).
THEOREM FilesStay == Spec => []NoBrokenFile
<1>1. IInv => NoBrokenFile
  BY DEF IInv, Ending, TypeOK, Rows, Committed, NoBrokenFile
<1> QED
  BY <1>1, Invariance, PTL

\* A student is told once of a published assignment and never of a draft
\* (assignments.route.js:250-261, 330-349).
THEOREM PublishTold == Spec => []PublishToldOnce
<1>1. Init => PublishToldOnce
  BY DEF Init, PublishToldOnce
<1>2. PublishToldOnce /\ IInv /\ [Next]_vars => PublishToldOnce'
  <2> SUFFICES ASSUME PublishToldOnce, IInv, [Next]_vars PROVE PublishToldOnce'
    OBVIOUS
  <2>1. ASSUME \A n \in notes' : n.type = "assignment_published" =>
                  n \in notes /\ hw'[n.ref].status # "draft"
        PROVE  PublishToldOnce'
    BY <2>1 DEF PublishToldOnce
  <2>2. ASSUME UNCHANGED hw, ~\E p \in Patches : CommitPatch(p) PROVE PublishToldOnce'
    BY <2>1, <2>2, NewNotes DEF PublishToldOnce, IInv
  <2>3. CASE \E p \in Patches : CommitPatch(p)
    <3> PICK p \in Patches : CommitPatch(p)
      BY <2>3
    <3> DEFINE a == patch[p].hw
    <3>1. /\ a \in Assignments /\ hw[a].status = patch[p].was
          /\ ~Publishes(p, patch[p].was) => patch[p].told = {}
      BY DEF CommitPatch, IInv, Patching
    <3>2. /\ hw'[a].status = Set(hw[a].status, patch[p].status)
          /\ \A b \in Assignments \ {a} : hw'[b] = hw[b]
      BY <3>1 DEF CommitPatch, IInv, TypeOK
    <3>3. notes' = {n \in notes : ~(/\ Retracts(p, patch[p].was)
                                    /\ n.type = "assignment_published"
                                    /\ n.ref = a)}
                     \cup Note("assignment_published", patch[p].told, a, p)
      BY DEF CommitPatch
    <3>4. \A n \in notes : n.type = "assignment_published" => n.ref \in Assignments
      BY DEF IInv, Telling
    <3>5. CASE Publishes(p, patch[p].was)
      <4>1. hw'[a].status = "published"
        BY <3>2, <3>5, HomeworkAssumption DEF Publishes, Set, HomeworkAssumption
      <4>2. hw[a].status = "draft"
        BY <3>1, <3>5 DEF Publishes, IInv, Patching, CommitPatch, TypeOK
      <4>3. \A n \in notes : n.type = "assignment_published" => n.ref # a
        BY <4>2 DEF PublishToldOnce
      <4> QED
        BY <3>2, <3>3, <3>4, <4>1, <4>3 DEF PublishToldOnce, Note
    <3>6. CASE ~Publishes(p, patch[p].was)
      <4>1. \A n \in notes' : n \in notes
        BY <3>1, <3>3, <3>6 DEF Note
      <4>2. CASE Retracts(p, patch[p].was)
        <5>1. \A n \in notes' : n.type = "assignment_published" => n.ref \in Assignments \ {a}
          BY <3>1, <3>3, <3>4, <3>6, <4>1, <4>2 DEF Note
        <5> QED
          BY <2>1, <3>2, <4>1, <5>1 DEF PublishToldOnce
      <4>3. CASE ~Retracts(p, patch[p].was)
        <5>1. hw[a].status # "draft" => hw'[a].status # "draft"
          <6>1. hw[a].status \in {"absent", "draft", "published"} /\ hw[a].status # "absent"
            BY <3>1 DEF IInv, TypeOK, Patching, CommitPatch
          <6> QED
            BY <3>1, <3>2, <4>3, <6>1 DEF Retracts, Set
        <5> QED
          BY <2>1, <3>2, <3>4, <4>1, <5>1 DEF PublishToldOnce
      <4> QED
        BY <4>2, <4>3
    <3> QED
      BY <3>5, <3>6
  <2>4. ASSUME NEW b \in Assignments, NEW limit \in Limit, NEW accepts \in SUBSET Parts,
               Create(b, limit, accepts) PROVE PublishToldOnce'
    <3>1. limits[b] = {} /\ UNCHANGED notes /\ \A c \in Assignments \ {b} : hw'[c] = hw[c]
      BY <2>4 DEF Create, IInv, TypeOK
    <3>2. \A n \in notes : n.type = "assignment_published" => n.ref \in Assignments \ {b}
      BY <3>1 DEF IInv, Telling
    <3> QED
      BY <2>1, <3>1, <3>2 DEF PublishToldOnce
  <2>5. ASSUME NEW p \in Patches,
               \/ \E a \in Assignments, c \in Changes : SendPatch(p, a, c)
               \/ LockAssignment(p) \/ Abort(p)
        PROVE  UNCHANGED <<hw, notes>>
    BY <2>5 DEF SendPatch, LockAssignment, Abort
  <2>6. CASE UNCHANGED <<hw, notes>>
    BY <2>6 DEF PublishToldOnce
  <2>7. ASSUME NEW d \in Deletes, course, DeleteCourse(d) PROVE PublishToldOnce'
    <3>1. \A n \in notes' : n.type = "assignment_published" => n \in notes
      BY <2>7 DEF DeleteCourse, Note
    <3>2. \A n \in notes' : n.type = "assignment_published" => hw'[n.ref].status = "absent"
      BY <2>7, <3>1, DeleteStep DEF IInv, Telling
    <3> QED
      BY <2>1, <3>1, <3>2
  <2>8. CASE Elsewhere
    BY <2>2, <2>3, <2>8 DEF Elsewhere
  <2> QED
    BY <2>3, <2>4, <2>5, <2>6, <2>7, <2>8, DeskSteps DEF IInv
<1> QED
  BY <1>1, <1>2, Invariance, PTL DEF Spec

\* When a published assignment becomes a draft again nobody has handed anything
\* in, nor is about to (assignments.route.js:281-304).
THEOREM RetractedUnworked == Spec => RetractedWithoutWork
<1>1. IInv /\ [Next]_vars =>
         [\A a \in Assignments :
             hw[a].status = "published" /\ hw'[a].status = "draft" =>
                 \A r \in Submits : work[r].hw # a]_vars
  <2> SUFFICES ASSUME IInv, [Next]_vars, NEW a \in Assignments,
                      hw[a].status = "published", hw'[a].status = "draft"
               PROVE  \A r \in Submits : work[r].hw # a
    OBVIOUS
  <2>1. hw'[a] # hw[a]
    OBVIOUS
  <2>2. ASSUME NEW b \in Assignments, NEW limit \in Limit, NEW accepts \in SUBSET Parts,
               Create(b, limit, accepts) PROVE FALSE
    <3>1. a = b
      BY <2>1, <2>2 DEF Create, IInv, TypeOK
    <3> QED
      BY <2>2, <3>1 DEF Create, IInv, Granting
  <2>3. ASSUME NEW p \in Patches, CommitPatch(p) PROVE \A r \in Submits : work[r].hw # a
    <3>1. a = patch[p].hw /\ hw'[a].status = Set(hw[a].status, patch[p].status)
      BY <2>1, <2>3 DEF CommitPatch, IInv, TypeOK
    <3>2. phase[p] = "patched" /\ hw[a].status = patch[p].was
      BY <2>3, <3>1 DEF CommitPatch, IInv, Patching
    <3>3. Retracts(p, patch[p].was)
      BY <3>1, <3>2 DEF Retracts, Set
    <3> QED
      BY <3>1, <3>2, <3>3 DEF IInv, Patching
  <2>4. ASSUME NEW p \in Patches,
               \/ \E b \in Assignments, c \in Changes : SendPatch(p, b, c)
               \/ LockAssignment(p) \/ Abort(p)
        PROVE  UNCHANGED hw
    BY <2>4 DEF SendPatch, LockAssignment, Abort
  <2>5. ASSUME NEW d \in Deletes, course, DeleteCourse(d) PROVE FALSE
    BY <2>5, DeleteStep DEF IInv
  <2> QED
    BY <2>1, <2>2, <2>3, <2>4, <2>5, DeskSteps DEF IInv, Elsewhere
<1> QED
  BY <1>1, Invariance, PTL DEF Spec, RetractedWithoutWork

=============================================================================
