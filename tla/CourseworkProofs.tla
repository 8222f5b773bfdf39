-------------------------- MODULE CourseworkProofs --------------------------
(***************************************************************************)
(* The course routes implement Coursework, for any number of students,     *)
(* assignments, files and requests.  To the invariant of HomeworkProofs    *)
(* the refinement adds what has been told, and Content: a submission is    *)
(* never empty, although an edit checks for that before it writes.         *)
(***************************************************************************)
EXTENDS HomeworkProofs

\* What a POST sends is not nothing, what is in a row is not nothing, and an edit
\* that takes the text away has found a file.
Content ==
    /\ \A q \in Submits :
          /\ phase[q] \in {"read", "numbered"} => sent[q].text \/ sent[q].file # None
          /\ work[q].state # "none" => work[q].text # None \/ work[q].file # None
    /\ \A e \in Edits :
          phase[e] = "held" /\ held[e].blank => work[held[e].row].file # None

-----------------------------------------------------------------------------
(* Which steps a class can see.                                            *)

Backstage ==
    /\ UNCHANGED <<course, hw, limits, work, sent>>
    /\ \A q \in Submits : phase'[q] = phase[q]
    /\ Told' = Told

\* An answer of a request that is not a POST, when nothing else changes.
LEMMA AsideUnseen ==
    ASSUME TypeOK, NEW x \in Requests \ Submits, NEW a, Answer(x, a),
           UNCHANGED <<course, hw, limits, work, sent, notes>>
    PROVE  Backstage
  BY Kinds, Answered DEF Backstage, Told

LEMMA ClassSteps ==
    ASSUME TypeOK, Handing, Holding, [Next]_vars
    PROVE  \/ Backstage
           \/ \E a \in Assignments, limit \in Limit, accepts \in SUBSET Parts :
                 Create(a, limit, accepts)
           \/ \E p \in Patches : CommitPatch(p)
           \/ \E q \in Submits :
                 \/ \E s \in Students, a \in Assignments, text \in BOOLEAN,
                       file \in Keys \cup {None} : ReadAssignment(q, s, a, text, file)
                 \/ LockAttempts(q) \/ InsertSubmission(q) \/ CommitSubmission(q)
                 \/ Abort(q)
           \/ \E e \in Edits : CommitEdit(e)
           \/ \E v \in Reviews : CommitReview(v)
           \/ \E d \in Deletes : course /\ DeleteCourse(d)
<1>1. CASE UNCHANGED vars
  BY <1>1 DEF vars, Backstage, Told
<1>2. ASSUME NEW s \in Students, Enrol(s) \/ Unenrol(s) PROVE Backstage
  BY <1>2 DEF Enrol, Unenrol, Backstage, Told, Note
<1>3. ASSUME NEW p \in Patches,
             (\E a \in Assignments, c \in Changes : SendPatch(p, a, c)) \/ LockAssignment(p)
      PROVE  Backstage
  <2>1. p \in Requests \ Submits
    BY Kinds
  <2>2. UNCHANGED <<course, hw, limits, work, sent, notes>> /\ \E a : Answer(p, a)
    BY <1>3 DEF SendPatch, LockAssignment
  <2> QED
    BY <2>1, <2>2, AsideUnseen
<1>4. ASSUME NEW x \in Markers,
             \/ \E r \in Submits, blank \in BOOLEAN : ViewSubmission(x, r, blank)
             \/ LockEdit(x) \/ LockReview(x)
      PROVE  Backstage
  <2>1. x \in Requests \ Submits
    BY Kinds
  <2>2. UNCHANGED <<course, hw, limits, work, sent, notes>> /\ \E a : Answer(x, a)
    BY <1>4 DEF ViewSubmission, LockEdit, LockReview
  <2> QED
    BY <2>1, <2>2, AsideUnseen
<1>5. ASSUME NEW d \in Deletes,
             \/ ListAssignments(d) \/ GatherWork(d)
             \/ \E confirm \in BOOLEAN : Gate(d, confirm)
             \/ ~course /\ DeleteCourse(d)
      PROVE  Backstage
  <2>1. d \in Requests \ Submits
    BY Kinds
  <2>2. UNCHANGED <<course, hw, limits, work, sent, notes>> /\ \E a : Answer(d, a)
    BY <1>5 DEF ListAssignments, GatherWork, Gate, DeleteCourse
  <2> QED
    BY <2>1, <2>2, AsideUnseen
<1>6. ASSUME NEW d \in Deletes, NEW k \in Keys, CleanObject(d, k) PROVE Backstage
  BY <1>6 DEF CleanObject, Backstage, Told
<1>7. ASSUME NEW x \in Requests \ Submits, Abort(x) PROVE Backstage
  <2>1. work' = work
    BY <1>7 DEF Abort, TypeOK
  <2>2. UNCHANGED <<course, hw, limits, work, sent, notes>> /\ \E a : Answer(x, a)
    BY <1>7, <2>1 DEF Abort
  <2> QED
    BY <2>2, AsideUnseen
<1>8. CASE Next
  <2>1. CASE \E x \in Requests : Abort(x)
    BY <1>7, <2>1
  <2>2. CASE \E s \in Students : Enrol(s) \/ Unenrol(s)
    BY <1>2, <2>2
  <2>3. CASE \E p \in Patches :
                \/ \E a \in Assignments, c \in Changes : SendPatch(p, a, c)
                \/ LockAssignment(p) \/ CommitPatch(p)
    BY <1>3, <2>3
  <2>4. CASE \E e \in Edits :
                \/ \E r \in Submits, blank \in BOOLEAN : ViewSubmission(e, r, blank)
                \/ LockEdit(e) \/ CommitEdit(e)
    BY <1>4, <2>4, Kinds
  <2>5. CASE \E v \in Reviews :
                \/ \E r \in Submits : ViewSubmission(v, r, FALSE)
                \/ LockReview(v) \/ CommitReview(v)
    BY <1>4, <2>5, Kinds
  <2>6. CASE \E d \in Deletes :
                \/ ListAssignments(d) \/ GatherWork(d)
                \/ \E confirm \in BOOLEAN : Gate(d, confirm)
                \/ DeleteCourse(d)
                \/ \E k \in Keys : CleanObject(d, k)
    BY <1>5, <1>6, <2>6
  <2> QED
    BY <1>8, <2>1, <2>2, <2>3, <2>4, <2>5, <2>6 DEF Next
<1> QED
  BY <1>1, <1>8

-----------------------------------------------------------------------------
(* Nothing handed in is empty.                                             *)

\* An edit that holds its row has just taken it, or held it as it was.
LEMMA EditSteps ==
    ASSUME TypeOK, [Next]_vars, NEW e \in Edits, phase'[e] = "held"
    PROVE  \/ LockEdit(e)
           \/ phase[e] = "held" /\ held'[e] = held[e]
<1> USE Kinds
<1>1. ASSUME UNCHANGED <<phase, held>> PROVE phase[e] = "held" /\ held'[e] = held[e]
  BY <1>1
<1>2. ASSUME NEW x \in Requests, x # e, NEW a, Answer(x, a), UNCHANGED held
      PROVE  phase[e] = "held" /\ held'[e] = held[e]
  BY <1>2, Answered
<1>3. ASSUME NEW x \in Requests, NEW a, a # "held", Answer(x, a), UNCHANGED held
      PROVE  phase[e] = "held" /\ held'[e] = held[e]
  BY <1>3, Answered
<1>4. ASSUME NEW x \in Markers, NEW r \in Submits, NEW blank \in BOOLEAN,
             ViewSubmission(x, r, blank)
      PROVE  phase[e] = "held" /\ held'[e] = held[e]
  <2>1. x \in Requests
    OBVIOUS
  <2>2. Answer(x, "viewed") \/ Answer(x, "refused")
    BY <1>4 DEF ViewSubmission
  <2>3. x # e
    BY <2>1, <2>2, Answered
  <2>4. held'[e] = held[e]
    BY <1>4, <2>3 DEF ViewSubmission, TypeOK
  <2> QED
    BY <2>1, <2>2, <2>3, <2>4, Answered
<1>5. ASSUME NEW v \in Reviews, LockReview(v) PROVE phase[e] = "held" /\ held'[e] = held[e]
  <2>1. v \in Requests /\ v # e /\ \E a : Answer(v, a)
    BY <1>5 DEF LockReview
  <2>2. held'[e] = held[e]
    BY <1>5, <2>1 DEF LockReview, TypeOK
  <2> QED
    BY <2>1, <2>2, Answered
<1>6. CASE Next
  <2>1. CASE \E s \in Students : Enrol(s) \/ Unenrol(s)
    BY <1>1, <2>1 DEF Enrol, Unenrol
  <2>2. CASE \E a \in Assignments, limit \in Limit, accepts \in SUBSET Parts :
                Create(a, limit, accepts)
    BY <1>1, <2>2 DEF Create
  <2>3. ASSUME NEW p \in Patches,
               \/ \E a \in Assignments, c \in Changes : SendPatch(p, a, c)
               \/ LockAssignment(p) \/ CommitPatch(p)
        PROVE  phase[e] = "held" /\ held'[e] = held[e]
    <3>1. UNCHANGED held /\ \E a : Answer(p, a)
      BY <2>3 DEF SendPatch, LockAssignment, CommitPatch
    <3> QED
      BY <1>2, <3>1
  <2>4. ASSUME NEW q \in Submits,
               \/ \E s \in Students, a \in Assignments, text \in BOOLEAN,
                     file \in Keys \cup {None} : ReadAssignment(q, s, a, text, file)
               \/ LockAttempts(q) \/ InsertSubmission(q) \/ CommitSubmission(q)
        PROVE  phase[e] = "held" /\ held'[e] = held[e]
    <3>1. UNCHANGED held /\ \E a : Answer(q, a)
      BY <2>4 DEF ReadAssignment, LockAttempts, InsertSubmission, CommitSubmission
    <3> QED
      BY <1>2, <3>1
  <2>5. ASSUME NEW x \in Edits, NEW r \in Submits, NEW blank \in BOOLEAN,
               ViewSubmission(x, r, blank)
        PROVE  phase[e] = "held" /\ held'[e] = held[e]
    BY <1>4, <2>5
  <2>6. ASSUME NEW x \in Edits, LockEdit(x) \/ CommitEdit(x)
        PROVE  \/ LockEdit(e)
               \/ phase[e] = "held" /\ held'[e] = held[e]
    <3>1. UNCHANGED held /\ \E a : Answer(x, a)
      BY <2>6 DEF LockEdit, CommitEdit
    <3>2. CASE CommitEdit(x)
      BY <1>3, <3>2 DEF CommitEdit
    <3> QED
      BY <1>2, <2>6, <3>1, <3>2
  <2>7. ASSUME NEW v \in Reviews,
               \/ \E r \in Submits : ViewSubmission(v, r, FALSE)
               \/ LockReview(v) \/ CommitReview(v)
        PROVE  phase[e] = "held" /\ held'[e] = held[e]
    <3>1. CASE CommitReview(v)
      BY <1>3, <3>1 DEF CommitReview
    <3> QED
      BY <1>4, <1>5, <2>7, <3>1
  <2>8. ASSUME NEW d \in Deletes,
               \/ ListAssignments(d) \/ GatherWork(d)
               \/ \E confirm \in BOOLEAN : Gate(d, confirm)
               \/ DeleteCourse(d)
        PROVE  phase[e] = "held" /\ held'[e] = held[e]
    <3>1. UNCHANGED held /\ \E a : Answer(d, a)
      BY <2>8 DEF ListAssignments, GatherWork, Gate, DeleteCourse
    <3> QED
      BY <1>2, <3>1
  <2>9. ASSUME NEW d \in Deletes, NEW k \in Keys, CleanObject(d, k)
        PROVE  phase[e] = "held" /\ held'[e] = held[e]
    BY <1>1, <2>9 DEF CleanObject
  <2>10. ASSUME NEW x \in Requests, Abort(x) PROVE phase[e] = "held" /\ held'[e] = held[e]
    BY <1>3, <2>10 DEF Abort
  <2>11. CASE \E x \in Edits :
                 \/ \E r \in Submits, blank \in BOOLEAN : ViewSubmission(x, r, blank)
                 \/ LockEdit(x) \/ CommitEdit(x)
    BY <2>5, <2>6, <2>11
  <2>12. CASE \E q \in Submits :
                 \/ \E s \in Students, a \in Assignments, text \in BOOLEAN,
                       file \in Keys \cup {None} : ReadAssignment(q, s, a, text, file)
                 \/ LockAttempts(q) \/ InsertSubmission(q) \/ CommitSubmission(q)
    BY <2>4, <2>12
  <2>13. CASE \E d \in Deletes :
                 \/ ListAssignments(d) \/ GatherWork(d)
                 \/ \E confirm \in BOOLEAN : Gate(d, confirm)
                 \/ DeleteCourse(d)
                 \/ \E k \in Keys : CleanObject(d, k)
    BY <2>8, <2>9, <2>13
  <2> QED
    BY <1>6, <2>1, <2>2, <2>3, <2>7, <2>10, <2>11, <2>12, <2>13 DEF Next
<1> QED
  BY <1>1, <1>6 DEF vars

\* The file of a submission is never another one.
LEMMA FilesFixed ==
    ASSUME IInv, [Next]_vars, NEW r \in Submits, work[r].state # "none", work'[r].state # "none"
    PROVE  work'[r].file = work[r].file
<1> USE Kinds DEF IInv
<1>1. CASE KeptRows
  BY <1>1 DEF KeptRows
<1>2. ASSUME NEW q \in Submits,
             \/ \E s \in Students, a \in Assignments, text \in BOOLEAN,
                   file \in Keys \cup {None} : ReadAssignment(q, s, a, text, file)
             \/ LockAttempts(q)
      PROVE  work'[r].file = work[r].file
  BY <1>2, ReadStep, NumberStep
<1>3. ASSUME NEW q \in Submits, InsertSubmission(q) PROVE work'[r].file = work[r].file
  BY <1>3, InsertStep
<1>4. ASSUME NEW q \in Submits, CommitSubmission(q) \/ Abort(q) PROVE work'[r].file = work[r].file
  BY <1>4, CommitStep, AbortStep
<1>5. ASSUME NEW d \in Deletes, course, DeleteCourse(d) PROVE FALSE
  BY <1>5, DeleteStep
<1> QED
  BY <1>1, <1>2, <1>3, <1>4, <1>5, RowSteps

LEMMA InitContent == Init => Content
  BY Kinds DEF Init, Content, NoWork

LEMMA NextContent ==
    ASSUME IInv, IInv', Content, [Next]_vars
    PROVE  Content'
<1> USE Kinds DEF IInv
<1> DEFINE Full(q) ==
              /\ phase[q] \in {"read", "numbered"} => sent[q].text \/ sent[q].file # None
              /\ work[q].state # "none" => work[q].text # None \/ work[q].file # None
<1>1. ASSUME NEW e \in Edits, phase'[e] = "held", held'[e].blank
      PROVE  work'[held'[e].row].file # None
  <2>1. CASE LockEdit(e)
    BY <1>1, <2>1, Answered DEF LockEdit
  <2>2. CASE phase[e] = "held" /\ held'[e] = held[e]
    <3>1. held[e].row \in Submits /\ work[held[e].row].state # "none"
      BY <2>2 DEF Holding, Committed
    <3>2. work'[held[e].row].state # "none"
      BY <1>1, <2>2 DEF Holding, Committed
    <3> QED
      BY <1>1, <2>2, <3>1, <3>2, FilesFixed DEF Content
  <2> QED
    BY <1>1, <2>1, <2>2, EditSteps
<1>2. ASSUME NEW r \in Submits, phase'[r] = phase[r], sent'[r] = sent[r], work'[r] = work[r]
      PROVE  Full(r)'
  BY <1>2 DEF Content
<1>3. ASSUME NEW q \in Submits, Full(q)',
             \A p \in Submits \ {q} : phase'[p] = phase[p] /\ sent'[p] = sent[p] /\ work'[p] = work[p]
      PROVE  \A r \in Submits : Full(r)'
  BY <1>2, <1>3
<1>4. ASSUME Backstage PROVE \A r \in Submits : Full(r)'
  BY <1>2, <1>4 DEF Backstage
<1>5. ASSUME (\E a \in Assignments, limit \in Limit, accepts \in SUBSET Parts :
                Create(a, limit, accepts))
      PROVE  UNCHANGED <<phase, sent, work>>
  BY <1>5 DEF Create
<1>6. ASSUME NEW p \in Patches, CommitPatch(p) PROVE \A r \in Submits : Full(r)'
  <2>1. UNCHANGED <<sent, work>> /\ Answer(p, "ok") /\ p \in Requests \ Submits
    BY <1>6 DEF CommitPatch
  <2>2. \A r \in Submits : phase'[r] = phase[r]
    BY <2>1, Answered
  <2> QED
    BY <1>2, <2>1, <2>2
<1>7. ASSUME NEW q \in Submits, NEW s \in Students, NEW a \in Assignments,
             NEW text \in BOOLEAN, NEW file \in Keys \cup {None},
             ReadAssignment(q, s, a, text, file)
      PROVE  \A r \in Submits : Full(r)'
  <2>1. \/ UNCHANGED sent /\ Answer(q, "refused")
        \/ /\ text \/ file # None
           /\ sent' = [sent EXCEPT ![q] =
                  [student |-> s, hw |-> a, limit |-> hw[a].limit,
                   text |-> text, file |-> file, attempt |-> 0]]
    BY <1>7 DEF ReadAssignment, RefusesWork
  <2>2. phase'[q] \in {"read", "numbered"} => sent'[q].text \/ sent'[q].file # None
    BY <2>1, Answered DEF TypeOK
  <2>3. work[q].state = "none" /\ UNCHANGED work
    BY <1>7, ReadStep
  <2> QED
    BY <1>3, <1>7, <2>2, <2>3, ReadStep
<1>8. ASSUME NEW q \in Submits, LockAttempts(q) PROVE \A r \in Submits : Full(r)'
  <2>1. sent'[q].text = sent[q].text
    BY <1>8 DEF LockAttempts, TypeOK, Sends
  <2>2. Full(q)'
    BY <1>8, <2>1, NumberStep DEF Content
  <2> QED
    BY <1>3, <1>8, <2>2, NumberStep
<1>9. ASSUME NEW q \in Submits, InsertSubmission(q) PROVE \A r \in Submits : Full(r)'
  <2>1. phase[q] = "numbered" /\ work[q].state = "none" /\ (sent[q].text \/ sent[q].file # None)
    BY <1>9, InsertStep DEF Content
  <2>2. CASE UNCHANGED work
    BY <1>3, <1>9, <2>1, <2>2, InsertStep
  <2>3. CASE ~UNCHANGED work
    <3>1. work' = [work EXCEPT ![q] =
                [state |-> "pending", student |-> sent[q].student, hw |-> sent[q].hw,
                 attempt |-> sent[q].attempt,
                 text |-> IF sent[q].text THEN q ELSE None, file |-> sent[q].file]]
      BY <1>9, <2>3 DEF InsertSubmission
    <3>2. work'[q].text # None \/ work'[q].file # None
      BY <2>1, <3>1, Nulls DEF TypeOK
    <3>3. phase'[q] = "inserted"
      BY <1>9, <2>3, InsertStep
    <3> QED
      BY <1>3, <1>9, <3>2, <3>3, InsertStep
  <2> QED
    BY <2>2, <2>3
<1>10. ASSUME NEW q \in Submits, CommitSubmission(q) PROVE \A r \in Submits : Full(r)'
  <2>1. work'[q].text = work[q].text
    BY <1>10 DEF CommitSubmission, TypeOK, Rows
  <2>2. Full(q)'
    BY <1>10, <2>1, CommitStep DEF Content
  <2> QED
    BY <1>3, <1>10, <2>2, CommitStep
<1>11. ASSUME NEW q \in Submits, Abort(q) PROVE \A r \in Submits : Full(r)'
  <2>1. Full(q)'
    BY <1>11, AbortStep
  <2> QED
    BY <1>3, <1>11, <2>1, AbortStep
<1>12. ASSUME NEW e \in Edits, CommitEdit(e) PROVE \A r \in Submits : Full(r)'
  <2>1. /\ held[e].row \in Submits /\ work[held[e].row].state = "submitted"
        /\ phase[e] = "held"
    BY <1>12, CommitEditRows
  <2>2. work'[held[e].row].text = IF held[e].blank THEN None ELSE e
    BY <1>12, <2>1 DEF CommitEdit, TypeOK, Rows
  <2>3. e # None
    BY HomeworkAssumption DEF HomeworkAssumption
  <2>4. held[e].blank => work[held[e].row].file # None
    BY <2>1 DEF Content
  <2>5. ASSUME NEW r \in Submits PROVE Full(r)'
    BY <1>12, <2>1, <2>2, <2>3, <2>4, CommitEditRows DEF Content
  <2> QED
    BY <2>5
<1>13. ASSUME NEW v \in Reviews, CommitReview(v) PROVE \A r \in Submits : Full(r)'
  <2>1. ASSUME NEW r \in Submits PROVE Full(r)'
    BY <1>13, CommitReviewRows DEF Content, Committed
  <2> QED
    BY <2>1
<1>14. ASSUME NEW d \in Deletes, course, DeleteCourse(d) PROVE \A r \in Submits : Full(r)'
  <2>1. ASSUME NEW r \in Submits PROVE Full(r)'
    BY <1>14, DeleteStep DEF Content
  <2> QED
    BY <2>1
<1>15. \A r \in Submits : Full(r)'
  BY <1>2, <1>4, <1>5, <1>6, <1>7, <1>8, <1>9, <1>10, <1>11, <1>12, <1>13, <1>14, ClassSteps
<1> QED
  BY <1>1, <1>15 DEF Content

\* Neither a submission nor what an edit leaves of it is ever empty: not two
\* edits, not an edit and a review can take away text and file between them
\* (submissions.route.js:215-219, 644-656).
THEOREM NothingEmpty == Spec => []Content
<1>1. IInv /\ IInv' /\ Content /\ [Next]_vars => Content'
  BY NextContent
<1> QED
  BY <1>1, InitContent, Invariance, PTL DEF Spec

-----------------------------------------------------------------------------
(* Every step is a step of Coursework or none.                             *)

\* A committed row as the class sees it.
Paper(r) ==
    [id |-> r, student |-> work[r].student, hw |-> work[r].hw, attempt |-> work[r].attempt,
     text |-> work[r].text, file |-> work[r].file, state |-> work[r].state]

LEMMA InHand ==
    /\ \A h : h \in HandedIn <=> \E r \in Submits : Committed(r) /\ h = Paper(r)
    /\ \A h : h \in HandedIn' <=> \E r \in Submits : Committed(r)' /\ h = Paper(r)'
  BY DEF HandedIn, Paper

\* The same rows are the same papers.
LEMMA SamePapers ==
    ASSUME \A r \in Submits : Committed(r)' <=> Committed(r),
           \A r \in Submits : Committed(r) => work'[r] = work[r]
    PROVE  HandedIn' = HandedIn
<1>1. \A r \in Submits : Committed(r) => Paper(r)' = Paper(r)
  BY DEF Paper
<1>2. \A h : h \in HandedIn' <=> h \in HandedIn
  BY <1>1, InHand
<1> QED
  BY <1>2

\* When one row changes, one paper does.
LEMMA OnePaper ==
    ASSUME NEW r \in Submits, Committed(r)',
           \A q \in Submits \ {r} : work'[q] = work[q]
    PROVE  HandedIn' = (IF Committed(r) THEN HandedIn \ {Paper(r)} ELSE HandedIn) \cup {Paper(r)'}
<1>1. \A q \in Submits \ {r} : (Committed(q)' <=> Committed(q)) /\ Paper(q)' = Paper(q)
  BY DEF Paper, Committed
<1>2. \A q \in Submits \ {r} : Paper(q) # Paper(r)
  BY DEF Paper
<1> DEFINE rest == IF Committed(r) THEN HandedIn \ {Paper(r)} ELSE HandedIn
<1>3. \A h : h \in rest <=> \E q \in Submits \ {r} : Committed(q) /\ h = Paper(q)
  BY <1>2, InHand
<1>4. \A h : h \in HandedIn' <=> h \in rest \/ h = Paper(r)'
  BY <1>1, <1>3, InHand
<1> QED
  BY <1>4

LEMMA Stutter ==
    ASSUME UNCHANGED <<course, hw, limits>>, HandedIn' = HandedIn, Told' = Told
    PROVE  [C!CourseNext]_(C!courseVars)
  BY DEF C!courseVars

LEMMA InitRefines == Init => C!CourseInit
<1> SUFFICES ASSUME Init PROVE C!CourseInit
  OBVIOUS
<1>1. HandedIn = {}
  BY DEF Init, NoWork, HandedIn, Committed
<1>2. Told = {}
  BY DEF Init, Told
<1> QED
  BY <1>1, <1>2 DEF Init, C!CourseInit, Absent, C!Off

LEMMA CreateRefines ==
    ASSUME IInv, NEW a \in Assignments, NEW limit \in Limit, NEW accepts \in SUBSET Parts,
           Create(a, limit, accepts)
    PROVE  C!CourseNext
<1>1. HandedIn' = HandedIn /\ Told' = Told
  BY DEF Create, HandedIn, Committed, Told
<1> DEFINE t == [status |-> "draft", limit |-> limit, accepts |-> accepts]
<1>2. /\ hw' = [hw EXCEPT ![a] = t] /\ limits' = [limits EXCEPT ![a] = {t.limit}]
      /\ course /\ limits[a] = {} /\ t.status = "draft" /\ t.accepts # {} /\ UNCHANGED course
  BY DEF Create
<1> HIDE DEF t
<1>3. hw'[a] = t
  BY <1>2 DEF IInv, TypeOK
<1>4. C!SetDraft(a, t)
  BY <1>1, <1>2 DEF C!SetDraft
<1> QED
  BY <1>3, <1>4 DEF C!CourseNext

LEMMA PatchRefines ==
    ASSUME IInv, PublishToldOnce, NEW p \in Patches, CommitPatch(p)
    PROVE  C!CourseNext
<1> USE DEF IInv
<1> DEFINE a == patch[p].hw
           t == hw'[a]
<1>1. phase[p] = "patched" /\ UNCHANGED <<course, work>>
  BY DEF CommitPatch
<1>2. /\ a \in Assignments /\ hw[a].status = patch[p].was /\ hw[a].status # "absent"
      /\ Merged(a, p) # {}
      /\ Retracts(p, patch[p].was) => \A r \in Submits : work[r].hw # a
      /\ ~Publishes(p, patch[p].was) => patch[p].told = {}
  BY <1>1 DEF Patching
<1>3. /\ patch[p].status \in {Same, "draft", "published"} /\ patch[p].told \subseteq Students
      /\ hw[a].status \in {"draft", "published"}
  BY <1>2 DEF TypeOK, Bodies
<1>4. /\ hw' = [hw EXCEPT ![a] = t]
      /\ t.status = Set(hw[a].status, patch[p].status)
      /\ t.accepts = Merged(a, p)
  BY <1>2 DEF CommitPatch, TypeOK, Merged
<1>5. t.status \in {"draft", "published"}
  BY <1>3, <1>4 DEF Set
<1>6. limits' = [limits EXCEPT ![a] = limits[a] \cup {t.limit}]
  BY DEF CommitPatch, TypeOK
<1>7. course
  BY <1>2 DEF Ending
<1>8. HandedIn' = HandedIn
  BY <1>1, SamePapers DEF Committed
<1> DEFINE posts == Note("assignment_published", patch[p].told, a, p)
           Changed ==
              \/ t.status = hw[a].status /\ UNCHANGED Told
              \/ /\ hw[a].status = "draft" /\ t.status = "published"
                 /\ C!TellOnce("assignment_published", a, Students)
              \/ /\ hw[a].status = "published" /\ t.status = "draft"
                 /\ \A h \in HandedIn : h.hw # a
                 /\ Told' = Told \ C!About("assignment_published", a)
<1>9. notes' = {n \in notes : ~(/\ Retracts(p, patch[p].was)
                                /\ n.type = "assignment_published"
                                /\ n.ref = a)} \cup posts
  BY DEF CommitPatch
<1>10. patch[p].told = {} => posts = {}
  BY DEF Note
<1>11. HomeworkAssumption /\ Same \notin {"draft", "published"}
  BY HomeworkAssumption DEF HomeworkAssumption
<1>12. ASSUME ~Publishes(p, patch[p].was), ~Retracts(p, patch[p].was) PROVE Changed
  <2>1. t.status = hw[a].status
    BY <1>2, <1>3, <1>4, <1>12 DEF Publishes, Retracts, Set
  <2>2. notes' = notes
    BY <1>2, <1>9, <1>10, <1>12
  <2>3. Told' = Told
    BY <2>2 DEF Told
  <2> QED
    BY <2>1, <2>3
<1>13. ASSUME Publishes(p, patch[p].was) PROVE Changed
  <2>1. hw[a].status = "draft" /\ t.status = "published"
    BY <1>2, <1>3, <1>4, <1>11, <1>13 DEF Publishes, Set
  <2>2. ~Retracts(p, patch[p].was)
    BY <1>13 DEF Publishes, Retracts
  <2>3. \A n \in notes : ~(n.type = "assignment_published" /\ n.ref = a)
    BY <2>1 DEF PublishToldOnce
  <2>4. notes' = notes \cup posts
    BY <1>9, <2>2
  <2>5. \A n \in posts : n.type = "assignment_published" /\ n.ref = a /\ n.user \in Students
    BY <1>3 DEF Note
  <2>6. \A n, m \in posts : n.user = m.user => n = m
    BY DEF Note
  <2> HIDE DEF posts
  <2>7. Told' = Told \cup posts
    BY <2>4, <2>5 DEF Told
  <2>8. C!TellOnce("assignment_published", a, Students)
    BY <2>3, <2>5, <2>6, <2>7 DEF C!TellOnce, C!About, Told
  <2> QED
    BY <2>1, <2>8
<1>14. ASSUME Retracts(p, patch[p].was) PROVE Changed
  <2>1. hw[a].status = "published" /\ t.status = "draft"
    BY <1>2, <1>4, <1>11, <1>14 DEF Retracts, Set
  <2>2. ~Publishes(p, patch[p].was)
    BY <1>14 DEF Publishes, Retracts
  <2>3. notes' = {n \in notes : ~(n.type = "assignment_published" /\ n.ref = a)}
    BY <1>2, <1>9, <1>10, <1>14, <2>2
  <2>4. Told' = Told \ C!About("assignment_published", a)
    BY <2>3 DEF Told, C!About
  <2>5. \A h \in HandedIn : h.hw # a
    BY <1>2, <1>14, InHand DEF Paper
  <2> QED
    BY <2>1, <2>4, <2>5
<1>15. Changed
  BY <1>12, <1>13, <1>14
<1>16. C!Amend(a, t)
  <2>1. /\ course /\ hw[a].status # "absent" /\ t.status # "absent" /\ t.accepts # {}
        /\ UNCHANGED <<course, HandedIn>>
    BY <1>1, <1>2, <1>4, <1>5, <1>7, <1>8
  <2>2. hw' = [hw EXCEPT ![a] = t] /\ limits' = [limits EXCEPT ![a] = limits[a] \cup {t.limit}]
    BY <1>4, <1>6
  <2>3. limits' = [limits EXCEPT ![a] = @ \cup {t.limit}]
    BY <2>2
  <2> HIDE DEF t, a
  <2> QED
    BY <1>15, <2>1, <2>2, <2>3 DEF C!Amend
<1> QED
  BY <1>2, <1>16 DEF C!CourseNext

\* The committed attempts of a student just before the next one commits.
LEMMA EarlierAttempts ==
    ASSUME IInv, NEW q \in Submits, phase[q] = "inserted"
    PROVE  {h.attempt : h \in C!WorkOf(work[q].hw, work[q].student)} = 1 .. work[q].attempt - 1
<1> USE DEF IInv
<1> DEFINE a == work[q].hw
           s == work[q].student
           c == Cardinality(Own(a, s))
<1>1. /\ work[q].state = "pending" /\ a = sent[q].hw /\ s = sent[q].student
      /\ a \in Assignments /\ s \in Students
  BY DEF Handing
<1>2. /\ {work[r].attempt : r \in Own(a, s)} = 1 .. c /\ c \in Nat
      /\ \A r, k \in Own(a, s) : work[r].attempt = work[k].attempt => r = k
  BY <1>1, FS_CardinalityType DEF Numbering
<1>3. q \in Own(a, s) /\ work[q].attempt = c
  BY <1>1 DEF Own, Pair, Numbering, Handing
<1>4. \A r \in Own(a, s) \ {q} : Committed(r)
  <2> SUFFICES ASSUME NEW r \in Own(a, s) \ {q} PROVE Committed(r)
    OBVIOUS
  <2>1. r \in Submits /\ work[r].state # "none" /\ sent[r].hw = a /\ sent[r].student = s
    BY DEF Own, Handing
  <2>2. work[r].state # "pending"
    BY <1>1, <2>1 DEF Numbering, Rivals, Handing
  <2> QED
    BY <2>1, <2>2 DEF Committed, TypeOK, Rows
<1>5. \A r \in Submits : Committed(r) /\ work[r].hw = a /\ work[r].student = s
                            <=> r \in Own(a, s) \ {q}
  BY <1>1, <1>4 DEF Own, Committed
<1> HIDE DEF a, s
<1>6. \A n : n \in {h.attempt : h \in C!WorkOf(a, s)}
               <=> \E r \in Own(a, s) \ {q} : work[r].attempt = n
  <2>1. \A n : n \in {h.attempt : h \in C!WorkOf(a, s)}
                 <=> \E h \in HandedIn : h.hw = a /\ h.student = s /\ h.attempt = n
    BY DEF C!WorkOf
  <2>2. \A r : /\ Paper(r).hw = work[r].hw /\ Paper(r).student = work[r].student
               /\ Paper(r).attempt = work[r].attempt
    BY DEF Paper
  <2>3. \A n : (\E h \in HandedIn : h.hw = a /\ h.student = s /\ h.attempt = n)
                 <=> \E r \in Submits : /\ Committed(r) /\ work[r].hw = a
                                        /\ work[r].student = s /\ work[r].attempt = n
    BY <2>2, InHand
  <2>4. \A n : (\E r \in Submits : /\ Committed(r) /\ work[r].hw = a
                                   /\ work[r].student = s /\ work[r].attempt = n)
                 <=> \E r \in Own(a, s) \ {q} : work[r].attempt = n
    BY <1>5 DEF Own
  <2> QED
    BY <2>1, <2>3, <2>4
<1> HIDE DEF c
<1>7. \A n : (\E r \in Own(a, s) \ {q} : work[r].attempt = n) <=> n \in 1 .. c /\ n # c
  BY <1>2, <1>3
<1>8. \A n : n \in 1 .. c /\ n # c <=> n \in 1 .. c - 1
  BY <1>2
<1> QED
  BY <1>3, <1>6, <1>7, <1>8 DEF a, s

LEMMA HandInRefines ==
    ASSUME IInv, Content, NEW q \in Submits, CommitSubmission(q)
    PROVE  C!CourseNext
<1> USE DEF IInv
<1> DEFINE w == Paper(q)'
<1>1. /\ phase[q] = "inserted" /\ work[q].state = "pending" /\ work'[q].state = "submitted"
      /\ UNCHANGED <<sent, hw, limits, course>>
      /\ \A p \in Submits \ {q} : work'[p] = work[p]
      /\ work'[q].student = work[q].student /\ work'[q].hw = work[q].hw
      /\ work'[q].attempt = work[q].attempt /\ work'[q].file = work[q].file
  BY CommitStep
<1>2. work'[q].text = work[q].text
  BY DEF CommitSubmission, TypeOK, Rows
<1>3. /\ w.id = q /\ w.student = work[q].student /\ w.hw = work[q].hw
      /\ w.attempt = work[q].attempt /\ w.text = work[q].text /\ w.file = work[q].file
      /\ w.state = "submitted"
  BY <1>1, <1>2 DEF Paper
<1>4. /\ work[q].student = sent[q].student /\ work[q].student \in Students
      /\ work[q].hw = sent[q].hw /\ work[q].hw \in Assignments
      /\ work[q].attempt = sent[q].attempt /\ work[q].attempt \in Nat
  BY <1>1 DEF Handing, TypeOK, Rows
<1>5. course
  BY <1>1 DEF Ending
<1>6. ~Committed(q)
  BY <1>1 DEF Committed
<1>7. \A h \in HandedIn : h.id # q
  BY <1>6, InHand DEF Paper
<1>8. C!NotEmpty(w)
  BY <1>1, <1>3 DEF Content, C!NotEmpty
<1>9. C!Allowed(w.hw, w.attempt)
  <2>1. sent[q].limit \in limits[sent[q].hw] /\ ~OverLimit(q, sent[q].attempt)
    BY <1>1 DEF Granting
  <2>2. sent[q].limit = None \/ sent[q].limit \in Nat
    BY <1>4, <2>1, Nulls DEF TypeOK, Limit
  <2>3. sent[q].limit = None \/ sent[q].attempt <= sent[q].limit
    BY <1>4, <2>1, <2>2 DEF OverLimit
  <2> QED
    BY <1>3, <1>4, <2>1, <2>3 DEF C!Allowed
<1>10. w.file # None => \A h \in HandedIn : h.file # w.file
  <2>1. \A r \in Submits : Committed(r) => r # q /\ work[r].state # "none"
    BY <1>6 DEF Committed
  <2>2. work[q].file # None => \A r \in Submits : Committed(r) => work[r].file # work[q].file
    BY <1>1, <2>1 DEF Filed
  <2> QED
    BY <1>3, <2>2, InHand DEF Paper
<1>11. HandedIn' = HandedIn \cup {w}
  BY <1>1, <1>6, OnePaper DEF Committed
<1>12. Told' = Told
  BY DEF CommitSubmission, Note, Told
<1>13. {h.attempt : h \in C!WorkOf(w.hw, w.student)} = 1 .. w.attempt - 1
  BY <1>1, <1>3, EarlierAttempts
<1> HIDE DEF w
<1>14. C!HandIn(w)
  BY <1>1, <1>3, <1>4, <1>5, <1>7, <1>8, <1>9, <1>10, <1>11, <1>12, <1>13 DEF C!HandIn
<1> QED
  BY <1>11, <1>14 DEF C!CourseNext

LEMMA EditRefines ==
    ASSUME IInv, IInv', Content, Content', NEW e \in Edits, CommitEdit(e)
    PROVE  C!CourseNext
<1> USE DEF IInv
<1> PICK r \in Submits : r = held[e].row
  BY CommitEditRows
<1> DEFINE h == Paper(r)
           w == Paper(r)'
<1>1. /\ work[r].state = "submitted" /\ UNCHANGED <<sent, notes>>
      /\ \A q \in Submits :
            /\ work'[q].student = work[q].student /\ work'[q].hw = work[q].hw
            /\ work'[q].attempt = work[q].attempt /\ work'[q].file = work[q].file
            /\ work'[q].state = work[q].state
            /\ q # r => work'[q].text = work[q].text
  BY CommitEditRows
<1>2. /\ work' = [work EXCEPT ![r].text = IF held[e].blank THEN None ELSE e]
      /\ UNCHANGED <<course, hw, limits>>
  BY DEF CommitEdit
<1>3. \A q \in Submits \ {r} : work'[q] = work[q]
  BY <1>1, <1>2 DEF TypeOK
<1>4. Committed(r) /\ Committed(r)' /\ h \in HandedIn
  BY <1>1, InHand DEF Committed
<1>5. HandedIn' = (HandedIn \ {h}) \cup {w}
  BY <1>1, <1>3, <1>4, OnePaper
<1>6. w = [h EXCEPT !.text = w.text] /\ h.state = "submitted"
  BY <1>1 DEF Paper
<1>7. C!NotEmpty(w)
  BY <1>1 DEF Content, C!NotEmpty, Paper
<1>8. Told' = Told
  BY <1>1 DEF Told
<1>9. w \in HandedIn'
  BY <1>5
<1> HIDE DEF w, h
<1>10. C!Rewrite(h, w.text)
  BY <1>2, <1>5, <1>6, <1>7, <1>8 DEF C!Rewrite
<1> QED
  BY <1>4, <1>9, <1>10 DEF C!CourseNext

LEMMA ReviewRefines ==
    ASSUME IInv, NEW v \in Reviews, CommitReview(v)
    PROVE  [C!CourseNext]_(C!courseVars)
<1> USE DEF IInv
<1> PICK r \in Submits : r = held[v].row
  BY CommitReviewRows
<1> DEFINE h == Paper(r)
           w == Paper(r)'
           posts == Note("submission_reviewed", {work[r].student}, r, v)
<1>1. /\ Committed(r) /\ held[v].was = work[r].state
      /\ work'[r].state = "reviewed"
      /\ \A q \in Submits :
            /\ work'[q].student = work[q].student /\ work'[q].hw = work[q].hw
            /\ work'[q].attempt = work[q].attempt /\ work'[q].file = work[q].file
            /\ work'[q].text = work[q].text
            /\ q # r => work'[q].state = work[q].state
  BY CommitReviewRows
<1>2. /\ work' = [work EXCEPT ![r].state = "reviewed"]
      /\ notes' = IF held[v].was = "reviewed" THEN notes ELSE notes \cup posts
      /\ UNCHANGED <<course, hw, limits>>
  BY DEF CommitReview
<1>3. \A q \in Submits \ {r} : work'[q] = work[q]
  BY <1>1, <1>2 DEF TypeOK
<1>4. Committed(r)' /\ h \in HandedIn
  BY <1>1, InHand DEF Committed
<1>5. HandedIn' = (HandedIn \ {h}) \cup {w}
  BY <1>1, <1>3, <1>4, OnePaper
<1>6. w = [h EXCEPT !.state = "reviewed"] /\ h.id = r /\ h.student = work[r].student
  BY <1>1 DEF Paper
<1>7. CASE work[r].state = "reviewed"
  <2>1. w = h
    BY <1>1, <1>7 DEF Paper
  <2>2. HandedIn' = HandedIn
    BY <1>4, <1>5, <2>1
  <2>3. Told' = Told
    BY <1>1, <1>2, <1>7 DEF Told
  <2> QED
    BY <1>2, <2>2, <2>3, Stutter
<1>8. CASE work[r].state # "reviewed"
  <2>1. work[r].state = "submitted"
    BY <1>1, <1>8 DEF Committed
  <2>2. h.state = "submitted"
    BY <2>1 DEF Paper
  <2>3. \A n \in notes : ~(n.type = "submission_reviewed" /\ n.ref = r)
    BY <2>1 DEF Telling
  <2>4. notes' = notes \cup posts
    BY <1>1, <1>2, <1>8
  <2>5. \A n \in posts : n.type = "submission_reviewed" /\ n.ref = r /\ n.user \in {work[r].student}
    BY DEF Note
  <2>6. (\A n, m \in posts : n.user = m.user => n = m) /\ posts # {}
    BY DEF Note
  <2> HIDE DEF posts
  <2>7. Told' = Told \cup posts
    BY <2>4, <2>5 DEF Told
  <2>8. C!TellOnce("submission_reviewed", r, {work[r].student})
    BY <2>3, <2>5, <2>6, <2>7 DEF C!TellOnce, C!About, Told
  <2>9. Told' # Told
    BY <2>3, <2>5, <2>6, <2>7 DEF Told
  <2> HIDE DEF h, w
  <2>10. C!Review(h)
    BY <1>2, <1>5, <1>6, <2>2, <2>8, <2>9 DEF C!Review
  <2> QED
    BY <1>4, <2>10 DEF C!CourseNext
<1> QED
  BY <1>7, <1>8

LEMMA DeleteRefines ==
    ASSUME IInv, NEW d \in Deletes, course, DeleteCourse(d)
    PROVE  C!CourseNext
<1>1. course' = FALSE /\ UNCHANGED limits /\ hw' = [a \in Assignments |-> C!Off]
  BY DEF DeleteCourse, Absent, C!Off
<1>2. HandedIn' = {}
  BY DEF DeleteCourse, NoWork, HandedIn, Committed
<1>3. Told' \subseteq Told
  BY DEF DeleteCourse, Note, Told
<1> QED
  BY <1>1, <1>2, <1>3 DEF C!Close, C!CourseNext

LEMMA StepRefines ==
    ASSUME IInv, IInv', Content, Content', PublishToldOnce, [Next]_vars
    PROVE  [C!CourseNext]_(C!courseVars)
<1> USE Kinds DEF IInv
<1>1. ASSUME Backstage PROVE [C!CourseNext]_(C!courseVars)
  BY <1>1, SamePapers, Stutter DEF Backstage, Committed
<1>2. ASSUME NEW q \in Submits, UNCHANGED <<course, hw, limits, notes>>,
             ~Committed(q), ~Committed(q)', \A p \in Submits \ {q} : work'[p] = work[p]
      PROVE  [C!CourseNext]_(C!courseVars)
  <2>1. HandedIn' = HandedIn
    BY <1>2, SamePapers DEF Committed
  <2>2. Told' = Told
    BY <1>2 DEF Told
  <2> QED
    BY <1>2, <2>1, <2>2, Stutter
<1>3. ASSUME NEW q \in Submits,
             \/ \E s \in Students, a \in Assignments, text \in BOOLEAN,
                   file \in Keys \cup {None} : ReadAssignment(q, s, a, text, file)
             \/ LockAttempts(q)
      PROVE  [C!CourseNext]_(C!courseVars)
  BY <1>2, <1>3, ReadStep, NumberStep DEF Committed
<1>4. ASSUME NEW q \in Submits, InsertSubmission(q) PROVE [C!CourseNext]_(C!courseVars)
  BY <1>2, <1>4, InsertStep DEF Committed
<1>5. ASSUME NEW q \in Submits, Abort(q) PROVE [C!CourseNext]_(C!courseVars)
  BY <1>2, <1>5, AbortStep DEF Committed
<1> QED
  BY <1>1, <1>3, <1>4, <1>5, ClassSteps, CreateRefines, PatchRefines, HandInRefines,
     EditRefines, ReviewRefines, DeleteRefines

\* The course routes implement Coursework: each of their steps is a step of it
\* or changes nothing a class can see.
THEOREM CourseworkImplemented == Spec => ImplementsCoursework
<1>1. Init => C!CourseInit
  BY InitRefines
<1>2. /\ IInv /\ IInv' /\ Content /\ Content' /\ PublishToldOnce /\ [Next]_vars
      => [C!CourseNext]_(C!courseVars)
  BY StepRefines
<1> QED
  BY <1>1, <1>2, Invariance, NothingEmpty, PublishTold, PTL
     DEF Spec, ImplementsCoursework, C!CourseSpec

=============================================================================
