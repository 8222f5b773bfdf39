----------------------------- MODULE Coursework -----------------------------
(***************************************************************************)
(* What the course routes promise a class, with no database, lock or       *)
(* request in it.  A course sets assignments; work handed in for them is   *)
(* numbered in sequence, never empty, and never holds a file twice; it may *)
(* be rewritten until it is reviewed and not at all afterwards; everybody  *)
(* concerned is told of a publication and of a review once; and all of it  *)
(* goes with the course, in one step.  Homework.tla implements this.       *)
(***************************************************************************)
EXTENDS Naturals

CONSTANTS Ids,          \* identities of submissions
          Students, Assignments,
          None          \* no limit, no text, no file

VARIABLES open,         \* the course is there
          board,        \* its assignments
          granted,      \* every limit an assignment has had
          handed,       \* the submissions
          told          \* what students have been told of the two

courseVars == <<open, board, granted, handed, told>>

-----------------------------------------------------------------------------
Off == [status |-> "absent", limit |-> None, accepts |-> {}]

WorkOf(a, s) == {h \in handed : h.hw = a /\ h.student = s}

NotEmpty(h) == h.text # None \/ h.file # None

Allowed(a, n) == None \in granted[a] \/ \E l \in granted[a] : n <= l

About(type, ref) == {n \in told : n.type = type /\ n.ref = ref}

\* Nobody was told of this before, and nobody is told twice now.
TellOnce(type, ref, users) ==
    LET new == told' \ told
    IN  /\ About(type, ref) = {}
        /\ told \subseteq told'
        /\ \A n \in new : n.type = type /\ n.ref = ref /\ n.user \in users
        /\ \A n, m \in new : n.user = m.user => n = m

-----------------------------------------------------------------------------
CourseInit ==
    /\ open = TRUE
    /\ board = [a \in Assignments |-> Off]
    /\ granted = [a \in Assignments |-> {}]
    /\ handed = {}
    /\ told = {}

\* An assignment is set as a draft, once.
SetDraft(a, t) ==
    /\ open
    /\ granted[a] = {}
    /\ t.status = "draft" /\ t.accepts # {}
    /\ board' = [board EXCEPT ![a] = t]
    /\ granted' = [granted EXCEPT ![a] = {t.limit}]
    /\ UNCHANGED <<open, handed, told>>

\* It is changed as a whole, to something that still accepts work.  Publishing
\* tells students; taking it back untells them, and meets nobody's work.
Amend(a, t) ==
    /\ open
    /\ board[a].status # "absent" /\ t.status # "absent" /\ t.accepts # {}
    /\ board' = [board EXCEPT ![a] = t]
    /\ granted' = [granted EXCEPT ![a] = @ \cup {t.limit}]
    /\ \/ t.status = board[a].status /\ UNCHANGED told
       \/ /\ board[a].status = "draft" /\ t.status = "published"
          /\ TellOnce("assignment_published", a, Students)
       \/ /\ board[a].status = "published" /\ t.status = "draft"
          /\ \A h \in handed : h.hw # a
          /\ told' = told \ About("assignment_published", a)
    /\ UNCHANGED <<open, handed>>

\* The next attempt of its student, within a limit the assignment has or had.
HandIn(w) ==
    /\ open
    /\ \A h \in handed : h.id # w.id
    /\ w.id \in Ids /\ w.student \in Students /\ w.hw \in Assignments
    /\ w.state = "submitted"
    /\ NotEmpty(w)
    /\ {h.attempt : h \in WorkOf(w.hw, w.student)} = 1 .. w.attempt - 1
    /\ Allowed(w.hw, w.attempt)
    /\ w.file # None => \A h \in handed : h.file # w.file
    /\ handed' = handed \cup {w}
    /\ UNCHANGED <<open, board, granted, told>>

Rewrite(h, text) ==
    LET w == [h EXCEPT !.text = text]
    IN  /\ h.state = "submitted"
        /\ NotEmpty(w)
        /\ handed' = (handed \ {h}) \cup {w}
        /\ UNCHANGED <<open, board, granted, told>>

\* The first review; those after it change nothing here.
Review(h) ==
    /\ h.state = "submitted"
    /\ handed' = (handed \ {h}) \cup {[h EXCEPT !.state = "reviewed"]}
    /\ TellOnce("submission_reviewed", h.id, {h.student})
    /\ told' # told
    /\ UNCHANGED <<open, board, granted>>

Close ==
    /\ open
    /\ open' = FALSE
    /\ board' = [a \in Assignments |-> Off]
    /\ handed' = {}
    /\ told' \subseteq told
    /\ UNCHANGED granted

CourseNext ==
    \/ \E a \in Assignments : SetDraft(a, board'[a]) \/ Amend(a, board'[a])
    \/ \E w \in handed' : HandIn(w)
    \/ \E h \in handed : \/ \E w \in handed' : Rewrite(h, w.text)
                         \/ Review(h)
    \/ Close

CourseSpec == CourseInit /\ [][CourseNext]_courseVars

=============================================================================
