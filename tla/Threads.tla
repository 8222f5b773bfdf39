------------------------------- MODULE Threads -------------------------------
(***************************************************************************)
(* Messages between a student and a teacher (messages.route.js).  Every     *)
(* request first loads its thread, the pair of the student and the teacher  *)
(* they have at that moment, from the pool; what it writes, it writes       *)
(* later, and the student may have been given another teacher in between.   *)
(***************************************************************************)
EXTENDS Feed

CONSTANTS Sends,   \* POST /messages/:studentId requests, each with its row
          Marks    \* PATCH /messages/:studentId/read requests

VARIABLES thread,    \* the thread a request has loaded
          message,   \* the messages table
          sent,      \* requests that have been answered
          outdated   \* history: requests whose student changed teachers since

threadsVars == <<thread, message, sent, outdated>>

NoThread == [actor |-> None, student |-> None, admin |-> None]
NoMessage == [sender |-> None, student |-> None, admin |-> None, read |-> FALSE]

ThreadsTypeOK ==
    /\ thread \in [Sends \cup Marks -> [actor : Users, student : Students, admin : Teachers]
                                       \cup {NoThread}]
    /\ message \in [Sends -> [sender : Users, student : Students, admin : Teachers,
                              read : BOOLEAN] \cup {NoMessage}]
    /\ sent \subseteq Sends \cup Marks
    /\ outdated \subseteq Sends \cup Marks

ThreadsInit ==
    /\ thread = [q \in Sends \cup Marks |-> NoThread]
    /\ message = [q \in Sends |-> NoMessage]
    /\ sent = {}
    /\ outdated = {}

-----------------------------------------------------------------------------
\* loadAuthorizedThread: 404 out of scope, 409 without a teacher.
OpenThread(q, u, s) ==
    /\ thread[q] = NoThread
    /\ s \in Reach(u)
    /\ teacher[s] # None
    /\ thread' = [thread EXCEPT ![q] = [actor |-> u, student |-> s, admin |-> teacher[s]]]
    /\ UNCHANGED <<teacher, notes, unread, message, sent, outdated>>

\* The transaction of a POST: INSERT, whose foreign key keeps the student's
\* row from a reassignment, then resolveRecipients, the notifications, COMMIT.
Send(q) ==
    LET h == thread[q] IN
    /\ h # NoThread /\ q \notin sent
    /\ message' = [message EXCEPT ![q] = [sender |-> h.actor, student |-> h.student,
                                          admin |-> h.admin, read |-> FALSE]]
    /\ Tell(Letters(q, h.actor, "message", Recipients(h.actor, h.student)))
    /\ sent' = sent \cup {q}
    /\ UNCHANGED <<teacher, thread, outdated>>

\* ROLLBACK of a POST: an error, insertNotification's too, or a lost connection.
LoseSend(q) ==
    /\ thread[q] # NoThread /\ q \notin sent
    /\ sent' = sent \cup {q}
    /\ UNCHANGED <<teacher, notes, unread, thread, message, outdated>>

\* Mutant of In: the key is the student alone, as it was before threads had
\* two sides (messages.helpers.js:4-6).
InStudents(h, m) == message[m].student = h.student

In(h, m) == message[m].student = h.student /\ message[m].admin = h.admin

\* UPDATE messages SET read_at = NOW(): what others wrote in the thread.
MarkRead(q) ==
    LET h == thread[q] IN
    /\ h # NoThread /\ q \notin sent
    /\ message' = [m \in Sends |->
          IF In(h, m) /\ message[m].sender # h.actor
          THEN [message[m] EXCEPT !.read = TRUE] ELSE message[m]]
    /\ sent' = sent \cup {q}
    /\ UNCHANGED <<teacher, notes, unread, thread, outdated>>

\* Mutant of Reassign: any teacher (students.route.js:193-199 says why not).
ReassignAnywhere(u, s, t) ==
    /\ RoleOf[u] = "owner" /\ s \in Reach(u)
    /\ t \in Teachers \cup {None}
    /\ t # teacher[s]
    /\ teacher' = [teacher EXCEPT ![s] = t]
    /\ outdated' = outdated \cup {q \in Sends \cup Marks : thread[q].student = s /\ q \notin sent}
    /\ UNCHANGED <<notes, unread, thread, message, sent>>

\* PATCH /students/:id/admin, by an owner: another teacher of the same
\* organization, or none.
Reassign(u, s, t) ==
    /\ RoleOf[u] = "owner" /\ s \in Reach(u)
    /\ t \in (Teachers \cap Colleagues(u)) \cup {None}
    /\ t # teacher[s]
    /\ teacher' = [teacher EXCEPT ![s] = t]
    /\ outdated' = outdated \cup {q \in Sends \cup Marks : thread[q].student = s /\ q \notin sent}
    /\ UNCHANGED <<notes, unread, thread, message, sent>>

\* Mutant of Scope: no admin column for a teacher, who falls back on the
\* organization (scope.js:65-67).
ScopeWithoutAdmin(u, m) ==
    LET own == OrgOf[message[m].student] = OrgOf[u] IN
    CASE RoleOf[u] \in {"owner", "admin"} -> own
      [] RoleOf[u] = "student" -> own /\ message[m].student = u
      [] OTHER -> FALSE

\* scopeFor on messages: org for an owner, admin_id for a teacher, student_id
\* for a student; a manager has none.
Scope(u, m) ==
    LET own == OrgOf[message[m].student] = OrgOf[u] IN
    CASE RoleOf[u] = "owner" -> own
      [] RoleOf[u] = "admin" -> own /\ message[m].admin = u
      [] RoleOf[u] = "student" -> own /\ message[m].student = u
      [] OTHER -> FALSE

Written == {q \in Sends : message[q] # NoMessage}

\* GET /messages/unread-count.
UnreadFor(u) ==
    {m \in Written : message[m].sender # u /\ ~message[m].read /\ Scope(u, m)}

ThreadsNext ==
    \/ \E u \in Users, s \in Students :
          \/ \E q \in Sends \cup Marks : OpenThread(q, u, s)
          \/ \E t \in Teachers \cup {None} : Reassign(u, s, t)
    \/ \E q \in Sends : Send(q) \/ LoseSend(q)
    \/ \E q \in Marks : MarkRead(q)

-----------------------------------------------------------------------------
(* Properties *)

\* Both sides of a thread hear of what is written in it, whoever wrote it, and
\* nobody else does, unless the student changed teachers while it was written
\* (counterparty.js:78-93).
TellsTheReaders ==
    \A q \in Written \ outdated :
        Told(q, "message") = {message[q].student, message[q].admin} \ {message[q].sender}

\* A message is marked as read by the student or the teacher it was written
\* to, or by an owner: never by a later teacher of that student, and never by
\* its sender (messages.route.js:219-225).
MarkedByItsReader ==
    [][\A m \in Sends : message'[m].read # message[m].read =>
          \E q \in Marks :
              /\ q \in sent' \ sent
              /\ thread[q].actor # message[m].sender
              /\ \/ thread[q].actor \in {message[m].student, message[m].admin}
                 \/ RoleOf[thread[q].actor] = "owner"
       ]_<<message, thread, sent>>

\* What a badge counts can be opened, and so cleared, by the one who sees the
\* badge, except after a reassignment: the messages of a student with a former
\* teacher stay unread for both of them (messages.route.js:28-79).
UnreadCanBeOpened ==
    \A u \in Users : \A m \in UnreadFor(u) :
        teacher[message[m].student] = message[m].admin => message[m].student \in Reach(u)

\* The threads as their readers know them.
Doors == {thread[q] : q \in {r \in Sends \cup Marks : thread[r] # NoThread}}

Posted ==
    {[id |-> m, sender |-> message[m].sender, student |-> message[m].student,
      admin |-> message[m].admin] : m \in Written}

Notices == {[about |-> n.by, to |-> n.to] : n \in {m \in notes : m.type = "message"}}

C == INSTANCE Correspondence WITH
        roster <- teacher, doors <- Doors, letters <- Posted,
        seen <- {m \in Written : message[m].read}, notices <- Notices

\* The routes do to threads what Correspondence allows and nothing else, however
\* students are moved while messages are written and read: a message comes with
\* its notices or not at all, tells the teacher whom the student has by then, and
\* is only ever marked as read, by somebody else who had entered its thread
\* (messages.route.js:123-236).
ImplementsCorrespondence == C!CorrespondenceSpec

=============================================================================
