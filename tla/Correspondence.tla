--------------------------- MODULE Correspondence ---------------------------
(***************************************************************************)
(* What the message routes promise, with no request or transaction in it.  *)
(* Whoever may act on a student enters the thread that the student has     *)
(* with their teacher of the moment, and may come back to it later.  A     *)
(* letter written there is never changed or lost, and comes with notices   *)
(* to the student and to the teacher whom the student has by then, the     *)
(* writer excepted.  Only those who have entered its thread, and never its *)
(* writer, mark a letter as read.  Threads.tla implements this.            *)
(***************************************************************************)
CONSTANTS Users, RoleOf, OrgOf,
          None                    \* no teacher

VARIABLES roster,                 \* the teacher of each student
          doors,                  \* threads, and who has entered them
          letters, seen,          \* what was written, and the part marked as read
          notices                 \* who was told of which letter

correspondenceVars == <<roster, doors, letters, seen, notices>>

-----------------------------------------------------------------------------
Students == {u \in Users : RoleOf[u] = "student"}

Fellows(u) == {v \in Users : OrgOf[v] = OrgOf[u]}

TeachersOf(s) == {u \in Fellows(s) : RoleOf[u] = "admin"} \cup {None}

CorrespondenceInit ==
    /\ roster \in [Students -> Users \cup {None}]
    /\ \A s \in Students : roster[s] \in TeachersOf(s)
    /\ doors = {} /\ letters = {} /\ seen = {} /\ notices = {}

Enter(d) ==
    /\ d.student \in Students
    /\ d.admin = roster[d.student] /\ d.admin # None
    /\ \/ d.actor \in {d.student, d.admin}
       \/ d.actor \in Fellows(d.student) /\ RoleOf[d.actor] = "owner"
    /\ doors' = doors \cup {d}
    /\ UNCHANGED <<roster, letters, seen, notices>>

Write(l) ==
    /\ [actor |-> l.sender, student |-> l.student, admin |-> l.admin] \in doors
    /\ \A k \in letters : k.id # l.id
    /\ letters' = letters \cup {l}
    /\ notices' = notices \cup
          {[about |-> l.id, to |-> u] : u \in {l.student, roster[l.student]} \ {l.sender, None}}
    /\ UNCHANGED <<roster, doors, seen>>

\* Everything that others have written in the thread.
Read(d) ==
    /\ seen' = seen \cup {l.id : l \in {k \in letters :
                              k.student = d.student /\ k.admin = d.admin /\ k.sender # d.actor}}
    /\ UNCHANGED <<roster, doors, letters, notices>>

Move(s, t) ==
    /\ roster' = [roster EXCEPT ![s] = t]
    /\ UNCHANGED <<doors, letters, seen, notices>>

CorrespondenceNext ==
    \/ \E d \in doors' : Enter(d)
    \/ \E l \in letters' : Write(l)
    \/ \E d \in doors : Read(d)
    \/ \E s \in Students : \E t \in TeachersOf(s) : Move(s, t)

CorrespondenceSpec == CorrespondenceInit /\ [][CorrespondenceNext]_correspondenceVars

=============================================================================
