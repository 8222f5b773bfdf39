-------------------------------- MODULE Feed --------------------------------
(***************************************************************************)
(* Users, who of them may act on which student (students.js), and the       *)
(* notifications they are sent (notifications.helpers.js) and read          *)
(* (notifications.route.js).  Role and organization of a user never change; *)
(* the teacher of a student does (students.route.js).                       *)
(***************************************************************************)
EXTENDS Naturals

CONSTANTS Users, RoleOf, OrgOf, None

ASSUME UsersAssumption ==
    /\ RoleOf \in [Users -> {"owner", "manager", "admin", "student"}]
    /\ None \notin Users

VARIABLES teacher,   \* users.admin_id of the students
          notes,     \* the notifications table
          unread     \* its rows with read_at IS NULL

feedVars == <<notes, unread>>

-----------------------------------------------------------------------------
WithRole(roles) == {u \in Users : RoleOf[u] \in roles}
Students == WithRole({"student"})
Teachers == WithRole({"admin"})
Colleagues(u) == {v \in Users : OrgOf[v] = OrgOf[u]}

\* assertStudentInScope: which students the user may act on.
Reach(u) ==
    {s \in Students \cap Colleagues(u) :
        \/ RoleOf[u] = "owner"
        \/ RoleOf[u] = "admin" /\ teacher[s] = u
        \/ u = s}

\* resolveCounterparty: the student for everyone else; for a student their
\* teacher, whom the organization fences.
Counterparty(actor, s) ==
    IF RoleOf[actor] = "student" THEN {teacher[actor]} \cap Colleagues(actor) ELSE {s}

\* Mutant of Recipients: the other party only (counterparty.js:80-85, "BUG B").
CounterpartyOnly(actor, s) == Counterparty(actor, s) \ {actor}

\* resolveRecipients: the student's own teacher too, when somebody else acts.
Recipients(actor, s) ==
    (Counterparty(actor, s)
       \cup IF RoleOf[actor] = "student" THEN {} ELSE {teacher[s]} \ {None}) \ {actor}

-----------------------------------------------------------------------------
\* The rows a request writes for those it tells; ref_id is the request's row.
Letters(by, from, type, told) ==
    {[by |-> by, from |-> from, to |-> u, type |-> type] : u \in told}

\* insertNotification, for each of them: it throws for a stranger to the
\* organization, and the transaction is lost with everything in it.
Tell(new) ==
    /\ \A n \in new : OrgOf[n.to] = OrgOf[n.from]
    /\ notes' = notes \cup new
    /\ unread' = unread \cup new

Told(by, type) == {n.to : n \in {m \in notes : m.by = by /\ m.type = type}}

ReadAll(u) ==
    /\ unread' = {n \in unread : n.to # u}
    /\ UNCHANGED <<teacher, notes>>

ReadOne(u, n) ==
    /\ n \in unread /\ n.to = u
    /\ unread' = unread \ {n}
    /\ UNCHANGED <<teacher, notes>>

FeedNext == \E u \in Users : ReadAll(u) \/ \E n \in unread : ReadOne(u, n)

=============================================================================
