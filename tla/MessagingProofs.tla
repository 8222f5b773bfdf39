--------------------------- MODULE MessagingProofs ---------------------------
(***************************************************************************)
(* The properties of Messaging, for any users and any number of requests.   *)
(*                                                                         *)
(* None of them is inductive.  What a PATCH read stays true because it      *)
(* holds the row (LockHeld); what a thread was loaded as stays its          *)
(* student's thread until a reassignment (Loaded); a message and a          *)
(* broadcast are what their requests were (Copied, Recorded); and who was   *)
(* told of them is known because their notifications come with them or not  *)
(* at all (Announced).                                                      *)
(***************************************************************************)
EXTENDS Messaging, FiniteSetTheorems, TLAPS

LockHeld ==
    \A p \in Patches : turn[p] = "locked" =>
        /\ patch[p] # NoPatch
        /\ task[patch[p].task] # NoTask
        /\ patch[p].before = task[patch[p].task].status
        /\ \A other \in Patches : Holds(other, patch[p].task) => other = p

Fenced == \A s \in Students : teacher[s] # None => OrgOf[teacher[s]] = OrgOf[s]

Given ==
    \A t \in Tasks : task[t] # NoTask /\ task[t].assignee # None =>
        OrgOf[task[t].assignee] = OrgOf[task[t].creator]

Loaded ==
    \A q \in Sends \cup Marks : thread[q] # NoThread =>
        LET h == thread[q] IN
        /\ OrgOf[h.student] = OrgOf[h.actor] /\ OrgOf[h.admin] = OrgOf[h.actor]
        /\ h.actor \in {h.student, h.admin} \/ RoleOf[h.actor] = "owner"
        /\ q \notin outdated \cup sent => teacher[h.student] = h.admin

Copied ==
    \A q \in Written :
        /\ q \in sent /\ thread[q] # NoThread
        /\ message[q].sender = thread[q].actor
        /\ message[q].student = thread[q].student
        /\ message[q].admin = thread[q].admin

Drafted ==
    \A b \in Broadcasts : draft[b] # NoDraft =>
        LET d == draft[b]
            all == WithRole(RolesOf(d.audience)) \cap Colleagues(d.sender)
        IN  /\ d.audience \in Audiences
            /\ d.reach \subseteq all
            /\ d.audience # "students" => Teachers \cap Colleagues(d.sender) \subseteq d.reach

\* Those who are sent a copy of what a teacher sends.
CopiesOf(u) == IF RoleOf[u] = "owner" THEN {} ELSE Overseers(u)

Recorded ==
    \A b \in Sent :
        /\ draft[b] # NoDraft
        /\ broadcast[b].sender = draft[b].sender
        /\ broadcast[b].audience = draft[b].audience
        /\ broadcast[b].count = Cardinality(draft[b].reach)

\* Every notification has its row, and the other way round.
Announced ==
    /\ \A n \in notes :
          /\ OrgOf[n.to] = OrgOf[n.from]
          /\ n.type = "task_completed" => n.by \in Patches /\ turn[n.by] = "ok"
          /\ n.type = "message" => n.by \in Written
          /\ n.type = "broadcast" => n.by \in Sent
    /\ \A b \in Sent : Told(b, "broadcast") = draft[b].reach \cup CopiesOf(draft[b].sender)

IInv ==
    /\ TypeOK /\ LockHeld /\ Fenced /\ Given /\ Loaded /\ Copied /\ Drafted /\ Recorded
    /\ Announced /\ TellsTheReaders

-----------------------------------------------------------------------------
USE DEF WithRole, Students, Teachers, Colleagues

\* None is nobody, and everybody has one of the four roles.
LEMMA UserFacts ==
    /\ None \notin Users
    /\ \A u \in Users : RoleOf[u] \in {"owner", "manager", "admin", "student"}
  BY UsersAssumption

\* resolveRecipients gives the two sides of a thread, without the actor.
LEMMA RecipientsAreSides ==
  ASSUME teacher \in [Students -> Teachers \cup {None}],
         NEW u \in Users, NEW s \in Students, s \in Reach(u)
  PROVE  teacher[s] # None /\ OrgOf[teacher[s]] = OrgOf[s] =>
            Recipients(u, s) = {s, teacher[s]} \ {u}
<1>1. CASE RoleOf[u] = "student"
  <2>1. u = s
    BY <1>1 DEF Reach
  <2> QED BY <1>1, <2>1, UserFacts DEF Recipients, Counterparty
<1>2. CASE RoleOf[u] # "student"
  BY <1>2, UserFacts DEF Recipients, Counterparty
<1> QED BY <1>1, <1>2

\* What a step adds to the notifications, it adds for members of one
\* organization.
LEMMA TellAdds ==
  ASSUME NEW new, Tell(new)
  PROVE  notes' = notes \cup new /\ \A n \in new : OrgOf[n.to] = OrgOf[n.from]
  BY DEF Tell

LEMMA LetterFields ==
  ASSUME NEW by, NEW from, NEW type, NEW told, NEW n \in Letters(by, from, type, told)
  PROVE  n.by = by /\ n.from = from /\ n.type = type /\ n.to \in told
  BY DEF Letters

-----------------------------------------------------------------------------
(* TypeOK *)

LEMMA InitType == Init => TypeOK
<1> SUFFICES ASSUME Init PROVE TypeOK
  OBVIOUS
<1>1. TasksTypeOK
  BY DEF Init, TasksInit, TasksTypeOK
<1>2. ThreadsTypeOK
  BY DEF Init, ThreadsInit, ThreadsTypeOK
<1>3. BroadcastsTypeOK
  BY DEF Init, BroadcastsInit, BroadcastsTypeOK
<1> QED BY <1>1, <1>2, <1>3 DEF Init, TypeOK

LEMMA TellType ==
  ASSUME notes \subseteq Note, unread \subseteq notes, NEW new, new \subseteq Note, Tell(new)
  PROVE  notes' \subseteq Note /\ unread' \subseteq notes'
  BY DEF Tell

LEMMA LettersType ==
  ASSUME NEW by \in Requests, NEW from \in Users, NEW told, told \subseteq Users,
         NEW type \in {"task_assigned", "task_completed", "message", "broadcast"}
  PROVE  Letters(by, from, type, told) \subseteq Note
  BY DEF Letters, Note

LEMMA TasksType ==
  ASSUME TypeOK, LockHeld, TasksNext
  PROVE  TasksTypeOK' /\ teacher' = teacher /\ notes' \subseteq Note /\ unread' \subseteq notes'
<1> USE DEF TypeOK, TasksTypeOK, NoTask, NoPatch, Statuses
<1>1. ASSUME NEW t \in Tasks, NEW u \in Users, NEW a \in Users \cup {None}, CreateTask(t, u, a)
      PROVE  TasksTypeOK' /\ teacher' = teacher /\ notes' \subseteq Note /\ unread' \subseteq notes'
  <2>1. Letters(t, u, "task_assigned", {a} \ {u, None}) \subseteq Note
    BY LettersType DEF Requests
  <2>2. notes' \subseteq Note /\ unread' \subseteq notes'
    BY <1>1, <2>1, TellType DEF CreateTask
  <2> QED BY <1>1, <2>2 DEF CreateTask
<1>2. ASSUME NEW p \in Patches, NEW u \in Users, NEW t \in Tasks, NEW st \in Statuses,
             LockTask(p, u, t, st)
      PROVE  TasksTypeOK' /\ teacher' = teacher /\ notes' \subseteq Note /\ unread' \subseteq notes'
  BY <1>2 DEF LockTask
<1>3. ASSUME NEW p \in Patches, UpdateTask(p)
      PROVE  TasksTypeOK' /\ teacher' = teacher /\ notes' \subseteq Note /\ unread' \subseteq notes'
  <2> DEFINE t == patch[p].task
             told == IF Completed(p) THEN {task[t].creator} ELSE {}
  <2>1. /\ t \in Tasks /\ patch[p].actor \in Users /\ patch[p].status \in Statuses
        /\ task[t].creator \in Users /\ task[t].assignee \in Users \cup {None}
    BY <1>3 DEF UpdateTask, LockHeld
  <2>2. Letters(p, patch[p].actor, "task_completed", told) \subseteq Note
    BY <2>1, LettersType DEF Requests
  <2>3. notes' \subseteq Note /\ unread' \subseteq notes'
    BY <1>3, <2>2, TellType DEF UpdateTask
  <2>4. /\ task' = [task EXCEPT ![t].status = patch[p].status]
        /\ turn' = [turn EXCEPT ![p] = "ok"] /\ patch' = patch /\ teacher' = teacher
    BY <1>3 DEF UpdateTask
  <2>5. task[t] # NoTask
    BY <1>3 DEF UpdateTask, LockHeld
  <2> QED BY <2>1, <2>3, <2>4, <2>5
<1>4. ASSUME NEW p \in Patches, RefuseTask(p) \/ LoseTask(p)
      PROVE  TasksTypeOK' /\ teacher' = teacher /\ notes' \subseteq Note /\ unread' \subseteq notes'
  BY <1>4 DEF RefuseTask, LoseTask
<1> QED BY <1>1, <1>2, <1>3, <1>4 DEF TasksNext

LEMMA ThreadsType ==
  ASSUME TypeOK, ThreadsNext
  PROVE  /\ ThreadsTypeOK' /\ teacher' \in [Students -> Teachers \cup {None}]
         /\ notes' \subseteq Note /\ unread' \subseteq notes'
<1> DEFINE Goal == /\ ThreadsTypeOK' /\ teacher' \in [Students -> Teachers \cup {None}]
                   /\ notes' \subseteq Note /\ unread' \subseteq notes'
<1> USE DEF TypeOK, ThreadsTypeOK, NoThread, NoMessage
<1>1. ASSUME NEW q \in Sends \cup Marks, NEW u \in Users, NEW s \in Students, OpenThread(q, u, s)
      PROVE  Goal
  <2>1. teacher[s] \in Teachers
    BY <1>1 DEF OpenThread
  <2> QED BY <1>1, <2>1 DEF OpenThread
<1>2. ASSUME NEW u \in Users, NEW s \in Students, NEW t \in Teachers \cup {None}, Reassign(u, s, t)
      PROVE  Goal
  BY <1>2 DEF Reassign
<1>3. ASSUME NEW q \in Sends, Send(q)
      PROVE  Goal
  <2> DEFINE h == thread[q]
             new == Letters(q, h.actor, "message", Recipients(h.actor, h.student))
  <2>1. h \in [actor : Users, student : Students, admin : Teachers]
    BY <1>3 DEF Send
  <2>2. Recipients(h.actor, h.student) \subseteq Users \cup {None}
    BY <2>1 DEF Recipients, Counterparty
  <2>3. None \notin Recipients(h.actor, h.student)
    BY <2>1, UserFacts DEF Recipients, Counterparty
  <2>4. new \subseteq Note
    BY <2>1, <2>2, <2>3, LettersType DEF Requests
  <2>5. notes' \subseteq Note /\ unread' \subseteq notes'
    BY <1>3, <2>4, TellType DEF Send
  <2> QED BY <1>3, <2>1, <2>5 DEF Send
<1>4. ASSUME NEW q \in Sends, LoseSend(q)
      PROVE  Goal
  BY <1>4 DEF LoseSend
<1>5. ASSUME NEW q \in Marks, MarkRead(q)
      PROVE  Goal
  <2>1. \A m \in Sends : In(thread[q], m) =>
           message[m] \in [sender : Users, student : Students, admin : Teachers, read : BOOLEAN]
    <3>1. thread[q].student \in Users
      BY <1>5 DEF MarkRead
    <3> QED BY <3>1, UserFacts DEF In
  <2>2. \A m \in Sends : message'[m] =
           IF In(thread[q], m) /\ message[m].sender # thread[q].actor
           THEN [message[m] EXCEPT !.read = TRUE] ELSE message[m]
    BY <1>5 DEF MarkRead
  <2>3. ASSUME NEW m \in Sends
        PROVE  message'[m] \in
           [sender : Users, student : Students, admin : Teachers, read : BOOLEAN] \cup {NoMessage}
    <3>1. CASE In(thread[q], m) /\ message[m].sender # thread[q].actor
      <4>1. message'[m] = [message[m] EXCEPT !.read = TRUE]
        BY <2>2, <3>1
      <4>2. message[m] \in [sender : Users, student : Students, admin : Teachers, read : BOOLEAN]
        BY <2>1, <3>1
      <4> QED BY <4>1, <4>2
    <3>2. CASE ~(In(thread[q], m) /\ message[m].sender # thread[q].actor)
      <4>1. message'[m] = message[m]
        BY <2>2, <3>2
      <4> QED BY <4>1
    <3> QED BY <3>1, <3>2
  <2>4. message' \in [Sends -> [sender : Users, student : Students, admin : Teachers,
                                read : BOOLEAN] \cup {NoMessage}]
    BY <1>5, <2>3 DEF MarkRead
  <2> QED BY <1>5, <2>4 DEF MarkRead
<1> QED BY <1>1, <1>2, <1>3, <1>4, <1>5 DEF ThreadsNext

LEMMA FiniteReach ==
  ASSUME NEW S, S \subseteq Users
  PROVE  Cardinality(S) \in Nat
  BY FiniteAssumption, FS_Subset, FS_CardinalityType

LEMMA BroadcastsType ==
  ASSUME TypeOK, BroadcastsNext
  PROVE  BroadcastsTypeOK' /\ teacher' = teacher /\ notes' \subseteq Note /\ unread' \subseteq notes'
<1> USE DEF TypeOK, BroadcastsTypeOK, NoDraft, NoBroadcast
<1>1. ASSUME NEW b \in Broadcasts, NEW u \in Users, NEW a \in Audiences, Address(b, u, a)
      PROVE  BroadcastsTypeOK' /\ teacher' = teacher /\ notes' \subseteq Note /\ unread' \subseteq notes'
  <2>1. Audience(u, a) \in SUBSET Users
    BY DEF Audience
  <2> QED BY <1>1, <2>1 DEF Address
<1>2. ASSUME NEW b \in Broadcasts, Publish(b)
      PROVE  BroadcastsTypeOK' /\ teacher' = teacher /\ notes' \subseteq Note /\ unread' \subseteq notes'
  <2> DEFINE d == draft[b]
             copies == IF RoleOf[d.sender] = "owner" THEN {}
                       ELSE Letters(b, d.sender, "broadcast", Overseers(d.sender))
             new == Letters(b, d.sender, "broadcast", d.reach) \cup copies
  <2>1. d \in [sender : Users, audience : Audiences, reach : SUBSET Users]
    BY <1>2 DEF Publish
  <2>2. Cardinality(d.reach) \in Nat
    BY <2>1, FiniteReach
  <2>3. new \subseteq Note
    <3>1. Letters(b, d.sender, "broadcast", d.reach) \subseteq Note
      BY <2>1, LettersType DEF Requests
    <3>2. Letters(b, d.sender, "broadcast", Overseers(d.sender)) \subseteq Note
      BY <2>1, LettersType DEF Overseers, Requests
    <3> QED BY <3>1, <3>2
  <2>4. notes' \subseteq Note /\ unread' \subseteq notes'
    BY <1>2, <2>3, TellType DEF Publish
  <2>5. broadcast' = [broadcast EXCEPT ![b] =
           [sender |-> d.sender, audience |-> d.audience, count |-> Cardinality(d.reach)]]
    BY <1>2 DEF Publish
  <2>6. BroadcastsTypeOK'
    BY <1>2, <2>1, <2>2, <2>5 DEF Publish
  <2> QED BY <1>2, <2>4, <2>6 DEF Publish
<1>3. ASSUME NEW b \in Broadcasts, LoseBroadcast(b)
      PROVE  BroadcastsTypeOK' /\ teacher' = teacher /\ notes' \subseteq Note /\ unread' \subseteq notes'
  BY <1>3 DEF LoseBroadcast
<1> QED BY <1>1, <1>2, <1>3 DEF BroadcastsNext

LEMMA FeedKeeps ==
  ASSUME FeedNext, unread \subseteq notes
  PROVE  notes' = notes /\ teacher' = teacher /\ unread' \subseteq notes'
  BY DEF FeedNext, ReadAll, ReadOne

LEMMA NextType ==
  ASSUME TypeOK, LockHeld, [Next]_vars
  PROVE  TypeOK'
<1>1. CASE TasksNext /\ UNCHANGED <<threadsVars, broadcastsVars>>
  <2>1. ThreadsTypeOK' /\ BroadcastsTypeOK'
    BY <1>1 DEF threadsVars, broadcastsVars, TypeOK, ThreadsTypeOK, BroadcastsTypeOK
  <2> QED BY <1>1, <2>1, TasksType DEF TypeOK
<1>2. CASE ThreadsNext /\ UNCHANGED <<tasksVars, broadcastsVars>>
  <2>1. TasksTypeOK' /\ BroadcastsTypeOK'
    BY <1>2 DEF tasksVars, broadcastsVars, TypeOK, TasksTypeOK, BroadcastsTypeOK
  <2> QED BY <1>2, <2>1, ThreadsType DEF TypeOK
<1>3. CASE BroadcastsNext /\ UNCHANGED <<tasksVars, threadsVars>>
  <2>1. TasksTypeOK' /\ ThreadsTypeOK'
    BY <1>3 DEF tasksVars, threadsVars, TypeOK, TasksTypeOK, ThreadsTypeOK
  <2> QED BY <1>3, <2>1, BroadcastsType DEF TypeOK
<1>4. CASE FeedNext /\ UNCHANGED <<tasksVars, threadsVars, broadcastsVars>>
  <2>1. TasksTypeOK' /\ ThreadsTypeOK' /\ BroadcastsTypeOK'
    BY <1>4 DEF tasksVars, threadsVars, broadcastsVars, TypeOK, TasksTypeOK, ThreadsTypeOK,
       BroadcastsTypeOK
  <2> QED BY <1>4, <2>1, FeedKeeps DEF TypeOK
<1>5. CASE UNCHANGED vars
  BY <1>5 DEF vars, TypeOK, TasksTypeOK, ThreadsTypeOK, BroadcastsTypeOK
<1> QED BY <1>1, <1>2, <1>3, <1>4, <1>5 DEF Next

-----------------------------------------------------------------------------
(* Tasks *)

\* While a PATCH holds its row, only it changes the row.
LEMMA LockStep ==
  ASSUME TypeOK, LockHeld, Given, TasksNext
  PROVE  LockHeld' /\ Given'
<1> USE DEF TypeOK, TasksTypeOK, NoTask, NoPatch, Statuses
<1>1. ASSUME NEW t \in Tasks, NEW u \in Users, NEW a \in Users \cup {None}, CreateTask(t, u, a)
      PROVE  LockHeld' /\ Given'
  <2>1. \A p \in Patches : turn[p] = "locked" => patch[p].task # t
    BY <1>1 DEF CreateTask, LockHeld
  <2>2. LockHeld'
    BY <1>1, <2>1 DEF CreateTask, LockHeld, Holds
  <2>3. Given'
    BY <1>1 DEF CreateTask, Given
  <2> QED BY <2>2, <2>3
<1>2. ASSUME NEW p \in Patches, NEW u \in Users, NEW t \in Tasks, NEW st \in Statuses,
             LockTask(p, u, t, st)
      PROVE  LockHeld' /\ Given'
  <2>1. Given'
    BY <1>2 DEF LockTask, Given
  <2>2. ASSUME NEW o \in Patches, turn'[o] = "locked"
        PROVE  /\ patch'[o] # NoPatch /\ task'[patch'[o].task] # NoTask
               /\ patch'[o].before = task'[patch'[o].task].status
               /\ \A other \in Patches : Holds(other, patch[o].task)' => other = o
    <3>1. CASE o = p
      <4>1. /\ patch'[p] = [actor |-> u, task |-> t, status |-> st, before |-> task[t].status]
            /\ task' = task
        BY <1>2 DEF LockTask
      <4>2. \A other \in Patches : Holds(other, t)' => other = p
        BY <1>2 DEF LockTask, Holds
      <4>3. patch'[p] # NoPatch
        BY <4>1, UserFacts
      <4>4. task[t] # NoTask
        BY <1>2 DEF LockTask
      <4> QED BY <3>1, <4>1, <4>2, <4>3, <4>4
    <3>2. CASE o # p
      <4>1. patch'[o] = patch[o] /\ turn[o] = "locked" /\ task' = task
        BY <1>2, <2>2, <3>2 DEF LockTask
      <4>2. patch[o].task # t
        BY <1>2, <4>1 DEF LockTask, Holds
      <4>3. \A other \in Patches : Holds(other, patch[o].task)' => other = o
        BY <1>2, <4>1, <4>2 DEF LockTask, Holds, LockHeld
      <4> QED BY <4>1, <4>3 DEF LockHeld
    <3> QED BY <3>1, <3>2
  <2> QED BY <2>1, <2>2 DEF LockHeld
<1>3. ASSUME NEW p \in Patches, UpdateTask(p)
      PROVE  LockHeld' /\ Given'
  <2> DEFINE t == patch[p].task
  <2>1. /\ t \in Tasks /\ task[t] # NoTask /\ patch[p].status \in Statuses
        /\ \A other \in Patches : Holds(other, t) => other = p
    BY <1>3 DEF UpdateTask, LockHeld
  <2>2. /\ task' = [task EXCEPT ![t].status = patch[p].status]
        /\ turn' = [turn EXCEPT ![p] = "ok"] /\ patch' = patch
    BY <1>3 DEF UpdateTask
  <2>3. \A o \in Patches : turn'[o] = "locked" => turn[o] = "locked" /\ patch[o].task # t
    BY <2>1, <2>2 DEF Holds
  <2>4. \A s \in Tasks : s # t => task'[s] = task[s]
    BY <2>1, <2>2
  <2>5. LockHeld'
    BY <2>1, <2>2, <2>3, <2>4 DEF LockHeld, Holds
  <2>6. \A s \in Tasks : task[s] # NoTask =>
           task'[s].creator = task[s].creator /\ task'[s].assignee = task[s].assignee
    BY <2>1, <2>2
  <2>7. \A s \in Tasks : task'[s] # NoTask => task[s] # NoTask
    BY <2>1, <2>4
  <2>8. Given'
    BY <2>6, <2>7 DEF Given
  <2> QED BY <2>5, <2>8
<1>4. ASSUME NEW p \in Patches, RefuseTask(p) \/ LoseTask(p)
      PROVE  LockHeld' /\ Given'
  BY <1>4 DEF RefuseTask, LoseTask, LockHeld, Holds, Given
<1> QED BY <1>1, <1>2, <1>3, <1>4 DEF TasksNext

-----------------------------------------------------------------------------
(* Threads *)

\* A thread loaded is that of its student until a reassignment.
LEMMA LoadedStep ==
  ASSUME TypeOK, Fenced, Loaded, ThreadsNext
  PROVE  Fenced' /\ Loaded'
<1> USE DEF TypeOK, ThreadsTypeOK, NoThread
<1>1. ASSUME NEW q \in Sends \cup Marks, NEW u \in Users, NEW s \in Students, OpenThread(q, u, s)
      PROVE  Fenced' /\ Loaded'
  <2>1. /\ thread' = [thread EXCEPT ![q] = [actor |-> u, student |-> s, admin |-> teacher[s]]]
        /\ teacher' = teacher /\ outdated' = outdated /\ sent' = sent
        /\ teacher[s] \in Teachers /\ teacher[s] # None
    BY <1>1 DEF OpenThread
  <2>2. OrgOf[s] = OrgOf[u] /\ OrgOf[teacher[s]] = OrgOf[u]
    BY <1>1, <2>1 DEF OpenThread, Reach, Fenced
  <2>3. u \in {s, teacher[s]} \/ RoleOf[u] = "owner"
    BY <1>1 DEF OpenThread, Reach
  <2> QED BY <2>1, <2>2, <2>3 DEF Fenced, Loaded
<1>2. ASSUME NEW u \in Users, NEW s \in Students, NEW t \in Teachers \cup {None}, Reassign(u, s, t)
      PROVE  Fenced' /\ Loaded'
  <2>1. /\ teacher' = [teacher EXCEPT ![s] = t] /\ thread' = thread /\ sent' = sent
        /\ outdated' = outdated \cup {q \in Sends \cup Marks : thread[q].student = s /\ q \notin sent}
    BY <1>2 DEF Reassign
  <2>2. t # None => OrgOf[t] = OrgOf[s]
    BY <1>2 DEF Reassign, Reach
  <2>3. Fenced'
    BY <2>1, <2>2 DEF Fenced
  <2>4. Loaded'
    BY <2>1 DEF Loaded
  <2> QED BY <2>3, <2>4
<1>3. CASE \/ \E q \in Sends : Send(q) \/ LoseSend(q)
           \/ \E q \in Marks : MarkRead(q)
  <2>1. teacher' = teacher /\ thread' = thread /\ outdated' = outdated /\ sent \subseteq sent'
    BY <1>3 DEF Send, LoseSend, MarkRead
  <2> QED BY <2>1 DEF Fenced, Loaded
<1> QED BY <1>1, <1>2, <1>3 DEF ThreadsNext

\* A message is what its request loaded.
LEMMA CopiedStep ==
  ASSUME TypeOK, Copied, ThreadsNext
  PROVE  Copied'
<1> USE DEF TypeOK, ThreadsTypeOK, NoThread, NoMessage
<1>1. ASSUME NEW q \in Sends \cup Marks, NEW u \in Users, NEW s \in Students, OpenThread(q, u, s)
      PROVE  Copied'
  <2>1. /\ thread[q] = NoThread /\ message' = message /\ sent' = sent
        /\ thread' = [thread EXCEPT ![q] = [actor |-> u, student |-> s, admin |-> teacher[s]]]
    BY <1>1 DEF OpenThread
  <2>2. \A m \in Written : m # q /\ thread'[m] = thread[m]
    BY <2>1 DEF Copied, Written
  <2> QED BY <2>1, <2>2 DEF Copied, Written
<1>2. ASSUME NEW u \in Users, NEW s \in Students, NEW t \in Teachers \cup {None}, Reassign(u, s, t)
      PROVE  Copied'
  BY <1>2 DEF Reassign, Copied, Written
<1>3. ASSUME NEW q \in Sends, Send(q)
      PROVE  Copied'
  BY <1>3 DEF Send, Copied, Written
<1>4. ASSUME NEW q \in Sends, LoseSend(q)
      PROVE  Copied'
  BY <1>4 DEF LoseSend, Copied, Written
<1>5. ASSUME NEW q \in Marks, MarkRead(q)
      PROVE  Copied'
  <2>1. thread' = thread /\ sent \subseteq sent'
    BY <1>5 DEF MarkRead
  <2>2. ASSUME NEW m \in Written'
        PROVE  /\ m \in Written /\ message'[m].sender = message[m].sender
               /\ message'[m].student = message[m].student
               /\ message'[m].admin = message[m].admin
    <3>0. m \in Sends /\ message'[m] # NoMessage
      BY <2>2 DEF Written
    <3>1. message'[m] = message[m] \/ message'[m] = [message[m] EXCEPT !.read = TRUE]
      BY <1>5, <3>0 DEF MarkRead
    <3>2. message'[m] # message[m] => In(thread[q], m)
      BY <1>5, <3>0 DEF MarkRead
    <3>3. message[m] # NoMessage
      <4>1. thread[q].student # None
        BY <1>5, UserFacts DEF MarkRead
      <4>2. message[m] = NoMessage => message[m].student = None
        BY DEF NoMessage
      <4>3. message'[m] # message[m] => message[m].student = thread[q].student
        BY <3>2 DEF In
      <4> HIDE DEF NoMessage
      <4> QED BY <3>0, <4>1, <4>2, <4>3
    <3> QED BY <3>0, <3>1, <3>3 DEF Written
  <2> QED BY <2>1, <2>2 DEF Copied
<1> QED BY <1>1, <1>2, <1>3, <1>4, <1>5 DEF ThreadsNext

-----------------------------------------------------------------------------
(* Broadcasts *)

LEMMA DraftedStep ==
  ASSUME TypeOK, Drafted, Recorded, BroadcastsNext
  PROVE  Drafted' /\ Recorded'
<1> USE DEF TypeOK, BroadcastsTypeOK, NoDraft, NoBroadcast, Sent
<1>1. ASSUME NEW b \in Broadcasts, NEW u \in Users, NEW a \in Audiences, Address(b, u, a)
      PROVE  Drafted' /\ Recorded'
  <2>1. /\ draft[b] = NoDraft /\ broadcast' = broadcast
        /\ draft' = [draft EXCEPT ![b] = [sender |-> u, audience |-> a, reach |-> Audience(u, a)]]
    BY <1>1 DEF Address
  <2>2. Audience(u, a) \subseteq WithRole(RolesOf(a)) \cap Colleagues(u)
    <3>1. CASE RoleOf[u] = "owner"
      BY <3>1 DEF Audience
    <3>2. CASE RoleOf[u] # "owner"
      BY <1>1, <3>2 DEF Audience, Address, RolesOf, Audiences
    <3> QED BY <3>1, <3>2
  <2>3. a # "students" => Teachers \cap Colleagues(u) \subseteq Audience(u, a)
    <3>1. a # "students" => RoleOf[u] = "owner" /\ "admin" \in RolesOf(a)
      BY <1>1 DEF Address, RolesOf, Audiences
    <3> QED BY <3>1 DEF Audience
  <2>4. Drafted'
    BY <2>1, <2>2, <2>3 DEF Drafted
  <2>5. Recorded'
    BY <2>1 DEF Recorded
  <2> QED BY <2>4, <2>5
<1>2. ASSUME NEW b \in Broadcasts, Publish(b)
      PROVE  Drafted' /\ Recorded'
  <2>1. /\ draft' = draft /\ draft[b] # NoDraft
        /\ broadcast' = [broadcast EXCEPT ![b] = [sender |-> draft[b].sender,
              audience |-> draft[b].audience, count |-> Cardinality(draft[b].reach)]]
    BY <1>2 DEF Publish
  <2> QED BY <2>1 DEF Drafted, Recorded
<1>3. ASSUME NEW b \in Broadcasts, LoseBroadcast(b)
      PROVE  Drafted' /\ Recorded'
  <2>1. /\ broadcast[b] = NoBroadcast /\ broadcast' = broadcast
        /\ draft' = [draft EXCEPT ![b] = NoDraft]
    BY <1>3 DEF LoseBroadcast
  <2> QED BY <2>1 DEF Drafted, Recorded
<1> QED BY <1>1, <1>2, <1>3 DEF BroadcastsNext

-----------------------------------------------------------------------------
(* Notifications *)

\* Who was told of a broadcast is known from its notifications alone.
LEMMA ToldKept ==
  ASSUME \A n \in notes' \ notes : n.type # "broadcast", notes \subseteq notes'
  PROVE  \A b \in Broadcasts : Told(b, "broadcast")' = Told(b, "broadcast")
  BY DEF Told

\* Nothing is said of tasks, and nothing changes in them, in the other steps.
LEMMA TasksAnnounced ==
  ASSUME TypeOK, LockHeld, Announced, TasksNext, UNCHANGED <<threadsVars, broadcastsVars>>
  PROVE  Announced'
<1> USE DEF TypeOK, TasksTypeOK, threadsVars, broadcastsVars
<1>1. ASSUME NEW new, notes' = notes \cup new,
             \A n \in new : OrgOf[n.to] = OrgOf[n.from] /\
                \/ n.type = "task_assigned"
                \/ n.type = "task_completed" /\ n.by \in Patches /\ turn'[n.by] = "ok",
             \A p \in Patches : turn[p] = "ok" => turn'[p] = "ok"
      PROVE  Announced'
  <2>1. \A b \in Broadcasts : Told(b, "broadcast")' = Told(b, "broadcast")
    BY <1>1, ToldKept
  <2>2. Written' = Written /\ Sent' = Sent /\ draft' = draft
    BY DEF Written, Sent
  <2> QED BY <1>1, <2>1, <2>2 DEF Announced, Sent
<1>2. ASSUME NEW t \in Tasks, NEW u \in Users, NEW a \in Users \cup {None}, CreateTask(t, u, a)
      PROVE  Announced'
  <2> DEFINE new == Letters(t, u, "task_assigned", {a} \ {u, None})
  <2>1. notes' = notes \cup new /\ \A n \in new : OrgOf[n.to] = OrgOf[n.from]
    BY <1>2, TellAdds DEF CreateTask
  <2>2. \A n \in new : n.type = "task_assigned"
    BY DEF Letters
  <2>3. turn' = turn
    BY <1>2 DEF CreateTask
  <2> HIDE DEF new
  <2> QED BY <1>1, <2>1, <2>2, <2>3
<1>3. ASSUME NEW p \in Patches, UpdateTask(p)
      PROVE  Announced'
  <2> DEFINE new == Letters(p, patch[p].actor, "task_completed",
                            IF Completed(p) THEN {task[patch[p].task].creator} ELSE {})
  <2>1. notes' = notes \cup new /\ \A n \in new : OrgOf[n.to] = OrgOf[n.from]
    BY <1>3, TellAdds DEF UpdateTask
  <2>2. \A n \in new : n.type = "task_completed" /\ n.by = p
    BY DEF Letters
  <2>3. turn' = [turn EXCEPT ![p] = "ok"]
    BY <1>3 DEF UpdateTask
  <2> HIDE DEF new
  <2> QED BY <1>1, <2>1, <2>2, <2>3
<1>4. CASE \/ \E p \in Patches, u \in Users, t \in Tasks, st \in Statuses : LockTask(p, u, t, st)
           \/ \E p \in Patches : RefuseTask(p) \/ LoseTask(p)
  <2>1. notes' = notes /\ \A p \in Patches : turn[p] = "ok" => turn'[p] = "ok"
    BY <1>4 DEF LockTask, RefuseTask, LoseTask
  <2>2. Written' = Written /\ Sent' = Sent /\ draft' = draft
    BY DEF Written, Sent
  <2> QED BY <2>1, <2>2, ToldKept DEF Announced, Sent
<1> QED BY <1>2, <1>3, <1>4 DEF TasksNext

LEMMA ThreadsAnnounced ==
  ASSUME TypeOK, Announced, ThreadsNext, UNCHANGED <<tasksVars, broadcastsVars>>,
         \A q \in Written : q \in Written'
  PROVE  Announced'
<1> USE DEF tasksVars, broadcastsVars
<1>1. ASSUME NEW new, notes' = notes \cup new,
             \A n \in new : /\ OrgOf[n.to] = OrgOf[n.from]
                            /\ n.type = "message" /\ n.by \in Written'
      PROVE  Announced'
  <2>1. \A b \in Broadcasts : Told(b, "broadcast")' = Told(b, "broadcast")
    BY <1>1, ToldKept
  <2>2. Sent' = Sent /\ draft' = draft /\ turn' = turn
    BY DEF Sent
  <2> QED BY <1>1, <2>1, <2>2 DEF Announced, Sent
<1>2. ASSUME NEW q \in Sends, Send(q)
      PROVE  Announced'
  <2> DEFINE new == Letters(q, thread[q].actor, "message",
                            Recipients(thread[q].actor, thread[q].student))
  <2>1. notes' = notes \cup new /\ \A n \in new : OrgOf[n.to] = OrgOf[n.from]
    BY <1>2, TellAdds DEF Send
  <2>2. \A n \in new : n.type = "message" /\ n.by = q
    BY DEF Letters
  <2>3. thread[q].actor \in Users
    BY <1>2 DEF Send, TypeOK, ThreadsTypeOK
  <2>4. q \in Written'
    BY <1>2, <2>3, UserFacts DEF Send, Written, NoMessage, TypeOK, ThreadsTypeOK
  <2> HIDE DEF new
  <2> QED BY <1>1, <2>1, <2>2, <2>4
<1>3. CASE \/ \E q \in Sends \cup Marks, u \in Users, s \in Students : OpenThread(q, u, s)
           \/ \E u \in Users, s \in Students, t \in Teachers \cup {None} : Reassign(u, s, t)
           \/ \E q \in Sends : LoseSend(q)
           \/ \E q \in Marks : MarkRead(q)
  <2>1. notes' = notes
    BY <1>3 DEF OpenThread, Reassign, LoseSend, MarkRead
  <2>2. Sent' = Sent /\ draft' = draft /\ turn' = turn
    BY DEF Sent
  <2> QED BY <2>1, <2>2, ToldKept DEF Announced, Sent
<1> QED BY <1>2, <1>3 DEF ThreadsNext

\* No message is unwritten.
LEMMA WrittenStays ==
  ASSUME TypeOK, ThreadsNext
  PROVE  \A q \in Written : q \in Written'
<1> USE DEF TypeOK, ThreadsTypeOK
<1>1. ASSUME NEW q \in Sends, Send(q)
      PROVE  \A m \in Written : m \in Written'
  <2>1. thread[q].actor \in Users
    BY <1>1 DEF Send
  <2> QED BY <1>1, <2>1, UserFacts DEF Send, Written, NoMessage
<1>2. ASSUME NEW q \in Marks, MarkRead(q)
      PROVE  \A m \in Written : m \in Written'
  <2>1. ASSUME NEW m \in Written
        PROVE  m \in Written'
    <3>1. m \in Sends /\ message[m].sender \in Users
      BY <2>1 DEF Written
    <3>2. message'[m].sender = message[m].sender
      BY <1>2, <2>1, <3>1 DEF MarkRead, Written
    <3> QED BY <3>1, <3>2, UserFacts DEF Written, NoMessage
  <2> QED BY <2>1
<1>3. CASE \/ \E q \in Sends \cup Marks, u \in Users, s \in Students : OpenThread(q, u, s)
           \/ \E u \in Users, s \in Students, t \in Teachers \cup {None} : Reassign(u, s, t)
           \/ \E q \in Sends : LoseSend(q)
  <2>1. message' = message
    BY <1>3 DEF OpenThread, Reassign, LoseSend
  <2> QED BY <2>1 DEF Written
<1> QED BY <1>1, <1>2, <1>3 DEF ThreadsNext

LEMMA BroadcastsAnnounced ==
  ASSUME TypeOK, Recorded, Announced, BroadcastsNext, UNCHANGED <<tasksVars, threadsVars>>
  PROVE  Announced'
<1> USE DEF tasksVars, threadsVars, TypeOK, BroadcastsTypeOK
<1>1. Written' = Written /\ turn' = turn
  BY DEF Written
<1>2. ASSUME NEW b \in Broadcasts, NEW u \in Users, NEW a \in Audiences, Address(b, u, a)
      PROVE  Announced'
  <2>1. /\ notes' = notes /\ broadcast' = broadcast /\ draft[b] = NoDraft
        /\ \A c \in Broadcasts : c # b => draft'[c] = draft[c]
    BY <1>2 DEF Address
  <2>2. Sent' = Sent /\ b \notin Sent
    BY <2>1 DEF Sent, Recorded
  <2>3. \A c \in Broadcasts : Told(c, "broadcast")' = Told(c, "broadcast")
    BY <2>1 DEF Told
  <2> QED BY <1>1, <2>1, <2>2, <2>3 DEF Announced, Sent
<1>3. ASSUME NEW b \in Broadcasts, LoseBroadcast(b)
      PROVE  Announced'
  <2>1. /\ notes' = notes /\ broadcast' = broadcast /\ broadcast[b] = NoBroadcast
        /\ \A c \in Broadcasts : c # b => draft'[c] = draft[c]
    BY <1>3 DEF LoseBroadcast
  <2>2. Sent' = Sent /\ b \notin Sent
    BY <2>1 DEF Sent
  <2>3. \A c \in Broadcasts : Told(c, "broadcast")' = Told(c, "broadcast")
    BY <2>1 DEF Told
  <2> QED BY <1>1, <2>1, <2>2, <2>3 DEF Announced, Sent
<1>4. ASSUME NEW b \in Broadcasts, Publish(b)
      PROVE  Announced'
  <2> DEFINE d == draft[b]
             first == Letters(b, d.sender, "broadcast", d.reach)
             copies == IF RoleOf[d.sender] = "owner" THEN {}
                       ELSE Letters(b, d.sender, "broadcast", Overseers(d.sender))
             new == first \cup copies
  <2>1. /\ notes' = notes \cup new /\ draft' = draft
        /\ \A n \in new : OrgOf[n.to] = OrgOf[n.from]
    BY <1>4, TellAdds DEF Publish
  <2>2. \A n \in first : n.by = b /\ n.type = "broadcast" /\ n.to \in d.reach
    BY LetterFields
  <2>3. \A n \in copies : n.by = b /\ n.type = "broadcast" /\ n.to \in CopiesOf(d.sender)
    BY LetterFields DEF CopiesOf
  <2>4. \A u \in d.reach \cup CopiesOf(d.sender) :
            [by |-> b, from |-> d.sender, to |-> u, type |-> "broadcast"] \in new
    BY DEF Letters, CopiesOf
  <2>5. d.sender \in Users /\ broadcast[b] = NoBroadcast
    BY <1>4 DEF Publish, NoDraft
  <2>6. broadcast' = [broadcast EXCEPT ![b] =
           [sender |-> d.sender, audience |-> d.audience, count |-> Cardinality(d.reach)]]
    BY <1>4 DEF Publish
  <2>7. Sent' = Sent \cup {b} /\ b \notin Sent
    BY <2>5, <2>6, UserFacts DEF Sent, NoBroadcast
  <2> HIDE DEF first, copies
  <2>8. Told(b, "broadcast")' = d.reach \cup CopiesOf(d.sender)
    <3>1. \A n \in notes : n.type = "broadcast" => n.by # b
      BY <2>7 DEF Announced
    <3>2. \A u \in Told(b, "broadcast")' : u \in d.reach \cup CopiesOf(d.sender)
      BY <2>1, <2>2, <2>3, <3>1 DEF Told
    <3>3. ASSUME NEW u \in d.reach \cup CopiesOf(d.sender)
          PROVE  u \in Told(b, "broadcast")'
      <4> DEFINE n == [by |-> b, from |-> d.sender, to |-> u, type |-> "broadcast"]
      <4>1. n \in notes'
        BY <2>1, <2>4, <3>3
      <4>2. n.by = b /\ n.type = "broadcast" /\ n.to = u
        OBVIOUS
      <4> HIDE DEF n
      <4> QED BY <4>1, <4>2 DEF Told
    <3> QED BY <3>2, <3>3
  <2>9. \A c \in Broadcasts : c # b => Told(c, "broadcast")' = Told(c, "broadcast")
    BY <2>1, <2>2, <2>3 DEF Told
  <2> QED BY <1>1, <2>1, <2>2, <2>3, <2>7, <2>8, <2>9 DEF Announced, Sent
<1> QED BY <1>2, <1>3, <1>4 DEF BroadcastsNext

-----------------------------------------------------------------------------
(* Who is told of a message *)

LEMMA SendTells ==
  ASSUME TypeOK, Fenced, Loaded, Copied, Announced, TellsTheReaders, NEW q \in Sends, Send(q)
  PROVE  TellsTheReaders'
<1> USE DEF TypeOK, ThreadsTypeOK
<1> DEFINE h == thread[q]
           new == Letters(q, h.actor, "message", Recipients(h.actor, h.student))
<1>1. /\ h \in [actor : Users, student : Students, admin : Teachers] /\ h # NoThread
      /\ q \notin sent /\ outdated' = outdated
      /\ message' = [message EXCEPT ![q] = [sender |-> h.actor, student |-> h.student,
                                            admin |-> h.admin, read |-> FALSE]]
  BY DEF Send
<1>2. notes' = notes \cup new
  BY TellAdds DEF Send
<1>3. \A n \in new : n.by = q /\ n.type = "message" /\ n.to \in Recipients(h.actor, h.student)
  BY LetterFields
<1>4. \A n \in notes : n.type = "message" => n.by # q
  BY <1>1 DEF Announced, Copied
<1>5. ASSUME q \notin outdated
      PROVE  Told(q, "message")' = {h.student, h.admin} \ {h.actor}
  <2>1. teacher[h.student] = h.admin /\ OrgOf[h.admin] = OrgOf[h.student] /\ h.admin # None
    BY <1>1, <1>5, UserFacts DEF Loaded
  <2>2. h.student \in Reach(h.actor)
    BY <1>1, <2>1 DEF Loaded, Reach
  <2>3. Recipients(h.actor, h.student) = {h.student, h.admin} \ {h.actor}
    BY <1>1, <2>1, <2>2, RecipientsAreSides
  <2>4. ASSUME NEW u \in Recipients(h.actor, h.student)
        PROVE  u \in Told(q, "message")'
    <3> DEFINE n == [by |-> q, from |-> h.actor, to |-> u, type |-> "message"]
    <3>1. n \in notes'
      BY <1>2, <2>4 DEF Letters
    <3>2. n.by = q /\ n.type = "message" /\ n.to = u
      OBVIOUS
    <3> HIDE DEF n
    <3> QED BY <3>1, <3>2 DEF Told
  <2> HIDE DEF new
  <2>5. \A u \in Told(q, "message")' : u \in Recipients(h.actor, h.student)
    BY <1>2, <1>3, <1>4 DEF Told
  <2> QED BY <2>3, <2>4, <2>5
<1> HIDE DEF new
<1>6. ASSUME NEW m \in Written', m # q
      PROVE  m \in Written /\ message'[m] = message[m] /\ Told(m, "message")' = Told(m, "message")
  <2>1. Told(m, "message")' = Told(m, "message")
    BY <1>2, <1>3, <1>6 DEF Told
  <2>2. m \in Sends /\ message'[m] # NoMessage
    BY <1>6 DEF Written
  <2> QED BY <1>1, <1>6, <2>1, <2>2 DEF Written
<1>7. ASSUME NEW m \in (Written \ outdated)'
      PROVE  Told(m, "message")' = {message'[m].student, message'[m].admin} \ {message'[m].sender}
  <2>1. CASE m = q
    BY <1>1, <1>5, <1>7, <2>1
  <2>2. CASE m # q
    BY <1>1, <1>6, <1>7, <2>2 DEF TellsTheReaders
  <2> QED BY <2>1, <2>2
<1> QED BY <1>7 DEF TellsTheReaders

\* The other steps write no message and tell of none.
LEMMA TellsKept ==
  ASSUME TypeOK, Copied, Copied', TellsTheReaders,
         Written' = Written, outdated \subseteq outdated',
         \A m \in Written : thread'[m] = thread[m],
         notes \subseteq notes', \A n \in notes' \ notes : n.type # "message"
  PROVE  TellsTheReaders'
<1> SUFFICES ASSUME NEW m \in (Written \ outdated)'
             PROVE  Told(m, "message")' =
                      {message'[m].student, message'[m].admin} \ {message'[m].sender}
  BY DEF TellsTheReaders
<1>1. m \in Written /\ m \notin outdated
  OBVIOUS
<1>2. Told(m, "message")' = Told(m, "message")
  BY DEF Told
<1>3. /\ message'[m].student = message[m].student /\ message'[m].admin = message[m].admin
      /\ message'[m].sender = message[m].sender
  BY <1>1 DEF Copied
<1> QED BY <1>1, <1>2, <1>3 DEF TellsTheReaders

LEMMA ThreadsTell ==
  ASSUME TypeOK, Fenced, Loaded, Copied, Copied', Announced, TellsTheReaders, ThreadsNext
  PROVE  TellsTheReaders'
<1> USE DEF TypeOK, ThreadsTypeOK
<1>1. ASSUME NEW q \in Sends \cup Marks, NEW u \in Users, NEW s \in Students, OpenThread(q, u, s)
      PROVE  TellsTheReaders'
  <2>1. /\ message' = message /\ notes' = notes /\ outdated' = outdated /\ thread[q] = NoThread
        /\ \A m \in Sends : m # q => thread'[m] = thread[m]
    BY <1>1 DEF OpenThread
  <2>2. Written' = Written /\ q \notin Written
    BY <2>1 DEF Written, Copied
  <2>3. \A m \in Written : thread'[m] = thread[m]
    BY <2>1, <2>2 DEF Written
  <2> QED BY <2>1, <2>2, <2>3, TellsKept
<1>2. CASE \/ \E u \in Users, s \in Students, t \in Teachers \cup {None} : Reassign(u, s, t)
           \/ \E q \in Sends : LoseSend(q)
  <2>1. message' = message /\ notes' = notes /\ outdated \subseteq outdated' /\ thread' = thread
    BY <1>2 DEF Reassign, LoseSend
  <2>2. Written' = Written
    BY <2>1 DEF Written
  <2> QED BY <2>1, <2>2, TellsKept
<1>3. ASSUME NEW q \in Marks, MarkRead(q)
      PROVE  TellsTheReaders'
  <2>1. notes' = notes /\ outdated' = outdated /\ thread' = thread
    BY <1>3 DEF MarkRead
  <2>2. \A m \in Written : m \in Written'
    BY WrittenStays, <1>3 DEF ThreadsNext
  <2>3. ASSUME NEW m \in Written'
        PROVE  m \in Written
    <3>1. m \in Sends /\ message'[m] # NoMessage
      BY <2>3 DEF Written
    <3>2. message'[m] # message[m] => message[m].student = thread[q].student
      BY <1>3, <3>1 DEF MarkRead, In
    <3>3. thread[q].student # None
      BY <1>3, UserFacts DEF MarkRead
    <3>4. message[m] = NoMessage => message[m].student = None
      BY DEF NoMessage
    <3> QED BY <3>1, <3>2, <3>3, <3>4 DEF Written
  <2> QED BY <2>1, <2>2, <2>3, TellsKept
<1> QED BY <1>1, <1>2, <1>3, SendTells DEF ThreadsNext

-----------------------------------------------------------------------------
(* All of it *)

LEMMA TasksSayNothing ==
  ASSUME TasksNext
  PROVE  /\ notes \subseteq notes' /\ teacher' = teacher
         /\ \A n \in notes' \ notes : n.type \in {"task_assigned", "task_completed"}
<1>1. ASSUME NEW t \in Tasks, NEW u \in Users, NEW a \in Users \cup {None}, CreateTask(t, u, a)
      PROVE  /\ notes \subseteq notes' /\ teacher' = teacher
             /\ \A n \in notes' \ notes : n.type \in {"task_assigned", "task_completed"}
  BY <1>1 DEF CreateTask, Tell, Letters
<1>2. ASSUME NEW p \in Patches, UpdateTask(p)
      PROVE  /\ notes \subseteq notes' /\ teacher' = teacher
             /\ \A n \in notes' \ notes : n.type \in {"task_assigned", "task_completed"}
  BY <1>2 DEF UpdateTask, Tell, Letters
<1> QED BY <1>1, <1>2 DEF TasksNext, LockTask, RefuseTask, LoseTask

LEMMA BroadcastsSayNothing ==
  ASSUME BroadcastsNext
  PROVE  /\ notes \subseteq notes' /\ teacher' = teacher
         /\ \A n \in notes' \ notes : n.type = "broadcast"
<1>1. ASSUME NEW b \in Broadcasts, Publish(b)
      PROVE  /\ notes \subseteq notes' /\ teacher' = teacher
             /\ \A n \in notes' \ notes : n.type = "broadcast"
  BY <1>1 DEF Publish, Tell, Letters
<1> QED BY <1>1 DEF BroadcastsNext, Address, LoseBroadcast

LEMMA Initially == Init => IInv
<1> SUFFICES ASSUME Init PROVE IInv
  OBVIOUS
<1>1. TypeOK
  BY InitType
<1>2. LockHeld /\ Given
  BY DEF Init, TasksInit, LockHeld, Given
<1>3. Fenced /\ Loaded /\ Copied /\ TellsTheReaders
  BY DEF Init, ThreadsInit, Fenced, Loaded, Copied, TellsTheReaders, Written
<1>4. Drafted /\ Recorded
  BY DEF Init, BroadcastsInit, Drafted, Recorded, Sent
<1>5. Announced
  BY DEF Init, BroadcastsInit, Announced, Sent
<1> QED BY <1>1, <1>2, <1>3, <1>4, <1>5 DEF IInv

LEMMA Inductive == IInv /\ [Next]_vars => IInv'
<1> SUFFICES ASSUME IInv, [Next]_vars PROVE IInv'
  OBVIOUS
<1> USE DEF IInv
<1>0. TypeOK'
  BY NextType
<1>1. CASE TasksNext /\ UNCHANGED <<threadsVars, broadcastsVars>>
  <2>1. LockHeld' /\ Given'
    BY <1>1, LockStep
  <2>2. Announced'
    BY <1>1, TasksAnnounced
  <2>3. notes \subseteq notes' /\ teacher' = teacher /\ \A n \in notes' \ notes : n.type # "message"
    BY <1>1, TasksSayNothing
  <2>4. Fenced' /\ Loaded' /\ Copied'
    BY <1>1, <2>3 DEF threadsVars, Fenced, Loaded, Copied, Written
  <2>5. Drafted' /\ Recorded'
    BY <1>1 DEF broadcastsVars, Drafted, Recorded, Sent
  <2>6. Written' = Written /\ outdated' = outdated /\ thread' = thread
    BY <1>1 DEF threadsVars, Written
  <2>7. TellsTheReaders'
    BY <2>3, <2>4, <2>6, TellsKept
  <2> QED BY <1>0, <2>1, <2>2, <2>4, <2>5, <2>7
<1>2. CASE ThreadsNext /\ UNCHANGED <<tasksVars, broadcastsVars>>
  <2>1. LockHeld' /\ Given'
    BY <1>2 DEF tasksVars, LockHeld, Given, Holds
  <2>2. Fenced' /\ Loaded' /\ Copied'
    BY <1>2, LoadedStep, CopiedStep
  <2>3. Drafted' /\ Recorded'
    BY <1>2 DEF broadcastsVars, Drafted, Recorded, Sent
  <2>4. Announced'
    BY <1>2, WrittenStays, ThreadsAnnounced
  <2>5. TellsTheReaders'
    BY <1>2, <2>2, ThreadsTell
  <2> QED BY <1>0, <2>1, <2>2, <2>3, <2>4, <2>5
<1>3. CASE BroadcastsNext /\ UNCHANGED <<tasksVars, threadsVars>>
  <2>1. LockHeld' /\ Given'
    BY <1>3 DEF tasksVars, LockHeld, Given, Holds
  <2>2. notes \subseteq notes' /\ teacher' = teacher /\ \A n \in notes' \ notes : n.type # "message"
    BY <1>3, BroadcastsSayNothing
  <2>3. Fenced' /\ Loaded' /\ Copied'
    BY <1>3, <2>2 DEF threadsVars, Fenced, Loaded, Copied, Written
  <2>4. Drafted' /\ Recorded'
    BY <1>3, DraftedStep
  <2>5. Announced'
    BY <1>3, BroadcastsAnnounced
  <2>6. Written' = Written /\ outdated' = outdated /\ thread' = thread
    BY <1>3 DEF threadsVars, Written
  <2>7. TellsTheReaders'
    BY <2>2, <2>3, <2>6, TellsKept
  <2> QED BY <1>0, <2>1, <2>3, <2>4, <2>5, <2>7
<1>4. CASE (FeedNext /\ UNCHANGED <<tasksVars, threadsVars, broadcastsVars>>) \/ UNCHANGED vars
  <2>1. /\ notes' = notes /\ teacher' = teacher
        /\ UNCHANGED <<tasksVars, threadsVars, broadcastsVars>>
    BY <1>4, FeedKeeps DEF TypeOK, vars, tasksVars, threadsVars, broadcastsVars
  <2>2. LockHeld' /\ Given' /\ Fenced' /\ Loaded' /\ Copied' /\ Drafted' /\ Recorded'
    BY <2>1 DEF tasksVars, threadsVars, broadcastsVars, LockHeld, Given, Holds, Fenced, Loaded,
       Copied, Drafted, Recorded, Sent, Written
  <2>3. Announced' /\ TellsTheReaders'
    BY <2>1 DEF tasksVars, threadsVars, broadcastsVars, Announced, TellsTheReaders, Told, Sent, Written
  <2> QED BY <1>0, <2>2, <2>3
<1> QED BY <1>1, <1>2, <1>3, <1>4 DEF Next

\* All of IInv holds in every reachable state.
LEMMA Invariance == Spec => []IInv
  BY Initially, Inductive, PTL DEF Spec

-----------------------------------------------------------------------------
(* The theorems *)

\* Every table and every request keeps its type.
THEOREM TypeCorrect == Spec => []TypeOK
<1>1. IInv => TypeOK
  BY DEF IInv
<1> QED BY <1>1, Invariance, PTL

\* Nothing joins people of two organizations.
THEOREM NothingCrosses == Spec => []StaysInOrganization
<1>1. IInv => StaysInOrganization
  <2> SUFFICES ASSUME IInv PROVE StaysInOrganization
    OBVIOUS
  <2>1. \A m \in Written : /\ OrgOf[message[m].student] = OrgOf[message[m].sender]
                           /\ OrgOf[message[m].admin] = OrgOf[message[m].sender]
    BY DEF IInv, Copied, Loaded, Written
  <2> QED BY <2>1 DEF IInv, Announced, Given, StaysInOrganization
<1> QED BY <1>1, Invariance, PTL

\* Both sides of a thread, and nobody else, hear of a message.
THEOREM BothSidesHear == Spec => []TellsTheReaders
<1>1. IInv => TellsTheReaders
  BY DEF IInv
<1> QED BY <1>1, Invariance, PTL

\* A badge can be cleared, if its thread is still one.
THEOREM BadgesCanBeCleared == Spec => []UnreadCanBeOpened
<1>1. IInv => UnreadCanBeOpened
  <2> SUFFICES ASSUME IInv, NEW u \in Users, NEW m \in UnreadFor(u),
                      teacher[message[m].student] = message[m].admin
               PROVE  message[m].student \in Reach(u)
    BY DEF UnreadCanBeOpened
  <2>1. message[m].student \in Students /\ Scope(u, m)
    BY DEF UnreadFor, Written, IInv, TypeOK, ThreadsTypeOK
  <2> QED BY <2>1, UserFacts DEF Scope, Reach
<1> QED BY <1>1, Invariance, PTL

\* The record of a broadcast counts and names those of its audience who were
\* told, and every other row is an overseer's copy.
THEOREM RecordsAreHonest == Spec => []RecordOfReach
<1>1. IInv => RecordOfReach
  <2> SUFFICES ASSUME IInv, NEW b \in Sent
               PROVE  LET u == broadcast[b].sender
                          addressed == WithRole(RolesOf(broadcast[b].audience)) \cap Colleagues(u)
                          told == Told(b, "broadcast")
                      IN  /\ broadcast[b].count = Cardinality(told \cap addressed)
                          /\ broadcast[b].audience # "students" =>
                                Teachers \cap Colleagues(u) \subseteq told
                          /\ told \ addressed = CopiesOf(u)
    BY DEF RecordOfReach, CopiesOf
  <2> DEFINE u == broadcast[b].sender
             reach == draft[b].reach
             addressed == WithRole(RolesOf(broadcast[b].audience)) \cap Colleagues(u)
  <2>1. /\ Told(b, "broadcast") = reach \cup CopiesOf(u)
        /\ draft[b] # NoDraft /\ draft[b].audience = broadcast[b].audience
        /\ draft[b].sender = u /\ broadcast[b].count = Cardinality(reach)
    BY DEF IInv, Announced, Recorded
  <2>2. /\ broadcast[b].audience \in Audiences /\ reach \subseteq addressed
        /\ broadcast[b].audience # "students" => Teachers \cap Colleagues(u) \subseteq reach
    BY <2>1 DEF IInv, Drafted, Sent
  <2>3. \A v \in CopiesOf(u) : v \notin addressed
    <3>1. \A v \in CopiesOf(u) : RoleOf[v] \in {"owner", "manager"}
      BY DEF CopiesOf, Overseers
    <3>2. RolesOf(broadcast[b].audience) \subseteq {"admin", "student"}
      BY <2>2 DEF RolesOf
    <3> QED BY <3>1, <3>2
  <2>4. (reach \cup CopiesOf(u)) \cap addressed = reach
    BY <2>2, <2>3
  <2>5. (reach \cup CopiesOf(u)) \ addressed = CopiesOf(u)
    BY <2>2, <2>3
  <2> QED BY <2>1, <2>2, <2>4, <2>5
<1> QED BY <1>1, Invariance, PTL

\* The maker of a task hears once of each completion by the one it was given to.
THEOREM EachCompletionIsTold == Spec => CompletionTold
<1>1. ASSUME IInv, [Next]_vars, NEW p \in Patches, NEW t \in Tasks, Holds(p, t)
      PROVE  FinishedBy(p, t) <=>
             \E n \in notes' \ notes : n.by = p /\ n.type = "task_completed"
                                       /\ n.to = task[t].creator
  <2> DEFINE said == \E n \in notes' \ notes : n.by = p /\ n.type = "task_completed"
                                               /\ n.to = task[t].creator
  <2>0. turn[p] = "locked" /\ patch[p].task = t /\ patch[p].before = task[t].status
        /\ task[t] # NoTask /\ patch[p] # NoPatch
    BY <1>1 DEF Holds, IInv, LockHeld
  <2>1. CASE UpdateTask(p)
    <3> DEFINE new == Letters(p, patch[p].actor, "task_completed",
                              IF Completed(p) THEN {task[t].creator} ELSE {})
    <3>1. notes' = notes \cup new /\ turn'[p] = "ok" /\ task'[t].status = patch[p].status
      BY <1>1, <2>0, <2>1 DEF UpdateTask, Tell, IInv, TypeOK, TasksTypeOK
    <3>2. \A n \in notes : n.type = "task_completed" => n.by # p
      BY <1>1, <2>0 DEF IInv, Announced
    <3>3. task[t].status \in {"pending", "done"} /\ patch[p].status \in {"pending", "done"}
      BY <1>1, <2>0 DEF IInv, TypeOK, TasksTypeOK, Statuses
    <3>4. FinishedBy(p, t) <=> Completed(p)
      BY <1>1, <2>0, <3>1, <3>3 DEF FinishedBy, Completed
    <3>5. ASSUME Completed(p)
          PROVE  said
      <4> DEFINE n == [by |-> p, from |-> patch[p].actor, to |-> task[t].creator,
                       type |-> "task_completed"]
      <4>1. n \in new /\ n.by = p /\ n.type = "task_completed" /\ n.to = task[t].creator
        BY <3>5 DEF Letters
      <4> HIDE DEF n, new
      <4> QED BY <3>1, <3>2, <4>1
    <3>6. ASSUME ~Completed(p)
          PROVE  ~said
      BY <3>1, <3>6 DEF Letters
    <3> QED BY <3>4, <3>5, <3>6
  <2>2. ASSUME ~UpdateTask(p)
        PROVE  ~FinishedBy(p, t) /\ ~said
    <3>1. turn'[p] # "ok"
      BY <1>1, <2>0, <2>2 DEF IInv, TypeOK, TasksTypeOK, Next, TasksNext, CreateTask, LockTask,
         UpdateTask, RefuseTask, LoseTask, tasksVars, vars
    <3>2. \A n \in notes' \ notes : n.type = "task_completed" => n.by # p
      <4>1. CASE TasksNext
        <5>1. ASSUME NEW s \in Tasks, NEW u \in Users, NEW a \in Users \cup {None},
                     CreateTask(s, u, a)
              PROVE  \A n \in notes' \ notes : n.type # "task_completed"
          BY <5>1 DEF CreateTask, Tell, Letters
        <5>2. ASSUME NEW o \in Patches, UpdateTask(o)
              PROVE  \A n \in notes' \ notes : n.by = o
          BY <5>2 DEF UpdateTask, Tell, Letters
        <5> QED BY <2>2, <4>1, <5>1, <5>2 DEF TasksNext, LockTask, RefuseTask, LoseTask
      <4>2. CASE BroadcastsNext
        BY <4>2, BroadcastsSayNothing
      <4>3. CASE ThreadsNext
        <5>1. ASSUME NEW q \in Sends, Send(q)
              PROVE  \A n \in notes' \ notes : n.type = "message"
          BY <5>1 DEF Send, Tell, Letters
        <5> QED BY <4>3, <5>1 DEF ThreadsNext, OpenThread, Reassign, LoseSend, MarkRead
      <4>4. CASE FeedNext \/ UNCHANGED vars
        BY <4>4 DEF FeedNext, ReadAll, ReadOne, vars
      <4> QED BY <1>1, <4>1, <4>2, <4>3, <4>4 DEF Next
    <3> QED BY <3>1, <3>2 DEF FinishedBy
  <2> QED BY <2>1, <2>2
<1> DEFINE A == \A p \in Patches, t \in Tasks : Holds(p, t) =>
                  (FinishedBy(p, t) <=>
                     \E n \in notes' \ notes : n.by = p /\ n.type = "task_completed"
                                               /\ n.to = task[t].creator)
<1>2. IInv /\ [Next]_vars => [A]_<<task, patch, turn, notes>>
  BY <1>1
<1> QED BY <1>2, Invariance, PTL DEF Spec, CompletionTold

\* Nobody marks the messages of a thread that is not theirs.
THEOREM ReadersMark == Spec => MarkedByItsReader
<1>1. ASSUME IInv, [Next]_vars, NEW m \in Sends, message'[m].read # message[m].read
      PROVE  \E q \in Marks :
                /\ q \in sent' \ sent
                /\ thread[q].actor # message[m].sender
                /\ \/ thread[q].actor \in {message[m].student, message[m].admin}
                   \/ RoleOf[thread[q].actor] = "owner"
  <2> USE DEF IInv, TypeOK, ThreadsTypeOK
  <2>1. ASSUME NEW q \in Sends, Send(q)
        PROVE  FALSE
    <3>1. message[m].read = FALSE \/ m # q
      <4>1. m = q => message[m] = NoMessage
        BY <1>1, <2>1 DEF Copied, Send, Written
      <4> QED BY <4>1 DEF NoMessage
    <3>2. message' = [message EXCEPT ![q] = [sender |-> thread[q].actor,
             student |-> thread[q].student, admin |-> thread[q].admin, read |-> FALSE]]
      BY <2>1 DEF Send
    <3> QED BY <1>1, <3>1, <3>2
  <2>2. ASSUME NEW q \in Marks, MarkRead(q)
        PROVE  /\ q \in sent' \ sent
               /\ thread[q].actor # message[m].sender
               /\ \/ thread[q].actor \in {message[m].student, message[m].admin}
                  \/ RoleOf[thread[q].actor] = "owner"
    <3>1. In(thread[q], m) /\ message[m].sender # thread[q].actor
      BY <1>1, <2>2 DEF MarkRead
    <3>2. thread[q] # NoThread /\ q \in sent' \ sent
      BY <2>2 DEF MarkRead
    <3> QED BY <1>1, <3>1, <3>2 DEF Loaded, In
  <2>3. CASE ThreadsNext
    <3>1. message' # message
      BY <1>1
    <3> QED BY <2>1, <2>2, <2>3, <3>1 DEF ThreadsNext, OpenThread, Reassign, LoseSend
  <2>4. CASE UNCHANGED threadsVars
    BY <1>1, <2>4 DEF threadsVars
  <2> QED BY <1>1, <2>3, <2>4 DEF Next, vars, threadsVars
<1> DEFINE A == \A m \in Sends : message'[m].read # message[m].read =>
                  \E q \in Marks :
                      /\ q \in sent' \ sent
                      /\ thread[q].actor # message[m].sender
                      /\ \/ thread[q].actor \in {message[m].student, message[m].admin}
                         \/ RoleOf[thread[q].actor] = "owner"
<1>2. IInv /\ [Next]_vars => [A]_<<message, thread, sent>>
  BY <1>1
<1> QED BY <1>2, Invariance, PTL DEF Spec, MarkedByItsReader

-----------------------------------------------------------------------------
(* Messaging implements Correspondence.                                    *)
(* The side conditions of an abstract step are parts of IInv: who entered a *)
(* thread was its student, its teacher or an owner (Loaded), a message is   *)
(* in the thread that was entered (Copied), and no notice is of a message   *)
(* that is still to be written (Announced).                                 *)

\* Whatever has become of the roster since the thread was entered.
LEMMA RecipientsByThen ==
  ASSUME TypeOK, Fenced, NEW u \in Users, NEW s \in Students,
         RoleOf[u] = "student" => u = s
  PROVE  Recipients(u, s) = {s, teacher[s]} \ {u, None}
<1>1. teacher[s] \in Teachers \cup {None} /\ s # None
  BY UserFacts DEF TypeOK
<1>2. CASE RoleOf[u] = "student"
  <2>1. u = s /\ u # None
    BY <1>2, UserFacts
  <2>2. teacher[s] # None => teacher[s] \in Colleagues(s)
    BY <1>1 DEF Fenced
  <2>3. teacher[s] = None => teacher[s] \notin Colleagues(s)
    BY UserFacts
  <2> QED BY <1>2, <2>1, <2>2, <2>3 DEF Recipients, Counterparty
<1>3. CASE RoleOf[u] # "student"
  BY <1>1, <1>3 DEF Recipients, Counterparty
<1> QED BY <1>2, <1>3

\* What the letters are to Correspondence is in the messages alone.
Letter(m) == [id |-> m, sender |-> message[m].sender, student |-> message[m].student,
              admin |-> message[m].admin]

LEMMA PostedLetters == Posted = {Letter(m) : m \in Written}
  BY DEF Posted, Letter

LEMMA LetterParts ==
  ASSUME NEW m
  PROVE  /\ Letter(m).id = m /\ Letter(m).sender = message[m].sender
         /\ Letter(m).student = message[m].student /\ Letter(m).admin = message[m].admin
  BY DEF Letter

Seen == {m \in Written : message[m].read}

\* A step that leaves all of these alone is none to Correspondence.
LEMMA NothingSaid ==
  ASSUME teacher' = teacher, thread' = thread, message' = message,
         \A n \in notes' \ notes : n.type # "message", notes \subseteq notes'
  PROVE  UNCHANGED C!correspondenceVars
<1>1. Doors' = Doors /\ Posted' = Posted /\ Seen' = Seen
  BY DEF Doors, Posted, Seen, Written
<1>2. Notices' = Notices
  <2> DEFINE of(S) == {m \in S : m.type = "message"}
  <2>1. of(notes') = of(notes)
    OBVIOUS
  <2>2. Notices' = {[about |-> n.by, to |-> n.to] : n \in of(notes')}
        /\ Notices = {[about |-> n.by, to |-> n.to] : n \in of(notes)}
    BY DEF Notices
  <2> QED BY <2>1, <2>2
<1> QED BY <1>1, <1>2 DEF C!correspondenceVars, Seen

\* GET, POST and PATCH all begin by entering a thread.
LEMMA EnterRefines ==
  ASSUME IInv, NEW q \in Sends \cup Marks, NEW u \in Users, NEW s \in Students, OpenThread(q, u, s)
  PROVE  \E d \in Doors' : C!Enter(d)
<1> USE DEF IInv, TypeOK, ThreadsTypeOK
<1> DEFINE d == [actor |-> u, student |-> s, admin |-> teacher[s]]
<1>1. /\ thread[q] = NoThread /\ thread' = [thread EXCEPT ![q] = d] /\ d.admin # None
      /\ s \in Reach(u) /\ UNCHANGED <<teacher, notes, message>>
  BY DEF OpenThread
<1>2. d.actor = u /\ d.student = s /\ d.admin = teacher[s]
  OBVIOUS
<1>3. d # NoThread
  BY <1>2, UserFacts DEF NoThread
<1> HIDE DEF d
<1>4. Doors' = Doors \cup {d} /\ d \in Doors'
  BY <1>1, <1>3 DEF Doors
<1>5. Posted' = Posted /\ Seen' = Seen /\ Notices' = Notices
  BY <1>1 DEF Posted, Seen, Notices, Written
<1>6. \/ u \in {s, teacher[s]}
      \/ u \in C!Fellows(s) /\ RoleOf[u] = "owner"
  BY <1>1 DEF Reach, C!Fellows
<1>7. C!Enter(d)
  BY <1>1, <1>2, <1>4, <1>5, <1>6 DEF C!Enter, C!Students, Seen
<1> QED BY <1>4, <1>7

\* The message, and the notices to those who are by then its readers.
LEMMA WriteRefines ==
  ASSUME IInv, NEW q \in Sends, Send(q)
  PROVE  \E l \in Posted' : C!Write(l)
<1> USE DEF IInv, TypeOK, ThreadsTypeOK
<1> DEFINE h == thread[q]
           told == Recipients(h.actor, h.student)
           new == Letters(q, h.actor, "message", told)
           l == Letter(q)'
<1>1. /\ h \in [actor : Users, student : Students, admin : Teachers] /\ h # NoThread
      /\ q \notin sent /\ UNCHANGED <<teacher, thread>>
      /\ message' = [message EXCEPT ![q] = [sender |-> h.actor, student |-> h.student,
                                            admin |-> h.admin, read |-> FALSE]]
  BY DEF Send
<1>2. q \notin Written /\ q \notin Seen
  BY <1>1 DEF Copied, Seen
<1>3. message'[q] # NoMessage /\ message'[q].read = FALSE
  BY <1>1, UserFacts DEF NoMessage
<1>4. \A m \in Sends : m # q => message'[m] = message[m]
  BY <1>1
<1>5. Written' = Written \cup {q}
  BY <1>3, <1>4 DEF Written
<1>6. l.id = q /\ l.sender = h.actor /\ l.student = h.student /\ l.admin = h.admin
  BY <1>1 DEF Letter
<1>7. \A m \in Written : Letter(m)' = Letter(m)
  BY <1>2, <1>4 DEF Letter, Written
<1> HIDE DEF l
<1>8. Posted' = Posted \cup {l} /\ l \in Posted'
  <2>1. Posted' = {Letter(m)' : m \in Written'}
    BY DEF Posted, Letter
  <2> QED BY <1>5, <1>7, <2>1, PostedLetters DEF l
<1>9. \A k \in Posted : k.id # q
  BY <1>2, PostedLetters, LetterParts
<1>10. Seen' = Seen
  BY <1>2, <1>3, <1>4, <1>5 DEF Seen, Written
<1>11. Doors' = Doors /\ [actor |-> h.actor, student |-> h.student, admin |-> h.admin] \in Doors
  <2>1. h \in Doors
    BY <1>1 DEF Doors
  <2>2. h = [actor |-> h.actor, student |-> h.student, admin |-> h.admin]
    BY <1>1
  <2> HIDE DEF h
  <2> QED BY <1>1, <2>1, <2>2 DEF Doors
<1>12. told = {h.student, teacher[h.student]} \ {h.actor, None}
  <2>1. RoleOf[h.actor] = "student" => h.actor = h.student
    BY <1>1 DEF Loaded
  <2> QED BY <1>1, <2>1, RecipientsByThen
<1>13. notes' = notes \cup new
  BY TellAdds DEF Send
<1>14. Notices' = Notices \cup {[about |-> q, to |-> u] : u \in told}
  <2>1. \A n \in new : n.by = q /\ n.type = "message" /\ n.to \in told
    BY LetterFields
  <2>2. ASSUME NEW u \in told
        PROVE  [about |-> q, to |-> u] \in Notices'
    <3> DEFINE n == [by |-> q, from |-> h.actor, to |-> u, type |-> "message"]
    <3>1. n \in notes'
      BY <1>13, <2>2 DEF Letters
    <3>2. n.by = q /\ n.type = "message" /\ n.to = u
      OBVIOUS
    <3> HIDE DEF n
    <3> QED BY <3>1, <3>2 DEF Notices
  <2> HIDE DEF new, told
  <2>3. Notices \subseteq Notices'
    BY <1>13 DEF Notices
  <2>4. Notices' \subseteq Notices \cup {[about |-> q, to |-> u] : u \in told}
    BY <1>13, <2>1 DEF Notices
  <2> QED BY <2>2, <2>3, <2>4
<1> HIDE DEF told, new
<1>15. C!Write(l)
  BY <1>1, <1>6, <1>8, <1>9, <1>10, <1>11, <1>12, <1>14 DEF C!Write, Seen
<1> QED BY <1>8, <1>15

\* What others wrote in the thread, and nothing else, is marked as read.
LEMMA ReadRefines ==
  ASSUME IInv, NEW q \in Marks, MarkRead(q)
  PROVE  \E d \in Doors : C!Read(d)
<1> USE DEF IInv, TypeOK, ThreadsTypeOK
<1> DEFINE h == thread[q]
           Theirs(m) == In(h, m) /\ message[m].sender # h.actor
<1>1. /\ h \in [actor : Users, student : Students, admin : Teachers] /\ h # NoThread
      /\ UNCHANGED <<teacher, thread, notes>>
  BY DEF MarkRead
<1>2. h \in Doors /\ Doors' = Doors /\ Notices' = Notices
  BY <1>1 DEF Doors, Notices
<1>3. \A m \in Sends : message'[m] = IF Theirs(m) THEN [message[m] EXCEPT !.read = TRUE]
                                     ELSE message[m]
  BY DEF MarkRead
<1>4. \A m \in Sends : Theirs(m) => m \in Written
  BY <1>1, UserFacts DEF In, Written, NoMessage
<1>5. Written' = Written
  <2>1. Written \subseteq Written'
    BY WrittenStays DEF ThreadsNext
  <2>2. Written' \subseteq Written
    BY <1>3, <1>4 DEF Written
  <2> QED BY <2>1, <2>2
<1>6. ASSUME NEW m \in Written
      PROVE  /\ message'[m].sender = message[m].sender
             /\ message'[m].student = message[m].student
             /\ message'[m].admin = message[m].admin
             /\ message'[m].read <=> message[m].read \/ Theirs(m)
  <2>1. message[m] \in [sender : Users, student : Students, admin : Teachers, read : BOOLEAN]
        /\ m \in Sends
    BY DEF Written
  <2> QED BY <1>3, <2>1
<1>7. \A m \in Written : Letter(m)' = Letter(m)
  BY <1>6 DEF Letter
<1>8. Posted' = Posted
  <2>1. Posted' = {Letter(m)' : m \in Written'}
    BY DEF Posted, Letter
  <2> QED BY <1>5, <1>7, <2>1, PostedLetters
<1>9. {l.id : l \in {k \in Posted :
             k.student = h.student /\ k.admin = h.admin /\ k.sender # h.actor}}
        = {m \in Written : Theirs(m)}
  BY PostedLetters, LetterParts DEF In
<1>10. Seen' = Seen \cup {m \in Written : Theirs(m)}
  BY <1>5, <1>6 DEF Seen
<1> HIDE DEF h
<1>11. C!Read(h)
  BY <1>1, <1>2, <1>8, <1>9, <1>10 DEF C!Read, Seen
<1> QED BY <1>2, <1>11 DEF C!Read

\* Nothing but the roster changes when a student is given another teacher.
LEMMA MoveRefines ==
  ASSUME IInv, NEW u \in Users, NEW s \in Students, NEW t \in Teachers \cup {None},
         Reassign(u, s, t)
  PROVE  \E v \in C!Students : \E w \in C!TeachersOf(v) : C!Move(v, w)
<1>1. s \in C!Students
  BY DEF C!Students
<1>2. t \in C!TeachersOf(s)
  BY DEF Reassign, Reach, C!TeachersOf, C!Fellows
<1>3. Doors' = Doors /\ Posted' = Posted /\ Seen' = Seen /\ Notices' = Notices
  BY DEF Reassign, Doors, Posted, Seen, Notices, Written
<1>4. C!Move(s, t)
  BY <1>3 DEF Reassign, C!Move, Seen
<1> QED BY <1>1, <1>2, <1>4

LEMMA CorrespondenceInitRefines == Init => C!CorrespondenceInit
<1> SUFFICES ASSUME Init PROVE C!CorrespondenceInit
  OBVIOUS
<1>1. Written = {} /\ Doors = {} /\ Posted = {} /\ Notices = {}
  BY DEF Init, ThreadsInit, Written, Doors, Posted, Notices
<1>2. teacher \in [C!Students -> Users \cup {None}]
      /\ \A s \in C!Students : teacher[s] \in C!TeachersOf(s)
  BY DEF Init, C!Students, C!TeachersOf, C!Fellows
<1> QED BY <1>1, <1>2 DEF C!CorrespondenceInit

LEMMA CorrespondenceStepRefines ==
  ASSUME IInv, [Next]_vars
  PROVE  [C!CorrespondenceNext]_(C!correspondenceVars)
<1>1. CASE TasksNext /\ UNCHANGED <<threadsVars, broadcastsVars>>
  <2>1. notes \subseteq notes' /\ teacher' = teacher /\ \A n \in notes' \ notes : n.type # "message"
    BY <1>1, TasksSayNothing
  <2> QED BY <1>1, <2>1, NothingSaid DEF threadsVars
<1>2. CASE BroadcastsNext /\ UNCHANGED <<tasksVars, threadsVars>>
  <2>1. notes \subseteq notes' /\ teacher' = teacher /\ \A n \in notes' \ notes : n.type # "message"
    BY <1>2, BroadcastsSayNothing
  <2> QED BY <1>2, <2>1, NothingSaid DEF threadsVars
<1>3. CASE (FeedNext /\ UNCHANGED <<tasksVars, threadsVars, broadcastsVars>>) \/ UNCHANGED vars
  <2>1. notes' = notes /\ teacher' = teacher /\ thread' = thread /\ message' = message
    BY <1>3, FeedKeeps DEF IInv, TypeOK, vars, threadsVars
  <2> QED BY <2>1, NothingSaid
<1>4. CASE ThreadsNext /\ UNCHANGED <<tasksVars, broadcastsVars>>
  <2>1. ASSUME NEW q \in Sends, LoseSend(q)
        PROVE  UNCHANGED C!correspondenceVars
    BY <2>1, NothingSaid DEF LoseSend
  <2>2. \/ C!CorrespondenceNext
        \/ \E q \in Sends : LoseSend(q)
    BY <1>4, EnterRefines, WriteRefines, ReadRefines, MoveRefines
       DEF ThreadsNext, C!CorrespondenceNext
  <2> QED BY <2>1, <2>2
<1> QED BY <1>1, <1>2, <1>3, <1>4 DEF Next

\* The message routes are the letters of Correspondence, for any people in any
\* organizations and any number of requests.
THEOREM CorrespondenceImplemented == Spec => ImplementsCorrespondence
<1>1. Init => C!CorrespondenceInit
  BY CorrespondenceInitRefines
<1>2. IInv /\ [Next]_vars => [C!CorrespondenceNext]_(C!correspondenceVars)
  BY CorrespondenceStepRefines
<1> QED
  BY <1>1, <1>2, Invariance, PTL DEF Spec, ImplementsCorrespondence, C!CorrespondenceSpec

=============================================================================
