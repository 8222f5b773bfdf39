-------------------------------- MODULE Tasks --------------------------------
(***************************************************************************)
(* Tasks (tasks.route.js): made by an owner or a teacher for somebody of    *)
(* the organization, done and reopened by the two, and reported to the one  *)
(* who made them.  A PATCH is two steps: SELECT ... FOR UPDATE, then the    *)
(* UPDATE with the notification; the row's lock is its phase.               *)
(***************************************************************************)
EXTENDS Feed

CONSTANTS Tasks,     \* POST /tasks requests, each with the row it inserts
          Patches    \* PATCH /tasks/:id requests

VARIABLES task,      \* the tasks table
          patch,     \* what a PATCH asks for, and what it read
          turn       \* how far it is

tasksVars == <<task, patch, turn>>

NoTask == [creator |-> None, assignee |-> None, status |-> "none"]
NoPatch == [actor |-> None, task |-> None, status |-> "none", before |-> "none"]

Statuses == {"pending", "done"}

TasksTypeOK ==
    /\ task \in [Tasks -> [creator : Users, assignee : Users \cup {None}, status : Statuses]
                          \cup {NoTask}]
    /\ patch \in [Patches -> [actor : Users, task : Tasks, status : Statuses,
                              before : Statuses] \cup {NoPatch}]
    /\ turn \in [Patches -> {"idle", "locked", "ok", "notfound", "lost"}]

TasksInit ==
    /\ task = [t \in Tasks |-> NoTask]
    /\ patch = [p \in Patches |-> NoPatch]
    /\ turn = [p \in Patches |-> "idle"]

-----------------------------------------------------------------------------
\* POST /tasks; a task without an assignee, or for oneself, tells nobody.
CreateTask(t, u, assignee) ==
    /\ RoleOf[u] \in {"owner", "admin"}
    /\ task[t] = NoTask
    /\ assignee \in Colleagues(u) \cup {None}
    /\ task' = [task EXCEPT ![t] = [creator |-> u, assignee |-> assignee, status |-> "pending"]]
    /\ Tell(Letters(t, u, "task_assigned", {assignee} \ {u, None}))
    /\ UNCHANGED <<teacher, patch, turn>>

Holds(p, t) == turn[p] = "locked" /\ patch[p].task = t

\* Mutant of LockTask: a plain SELECT.
ReadTask(p, u, t, status) ==
    /\ turn[p] = "idle"
    /\ task[t] # NoTask /\ OrgOf[task[t].creator] = OrgOf[u]
    /\ turn' = [turn EXCEPT ![p] = "locked"]
    /\ patch' = [patch EXCEPT ![p] =
          [actor |-> u, task |-> t, status |-> status, before |-> task[t].status]]
    /\ UNCHANGED <<teacher, notes, unread, task>>

\* SELECT status, created_by, assigned_to ... FOR UPDATE.  A task of another
\* organization is not found, and the request ends where it began.
LockTask(p, u, t, status) ==
    /\ turn[p] = "idle"
    /\ task[t] # NoTask /\ OrgOf[task[t].creator] = OrgOf[u]
    /\ \A other \in Patches : ~Holds(other, t)
    /\ turn' = [turn EXCEPT ![p] = "locked"]
    /\ patch' = [patch EXCEPT ![p] =
          [actor |-> u, task |-> t, status |-> status, before |-> task[t].status]]
    /\ UNCHANGED <<teacher, notes, unread, task>>

\* completedByAssignee, all four conditions of it.
Completed(p) ==
    /\ patch[p].status = "done" /\ patch[p].before # "done"
    /\ patch[p].actor = task[patch[p].task].assignee
    /\ patch[p].actor # task[patch[p].task].creator

\* UPDATE ... AND (created_by = ? OR assigned_to = ?), INSERT, COMMIT.
UpdateTask(p) ==
    LET t == patch[p].task  u == patch[p].actor IN
    /\ turn[p] = "locked"
    /\ u \in {task[t].creator, task[t].assignee}
    /\ task' = [task EXCEPT ![t].status = patch[p].status]
    /\ turn' = [turn EXCEPT ![p] = "ok"]
    /\ Tell(Letters(p, u, "task_completed", IF Completed(p) THEN {task[t].creator} ELSE {}))
    /\ UNCHANGED <<teacher, patch>>

\* No row is affected: ROLLBACK, 404.
RefuseTask(p) ==
    LET t == patch[p].task IN
    /\ turn[p] = "locked"
    /\ patch[p].actor \notin {task[t].creator, task[t].assignee}
    /\ turn' = [turn EXCEPT ![p] = "notfound"]
    /\ UNCHANGED <<teacher, notes, unread, task, patch>>

\* Any error, or the connection's end: ROLLBACK.
LoseTask(p) ==
    /\ turn[p] = "locked"
    /\ turn' = [turn EXCEPT ![p] = "lost"]
    /\ UNCHANGED <<teacher, notes, unread, task, patch>>

TasksNext ==
    \/ \E t \in Tasks, u \in Users :
          \/ \E assignee \in Users \cup {None} : CreateTask(t, u, assignee)
          \/ \E p \in Patches, status \in Statuses : LockTask(p, u, t, status)
    \/ \E p \in Patches : UpdateTask(p) \/ RefuseTask(p) \/ LoseTask(p)

-----------------------------------------------------------------------------
(* Properties *)

\* Somebody but the maker of the task did it, who was asked to.
FinishedBy(p, t) ==
    /\ Holds(p, t) /\ turn'[p] = "ok"
    /\ task[t].status = "pending" /\ task'[t].status = "done"
    /\ patch[p].actor = task[t].assignee /\ patch[p].actor # task[t].creator

\* The maker of a task is told of each time it is done by the one it was given
\* to, once: not of a second request that finds it done, nor of a reopening,
\* nor of what they do themselves (tasks.route.js:117-136).
CompletionTold ==
    [][\A p \in Patches, t \in Tasks : Holds(p, t) =>
          (FinishedBy(p, t) <=>
             \E n \in notes' \ notes : n.by = p /\ n.type = "task_completed"
                                       /\ n.to = task[t].creator)
       ]_<<task, patch, turn, notes>>

=============================================================================
