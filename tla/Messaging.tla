------------------------------ MODULE Messaging ------------------------------
(***************************************************************************)
(* Tasks, threads and broadcasts over the same users, rosters and feed.     *)
(***************************************************************************)
EXTENDS Tasks, Threads, Broadcasts

vars == <<teacher, notes, unread, task, patch, turn, thread, message, sent, outdated,
          draft, broadcast>>

Requests == Tasks \cup Patches \cup Sends \cup Marks \cup Broadcasts

Note == [by : Requests, from : Users, to : Users,
         type : {"task_assigned", "task_completed", "message", "broadcast"}]

TypeOK ==
    /\ teacher \in [Students -> Teachers \cup {None}]
    /\ notes \subseteq Note
    /\ unread \subseteq notes
    /\ TasksTypeOK /\ ThreadsTypeOK /\ BroadcastsTypeOK

Init ==
    /\ teacher \in [Students -> Teachers \cup {None}]
    /\ \A s \in Students : teacher[s] # None => OrgOf[teacher[s]] = OrgOf[s]
    /\ notes = {} /\ unread = {}
    /\ TasksInit /\ ThreadsInit /\ BroadcastsInit

Next ==
    \/ TasksNext /\ UNCHANGED <<threadsVars, broadcastsVars>>
    \/ ThreadsNext /\ UNCHANGED <<tasksVars, broadcastsVars>>
    \/ BroadcastsNext /\ UNCHANGED <<tasksVars, threadsVars>>
    \/ FeedNext /\ UNCHANGED <<tasksVars, threadsVars, broadcastsVars>>

Spec == Init /\ [][Next]_vars

-----------------------------------------------------------------------------
(* Properties *)

\* No task, message or notification joins people of two organizations, however
\* students are moved between teachers (notifications.helpers.js:6-21).
StaysInOrganization ==
    /\ \A n \in notes : OrgOf[n.to] = OrgOf[n.from]
    /\ \A t \in Tasks : task[t] # NoTask /\ task[t].assignee # None =>
          OrgOf[task[t].assignee] = OrgOf[task[t].creator]
    /\ \A m \in Written :
          /\ OrgOf[message[m].student] = OrgOf[message[m].sender]
          /\ OrgOf[message[m].admin] = OrgOf[message[m].sender]

=============================================================================
