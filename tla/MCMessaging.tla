---------------------------- MODULE MCMessaging ----------------------------
(* Messaging in a school with two teachers, beside another with one.        *)
EXTENDS Messaging, TLC

CONSTANTS owner, manager, ada, bob, sam, sue, far, null, t1, p1, p2, q1, q2, r1, b1

MCRoleOf ==
    (owner :> "owner") @@ (manager :> "manager") @@ (ada :> "admin") @@ (bob :> "admin")
    @@ (sam :> "student") @@ (sue :> "student") @@ (far :> "admin")
MCOrgOf == [u \in Users |-> IF u = far THEN 2 ELSE 1]

Interchangeable ==
    Permutations(Patches) \cup Permutations(Sends)


IdleTasks == \A t \in Tasks : task[t] = NoTask
IdleThreads == \A q \in Sends \cup Marks : thread[q] = NoThread
IdleBroadcasts == \A b \in Broadcasts : draft[b] = NoDraft

\* Bounds: a behaviour of Spec has requests about tasks, or about the threads of
\* one student, or about broadcasts; feeds are read beside tasks and broadcasts.
MCNext ==
    \/ /\ IdleThreads /\ IdleBroadcasts
       /\ TasksNext /\ UNCHANGED <<threadsVars, broadcastsVars>>
    \/ /\ IdleTasks /\ IdleBroadcasts
       /\ \/ \E q \in Sends \cup Marks, u \in Users : OpenThread(q, u, sam)
          \/ \E q \in Sends : Send(q) \/ LoseSend(q)
          \/ \E q \in Marks : MarkRead(q)
          \/ \E u \in Users, t \in Teachers \cup {None} : Reassign(u, sam, t)
       /\ UNCHANGED <<tasksVars, broadcastsVars>>
    \/ /\ IdleTasks /\ IdleThreads
       /\ BroadcastsNext /\ UNCHANGED <<tasksVars, threadsVars>>
    \/ /\ IdleTasks /\ IdleThreads
       /\ \E u \in Users, s \in Students, t \in Teachers \cup {None} : Reassign(u, s, t)
       /\ UNCHANGED <<tasksVars, broadcastsVars>>
    \/ IdleThreads /\ FeedNext /\ UNCHANGED <<tasksVars, threadsVars, broadcastsVars>>

MCSpec == Init /\ [][MCNext]_vars

=============================================================================
