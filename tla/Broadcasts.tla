----------------------------- MODULE Broadcasts -----------------------------
(***************************************************************************)
(* Announcements (broadcasts.route.js): of an owner to the organization, of *)
(* a teacher to their own students, with a copy to those who oversee them.  *)
(* All reads of the transaction, those of insertNotification too, are in    *)
(* the snapshot of the first, which finds the recipients; rosters change    *)
(* between it and COMMIT.                                                   *)
(***************************************************************************)
EXTENDS Feed, FiniteSets

CONSTANTS Broadcasts     \* POST /broadcasts requests, each with its row

ASSUME FiniteAssumption == IsFiniteSet(Users)

VARIABLES draft,         \* the recipients a request has found
          broadcast      \* the broadcasts table

broadcastsVars == <<draft, broadcast>>

Audiences == {"students", "teachers", "both"}

NoDraft == [sender |-> None, audience |-> "none", reach |-> {}]
NoBroadcast == [sender |-> None, audience |-> "none", count |-> 0]

BroadcastsTypeOK ==
    /\ draft \in [Broadcasts -> [sender : Users, audience : Audiences, reach : SUBSET Users]
                                \cup {NoDraft}]
    /\ broadcast \in [Broadcasts -> [sender : Users, audience : Audiences, count : Nat]
                                    \cup {NoBroadcast}]

BroadcastsInit ==
    /\ draft = [b \in Broadcasts |-> NoDraft]
    /\ broadcast = [b \in Broadcasts |-> NoBroadcast]

-----------------------------------------------------------------------------
RolesOf(audience) ==
    CASE audience = "both" -> {"admin", "student"}
      [] audience = "teachers" -> {"admin"}
      [] OTHER -> {"student"}

\* resolveBroadcastRecipients.
Audience(u, audience) ==
    IF RoleOf[u] = "owner"
    THEN (WithRole(RolesOf(audience)) \cap Colleagues(u)) \ {u}
    ELSE {s \in Students \cap Colleagues(u) : teacher[s] = u}

\* resolveOversightRecipients.
Overseers(u) == (WithRole({"owner", "manager"}) \cap Colleagues(u)) \ {u}

\* The checks, BEGIN, and the first SELECT.  A broadcast that would reach
\* nobody is rolled back: 400.
Address(b, u, audience) ==
    /\ draft[b] = NoDraft
    /\ RoleOf[u] = "owner" \/ (RoleOf[u] = "admin" /\ audience = "students")
    /\ Audience(u, audience) # {}
    /\ draft' = [draft EXCEPT ![b] = [sender |-> u, audience |-> audience,
                                      reach |-> Audience(u, audience)]]
    /\ UNCHANGED <<teacher, notes, unread, broadcast>>

\* Mutant of Publish: whom to notify is read again, outside the snapshot.
PublishToRoster(b) ==
    LET d == draft[b] IN
    /\ d # NoDraft /\ broadcast[b] = NoBroadcast
    /\ broadcast' = [broadcast EXCEPT ![b] =
          [sender |-> d.sender, audience |-> d.audience, count |-> Cardinality(d.reach)]]
    /\ Tell(Letters(b, d.sender, "broadcast", Audience(d.sender, d.audience))
              \cup IF RoleOf[d.sender] = "owner" THEN {}
                   ELSE Letters(b, d.sender, "broadcast", Overseers(d.sender)))
    /\ UNCHANGED <<teacher, draft>>

\* INSERT with recipient_count, a notification each, the overseers' copies of
\* what a teacher sends, COMMIT.  The copies have the type and the ref_id of the
\* others, and are not counted.
Publish(b) ==
    LET d == draft[b] IN
    /\ d # NoDraft /\ broadcast[b] = NoBroadcast
    /\ broadcast' = [broadcast EXCEPT ![b] =
          [sender |-> d.sender, audience |-> d.audience, count |-> Cardinality(d.reach)]]
    /\ Tell(Letters(b, d.sender, "broadcast", d.reach)
              \cup IF RoleOf[d.sender] = "owner" THEN {}
                   ELSE Letters(b, d.sender, "broadcast", Overseers(d.sender)))
    /\ UNCHANGED <<teacher, draft>>

\* An error or a lost connection before COMMIT: as if it had not been sent.
LoseBroadcast(b) ==
    /\ draft[b] # NoDraft /\ broadcast[b] = NoBroadcast
    /\ draft' = [draft EXCEPT ![b] = NoDraft]
    /\ UNCHANGED <<teacher, notes, unread, broadcast>>

BroadcastsNext ==
    \E b \in Broadcasts :
        \/ \E u \in Users, audience \in Audiences : Address(b, u, audience)
        \/ Publish(b) \/ LoseBroadcast(b)

-----------------------------------------------------------------------------
(* Properties *)

Sent == {b \in Broadcasts : broadcast[b] # NoBroadcast}

\* What the record of a broadcast says of the rows it wrote, even when the roster
\* has changed while it was sent (broadcasts.route.js:20-23, 110-117): the count
\* is of those of its audience who were told, an audience that names teachers has
\* all of them told, and the only rows beside it are the overseers' copies of
\* what a teacher sends.  "How many notifications rows this send produced"
\* (migrations/0027) is therefore short of a teacher's rows by these copies.
RecordOfReach ==
    \A b \in Sent :
        LET u == broadcast[b].sender
            addressed == WithRole(RolesOf(broadcast[b].audience)) \cap Colleagues(u)
            told == Told(b, "broadcast")
        IN  /\ broadcast[b].count = Cardinality(told \cap addressed)
            /\ broadcast[b].audience # "students" => Teachers \cap Colleagues(u) \subseteq told
            /\ told \ addressed = IF RoleOf[u] = "owner" THEN {} ELSE Overseers(u)

=============================================================================
