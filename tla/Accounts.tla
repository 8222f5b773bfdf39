------------------------------ MODULE Accounts ------------------------------
(***************************************************************************)
(* How people come to an account and back to one: invitations and          *)
(* registration (invitations.route.js, auth.route.js), the signup of an    *)
(* organization with its owner (auth.route.js), reset links                *)
(* (utils/passwordReset.js).                                               *)
(*                                                                         *)
(* As in Booking, an action is what happens between two awaits that other  *)
(* requests can tell apart, and SnapshotIsolation is MariaDB's option of   *)
(* that name.  A reset runs in a transaction whose first statement is a    *)
(* plain SELECT, so its view is as old as the hashing of the password      *)
(* takes; issuing a link is two statements without a transaction.          *)
(***************************************************************************)
EXTENDS Naturals, FiniteSets

CONSTANTS Users,          \* accounts that exist from the start
          Forgots,        \* POST /auth/forgot-password; also the link each issues
          Redeems,        \* POST /auth/reset-password
          Invitations,
          Registers,      \* POST /auth/register; also the account each may make
          Signups,        \* POST /auth/register-organization; also the organization
                          \* and the owner's account each may make
          Emails, Taken,  \* addresses, those of the Users among them
          None,
          SnapshotIsolation

Comers == Registers \cup Signups

Requests == Forgots \cup Redeems \cup Comers

ASSUME AccountsAssumption ==
    /\ SnapshotIsolation \in BOOLEAN
    /\ Taken \subseteq Emails
    /\ None \notin Users \cup Forgots \cup Redeems \cup Invitations \cup Emails
    /\ Forgots \cap Redeems = {} /\ Registers \cap Signups = {}
    /\ Forgots \cap Comers = {} /\ Redeems \cap Comers = {}

VARIABLES resets,      \* the password_resets table
          password,    \* the request that set a user's password last
          invitation,  \* the invitations table
          account,     \* the users that registrations and signups have made
          organization,  \* the organizations of signups
          expired,     \* links and invitations past their expires_at
          phase,       \* how far each request has come
          asks,        \* a POST's parameters, with what it has resolved
          missed       \* links and users changed since a redemption's view

vars == <<resets, password, invitation, account, organization, expired, phase, asks, missed>>

-----------------------------------------------------------------------------
NoReset   == [status |-> "none", user |-> None]
NoAccount == [status |-> "none", by |-> None, email |-> None]
NoAsk     == [user |-> None, link |-> None, by |-> None, email |-> None]

Open    == {"found", "burned",               \* forgot-password
            "viewed", "set", "burning",      \* reset-password
            "invited", "founded", "inserted"}   \* register, register-organization
Answers == {"ok", "refused", "failed"}       \* 2xx, 4xx, 5xx

TypeOK ==
    /\ resets \in [Forgots -> [status : {"none", "live", "used"}, user : Users \cup {None}]]
    /\ password \in [Users -> Redeems \cup {None}]
    /\ invitation \in [Invitations -> {"none", "pending", "used"}]
    /\ account \in [Comers -> [status : {"none", "pending", "made"},
                               by     : Invitations \cup {None},
                               email  : Emails \cup {None}]]
    /\ organization \in [Signups -> {"none", "pending", "made"}]
    /\ expired \subseteq Forgots \cup Invitations
    /\ phase \in [Requests -> {"idle"} \cup Open \cup Answers]
    /\ asks \in [Requests -> [user  : Users \cup {None}, link  : Forgots \cup {None},
                              by    : Invitations \cup {None}, email : Emails \cup {None}]]
    /\ missed \in [Redeems -> SUBSET (Forgots \cup Users)]

-----------------------------------------------------------------------------
Live(t) == resets[t].status = "live"

LinksOf(u) == {t \in Forgots : Live(t) /\ resets[t].user = u}

Viewing == {"viewed", "set", "burning"}

\* A redemption other than x has u's row of users exclusively locked.
UserLocked(x, u) ==
    \E r \in Redeems \ {x} : phase[r] \in {"set", "burning"} /\ asks[r].user = u

\* A redemption has u's rows of password_resets, and the gaps, locked.
LinksLocked(u) == \E r \in Redeems : phase[r] = "burning" /\ asks[r].user = u

\* Committed changes that no open view contains.
Missed(changed) ==
    [r \in Redeems |-> IF phase[r] \in Viewing THEN missed[r] \cup changed ELSE missed[r]]

Answer(x, a) == phase' = [phase EXCEPT ![x] = a]

UseUp(links) == [t \in Forgots |-> IF t \in links THEN [resets[t] EXCEPT !.status = "used"]
                                                ELSE resets[t]]

Init ==
    /\ resets = [t \in Forgots |-> NoReset]
    /\ password = [u \in Users |-> None]
    /\ invitation = [i \in Invitations |-> "none"]
    /\ account = [g \in Comers |-> NoAccount]
    /\ organization = [o \in Signups |-> "none"]
    /\ expired = {}
    /\ phase = [x \in Requests |-> "idle"]
    /\ asks = [x \in Requests |-> NoAsk]
    /\ missed = [r \in Redeems |-> {}]

-----------------------------------------------------------------------------
(* Issuing a link.                                                         *)

\* findUserByEmail; an unknown address is answered at once and changes nothing.
FindUser(f, u) ==
    /\ phase[f] = "idle"
    /\ Answer(f, "found")
    /\ asks' = [asks EXCEPT ![f].user = u]
    /\ UNCHANGED <<resets, password, invitation, account, organization, expired, missed>>

\* issueResetToken, first statement: invalidateTokensForUser.
BurnOlder(f) ==
    LET u == asks[f].user IN
    /\ phase[f] = "found"
    /\ ~LinksLocked(u)
    /\ Answer(f, "burned")
    /\ resets' = UseUp(LinksOf(u))
    /\ missed' = Missed(LinksOf(u))
    /\ UNCHANGED <<password, invitation, account, organization, expired, asks>>

\* Second statement: the INSERT, whose foreign key check reads the user's row.
IssueLink(f) ==
    LET u == asks[f].user IN
    /\ phase[f] = "burned"
    /\ ~UserLocked(f, u)
    /\ Answer(f, "ok")
    /\ resets' = [resets EXCEPT ![f] = [status |-> "live", user |-> u]]
    /\ missed' = Missed({f})
    /\ UNCHANGED <<password, invitation, account, organization, expired, asks>>

\* Time passes expires_at: derived wherever it is read, never stored.
Expire(x) ==
    /\ IF x \in Forgots THEN Live(x) ELSE invitation[x] = "pending"
    /\ x \notin expired
    /\ expired' = expired \cup {x}
    /\ UNCHANGED <<resets, password, invitation, account, organization, phase, asks, missed>>

-----------------------------------------------------------------------------
(* Redeeming a link.                                                       *)

\* resolveResetToken on the transaction's connection: a plain SELECT.
ResolveLink(r, t) ==
    /\ phase[r] = "idle"
    /\ IF Live(t) /\ t \notin expired
       THEN /\ Answer(r, "viewed")
            /\ asks' = [asks EXCEPT ![r].user = resets[t].user, ![r].link = t]
            /\ missed' = [missed EXCEPT ![r] = {}]
       ELSE Answer(r, "refused") /\ UNCHANGED <<asks, missed>>
    /\ UNCHANGED <<resets, password, invitation, account, organization, expired>>

\* Mutant of SetPassword: a server that does not check the row against the view.
SetPasswordAnyway(r) ==
    /\ phase[r] = "viewed"
    /\ ~UserLocked(r, asks[r].user)
    /\ Answer(r, "set")
    /\ UNCHANGED <<resets, password, invitation, account, organization, expired, asks, missed>>

\* UPDATE users SET password_hash; a row changed since the view: ER_CHECKREAD.
SetPassword(r) ==
    LET u == asks[r].user IN
    /\ phase[r] = "viewed"
    /\ ~UserLocked(r, u)
    /\ Answer(r, IF SnapshotIsolation /\ u \in missed[r] THEN "failed" ELSE "set")
    /\ UNCHANGED <<resets, password, invitation, account, organization, expired, asks, missed>>

\* invalidateTokensForUser: the user's live links, those issued since the view
\* included unless they make the statement fail.
BurnAll(r) ==
    LET u == asks[r].user IN
    /\ phase[r] = "set"
    /\ Answer(r, IF SnapshotIsolation /\ LinksOf(u) \cap missed[r] # {}
                 THEN "failed" ELSE "burning")
    /\ UNCHANGED <<resets, password, invitation, account, organization, expired, asks, missed>>

\* Mutant of CommitRedeem: only the redeemed link is burned.
CommitRedeemOne(r) ==
    LET u == asks[r].user IN
    /\ phase[r] = "burning"
    /\ Answer(r, "ok")
    /\ password' = [password EXCEPT ![u] = r]
    /\ resets' = UseUp({asks[r].link})
    /\ missed' = Missed({u, asks[r].link})
    /\ UNCHANGED <<invitation, account, organization, expired, asks>>

CommitRedeem(r) ==
    LET u == asks[r].user IN
    /\ phase[r] = "burning"
    /\ Answer(r, "ok")
    /\ password' = [password EXCEPT ![u] = r]
    /\ resets' = UseUp(LinksOf(u))
    /\ missed' = Missed({u} \cup LinksOf(u))
    /\ UNCHANGED <<invitation, account, organization, expired, asks>>

-----------------------------------------------------------------------------
(* Invitations and registration.                                           *)

Invite(i) ==
    /\ invitation[i] = "none"
    /\ invitation' = [invitation EXCEPT ![i] = "pending"]
    /\ UNCHANGED <<resets, password, account, organization, expired, phase, asks, missed>>

\* Mutant of InvitationLocked: the SELECT has lost its FOR UPDATE.
InvitationUnlocked(g, i) == FALSE

InvitationLocked(g, i) ==
    \E h \in Registers \ {g} : phase[h] \in {"invited", "inserted"} /\ asks[h].by = i

\* SELECT ... FOR UPDATE of the invitation: pending and in time, or 400.
TakeInvitation(g, i, email) ==
    /\ phase[g] = "idle"
    /\ ~InvitationLocked(g, i)
    /\ IF invitation[i] = "pending" /\ i \notin expired
       THEN /\ Answer(g, "invited")
            /\ asks' = [asks EXCEPT ![g].by = i, ![g].email = email]
       ELSE Answer(g, "refused") /\ UNCHANGED asks
    /\ UNCHANGED <<resets, password, invitation, account, organization, expired, missed>>

\* Mutant of InUse: the key by organization that migration 0017 rejects; a signup
\* makes an organization of its own.
InUseInOrganization(email) ==
    email \in Taken \/ \E g \in Registers : account[g].status = "made" /\ account[g].email = email

InUse(email) ==
    email \in Taken \/ \E g \in Comers : account[g].status = "made" /\ account[g].email = email

\* The organization of request g rolled back.
Undone(g) ==
    IF g \in Signups THEN [organization EXCEPT ![g] = "none"] ELSE organization

\* INSERT INTO users: waits for an uncommitted row with the address, 409 with a
\* rollback if the address is in use, in whatever organization.
InsertUser(g) ==
    /\ phase[g] \in {"invited", "founded"}
    /\ \A h \in Comers \ {g} : ~(phase[h] = "inserted" /\ asks[h].email = asks[g].email)
    /\ IF InUse(asks[g].email)
       THEN /\ Answer(g, "refused")
            /\ organization' = Undone(g)
            /\ UNCHANGED account
       ELSE /\ Answer(g, "inserted")
            /\ account' = [account EXCEPT ![g] =
                  [status |-> "pending", by |-> asks[g].by, email |-> asks[g].email]]
            /\ UNCHANGED organization
    /\ UNCHANGED <<resets, password, invitation, expired, asks, missed>>

\* The invitation is used up and the account is made, together.
CommitRegister(g) ==
    /\ phase[g] = "inserted"
    /\ Answer(g, "ok")
    /\ invitation' = [invitation EXCEPT ![asks[g].by] = "used"]
    /\ account' = [account EXCEPT ![g].status = "made"]
    /\ UNCHANGED <<resets, password, organization, expired, asks, missed>>

-----------------------------------------------------------------------------
(* The signup of an organization: its row, then its owner's, who has no    *)
(* invitation.                                                             *)

FoundOrganization(o, email) ==
    /\ phase[o] = "idle"
    /\ Answer(o, "founded")
    /\ organization' = [organization EXCEPT ![o] = "pending"]
    /\ asks' = [asks EXCEPT ![o].email = email]
    /\ UNCHANGED <<resets, password, invitation, account, expired, missed>>

CommitSignup(o) ==
    /\ phase[o] = "inserted"
    /\ Answer(o, "ok")
    /\ organization' = [organization EXCEPT ![o] = "made"]
    /\ account' = [account EXCEPT ![o].status = "made"]
    /\ UNCHANGED <<resets, password, invitation, expired, asks, missed>>

\* The connection or the process is lost, or InnoDB ends the transaction; what
\* forgot-password has done is done.
Abort(x) ==
    /\ phase[x] \in Open
    /\ Answer(x, "failed")
    /\ account' = IF phase[x] = "inserted" THEN [account EXCEPT ![x] = NoAccount] ELSE account
    /\ organization' = Undone(x)
    /\ UNCHANGED <<resets, password, invitation, expired, asks, missed>>

Next ==
    \/ \E f \in Forgots :
          (\E u \in Users : FindUser(f, u)) \/ BurnOlder(f) \/ IssueLink(f)
    \/ \E x \in Forgots \cup Invitations : Expire(x)
    \/ \E r \in Redeems :
          \/ \E t \in Forgots : ResolveLink(r, t)
          \/ SetPassword(r) \/ BurnAll(r) \/ CommitRedeem(r)
    \/ \E i \in Invitations : Invite(i)
    \/ \E g \in Registers :
          \/ \E i \in Invitations, email \in Emails : TakeInvitation(g, i, email)
          \/ CommitRegister(g)
    \/ \E o \in Signups : (\E email \in Emails : FoundOrganization(o, email)) \/ CommitSignup(o)
    \/ \E g \in Comers : InsertUser(g)
    \/ \E x \in Requests : Abort(x)

Spec == Init /\ [][Next]_vars

-----------------------------------------------------------------------------
(* Properties *)

\* A link sets a password once, however many times it is sent in, although the
\* check is a plain read made before the password is hashed
\* (passwordReset.js:148-150).
RedeemedOnce ==
    \A r, k \in Redeems :
        phase[r] = "ok" /\ phase[k] = "ok" /\ r # k => asks[r].link # asks[k].link

\* After a reset no link issued before it works, one that was issued while the
\* reset was running included (auth.route.js:394-397).
ResetBurnsAll ==
    [][\A u \in Users : password'[u] # password[u] =>
          \A t \in Forgots : resets[t].user = u /\ Live(t) => resets'[t].status = "used"]_vars

\* An invitation makes one account, and is used up exactly when it has made one
\* (auth.route.js:48-101).
OneAccountPerInvitation ==
    \A i \in Invitations :
        LET made == {g \in Registers : account[g].status = "made" /\ account[g].by = i}
        IN Cardinality(made) = IF invitation[i] = "used" THEN 1 ELSE 0

\* An address has one account, in all organizations together, although nothing
\* looks for it before the INSERT, and an organization is never there without
\* its owner (auth.route.js:160-162, 202-209).
OneAccountPerAddress ==
    /\ \A g, h \in Comers :
          account[g].status = "made" /\ account[h].status = "made"
              /\ account[g].email = account[h].email => g = h
    /\ \A o \in Signups : organization[o] = "made" <=> account[o].status = "made"

\* The tables as their users know them: links handed out, used up and redeemed,
\* invitations that are open, accounts that are made.
Given == {t \in Forgots : resets[t].status # "none"}

LinksGiven == {[id |-> t, user |-> resets[t].user] : t \in Given}

LinksRedeemed == {asks[r].link : r \in {k \in Redeems : phase[k] = "ok"}}

AccountsMade ==
    {[id |-> g, by |-> account[g].by, email |-> account[g].email] :
        g \in {h \in Comers : account[h].status = "made"}}

C == INSTANCE Credentials WITH
        Passwords <- Redeems,
        issued <- LinksGiven, unspent <- {t \in Forgots : Live(t)}, redeemed <- LinksRedeemed,
        invited <- {i \in Invitations : invitation[i] = "pending"},
        accounts <- AccountsMade, founded <- {o \in Signups : organization[o] = "made"}

\* Through every race and failure the account routes do what Credentials allows
\* and nothing else: a password, the links it burns, an invitation and its
\* account change together or not at all (passwordReset.js:120-126,
\* auth.route.js:48-101).
ImplementsCredentials == C!CredentialsSpec

=============================================================================
