---------------------------- MODULE Credentials ----------------------------
(***************************************************************************)
(* What the account routes promise, with no database, lock or request in   *)
(* it.  Reset links are given to users; a link sets its user's password at *)
(* most once, no password is set without one, and whoever has set a        *)
(* password has no link left.  Invitations and signups become accounts in  *)
(* one step, an address has a single account, and what was used up or made *)
(* stays so.  Accounts.tla implements this.                                *)
(*                                                                         *)
(* A link that is withdrawn between its check and the commit may still set *)
(* the password: the routes promise nothing else, and neither does Redeem. *)
(***************************************************************************)
CONSTANTS Users,
          Passwords,      \* passwords that are sent in with a link
          Invitations,
          Taken,          \* addresses of the Users
          None            \* the password from before, no invitation

VARIABLES issued,         \* the links that have been given, to whom
          unspent,        \* those of them that are not used up
          redeemed,       \* those of them that have set a password
          password,       \* the passwords that links have set
          invited,        \* the invitations that can be accepted
          accounts,       \* the accounts that have been made
          founded         \* those of them that own an organization of their own

credentialVars == <<issued, unspent, redeemed, password, invited, accounts, founded>>

linkVars == <<issued, unspent, redeemed, password>>

peopleVars == <<invited, accounts, founded>>

-----------------------------------------------------------------------------
OfUser(u) == {l.id : l \in {k \in issued : k.user = u}}

Free(email) == email \notin Taken /\ \A a \in accounts : a.email # email

CredentialsInit ==
    /\ issued = {} /\ unspent = {} /\ redeemed = {}
    /\ password = [u \in Users |-> None]
    /\ invited = {} /\ accounts = {} /\ founded = {}

\* The older links of a user are withdrawn before a new one is given.
Withdraw(u) ==
    /\ unspent' = unspent \ OfUser(u)
    /\ UNCHANGED <<issued, redeemed, password, peopleVars>>

Give(l) ==
    /\ l.user \in Users
    /\ \A k \in issued : k.id # l.id
    /\ issued' = issued \cup {l}
    /\ unspent' = unspent \cup {l.id}
    /\ UNCHANGED <<redeemed, password, peopleVars>>

Redeem(l, p) ==
    /\ l.id \notin redeemed
    /\ password' = [password EXCEPT ![l.user] = p]
    /\ redeemed' = redeemed \cup {l.id}
    /\ unspent' = unspent \ OfUser(l.user)
    /\ UNCHANGED <<issued, peopleVars>>

Invite(i) ==
    /\ i \notin invited
    /\ \A a \in accounts : a.by # i
    /\ invited' = invited \cup {i}
    /\ UNCHANGED <<accounts, founded, linkVars>>

\* A registration spends its invitation, a signup founds an organization.
Join(a) ==
    /\ Free(a.email)
    /\ accounts' = accounts \cup {a}
    /\ \/ /\ a.by \in invited
          /\ invited' = invited \ {a.by}
          /\ UNCHANGED founded
       \/ /\ a.by = None
          /\ founded' = founded \cup {a.id}
          /\ UNCHANGED invited
    /\ UNCHANGED linkVars

CredentialsNext ==
    \/ \E u \in Users : Withdraw(u)
    \/ \E l \in issued' : Give(l)
    \/ \E l \in issued, p \in Passwords : Redeem(l, p)
    \/ \E i \in Invitations : Invite(i)
    \/ \E a \in accounts' : Join(a)

CredentialsSpec == CredentialsInit /\ [][CredentialsNext]_credentialVars

=============================================================================
