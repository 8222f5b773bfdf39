--------------------------- MODULE AccountsProofs ---------------------------
(***************************************************************************)
(* Proofs about Accounts, for any number of users, links, invitations and  *)
(* requests.                                                               *)
(*                                                                         *)
(* A redemption checks its link with a plain read and only then waits for  *)
(* the user's row, so what keeps a second one out is the view: whoever     *)
(* redeemed the link meanwhile changed that row (Losers).  The FOR UPDATE  *)
(* of a registration does the same for an invitation (Claims).             *)
(* The last part shows Accounts to implement Credentials.                  *)
(***************************************************************************)
EXTENDS Accounts, FiniteSetTheorems, TLAPS

Holding == {"set", "burning"}
Claiming == {"invited", "inserted"}

\* A redemption under way or done is about an issued link and its user.
Resolved ==
    \A r \in Redeems : phase[r] \in Viewing \cup {"ok"} =>
        /\ asks[r].link \in Forgots
        /\ asks[r].user \in Users
        /\ resets[asks[r].link].status # "none"
        /\ resets[asks[r].link].user = asks[r].user

\* One redemption at a time has the row of a user.
OneHolder ==
    \A r, k \in Redeems :
        phase[r] \in Holding /\ phase[k] \in Holding /\ asks[r].user = asks[k].user => r = k

\* A redeemed link is used; a rival that viewed it live has not got past the
\* row of the user, and has missed its change.
Losers ==
    \A r \in Redeems : phase[r] = "ok" =>
        /\ resets[asks[r].link].status = "used"
        /\ \A k \in Redeems \ {r} :
              phase[k] \in Viewing /\ asks[k].link = asks[r].link =>
                  phase[k] = "viewed" /\ asks[k].user \in missed[k]

\* A registration under way has its invitation, pending, for itself, and an
\* account that is made has used one up for itself.
Claims ==
    /\ \A g \in Registers : phase[g] \in Claiming =>
          /\ asks[g].by \in Invitations
          /\ invitation[asks[g].by] = "pending"
          /\ \A h \in Registers :
                phase[h] \in Claiming /\ asks[h].by = asks[g].by => h = g
    /\ \A g \in Registers :
          /\ account[g].status = "pending" => phase[g] = "inserted"
          /\ account[g].status = "made" => phase[g] = "ok"
          /\ phase[g] = "inserted" =>
                account[g].status = "pending" /\ account[g].by = asks[g].by
          /\ phase[g] # "founded"

\* A request that has not come to its INSERT has no link yet; links are users'.
Issued ==
    \A f \in Forgots :
        /\ phase[f] \in {"idle", "found", "burned"} => resets[f].status = "none"
        /\ phase[f] \in {"found", "burned"} => asks[f].user \in Users
        /\ resets[f].status # "none" => resets[f].user \in Users

Made(i) == {g \in Registers : account[g].status = "made" /\ account[g].by = i}

Accepted ==
    \A i \in Invitations :
        /\ invitation[i] = "used" <=> Made(i) # {}
        /\ \A g, h \in Made(i) : g = h

\* An account that is there, committed or not, has its address to itself, and
\* an organization is there with its owner.
Addressed ==
    /\ \A g \in Comers :
          /\ account[g].status = "pending" => phase[g] = "inserted"
          /\ account[g].status = "made" => phase[g] = "ok"
          /\ phase[g] = "inserted" =>
                account[g].status = "pending" /\ account[g].email = asks[g].email
    /\ \A g, h \in Comers :
          account[g].status # "none" /\ account[h].status # "none"
              /\ account[g].email = account[h].email => g = h
    /\ \A o \in Signups : organization[o] = "made" <=> account[o].status = "made"

\* The owner of an organization comes without an invitation, and nobody under
\* an address that was in use.
Newcomers ==
    /\ \A o \in Signups : asks[o].by = None /\ account[o].by = None
    /\ \A g \in Comers : account[g].status # "none" => account[g].email \notin Taken

Links == Resolved /\ OneHolder /\ Losers /\ RedeemedOnce

IInv == TypeOK /\ Issued /\ Resolved /\ Claims /\ Accepted /\ Addressed

\* What a step that redeems nothing does to links and redemptions.
Kept ==
    /\ \A k \in Redeems :
          /\ asks'[k] = asks[k]
          /\ missed[k] \subseteq missed'[k]
          /\ \/ phase'[k] = phase[k]
             \/ phase'[k] \in {"refused", "failed"}
             \/ phase[k] = "set" /\ phase'[k] = "burning"
    /\ \A t \in Forgots : resets[t].status # "none" =>
          /\ resets'[t].user = resets[t].user
          /\ resets'[t].status # "none"
          /\ resets[t].status = "used" => resets'[t].status = "used"

\* What a step that is not about registrations does to them.
Aside ==
    /\ \A g \in Registers :
          phase'[g] = phase[g] /\ asks'[g] = asks[g] /\ account'[g] = account[g]
    /\ UNCHANGED invitation

-----------------------------------------------------------------------------
LEMMA Disjoint ==
    /\ Forgots \subseteq Requests /\ Redeems \subseteq Requests
    /\ Registers \subseteq Requests /\ Signups \subseteq Requests
    /\ Registers \subseteq Comers /\ Signups \subseteq Comers /\ Comers = Registers \cup Signups
    /\ Forgots \cap Redeems = {} /\ Forgots \cap Registers = {} /\ Redeems \cap Registers = {}
    /\ Forgots \cap Signups = {} /\ Redeems \cap Signups = {} /\ Registers \cap Signups = {}
  BY AccountsAssumption DEF AccountsAssumption, Requests, Comers

LEMMA InitTypeOK == Init => TypeOK
  BY DEF Init, TypeOK, NoReset, NoAccount, NoAsk

\* Burning links keeps the table's columns.
LEMMA UseUpType ==
    ASSUME TypeOK, NEW links
    PROVE  UseUp(links) \in [Forgots -> [status : {"none", "live", "used"},
                                        user : Users \cup {None}]]
  BY DEF TypeOK, UseUp

LEMMA MissedType ==
    ASSUME TypeOK, NEW c \in SUBSET (Forgots \cup Users)
    PROVE  Missed(c) \in [Redeems -> SUBSET (Forgots \cup Users)]
<1>1. missed \in [Redeems -> SUBSET (Forgots \cup Users)]
  BY DEF TypeOK
<1>2. \A r \in Redeems : missed[r] \cup c \in SUBSET (Forgots \cup Users)
  BY <1>1
<1> QED
  BY <1>1, <1>2 DEF Missed

LEMMA AnswerType ==
    ASSUME TypeOK, NEW x \in Requests, NEW a \in Open \cup Answers, Answer(x, a)
    PROVE  phase' \in [Requests -> {"idle"} \cup Open \cup Answers]
  BY DEF TypeOK, Answer

LEMMA UndoneType ==
    ASSUME TypeOK, NEW x
    PROVE  Undone(x) \in [Signups -> {"none", "pending", "made"}]
  BY DEF TypeOK, Undone

LEMMA NextTypeOK == TypeOK /\ Resolved /\ [Next]_vars => TypeOK'
<1> SUFFICES ASSUME TypeOK, Resolved, [Next]_vars PROVE TypeOK'
  OBVIOUS
<1>1. ASSUME NEW f \in Forgots, NEW u \in Users, FindUser(f, u) PROVE TypeOK'
  <2>1. f \in Requests
    BY Disjoint
  <2>2. phase' \in [Requests -> {"idle"} \cup Open \cup Answers]
    BY <1>1, <2>1, AnswerType DEF FindUser, Open
  <2>3. asks' \in [Requests -> [user : Users \cup {None}, link : Forgots \cup {None},
                                by : Invitations \cup {None}, email : Emails \cup {None}]]
    <3>1. asks' = [asks EXCEPT ![f] = [@ EXCEPT !.user = u]]
      BY <1>1 DEF FindUser
    <3>2. [asks[f] EXCEPT !.user = u] \in
             [user : Users \cup {None}, link : Forgots \cup {None},
              by : Invitations \cup {None}, email : Emails \cup {None}]
      <4>1. asks[f] \in [user : Users \cup {None}, link : Forgots \cup {None},
                         by : Invitations \cup {None}, email : Emails \cup {None}]
        BY <2>1 DEF TypeOK
      <4> QED
        BY <4>1
    <3> QED
      BY <3>1, <3>2 DEF TypeOK
  <2> QED
    BY <1>1, <2>2, <2>3 DEF FindUser, TypeOK
<1>2. ASSUME NEW f \in Forgots, BurnOlder(f) PROVE TypeOK'
  <2>1. /\ f \in Requests
        /\ LinksOf(asks[f].user) \in SUBSET (Forgots \cup Users)
    BY Disjoint DEF LinksOf
  <2>2. phase' \in [Requests -> {"idle"} \cup Open \cup Answers]
    BY <1>2, <2>1, AnswerType DEF BurnOlder, Open
  <2> QED
    BY <1>2, <2>1, <2>2, UseUpType, MissedType DEF BurnOlder, TypeOK
<1>3. ASSUME NEW f \in Forgots, IssueLink(f) PROVE TypeOK'
  <2>1. /\ f \in Requests
        /\ {f} \in SUBSET (Forgots \cup Users)
    BY Disjoint
  <2>2. phase' \in [Requests -> {"idle"} \cup Open \cup Answers]
    BY <1>3, <2>1, AnswerType DEF IssueLink, Answers
  <2>3. asks[f].user \in Users \cup {None}
    BY <2>1 DEF TypeOK
  <2>4. resets' \in [Forgots -> [status : {"none", "live", "used"}, user : Users \cup {None}]]
    BY <1>3, <2>3 DEF IssueLink, TypeOK
  <2> QED
    BY <1>3, <2>1, <2>2, <2>4, MissedType DEF IssueLink, TypeOK
<1>4. ASSUME NEW x \in Forgots \cup Invitations, Expire(x) PROVE TypeOK'
  BY <1>4 DEF Expire, TypeOK
<1>5. ASSUME NEW r \in Redeems, NEW t \in Forgots, ResolveLink(r, t) PROVE TypeOK'
  <2>1. r \in Requests
    BY Disjoint
  <2>2. phase' \in [Requests -> {"idle"} \cup Open \cup Answers]
    BY <1>5, <2>1, AnswerType DEF ResolveLink, Open, Answers
  <2>3. CASE UNCHANGED <<asks, missed>>
    BY <1>5, <2>2, <2>3 DEF ResolveLink, TypeOK
  <2>4. CASE /\ asks' = [asks EXCEPT ![r].user = resets[t].user, ![r].link = t]
             /\ missed' = [missed EXCEPT ![r] = {}]
    <3>1. resets[t].user \in Users \cup {None}
      BY DEF TypeOK
    <3>2. asks' \in [Requests -> [user  : Users \cup {None}, link  : Forgots \cup {None},
                              by    : Invitations \cup {None}, email : Emails \cup {None}]]
      <4> DEFINE Ask == [user  : Users \cup {None}, link  : Forgots \cup {None},
                         by    : Invitations \cup {None}, email : Emails \cup {None}]
                 first == [asks[r] EXCEPT !.user = resets[t].user]
                 both  == [first EXCEPT !.link = t]
      <4>1. asks \in [Requests -> Ask]
        BY DEF TypeOK
      <4>2. first \in Ask
        BY <2>1, <3>1, <4>1
      <4>3. both \in Ask
        BY <4>2
      <4>4. asks' = [asks EXCEPT ![r] = both]
        BY <2>1, <2>4, <4>1
      <4> QED
        BY <2>1, <4>1, <4>3, <4>4
    <3>3. missed' \in [Redeems -> SUBSET (Forgots \cup Users)]
      BY <2>4 DEF TypeOK
    <3> QED
      BY <1>5, <2>2, <3>2, <3>3 DEF ResolveLink, TypeOK
  <2> QED
    BY <1>5, <2>3, <2>4 DEF ResolveLink
<1>6. ASSUME NEW r \in Redeems, SetPassword(r) PROVE TypeOK'
  BY <1>6, Disjoint DEF SetPassword, TypeOK, Answer, Open, Answers
<1>7. ASSUME NEW r \in Redeems, BurnAll(r) PROVE TypeOK'
  BY <1>7, Disjoint DEF BurnAll, TypeOK, Answer, Open, Answers
<1>8. ASSUME NEW r \in Redeems, CommitRedeem(r) PROVE TypeOK'
  <2>1. /\ r \in Requests
        /\ asks[r].user \in Users
    BY <1>8, Disjoint DEF Resolved, CommitRedeem, Viewing
  <2>2. {asks[r].user} \cup LinksOf(asks[r].user) \in SUBSET (Forgots \cup Users)
    BY <2>1 DEF LinksOf
  <2>3. phase' \in [Requests -> {"idle"} \cup Open \cup Answers]
    BY <1>8, <2>1, AnswerType DEF CommitRedeem, Answers
  <2>4. password' \in [Users -> Redeems \cup {None}]
    BY <1>8 DEF CommitRedeem, TypeOK
  <2> QED
    BY <1>8, <2>2, <2>3, <2>4, UseUpType, MissedType DEF CommitRedeem, TypeOK
<1>9. ASSUME NEW i \in Invitations, Invite(i) PROVE TypeOK'
  BY <1>9 DEF Invite, TypeOK
<1>10. ASSUME NEW g \in Registers, NEW i \in Invitations, NEW email \in Emails,
              TakeInvitation(g, i, email) PROVE TypeOK'
  <2>1. g \in Requests
    BY Disjoint
  <2>2. phase' \in [Requests -> {"idle"} \cup Open \cup Answers]
    BY <1>10, <2>1, AnswerType DEF TakeInvitation, Open, Answers
  <2>3. CASE UNCHANGED asks
    BY <1>10, <2>2, <2>3 DEF TakeInvitation, TypeOK
  <2>4. CASE asks' = [asks EXCEPT ![g].by = i, ![g].email = email]
    <3> DEFINE Ask == [user  : Users \cup {None}, link  : Forgots \cup {None},
                       by    : Invitations \cup {None}, email : Emails \cup {None}]
               first == [asks[g] EXCEPT !.by = i]
               both  == [first EXCEPT !.email = email]
    <3>1. asks \in [Requests -> Ask]
      BY DEF TypeOK
    <3>2. first \in Ask
      BY <2>1, <3>1
    <3>3. both \in Ask
      BY <3>2
    <3>4. asks' = [asks EXCEPT ![g] = both]
      BY <2>1, <2>4, <3>1
    <3>5. asks' \in [Requests -> Ask]
      BY <2>1, <3>1, <3>3, <3>4
    <3> QED
      BY <1>10, <2>2, <3>5 DEF TakeInvitation, TypeOK
  <2> QED
    BY <1>10, <2>3, <2>4 DEF TakeInvitation
<1>11. ASSUME NEW g \in Comers, InsertUser(g) PROVE TypeOK'
  <2>1. g \in Requests
    BY Disjoint DEF Requests
  <2>2. phase' \in [Requests -> {"idle"} \cup Open \cup Answers]
    BY <1>11, <2>1, AnswerType DEF InsertUser, Open, Answers
  <2>3. CASE UNCHANGED account /\ organization' = Undone(g)
    BY <1>11, <2>2, <2>3, UndoneType DEF InsertUser, TypeOK
  <2>4. CASE /\ account' = [account EXCEPT ![g] =
                 [status |-> "pending", by |-> asks[g].by, email |-> asks[g].email]]
             /\ UNCHANGED organization
    <3>1. asks[g].by \in Invitations \cup {None} /\ asks[g].email \in Emails \cup {None}
      BY <2>1 DEF TypeOK
    <3>2. account' \in [Comers -> [status : {"none", "pending", "made"},
                                    by     : Invitations \cup {None},
                                    email  : Emails \cup {None}]]
      BY <2>4, <3>1 DEF TypeOK
    <3> QED
      BY <1>11, <2>2, <2>4, <3>2 DEF InsertUser, TypeOK
  <2> QED
    BY <1>11, <2>3, <2>4 DEF InsertUser
<1>12. ASSUME NEW g \in Registers, CommitRegister(g) PROVE TypeOK'
  <2>1. g \in Requests
    BY Disjoint
  <2>2. phase' \in [Requests -> {"idle"} \cup Open \cup Answers]
    BY <1>12, <2>1, AnswerType DEF CommitRegister, Answers
  <2>3. account' \in [Comers -> [status : {"none", "pending", "made"},
                                    by     : Invitations \cup {None},
                                    email  : Emails \cup {None}]]
    <3>1. account' = [account EXCEPT ![g].status = "made"]
      BY <1>12 DEF CommitRegister
    <3>2. account \in [Comers -> [status : {"none", "pending", "made"},
                                     by     : Invitations \cup {None},
                                     email  : Emails \cup {None}]]
      BY DEF TypeOK
    <3> QED
      BY <3>1, <3>2
  <2>4. invitation' \in [Invitations -> {"none", "pending", "used"}]
    <3>1. invitation' = [invitation EXCEPT ![asks[g].by] = "used"]
      BY <1>12 DEF CommitRegister
    <3>2. invitation \in [Invitations -> {"none", "pending", "used"}]
      BY DEF TypeOK
    <3> QED
      BY <3>1, <3>2
  <2> QED
    BY <1>12, <2>2, <2>3, <2>4 DEF CommitRegister, TypeOK
<1>13. ASSUME NEW x \in Requests, Abort(x) PROVE TypeOK'
  <2>1. phase' \in [Requests -> {"idle"} \cup Open \cup Answers]
    BY <1>13, AnswerType DEF Abort, Answers
  <2>2. account' = account \/ account' = [account EXCEPT ![x] = NoAccount]
    BY <1>13 DEF Abort
  <2>3. account' \in [Comers -> [status : {"none", "pending", "made"},
                                    by     : Invitations \cup {None},
                                    email  : Emails \cup {None}]]
    BY <2>2 DEF TypeOK, NoAccount
  <2>4. organization' \in [Signups -> {"none", "pending", "made"}]
    BY <1>13, UndoneType DEF Abort
  <2> QED
    BY <1>13, <2>1, <2>3, <2>4 DEF Abort, TypeOK
<1>14. ASSUME NEW o \in Signups, NEW email \in Emails, FoundOrganization(o, email)
       PROVE  TypeOK'
  <2>1. o \in Requests
    BY Disjoint
  <2>2. phase' \in [Requests -> {"idle"} \cup Open \cup Answers]
    BY <1>14, <2>1, AnswerType DEF FoundOrganization, Open
  <2>3. asks' \in [Requests -> [user  : Users \cup {None}, link  : Forgots \cup {None},
                                by    : Invitations \cup {None}, email : Emails \cup {None}]]
    <3>1. asks' = [asks EXCEPT ![o] = [@ EXCEPT !.email = email]]
      BY <1>14 DEF FoundOrganization
    <3>2. [asks[o] EXCEPT !.email = email] \in
             [user : Users \cup {None}, link : Forgots \cup {None},
              by : Invitations \cup {None}, email : Emails \cup {None}]
      <4>1. asks[o] \in [user : Users \cup {None}, link : Forgots \cup {None},
                         by : Invitations \cup {None}, email : Emails \cup {None}]
        BY <2>1 DEF TypeOK
      <4> QED
        BY <4>1
    <3> QED
      BY <3>1, <3>2 DEF TypeOK
  <2>4. organization' \in [Signups -> {"none", "pending", "made"}]
    BY <1>14 DEF FoundOrganization, TypeOK
  <2> QED
    BY <1>14, <2>2, <2>3, <2>4 DEF FoundOrganization, TypeOK
<1>15. ASSUME NEW o \in Signups, CommitSignup(o) PROVE TypeOK'
  <2>1. o \in Requests
    BY Disjoint
  <2>2. phase' \in [Requests -> {"idle"} \cup Open \cup Answers]
    BY <1>15, <2>1, AnswerType DEF CommitSignup, Answers
  <2>3. account' \in [Comers -> [status : {"none", "pending", "made"},
                                  by     : Invitations \cup {None},
                                  email  : Emails \cup {None}]]
    <3>1. account' = [account EXCEPT ![o].status = "made"]
      BY <1>15 DEF CommitSignup
    <3>2. account \in [Comers -> [status : {"none", "pending", "made"},
                                   by     : Invitations \cup {None},
                                   email  : Emails \cup {None}]]
      BY DEF TypeOK
    <3> QED
      BY <3>1, <3>2
  <2>4. organization' \in [Signups -> {"none", "pending", "made"}]
    BY <1>15 DEF CommitSignup, TypeOK
  <2> QED
    BY <1>15, <2>2, <2>3, <2>4 DEF CommitSignup, TypeOK
<1>16. CASE UNCHANGED vars
  BY <1>16 DEF vars, TypeOK
<1> QED
  BY <1>1, <1>2, <1>3, <1>4, <1>5, <1>6, <1>7, <1>8, <1>9, <1>10, <1>11, <1>12,
     <1>13, <1>14, <1>15, <1>16 DEF Next

\* Burning live links leaves the others as they are.
LEMMA UseUpKeeps ==
    ASSUME TypeOK, NEW u
    PROVE  \A t \in Forgots :
              /\ resets[t].status = "none" => UseUp(LinksOf(u))[t].status = "none"
              /\ resets[t].status # "none" =>
                    /\ UseUp(LinksOf(u))[t].user = resets[t].user
                    /\ UseUp(LinksOf(u))[t].status # "none"
                    /\ resets[t].status = "used" => UseUp(LinksOf(u))[t].status = "used"
  BY DEF TypeOK, UseUp, LinksOf, Live

LEMMA NextIssued == TypeOK /\ Issued /\ [Next]_vars => Issued'
<1> SUFFICES ASSUME TypeOK, Issued, [Next]_vars PROVE Issued'
  OBVIOUS
<1> USE Disjoint DEF Issued
<1>1. ASSUME NEW f \in Forgots, NEW u \in Users, FindUser(f, u) PROVE Issued'
  BY <1>1 DEF FindUser, TypeOK, Answer
<1>2. ASSUME NEW f \in Forgots, BurnOlder(f) PROVE Issued'
  BY <1>2, UseUpKeeps DEF BurnOlder, TypeOK, Answer
<1>3. ASSUME NEW f \in Forgots, IssueLink(f) PROVE Issued'
  BY <1>3 DEF IssueLink, TypeOK, Answer
<1>4. ASSUME NEW x \in Forgots \cup Invitations, Expire(x) PROVE Issued'
  BY <1>4 DEF Expire
<1>5. ASSUME NEW r \in Redeems, NEW t \in Forgots, ResolveLink(r, t) PROVE Issued'
  BY <1>5 DEF ResolveLink, TypeOK, Answer
<1>6. ASSUME NEW r \in Redeems, SetPassword(r) PROVE Issued'
  BY <1>6 DEF SetPassword, TypeOK, Answer
<1>7. ASSUME NEW r \in Redeems, BurnAll(r) PROVE Issued'
  BY <1>7 DEF BurnAll, TypeOK, Answer
<1>8. ASSUME NEW r \in Redeems, CommitRedeem(r) PROVE Issued'
  BY <1>8, UseUpKeeps DEF CommitRedeem, TypeOK, Answer
<1>9. ASSUME NEW i \in Invitations, Invite(i) PROVE Issued'
  BY <1>9 DEF Invite
<1>10. ASSUME NEW g \in Registers, NEW i \in Invitations, NEW email \in Emails,
              TakeInvitation(g, i, email) PROVE Issued'
  BY <1>10 DEF TakeInvitation, TypeOK, Answer
<1>11. ASSUME NEW g \in Comers, InsertUser(g) PROVE Issued'
  BY <1>11 DEF InsertUser, TypeOK, Answer
<1>12. ASSUME NEW g \in Registers, CommitRegister(g) PROVE Issued'
  BY <1>12 DEF CommitRegister, TypeOK, Answer
<1>13. ASSUME NEW x \in Requests, Abort(x) PROVE Issued'
  BY <1>13 DEF Abort, TypeOK, Answer
<1>14. ASSUME NEW o \in Signups, NEW email \in Emails, FoundOrganization(o, email)
       PROVE  Issued'
  BY <1>14 DEF FoundOrganization, TypeOK, Answer
<1>15. ASSUME NEW o \in Signups, CommitSignup(o) PROVE Issued'
  BY <1>15 DEF CommitSignup, TypeOK, Answer
<1>16. CASE UNCHANGED vars
  BY <1>16 DEF vars
<1> QED
  BY <1>1, <1>2, <1>3, <1>4, <1>5, <1>6, <1>7, <1>8, <1>9, <1>10, <1>11, <1>12,
     <1>13, <1>14, <1>15, <1>16 DEF Next

-----------------------------------------------------------------------------
(* Redemptions.                                                            *)

LEMMA KeptResolved == Resolved /\ Kept => Resolved'
  BY DEF Resolved, Kept, Viewing

LEMMA KeptLinks == Links /\ Kept => Links'
<1> SUFFICES ASSUME Links, Kept PROVE Links'
  OBVIOUS
<1>1. Resolved'
  BY KeptResolved DEF Links
<1>2. OneHolder'
  BY DEF Links, OneHolder, Kept, Holding
<1>3. Losers'
  BY DEF Links, Losers, Resolved, Kept, Viewing
<1>4. RedeemedOnce'
  BY DEF Links, RedeemedOnce, Kept
<1> QED
  BY <1>1, <1>2, <1>3, <1>4 DEF Links

\* Every step but three redeems nothing.
LEMMA MostStepsKeep ==
    ASSUME TypeOK, Issued, [Next]_vars
    PROVE  \/ Kept
           \/ \E r \in Redeems :
                 \/ \E t \in Forgots : ResolveLink(r, t)
                 \/ SetPassword(r)
                 \/ CommitRedeem(r)
<1> USE Disjoint DEF Kept
<1>1. ASSUME NEW f \in Forgots, NEW u \in Users, FindUser(f, u) PROVE Kept
  BY <1>1 DEF FindUser, TypeOK, Answer
<1>2. ASSUME NEW f \in Forgots, BurnOlder(f) PROVE Kept
  BY <1>2, UseUpKeeps DEF BurnOlder, TypeOK, Answer, Missed
<1>3. ASSUME NEW f \in Forgots, IssueLink(f) PROVE Kept
  BY <1>3 DEF IssueLink, TypeOK, Answer, Missed, Issued
<1>4. ASSUME NEW x \in Forgots \cup Invitations, Expire(x) PROVE Kept
  BY <1>4 DEF Expire
<1>5. ASSUME NEW r \in Redeems, BurnAll(r) PROVE Kept
  BY <1>5 DEF BurnAll, TypeOK, Answer
<1>6. ASSUME NEW i \in Invitations, Invite(i) PROVE Kept
  BY <1>6 DEF Invite
<1>7. ASSUME NEW g \in Registers, NEW i \in Invitations, NEW email \in Emails,
             TakeInvitation(g, i, email) PROVE Kept
  BY <1>7 DEF TakeInvitation, TypeOK, Answer
<1>8. ASSUME NEW g \in Comers, InsertUser(g) PROVE Kept
  BY <1>8 DEF InsertUser, TypeOK, Answer
<1>9. ASSUME NEW g \in Registers, CommitRegister(g) PROVE Kept
  BY <1>9 DEF CommitRegister, TypeOK, Answer
<1>10. ASSUME NEW x \in Requests, Abort(x) PROVE Kept
  BY <1>10 DEF Abort, TypeOK, Answer
<1>11. ASSUME NEW o \in Signups, NEW email \in Emails, FoundOrganization(o, email)
       PROVE  Kept
  BY <1>11 DEF FoundOrganization, TypeOK, Answer
<1>12. ASSUME NEW o \in Signups, CommitSignup(o) PROVE Kept
  BY <1>12 DEF CommitSignup, TypeOK, Answer
<1>13. CASE UNCHANGED vars
  BY <1>13 DEF vars
<1> QED
  BY <1>1, <1>2, <1>3, <1>4, <1>5, <1>6, <1>7, <1>8, <1>9, <1>10, <1>11, <1>12,
     <1>13 DEF Next

\* A refused redemption changes nothing, one that resolves reads its link's user.
LEMMA ResolveStep ==
    ASSUME TypeOK, NEW r \in Redeems, NEW t \in Forgots, ResolveLink(r, t)
    PROVE  \/ Kept
           \/ /\ Live(t) /\ phase[r] = "idle"
              /\ UNCHANGED resets
              /\ phase'[r] = "viewed" /\ asks'[r].link = t /\ asks'[r].user = resets[t].user
              /\ \A k \in Redeems \ {r} :
                    phase'[k] = phase[k] /\ asks'[k] = asks[k] /\ missed'[k] = missed[k]
<1>1. r \in Requests /\ \A k \in Redeems : k \in Requests
  BY Disjoint
<1>2. CASE Live(t) /\ t \notin expired
  BY <1>1, <1>2 DEF ResolveLink, TypeOK, Answer
<1>3. CASE ~(Live(t) /\ t \notin expired)
  BY <1>1, <1>3 DEF ResolveLink, TypeOK, Answer, Kept
<1> QED
  BY <1>2, <1>3

LEMMA SetStep ==
    ASSUME TypeOK, NEW r \in Redeems, SetPassword(r)
    PROVE  \/ Kept
           \/ /\ phase[r] = "viewed" /\ phase'[r] = "set"
              /\ SnapshotIsolation => asks[r].user \notin missed[r]
              /\ UNCHANGED <<resets, asks, missed>>
              /\ \A k \in Redeems \ {r} : phase'[k] = phase[k]
<1>1. r \in Requests /\ \A k \in Redeems : k \in Requests
  BY Disjoint
<1>2. CASE SnapshotIsolation /\ asks[r].user \in missed[r]
  BY <1>1, <1>2 DEF SetPassword, TypeOK, Answer, Kept
<1>3. CASE ~(SnapshotIsolation /\ asks[r].user \in missed[r])
  BY <1>1, <1>3 DEF SetPassword, TypeOK, Answer
<1> QED
  BY <1>2, <1>3

LEMMA CommitStep ==
    ASSUME TypeOK, NEW r \in Redeems, CommitRedeem(r)
    PROVE  /\ phase[r] = "burning" /\ phase'[r] = "ok"
           /\ UNCHANGED asks
           /\ resets' = UseUp(LinksOf(asks[r].user))
           /\ \A k \in Redeems : missed[k] \subseteq missed'[k]
           /\ \A k \in Redeems \ {r} :
                 /\ phase'[k] = phase[k]
                 /\ phase[k] \in Viewing => asks[r].user \in missed'[k]
<1>1. r \in Requests /\ \A k \in Redeems : k \in Requests
  BY Disjoint
<1> QED
  BY <1>1 DEF CommitRedeem, TypeOK, Answer, Missed

LEMMA NextResolved == TypeOK /\ Issued /\ Resolved /\ [Next]_vars => Resolved'
<1> SUFFICES ASSUME TypeOK, Issued, Resolved, [Next]_vars PROVE Resolved'
  OBVIOUS
<1>1. CASE Kept
  BY <1>1, KeptResolved
<1>2. ASSUME NEW r \in Redeems, NEW t \in Forgots, ResolveLink(r, t), ~Kept PROVE Resolved'
  BY <1>2, ResolveStep DEF Resolved, Viewing, Live, Issued
<1>3. ASSUME NEW r \in Redeems, SetPassword(r), ~Kept PROVE Resolved'
  BY <1>3, SetStep DEF Resolved, Viewing
<1>4. ASSUME NEW r \in Redeems, CommitRedeem(r) PROVE Resolved'
  BY <1>4, CommitStep, UseUpKeeps DEF Resolved, Viewing
<1> QED
  BY <1>1, <1>2, <1>3, <1>4, MostStepsKeep

LEMMA NextLinks ==
    ASSUME SnapshotIsolation, TypeOK, Issued, Links, [Next]_vars
    PROVE  Links'
<1>1. CASE Kept
  BY <1>1, KeptLinks
<1>2. ASSUME NEW r \in Redeems, NEW t \in Forgots, ResolveLink(r, t), ~Kept PROVE Links'
  <2>1. Resolved'
    BY NextResolved DEF Links
  <2>2. \A k \in Redeems : phase[k] = "ok" => asks[k].link # t
    BY <1>2, ResolveStep DEF Links, Losers, Live
  <2>3. OneHolder'
    BY <1>2, ResolveStep DEF Links, OneHolder, Holding
  <2>4. Losers'
    BY <1>2, <2>2, ResolveStep DEF Links, Losers
  <2>5. RedeemedOnce'
    BY <1>2, ResolveStep DEF Links, RedeemedOnce
  <2> QED
    BY <2>1, <2>3, <2>4, <2>5 DEF Links
<1>3. ASSUME NEW r \in Redeems, SetPassword(r), ~Kept PROVE Links'
  <2>1. Resolved'
    BY NextResolved DEF Links
  <2>2. OneHolder'
    <3>1. ~UserLocked(r, asks[r].user)
      BY <1>3 DEF SetPassword
    <3> QED
      BY <1>3, <3>1, SetStep DEF Links, OneHolder, Holding, UserLocked
  <2>3. Losers'
    BY <1>3, SetStep DEF Links, Losers, Viewing
  <2>4. RedeemedOnce'
    BY <1>3, SetStep DEF Links, RedeemedOnce
  <2> QED
    BY <2>1, <2>2, <2>3, <2>4 DEF Links
<1>4. ASSUME NEW r \in Redeems, CommitRedeem(r) PROVE Links'
  <2>1. Resolved'
    BY NextResolved DEF Links
  <2>2. OneHolder'
    BY <1>4, CommitStep DEF Links, OneHolder, Holding
  <2>3. resets'[asks[r].link].status = "used"
    BY <1>4, CommitStep DEF Links, Resolved, Viewing, TypeOK, UseUp, LinksOf, Live
  <2>4. ASSUME NEW k \in Redeems \ {r}, phase[k] \in Viewing, asks[k].link = asks[r].link
        PROVE  phase[k] = "viewed" /\ asks[k].user = asks[r].user
    BY <1>4, <2>4, CommitStep DEF Links, Resolved, OneHolder, Holding, Viewing
  <2>5. \A k \in Redeems \ {r} : phase[k] = "ok" => asks[k].link # asks[r].link
    BY <1>4, CommitStep DEF Links, Losers, Viewing
  <2>6. Losers'
    <3> SUFFICES ASSUME NEW m \in Redeems, phase'[m] = "ok"
                 PROVE  /\ resets'[asks'[m].link].status = "used"
                        /\ \A k \in Redeems \ {m} :
                              phase'[k] \in Viewing /\ asks'[k].link = asks'[m].link =>
                                 phase'[k] = "viewed" /\ asks'[k].user \in missed'[k]
      BY DEF Losers
    <3>1. CASE m = r
      BY <1>4, <2>3, <2>4, <3>1, CommitStep
    <3>2. CASE m # r
      <4>1. phase[m] = "ok" /\ asks[m].link \in Forgots /\ resets[asks[m].link].status = "used"
        BY <1>4, <3>2, CommitStep DEF Links, Losers, Resolved
      <4>2. resets'[asks'[m].link].status = "used"
        BY <1>4, <4>1, CommitStep, UseUpKeeps
      <4> QED
        BY <1>4, <3>2, <4>1, <4>2, CommitStep DEF Links, Losers, Viewing
    <3> QED
      BY <3>1, <3>2
  <2>7. RedeemedOnce'
    BY <1>4, <2>5, CommitStep DEF Links, RedeemedOnce
  <2> QED
    BY <2>1, <2>2, <2>6, <2>7 DEF Links
<1> QED
  BY <1>1, <1>2, <1>3, <1>4, MostStepsKeep

-----------------------------------------------------------------------------
(* Registrations.                                                          *)

LEMMA AsideRegisters == Claims /\ Accepted /\ Aside => Claims' /\ Accepted'
  BY DEF Claims, Accepted, Aside, Made, Claiming

\* Every step but those of a registration leaves registrations alone.
LEMMA MostStepsAside ==
    ASSUME TypeOK, [Next]_vars
    PROVE  \/ Aside
           \/ \E i \in Invitations : Invite(i)
           \/ \E g \in Registers :
                 \/ \E i \in Invitations, email \in Emails : TakeInvitation(g, i, email)
                 \/ InsertUser(g) \/ CommitRegister(g) \/ Abort(g)
<1> USE Disjoint DEF Aside
<1>1. ASSUME NEW f \in Forgots, NEW u \in Users, FindUser(f, u) PROVE Aside
  BY <1>1 DEF FindUser, TypeOK, Answer
<1>2. ASSUME NEW f \in Forgots, BurnOlder(f) PROVE Aside
  BY <1>2 DEF BurnOlder, TypeOK, Answer
<1>3. ASSUME NEW f \in Forgots, IssueLink(f) PROVE Aside
  BY <1>3 DEF IssueLink, TypeOK, Answer
<1>4. ASSUME NEW x \in Forgots \cup Invitations, Expire(x) PROVE Aside
  BY <1>4 DEF Expire
<1>5. ASSUME NEW r \in Redeems, NEW t \in Forgots, ResolveLink(r, t) PROVE Aside
  BY <1>5 DEF ResolveLink, TypeOK, Answer
<1>6. ASSUME NEW r \in Redeems, SetPassword(r) PROVE Aside
  BY <1>6 DEF SetPassword, TypeOK, Answer
<1>7. ASSUME NEW r \in Redeems, BurnAll(r) PROVE Aside
  BY <1>7 DEF BurnAll, TypeOK, Answer
<1>8. ASSUME NEW r \in Redeems, CommitRedeem(r) PROVE Aside
  BY <1>8 DEF CommitRedeem, TypeOK, Answer
<1>9. ASSUME NEW x \in Forgots \cup Redeems \cup Signups, Abort(x) PROVE Aside
  <2>1. x \in Requests /\ x \notin Registers
    OBVIOUS
  <2>2. \/ UNCHANGED account
        \/ account' = [account EXCEPT ![x] = NoAccount]
    BY <1>9 DEF Abort
  <2> QED
    BY <1>9, <2>1, <2>2 DEF Abort, TypeOK, Answer
<1>10. ASSUME NEW o \in Signups, NEW email \in Emails, FoundOrganization(o, email)
       PROVE  Aside
  BY <1>10 DEF FoundOrganization, TypeOK, Answer
<1>11. ASSUME NEW o \in Signups, InsertUser(o) PROVE Aside
  BY <1>11 DEF InsertUser, TypeOK, Answer
<1>12. ASSUME NEW o \in Signups, CommitSignup(o) PROVE Aside
  BY <1>12 DEF CommitSignup, TypeOK, Answer
<1>13. CASE UNCHANGED vars
  BY <1>13 DEF vars
<1> QED
  BY <1>1, <1>2, <1>3, <1>4, <1>5, <1>6, <1>7, <1>8, <1>9, <1>10, <1>11, <1>12,
     <1>13 DEF Next, Requests

LEMMA NextRegisters ==
    ASSUME TypeOK, Claims, Accepted, [Next]_vars
    PROVE  Claims' /\ Accepted'
<1> USE Disjoint
<1>1. CASE Aside
  BY <1>1, AsideRegisters
<1>2. ASSUME NEW i \in Invitations, Invite(i) PROVE Claims' /\ Accepted'
  BY <1>2 DEF Invite, Claims, Accepted, Made, Claiming, TypeOK
<1>3. ASSUME NEW g \in Registers, NEW i \in Invitations, NEW email \in Emails,
             TakeInvitation(g, i, email) PROVE Claims' /\ Accepted'
  <2>1. /\ phase[g] = "idle"
        /\ UNCHANGED <<invitation, account>>
        /\ \A h \in Registers \ {g} : phase'[h] = phase[h] /\ asks'[h] = asks[h]
    BY <1>3 DEF TakeInvitation, TypeOK, Answer
  <2>2. Accepted'
    BY <2>1 DEF Accepted, Made
  <2>3. CASE phase'[g] = "refused"
    BY <2>1, <2>2, <2>3 DEF Claims, Claiming
  <2>4. CASE /\ phase'[g] = "invited" /\ asks'[g].by = i
             /\ invitation[i] = "pending" /\ ~InvitationLocked(g, i)
    BY <2>1, <2>2, <2>4 DEF Claims, Claiming, InvitationLocked
  <2>5. CASE invitation[i] = "pending" /\ i \notin expired
    <3>1. /\ phase'[g] = "invited" /\ asks'[g].by = i
          /\ invitation[i] = "pending" /\ ~InvitationLocked(g, i)
      BY <1>3, <2>5 DEF TakeInvitation, TypeOK, Answer
    <3> QED
      BY <2>4, <3>1
  <2>6. CASE ~(invitation[i] = "pending" /\ i \notin expired)
    <3>1. phase'[g] = "refused"
      BY <1>3, <2>6 DEF TakeInvitation, TypeOK, Answer
    <3> QED
      BY <2>3, <3>1
  <2> QED
    BY <2>5, <2>6
<1>4. ASSUME NEW g \in Registers, InsertUser(g) PROVE Claims' /\ Accepted'
  <2>1. /\ phase[g] = "invited"
        /\ account[g].status = "none"
        /\ UNCHANGED <<invitation, asks>>
        /\ \A h \in Registers \ {g} : phase'[h] = phase[h] /\ account'[h] = account[h]
    BY <1>4 DEF InsertUser, TypeOK, Answer, Claims
  <2>2. \/ phase'[g] = "refused" /\ account'[g].status = "none"
        \/ /\ phase'[g] = "inserted"
           /\ account'[g].status = "pending" /\ account'[g].by = asks[g].by
    BY <1>4, <2>1 DEF InsertUser, TypeOK, Answer
  <2>3. Accepted'
    <3>1. \A i \in Invitations : Made(i)' = Made(i)
      BY <2>1, <2>2 DEF Made
    <3> QED
      BY <2>1, <3>1 DEF Accepted
  <2>4. Claims'
    BY <2>1, <2>2 DEF Claims, Claiming
  <2> QED
    BY <2>3, <2>4
<1>5. ASSUME NEW g \in Registers, CommitRegister(g) PROVE Claims' /\ Accepted'
  <2>1. PICK i \in Invitations :
        /\ i = asks[g].by
        /\ invitation[i] = "pending"
        /\ account[g].by = i
    BY <1>5 DEF CommitRegister, TypeOK, Claims, Claiming
  <2>2. /\ phase[g] = "inserted" /\ phase'[g] = "ok"
        /\ UNCHANGED asks
        /\ account'[g].by = i /\ account'[g].status = "made"
        /\ \A h \in Registers \ {g} : phase'[h] = phase[h] /\ account'[h] = account[h]
    BY <1>5, <2>1 DEF CommitRegister, TypeOK, Answer
  <2>3. /\ invitation'[i] = "used"
        /\ \A j \in Invitations \ {i} : invitation'[j] = invitation[j]
    BY <1>5, <2>1 DEF CommitRegister, TypeOK
  <2>4. Made(i) = {}
    BY <2>1 DEF Accepted
  <2>5. Made(i)' = {g}
    BY <2>1, <2>2, <2>4 DEF Made
  <2>6. \A j \in Invitations \ {i} : Made(j)' = Made(j)
    BY <2>1, <2>2 DEF Made
  <2>7. ASSUME NEW j \in Invitations
        PROVE  (invitation'[j] = "used" <=> Made(j)' # {}) /\ \A k, h \in Made(j)' : k = h
    <3>1. CASE j = i
      BY <2>3, <2>5, <3>1
    <3>2. CASE j # i
      BY <2>3, <2>6, <3>2 DEF Accepted
    <3> QED
      BY <3>1, <3>2
  <2>8. Accepted'
    BY <2>7 DEF Accepted
  <2>9. Claims'
    BY <2>1, <2>2, <2>3 DEF Claims, Claiming
  <2> QED
    BY <2>8, <2>9
<1>6. ASSUME NEW g \in Registers, Abort(g) PROVE Claims' /\ Accepted'
  <2>1. /\ phase[g] \in Open /\ phase'[g] = "failed"
        /\ account[g].status # "made"
        /\ UNCHANGED <<invitation, asks>>
        /\ \A h \in Registers \ {g} : phase'[h] = phase[h] /\ account'[h] = account[h]
    BY <1>6 DEF Abort, TypeOK, Answer, Claims, Open
  <2>2. account'[g].status = "none"
    <3>1. CASE phase[g] = "inserted"
      BY <1>6, <3>1 DEF Abort, TypeOK, NoAccount
    <3>2. CASE phase[g] # "inserted"
      BY <1>6, <2>1, <3>2 DEF Abort, TypeOK, Claims
    <3> QED
      BY <3>1, <3>2
  <2>3. \A i \in Invitations : Made(i)' = Made(i)
    BY <2>1, <2>2 DEF Made
  <2>4. Accepted'
    BY <2>1, <2>3 DEF Accepted
  <2>5. Claims'
    BY <2>1, <2>2 DEF Claims, Claiming
  <2> QED
    BY <2>4, <2>5
<1> QED
  BY <1>1, <1>2, <1>3, <1>4, <1>5, <1>6, MostStepsAside

-----------------------------------------------------------------------------
(* Addresses.                                                              *)

\* The INSERT of an account passes only if nobody has the address, committed or
\* not.
LEMMA InsertStep ==
    ASSUME TypeOK, Addressed, NEW g \in Comers, InsertUser(g)
    PROVE  Addressed'
<1> USE Disjoint
<1>1. /\ phase[g] \in {"invited", "founded"} /\ g \in Requests
      /\ account[g].status = "none"
      /\ UNCHANGED asks
      /\ \A h \in Comers \ {g} : phase'[h] = phase[h]
  BY DEF InsertUser, TypeOK, Answer, Addressed
<1>2. CASE InUse(asks[g].email)
  <2>1. phase'[g] = "refused" /\ UNCHANGED account
    BY <1>1, <1>2 DEF InsertUser, TypeOK, Answer
  <2>2. \A o \in Signups : organization'[o] = "made" <=> organization[o] = "made"
    BY <1>1, <1>2 DEF InsertUser, Undone, TypeOK, Addressed
  <2> QED
    BY <1>1, <2>1, <2>2 DEF Addressed
<1>3. CASE ~InUse(asks[g].email)
  <2>1. /\ phase'[g] = "inserted" /\ UNCHANGED organization
        /\ account'[g].status = "pending" /\ account'[g].email = asks[g].email
        /\ \A h \in Comers \ {g} : account'[h] = account[h]
    BY <1>1, <1>3 DEF InsertUser, TypeOK, Answer
  <2>2. \A h \in Comers \ {g} : account[h].status = "made" => account[h].email # asks[g].email
    BY <1>3 DEF InUse
  <2>3. \A h \in Comers \ {g} :
           account[h].status = "pending" => account[h].email # asks[g].email
    BY DEF InsertUser, Addressed
  <2>4. \A h \in Comers \ {g} : account[h].status # "none" => account[h].email # asks[g].email
    BY <2>2, <2>3 DEF TypeOK
  <2> QED
    BY <1>1, <2>1, <2>4 DEF Addressed
<1> QED
  BY <1>2, <1>3

LEMMA NextAddressed == TypeOK /\ Addressed /\ [Next]_vars => Addressed'
<1> SUFFICES ASSUME TypeOK, Addressed, [Next]_vars PROVE Addressed'
  OBVIOUS
<1> USE Disjoint DEF Addressed
<1>1. ASSUME NEW f \in Forgots, NEW u \in Users, FindUser(f, u) PROVE Addressed'
  BY <1>1 DEF FindUser, TypeOK, Answer
<1>2. ASSUME NEW f \in Forgots, BurnOlder(f) \/ IssueLink(f) PROVE Addressed'
  BY <1>2 DEF BurnOlder, IssueLink, TypeOK, Answer
<1>3. ASSUME NEW x \in Forgots \cup Invitations, Expire(x) PROVE Addressed'
  BY <1>3 DEF Expire
<1>4. ASSUME NEW r \in Redeems, NEW t \in Forgots, ResolveLink(r, t) PROVE Addressed'
  BY <1>4 DEF ResolveLink, TypeOK, Answer
<1>5. ASSUME NEW r \in Redeems, SetPassword(r) \/ BurnAll(r) \/ CommitRedeem(r)
      PROVE  Addressed'
  BY <1>5 DEF SetPassword, BurnAll, CommitRedeem, TypeOK, Answer
<1>6. ASSUME NEW i \in Invitations, Invite(i) PROVE Addressed'
  BY <1>6 DEF Invite
<1>7. ASSUME NEW g \in Registers, NEW i \in Invitations, NEW email \in Emails,
             TakeInvitation(g, i, email) PROVE Addressed'
  BY <1>7 DEF TakeInvitation, TypeOK, Answer
<1>8. ASSUME NEW g \in Registers, CommitRegister(g) PROVE Addressed'
  BY <1>8 DEF CommitRegister, TypeOK, Answer
<1>9. ASSUME NEW o \in Signups, NEW email \in Emails, FoundOrganization(o, email)
      PROVE  Addressed'
  BY <1>9 DEF FoundOrganization, TypeOK, Answer
<1>10. ASSUME NEW o \in Signups, CommitSignup(o) PROVE Addressed'
  BY <1>10 DEF CommitSignup, TypeOK, Answer
<1>11. ASSUME NEW x \in Requests, Abort(x) PROVE Addressed'
  <2>1. /\ phase[x] \in Open /\ phase'[x] = "failed" /\ UNCHANGED asks
        /\ \A h \in Requests \ {x} : phase'[h] = phase[h]
    BY <1>11 DEF Abort, TypeOK, Answer
  <2>2. x \in Comers => account[x].status # "made" /\ account'[x].status = "none"
    BY <1>11, <2>1 DEF Abort, TypeOK, Open, NoAccount
  <2>3. \A h \in Comers : h # x => account'[h] = account[h]
    BY <1>11 DEF Abort, TypeOK
  <2>4. \A o \in Signups : organization'[o] = "made" <=> organization[o] = "made"
    BY <1>11, <2>2 DEF Abort, Undone, TypeOK
  <2> QED
    BY <2>1, <2>2, <2>3, <2>4
<1>12. CASE UNCHANGED vars
  BY <1>12 DEF vars
<1> QED
  BY <1>1, <1>2, <1>3, <1>4, <1>5, <1>6, <1>7, <1>8, <1>9, <1>10, <1>11, <1>12,
     InsertStep DEF Next

-----------------------------------------------------------------------------
LEMMA InitIInv == Init => IInv /\ Links
<1> SUFFICES ASSUME Init PROVE IInv /\ Links
  OBVIOUS
<1>1. TypeOK
  BY InitTypeOK
<1>2. Issued
  <2>1. \A f \in Forgots : resets[f].status = "none"
    BY DEF Init, NoReset
  <2>2. \A f \in Forgots : phase[f] = "idle"
    BY DEF Init, Requests
  <2> QED
    BY <2>1, <2>2 DEF Issued
<1>3. \A x \in Requests : phase[x] = "idle"
  BY DEF Init
<1>4. Resolved /\ OneHolder /\ Losers /\ RedeemedOnce
  BY <1>3, Disjoint DEF Resolved, OneHolder, Losers, RedeemedOnce, Viewing, Holding
<1>5. Claims /\ Accepted
  BY <1>3, Disjoint DEF Init, Claims, Accepted, Made, Claiming, NoAccount
<1>6. Addressed
  BY <1>3, Disjoint DEF Init, Addressed, NoAccount
<1> QED
  BY <1>1, <1>2, <1>4, <1>5, <1>6 DEF IInv, Links

LEMMA NextIInv == IInv /\ [Next]_vars => IInv'
  BY NextTypeOK, NextIssued, NextResolved, NextRegisters, NextAddressed DEF IInv

\* The invariant of links, accounts and invitations holds with snapshot
\* isolation or without.
THEOREM Invariance == Spec => []IInv
  BY InitIInv, NextIInv, PTL DEF Spec

\* The model is well typed: what is stored for a link, an invitation, an account
\* is a value its column has (migrations 0001, 0025).
THEOREM TypeCorrect == Spec => []TypeOK
<1>1. IInv => TypeOK
  BY DEF IInv
<1> QED
  BY <1>1, Invariance, PTL

LEMMA AcceptedMeansOne == Accepted => OneAccountPerInvitation
<1> SUFFICES ASSUME Accepted, NEW i \in Invitations
             PROVE  Cardinality(Made(i)) = IF invitation[i] = "used" THEN 1 ELSE 0
  BY DEF OneAccountPerInvitation, Made
<1>1. CASE Made(i) = {}
  BY <1>1, FS_EmptySet DEF Accepted
<1>2. CASE Made(i) # {}
  <2>1. PICK g \in Made(i) : Made(i) = {g}
    BY <1>2 DEF Accepted
  <2> QED
    BY <1>2, <2>1, FS_Singleton DEF Accepted
<1> QED
  BY <1>1, <1>2

\* However many people register with it at once, an invitation makes one account,
\* and it is used up exactly when it has made it (auth.route.js:48-101).
THEOREM InvitedOnce == Spec => []OneAccountPerInvitation
<1>1. IInv => OneAccountPerInvitation
  BY AcceptedMeansOne DEF IInv
<1> QED
  BY <1>1, Invariance, PTL

\* Whoever registers or signs up at once, an address has one account in all
\* organizations together, and an organization is never there without its owner
\* (auth.route.js:160-162, 202-209).
THEOREM AddressesUnique == Spec => []OneAccountPerAddress
<1>1. IInv => OneAccountPerAddress
  BY DEF IInv, Addressed, OneAccountPerAddress
<1> QED
  BY <1>1, Invariance, PTL

\* On a server with snapshot isolation a link sets a password once, however many
\* redemptions race (passwordReset.js:148-150).
THEOREM LinkRedeemedOnce == ASSUME SnapshotIsolation PROVE Spec => []RedeemedOnce
<1>1. Init => Links
  BY InitIInv
<1>2. Links /\ IInv /\ [Next]_vars => Links'
  BY NextLinks DEF IInv
<1>3. Links => RedeemedOnce
  BY DEF Links
<1> QED
  BY <1>1, <1>2, <1>3, Invariance, PTL DEF Spec

\* A password is changed only by the commit of a redemption, which uses up every
\* link its user has at that moment, whenever it was issued
\* (auth.route.js:394-397).
THEOREM ResetsBurn == Spec => ResetBurnsAll
<1>1. IInv /\ [Next]_vars =>
        [\A u \in Users : password'[u] # password[u] =>
            \A t \in Forgots : resets[t].user = u /\ Live(t) => resets'[t].status = "used"]_vars
  <2>1. SUFFICES ASSUME IInv, [Next]_vars, NEW u \in Users, password'[u] # password[u],
                        NEW t \in Forgots, resets[t].user = u, Live(t)
                 PROVE  resets'[t].status = "used"
    OBVIOUS
  <2>2. PICK r \in Redeems : CommitRedeem(r)
    BY <2>1 DEF Next, vars, FindUser, BurnOlder, IssueLink, Expire, ResolveLink, SetPassword,
                BurnAll, Invite, TakeInvitation, InsertUser, CommitRegister,
                FoundOrganization, CommitSignup, Abort
  <2>3. t \in LinksOf(asks[r].user)
    BY <2>1, <2>2 DEF CommitRedeem, IInv, TypeOK, LinksOf
  <2>4. resets'[t] = [resets[t] EXCEPT !.status = "used"]
    BY <2>2, <2>3 DEF CommitRedeem, UseUp
  <2>5. resets[t] \in [status : {"none", "live", "used"}, user : Users \cup {None}]
    BY <2>1 DEF IInv, TypeOK
  <2> QED
    BY <2>4, <2>5
<1> QED
  BY <1>1, Invariance, PTL DEF Spec, ResetBurnsAll

-----------------------------------------------------------------------------
(* The account routes implement Credentials.                               *)

Opened == {t \in Forgots : Live(t)}

Inviting == {i \in Invitations : invitation[i] = "pending"}

Founded == {o \in Signups : organization[o] = "made"}

\* What of links, and of invitations and accounts, the abstraction sees.
LinksSeen == <<LinksGiven, Opened, LinksRedeemed, password>>

PeopleSeen == <<Inviting, AccountsMade, Founded>>

LEMMA LinksUnseen ==
    ASSUME UNCHANGED <<resets, password>>,
           \A r \in Redeems : /\ phase'[r] = "ok" <=> phase[r] = "ok"
                              /\ phase[r] = "ok" => asks'[r] = asks[r]
    PROVE  UNCHANGED LinksSeen
<1>1. UNCHANGED LinksGiven
  BY DEF LinksGiven, Given
<1>2. UNCHANGED Opened
  BY DEF Opened, Live
<1>3. UNCHANGED LinksRedeemed
  BY DEF LinksRedeemed
<1> QED
  BY <1>1, <1>2, <1>3 DEF LinksSeen

LEMMA PeopleUnseen ==
    ASSUME UNCHANGED invitation,
           \A g \in Comers : /\ account'[g].status = "made" <=> account[g].status = "made"
                             /\ account[g].status = "made" => account'[g] = account[g],
           \A o \in Signups : organization'[o] = "made" <=> organization[o] = "made"
    PROVE  UNCHANGED PeopleSeen
<1>1. UNCHANGED Inviting
  BY DEF Inviting
<1>2. UNCHANGED AccountsMade
  BY DEF AccountsMade
<1>3. UNCHANGED Founded
  BY DEF Founded
<1> QED
  BY <1>1, <1>2, <1>3 DEF PeopleSeen

\* The links of a user, by their identities.
LEMMA LinksOfUser ==
    ASSUME NEW u
    PROVE  C!OfUser(u) = {t \in Given : resets[t].user = u}
<1> DEFINE link(t) == [id |-> t, user |-> resets[t].user]
           S == {k \in LinksGiven : k.user = u}
<1>1. LinksGiven = {link(t) : t \in Given}
  BY DEF LinksGiven
<1>2. \A t : link(t).id = t /\ link(t).user = resets[t].user
  OBVIOUS
<1> HIDE DEF link
<1>3. S = {link(t) : t \in {x \in Given : resets[x].user = u}}
  BY <1>1, <1>2
<1>4. C!OfUser(u) = {l.id : l \in S}
  BY DEF C!OfUser
<1> HIDE DEF S
<1> QED
  BY <1>2, <1>3, <1>4

\* Burning all links of a user takes them from those that are unspent and leaves
\* everything else about them.
LEMMA BurningWithdraws ==
    ASSUME TypeOK, NEW u, resets' = UseUp(LinksOf(u))
    PROVE  UNCHANGED LinksGiven /\ Opened' = Opened \ C!OfUser(u)
<1>1. \A t \in Forgots : /\ resets'[t].user = resets[t].user
                         /\ resets'[t].status = "none" <=> resets[t].status = "none"
                         /\ resets'[t].status = "live" <=>
                               resets[t].status = "live" /\ resets[t].user # u
  BY DEF TypeOK, UseUp, LinksOf, Live
<1>2. UNCHANGED LinksGiven
  <2>1. UNCHANGED Given
    BY <1>1 DEF Given
  <2> QED
    BY <1>1, <2>1 DEF LinksGiven, Given
<1>3. Opened' = Opened \ C!OfUser(u)
  BY <1>1, LinksOfUser DEF Opened, Live, Given
<1> QED
  BY <1>2, <1>3

\* The address of an account about to be made is free.
LEMMA FreeAddress ==
    ASSUME Addressed, Newcomers, NEW g \in Comers, account[g].status = "pending"
    PROVE  C!Free(account[g].email)
  BY DEF C!Free, Addressed, Newcomers, AccountsMade

\* An account that is made has been there, as it is.
LEMMA MakingKeeps ==
    ASSUME TypeOK, NEW g \in Comers, account' = [account EXCEPT ![g].status = "made"]
    PROVE  \A h \in Comers : /\ account'[h].by = account[h].by
                             /\ account'[h].email = account[h].email
                             /\ h # g => account'[h] = account[h]
  BY DEF TypeOK

LEMMA InitNewcomers == Init => Newcomers
  BY Disjoint DEF Init, Newcomers, NoAsk, NoAccount

LEMMA NextNewcomers == TypeOK /\ Addressed /\ Newcomers /\ [Next]_vars => Newcomers'
<1> SUFFICES ASSUME TypeOK, Addressed, Newcomers, [Next]_vars PROVE Newcomers'
  OBVIOUS
<1> USE Disjoint DEF Newcomers
<1>1. ASSUME NEW f \in Forgots, NEW u \in Users, FindUser(f, u) PROVE Newcomers'
  BY <1>1 DEF FindUser, TypeOK
<1>2. ASSUME NEW f \in Forgots, BurnOlder(f) \/ IssueLink(f) PROVE Newcomers'
  BY <1>2 DEF BurnOlder, IssueLink
<1>3. ASSUME NEW x \in Forgots \cup Invitations, Expire(x) PROVE Newcomers'
  BY <1>3 DEF Expire
<1>4. ASSUME NEW r \in Redeems, NEW t \in Forgots, ResolveLink(r, t) PROVE Newcomers'
  <2>1. \A o \in Signups : asks'[o].by = asks[o].by
    BY <1>4 DEF ResolveLink, TypeOK
  <2> QED
    BY <1>4, <2>1 DEF ResolveLink
<1>5. ASSUME NEW r \in Redeems, SetPassword(r) \/ BurnAll(r) \/ CommitRedeem(r)
      PROVE  Newcomers'
  BY <1>5 DEF SetPassword, BurnAll, CommitRedeem
<1>6. ASSUME NEW i \in Invitations, Invite(i) PROVE Newcomers'
  BY <1>6 DEF Invite
<1>7. ASSUME NEW g \in Registers, NEW i \in Invitations, NEW email \in Emails,
             TakeInvitation(g, i, email) PROVE Newcomers'
  BY <1>7 DEF TakeInvitation, TypeOK
<1>8. ASSUME NEW g \in Registers, CommitRegister(g) PROVE Newcomers'
  BY <1>8, MakingKeeps DEF CommitRegister, Addressed
<1>9. ASSUME NEW o \in Signups, NEW email \in Emails, FoundOrganization(o, email)
      PROVE  Newcomers'
  BY <1>9 DEF FoundOrganization, TypeOK
<1>10. ASSUME NEW o \in Signups, CommitSignup(o) PROVE Newcomers'
  BY <1>10, MakingKeeps DEF CommitSignup, Addressed
<1>11. ASSUME NEW g \in Comers, InsertUser(g) PROVE Newcomers'
  <2>1. \/ UNCHANGED account
        \/ /\ asks[g].email \notin Taken
           /\ account' = [account EXCEPT ![g] =
                  [status |-> "pending", by |-> asks[g].by, email |-> asks[g].email]]
    BY <1>11 DEF InsertUser, InUse
  <2>2. CASE UNCHANGED account
    BY <1>11, <2>2 DEF InsertUser
  <2>3. CASE ~UNCHANGED account
    <3>1. /\ account'[g].by = asks[g].by /\ account'[g].email \notin Taken
          /\ \A h \in Comers \ {g} : account'[h] = account[h]
      BY <2>1, <2>3 DEF TypeOK
    <3> QED
      BY <1>11, <3>1 DEF InsertUser
  <2> QED
    BY <2>2, <2>3
<1>12. ASSUME NEW x \in Requests, Abort(x) PROVE Newcomers'
  BY <1>12 DEF Abort, TypeOK, NoAccount
<1>13. CASE UNCHANGED vars
  BY <1>13 DEF vars
<1> QED
  BY <1>1, <1>2, <1>3, <1>4, <1>5, <1>6, <1>7, <1>8, <1>9, <1>10, <1>11, <1>12,
     <1>13 DEF Next

-----------------------------------------------------------------------------
LEMMA BurnOlderRefines ==
    ASSUME IInv, NEW f \in Forgots, BurnOlder(f)
    PROVE  \E u \in Users : C!Withdraw(u)
<1> DEFINE u == asks[f].user
<1>1. TypeOK /\ u \in Users
  BY DEF BurnOlder, IInv, Issued
<1>2. UNCHANGED LinksGiven /\ Opened' = Opened \ C!OfUser(u)
  BY <1>1, BurningWithdraws DEF BurnOlder
<1>3. UNCHANGED LinksRedeemed
  BY <1>1, Disjoint DEF BurnOlder, LinksRedeemed, Answer, TypeOK
<1>4. UNCHANGED PeopleSeen
  BY PeopleUnseen DEF BurnOlder
<1> QED
  BY <1>1, <1>2, <1>3, <1>4
  DEF BurnOlder, C!Withdraw, C!peopleVars, Opened, PeopleSeen, Inviting, Founded

LEMMA IssueLinkRefines ==
    ASSUME IInv, NEW f \in Forgots, IssueLink(f)
    PROVE  \E l \in LinksGiven' : C!Give(l)
<1> DEFINE u == asks[f].user
           l == [id |-> f, user |-> u]
<1>1. TypeOK /\ u \in Users /\ resets[f].status = "none" /\ phase[f] = "burned"
  BY DEF IssueLink, IInv, Issued
<1>2. resets' = [resets EXCEPT ![f] = [status |-> "live", user |-> u]]
  BY DEF IssueLink
<1>3. /\ resets'[f].status = "live" /\ resets'[f].user = u
      /\ \A t \in Forgots \ {f} : resets'[t] = resets[t]
  BY <1>1, <1>2 DEF TypeOK
<1>4. Given' = Given \cup {f} /\ f \notin Given
  BY <1>1, <1>3 DEF Given
<1>5. LinksGiven' = LinksGiven \cup {l} /\ \A k \in LinksGiven : k.id # f
  BY <1>3, <1>4 DEF LinksGiven, Given
<1>6. Opened' = Opened \cup {f}
  BY <1>3 DEF Opened, Live
<1>7. UNCHANGED LinksRedeemed
  BY <1>1, Disjoint DEF IssueLink, LinksRedeemed, Answer, TypeOK
<1>8. UNCHANGED PeopleSeen
  BY PeopleUnseen DEF IssueLink
<1>9. C!Give(l)
  BY <1>1, <1>5, <1>6, <1>7, <1>8
  DEF IssueLink, C!Give, C!peopleVars, Opened, PeopleSeen, Inviting, Founded
<1> QED
  BY <1>5, <1>9

LEMMA CommitRedeemRefines ==
    ASSUME IInv, Links, NEW r \in Redeems, CommitRedeem(r)
    PROVE  \E l \in LinksGiven, p \in Redeems : C!Redeem(l, p)
<1> DEFINE t == asks[r].link
           u == asks[r].user
           l == [id |-> t, user |-> u]
<1>1. TypeOK /\ phase[r] = "burning"
  BY DEF CommitRedeem, IInv
<1>2. t \in Given /\ u \in Users /\ resets[t].user = u
  BY <1>1 DEF Links, Resolved, Viewing, Given
<1>3. l \in LinksGiven
  BY <1>2 DEF LinksGiven
<1>4. t \notin LinksRedeemed
  BY <1>1 DEF LinksRedeemed, Links, Losers, Viewing
<1>5. LinksRedeemed' = LinksRedeemed \cup {t}
  BY <1>1, CommitStep DEF LinksRedeemed
<1>6. UNCHANGED LinksGiven /\ Opened' = Opened \ C!OfUser(u)
  BY <1>1, BurningWithdraws DEF CommitRedeem
<1>7. UNCHANGED PeopleSeen
  BY PeopleUnseen DEF CommitRedeem
<1>8. C!Redeem(l, r)
  BY <1>4, <1>5, <1>6, <1>7
  DEF CommitRedeem, C!Redeem, C!peopleVars, Opened, PeopleSeen, Inviting, Founded
<1> QED
  BY <1>3, <1>8

LEMMA InviteRefines ==
    ASSUME IInv, Newcomers, NEW i \in Invitations, Invite(i)
    PROVE  C!Invite(i)
<1>1. TypeOK /\ invitation[i] = "none"
  BY DEF Invite, IInv
<1>2. Made(i) = {}
  BY <1>1 DEF IInv, Accepted
<1>3. ASSUME NEW g \in Comers, account[g].status = "made" PROVE account[g].by # i
  <2>1. CASE g \in Registers
    BY <1>2, <1>3, <2>1 DEF Made
  <2>2. CASE g \in Signups
    BY <2>2, AccountsAssumption DEF Newcomers
  <2> QED
    BY <2>1, <2>2, Disjoint
<1>4. \A a \in AccountsMade : a.by # i
  BY <1>3 DEF AccountsMade
<1>5. Inviting' = Inviting \cup {i} /\ i \notin Inviting
  BY <1>1 DEF Invite, Inviting, TypeOK
<1>6. UNCHANGED LinksSeen
  BY LinksUnseen DEF Invite
<1> QED
  BY <1>4, <1>5, <1>6
  DEF Invite, C!Invite, C!linkVars, Inviting, LinksSeen, Opened, AccountsMade

\* An account that is made is new, under an address that was free.
LEMMA AccountJoins ==
    ASSUME TypeOK, NEW g \in Comers, account[g].status = "pending",
           account' = [account EXCEPT ![g].status = "made"]
    PROVE  AccountsMade' = AccountsMade \cup
               {[id |-> g, by |-> account[g].by, email |-> account[g].email]}
<1>1. /\ account'[g].status = "made"
      /\ account'[g].by = account[g].by /\ account'[g].email = account[g].email
      /\ \A h \in Comers \ {g} : account'[h] = account[h]
  BY DEF TypeOK
<1> QED
  BY <1>1 DEF AccountsMade

LEMMA CommitRegisterRefines ==
    ASSUME IInv, Newcomers, NEW g \in Registers, CommitRegister(g)
    PROVE  \E a \in AccountsMade' : C!Join(a)
<1> USE Disjoint
<1> DEFINE i == account[g].by
           a == [id |-> g, by |-> i, email |-> account[g].email]
<1>1. /\ TypeOK /\ phase[g] = "inserted" /\ account[g].status = "pending"
      /\ i = asks[g].by /\ i \in Invitations /\ invitation[i] = "pending"
  BY DEF CommitRegister, IInv, Claims, Claiming
<1>2. AccountsMade' = AccountsMade \cup {a}
  BY <1>1, AccountJoins DEF CommitRegister
<1>3. C!Free(account[g].email)
  BY <1>1, FreeAddress DEF IInv
<1>4. Inviting' = Inviting \ {i} /\ i \in Inviting
  BY <1>1 DEF CommitRegister, Inviting, TypeOK
<1>5. UNCHANGED LinksSeen
  BY <1>1, LinksUnseen DEF CommitRegister, Answer, TypeOK
<1>6. C!Join(a)
  BY <1>2, <1>3, <1>4, <1>5
  DEF CommitRegister, C!Join, C!linkVars, Inviting, LinksSeen, Opened
<1>7. a \in AccountsMade'
  BY <1>2
<1> HIDE DEF a
<1> QED
  BY <1>6, <1>7 DEF C!Join

LEMMA CommitSignupRefines ==
    ASSUME IInv, Newcomers, NEW o \in Signups, CommitSignup(o)
    PROVE  \E a \in AccountsMade' : C!Join(a)
<1> USE Disjoint
<1> DEFINE a == [id |-> o, by |-> account[o].by, email |-> account[o].email]
<1>1. /\ TypeOK /\ phase[o] = "inserted" /\ account[o].status = "pending"
      /\ account[o].by = None
  BY DEF CommitSignup, IInv, Addressed, Newcomers
<1>2. AccountsMade' = AccountsMade \cup {a}
  BY <1>1, AccountJoins DEF CommitSignup
<1>3. C!Free(account[o].email)
  BY <1>1, FreeAddress DEF IInv
<1>4. Founded' = Founded \cup {o}
  BY <1>1 DEF CommitSignup, Founded, TypeOK
<1>5. UNCHANGED LinksSeen
  BY <1>1, LinksUnseen DEF CommitSignup, Answer, TypeOK
<1>6. C!Join(a)
  BY <1>1, <1>2, <1>3, <1>4, <1>5
  DEF CommitSignup, C!Join, C!linkVars, Founded, LinksSeen, Opened
<1>7. a \in AccountsMade'
  BY <1>2
<1> HIDE DEF a
<1> QED
  BY <1>6, <1>7 DEF C!Join

\* The steps that only prepare are seen by nobody.
LEMMA PreparingUnseen ==
    ASSUME IInv, [Next]_vars
    PROVE  \/ UNCHANGED LinksSeen /\ UNCHANGED PeopleSeen
           \/ \E f \in Forgots : BurnOlder(f) \/ IssueLink(f)
           \/ \E r \in Redeems : CommitRedeem(r)
           \/ \E i \in Invitations : Invite(i)
           \/ \E g \in Registers : CommitRegister(g)
           \/ \E o \in Signups : CommitSignup(o)
<1> USE Disjoint
<1> DEFINE Unseen == UNCHANGED LinksSeen /\ UNCHANGED PeopleSeen
<1>1. TypeOK /\ Addressed
  BY DEF IInv
<1>2. ASSUME NEW f \in Forgots, NEW u \in Users, FindUser(f, u) PROVE Unseen
  BY <1>1, <1>2, LinksUnseen, PeopleUnseen DEF FindUser, TypeOK, Answer
<1>3. ASSUME NEW x \in Forgots \cup Invitations, Expire(x) PROVE Unseen
  BY <1>3, LinksUnseen, PeopleUnseen DEF Expire
<1>4. ASSUME NEW r \in Redeems, NEW t \in Forgots, ResolveLink(r, t) PROVE Unseen
  BY <1>1, <1>4, LinksUnseen, PeopleUnseen DEF ResolveLink, TypeOK, Answer
<1>5. ASSUME NEW r \in Redeems, SetPassword(r) \/ BurnAll(r) PROVE Unseen
  BY <1>1, <1>5, LinksUnseen, PeopleUnseen DEF SetPassword, BurnAll, TypeOK, Answer
<1>6. ASSUME NEW g \in Registers, NEW i \in Invitations, NEW email \in Emails,
             TakeInvitation(g, i, email) PROVE Unseen
  BY <1>1, <1>6, LinksUnseen, PeopleUnseen DEF TakeInvitation, TypeOK, Answer
<1>7. ASSUME NEW o \in Signups, NEW email \in Emails, FoundOrganization(o, email)
      PROVE  Unseen
  <2>1. \A q \in Signups : organization'[q] = "made" <=> organization[q] = "made"
    BY <1>1, <1>7 DEF FoundOrganization, TypeOK, Addressed
  <2> QED
    BY <1>1, <1>7, <2>1, LinksUnseen, PeopleUnseen DEF FoundOrganization, TypeOK, Answer
<1>8. ASSUME NEW g \in Comers, InsertUser(g) PROVE Unseen
  <2>1. UNCHANGED LinksSeen
    BY <1>1, <1>8, LinksUnseen DEF InsertUser, TypeOK, Answer
  <2>2. phase[g] \in {"invited", "founded"} /\ account[g].status = "none"
    BY <1>1, <1>8 DEF InsertUser, TypeOK, Addressed
  <2>3. \A o \in Signups : organization'[o] = "made" <=> organization[o] = "made"
    BY <1>1, <1>8, <2>2 DEF InsertUser, Undone, TypeOK, Addressed
  <2>4. \A h \in Comers : /\ account'[h].status = "made" <=> account[h].status = "made"
                          /\ account[h].status = "made" => account'[h] = account[h]
    BY <1>1, <1>8, <2>2 DEF InsertUser, TypeOK
  <2> QED
    BY <1>8, <2>1, <2>3, <2>4, PeopleUnseen DEF InsertUser
<1>9. ASSUME NEW x \in Requests, Abort(x) PROVE Unseen
  <2>1. UNCHANGED LinksSeen
    BY <1>1, <1>9, LinksUnseen DEF Abort, TypeOK, Answer, Open
  <2>2. x \in Comers => account[x].status # "made"
    BY <1>1, <1>9 DEF Abort, Open, Addressed
  <2>3. \A o \in Signups : organization'[o] = "made" <=> organization[o] = "made"
    BY <1>1, <1>9, <2>2 DEF Abort, Undone, TypeOK, Addressed
  <2>4. \A h \in Comers : /\ account'[h].status = "made" <=> account[h].status = "made"
                          /\ account[h].status = "made" => account'[h] = account[h]
    BY <1>1, <1>9, <2>2 DEF Abort, TypeOK, NoAccount
  <2> QED
    BY <1>9, <2>1, <2>3, <2>4, PeopleUnseen DEF Abort
<1>10. CASE UNCHANGED vars
  BY <1>10, LinksUnseen, PeopleUnseen DEF vars
<1> QED
  BY <1>2, <1>3, <1>4, <1>5, <1>6, <1>7, <1>8, <1>9, <1>10 DEF Next

LEMMA InitRefines == Init => C!CredentialsInit
<1> SUFFICES ASSUME Init PROVE C!CredentialsInit
  OBVIOUS
<1>1. /\ LinksGiven = {} /\ {t \in Forgots : Live(t)} = {}
  BY DEF Init, NoReset, LinksGiven, Given, Live
<1>2. LinksRedeemed = {}
  BY Disjoint DEF Init, LinksRedeemed
<1>3. /\ {i \in Invitations : invitation[i] = "pending"} = {} /\ AccountsMade = {}
      /\ {o \in Signups : organization[o] = "made"} = {}
  BY DEF Init, NoAccount, AccountsMade
<1> QED
  BY <1>1, <1>2, <1>3 DEF Init, C!CredentialsInit

LEMMA StepRefines ==
    ASSUME IInv, Links, Newcomers, [Next]_vars
    PROVE  [C!CredentialsNext]_(C!credentialVars)
<1>1. CASE UNCHANGED LinksSeen /\ UNCHANGED PeopleSeen
  BY <1>1 DEF LinksSeen, PeopleSeen, Opened, Inviting, Founded, C!credentialVars
<1>2. ASSUME NEW f \in Forgots, BurnOlder(f) \/ IssueLink(f) PROVE C!CredentialsNext
  BY <1>2, BurnOlderRefines, IssueLinkRefines DEF C!CredentialsNext
<1>3. ASSUME NEW r \in Redeems, CommitRedeem(r) PROVE C!CredentialsNext
  BY <1>3, CommitRedeemRefines DEF C!CredentialsNext
<1>4. ASSUME NEW i \in Invitations, Invite(i) PROVE C!CredentialsNext
  BY <1>4, InviteRefines DEF C!CredentialsNext
<1>5. ASSUME NEW g \in Registers, CommitRegister(g) PROVE C!CredentialsNext
  BY <1>5, CommitRegisterRefines DEF C!CredentialsNext
<1>6. ASSUME NEW o \in Signups, CommitSignup(o) PROVE C!CredentialsNext
  BY <1>6, CommitSignupRefines DEF C!CredentialsNext
<1> QED
  BY <1>1, <1>2, <1>3, <1>4, <1>5, <1>6, PreparingUnseen

\* Every step of the account routes is a step of Credentials or changes nothing
\* of what it speaks of, on a server with snapshot isolation: a link sets a
\* password once, together with the burning of every other link
\* (passwordReset.js:120-126), an invitation is used up together with the account
\* it makes (auth.route.js:48-101), and no failure leaves half of either.
THEOREM CredentialsImplemented ==
    ASSUME SnapshotIsolation PROVE Spec => ImplementsCredentials
<1>1. Init => Links /\ Newcomers
  BY InitIInv, InitNewcomers
<1>2. Links /\ Newcomers /\ IInv /\ [Next]_vars => (Links /\ Newcomers)'
  BY NextLinks, NextNewcomers DEF IInv
<1>3. Init => C!CredentialsInit
  BY InitRefines
<1>4. Links /\ Newcomers /\ IInv /\ [Next]_vars =>
        [C!CredentialsNext]_(C!credentialVars)
  BY StepRefines
<1> QED
  BY <1>1, <1>2, <1>3, <1>4, Invariance, PTL
  DEF Spec, ImplementsCredentials, C!CredentialsSpec

=============================================================================
