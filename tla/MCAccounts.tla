----------------------------- MODULE MCAccounts -----------------------------
(* Accounts on small sets.                                                 *)
EXTENDS Accounts, TLC

CONSTANTS u1, f1, f2, r1, r2, r3, i1, i2, g1, g2, o1, e1, e2, e3, null

Interchangeable ==
    Permutations(Forgots) \cup Permutations(Redeems)
        \cup Permutations(Registers) \cup Permutations(Invitations)
        \cup Permutations(Emails \ Taken)

=============================================================================
