----------------------------- MODULE MCStorage -----------------------------
(* Storage on small sets.                                                  *)
EXTENDS Storage, TLC

CONSTANTS k1, k2, p1, p2, c1, c2, c3, d1, m1, g1, h1, h2, x1, x2, x3, null

Interchangeable ==
    Permutations(Posts) \cup Permutations(StaffComments) \cup Permutations(Replaces)

\* A bound: a behaviour of Spec has requests about videos and files, or requests
\* about pictures, in the one bucket, but not both.
MCNext ==
    \/ /\ step = [x \in Changers |-> "idle"] /\ holders = Holders
       /\ MediaNext /\ UNCHANGED imagesVars
    \/ /\ phase = [x \in Calls |-> "idle"] /\ shelf = [g \in Categories |-> "none"]
       /\ ImagesNext /\ UNCHANGED mediaVars

MCSpec == Init /\ [][MCNext]_vars

=============================================================================
