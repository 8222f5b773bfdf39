----------------------------- MODULE MCHomework -----------------------------
(* Homework on small sets, with the bodies a PATCH of an assignment has.   *)
EXTENDS Homework, TLC

CONSTANTS w1, w2, w3, k1, e1, v1, v2, p1, p2, p3, d1, d2, a1, s1, s2, teacher, null, same

Nothing == [status |-> Same, limit |-> Same, on |-> {}, off |-> {}]
Publish == [Nothing EXCEPT !.status = "published"]
Retract == [Nothing EXCEPT !.status = "draft"]
NoText  == [Nothing EXCEPT !.off = {"text"}]
NoFiles == [Nothing EXCEPT !.off = {"files"}]
Tighten == [Nothing EXCEPT !.limit = 1]

\* For the runs about students' work, and those about the assignment.
WorkChanges   == {Publish, Tighten}
CourseChanges == {Publish, Retract, NoText, NoFiles}

Interchangeable ==
    Permutations(Students) \cup Permutations(Submits) \cup Permutations(Reviews)
        \cup Permutations(Patches) \cup Permutations(Keys)

=============================================================================
