------------------------------ MODULE MCBooking ------------------------------
(* Booking on small sets.  Starts are quarter hours: Slot = 2 is the lesson *)
(* of 30 minutes, so starts one apart overlap without being equal; existing *)
(* lessons are of 30 or of 60 minutes.                                      *)
EXTENDS Booking, TLC

CONSTANTS q1, q2, q3, c1, c2, l1, s1, s2, t1, t2, owner, null

Interchangeable ==
    Permutations(Requests) \cup Permutations(Cancels)
        \cup Permutations(Students) \cup Permutations(Teachers)

=============================================================================
