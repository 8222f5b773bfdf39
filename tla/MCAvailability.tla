--------------------------- MODULE MCAvailability ---------------------------
(* Availability on a calendar in quarter hours whose days have six hours of *)
(* four: a lesson is 2, the clocks change by 4 at 2:00 on date 1.           *)
EXTENDS Availability, TLC

CONSTANTS t1, t2, owner, manager, s1, null, r1

MCRoleOf == (t1 :> "admin") @@ (t2 :> "admin") @@ (owner :> "owner")
            @@ (manager :> "manager") @@ (s1 :> "student")
MCOrgOf == [u \in Users |-> 1]
MCTeacherOf == s1 :> t1

\* 2:00 (minute 8 of date 1) becomes 3:00, or 1:00 again.
Spring == [change |-> At(1, 8) + 8, before |-> -8, after |-> -4]
Autumn == [change |-> At(1, 8) + 4, before |-> -4, after |-> -8]
MCZones == {Spring, Autumn}

MCRanges == {<<0, 6>>, <<2, 8>>, <<5, 12>>, <<8, 14>>, <<13, 23>>}
MCDates == {1}
MCInstants == 0 .. 83
\* 0:00, 1:00, 1:45, 3:15, 3:45 of date 1 in spring; in autumn 1:00, 1:00
\* again, 1:45 again, 2:15, 2:45.
MCWanted == {32, 36, 39, 41, 43}

\* An hour into date 1, and its last hour.
MCNows == {34, 53}
\* A long lesson into date 1.
MCLegacy == {[start |-> 26, minutes |-> 10]}

=============================================================================
