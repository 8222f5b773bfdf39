------------------------------ MODULE Calendar ------------------------------
(***************************************************************************)
(* What the booking routes promise, with no database in it: every teacher  *)
(* has a calendar of lessons, no two lessons of one calendar overlap, a    *)
(* lesson is put on a calendar once, never moves, and once cancelled never *)
(* comes back.  Booking.tla implements this.                               *)
(***************************************************************************)
EXTENDS Naturals

CONSTANTS Ids,        \* identities of bookings
          Teachers    \* owners of a calendar

VARIABLES lessons,    \* the lessons on the calendars
          cancelled   \* identities of the lessons taken off again

calendarVars == <<lessons, cancelled>>

Lesson == [id : Ids, teacher : Teachers, start : Nat, dur : Nat]

\* Half-open intervals [s1, s1+d1) and [s2, s2+d2) meet.
Overlap(s1, d1, s2, d2) == s1 < s2 + d2 /\ s2 < s1 + d1

Clash(a, b) ==
    a.teacher = b.teacher /\ Overlap(a.start, a.dur, b.start, b.dur)

NoClash(S) == \A a, b \in S : a.id # b.id => ~Clash(a, b)

Used == {l.id : l \in lessons} \cup cancelled

CalendarInit ==
    /\ lessons \subseteq Lesson
    /\ NoClash(lessons)
    /\ cancelled = {}

Book(l) ==
    /\ l.id \notin Used
    /\ \A k \in lessons : ~Clash(k, l)
    /\ lessons' = lessons \cup {l}
    /\ UNCHANGED cancelled

Cancel(l) ==
    /\ lessons' = lessons \ {l}
    /\ cancelled' = cancelled \cup {l.id}

CalendarNext ==
    \/ \E l \in lessons' : Book(l)
    \/ \E l \in lessons : Cancel(l)

CalendarSpec == CalendarInit /\ [][CalendarNext]_calendarVars

=============================================================================
