----------------------------- MODULE SlotsProofs -----------------------------
(* Theorems of EasternTime, OpenSlots and Availability, for every zone,     *)
(* length of slot and day, and set of rows that the assumptions allow.      *)
EXTENDS Availability, TLAPS

West(z) == z \in ZoneType /\ z.before =< 0 /\ z.after =< 0

-----------------------------------------------------------------------------
(* The conversion.                                                         *)

\* easternWallClockToUtc inverts the wall clock on every value some instant
\* has: the two passes converge, on the days of a change too.
THEOREM RoundTrip ==
    ASSUME NEW z, West(z), NEW w \in Int, ~Skipped(z, w)
    PROVE  ToUtc(z, w) \in Int /\ WallClock(z, ToUtc(z, w)) = w
BY DEF West, ZoneType, Skipped, ToUtc, WallClock, Offset

\* A value the clock skips is converted to the instant an hour earlier on the
\* wall, not later.
LEMMA FallsBack ==
    ASSUME NEW z, West(z), NEW w \in Int, Skipped(z, w)
    PROVE  /\ ToUtc(z, w) \in Int
           /\ WallClock(z, ToUtc(z, w)) = w - (z.after - z.before)
BY DEF West, ZoneType, Skipped, ToUtc, WallClock, Offset

\* A value the clock shows twice is converted to its first instant.
THEOREM FirstReading ==
    ASSUME NEW z, West(z), NEW t \in Int
    PROVE  /\ WallClock(z, t) \in Int
           /\ ~Skipped(z, WallClock(z, t))
           /\ ToUtc(z, WallClock(z, t)) =< t
BY DEF West, ZoneType, Skipped, ToUtc, WallClock, Offset

LEMMA Monotone ==
    ASSUME NEW z, West(z), NEW v \in Int, NEW w \in Int, v < w,
           ~Skipped(z, v), ~Skipped(z, w)
    PROVE  ToUtc(z, v) < ToUtc(z, w)
BY DEF West, ZoneType, Skipped, ToUtc, WallClock, Offset

LEMMA AtIsInt == ASSUME NEW d \in Int, NEW m \in Int PROVE At(d, m) \in Int
BY DayAssumption DEF At

LEMMA NextMidnight == ASSUME NEW d \in Int PROVE At(d + 1, 0) = At(d, Day)
BY DayAssumption DEF At

LEMMA LaterMidnight ==
    ASSUME NEW c \in Int, NEW d \in Int
    PROVE  /\ c =< d => At(c, 0) =< At(d, 0)
           /\ c < d => At(c + 1, 0) < At(d + 1, 0)
<1>1. Day \in Int /\ Day > 0
  BY DayAssumption
<1>2. ASSUME NEW k \in Int, k >= 0 PROVE k * Day >= 0 /\ (k > 0 => k * Day > 0)
  BY <1>1, <1>2
<1>3. d * Day - c * Day = (d - c) * Day /\ (d + 1) * Day - (c + 1) * Day = (d - c) * Day
  BY <1>1
<1>4. c =< d => (d - c) * Day >= 0 /\ (d - c > 0 => (d - c) * Day > 0)
  BY <1>2
<1> QED
  BY <1>1, <1>3, <1>4 DEF At

LEMMA DateOfAt ==
    ASSUME NEW d \in Int, NEW m \in 0 .. Day - 1
    PROVE  At(d, m) \div Day = d /\ At(d, m) - At(d, 0) = m
BY DayAssumption DEF At

\* A block that neither begins nor ends in the skipped hour closes every slot
\* with an instant at which the wall clock reads one of its times.
LEMMA BlockTouches ==
    ASSUME NEW z, West(z),
           NEW from \in Int, NEW to \in Int, ~Skipped(z, from), ~Skipped(z, to),
           NEW w \in Int, NEW s \in Int, s = ToUtc(z, w),
           ~(z.after < z.before /\ s < z.change /\ z.change < s + SlotMinutes),
           NEW t \in s .. s + SlotMinutes - 1,
           from =< WallClock(z, t), WallClock(z, t) < to
    PROVE  Touches(s, [start |-> ToUtc(z, from), end |-> ToUtc(z, to)])
<1>1. SlotMinutes \in Nat \ {0}
  BY SlotsAssumption
<1>2. ToUtc(z, from) =< t
  BY <1>1 DEF West, ZoneType, Skipped, ToUtc, WallClock, Offset
<1>3. s < ToUtc(z, to)
  BY <1>1 DEF West, ZoneType, Skipped, ToUtc, WallClock, Offset
<1>4. ToUtc(z, from) \in Int /\ ToUtc(z, to) \in Int /\ t \in Int /\ t < s + SlotMinutes
  BY <1>1 DEF West, ZoneType, ToUtc, Offset
<1> QED
  BY <1>1, <1>2, <1>3, <1>4 DEF Touches

-----------------------------------------------------------------------------
(* An open slot and its date.                                              *)

EarlyEnough(z, mid) == \A m \in 0 .. SlotMinutes : ~Skipped(z, mid - m)

\* A slot that ends by its midnight on the wall does so in time.
LEMMA BeforeMidnight ==
    ASSUME NEW z, West(z), NEW mid \in Int, EarlyEnough(z, mid),
           NEW w \in Int, NEW s \in Int, s = ToUtc(z, w),
           WallClock(z, s) + SlotMinutes =< mid,
           NEW t \in s .. s + SlotMinutes - 1
    PROVE  WallClock(z, t) < mid /\ t < ToUtc(z, mid)
<1>1. SlotMinutes \in Nat \ {0}
  BY SlotsAssumption
<1>2. ~Skipped(z, mid) /\ ~Skipped(z, mid - SlotMinutes)
  BY <1>1 DEF EarlyEnough
<1>3. mid - (z.change + z.before) \in 0 .. SlotMinutes => ~Skipped(z, z.change + z.before)
  <2> SUFFICES ASSUME mid - (z.change + z.before) \in 0 .. SlotMinutes
               PROVE  ~Skipped(z, z.change + z.before)
    OBVIOUS
  <2>1. mid - (mid - (z.change + z.before)) = z.change + z.before
    BY DEF West, ZoneType
  <2> QED
    BY <2>1 DEF EarlyEnough
<1>4. /\ z.change + z.before \in Int /\ z.change + z.after \in Int
      /\ z.before \in Int /\ z.after \in Int /\ z.change \in Int
      /\ z.before =< 0 /\ z.after =< 0
      /\ t \in Int /\ s =< t /\ t < s + SlotMinutes
  BY <1>1 DEF West, ZoneType
<1>5. ToUtc(z, mid) \in Int /\ WallClock(z, ToUtc(z, mid)) = mid
  BY <1>2, RoundTrip
<1>6. \/ mid < z.change + z.before
      \/ z.change + z.after =< mid - SlotMinutes
      \/ z.after =< z.before
  BY <1>1, <1>2, <1>3, <1>4 DEF Skipped
<1>7. WallClock(z, t) < mid
  BY <1>1, <1>2, <1>3, <1>4, <1>6 DEF WallClock, Offset
<1>8. s < ToUtc(z, mid)
  BY <1>1, <1>4, <1>5, <1>6 DEF ToUtc, WallClock, Offset
<1>9. t < ToUtc(z, mid)
  BY <1>1, <1>4, <1>5, <1>6, <1>7, <1>8 DEF WallClock, Offset
<1> QED
  BY <1>7, <1>9

\* The day's margin below the lower bound of query 3 is enough for a lesson
\* shorter than a day.
LEMMA AfterLowerBound ==
    ASSUME NEW z, West(z), NEW low \in Int, NEW s \in Int, low + Day =< WallClock(z, s),
           NEW start \in Int, NEW minutes \in Nat, minutes + z.after - z.before =< Day,
           minutes =< Day, s < start + minutes
    PROVE  ToUtc(z, low) =< start
BY DayAssumption DEF West, ZoneType, ToUtc, WallClock, Offset

CalendarDates == Span \cup Dates \cup {DateOf(y, t) : y \in Zones, t \in Wanted}

Seen(a, d) == {e \in Of(a, exceptions) : d =< e.date /\ e.date =< d}

Unblocked(a, d, s) ==
    /\ s \in Candidates(zone, d, Of(a, windows), Seen(a, d))
    /\ \A b \in Blocked(zone, d, Seen(a, d)) : ~Touches(s, b)

LEMMA ZoneFacts ==
    ASSUME TypeOK
    PROVE  /\ West(zone)
           /\ CalendarDates \subseteq Int
           /\ \A d \in CalendarDates :
                 /\ At(d, 0) \in Int /\ At(d + 1, 0) \in Int
                 /\ ~Skipped(zone, At(d, 0)) /\ ~Skipped(zone, At(d + 1, 0))
                 /\ EarlyEnough(zone, At(d + 1, 0))
                 /\ \A m \in 0 .. zone.after - zone.before : ~Skipped(zone, At(d, m))
<1>1. zone \in Zones /\ West(zone)
  BY ZonesAssumption DEF TypeOK, West
<1>2. \A y \in Zones, t \in Wanted : DateOf(y, t) \in Int
  BY ZonesAssumption, AvailabilityAssumption, DayAssumption
  DEF DateOf, WallClock, Offset, ZoneType
<1>3. CalendarDates \subseteq Int
  <2> SUFFICES ASSUME NEW d \in CalendarDates PROVE d \in Int
    OBVIOUS
  <2>1. CASE d \in Dates
    BY <2>1, AvailabilityAssumption
  <2>2. CASE \E y \in Zones, t \in Wanted : d = DateOf(y, t)
    BY <1>2, <2>2
  <2>3. CASE d \in Span
    BY <2>3, AvailabilityAssumption DEF Span
  <2> QED
    BY <2>1, <2>2, <2>3 DEF CalendarDates
<1>4. ASSUME NEW d \in CalendarDates
      PROVE  /\ At(d, 0) \in Int /\ At(d + 1, 0) \in Int
             /\ ~Skipped(zone, At(d, 0)) /\ ~Skipped(zone, At(d + 1, 0))
             /\ EarlyEnough(zone, At(d + 1, 0))
             /\ \A m \in 0 .. zone.after - zone.before : ~Skipped(zone, At(d, m))
  <2>0. d \in Int /\ d + 1 \in Int /\ 0 \in Int
    BY <1>3
  <2>1. At(d, 0) \in Int /\ At(d + 1, 0) \in Int
    BY <2>0, AtIsInt
  <2>2. /\ ~Skipped(zone, At(d, 0)) /\ EarlyEnough(zone, At(d + 1, 0))
        /\ \A m \in 0 .. zone.after - zone.before : ~Skipped(zone, At(d, m))
    BY <1>1, ZonesAssumption DEF CalendarDates, EarlyEnough
  <2>3. 0 \in 0 .. SlotMinutes /\ At(d + 1, 0) - 0 = At(d + 1, 0)
    BY <2>1, SlotsAssumption
  <2> QED
    BY <2>1, <2>2, <2>3 DEF EarlyEnough
<1> QED
  BY <1>1, <1>3, <1>4

LEMMA HoursTimes ==
    ASSUME TypeOK, NEW a \in Teachers, NEW d \in Int, NEW r \in Hours(a, d)
    PROVE  r.from \in Nat /\ r.to \in 0 .. Day
<1>1. CASE r \in windows
  <2>1. r \in Window
    BY <1>1 DEF TypeOK
  <2>2. r.from \in 0 .. Day - 1 /\ r.to \in 0 .. Day - 1
    BY <2>1 DEF Window
  <2> QED
    BY <2>2, DayAssumption
<1>2. CASE r \in exceptions
  <2>1. r \in Exception
    BY <1>2 DEF TypeOK
  <2>2. r.from \in 0 .. Day /\ r.to \in 0 .. Day
    BY <2>1 DEF Exception
  <2> QED
    BY <2>2, DayAssumption
<1> QED
  BY <1>1, <1>2 DEF Hours, Of

\* A candidate of a date falls on that date, whatever the rows say of a skipped
\* minute: no more is skipped than lies between midnight and the change.
LEMMA CandidateOnDate ==
    ASSUME TypeOK, NEW a \in Teachers, NEW d \in CalendarDates,
           NEW s, s \in Candidates(zone, d, Of(a, windows), Seen(a, d))
    PROVE  /\ s \in Int
           /\ At(d, 0) =< WallClock(zone, s)
           /\ WallClock(zone, s) + SlotMinutes =< At(d + 1, 0)
           /\ \E w \in Int : s = ToUtc(zone, w)
<1>0. /\ West(zone) /\ d \in Int /\ SlotMinutes \in Nat \ {0} /\ Day \in Nat \ {0}
      /\ At(d, 0) \in Int /\ At(d + 1, 0) = At(d, 0) + Day
      /\ zone.before \in Int /\ zone.after \in Int /\ zone.change \in Int
      /\ \A m \in 0 .. zone.after - zone.before : ~Skipped(zone, At(d, m))
  BY ZoneFacts, SlotsAssumption, DayAssumption DEF At, West, ZoneType
<1>1. PICK r \in Hours(a, d) : s \in SlotStarts(zone, d, r.from, r.to)
  BY DEF Candidates, Hours, Seen
<1>2. r.from \in Nat /\ r.to \in 0 .. Day
  BY <1>0, HoursTimes
<1>3. PICK m \in r.from .. r.to - SlotMinutes : s = ToUtc(zone, At(d, m))
  BY <1>1 DEF SlotStarts
<1>4. /\ m \in Int /\ At(d, m) \in Int /\ At(d, m) = At(d, 0) + m
      /\ 0 =< m /\ m + SlotMinutes =< Day
  BY <1>0, <1>2, <1>3, AtIsInt DEF At
<1>5. CASE ~Skipped(zone, At(d, m))
  BY <1>0, <1>3, <1>4, <1>5, RoundTrip
<1>6. CASE Skipped(zone, At(d, m))
  <2>1. ~(m =< zone.after - zone.before)
    BY <1>0, <1>4, <1>6
  <2>2. s \in Int /\ WallClock(zone, s) = At(d, m) - (zone.after - zone.before)
    BY <1>0, <1>3, <1>4, <1>6, FallsBack
  <2>3. zone.before < zone.after
    BY <1>0, <1>4, <1>6 DEF Skipped
  <2> QED
    BY <1>0, <1>3, <1>4, <2>1, <2>2, <2>3
<1> QED
  BY <1>5, <1>6

\* What is more, if they say nothing of a skipped minute, it is within the
\* teacher's hours.
LEMMA CandidateWithinHours ==
    ASSUME TypeOK, NEW a \in Teachers, NEW d \in CalendarDates, Readable(a, d),
           NEW s, s \in Candidates(zone, d, Of(a, windows), Seen(a, d))
    PROVE  /\ s \in Int
           /\ DateOf(zone, s) = d
           /\ \E r \in Hours(a, d) : Within(r, s)
           /\ At(d, 0) =< WallClock(zone, s)
           /\ WallClock(zone, s) + SlotMinutes =< At(d + 1, 0)
           /\ \E w \in Int : s = ToUtc(zone, w)
<1>0. West(zone) /\ d \in Int /\ SlotMinutes \in Nat \ {0} /\ Day \in Nat \ {0}
  BY ZoneFacts, SlotsAssumption, DayAssumption
<1>1. PICK r \in Hours(a, d) : s \in SlotStarts(zone, d, r.from, r.to)
  BY DEF Candidates, Hours, Seen
<1>2. r.from \in Nat /\ r.to \in 0 .. Day
  BY <1>0, HoursTimes
<1>3. PICK m \in r.from .. r.to - SlotMinutes :
        (m - r.from) % SlotMinutes = 0 /\ s = ToUtc(zone, At(d, m))
  BY <1>1 DEF SlotStarts
<1>4. m \in Int /\ At(d, m) \in Int /\ zone.before \in Int /\ zone.after \in Int
  BY <1>0, <1>2, <1>3, AtIsInt DEF West, ZoneType
<1>5. \E n \in r.from .. r.to - SlotMinutes : s \in Int /\ WallClock(zone, s) = At(d, n)
  <2>1. CASE ~Skipped(zone, At(d, m))
    BY <1>0, <1>3, <1>4, <2>1, RoundTrip
  <2>2. CASE Skipped(zone, At(d, m))
    <3>1. m - (zone.after - zone.before) >= r.from
      BY <1>3, <2>2 DEF Readable, HoursReadable
    <3>2. zone.after - zone.before > 0
      BY <1>0, <1>4, <2>2 DEF Skipped, West, ZoneType
    <3>3. At(d, m - (zone.after - zone.before)) = At(d, m) - (zone.after - zone.before)
      BY <1>0, <1>4 DEF At
    <3>4. s \in Int /\ WallClock(zone, s) = At(d, m) - (zone.after - zone.before)
      BY <1>0, <1>3, <1>4, <2>2, FallsBack
    <3>5. m - (zone.after - zone.before) \in r.from .. r.to - SlotMinutes
      BY <1>0, <1>2, <1>3, <1>4, <3>1, <3>2
    <3> QED
      BY <3>3, <3>4, <3>5
  <2> QED
    BY <2>1, <2>2
<1>6. PICK n \in r.from .. r.to - SlotMinutes : s \in Int /\ WallClock(zone, s) = At(d, n)
  BY <1>5
<1>7. n \in 0 .. Day - 1 /\ n \in Int /\ r.from =< n /\ n + SlotMinutes =< r.to
  BY <1>0, <1>2, <1>6
<1>8. DateOf(zone, s) = d /\ Minute(s) = n
  BY <1>0, <1>6, <1>7, DateOfAt DEF DateOf, Minute
<1> QED
  BY <1>6, <1>7, <1>8, CandidateOnDate DEF Within

\* No block the date has closes an instant of an unblocked candidate.
LEMMA UnblockedIsNotClosed ==
    ASSUME TypeOK, NEW a \in Teachers, NEW d \in CalendarDates, Readable(a, d),
           NEW s, Unblocked(a, d, s), ClosedDuring(a, s)
    PROVE  Rewound(s)
<1> SUFFICES ASSUME ~Rewound(s) PROVE FALSE
  OBVIOUS
<1>0. /\ West(zone) /\ d \in Int /\ SlotMinutes \in Nat \ {0} /\ Day \in Nat \ {0}
      /\ At(d, 0) \in Int /\ At(d + 1, 0) \in Int
      /\ ~Skipped(zone, At(d, 0)) /\ ~Skipped(zone, At(d + 1, 0))
      /\ EarlyEnough(zone, At(d + 1, 0))
  BY ZoneFacts, SlotsAssumption, DayAssumption
<1>1. /\ s \in Int
      /\ At(d, 0) =< WallClock(zone, s)
      /\ WallClock(zone, s) + SlotMinutes =< At(d + 1, 0)
      /\ \E w \in Int : s = ToUtc(zone, w)
  BY CandidateWithinHours DEF Unblocked
<1>2. PICK w \in Int : s = ToUtc(zone, w)
  BY <1>1
<1>3. PICK t \in SlotTime(s), e \in Of(a, exceptions) : ClosedBy(e, t)
  BY DEF ClosedDuring
<1>4. t \in s .. s + SlotMinutes - 1 /\ t \in Int /\ WallClock(zone, t) \in Int
  BY <1>0, <1>1, <1>3 DEF SlotTime, West, ZoneType, WallClock, Offset
<1>5. WallClock(zone, t) < At(d + 1, 0)
  BY <1>0, <1>1, <1>2, <1>4, BeforeMidnight
<1>6. At(d, 0) =< WallClock(zone, t)
  BY <1>0, <1>1, <1>4 DEF Rewound, West, ZoneType, WallClock, Offset
<1>7. DateOf(zone, t) = d /\ Minute(t) = WallClock(zone, t) - At(d, 0)
  <2>1. PICK n \in 0 .. Day - 1 : WallClock(zone, t) = At(d, n)
    <3>1. WallClock(zone, t) - At(d, 0) \in 0 .. Day - 1
      BY <1>0, <1>4, <1>5, <1>6, NextMidnight DEF At
    <3>2. WallClock(zone, t) = At(d, WallClock(zone, t) - At(d, 0))
      BY <1>0, <1>4 DEF At
    <3> QED
      BY <3>1, <3>2
  <2> QED
    BY <1>0, <2>1, DateOfAt DEF DateOf, Minute
<1>8. e \in Exception /\ e.date = d /\ e.type # "add"
  BY <1>3, <1>7 DEF ClosedBy, TypeOK, Of
<1>9. e \in Seen(a, d) /\ e.from \in Int /\ e.to \in Int
  <2>1. e.from \in 0 .. Day /\ e.to \in 0 .. Day
    BY <1>8 DEF Exception
  <2> QED
    BY <1>0, <1>3, <1>8, <2>1 DEF Seen
<1>10. At(d, e.from) =< WallClock(zone, t) /\ WallClock(zone, t) < At(d, e.to)
  BY <1>0, <1>3, <1>4, <1>7, <1>9 DEF ClosedBy, At
<1>11. CASE e.type = "block"
  <2>1. [start |-> ToUtc(zone, At(d, e.from)), end |-> ToUtc(zone, At(d, e.to))]
            \in Blocked(zone, d, Seen(a, d))
    BY <1>8, <1>9, <1>11 DEF Blocked
  <2>2. ~Skipped(zone, At(d, e.from)) /\ ~Skipped(zone, At(d, e.to))
    BY <1>3, <1>8, <1>11 DEF Readable, BlockReadable
  <2>3. At(d, e.from) \in Int /\ At(d, e.to) \in Int
    BY <1>0, <1>9, AtIsInt
  <2>4. Touches(s, [start |-> ToUtc(zone, At(d, e.from)), end |-> ToUtc(zone, At(d, e.to))])
    BY <1>0, <1>1, <1>2, <1>4, <1>10, <2>2, <2>3, BlockTouches DEF Rewound
  <2> QED
    BY <2>1, <2>4 DEF Unblocked
<1>12. CASE e.type = "day off"
  <2>1. [start |-> ToUtc(zone, At(d, 0)), end |-> ToUtc(zone, At(d + 1, 0))]
            \in Blocked(zone, d, Seen(a, d))
    BY <1>8, <1>9, <1>12 DEF Blocked, DayEnd
  <2>2. Touches(s, [start |-> ToUtc(zone, At(d, 0)), end |-> ToUtc(zone, At(d + 1, 0))])
    BY <1>0, <1>1, <1>2, <1>4, <1>5, <1>6, BlockTouches DEF Rewound
  <2> QED
    BY <2>1, <2>2 DEF Unblocked
<1> QED
  BY <1>8, <1>11, <1>12 DEF Exception

\* A lesson with an instant of a candidate in it is among those query 3 reads,
\* whatever range of dates around the candidate's it is made for.
LEMMA LessonIsRead ==
    ASSUME TypeOK, NEW a \in Teachers, NEW d \in CalendarDates,
           NEW from \in Int, NEW to \in CalendarDates, from =< d, d =< to,
           NEW s, s \in Candidates(zone, d, Of(a, windows), Seen(a, d)),
           NEW b \in Of(a, bookings), b.minutes + zone.after - zone.before =< Day,
           b.minutes =< Day,
           NEW t \in SlotTime(s), b.start =< t, t < b.start + b.minutes
    PROVE  b \in LessonsRead(zone, from, to, Of(a, bookings)) /\ Touches(s, Interval(b))
<1>0. /\ West(zone) /\ d \in Int /\ to \in Int
      /\ SlotMinutes \in Nat \ {0} /\ Day \in Nat \ {0}
      /\ At(d, 0) \in Int /\ At(d + 1, 0) \in Int /\ At(to + 1, 0) \in Int
      /\ ~Skipped(zone, At(d + 1, 0)) /\ EarlyEnough(zone, At(d + 1, 0))
      /\ ~Skipped(zone, At(to + 1, 0))
  BY ZoneFacts, SlotsAssumption, DayAssumption
<1>1. /\ s \in Int
      /\ At(d, 0) =< WallClock(zone, s)
      /\ WallClock(zone, s) + SlotMinutes =< At(d + 1, 0)
      /\ \E w \in Int : s = ToUtc(zone, w)
  BY CandidateOnDate
<1>2. PICK w \in Int : s = ToUtc(zone, w)
  BY <1>1
<1>3. b.start \in Int /\ b.minutes \in Nat \ {0}
  BY DEF TypeOK, Of, Lesson
<1>4. t \in s .. s + SlotMinutes - 1 /\ t \in Int /\ s =< t /\ t < s + SlotMinutes
  BY <1>0, <1>1 DEF SlotTime
<1>5. t < ToUtc(zone, At(d + 1, 0)) /\ ToUtc(zone, At(d + 1, 0)) \in Int
  BY <1>0, <1>1, <1>2, <1>4, BeforeMidnight, RoundTrip
<1>6. ToUtc(zone, At(d + 1, 0)) =< ToUtc(zone, At(to + 1, 0))
      /\ ToUtc(zone, At(to + 1, 0)) \in Int
  <2>1. CASE d = to
    BY <1>0, <1>5, <2>1
  <2>2. CASE d < to
    <3>1. At(d + 1, 0) < At(to + 1, 0)
      BY <1>0, <2>2, LaterMidnight
    <3>2. ToUtc(zone, At(to + 1, 0)) \in Int
      BY <1>0, RoundTrip
    <3> QED
      BY <1>0, <1>5, <3>1, <3>2, Monotone
  <2> QED
    BY <1>0, <2>1, <2>2
<1>7. At(from - 1, 0) \in Int /\ At(from - 1, 0) + Day =< At(d, 0)
  <2>1. At(from - 1, 0) + Day = At(from, 0) /\ At(from - 1, 0) \in Int
    BY <1>0 DEF At
  <2>2. At(from, 0) =< At(d, 0)
    BY <1>0, LaterMidnight
  <2> QED
    BY <2>1, <2>2
<1>8. ToUtc(zone, At(from - 1, 0)) =< b.start
  <2>1. At(from - 1, 0) + Day =< WallClock(zone, s)
    BY <1>0, <1>1, <1>7 DEF West, ZoneType, WallClock, Offset
  <2> QED
    BY <1>0, <1>1, <1>3, <1>4, <1>7, <2>1, AfterLowerBound
<1>9. Touches(s, Interval(b))
  BY <1>0, <1>1, <1>3, <1>4 DEF Touches, Interval
<1>10. b.start < ToUtc(zone, At(to + 1, 0))
  BY <1>3, <1>4, <1>5, <1>6
<1> QED
  BY <1>8, <1>9, <1>10 DEF LessonsRead

LEMMA OpenMeansUnblocked ==
    ASSUME NEW a \in Teachers, NEW d \in Int, NEW s, s \in OpenOn(a, d)
    PROVE  Unblocked(a, d, s)
<1>1. d \in d .. d
  OBVIOUS
<1>2. s \in DaySlots(zone, d, Of(a, windows), Seen(a, d),
                     {Interval(b) : b \in LessonsRead(zone, d, d, Of(a, bookings))}, now)
  BY <1>1 DEF OpenOn, RangeSlots, Seen
<1> QED
  BY <1>2 DEF DaySlots, Unblocked

-----------------------------------------------------------------------------
(* The invariant.  A request whose calendar has not been changed since it   *)
(* read it still holds a slot its calendar offers.                          *)

ShortLessons ==
    \A b \in bookings : b.minutes =< Day /\ b.minutes + zone.after - zone.before =< Day

Fresh ==
    \A r \in Requests :
        request[r] # Idle =>
            /\ request[r].admin \in Teachers
            /\ request[r].slot \in Wanted
            /\ r \notin stale =>
                  Unblocked(request[r].admin, DateOf(zone, request[r].slot), request[r].slot)

IInv == TypeOK /\ ShortLessons /\ Fresh

LEMMA WantedDate == ASSUME TypeOK, NEW t \in Wanted
                    PROVE  DateOf(zone, t) \in CalendarDates /\ DateOf(zone, t) \in Int
<1>1. DateOf(zone, t) \in CalendarDates
  BY DEF CalendarDates, TypeOK
<1> QED
  BY <1>1, ZoneFacts

LEMMA ResolvedIsTeacher == Writable \subseteq Teachers
BY AvailabilityAssumption DEF Writable, Resolve, Teachers

LEMMA InitHolds == Init => IInv
<1> SUFFICES ASSUME Init PROVE IInv
  OBVIOUS
<1>1. PICK t \in Teachers, old \in SUBSET Legacy :
        bookings = {[admin |-> t, start |-> l.start, minutes |-> l.minutes] : l \in old}
  BY DEF Init
<1>2. \A l \in Legacy : l.start \in Int /\ l.minutes \in Nat \ {0}
  BY AvailabilityAssumption
<1>3. bookings \subseteq Lesson
  BY <1>1, <1>2 DEF Lesson
<1>4. TypeOK
  BY <1>3 DEF Init, TypeOK, Idle
<1>5. ShortLessons
  BY <1>1, AvailabilityAssumption DEF Init, ShortLessons
<1>6. Fresh
  BY DEF Init, Fresh
<1> QED
  BY <1>4, <1>5, <1>6 DEF IInv

\* Writing one teacher's calendar leaves the others' slots as they are.
LEMMA CalendarWritten ==
    ASSUME IInv, NEW t \in Teachers, Overtaken(t), UNCHANGED Rest,
           windows' \subseteq Window, exceptions' \subseteq Exception,
           \A a \in Teachers \ {t} : Of(a, windows') = Of(a, windows)
                                     /\ Of(a, exceptions') = Of(a, exceptions)
    PROVE  IInv'
<1>1. TypeOK'
  BY DEF IInv, TypeOK, Rest, Overtaken
<1>2. ShortLessons'
  BY DEF IInv, ShortLessons, Rest
<1>3. Fresh'
  <2>1. ASSUME NEW r \in Requests, request[r] # Idle, r \notin stale'
        PROVE  Unblocked(request[r].admin, DateOf(zone, request[r].slot), request[r].slot)'
    <3>1. r \notin stale /\ request[r].admin # t
      BY <2>1 DEF Overtaken
    <3>2. /\ request[r].admin \in Teachers \ {t}
          /\ Unblocked(request[r].admin, DateOf(zone, request[r].slot), request[r].slot)
      BY <2>1, <3>1 DEF IInv, Fresh
    <3>3. /\ Of(request[r].admin, windows') = Of(request[r].admin, windows)
          /\ Of(request[r].admin, exceptions') = Of(request[r].admin, exceptions)
          /\ UNCHANGED <<request, zone>>
      BY <3>2 DEF Rest
    <3> QED
      BY <3>2, <3>3 DEF Unblocked, Seen, Of
  <2>2. UNCHANGED <<request, zone>>
    BY DEF Rest
  <2> QED
    BY <2>1, <2>2 DEF IInv, Fresh
<1> QED
  BY <1>1, <1>2, <1>3 DEF IInv

LEMMA NewRows ==
    ASSUME NEW t \in Teachers
    PROVE  /\ NewWindow(t) \subseteq Window /\ NewException(t) \subseteq Exception
           /\ \A w \in NewWindow(t) \cup NewException(t) : w.admin = t
<1>1. \A r \in Ranges : r[1] \in 0 .. Day - 1 /\ r[2] \in 0 .. Day - 1 /\ r[1] < r[2]
  BY AvailabilityAssumption
<1>2. 0 .. Day - 1 \subseteq 0 .. Day /\ 0 \in 0 .. Day /\ Day \in 0 .. Day /\ 0 < Day
  BY DayAssumption
<1>3. NewWindow(t) \subseteq Window
  <2> SUFFICES ASSUME NEW d \in 0 .. WeekDays - 1, NEW r \in Ranges
               PROVE  [admin |-> t, dow |-> d, from |-> r[1], to |-> r[2]] \in Window
    BY DEF NewWindow
  <2> QED
    BY <1>1 DEF Window
<1>4. ASSUME NEW d \in Dates, NEW k \in {"block", "add", "day off"},
             NEW from \in 0 .. Day, NEW to \in 0 .. Day, from < to,
             k = "day off" => from = 0 /\ to = Day
      PROVE  On(t, d, k, from, to) \in Exception /\ On(t, d, k, from, to).admin = t
  BY <1>4 DEF On, Exception
<1>5. \A r \in Ranges : r[1] \in 0 .. Day /\ r[2] \in 0 .. Day /\ r[1] < r[2]
  BY <1>1, <1>2
<1>6. \A e \in NewException(t) : e \in Exception /\ e.admin = t
  <2>1. ASSUME NEW k \in {"block", "add"}, NEW e \in Timed(t, k)
        PROVE  e \in Exception /\ e.admin = t
    <3>1. PICK d \in Dates, r \in Ranges : e = On(t, d, k, r[1], r[2])
      BY <2>1 DEF Timed
    <3>2. /\ k \in {"block", "add", "day off"}
          /\ r[1] \in 0 .. Day /\ r[2] \in 0 .. Day /\ r[1] < r[2]
      BY <1>5, <2>1
    <3>3. On(t, d, k, r[1], r[2]) \in Exception /\ On(t, d, k, r[1], r[2]).admin = t
      BY <1>4, <3>2
    <3> QED
      BY <3>1, <3>3
  <2>2. ASSUME NEW e \in DayOff(t) PROVE e \in Exception /\ e.admin = t
    BY <1>2, <1>4, <2>2 DEF DayOff
  <2> QED
    BY <2>1, <2>2 DEF NewException
<1>7. \A w \in NewWindow(t) : w.admin = t
  BY DEF NewWindow
<1> QED
  BY <1>3, <1>6, <1>7

\* A request that ends leaves the others as they were.
LEMMA Unanswered ==
    ASSUME IInv, NEW r \in Requests, request' = [request EXCEPT ![r] = Idle],
           stale' = stale \ {r}, UNCHANGED <<Calendar, zone>>
    PROVE  Fresh'
<1>1. UNCHANGED <<windows, exceptions, zone>>
  BY DEF Calendar
<1>2. ASSUME NEW q \in Requests, request'[q] # Idle
      PROVE  /\ request'[q].admin \in Teachers
             /\ request'[q].slot \in Wanted
             /\ q \notin stale' =>
                   Unblocked(request[q].admin, DateOf(zone, request[q].slot), request[q].slot)'
  <2>1. q # r /\ request'[q] = request[q] /\ (q \notin stale' => q \notin stale)
    BY <1>2 DEF IInv, TypeOK
  <2>2. /\ request[q].admin \in Teachers /\ request[q].slot \in Wanted
        /\ q \notin stale =>
              Unblocked(request[q].admin, DateOf(zone, request[q].slot), request[q].slot)
    BY <1>2, <2>1 DEF IInv, Fresh
  <2> QED
    BY <1>1, <2>1, <2>2 DEF Unblocked, Seen
<1> QED
  BY <1>2 DEF Fresh

LEMMA NextHolds == IInv /\ [Next]_vars => IInv'
<1> SUFFICES ASSUME IInv, [Next]_vars PROVE IInv'
  OBVIOUS
<1>0. TypeOK
  BY DEF IInv
<1>1. CASE CreateWindow
  <2>1. PICK t \in Writable : \E w \in NewWindow(t) :
          windows' = windows \cup {w} /\ Overtaken(t) /\ UNCHANGED <<exceptions, Rest>>
    BY <1>1 DEF CreateWindow
  <2>2. t \in Teachers
    BY ResolvedIsTeacher
  <2> QED
    BY <1>0, <2>1, <2>2, CalendarWritten, NewRows DEF Of, TypeOK
<1>2. CASE UpdateWindow
  <2>1. PICK t \in Writable : \E old \in Of(t, windows), w \in NewWindow(t) :
          /\ windows' = (windows \ {old}) \cup {w}
          /\ Overtaken(t) /\ UNCHANGED <<exceptions, Rest>>
    BY <1>2 DEF UpdateWindow
  <2>2. t \in Teachers
    BY ResolvedIsTeacher
  <2> QED
    BY <1>0, <2>1, <2>2, CalendarWritten, NewRows DEF Of, TypeOK
<1>3. CASE DeleteWindow
  <2>1. PICK t \in Writable : \E old \in Of(t, windows) :
          windows' = windows \ {old} /\ Overtaken(t) /\ UNCHANGED <<exceptions, Rest>>
    BY <1>3 DEF DeleteWindow
  <2>2. t \in Teachers
    BY ResolvedIsTeacher
  <2> QED
    BY <1>0, <2>1, <2>2, CalendarWritten DEF Of, TypeOK
<1>4. CASE CreateException
  <2>1. PICK t \in Writable : \E e \in NewException(t) :
          exceptions' = exceptions \cup {e} /\ Overtaken(t) /\ UNCHANGED <<windows, Rest>>
    BY <1>4 DEF CreateException
  <2>2. t \in Teachers
    BY ResolvedIsTeacher
  <2> QED
    BY <1>0, <2>1, <2>2, CalendarWritten, NewRows DEF Of, TypeOK
<1>5. CASE UpdateException
  <2>1. PICK t \in Writable : \E old \in Of(t, exceptions), e \in NewException(t) :
          /\ exceptions' = (exceptions \ {old}) \cup {e}
          /\ Overtaken(t) /\ UNCHANGED <<windows, Rest>>
    BY <1>5 DEF UpdateException
  <2>2. t \in Teachers
    BY ResolvedIsTeacher
  <2> QED
    BY <1>0, <2>1, <2>2, CalendarWritten, NewRows DEF Of, TypeOK
<1>6. CASE DeleteException
  <2>1. PICK t \in Writable : \E old \in Of(t, exceptions) :
          exceptions' = exceptions \ {old} /\ Overtaken(t) /\ UNCHANGED <<windows, Rest>>
    BY <1>6 DEF DeleteException
  <2>2. t \in Teachers
    BY ResolvedIsTeacher
  <2> QED
    BY <1>0, <2>1, <2>2, CalendarWritten DEF Of, TypeOK
<1>7. ASSUME NEW r \in Requests, NEW s \in Students, NEW slot \in Wanted,
             ReadOpenSlots(r, s, slot)
      PROVE  IInv'
  <2>1. TeacherOf[s] \in Teachers /\ slot \in Int
    BY <1>7, AvailabilityAssumption DEF ReadOpenSlots
  <2>2. TypeOK'
    BY <1>0, <1>7, <2>1 DEF TypeOK, ReadOpenSlots, Calendar
  <2>3. ShortLessons'
    BY <1>7 DEF IInv, ShortLessons, ReadOpenSlots, Calendar
  <2>4. Unblocked(TeacherOf[s], DateOf(zone, slot), slot)
    BY <1>0, <1>7, <2>1, WantedDate, OpenMeansUnblocked DEF ReadOpenSlots
  <2>5. UNCHANGED <<windows, exceptions, zone, stale>>
    BY <1>7 DEF ReadOpenSlots, Calendar
  <2>6. request'[r] = [admin |-> TeacherOf[s], slot |-> slot]
    BY <1>0, <1>7 DEF ReadOpenSlots, TypeOK
  <2>7. Unblocked(request[r].admin, DateOf(zone, request[r].slot), request[r].slot)'
    BY <2>4, <2>5, <2>6 DEF Unblocked, Seen
  <2>8. ASSUME NEW q \in Requests, q # r, request'[q] # Idle
        PROVE  /\ request'[q].admin \in Teachers
               /\ request'[q].slot \in Wanted
               /\ q \notin stale =>
                     Unblocked(request[q].admin, DateOf(zone, request[q].slot),
                               request[q].slot)'
    <3>1. request'[q] = request[q]
      BY <1>0, <1>7, <2>8 DEF ReadOpenSlots, TypeOK
    <3>2. /\ request[q].admin \in Teachers /\ request[q].slot \in Wanted
          /\ q \notin stale =>
                Unblocked(request[q].admin, DateOf(zone, request[q].slot), request[q].slot)
      BY <2>8, <3>1 DEF IInv, Fresh
    <3> QED
      BY <2>5, <3>1, <3>2 DEF Unblocked, Seen
  <2>9. request'[r].admin \in Teachers /\ request'[r].slot \in Wanted
    BY <2>1, <2>6
  <2>10. Fresh'
    BY <2>5, <2>7, <2>8, <2>9 DEF Fresh
  <2> QED
    BY <2>2, <2>3, <2>10 DEF IInv
<1>8. ASSUME NEW r \in Requests, Insert(r) PROVE IInv'
  <2>1. Asked(r) \in Lesson /\ Asked(r).minutes = SlotMinutes
    <3>1. request[r].admin \in Teachers /\ request[r].slot \in Int
      BY <1>8, AvailabilityAssumption DEF IInv, Fresh, Insert
    <3> QED
      BY <3>1, SlotsAssumption DEF Asked, Lesson
  <2>2. SlotMinutes =< Day /\ SlotMinutes + zone.after - zone.before =< Day
    BY <1>0, AvailabilityAssumption DEF TypeOK
  <2>3. TypeOK'
    BY <1>0, <1>8, <2>1 DEF TypeOK, Insert, Calendar, Idle
  <2>4. ShortLessons'
    BY <1>8, <2>1, <2>2 DEF IInv, ShortLessons, Insert, Calendar
  <2>5. Fresh'
    BY <1>8, Unanswered DEF Insert
  <2> QED
    BY <2>3, <2>4, <2>5 DEF IInv
<1>9. ASSUME NEW r \in Requests, Refused(r) PROVE IInv'
  <2>1. TypeOK'
    BY <1>0, <1>9 DEF TypeOK, Refused, Calendar, Idle
  <2>2. ShortLessons'
    BY <1>9 DEF IInv, ShortLessons, Refused, Calendar
  <2>3. Fresh'
    BY <1>9, Unanswered DEF Refused
  <2> QED
    BY <2>1, <2>2, <2>3 DEF IInv
<1>10. ASSUME NEW b \in bookings, Cancel(b) PROVE IInv'
  BY <1>10 DEF IInv, TypeOK, ShortLessons, Fresh, Unblocked, Seen, Cancel, Calendar
<1>11. ASSUME NEW t \in Nows, Advance(t) PROVE IInv'
  BY <1>11 DEF IInv, TypeOK, ShortLessons, Fresh, Unblocked, Seen, Advance, Calendar
<1>12. CASE UNCHANGED vars
  BY <1>12 DEF vars, IInv, TypeOK, ShortLessons, Fresh, Unblocked, Seen
<1> QED
  BY <1>1, <1>2, <1>3, <1>4, <1>5, <1>6, <1>7, <1>8, <1>9, <1>10, <1>11, <1>12 DEF Next

LEMMA Invariance == Spec => []IInv
BY InitHolds, NextHolds, PTL DEF Spec

-----------------------------------------------------------------------------
(* What a range of dates offers, and all of it.                            *)

\* An interval that is not empty meets a slot at the later of their starts.
LEMMA MeetsAt ==
    ASSUME NEW s \in Int, NEW b \in Int, NEW e \in Int, b < e,
           Touches(s, [start |-> b, end |-> e])
    PROVE  \E t \in SlotTime(s) : b =< t /\ t < e /\ (t = s \/ t = b)
<1>1. SlotMinutes \in Nat \ {0} /\ s < e /\ b < s + SlotMinutes
  BY SlotsAssumption DEF Touches
<1>2. CASE b =< s
  <2>1. s \in SlotTime(s)
    BY <1>1 DEF SlotTime
  <2> QED
    BY <1>1, <1>2, <2>1
<1>3. CASE s < b
  <2>1. b \in SlotTime(s)
    BY <1>1, <1>3 DEF SlotTime
  <2> QED
    BY <1>3, <2>1
<1> QED
  BY <1>2, <1>3

\* Exceptions of other dates, which a range reads too, change nothing.
LEMMA OtherDates ==
    ASSUME TypeOK, NEW a \in Teachers, NEW from \in Int, NEW to \in Int,
           NEW d \in from .. to
    PROVE  LET read == {e \in Of(a, exceptions) : from =< e.date /\ e.date =< to}
           IN  /\ Candidates(zone, d, Of(a, windows), read)
                     = Candidates(zone, d, Of(a, windows), Seen(a, d))
               /\ Blocked(zone, d, read) = Blocked(zone, d, Seen(a, d))
<1> DEFINE read == {e \in Of(a, exceptions) : from =< e.date /\ e.date =< to}
<1>1. \A e \in Of(a, exceptions) : e.date \in Int
  <2> SUFFICES ASSUME NEW e \in Of(a, exceptions) PROVE e.date \in Int
    OBVIOUS
  <2>1. e \in Exception
    BY DEF TypeOK, Of
  <2>2. e.date \in Dates
    BY <2>1 DEF Exception
  <2> QED
    BY <2>2, AvailabilityAssumption
<1>2. \A e \in Of(a, exceptions) : e.date = d => e \in read /\ e \in Seen(a, d)
  BY <1>1 DEF Seen
<1>3. /\ {e \in read : e.type = "add" /\ e.date = d}
            = {e \in Seen(a, d) : e.type = "add" /\ e.date = d}
      /\ {e \in read : e.type = "day off" /\ e.date = d}
            = {e \in Seen(a, d) : e.type = "day off" /\ e.date = d}
      /\ {e \in read : e.type = "block" /\ e.date = d}
            = {e \in Seen(a, d) : e.type = "block" /\ e.date = d}
  BY <1>2 DEF Seen
<1> QED
  BY <1>3 DEF Candidates, Blocked

\* Query 3 reads every lesson that meets a candidate of any date of its range.
LEMMA SlotOfRange ==
    ASSUME TypeOK, ShortLessons, NEW a \in Teachers,
           NEW from \in Int, NEW to \in CalendarDates, NEW d \in from .. to,
           d \in CalendarDates, NEW s
    PROVE  s \in RangeSlots(zone, from, to, Of(a, windows), Of(a, exceptions),
                            Of(a, bookings), now)[d]
           <=> /\ Unblocked(a, d, s)
               /\ DateOf(zone, now) = d => s >= now
               /\ \A b \in Of(a, bookings) : ~Touches(s, Interval(b))
<1>0. to \in Int /\ from =< d /\ d =< to /\ d \in Int
  BY ZoneFacts
<1> DEFINE read == {e \in Of(a, exceptions) : from =< e.date /\ e.date =< to}
           L    == LessonsRead(zone, from, to, Of(a, bookings))
<1>1. RangeSlots(zone, from, to, Of(a, windows), Of(a, exceptions), Of(a, bookings), now)[d]
        = DaySlots(zone, d, Of(a, windows), read, {Interval(b) : b \in L}, now)
  BY DEF RangeSlots
<1>2. DaySlots(zone, d, Of(a, windows), read, {Interval(b) : b \in L}, now)
        = {c \in Candidates(zone, d, Of(a, windows), Seen(a, d)) :
              /\ DateOf(zone, now) = d => c >= now
              /\ \A b \in Blocked(zone, d, Seen(a, d)) : ~Touches(c, b)
              /\ \A l \in {Interval(b) : b \in L} : ~Touches(c, l)}
  BY <1>0, OtherDates DEF DaySlots
<1>3. ASSUME s \in Candidates(zone, d, Of(a, windows), Seen(a, d)),
             NEW b \in Of(a, bookings), Touches(s, Interval(b))
      PROVE  b \in L
  <2>1. s \in Int
    BY <1>3, CandidateOnDate
  <2>2. /\ b.start \in Int /\ b.minutes \in Nat \ {0}
        /\ b.minutes =< Day /\ b.minutes + zone.after - zone.before =< Day
    BY DEF TypeOK, Of, Lesson, ShortLessons
  <2>3. PICK t \in SlotTime(s) : b.start =< t /\ t < b.start + b.minutes
    BY <1>3, <2>1, <2>2, MeetsAt DEF Interval
  <2> QED
    BY <1>0, <1>3, <2>2, <2>3, LessonIsRead
<1>4. L \subseteq Of(a, bookings)
  BY DEF LessonsRead
<1> QED
  BY <1>1, <1>2, <1>3, <1>4 DEF Unblocked

\* A block meets no slot the wall clock does not show to be within it.
LEMMA OnlyClosedIsBlocked ==
    ASSUME TypeOK, NEW a \in Teachers, NEW d \in CalendarDates, Readable(a, d),
           NEW s \in Int, ToUtc(zone, WallClock(zone, s)) = s, DateOf(zone, s) = d,
           NEW b \in Blocked(zone, d, Seen(a, d)), Touches(s, b)
    PROVE  ClosedDuring(a, s)
<1>0. /\ West(zone) /\ d \in Int /\ Day \in Nat \ {0}
      /\ At(d, 0) \in Int /\ ~Skipped(zone, At(d, 0)) /\ ~Skipped(zone, At(d + 1, 0))
      /\ WallClock(zone, s) \in Int /\ ~Skipped(zone, WallClock(zone, s))
  BY ZoneFacts, DayAssumption, FirstReading
<1>1. PICK e \in Seen(a, d) :
        /\ e.type # "add" /\ e.date = d
        /\ ~Skipped(zone, At(d, e.from)) /\ ~Skipped(zone, At(d, e.to))
        /\ e \in Exception
        /\ b = [start |-> ToUtc(zone, At(d, e.from)), end |-> ToUtc(zone, At(d, e.to))]
  <2>1. CASE \E e \in Seen(a, d) :
               /\ e.type = "block" /\ e.date = d
               /\ b = [start |-> ToUtc(zone, At(d, e.from)), end |-> ToUtc(zone, At(d, e.to))]
    BY <2>1 DEF Seen, Of, TypeOK, Readable, BlockReadable
  <2>2. CASE \E e \in Seen(a, d) :
               /\ e.type = "day off" /\ e.date = d
               /\ b = [start |-> ToUtc(zone, At(d, 0)), end |-> ToUtc(zone, At(d + 1, 0))]
    <3>1. PICK e \in Seen(a, d) : e.type = "day off" /\ e.date = d
      BY <2>2
    <3>2. e \in Exception
      BY DEF Seen, Of, TypeOK
    <3>3. e.from = 0 /\ e.to = Day
      BY <3>1, <3>2 DEF Exception
    <3> QED
      BY <1>0, <2>2, <3>1, <3>2, <3>3, NextMidnight
  <2> QED
    BY <2>1, <2>2 DEF Blocked, DayEnd
<1>2. e.from \in 0 .. Day /\ e.to \in 0 .. Day /\ e.from < e.to /\ e \in Of(a, exceptions)
  BY <1>1 DEF Exception, Seen
<1>3. /\ At(d, e.from) \in Int /\ At(d, e.to) \in Int /\ At(d, e.from) < At(d, e.to)
      /\ e.from \in 0 .. Day - 1
  BY <1>0, <1>2 DEF At
<1>4. /\ ToUtc(zone, At(d, e.from)) \in Int /\ ToUtc(zone, At(d, e.to)) \in Int
      /\ ToUtc(zone, At(d, e.from)) < ToUtc(zone, At(d, e.to))
      /\ WallClock(zone, ToUtc(zone, At(d, e.from))) = At(d, e.from)
  BY <1>0, <1>1, <1>3, RoundTrip, Monotone
<1>5. PICK t \in SlotTime(s) :
        /\ ToUtc(zone, At(d, e.from)) =< t /\ t < ToUtc(zone, At(d, e.to))
        /\ t = s \/ t = ToUtc(zone, At(d, e.from))
  BY <1>1, <1>4, MeetsAt
<1>6. CASE t = ToUtc(zone, At(d, e.from))
  <2>1. WallClock(zone, t) = At(d, e.from)
    BY <1>4, <1>6
  <2>2. DateOf(zone, t) = d /\ Minute(t) = e.from
    BY <1>0, <1>3, <2>1, DateOfAt DEF DateOf, Minute
  <2> QED
    BY <1>1, <1>2, <1>5, <2>2 DEF ClosedDuring, ClosedBy
<1>7. CASE t = s
  <2>1. At(d, e.from) =< WallClock(zone, s)
    <3>1. WallClock(zone, s) < At(d, e.from) =>
            ToUtc(zone, WallClock(zone, s)) < ToUtc(zone, At(d, e.from))
      BY <1>0, <1>1, <1>3, Monotone
    <3> QED
      BY <1>0, <1>3, <1>4, <1>5, <1>7, <3>1
  <2>2. WallClock(zone, s) < At(d, e.to)
    <3>1. At(d, e.to) < WallClock(zone, s) =>
            ToUtc(zone, At(d, e.to)) < ToUtc(zone, WallClock(zone, s))
      BY <1>0, <1>1, <1>3, Monotone
    <3>2. At(d, e.to) # WallClock(zone, s)
      BY <1>5, <1>7
    <3> QED
      BY <1>0, <1>3, <1>4, <1>5, <1>7, <3>1, <3>2
  <2>3. e.from =< Minute(s) /\ Minute(s) < e.to
    BY <1>0, <1>2, <2>1, <2>2 DEF Minute, At
  <2> QED
    BY <1>1, <1>2, <1>5, <1>7, <2>3 DEF ClosedDuring, ClosedBy
<1> QED
  BY <1>5, <1>6, <1>7

\* A time the wall shows for the first time is what its reading is converted to.
LEMMA FirstShown ==
    ASSUME NEW z, West(z), NEW s \in Int,
           z.change =< s => ~Repeated(z, WallClock(z, s))
    PROVE  ToUtc(z, WallClock(z, s)) = s
BY DEF West, ZoneType, Repeated, ToUtc, WallClock, Offset

LEMMA FreeTimeIsOpen ==
    ASSUME TypeOK, ShortLessons, NEW a \in Teachers, NEW d \in Dates, Readable(a, d),
           NEW s \in FreeTime(a, d)
    PROVE  s \in OpenOn(a, d)
<1>0. /\ West(zone) /\ d \in CalendarDates /\ d \in Int
      /\ SlotMinutes \in Nat \ {0} /\ Day \in Nat \ {0}
  BY ZoneFacts, SlotsAssumption, DayAssumption DEF CalendarDates
<1>1. /\ s \in Int /\ DateOf(zone, s) = d
      /\ ~ClosedDuring(a, s) /\ ~LessonDuring(a, s)
      /\ DateOf(zone, now) = d => s >= now
  BY AvailabilityAssumption DEF FreeTime
<1>2. PICK r \in Hours(a, d) : OpenedBy(r, s)
  BY DEF FreeTime
<1>3. ToUtc(zone, WallClock(zone, s)) = s /\ WallClock(zone, s) \in Int
  BY <1>0, <1>1, <1>2, FirstShown, FirstReading DEF OpenedBy
<1>4. s \in Candidates(zone, d, Of(a, windows), Seen(a, d))
  <2>1. r.from \in Nat /\ r.to \in 0 .. Day
    BY <1>0, HoursTimes
  <2>2. /\ WallClock(zone, s) = At(d, Minute(s)) /\ Minute(s) \in Int
    BY <1>0, <1>1, <1>3, AtIsInt DEF Minute, At
  <2>3. /\ Minute(s) \in r.from .. r.to - SlotMinutes
        /\ (Minute(s) - r.from) % SlotMinutes = 0
    BY <1>0, <1>2, <2>1, <2>2 DEF OpenedBy, Within
  <2>4. s \in SlotStarts(zone, d, r.from, r.to)
    BY <1>3, <2>2, <2>3 DEF SlotStarts
  <2>5. r \in {w \in Of(a, windows) : w.dow = DayOfWeek(d)}
              \cup {e \in Seen(a, d) : e.type = "add" /\ e.date = d}
    BY <1>0 DEF Hours, Seen
  <2> QED
    BY <2>4, <2>5 DEF Candidates
<1>5. \A b \in Blocked(zone, d, Seen(a, d)) : ~Touches(s, b)
  BY <1>0, <1>1, <1>3, OnlyClosedIsBlocked
<1>6. ASSUME NEW b \in Of(a, bookings), Touches(s, Interval(b)) PROVE FALSE
  <2>1. b.start \in Int /\ b.minutes \in Nat \ {0}
    BY DEF TypeOK, Of, Lesson
  <2>2. \E t \in SlotTime(s) : b.start =< t /\ t < b.start + b.minutes
    BY <1>1, <1>6, <2>1, MeetsAt DEF Interval
  <2> QED
    BY <1>1, <2>2 DEF LessonDuring
<1>7. d \in d .. d
  BY <1>0
<1> QED
  BY <1>0, <1>1, <1>4, <1>5, <1>6, <1>7, SlotOfRange DEF OpenOn, Unblocked

-----------------------------------------------------------------------------
\* Every row of the calendars belongs to a teacher and respects the tables'
\* CHECKs, whoever writes it.
THEOREM TypeCorrect == Spec => []TypeOK
<1>1. IInv => TypeOK
  BY DEF IInv
<1> QED
  BY <1>1, Invariance, PTL

\* computeDayOpenSlots offers only time that the wall clock shows to be within
\* the teacher's hours, outside the blocks and free of lessons, on every date
\* whose rows do not speak of a skipped minute.
THEOREM OnlyFreeTimeIsOffered == Spec => []OffersOnlyFreeTime
<1>1. IInv => OffersOnlyFreeTime
  <2> SUFFICES ASSUME IInv, NEW a \in Teachers, NEW d \in Dates, Readable(a, d),
                      NEW s \in OpenOn(a, d)
               PROVE  /\ DateOf(zone, s) = d
                      /\ \E r \in Hours(a, d) : Within(r, s)
                      /\ ClosedDuring(a, s) => Rewound(s)
                      /\ ~LessonDuring(a, s)
    BY DEF OffersOnlyFreeTime
  <2>1. TypeOK /\ d \in CalendarDates /\ d \in Int
    BY ZoneFacts DEF IInv, CalendarDates
  <2>2. Unblocked(a, d, s) /\ \A b \in Of(a, bookings) : ~Touches(s, Interval(b))
    <3>1. d \in d .. d
      BY <2>1
    <3> QED
      BY <2>1, <3>1, SlotOfRange DEF OpenOn, IInv
  <2>3. DateOf(zone, s) = d /\ \E r \in Hours(a, d) : Within(r, s)
    BY <2>1, <2>2, CandidateWithinHours DEF Unblocked
  <2>4. ClosedDuring(a, s) => Rewound(s)
    BY <2>1, <2>2, UnblockedIsNotClosed
  <2>5. ~LessonDuring(a, s)
    <3> SUFFICES ASSUME NEW b \in Of(a, bookings), NEW t \in SlotTime(s),
                        b.start =< t, t < b.start + b.minutes
                 PROVE  FALSE
      BY DEF LessonDuring
    <3>1. b.start \in Int /\ b.minutes \in Nat \ {0}
      BY <2>1 DEF TypeOK, Of, Lesson
    <3>2. s \in Int /\ SlotMinutes \in Nat \ {0}
      BY <2>1, <2>2, CandidateOnDate, SlotsAssumption DEF Unblocked
    <3>3. Touches(s, Interval(b))
      BY <3>1, <3>2 DEF SlotTime, Touches, Interval
    <3> QED
      BY <2>2, <3>3
  <2> QED
    BY <2>3, <2>4, <2>5
<1> QED
  BY <1>1, Invariance, PTL

\* computeDayOpenSlots withholds no time that the wall clock shows to be within
\* the teacher's hours and on their grid, outside the blocks and free of lessons.
THEOREM AllFreeTimeIsOffered == Spec => []OffersAllFreeTime
<1>1. IInv => OffersAllFreeTime
  <2> SUFFICES ASSUME IInv, NEW a \in Teachers, NEW d \in Dates, Readable(a, d),
                      NEW s \in FreeTime(a, d)
               PROVE  s \in OpenOn(a, d)
    BY DEF OffersAllFreeTime
  <2> QED
    BY FreeTimeIsOpen DEF IInv
<1> QED
  BY <1>1, Invariance, PTL

\* Whatever range of dates computeOpenSlotsRange is asked for, it gives each date
\* the slots that date has when it is asked for alone, on skipped minutes too.
THEOREM RangesAgree == Spec => []RangeAgreesWithDays
<1>1. IInv => RangeAgreesWithDays
  <2> SUFFICES ASSUME IInv, NEW a \in Teachers, NEW from \in Span, NEW to \in Span,
                      NEW d \in from .. to
               PROVE  RangeSlots(zone, from, to, Of(a, windows), Of(a, exceptions),
                                 Of(a, bookings), now)[d] = OpenOn(a, d)
    BY DEF RangeAgreesWithDays
  <2>1. from \in Int /\ to \in Int /\ d \in Span /\ d \in Int /\ d \in d .. d
    BY AvailabilityAssumption DEF Span
  <2>2. d \in CalendarDates /\ to \in CalendarDates
    BY <2>1 DEF CalendarDates
  <2> DEFINE Range(f, t) == RangeSlots(zone, f, t, Of(a, windows), Of(a, exceptions),
                                       Of(a, bookings), now)[d]
  <2>3. \A s : s \in Range(from, to) <=> s \in Range(d, d)
    BY <2>1, <2>2, SlotOfRange DEF IInv
  <2>4. Range(from, to) = Range(d, d)
    <3>1. Range(from, to) = DaySlots(zone, d, Of(a, windows),
              {e \in Of(a, exceptions) : from =< e.date /\ e.date =< to},
              {Interval(b) : b \in LessonsRead(zone, from, to, Of(a, bookings))}, now)
      BY DEF RangeSlots
    <3>2. Range(d, d) = DaySlots(zone, d, Of(a, windows),
              {e \in Of(a, exceptions) : d =< e.date /\ e.date =< d},
              {Interval(b) : b \in LessonsRead(zone, d, d, Of(a, bookings))}, now)
      BY <2>1 DEF RangeSlots
    <3> QED
      BY <2>3, <3>1, <3>2 DEF DaySlots
  <2> QED
    BY <2>4 DEF OpenOn
<1> QED
  BY <1>1, Invariance, PTL

\* POST /bookings inserts a lesson into time its teacher offers and has not
\* blocked, unless the calendar was written between its snapshot and its INSERT.
THEOREM BookedTimeIsOpen == Spec => BookedIntoOpenTime
<1>1. IInv /\ [Next]_vars => [Booked]_vars
  <2> SUFFICES ASSUME IInv, Next PROVE Booked
    OBVIOUS
  <2>1. ASSUME NEW b \in bookings' \ bookings
        PROVE  \/ \E r \in stale : request[r].admin = b.admin /\ request[r].slot = b.start
               \/ ~Readable(b.admin, DateOf(zone, b.start))
               \/ /\ \E r \in Hours(b.admin, DateOf(zone, b.start)) : Within(r, b.start)
                  /\ ClosedDuring(b.admin, b.start) => Rewound(b.start)
    <3>1. PICK r \in Requests : Insert(r)
      BY <2>1 DEF Next, CreateWindow, UpdateWindow, DeleteWindow, CreateException,
                  UpdateException, DeleteException, Rest, ReadOpenSlots, Refused, Cancel,
                  Advance
    <3>2. b.admin = request[r].admin /\ b.start = request[r].slot /\ request[r] # Idle
      BY <2>1, <3>1 DEF Insert, Asked
    <3>3. CASE r \in stale
      BY <3>2, <3>3
    <3>4. CASE r \notin stale /\ Readable(b.admin, DateOf(zone, b.start))
      <4>1. /\ TypeOK /\ b.admin \in Teachers /\ b.start \in Wanted
            /\ Unblocked(b.admin, DateOf(zone, b.start), b.start)
        BY <3>2, <3>4 DEF IInv, Fresh
      <4>2. DateOf(zone, b.start) \in CalendarDates
        BY <4>1, WantedDate
      <4>3. \E q \in Hours(b.admin, DateOf(zone, b.start)) : Within(q, b.start)
        BY <3>4, <4>1, <4>2, CandidateWithinHours DEF Unblocked
      <4>4. ClosedDuring(b.admin, b.start) => Rewound(b.start)
        BY <3>4, <4>1, <4>2, UnblockedIsNotClosed
      <4> QED
        BY <4>3, <4>4
    <3> QED
      BY <3>3, <3>4
  <2> QED
    BY <2>1 DEF Booked
<1> QED
  BY <1>1, Invariance, PTL DEF Spec, BookedIntoOpenTime

=============================================================================
