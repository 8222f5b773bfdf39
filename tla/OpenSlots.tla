------------------------------ MODULE OpenSlots ------------------------------
(***************************************************************************)
(* Which slots of a teacher's calendar are open: computeDayOpenSlots and    *)
(* computeOpenSlotsRange (src/src/routes/bookings.helpers.js), pure         *)
(* functions of the rows a request has read and of its clock.  A window     *)
(* recurs weekly, an exception belongs to one date, a lesson has a start    *)
(* instant and a duration.                                                  *)
(***************************************************************************)
EXTENDS EasternTime

CONSTANTS SlotMinutes,   \* SLOT_MINUTES
          WeekDays       \* days in a week

ASSUME SlotsAssumption == SlotMinutes \in Nat \ {0} /\ WeekDays \in Nat \ {0}

DayOfWeek(date) == date % WeekDays

\* addWindow: the start of every whole slot between two minutes of a date.
SlotStarts(zone, date, from, to) ==
    {ToUtc(zone, At(date, m)) :
        m \in {m \in from .. to - SlotMinutes : (m - from) % SlotMinutes = 0}}

Candidates(zone, date, windows, exceptions) ==
    UNION {SlotStarts(zone, date, w.from, w.to) :
              w \in {w \in windows : w.dow = DayOfWeek(date)}
                 \cup {e \in exceptions : e.type = "add" /\ e.date = date}}

DayEnd(zone, date) == ToUtc(zone, At(date + 1, 0))

\* A block without times closes its whole date ("day off").
Blocked(zone, date, exceptions) ==
    {[start |-> ToUtc(zone, At(date, 0)), end |-> DayEnd(zone, date)] :
        e \in {e \in exceptions : e.type = "day off" /\ e.date = date}}
    \cup
    {[start |-> ToUtc(zone, At(date, e.from)), end |-> ToUtc(zone, At(date, e.to))] :
        e \in {e \in exceptions : e.type = "block" /\ e.date = date}}

\* The half-open overlap both removals use.
Touches(s, interval) == s < interval.end /\ interval.start < s + SlotMinutes

\* Mutant of DaySlots: blocks are taken off before the added hours are put on.
DaySlotsAddWins(zone, date, windows, exceptions, lessons, now) ==
    {s \in Candidates(zone, date, windows, exceptions) :
        /\ DateOf(zone, now) = date => s >= now
        /\ \/ s \in Candidates(zone, date, {}, exceptions)
           \/ \A b \in Blocked(zone, date, exceptions) : ~Touches(s, b)
        /\ \A l \in lessons : ~Touches(s, l)}

\* computeDayOpenSlots.  Slots gone by are withheld on today's date alone.
DaySlots(zone, date, windows, exceptions, lessons, now) ==
    {s \in Candidates(zone, date, windows, exceptions) :
        /\ DateOf(zone, now) = date => s >= now
        /\ \A b \in Blocked(zone, date, exceptions) : ~Touches(s, b)
        /\ \A l \in lessons : ~Touches(s, l)}

-----------------------------------------------------------------------------
\* Mutant of LessonsRead: the lower bound is the first date's own midnight.
LessonsReadFromMidnight(zone, from, to, bookings) ==
    {b \in bookings : /\ ToUtc(zone, At(from, 0)) =< b.start
                      /\ b.start < ToUtc(zone, At(to + 1, 0))}

\* Query 3: the bounds of scheduled_at, a day wider below than the range.
LessonsRead(zone, from, to, bookings) ==
    {b \in bookings : /\ ToUtc(zone, At(from - 1, 0)) =< b.start
                      /\ b.start < ToUtc(zone, At(to + 1, 0))}

Interval(b) == [start |-> b.start, end |-> b.start + b.minutes]

\* computeOpenSlotsRange on one teacher's rows: the slots of every date.
RangeSlots(zone, from, to, windows, exceptions, bookings, now) ==
    LET lessons == {Interval(b) : b \in LessonsRead(zone, from, to, bookings)}
    IN  [date \in from .. to |->
            DaySlots(zone, date, windows,
                     {e \in exceptions : from =< e.date /\ e.date =< to},
                     lessons, now)]

=============================================================================
