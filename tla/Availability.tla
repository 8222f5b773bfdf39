---------------------------- MODULE Availability ----------------------------
(***************************************************************************)
(* The teachers' calendars: weekly windows (availability.route.js), dated   *)
(* exceptions (availabilityExceptions.route.js), and the lessons booked     *)
(* into what the two leave open (bookings.route.js, bookings.helpers.js).   *)
(*                                                                         *)
(* Windows and exceptions are written by single statements in autocommit;   *)
(* a POST /bookings reads them, and the lessons, in the snapshot of its     *)
(* transaction and inserts in a later statement, so that anything may be    *)
(* committed in between.  Which requests race for a slot, and with what     *)
(* locks, is the subject of Booking; here one overlap check and one INSERT  *)
(* are a step, because FOR UPDATE has the lessons of the teacher locked.    *)
(***************************************************************************)
EXTENDS OpenSlots, FiniteSets

CONSTANTS Users, RoleOf, OrgOf, TeacherOf,   \* users: role, org_id, admin_id
          None,
          Requests,          \* POST /bookings requests in flight at once
          Zones,             \* the changes of the clocks considered
          Dates,             \* dates exceptions are made for
          First, Last,       \* the dates whose slots anybody asks for
          Ranges,            \* <<from, to>>: times of windows and exceptions
          Nows,              \* instants the server's clock is read at
          Instants,          \* the instants of these dates
          Wanted,            \* those a request may name
          Legacy,            \* lessons that exist before, [start, minutes]
          MaxRows, MaxLessons   \* bounds on rows of the two tables, on lessons

Teachers == {u \in Users : RoleOf[u] = "admin"}
Students == {u \in Users : RoleOf[u] = "student"}

Span == First .. Last

\* West of Greenwich; no date's midnight is skipped, nor is the slot before it, nor
\* anything after it that is no later than the skipped time is long.
ASSUME ZonesAssumption ==
    /\ Zones \subseteq ZoneType
    /\ \A z \in Zones : z.before =< 0 /\ z.after =< 0
    /\ \A z \in Zones, d \in Span \cup Dates \cup {DateOf(y, t) : y \in Zones, t \in Wanted} :
          /\ ~Skipped(z, At(d, 0))
          /\ \A m \in 0 .. z.after - z.before : ~Skipped(z, At(d, m))
          /\ \A m \in 0 .. SlotMinutes : ~Skipped(z, At(d + 1, 0) - m)

ASSUME AvailabilityAssumption ==
    /\ First \in Int /\ Last \in Int
    /\ Dates \subseteq Int /\ Nows \subseteq Int /\ Instants \subseteq Int /\ Wanted \subseteq Instants
    /\ Ranges \subseteq {r \in (0 .. Day - 1) \X (0 .. Day - 1) : r[1] < r[2]}
    /\ Legacy \subseteq [start : Int, minutes : Nat \ {0}]
    /\ \A n \in {SlotMinutes} \cup {l.minutes : l \in Legacy} :
          n =< Day /\ \A z \in Zones : n + z.after - z.before =< Day
    /\ TeacherOf \in [Students -> Teachers \cup {None}]
    /\ None \notin Users

VARIABLES zone,         \* which change of the clocks the calendar is near
          now,          \* new Date()
          windows,      \* the availability table
          exceptions,   \* the availability_exceptions table
          bookings,     \* the bookings table: rows with status 'booked'
          request,      \* what a POST /bookings has found open
          stale         \* history: requests whose calendar changed since

vars == <<zone, now, windows, exceptions, bookings, request, stale>>

-----------------------------------------------------------------------------
\* Both tables CHECK that a time ends after it starts.
Window == {w \in [admin : Teachers, dow : 0 .. WeekDays - 1,
                  from : 0 .. Day - 1, to : 0 .. Day - 1] : w.from < w.to}

\* A day off is the row without times, which the table has for a block only.
Exception == {e \in [admin : Teachers, date : Dates, type : {"block", "add", "day off"},
                     from : 0 .. Day, to : 0 .. Day] :
                /\ e.from < e.to
                /\ e.type = "day off" => e.from = 0 /\ e.to = Day}

Lesson == [admin : Teachers, start : Int, minutes : Nat \ {0}]

Idle == [admin |-> None, slot |-> 0]

TypeOK ==
    /\ zone \in Zones
    /\ now \in Nows
    /\ windows \subseteq Window
    /\ exceptions \subseteq Exception
    /\ bookings \subseteq Lesson
    /\ request \in [Requests -> [admin : Teachers \cup {None}, slot : Int]]
    /\ stale \subseteq Requests

Of(admin, table) == {row \in table : row.admin = admin}

\* computeOpenSlots, on the rows as they are now.
OpenOn(admin, date) ==
    RangeSlots(zone, date, date, Of(admin, windows), Of(admin, exceptions),
               Of(admin, bookings), now)[date]

-----------------------------------------------------------------------------
(* Writing a calendar.                                                     *)

\* resolveCalendarAdminId for a write, behind requireCapability: a teacher's
\* own calendar, or the one an owner names in their organization.
Resolve(caller, requested) ==
    IF RoleOf[caller] = "admin" THEN caller
    ELSE IF /\ RoleOf[caller] = "owner"
            /\ requested \in Teachers /\ OrgOf[requested] = OrgOf[caller]
         THEN requested
         ELSE None

Writable == {Resolve(c, q) : c \in Users, q \in Users \cup {None}} \ {None}

Room == Cardinality(windows) + Cardinality(exceptions) < MaxRows

NewWindow(t) == {[admin |-> t, dow |-> d, from |-> r[1], to |-> r[2]] :
                    d \in 0 .. WeekDays - 1, r \in Ranges}

On(t, d, type, from, to) ==
    [admin |-> t, date |-> d, type |-> type, from |-> from, to |-> to]

Timed(t, type) == {On(t, d, type, r[1], r[2]) : d \in Dates, r \in Ranges}
DayOff(t)      == {On(t, d, "day off", 0, Day) : d \in Dates}

NewException(t) == Timed(t, "block") \cup Timed(t, "add") \cup DayOff(t)

Calendar == <<windows, exceptions>>
Rest     == <<zone, now, bookings, request>>

Overtaken(t) == stale' = stale \cup {r \in Requests : request[r].admin = t}

CreateWindow == \E t \in Writable : \E w \in NewWindow(t) :
    /\ Room
    /\ windows' = windows \cup {w}
    /\ Overtaken(t)
    /\ UNCHANGED <<exceptions, Rest>>

\* The caller names a row by its id; admin_id in the predicate makes it theirs.
UpdateWindow == \E t \in Writable : \E old \in Of(t, windows), w \in NewWindow(t) :
    /\ windows' = (windows \ {old}) \cup {w}
    /\ Overtaken(t)
    /\ UNCHANGED <<exceptions, Rest>>

DeleteWindow == \E t \in Writable : \E old \in Of(t, windows) :
    /\ windows' = windows \ {old}
    /\ Overtaken(t)
    /\ UNCHANGED <<exceptions, Rest>>

CreateException == \E t \in Writable : \E e \in NewException(t) :
    /\ Room
    /\ exceptions' = exceptions \cup {e}
    /\ Overtaken(t)
    /\ UNCHANGED <<windows, Rest>>

UpdateException == \E t \in Writable : \E old \in Of(t, exceptions), e \in NewException(t) :
    /\ exceptions' = (exceptions \ {old}) \cup {e}
    /\ Overtaken(t)
    /\ UNCHANGED <<windows, Rest>>

DeleteException == \E t \in Writable : \E old \in Of(t, exceptions) :
    /\ exceptions' = exceptions \ {old}
    /\ Overtaken(t)
    /\ UNCHANGED <<windows, Rest>>

-----------------------------------------------------------------------------
(* POST /bookings and PATCH /bookings/:id.                                 *)

\* Mutant of ReadOpenSlots: the slot the client was shown is not looked up again.
ReadOpenSlotsUnchecked(r, s, slot) ==
    /\ request[r] = Idle
    /\ TeacherOf[s] # None
    /\ request' = [request EXCEPT ![r] =
                      [admin |-> TeacherOf[s], slot |-> slot]]
    /\ UNCHANGED <<Calendar, zone, now, bookings, stale>>

\* The slot must be among those its own Eastern date offers.
ReadOpenSlots(r, s, slot) ==
    /\ request[r] = Idle
    /\ TeacherOf[s] # None
    /\ slot \in OpenOn(TeacherOf[s], DateOf(zone, slot))
    /\ request' = [request EXCEPT ![r] =
                      [admin |-> TeacherOf[s], slot |-> slot]]
    /\ UNCHANGED <<Calendar, zone, now, bookings, stale>>

Asked(r) == [admin |-> request[r].admin, start |-> request[r].slot, minutes |-> SlotMinutes]

Overlapping(lesson) ==
    {b \in Of(lesson.admin, bookings) : Touches(lesson.start, Interval(b))}

\* findOverlappingBooking and INSERT; an overlap, and any error of the
\* transaction, ends the request without a lesson.
Insert(r) ==
    /\ request[r] # Idle
    /\ Overlapping(Asked(r)) = {}
    /\ Cardinality(bookings) < MaxLessons
    /\ bookings' = bookings \cup {Asked(r)}
    /\ request' = [request EXCEPT ![r] = Idle]
    /\ stale' = stale \ {r}
    /\ UNCHANGED <<Calendar, zone, now>>

Refused(r) ==
    /\ request[r] # Idle
    /\ request' = [request EXCEPT ![r] = Idle]
    /\ stale' = stale \ {r}
    /\ UNCHANGED <<Calendar, zone, now, bookings>>

Cancel(b) ==
    /\ bookings' = bookings \ {b}
    /\ UNCHANGED <<Calendar, zone, now, request, stale>>

Advance(t) ==
    /\ t > now
    /\ now' = t
    /\ UNCHANGED <<Calendar, zone, bookings, request, stale>>

-----------------------------------------------------------------------------
Init ==
    /\ zone \in Zones
    /\ now \in {t \in Nows : \A u \in Nows : t =< u}
    /\ windows = {} /\ exceptions = {}
    /\ \E t \in Teachers, old \in SUBSET Legacy :
          bookings = {[admin |-> t, start |-> l.start, minutes |-> l.minutes] : l \in old}
    /\ request = [r \in Requests |-> Idle]
    /\ stale = {}

Next ==
    \/ CreateWindow \/ UpdateWindow \/ DeleteWindow
    \/ CreateException \/ UpdateException \/ DeleteException
    \/ \E r \in Requests, s \in Students, slot \in Wanted : ReadOpenSlots(r, s, slot)
    \/ \E r \in Requests : Insert(r) \/ Refused(r)
    \/ \E b \in bookings : Cancel(b)
    \/ \E t \in Nows : Advance(t)

Spec == Init /\ [][Next]_vars

-----------------------------------------------------------------------------
(* What the slots should be, read off the clock on the wall, instant by    *)
(* instant, and not by converting the rows' times.                         *)

SlotTime(s) == s .. s + SlotMinutes - 1

Minute(t) == WallClock(zone, t) - At(DateOf(zone, t), 0)

\* The teacher says not to be available at instant t.
ClosedBy(e, t) ==
    /\ e.type # "add" /\ e.date = DateOf(zone, t)
    /\ e.from =< Minute(t) /\ Minute(t) < e.to

\* A slot from s lies within the teacher's hours r; it does so on their grid,
\* the first time the wall shows the minute.
Within(r, s) == r.from =< Minute(s) /\ Minute(s) + SlotMinutes =< r.to

OpenedBy(r, s) ==
    /\ Within(r, s)
    /\ (Minute(s) - r.from) % SlotMinutes = 0
    /\ zone.change =< s => ~Repeated(zone, WallClock(zone, s))

Hours(admin, date) ==
    {w \in Of(admin, windows) : w.dow = DayOfWeek(date)}
    \cup {e \in Of(admin, exceptions) : e.type = "add" /\ e.date = date}

\* The clocks go back during the slot: it shows its own minutes again.
Rewound(s) ==
    zone.after < zone.before /\ s < zone.change /\ zone.change < s + SlotMinutes

ClosedDuring(admin, s) ==
    \E t \in SlotTime(s) : \E e \in Of(admin, exceptions) : ClosedBy(e, t)

LessonDuring(admin, s) ==
    \E b \in Of(admin, bookings) : \E t \in SlotTime(s) : b.start =< t /\ t < b.start + b.minutes

FreeTime(admin, date) ==
    {s \in Instants :
        /\ DateOf(zone, s) = date
        /\ \E r \in Hours(admin, date) : OpenedBy(r, s)
        /\ ~ClosedDuring(admin, s) /\ ~LessonDuring(admin, s)
        /\ DateOf(zone, now) = date => s >= now}

\* Hours whose slots in the skipped hour fall back onto slots they offer
\* anyway, and blocks that neither begin nor end in it.
HoursReadable(r, date) ==
    \A m \in r.from .. r.to - SlotMinutes :
        (m - r.from) % SlotMinutes = 0 /\ Skipped(zone, At(date, m))
            => m - (zone.after - zone.before) >= r.from

BlockReadable(e, date) ==
    e.type = "block" => ~Skipped(zone, At(date, e.from)) /\ ~Skipped(zone, At(date, e.to))

Readable(admin, date) ==
    /\ \A r \in Hours(admin, date) : HoursReadable(r, date)
    /\ \A e \in Of(admin, exceptions) : e.date = date => BlockReadable(e, date)

\* What is offered lies within the teacher's hours as the wall clock reads
\* them, outside every block of the date and every lesson, on the 23- and
\* 25-hour days too (bookings.helpers.js:100-120, 167-171).
OffersOnlyFreeTime ==
    \A a \in Teachers, d \in Dates :
        Readable(a, d) =>
            \A s \in OpenOn(a, d) :
                /\ DateOf(zone, s) = d
                /\ \E r \in Hours(a, d) : Within(r, s)
                /\ ClosedDuring(a, s) => Rewound(s)
                /\ ~LessonDuring(a, s)

\* Nothing else takes a free slot away: not another teacher's rows, nor an
\* exception of another date, nor a conversion that lands an hour off.
OffersAllFreeTime ==
    \A a \in Teachers, d \in Dates :
        Readable(a, d) => FreeTime(a, d) \subseteq OpenOn(a, d)

\* The month view and the check of POST /bookings cannot disagree: a range
\* gives each of its dates what that date gives alone, a lesson that runs
\* past midnight into the range included (bookings.helpers.js:265-273).
RangeAgreesWithDays ==
    \A a \in Teachers, from, to \in Span :
        LET range == RangeSlots(zone, from, to, Of(a, windows), Of(a, exceptions),
                                Of(a, bookings), now)
        IN  \A d \in from .. to : range[d] = OpenOn(a, d)

\* A lesson lands within its teacher's hours and outside every block of the
\* date, by the wall clock, unless that calendar was changed between the
\* snapshot of its request and its INSERT (bookings.route.js:162-184): then,
\* and only then, it may fall into time just blocked or withdrawn.
Booked ==
    \A b \in bookings' \ bookings :
        LET date == DateOf(zone, b.start)
        IN  \/ \E r \in stale : request[r].admin = b.admin /\ request[r].slot = b.start
            \/ ~Readable(b.admin, date)
            \/ /\ \E r \in Hours(b.admin, date) : Within(r, b.start)
               /\ ClosedDuring(b.admin, b.start) => Rewound(b.start)

BookedIntoOpenTime == [][Booked]_vars

\* The skipped hour is not only "the literal invalid wall-clock hour" that
\* timezone.js:47-50 says is never generated: a block that ends when it
\* begins (1:00-2:00) already converts it, and then closes nothing.
BlockClosesItsHours ==
    \A a \in Teachers, d \in Dates :
        \A s \in OpenOn(a, d) : ClosedDuring(a, s) => Rewound(s)

=============================================================================
