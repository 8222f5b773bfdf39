----------------------------- MODULE EasternTime -----------------------------
(***************************************************************************)
(* America/New_York wall-clock time (src/src/utils/timezone.js), in one     *)
(* unit throughout.  A zone is what the conversions can tell of a year      *)
(* around one change of the clocks: the instant of the change and the       *)
(* offsets before and after it, which are negative west of Greenwich.  An   *)
(* instant counts UTC units from the midnight that date 0 begins at in UTC; *)
(* a wall-clock value counts the same units on the clock on the wall, so    *)
(* that it reads like "a naive UTC instant".                                *)
(***************************************************************************)
EXTENDS Integers

CONSTANT Day        \* a calendar day on the clock: 24 hours

ASSUME DayAssumption == Day \in Nat \ {0}

ZoneType == [change : Int, before : Int, after : Int]

Offset(zone, t) == IF t < zone.change THEN zone.before ELSE zone.after

WallClock(zone, t) == t + Offset(zone, t)

DateOf(zone, t) == WallClock(zone, t) \div Day

At(date, minute) == date * Day + minute

\* Mutant of ToUtc: the first estimate is final.
ToUtcOnce(zone, w) == w - Offset(zone, w)

\* easternWallClockToUtc: the digits taken for UTC give a first offset, the
\* estimate made with it a second one, and the second one decides.
ToUtc(zone, w) ==
    LET first    == Offset(zone, w)
        estimate == w - first
        second   == Offset(zone, estimate)
    IN  w - (IF second # first THEN second ELSE first)

-----------------------------------------------------------------------------
\* Wall-clock values no instant has (the hour spring skips), and those that
\* two instants have (the hour autumn repeats).
Skipped(zone, w)  == zone.change + zone.before =< w /\ w < zone.change + zone.after
Repeated(zone, w) == zone.change + zone.after =< w /\ w < zone.change + zone.before

=============================================================================
