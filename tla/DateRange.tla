------------------------------ MODULE DateRange ------------------------------
(***************************************************************************)
(* resolve_date_range: what "this month" or "last 3 weeks" means at an     *)
(* instant.  Instants are numbered by the wall clock of the query's time   *)
(* zone, TicksPerDay to a day counted from 1 January 2000; the last tick   *)
(* of a day stands for 23:59:59.999999, so that one tick less than a       *)
(* midnight is the code's timedelta(microseconds=1).                       *)
(***************************************************************************)
EXTENDS Integers

CONSTANTS
    TicksPerDay,    \* the instants of a day that are told apart
    FirstInstant,   \* the clock starts here ...
    LastInstant     \* ... and the model ends here

ASSUME ClockAssumption ==
    /\ TicksPerDay \in Nat \ {0, 1}
    /\ FirstInstant \in Nat /\ LastInstant \in Nat

VARIABLE now        \* datetime.now(tz), read by each resolution

-----------------------------------------------------------------------------
(***************************************************************************)
(* The civil calendar.  Months are numbered from January 2000.             *)
(***************************************************************************)
InvalidDate == -1   \* the ValueError of a date that does not exist

Leap(y) == (y % 4) = 0 /\ ((y % 100) # 0 \/ (y % 400) = 0)

\* Days from 1 January 2000 to the first of January 2000 + y.
DaysBeforeYear(y) ==
    IF y = 0 THEN 0
    ELSE 365 * y + 1 + (y - 1) \div 4 - (y - 1) \div 100 + (y - 1) \div 400

DaysBeforeMonth == <<0, 31, 59, 90, 120, 151, 181, 212, 243, 273, 304, 334>>

FirstOfMonth(i) ==
    DaysBeforeYear(i \div 12) + DaysBeforeMonth[(i % 12) + 1]
        + (IF (i % 12) > 1 /\ Leap(i \div 12) THEN 1 ELSE 0)

Day(t) == t \div TicksPerDay

\* 4800 months are 146097 days, and no month begins two days off that pace.
MonthOf(t) ==
    LET near == (Day(t) * 4800) \div 146097
    IN  CHOOSE i \in (near - 1) .. (near + 1) :
            FirstOfMonth(i) <= Day(t) /\ Day(t) < FirstOfMonth(i + 1)

\* Monday is 0, and 1 January 2000 was a Saturday.
Weekday(t) == (Day(t) + 5) % 7

Midnight(t) == t - (t % TicksPerDay)
EndOfDay(t) == Midnight(t) + TicksPerDay - 1

\* The instant this long after a month has begun, if the month is that long.
InMonth(month, passed) ==
    LET moved == FirstOfMonth(month) * TicksPerDay + passed
    IN  IF moved < FirstOfMonth(month + 1) * TicksPerDay THEN moved ELSE InvalidDate

\* dt.replace(year, month): the day of the month and the time are kept.
AddMonths(t, n) ==
    InMonth(MonthOf(t) + n, t - FirstOfMonth(MonthOf(t)) * TicksPerDay)

-----------------------------------------------------------------------------
Units == {"day", "week", "month", "quarter", "year"}

\* The last multiple of n that is not after i.
Floor(i, n) == i - (i % n)

MonthsIn(unit) == CASE unit = "month" -> 1 [] unit = "quarter" -> 3 [] unit = "year" -> 12

\* Mutant of UnitStart: the quarter is counted from dt.month, not dt.month - 1.
UnitStartMonthFromOne(t, unit) ==
    CASE unit = "day"  -> Midnight(t)
      [] unit = "week" -> Midnight(t) - Weekday(t) * TicksPerDay
      [] OTHER -> FirstOfMonth(Floor(MonthOf(t) + 1, MonthsIn(unit))) * TicksPerDay

\* _week_start, _month_start, _quarter_start, _year_start
UnitStart(t, unit) ==
    CASE unit = "day"  -> Midnight(t)
      [] unit = "week" -> Midnight(t) - Weekday(t) * TicksPerDay
      [] OTHER -> FirstOfMonth(Floor(MonthOf(t), MonthsIn(unit))) * TicksPerDay

\* Mutant of Plus: a month is timedelta(days=30).
PlusThirtyDays(t, unit, n) ==
    t + TicksPerDay * n * (CASE unit = "day" -> 1 [] unit = "week" -> 7
                             [] OTHER -> 30 * MonthsIn(unit))

\* A whole number of units later (or earlier).
Plus(t, unit, n) ==
    CASE unit = "day"  -> t + n * TicksPerDay
      [] unit = "week" -> t + 7 * n * TicksPerDay
      [] OTHER -> AddMonths(t, n * MonthsIn(unit))

\* Mutant of UnitEnd: the end is counted from the moment, not the unit's start.
UnitEndFromNow(t, unit) == Plus(t, unit, 1) - 1

\* _day_bounds, _week_bounds_end, _month_end, _quarter_end, _year_end
UnitEnd(t, unit) == Plus(UnitStart(t, unit), unit, 1) - 1

\* The unit that begins at start.
From(start, unit) == <<start, Plus(start, unit, 1) - 1>>

\* The values of dateRange: "today" and "yesterday" are the day's "this" and
\* "last"; "window" is "last N units"; "between" is a pair of ISO dates or
\* timestamps, "on" a single one.
ThisUnit(unit)         == [word |-> "this", unit |-> unit]
LastUnit(unit)         == [word |-> "last", unit |-> unit]
LastUnits(n, unit)    == [word |-> "window", unit |-> unit, n |-> n]
Between(from, to)  == [word |-> "between", from |-> from, to |-> to]
On(t)              == [word |-> "on", at |-> t]
OnDate(t)          == [at |-> Midnight(t), dateOnly |-> TRUE]
AtTime(t)          == [at |-> t, dateOnly |-> FALSE]

\* resolve_date_range: the first and the last instant of the range.
ResolveDateRange(value, t) ==
    CASE value.word = "this"   -> <<UnitStart(t, value.unit), UnitEnd(t, value.unit)>>
      [] value.word = "last"   ->
            From(Plus(UnitStart(t, value.unit), value.unit, -1), value.unit)
      [] value.word = "window" ->
            <<Plus(UnitStart(t, value.unit), value.unit, -value.n), UnitEnd(t, value.unit)>>
      [] value.word = "between" ->
            <<IF value.from.dateOnly THEN Midnight(value.from.at) ELSE value.from.at,
              IF value.to.dateOnly THEN EndOfDay(value.to.at) ELSE value.to.at>>
      [] value.word = "on"     -> <<Midnight(value.at), EndOfDay(value.at)>>

-----------------------------------------------------------------------------
\* Time passes between two resolutions.
Tick ==
    /\ now < LastInstant
    /\ now' = now + 1

ClockSpec == now = FirstInstant /\ [][Tick]_now

-----------------------------------------------------------------------------
Start(value) == ResolveDateRange(value, now)[1]
End(value)   == ResolveDateRange(value, now)[2]

Windows == 1 .. 13

\* Every keyword resolves, at every moment, to a range of whole days: no date
\* arithmetic of the code meets a day that its month does not have (29
\* February, the 31st), and no range ends before its last day does.
ResolvesToWholeDays ==
    \A value \in [word : {"this", "last"}, unit : Units]
                    \cup {LastUnits(n, u) : n \in Windows, u \in Units}
                    \cup {Between(OnDate(now), OnDate(now)), On(now)} :
        /\ Start(value) # InvalidDate /\ Start(value) = Midnight(Start(value))
        /\ Start(value) <= End(value) /\ End(value) = EndOfDay(End(value))

\* "this" holds the present moment, "last" ends where "this" begins, and
\* "last N" is the current unit after N whole ones, whichever the unit: as
\* far back as "last N - 1" reached from the end of the previous unit.
UnitsFollowEachOther ==
    \A u \in Units :
        /\ now \in Start(ThisUnit(u)) .. End(ThisUnit(u))
        /\ End(LastUnit(u)) + 1 = Start(ThisUnit(u))
        /\ \A n \in Windows :
              /\ End(LastUnits(n, u)) = End(ThisUnit(u))
              /\ n > 1 => Start(LastUnits(n, u))
                            = ResolveDateRange(LastUnits(n - 1, u), End(LastUnit(u)))[1]
              /\ n = 1 => Start(LastUnits(n, u)) = Start(LastUnit(u))

\* An instant later a keyword's range is the same, or the one that begins
\* where it ends: reports made unit after unit miss no instant and count none
\* twice, over the ends of months of any length and of leap years.
RangesTileTime ==
    \A value \in [word : {"this", "last"}, unit : Units] :
        LET later == ResolveDateRange(value, now + 1)
        IN  \/ later = <<Start(value), End(value)>>
            \/ later[1] = End(value) + 1

=============================================================================
