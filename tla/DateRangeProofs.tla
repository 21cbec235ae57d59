--------------------------- MODULE DateRangeProofs ---------------------------
(***************************************************************************)
(* Proofs about the keywords of DateRange, for every moment of every year  *)
(* and however finely the instants of a day are told apart.  The units of  *)
(* a kind lie on a grid: Edge(unit, k) is where the k-th begins.  The code *)
(* finds the edge before an instant and moves along the grid, and that is  *)
(* all that the properties need to know of the calendar.                   *)
(***************************************************************************)
EXTENDS DateRange, TLAPS

\* The day that begins the k-th unit.  2000 began on a Saturday: the first
\* Monday is the third day, day 2.
EdgeDay(unit, k) ==
    CASE unit = "day"     -> k
      [] unit = "week"    -> 7 * k + 2
      [] unit = "month"   -> FirstOfMonth(k)
      [] unit = "quarter" -> FirstOfMonth(3 * k)
      [] unit = "year"    -> FirstOfMonth(12 * k)

Edge(unit, k) == EdgeDay(unit, k) * TicksPerDay

-----------------------------------------------------------------------------
(* Days, months and years. *)

LEMMA Years ==
    ASSUME NEW y \in Int
    PROVE  /\ DaysBeforeYear(y) \in Int
           /\ DaysBeforeYear(y + 1) = DaysBeforeYear(y) + 365 + (IF Leap(y) THEN 1 ELSE 0)
           /\ 146097 * y - 800 <= 400 * DaysBeforeYear(y)
           /\ 400 * DaysBeforeYear(y) <= 146097 * y + 800
  BY DEF DaysBeforeYear, Leap

\* The days of a year before its months, which begin within a week of their
\* average pace.
Before(m) == DaysBeforeMonth[m + 1]

LEMMA MonthsOfYear ==
    ASSUME NEW m \in 0 .. 11
    PROVE  /\ Before(m) \in 0 .. 334
           /\ 146097 * m - 33600 <= 4800 * Before(m)
           /\ 4800 * Before(m) <= 146097 * m + 33600
  <1>1. m \in {0, 1, 2, 3, 4, 5, 6, 7, 8, 9, 10, 11}
    OBVIOUS
  <1> QED
    BY <1>1 DEF Before, DaysBeforeMonth

\* No month but the last of a year is shorter than four weeks (nor is that).
LEMMA MonthLengths ==
    ASSUME NEW m \in 0 .. 10
    PROVE  Before(m) + 28 <= Before(m + 1)
  <1>1. m \in {0, 1, 2, 3, 4, 5, 6, 7, 8, 9, 10}
    OBVIOUS
  <1> QED
    BY <1>1 DEF Before, DaysBeforeMonth

\* FirstOfMonth by year and month.
LEMMA FirstOf ==
    ASSUME NEW y \in Int, NEW m \in 0 .. 11
    PROVE  FirstOfMonth(12 * y + m)
              = DaysBeforeYear(y) + Before(m) + (IF m > 1 /\ Leap(y) THEN 1 ELSE 0)
  <1>1. (12 * y + m) \div 12 = y /\ (12 * y + m) % 12 = m
    OBVIOUS
  <1> QED
    BY <1>1 DEF FirstOfMonth, Before

\* The first of a month is an integer, the next month begins later, and months
\* begin within a month of their average pace.
LEMMA Months ==
    ASSUME NEW i \in Int
    PROVE  /\ FirstOfMonth(i) \in Int
           /\ FirstOfMonth(i) < FirstOfMonth(i + 1)
           /\ 146097 * (i - 1) <= 4800 * FirstOfMonth(i)
           /\ 4800 * FirstOfMonth(i) <= 146097 * (i + 1)
  <1>1. PICK y \in Int, m \in 0 .. 11 : i = 12 * y + m
    <2>1. i \div 12 \in Int /\ i % 12 \in 0 .. 11 /\ i = 12 * (i \div 12) + (i % 12)
      OBVIOUS
    <2> QED
      BY <2>1
  <1> DEFINE leap == IF Leap(y) THEN 1 ELSE 0
             late == IF m > 1 /\ Leap(y) THEN 1 ELSE 0
  <1>2. FirstOfMonth(i) = DaysBeforeYear(y) + Before(m) + late
    BY <1>1, FirstOf
  <1>3. leap \in {0, 1} /\ late \in {0, 1} /\ late <= leap
    OBVIOUS
  <1>4. FirstOfMonth(i) < FirstOfMonth(i + 1)
    <2>1. CASE m < 11
      <3> DEFINE later == IF m + 1 > 1 /\ Leap(y) THEN 1 ELSE 0
      <3>1. m + 1 \in 0 .. 11 /\ i + 1 = 12 * y + (m + 1)
        BY <1>1, <2>1
      <3>2. FirstOfMonth(i + 1) = DaysBeforeYear(y) + Before(m + 1) + later
        BY <3>1, FirstOf
      <3>3. later \in {0, 1} /\ late <= later
        OBVIOUS
      <3> HIDE DEF leap, late, later
      <3>4. Before(m) \in Int /\ Before(m) + 28 <= Before(m + 1)
        BY <2>1, MonthsOfYear, MonthLengths
      <3>5. Before(m + 1) \in Int
        BY <3>1, MonthsOfYear
      <3>6. DaysBeforeYear(y) \in Int
        BY Years
      <3> QED
        BY <3>2, <3>3, <3>4, <3>5, <3>6, <1>2, <1>3
    <2>2. CASE m = 11
      <3>1. FirstOfMonth(i + 1) = DaysBeforeYear(y + 1)
        <4>1. i + 1 = 12 * (y + 1) + 0 /\ y + 1 \in Int
          BY <1>1, <2>2
        <4>2. FirstOfMonth(12 * (y + 1) + 0) = DaysBeforeYear(y + 1) + Before(0)
                                                  + (IF 0 > 1 /\ Leap(y + 1) THEN 1 ELSE 0)
          <5>1. 0 \in 0 .. 11
            OBVIOUS
          <5> QED
            BY <4>1, <5>1, FirstOf
        <4>3. DaysBeforeYear(y + 1) \in Int
          BY <4>1, Years
        <4>4. Before(0) = 0
          BY DEF Before, DaysBeforeMonth
        <4> QED
          BY <4>1, <4>2, <4>3, <4>4
      <3>2. DaysBeforeYear(y + 1) = DaysBeforeYear(y) + 365 + leap /\ DaysBeforeYear(y) \in Int
        BY Years
      <3>3. Before(m) \in 0 .. 334
        BY MonthsOfYear
      <3> HIDE DEF leap, late
      <3> QED
        BY <3>1, <3>2, <3>3, <1>2, <1>3
    <2> QED
      BY <2>1, <2>2
  <1> HIDE DEF leap, late
  <1>5. /\ DaysBeforeYear(y) \in Int
        /\ 146097 * y - 800 <= 400 * DaysBeforeYear(y)
        /\ 400 * DaysBeforeYear(y) <= 146097 * y + 800
    BY Years
  <1>6. /\ Before(m) \in Int
        /\ 146097 * m - 33600 <= 4800 * Before(m)
        /\ 4800 * Before(m) <= 146097 * m + 33600
    BY MonthsOfYear
  <1> QED
    BY <1>1, <1>2, <1>3, <1>4, <1>5, <1>6

LEMMA MonthsAreDays == \A i \in Int : FirstOfMonth(i) \in Int
  BY Months

\* Months begin in their order: two that are further apart than the next but
\* one are so by their pace.
LEMMA MonthsRise ==
    ASSUME NEW i \in Int, NEW j \in Int, i < j
    PROVE  FirstOfMonth(i) < FirstOfMonth(j)
  <1>1. CASE j = i + 1
    BY <1>1, Months
  <1>2. CASE j = i + 2
    <2>1. i + 1 \in Int /\ i + 2 = (i + 1) + 1
      OBVIOUS
    <2>2. FirstOfMonth(i) < FirstOfMonth(i + 1) /\ FirstOfMonth(i + 1) < FirstOfMonth(j)
      BY <1>2, <2>1, Months
    <2>3. FirstOfMonth(i) \in Int /\ FirstOfMonth(i + 1) \in Int /\ FirstOfMonth(j) \in Int
      BY <2>1, Months
    <2> QED
      BY <2>2, <2>3
  <1>3. CASE j > i + 2
    <2>1. FirstOfMonth(i) \in Int /\ 4800 * FirstOfMonth(i) <= 146097 * (i + 1)
      BY Months
    <2>2. FirstOfMonth(j) \in Int /\ 146097 * (j - 1) <= 4800 * FirstOfMonth(j)
      BY Months
    <2> QED
      BY <1>3, <2>1, <2>2
  <1> QED
    BY <1>1, <1>2, <1>3

\* MonthOf finds the month of an instant, and there is only one.
LEMMA MonthOfDay ==
    ASSUME NEW t \in Int, Day(t) \in Int
    PROVE  /\ MonthOf(t) \in Int
           /\ FirstOfMonth(MonthOf(t)) <= Day(t)
           /\ Day(t) < FirstOfMonth(MonthOf(t) + 1)
  <1> DEFINE near == (Day(t) * 4800) \div 146097
             Holds(i) == FirstOfMonth(i) <= Day(t) /\ Day(t) < FirstOfMonth(i + 1)
  <1>1. near \in Int /\ 146097 * near <= 4800 * Day(t) /\ 4800 * Day(t) < 146097 * (near + 1)
    OBVIOUS
  <1> HIDE DEF near
  <1>2. FirstOfMonth(near - 1) <= Day(t)
    <2>1. near - 1 \in Int
      BY <1>1
    <2>2. /\ FirstOfMonth(near - 1) \in Int
          /\ 4800 * FirstOfMonth(near - 1) <= 146097 * ((near - 1) + 1)
      BY <2>1, Months
    <2> QED
      BY <1>1, <2>2
  <1>3. Day(t) < FirstOfMonth(near + 2)
    <2>1. near + 2 \in Int
      BY <1>1
    <2>2. /\ FirstOfMonth(near + 2) \in Int
          /\ 146097 * ((near + 2) - 1) <= 4800 * FirstOfMonth(near + 2)
      BY <2>1, Months
    <2> QED
      BY <1>1, <2>2
  <1>4. \E i \in (near - 1) .. (near + 1) : Holds(i)
    <2>1. /\ FirstOfMonth(near) \in Int
          /\ FirstOfMonth(near + 1) \in Int
      <3>1. near \in Int /\ near + 1 \in Int
        BY <1>1
      <3> QED
        BY <3>1, MonthsAreDays
    <2>2. CASE Day(t) < FirstOfMonth(near)
      <3>1. Holds(near - 1) /\ near - 1 \in (near - 1) .. (near + 1)
        <4>1. (near - 1) + 1 = near
          BY <1>1
        <4> QED
          BY <1>1, <1>2, <2>2, <4>1
      <3> QED
        BY <3>1
    <2>3. CASE FirstOfMonth(near) <= Day(t) /\ Day(t) < FirstOfMonth(near + 1)
      BY <1>1, <2>3
    <2>4. CASE FirstOfMonth(near + 1) <= Day(t)
      <3>1. Holds(near + 1) /\ near + 1 \in (near - 1) .. (near + 1)
        <4>1. (near + 1) + 1 = near + 2
          BY <1>1
        <4> QED
          BY <1>1, <1>3, <2>4, <4>1
      <3> QED
        BY <3>1
    <2> QED
      BY <2>1, <2>2, <2>3, <2>4
  <1>5. MonthOf(t) = CHOOSE i \in (near - 1) .. (near + 1) : Holds(i)
    BY DEF MonthOf, near
  <1>6. MonthOf(t) \in (near - 1) .. (near + 1) /\ Holds(MonthOf(t))
    BY <1>4, <1>5
  <1> QED
    BY <1>1, <1>6

-----------------------------------------------------------------------------
(* Instants and days. *)

\* A day has its instants, whatever their number.
LEMMA Days ==
    ASSUME NEW t \in Int
    PROVE  /\ Day(t) \in Int
           /\ t % TicksPerDay \in 0 .. (TicksPerDay - 1)
           /\ t = Day(t) * TicksPerDay + (t % TicksPerDay)
           /\ Midnight(t) = Day(t) * TicksPerDay
  <1>1. TicksPerDay \in Int /\ TicksPerDay > 0
    BY ClockAssumption
  <1>2. /\ t \div TicksPerDay \in Int
        /\ t % TicksPerDay \in 0 .. (TicksPerDay - 1)
        /\ t = (t \div TicksPerDay) * TicksPerDay + (t % TicksPerDay)
    BY <1>1
  <1>3. (t \div TicksPerDay) * TicksPerDay \in Int
    BY <1>1, <1>2
  <1> QED
    BY <1>2, <1>3 DEF Day, Midnight

LEMMA Scaled ==
    ASSUME NEW x \in Int, NEW y \in Int
    PROVE  /\ x * TicksPerDay \in Int
           /\ x < y => x * TicksPerDay + TicksPerDay <= y * TicksPerDay
           /\ x * TicksPerDay + y * TicksPerDay = (x + y) * TicksPerDay
           /\ x * TicksPerDay - y * TicksPerDay = (x - y) * TicksPerDay
  <1>1. TicksPerDay \in Nat
    BY ClockAssumption
  <1>2. x * TicksPerDay \in Int
    BY <1>1
  <1>3. ASSUME x < y
        PROVE  x * TicksPerDay + TicksPerDay <= y * TicksPerDay
    <2>1. y - x - 1 \in Nat
      BY <1>3
    <2>2. (y - x - 1) * TicksPerDay \in Nat
      BY <1>1, <2>1
    <2>3. (y - x - 1) * TicksPerDay = y * TicksPerDay - x * TicksPerDay - TicksPerDay
      BY <1>1
    <2> QED
      BY <1>1, <2>2, <2>3
  <1>4. x * TicksPerDay + y * TicksPerDay = (x + y) * TicksPerDay
    BY <1>1
  <1>5. x * TicksPerDay - y * TicksPerDay = (x - y) * TicksPerDay
    BY <1>1
  <1> QED
    BY <1>2, <1>3, <1>4, <1>5

\* The day of an instant, found from the midnights around it.
LEMMA DayBetween ==
    ASSUME NEW t \in Int, NEW d \in Int, NEW e \in Int
    PROVE  /\ (d * TicksPerDay <= t) <=> (d <= Day(t))
           /\ (t < e * TicksPerDay) <=> (Day(t) < e)
  <1>1. TicksPerDay \in Nat /\ TicksPerDay > 0
    BY ClockAssumption
  <1>2. /\ Day(t) \in Int
        /\ t % TicksPerDay \in 0 .. (TicksPerDay - 1)
        /\ t = Day(t) * TicksPerDay + (t % TicksPerDay)
    BY Days
  <1>3. /\ d * TicksPerDay \in Int
        /\ e * TicksPerDay \in Int
        /\ Day(t) * TicksPerDay \in Int
    BY <1>2, Scaled
  <1>4. /\ d < Day(t) => d * TicksPerDay + TicksPerDay <= Day(t) * TicksPerDay
        /\ Day(t) < d => Day(t) * TicksPerDay + TicksPerDay <= d * TicksPerDay
        /\ e < Day(t) => e * TicksPerDay + TicksPerDay <= Day(t) * TicksPerDay
        /\ Day(t) < e => Day(t) * TicksPerDay + TicksPerDay <= e * TicksPerDay
    BY <1>2, Scaled
  <1>5. d = Day(t) \/ d < Day(t) \/ Day(t) < d
    BY <1>2
  <1>6. e = Day(t) \/ e < Day(t) \/ Day(t) < e
    BY <1>2
  <1>7. (d * TicksPerDay <= t) <=> (d <= Day(t))
    BY <1>1, <1>2, <1>3, <1>4, <1>5
  <1>8. (t < e * TicksPerDay) <=> (Day(t) < e)
    BY <1>1, <1>2, <1>3, <1>4, <1>6
  <1> QED
    BY <1>7, <1>8

\* What UnitStart and ResolveDateRange call a midnight is one, and the instant
\* before it ends a day.
LEMMA Midnights ==
    ASSUME NEW d \in Int
    PROVE  /\ d * TicksPerDay \in Int
           /\ Day(d * TicksPerDay) = d
           /\ Midnight(d * TicksPerDay) = d * TicksPerDay
           /\ EndOfDay(d * TicksPerDay - 1) = d * TicksPerDay - 1
           /\ d * TicksPerDay # InvalidDate
  <1>1. TicksPerDay \in Nat /\ TicksPerDay > 1
    BY ClockAssumption
  <1>2. d * TicksPerDay \in Int
    BY Scaled
  <1>3. \A x, t \in Int : x * TicksPerDay <= t /\ t < x * TicksPerDay + TicksPerDay => Day(t) = x
    <2> SUFFICES ASSUME NEW x \in Int, NEW t \in Int,
                        x * TicksPerDay <= t, t < x * TicksPerDay + TicksPerDay
                 PROVE  Day(t) = x
      OBVIOUS
    <2>1. x + 1 \in Int /\ (x + 1) * TicksPerDay = x * TicksPerDay + TicksPerDay
      BY <1>1
    <2>2. x <= Day(t) /\ Day(t) < x + 1
      BY <2>1, DayBetween
    <2> QED
      BY <2>2, Days
  <1>4. Day(d * TicksPerDay) = d
    BY <1>1, <1>2, <1>3
  <1>5. Midnight(d * TicksPerDay) = d * TicksPerDay
    BY <1>2, <1>4, Days
  <1>6. EndOfDay(d * TicksPerDay - 1) = d * TicksPerDay - 1
    <2>1. d - 1 \in Int /\ (d - 1) * TicksPerDay = d * TicksPerDay - TicksPerDay
      BY <1>1
    <2>2. d * TicksPerDay - 1 \in Int
      BY <1>2
    <2>3. Day(d * TicksPerDay - 1) = d - 1
      <3>1. /\ (d - 1) * TicksPerDay <= d * TicksPerDay - 1
            /\ d * TicksPerDay - 1 < (d - 1) * TicksPerDay + TicksPerDay
        BY <1>1, <1>2, <2>1
      <3> QED
        BY <1>3, <2>1, <2>2, <3>1
    <2>4. Midnight(d * TicksPerDay - 1) = d * TicksPerDay - TicksPerDay
      BY <2>1, <2>2, <2>3, Days
    <2> QED
      BY <1>1, <1>2, <2>4 DEF EndOfDay
  <1>7. d * TicksPerDay # InvalidDate
    <2>1. CASE d < 0
      <3>1. d * TicksPerDay + TicksPerDay <= 0 * TicksPerDay
        BY <2>1, Scaled
      <3> QED
        BY <1>1, <1>2, <3>1 DEF InvalidDate
    <2>2. CASE d >= 0
      <3>1. d * TicksPerDay \in Nat
        BY <1>1, <2>2
      <3> QED
        BY <3>1 DEF InvalidDate
    <2> QED
      BY <2>1, <2>2
  <1> QED
    BY <1>2, <1>4, <1>5, <1>6, <1>7

-----------------------------------------------------------------------------
(* The grid. *)

LEMMA EdgesRise ==
    ASSUME NEW u \in Units, NEW i \in Int, NEW j \in Int
    PROVE  /\ EdgeDay(u, i) \in Int
           /\ i < j => EdgeDay(u, i) < EdgeDay(u, j)
  <1>1. CASE u \in {"day", "week"}
    BY <1>1 DEF EdgeDay
  <1>2. CASE u = "month"
    BY <1>2, Months, MonthsRise DEF EdgeDay
  <1>3. CASE u = "quarter"
    <2>1. 3 * i \in Int /\ 3 * j \in Int /\ (i < j => 3 * i < 3 * j)
      OBVIOUS
    <2>2. FirstOfMonth(3 * i) \in Int /\ (i < j => FirstOfMonth(3 * i) < FirstOfMonth(3 * j))
      BY <2>1, Months, MonthsRise
    <2> QED
      BY <1>3, <2>2 DEF EdgeDay
  <1>4. CASE u = "year"
    <2>1. 12 * i \in Int /\ 12 * j \in Int /\ (i < j => 12 * i < 12 * j)
      OBVIOUS
    <2>2. FirstOfMonth(12 * i) \in Int /\ (i < j => FirstOfMonth(12 * i) < FirstOfMonth(12 * j))
      BY <2>1, Months, MonthsRise
    <2> QED
      BY <1>4, <2>2 DEF EdgeDay
  <1> QED
    BY <1>1, <1>2, <1>3, <1>4 DEF Units

\* Of the months that begin within n of them, the last that is a multiple of n.
LEMMA Floors ==
    ASSUME NEW i \in Int, NEW n \in {3, 12}
    PROVE  \E k \in Int : /\ Floor(i, n) = n * k
                          /\ n * k <= i
                          /\ i + 1 <= n * (k + 1)
  <1>1. CASE n = 3
    <2>1. i \div 3 \in Int /\ i % 3 \in 0 .. 2 /\ i = 3 * (i \div 3) + (i % 3)
      OBVIOUS
    <2> QED
      BY <1>1, <2>1 DEF Floor
  <1>2. CASE n = 12
    <2>1. i \div 12 \in Int /\ i % 12 \in 0 .. 11 /\ i = 12 * (i \div 12) + (i % 12)
      OBVIOUS
    <2> QED
      BY <1>2, <2>1 DEF Floor
  <1> QED
    BY <1>1, <1>2

\* UnitStart finds the edge before an instant: the day of the edge ...
LEMMA UnitOfDay ==
    ASSUME NEW u \in Units, NEW t \in Int
    PROVE  \E k \in Int : /\ UnitStart(t, u) = Edge(u, k)
                          /\ EdgeDay(u, k) <= Day(t)
                          /\ Day(t) < EdgeDay(u, k + 1)
  <1>1. Day(t) \in Int /\ Midnight(t) = Day(t) * TicksPerDay
    BY Days
  <1>2. CASE u = "day"
    BY <1>1, <1>2 DEF UnitStart, Edge, EdgeDay
  <1>3. CASE u = "week"
    <2> DEFINE k == (Day(t) + 5) \div 7 - 1
    <2>1. /\ k \in Int /\ Weekday(t) \in 0 .. 6
          /\ Day(t) - Weekday(t) = 7 * k + 2
      BY <1>1 DEF Weekday
    <2> HIDE DEF k
    <2>2. Day(t) * TicksPerDay - Weekday(t) * TicksPerDay = (7 * k + 2) * TicksPerDay
      <3>1. Weekday(t) \in Int
        BY <2>1
      <3>2. Day(t) * TicksPerDay - Weekday(t) * TicksPerDay
              = (Day(t) - Weekday(t)) * TicksPerDay
        BY <1>1, <3>1, Scaled
      <3> QED
        BY <2>1, <3>2
    <2>3. UnitStart(t, u) = Edge(u, k)
      BY <1>1, <1>3, <2>2 DEF UnitStart, Edge, EdgeDay
    <2>4. 7 * k + 2 <= Day(t) /\ Day(t) < 7 * (k + 1) + 2
      BY <1>1, <2>1
    <2> QED
      BY <1>3, <2>1, <2>3, <2>4 DEF EdgeDay
  <1>4. /\ MonthOf(t) \in Int
        /\ FirstOfMonth(MonthOf(t)) <= Day(t)
        /\ Day(t) < FirstOfMonth(MonthOf(t) + 1)
    BY <1>1, MonthOfDay
  <1>5. CASE u = "month"
    <2>1. Floor(MonthOf(t), 1) = MonthOf(t)
      BY <1>4 DEF Floor
    <2> QED
      BY <1>4, <1>5, <2>1 DEF UnitStart, MonthsIn, Edge, EdgeDay
  <1>6. ASSUME NEW n \in {3, 12}, u \in {"quarter", "year"}, MonthsIn(u) = n
        PROVE  \E k \in Int : /\ UnitStart(t, u) = FirstOfMonth(n * k) * TicksPerDay
                              /\ FirstOfMonth(n * k) <= Day(t)
                              /\ Day(t) < FirstOfMonth(n * (k + 1))
    <2>1. PICK k \in Int : /\ Floor(MonthOf(t), n) = n * k
                           /\ n * k <= MonthOf(t)
                           /\ MonthOf(t) + 1 <= n * (k + 1)
      BY <1>4, Floors
    <2>2. n * k \in Int /\ n * (k + 1) \in Int /\ MonthOf(t) + 1 \in Int
      BY <1>4
    <2>3. /\ FirstOfMonth(n * k) \in Int
          /\ FirstOfMonth(n * (k + 1)) \in Int
          /\ FirstOfMonth(MonthOf(t)) \in Int
          /\ FirstOfMonth(MonthOf(t) + 1) \in Int
      BY <1>4, <2>2, MonthsAreDays
    <2>4. n * k < MonthOf(t) => FirstOfMonth(n * k) < FirstOfMonth(MonthOf(t))
      BY <1>4, <2>2, MonthsRise
    <2>5. MonthOf(t) + 1 < n * (k + 1)
              => FirstOfMonth(MonthOf(t) + 1) < FirstOfMonth(n * (k + 1))
      BY <1>4, <2>2, MonthsRise
    <2>6. FirstOfMonth(n * k) <= Day(t)
      <3>1. n * k = MonthOf(t) \/ n * k < MonthOf(t)
        BY <1>4, <2>1, <2>2
      <3> QED
        BY <1>1, <1>4, <2>3, <2>4, <3>1
    <2>7. Day(t) < FirstOfMonth(n * (k + 1))
      <3>1. MonthOf(t) + 1 = n * (k + 1) \/ MonthOf(t) + 1 < n * (k + 1)
        BY <1>4, <2>1, <2>2
      <3> QED
        BY <1>1, <1>4, <2>3, <2>5, <3>1
    <2>8. UnitStart(t, u) = FirstOfMonth(n * k) * TicksPerDay
      BY <1>6, <2>1 DEF UnitStart
    <2> QED
      BY <2>6, <2>7, <2>8
  <1>7. CASE u = "quarter"
    <2>1. 3 \in {3, 12} /\ MonthsIn(u) = 3
      BY <1>7 DEF MonthsIn
    <2>2. \E k \in Int : /\ UnitStart(t, u) = FirstOfMonth(3 * k) * TicksPerDay
                         /\ FirstOfMonth(3 * k) <= Day(t)
                         /\ Day(t) < FirstOfMonth(3 * (k + 1))
      BY <1>6, <1>7, <2>1
    <2> QED
      BY <1>7, <2>2 DEF Edge, EdgeDay
  <1>8. CASE u = "year"
    <2>1. 12 \in {3, 12} /\ MonthsIn(u) = 12
      BY <1>8 DEF MonthsIn
    <2>2. \E k \in Int : /\ UnitStart(t, u) = FirstOfMonth(12 * k) * TicksPerDay
                         /\ FirstOfMonth(12 * k) <= Day(t)
                         /\ Day(t) < FirstOfMonth(12 * (k + 1))
      BY <1>6, <1>8, <2>1
    <2> QED
      BY <1>8, <2>2 DEF Edge, EdgeDay
  <1> QED
    BY <1>2, <1>3, <1>5, <1>7, <1>8 DEF Units

\* ... and the edge itself, the only one with the instant in its unit.
LEMMA UnitStartIsEdge ==
    ASSUME NEW u \in Units, NEW k \in Int, NEW t \in Int,
           Edge(u, k) <= t, t < Edge(u, k + 1)
    PROVE  UnitStart(t, u) = Edge(u, k)
  <1>1. PICK j \in Int : /\ UnitStart(t, u) = Edge(u, j)
                         /\ EdgeDay(u, j) <= Day(t)
                         /\ Day(t) < EdgeDay(u, j + 1)
    BY UnitOfDay
  <1>2. k + 1 \in Int /\ j + 1 \in Int
    OBVIOUS
  <1>3. /\ EdgeDay(u, k) \in Int /\ EdgeDay(u, k + 1) \in Int
        /\ EdgeDay(u, j) \in Int /\ EdgeDay(u, j + 1) \in Int
    BY <1>2, EdgesRise
  <1>4. EdgeDay(u, k) <= Day(t) /\ Day(t) < EdgeDay(u, k + 1) /\ Day(t) \in Int
    BY <1>3, DayBetween, Days DEF Edge
  <1>5. ~ (k + 1 < j) /\ ~ (j + 1 < k) /\ k + 1 # j /\ j + 1 # k
    <2>1. /\ k + 1 < j => EdgeDay(u, k + 1) < EdgeDay(u, j)
          /\ j + 1 < k => EdgeDay(u, j + 1) < EdgeDay(u, k)
      BY <1>2, EdgesRise
    <2> QED
      BY <1>1, <1>3, <1>4, <2>1
  <1>6. k = j
    BY <1>5
  <1> QED
    BY <1>1, <1>6

\* Every instant is in a unit of the grid.
LEMMA OnTheGrid ==
    ASSUME NEW u \in Units, NEW t \in Int
    PROVE  \E k \in Int : Edge(u, k) <= t /\ t < Edge(u, k + 1)
  <1>1. PICK k \in Int : EdgeDay(u, k) <= Day(t) /\ Day(t) < EdgeDay(u, k + 1)
    BY UnitOfDay
  <1>2. EdgeDay(u, k) \in Int /\ EdgeDay(u, k + 1) \in Int
    <2>1. k + 1 \in Int
      OBVIOUS
    <2> QED
      BY <2>1, EdgesRise
  <1>3. Edge(u, k) <= t /\ t < Edge(u, k + 1)
    BY <1>1, <1>2, DayBetween DEF Edge
  <1> QED
    BY <1>3

LEMMA EdgesAreMidnights ==
    ASSUME NEW u \in Units, NEW k \in Int
    PROVE  /\ Edge(u, k) \in Int
           /\ Midnight(Edge(u, k)) = Edge(u, k)
           /\ EndOfDay(Edge(u, k) - 1) = Edge(u, k) - 1
           /\ Edge(u, k) # InvalidDate
           /\ Edge(u, k) < Edge(u, k + 1)
  <1>1. k + 1 \in Int /\ k < k + 1
    OBVIOUS
  <1>2. EdgeDay(u, k) \in Int /\ EdgeDay(u, k + 1) \in Int
    BY <1>1, EdgesRise
  <1>3. EdgeDay(u, k) < EdgeDay(u, k + 1)
    BY <1>1, EdgesRise
  <1>4. /\ EdgeDay(u, k) * TicksPerDay \in Int
        /\ EdgeDay(u, k + 1) * TicksPerDay \in Int
        /\ EdgeDay(u, k) * TicksPerDay + TicksPerDay <= EdgeDay(u, k + 1) * TicksPerDay
    BY <1>2, <1>3, Scaled
  <1>5. EdgeDay(u, k) * TicksPerDay < EdgeDay(u, k + 1) * TicksPerDay
    BY <1>4, ClockAssumption
  <1> QED
    BY <1>2, <1>5, Midnights DEF Edge

\* dt.replace moves the first of a month to the first of another: it exists.
LEMMA FirstsMove ==
    ASSUME NEW i \in Int, NEW n \in Int
    PROVE  AddMonths(FirstOfMonth(i) * TicksPerDay, n) = FirstOfMonth(i + n) * TicksPerDay
  <1> DEFINE t == FirstOfMonth(i) * TicksPerDay
  <1>1. FirstOfMonth(i) \in Int
    BY MonthsAreDays
  <1>2. t \in Int /\ Day(t) = FirstOfMonth(i)
    BY <1>1, Midnights
  <1>3. MonthOf(t) = i
    <2>1. /\ MonthOf(t) \in Int
          /\ FirstOfMonth(MonthOf(t)) <= FirstOfMonth(i)
          /\ FirstOfMonth(i) < FirstOfMonth(MonthOf(t) + 1)
      BY <1>1, <1>2, MonthOfDay
    <2>2. MonthOf(t) + 1 \in Int
      BY <2>1
    <2>3. FirstOfMonth(MonthOf(t)) \in Int /\ FirstOfMonth(MonthOf(t) + 1) \in Int
      BY <2>1, <2>2, MonthsAreDays
    <2>4. /\ i < MonthOf(t) => FirstOfMonth(i) < FirstOfMonth(MonthOf(t))
          /\ MonthOf(t) + 1 < i => FirstOfMonth(MonthOf(t) + 1) < FirstOfMonth(i)
      BY <2>1, <2>2, MonthsRise
    <2>5. ~ (i < MonthOf(t)) /\ ~ (MonthOf(t) + 1 < i) /\ MonthOf(t) + 1 # i
      BY <1>1, <2>1, <2>3, <2>4
    <2> QED
      BY <2>1, <2>5
  <1>4. t - FirstOfMonth(i) * TicksPerDay = 0
    BY <1>2
  <1>5. AddMonths(t, n) = InMonth(i + n, 0)
    BY <1>3, <1>4 DEF AddMonths
  <1>6. i + n \in Int /\ i + n + 1 \in Int /\ i + n < i + n + 1
    OBVIOUS
  <1>7. /\ FirstOfMonth(i + n) \in Int
        /\ FirstOfMonth(i + n + 1) \in Int
        /\ FirstOfMonth(i + n) < FirstOfMonth(i + n + 1)
    BY <1>6, MonthsAreDays, MonthsRise
  <1>8. /\ FirstOfMonth(i + n) * TicksPerDay \in Int
        /\ FirstOfMonth(i + n + 1) * TicksPerDay \in Int
        /\ FirstOfMonth(i + n) * TicksPerDay + TicksPerDay
               <= FirstOfMonth(i + n + 1) * TicksPerDay
    BY <1>7, Scaled
  <1>9. /\ FirstOfMonth(i + n) * TicksPerDay + 0 = FirstOfMonth(i + n) * TicksPerDay
        /\ FirstOfMonth(i + n) * TicksPerDay < FirstOfMonth(i + n + 1) * TicksPerDay
    BY <1>8, ClockAssumption
  <1> QED
    BY <1>5, <1>9 DEF InMonth

\* Moving along the grid.
LEMMA EdgesMove ==
    ASSUME NEW u \in Units, NEW k \in Int, NEW n \in Int
    PROVE  Plus(Edge(u, k), u, n) = Edge(u, k + n)
  <1>1. CASE u = "day"
    <2>1. k * TicksPerDay + n * TicksPerDay = (k + n) * TicksPerDay
      BY Scaled
    <2> QED
      BY <1>1, <2>1 DEF Plus, Edge, EdgeDay
  <1>2. CASE u = "week"
    <2>1. 7 * k + 2 \in Int /\ 7 * n \in Int /\ (7 * k + 2) + 7 * n = 7 * (k + n) + 2
      OBVIOUS
    <2>2. (7 * k + 2) * TicksPerDay + (7 * n) * TicksPerDay = (7 * (k + n) + 2) * TicksPerDay
      BY <2>1, Scaled
    <2> QED
      BY <1>2, <2>2 DEF Plus, Edge, EdgeDay
  <1>3. CASE u = "month"
    <2>1. n * 1 = n
      OBVIOUS
    <2> QED
      BY <1>3, <2>1, FirstsMove DEF Plus, MonthsIn, Edge, EdgeDay
  <1>4. CASE u = "quarter"
    <2>1. 3 * k \in Int /\ n * 3 \in Int /\ 3 * k + n * 3 = 3 * (k + n)
      OBVIOUS
    <2>2. AddMonths(FirstOfMonth(3 * k) * TicksPerDay, n * 3)
            = FirstOfMonth(3 * (k + n)) * TicksPerDay
      BY <2>1, FirstsMove
    <2> QED
      BY <1>4, <2>2 DEF Plus, MonthsIn, Edge, EdgeDay
  <1>5. CASE u = "year"
    <2>1. 12 * k \in Int /\ n * 12 \in Int /\ 12 * k + n * 12 = 12 * (k + n)
      OBVIOUS
    <2>2. AddMonths(FirstOfMonth(12 * k) * TicksPerDay, n * 12)
            = FirstOfMonth(12 * (k + n)) * TicksPerDay
      BY <2>1, FirstsMove
    <2> QED
      BY <1>5, <2>2 DEF Plus, MonthsIn, Edge, EdgeDay
  <1> QED
    BY <1>1, <1>2, <1>3, <1>4, <1>5 DEF Units

\* What each keyword resolves to, on the grid.
LEMMA UnitsResolved ==
    ASSUME NEW u \in Units, NEW k \in Int, NEW t \in Int,
           Edge(u, k) <= t, t < Edge(u, k + 1)
    PROVE  /\ ResolveDateRange(ThisUnit(u), t) = <<Edge(u, k), Edge(u, k + 1) - 1>>
           /\ ResolveDateRange(LastUnit(u), t) = <<Edge(u, k - 1), Edge(u, k) - 1>>
           /\ \A n \in Int : ResolveDateRange(LastUnits(n, u), t)
                                = <<Edge(u, k - n), Edge(u, k + 1) - 1>>
  <1>1. UnitStart(t, u) = Edge(u, k)
    BY UnitStartIsEdge
  <1>2. UnitEnd(t, u) = Edge(u, k + 1) - 1
    BY <1>1, EdgesMove DEF UnitEnd
  <1>3. /\ Plus(Edge(u, k), u, -1) = Edge(u, k - 1)
        /\ Plus(Edge(u, k - 1), u, 1) = Edge(u, k)
    <2>1. -1 \in Int /\ 1 \in Int /\ k - 1 \in Int /\ k + (-1) = k - 1 /\ (k - 1) + 1 = k
      OBVIOUS
    <2> QED
      BY <2>1, EdgesMove
  <1>4. \A n \in Int : Plus(Edge(u, k), u, -n) = Edge(u, k - n)
    <2> SUFFICES ASSUME NEW n \in Int
                 PROVE  Plus(Edge(u, k), u, -n) = Edge(u, k - n)
      OBVIOUS
    <2>1. -n \in Int /\ k + (-n) = k - n
      OBVIOUS
    <2> QED
      BY <2>1, EdgesMove
  <1> QED
    BY <1>1, <1>2, <1>3, <1>4 DEF ResolveDateRange, ThisUnit, LastUnit, LastUnits, From

-----------------------------------------------------------------------------
(* Units within units. *)

\* The units that are parts of another one.
Divides(u, g) ==
    \/ u = g \/ u = "day"
    \/ u = "month" /\ g \in {"quarter", "year"}
    \/ u = "quarter" /\ g = "year"

\* Where a unit begins, so does one of its parts.
LEMMA EdgesOfParts ==
    ASSUME NEW u \in Units, NEW g \in Units, Divides(u, g), NEW k \in Int
    PROVE  \E j \in Int : Edge(u, j) = Edge(g, k)
  <1>1. CASE u = g
    BY <1>1
  <1>2. CASE u = "day"
    <2>1. EdgeDay(g, k) \in Int
      BY EdgesRise
    <2>2. Edge(u, EdgeDay(g, k)) = Edge(g, k)
      BY <1>2 DEF Edge, EdgeDay
    <2> QED
      BY <2>1, <2>2
  <1>3. CASE u = "month" /\ g = "quarter"
    <2>1. 3 * k \in Int /\ Edge(u, 3 * k) = Edge(g, k)
      BY <1>3 DEF Edge, EdgeDay
    <2> QED
      BY <2>1
  <1>4. CASE u = "month" /\ g = "year"
    <2>1. 12 * k \in Int /\ Edge(u, 12 * k) = Edge(g, k)
      BY <1>4 DEF Edge, EdgeDay
    <2> QED
      BY <2>1
  <1>5. CASE u = "quarter" /\ g = "year"
    <2>1. 4 * k \in Int /\ 3 * (4 * k) = 12 * k
      OBVIOUS
    <2>2. Edge(u, 4 * k) = Edge(g, k)
      BY <1>5, <2>1 DEF Edge, EdgeDay
    <2> QED
      BY <2>1, <2>2
  <1> QED
    BY <1>1, <1>2, <1>3, <1>4, <1>5 DEF Divides

\* An instant lies between the edges of its unit.
LEMMA UnitAround ==
    ASSUME NEW u \in Units, NEW t \in Int
    PROVE  \E k \in Int : /\ UnitStart(t, u) = Edge(u, k)
                          /\ Edge(u, k) <= t /\ t < Edge(u, k + 1)
                          /\ Edge(u, k) \in Int /\ Edge(u, k + 1) \in Int
  <1>1. PICK k \in Int : Edge(u, k) <= t /\ t < Edge(u, k + 1)
    BY OnTheGrid
  <1>2. UnitStart(t, u) = Edge(u, k)
    BY <1>1, UnitStartIsEdge
  <1>3. k + 1 \in Int
    OBVIOUS
  <1> QED
    BY <1>1, <1>2, <1>3, EdgesAreMidnights

\* Edges rise with their numbers.
LEMMA EdgesOrdered ==
    ASSUME NEW u \in Units, NEW i \in Int, NEW j \in Int
    PROVE  Edge(u, i) < Edge(u, j) <=> i < j
  <1>1. ASSUME NEW a \in Int, NEW b \in Int, a < b PROVE Edge(u, a) < Edge(u, b)
    <2>1. EdgeDay(u, a) \in Int /\ EdgeDay(u, b) \in Int /\ EdgeDay(u, a) < EdgeDay(u, b)
      BY <1>1, EdgesRise
    <2>2. Edge(u, a) + TicksPerDay <= Edge(u, b)
      BY <2>1, Scaled DEF Edge
    <2>3. Edge(u, a) \in Int /\ Edge(u, b) \in Int
      BY EdgesAreMidnights
    <2> QED
      BY <2>2, <2>3, ClockAssumption
  <1>2. Edge(u, i) \in Int /\ Edge(u, j) \in Int
    BY EdgesAreMidnights
  <1>3. CASE i < j
    BY <1>1, <1>3
  <1>4. CASE j < i
    <2>1. Edge(u, j) < Edge(u, i)
      BY <1>1, <1>4
    <2> QED
      BY <1>2, <1>4, <2>1
  <1>5. CASE i = j
    BY <1>2, <1>5
  <1> QED
    BY <1>3, <1>4, <1>5

\* An edge that is not after an instant is not after the start of its unit.
LEMMA EdgeBefore ==
    ASSUME NEW u \in Units, NEW j \in Int, NEW t \in Int
    PROVE  /\ UnitStart(t, u) \in Int /\ UnitStart(t, u) <= t
           /\ Edge(u, j) \in Int
           /\ Edge(u, j) <= t <=> Edge(u, j) <= UnitStart(t, u)
  <1>1. PICK k \in Int : /\ UnitStart(t, u) = Edge(u, k)
                         /\ Edge(u, k) <= t /\ t < Edge(u, k + 1)
                         /\ Edge(u, k) \in Int /\ Edge(u, k + 1) \in Int
    BY UnitAround
  <1>2. Edge(u, j) \in Int
    BY EdgesAreMidnights
  <1>3. Edge(u, j) <= t => Edge(u, j) <= Edge(u, k)
    <2> SUFFICES ASSUME Edge(u, j) <= t PROVE Edge(u, j) <= Edge(u, k)
      OBVIOUS
    <2>1. Edge(u, j) < Edge(u, k + 1) /\ k + 1 \in Int
      BY <1>1, <1>2
    <2>2. j < k + 1
      BY <2>1, EdgesOrdered
    <2>3. ~(k < j)
      BY <2>2
    <2>4. ~(Edge(u, k) < Edge(u, j))
      BY <2>3, EdgesOrdered
    <2> QED
      BY <1>1, <1>2, <2>4
  <1> QED
    BY <1>1, <1>2, <1>3

\* Units may be told from the starts of their parts.
LEMMA UnitsNest ==
    ASSUME NEW u \in Units, NEW g \in Units, Divides(u, g), NEW t \in Int
    PROVE  UnitStart(t, u) \in Int /\ UnitStart(UnitStart(t, u), g) = UnitStart(t, g)
  <1>1. PICK k \in Int : /\ UnitStart(t, g) = Edge(g, k)
                         /\ Edge(g, k) <= t /\ t < Edge(g, k + 1)
                         /\ Edge(g, k) \in Int /\ Edge(g, k + 1) \in Int
    BY UnitAround
  <1>2. PICK j \in Int : Edge(u, j) = Edge(g, k)
    BY EdgesOfParts
  <1>3. /\ UnitStart(t, u) \in Int /\ UnitStart(t, u) <= t
        /\ Edge(g, k) <= UnitStart(t, u)
    BY <1>1, <1>2, EdgeBefore
  <1>4. UnitStart(t, u) < Edge(g, k + 1)
    BY <1>1, <1>3
  <1> QED
    BY <1>1, <1>3, <1>4, UnitStartIsEdge

\* A unit begins within a range of whole units if an instant of it lies there.
LEMMA WholeUnits ==
    ASSUME NEW u \in Units, NEW from \in Int, NEW to \in Int,
           from = UnitStart(from, u), to + 1 = UnitStart(to + 1, u), NEW t \in Int
    PROVE  /\ UnitStart(t, u) \in Int
           /\ t >= from <=> UnitStart(t, u) >= from
           /\ t <= to <=> UnitStart(t, u) <= to
  <1>1. to + 1 \in Int
    OBVIOUS
  <1>2. PICK i \in Int : UnitStart(from, u) = Edge(u, i)
    BY UnitAround
  <1>3. PICK j \in Int : UnitStart(to + 1, u) = Edge(u, j)
    BY <1>1, UnitAround
  <1>4. UnitStart(t, u) \in Int
    BY EdgeBefore
  <1>5. from <= t <=> from <= UnitStart(t, u)
    BY <1>2, EdgeBefore
  <1>6. to + 1 <= t <=> to + 1 <= UnitStart(t, u)
    BY <1>3, EdgeBefore
  <1> QED
    BY <1>4, <1>5, <1>6

-----------------------------------------------------------------------------
(* The clock. *)

NowType == now \in Nat

LEMMA ClockRuns == ClockSpec => []NowType
  <1>1. now = FirstInstant => NowType
    BY ClockAssumption DEF NowType
  <1>2. NowType /\ [Tick]_now => NowType'
    BY DEF NowType, Tick
  <1> QED
    BY <1>1, <1>2, PTL DEF ClockSpec

\* "this", "last" and "last N" follow each other without a gap, whichever unit
\* and moment: resolve_date_range's own arithmetic, over every month end and
\* leap year.
THEOREM UnitsFollow == ClockSpec => []UnitsFollowEachOther
  <1>1. NowType => UnitsFollowEachOther
    <2> SUFFICES ASSUME NowType, NEW u \in Units
                 PROVE  /\ now \in Start(ThisUnit(u)) .. End(ThisUnit(u))
                        /\ End(LastUnit(u)) + 1 = Start(ThisUnit(u))
                        /\ \A n \in Windows :
                              /\ End(LastUnits(n, u)) = End(ThisUnit(u))
                              /\ n > 1 => Start(LastUnits(n, u))
                                    = ResolveDateRange(LastUnits(n - 1, u), End(LastUnit(u)))[1]
                              /\ n = 1 => Start(LastUnits(n, u)) = Start(LastUnit(u))
      BY DEF UnitsFollowEachOther
    <2>1. now \in Int
      BY DEF NowType
    <2>2. PICK k \in Int : Edge(u, k) <= now /\ now < Edge(u, k + 1)
      BY <2>1, OnTheGrid
    <2>3. k - 1 \in Int /\ k + 1 \in Int /\ (k - 1) + 1 = k
      OBVIOUS
    <2>4. /\ Edge(u, k - 1) \in Int /\ Edge(u, k) \in Int /\ Edge(u, k + 1) \in Int
          /\ Edge(u, k - 1) < Edge(u, k)
      BY <2>3, EdgesAreMidnights
    <2>5. /\ Start(ThisUnit(u)) = Edge(u, k)
          /\ End(ThisUnit(u)) = Edge(u, k + 1) - 1
          /\ Start(LastUnit(u)) = Edge(u, k - 1)
          /\ End(LastUnit(u)) = Edge(u, k) - 1
      BY <2>1, <2>2, UnitsResolved DEF Start, End
    <2>6. ASSUME NEW n \in Windows
          PROVE  /\ Start(LastUnits(n, u)) = Edge(u, k - n)
                 /\ End(LastUnits(n, u)) = Edge(u, k + 1) - 1
                 /\ ResolveDateRange(LastUnits(n - 1, u), Edge(u, k) - 1)[1] = Edge(u, k - n)
      <3>1. n \in Int /\ n - 1 \in Int /\ (k - 1) - (n - 1) = k - n
        BY DEF Windows
      <3>2. /\ Start(LastUnits(n, u)) = Edge(u, k - n)
            /\ End(LastUnits(n, u)) = Edge(u, k + 1) - 1
        BY <2>1, <2>2, <3>1, UnitsResolved DEF Start, End
      <3>3. /\ Edge(u, k) - 1 \in Int
            /\ Edge(u, k - 1) <= Edge(u, k) - 1
            /\ Edge(u, k) - 1 < Edge(u, (k - 1) + 1)
        BY <2>3, <2>4
      <3>4. ResolveDateRange(LastUnits(n - 1, u), Edge(u, k) - 1)[1]
              = Edge(u, (k - 1) - (n - 1))
        <4>1. \A m \in Int : ResolveDateRange(LastUnits(m, u), Edge(u, k) - 1)
                               = <<Edge(u, (k - 1) - m), Edge(u, (k - 1) + 1) - 1>>
          BY <2>3, <3>3, UnitsResolved
        <4> QED
          BY <3>1, <4>1
      <3> QED
        BY <3>1, <3>2, <3>4
    <2>7. now \in Start(ThisUnit(u)) .. End(ThisUnit(u))
      BY <2>1, <2>2, <2>4, <2>5
    <2>8. End(LastUnit(u)) + 1 = Start(ThisUnit(u))
      BY <2>4, <2>5
    <2> QED
      BY <2>5, <2>6, <2>7, <2>8 DEF Windows
  <1> QED
    BY <1>1, ClockRuns, PTL

\* As time passes, the range of a keyword stays or gives way to the next one:
\* no instant is between two reports or in both.
THEOREM RangesTile == ClockSpec => []RangesTileTime
  <1>1. NowType => RangesTileTime
    <2> SUFFICES ASSUME NowType, NEW u \in Units,
                        NEW value \in {ThisUnit(u), LastUnit(u)}
                 PROVE  LET later == ResolveDateRange(value, now + 1)
                        IN  \/ later = <<Start(value), End(value)>>
                            \/ later[1] = End(value) + 1
      <3>1. \A value \in [word : {"this", "last"}, unit : Units] :
                \E u \in Units : value = ThisUnit(u) \/ value = LastUnit(u)
        BY DEF ThisUnit, LastUnit
      <3> QED
        BY <3>1 DEF RangesTileTime
    <2>1. now \in Int /\ now + 1 \in Int
      BY DEF NowType
    <2>2. PICK k \in Int : Edge(u, k) <= now /\ now < Edge(u, k + 1)
      BY <2>1, OnTheGrid
    <2>3. k - 1 \in Int /\ k + 1 \in Int /\ (k + 1) - 1 = k
      OBVIOUS
    <2>4. /\ Edge(u, k) \in Int /\ Edge(u, k + 1) \in Int
          /\ Edge(u, k + 1) < Edge(u, (k + 1) + 1)
      BY <2>3, EdgesAreMidnights
    <2>5. /\ Start(ThisUnit(u)) = Edge(u, k)
          /\ End(ThisUnit(u)) = Edge(u, k + 1) - 1
          /\ Start(LastUnit(u)) = Edge(u, k - 1)
          /\ End(LastUnit(u)) = Edge(u, k) - 1
      BY <2>1, <2>2, UnitsResolved DEF Start, End
    <2>6. CASE now + 1 < Edge(u, k + 1)
      <3>1. Edge(u, k) <= now + 1
        BY <2>1, <2>2, <2>4
      <3>2. /\ ResolveDateRange(ThisUnit(u), now + 1) = <<Edge(u, k), Edge(u, k + 1) - 1>>
            /\ ResolveDateRange(LastUnit(u), now + 1) = <<Edge(u, k - 1), Edge(u, k) - 1>>
        BY <2>1, <2>6, <3>1, UnitsResolved
      <3> QED
        BY <2>5, <3>2
    <2>7. CASE now + 1 = Edge(u, k + 1)
      <3>1. Edge(u, k + 1) <= now + 1 /\ now + 1 < Edge(u, (k + 1) + 1)
        BY <2>4, <2>7
      <3>2. /\ ResolveDateRange(ThisUnit(u), now + 1)[1] = Edge(u, k + 1)
            /\ ResolveDateRange(LastUnit(u), now + 1)[1] = Edge(u, (k + 1) - 1)
        BY <2>1, <2>3, <3>1, UnitsResolved
      <3>3. /\ ResolveDateRange(ThisUnit(u), now + 1)[1] = End(ThisUnit(u)) + 1
            /\ ResolveDateRange(LastUnit(u), now + 1)[1] = End(LastUnit(u)) + 1
        BY <2>3, <2>4, <2>5, <3>2
      <3> QED
        BY <3>3
    <2> QED
      BY <2>1, <2>2, <2>4, <2>6, <2>7
  <1> QED
    BY <1>1, ClockRuns, PTL

\* No date the code computes is one that does not exist, and every range is
\* made of whole days.
THEOREM WholeDays == ClockSpec => []ResolvesToWholeDays
  <1> DEFINE Whole(value) ==
                /\ Start(value) # InvalidDate /\ Start(value) = Midnight(Start(value))
                /\ Start(value) <= End(value) /\ End(value) = EndOfDay(End(value))
  <1>1. ASSUME NowType, NEW u \in Units, NEW i \in Int, NEW j \in Int, i < j,
               NEW value, ResolveDateRange(value, now) = <<Edge(u, i), Edge(u, j) - 1>>
        PROVE  Whole(value)
    <2>1. Start(value) = Edge(u, i) /\ End(value) = Edge(u, j) - 1
      BY <1>1 DEF Start, End
    <2>2. /\ Edge(u, i) \in Int /\ Edge(u, i) # InvalidDate
          /\ Midnight(Edge(u, i)) = Edge(u, i)
          /\ Edge(u, j) \in Int /\ EndOfDay(Edge(u, j) - 1) = Edge(u, j) - 1
      BY EdgesAreMidnights
    <2>3. Edge(u, i) < Edge(u, j)
      <3>1. EdgeDay(u, i) \in Int /\ EdgeDay(u, j) \in Int /\ EdgeDay(u, i) < EdgeDay(u, j)
        BY <1>1, EdgesRise
      <3>2. /\ EdgeDay(u, i) * TicksPerDay \in Int
            /\ EdgeDay(u, j) * TicksPerDay \in Int
            /\ EdgeDay(u, i) * TicksPerDay + TicksPerDay <= EdgeDay(u, j) * TicksPerDay
        BY <3>1, Scaled
      <3> QED
        BY <3>2, ClockAssumption DEF Edge
    <2> QED
      BY <2>1, <2>2, <2>3
  <1>2. ASSUME NowType, NEW u \in Units
        PROVE  /\ Whole(ThisUnit(u)) /\ Whole(LastUnit(u))
               /\ \A n \in Windows : Whole(LastUnits(n, u))
    <2>1. now \in Int
      BY <1>2 DEF NowType
    <2>2. PICK k \in Int : Edge(u, k) <= now /\ now < Edge(u, k + 1)
      BY <2>1, OnTheGrid
    <2>3. k - 1 \in Int /\ k + 1 \in Int /\ k < k + 1 /\ k - 1 < k
      OBVIOUS
    <2>4. /\ ResolveDateRange(ThisUnit(u), now) = <<Edge(u, k), Edge(u, k + 1) - 1>>
          /\ ResolveDateRange(LastUnit(u), now) = <<Edge(u, k - 1), Edge(u, k) - 1>>
          /\ \A n \in Int : ResolveDateRange(LastUnits(n, u), now)
                                = <<Edge(u, k - n), Edge(u, k + 1) - 1>>
      BY <2>1, <2>2, UnitsResolved
    <2> HIDE DEF Whole
    <2>5. Whole(ThisUnit(u)) /\ Whole(LastUnit(u))
      BY <1>1, <1>2, <2>3, <2>4
    <2>6. ASSUME NEW n \in Windows
          PROVE  Whole(LastUnits(n, u))
      <3>1. n \in Int /\ k - n \in Int /\ k - n < k + 1
        BY DEF Windows
      <3> QED
        BY <1>1, <1>2, <2>3, <2>4, <3>1
    <2> QED
      BY <2>5, <2>6
  <1>3. ASSUME NowType, NEW value \in {Between(OnDate(now), OnDate(now)), On(now)}
        PROVE  Whole(value)
    <2>1. now \in Int
      BY <1>3 DEF NowType
    <2>2. Day(now) \in Int /\ Midnight(now) = Day(now) * TicksPerDay
      BY <2>1, Days
    <2>3. Day(now) + 1 \in Int /\ Day(now) < Day(now) + 1
      BY <2>2
    <2>4. Edge("day", Day(now)) = Midnight(now)
      BY <2>2 DEF Edge, EdgeDay
    <2>5. /\ Midnight(Midnight(now)) = Midnight(now) /\ Midnight(now) \in Int
          /\ EndOfDay(now) = Midnight(now) + TicksPerDay - 1
          /\ EndOfDay(Midnight(now)) = EndOfDay(now)
      BY <2>2, Midnights DEF EndOfDay
    <2>6. Edge("day", Day(now) + 1) - 1 = EndOfDay(now)
      <3>1. (Day(now) + 1) * TicksPerDay = Day(now) * TicksPerDay + TicksPerDay
        BY <2>2, ClockAssumption
      <3>2. Edge("day", Day(now) + 1) = (Day(now) + 1) * TicksPerDay
        BY DEF Edge, EdgeDay
      <3>3. Day(now) * TicksPerDay \in Int
        BY <2>2, Scaled
      <3> QED
        BY <2>2, <2>5, <3>1, <3>2, <3>3, ClockAssumption
    <2>7. ResolveDateRange(value, now) = <<Midnight(now), EndOfDay(now)>>
      BY <1>3, <2>5 DEF ResolveDateRange, Between, On, OnDate
    <2>8. "day" \in Units
      BY DEF Units
    <2> HIDE DEF Whole
    <2> QED
      BY <1>1, <1>3, <2>2, <2>3, <2>4, <2>6, <2>7, <2>8
  <1>4. NowType => ResolvesToWholeDays
    <2> SUFFICES ASSUME NowType,
                        NEW value \in [word : {"this", "last"}, unit : Units]
                              \cup {LastUnits(n, u) : n \in Windows, u \in Units}
                              \cup {Between(OnDate(now), OnDate(now)), On(now)}
                 PROVE  Whole(value)
      BY DEF ResolvesToWholeDays
    <2> HIDE DEF Whole
    <2>1. CASE value \in [word : {"this", "last"}, unit : Units]
      <3>1. \E u \in Units : value = ThisUnit(u) \/ value = LastUnit(u)
        BY <2>1 DEF ThisUnit, LastUnit
      <3> QED
        BY <1>2, <3>1
    <2>2. CASE value \in {LastUnits(n, u) : n \in Windows, u \in Units}
      BY <1>2, <2>2
    <2>3. CASE value \in {Between(OnDate(now), OnDate(now)), On(now)}
      BY <1>3, <2>3
    <2> QED
      BY <2>1, <2>2, <2>3
  <1> QED
    BY <1>4, ClockRuns, PTL

=============================================================================
