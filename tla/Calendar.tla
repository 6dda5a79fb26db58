------------------------------- MODULE Calendar -------------------------------
(***************************************************************************)
(* The days of some years, one by one: what TimeScope's arithmetic on dates  *)
(* is compared with.  A date is the number YYYYMMDD.                        *)
(***************************************************************************)
EXTENDS Naturals, FiniteSets

CONSTANTS
  Years,           \* consecutive years, none of them a century
  FirstWeekday     \* the weekday of their first day, Sunday being 0

ASSUME YearsAreConsecutive ==
  /\ Years \subseteq Nat \ {0} /\ IsFiniteSet(Years)
  /\ \A y, z \in Years : y..z \subseteq Years
  /\ \A y \in Years : y % 100 # 0
  /\ FirstWeekday \in 0..6

LengthOf(y, m) ==
  IF m = 2 THEN (IF y % 4 = 0 THEN 29 ELSE 28) ELSE IF m \in {4, 6, 9, 11} THEN 30 ELSE 31

Days == UNION {{10000 * y + 100 * m + d : d \in 1..LengthOf(y, m)} : y \in Years, m \in 1..12}

\* How many days of the calendar come before a day.
Rank == [d \in Days |-> Cardinality({e \in Days : e < d})]

WeekdayOf == [d \in Days |-> (Rank[d] + FirstWeekday) % 7]

\* The days of an interval that excludes its end.
DaysOf(interval) == {d \in Days : interval.start <= d /\ d < interval.end}

\* The days a date known to a day, a month or a year may mean.
DaysMeant(date, precision) ==
  LET unknown == CASE precision = "day" -> 1 [] precision = "month" -> 100 [] precision = "year" -> 10000
  IN  {d \in Days : d \div unknown = date \div unknown}
=============================================================================
