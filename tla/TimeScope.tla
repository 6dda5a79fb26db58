------------------------------ MODULE TimeScope ------------------------------
(***************************************************************************)
(* What a question's time phrase stands for, and which claims a temporal    *)
(* perspective lets through (TimeScope.ts).                                *)
(*                                                                         *)
(* A date is the number YYYYMMDD, a JavaScript Date the number of days      *)
(* since 1 March of year 0.  A phrase is what its words say: "today" and     *)
(* "yesterday" are 0 and 1 days ago, "this" and "last" week, month and year  *)
(* 0 and 1 ago; their wordings are left out.                                *)
(***************************************************************************)
EXTENDS Integers

Year(date) == date \div 10000
Month(date) == (date \div 100) % 100

\* Date.UTC: a month outside 1..12 runs over into other years, a day into other months.
DateUTC(year, month, day) ==
  LET y == year + (month - 3) \div 12
      m == (month - 3) % 12
  IN  365 * y + y \div 4 - y \div 100 + y \div 400 + (153 * m + 2) \div 5 + day - 1

toDate(date) == DateUTC(Year(date), Month(date), date % 100)

\* The year of 400, the day of that year and the month, all counted from March.
toInt(n) ==
  LET e == n % 146097
      y == (e - e \div 1460 + e \div 36524 - e \div 146096) \div 365
      d == e - (365 * y + y \div 4 - y \div 100)
      m == (5 * d + 2) \div 153
      year == 400 * (n \div 146097) + y + m \div 10
  IN  10000 * year + 100 * (((m + 2) % 12) + 1) + d - (153 * m + 2) \div 5 + 1

\* Sunday is 0.
getUTCDay(date) == (toDate(date) + 3) % 7

addDays(date, n) == toInt(toDate(date) + n)

monthStart(date, offset) == toInt(DateUTC(Year(date), Month(date) + offset, 1))

-----------------------------------------------------------------------------
\* An interval includes its start and excludes its end.
Interval(start, end, precision) == [start |-> start, end |-> end, precision |-> precision]

NoInterval == Interval(0, 0, "none")

singleDay(date) == Interval(date, addDays(date, 1), "day")

weekStart(date) == LET day == getUTCDay(date) IN addDays(date, IF day = 0 THEN -6 ELSE 1 - day)

wholeWeek(date) == Interval(weekStart(date), addDays(weekStart(date), 7), "week")

wholeMonth(date, offset) == Interval(monthStart(date, offset), monthStart(date, offset + 1), "month")

wholeYear(year) == Interval(10000 * year + 101, 10000 * (year + 1) + 101, "year")

weekend(question) ==
  LET day == getUTCDay(question)
      saturday == addDays(question, IF day = 6 THEN 0 ELSE -(day + 1))
  IN  Interval(saturday, addDays(saturday, 2), "day")

\* A date known to the day, the month or the year, the unknown parts zero.
dated(date, precision) ==
  CASE precision = "year" -> wholeYear(Year(date))
    [] precision = "month" -> wholeMonth(date - (date % 100) + 1, 0)
    [] OTHER -> singleDay(date)

Ago(unit, n, question) ==
  CASE unit = "day" -> singleDay(addDays(question, -n))
    [] unit = "week" -> wholeWeek(addDays(question, -7 * n))
    [] unit = "month" -> wholeMonth(question, -n)
    [] unit = "year" -> wholeYear(Year(question) - n)

\* Fault: on a Tuesday, last Tuesday is today.
SameDay(question, weekday) == (getUTCDay(question) - weekday) % 7

\* How many days ago a weekday last was, today not counted.
back(question, weekday) == ((getUTCDay(question) - weekday + 6) % 7) + 1

\* The first of a month in the question's year or, when that is not yet, the year before.
InMonth(month, question, passed) ==
  wholeMonth(10000 * (Year(question) - (IF passed THEN 0 ELSE 1)) + 100 * month + 1, 0)

\* A bare month and day is this year's when it has come, last year's otherwise.
OnMonthDay(monthDay, question) ==
  LET candidate == 10000 * Year(question) + monthDay
  IN  singleDay(IF candidate <= question THEN candidate ELSE candidate - 10000)

\* The interval a phrase stands for, seen from the day of the question.
resolveTimeInterval(phrase, question) ==
  CASE phrase.says = "ago" -> Ago(phrase.unit, phrase.n, question)
    [] phrase.says = "last" /\ phrase.unit = "weekday" ->
         singleDay(addDays(question, -back(question, phrase.n)))
    [] phrase.says = "last" /\ phrase.unit = "month" ->
         InMonth(phrase.n, question, phrase.n < Month(question))
    [] phrase.says = "in" /\ phrase.unit = "month" ->
         InMonth(phrase.n, question, phrase.n <= Month(question))
    [] phrase.says = "in" /\ phrase.unit = "monthDay" -> OnMonthDay(phrase.n, question)
    [] phrase.says = "in" /\ phrase.unit = "weekend" -> weekend(question)
    [] phrase.says = "date" -> dated(phrase.n, phrase.unit)
    [] OTHER -> NoInterval

-----------------------------------------------------------------------------
\* A claim's event as extracted, <<year, month, day>> or less: parts not said are zero.
parseEventDate(parts) ==
  LET part(k) == IF k \in DOMAIN parts THEN parts[k] ELSE 0
  IN  [tEvent |-> 10000 * part(1) + 100 * part(2) + part(3),
       tPrec |-> CASE parts = <<>> -> "none"
                   [] 3 \in DOMAIN parts -> "day"
                   [] 2 \in DOMAIN parts -> "month"
                   [] OTHER -> "year"]

claimSpan(claim) == IF claim.tEvent = 0 THEN NoInterval ELSE dated(claim.tEvent, claim.tPrec)

overlaps(a, b) == a.start < b.end /\ b.start < a.end

Within(date, interval) == interval.start <= date /\ date < interval.end

UNDATED_SESSION_SLACK_DAYS == 7

\* The event meets the interval; an undated one goes by its session, with some slack.
inScope(claim, interval) ==
  IF claim.tEvent # 0 THEN overlaps(claimSpan(claim), interval)
  ELSE Within(claim.sessionDate,
              [start |-> addDays(interval.start, -UNDATED_SESSION_SLACK_DAYS),
               end |-> addDays(interval.end, UNDATED_SESSION_SLACK_DAYS)])

\* Recorded at a time that is known, not after the question, and within its interval.
recordedInCut(claim, cut) ==
  /\ claim.accepted # 0
  /\ cut.questionDate > 0 => claim.accepted <= cut.questionDate
  /\ cut.interval # NoInterval => Within(claim.accepted, cut.interval)

heldInCut(claim, cut) == cut.interval # NoInterval => inScope(claim, cut.interval)

inPerspective(claim, cut) ==
  /\ claim.sessionOrd <= cut.asOf
  /\ cut.perspective \in {"recorded-time", "bitemporal"} => recordedInCut(claim, cut)
  /\ cut.perspective \in {"valid-time", "bitemporal"} => heldInCut(claim, cut)
=============================================================================
