----------------------------- MODULE CinemaWeek -----------------------------
(***************************************************************************)
(* The dates of a scrape.  A day is a number; day 0 is a Sunday, so that   *)
(* getDay and getUTCDay are remainders by 7.  A cinema week runs from      *)
(* Wednesday to Tuesday.                                                   *)
(*                                                                         *)
(* The code mixes clocks.  `today' and the dates it returns are UTC days,  *)
(* but the weekday of `from_today_limited' is the local one, hence two     *)
(* arguments.  And days are added to a UTC midnight in local time: with    *)
(* summer time starting on day `spring', a later date is an hour short of  *)
(* its UTC midnight and comes out as the day before.                       *)
(***************************************************************************)
EXTENDS Integers

Default == 0   \* numDays left undefined
Never == -1    \* no summer time

DayOfWeek(day) == day % 7

\* getCurrentWeekStart, getWeekStartForDate, and the JSON parser's getWeekStart.
WeekStart(day) == LET offset == DayOfWeek(day) - 3
                  IN  day - (IF offset < 0 THEN offset + 7 ELSE offset)

Week(day) == WeekStart(day) .. WeekStart(day) + 6

\* getWeekDates: the count is clamped to 1..14, undefined means 7.
ClampedDays(n) == IF n = Default THEN 7 ELSE IF n < 1 THEN 1 ELSE IF n > 14 THEN 14 ELSE n
DateAfter(start, i, spring) == IF start <= spring /\ spring < start + i THEN start + i - 1 ELSE start + i
WeekDates(start, n, spring) == {DateAfter(start, i, spring) : i \in 0 .. ClampedDays(n) - 1}

\* The bug: counting to the Wednesday that starts the next week.
DaysUntilTuesday_Late(weekday) == (3 - weekday + 7) % 7
DaysUntilTuesday(weekday) == (2 - weekday + 7) % 7

LimitedDays(weekday, n) == LET total == DaysUntilTuesday(weekday) + 1
                           IN  IF n # Default /\ n < total THEN n ELSE total

ScrapeDates(mode, today, weekday, n, spring) ==
    IF mode = "from_today_limited" THEN WeekDates(today, LimitedDays(weekday, n), spring)
    ELSE WeekDates(IF mode = "from_today" THEN today ELSE WeekStart(today), n, spring)

\* A limited scrape takes today and days of the same cinema week only, whatever
\* number of days is configured; left to itself it goes up to Tuesday, but for
\* the day that a change to summer time costs (date.ts, getScrapeDates).
LimitedScrapeFits(today, n, spring) ==
    LET dates == ScrapeDates("from_today_limited", today, DayOfWeek(today), n, spring)
    IN  /\ today \in dates
        /\ dates \subseteq Week(today)
        /\ n = Default /\ spring = Never => dates = today .. WeekStart(today) + 6
=============================================================================
