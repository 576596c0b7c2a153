------------------------------ MODULE Calendar ------------------------------
(***************************************************************************)
(* The date of a scheduled release, from the seconds since 1970 that are   *)
(* signed to the row that is shown.  A number of seconds is kept as a day  *)
(* and a second of that day.                                               *)
(***************************************************************************)
EXTENDS Formats, FiniteSets

SecsPerDay == 86400
LEAPOCH == 11017                     \* 2000-03-01, in days since 1970-01-01
DAYS_PER_400Y == 365 * 400 + 97
DAYS_PER_100Y == 365 * 100 + 24
DAYS_PER_4Y   == 365 * 4 + 1

\* From March on.
days_in_month == <<31, 30, 31, 30, 31, 31, 30, 31, 30, 31, 31, 29>>
DaysBefore[m \in 0 .. 12] == IF m = 0 THEN 0 ELSE DaysBefore[m - 1] + days_in_month[m]

\* / and % of C, towards zero.
Quotient(a, b)  == IF a >= 0 THEN a \div b ELSE -((-a) \div b)
Remainder(a, b) == a - b * Quotient(a, b)

\* (t - LEAPOCH) / 86400 and % 86400, towards zero, on the pair.
SecsQuotient(d, s)  == IF d < 0 /\ s > 0 THEN d + 1 ELSE d
SecsRemainder(d, s) == IF d < 0 /\ s > 0 THEN s - SecsPerDay ELSE s

\* Whole days since LEAPOCH, and the seconds of the day begun.
WholeDays(d, s) == IF SecsRemainder(d, s) < 0 THEN SecsQuotient(d, s) - 1 ELSE SecsQuotient(d, s)
SecsOfDay(d, s) ==
    IF SecsRemainder(d, s) < 0 THEN SecsRemainder(d, s) + SecsPerDay ELSE SecsRemainder(d, s)

\* What is negative is set right: a weekday, a cycle of 400 years, a day of one.
Weekday(days) == LET w == Remainder(3 + days, 7) IN IF w < 0 THEN w + 7 ELSE w
Cycle(days) ==
    Quotient(days, DAYS_PER_400Y) - (IF Remainder(days, DAYS_PER_400Y) < 0 THEN 1 ELSE 0)
DayOfCycle(days) ==
    LET rem == Remainder(days, DAYS_PER_400Y) IN IF rem < 0 THEN rem + DAYS_PER_400Y ELSE rem

\* A whole cycle has one day more than its parts: the last part keeps it.
Cycles_NoCorrection(rem, length, most) == rem \div length
Cycles(rem, length, most) == IF rem \div length > most THEN most ELSE rem \div length

\* The century, the leap period and the year of a day of a cycle, and its place there.
PartsOfCycle(remdays) ==
    LET c    == Cycles(remdays, DAYS_PER_100Y, 3)
        rem2 == remdays - c * DAYS_PER_100Y
        q    == Cycles(rem2, DAYS_PER_4Y, 24)
        rem3 == rem2 - q * DAYS_PER_4Y
        y    == Cycles(rem3, 365, 3)
    IN  [c |-> c, q |-> q, y |-> y, remdays |-> rem3 - y * 365]

secondsToTm(day, second) ==
    LET days    == WholeDays(day - LEAPOCH, second)
        remsecs == SecsOfDay(day - LEAPOCH, second)
        p       == PartsOfCycle(DayOfCycle(days))
        leap    == IF p.y = 0 /\ (p.q # 0 \/ p.c = 0) THEN 1 ELSE 0
        yday    == p.remdays + 31 + 28 + leap
        years   == p.y + 4 * p.q + 100 * p.c + 400 * Cycle(days)
        months  == Cardinality({m \in 1 .. 11 : DaysBefore[m] <= p.remdays})
    IN  [tm_year |-> years + 100 + (IF months + 2 >= 12 THEN 1 ELSE 0),
         tm_mon  |-> IF months + 2 >= 12 THEN months - 10 ELSE months + 2,
         tm_mday |-> p.remdays - DaysBefore[months] + 1,
         tm_wday |-> Weekday(days),
         tm_yday |-> IF yday >= 365 + leap THEN yday - (365 + leap) ELSE yday,
         tm_hour |-> remsecs \div 3600,
         tm_min  |-> (remsecs \div 60) % 60,
         tm_sec  |-> remsecs % 60]

\* processNextScheduledAmount refuses what lies too far ahead, timeToDisplayText
\* what lies before 1901.
YearIsShown_Any(tm) == tm.tm_year > 0
YearIsShown(tm) == tm.tm_year > 0 /\ tm.tm_year <= 9999

\* timeToDisplayText: the year as it is, five fields of two digits and a separator
\* before each.
TimestampLength(tm) == Len(Digits[tm.tm_year + 1900]) + 5 * 3

\* appendMilliseconds: always three digits.
Milliseconds(ms) == <<ms \div 100, (ms \div 10) % 10, ms % 10>>
=============================================================================
