-------------------------- MODULE AlgorithmsProofs --------------------------
(***************************************************************************)
(* Proofs about the pure helpers: that the date shown is the date signed,  *)
(* on every day from 1970 on; that a number on a screen reads as the       *)
(* number that is signed; that no text outgrows its buffer; and that no    *)
(* path of an exported key may sign, whatever nodes a host sends.          *)
(***************************************************************************)
EXTENDS Algorithms, FiniteSetTheorems, SequenceTheorems, WellFoundedInduction, TLAPS

-----------------------------------------------------------------------------
(* The months, from March on. *)

MonthStarts == <<0, 31, 61, 92, 122, 153, 184, 214, 245, 275, 306, 337, 366>>

\* The recursive sum is the table of where each month begins.
LEMMA DaysBeforeIs == \A m \in 0 .. 12 : DaysBefore[m] = MonthStarts[m + 1]
<1> DEFINE Sums(f) == f = [m \in 0 .. 12 |-> IF m = 0 THEN 0 ELSE f[m - 1] + days_in_month[m]]
           h == [m \in 0 .. 12 |-> MonthStarts[m + 1]]
<1>1. Sums(h)
  <2>1. ASSUME NEW m \in 0 .. 12 PROVE h[m] = IF m = 0 THEN 0 ELSE h[m - 1] + days_in_month[m]
    BY DEF MonthStarts, days_in_month
  <2> DEFINE g == [m \in 0 .. 12 |-> IF m = 0 THEN 0 ELSE h[m - 1] + days_in_month[m]]
  <2>2. \A m \in 0 .. 12 : h[m] = g[m]
    BY <2>1
  <2> QED
    BY <2>2
<1> HIDE DEF h
<1>2. PICK f : Sums(f) /\ DaysBefore = f
  BY <1>1 DEF DaysBefore
<1>3. \A m \in 0 .. 12 : f[m] = IF m = 0 THEN 0 ELSE f[m - 1] + days_in_month[m]
  BY <1>2, Zenon
<1>4. f[0] = 0
  BY <1>3
<1>5. /\ f[1] = f[0] + 31 /\ f[2] = f[1] + 30 /\ f[3] = f[2] + 31 /\ f[4] = f[3] + 30
      /\ f[5] = f[4] + 31 /\ f[6] = f[5] + 31 /\ f[7] = f[6] + 30 /\ f[8] = f[7] + 31
      /\ f[9] = f[8] + 30 /\ f[10] = f[9] + 31 /\ f[11] = f[10] + 31 /\ f[12] = f[11] + 29
  BY <1>3 DEF days_in_month
<1> HIDE DEF Sums
<1> QED
  BY ONLY <1>2, <1>4, <1>5 DEF MonthStarts

\* The number of months behind a day is told by the month that the day is in.
LEMMA MonthsBehind ==
    ASSUME NEW k \in 0 .. 11, NEW r \in Int, MonthStarts[k + 1] <= r, r < MonthStarts[k + 2]
    PROVE  Cardinality({m \in 1 .. 11 : DaysBefore[m] <= r}) = k
<1>1. {m \in 1 .. 11 : DaysBefore[m] <= r} = 1 .. k
  <2>1. ASSUME NEW m \in 1 .. 11 PROVE DaysBefore[m] <= r <=> m <= k
    BY DaysBeforeIs DEF MonthStarts
  <2> QED
    BY <2>1
<1>2. Cardinality(1 .. k) = k
  <2>1. 1 \in Int /\ k \in Int
    OBVIOUS
  <2>2. Cardinality(1 .. k) = IF 1 > k THEN 0 ELSE k - 1 + 1
    BY ONLY <2>1, FS_Interval
  <2> QED
    BY <2>2
<1> QED
  BY <1>1, <1>2

-----------------------------------------------------------------------------
(* The date that is kept. *)

DateInv == day \in Nat /\ IsDateOf(civil, day)

\* A leap year has a leap day more behind it.
LEMMA LeapsStep ==
    ASSUME NEW y \in Int
    PROVE  /\ LeapsBefore(y) \in Int
           /\ LeapsBefore(y + 1) = LeapsBefore(y) + (IF IsLeap(y) THEN 1 ELSE 0)
  BY DEF LeapsBefore, IsLeap

\* The table of months agrees with their lengths.
LEMMA MonthsFit ==
    ASSUME NEW y \in Int, NEW m \in 1 .. 12
    PROVE  /\ MonthLength(y, m) \in 28 .. 31 /\ DaysToMonth[m] \in 0 .. 334
           /\ m < 12 => DaysToMonth[m + 1] + (IF m + 1 > 2 /\ IsLeap(y) THEN 1 ELSE 0)
                           = DaysToMonth[m] + (IF m > 2 /\ IsLeap(y) THEN 1 ELSE 0) + MonthLength(y, m)
           /\ DaysToMonth[1] = 0 /\ DaysToMonth[12] = 334 /\ MonthLength(y, 12) = 31
  BY DEF MonthLength, DaysToMonth

\* The date t of day n, in year u, is day yd of the year.
Counted(t, u, yd, n) ==
    /\ u \in Int /\ t.y = u /\ t.m \in 1 .. 12 /\ t.d \in 1 .. MonthLength(u, t.m)
    /\ n = 365 * (u - 1970) + LeapsBefore(u) - LeapsBefore(1970) + yd
    /\ t.wday = (n + 4) % 7 /\ t.yday = yd

\* What is counted so is a date.
LEMMA CountedIsDate ==
    ASSUME NEW t, NEW u, NEW n, Counted(t, u, DayOfYear(t), n) PROVE IsDateOf(t, n)
<1>1. t.y = u /\ IsDate(t)
  BY DEF Counted, IsDate
<1>2. n = 365 * (t.y - 1970) + LeapsBefore(t.y) - LeapsBefore(1970) + DayOfYear(t)
  BY <1>1 DEF Counted
<1> QED
  BY <1>1, <1>2 DEF Counted, IsDateOf

\* The rules of the calendar count on.
LEMMA TomorrowIsNext ==
    ASSUME NEW c, NEW n \in Nat, IsDateOf(c, n) PROVE IsDateOf(Tomorrow(c), n + 1)
<1> DEFINE t == Tomorrow(c)
           y == c.y
           m == c.m
           d == c.d
           L == IF IsLeap(y) THEN 1 ELSE 0
           base == LeapsBefore(1970)
           leaps == LeapsBefore(y)
           last == MonthLength(y, m)
           yd == DayOfYear(c)
           td == DayOfYear(t)
           start == DaysToMonth[m]
<1> SUFFICES \E u : Counted(t, u, td, n + 1)
  BY CountedIsDate
<1>1. /\ y \in Int /\ m \in 1 .. 12 /\ d \in 1 .. last
      /\ n = 365 * (y - 1970) + leaps - base + yd
      /\ c.wday = (n + 4) % 7 /\ c.yday = yd
      /\ yd = start + d - 1 + (IF m > 2 THEN L ELSE 0)
  BY DEF IsDateOf, IsDate, DayOfYear
<1>2. /\ t.y = (IF m = 12 /\ d = 31 THEN y + 1 ELSE y)
      /\ t.m = (IF d < last THEN m ELSE (m % 12) + 1)
      /\ t.d = (IF d < last THEN d + 1 ELSE 1)
      /\ t.wday = (c.wday + 1) % 7
      /\ t.yday = (IF m = 12 /\ d = 31 THEN 0 ELSE c.yday + 1)
  BY DEF Tomorrow
<1>3. leaps \in Int /\ base \in Int /\ LeapsBefore(y + 1) = leaps + L
  BY <1>1, LeapsStep
<1>4. last \in 28 .. 31 /\ start \in 0 .. 334 /\ (m = 12 => last = 31 /\ start = 334)
  <2>1. MonthLength(y, m) \in 28 .. 31 /\ DaysToMonth[m] \in 0 .. 334
    BY <1>1, MonthsFit
  <2>2. MonthLength(y, 12) = 31 /\ DaysToMonth[12] = 334
    BY <1>1, MonthsFit
  <2> QED
    BY <2>1, <2>2
<1>6. td = DaysToMonth[t.m] + t.d - 1 + (IF t.m > 2 /\ IsLeap(t.y) THEN 1 ELSE 0)
  BY DEF DayOfYear
<1>7. L \in 0 .. 1 /\ (IsLeap(y) <=> L = 1)
  OBVIOUS
<1> HIDE DEF t, y, m, d, L, base, leaps, last, yd, td, start
<1>8. t.wday = ((n + 1) + 4) % 7
  <2>1. (((n + 4) % 7) + 1) % 7 = ((n + 1) + 4) % 7
    OBVIOUS
  <2> QED
    BY <1>1, <1>2, <2>1
<1>9. yd \in Int /\ (m = 12 /\ d = 31 => yd = 364 + L)
  BY ONLY <1>1, <1>3, <1>4, <1>7
<1>10. CASE d < last
  <2>1. t.y = y /\ t.m = m /\ t.d = d + 1 /\ t.yday = yd + 1
    BY ONLY <1>1, <1>2, <1>4, <1>10
  <2>2. td = start + (d + 1) - 1 + (IF m > 2 THEN L ELSE 0)
    BY <1>6, <1>7, <2>1 DEF start, L
  <2>3. td = yd + 1
    BY ONLY <1>1, <1>4, <1>7, <1>9, <2>2
  <2>4. n + 1 = 365 * (y - 1970) + leaps - base + td
    BY ONLY <1>1, <1>3, <1>9, <2>3
  <2>5. t.d \in 1 .. last
    BY ONLY <1>1, <1>4, <1>10, <2>1
  <2> QED
    <3>1. y \in Int /\ t.y = y /\ t.m \in 1 .. 12 /\ t.d \in 1 .. MonthLength(y, t.m) /\ t.yday = td
      BY <1>1, <2>1, <2>3, <2>5 DEF last
    <3>2. n + 1 = 365 * (y - 1970) + LeapsBefore(y) - base + td
      BY <2>4 DEF leaps
    <3>3. Counted(t, y, td, n + 1)
      BY <1>8, <3>1, <3>2, Zenon DEF Counted, base
    <3> QED
      BY <3>3
<1>11. CASE d = last /\ m < 12
  <2>1. t.y = y /\ t.m = m + 1 /\ t.d = 1 /\ t.yday = yd + 1
    BY ONLY <1>1, <1>2, <1>4, <1>11
  <2>2. /\ DaysToMonth[m + 1] + (IF m + 1 > 2 /\ IsLeap(y) THEN 1 ELSE 0)
              = start + (IF m > 2 THEN L ELSE 0) + last
        /\ MonthLength(y, m + 1) \in 28 .. 31 /\ DaysToMonth[m + 1] \in 0 .. 334
    <3>1. m + 1 \in 1 .. 12
      BY ONLY <1>1, <1>11
    <3> QED
      BY <1>1, <1>11, <3>1, MonthsFit DEF start, last, L
  <2>3. td = DaysToMonth[m + 1] + 1 - 1 + (IF m + 1 > 2 /\ IsLeap(y) THEN 1 ELSE 0)
    BY <1>6, <2>1
  <2>4. td = yd + 1
    <3> DEFINE a == DaysToMonth[m + 1]
               b == IF m + 1 > 2 /\ IsLeap(y) THEN 1 ELSE 0
    <3>1. b \in Int /\ a + b = start + (IF m > 2 THEN L ELSE 0) + last /\ td = a + 1 - 1 + b /\ a \in Int
      BY <2>2, <2>3
    <3> HIDE DEF a, b
    <3> QED
      BY ONLY <1>1, <1>4, <1>7, <1>11, <3>1
  <2>5. n + 1 = 365 * (y - 1970) + leaps - base + td
    BY ONLY <1>1, <1>3, <1>9, <2>4
  <2>6. t.m \in 1 .. 12 /\ t.d \in 1 .. MonthLength(y, m + 1)
    BY ONLY <1>1, <1>11, <2>1, <2>2
  <2> QED
    <3>1. y \in Int /\ t.y = y /\ t.m \in 1 .. 12 /\ t.d \in 1 .. MonthLength(y, t.m) /\ t.yday = td
      BY <1>1, <2>1, <2>4, <2>6
    <3>2. n + 1 = 365 * (y - 1970) + LeapsBefore(y) - base + td
      BY <2>5 DEF leaps
    <3>3. Counted(t, y, td, n + 1)
      BY <1>8, <3>1, <3>2, Zenon DEF Counted, base
    <3> QED
      BY <3>3
<1>12. CASE d = last /\ m = 12
  <2>1. t.y = y + 1 /\ t.m = 1 /\ t.d = 1 /\ t.yday = 0
    BY ONLY <1>1, <1>2, <1>4, <1>12
  <2>2. td = 0
    <3>1. DaysToMonth[1] = 0
      BY DEF DaysToMonth
    <3> QED
      BY <1>6, <2>1, <3>1
  <2>3. LeapsBefore(y + 1) \in Int
    BY ONLY <1>3, <1>7
  <2>4. n + 1 = 365 * ((y + 1) - 1970) + LeapsBefore(y + 1) - base + td
    BY ONLY <1>1, <1>3, <1>4, <1>7, <1>9, <1>12, <2>2
  <2>5. y + 1 \in Int /\ 1 \in 1 .. MonthLength(y + 1, 1)
    BY <1>1, MonthsFit
  <2> QED
    <3>1. /\ y + 1 \in Int /\ t.y = y + 1 /\ t.m \in 1 .. 12
          /\ t.d \in 1 .. MonthLength(y + 1, t.m) /\ t.yday = td
      BY <2>1, <2>2, <2>5
    <3>3. Counted(t, y + 1, td, n + 1)
      BY <1>8, <2>4, <3>1 DEF Counted, base
    <3> QED
      BY <3>3
<1> QED
  BY <1>1, <1>4, <1>10, <1>11, <1>12

-----------------------------------------------------------------------------
(* The date that secondsToTm gives. *)

\* / and % of C, set right for what is negative, are those of the integers.
LEMMA TowardsZero ==
    ASSUME NEW a \in Int
    PROVE  /\ DayOfCycle(a) = a % DAYS_PER_400Y /\ Cycle(a) = a \div DAYS_PER_400Y
           /\ Weekday(a) = (3 + a) % 7
<1>1. DayOfCycle(a) = a % DAYS_PER_400Y /\ Cycle(a) = a \div DAYS_PER_400Y
  BY DEF DayOfCycle, Cycle, Remainder, Quotient, DAYS_PER_400Y
<1>2. Weekday(a) = (3 + a) % 7
  <2> DEFINE x == 3 + a
  <2>1. x \in Int
    OBVIOUS
  <2>2. Weekday(a) = IF Remainder(x, 7) < 0 THEN Remainder(x, 7) + 7 ELSE Remainder(x, 7)
    BY DEF Weekday
  <2> HIDE DEF x
  <2>3. Weekday(a) = x % 7
    BY <2>1, <2>2 DEF Remainder, Quotient
  <2> QED
    BY <2>3 DEF x
<1> QED
  BY <1>1, <1>2

\* A second counted back from the next day is that of the day begun.
LEMMA DayAndSecond ==
    ASSUME NEW d \in Int, NEW s \in 0 .. SecsPerDay - 1
    PROVE  WholeDays(d, s) = d /\ SecsOfDay(d, s) = s
<1>1. SecsPerDay \in Int
  BY DEF SecsPerDay
<1>2. s \in Int /\ 0 <= s /\ s < SecsPerDay
  BY ONLY <1>1, s \in 0 .. SecsPerDay - 1
<1> QED
  BY ONLY <1>1, <1>2, d \in Int DEF WholeDays, SecsOfDay, SecsRemainder, SecsQuotient

\* A year that begins in March: its cycle, century, leap period and place there.
\* The last day it can have is a leap day.
InYear(c, q, y, r) ==
    /\ c \in 0 .. 3 /\ q \in 0 .. 24 /\ y \in 0 .. 3 /\ r \in 0 .. 365
    /\ r = 365 => y = 3 /\ (q # 24 \/ c = 3)

\* A quotient is told by a remainder that is in range.
LEMMA QuotientTold ==
    ASSUME NEW n \in Int, NEW q \in Int, NEW r \in Int, 0 <= r
    PROVE  /\ n = 365 * q + r /\ r < 365 => n \div 365 = q
           /\ n = DAYS_PER_4Y * q + r /\ r < DAYS_PER_4Y => n \div DAYS_PER_4Y = q
           /\ n = DAYS_PER_100Y * q + r /\ r < DAYS_PER_100Y => n \div DAYS_PER_100Y = q
           /\ n = DAYS_PER_400Y * q + r /\ r < DAYS_PER_400Y => n \div DAYS_PER_400Y = q
           /\ n = DAYS_PER_400Y * q + r /\ r < DAYS_PER_400Y => n % DAYS_PER_400Y = r
  BY DEF DAYS_PER_4Y, DAYS_PER_100Y, DAYS_PER_400Y

LastKept(n, q, r, length, most) ==
    /\ n \in Int /\ q \in Nat /\ r \in Nat /\ most \in Nat
    /\ length \in {365, DAYS_PER_4Y, DAYS_PER_100Y}
    /\ n = length * q + r /\ q <= most /\ r <= length
    /\ r = length => q = most

\* Counting off whole parts finds their number, but for a last day that is one
\* too many, which the last part keeps.
LEMMA CyclesTold ==
    ASSUME NEW n, NEW q, NEW r, NEW length, NEW most, LastKept(n, q, r, length, most)
    PROVE  Cycles(n, length, most) = q
<1> USE DEF LastKept
<1>1. CASE r < length
  <2>1. n \div length = q
    BY <1>1, QuotientTold
  <2> QED
    BY <2>1 DEF Cycles
<1>2. CASE r = length
  <2>1. n = length * (q + 1) + 0 /\ q + 1 \in Int /\ 0 < length
    BY <1>2 DEF DAYS_PER_4Y, DAYS_PER_100Y
  <2>2. n \div length = q + 1
    BY <2>1, QuotientTold
  <2>3. q + 1 > most
    BY <1>2
  <2> QED
    BY <1>2, <2>2, <2>3 DEF Cycles
<1> QED
  BY <1>1, <1>2

\* Counting off whole centuries, leap periods and years finds each again.
LEMMA CyclesFound ==
    ASSUME NEW c, NEW q, NEW y, NEW r, InYear(c, q, y, r)
    PROVE  /\ Cycles(DAYS_PER_100Y * c + DAYS_PER_4Y * q + 365 * y + r, DAYS_PER_100Y, 3) = c
           /\ Cycles(DAYS_PER_4Y * q + 365 * y + r, DAYS_PER_4Y, 24) = q
           /\ Cycles(365 * y + r, 365, 3) = y
           /\ DAYS_PER_100Y * c + DAYS_PER_4Y * q + 365 * y + r \in 0 .. DAYS_PER_400Y - 1
<1>1. /\ c \in 0 .. 3 /\ q \in 0 .. 24 /\ y \in 0 .. 3 /\ r \in 0 .. 365
      /\ r = 365 => y = 3 /\ (q # 24 \/ c = 3)
  BY DEF InYear
<1> DEFINE X3 == 365 * y + r
           X2 == DAYS_PER_4Y * q + X3
           X1 == DAYS_PER_100Y * c + X2
<1>2. X3 \in 0 .. 1460 /\ (X3 = 1460 => r = 365)
  BY ONLY <1>1
<1>3. Cycles(X3, 365, 3) = y
  <2>1. X3 = 365 * y + r
    OBVIOUS
  <2>2. X3 \in Int
    BY ONLY <1>2
  <2> HIDE DEF X3
  <2>3. /\ y \in Nat /\ r \in Nat /\ 3 \in Nat /\ y <= 3 /\ r <= 365 /\ (r = 365 => y = 3)
        /\ 365 \in {365, DAYS_PER_4Y, DAYS_PER_100Y}
    BY ONLY <1>1
  <2>4. LastKept(X3, y, r, 365, 3)
    BY ONLY <2>1, <2>2, <2>3 DEF LastKept
  <2> QED
    BY <2>4, CyclesTold
<1>4. X2 = DAYS_PER_4Y * q + X3
  OBVIOUS
<1> HIDE DEF X3
<1>5. X2 \in 0 .. DAYS_PER_100Y /\ (X2 = DAYS_PER_100Y => c = 3)
  BY ONLY <1>1, <1>2, <1>4 DEF DAYS_PER_4Y, DAYS_PER_100Y
<1>6. Cycles(X2, DAYS_PER_4Y, 24) = q
  <2>1. /\ q \in Nat /\ X3 \in Nat /\ 24 \in Nat /\ q <= 24 /\ X3 <= DAYS_PER_4Y /\ (X3 = DAYS_PER_4Y => q = 24)
        /\ DAYS_PER_4Y \in {365, DAYS_PER_4Y, DAYS_PER_100Y} /\ X2 \in Int
    BY ONLY <1>1, <1>2, <1>5 DEF DAYS_PER_4Y, DAYS_PER_100Y
  <2> HIDE DEF X2
  <2>2. LastKept(X2, q, X3, DAYS_PER_4Y, 24)
    BY ONLY <1>4, <2>1 DEF LastKept
  <2> QED
    BY <2>2, CyclesTold
<1>7. X1 = DAYS_PER_100Y * c + X2
  OBVIOUS
<1> HIDE DEF X2
<1>8. X1 \in 0 .. DAYS_PER_400Y - 1
  <2> HIDE DEF X1
  <2>1. X1 \in Int /\ 0 <= X1
    BY ONLY <1>1, <1>5, <1>7 DEF DAYS_PER_100Y
  <2>2. DAYS_PER_100Y * c <= DAYS_PER_100Y * 3
    BY ONLY <1>1 DEF DAYS_PER_100Y
  <2>3. X2 <= DAYS_PER_100Y /\ X2 \in Int
    BY ONLY <1>5 DEF DAYS_PER_100Y
  <2>4. X1 <= DAYS_PER_100Y * 3 + DAYS_PER_100Y
    BY ONLY <1>1, <1>7, <2>2, <2>3 DEF DAYS_PER_100Y
  <2>5. DAYS_PER_100Y * 3 + DAYS_PER_100Y = DAYS_PER_400Y - 1 /\ DAYS_PER_400Y - 1 \in Int
    BY DEF DAYS_PER_100Y, DAYS_PER_400Y
  <2> QED
    BY ONLY <2>1, <2>4, <2>5
<1> HIDE DEF X1
<1>9. Cycles(X1, DAYS_PER_100Y, 3) = c
  <2>1. DAYS_PER_100Y \in Int
    BY DEF DAYS_PER_100Y
  <2>3. c \in Nat /\ c <= 3 /\ 3 \in Nat
    BY ONLY <1>1
  <2>4. X2 \in Nat /\ X2 <= DAYS_PER_100Y /\ (X2 = DAYS_PER_100Y => c = 3)
    BY ONLY <1>5, <2>1
  <2>5. X1 \in Int
    BY ONLY <1>8
  <2>2. LastKept(X1, c, X2, DAYS_PER_100Y, 3)
    BY ONLY <1>7, <2>3, <2>4, <2>5 DEF LastKept
  <2> QED
    BY <2>2, CyclesTold
<1>10. /\ X1 = DAYS_PER_100Y * c + DAYS_PER_4Y * q + 365 * y + r /\ X2 = DAYS_PER_4Y * q + 365 * y + r
       /\ X3 = 365 * y + r
  BY <1>1 DEF X1, X2, X3, DAYS_PER_4Y, DAYS_PER_100Y
<1> QED
  BY ONLY <1>3, <1>6, <1>8, <1>9, <1>10

\* So PartsOfCycle finds the parts that a day is put together from.
LEMMA PartsFound ==
    ASSUME NEW c, NEW q, NEW y, NEW r, InYear(c, q, y, r)
    PROVE  PartsOfCycle(DAYS_PER_100Y * c + DAYS_PER_4Y * q + 365 * y + r)
              = [c |-> c, q |-> q, y |-> y, remdays |-> r]
<1>1. c \in 0 .. 3 /\ q \in 0 .. 24 /\ y \in 0 .. 3 /\ r \in 0 .. 365
  BY DEF InYear
<1> DEFINE X1 == DAYS_PER_100Y * c + DAYS_PER_4Y * q + 365 * y + r
           X2 == DAYS_PER_4Y * q + 365 * y + r
           X3 == 365 * y + r
<1>2. Cycles(X1, DAYS_PER_100Y, 3) = c /\ Cycles(X2, DAYS_PER_4Y, 24) = q /\ Cycles(X3, 365, 3) = y
  BY CyclesFound
<1>3. X1 - c * DAYS_PER_100Y = X2 /\ X2 - q * DAYS_PER_4Y = X3 /\ X3 - y * 365 = r
  BY ONLY <1>1 DEF DAYS_PER_100Y, DAYS_PER_4Y
<1> SUFFICES PartsOfCycle(X1) = [c |-> c, q |-> q, y |-> y, remdays |-> r]
  OBVIOUS
<1> HIDE DEF X1, X2, X3
<1> QED
  BY <1>2, <1>3, Zenon DEF PartsOfCycle

\* Where a date lies in the years that begin in March 2000.
Located(t, n, qc, c, q, y, k) ==
    LET r == MonthStarts[k + 1] + t.d - 1
        leap == IF y = 0 /\ (q # 0 \/ c = 0) THEN 1 ELSE 0
    IN  /\ qc \in Int /\ InYear(c, q, y, r)
        /\ k \in 0 .. 11 /\ r < MonthStarts[k + 2] /\ t.d \in 1 .. 31
        /\ n - LEAPOCH = DAYS_PER_400Y * qc + (DAYS_PER_100Y * c + DAYS_PER_4Y * q + 365 * y + r)
        /\ t.y = 400 * qc + 100 * c + 4 * q + y + 2000 + (IF k + 2 >= 12 THEN 1 ELSE 0)
        /\ t.m = (IF k + 2 >= 12 THEN k - 9 ELSE k + 3)
        /\ t.yday = (IF r + 59 + leap >= 365 + leap THEN r + 59 + leap - (365 + leap)
                                                  ELSE r + 59 + leap)

\* The fields of date t, day n, at second s.
FieldsOf(tm, t, n, s) ==
    /\ tm.tm_year \in Int /\ tm.tm_year + 1900 = t.y /\ tm.tm_mon + 1 = t.m /\ tm.tm_mday = t.d
    /\ tm.tm_wday = (n + 4) % 7 /\ tm.tm_yday = t.yday
    /\ tm.tm_hour = s \div 3600 /\ tm.tm_min = (s \div 60) % 60 /\ tm.tm_sec = s % 60

\* They are what secondsToTm computes of a day so located.
LEMMA TmOfDay ==
    ASSUME NEW t, NEW n \in Int, NEW s \in 0 .. SecsPerDay - 1,
           NEW qc, NEW c, NEW q, NEW y, NEW k, Located(t, n, qc, c, q, y, k)
    PROVE  FieldsOf(secondsToTm(n, s), t, n, s)
<1> DEFINE tm == secondsToTm(n, s)
           d == n - LEAPOCH
           days == WholeDays(d, s)
           remsecs == SecsOfDay(d, s)
           p == PartsOfCycle(DayOfCycle(days))
           leap == IF p.y = 0 /\ (p.q # 0 \/ p.c = 0) THEN 1 ELSE 0
           yday == p.remdays + 31 + 28 + leap
           years == p.y + 4 * p.q + 100 * p.c + 400 * Cycle(days)
           months == Cardinality({m \in 1 .. 11 : DaysBefore[m] <= p.remdays})
           r == MonthStarts[k + 1] + t.d - 1
<1>1. /\ tm.tm_year = years + 100 + (IF months + 2 >= 12 THEN 1 ELSE 0)
      /\ tm.tm_mon = (IF months + 2 >= 12 THEN months - 10 ELSE months + 2)
      /\ tm.tm_mday = p.remdays - DaysBefore[months] + 1
      /\ tm.tm_wday = Weekday(days)
      /\ tm.tm_yday = (IF yday >= 365 + leap THEN yday - (365 + leap) ELSE yday)
      /\ tm.tm_hour = remsecs \div 3600
      /\ tm.tm_min = (remsecs \div 60) % 60
      /\ tm.tm_sec = remsecs % 60
  BY DEF secondsToTm
<1> HIDE DEF tm
<1>2. /\ qc \in Int /\ c \in 0 .. 3 /\ q \in 0 .. 24 /\ y \in 0 .. 3 /\ r \in 0 .. 365 /\ InYear(c, q, y, r)
      /\ k \in 0 .. 11 /\ MonthStarts[k + 1] <= r /\ r < MonthStarts[k + 2] /\ t.d \in 1 .. 31
      /\ MonthStarts[k + 1] \in Int
      /\ d \in Int /\ d = DAYS_PER_400Y * qc + (DAYS_PER_100Y * c + DAYS_PER_4Y * q + 365 * y + r)
  <2>1. /\ qc \in Int /\ InYear(c, q, y, r) /\ k \in 0 .. 11 /\ r < MonthStarts[k + 2] /\ t.d \in 1 .. 31
        /\ d = DAYS_PER_400Y * qc + (DAYS_PER_100Y * c + DAYS_PER_4Y * q + 365 * y + r)
    BY DEF Located
  <2>2. MonthStarts[k + 1] \in Int
    BY <2>1 DEF MonthStarts
  <2>3. MonthStarts[k + 1] <= r
    BY <2>1, <2>2
  <2>4. d \in Int
    BY DEF LEAPOCH
  <2>5. c \in 0 .. 3 /\ q \in 0 .. 24 /\ y \in 0 .. 3 /\ r \in 0 .. 365
    BY <2>1 DEF InYear
  <2> QED
    BY <2>1, <2>2, <2>3, <2>4, <2>5
<1>3. /\ t.y = 400 * qc + 100 * c + 4 * q + y + 2000 + (IF k + 2 >= 12 THEN 1 ELSE 0)
      /\ t.m = (IF k + 2 >= 12 THEN k - 9 ELSE k + 3)
  BY DEF Located
<1>4. LET lp == IF y = 0 /\ (q # 0 \/ c = 0) THEN 1 ELSE 0
      IN  t.yday = (IF r + 59 + lp >= 365 + lp THEN r + 59 + lp - (365 + lp) ELSE r + 59 + lp)
  BY DEF Located
<1>5. days = d /\ remsecs = s
  BY <1>2, DayAndSecond
<1>6. Weekday(days) = (n + 4) % 7
  <2>1. Weekday(d) = (3 + d) % 7
    BY <1>2, TowardsZero
  <2>2. (3 + d) % 7 = (n + 4) % 7
    BY DEF LEAPOCH
  <2> QED
    BY <1>5, <2>1, <2>2
<1>7. Cycle(days) = qc /\ p = [c |-> c, q |-> q, y |-> y, remdays |-> r]
  <2> DEFINE X == DAYS_PER_100Y * c + DAYS_PER_4Y * q + 365 * y + r
  <2>1. X \in 0 .. DAYS_PER_400Y - 1 /\ d = DAYS_PER_400Y * qc + X
    BY <1>2, CyclesFound
  <2>2. PartsOfCycle(X) = [c |-> c, q |-> q, y |-> y, remdays |-> r]
    BY <1>2, PartsFound
  <2>3. DayOfCycle(d) = d % DAYS_PER_400Y /\ Cycle(d) = d \div DAYS_PER_400Y
    BY <1>2, TowardsZero
  <2> HIDE DEF X, d, r
  <2>4. d % DAYS_PER_400Y = X /\ d \div DAYS_PER_400Y = qc
    <3>1. DAYS_PER_400Y \in Int
      BY DEF DAYS_PER_400Y
    <3>2. X \in 0 .. DAYS_PER_400Y - 1
      BY <2>1
    <3>3. 0 <= X /\ X < DAYS_PER_400Y /\ X \in Int
      BY ONLY <3>1, <3>2
    <3>4. qc \in Int /\ d \in Int
      BY <1>2
    <3> QED
      BY ONLY <2>1, <3>3, <3>4, QuotientTold
  <2> QED
    BY <1>5, <2>2, <2>3, <2>4
<1>8. p.c = c /\ p.q = q /\ p.y = y /\ p.remdays = r
  BY <1>7
<1> HIDE DEF p, days, remsecs, d
<1>9. months = k /\ DaysBefore[k] = MonthStarts[k + 1]
  <2>1. Cardinality({m \in 1 .. 11 : DaysBefore[m] <= r}) = k
    <3>1. k \in 0 .. 11 /\ r \in Int /\ MonthStarts[k + 1] <= r /\ r < MonthStarts[k + 2]
      BY <1>2
    <3> HIDE DEF r
    <3> QED
      BY ONLY <3>1, MonthsBehind
  <2>2. k \in 0 .. 12
    BY <1>2
  <2> QED
    BY <1>8, <2>1, <2>2, DaysBeforeIs
<1> HIDE DEF months
<1>10. tm.tm_year \in Int /\ tm.tm_year + 1900 = t.y /\ tm.tm_mon + 1 = t.m
  BY <1>1, <1>2, <1>3, <1>7, <1>8, <1>9
<1>11. tm.tm_mday = t.d
  BY <1>1, <1>2, <1>8, <1>9 DEF r
<1>12. tm.tm_yday = t.yday
  BY <1>1, <1>2, <1>4, <1>8
<1>13. FieldsOf(tm, t, n, s)
  BY ONLY <1>1, <1>5, <1>6, <1>10, <1>11, <1>12 DEF FieldsOf
<1> QED
  BY <1>13 DEF tm

\* Year v after 2000, from March on, is year y of leap period q of century c of
\* cycle qc.
YearFromMarch(v, qc, c, q, y) ==
    /\ qc \in Int /\ c \in 0 .. 3 /\ q \in 0 .. 24 /\ y \in 0 .. 3
    /\ v = 400 * qc + 100 * c + 4 * q + y

\* Every year has such parts.
LEMMA YearHasParts ==
    ASSUME NEW v \in Int PROVE \E qc, c, q, y : YearFromMarch(v, qc, c, q, y)
<1>1. PICK qc \in Int, w \in 0 .. 399 : v = 400 * qc + w
  <2>1. v \div 400 \in Int /\ v % 400 \in 0 .. 399 /\ v = 400 * (v \div 400) + (v % 400)
    OBVIOUS
  <2> QED
    BY ONLY <2>1
<1>2. PICK c \in 0 .. 3, x \in 0 .. 99 : w = 100 * c + x
  <2>1. w \div 100 \in 0 .. 3 /\ w % 100 \in 0 .. 99 /\ w = 100 * (w \div 100) + (w % 100)
    OBVIOUS
  <2> QED
    BY ONLY <2>1
<1>3. PICK q \in 0 .. 24, y \in 0 .. 3 : x = 4 * q + y
  <2>1. x \div 4 \in 0 .. 24 /\ x % 4 \in 0 .. 3 /\ x = 4 * (x \div 4) + (x % 4)
    OBVIOUS
  <2> QED
    BY ONLY <2>1
<1>4. v = 400 * qc + 100 * c + 4 * q + y
  BY <1>1, <1>2, <1>3
<1>5. YearFromMarch(v, qc, c, q, y)
  BY <1>4 DEF YearFromMarch
<1> QED
  BY <1>5

\* Quotients by the periods of the calendar, told by a remainder in range.
LEMMA SmallQuotientTold ==
    ASSUME NEW n \in Int, NEW q \in Int, NEW r \in Int, 0 <= r
    PROVE  /\ n = 4 * q + r /\ r < 4 => n \div 4 = q /\ n % 4 = r
           /\ n = 100 * q + r /\ r < 100 => n \div 100 = q /\ n % 100 = r
           /\ n = 400 * q + r /\ r < 400 => n \div 400 = q /\ n % 400 = r
  OBVIOUS

\* Leap days before the next January, and whether this February or the next has one.
LEMMA LeapsFromMarch ==
    ASSUME NEW v \in Int, NEW qc, NEW c, NEW q, NEW y, YearFromMarch(v, qc, c, q, y)
    PROVE  /\ LeapsBefore(v + 2001) = 485 + 97 * qc + 24 * c + q
           /\ IsLeap(v + 2000) <=> y = 0 /\ (q # 0 \/ c = 0)
           /\ IsLeap(v + 2001) <=> y = 3 /\ (q # 24 \/ c = 3)
<1>1. /\ qc \in Int /\ c \in 0 .. 3 /\ q \in 0 .. 24 /\ y \in 0 .. 3
      /\ v = 400 * qc + 100 * c + 4 * q + y
  BY DEF YearFromMarch
<1> DEFINE u == v + 2000
<1>2. u \div 4 = 500 + 100 * qc + 25 * c + q /\ u % 4 = y
  <2> DEFINE Q == 500 + 100 * qc + 25 * c + q
  <2>1. u \in Int /\ Q \in Int /\ u = 4 * Q + y /\ y \in Int /\ 0 <= y /\ y < 4
    BY ONLY <1>1
  <2> HIDE DEF u, Q
  <2>2. u \div 4 = Q /\ u % 4 = y
    BY ONLY <2>1, SmallQuotientTold
  <2> QED
    BY <2>2 DEF Q
<1>3. u \div 100 = 20 + 4 * qc + c /\ u % 100 = 4 * q + y
  <2> DEFINE Q == 20 + 4 * qc + c
             R == 4 * q + y
  <2>1. u \in Int /\ Q \in Int /\ u = 100 * Q + R /\ R \in Int /\ 0 <= R /\ R < 100
    BY ONLY <1>1
  <2> HIDE DEF u, Q, R
  <2>2. u \div 100 = Q /\ u % 100 = R
    BY ONLY <2>1, SmallQuotientTold
  <2> QED
    BY <2>2 DEF Q, R
<1>4. u \div 400 = 5 + qc /\ u % 400 = 100 * c + 4 * q + y
  <2> DEFINE Q == 5 + qc
             R == 100 * c + 4 * q + y
  <2>1. u \in Int /\ Q \in Int /\ u = 400 * Q + R /\ R \in Int /\ 0 <= R /\ R < 400
    BY ONLY <1>1
  <2> HIDE DEF u, Q, R
  <2>2. u \div 400 = Q /\ u % 400 = R
    BY ONLY <2>1, SmallQuotientTold
  <2> QED
    BY <2>2 DEF Q, R
<1>5. LeapsBefore(v + 2001) = u \div 4 - u \div 100 + u \div 400
  BY <1>1 DEF LeapsBefore
<1>6. LeapsBefore(v + 2001) = 485 + 97 * qc + 24 * c + q
  BY ONLY <1>1, <1>2, <1>3, <1>4, <1>5
<1>7. IsLeap(v + 2000) <=> y = 0 /\ (q # 0 \/ c = 0)
  <2>1. IsLeap(u) <=> y = 0 /\ (4 * q + y # 0 \/ 100 * c + 4 * q + y = 0)
    BY <1>2, <1>3, <1>4 DEF IsLeap
  <2> QED
    BY ONLY <1>1, <2>1
<1>8. IsLeap(v + 2001) <=> y = 3 /\ (q # 24 \/ c = 3)
  <2> DEFINE w == v + 2001
  <2>1. LeapsBefore(w) = u \div 4 - u \div 100 + u \div 400
    BY <1>5
  <2>2. w % 4 = 0 <=> y = 3
    <3>1. w \in Int /\ y < 3 => w = 4 * (500 + 100 * qc + 25 * c + q) + (y + 1)
      BY ONLY <1>1
    <3>2. y = 3 => w = 4 * (501 + 100 * qc + 25 * c + q) + 0
      BY ONLY <1>1
    <3> DEFINE A == 500 + 100 * qc + 25 * c + q
               B == 501 + 100 * qc + 25 * c + q
    <3>3. w \in Int /\ A \in Int /\ B \in Int /\ y \in 0 .. 3
      BY ONLY <1>1
    <3> HIDE DEF w, A, B
    <3>4. y < 3 => w % 4 = y + 1
      <4> SUFFICES ASSUME y < 3 PROVE w % 4 = y + 1
        OBVIOUS
      <4>1. w = 4 * A + (y + 1)
        BY <3>1, <3>3 DEF A
      <4>2. y + 1 \in Int /\ 0 <= y + 1 /\ y + 1 < 4
        BY ONLY <3>3, y < 3
      <4> QED
        BY ONLY <3>3, <4>1, <4>2, SmallQuotientTold
    <3>5. y = 3 => w % 4 = 0
      <4> SUFFICES ASSUME y = 3 PROVE w % 4 = 0
        OBVIOUS
      <4>1. w = 4 * B + 0
        BY <3>2 DEF B
      <4> QED
        BY ONLY <3>3, <4>1, SmallQuotientTold
    <3> QED
      BY ONLY <3>3, <3>4, <3>5
  <2>3. ASSUME y = 3 PROVE /\ w % 100 = 0 <=> q = 24
                           /\ w % 400 = 0 <=> q = 24 /\ c = 3
    <3> DEFINE Q == 20 + 4 * qc + c
               R == 4 * q + 4
    <3>1. w \in Int /\ Q \in Int /\ w = 100 * Q + R /\ R \in 4 .. 100 /\ (R = 100 <=> q = 24)
      BY ONLY <1>1, <2>3
    <3>2. w = 400 * (5 + qc) + (100 * c + R) /\ qc \in Int /\ c \in 0 .. 3
      BY ONLY <1>1, <2>3
    <3> HIDE DEF w, Q, R
    <3>3. R < 100 => w % 100 = R
      BY ONLY <3>1, SmallQuotientTold
    <3>4. R = 100 => w % 100 = 0
      <4> SUFFICES ASSUME R = 100 PROVE w % 100 = 0
        OBVIOUS
      <4>1. w = 100 * (Q + 1) + 0 /\ Q + 1 \in Int /\ w \in Int
        BY ONLY <3>1, R = 100
      <4> QED
        BY ONLY <4>1, SmallQuotientTold
    <3> DEFINE S == 100 * c + R
    <3>5. S \in 4 .. 400 /\ (S = 400 <=> q = 24 /\ c = 3)
      BY ONLY <3>1, <3>2
    <3>6. w = 400 * (5 + qc) + S /\ 5 + qc \in Int
      BY ONLY <3>2
    <3> HIDE DEF S
    <3>7. S < 400 => w % 400 = S
      BY ONLY <3>1, <3>5, <3>6, SmallQuotientTold
    <3>8. S = 400 => w % 400 = 0
      <4> SUFFICES ASSUME S = 400 PROVE w % 400 = 0
        OBVIOUS
      <4>1. w = 400 * (6 + qc) + 0 /\ 6 + qc \in Int /\ w \in Int
        BY ONLY <3>1, <3>2, <3>6, S = 400
      <4> QED
        BY ONLY <4>1, SmallQuotientTold
    <3> QED
      BY ONLY <3>1, <3>3, <3>4, <3>5, <3>7, <3>8
  <2>4. IsLeap(w) <=> w % 4 = 0 /\ (w % 100 # 0 \/ w % 400 = 0)
    BY DEF IsLeap
  <2> HIDE DEF w
  <2>5. IsLeap(w) <=> y = 3 /\ (q # 24 \/ c = 3)
    <3>1. CASE y = 3
      BY ONLY <3>1, <2>2, <2>3, <2>4
    <3>2. CASE y # 3
      BY ONLY <3>2, <2>2, <2>4
    <3> QED
      BY <3>1, <3>2
  <2> QED
    BY <2>5 DEF w
<1> QED
  BY <1>6, <1>7, <1>8


\* Every date lies in one of the years from March on.
LEMMA DateLocated ==
    ASSUME NEW t, NEW n \in Int, IsDateOf(t, n)
    PROVE  \E qc, c, q, y, k : Located(t, n, qc, c, q, y, k)
<1> DEFINE u == t.y
           m == t.m
           d == t.d
           k == IF m > 2 THEN m - 3 ELSE m + 9
           v == IF m > 2 THEN u - 2000 ELSE u - 2001
           start == DaysToMonth[m]
           L == IF IsLeap(u) THEN 1 ELSE 0
           last == MonthLength(u, m)
           r == MonthStarts[k + 1] + d - 1
<1>1. /\ u \in Int /\ m \in 1 .. 12 /\ d \in 1 .. last
      /\ n = 365 * (u - 1970) + LeapsBefore(u) - LeapsBefore(1970) + DayOfYear(t)
      /\ t.yday = DayOfYear(t)
      /\ DayOfYear(t) = start + d - 1 + (IF m > 2 THEN L ELSE 0)
  BY DEF IsDateOf, IsDate, DayOfYear
<1>2. v \in Int
  BY ONLY <1>1
<1>3. PICK qc, c, q, y : YearFromMarch(v, qc, c, q, y)
  BY ONLY <1>2, YearHasParts
<1> DEFINE leap == IF y = 0 /\ (q # 0 \/ c = 0) THEN 1 ELSE 0
<1>4. /\ qc \in Int /\ c \in 0 .. 3 /\ q \in 0 .. 24 /\ y \in 0 .. 3
      /\ v = 400 * qc + 100 * c + 4 * q + y
  BY <1>3 DEF YearFromMarch
<1>5. /\ LeapsBefore(v + 2001) = 485 + 97 * qc + 24 * c + q
      /\ IsLeap(v + 2000) <=> y = 0 /\ (q # 0 \/ c = 0)
      /\ IsLeap(v + 2001) <=> y = 3 /\ (q # 24 \/ c = 3)
  BY ONLY <1>2, <1>3, LeapsFromMarch
<1>6. LeapsBefore(1970) = 477
  BY DEF LeapsBefore
\* The same days of the year, counted from January and from March.
<1>7. /\ k \in 0 .. 11 /\ start \in 0 .. 334 /\ last \in 28 .. 31
      /\ MonthStarts[k + 1] = (IF m > 2 THEN start - 59 ELSE start + 306)
      /\ MonthStarts[k + 1] \in 0 .. 337 /\ MonthStarts[k + 2] \in 31 .. 366
      /\ k < 11 => MonthStarts[k + 1] + last <= MonthStarts[k + 2]
      /\ k = 11 => MonthStarts[k + 1] = 337 /\ MonthStarts[k + 2] = 366 /\ last = 28 + L
      /\ k < 11 => MonthStarts[k + 2] <= 337
      /\ k = 11 <=> m = 2
      /\ m > 2 => MonthStarts[k + 1] + last <= 306
  <2>1. m \in 1 .. 12
    BY <1>1
  <2> DEFINE K == k
  <2>2. K = (IF m > 2 THEN m - 3 ELSE m + 9) /\ K \in 0 .. 11
    BY <2>1
  <2>3. /\ start = DaysToMonth[m]
        /\ last = (CASE m \in {4, 6, 9, 11} -> 30
                    [] m = 2               -> 28 + L
                    [] OTHER               -> 31)
        /\ L \in 0 .. 1
    BY DEF MonthLength
  <2> HIDE DEF u, m, k, start, L, last
  <2>4. start \in 0 .. 334 /\ last \in 28 .. 31
    BY ONLY <2>1, <2>3 DEF DaysToMonth
  <2>5. /\ MonthStarts[K + 1] = (IF m > 2 THEN start - 59 ELSE start + 306)
        /\ MonthStarts[K + 1] \in 0 .. 337
        /\ K = 11 => MonthStarts[K + 1] = 337
    BY ONLY <2>1, <2>2, <2>3 DEF MonthStarts, DaysToMonth
  <2>6. /\ MonthStarts[K + 2] \in 31 .. 366
        /\ K = 11 => MonthStarts[K + 2] = 366
        /\ K < 11 => MonthStarts[K + 2] <= 337
    BY ONLY <2>2 DEF MonthStarts
  <2>7. K = 11 <=> m = 2
    BY ONLY <2>1, <2>2
  <2>8. K = 11 => last = 28 + L
    BY ONLY <2>3, <2>7
  <2>9. /\ K < 11 => MonthStarts[K + 1] + last <= MonthStarts[K + 2]
        /\ m > 2 => MonthStarts[K + 1] + last <= 306
    BY ONLY <2>1, <2>2, <2>3 DEF MonthStarts
  <2>10. K = k
    OBVIOUS
  <2> HIDE DEF K
  <2> QED
    BY ONLY <2>2, <2>4, <2>5, <2>6, <2>7, <2>8, <2>9, <2>10
<1>8. L \in 0 .. 1 /\ leap \in 0 .. 1
  OBVIOUS
<1>9. m > 2 => LeapsBefore(u) + L = LeapsBefore(v + 2001) /\ L = leap /\ LeapsBefore(u) \in Int
  <2> SUFFICES ASSUME m > 2 PROVE LeapsBefore(u) + L = LeapsBefore(v + 2001) /\ L = leap
                                  /\ LeapsBefore(u) \in Int
    OBVIOUS
  <2>1. v + 2000 = u /\ v + 2001 = u + 1
    BY ONLY <1>1, m > 2
  <2>2. IsLeap(u) <=> y = 0 /\ (q # 0 \/ c = 0)
    BY <1>5, <2>1
  <2>3. LeapsBefore(u) \in Int /\ LeapsBefore(u + 1) = LeapsBefore(u) + L
    BY <1>1, LeapsStep
  <2> QED
    BY <2>1, <2>2, <2>3
<1>10. m <= 2 => v + 2001 = u /\ LeapsBefore(u) = LeapsBefore(v + 2001) /\ LeapsBefore(u) \in Int
  <2> SUFFICES ASSUME m <= 2 PROVE v + 2001 = u /\ LeapsBefore(u) \in Int
    OBVIOUS
  <2>1. v + 2001 = u
    BY ONLY <1>1, m <= 2
  <2> QED
    BY <2>1, <1>1, LeapsStep
<1>11. L = 1 /\ m <= 2 => y = 3 /\ (q # 24 \/ c = 3)
  BY <1>5, <1>10, <1>1
<1>12. v = (IF m > 2 THEN u - 2000 ELSE u - 2001)
  OBVIOUS
<1>13. r = MonthStarts[k + 1] + d - 1
  OBVIOUS
<1>14. /\ t.y = u /\ t.m = m /\ t.d = d
       /\ k = (IF m > 2 THEN m - 3 ELSE m + 9)
  OBVIOUS
<1> DEFINE ms == MonthStarts[k + 1]
           me == MonthStarts[k + 2]
           lu == LeapsBefore(u)
           lv == LeapsBefore(v + 2001)
           yd == DayOfYear(t)
           base == LeapsBefore(1970)
<1>15. n - 11017 = 365 * v + 97 * qc + 24 * c + q + r
  <2>1. /\ u \in Int /\ d \in 1 .. last /\ m \in 1 .. 12
        /\ n = 365 * (u - 1970) + lu - base + yd
        /\ yd = start + d - 1 + (IF m > 2 THEN L ELSE 0)
        /\ base = 477 /\ lv = 485 + 97 * qc + 24 * c + q /\ lu \in Int
        /\ ms = (IF m > 2 THEN start - 59 ELSE start + 306) /\ r = ms + d - 1
        /\ v = (IF m > 2 THEN u - 2000 ELSE u - 2001)
        /\ m > 2 => lu + L = lv
        /\ m <= 2 => lu = lv
        /\ start \in 0 .. 334 /\ last \in 28 .. 31
    <3>1. lu \in Int
      BY <1>1, <1>9, <1>10
    <3> QED
      BY <1>1, <1>5, <1>6, <1>7, <1>9, <1>10, <3>1
  <2> HIDE DEF u, m, d, k, v, start, L, last, r, leap, ms, me, lu, lv, yd, base
  <2> QED
    BY ONLY <1>4, <1>8, <2>1
<1>16. InYear(c, q, y, r) /\ r < MonthStarts[k + 2]
  <2>1. r \in 0 .. 365 /\ r < me /\ (r = 365 => k = 11 /\ L = 1)
    <3>1. ms \in 0 .. 337 /\ me \in 31 .. 366 /\ d \in 1 .. last /\ last \in 28 .. 31 /\ r = ms + d - 1
      BY ONLY <1>1, <1>7
    <3>2. k \in 0 .. 11 /\ (k < 11 => ms + last <= me /\ me <= 337)
          /\ (k = 11 => ms = 337 /\ me = 366 /\ last = 28 + L)
      BY ONLY <1>7
    <3> HIDE DEF u, m, d, k, v, start, L, last, r, leap, ms, me
    <3> QED
      BY ONLY <1>8, <3>1, <3>2
  <2>2. r = 365 => y = 3 /\ (q # 24 \/ c = 3)
    BY <1>7, <1>11, <2>1
  <2> HIDE DEF r
  <2> QED
    BY <1>4, <2>1, <2>2 DEF InYear
<1>17. t.y = 400 * qc + 100 * c + 4 * q + y + 2000 + (IF k + 2 >= 12 THEN 1 ELSE 0)
       /\ t.m = (IF k + 2 >= 12 THEN k - 9 ELSE k + 3)
  <2> HIDE DEF v, u, m, k
  <2> QED
    BY ONLY <1>1, <1>4, <1>12, <1>14
<1>18. t.yday = (IF r + 59 + leap >= 365 + leap THEN r + 59 + leap - (365 + leap) ELSE r + 59 + leap)
  <2>1. /\ t.yday = start + d - 1 + (IF m > 2 THEN L ELSE 0)
        /\ m > 2 => L = leap
        /\ m > 2 => ms + last <= 306
        /\ ms = (IF m > 2 THEN start - 59 ELSE start + 306) /\ r = ms + d - 1
        /\ start \in 0 .. 334 /\ last \in 28 .. 31 /\ d \in 1 .. last /\ m \in 1 .. 12
    BY ONLY <1>1, <1>7, <1>9
  <2> HIDE DEF u, m, d, k, v, start, L, last, r, leap, ms, me, lu, lv, yd, base
  <2> QED
    BY ONLY <1>8, <2>1
<1>19. n - LEAPOCH = DAYS_PER_400Y * qc + (DAYS_PER_100Y * c + DAYS_PER_4Y * q + 365 * y + r)
  <2>1. r \in Int
    BY <1>16 DEF InYear
  <2> HIDE DEF r, v
  <2> QED
    BY ONLY <1>4, <1>15, <2>1 DEF LEAPOCH, DAYS_PER_400Y, DAYS_PER_100Y, DAYS_PER_4Y
<1>20. d \in 1 .. 31
  BY ONLY <1>1, <1>7
<1>21. Located(t, n, qc, c, q, y, k)
  <2> DEFINE K == k
  <2>1. K \in 0 .. 11
    BY <1>7
  <2> HIDE DEF k
  <2> QED
    BY <1>4, <1>16, <1>17, <1>18, <1>19, <1>20, <2>1 DEF Located
<1> QED
  BY <1>21

\* The date that is shown of a day is its date.
LEMMA DateShown ==
    ASSUME NEW t, NEW n \in Int, IsDateOf(t, n), NEW s \in 0 .. SecsPerDay - 1
    PROVE  LET tm == secondsToTm(n, s)
           IN  /\ tm.tm_year \in Int /\ tm.tm_year + 1900 = t.y /\ tm.tm_mon + 1 = t.m /\ tm.tm_mday = t.d
               /\ tm.tm_wday = t.wday /\ tm.tm_yday = t.yday
               /\ 3600 * tm.tm_hour + 60 * tm.tm_min + tm.tm_sec = s
<1> DEFINE tm == secondsToTm(n, s)
<1>1. PICK qc, c, q, y, k : Located(t, n, qc, c, q, y, k)
  BY DateLocated
<1>2. FieldsOf(tm, t, n, s)
  BY ONLY <1>1, TmOfDay, n \in Int, s \in 0 .. SecsPerDay - 1
<1>3. t.wday = (n + 4) % 7
  BY DEF IsDateOf
<1>4. 3600 * (s \div 3600) + 60 * ((s \div 60) % 60) + (s % 60) = s
  <2>1. s \in Nat
    BY DEF SecsPerDay
  <2> QED
    BY ONLY <2>1
<1> HIDE DEF tm
<1>5. 3600 * tm.tm_hour + 60 * tm.tm_min + tm.tm_sec = s
  BY ONLY <1>2, <1>4 DEF FieldsOf
<1> QED
  BY <1>2, <1>3, <1>5 DEF tm, FieldsOf

\* The walks begin with dates.
LEMMA DateInit == AlgorithmsInit => DateInv
  BY WalksAssumption DEF AlgorithmsInit, DateInv

\* A day later is a date again; a node read leaves the date alone.
LEMMA DateStep == DateInv /\ [AlgorithmsNext]_<<walkVars, dp>> => DateInv'
<1> SUFFICES ASSUME DateInv, [AlgorithmsNext]_<<walkVars, dp>> PROVE DateInv'
  OBVIOUS
<1>1. CASE NextDay
  <2>1. day \in Nat /\ IsDateOf(civil, day) /\ day' = day + 1 /\ civil' = Tomorrow(civil)
    BY <1>1 DEF DateInv, NextDay
  <2>2. IsDateOf(Tomorrow(civil), day + 1)
    BY ONLY <2>1, TomorrowIsNext
  <2>3. IsDateOf(civil', day')
    BY ONLY <2>1, <2>2
  <2> QED
    BY <2>1, <2>3 DEF DateInv, IsDateOf, IsDate, DayOfYear
<1>2. CASE UNCHANGED walkVars
  BY <1>2 DEF DateInv, walkVars, IsDateOf, IsDate, DayOfYear
<1> QED
  BY <1>1, <1>2, Zenon DEF AlgorithmsNext, NextNode

\* Whatever the stretches of days, the date that is kept is the date of the day:
\* the walk is a calendar.
THEOREM DateCorrect == AlgorithmsSpec => []DateInv
  BY DateInit, DateStep, PTL DEF AlgorithmsSpec

\* On every day from 1970 on, at its first and at its last second, secondsToTm
\* gives the date of that day.
THEOREM DatesAgreeAlways == AlgorithmsSpec => []DatesAgree
<1>1. DateInv => DatesAgree
  <2> SUFFICES ASSUME DateInv, NEW second \in {0, SecsPerDay - 1}
               PROVE  LET tm == secondsToTm(day, second)
                      IN  /\ <<tm.tm_year + 1900, tm.tm_mon + 1, tm.tm_mday>> = <<civil.y, civil.m, civil.d>>
                          /\ <<tm.tm_wday, tm.tm_yday>> = <<civil.wday, civil.yday>>
                          /\ 3600 * tm.tm_hour + 60 * tm.tm_min + tm.tm_sec = second
    BY DEF DatesAgree
  <2>1. day \in Int /\ IsDateOf(civil, day)
    BY DEF DateInv
  <2>2. second \in 0 .. SecsPerDay - 1
    BY DEF SecsPerDay
  <2> DEFINE tm == secondsToTm(day, second)
  <2>3. /\ tm.tm_year + 1900 = civil.y /\ tm.tm_mon + 1 = civil.m /\ tm.tm_mday = civil.d
        /\ tm.tm_wday = civil.wday /\ tm.tm_yday = civil.yday
        /\ 3600 * tm.tm_hour + 60 * tm.tm_min + tm.tm_sec = second
    BY ONLY <2>1, <2>2, DateShown
  <2> HIDE DEF tm
  <2>4. /\ <<tm.tm_year + 1900, tm.tm_mon + 1, tm.tm_mday>> = <<civil.y, civil.m, civil.d>>
        /\ <<tm.tm_wday, tm.tm_yday>> = <<civil.wday, civil.yday>>
    BY <2>3
  <2> QED
    BY <2>3, <2>4 DEF tm
<1> QED
  BY DateCorrect, <1>1, PTL

-----------------------------------------------------------------------------
(* Induction, stated for a set: what is outside of it would have a least   *)
(* element, since < is well founded.                                       *)

\* What holds of a number whenever it holds of all below it holds of all numbers.
LEMMA StrongInduction ==
    ASSUME NEW S, \A n \in Nat : (\A m \in Nat : m < n => m \in S) => n \in S
    PROVE  Nat \subseteq S
<1> DEFINE T == Nat \ S
<1> SUFFICES ASSUME T # {} PROVE FALSE
  OBVIOUS
<1>1. PICK x \in T : \A y \in T : ~(<<y, x>> \in OpToRel(<, Nat))
  BY NatLessThanWellFounded, WFMin
<1>2. \A y \in Nat : y < x => y \in S
  BY <1>1 DEF OpToRel
<1> QED
  BY <1>2

\* The same, from each number to the next.
LEMMA SetInduction ==
    ASSUME NEW S, 0 \in S, \A n \in Nat : n \in S => n + 1 \in S
    PROVE  Nat \subseteq S
<1>1. ASSUME NEW n \in Nat, \A m \in Nat : m < n => m \in S PROVE n \in S
  <2>1. CASE n = 0
    BY <2>1
  <2>2. CASE n # 0
    <3>1. n - 1 \in Nat /\ n - 1 < n /\ (n - 1) + 1 = n
      BY <2>2
    <3> QED
      BY <1>1, <3>1
  <2> QED
    BY <2>1, <2>2
<1> QED
  BY <1>1, StrongInduction

-----------------------------------------------------------------------------
(* The digits of a number. *)

Digit == 0 .. 9

\* The digits of n, from those of the numbers before it.
NextDigits(f, n) == IF n < 10 THEN <<n>> ELSE Append(f[n \div 10], n % 10)

DigitsUpto(f, N) ==
    /\ f \in [0 .. N -> Seq(Digit)]
    /\ \A n \in 0 .. N : f[n] = NextDigits(f, n)

\* The digits before the last are those of a smaller number.
LEMMA TenthIsLess ==
    ASSUME NEW n \in Nat, n >= 10 PROVE n \div 10 \in 0 .. n - 1 /\ n % 10 \in Digit
  BY DEF Digit

\* The recursion has a solution up to any number,
LEMMA DigitsUptoExist == \A N \in Nat : \E f : DigitsUpto(f, N)
<1> DEFINE Good == {N \in Nat : \E f : DigitsUpto(f, N)}
<1>1. 0 \in Good
  <2> DEFINE f == [n \in 0 .. 0 |-> <<n>>]
  <2>1. f \in [0 .. 0 -> Seq(Digit)]
    BY DEF Digit
  <2>2. \A n \in 0 .. 0 : f[n] = NextDigits(f, n)
    BY DEF NextDigits
  <2> HIDE DEF f
  <2>3. DigitsUpto(f, 0)
    BY <2>1, <2>2 DEF DigitsUpto
  <2> QED
    BY <2>3
<1>2. ASSUME NEW N \in Nat, N \in Good PROVE N + 1 \in Good
  <2>1. PICK g : DigitsUpto(g, N)
    BY <1>2
  <2>2. g \in [0 .. N -> Seq(Digit)]
    BY <2>1 DEF DigitsUpto
  <2> DEFINE M == N + 1
             new == IF M < 10 THEN <<M>> ELSE Append(g[M \div 10], M % 10)
             f == [n \in 0 .. M |-> IF n = M THEN new ELSE g[n]]
  <2>3. new \in Seq(Digit)
    <3>1. CASE M < 10
      <4>1. M \in Digit
        BY <3>1 DEF Digit
      <4> QED
        BY <3>1, <4>1
    <3>2. CASE ~(M < 10)
      <4>1. M \in Nat /\ M >= 10
        BY <3>2
      <4>2. M \div 10 \in 0 .. M - 1 /\ M % 10 \in Digit
        BY ONLY <4>1, TenthIsLess
      <4>3. g[M \div 10] \in Seq(Digit)
        BY <2>2, <4>2
      <4> QED
        BY <3>2, <4>2, <4>3
    <3> QED
      BY <3>1, <3>2
  <2>4. f \in [0 .. M -> Seq(Digit)]
    <3> HIDE DEF new
    <3> QED
      BY <2>2, <2>3
  <2>5. ASSUME NEW n \in 0 .. M
        PROVE  f[n] = NextDigits(f, n)
    <3>1. n \in Nat /\ (n >= 10 => n \div 10 \in 0 .. N)
      <4>1. n >= 10 => n \div 10 \in 0 .. n - 1
        BY TenthIsLess
      <4> QED
        BY <4>1
    <3>2. n >= 10 => f[n \div 10] = g[n \div 10]
      <4> HIDE DEF new
      <4> QED
        BY <3>1
    <3>3. CASE n = M
      <4>1. f[n] = new
        <5> HIDE DEF new
        <5> QED
          BY <3>3
      <4> HIDE DEF f
      <4> QED
        BY <3>1, <3>2, <3>3, <4>1 DEF NextDigits
    <3>4. CASE n # M
      <4>1. n \in 0 .. N
        BY <3>4
      <4>2. f[n] = g[n]
        <5> HIDE DEF new
        <5> QED
          BY <3>4
      <4>3. g[n] = NextDigits(g, n)
        BY <2>1, <4>1 DEF DigitsUpto
      <4> HIDE DEF f
      <4> QED
        BY <3>1, <3>2, <4>2, <4>3 DEF NextDigits
    <3> QED
      BY <3>3, <3>4
  <2> HIDE DEF f
  <2>6. DigitsUpto(f, M)
    BY <2>4, <2>5 DEF DigitsUpto
  <2> QED
    BY <2>6
<1>3. Nat \subseteq Good
  BY <1>1, <1>2, SetInduction
<1> QED
  BY <1>3

\* which is the same one wherever it ends.
LEMMA DigitsUptoAgree ==
    ASSUME NEW N \in Nat, NEW M \in Nat, NEW f, NEW g, DigitsUpto(f, N), DigitsUpto(g, M)
    PROVE  \A n \in Nat : n <= N /\ n <= M => f[n] = g[n]
<1> DEFINE Good == {n \in Nat : n <= N /\ n <= M => f[n] = g[n]}
<1>1. ASSUME NEW n \in Nat, \A m \in Nat : m < n => m \in Good PROVE n \in Good
  <2> SUFFICES ASSUME n <= N, n <= M PROVE f[n] = g[n]
    OBVIOUS
  <2>1. /\ f[n] = NextDigits(f, n)
        /\ g[n] = NextDigits(g, n)
    BY DEF DigitsUpto
  <2>2. n >= 10 => n \div 10 \in Good /\ n \div 10 \in 0 .. n - 1
    BY <1>1, TenthIsLess
  <2>3. n >= 10 => f[n \div 10] = g[n \div 10]
    BY <2>2
  <2> QED
    BY <2>1, <2>3 DEF NextDigits
<1>2. Nat \subseteq Good
  BY <1>1, StrongInduction
<1> QED
  BY <1>2

\* The digits of a number are those of its tenth, and the last one.
LEMMA DigitsIs == \A n \in Nat : Digits[n] = NextDigits(Digits, n)
<1> DEFINE Solution(f) ==
              f = [n \in Nat |-> NextDigits(f, n)]
           part == [n \in Nat |-> CHOOSE f : DigitsUpto(f, n)]
           h == [n \in Nat |-> part[n][n]]
<1>1. \A n \in Nat : DigitsUpto(part[n], n)
  BY DigitsUptoExist
<1> HIDE DEF part
<1>2. ASSUME NEW n \in Nat
      PROVE  h[n] = NextDigits(h, n)
  <2>1. part[n][n] = NextDigits(part[n], n)
    BY <1>1 DEF DigitsUpto
  <2>2. n >= 10 => part[n][n \div 10] = part[n \div 10][n \div 10]
    <3> SUFFICES ASSUME n >= 10 PROVE part[n][n \div 10] = part[n \div 10][n \div 10]
      OBVIOUS
    <3> DEFINE m == n \div 10
    <3>1. m \in Nat /\ m <= n
      BY TenthIsLess
    <3> HIDE DEF m
    <3>2. DigitsUpto(part[n], n) /\ DigitsUpto(part[m], m)
      BY <1>1, <3>1
    <3>3. part[n][m] = part[m][m]
      BY <3>1, <3>2, DigitsUptoAgree
    <3> QED
      BY <3>3 DEF m
  <2>3. n >= 10 => h[n \div 10] = part[n \div 10][n \div 10]
    BY TenthIsLess
  <2> HIDE DEF h
  <2>4. n >= 10 => part[n][n \div 10] = h[n \div 10]
    BY <2>2, <2>3
  <2>5. h[n] = part[n][n]
    BY DEF h
  <2> QED
    BY <2>1, <2>4, <2>5 DEF NextDigits
<1>3. Solution(h)
  <2> DEFINE g == [n \in Nat |-> NextDigits(h, n)]
  <2>1. \A n \in Nat : h[n] = g[n]
    BY <1>2
  <2> HIDE DEF part
  <2> QED
    BY <2>1
<1> HIDE DEF h
<1>4. PICK f : Solution(f) /\ Digits = f
  BY <1>3 DEF Digits, NextDigits
<1> QED
  BY <1>4, Zenon

\* Below ten a number is its own digit.
LEMMA OneDigit == ASSUME NEW n \in 0 .. 9 PROVE Digits[n] = <<n>>
<1>1. n \in Nat /\ n < 10
  OBVIOUS
<1>2. Digits[n] = NextDigits(Digits, n)
  BY ONLY <1>1, DigitsIs
<1> QED
  BY ONLY <1>1, <1>2 DEF NextDigits

\* From ten on, the digits of the tenth and one more.
LEMMA MoreDigits ==
    ASSUME NEW n \in Nat, n >= 10 PROVE Digits[n] = Append(Digits[n \div 10], n % 10)
<1>1. Digits[n] = NextDigits(Digits, n)
  BY DigitsIs
<1> QED
  BY ONLY <1>1, n \in Nat, n >= 10 DEF NextDigits

\* A number has at least one digit, each below ten.
LEMMA DigitsType == \A n \in Nat : Digits[n] \in Seq(Digit) /\ Len(Digits[n]) > 0
<1> DEFINE Good == {n \in Nat : Digits[n] \in Seq(Digit) /\ Len(Digits[n]) > 0}
<1>1. ASSUME NEW n \in Nat, \A m \in Nat : m < n => m \in Good PROVE n \in Good
  <2>1. CASE n < 10
    <3>1. Digits[n] = <<n>> /\ n \in Digit
      BY <2>1, OneDigit DEF Digit
    <3>2. <<n>> \in Seq(Digit)
      BY ONLY <3>1
    <3>3. Len(<<n>>) > 0
      OBVIOUS
    <3> QED
      BY ONLY <3>1, <3>2, <3>3, n \in Nat
  <2>2. CASE n >= 10
    <3> DEFINE s == Digits[n \div 10]
    <3>1. Digits[n] = Append(s, n % 10)
      BY <2>2, MoreDigits
    <3>2. n \div 10 \in 0 .. n - 1 /\ n % 10 \in Digit
      BY <2>2, TenthIsLess
    <3>3. s \in Seq(Digit)
      BY <1>1, <3>2
    <3> HIDE DEF s
    <3>4. Append(s, n % 10) \in Seq(Digit) /\ Len(Append(s, n % 10)) > 0
      BY ONLY <3>2, <3>3
    <3> QED
      BY ONLY <3>1, <3>4, n \in Nat
  <2> QED
    BY <2>1, <2>2
<1>2. Nat \subseteq Good
  BY <1>1, StrongInduction
<1> QED
  BY <1>2

-----------------------------------------------------------------------------
(* The number that digits stand for. *)

\* f reads the digits of s one by one.
Reads(f, s) ==
    /\ f \in [0 .. Len(s) -> Nat]
    /\ f[0] = 0
    /\ \A i \in 1 .. Len(s) : f[i] = 10 * f[i - 1] + s[i]

\* There is one way of reading digits,
LEMMA ReadsAgree ==
    ASSUME NEW s \in Seq(Nat), NEW f, NEW g, Reads(f, s), Reads(g, s) PROVE f = g
<1> DEFINE Good == {m \in Nat : m <= Len(s) => f[m] = g[m]}
<1>1. 0 \in Good
  BY DEF Reads
<1>2. ASSUME NEW m \in Nat, m \in Good PROVE m + 1 \in Good
  <2> SUFFICES ASSUME m + 1 <= Len(s) PROVE f[m + 1] = g[m + 1]
    OBVIOUS
  <2>1. m + 1 \in 1 .. Len(s) /\ (m + 1) - 1 = m /\ f[m] = g[m]
    BY <1>2
  <2> QED
    BY <2>1 DEF Reads
<1>3. Nat \subseteq Good
  BY <1>1, <1>2, SetInduction
<1>4. \A m \in 0 .. Len(s) : f[m] = g[m]
  BY <1>3
<1> QED
  BY <1>4 DEF Reads

\* A function that reads the digits gives the number.
LEMMA NumberIs ==
    ASSUME NEW s \in Seq(Nat), NEW f, Reads(f, s) PROVE Number(s) = f[Len(s)] /\ Number(s) \in Nat
<1> DEFINE Solution(g) == g = [i \in 0 .. Len(s) |-> IF i = 0 THEN 0 ELSE 10 * g[i - 1] + s[i]]
           n == Len(s)
<1>1. n \in Nat /\ \A i \in 1 .. n : s[i] \in Nat
  OBVIOUS
<1>2. Solution(f)
  <2> DEFINE h == [i \in 0 .. n |-> IF i = 0 THEN 0 ELSE 10 * f[i - 1] + s[i]]
  <2>1. f \in [0 .. n -> Nat] /\ \A i \in 0 .. n : f[i] = h[i]
    BY <1>1 DEF Reads
  <2>2. f = h
    BY <2>1
  <2> QED
    BY <2>2
<1>3. PICK g : Solution(g) /\ Number(s) = g[n]
  <2> HIDE DEF Solution
  <2>1. Solution(CHOOSE g : Solution(g))
    BY <1>2
  <2>2. Number(s) = (CHOOSE g : Solution(g))[n]
    BY DEF Number, Solution
  <2> QED
    BY <2>1, <2>2
<1>4. \A i \in 0 .. n : g[i] = IF i = 0 THEN 0 ELSE 10 * g[i - 1] + s[i]
  BY <1>3, Zenon
<1>5. g[0] = 0
  BY <1>1, <1>4
<1>6. \A i \in 1 .. n : g[i] = 10 * g[i - 1] + s[i]
  BY <1>1, <1>4
<1>7. g \in [0 .. n -> Nat]
  <2> DEFINE Good == {i \in Nat : i <= n => g[i] \in Nat}
  <2>1. 0 \in Good
    BY <1>5
  <2>2. ASSUME NEW i \in Nat, i \in Good PROVE i + 1 \in Good
    <3> SUFFICES ASSUME i + 1 <= n PROVE g[i + 1] \in Nat
      OBVIOUS
    <3>1. i + 1 \in 1 .. n /\ (i + 1) - 1 = i /\ g[i] \in Nat
      BY <2>2, <1>1
    <3>2. g[i + 1] = 10 * g[i] + s[i + 1] /\ s[i + 1] \in Nat
      BY <1>1, <1>6, <3>1
    <3> QED
      BY ONLY <3>1, <3>2
  <2>3. Nat \subseteq Good
    BY <2>1, <2>2, SetInduction
  <2>4. \A i \in 0 .. n : g[i] \in Nat
    BY <2>3
  <2>5. DOMAIN g = 0 .. n /\ g = [i \in DOMAIN g |-> g[i]]
    BY <1>3, Zenon
  <2> QED
    BY <2>4, <2>5
<1> HIDE DEF Solution
<1>8. Reads(g, s)
  BY <1>5, <1>6, <1>7 DEF Reads
<1>9. f = g
  BY <1>8, ReadsAgree
<1>10. g[n] \in Nat
  BY <1>1, <1>7
<1> QED
  BY <1>3, <1>9, <1>10

\* Nothing reads as zero.
LEMMA EmptyReads == Reads([i \in 0 .. 0 |-> 0], << >>)
  BY DEF Reads

\* A digit more is read after the others.
LEMMA AppendReads ==
    ASSUME NEW s \in Seq(Nat), NEW d \in Nat, NEW f, Reads(f, s)
    PROVE  \E g : Reads(g, Append(s, d)) /\ g[Len(s) + 1] = 10 * f[Len(s)] + d
<1> DEFINE n == Len(s)
           t == Append(s, d)
           g == [i \in 0 .. n + 1 |-> IF i = n + 1 THEN 10 * f[n] + d ELSE f[i]]
<1>1. n \in Nat /\ Len(t) = n + 1 /\ (\A i \in 1 .. n : t[i] = s[i]) /\ t[n + 1] = d
  OBVIOUS
<1>2. f \in [0 .. n -> Nat] /\ f[0] = 0 /\ \A i \in 1 .. n : f[i] = 10 * f[i - 1] + s[i]
  BY DEF Reads
<1> HIDE DEF n, t
<1>3. g \in [0 .. n + 1 -> Nat]
  <2>1. 10 * f[n] + d \in Nat
    <3>1. f[n] \in Nat
      BY <1>1, <1>2
    <3> QED
      BY ONLY <3>1, d \in Nat
  <2> DEFINE x == 10 * f[n] + d
  <2> HIDE DEF x
  <2>2. g = [i \in 0 .. n + 1 |-> IF i = n + 1 THEN x ELSE f[i]]
    BY DEF x
  <2>3. x \in Nat
    BY <2>1 DEF x
  <2> QED
    BY <1>1, <1>2, <2>2, <2>3
<1>4. g[0] = 0 /\ g[n + 1] = 10 * f[n] + d /\ \A i \in 0 .. n : g[i] = f[i]
  BY <1>1, <1>2
<1> HIDE DEF g
<1>5. ASSUME NEW i \in 1 .. n + 1 PROVE g[i] = 10 * g[i - 1] + t[i]
  <2>1. i - 1 \in 0 .. n /\ g[i - 1] = f[i - 1]
    BY <1>1, <1>4
  <2>2. CASE i = n + 1
    <3>1. i - 1 = n
      BY <1>1, <2>2
    <3> QED
      BY <1>1, <1>4, <2>1, <2>2, <3>1
  <2>3. CASE i \in 1 .. n
    BY <1>1, <1>2, <1>4, <2>1, <2>3
  <2> QED
    BY <1>1, <2>2, <2>3
<1>6. Reads(g, t)
  BY <1>1, <1>3, <1>4, <1>5 DEF Reads
<1> QED
  BY <1>4, <1>6 DEF n, t

\* and every sequence of digits can be read.
LEMMA NumbersRead == \A n \in Nat : \A s \in Seq(Nat) : Len(s) = n => \E f : Reads(f, s)
<1> DEFINE Good == {n \in Nat : \A s \in Seq(Nat) : Len(s) = n => \E f : Reads(f, s)}
<1>1. 0 \in Good
  <2>1. \A s \in Seq(Nat) : Len(s) = 0 => s = << >>
    OBVIOUS
  <2> QED
    BY <2>1, EmptyReads
<1>2. ASSUME NEW n \in Nat, n \in Good PROVE n + 1 \in Good
  <2> SUFFICES ASSUME NEW s \in Seq(Nat), Len(s) = n + 1 PROVE \E f : Reads(f, s)
    OBVIOUS
  <2> DEFINE r == SubSeq(s, 1, n)
  <2>1. r \in Seq(Nat) /\ Len(r) = n /\ s[n + 1] \in Nat /\ s = Append(r, s[n + 1])
    OBVIOUS
  <2> HIDE DEF r
  <2>2. PICK f : Reads(f, r)
    BY <1>2, <2>1
  <2> DEFINE d == s[n + 1]
  <2>3. d \in Nat /\ s = Append(r, d)
    BY <2>1
  <2> HIDE DEF d
  <2> QED
    BY <2>1, <2>2, <2>3, AppendReads
<1>3. Nat \subseteq Good
  BY <1>1, <1>2, SetInduction
<1> QED
  BY <1>3

\* A digit more multiplies by ten.
LEMMA NumberAppend ==
    ASSUME NEW s \in Seq(Nat), NEW d \in Nat
    PROVE  Number(Append(s, d)) = 10 * Number(s) + d /\ Number(s) \in Nat
<1>1. PICK f : Reads(f, s)
  BY NumbersRead
<1>2. PICK g : Reads(g, Append(s, d)) /\ g[Len(s) + 1] = 10 * f[Len(s)] + d
  BY <1>1, AppendReads
<1>3. Number(s) = f[Len(s)] /\ Number(s) \in Nat
  BY <1>1, NumberIs
<1>4. Append(s, d) \in Seq(Nat) /\ Len(Append(s, d)) = Len(s) + 1
  OBVIOUS
<1>5. Number(Append(s, d)) = g[Len(s) + 1]
  BY <1>2, <1>4, NumberIs
<1> QED
  BY <1>2, <1>3, <1>5

\* No digits are zero.
LEMMA NumberEmpty == Number(<< >>) = 0
<1>1. << >> \in Seq(Nat) /\ Len(<< >>) = 0
  OBVIOUS
<1>2. Number(<< >>) = [i \in 0 .. 0 |-> 0][0]
  BY <1>1, EmptyReads, NumberIs
<1> QED
  BY <1>2

\* One digit is itself.
LEMMA NumberOne == ASSUME NEW d \in Nat PROVE Number(<<d>>) = d
<1>1. << >> \in Seq(Nat) /\ Append(<< >>, d) = <<d>>
  OBVIOUS
<1>2. Number(Append(<< >>, d)) = 10 * Number(<< >>) + d
  BY ONLY <1>1, d \in Nat, NumberAppend
<1> QED
  BY <1>1, <1>2, NumberEmpty

\* A number written out in digits reads back.
LEMMA DigitsReadBack == \A n \in Nat : Number(Digits[n]) = n
<1> DEFINE Good == {n \in Nat : Number(Digits[n]) = n}
<1>1. ASSUME NEW n \in Nat, \A m \in Nat : m < n => m \in Good PROVE n \in Good
  <2>1. CASE n < 10
    <3>1. Digits[n] = <<n>>
      BY <2>1, OneDigit
    <3> QED
      BY <3>1, NumberOne
  <2>2. CASE n >= 10
    <3> DEFINE m == n \div 10
               d == n % 10
    <3>1. Digits[n] = Append(Digits[m], d)
      BY <2>2, MoreDigits
    <3>2. m \in 0 .. n - 1 /\ d \in Digit
      BY <2>2, TenthIsLess
    <3>3. n = 10 * m + d
      OBVIOUS
    <3> HIDE DEF m, d
    <3>4. m \in Nat /\ m < n
      BY <3>2
    <3>5. Number(Digits[m]) = m
      BY <1>1, <3>4
    <3>6. Digits[m] \in Seq(Nat)
      <4>1. Digits[m] \in Seq(Digit)
        BY <3>4, DigitsType
      <4> QED
        BY ONLY <4>1 DEF Digit
    <3>7. d \in Nat
      BY <3>2 DEF Digit
    <3>8. Number(Append(Digits[m], d)) = 10 * Number(Digits[m]) + d
      BY ONLY <3>6, <3>7, NumberAppend
    <3> QED
      BY <3>1, <3>3, <3>5, <3>8
  <2> QED
    BY <2>1, <2>2
<1>2. Nat \subseteq Good
  BY <1>1, StrongInduction
<1> QED
  BY <1>2

-----------------------------------------------------------------------------
(* Numbers with a point. *)

\* Zeros in front do not change the number.
LEMMA ZerosBefore ==
    ASSUME NEW s \in Seq(Nat), NEW k \in Nat
    PROVE  Number([i \in 1 .. k |-> 0] \o s) = Number(s)
<1> DEFINE z == [i \in 1 .. k |-> 0]
           n == Len(s)
           t == z \o s
<1>1. PICK g : Reads(g, s)
  BY NumbersRead
<1>2. g \in [0 .. n -> Nat] /\ g[0] = 0 /\ \A i \in 1 .. n : g[i] = 10 * g[i - 1] + s[i]
  BY <1>1 DEF Reads
<1>3. n \in Nat /\ z \in Seq(Nat) /\ Len(z) = k /\ \A i \in 1 .. k : z[i] = 0
  OBVIOUS
<1> HIDE DEF z
<1>4. t \in Seq(Nat) /\ Len(t) = k + n
  BY <1>3
<1>5. \A i \in 1 .. k + n : t[i] = IF i <= k THEN 0 ELSE s[i - k]
  BY <1>3
<1> DEFINE f == [i \in 0 .. k + n |-> IF i <= k THEN 0 ELSE g[i - k]]
<1> HIDE DEF n, t
<1>6. f \in [0 .. k + n -> Nat]
  <2>1. ASSUME NEW i \in 0 .. k + n PROVE (IF i <= k THEN 0 ELSE g[i - k]) \in Nat
    <3>1. CASE i <= k
      BY <3>1
    <3>2. CASE ~(i <= k)
      <4>1. i - k \in 0 .. n
        BY <1>3, <3>2
      <4> QED
        BY <1>2, <3>2, <4>1
    <3> QED
      BY <3>1, <3>2
  <2> QED
    BY <2>1
<1>7. \A i \in 0 .. k + n : f[i] = IF i <= k THEN 0 ELSE g[i - k]
  OBVIOUS
<1> HIDE DEF f
<1>8. ASSUME NEW i \in 1 .. k + n PROVE f[i] = 10 * f[i - 1] + t[i]
  <2>1. i \in 0 .. k + n /\ i - 1 \in 0 .. k + n /\ i \in Int
    BY <1>3
  <2>2. CASE i <= k
    <3>1. f[i] = 0 /\ f[i - 1] = 0 /\ t[i] = 0
      BY <1>5, <1>7, <2>1, <2>2
    <3> QED
      BY ONLY <3>1
  <2>3. CASE i > k
    <3>1. i - k \in 1 .. n /\ ~(i <= k) /\ (i - 1) - k = (i - k) - 1
      BY <1>3, <2>3
    <3>2. f[i] = g[i - k] /\ t[i] = s[i - k]
      BY <1>5, <1>7, <2>1, <3>1
    <3>3. f[i - 1] = g[(i - k) - 1]
      <4>1. CASE i - 1 <= k
        <5>1. (i - k) - 1 = 0
          BY <2>3, <4>1
        <5> QED
          BY <1>2, <1>7, <2>1, <4>1, <5>1
      <4>2. CASE ~(i - 1 <= k)
        BY <1>7, <2>1, <3>1, <4>2
      <4> QED
        BY <4>1, <4>2
    <3>4. g[i - k] = 10 * g[(i - k) - 1] + s[i - k]
      BY <1>2, <3>1
    <3> QED
      BY <3>2, <3>3, <3>4
  <2> QED
    BY <2>1, <2>2, <2>3
<1>9. f[0] = 0
  BY <1>3, <1>7
<1>10. Reads(f, t)
  BY <1>4, <1>6, <1>8, <1>9 DEF Reads
<1>11. f[k + n] = g[n]
  <2>1. CASE n = 0
    BY <1>2, <1>7, <2>1
  <2>2. CASE n > 0
    BY <1>3, <1>7, <2>2
  <2> QED
    BY <1>3, <2>1, <2>2
<1>12. Number(t) = f[k + n]
  BY <1>4, <1>10, NumberIs
<1>13. Number(s) = g[n]
  BY <1>1, NumberIs DEF n
<1> QED
  BY <1>11, <1>12, <1>13 DEF t, z

\* What CHOOSE takes for the last digit shown exists.
LEMMA LeastExists ==
    ASSUME NEW S, S \subseteq Nat, S # {} PROVE \E x \in S : \A y \in S : x <= y
<1>1. PICK x \in S : \A y \in S : ~(<<y, x>> \in OpToRel(<, Nat))
  BY NatLessThanWellFounded, WFMin
<1>2. \A y \in S : ~(y < x)
  BY <1>1 DEF OpToRel
<1> QED
  BY <1>2

\* The digits with zeros before them: one digit at least before the point.
Padded(s, decimals) == Zeros(decimals + 1 - Len(s)) \o s

\* Padding keeps the number, and leaves a digit before the point.
LEMMA PaddedIs ==
    ASSUME NEW s \in Seq(Digit), NEW decimals \in Nat
    PROVE  /\ Padded(s, decimals) \in Seq(Nat)
           /\ Len(Padded(s, decimals)) = IF Len(s) > decimals THEN Len(s) ELSE decimals + 1
           /\ Number(Padded(s, decimals)) = Number(s)
           /\ Len(s) > decimals => Padded(s, decimals) = s
<1> DEFINE k == decimals + 1 - Len(s)
           z == [i \in 1 .. k |-> 0]
<1>1. k \in Int /\ Len(s) \in Nat /\ s \in Seq(Nat)
  BY DEF Digit
<1>2. CASE k > 0
  <2>1. Padded(s, decimals) = z \o s
    BY <1>2 DEF Padded, Zeros
  <2>2. k \in Nat /\ ~(Len(s) > decimals) /\ k + Len(s) = decimals + 1
    BY <1>1, <1>2
  <2>3. Number(z \o s) = Number(s)
    BY ONLY <1>1, <2>2, ZerosBefore
  <2> HIDE DEF k
  <2>4. z \in Seq(Nat) /\ Len(z) = k
    BY <2>2
  <2> HIDE DEF z
  <2>5. z \o s \in Seq(Nat) /\ Len(z \o s) = k + Len(s)
    BY ONLY <1>1, <2>4
  <2> QED
    BY ONLY <2>1, <2>2, <2>3, <2>5
<1>3. CASE ~(k > 0)
  <2>1. Zeros(k) = << >>
    BY <1>3 DEF Zeros
  <2>2. Padded(s, decimals) = << >> \o s
    BY <2>1 DEF Padded
  <2>3. << >> \o s = s
    BY ONLY <1>1
  <2>4. Len(s) > decimals
    BY <1>1, <1>3
  <2> HIDE DEF k, z
  <2> QED
    BY ONLY <1>1, <2>2, <2>3, <2>4
<1> QED
  BY <1>2, <1>3

\* What format_fpu64_trimmed leaves out is zeros at the end; what is all zeros
\* behind the point is left out whole.
LEMMA TrimmedIs ==
    ASSUME NEW s \in Seq(Digit), NEW decimals \in Nat
    PROVE  LET t == format_fpu64_trimmed(s, decimals)
               p == Padded(s, decimals)
           IN  /\ t.whole \in Seq(Nat) /\ t.frac \in Seq(Nat)
               /\ t.whole \o t.frac \o Zeros(decimals - Len(t.frac)) = p
               /\ TextLength(t) <= Len(p) + 1
               /\ (\A j \in Len(p) - decimals + 1 .. Len(p) : p[j] = 0)
                     => TextLength(t) = Len(p) - decimals
<1> DEFINE t == format_fpu64_trimmed(s, decimals)
           p == Padded(s, decimals)
           point == Len(p) - decimals
           ends == {i \in point .. Len(p) : \A j \in i + 1 .. Len(p) : p[j] = 0}
           last == CHOOSE i \in ends : \A j \in ends : i <= j
<1>1. t = [whole |-> SubSeq(p, 1, point), frac |-> SubSeq(p, point + 1, last)]
  BY DEF format_fpu64_trimmed, Padded
<1>2. p \in Seq(Nat) /\ Len(p) >= decimals + 1
  <2>1. p \in Seq(Nat) /\ Len(p) = IF Len(s) > decimals THEN Len(s) ELSE decimals + 1
    BY PaddedIs
  <2>2. Len(s) \in Nat
    OBVIOUS
  <2> HIDE DEF p
  <2> QED
    BY ONLY <2>1, <2>2, decimals \in Nat
<1> HIDE DEF p
<1>3. Len(p) \in Nat /\ point \in 1 .. Len(p)
  BY <1>2
<1>4. last \in ends /\ \A j \in ends : last <= j
  <2>1. ends \subseteq Nat /\ Len(p) \in ends
    BY <1>3
  <2>2. \E x \in ends : \A y \in ends : x <= y
    <3> HIDE DEF ends
    <3> QED
      BY ONLY <2>1, LeastExists
  <2> HIDE DEF ends
  <2> QED
    BY <2>2
<1>5. last \in point .. Len(p) /\ \A j \in last + 1 .. Len(p) : p[j] = 0
  <2> HIDE DEF last
  <2> QED
    BY <1>4
<1>6. (\A j \in point + 1 .. Len(p) : p[j] = 0) => last = point
  <2> SUFFICES ASSUME \A j \in point + 1 .. Len(p) : p[j] = 0 PROVE last = point
    OBVIOUS
  <2>1. point \in ends
    BY <1>3
  <2> HIDE DEF last
  <2>2. last <= point
    BY <1>4, <2>1
  <2> HIDE DEF ends, point
  <2> QED
    BY ONLY <1>3, <1>5, <2>2
<1> HIDE DEF last, ends
<1> DEFINE w == SubSeq(p, 1, point)
           f == SubSeq(p, point + 1, last)
           z == Zeros(decimals - Len(f))
<1>7. t.whole = w /\ t.frac = f
  <2> HIDE DEF t, w, f
  <2>1. t = [whole |-> w, frac |-> f]
    BY <1>1 DEF w, f
  <2> QED
    BY ONLY <2>1
<1>8. decimals = Len(p) - point
  BY <1>3
<1> HIDE DEF t, point
<1>9. /\ w \in Seq(Nat) /\ Len(w) = point /\ \A i \in 1 .. point : w[i] = p[i]
      /\ f \in Seq(Nat) /\ Len(f) = last - point /\ \A i \in 1 .. last - point : f[i] = p[point + i]
  <2>1. point \in 1 .. Len(p) /\ last \in point .. Len(p) /\ p \in Seq(Nat) /\ Len(p) \in Nat
    BY <1>2, <1>3, <1>5
  <2>2. /\ \A i \in 1 .. point : p[i] \in Nat
        /\ \A i \in point + 1 .. last : p[i] \in Nat
    BY ONLY <2>1
  <2>3. 1 \in Int /\ point \in Int /\ last \in Int /\ point + 1 \in Int
    BY ONLY <2>1
  <2>4. /\ w \in Seq(Nat) /\ Len(w) = (IF 1 <= point THEN point - 1 + 1 ELSE 0)
        /\ \A i \in 1 .. point - 1 + 1 : w[i] = p[1 + i - 1]
    BY ONLY <2>2, <2>3, SubSeqProperties
  <2> DEFINE m == point + 1
  <2>5. m \in Int /\ \A i \in m .. last : p[i] \in Nat
    BY <2>2, <2>3
  <2>6. f = SubSeq(p, m, last)
    OBVIOUS
  <2> HIDE DEF w, f, m
  <2>7. /\ f \in Seq(Nat) /\ Len(f) = (IF m <= last THEN last - m + 1 ELSE 0)
        /\ \A i \in 1 .. last - m + 1 : f[i] = p[m + i - 1]
    BY ONLY <2>3, <2>5, <2>6, SubSeqProperties
  <2>8. m = point + 1
    BY DEF m
  <2>9. w \in Seq(Nat) /\ Len(w) = point /\ \A i \in 1 .. point : w[i] = p[i]
    BY ONLY <2>1, <2>4
  <2>10. f \in Seq(Nat) /\ Len(f) = last - point /\ \A i \in 1 .. last - point : f[i] = p[point + i]
    BY ONLY <2>1, <2>7, <2>8
  <2> QED
    BY ONLY <2>9, <2>10
<1> HIDE DEF w, f
<1>10. decimals - Len(f) = Len(p) - last
  BY <1>3, <1>5, <1>8, <1>9
<1>11. z \in Seq(Nat) /\ Len(z) = Len(p) - last /\ \A i \in 1 .. Len(p) - last : z[i] = 0
  <2> DEFINE m == Len(p) - last
  <2>1. m \in Nat
    BY ONLY <1>3, <1>5
  <2>2. z = Zeros(m)
    BY <1>10
  <2> HIDE DEF m, z
  <2>3. z \in Seq(Nat) /\ Len(z) = m /\ \A i \in 1 .. m : z[i] = 0
    BY ONLY <2>1, <2>2 DEF Zeros
  <2> QED
    BY <2>3 DEF m
<1> HIDE DEF z
<1>12. (w \o f) \o z = p
  <2>1. point \in 1 .. Len(p) /\ last \in point .. Len(p) /\ Len(p) \in Nat
    BY <1>3, <1>5
  <2> DEFINE a == w \o f
             b == a \o z
  <2>2. /\ a \in Seq(Nat) /\ Len(a) = Len(w) + Len(f)
        /\ \A i \in 1 .. Len(w) + Len(f) : a[i] = IF i <= Len(w) THEN w[i] ELSE f[i - Len(w)]
    BY ONLY <1>9, ConcatProperties
  <2> HIDE DEF a
  <2>3. /\ b \in Seq(Nat) /\ Len(b) = Len(a) + Len(z)
        /\ \A i \in 1 .. Len(a) + Len(z) : b[i] = IF i <= Len(a) THEN a[i] ELSE z[i - Len(a)]
    BY ONLY <1>11, <2>2, ConcatProperties
  <2> HIDE DEF b
  <2>4. Len(a) = last /\ Len(b) = Len(p)
    BY ONLY <1>9, <1>11, <2>1, <2>2, <2>3
  <2>5. \A i \in 1 .. last : a[i] = IF i <= point THEN w[i] ELSE f[i - point]
    BY ONLY <1>9, <2>1, <2>2
  <2>6. \A i \in 1 .. Len(p) : b[i] = IF i <= last THEN a[i] ELSE z[i - last]
    BY ONLY <1>11, <2>1, <2>3, <2>4
  <2>7. ASSUME NEW i \in 1 .. Len(p) PROVE b[i] = p[i]
    <3>1. CASE i <= point
      <4>1. i \in 1 .. last /\ i \in 1 .. point /\ i <= last
        BY ONLY <2>1, <3>1, i \in 1 .. Len(p)
      <4> QED
        BY <1>9, <2>5, <2>6, <3>1, <4>1
    <3>2. CASE i > point /\ i <= last
      <4>1. i \in 1 .. last /\ i - point \in 1 .. last - point /\ point + (i - point) = i /\ ~(i <= point)
        BY ONLY <2>1, <3>2, i \in 1 .. Len(p)
      <4>2. a[i] = f[i - point] /\ b[i] = a[i]
        BY <2>5, <2>6, <3>2, <4>1
      <4>3. f[i - point] = p[point + (i - point)]
        BY <1>9, <4>1
      <4> QED
        BY <4>1, <4>2, <4>3
    <3>3. CASE i > last
      <4>1. i - last \in 1 .. Len(p) - last /\ i \in last + 1 .. Len(p) /\ ~(i <= last)
        BY ONLY <2>1, <3>3, i \in 1 .. Len(p)
      <4>2. b[i] = z[i - last]
        BY <2>6, <4>1
      <4> QED
        BY <1>5, <1>11, <4>1, <4>2
    <3> QED
      BY <2>1, <3>1, <3>2, <3>3
  <2>8. b = p
    BY ONLY <1>2, <2>3, <2>4, <2>7, SeqEqual
  <2> QED
    BY <2>8 DEF a, b
<1>13. TextLength(t) <= Len(p) + 1 /\ (last = point => TextLength(t) = point)
  <2>1. TextLength(t) = Len(w) + (IF f = << >> THEN 0 ELSE 1 + Len(f))
    BY <1>7, Zenon DEF TextLength
  <2>2. last = point => f = << >>
    BY <1>3, <1>9
  <2> QED
    BY <1>3, <1>5, <1>9, <2>1, <2>2
<1>14. (\A j \in Len(p) - decimals + 1 .. Len(p) : p[j] = 0) => TextLength(t) = Len(p) - decimals
  BY <1>6, <1>13 DEF point
<1>15. t.whole \o t.frac \o Zeros(decimals - Len(t.frac)) = p
  BY <1>7, <1>12 DEF z
<1>16. t.whole \in Seq(Nat) /\ t.frac \in Seq(Nat)
  BY <1>7, <1>9
<1> QED
  BY <1>13, <1>14, <1>15, <1>16 DEF t, p

\* What is shown with a point reads back.
LEMMA TrimmedReadsBack ==
    ASSUME NEW s \in Seq(Digit), NEW decimals \in Nat
    PROVE  ReadAs(format_fpu64_trimmed(s, decimals), decimals) = Number(s)
<1> DEFINE t == format_fpu64_trimmed(s, decimals)
<1>1. t.whole \o t.frac \o Zeros(decimals - Len(t.frac)) = Padded(s, decimals)
  BY TrimmedIs
<1>2. Number(Padded(s, decimals)) = Number(s)
  BY PaddedIs
<1> HIDE DEF t
<1>3. ReadAs(t, decimals) = Number(s)
  BY <1>1, <1>2 DEF ReadAs
<1> QED
  BY <1>3 DEF t

-----------------------------------------------------------------------------
(* How long texts become. *)

\* A number is a digit longer than its tenth.
LEMMA LongerByOne ==
    ASSUME NEW n \in Nat, NEW k \in Nat, Len(Digits[n \div 10]) <= k, k >= 1
    PROVE  Len(Digits[n]) <= k + 1
<1>1. CASE n < 10
  <2>1. Digits[n] = <<n>>
    BY <1>1, OneDigit
  <2>2. Len(<<n>>) = 1
    OBVIOUS
  <2> QED
    BY <2>1, <2>2
<1>2. CASE n >= 10
  <2> DEFINE m == n \div 10
             d == n % 10
  <2>1. Digits[n] = Append(Digits[m], d)
    BY <1>2, MoreDigits
  <2>2. m \in Nat
    OBVIOUS
  <2> HIDE DEF m, d
  <2>3. Digits[m] \in Seq(Digit)
    BY <2>2, DigitsType
  <2>4. Len(Append(Digits[m], d)) = Len(Digits[m]) + 1 /\ Len(Digits[m]) \in Nat
    BY ONLY <2>3
  <2> QED
    BY <2>1, <2>4 DEF m
<1> QED
  BY <1>1, <1>2

\* A number below 10^5 has five digits at most.
LEMMA FiveDigits == ASSUME NEW n \in Nat, n < 100000 PROVE Len(Digits[n]) <= 5
<1>1. \A m \in Nat : m < 10 => Len(Digits[m]) <= 1
  <2> SUFFICES ASSUME NEW m \in Nat, m < 10 PROVE Len(Digits[m]) <= 1
    OBVIOUS
  <2>1. Digits[m] = <<m>>
    BY OneDigit
  <2>2. Len(<<m>>) = 1
    OBVIOUS
  <2> QED
    BY <2>1, <2>2
<1>2. \A m \in Nat : m < 100 => Len(Digits[m]) <= 2
  <2> SUFFICES ASSUME NEW m \in Nat, m < 100 PROVE Len(Digits[m]) <= 1 + 1
    OBVIOUS
  <2>1. m \div 10 \in Nat /\ m \div 10 < 10
    OBVIOUS
  <2> QED
    BY <1>1, <2>1, LongerByOne
<1>3. \A m \in Nat : m < 1000 => Len(Digits[m]) <= 3
  <2> SUFFICES ASSUME NEW m \in Nat, m < 1000 PROVE Len(Digits[m]) <= 2 + 1
    OBVIOUS
  <2>1. m \div 10 \in Nat /\ m \div 10 < 100
    OBVIOUS
  <2> QED
    BY <1>2, <2>1, LongerByOne
<1>4. \A m \in Nat : m < 10000 => Len(Digits[m]) <= 4
  <2> SUFFICES ASSUME NEW m \in Nat, m < 10000 PROVE Len(Digits[m]) <= 3 + 1
    OBVIOUS
  <2>1. m \div 10 \in Nat /\ m \div 10 < 1000
    OBVIOUS
  <2> QED
    BY <1>3, <2>1, LongerByOne
<1>5. n \div 10 \in Nat /\ n \div 10 < 10000
  OBVIOUS
<1>6. Len(Digits[n]) <= 4 + 1
  BY <1>4, <1>5, LongerByOne
<1> QED
  BY <1>6

\* The one rate of six digits ends in zeros.
LEMMA Digits100000 ==
    Len(Digits[100000]) = 6 /\ \A j \in 4 .. 6 : Digits[100000][j] = 0
<1> DEFINE Ends(n, k) == Len(Digits[n]) = k /\ \A j \in 4 .. k : Digits[n][j] = 0
<1>1. ASSUME NEW n \in Nat, NEW m \in Nat, m >= 10, m \div 10 = n, m % 10 = 0,
             NEW k \in Nat, Ends(n, k)
      PROVE  Ends(m, k + 1)
  <2> DEFINE s == Digits[n]
             t == Append(s, 0)
  <2>1. Digits[m] = t
    BY <1>1, MoreDigits
  <2>2. s \in Seq(Nat) /\ Len(s) = k /\ \A j \in 4 .. k : s[j] = 0
    <3>1. s \in Seq(Digit)
      BY DigitsType
    <3> QED
      BY <1>1, <3>1 DEF Digit
  <2> HIDE DEF s
  <2>3. Len(t) = k + 1 /\ t[k + 1] = 0 /\ \A j \in 1 .. k : t[j] = s[j]
    BY ONLY <2>2, k \in Nat
  <2>4. \A j \in 4 .. k + 1 : t[j] = 0
    BY ONLY <2>2, <2>3, k \in Nat
  <2> QED
    BY <2>1, <2>3, <2>4
<1>2. Ends(1, 1)
  <2>1. Digits[1] = <<1>> /\ Len(<<1>>) = 1
    BY OneDigit
  <2> QED
    BY <2>1
<1> HIDE DEF Ends
<1>3. Ends(10, 2)
  <2>1. 10 \div 10 = 1 /\ 10 % 10 = 0 /\ 10 \in Nat /\ 10 >= 10
    OBVIOUS
  <2>2. 1 + 1 = 2 /\ 1 \in Nat /\ 1 \in Nat
    OBVIOUS
  <2> QED
    BY ONLY <1>1, <1>2, <2>1, <2>2
<1>4. Ends(100, 3)
  <2>1. 100 \div 10 = 10 /\ 100 % 10 = 0 /\ 100 \in Nat /\ 100 >= 10
    OBVIOUS
  <2>2. 2 + 1 = 3 /\ 2 \in Nat /\ 10 \in Nat
    OBVIOUS
  <2> QED
    BY ONLY <1>1, <1>3, <2>1, <2>2
<1>5. Ends(1000, 4)
  <2>1. 1000 \div 10 = 100 /\ 1000 % 10 = 0 /\ 1000 \in Nat /\ 1000 >= 10
    OBVIOUS
  <2>2. 3 + 1 = 4 /\ 3 \in Nat /\ 100 \in Nat
    OBVIOUS
  <2> QED
    BY ONLY <1>1, <1>4, <2>1, <2>2
<1>6. Ends(10000, 5)
  <2>1. 10000 \div 10 = 1000 /\ 10000 % 10 = 0 /\ 10000 \in Nat /\ 10000 >= 10
    OBVIOUS
  <2>2. 4 + 1 = 5 /\ 4 \in Nat /\ 1000 \in Nat
    OBVIOUS
  <2> QED
    BY ONLY <1>1, <1>5, <2>1, <2>2
<1>7. Ends(100000, 6)
  <2>1. 100000 \div 10 = 10000 /\ 100000 % 10 = 0 /\ 100000 \in Nat /\ 100000 >= 10
    OBVIOUS
  <2>2. 5 + 1 = 6 /\ 5 \in Nat /\ 10000 \in Nat
    OBVIOUS
  <2> QED
    BY ONLY <1>1, <1>6, <2>1, <2>2
<1> QED
  BY <1>7 DEF Ends

\* The length of a text is a number.
LEMMA TextLengthType ==
    ASSUME NEW s \in Seq(Digit), NEW decimals \in Nat
    PROVE  TextLength(format_fpu64_trimmed(s, decimals)) \in Nat
<1> DEFINE t == format_fpu64_trimmed(s, decimals)
<1>1. t.whole \in Seq(Nat) /\ t.frac \in Seq(Nat)
  BY TrimmedIs, Zenon
<1> HIDE DEF t
<1>2. Len(t.whole) \in Nat /\ Len(t.frac) \in Nat
  BY ONLY <1>1
<1>3. TextLength(t) \in Nat
  <2> DEFINE w == t.whole
             f == t.frac
  <2>1. TextLength(t) = Len(w) + (IF f = << >> THEN 0 ELSE 1 + Len(f))
    BY Zenon DEF TextLength
  <2>2. Len(w) \in Nat /\ Len(f) \in Nat
    BY <1>2
  <2> HIDE DEF t, w, f
  <2> QED
    BY ONLY <2>1, <2>2
<1> QED
  BY <1>3 DEF t

\* The point and one digit before it, at most, are added to the digits.
LEMMA TextLengthIs ==
    ASSUME NEW s \in Seq(Digit), NEW decimals \in Nat, NEW most \in Nat,
           Len(s) <= most, decimals < most
    PROVE  TextLength(format_fpu64_trimmed(s, decimals)) <= most + 1
<1>1. TextLength(format_fpu64_trimmed(s, decimals)) <= Len(Padded(s, decimals)) + 1
  BY TrimmedIs
<1>2. Len(Padded(s, decimals)) = IF Len(s) > decimals THEN Len(s) ELSE decimals + 1
  BY PaddedIs
<1>3. Len(s) \in Nat
  OBVIOUS
<1> DEFINE p == Padded(s, decimals)
           x == TextLength(format_fpu64_trimmed(s, decimals))
<1>4. x <= Len(p) + 1 /\ Len(p) \in Nat /\ Len(p) <= most /\ x \in Int
  <2>1. Len(p) \in Nat /\ Len(p) <= most
    <3>1. Len(p) = IF Len(s) > decimals THEN Len(s) ELSE decimals + 1
      BY <1>2, Zenon
    <3> HIDE DEF p
    <3> QED
      BY <1>3, <3>1
  <2>2. x \in Nat
    BY TextLengthType, Zenon
  <2>3. x <= Len(p) + 1
    BY <1>1, Zenon
  <2> HIDE DEF p, x
  <2> QED
    BY ONLY <2>1, <2>2, <2>3
<1> HIDE DEF p, x
<1>5. x <= most + 1
  BY ONLY <1>4, most \in Nat
<1> QED
  BY <1>5 DEF x

\* The line ends between lines of sixteen digits: one behind each eighth byte, but
\* for the last.
LEMMA HexWrittenIs ==
    ASSUME NEW len \in 1 .. 255 PROVE HexWritten(len) = 2 * len + (len - 1) \div 8 + 1
<1> DEFINE End(i) == IF (2 * i) % HEX_PAGINATION_WIDTH = 0 /\ i # len THEN 1 ELSE 0
           Solution(g) == g = [i \in 0 .. len |-> IF i = 0 THEN 0 ELSE g[i - 1] + End(i)]
           h == [i \in 0 .. len |-> IF i = len THEN (len - 1) \div 8 ELSE i \div 8]
<1>1. len \in Nat /\ len >= 1 /\ len <= 255
  OBVIOUS
<1>2. \A i \in 1 .. len : End(i) = IF i % 8 = 0 /\ i # len THEN 1 ELSE 0
  BY DEF HEX_PAGINATION_WIDTH
<1>3. Solution(h)
  <2> DEFINE f == [i \in 0 .. len |-> IF i = 0 THEN 0 ELSE h[i - 1] + End(i)]
  <2> HIDE DEF End
  <2>1. ASSUME NEW i \in 0 .. len PROVE h[i] = f[i]
    <3>1. CASE i = 0
      BY <3>1
    <3>2. CASE i \in 1 .. len /\ i # len
      <4>1. h[i] = i \div 8 /\ h[i - 1] = (i - 1) \div 8
        BY <3>2
      <4>2. f[i] = (i - 1) \div 8 + (IF i % 8 = 0 THEN 1 ELSE 0)
        <5> HIDE DEF h
        <5> QED
          BY <1>2, <3>2, <4>1
      <4>3. i \div 8 = (i - 1) \div 8 + (IF i % 8 = 0 THEN 1 ELSE 0)
        BY ONLY <3>2, len \in 1 .. 255
      <4> QED
        BY <4>1, <4>2, <4>3
    <3>3. CASE i = len
      <4>1. h[i] = (len - 1) \div 8 /\ h[i - 1] = (i - 1) \div 8
        BY <3>3
      <4>2. f[i] = (i - 1) \div 8 + 0
        <5>1. End(i) = 0
          BY <1>2, <3>3
        <5> HIDE DEF h
        <5> QED
          BY <3>3, <4>1, <5>1
      <4> QED
        BY <3>3, <4>1, <4>2
    <3> QED
      BY <3>1, <3>2, <3>3
  <2>2. DOMAIN h = 0 .. len /\ DOMAIN f = 0 .. len /\ h = [i \in 0 .. len |-> h[i]]
        /\ f = [i \in 0 .. len |-> f[i]]
    OBVIOUS
  <2>3. h = f
    <3> HIDE DEF h, f
    <3> QED
      BY ONLY <2>1, <2>2
  <2> QED
    BY <2>3
<1> HIDE DEF h
<1>4. PICK g : Solution(g) /\ HexWritten(len) = 2 * len + (g[len] % 256) + 1
  <2> HIDE DEF Solution
  <2>1. Solution(CHOOSE g : Solution(g))
    BY <1>3
  <2>2. HexWritten(len) = 2 * len + ((CHOOSE g : Solution(g))[len] % 256) + 1
    BY DEF HexWritten, Solution, End
  <2> QED
    BY <2>1, <2>2
<1> HIDE DEF End
<1>5. /\ \A i \in 0 .. len : g[i] = IF i = 0 THEN 0 ELSE g[i - 1] + End(i)
      /\ \A i \in 0 .. len : h[i] = IF i = 0 THEN 0 ELSE h[i - 1] + End(i)
  BY <1>3, <1>4, Zenon
<1>6. g[len] = h[len]
  <2> HIDE DEF Solution
  <2> DEFINE Good == {i \in Nat : i <= len => g[i] = h[i]}
  <2>1. 0 \in Good
    BY <1>5
  <2>2. ASSUME NEW i \in Nat, i \in Good PROVE i + 1 \in Good
    <3> SUFFICES ASSUME i + 1 <= len PROVE g[i + 1] = h[i + 1]
      OBVIOUS
    <3>1. i + 1 \in 0 .. len /\ i + 1 # 0 /\ (i + 1) - 1 = i /\ g[i] = h[i]
      BY <2>2
    <3> QED
      BY <1>5, <3>1
  <2>3. Nat \subseteq Good
    BY <2>1, <2>2, SetInduction
  <2> QED
    BY <1>1, <2>3
<1>7. h[len] = (len - 1) \div 8
  BY <1>1 DEF h
<1>8. ((len - 1) \div 8) % 256 = (len - 1) \div 8
  BY ONLY <1>1
<1> QED
  BY <1>4, <1>6, <1>7, <1>8

\* Lines of hex take the room that is asked for, and no less.
LEMMA HexFits == ASSUME NEW len \in 1 .. 255 PROVE HexWritten(len) <= HexRoom(len)
<1>1. (len - 1) \div 8 = (2 * len - 1) \div 16
  OBVIOUS
<1> QED
  BY <1>1, HexWrittenIs DEF HexRoom, HEX_PAGINATION_WIDTH

\* Three digits read as hundreds, tens and ones.
LEMMA ThreeDigits ==
    ASSUME NEW a \in Nat, NEW b \in Nat, NEW c \in Nat
    PROVE  Number(<<a, b, c>>) = 100 * a + 10 * b + c /\ Len(<<a, b, c>>) = 3
<1> DEFINE s == <<a, b, c>>
           f == [i \in 0 .. 3 |-> CASE i = 0 -> 0 [] i = 1 -> a [] i = 2 -> 10 * a + b
                                    [] i = 3 -> 100 * a + 10 * b + c]
<1>1. s \in Seq(Nat) /\ Len(s) = 3 /\ s[1] = a /\ s[2] = b /\ s[3] = c
  OBVIOUS
<1>2. f[0] = 0 /\ f[1] = a /\ f[2] = 10 * a + b /\ f[3] = 100 * a + 10 * b + c
  OBVIOUS
<1>3. f \in [0 .. 3 -> Nat]
  <2>1. \A i \in 0 .. 3 : f[i] \in Nat
    <3>1. /\ 10 * a + b \in Nat /\ 100 * a + 10 * b + c \in Nat
      OBVIOUS
    <3> HIDE DEF f
    <3> QED
      BY <1>2, <3>1
  <2> QED
    BY <2>1
<1> HIDE DEF f, s
<1>4. \A i \in 1 .. 3 : f[i] = 10 * f[i - 1] + s[i]
  <2>1. f[1] = 10 * f[0] + s[1] /\ f[2] = 10 * f[1] + s[2] /\ f[3] = 10 * f[2] + s[3]
    BY ONLY <1>1, <1>2, a \in Nat, b \in Nat, c \in Nat
  <2> QED
    BY ONLY <2>1
<1>5. Reads(f, s)
  BY <1>1, <1>2, <1>3, <1>4 DEF Reads
<1>6. Number(s) = f[3]
  BY <1>1, <1>5, NumberIs
<1> QED
  BY <1>1, <1>2, <1>6 DEF s

-----------------------------------------------------------------------------
(* What is shown reads back. *)

\* Below 128 the int8_t does not wrap.
LEMMA TokenExponentIs == ASSUME NEW raw \in 0 .. 127 PROVE -TokenExponent(raw) = raw + 1
  BY DEF TokenExponent

\* A rate reads back.
LEMMA PercentageReadsBack ==
    ASSUME NEW n \in Nat PROVE ReadAs(fraction_to_percentage_display(n), 3) = n
<1>1. Digits[n] \in Seq(Digit) /\ Number(Digits[n]) = n
  BY DigitsType, DigitsReadBack
<1>2. ReadAs(format_fpu64_trimmed(Digits[n], 3), 3) = Number(Digits[n])
  BY <1>1, TrimmedReadsBack
<1> QED
  BY <1>1, <1>2 DEF fraction_to_percentage_display, PERCENTAGE_DECIMAL_PLACES

\* So does a token amount.
LEMMA TokenAmountReadsBack ==
    ASSUME NEW n \in Nat, NEW raw \in 0 .. 127
    PROVE  ReadAs(plt_amount_to_display(Digits[n], raw), raw + 1) = n
<1>1. Digits[n] \in Seq(Digit) /\ Number(Digits[n]) = n
  BY DigitsType, DigitsReadBack
<1>2. raw + 1 \in Nat /\ -TokenExponent(raw) = raw + 1
  BY TokenExponentIs
<1>3. ReadAs(format_fpu64_trimmed(Digits[n], raw + 1), raw + 1) = Number(Digits[n])
  BY <1>1, <1>2, TrimmedReadsBack
<1> QED
  BY <1>1, <1>2, <1>3 DEF plt_amount_to_display

\* So does a negative integer, where n + 1 no longer fits as well.
LEMMA NegativeReadsBack ==
    ASSUME NEW n \in Nat, NEW most \in Nat
    PROVE  NegativeValue(NegativeText(n, most)) = -1 - n
<1>1. Number(Digits[n]) = n /\ Number(Digits[n + 1]) = n + 1
  BY DigitsReadBack
<1>2. CASE n = most
  <2>1. NegativeText(n, most) = [digits |-> Digits[n], lessOne |-> TRUE]
    BY <1>2 DEF NegativeText
  <2> QED
    BY <1>1, <2>1 DEF NegativeValue
<1>3. CASE n # most
  <2>1. NegativeText(n, most) = [digits |-> Digits[n + 1], lessOne |-> FALSE]
    BY <1>3 DEF NegativeText
  <2> QED
    BY <1>1, <2>1 DEF NegativeValue
<1> QED
  BY <1>2, <1>3

\* Every argument has one count that is let through: the shortest that carries it.
LEMMA OneEncoding ==
    ASSUME NEW n \in Nat
    PROVE  \E count \in ShortCounts :
              {c \in ShortCounts : Carries(c, n) /\ cbor_argument_is_canonical(c, n)} = {count}
<1> DEFINE Let(c) == Carries(c, n) /\ cbor_argument_is_canonical(c, n)
<1>1. /\ Let("inline") <=> n < 24
      /\ Let("one_byte") <=> n < 256 /\ n > 23
      /\ Let("two_bytes") <=> n < 65536 /\ n > 255
      /\ Let("four_bytes") <=> n > 65535
  BY DEF Carries, cbor_argument_is_canonical
<1> HIDE DEF Let
<1> SUFFICES \E count \in ShortCounts : \A c \in ShortCounts : Let(c) <=> c = count
  <2>1. \A c : Carries(c, n) /\ cbor_argument_is_canonical(c, n) <=> Let(c)
    BY DEF Let
  <2> QED
    BY <2>1
<1>2. CASE n < 24
  <2>1. \A c \in ShortCounts : Let(c) <=> c = "inline"
    BY <1>1, <1>2 DEF ShortCounts
  <2> QED
    BY <2>1 DEF ShortCounts
<1>3. CASE n > 23 /\ n < 256
  <2>1. \A c \in ShortCounts : Let(c) <=> c = "one_byte"
    BY <1>1, <1>3 DEF ShortCounts
  <2> QED
    BY <2>1 DEF ShortCounts
<1>4. CASE n > 255 /\ n < 65536
  <2>1. \A c \in ShortCounts : Let(c) <=> c = "two_bytes"
    BY <1>1, <1>4 DEF ShortCounts
  <2> QED
    BY <2>1 DEF ShortCounts
<1>5. CASE n > 65535
  <2>1. \A c \in ShortCounts : Let(c) <=> c = "four_bytes"
    BY <1>1, <1>5 DEF ShortCounts
  <2> QED
    BY <2>1 DEF ShortCounts
<1> QED
  BY <1>2, <1>3, <1>4, <1>5

\* Whatever the number, what format_fpu64_trimmed, appendMilliseconds and
\* parse_complete_cbor write of it reads back, and cbor_argument_is_canonical lets
\* one encoding of it through.
THEOREM NumbersReadBackAlways == AlgorithmsSpec => []NumbersReadBack
<1>1. DateInv => NumbersReadBack
  <2> SUFFICES ASSUME DateInv PROVE NumbersReadBack
    OBVIOUS
  <2>1. day \in Nat
    BY DEF DateInv
  <2>2. ReadAs(fraction_to_percentage_display(day), 3) = day
    BY <2>1, PercentageReadsBack
  <2>3. \A raw \in 0 .. 2 : -TokenExponent(raw) = raw + 1
                            /\ ReadAs(plt_amount_to_display(Digits[day], raw), raw + 1) = day
    <3> SUFFICES ASSUME NEW raw \in 0 .. 2
                 PROVE  -TokenExponent(raw) = raw + 1
                        /\ ReadAs(plt_amount_to_display(Digits[day], raw), raw + 1) = day
      OBVIOUS
    <3>1. raw \in 0 .. 127
      OBVIOUS
    <3> QED
      BY <2>1, <3>1, TokenExponentIs, TokenAmountReadsBack
  <2>4. day <= 999 => Number(Milliseconds(day)) = day /\ Len(Milliseconds(day)) = 3
    <3> DEFINE a == day \div 100
               b == (day \div 10) % 10
               c == day % 10
    <3>1. a \in Nat /\ b \in Nat /\ c \in Nat /\ day = 100 * a + 10 * b + c
      BY <2>1
    <3>2. Milliseconds(day) = <<a, b, c>>
      BY DEF Milliseconds
    <3> HIDE DEF a, b, c
    <3> QED
      BY <3>1, <3>2, ThreeDigits
  <2>5. \A most \in {255, 65535} : day <= most => NegativeValue(NegativeText(day, most)) = -1 - day
    BY <2>1, NegativeReadsBack
  <2>6. \E count \in ShortCounts :
           {c \in ShortCounts : Carries(c, day) /\ cbor_argument_is_canonical(c, day)} = {count}
    BY <2>1, OneEncoding
  <2> QED
    BY <2>2, <2>3, <2>4, <2>5, <2>6 DEF NumbersReadBack
<1> QED
  BY DateCorrect, <1>1, PTL

-----------------------------------------------------------------------------
(* What is shown has room. *)

\* The years shown have five digits at most.
LEMMA YearFits ==
    ASSUME NEW y \in Int, y > 0, y <= 9999 PROVE Len(Digits[y + 1900]) <= 5
<1>1. y + 1900 \in Nat /\ y + 1900 < 100000
  OBVIOUS
<1> QED
  BY ONLY <1>1, FiveDigits

\* A rate fits: six digits only with zeros that are trimmed.
LEMMA EveryPercentageFits ==
    ASSUME NEW n \in Nat, n <= MAX_PERCENTAGE_NUMERATOR PROVE PercentageFits(n)
<1> DEFINE x == TextLength(format_fpu64_trimmed(Digits[n], 3))
<1>1. Digits[n] \in Seq(Digit) /\ Len(Digits[n]) \in Nat
  BY DigitsType
<1>2. CASE n < 100000
  <2>1. Len(Digits[n]) <= 5
    BY <1>2, FiveDigits
  <2>2. x <= 5 + 1
    BY <1>1, <2>1, TextLengthIs
  <2> HIDE DEF x
  <2>3. x + 2 <= 8
    <3>1. x \in Nat
      BY ONLY <1>1, 3 \in Nat, TextLengthType DEF x
    <3> QED
      BY ONLY <2>2, <3>1
  <2> QED
    BY <2>3 DEF x, PercentageFits, fraction_to_percentage_display, PERCENTAGE_DECIMAL_PLACES,
                COMMON_COMMISSION_SIZE
<1>3. CASE n = 100000
  <2> DEFINE p == Padded(Digits[n], 3)
  <2>1. Len(Digits[n]) = 6 /\ \A j \in 4 .. 6 : Digits[n][j] = 0
    BY <1>3, Digits100000
  <2>2. p = Digits[n]
    BY <1>1, <2>1, PaddedIs
  <2>3. Len(p) = 6 /\ \A j \in Len(p) - 3 + 1 .. Len(p) : p[j] = 0
    BY ONLY <2>1, <2>2
  <2>4. (\A j \in Len(p) - 3 + 1 .. Len(p) : p[j] = 0) => x = Len(p) - 3
    BY <1>1, TrimmedIs
  <2> HIDE DEF x, p
  <2>5. x = 3
    BY <2>3, <2>4
  <2> QED
    BY <2>5 DEF x, PercentageFits, fraction_to_percentage_display, PERCENTAGE_DECIMAL_PLACES,
                COMMON_COMMISSION_SIZE
<1> QED
  BY <1>2, <1>3 DEF MAX_PERCENTAGE_NUMERATOR

\* A text of twenty digits and less than twenty decimals has 21 characters at most.
LEMMA WidestFits ==
    ASSUME NEW n \in 1 .. UINT64_DIGITS, NEW decimals \in 0 .. 18
    PROVE  TextLength(format_fpu64_trimmed(Nines(n), decimals)) \in 0 .. 21
<1>1. n \in Nat /\ n <= 20
  BY DEF UINT64_DIGITS
<1>2. Nines(n) \in Seq(Digit) /\ Len(Nines(n)) = n
  <2>1. 9 \in Digit
    BY DEF Digit
  <2> QED
    BY <1>1, <2>1 DEF Nines
<1>3. TextLength(format_fpu64_trimmed(Nines(n), decimals)) <= 20 + 1
  <2>1. decimals \in Nat /\ decimals < 20 /\ 20 \in Nat
    OBVIOUS
  <2> QED
    BY ONLY <1>1, <1>2, <2>1, TextLengthIs
<1>4. TextLength(format_fpu64_trimmed(Nines(n), decimals)) \in Nat
  <2>1. decimals \in Nat
    OBVIOUS
  <2> QED
    BY ONLY <1>2, <2>1, TextLengthType
<1> QED
  BY ONLY <1>3, <1>4

\* The widest amounts fit, with every exponent that is shown.
LEMMA EveryAmountFits ==
    ASSUME NEW n \in 1 .. UINT64_DIGITS
    PROVE  /\ AmountFits(Nines(n))
           /\ \A raw \in 0 .. 255 : ExponentIsShown(raw) => TokenAmountFits(Nines(n), raw)
<1>1. AmountFits(Nines(n))
  <2>1. TextLength(format_fpu64_trimmed(Nines(n), 6)) \in 0 .. 21
    BY WidestFits
  <2> QED
    BY <2>1 DEF AmountFits, amount_to_ccd_display, CCD_DECIMAL_PLACES, FPU64_TMP_LEN,
                COMMON_AMOUNT_DISPLAY_SIZE
<1>2. ASSUME NEW raw \in 0 .. 255, ExponentIsShown(raw) PROVE TokenAmountFits(Nines(n), raw)
  <2>1. raw \in 0 .. 127
    BY <1>2 DEF ExponentIsShown, PLT_AMOUNT_EXPONENT_RAW_MAX
  <2>2. -TokenExponent(raw) = raw + 1 /\ raw + 1 \in 0 .. 18
    BY <1>2, <2>1, TokenExponentIs DEF ExponentIsShown, PLT_AMOUNT_MIN_EXPONENT, TokenExponent
  <2>3. TextLength(format_fpu64_trimmed(Nines(n), raw + 1)) \in 0 .. 21
    BY ONLY <2>2, n \in 1 .. UINT64_DIGITS, WidestFits
  <2> QED
    BY <2>2, <2>3 DEF TokenAmountFits, plt_amount_to_display, FPU64_TMP_LEN,
                      PLT_AMOUNT_DISPLAY_SIZE, PLT_TOKEN_ID_MAX
<1> QED
  BY <1>1, <1>2

\* Whatever the day, the rate, the amount and its exponent, the key or the path,
\* what the handlers let through fits the buffer that it is written to.
THEOREM TextsFitTheirBuffersAlways == AlgorithmsSpec => []TextsFitTheirBuffers
<1>1. DateInv => TextsFitTheirBuffers
  <2> SUFFICES ASSUME DateInv PROVE TextsFitTheirBuffers
    OBVIOUS
  <2>1. day \in Nat /\ day \in Int /\ IsDateOf(civil, day)
    BY DEF DateInv
  <2>2. YearIsShown(secondsToTm(day, 0)) => TimestampLength(secondsToTm(day, 0)) + 4 + 1 <= 25
    <3> DEFINE tm == secondsToTm(day, 0)
               y == tm.tm_year
    <3>1. 0 \in 0 .. SecsPerDay - 1
      BY DEF SecsPerDay
    <3>2. y \in Int
      BY ONLY <2>1, <3>1, DateShown
    <3> SUFFICES ASSUME YearIsShown(tm) PROVE TimestampLength(tm) + 4 + 1 <= 25
      OBVIOUS
    <3> HIDE DEF tm
    <3>4. y > 0 /\ y <= 9999
      BY DEF YearIsShown
    <3>5. TimestampLength(tm) = Len(Digits[y + 1900]) + 5 * 3
      BY DEF TimestampLength
    <3> HIDE DEF y
    <3>6. Len(Digits[y + 1900]) <= 5 /\ y + 1900 \in Nat
      BY ONLY <3>2, <3>4, YearFits
    <3>7. Len(Digits[y + 1900]) \in Nat
      <4>1. Digits[y + 1900] \in Seq(Digit)
        BY ONLY <3>6, DigitsType
      <4> QED
        BY ONLY <4>1
    <3> QED
      BY ONLY <3>5, <3>6, <3>7
  <2>3. day <= MAX_PERCENTAGE_NUMERATOR => PercentageFits(day)
    BY <2>1, EveryPercentageFits
  <2>4. day \in 1 .. UINT64_DIGITS =>
           /\ AmountFits(Nines(day))
           /\ \A raw \in 0 .. 255 : ExponentIsShown(raw) => TokenAmountFits(Nines(day), raw)
    BY EveryAmountFits
  <2>5. day \in 1 .. 255 => HexWritten(day) <= HexRoom(day)
    BY HexFits
  <2>6. HexRoom(32) <= 68 /\ HexRoom(48) <= 102
    BY DEF HexRoom, HEX_PAGINATION_WIDTH
  <2>7. FullPathLength(DERIVATION_PATH_NODES_MAX) < VERIFY_ADDRESS_PATH_DISPLAY_SIZE
    BY DEF FullPathLength, DERIVATION_PATH_NODES_MAX, VERIFY_ADDRESS_PATH_DISPLAY_SIZE, UINT31_DIGITS
  <2>8. \A row \in DecimalRoom : row.needs <= row.has
    BY DEF DecimalRoom, UINT8_DIGITS, UINT16_DIGITS, UINT31_DIGITS, UINT64_DIGITS
  <2> QED
    BY <2>2, <2>3, <2>4, <2>5, <2>6, <2>7, <2>8, Zenon DEF TextsFitTheirBuffers
<1> QED
  BY DateCorrect, <1>1, PTL

-----------------------------------------------------------------------------
(* Paths, for every set of nodes a host may send. *)

\* The nodes read are nodes, and no more of them than the path has room for.
PathTypeOK == dp \in Seq(Node) /\ Len(dp) <= DERIVATION_PATH_NODES_MAX

\* Hardening keeps the length of a path and the index of each of its nodes.
LEMMA HardeningKeepsIndices ==
    ASSUME NEW p \in Seq(Node)
    PROVE  /\ harden_derivation_path(p) \in Seq(Node)
           /\ Len(harden_derivation_path(p)) = Len(p)
           /\ \A i \in 1 .. Len(p) : harden_derivation_path(p)[i].index = p[i].index
<1>1. DOMAIN p = 1 .. Len(p) /\ \A i \in 1 .. Len(p) : p[i] \in Node
  OBVIOUS
<1>2. \A n \in Node : Hardened(n) \in Node /\ Hardened(n).index = n.index
  BY DEF Hardened, Node
<1>3. harden_derivation_path(p) = [i \in 1 .. Len(p) |-> Hardened(p[i])]
  BY <1>1 DEF harden_derivation_path
<1>4. [i \in 1 .. Len(p) |-> Hardened(p[i])] \in Seq(Node)
  BY <1>1, <1>2
<1> QED
  BY <1>1, <1>2, <1>3, <1>4

\* parse_derivation_path detects the class of a path before it hardens it and the
\* reviews name the network after: hardening changes neither.
THEOREM HardeningKeepsClass ==
    ASSUME NEW p \in Seq(Node)
    PROVE  /\ detect_derivation_path_variant(harden_derivation_path(p))
                  = detect_derivation_path_variant(p)
           /\ derivation_path_network(harden_derivation_path(p)) = derivation_path_network(p)
<1> DEFINE q == harden_derivation_path(p)
<1>1. Len(q) = Len(p) /\ \A i \in 1 .. Len(p) : q[i].index = p[i].index
  BY HardeningKeepsIndices
<1>2. Len(p) \in Nat
  OBVIOUS
<1> HIDE DEF q
<1>3. Len(p) >= 1 => q[1].index = p[1].index
  BY <1>1, <1>2
<1>4. Len(p) >= 2 => q[2].index = p[2].index
  BY <1>1, <1>2
<1>5. detect_derivation_path_variant(q) = detect_derivation_path_variant(p)
  BY <1>1, <1>2, <1>3 DEF detect_derivation_path_variant
<1>6. derivation_path_network(q) = derivation_path_network(p)
  <2>1. CASE Len(p) = 0
    BY <2>1, <1>1 DEF derivation_path_network
  <2>2. CASE Len(p) = 1
    BY <2>2, <1>1, <1>3 DEF derivation_path_network
  <2>3. CASE Len(p) >= 2
    BY <2>3, <1>1, <1>2, <1>3, <1>4 DEF derivation_path_network
  <2>4. \A k \in Nat : k = 0 \/ k = 1 \/ k >= 2
    OBVIOUS
  <2>5. Len(p) = 0 \/ Len(p) = 1 \/ Len(p) >= 2
    BY <1>2, <2>4, Zenon
  <2> QED
    BY <2>1, <2>2, <2>3, <2>5, Zenon
<1> QED
  BY <1>5, <1>6 DEF q

\* The path of every commitment randomness key is refused, whatever its indices.
LEMMA CommitmentPathIsRejected ==
    ASSUME NEW coin \in Nat, NEW idp \in Nat, NEW identity \in Nat, NEW account \in Nat
    PROVE  reject_exportable_signing_path(CommitmentPath(coin, idp, identity, account))
<1> DEFINE plain == [i \in 1 .. 6 |->
                       [index |-> <<NEW_PURPOSE, coin, idp, identity,
                                    NEW_COMMITMENT_RANDOMNESS, account>>[i],
                        hardened |-> FALSE]]
           q == harden_derivation_path(plain)
<1>1. plain \in Seq(Node) /\ Len(plain) = 6
  <2>1. \A i \in 1 .. 6 : plain[i] \in Node
    BY DEF Node, NEW_PURPOSE, NEW_COMMITMENT_RANDOMNESS
  <2>2. plain = [i \in 1 .. 6 |-> plain[i]]
    OBVIOUS
  <2> HIDE DEF plain
  <2>3. [i \in 1 .. 6 |-> plain[i]] \in Seq(Node) /\ Len([i \in 1 .. 6 |-> plain[i]]) = 6
    BY <2>1
  <2> QED
    BY <2>2, <2>3, Zenon
<1>2. plain[1].index = NEW_PURPOSE /\ plain[5].index = NEW_COMMITMENT_RANDOMNESS
  OBVIOUS
<1> HIDE DEF plain
<1>3. Len(q) = 6 /\ q[1].index = NEW_PURPOSE /\ q[5].index = NEW_COMMITMENT_RANDOMNESS
  BY <1>1, <1>2, HardeningKeepsIndices
<1> HIDE DEF q
<1>4. reject_exportable_signing_path(q)
  BY <1>3 DEF reject_exportable_signing_path, detect_derivation_path_variant, IsCommitmentNode,
              NEW_PURPOSE, LEGACY_PURPOSE, DERIVATION_PATH_NEW_LEN
<1> QED
  BY <1>4 DEF CommitmentPath, plain, q

\* The paths read keep their type.
THEOREM PathTypeCorrect == PathSpec => []PathTypeOK
<1>1. PathInit => PathTypeOK
  BY DEF PathInit, PathTypeOK, DERIVATION_PATH_NODES_MAX
<1>2. PathTypeOK /\ [ReadNode]_dp => PathTypeOK'
  <2> SUFFICES ASSUME PathTypeOK, [ReadNode]_dp PROVE PathTypeOK'
    OBVIOUS
  <2>1. CASE ReadNode
    <3>1. PICK n \in Nodes : dp' = Append(dp, n)
      BY <2>1 DEF ReadNode
    <3>2. n \in Node
      BY NodesAssumption
    <3> QED
      BY <2>1, <3>1, <3>2 DEF PathTypeOK, ReadNode, DERIVATION_PATH_NODES_MAX
  <2>2. CASE UNCHANGED dp
    BY <2>2 DEF PathTypeOK
  <2> QED
    BY <2>1, <2>2
<1> QED
  BY <1>1, <1>2, PTL DEF PathSpec

\* No path that may sign is the path of an exportable key, whatever nodes the host
\* sends and however it sets their hardening bits.
THEOREM ExportableKeysNeverSign == PathSpec => []NoExportablePathSigns
<1>1. PathTypeOK => NoExportablePathSigns
  <2> SUFFICES ASSUME PathTypeOK, parse_derivation_path(dp),
                      NEW coin \in {NEW_MAINNET_COIN_TYPE, NEW_TESTNET_COIN_TYPE},
                      NEW idp \in {n.index : n \in Nodes}, NEW identity \in {n.index : n \in Nodes},
                      NEW account \in {n.index : n \in Nodes}
               PROVE  harden_derivation_path(dp) # CommitmentPath(coin, idp, identity, account)
    BY DEF NoExportablePathSigns
  <2>1. coin \in Nat
    BY DEF NEW_MAINNET_COIN_TYPE, NEW_TESTNET_COIN_TYPE
  <2>2. \A n \in Nodes : n.index \in Nat
    BY NodesAssumption DEF Node
  <2>3. idp \in Nat /\ identity \in Nat /\ account \in Nat
    BY <2>2
  <2>4. ~reject_exportable_signing_path(harden_derivation_path(dp))
    BY DEF parse_derivation_path
  <2>5. reject_exportable_signing_path(CommitmentPath(coin, idp, identity, account))
    BY <2>1, <2>3, CommitmentPathIsRejected
  <2> QED
    BY <2>4, <2>5
<1> QED
  BY <1>1, PathTypeCorrect, PTL

\* The helpers that are checked together read paths as parse_derivation_path does:
\* what holds of the paths holds beside the walks.
THEOREM WalksReadPaths == AlgorithmsSpec => PathSpec
<1>1. AlgorithmsInit => PathInit
  BY DEF AlgorithmsInit
<1>2. [AlgorithmsNext]_<<walkVars, dp>> => [ReadNode]_dp
  BY DEF AlgorithmsNext, NextDay, NextNode
<1> QED
  BY <1>1, <1>2, PTL DEF AlgorithmsSpec, PathSpec

=============================================================================
