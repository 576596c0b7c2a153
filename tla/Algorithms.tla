----------------------------- MODULE Algorithms -----------------------------
(***************************************************************************)
(* The pure helpers against reference definitions.  A walk goes through    *)
(* the days, one by one, and keeps the civil date by the rules of the      *)
(* calendar; the number of a day is also the number that is formatted.     *)
(* Derivation paths are read node by node.                                 *)
(***************************************************************************)
EXTENDS Calendar, DerivationPath

CONSTANT Walks     \* stretches of days: where they begin, and the last day

IsLeap(y) == y % 4 = 0 /\ (y % 100 # 0 \/ y % 400 = 0)
MonthLength(y, m) ==
    CASE m \in {4, 6, 9, 11} -> 30
      [] m = 2               -> IF IsLeap(y) THEN 29 ELSE 28
      [] OTHER               -> 31

\* Days of a year before each of its months, but for the leap day.
DaysToMonth == <<0, 31, 59, 90, 120, 151, 181, 212, 243, 273, 304, 334>>
LeapsBefore(y) == (y - 1) \div 4 - (y - 1) \div 100 + (y - 1) \div 400

IsDate(c) == c.y \in Int /\ c.m \in 1 .. 12 /\ c.d \in 1 .. MonthLength(c.y, c.m)
DayOfYear(c) == DaysToMonth[c.m] + c.d - 1 + (IF c.m > 2 /\ IsLeap(c.y) THEN 1 ELSE 0)

\* The date of a day, told by counting: 1970-01-01 was a Thursday.
IsDateOf(c, n) ==
    /\ IsDate(c)
    /\ n = 365 * (c.y - 1970) + LeapsBefore(c.y) - LeapsBefore(1970) + DayOfYear(c)
    /\ c.wday = (n + 4) % 7
    /\ c.yday = DayOfYear(c)

\* Every stretch begins with the date of its first day, which is not before 1970:
\* the seconds that are signed are not negative.
ASSUME WalksAssumption == \A w \in Walks : w.from \in Nat /\ IsDateOf(w.date, w.from)

VARIABLES
    day,           \* days since 1970-01-01
    civil,         \* the date of that day
    walk           \* the stretch it is in

walkVars == <<day, civil, walk>>

Tomorrow(c) ==
    [y |-> IF c.m = 12 /\ c.d = 31 THEN c.y + 1 ELSE c.y,
     m |-> IF c.d < MonthLength(c.y, c.m) THEN c.m ELSE (c.m % 12) + 1,
     d |-> IF c.d < MonthLength(c.y, c.m) THEN c.d + 1 ELSE 1,
     wday |-> (c.wday + 1) % 7,
     yday |-> IF c.m = 12 /\ c.d = 31 THEN 0 ELSE c.yday + 1]

AlgorithmsInit ==
    /\ walk \in Walks
    /\ day = walk.from
    /\ civil = walk.date
    /\ PathInit

NextDay ==
    /\ dp = << >> /\ day < walk.last
    /\ day' = day + 1
    /\ civil' = Tomorrow(civil)
    /\ UNCHANGED <<walk, dp>>

NextNode ==
    /\ day = walk.from /\ walk.from = 0
    /\ ReadNode
    /\ UNCHANGED walkVars

AlgorithmsNext == NextDay \/ NextNode

AlgorithmsSpec == AlgorithmsInit /\ [][AlgorithmsNext]_<<walkVars, dp>>

-----------------------------------------------------------------------------
(* Properties. *)

\* The date shown for a release is the date it is signed for, at the first and
\* the last second of every day of a whole cycle of the calendar, from the years
\* before LEAPOCH, which divide towards zero, to those at the limit.
DatesAgree ==
    \A second \in {0, SecsPerDay - 1} :
        LET tm == secondsToTm(day, second)
        IN  /\ <<tm.tm_year + 1900, tm.tm_mon + 1, tm.tm_mday>> = <<civil.y, civil.m, civil.d>>
            /\ <<tm.tm_wday, tm.tm_yday>> = <<civil.wday, civil.yday>>
            /\ 3600 * tm.tm_hour + 60 * tm.tm_min + tm.tm_sec = second

Nines(n) == [i \in 1 .. n |-> 9]

\* Nothing that the handlers let through is refused, cut short or written past
\* the end for want of room: dates with their milliseconds up to the last year
\* shown, commission rates, amounts of any 64-bit number and any exponent let
\* through, keys and ids in lines of hex, paths of eight nodes.
TextsFitTheirBuffers ==
    /\ YearIsShown(secondsToTm(day, 0)) => TimestampLength(secondsToTm(day, 0)) + 4 + 1 <= 25
    /\ day <= MAX_PERCENTAGE_NUMERATOR => PercentageFits(day)
    /\ day \in 1 .. UINT64_DIGITS =>
          /\ AmountFits(Nines(day))
          /\ \A raw \in 0 .. 255 : ExponentIsShown(raw) => TokenAmountFits(Nines(day), raw)
    /\ day \in 1 .. 255 => HexWritten(day) <= HexRoom(day)
    /\ HexRoom(32) <= 68 /\ HexRoom(48) <= 102
    /\ FullPathLength(DERIVATION_PATH_NODES_MAX) < VERIFY_ADDRESS_PATH_DISPLAY_SIZE
    /\ \A row \in DecimalRoom : row.needs <= row.has

\* A number on a screen reads as the number that is signed: fractions, token
\* amounts, the milliseconds of a release, and the integers of a memo up to the
\* greatest of the width, where -1 - n no longer fits it; and an integer has one
\* encoding that is let through.
NumbersReadBack ==
    /\ day <= MAX_PERCENTAGE_NUMERATOR =>
          ReadAs(fraction_to_percentage_display(day), 3) = day
    /\ \A raw \in 0 .. 2 : -TokenExponent(raw) = raw + 1
                          /\ ReadAs(plt_amount_to_display(Digits[day], raw), raw + 1) = day
    /\ day <= 999 => Number(Milliseconds(day)) = day /\ Len(Milliseconds(day)) = 3
    /\ \A most \in {255, 65535} : day <= most => NegativeValue(NegativeText(day, most)) = -1 - day
    /\ \E count \in ShortCounts :
          {c \in ShortCounts : Carries(c, day) /\ cbor_argument_is_canonical(c, day)} = {count}
=============================================================================
