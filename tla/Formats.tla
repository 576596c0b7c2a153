------------------------------- MODULE Formats ------------------------------
(***************************************************************************)
(* Numbers as the reviews show them.  A text is the digits before its      *)
(* point and the digits after; a number is its decimal digits, so that     *)
(* those of 64 bits can be written too.  What a formatter refuses with     *)
(* ERROR_BUFFER_OVERFLOW is a matter of lengths.                           *)
(***************************************************************************)
EXTENDS Integers, Sequences

Digits[n \in Nat] == IF n < 10 THEN <<n>> ELSE Append(Digits[n \div 10], n % 10)
Number(s) ==
    LET Upto[i \in 0 .. Len(s)] == IF i = 0 THEN 0 ELSE 10 * Upto[i - 1] + s[i] IN Upto[Len(s)]
Zeros(n) == IF n > 0 THEN [i \in 1 .. n |-> 0] ELSE << >>

\* The lengths and numbers of the widest integers.
UINT8_DIGITS  == 3
UINT16_DIGITS == 5
UINT31_DIGITS == 10
UINT64_DIGITS == 20

\* The SDK's format_fpu64_trimmed: so many decimals, without the zeros they end in.
format_fpu64_trimmed(digits, decimals) ==
    LET padded == Zeros(decimals + 1 - Len(digits)) \o digits
        point  == Len(padded) - decimals
        ends   == {i \in point .. Len(padded) : \A j \in i + 1 .. Len(padded) : padded[j] = 0}
        last   == CHOOSE i \in ends : \A j \in ends : i <= j
    IN  [whole |-> SubSeq(padded, 1, point), frac |-> SubSeq(padded, point + 1, last)]

TextLength(t) == Len(t.whole) + (IF t.frac = << >> THEN 0 ELSE 1 + Len(t.frac))

\* Read with so many decimals, the number that a text stands for.
ReadAs(t, decimals) == Number(t.whole \o t.frac \o Zeros(decimals - Len(t.frac)))

FPU64_TMP_LEN == 40

-----------------------------------------------------------------------------
(* Fractions and amounts. *)

MAX_PERCENTAGE_NUMERATOR == 100000
PERCENTAGE_DECIMAL_PLACES == 3
COMMON_COMMISSION_SIZE == 8

\* Of 100,000 parts; a greater numerator is refused.
fraction_to_percentage_display(n) == format_fpu64_trimmed(Digits[n], PERCENTAGE_DECIMAL_PLACES)
PercentageFits(n) == TextLength(fraction_to_percentage_display(n)) + 2 <= COMMON_COMMISSION_SIZE

CCD_DECIMAL_PLACES == 6
COMMON_AMOUNT_DISPLAY_SIZE == 30

\* " CCD", or "\nCCD", and the NUL.
amount_to_ccd_display(digits) == format_fpu64_trimmed(digits, CCD_DECIMAL_PLACES)
AmountFits(digits) ==
    /\ TextLength(amount_to_ccd_display(digits)) < FPU64_TMP_LEN
    /\ TextLength(amount_to_ccd_display(digits)) + 5 <= COMMON_AMOUNT_DISPLAY_SIZE

PLT_AMOUNT_EXPONENT_RAW_MAX == 127
PLT_AMOUNT_MIN_EXPONENT == -18
PLT_TOKEN_ID_MAX == 128
PLT_AMOUNT_DISPLAY_SIZE == 40 + 1 + PLT_TOKEN_ID_MAX + 1

\* parse_amount_value, and the floor parse_plt_cbor sets: CBOR's negative integer
\* raw stands for -1 - raw, kept in an int8_t.
TokenExponent(raw) == IF raw % 256 < 128 THEN -((raw % 256) + 1) ELSE 255 - (raw % 256)
ExponentIsShown(raw) ==
    raw <= PLT_AMOUNT_EXPONENT_RAW_MAX /\ TokenExponent(raw) >= PLT_AMOUNT_MIN_EXPONENT

plt_amount_to_display(digits, raw) == format_fpu64_trimmed(digits, -TokenExponent(raw))
TokenAmountFits(digits, raw) ==
    /\ TextLength(plt_amount_to_display(digits, raw)) < FPU64_TMP_LEN
    /\ TextLength(plt_amount_to_display(digits, raw)) + 1 + PLT_TOKEN_ID_MAX + 1
          <= PLT_AMOUNT_DISPLAY_SIZE

-----------------------------------------------------------------------------
(* Integers of a memo or of registered data. *)

\* parse_complete_cbor: the argument n of a negative integer stands for -1 - n.  When
\* n + 1 does not fit the width, " - 1" is written behind n.
NegativeText_Wraps(n, most) == [digits |-> Digits[(n + 1) % (most + 1)], lessOne |-> FALSE]
NegativeText(n, most) ==
    IF n = most THEN [digits |-> Digits[n], lessOne |-> TRUE]
                ELSE [digits |-> Digits[n + 1], lessOne |-> FALSE]
NegativeValue(t) == -Number(t.digits) - (IF t.lessOne THEN 1 ELSE 0)

\* cbor_argument_is_canonical: the values a short count may carry, and those it is
\* let carry.  Eight-byte arguments are left out.
ShortCounts == {"inline", "one_byte", "two_bytes", "four_bytes"}
Carries(count, n) ==
    CASE count = "inline"     -> n < 24
      [] count = "one_byte"   -> n < 256
      [] count = "two_bytes"  -> n < 65536
      [] count = "four_bytes" -> TRUE
cbor_argument_is_canonical(count, n) ==
    CASE count = "one_byte"   -> n > 23
      [] count = "two_bytes"  -> n > 255
      [] count = "four_bytes" -> n > 65535
      [] OTHER                -> TRUE

-----------------------------------------------------------------------------
(* Other texts. *)

HEX_PAGINATION_WIDTH == 16

\* to_paginated_hex: what its check asks for, and one more than the index of the
\* NUL its loop ends with.  A line end follows each full line but the last.
HexRoom(len) == 2 * len + (2 * len - 1) \div HEX_PAGINATION_WIDTH + 1
HexWritten(len) ==
    LET LineEnds[i \in 0 .. len] ==
            IF i = 0 THEN 0
            ELSE LineEnds[i - 1] + (IF (2 * i) % HEX_PAGINATION_WIDTH = 0 /\ i # len THEN 1 ELSE 0)
    IN  2 * len + (LineEnds[len] % 256) + 1

\* path_display_full: nodes of ten digits, their hardening marks and separators.
FullPathLength(nodes) == nodes * (UINT31_DIGITS + 1) + (nodes - 1)
VERIFY_ADDRESS_PATH_DISPLAY_SIZE == 104

\* The buffers that hold plain decimals: bytes asked for by bin_to_dec and by what is
\* written around it, and bytes there are.
DecimalRoom ==
    {[text |-> "energy",                needs |-> UINT64_DIGITS + 1,                     has |-> 21],
     [text |-> "baker_id",              needs |-> 9 + UINT64_DIGITS + 1,                 has |-> 30],
     [text |-> "threshold",             needs |-> UINT8_DIGITS + 1,                      has |-> 4],
     [text |-> "out_of",                needs |-> UINT8_DIGITS + 8 + UINT16_DIGITS + 1,  has |-> 17],
     [text |-> "key_id",                needs |-> 3 + UINT31_DIGITS + 1,                 has |-> 22],
     [text |-> "negative_integer",      needs |-> 1 + UINT64_DIGITS + 4 + 1,             has |-> 255]}
=============================================================================
