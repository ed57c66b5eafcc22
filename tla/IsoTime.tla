------------------------------- MODULE IsoTime -------------------------------
(* How the task store writes and compares times.  A column holds the text of  *)
(* datetime.isoformat(), and SQLite compares the columns character by         *)
(* character.  The date and the time of day have a fixed width; the fraction  *)
(* of a second is left out when it is zero, so texts differ in length and the *)
(* offset "+00:00" may meet the "." of another text.                          *)
(* An instant is a number of fractions of a second.  The fixed-width part is  *)
(* kept as the digits of the whole seconds: its separators are the same in    *)
(* every text.  Characters are their codes.                                   *)
EXTENDS Integers, Sequences

CONSTANTS Radix,           \* 10
          SecondDigits,    \* the width of date and time of day
          FractionDigits   \* 6

ASSUME TextAssumption ==
    /\ Radix \in Nat \ {0, 1}
    /\ SecondDigits \in Nat \ {0}
    /\ FractionDigits \in Nat \ {0}

Zero  == 48
Plus  == 43
Point == 46
Zulu  == 90

\* Radix to the power k, as far as digits go.
Power[k \in 0..SecondDigits + FractionDigits] == IF k = 0 THEN 1 ELSE Radix * Power[k - 1]

\* n in k digits, most significant first.
Digits(n, k) == [i \in 1..k |-> Zero + ((n \div Power[k - i]) % Radix)]

Seconds(instant)  == instant \div Power[FractionDigits]
Fraction(instant) == instant % Power[FractionDigits]

FractionText(instant) ==
    IF Fraction(instant) = 0 THEN << >>
    ELSE <<Point>> \o Digits(Fraction(instant), FractionDigits)

\* (Fault: the offset is written as "Z", as other libraries do.)
IsoFormat_Zulu(instant) ==
    Digits(Seconds(instant), SecondDigits) \o FractionText(instant) \o <<Zulu>>

\* now.isoformat() of an aware UTC datetime.
IsoFormat(instant) ==
    Digits(Seconds(instant), SecondDigits) \o FractionText(instant) \o <<Plus, Zero, Zero>>

\* a < b of two TEXT columns: they differ first where a is smaller or has ended.
TextBefore(a, b) ==
    \E n \in 1..Len(b) :
        /\ \A i \in 1..n - 1 : i <= Len(a) /\ a[i] = b[i]
        /\ n > Len(a) \/ a[n] < b[n]

\* a <= b
TextUpTo(a, b) == a = b \/ TextBefore(a, b)
=============================================================================
