-------------------------- MODULE TaskTimesProofs --------------------------
(* Proofs about TaskTimes: the texts of two times compare as the times do,    *)
(* for every radix and every width of the date and of the fraction.           *)
(*                                                                            *)
(* Two texts first differ where a longer and longer quotient of the two       *)
(* numbers first differs (DigitsCompare); the fraction's point is less than   *)
(* no digit and more than the offset's sign.                                  *)
EXTENDS TaskTimes, TaskRepositoryProofs, SequenceTheorems

----------------------------------------------------------------------------
(* Division.                                                                  *)

\* Quotient and remainder.
LEMMA DivMod == ASSUME NEW n \in Nat, NEW a \in Nat \ {0}
  PROVE n \div a \in Nat /\ n % a \in Nat /\ n % a < a /\ n = a * (n \div a) + (n % a)
OBVIOUS

\* A larger factor gives a larger product.
LEMMA TimesMonotone == ASSUME NEW a \in Nat, NEW q \in Nat, NEW r \in Nat, q <= r
  PROVE a * q \in Nat /\ a * r \in Nat /\ a * q <= a * r
OBVIOUS

\* A factor larger by one makes it larger by the other factor at least.
LEMMA TimesUp == ASSUME NEW a \in Nat, NEW q \in Nat, NEW r \in Nat, q < r
  PROVE a * q + a <= a * r
<1>1. a * (q+1) = a * q + a OBVIOUS
<1> QED  BY <1>1, TimesMonotone

\* The quotient is the only one.
LEMMA DivIs == ASSUME NEW n \in Nat, NEW a \in Nat \ {0}, NEW q \in Nat, NEW r \in Nat,
                      r < a, n = a * q + r
  PROVE n \div a = q
<1> DEFINE d == n \div a
           m == n % a
<1>1. d \in Nat /\ m \in Nat /\ m < a /\ n = a * d + m
  BY DivMod
<1> HIDE DEF d, m
<1>2. ~ (d < q)
  <2>1. d < q => a * d + a <= a * q
    BY <1>1, TimesUp
  <2>2. a * d \in Nat /\ a * q \in Nat
    BY <1>1
  <2> QED  BY <1>1, <2>1, <2>2
<1>3. ~ (q < d)
  <2>1. q < d => a * q + a <= a * d
    BY <1>1, TimesUp
  <2>2. a * d \in Nat /\ a * q \in Nat
    BY <1>1
  <2> QED  BY <1>1, <2>1, <2>2
<1> QED  BY <1>1, <1>2, <1>3 DEF d

\* To divide twice is to divide by the product.
LEMMA DivDiv == ASSUME NEW n \in Nat, NEW a \in Nat \ {0}, NEW b \in Nat \ {0}
  PROVE a * b \in Nat \ {0} /\ (n \div a) \div b = n \div (a * b)
<1> DEFINE d == n \div a
           m == n % a
           e == d \div b
           f == d % b
<1>1. d \in Nat /\ m \in Nat /\ m < a /\ n = a * d + m
  BY DivMod
<1> HIDE DEF d, m
<1>2. e \in Nat /\ f \in Nat /\ f < b /\ d = b * e + f
  BY <1>1, DivMod
<1> HIDE DEF e, f
<1>3. a * b \in Nat \ {0}
  OBVIOUS
<1>4. a * f + m \in Nat /\ a * f + m < a * b
  <2>1. a * f + a <= a * b
    BY <1>2, TimesUp
  <2>2. a * f \in Nat
    BY <1>2
  <2> QED  BY <1>1, <1>3, <2>1, <2>2
<1>5. n = (a * b) * e + (a * f + m)
  <2>1. a * d = a * (b * e) + a * f
    BY <1>2
  <2>2. a * (b * e) = (a * b) * e
    BY <1>2
  <2>3. (a * b) * e \in Nat /\ a * f \in Nat
    BY <1>2
  <2> DEFINE x == a * d
             y == (a * b) * e
             z == a * f
  <2>4. x = y + z /\ y \in Nat /\ z \in Nat /\ n = x + m
    BY <1>1, <2>1, <2>2, <2>3
  <2> HIDE DEF x, y, z
  <2>5. n = y + (z + m)
    BY <1>1, <2>4
  <2> QED  BY <2>5 DEF y, z
<1>6. n \div (a * b) = e
  BY <1>2, <1>3, <1>4, <1>5, DivIs
<1> QED  BY <1>3, <1>6 DEF e, d

\* A larger number has a larger quotient.
LEMMA DivMonotone == ASSUME NEW n \in Nat, NEW m \in Nat, NEW a \in Nat \ {0}, n <= m
  PROVE n \div a <= m \div a
<1> DEFINE d == n \div a
           e == m \div a
<1>1. d \in Nat /\ n % a \in Nat /\ n % a < a /\ n = a * d + (n % a)
  BY DivMod
<1>2. e \in Nat /\ m % a \in Nat /\ m % a < a /\ m = a * e + (m % a)
  BY DivMod
<1> HIDE DEF d, e
<1>3. e < d => a * e + a <= a * d
  BY <1>1, <1>2, TimesUp
<1>4. a * e \in Nat /\ a * d \in Nat
  BY <1>1, <1>2
<1>5. ~ (e < d)
  BY <1>1, <1>2, <1>3, <1>4
<1> QED  BY <1>1, <1>2, <1>5 DEF d, e

----------------------------------------------------------------------------
(* Powers of the radix.                                                       *)

Width == SecondDigits + FractionDigits

\* p is Power up to k.
Powers(p, k) == p = [i \in 0..k |-> IF i = 0 THEN 1 ELSE Radix * p[i - 1]]

\* What the assumption says of the widths.
LEMMA Widths ==
    /\ SecondDigits \in Nat /\ SecondDigits >= 1 /\ FractionDigits \in Nat /\ FractionDigits >= 1
    /\ Width \in Nat /\ SecondDigits <= Width /\ FractionDigits <= Width
    /\ Radix \in Nat /\ Radix >= 2
BY TextAssumption DEF Width

\* The recursion defines a function.
LEMMA PowersExist == \E p : Powers(p, Width)
<1> DEFINE Bad == {k \in Nat : ~ \E p : Powers(p, k)}
<1>1. ASSUME Bad # {} PROVE FALSE
  <2>1. PICK k \in Bad : \A m \in Bad : k <= m
    BY <1>1, LeastNumber
  <2>2. CASE k = 0
    <3>1. Powers([i \in 0..0 |-> 1], 0)
      BY DEF Powers
    <3> QED  BY <2>1, <2>2, <3>1
  <2>3. CASE k # 0
    <3>1. k - 1 \in Nat /\ k - 1 \notin Bad
      BY <2>1, <2>3
    <3>2. PICK p : Powers(p, k - 1)
      BY <3>1
    <3> DEFINE q == [i \in 0..k |-> IF i = 0 THEN 1 ELSE Radix * p[i - 1]]
    <3>3. \A i \in 0..k - 1 : q[i] = p[i]
      <4>1. \A i \in 0..k - 1 : p[i] = IF i = 0 THEN 1 ELSE Radix * p[i - 1]
        BY <3>2 DEF Powers
      <4> QED  BY <2>1, <4>1
    <3>4. \A i \in 0..k : q[i] = IF i = 0 THEN 1 ELSE Radix * q[i - 1]
      <4>1. \A i \in 0..k : i # 0 => i - 1 \in 0..k - 1
        BY <2>1
      <4>2. \A i \in 0..k : q[i] = IF i = 0 THEN 1 ELSE Radix * p[i - 1]
        OBVIOUS
      <4> HIDE DEF q
      <4> QED  BY <3>3, <4>1, <4>2
    <3>5. q = [i \in 0..k |-> q[i]]
      OBVIOUS
    <3> HIDE DEF q
    <3>6. Powers(q, k)
      BY <3>4, <3>5 DEF Powers
    <3> QED  BY <2>1, <3>6
  <2> QED  BY <2>2, <2>3
<1>2. Width \notin Bad
  BY <1>1
<1> QED  BY <1>2, Widths

\* Each power is the one before, times the radix.
LEMMA PowerSteps ==
    /\ Power[0] = 1
    /\ \A k \in 1..Width : Power[k] = Radix * Power[k - 1]
<1>1. Power = CHOOSE p : Powers(p, Width)
  BY DEF Power, Powers, Width
<1>2. Powers(Power, Width)
  BY <1>1, PowersExist
<1> QED  BY <1>2, Widths DEF Powers

\* Powers are numbers, and none is 0.
LEMMA PowerPositive == \A k \in 0..Width : Power[k] \in Nat \ {0}
<1> DEFINE Bad == {k \in 0..Width : Power[k] \notin Nat \ {0}}
<1>1. ASSUME Bad # {} PROVE FALSE
  <2>1. PICK k \in Bad : \A m \in Bad : k <= m
    <3>1. Bad \subseteq Nat
      OBVIOUS
    <3> HIDE DEF Bad
    <3> QED  BY <1>1, <3>1, LeastNumber
  <2>2. k # 0
    BY PowerSteps
  <2>3. k \in 1..Width /\ k - 1 \in 0..Width /\ k - 1 \notin Bad
    BY <2>1, <2>2, Widths
  <2>4. Power[k - 1] \in Nat \ {0} /\ Power[k] = Radix * Power[k - 1]
    BY <2>3, PowerSteps
  <2>5. Power[k] \in Nat \ {0}
    BY <2>4, Widths
  <2> QED  BY <2>5
<1> QED  BY <1>1

\* The fraction's digits follow the others.
LEMMA PowerSum == Power[Width] = Power[FractionDigits] * Power[SecondDigits]
<1> DEFINE Bad == {k \in 0..SecondDigits :
                      Power[FractionDigits + k] # Power[FractionDigits] * Power[k]}
<1>1. ASSUME Bad # {} PROVE FALSE
  <2>1. PICK k \in Bad : \A m \in Bad : k <= m
    <3>1. Bad \subseteq Nat
      OBVIOUS
    <3> HIDE DEF Bad
    <3> QED  BY <1>1, <3>1, LeastNumber
  <2>2. k # 0
    <3>1. Power[FractionDigits] \in Nat
      BY Widths, PowerPositive
    <3>2. Power[FractionDigits + 0] = Power[FractionDigits] * Power[0]
      BY <3>1, PowerSteps, Widths
    <3> QED  BY <3>2
  <2>3. /\ k \in 1..SecondDigits /\ k - 1 \in 0..SecondDigits /\ k - 1 \notin Bad
        /\ FractionDigits + k \in 1..Width /\ k \in 1..Width /\ k - 1 \in 0..Width
    BY <2>1, <2>2, Widths DEF Width
  <2>4. Power[FractionDigits + (k - 1)] = Power[FractionDigits] * Power[k - 1]
    BY <2>3
  <2>5. /\ Power[FractionDigits + k] = Radix * Power[FractionDigits + (k - 1)]
        /\ Power[k] = Radix * Power[k - 1]
    <3>1. (FractionDigits + k) - 1 = FractionDigits + (k - 1)
      BY <2>3, Widths
    <3>2. Power[FractionDigits + k] = Radix * Power[(FractionDigits + k) - 1]
      BY <2>3, PowerSteps
    <3> QED  BY <2>3, <3>1, <3>2, PowerSteps
  <2>6. Power[FractionDigits] \in Nat /\ Power[k - 1] \in Nat /\ Radix \in Nat
    BY <2>3, PowerPositive, Widths
  <2>7. Radix * (Power[FractionDigits] * Power[k - 1])
           = Power[FractionDigits] * (Radix * Power[k - 1])
    BY <2>6
  <2> QED  BY <2>4, <2>5, <2>7
<1>2. SecondDigits \notin Bad
  BY <1>1
<1> QED  BY <1>2, Widths DEF Width

----------------------------------------------------------------------------
(* Digits.                                                                    *)

\* The first i of k digits, as a number.
Leading(n, k, i) == n \div Power[k - i]

\* One digit more.
LEMMA LeadingStep ==
    ASSUME NEW n \in Nat, NEW k \in 0..Width, NEW i \in 1..k
    PROVE  /\ Leading(n, k, i) \in Nat /\ Leading(n, k, i - 1) \in Nat
           /\ Leading(n, k, i) % Radix \in Nat
           /\ Leading(n, k, i) = Radix * Leading(n, k, i - 1) + (Leading(n, k, i) % Radix)
<1> DEFINE a == Power[k - i]
<1>1. k - i \in 0..Width /\ k - (i - 1) \in 1..Width /\ (k - (i - 1)) - 1 = k - i
  BY Widths
<1>2. a \in Nat \ {0} /\ Power[k - (i - 1)] = Radix * a /\ Radix \in Nat \ {0}
  BY <1>1, PowerPositive, PowerSteps, Widths
<1>3. Radix * a = a * Radix
  BY <1>2
<1>4. (n \div a) \div Radix = n \div (a * Radix)
  BY <1>2, DivDiv
<1>5. Leading(n, k, i) \in Nat
  BY <1>2, DivMod DEF Leading
<1>6. Leading(n, k, i - 1) = Leading(n, k, i) \div Radix
  BY <1>2, <1>3, <1>4 DEF Leading
<1> QED  BY <1>2, <1>5, <1>6, DivMod

\* Of two numbers, the smaller has the smaller digit where they first differ.
LEMMA DigitsCompare ==
    ASSUME NEW k \in 1..Width, NEW n \in Nat, NEW m \in Nat, n < m, m < Power[k]
    PROVE  \E j \in 1..k : /\ \A i \in 1..j - 1 : Digits(n, k)[i] = Digits(m, k)[i]
                           /\ Digits(n, k)[j] < Digits(m, k)[j]
<1> DEFINE Differ == {i \in 0..k : Leading(n, k, i) # Leading(m, k, i)}
<1>0. k \in Nat /\ k \in 0..Width
  BY Widths
<1>1. k \in Differ
  <2>1. k - k = 0 /\ n \div 1 = n /\ m \div 1 = m
    BY <1>0
  <2> QED  BY <1>0, <2>1, PowerSteps DEF Leading
<1>2. PICK j \in Differ : \A i \in Differ : j <= i
  <2>1. Differ \subseteq Nat
    OBVIOUS
  <2> HIDE DEF Differ
  <2> QED  BY <1>1, <2>1, LeastNumber
<1>3. j # 0
  <2>1. Power[k] \in Nat \ {0} /\ k - 0 = k
    BY <1>0, PowerPositive
  <2>2. n \div Power[k] = 0 /\ m \div Power[k] = 0
    <3>1. n = Power[k] * 0 + n /\ m = Power[k] * 0 + m /\ n < Power[k]
      BY <2>1
    <3> QED  BY <2>1, <3>1, DivIs
  <2> QED  BY <1>2, <2>1, <2>2 DEF Leading
<1>4. j \in 1..k /\ j - 1 \in 0..k /\ j - 1 \notin Differ
  BY <1>0, <1>2, <1>3
<1>5. ASSUME NEW i \in 1..j - 1
      PROVE  Digits(n, k)[i] = Digits(m, k)[i]
  <2>1. i \in 1..k /\ i \in 0..k /\ i \notin Differ
    BY <1>0, <1>2, <1>4
  <2> QED  BY <2>1 DEF Digits, Leading
<1>6. Digits(n, k)[j] < Digits(m, k)[j]
  <2> DEFINE q == Radix * Leading(n, k, j - 1)
             d == Leading(n, k, j) % Radix
             e == Leading(m, k, j) % Radix
  <2>1. Leading(n, k, j - 1) = Leading(m, k, j - 1)
    BY <1>4
  <2>2. Leading(n, k, j - 1) \in Nat /\ d \in Nat /\ Leading(n, k, j) = q + d
    BY <1>0, <1>4, LeadingStep
  <2>3. e \in Nat /\ Leading(m, k, j) = q + e
    BY <1>0, <1>4, <2>1, LeadingStep
  <2>4. Leading(n, k, j) <= Leading(m, k, j)
    <3>1. k - j \in 0..Width
      BY <1>0, <1>4, Widths
    <3>2. Power[k - j] \in Nat \ {0}
      BY <3>1, PowerPositive
    <3> QED  BY <3>2, DivMonotone DEF Leading
  <2>5. Leading(n, k, j) # Leading(m, k, j)
    BY <1>2
  <2>6. q \in Nat
    BY <2>2, Widths
  <2>7. Digits(n, k)[j] = Zero + d /\ Digits(m, k)[j] = Zero + e
    BY <1>4 DEF Digits, Leading
  <2> HIDE DEF q, d, e
  <2>8. d < e
    BY <2>2, <2>3, <2>4, <2>5, <2>6
  <2> QED  BY <2>2, <2>3, <2>7, <2>8 DEF Zero
<1> QED  BY <1>4, <1>5, <1>6

\* Digits are a text of their own.
LEMMA DigitsText ==
    ASSUME NEW n \in Nat, NEW k \in 1..Width
    PROVE  /\ Digits(n, k) \in Seq(Nat) /\ Len(Digits(n, k)) = k
           /\ \A i \in 1..k : Digits(n, k)[i] >= Zero
<1>1. k \in Nat
  OBVIOUS
<1>2. ASSUME NEW i \in 1..k
      PROVE  Zero + ((n \div Power[k - i]) % Radix) \in Nat
             /\ Zero + ((n \div Power[k - i]) % Radix) >= Zero
  <2>1. (n \div Power[k - i]) % Radix \in Nat
    BY LeadingStep, Widths DEF Leading
  <2> QED  BY <2>1 DEF Zero
<1>3. Digits(n, k) \in [1..k -> Nat]
  BY <1>2 DEF Digits
<1> QED  BY <1>1, <1>2, <1>3 DEF Digits

----------------------------------------------------------------------------
(* Texts.                                                                     *)

\* Joining two texts.
LEMMA Joined ==
    ASSUME NEW a \in Seq(Nat), NEW b \in Seq(Nat)
    PROVE  /\ a \o b \in Seq(Nat) /\ Len(a \o b) = Len(a) + Len(b)
           /\ Len(a) \in Nat /\ Len(b) \in Nat
           /\ \A i \in 1..Len(a) : (a \o b)[i] = a[i]
           /\ \A i \in 1..Len(b) : (a \o b)[Len(a) + i] = b[i]
OBVIOUS

\* The times the text has room for.
Writable == 0..Power[Width] - 1

\* A time in two parts, each of which its digits can hold.
LEMMA TwoParts ==
    ASSUME NEW x \in Writable
    PROVE  /\ Seconds(x) \in Nat /\ Seconds(x) < Power[SecondDigits]
           /\ Fraction(x) \in Nat /\ Fraction(x) < Power[FractionDigits]
           /\ x = Power[FractionDigits] * Seconds(x) + Fraction(x)
<1> DEFINE a == Power[FractionDigits]
           b == Power[SecondDigits]
<1>1. a \in Nat \ {0} /\ b \in Nat \ {0} /\ Power[Width] = a * b
  BY PowerPositive, PowerSum, Widths
<1>2. x \in Nat /\ x < a * b
  BY <1>1 DEF Writable
<1>3. /\ Seconds(x) \in Nat /\ Fraction(x) \in Nat /\ Fraction(x) < a
      /\ x = a * Seconds(x) + Fraction(x)
  BY <1>1, <1>2, DivMod DEF Seconds, Fraction
<1> HIDE DEF a, b
<1>4. ~ (b <= Seconds(x))
  <2>1. b <= Seconds(x) => a * b <= a * Seconds(x)
    BY <1>1, <1>3, TimesMonotone
  <2>2. a * b \in Nat /\ a * Seconds(x) \in Nat
    BY <1>1, <1>3
  <2> QED  BY <1>2, <1>3, <2>1, <2>2
<1>5. Seconds(x) < b
  BY <1>1, <1>3, <1>4
<1> QED  BY <1>3, <1>5 DEF a, b

\* The characters that decide: the digits of the seconds; then the sign of the
\* offset, or the point and the digits of the fraction.
LEMMA IsoChars ==
    ASSUME NEW x \in Writable
    PROVE  /\ IsoFormat(x) \in Seq(Nat)
           /\ Len(IsoFormat(x)) >= SecondDigits + 1
           /\ \A i \in 1..SecondDigits : IsoFormat(x)[i] = Digits(Seconds(x), SecondDigits)[i]
           /\ Fraction(x) = 0 => IsoFormat(x)[SecondDigits + 1] = Plus
           /\ Fraction(x) # 0 =>
                 /\ Len(IsoFormat(x)) >= SecondDigits + 1 + FractionDigits
                 /\ IsoFormat(x)[SecondDigits + 1] = Point
                 /\ \A i \in 1..FractionDigits :
                       IsoFormat(x)[SecondDigits + 1 + i] = Digits(Fraction(x), FractionDigits)[i]
<1> DEFINE S == Digits(Seconds(x), SecondDigits)
           F == Digits(Fraction(x), FractionDigits)
           Z == <<Plus, Zero, Zero>>
<1>1. S \in Seq(Nat) /\ Len(S) = SecondDigits /\ F \in Seq(Nat) /\ Len(F) = FractionDigits
  BY TwoParts, DigitsText, Widths
<1>2. /\ Z \in Seq(Nat) /\ Len(Z) = 3 /\ Z[1] = Plus
      /\ <<Point>> \in Seq(Nat) /\ Len(<<Point>>) = 1 /\ <<Point>>[1] = Point
  BY DEF Plus, Zero, Point
<1>3. SecondDigits \in Nat /\ SecondDigits >= 1 /\ FractionDigits \in Nat /\ FractionDigits >= 1
  BY Widths
<1> HIDE DEF S, F, Z
<1>4. CASE Fraction(x) = 0
  <2> DEFINE SZ == S \o Z
  <2>1. IsoFormat(x) = SZ
    BY <1>1, <1>4, ConcatEmptySeq DEF IsoFormat, FractionText, S, Z
  <2>2. /\ SZ \in Seq(Nat) /\ Len(SZ) = Len(S) + Len(Z)
        /\ \A i \in 1..Len(S) : SZ[i] = S[i]
        /\ \A i \in 1..Len(Z) : SZ[Len(S) + i] = Z[i]
    BY <1>1, <1>2, Joined
  <2> HIDE DEF SZ
  <2>3. SZ[SecondDigits + 1] = Plus
    BY <1>1, <1>2, <2>2
  <2>4. /\ \A i \in 1..SecondDigits : SZ[i] = S[i]
        /\ Len(SZ) >= SecondDigits + 1
    BY <1>1, <1>2, <1>3, <2>2
  <2> QED  BY <1>4, <2>1, <2>2, <2>3, <2>4 DEF S
<1>5. CASE Fraction(x) # 0
  <2> DEFINE P == <<Point>> \o F
             SP == S \o P
  <2>1. P \in Seq(Nat) /\ Len(P) = 1 + FractionDigits /\ P[1] = Point
        /\ \A i \in 1..FractionDigits : P[1 + i] = F[i]
    <3> DEFINE O == <<Point>>
    <3>1. O \in Seq(Nat) /\ Len(O) = 1 /\ O[1] = Point
      BY <1>2
    <3> HIDE DEF O
    <3>2. /\ O \o F \in Seq(Nat) /\ Len(O \o F) = Len(O) + Len(F)
          /\ \A i \in 1..Len(O) : (O \o F)[i] = O[i]
          /\ \A i \in 1..Len(F) : (O \o F)[Len(O) + i] = F[i]
      BY <1>1, <3>1, Joined
    <3>3. P = O \o F
      BY DEF O
    <3> HIDE DEF P
    <3> QED  BY <1>1, <1>3, <3>1, <3>2, <3>3
  <2> HIDE DEF P
  <2>a. /\ SP \in Seq(Nat) /\ Len(SP) = Len(S) + Len(P)
        /\ \A i \in 1..Len(S) : SP[i] = S[i]
        /\ \A i \in 1..Len(P) : SP[Len(S) + i] = P[i]
    BY <1>1, <2>1, Joined
  <2>5. IsoFormat(x) = SP \o Z
    BY <1>5 DEF IsoFormat, FractionText, S, F, P, SP, Z
  <2> HIDE DEF SP
  <2>2. /\ Len(SP) = SecondDigits + (1 + FractionDigits)
        /\ \A i \in 1..SecondDigits : SP[i] = S[i]
        /\ \A i \in 1..1 + FractionDigits : SP[SecondDigits + i] = P[i]
    BY <1>1, <2>1, <2>a
  <2>3. SP[SecondDigits + 1] = Point
    BY <1>3, <2>1, <2>2
  <2>4. ASSUME NEW i \in 1..FractionDigits
        PROVE  SP[SecondDigits + 1 + i] = F[i]
    <3>1. 1 + i \in 1..1 + FractionDigits /\ SecondDigits + (1 + i) = SecondDigits + 1 + i
      BY <1>3
    <3>2. SP[SecondDigits + (1 + i)] = P[1 + i]
      BY <2>2, <3>1
    <3> QED  BY <2>1, <3>1, <3>2
  <2> DEFINE I == IsoFormat(x)
  <2>b. /\ SP \o Z \in Seq(Nat) /\ Len(SP \o Z) = Len(SP) + Len(Z)
        /\ \A i \in 1..Len(SP) : (SP \o Z)[i] = SP[i]
    BY <1>2, <2>a, Joined
  <2>6. /\ I \in Seq(Nat) /\ Len(I) = Len(SP) + Len(Z)
        /\ \A i \in 1..Len(SP) : I[i] = SP[i]
    BY <2>5, <2>b
  <2> HIDE DEF I
  <2>7. /\ Len(I) >= SecondDigits + 1 + FractionDigits
        /\ Len(I) >= SecondDigits + 1
        /\ \A i \in 1..SecondDigits : i \in 1..Len(SP)
        /\ SecondDigits + 1 \in 1..Len(SP)
        /\ \A i \in 1..FractionDigits : SecondDigits + 1 + i \in 1..Len(SP)
    BY <1>2, <1>3, <2>2, <2>6
  <2>8. \A i \in 1..SecondDigits : I[i] = S[i]
    BY <2>2, <2>6, <2>7
  <2>9. I[SecondDigits + 1] = Point
    BY <2>3, <2>6, <2>7
  <2>10. \A i \in 1..FractionDigits : I[SecondDigits + 1 + i] = F[i]
    BY <2>4, <2>6, <2>7
  <2> QED  BY <1>5, <2>6, <2>7, <2>8, <2>9, <2>10 DEF S, F, I
<1> QED  BY <1>4, <1>5

\* An earlier time has the smaller text.
LEMMA EarlierBefore ==
    ASSUME NEW x \in Writable, NEW y \in Writable, x < y
    PROVE  TextBefore(IsoFormat(x), IsoFormat(y))
<1> DEFINE a == IsoFormat(x)
           b == IsoFormat(y)
           P == Power[FractionDigits]
<1>1. /\ SecondDigits \in 1..Width /\ FractionDigits \in 1..Width /\ P \in Nat \ {0}
      /\ SecondDigits \in Nat /\ FractionDigits \in Nat
  BY Widths, PowerPositive
<1>2. /\ Seconds(x) \in Nat /\ Seconds(y) \in Nat /\ Seconds(y) < Power[SecondDigits]
      /\ Fraction(x) \in Nat /\ Fraction(y) \in Nat /\ Fraction(y) < P
      /\ x \in Nat /\ y \in Nat
      /\ x = P * Seconds(x) + Fraction(x) /\ y = P * Seconds(y) + Fraction(y)
  BY TwoParts DEF Writable
<1>3. Seconds(x) <= Seconds(y)
  BY <1>1, <1>2, DivMonotone DEF Seconds
<1>4. CASE Seconds(x) < Seconds(y)
  <2>1. PICK j \in 1..SecondDigits :
           /\ \A i \in 1..j - 1 :
                 Digits(Seconds(x), SecondDigits)[i] = Digits(Seconds(y), SecondDigits)[i]
           /\ Digits(Seconds(x), SecondDigits)[j] < Digits(Seconds(y), SecondDigits)[j]
    BY <1>1, <1>2, <1>4, DigitsCompare
  <2>2. /\ j \in 1..Len(b) /\ Len(a) \in Nat /\ \A i \in 1..j - 1 : i <= Len(a) /\ a[i] = b[i]
        /\ a[j] < b[j]
    BY <1>1, <2>1, IsoChars
  <2> QED  BY <2>2 DEF TextBefore
<1>5. CASE Seconds(x) = Seconds(y)
  <2>1. Fraction(x) < Fraction(y)
    <3> DEFINE q == P * Seconds(y)
    <3>1. q \in Nat /\ x = q + Fraction(x) /\ y = q + Fraction(y)
      BY <1>1, <1>2, <1>5
    <3> HIDE DEF q
    <3> QED  BY <1>2, <3>1
  <2>2. /\ \A i \in 1..SecondDigits : a[i] = b[i] /\ i <= Len(a)
        /\ Len(a) \in Nat /\ Len(b) \in Nat
        /\ Len(a) >= SecondDigits + 1 /\ Len(b) >= SecondDigits + 1 + FractionDigits
        /\ b[SecondDigits + 1] = Point
    <3>1. Fraction(y) # 0
      BY <1>2, <2>1
    <3>2. /\ Len(b) >= SecondDigits + 1 + FractionDigits /\ b[SecondDigits + 1] = Point
          /\ \A i \in 1..SecondDigits : b[i] = Digits(Seconds(y), SecondDigits)[i]
          /\ b \in Seq(Nat)
      BY <3>1, IsoChars
    <3>3. /\ Len(a) >= SecondDigits + 1 /\ a \in Seq(Nat)
          /\ \A i \in 1..SecondDigits : a[i] = Digits(Seconds(x), SecondDigits)[i]
      BY IsoChars
    <3> HIDE DEF a, b
    <3>4. Len(a) \in Nat /\ Len(b) \in Nat
      BY <3>2, <3>3
    <3>5. \A i \in 1..SecondDigits : a[i] = b[i]
      BY <1>5, <3>2, <3>3
    <3>6. \A i \in 1..SecondDigits : i <= Len(a)
      BY <1>1, <3>3, <3>4
    <3> QED  BY <3>2, <3>3, <3>4, <3>5, <3>6
  <2>3. CASE Fraction(x) = 0
    <3>1. a[SecondDigits + 1] < b[SecondDigits + 1]
      BY <2>2, <2>3, IsoChars DEF Plus, Point
    <3>2. SecondDigits + 1 \in 1..Len(b) /\ (SecondDigits + 1) - 1 = SecondDigits
      BY <1>1, <2>2
    <3> QED  BY <2>2, <3>1, <3>2 DEF TextBefore
  <2>4. CASE Fraction(x) # 0
    <3>1. PICK j \in 1..FractionDigits :
             /\ \A i \in 1..j - 1 : Digits(Fraction(x), FractionDigits)[i]
                                      = Digits(Fraction(y), FractionDigits)[i]
             /\ Digits(Fraction(x), FractionDigits)[j] < Digits(Fraction(y), FractionDigits)[j]
      BY <1>1, <1>2, <2>1, DigitsCompare
    <3> DEFINE n == SecondDigits + 1 + j
    <3>2. n \in 1..Len(b) /\ n \in Nat
      BY <1>1, <2>2
    <3>3. /\ a[SecondDigits + 1] = Point /\ Len(a) >= SecondDigits + 1 + FractionDigits
          /\ \A i \in 1..FractionDigits :
                a[SecondDigits + 1 + i] = Digits(Fraction(x), FractionDigits)[i]
      BY <2>4, IsoChars
    <3>4. \A i \in 1..FractionDigits :
                b[SecondDigits + 1 + i] = Digits(Fraction(y), FractionDigits)[i]
      <4>1. Fraction(y) # 0
        BY <1>2, <2>1
      <4> QED  BY <4>1, IsoChars
    <3>5. a[n] < b[n]
      BY <3>1, <3>3, <3>4
    <3>6. ASSUME NEW i \in 1..n - 1
          PROVE  i <= Len(a) /\ a[i] = b[i]
      <4>1. i <= Len(a)
        BY <1>1, <2>2, <3>3
      <4>2. CASE i <= SecondDigits
        BY <1>1, <2>2, <4>2
      <4>3. CASE i = SecondDigits + 1
        BY <2>2, <3>3, <4>3
      <4>4. CASE i > SecondDigits + 1
        <5> DEFINE d == i - (SecondDigits + 1)
        <5>1. d \in 1..j - 1 /\ d \in 1..FractionDigits /\ i = SecondDigits + 1 + d
          BY <1>1, <4>4
        <5> HIDE DEF d
        <5>2. a[i] = b[i]
          BY <3>1, <3>3, <3>4, <5>1
        <5> QED  BY <4>1, <5>2
      <4> QED  BY <1>1, <4>1, <4>2, <4>3, <4>4
    <3> QED  BY <3>2, <3>5, <3>6 DEF TextBefore
  <2> QED  BY <2>3, <2>4
<1> QED  BY <1>2, <1>3, <1>4, <1>5

\* No text is before one that is up to it.
LEMMA NotBoth ==
    ASSUME NEW a \in Seq(Nat), NEW b \in Seq(Nat), TextBefore(a, b), TextUpTo(b, a)
    PROVE  FALSE
<1>1. PICK n \in 1..Len(b) : /\ \A i \in 1..n - 1 : i <= Len(a) /\ a[i] = b[i]
                             /\ n > Len(a) \/ a[n] < b[n]
  BY DEF TextBefore
<1>2. Len(a) \in Nat /\ Len(b) \in Nat
  OBVIOUS
<1>3. (\A i \in 1..Len(a) : a[i] \in Nat) /\ \A i \in 1..Len(b) : b[i] \in Nat
  OBVIOUS
<1>4. CASE a = b
  BY <1>1, <1>2, <1>3, <1>4
<1>5. CASE TextBefore(b, a)
  <2>1. PICK m \in 1..Len(a) : /\ \A i \in 1..m - 1 : i <= Len(b) /\ b[i] = a[i]
                               /\ m > Len(b) \/ b[m] < a[m]
    BY <1>5 DEF TextBefore
  <2>2. CASE n < m
    <3>1. n \in 1..m - 1 /\ n \in 1..Len(a)
      BY <1>1, <1>2, <2>1, <2>2
    <3> QED  BY <1>1, <1>2, <1>3, <2>1, <3>1
  <2>3. CASE m < n
    <3>1. m \in 1..n - 1 /\ m \in 1..Len(b)
      BY <1>1, <1>2, <2>1, <2>3
    <3> QED  BY <1>1, <1>2, <1>3, <2>1, <3>1
  <2>4. CASE n = m
    BY <1>1, <1>2, <1>3, <2>1, <2>4
  <2> QED  BY <1>2, <2>2, <2>3, <2>4
<1> QED  BY <1>4, <1>5 DEF TextUpTo

\* Texts compare as the times they are written for.
LEMMA TextsCompare ==
    ASSUME NEW x \in Writable, NEW y \in Writable
    PROVE  UpTo(x, y) <=> x <= y
<1>1. x \in Int /\ y \in Int /\ IsoFormat(x) \in Seq(Nat) /\ IsoFormat(y) \in Seq(Nat)
  BY IsoChars DEF Writable
<1>2. CASE x < y
  BY <1>1, <1>2, EarlierBefore DEF UpTo, TextUpTo
<1>3. CASE x = y
  BY <1>1, <1>3 DEF UpTo, TextUpTo
<1>4. CASE y < x
  <2>1. TextBefore(IsoFormat(y), IsoFormat(x))
    BY <1>4, EarlierBefore
  <2>2. ~ UpTo(x, y)
    BY <1>1, <2>1, NotBoth DEF UpTo
  <2> QED  BY <1>1, <1>4, <2>2
<1> QED  BY <1>1, <1>2, <1>3, <1>4

----------------------------------------------------------------------------
(* The columns.                                                               *)

\* A row's times are no further ahead of the clock than the settings put them.
DatedRow(row) ==
    /\ row.created_at <= clock
    /\ row.expires_at <= clock + RetentionSeconds
    /\ row.lease_owner # NoWorker => row.lease_expires_at <= clock + LeaseSeconds

Dated == clock \in 0..MaxTime /\ \A t \in DOMAIN tasks : DatedRow(tasks[t])

\* A row that keeps its dates, or is leased now, stays dated.
LEMMA RowStaysDated ==
    ASSUME NEW row \in TaskRow, NEW new, clock \in Nat, clock' \in Nat, clock <= clock',
           DatedRow(row),
           new.created_at = row.created_at, new.expires_at = row.expires_at,
           \/ new.lease_owner = NoWorker
           \/ new.lease_owner = row.lease_owner /\ new.lease_expires_at = row.lease_expires_at
           \/ \E now \in 0..clock : new.lease_expires_at = now + LeaseSeconds
    PROVE  DatedRow(new)'
<1>1. row.created_at \in Nat /\ row.expires_at \in Nat
      /\ RetentionSeconds \in Nat /\ LeaseSeconds \in Nat
  BY SettingsAssumption DEF TaskRow
<1>2. row.lease_expires_at \in Nat \cup {NoTime}
  BY DEF TaskRow
<1> QED  BY <1>1, <1>2 DEF DatedRow, NoTime

\* What a transaction may do to the dates of the rows.
LEMMA StepDated == IInv /\ Dated /\ [Next]_vars => Dated'
<1> SUFFICES ASSUME IInv, Dated, [Next]_vars PROVE Dated'
  OBVIOUS
<1>0. /\ clock \in Nat /\ MaxTime \in Nat /\ clock <= MaxTime
      /\ \A t \in DOMAIN tasks : tasks[t] \in TaskRow /\ DatedRow(tasks[t])
  BY GoodTasks, SettingsAssumption DEF IInv, Dated, Good
<1>1. CASE Tick
  <2>1. clock' \in 0..MaxTime /\ clock <= clock' /\ clock' \in Nat /\ tasks' = tasks
    BY <1>0, <1>1 DEF Tick
  <2>2. \A t \in DOMAIN tasks : DatedRow(tasks[t])'
    BY <1>0, <2>1, RowStaysDated
  <2> QED  BY <2>1, <2>2 DEF Dated, DatedRow
<1>2. CASE UNCHANGED vars
  BY <1>2 DEF vars, Dated, DatedRow
<1>3. ASSUME NEW now \in 0..clock, NEW t \in TaskId, NEW o \in OwnerId, NEW n \in 1..MaxItems,
             CreateTask(t, o, n, now)
      PROVE  Dated'
  <2>1. /\ clock' = clock /\ DOMAIN tasks' = DOMAIN tasks \cup {t}
        /\ tasks'[t] = NewTask(o, n, now)
        /\ \A u \in DOMAIN tasks : u # t => tasks'[u] = tasks[u]
    BY <1>3 DEF CreateTask
  <2>2. DatedRow(NewTask(o, n, now))
    BY <1>0, SettingsAssumption DEF DatedRow, NewTask
  <2> QED  BY <1>0, <2>1, <2>2 DEF Dated, DatedRow
<1>4. ASSUME NEW t \in DOMAIN tasks, NEW row,
             tasks' = [tasks EXCEPT ![t] = row], clock' = clock,
             row.created_at = tasks[t].created_at, row.expires_at = tasks[t].expires_at,
             \/ row.lease_owner = NoWorker
             \/ /\ row.lease_owner = tasks[t].lease_owner
                /\ row.lease_expires_at = tasks[t].lease_expires_at
             \/ \E now \in 0..clock : row.lease_expires_at = now + LeaseSeconds
      PROVE  Dated'
  <2>1. DatedRow(row)'
    BY <1>0, <1>4, RowStaysDated
  <2>2. DOMAIN tasks' = DOMAIN tasks /\ \A u \in DOMAIN tasks : u # t => tasks'[u] = tasks[u]
    BY <1>4
  <2>3. tasks'[t] = row
    BY <1>4 DEF IInv
  <2> QED  BY <1>0, <1>4, <2>1, <2>2, <2>3 DEF Dated, DatedRow
<1>5. ASSUME NEW now \in 0..clock, NEW w \in WorkerId, NEW t \in DOMAIN tasks, Work(w, t, now)
      PROVE  Dated'
  <2>0. tasks[t] \in TaskRow
    BY <1>0
  <2>1. CASE ClaimTask(t, w, now)
    <3>1. LET row == Claimed(tasks[t], w, now)
          IN  /\ row.created_at = tasks[t].created_at /\ row.expires_at = tasks[t].expires_at
              /\ row.lease_expires_at = now + LeaseSeconds
      BY <2>0 DEF Claimed, TaskRow
    <3> QED  BY <1>4, <2>1, <3>1 DEF ClaimTask
  <2>2. CASE RenewLease(t, w, now)
    <3> DEFINE row == [tasks[t] EXCEPT !.lease_expires_at = now + LeaseSeconds,
                                       !.updated_at = now]
    <3>1. /\ row.created_at = tasks[t].created_at /\ row.expires_at = tasks[t].expires_at
          /\ row.lease_expires_at = now + LeaseSeconds
      BY <2>0 DEF TaskRow
    <3>2. tasks' = [tasks EXCEPT ![t] = row] /\ clock' = clock
      BY <2>2 DEF RenewLease, IInv
    <3> HIDE DEF row
    <3> QED  BY <1>4, <3>1, <3>2
  <2>3. ASSUME NEW p, ClaimNextItem(t, w, p, now)
        PROVE  Dated'
    BY <2>3 DEF ClaimNextItem, Dated, DatedRow
  <2>4. ASSUME NEW p, NEW r, FinalizeItem(t, w, p, r, now)
        PROVE  Dated'
    <3> DEFINE row == Advanced(tasks[t], r, now)
    <3>1. /\ row.created_at = tasks[t].created_at /\ row.expires_at = tasks[t].expires_at
          /\ \/ row.lease_owner = NoWorker
             \/ /\ row.lease_owner = tasks[t].lease_owner
                /\ row.lease_expires_at = tasks[t].lease_expires_at
      BY <2>0 DEF Advanced, TaskRow
    <3> HIDE DEF row
    <3>2. tasks' = [tasks EXCEPT ![t] = row] /\ clock' = clock
      BY <2>4 DEF FinalizeItem, row
    <3> QED  BY <1>4, <3>1, <3>2
  <2>5. CASE FailTask(t, w, now)
    <3> DEFINE row == GivenUp(tasks[t], now)
    <3>1. /\ row.created_at = tasks[t].created_at /\ row.expires_at = tasks[t].expires_at
          /\ row.lease_owner = NoWorker
      BY <2>0 DEF GivenUp, TaskRow
    <3> HIDE DEF row
    <3>2. tasks' = [tasks EXCEPT ![t] = row] /\ clock' = clock
      BY <2>5 DEF FailTask, row
    <3> QED  BY <1>4, <3>1, <3>2
  <2> QED  BY <1>5, <2>1, <2>2, <2>3, <2>4, <2>5 DEF Work
<1>6. ASSUME NEW now \in 0..clock, MaintainRetention(now)
      PROVE  Dated'
  <2>1. /\ clock' = clock /\ DOMAIN tasks' \subseteq DOMAIN tasks
        /\ \A t \in DOMAIN tasks' : tasks'[t] = tasks[t] \/ tasks'[t] = Purged(tasks[t], now)
    BY <1>6 DEF MaintainRetention
  <2>2. ASSUME NEW t \in DOMAIN tasks'
        PROVE  DatedRow(tasks[t])' 
    <3>1. tasks[t] \in TaskRow /\ DatedRow(tasks[t])
      BY <1>0, <2>1
    <3>2. CASE tasks'[t] = tasks[t]
      BY <2>1, <3>1, <3>2 DEF DatedRow
    <3>3. CASE tasks'[t] = Purged(tasks[t], now)
      <4> DEFINE row == Purged(tasks[t], now)
      <4>1. /\ row.created_at = tasks[t].created_at /\ row.expires_at = tasks[t].expires_at
            /\ row.lease_owner = NoWorker
        BY <3>1 DEF Purged, TaskRow
      <4> HIDE DEF row
      <4>2. tasks'[t] = row
        BY <3>3 DEF row
      <4> QED  BY <1>0, <2>1, <3>1, <4>1, <4>2 DEF DatedRow
    <3> QED  BY <2>1, <3>2, <3>3
  <2> QED  BY <1>0, <2>1, <2>2 DEF Dated
<1> QED  BY <1>1, <1>2, <1>3, <1>5, <1>6 DEF Next, Submission

\* The columns always hold times a text can show.
LEMMA AlwaysDated == Spec => []Dated
<1>1. Init => Dated
  BY SettingsAssumption DEF Init, Dated
<1> QED  BY <1>1, StepDated, Invariance, PTL DEF Spec

\* Every time in a column, and every time it is compared with, can be written.
LEMMA DatedCompare == IInv /\ Dated => TimesCompareAsText
<1> SUFFICES ASSUME IInv, Dated, NEW t \in DOMAIN tasks, NEW now \in 0..clock
             PROVE  /\ tasks[t].lease_owner # NoWorker =>
                          (UpTo(tasks[t].lease_expires_at, now)
                              <=> tasks[t].lease_expires_at <= now)
                    /\ UpTo(tasks[t].expires_at, now) <=> tasks[t].expires_at <= now
                    /\ now >= TombstoneSeconds =>
                          (UpTo(tasks[t].expires_at, now - TombstoneSeconds)
                              <=> tasks[t].expires_at <= now - TombstoneSeconds)
                    /\ \A u \in DOMAIN tasks :
                          UpTo(tasks[t].created_at, tasks[u].created_at)
                              <=> tasks[t].created_at <= tasks[u].created_at
  BY DEF TimesCompareAsText
<1>1. /\ Power[Width] \in Nat /\ MaxTime \in Nat /\ clock \in Nat /\ clock <= MaxTime
      /\ RetentionSeconds \in Nat /\ TombstoneSeconds \in Nat /\ LeaseSeconds \in Nat
      /\ MaxTime + RetentionSeconds < Power[Width] /\ MaxTime + LeaseSeconds < Power[Width]
  BY SettingsAssumption, TimesAssumption, PowerPositive, Widths DEF Dated, Width
<1>2. \A x \in Nat : x <= MaxTime + RetentionSeconds \/ x <= MaxTime + LeaseSeconds
                        => x \in Writable
  BY <1>1 DEF Writable
<1>3. ASSUME NEW u \in DOMAIN tasks
      PROVE  /\ tasks[u].created_at \in Writable /\ tasks[u].expires_at \in Writable
             /\ tasks[u].lease_owner # NoWorker => tasks[u].lease_expires_at \in Writable
  <2>1. tasks[u] \in TaskRow /\ Leased(tasks[u], items[u]) /\ DatedRow(tasks[u])
    BY GoodTasks DEF Dated, Good
  <2>2. /\ tasks[u].created_at \in Nat /\ tasks[u].expires_at \in Nat
        /\ tasks[u].lease_owner # NoWorker => tasks[u].lease_expires_at \in Nat
    BY <2>1 DEF TaskRow, Leased
  <2> QED  BY <1>1, <1>2, <2>1, <2>2 DEF DatedRow
<1>4. now \in Writable /\ (now >= TombstoneSeconds => now - TombstoneSeconds \in Writable)
  BY <1>1, <1>2
<1> QED  BY <1>3, <1>4, TextsCompare

\* Every comparison the task store makes on the texts of times comes out as on
\* the times, whatever the widths and the settings.
THEOREM TimesCompare == Spec => []TimesCompareAsText
BY Invariance, AlwaysDated, DatedCompare, PTL
=============================================================================
