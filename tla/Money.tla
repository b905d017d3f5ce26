------------------------------- MODULE Money --------------------------------
(***************************************************************************)
(* internal/money: amounts as checked signed cents.  The machine word is a *)
(* parameter: MaxInt stands for 2^63 - 1, and every operation of the code  *)
(* is done modulo the word size where the hardware would do so.            *)
(***************************************************************************)
EXTENDS Integers, Sequences

CONSTANTS
    MaxInt,    \* the largest int64
    Overflow   \* the error value

ASSUME WordAssumption == MaxInt \in Nat /\ MaxInt >= 100

ASSUME OverflowAssumption == Overflow \notin Int

MinInt == -MaxInt - 1
Int64 == MinInt..MaxInt
WordSize == 2 * (MaxInt + 1)
Uint64 == 0..(WordSize - 1)

\* Two's complement: what the sum or difference of two int64 becomes.
Wrap(x) == IF x > MaxInt THEN x - WordSize ELSE IF x < MinInt THEN x + WordSize ELSE x

\* What an arithmetic result becomes as a uint64.
UWrap(x) == x % WordSize

-----------------------------------------------------------------------------
Add(a, b) ==
    IF \/ b > 0 /\ a > Wrap(MaxInt - b)
       \/ b < 0 /\ a < Wrap(Wrap(-MaxInt - 1) - b)
    THEN Overflow
    ELSE Wrap(a + b)

Sub(a, b) ==
    IF \/ b > 0 /\ a < Wrap(Wrap(-MaxInt - 1) + b)
       \/ b < 0 /\ a > Wrap(MaxInt + b)
    THEN Overflow
    ELSE Wrap(a - b)

-----------------------------------------------------------------------------
\* An amount text that amountPattern accepts, grouping commas removed: a sign,
\* the number its whole digits spell, and up to two decimal digits.
Digit == 0..9
Fraction == {<<>>} \cup {<<d>> : d \in Digit} \cup {<<d, e>> : d, e \in Digit}
Text(wholes, fractions) == [neg : BOOLEAN, whole : wholes, frac : fractions]

\* The value the text spells, in cents.
CentsOf(frac) ==
    CASE Len(frac) = 0 -> 0
      [] Len(frac) = 1 -> 10 * frac[1]
      [] Len(frac) = 2 -> 10 * frac[1] + frac[2]

Spells(t) ==
    LET magnitude == 100 * t.whole + CentsOf(t.frac)
    IN  IF t.neg THEN -magnitude ELSE magnitude

\* int64(m) and -int64(m) of a uint64 m.
AsInt64(m) == IF m > MaxInt THEN m - WordSize ELSE m
Negated(m) == Wrap(-AsInt64(m))

\* strconv.ParseUint refuses a whole part beyond uint64.
ParseCents(t) ==
    LET frac == CentsOf(t.frac)
        limit == IF t.neg THEN MaxInt + 1 ELSE MaxInt
    IN  IF t.whole \notin Uint64 \/ frac > limit \/ t.whole > (limit - frac) \div 100
        THEN Overflow
        ELSE LET magnitude == UWrap(UWrap(t.whole * 100) + frac)
             IN  IF ~t.neg THEN AsInt64(magnitude)
                 ELSE IF magnitude = MaxInt + 1 THEN Wrap(-MaxInt - 1)
                 ELSE Negated(magnitude)

\* -(v + 1) + 1 is done in uint64, because -MinInt64 is not an int64.
Magnitude_Naive(v) == IF v < 0 THEN Wrap(-v) ELSE v
Magnitude(v) == IF v < 0 THEN UWrap(Wrap(-(Wrap(v + 1))) + 1) ELSE v

FormatCents(v) ==
    [neg |-> v < 0,
     whole |-> Magnitude(v) \div 100,
     frac |-> <<(Magnitude(v) % 100) \div 10, (Magnitude(v) % 100) % 10>>]

=============================================================================
