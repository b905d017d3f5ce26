---------------------------- MODULE MoneyProofs -----------------------------
(***************************************************************************)
(* internal/money is exact for every word size: each operation equals the  *)
(* integer operation, or reports overflow exactly when the result does not *)
(* fit the word.                                                           *)
(***************************************************************************)
EXTENDS MoneyAccount, TLAPS

\* The checked value of an integer: what every operation should return.
Checked(x) == IF x \in Int64 THEN x ELSE Overflow

\* A number below the word size is its own unsigned residue.
LEMMA UWrapFits ==
    ASSUME NEW x \in Uint64
    PROVE  UWrap(x) = x
  BY WordAssumption DEF UWrap, Uint64, WordSize

\* Add's guards are evaluated without overflow and are exact.
LEMMA AddExact ==
    ASSUME NEW a \in Int64, NEW b \in Int64
    PROVE  Add(a, b) = Checked(a + b)
  BY WordAssumption DEF Add, Checked, Wrap, Int64, MinInt, WordSize

\* So are Sub's.
LEMMA SubExact ==
    ASSUME NEW a \in Int64, NEW b \in Int64
    PROVE  Sub(a, b) = Checked(a - b)
  BY WordAssumption DEF Sub, Checked, Wrap, Int64, MinInt, WordSize

\* Up to two decimal digits are worth less than a unit.
LEMMA CentsRange ==
    ASSUME NEW f \in Fraction
    PROVE  CentsOf(f) \in 0..99
  <1>1. CASE f = <<>>
    BY <1>1 DEF CentsOf
  <1>2. ASSUME NEW d \in Digit, f = <<d>> PROVE CentsOf(f) \in 0..99
    BY <1>2 DEF CentsOf, Digit
  <1>3. ASSUME NEW d \in Digit, NEW e \in Digit, f = <<d, e>> PROVE CentsOf(f) \in 0..99
    BY <1>3 DEF CentsOf, Digit
  <1> QED
    <2>1. \/ f = <<>>
          \/ \E d \in Digit : f = <<d>>
          \/ \E d, e \in Digit : f = <<d, e>>
      BY DEF Fraction
    <2> QED BY <2>1, <1>1, <1>2, <1>3

\* ParseCents returns what its text spells, or refuses what does not fit.
LEMMA ParseExact ==
    ASSUME NEW t \in Text(Nat, Fraction)
    PROVE  ParseCents(t) = Checked(Spells(t))
  <1> DEFINE frac == CentsOf(t.frac)
             limit == IF t.neg THEN MaxInt + 1 ELSE MaxInt
             m == 100 * t.whole + frac
  <1>1. t.neg \in BOOLEAN /\ t.whole \in Nat /\ frac \in 0..99
    BY CentsRange DEF Text
  <1>2. MaxInt \in Nat /\ MaxInt >= 100
    BY WordAssumption
  <1> HIDE DEF frac
  <1>3. (t.whole > (limit - frac) \div 100) <=> m > limit
    BY <1>1, <1>2
  <1>4. Spells(t) = IF t.neg THEN -m ELSE m
    BY DEF Spells, frac
  <1>5. Spells(t) \in Int64 <=> m <= limit
    BY <1>1, <1>2, <1>4 DEF Int64, MinInt
  <1>6. CASE m > limit
    <2>1. ParseCents(t) = Overflow
      BY <1>3, <1>6 DEF ParseCents, frac
    <2> QED BY <2>1, <1>5, <1>6, <1>1, <1>2 DEF Checked
  <1>7. CASE m <= limit
    <2>1. t.whole \in Uint64 /\ t.whole * 100 \in Uint64 /\ t.whole * 100 + frac \in Uint64
      BY <1>1, <1>2, <1>7 DEF Uint64, WordSize
    <2>2. UWrap(UWrap(t.whole * 100) + frac) = m
      <3>1. UWrap(t.whole * 100) = t.whole * 100
        BY <2>1, UWrapFits
      <3>2. UWrap(t.whole * 100 + frac) = t.whole * 100 + frac
        BY <2>1, UWrapFits
      <3> QED BY <3>1, <3>2, <1>1
    <2>3. ~(t.whole \notin Uint64 \/ frac > limit \/ t.whole > (limit - frac) \div 100)
      BY <2>1, <1>1, <1>2, <1>3, <1>7
    <2>4. ParseCents(t) = IF ~t.neg THEN AsInt64(m)
                          ELSE IF m = MaxInt + 1 THEN Wrap(-MaxInt - 1)
                          ELSE Negated(m)
      BY <2>2, <2>3, Zenon DEF ParseCents, frac
    <2>5. ParseCents(t) = Spells(t)
      BY <2>4, <1>1, <1>2, <1>4, <1>7 DEF AsInt64, Negated, Wrap, WordSize, MinInt
    <2> QED BY <2>5, <1>5, <1>7 DEF Checked
  <1> QED BY <1>6, <1>7, <1>1, <1>2

\* FormatCents writes a text that spells the amount, MinInt64 included.
LEMMA FormatExact ==
    ASSUME NEW v \in Int64
    PROVE  /\ FormatCents(v) \in Text(Nat, Fraction)
           /\ Spells(FormatCents(v)) = v
  <1> DEFINE m == IF v < 0 THEN -v ELSE v
             c == m % 100
  <1>1. MaxInt \in Nat /\ MaxInt >= 100 /\ v \in Int /\ m \in Nat
    BY WordAssumption DEF Int64, MinInt
  <1>2. Magnitude(v) = m
    <2>1. CASE v < 0
      <3>1. Wrap(-(Wrap(v + 1))) + 1 = m /\ m \in Uint64
        BY <2>1, <1>1 DEF Wrap, Int64, MinInt, WordSize, Uint64
      <3> QED BY <3>1, <2>1, UWrapFits DEF Magnitude
    <2> QED BY <2>1 DEF Magnitude
  <1> HIDE DEF m
  <1>3. c \in 0..99 /\ m = 100 * (m \div 100) + c /\ m \div 100 \in Nat
    BY <1>1
  <1> HIDE DEF c
  <1>4. c \div 10 \in Digit /\ c % 10 \in Digit /\ c = 10 * (c \div 10) + (c % 10)
    BY <1>3 DEF Digit
  <1>5. FormatCents(v) = [neg |-> v < 0, whole |-> m \div 100, frac |-> <<c \div 10, c % 10>>]
    BY <1>2 DEF FormatCents, c
  <1>6. <<c \div 10, c % 10>> \in Fraction
    BY <1>4 DEF Fraction
  <1>7. (v < 0) \in BOOLEAN
    BY <1>1
  <1>8. FormatCents(v) \in Text(Nat, Fraction)
    BY <1>3, <1>5, <1>6, <1>7 DEF Text
  <1>9. CentsOf(<<c \div 10, c % 10>>) = c
    BY <1>4 DEF CentsOf
  <1>10. Spells(FormatCents(v)) = IF v < 0 THEN -m ELSE m
    <2>1. /\ FormatCents(v).neg = (v < 0)
          /\ FormatCents(v).whole = m \div 100
          /\ FormatCents(v).frac = <<c \div 10, c % 10>>
      <3>1. ASSUME NEW t, NEW n, NEW w, NEW f, t = [neg |-> n, whole |-> w, frac |-> f]
            PROVE  t.neg = n /\ t.whole = w /\ t.frac = f
        BY <3>1
      <3> QED BY <3>1, <1>5
    <2>2. 100 * FormatCents(v).whole + CentsOf(FormatCents(v).frac) = m
      <3>1. CentsOf(FormatCents(v).frac) = c
        BY <2>1, <1>9, Zenon
      <3> QED BY <2>1, <3>1, <1>3
    <2>3. Spells(FormatCents(v)) = IF FormatCents(v).neg THEN -m ELSE m
      BY <2>2, Zenon DEF Spells
    <2> QED BY <2>1, <2>3, Zenon
  <1> QED BY <1>8, <1>10, <1>1 DEF m

\* For every word size, an account kept with internal/money is exact, and an
\* operation fails only when its exact result is not an int64 (Exact).
THEOREM MoneyExact == Spec => []Exact
  <1> DEFINE Inv == exact \in Int /\ acc = Checked(exact)
  <1>0. \A x : Checked(x) # Overflow => x \in Int64 /\ Checked(x) = x
    BY DEF Checked
  <1>a. ASSUME NEW t \in Text(Wholes, Fractions)
        PROVE  Spells(t) \in Int /\ ParseCents(t) = Checked(Spells(t))
    <2>1. t \in Text(Nat, Fraction)
      BY TextAssumption DEF Text
    <2>2. CentsOf(t.frac) \in 0..99 /\ t.whole \in Nat
      BY <2>1, CentsRange DEF Text
    <2> QED BY <2>1, <2>2, ParseExact DEF Spells
  <1>1. Init => Inv
    BY WordAssumption DEF Init, Checked, Int64, MinInt
  <1>2. Inv /\ [Next]_vars => Inv'
    <2> SUFFICES ASSUME Inv, [Next]_vars PROVE Inv'
      OBVIOUS
    <2> USE DEF Inv
    <2>1. ASSUME NEW t \in Text(Wholes, Fractions), ReadAmount(t) PROVE Inv'
      BY <2>1, <1>a DEF ReadAmount, Checked, Int64, MinInt
    <2>2. ASSUME NEW t \in Text(Wholes, Fractions), AddAmount(t) PROVE Inv'
      <3>1. acc \in Int64 /\ acc = exact /\ ParseCents(t) \in Int64 /\ ParseCents(t) = Spells(t)
        BY <2>2, <1>0, <1>a DEF AddAmount
      <3>2. acc' = Checked(exact + Spells(t)) /\ exact' = exact + Spells(t)
        BY <2>2, <3>1, AddExact DEF AddAmount
      <3> QED BY <3>2, <1>a DEF Checked, Int64, MinInt
    <2>3. ASSUME NEW t \in Text(Wholes, Fractions), SubAmount(t) PROVE Inv'
      <3>1. acc \in Int64 /\ acc = exact /\ ParseCents(t) \in Int64 /\ ParseCents(t) = Spells(t)
        BY <2>3, <1>0, <1>a DEF SubAmount
      <3>2. acc' = Checked(exact - Spells(t)) /\ exact' = exact - Spells(t)
        BY <2>3, <3>1, SubExact DEF SubAmount
      <3> QED BY <3>2, <1>a DEF Checked, Int64, MinInt
    <2>4. ASSUME StoreAndLoad PROVE Inv'
      <3>1. acc \in Int64 /\ acc = exact
        BY <2>4, <1>0 DEF StoreAndLoad
      <3>2. acc' = acc /\ exact' = exact
        BY <2>4, <3>1, FormatExact, ParseExact DEF StoreAndLoad, Checked
      <3> QED BY <3>1, <3>2 DEF Checked, Int64, MinInt
    <2>5. CASE UNCHANGED vars
      BY <2>5 DEF vars, Checked, Int64, MinInt
    <2> QED BY <2>1, <2>2, <2>3, <2>4, <2>5 DEF Next
  <1>3. Inv => Exact
    BY DEF Exact, Checked
  <1> QED BY <1>1, <1>2, <1>3, PTL DEF Spec
=============================================================================
