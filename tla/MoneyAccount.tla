---------------------------- MODULE MoneyAccount ----------------------------
(***************************************************************************)
(* An account kept with internal/money: amounts are read from text, added  *)
(* and subtracted, and written out and read back.                          *)
(***************************************************************************)
EXTENDS Money

CONSTANTS
    Wholes,    \* whole parts that occur in input texts
    Fractions  \* decimal digits that occur in input texts

ASSUME TextAssumption == Wholes \subseteq Nat /\ Fractions \subseteq Fraction

\* An account is summed up amount by amount, as summaries and groups are, and
\* may be written out and read back (report and database hold decimal text).
VARIABLES
    acc,    \* the int64 kept by the program, or the error
    exact   \* the integer it should be

vars == <<acc, exact>>

Init == acc = 0 /\ exact = 0

ReadAmount(t) ==
    /\ acc' = ParseCents(t)
    /\ exact' = Spells(t)

AddAmount(t) ==
    /\ acc # Overflow
    /\ ParseCents(t) # Overflow
    /\ acc' = Add(acc, ParseCents(t))
    /\ exact' = exact + Spells(t)

SubAmount(t) ==
    /\ acc # Overflow
    /\ ParseCents(t) # Overflow
    /\ acc' = Sub(acc, ParseCents(t))
    /\ exact' = exact - Spells(t)

StoreAndLoad ==
    /\ acc # Overflow
    /\ acc' = ParseCents(FormatCents(acc))
    /\ UNCHANGED exact

Next ==
    \/ \E t \in Text(Wholes, Fractions) : ReadAmount(t) \/ AddAmount(t) \/ SubAmount(t)
    \/ StoreAndLoad

Spec == Init /\ [][Next]_vars

\* money.ParseCents, Add, Sub and FormatCents keep an amount exact and give up
\* only when the exact value is not an int64: no wrap-around, no rejected amount
\* that would fit, no value changed by formatting and parsing, MinInt64 included.
Exact == acc = IF exact \in Int64 THEN exact ELSE Overflow
=============================================================================
