SPECIFICATION Spec
CONSTANTS
    MaxInt = 511
    Overflow = Overflow
    Wholes <- MCWholes
    Fractions <- MCFractions
INVARIANT
    Exact
