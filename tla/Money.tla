--------------------------------- MODULE Money ---------------------------------
(***************************************************************************)
(* The integer arithmetic of services/core/internal/money: rates in basis  *)
(* points, the two rounding rules pricing uses, and the range of a         *)
(* mantissa.  All amounts are in one currency and exponent.                *)
(***************************************************************************)
EXTENDS Integers

\* The greatest mantissa: 2^63 - 1 in the code, smaller where TLC checks.
CONSTANT MaxMantissa

ASSUME MantissaBound == MaxMantissa \in Nat

BasisPointScale == 10000

\* Arithmetic that leaves this range ends in ErrOverflow.
Fits(amount) == amount \in -MaxMantissa - 1 .. MaxMantissa

Magnitude(n) == IF n < 0 THEN -n ELSE n
Signed(n, magnitude) == IF n < 0 THEN -magnitude ELSE magnitude
Larger(a, b) == IF a < b THEN b ELSE a
Smaller(a, b) == IF a > b THEN b ELSE a

\* ApplyRate with RoundDown: toward zero.
RateDown(amount, bp) ==
    Signed(amount * bp, Magnitude(amount * bp) \div BasisPointScale)

\* ApplyRate with RoundHalfEven: to the nearest, an exact half to the even one.
RateHalfEven(amount, bp) ==
    LET exact == Magnitude(amount * bp)
        quotient == exact \div BasisPointScale
        twice == 2 * (exact % BasisPointScale)
        up == twice > BasisPointScale \/ (twice = BasisPointScale /\ quotient % 2 = 1)
    IN  Signed(amount * bp, IF up THEN quotient + 1 ELSE quotient)
=============================================================================
