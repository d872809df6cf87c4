------------------------------- MODULE Numbers -------------------------------
(***************************************************************************)
(* Integers and doubles, and how libsl3 turns one into the other           *)
(* (src/src/sl3/value.cpp, src/src/sl3/utils.hpp).                         *)
(*                                                                         *)
(* A double is the integer that counts its quanta, the distances between   *)
(* the smallest doubles; One is the number of quanta in 1.0.  How numbers  *)
(* that are no doubles are rounded is the processor's choice: Rounded.     *)
(***************************************************************************)
EXTENDS Integers

CONSTANTS
    IntMax,      \* the greatest int64_t
    NarrowMax,   \* the greatest int
    One,
    Precision,   \* 2^(digits - 1), the reciprocal of the epsilon of double
    MaxReal,     \* the greatest finite double
    NaN,
    Rounded(_)   \* the double for a number of quanta

Inf == MaxReal + 1
Finite == -MaxReal..MaxReal
Doubles == {x \in Finite : Rounded(x) = x} \cup {Inf, -Inf, NaN}

IntsUpTo(max) == -max - 1..max
Ints == IntsUpTo(IntMax)

ASSUME FormatAssumption ==
    /\ IntMax \in Nat /\ NarrowMax \in 0..IntMax
    /\ One \in Nat \ {0} /\ Precision \in Nat \ {0}
    /\ MaxReal \in Nat /\ (IntMax + 1) * One <= MaxReal
    /\ NaN \notin Int

\* Rounding to the nearest double goes up with the number, is the same on both sides
\* of zero, leaves doubles and the integers that an int holds alone, and makes whole
\* numbers of whole numbers.
ASSUME RoundingAssumption ==
    /\ \A x \in Finite : Rounded(x) \in Finite /\ Rounded(Rounded(x)) = Rounded(x)
    /\ \A x, y \in Finite : x <= y => Rounded(x) <= Rounded(y)
    /\ \A x \in (-2 * MaxReal)..(2 * MaxReal) : Rounded(x) \in Int /\ Rounded(-x) = -Rounded(x)
    /\ \A n \in Ints : Rounded(n * One) % One = 0
    /\ \A n \in IntsUpTo(NarrowMax) \cup {-IntMax - 1, IntMax + 1} : Rounded(n * One) = n * One

-----------------------------------------------------------------------------
(* Doubles.                                                                *)

AsReal(n) == Rounded(n * One)

RealLess(x, y) == NaN \notin {x, y} /\ x < y
RealEqual(x, y) == NaN \notin {x, y} /\ x = y

Magnitude(x) == IF x < 0 THEN -x ELSE x

IsFinite(x) == x \notin {Inf, -Inf, NaN}

\* Where MaxReal is not enough, x + y and x - y are infinite.  For infinite x or y
\* one side of the comparison is infinite too, or NaN, and it fails.
AlmostEqual(x, y) ==
    /\ IsFinite(x) /\ IsFinite(y)
    /\ LET distance == Magnitude(Rounded(x - y))
           sum      == Magnitude(Rounded(x + y))
       IN  \/ distance <= MaxReal /\ (distance * Precision < 2 * sum \/ sum > MaxReal)
           \/ distance < Precision      \* in quanta the least normal double

-----------------------------------------------------------------------------
(* Conversions.                                                            *)

\* Trunc takes something away, or leaves infinity - infinity.
LosesFractionBug(x) == ~IsFinite(x)   \* Bug: 1.5 becomes 1
LosesFraction(x) == ~IsFinite(x) \/ x % One # 0

\* The limits of the integer type are converted to double before the comparison.
OutOfLimitsBug(x, max) == RealLess(AsReal(max), x)   \* Bug: no lower limit
OutOfLimits(x, max) == RealLess(x, AsReal(-max - 1)) \/ RealLess(AsReal(max), x)

\* Where the cast in losslessConvert1 is undefined.
Unrepresentable(x, max) == x \div One \notin IntsUpTo(max)
=============================================================================
