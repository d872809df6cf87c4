---------------------------- MODULE NumericsProofs ----------------------------
(***************************************************************************)
(* Proofs about module Numerics, for every width of the integers, every    *)
(* format of the doubles and every monotone rounding: what conversions     *)
(* yield are Values, and the orders of the Values a program holds are      *)
(* orders.                                                                 *)
(***************************************************************************)
EXTENDS Numerics, OrdersProofs

-----------------------------------------------------------------------------
(* The orders, once more.                                                  *)

\* dbval_type_lt, for any two DbValues that are not NaN.
LEMMA DeclaredOrderStrict ==
    ASSUME NEW v \in Values, NEW w \in Values, ~IsNaN(v), ~IsNaN(w),
           NEW a \in Declared(v), NEW b \in Declared(w)
    PROVE  /\ dbval_type_lt(a, b) /\ dbval_type_lt(b, a) <=> Clash(a, b) \/ Clash(b, a)
           /\ ~dbval_type_lt(a, b) /\ ~dbval_type_lt(b, a) <=>
                \/ dbval_type_eq(a, b) /\ ~Blurred(v, w)
                \/ Infinite(v) /\ v = w
<1>. DEFINE p == DeclOrder[a.decl]
            q == DeclOrder[b.decl]
<1>1. /\ a.val = v /\ b.val = w
      /\ p \in Int /\ q \in Int /\ (p = q <=> a.decl = b.decl)
  <2>1. v.type \in {"Null", "Int", "Real", "Text", "Blob"} /\ w.type \in {"Null", "Int", "Real", "Text", "Blob"}
    BY ValueShapes
  <2>2. /\ a.val = v /\ b.val = w
        /\ a.decl \in {"Int", "Real", "Text", "Blob", "Variant"}
        /\ b.decl \in {"Int", "Real", "Text", "Blob", "Variant"}
    BY <2>1 DEF Declared
  <2>. QED BY <2>2 DEF DeclOrder
<1>2. value_type_eq(v, w) <=> value_type_eq(w, v)
  BY TypeEqualityIsSymmetric
<1>3. Blurred(v, w) <=> Blurred(w, v)
  <2>1. Blurred(v, w) <=> v.type = "Real" /\ v # w /\ value_type_eq(v, w)
    BY DEF Blurred, value_type_eq
  <2>2. Blurred(w, v) <=> w.type = "Real" /\ v # w /\ value_type_eq(w, v)
    BY DEF Blurred, value_type_eq
  <2>3. value_type_eq(v, w) => v.type = w.type
    BY DEF value_type_eq
  <2>. QED BY <1>2, <2>1, <2>2, <2>3
<1>4. ~(value_type_lt(v, w) /\ value_type_lt(w, v))
  BY TypeOrderIsStrictWeak
<1>5. value_type_eq(v, w) <=>
        \/ Blurred(v, w)
        \/ ~value_type_lt(v, w) /\ ~value_type_lt(w, v) /\ ~Infinite(v)
  BY TypeEqualityAndOrder
<1>6. Blurred(v, w) =>
        /\ v.data \in Int /\ w.data \in Int /\ v.data # w.data
        /\ value_type_lt(v, w) <=> v.data < w.data
        /\ value_type_lt(w, v) <=> w.data < v.data
  BY BlurredAreOrdered
<1>7. ~value_type_lt(v, w) /\ ~value_type_lt(w, v) => v = w
  BY TypeOrderIsTotal
<1>8. /\ dbval_type_lt(a, b) <=> value_type_lt(v, w) \/ (value_type_eq(v, w) /\ p < q)
      /\ dbval_type_lt(b, a) <=> value_type_lt(w, v) \/ (value_type_eq(v, w) /\ q < p)
      /\ dbval_type_eq(a, b) <=> p = q /\ value_type_eq(v, w)
  BY <1>1, <1>2 DEF dbval_type_lt, dbval_type_eq
<1>9. /\ Clash(a, b) <=> Blurred(v, w) /\ v.data < w.data /\ q < p
      /\ Clash(b, a) <=> Blurred(v, w) /\ w.data < v.data /\ p < q
  BY <1>1, <1>3 DEF Clash
<1>10. Infinite(v) /\ v = w => ~value_type_lt(v, w) /\ ~value_type_lt(w, v) /\ ~Blurred(v, w)
  BY <1>4 DEF Blurred
<1>11. p \in Int /\ q \in Int
  BY <1>1
<1>. HIDE DEF p, q
<1>12. dbval_type_lt(a, b) /\ dbval_type_lt(b, a) <=> Clash(a, b) \/ Clash(b, a)
  BY <1>4, <1>5, <1>6, <1>8, <1>9, <1>11
<1>13. ~dbval_type_lt(a, b) /\ ~dbval_type_lt(b, a) <=>
         \/ dbval_type_eq(a, b) /\ ~Blurred(v, w)
         \/ Infinite(v) /\ v = w
  BY <1>5, <1>6, <1>7, <1>8, <1>10, <1>11
<1>. QED BY <1>12, <1>13

-----------------------------------------------------------------------------
(* What conversions yield.                                                 *)

LEMMA NarrowIntsAreInts == IntsUpTo(NarrowMax) \subseteq Ints /\ IntsUpTo(IntMax) \subseteq Ints
BY FormatFacts DEF Ints, IntsUpTo

LEMMA NumberIsOrigin ==
    ASSUME NEW v \in Values
    PROVE  Number(v) \in Finite \cup {Inf, -Inf, NaN}
BY ValueShapes, IntsAreFinite DEF Number, Doubles

LEMMA WholeIsInt ==
    ASSUME NEW v \in Values, NEW max \in {IntMax, NarrowMax}, Refusal(v, max) = "none", ~Undefined(v, max)
    PROVE  Whole(v) \in Ints
<1>1. v.type \in {"Int", "Real"}
  BY ValueShapes DEF Refusal
<1>2. CASE v.type = "Int"
  BY <1>2, ValueShapes DEF Whole
<1>3. CASE v.type = "Real"
  BY <1>3, NarrowIntsAreInts DEF Whole, Undefined, Unrepresentable
<1>. QED BY <1>1, <1>2, <1>3

\* The limits of int64_t as doubles, which are exact.
LEMMA LimitsAreExact ==
    /\ AsReal(IntMax + 1) = (IntMax + 1) * One
    /\ AsReal(-IntMax - 1) = -((IntMax + 1) * One)
<1>1. Rounded((IntMax + 1) * One) = (IntMax + 1) * One
  BY RoundingAssumption, FormatFacts
<1>2. Rounded((-IntMax - 1) * One) = (-IntMax - 1) * One
  BY RoundingAssumption, FormatFacts
<1>3. (-IntMax - 1) * One = -((IntMax + 1) * One)
  BY FormatFacts
<1>. QED BY <1>1, <1>2, <1>3 DEF AsReal

\* Division by One, by which doubles are cut to integers.
LEMMA QuotientStaysBelow ==
    ASSUME NEW y \in Nat, NEW m \in Nat, y < m * One
    PROVE  y \div One \in Nat /\ y \div One < m
<1>1. One \in Nat /\ One > 0
  BY FormatFacts
<1>2. y = One * (y \div One) + (y % One) /\ (y % One) >= 0 /\ y \div One \in Nat
  BY <1>1
<1>3. One * (y \div One) < m * One
  BY <1>1, <1>2
<1>4. ASSUME m <= y \div One PROVE FALSE
  <2>1. m * One <= (y \div One) * One
    BY <1>1, <1>2, <1>4
  <2>. QED BY <1>1, <1>2, <1>3, <2>1
<1>. QED BY <1>2, <1>4

\* What sqlite makes of a number fits the type that it is read as.
LEMMA ColumnInt64IsInt ==
    ASSUME NEW v \in Values, ~IsNaN(v), v.type \notin {"Text", "Blob"}
    PROVE  ColumnInt64(v) \in Ints /\ ColumnInt64(v) \in Int
<1>1. CASE v.type \in {"Null", "Int"}
  BY <1>1, ValueShapes, FormatFacts DEF ColumnInt64, Ints, IntsUpTo
<1>2. CASE v.type = "Real"
  <2>1. v.data \in Int
    BY <1>2, ValueShapes DEF IsNaN
  <2>. DEFINE x == v.data
  <2>2. CASE x >= AsReal(IntMax + 1) \/ x <= AsReal(-IntMax - 1)
    BY <1>2, <2>2, FormatFacts DEF ColumnInt64, Ints, IntsUpTo
  <2>3. CASE ~(x >= AsReal(IntMax + 1)) /\ ~(x <= AsReal(-IntMax - 1))
    <3>1. x < (IntMax + 1) * One /\ -x < (IntMax + 1) * One
      BY <2>1, <2>3, LimitsAreExact, FormatFacts
    <3>2. ColumnInt64(v) = Truncated(x)
      BY <1>2, <2>3 DEF ColumnInt64
    <3>3. CASE x < 0
      <4>1. (-x) \div One \in Nat /\ (-x) \div One < IntMax + 1
        BY <2>1, <3>1, <3>3, QuotientStaysBelow, FormatFacts
      <4>. QED BY <3>2, <3>3, <4>1, FormatFacts DEF Truncated, Ints, IntsUpTo
    <3>4. CASE ~(x < 0)
      <4>1. x \div One \in Nat /\ x \div One < IntMax + 1
        BY <2>1, <3>1, <3>4, QuotientStaysBelow, FormatFacts
      <4>. QED BY <3>2, <3>4, <4>1, FormatFacts DEF Truncated, Ints, IntsUpTo
    <3>. QED BY <3>3, <3>4
  <2>. QED BY <2>2, <2>3
<1>. QED BY <1>1, <1>2, ValueShapes

LEMMA ColumnIntIsInt ==
    ASSUME NEW v \in Values, ~IsNaN(v), v.type \notin {"Text", "Blob"}
    PROVE  ColumnInt(v) \in IntsUpTo(NarrowMax) /\ ColumnInt(v) \in Ints
<1>. DEFINE width == 2 * (NarrowMax + 1)
<1>1. ColumnInt64(v) \in Int /\ NarrowMax \in Nat /\ IntMax \in Nat /\ NarrowMax <= IntMax
  BY ColumnInt64IsInt, FormatFacts
<1>2. (ColumnInt64(v) + NarrowMax + 1) % width \in 0..width - 1
  BY <1>1
<1>3. ColumnInt(v) \in IntsUpTo(NarrowMax)
  BY <1>1, <1>2 DEF ColumnInt, IntsUpTo
<1>. QED BY <1>3, NarrowIntsAreInts

LEMMA ColumnRealIsDouble ==
    ASSUME NEW v \in Values, v.type \notin {"Text", "Blob"}
    PROVE  ColumnReal(v) \in Doubles
<1>1. 0 \in Doubles
  <2>1. 0 \in IntsUpTo(NarrowMax) /\ 0 \in Ints /\ 0 * One = 0
    BY FormatFacts DEF IntsUpTo, Ints
  <2>. QED BY <2>1, AsRealIsDouble, RoundingAssumption DEF AsReal
<1>. QED BY <1>1, ValueShapes, AsRealIsDouble DEF ColumnReal, AsDouble

-----------------------------------------------------------------------------
(* The specification.                                                      *)

LEMMA PutKeepsTypes ==
    ASSUME NumericsTypeOK, NEW t \in Slots, NEW v \in Values,
           NEW origin \in Finite \cup {Inf, -Inf, NaN}, Put(t, v, origin)
    PROVE  held' \in [Slots -> [val : Values, origin : Finite \cup {Inf, -Inf, NaN}]]
BY DEF NumericsTypeOK, Put

LEMMA HeldValue ==
    ASSUME NumericsTypeOK, NEW s \in Slots
    PROVE  held[s].val \in Values /\ held[s].origin \in Finite \cup {Inf, -Inf, NaN}
BY DEF NumericsTypeOK

LEMMA BoundIsValue ==
    ASSUME NEW v \in Values, NEW w \in Bound(v)
    PROVE  w \in Values /\ ~IsNaN(w)
<1>1. Null \in Values /\ ~IsNaN(Null)
  BY ValuesAreMade DEF IsNaN, Null
<1>2. CASE IsNaN(v)
  BY <1>1, <1>2 DEF Bound, IsNaN
<1>3. CASE ~IsNaN(v)
  BY <1>1, <1>3 DEF Bound
<1>. QED BY <1>2, <1>3

LEMMA StepKeepsTypes == NumericsTypeOK /\ [Next]_vars => NumericsTypeOK'
<1>. SUFFICES ASSUME NumericsTypeOK, [Next]_vars PROVE NumericsTypeOK'
  OBVIOUS
<1>1. ASSUME NEW t \in Slots, NEW v \in Given, Construct(t, v) PROVE NumericsTypeOK'
  <2>1. v \in Values
    BY GivenAssumption
  <2>. QED BY <1>1, <2>1, NumberIsOrigin, PutKeepsTypes DEF Construct, Returned, NumericsTypeOK
<1>2. ASSUME NEW s \in Slots, NEW t \in Slots, NEW max \in {IntMax, NarrowMax}, TakeWhole(s, t, max)
      PROVE  NumericsTypeOK'
  <2>. DEFINE v == held[s].val
  <2>1. v \in Values /\ held[s].origin \in Finite \cup {Inf, -Inf, NaN} /\ Refusal(v, max) = "none"
    BY <1>2, HeldValue DEF TakeWhole
  <2>2. CASE Undefined(v, max)
    <3>1. PICK n \in {-max - 1, max} : Pass(s, t, Int64(n)) /\ last' = "undefined"
      BY <1>2, <2>2 DEF TakeWhole
    <3>2. n \in Ints
      BY FormatFacts DEF Ints, IntsUpTo
    <3>. QED BY <2>1, <3>1, <3>2, ValuesAreMade, PutKeepsTypes DEF Pass, NumericsTypeOK
  <2>3. CASE ~Undefined(v, max)
    <3>1. Pass(s, t, Int64(Whole(v))) /\ Returned
      BY <1>2, <2>3 DEF TakeWhole
    <3>2. Whole(v) \in Ints
      BY <2>1, <2>3, WholeIsInt
    <3>. QED BY <2>1, <3>1, <3>2, ValuesAreMade, PutKeepsTypes DEF Pass, Returned, NumericsTypeOK
  <2>. QED BY <2>2, <2>3
<1>3. ASSUME NEW s \in Slots, NEW max \in {IntMax, NarrowMax}, WholeRefused(s, max) PROVE NumericsTypeOK'
  <2>1. Refusal(held[s].val, max) \in {"null", "mismatch", "range", "none"}
    BY HeldValue, ValueShapes DEF Refusal
  <2>. QED BY <1>3, <2>1 DEF WholeRefused, NumericsTypeOK
<1>4. ASSUME NEW s \in Slots, NEW t \in Slots, TakeReal(s, t) PROVE NumericsTypeOK'
  <2>. DEFINE v == held[s].val
  <2>1. v \in Values /\ held[s].origin \in Finite \cup {Inf, -Inf, NaN}
    BY HeldValue
  <2>2. CASE IsNumber(v)
    <3>1. Real(AsDouble(v)) \in Values
      <4>1. v.type \in {"Int", "Real"}
        BY <2>1, <2>2, Ranks
      <4>2. AsDouble(v) \in Doubles
        BY <2>1, <4>1, ValueShapes, AsRealIsDouble DEF AsDouble
      <4>. QED BY <4>2, ValuesAreMade
    <3>2. Pass(s, t, Real(AsDouble(v))) /\ Returned
      BY <1>4, <2>2 DEF TakeReal
    <3>. QED BY <2>1, <3>1, <3>2, PutKeepsTypes DEF Pass, Returned, NumericsTypeOK
  <2>3. CASE ~IsNumber(v)
    BY <1>4, <2>3 DEF TakeReal, NumericsTypeOK
  <2>. QED BY <2>2, <2>3
<1>5. ASSUME NEW s \in Slots, NEW t \in Slots, FetchValue(s, t) PROVE NumericsTypeOK'
  <2>1. PICK v \in Bound(held[s].val) : Pass(s, t, v)
    BY <1>5 DEF FetchValue
  <2>2. v \in Values
    BY HeldValue, BoundIsValue
  <2>3. last' = "ok"
    BY <1>5 DEF FetchValue, Returned
  <2>. QED BY <2>1, <2>2, <2>3, HeldValue, PutKeepsTypes DEF Pass, NumericsTypeOK
<1>6. ASSUME NEW s \in Slots, NEW t \in Slots, Fetch(s, t) PROVE NumericsTypeOK'
  <2>1. PICK v \in Bound(held[s].val) :
          /\ v.type \notin {"Text", "Blob"}
          /\ \E w \in {Int64(ColumnInt64(v)), Int64(ColumnInt(v)), Real(ColumnReal(v))} : Put(t, w, Number(w))
          /\ Returned
    BY <1>6 DEF Fetch
  <2>2. v \in Values /\ ~IsNaN(v)
    BY HeldValue, BoundIsValue
  <2>3. {Int64(ColumnInt64(v)), Int64(ColumnInt(v)), Real(ColumnReal(v))} \subseteq Values
    BY <2>1, <2>2, ColumnInt64IsInt, ColumnIntIsInt, ColumnRealIsDouble, ValuesAreMade
  <2>4. PICK w \in Values : Put(t, w, Number(w))
    BY <2>1, <2>3
  <2>. QED BY <2>1, <2>4, NumberIsOrigin, PutKeepsTypes DEF Returned, NumericsTypeOK
<1>7. CASE UNCHANGED vars
  BY <1>7 DEF vars, NumericsTypeOK
<1>. QED BY <1>1, <1>2, <1>3, <1>4, <1>5, <1>6, <1>7 DEF Next

\* Every conversion yields a number of its type and width: no integer that int64_t
\* does not have, no double that double does not have.
THEOREM NumericsTypeCorrect == Spec => []NumericsTypeOK
<1>1. Init => NumericsTypeOK
  BY ValuesAreMade DEF Init, NumericsTypeOK
<1>. QED BY <1>1, StepKeepsTypes, PTL DEF Spec

LEMMA ComparablesAreValues ==
    ASSUME NumericsTypeOK, NEW v \in Comparable
    PROVE  v \in Values /\ ~IsNaN(v)
BY HeldValue DEF Comparable

\* Whatever a program puts into Values and however it converts them, std::sort and
\* std::map may order them by value_type_lt.
THEOREM TypeOrderWeak == Spec => []TypeOrderIsWeak
<1>1. NumericsTypeOK => TypeOrderIsWeak
  BY ComparablesAreValues, TypeOrderIsStrictWeak DEF TypeOrderIsWeak
<1>. QED BY <1>1, NumericsTypeCorrect, PTL

\* value_eq is what value_lt leaves open, and value_type_eq what value_type_lt does, but
\* for infinities and doubles that are almost equal.
THEOREM OrdersInAgreement == Spec => []OrdersAgree
<1>1. NumericsTypeOK => OrdersAgree
  BY ComparablesAreValues, PlainRelationsAgree, TypeEqualityAndOrder DEF OrdersAgree
<1>. QED BY <1>1, NumericsTypeCorrect, PTL

\* value_lt and value_type_lt differ from ORDER BY exactly between an integer that no
\* double has and the double it is rounded to, and value_type_lt, as is said of it, in
\* putting an integer before the double that is equal to it.
THEOREM OrderLikeSqlite == Spec => []OrderFollowsSqlite
<1>1. NumericsTypeOK => OrderFollowsSqlite
  BY ComparablesAreValues, OrdersFollowSqlite DEF OrderFollowsSqlite
<1>. QED BY <1>1, NumericsTypeCorrect, PTL

\* dbval_type_lt holds in both directions exactly for almost equal doubles of which the
\* lesser is declared Variant and the greater Real, and in none for what is
\* dbval_type_eq, and for infinities.
THEOREM DeclaredOrderIsSafe == Spec => []DeclaredOrderIsStrict
<1>1. NumericsTypeOK => DeclaredOrderIsStrict
  BY ComparablesAreValues, DeclaredOrderStrict DEF DeclaredOrderIsStrict
<1>. QED BY <1>1, NumericsTypeCorrect, PTL

-----------------------------------------------------------------------------
(* What conversions preserve.                                              *)

\* Division of a whole number of quanta takes nothing away.
LEMMA QuotientOfMultiple ==
    ASSUME NEW x \in Int, x % One = 0
    PROVE  x \div One \in Int /\ (x \div One) * One = x /\ (-x) \div One = -(x \div One)
<1>1. One \in Nat /\ One > 0
  BY FormatFacts
<1>2. x \div One \in Int /\ x = One * (x \div One) + (x % One)
  BY <1>1
<1>3. (x \div One) * One = x
  BY <1>1, <1>2
<1>4. (-x) \div One = -(x \div One)
  <2>. DEFINE q == x \div One
            p == (-x) \div One
            r == (-x) % One
  <2>1. p \in Int /\ r \in Int /\ 0 <= r /\ r < One /\ -x = One * p + r
    BY <1>1
  <2>2. -x = One * (-q)
    BY <1>1, <1>2, <1>3
  <2>3. r = One * (-q - p)
    BY <1>1, <1>2, <2>1, <2>2
  <2>4. -q - p = 0
    <3>1. ASSUME -q - p >= 1 PROVE FALSE
      <4>1. One * (-q - p) >= One * 1
        BY <1>1, <1>2, <2>1, <3>1
      <4>. QED BY <1>1, <2>1, <2>3, <4>1
    <3>2. ASSUME -q - p <= -1 PROVE FALSE
      <4>1. One * (-q - p) <= One * (-1)
        BY <1>1, <1>2, <2>1, <3>2
      <4>. QED BY <1>1, <2>1, <2>3, <4>1
    <3>. QED BY <1>2, <2>1, <3>1, <3>2
  <2>. QED BY <1>2, <2>1, <2>4
<1>. QED BY <1>2, <1>3, <1>4

\* A double that is let through is finite, whole and within the converted limits.
LEMMA AcceptedDouble ==
    ASSUME NEW v \in Values, NEW max \in {IntMax, NarrowMax}, v.type = "Real", Refusal(v, max) = "none"
    PROVE  /\ v.data \in Finite /\ v.data \in Doubles /\ v.data \in Int
           /\ v.data % One = 0
           /\ AsReal(-max - 1) <= v.data /\ v.data <= AsReal(max)
<1>1. ~LosesFraction(v.data) /\ ~OutOfLimits(v.data, max)
  BY DEF Refusal
<1>2. v.data \in Finite /\ v.data \in Doubles /\ v.data \in Int /\ v.data # NaN
  BY <1>1, ValueShapes, FormatFacts DEF LosesFraction, IsFinite, Doubles
<1>3. max \in Ints /\ -max - 1 \in Ints
  BY FormatFacts DEF Ints, IntsUpTo
<1>4. AsReal(max) \in Int /\ AsReal(-max - 1) \in Int
  BY <1>3, AsRealIsDouble, FormatFacts DEF Finite
<1>. QED BY <1>1, <1>2, <1>4, FormatFacts DEF LosesFraction, OutOfLimits, RealLess

\* The only double that is let through and that the integer type does not have is one
\* more than the greatest int64_t.
LEMMA OnlyEdgeIsUndefined ==
    ASSUME NEW v \in Values, NEW max \in {IntMax, NarrowMax}, Refusal(v, max) = "none", Undefined(v, max)
    PROVE  v.type = "Real" /\ v.data \in Finite /\ Rounded(v.data) = v.data /\ v.data = AsReal(IntMax + 1)
<1>1. v.type = "Real" /\ v.data \div One \notin IntsUpTo(max)
  BY DEF Undefined, Unrepresentable
<1>. DEFINE x == v.data
            q == x \div One
<1>2. x \in Finite /\ x \in Doubles /\ x \in Int /\ x % One = 0 /\ AsReal(-max - 1) <= x /\ x <= AsReal(max)
  BY <1>1, AcceptedDouble
<1>3. q \in Int /\ q * One = x
  BY <1>2, QuotientOfMultiple
<1>4. One \in Nat /\ One > 0 /\ IntMax \in Nat /\ max \in Nat /\ max <= IntMax
  BY FormatFacts
<1>5. AsReal(-max - 1) = (-max - 1) * One
  <2>1. CASE max = IntMax
    BY <2>1, RoundingAssumption DEF AsReal
  <2>2. CASE max = NarrowMax
    <3>1. -max - 1 \in IntsUpTo(NarrowMax)
      BY <1>4, <2>2 DEF IntsUpTo
    <3>. QED BY <3>1, RoundingAssumption DEF AsReal
  <2>. QED BY <2>1, <2>2
<1>6. q >= -max - 1
  <2>1. ASSUME q <= -max - 2 PROVE FALSE
    <3>1. q * One <= (-max - 2) * One
      BY <1>3, <1>4, <2>1
    <3>2. (-max - 2) * One < (-max - 1) * One
      BY <1>4
    <3>. QED BY <1>2, <1>3, <1>4, <1>5, <3>1, <3>2
  <2>. QED BY <1>3, <1>4, <2>1
<1>7. q >= max + 1
  BY <1>1, <1>3, <1>4, <1>6 DEF IntsUpTo
<1>8. (max + 1) * One <= x
  BY <1>3, <1>4, <1>7
<1>9. CASE max = NarrowMax
  <2>1. AsReal(max) = max * One
    BY <1>9, RoundingAssumption, FormatFacts DEF AsReal, IntsUpTo
  <2>2. max * One < (max + 1) * One
    BY <1>4
  <2>. QED BY <1>2, <1>4, <1>8, <2>1, <2>2
<1>10. CASE max = IntMax
  <2>1. (IntMax + 1) * One \in Finite /\ IntMax * One \in Finite /\ IntMax * One <= (IntMax + 1) * One
    BY <1>4, FormatFacts DEF Finite
  <2>2. AsReal(IntMax) <= AsReal(IntMax + 1)
    BY <2>1, RoundingAssumption DEF AsReal
  <2>3. AsReal(IntMax) \in Int
    BY <2>1, RoundingAssumption DEF AsReal, Finite
  <2>4. x = AsReal(IntMax + 1)
    BY <1>2, <1>4, <1>8, <1>10, <2>2, <2>3, LimitsAreExact
  <2>. QED BY <1>1, <1>2, <2>4, FormatFacts DEF Doubles, Finite, Inf
<1>. QED BY <1>9, <1>10

LEMMA ReadsLikeValue ==
    ASSUME NEW v \in Values, NEW max \in {IntMax, NarrowMax}, Refusal(v, max) = "none", ~Undefined(v, max)
    PROVE  ColumnInt64(v) = Whole(v) /\ Whole(v) \in IntsUpTo(max)
<1>1. CASE v.type = "Int"
  BY <1>1 DEF ColumnInt64, Whole, Refusal
<1>2. CASE v.type = "Real"
  <2>. DEFINE x == v.data
              q == x \div One
  <2>1. x \in Int /\ x % One = 0
    BY <1>2, AcceptedDouble
  <2>2. q \in Int /\ q * One = x /\ (-x) \div One = -q
    BY <2>1, QuotientOfMultiple
  <2>3. q \in IntsUpTo(max) /\ Whole(v) = q
    BY <1>2 DEF Undefined, Unrepresentable, Whole
  <2>4. One \in Nat /\ One > 0 /\ IntMax \in Nat /\ -IntMax - 1 <= q /\ q <= IntMax
    BY <2>3, FormatFacts DEF IntsUpTo
  <2>5. x < (IntMax + 1) * One
    <3>1. q * One < (IntMax + 1) * One
      BY <2>2, <2>4
    <3>. QED BY <2>2, <3>1
  <2>6. Truncated(x) = q
    BY <2>1, <2>2 DEF Truncated
  <2>7. ASSUME x <= -((IntMax + 1) * One) PROVE q = -IntMax - 1
    <3>1. ASSUME q >= -IntMax PROVE FALSE
      <4>1. q * One >= (-IntMax) * One
        BY <2>2, <2>4, <3>1
      <4>2. (-IntMax) * One > -((IntMax + 1) * One)
        BY <2>4
      <4>. QED BY <2>1, <2>2, <2>4, <2>7, <4>1, <4>2
    <3>. QED BY <2>2, <2>4, <3>1
  <2>8. ColumnInt64(v) = IF x >= (IntMax + 1) * One THEN IntMax
                         ELSE IF x <= -((IntMax + 1) * One) THEN -IntMax - 1 ELSE Truncated(x)
    BY <1>2, LimitsAreExact DEF ColumnInt64
  <2>9. ~(x >= (IntMax + 1) * One)
    BY <2>1, <2>4, <2>5
  <2>. QED BY <2>3, <2>6, <2>7, <2>8, <2>9
<1>3. v.type \in {"Int", "Real"}
  BY ValueShapes DEF Refusal
<1>. QED BY <1>1, <1>2, <1>3

\* A number that is refused for its range is whole, and beyond it.
LEMMA RefusedIsBeyond ==
    ASSUME NEW v \in Values, Refusal(v, NarrowMax) = "range"
    PROVE  v.type \in {"Int", "Real"} /\ ~IsNaN(v) /\ Whole(v) \notin IntsUpTo(NarrowMax)
<1>1. v.type \in {"Int", "Real"}
  BY ValueShapes DEF Refusal
<1>2. CASE v.type = "Int"
  BY <1>2 DEF Refusal, Whole, IsNaN
<1>3. CASE v.type = "Real"
  <2>. DEFINE q == v.data \div One
  <2>1. ~LosesFraction(v.data) /\ OutOfLimits(v.data, NarrowMax)
    BY <1>3 DEF Refusal
  <2>2. v.data \in Int /\ v.data % One = 0 /\ ~IsNaN(v)
    BY <1>3, <2>1, ValueShapes DEF LosesFraction, IsFinite, IsNaN
  <2>3. q \in Int /\ q * One = v.data
    BY <2>2, QuotientOfMultiple
  <2>4. AsReal(NarrowMax) = NarrowMax * One /\ AsReal(-NarrowMax - 1) = (-NarrowMax - 1) * One
    BY RoundingAssumption, FormatFacts DEF AsReal, IntsUpTo
  <2>5. ASSUME -NarrowMax - 1 <= q, q <= NarrowMax PROVE FALSE
    <3>1. (-NarrowMax - 1) * One <= q * One /\ q * One <= NarrowMax * One
      BY <2>3, <2>5, FormatFacts
    <3>2. (-NarrowMax - 1) * One \in Int /\ NarrowMax * One \in Int
      BY FormatFacts
    <3>. QED BY <2>1, <2>2, <2>3, <2>4, <3>1, <3>2 DEF OutOfLimits, RealLess
  <2>6. Whole(v) = q
    BY <1>3 DEF Whole
  <2>. QED BY <1>3, <2>2, <2>3, <2>5, <2>6, FormatFacts DEF IntsUpTo
<1>. QED BY <1>1, <1>2, <1>3

\* Where a Value can be taken for an int64_t or an int the column reads the same, and
\* getInt something else where the Value refuses for the range.
THEOREM ColumnsReadLikeValues == Spec => []ReadsAgree
<1>1. ASSUME NumericsTypeOK, NEW s \in Slots
      PROVE  LET v == held[s].val IN
             /\ Refusal(v, IntMax) = "none" /\ ~Undefined(v, IntMax) => ColumnInt64(v) = Whole(v)
             /\ Refusal(v, NarrowMax) \in {"none", "range"} =>
                   (ColumnInt(v) = Whole(v) <=> Refusal(v, NarrowMax) = "none")
  <2>. DEFINE v == held[s].val
  <2>1. v \in Values
    BY <1>1, HeldValue
  <2>2. ASSUME Refusal(v, NarrowMax) = "none" PROVE ColumnInt(v) = Whole(v)
    <3>1. ~Undefined(v, NarrowMax)
      <4>1. ASSUME Undefined(v, NarrowMax) PROVE FALSE
        <5>1. v.type = "Real" /\ v.data = AsReal(IntMax + 1)
          BY <2>1, <2>2, <4>1, OnlyEdgeIsUndefined
        <5>2. v.data <= AsReal(NarrowMax)
          BY <2>1, <2>2, <5>1, AcceptedDouble
        <5>3. AsReal(NarrowMax) = NarrowMax * One
          BY RoundingAssumption, FormatFacts DEF AsReal, IntsUpTo
        <5>4. NarrowMax * One < (IntMax + 1) * One
          BY FormatFacts
        <5>. QED BY <5>1, <5>2, <5>3, <5>4, LimitsAreExact, FormatFacts
      <4>. QED BY <4>1
    <3>2. ColumnInt64(v) = Whole(v) /\ Whole(v) \in IntsUpTo(NarrowMax)
      BY <2>1, <2>2, <3>1, ReadsLikeValue
    <3>. DEFINE w == Whole(v)
    <3>3. w \in Int /\ NarrowMax \in Nat /\ 0 <= w + NarrowMax + 1 /\ w + NarrowMax + 1 < 2 * (NarrowMax + 1)
      BY <3>2, FormatFacts DEF IntsUpTo
    <3>4. (w + NarrowMax + 1) % (2 * (NarrowMax + 1)) = w + NarrowMax + 1
      BY <3>3
    <3>. QED BY <3>2, <3>3, <3>4 DEF ColumnInt
  <2>3. ASSUME Refusal(v, NarrowMax) = "range" PROVE ColumnInt(v) # Whole(v)
    BY <2>1, <2>3, RefusedIsBeyond, ColumnIntIsInt
  <2>. QED BY <2>1, <2>2, <2>3, ReadsLikeValue
<1>2. NumericsTypeOK => ReadsAgree
  BY <1>1 DEF ReadsAgree
<1>. QED BY <1>2, NumericsTypeCorrect, PTL

\* A number that becomes none is none already, and a number that is somewhere else than
\* where it began is the double next to there.
Descends(s) ==
    LET x == held[s].origin
        n == Number(held[s].val)
    IN  /\ x = NaN => n = NaN
        /\ x # NaN /\ ~AtTheEdge(x) => n \in {x, Nearest(x)}

DriftInv == NumericsTypeOK /\ (\A s \in Slots : Descends(s)) /\ UndefinedOnlyAtTheEdge

LEMMA NearestFacts ==
    ASSUME NEW x \in Finite \cup {Inf, -Inf, NaN}, x # NaN
    PROVE  /\ Nearest(x) # NaN /\ Nearest(x) \in Int
           /\ Nearest(Nearest(x)) = Nearest(x)
           /\ x \in Finite => Nearest(x) = Rounded(x)
<1>1. /\ x \in Finite <=> IsFinite(x)
      /\ x \in Finite => Rounded(x) \in Finite /\ IsFinite(Rounded(x)) /\ Rounded(Rounded(x)) = Rounded(x)
  BY RoundingAssumption, FormatFacts DEF IsFinite, Finite, Inf
<1>. QED BY <1>1, FormatFacts DEF Nearest, Finite, Inf

\* Whatever replaces the number of a Value by itself or by the double next to it.
LEMMA PassKeepsDescent ==
    ASSUME DriftInv, NEW s \in Slots, NEW t \in Slots, NEW v \in Values, Pass(s, t, v),
           \/ held[s].origin = NaN /\ Number(v) = NaN
           \/ AtTheEdge(held[s].origin) /\ held[s].origin # NaN
           \/ held[s].origin # NaN /\ Number(v) \in {held[s].origin, Nearest(held[s].origin)}
    PROVE  \A r \in Slots : Descends(r)'
<1>. SUFFICES ASSUME NEW r \in Slots PROVE Descends(r)'
  OBVIOUS
<1>1. held' = [held EXCEPT ![t] = [val |-> v, origin |-> held[s].origin]]
  BY DEF Pass, Put
<1>2. held \in [Slots -> [val : Values, origin : Finite \cup {Inf, -Inf, NaN}]] /\ Descends(r)
  BY DEF DriftInv, NumericsTypeOK
<1>3. CASE r = t
  <2>1. held'[r].val = v /\ held'[r].origin = held[s].origin
    BY <1>1, <1>2, <1>3
  <2>. QED BY <2>1 DEF Descends
<1>4. CASE r # t
  <2>1. held'[r] = held[r]
    BY <1>1, <1>2, <1>4
  <2>. QED BY <1>2, <2>1 DEF Descends
<1>. QED BY <1>3, <1>4

\* A number that begins anew.
LEMMA FreshKeepsDescent ==
    ASSUME DriftInv, NEW t \in Slots, NEW v \in Values, Put(t, v, Number(v))
    PROVE  \A r \in Slots : Descends(r)'
<1>. SUFFICES ASSUME NEW r \in Slots PROVE Descends(r)'
  OBVIOUS
<1>1. held \in [Slots -> [val : Values, origin : Finite \cup {Inf, -Inf, NaN}]] /\ Descends(r)
  BY DEF DriftInv, NumericsTypeOK
<1>2. CASE r = t
  <2>1. held'[r].val = v /\ held'[r].origin = Number(v)
    BY <1>1, <1>2 DEF Put
  <2>. QED BY <2>1 DEF Descends
<1>3. CASE r # t
  <2>1. held'[r] = held[r]
    BY <1>1, <1>3 DEF Put
  <2>. QED BY <1>1, <2>1 DEF Descends
<1>. QED BY <1>2, <1>3

\* What a Value that is taken for an integer becomes.
LEMMA WholeIsSameNumber ==
    ASSUME NEW v \in Values, NEW max \in {IntMax, NarrowMax}, Refusal(v, max) = "none"
    PROVE  Number(Int64(Whole(v))) = Number(v) /\ Number(v) # NaN
<1>1. v.type \in {"Int", "Real"}
  BY ValueShapes DEF Refusal
<1>2. CASE v.type = "Int"
  BY <1>2, ValueShapes, IntsAreFinite, FormatFacts DEF Number, Whole, Int64, Finite
<1>3. CASE v.type = "Real"
  <2>1. v.data \in Int /\ v.data % One = 0
    BY <1>3, AcceptedDouble
  <2>2. (v.data \div One) * One = v.data
    BY <2>1, QuotientOfMultiple
  <2>. QED BY <1>3, <2>1, <2>2, FormatFacts DEF Number, Whole, Int64
<1>. QED BY <1>1, <1>2, <1>3

\* What one that is taken for a double becomes.
LEMMA AsDoubleIsNearest ==
    ASSUME NEW v \in Values, IsNumber(v), ~IsNaN(v)
    PROVE  Number(Real(AsDouble(v))) = Nearest(Number(v))
<1>1. v.type \in {"Int", "Real"}
  BY Ranks
<1>2. CASE v.type = "Int"
  <2>1. Number(v) = v.data * One /\ v.data * One \in Finite /\ v.data * One # NaN
    BY <1>2, ValueShapes, IntsAreFinite, FormatFacts DEF Number, Finite
  <2>2. Nearest(v.data * One) = Rounded(v.data * One)
    BY <2>1, NearestFacts
  <2>. QED BY <1>2, <2>1, <2>2 DEF AsDouble, AsReal, Number, Real
<1>3. CASE v.type = "Real"
  <2>1. v.data \in Doubles /\ v.data # NaN
    BY <1>3, ValueShapes DEF IsNaN
  <2>2. Nearest(v.data) = v.data
    BY <2>1, FormatFacts DEF Nearest, Doubles, IsFinite
  <2>. QED BY <1>3, <2>2 DEF AsDouble, Number, Real
<1>. QED BY <1>1, <1>2, <1>3

LEMMA NumberOfNaN ==
    ASSUME NEW v \in Values
    PROVE  /\ IsNaN(v) => Number(v) = NaN
           /\ ~IsNumber(v) => Number(v) = NaN
           /\ IsNumber(v) /\ ~IsNaN(v) => Number(v) # NaN
<1>1. IsNumber(v) <=> v.type \in {"Int", "Real"}
  BY Ranks
<1>. QED BY <1>1, NumbersOfValues DEF IsNaN, Number

LEMMA StepKeepsDescent == DriftInv /\ [Next]_vars => DriftInv'
<1>. SUFFICES ASSUME DriftInv, [Next]_vars PROVE DriftInv'
  OBVIOUS
<1>1. NumericsTypeOK /\ NumericsTypeOK'
  BY StepKeepsTypes DEF DriftInv
<1>2. ASSUME last' # "undefined" PROVE UndefinedOnlyAtTheEdge'
  BY <1>2 DEF UndefinedOnlyAtTheEdge
<1>3. ASSUME NEW t \in Slots, NEW v \in Given, Construct(t, v) PROVE DriftInv'
  <2>1. v \in Values
    BY GivenAssumption
  <2>. QED BY <1>1, <1>2, <1>3, <2>1, FreshKeepsDescent DEF Construct, Returned, DriftInv
<1>4. ASSUME NEW s \in Slots, NEW t \in Slots, NEW max \in {IntMax, NarrowMax}, TakeWhole(s, t, max)
      PROVE  DriftInv'
  <2>. DEFINE v == held[s].val
              x == held[s].origin
  <2>1. v \in Values /\ x \in Finite \cup {Inf, -Inf, NaN} /\ Refusal(v, max) = "none" /\ Descends(s)
    BY <1>1, <1>4, HeldValue DEF TakeWhole, DriftInv
  <2>2. Number(Int64(Whole(v))) = Number(v) /\ Number(v) # NaN
    BY <2>1, WholeIsSameNumber
  <2>3. x # NaN
    BY <2>1, <2>2 DEF Descends
  <2>4. CASE ~Undefined(v, max)
    <3>1. Pass(s, t, Int64(Whole(v))) /\ last' = "ok"
      BY <1>4, <2>4 DEF TakeWhole, Returned
    <3>2. Int64(Whole(v)) \in Values
      BY <2>1, <2>4, WholeIsInt, ValuesAreMade
    <3>3. AtTheEdge(x) \/ Number(Int64(Whole(v))) \in {x, Nearest(x)}
      BY <2>1, <2>2, <2>3 DEF Descends
    <3>4. \A r \in Slots : Descends(r)'
      BY <2>3, <3>1, <3>2, <3>3, PassKeepsDescent
    <3>. QED BY <1>1, <1>2, <3>1, <3>4 DEF DriftInv
  <2>5. CASE Undefined(v, max)
    <3>1. PICK n \in {-max - 1, max} : Pass(s, t, Int64(n)) /\ last' = "undefined"
      BY <1>4, <2>5 DEF TakeWhole
    <3>2. n \in Ints
      BY FormatFacts DEF Ints, IntsUpTo
    <3>3. AtTheEdge(x)
      <4>1. /\ v.type = "Real" /\ v.data \in Finite /\ Rounded(v.data) = v.data
            /\ v.data = AsReal(IntMax + 1)
        BY <2>1, <2>5, OnlyEdgeIsUndefined
      <4>2. Number(v) = v.data
        BY <4>1 DEF Number
      <4>3. Nearest(v.data) = v.data
        BY <2>2, <4>1, <4>2, NearestFacts
      <4>4. Nearest(Nearest(x)) = Nearest(x)
        BY <2>1, <2>3, NearestFacts
      <4>5. ASSUME ~AtTheEdge(x) PROVE FALSE
        <5>1. v.data \in {x, Nearest(x)}
          BY <2>1, <2>3, <4>2, <4>5 DEF Descends
        <5>. QED BY <4>1, <4>3, <4>4, <4>5, <5>1 DEF AtTheEdge
      <4>. QED BY <4>5
    <3>4. \A r \in Slots : Descends(r)'
      BY <2>3, <3>1, <3>2, <3>3, ValuesAreMade, PassKeepsDescent
    <3>5. held'[t].origin = x
      BY <1>1, <3>1 DEF Pass, Put, NumericsTypeOK
    <3>6. UndefinedOnlyAtTheEdge'
      BY <3>3, <3>5 DEF UndefinedOnlyAtTheEdge, AtTheEdge
    <3>. QED BY <1>1, <3>4, <3>6 DEF DriftInv
  <2>. QED BY <2>4, <2>5
<1>5. ASSUME NEW s \in Slots, NEW max \in {IntMax, NarrowMax}, WholeRefused(s, max) PROVE DriftInv'
  <2>1. Refusal(held[s].val, max) # "undefined"
    BY <1>1, HeldValue, ValueShapes DEF Refusal
  <2>2. held' = held /\ last' # "undefined"
    BY <1>5, <2>1 DEF WholeRefused
  <2>3. \A r \in Slots : Descends(r)'
    BY <2>2 DEF DriftInv, Descends
  <2>. QED BY <1>1, <1>2, <2>2, <2>3 DEF DriftInv
<1>6. ASSUME NEW s \in Slots, NEW t \in Slots, TakeReal(s, t) PROVE DriftInv'
  <2>. DEFINE v == held[s].val
              x == held[s].origin
  <2>1. v \in Values /\ x \in Finite \cup {Inf, -Inf, NaN} /\ Descends(s)
    BY <1>1, HeldValue DEF DriftInv
  <2>2. CASE IsNumber(v)
    <3>1. Pass(s, t, Real(AsDouble(v))) /\ last' = "ok"
      BY <1>6, <2>2 DEF TakeReal, Returned
    <3>2. Real(AsDouble(v)) \in Values
      <4>1. v.type \in {"Int", "Real"}
        BY <2>1, <2>2, Ranks
      <4>. QED BY <2>1, <4>1, ValueShapes, AsRealIsDouble, ValuesAreMade DEF AsDouble
    <3>3. CASE IsNaN(v)
      <4>1. Number(Real(AsDouble(v))) = NaN /\ Number(v) = NaN
        BY <3>3 DEF IsNaN, AsDouble, Number, Real
      <4>2. x = NaN \/ AtTheEdge(x)
        <5>1. x # NaN => Nearest(x) # NaN
          BY <2>1, NearestFacts
        <5>. QED BY <2>1, <4>1, <5>1 DEF Descends
      <4>3. \A r \in Slots : Descends(r)'
        BY <3>1, <3>2, <4>1, <4>2, PassKeepsDescent
      <4>. QED BY <1>1, <1>2, <3>1, <4>3 DEF DriftInv
    <3>4. CASE ~IsNaN(v)
      <4>1. Number(Real(AsDouble(v))) = Nearest(Number(v)) /\ Number(v) # NaN
        BY <2>1, <2>2, <3>4, AsDoubleIsNearest, NumberOfNaN
      <4>2. x # NaN
        BY <2>1, <4>1 DEF Descends
      <4>3. AtTheEdge(x) \/ Number(Real(AsDouble(v))) \in {x, Nearest(x)}
        BY <2>1, <4>1, <4>2, NearestFacts DEF Descends
      <4>4. \A r \in Slots : Descends(r)'
        BY <3>1, <3>2, <4>2, <4>3, PassKeepsDescent
      <4>. QED BY <1>1, <1>2, <3>1, <4>4 DEF DriftInv
    <3>. QED BY <3>3, <3>4
  <2>3. CASE ~IsNumber(v)
    <3>1. held' = held /\ last' # "undefined"
      BY <1>6, <2>3 DEF TakeReal
    <3>2. \A r \in Slots : Descends(r)'
      BY <3>1 DEF DriftInv, Descends
    <3>. QED BY <1>1, <1>2, <3>1, <3>2 DEF DriftInv
  <2>. QED BY <2>2, <2>3
<1>7. ASSUME NEW s \in Slots, NEW t \in Slots, FetchValue(s, t) PROVE DriftInv'
  <2>. DEFINE v == held[s].val
              x == held[s].origin
  <2>1. v \in Values /\ x \in Finite \cup {Inf, -Inf, NaN} /\ Descends(s)
    BY <1>1, HeldValue DEF DriftInv
  <2>2. PICK w \in Bound(v) : Pass(s, t, w)
    BY <1>7 DEF FetchValue
  <2>3. last' = "ok"
    BY <1>7 DEF FetchValue, Returned
  <2>4. w \in Values
    BY <2>1, BoundIsValue
  <2>5. Number(w) = Number(v)
    <3>1. Number(Null) = NaN
      BY DEF Number, Null
    <3>2. IsNaN(v) \/ v.type = "Blob" => Number(v) = NaN
      BY <2>1, NumberOfNaN DEF Number
    <3>3. w = v \/ (w = Null /\ (IsNaN(v) \/ v.type = "Blob"))
      <4>1. CASE IsNaN(v)
        BY <4>1 DEF Bound, IsNaN
      <4>2. CASE ~IsNaN(v)
        BY <4>2 DEF Bound
      <4>. QED BY <4>1, <4>2
    <3>. QED BY <3>1, <3>2, <3>3
  <2>6. \/ x = NaN /\ Number(w) = NaN
        \/ AtTheEdge(x) /\ x # NaN
        \/ x # NaN /\ Number(w) \in {x, Nearest(x)}
    BY <2>1, <2>5 DEF Descends
  <2>7. \A r \in Slots : Descends(r)'
    BY <2>2, <2>4, <2>6, PassKeepsDescent
  <2>. QED BY <1>1, <1>2, <2>3, <2>7 DEF DriftInv
<1>8. ASSUME NEW s \in Slots, NEW t \in Slots, Fetch(s, t) PROVE DriftInv'
  <2>1. PICK v \in Bound(held[s].val) :
          /\ v.type \notin {"Text", "Blob"}
          /\ \E w \in {Int64(ColumnInt64(v)), Int64(ColumnInt(v)), Real(ColumnReal(v))} : Put(t, w, Number(w))
          /\ last' = "ok"
    BY <1>8 DEF Fetch, Returned
  <2>2. v \in Values /\ ~IsNaN(v)
    BY <1>1, HeldValue, BoundIsValue
  <2>3. {Int64(ColumnInt64(v)), Int64(ColumnInt(v)), Real(ColumnReal(v))} \subseteq Values
    BY <2>1, <2>2, ColumnInt64IsInt, ColumnIntIsInt, ColumnRealIsDouble, ValuesAreMade
  <2>4. PICK w \in Values : Put(t, w, Number(w))
    BY <2>1, <2>3
  <2>5. \A r \in Slots : Descends(r)'
    BY <2>4, FreshKeepsDescent
  <2>. QED BY <1>1, <1>2, <2>1, <2>5 DEF DriftInv
<1>9. CASE UNCHANGED vars
  <2>1. UndefinedOnlyAtTheEdge' /\ \A r \in Slots : Descends(r)'
    BY <1>9 DEF vars, DriftInv, UndefinedOnlyAtTheEdge, Descends
  <2>. QED BY <1>1, <2>1 DEF DriftInv
<1>. QED BY <1>3, <1>4, <1>5, <1>6, <1>7, <1>8, <1>9 DEF Next

LEMMA DriftInvHolds == Spec => []DriftInv
<1>1. Init => DriftInv
  <2>1. Number(Null) = NaN
    BY DEF Number, Null
  <2>. QED BY <2>1, ValuesAreMade DEF Init, DriftInv, NumericsTypeOK, Descends, UndefinedOnlyAtTheEdge
<1>. QED BY <1>1, StepKeepsDescent, PTL DEF Spec

\* However often a number is converted, it is the one it began as or the double next to
\* that.
THEOREM NumbersStayWhereTheyAre == Spec => []NumbersDoNotDrift
<1>1. DriftInv => NumbersDoNotDrift
  BY DEF DriftInv, Descends, NumbersDoNotDrift
<1>. QED BY <1>1, DriftInvHolds, PTL

\* The cast in losslessConvert1 is undefined for one double only.
THEOREM OneUndefinedCast == Spec => []UndefinedOnlyAtTheEdge
<1>1. DriftInv => UndefinedOnlyAtTheEdge
  BY DEF DriftInv
<1>. QED BY <1>1, DriftInvHolds, PTL
=============================================================================
