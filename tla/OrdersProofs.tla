----------------------------- MODULE OrdersProofs -----------------------------
(***************************************************************************)
(* Proofs about module Orders, for every width of the integers, every      *)
(* format of the doubles and every monotone rounding: which comparisons of *)
(* Values and DbValues are strict weak orders, for which Values, and what  *)
(* they have to do with each other and with the order of sqlite.           *)
(***************************************************************************)
EXTENDS Orders, TLAPS

-----------------------------------------------------------------------------
(* Integers as doubles.                                                    *)

\* The assumption on the constants, in the form the provers use.
LEMMA FormatFacts ==
    /\ IntMax \in Nat /\ NarrowMax \in 0..IntMax
    /\ One \in Nat /\ One > 0 /\ MaxReal \in Nat /\ (IntMax + 1) * One <= MaxReal
    /\ NaN \notin Int
BY FormatAssumption

\* No integer is beyond the greatest double.
LEMMA IntsAreFinite ==
    ASSUME NEW n \in Ints
    PROVE  n \in Int /\ n * One \in Finite
<1>1. n \in Int /\ -(IntMax + 1) <= n /\ n <= IntMax + 1
  BY FormatFacts DEF Ints, IntsUpTo
<1>2. n * One <= (IntMax + 1) * One /\ (-(IntMax + 1)) * One <= n * One
  BY <1>1, FormatFacts
<1>. QED BY <1>1, <1>2, FormatFacts DEF Finite

LEMMA AsRealIsDouble ==
    ASSUME NEW n \in Ints
    PROVE  AsReal(n) \in Finite /\ AsReal(n) \in Doubles
BY IntsAreFinite, RoundingAssumption DEF AsReal, Doubles

LEMMA AsRealIsMonotone ==
    ASSUME NEW m \in Ints, NEW n \in Ints, m <= n
    PROVE  AsReal(m) <= AsReal(n)
<1>1. m * One <= n * One
  BY IntsAreFinite, FormatFacts
<1>. QED BY <1>1, IntsAreFinite, RoundingAssumption DEF AsReal

\* A double that is on one side of a rounded integer is on that side of the integer.
LEMMA RoundingKeepsSides ==
    ASSUME NEW n \in Ints, NEW x \in Doubles, x # NaN
    PROVE  /\ AsReal(n) < x => n * One < x
           /\ x < AsReal(n) => x < n * One
<1>1. CASE x \in Finite
  <2>1. Rounded(x) = x
    BY <1>1, FormatFacts DEF Doubles, Finite, Inf
  <2>. QED BY <1>1, <2>1, IntsAreFinite, RoundingAssumption, FormatFacts DEF AsReal, Finite
<1>2. CASE x \in {Inf, -Inf}
  BY <1>2, IntsAreFinite, AsRealIsDouble, FormatFacts DEF Inf, Finite
<1>. QED BY <1>1, <1>2 DEF Doubles

-----------------------------------------------------------------------------
(* What a Value is, in one place for the proofs.                           *)

LEMMA ValueShapes ==
    ASSUME NEW v \in Values
    PROVE  /\ v.type \in {"Null", "Int", "Real", "Text", "Blob"}
           /\ v = [type |-> v.type, data |-> v.data]
           /\ v.type = "Int" => v.data \in Ints /\ v.data \in Int
           /\ v.type = "Real" => v.data \in Doubles /\ (v.data # NaN => v.data \in Int)
           /\ v.type = "Null" => v.data = 0
           /\ v.type \in {"Text", "Blob"} => v.data \in Nat
<1>1. CASE v \in {Int64(n) : n \in Ints}
  BY <1>1, IntsAreFinite DEF Int64
<1>2. CASE v \in {Real(x) : x \in Doubles}
  BY <1>2, FormatFacts DEF Real, Doubles, Finite, Inf
<1>3. CASE v = Null \/ v \in [type : {"Text", "Blob"}, data : Nat]
  BY <1>3 DEF Null
<1>. QED BY <1>1, <1>2, <1>3 DEF Values

LEMMA ValuesAreMade ==
    /\ Null \in Values
    /\ \A n \in Ints : Int64(n) \in Values
    /\ \A x \in Doubles : Real(x) \in Values
BY DEF Values

\* The numbers of a Value, rounded and not.
LEMMA NumbersOfValues ==
    ASSUME NEW v \in Values, ~IsNaN(v), IsNumber(v)
    PROVE  /\ v.type \in {"Int", "Real"}
           /\ AsDouble(v) \in Doubles /\ AsDouble(v) \in Int /\ AsDouble(v) # NaN
           /\ Number(v) \in Int /\ Number(v) # NaN
<1>1. v.type \in {"Int", "Real"}
  BY ValueShapes DEF IsNumber, Rank
<1>2. CASE v.type = "Int"
  BY <1>2, ValueShapes, AsRealIsDouble, IntsAreFinite, FormatFacts DEF AsDouble, Number, Finite
<1>3. CASE v.type = "Real"
  BY <1>3, ValueShapes, FormatFacts DEF AsDouble, Number, IsNaN
<1>. QED BY <1>1, <1>2, <1>3

-----------------------------------------------------------------------------
(* The orders of Values.                                                   *)

\* Among numbers value_type_lt is lexicographic: by the double, then integers before
\* doubles, then by the integer.
LEMMA TypeOrderOfNumbers ==
    ASSUME NEW v \in Values, NEW w \in Values, ~IsNaN(v), ~IsNaN(w), IsNumber(v), IsNumber(w)
    PROVE  value_type_lt(v, w) <=>
             \/ AsDouble(v) < AsDouble(w)
             \/ /\ AsDouble(v) = AsDouble(w)
                /\ v.type = "Int"
                /\ w.type = "Real" \/ (w.type = "Int" /\ v.data < w.data)
<1>1. /\ v.type \in {"Int", "Real"} /\ w.type \in {"Int", "Real"}
      /\ AsDouble(v) \in Int /\ AsDouble(w) \in Int /\ AsDouble(v) # NaN /\ AsDouble(w) # NaN
  BY NumbersOfValues
<1>2. Rank[v.type] = Rank[w.type] /\ Rank[v.type] \in Int
  BY DEF IsNumber
<1>3. CASE v.type = "Int" /\ w.type = "Int"
  <2>1. v.data \in Ints /\ w.data \in Ints /\ v.data \in Int /\ w.data \in Int
    BY <1>3, ValueShapes
  <2>2. value_type_lt(v, w) <=> v.data < w.data
    BY <1>2, <1>3 DEF value_type_lt, value_lt, Mixed, IsNumber
  <2>3. AsDouble(v) = AsReal(v.data) /\ AsDouble(w) = AsReal(w.data)
    BY <1>3 DEF AsDouble
  <2>4. v.data <= w.data => AsDouble(v) <= AsDouble(w)
    BY <2>1, <2>3, AsRealIsMonotone
  <2>5. w.data <= v.data => AsDouble(w) <= AsDouble(v)
    BY <2>1, <2>3, AsRealIsMonotone
  <2>. QED BY <1>1, <1>3, <2>1, <2>2, <2>4, <2>5
<1>4. CASE "Real" \in {v.type, w.type}
  <2>1. Mixed(v, w)
    BY <1>4 DEF Mixed
  <2>2. w.type = "Real" => w.data = AsDouble(w)
    BY DEF AsDouble
  <2>. QED BY <1>1, <1>2, <1>4, <2>1, <2>2 DEF value_type_lt, value_lt, RealLess, RealEqual
<1>. QED BY <1>1, <1>3, <1>4

\* Between Values that are not both numbers the orders go by rank, then by data.
LEMMA OrderOfOthers ==
    ASSUME NEW v \in Values, NEW w \in Values, ~(IsNumber(v) /\ IsNumber(w))
    PROVE  /\ value_type_lt(v, w) <=> value_lt(v, w)
           /\ value_lt(v, w) <=> \/ Rank[v.type] < Rank[w.type]
                                 \/ v.type = w.type /\ v.type \in {"Text", "Blob"} /\ v.data < w.data
           /\ value_eq(v, w) <=> v.type = w.type /\ v.data = w.data
<1>1. v.type \in {"Null", "Int", "Real", "Text", "Blob"} /\ w.type \in {"Null", "Int", "Real", "Text", "Blob"}
  BY ValueShapes
<1>2. v.type = "Null" /\ w.type = "Null" => v.data = w.data
  BY ValueShapes
<1>. QED BY <1>1, <1>2 DEF value_type_lt, value_lt, value_eq, Mixed, IsNumber, Rank

LEMMA Ranks ==
    ASSUME NEW v \in Values
    PROVE  /\ Rank[v.type] \in Int
           /\ IsNumber(v) <=> v.type \in {"Int", "Real"}
BY ValueShapes DEF Rank, IsNumber

\* value_type_lt, for any three Values that are not NaN.
LEMMA TypeOrderIsStrictWeak ==
    ASSUME NEW u \in Values, NEW v \in Values, NEW w \in Values,
           ~IsNaN(u), ~IsNaN(v), ~IsNaN(w)
    PROVE  /\ ~(value_type_lt(u, v) /\ value_type_lt(v, u))
           /\ value_type_lt(u, w) => value_type_lt(u, v) \/ value_type_lt(v, w)
<1>. DEFINE Lexical(a, b) == \/ AsDouble(a) < AsDouble(b)
                             \/ /\ AsDouble(a) = AsDouble(b)
                                /\ a.type = "Int"
                                /\ b.type = "Real" \/ (b.type = "Int" /\ a.data < b.data)
            ByRank(a, b) == \/ Rank[a.type] < Rank[b.type]
                            \/ a.type = b.type /\ a.type \in {"Text", "Blob"} /\ a.data < b.data
<1>1. \A a, b \in {u, v, w} :
         value_type_lt(a, b) <=> IF IsNumber(a) /\ IsNumber(b) THEN Lexical(a, b) ELSE ByRank(a, b)
  BY TypeOrderOfNumbers, OrderOfOthers
<1>2. \A a \in {u, v, w} :
         /\ a.type \in {"Null", "Int", "Real", "Text", "Blob"} /\ Rank[a.type] \in Int
         /\ IsNumber(a) <=> a.type \in {"Int", "Real"}
         /\ IsNumber(a) => AsDouble(a) \in Int
         /\ a.type # "Null" => a.data \in Int
  BY ValueShapes, NumbersOfValues, Ranks DEF IsNaN
<1>3. \A a, b \in {u, v, w} : a.type = b.type \/ (IsNumber(a) /\ IsNumber(b)) <=> Rank[a.type] = Rank[b.type]
  BY <1>2 DEF Rank
<1>4. ~(value_type_lt(u, v) /\ value_type_lt(v, u))
  BY <1>1, <1>2, <1>3
<1>5. ASSUME value_type_lt(u, w) PROVE value_type_lt(u, v) \/ value_type_lt(v, w)
  <2>1. CASE Rank[u.type] = Rank[v.type] /\ Rank[v.type] = Rank[w.type]
    BY <1>1, <1>2, <1>3, <1>5, <2>1
  <2>2. CASE ~(Rank[u.type] = Rank[v.type] /\ Rank[v.type] = Rank[w.type])
    <3>1. Rank[u.type] <= Rank[w.type]
      BY <1>1, <1>2, <1>3, <1>5 DEF Rank
    <3>2. Rank[u.type] < Rank[v.type] \/ Rank[v.type] < Rank[w.type]
      BY <1>2, <2>2, <3>1
    <3>. QED BY <1>1, <1>2, <1>3, <3>2
  <2>. QED BY <2>1, <2>2
<1>. QED BY <1>4, <1>5

\* Among numbers value_lt and value_eq compare integers as integers and the rest as
\* doubles.
LEMMA PlainOrderOfNumbers ==
    ASSUME NEW v \in Values, NEW w \in Values, ~IsNaN(v), ~IsNaN(w), IsNumber(v), IsNumber(w)
    PROVE  LET both == v.type = "Int" /\ w.type = "Int" IN
           /\ value_lt(v, w) <=> IF both THEN v.data < w.data ELSE AsDouble(v) < AsDouble(w)
           /\ value_eq(v, w) <=> IF both THEN v.data = w.data ELSE AsDouble(v) = AsDouble(w)
<1>1. /\ v.type \in {"Int", "Real"} /\ w.type \in {"Int", "Real"}
      /\ AsDouble(v) \in Int /\ AsDouble(w) \in Int /\ AsDouble(v) # NaN /\ AsDouble(w) # NaN
  BY NumbersOfValues
<1>2. Rank[v.type] = Rank[w.type] /\ Rank[v.type] \in Int
  BY DEF IsNumber
<1>3. CASE v.type = "Int" /\ w.type = "Int"
  BY <1>2, <1>3 DEF value_lt, value_eq, Mixed
<1>4. CASE "Real" \in {v.type, w.type}
  <2>1. Mixed(v, w)
    BY <1>4 DEF Mixed
  <2>. QED BY <1>1, <1>2, <1>4, <2>1 DEF value_lt, value_eq, RealLess, RealEqual
<1>. QED BY <1>1, <1>3, <1>4

\* value_eq and value_lt, for any two Values that are not NaN.
LEMMA PlainRelationsAgree ==
    ASSUME NEW v \in Values, NEW w \in Values, ~IsNaN(v), ~IsNaN(w)
    PROVE  value_eq(v, w) <=> ~value_lt(v, w) /\ ~value_lt(w, v)
<1>1. /\ v.type \in {"Null", "Int", "Real", "Text", "Blob"} /\ w.type \in {"Null", "Int", "Real", "Text", "Blob"}
      /\ v.type = "Int" => v.data \in Int
      /\ w.type = "Int" => w.data \in Int
      /\ v.type = "Null" => v.data = 0
      /\ w.type = "Null" => w.data = 0
      /\ v.type \in {"Text", "Blob"} => v.data \in Nat
      /\ w.type \in {"Text", "Blob"} => w.data \in Nat
  BY ValueShapes
<1>2. CASE IsNumber(v) /\ IsNumber(w)
  <2>1. /\ v.type \in {"Int", "Real"} /\ w.type \in {"Int", "Real"}
        /\ AsDouble(v) \in Int /\ AsDouble(w) \in Int
    BY <1>2, NumbersOfValues
  <2>. QED BY <1>1, <1>2, <2>1, PlainOrderOfNumbers
<1>3. CASE ~(IsNumber(v) /\ IsNumber(w))
  <2>1. value_eq(v, w) <=> v.type = w.type /\ v.data = w.data
    BY <1>3, OrderOfOthers
  <2>2. /\ value_lt(v, w) <=> Rank[v.type] < Rank[w.type] \/ (v.type = w.type /\ v.type \in {"Text", "Blob"} /\ v.data < w.data)
        /\ value_lt(w, v) <=> Rank[w.type] < Rank[v.type] \/ (v.type = w.type /\ v.type \in {"Text", "Blob"} /\ w.data < v.data)
    BY <1>3, OrderOfOthers
  <2>3. v.type = w.type <=> Rank[v.type] = Rank[w.type]
    BY <1>1, <1>3 DEF Rank, IsNumber
  <2>. QED BY <1>1, <1>3, <2>1, <2>2, <2>3, Ranks
<1>. QED BY <1>2, <1>3

\* Only an integer is rounded, and only a double is what it is rounded to.
LEMMA RoundsToMeans ==
    ASSUME NEW v, NEW w
    PROVE  RoundsTo(v, w) <=> /\ v.type = "Int" /\ w.type = "Real"
                              /\ AsReal(v.data) # Number(v) /\ AsReal(v.data) = w.data
BY DEF RoundsTo, ExactInDouble, AsDouble

\* Rounding may make two numbers equal, but never exchanges them.
LEMMA OrdersOfNumbersFollowSqlite ==
    ASSUME NEW v \in Values, NEW w \in Values, ~IsNaN(v), ~IsNaN(w), IsNumber(v), IsNumber(w)
    PROVE  /\ value_lt(v, w) <=> SqliteLess(v, w) /\ ~RoundsTo(v, w) /\ ~RoundsTo(w, v)
           /\ value_type_lt(v, w) <=> \/ SqliteLess(v, w) /\ ~RoundsTo(w, v)
                                      \/ v.type = "Int" /\ w.type = "Real" /\ Number(v) = Number(w)
                                      \/ RoundsTo(v, w)
<1>1. /\ v.type \in {"Int", "Real"} /\ w.type \in {"Int", "Real"}
      /\ AsDouble(v) \in Int /\ AsDouble(w) \in Int /\ Number(v) \in Int /\ Number(w) \in Int
      /\ AsDouble(v) \in Doubles /\ AsDouble(w) \in Doubles /\ AsDouble(v) # NaN /\ AsDouble(w) # NaN
  BY NumbersOfValues
<1>2. SqliteLess(v, w) <=> Number(v) < Number(w)
  BY <1>1 DEF SqliteLess, IsNumber
<1>3. CASE v.type = "Int" /\ w.type = "Int"
  <2>1. v.data \in Int /\ w.data \in Int /\ Number(v) = v.data * One /\ Number(w) = w.data * One
    BY <1>3, ValueShapes DEF Number
  <2>2. v.data < w.data <=> v.data * One < w.data * One
    BY <2>1, FormatFacts
  <2>3. value_lt(v, w) <=> v.data < w.data
    BY <1>3, PlainOrderOfNumbers
  <2>4. value_type_lt(v, w) <=> value_lt(v, w)
    BY <1>3 DEF value_type_lt
  <2>. QED BY <1>2, <1>3, <2>1, <2>2, <2>3, <2>4, RoundsToMeans
<1>4. CASE v.type = "Int" /\ w.type = "Real"
  <2>1. v.data \in Ints /\ Number(v) = v.data * One /\ AsDouble(v) = AsReal(v.data)
        /\ Number(w) = AsDouble(w) /\ w.data = AsDouble(w)
    BY <1>4, ValueShapes DEF Number, AsDouble
  <2>2. /\ AsDouble(v) < AsDouble(w) => Number(v) < Number(w)
        /\ AsDouble(w) < AsDouble(v) => Number(w) < Number(v)
    BY <1>1, <2>1, RoundingKeepsSides
  <2>3. /\ value_lt(v, w) <=> AsDouble(v) < AsDouble(w)
        /\ value_type_lt(v, w) <=> AsDouble(v) <= AsDouble(w)
    BY <1>1, <1>4, PlainOrderOfNumbers, TypeOrderOfNumbers
  <2>4. /\ RoundsTo(v, w) <=> AsDouble(v) # Number(v) /\ AsDouble(v) = AsDouble(w)
        /\ ~RoundsTo(w, v)
    BY <1>4, <2>1, RoundsToMeans
  <2>. QED BY <1>1, <1>2, <1>4, <2>1, <2>2, <2>3, <2>4
<1>5. CASE v.type = "Real" /\ w.type = "Int"
  <2>1. w.data \in Ints /\ Number(w) = w.data * One /\ AsDouble(w) = AsReal(w.data)
        /\ Number(v) = AsDouble(v) /\ v.data = AsDouble(v)
    BY <1>5, ValueShapes DEF Number, AsDouble
  <2>2. /\ AsDouble(v) < AsDouble(w) => Number(v) < Number(w)
        /\ AsDouble(w) < AsDouble(v) => Number(w) < Number(v)
    BY <1>1, <2>1, RoundingKeepsSides
  <2>3. /\ value_lt(v, w) <=> AsDouble(v) < AsDouble(w)
        /\ value_type_lt(v, w) <=> AsDouble(v) < AsDouble(w)
    BY <1>1, <1>5, PlainOrderOfNumbers, TypeOrderOfNumbers
  <2>4. /\ RoundsTo(w, v) <=> AsDouble(w) # Number(w) /\ AsDouble(w) = AsDouble(v)
        /\ ~RoundsTo(v, w)
    BY <1>5, <2>1, RoundsToMeans
  <2>. QED BY <1>1, <1>2, <1>5, <2>1, <2>2, <2>3, <2>4
<1>6. CASE v.type = "Real" /\ w.type = "Real"
  <2>1. Number(v) = AsDouble(v) /\ Number(w) = AsDouble(w)
    BY <1>6 DEF Number, AsDouble
  <2>2. /\ value_lt(v, w) <=> AsDouble(v) < AsDouble(w)
        /\ value_type_lt(v, w) <=> AsDouble(v) < AsDouble(w)
    BY <1>1, <1>6, PlainOrderOfNumbers, TypeOrderOfNumbers
  <2>. QED BY <1>2, <1>6, <2>1, <2>2, RoundsToMeans
<1>. QED BY <1>1, <1>3, <1>4, <1>5, <1>6

\* What sqlite and the orders of Values say, for any two that are not NaN.
LEMMA OrdersFollowSqlite ==
    ASSUME NEW v \in Values, NEW w \in Values, ~IsNaN(v), ~IsNaN(w)
    PROVE  /\ value_lt(v, w) <=> SqliteLess(v, w) /\ ~RoundsTo(v, w) /\ ~RoundsTo(w, v)
           /\ value_type_lt(v, w) <=> \/ SqliteLess(v, w) /\ ~RoundsTo(w, v)
                                      \/ v.type = "Int" /\ w.type = "Real" /\ Number(v) = Number(w)
                                      \/ RoundsTo(v, w)
<1>1. CASE IsNumber(v) /\ IsNumber(w)
  BY <1>1, OrdersOfNumbersFollowSqlite
<1>2. CASE ~(IsNumber(v) /\ IsNumber(w))
  <2>1. ~RoundsTo(v, w) /\ ~RoundsTo(w, v) /\ ~(v.type = "Int" /\ w.type = "Real")
    BY <1>2, Ranks, RoundsToMeans
  <2>2. value_type_lt(v, w) <=> value_lt(v, w)
    BY <1>2, OrderOfOthers
  <2>3. value_lt(v, w) <=> SqliteLess(v, w)
    BY <1>2, OrderOfOthers DEF SqliteLess
  <2>. QED BY <2>1, <2>2, <2>3
<1>. QED BY <1>1, <1>2

\* What value_type_eq says of Values that are not blurred: they are the same.
LEMMA UnblurredEquals ==
    ASSUME NEW v \in Values, NEW w \in Values, ~Blurred(v, w), value_type_eq(v, w)
    PROVE  v = w
<1>1. v = [type |-> v.type, data |-> v.data] /\ w = [type |-> w.type, data |-> w.data]
  BY ValueShapes
<1>2. v.type = w.type
  BY DEF value_type_eq
<1>3. CASE v.type = "Real"
  BY <1>2, <1>3 DEF value_type_eq, Blurred
<1>4. CASE v.type # "Real"
  BY <1>1, <1>2, <1>4, ValueShapes DEF value_type_eq
<1>. QED BY <1>3, <1>4

\* Then it leaves value_type_lt nothing to say.
LEMMA EqualsAreNotLess ==
    ASSUME NEW v \in Values, NEW w \in Values, ~IsNaN(v), ~IsNaN(w), ~Blurred(v, w), value_type_eq(v, w)
    PROVE  ~value_type_lt(v, w) /\ ~value_type_lt(w, v)
BY UnblurredEquals, TypeOrderIsStrictWeak

\* almost_equal rounds x - y one way round and y - x the other.
LEMMA AlmostEqualIsSymmetric ==
    ASSUME NEW x \in Finite, NEW y \in Finite
    PROVE  AlmostEqual(x, y) <=> AlmostEqual(y, x)
<1>1. /\ x \in Int /\ y \in Int /\ y - x = -(x - y) /\ x + y = y + x
      /\ x - y \in (-2 * MaxReal)..(2 * MaxReal)
  BY FormatFacts DEF Finite
<1>2. Rounded(x - y) \in Int /\ Rounded(y - x) = -Rounded(x - y)
  BY <1>1, RoundingAssumption
<1>3. Magnitude(Rounded(y - x)) = Magnitude(Rounded(x - y))
  BY <1>2 DEF Magnitude
<1>4. Rounded(x + y) = Rounded(y + x)
  BY <1>1
<1>. QED BY <1>3, <1>4 DEF AlmostEqual

LEMMA TypeEqualityIsSymmetric ==
    ASSUME NEW v \in Values, NEW w \in Values, value_type_eq(v, w)
    PROVE  value_type_eq(w, v)
<1>1. v.type = w.type
  BY DEF value_type_eq
<1>2. CASE v.type = "Real"
  <2>1. AlmostEqual(v.data, w.data) /\ v.data \in Doubles /\ w.data \in Doubles
    BY <1>1, <1>2, ValueShapes DEF value_type_eq
  <2>2. v.data \in Finite /\ w.data \in Finite
    BY <2>1 DEF AlmostEqual, IsFinite, Doubles
  <2>. QED BY <1>1, <1>2, <2>1, <2>2, AlmostEqualIsSymmetric DEF value_type_eq
<1>3. CASE v.type # "Real"
  BY <1>1, <1>3 DEF value_type_eq
<1>. QED BY <1>2, <1>3

\* Integers that doubles have exactly are compared like the doubles.
LEMMA ExactOrderOfNumbers ==
    ASSUME NEW v \in Values, NEW w \in Values, ~IsNaN(v), ~IsNaN(w), IsNumber(v), IsNumber(w),
           ExactInDouble(v), ExactInDouble(w)
    PROVE  value_lt(v, w) <=> AsDouble(v) < AsDouble(w)
<1>1. CASE v.type = "Int" /\ w.type = "Int"
  <2>1. /\ v.data \in Int /\ w.data \in Int
        /\ AsDouble(v) = v.data * One /\ AsDouble(w) = w.data * One
    BY <1>1, ValueShapes DEF ExactInDouble, Number, AsDouble
  <2>2. v.data < w.data <=> v.data * One < w.data * One
    BY <2>1, FormatFacts
  <2>. QED BY <1>1, <2>1, <2>2, PlainOrderOfNumbers
<1>2. CASE ~(v.type = "Int" /\ w.type = "Int")
  BY <1>2, PlainOrderOfNumbers
<1>. QED BY <1>1, <1>2

\* value_lt, for any three Values that are not NaN and exact as doubles.
LEMMA PlainOrderIsStrictWeak ==
    ASSUME NEW u \in Values, NEW v \in Values, NEW w \in Values,
           ~IsNaN(u), ~IsNaN(v), ~IsNaN(w),
           ExactInDouble(u), ExactInDouble(v), ExactInDouble(w)
    PROVE  /\ ~(value_lt(u, v) /\ value_lt(v, u))
           /\ value_lt(u, w) => value_lt(u, v) \/ value_lt(v, w)
<1>. DEFINE ByRank(a, b) == \/ Rank[a.type] < Rank[b.type]
                            \/ a.type = b.type /\ a.type \in {"Text", "Blob"} /\ a.data < b.data
<1>1. \A a, b \in {u, v, w} :
         value_lt(a, b) <=> IF IsNumber(a) /\ IsNumber(b) THEN AsDouble(a) < AsDouble(b) ELSE ByRank(a, b)
  BY ExactOrderOfNumbers, OrderOfOthers
<1>2. \A a \in {u, v, w} :
         /\ a.type \in {"Null", "Int", "Real", "Text", "Blob"} /\ Rank[a.type] \in Int
         /\ IsNumber(a) <=> a.type \in {"Int", "Real"}
         /\ IsNumber(a) => AsDouble(a) \in Int
         /\ a.type # "Null" => a.data \in Int
  BY ValueShapes, NumbersOfValues, Ranks DEF IsNaN
<1>3. \A a, b \in {u, v, w} : a.type = b.type \/ (IsNumber(a) /\ IsNumber(b)) <=> Rank[a.type] = Rank[b.type]
  BY <1>2 DEF Rank
<1>4. ~(value_lt(u, v) /\ value_lt(v, u))
  BY <1>1, <1>2, <1>3
<1>5. ASSUME value_lt(u, w) PROVE value_lt(u, v) \/ value_lt(v, w)
  <2>1. CASE Rank[u.type] = Rank[v.type] /\ Rank[v.type] = Rank[w.type]
    BY <1>1, <1>2, <1>3, <1>5, <2>1
  <2>2. CASE ~(Rank[u.type] = Rank[v.type] /\ Rank[v.type] = Rank[w.type])
    <3>1. Rank[u.type] <= Rank[w.type]
      BY <1>1, <1>2, <1>3, <1>5 DEF Rank
    <3>2. Rank[u.type] < Rank[v.type] \/ Rank[v.type] < Rank[w.type]
      BY <1>2, <2>2, <3>1
    <3>. QED BY <1>1, <1>2, <1>3, <3>2
  <2>. QED BY <2>1, <2>2
<1>. QED BY <1>4, <1>5

\* value_type_lt leaves two different Values in no order only where one is NaN.
LEMMA TypeOrderIsTotal ==
    ASSUME NEW v \in Values, NEW w \in Values, ~IsNaN(v), ~IsNaN(w),
           ~value_type_lt(v, w), ~value_type_lt(w, v)
    PROVE  v = w
<1>1. /\ v.type \in {"Null", "Int", "Real", "Text", "Blob"} /\ w.type \in {"Null", "Int", "Real", "Text", "Blob"}
      /\ v = [type |-> v.type, data |-> v.data] /\ w = [type |-> w.type, data |-> w.data]
      /\ v.type # "Null" => v.data \in Int
      /\ w.type # "Null" => w.data \in Int
      /\ v.type = "Null" => v.data = 0
      /\ w.type = "Null" => w.data = 0
  BY ValueShapes DEF IsNaN
<1>2. CASE IsNumber(v) /\ IsNumber(w)
  <2>1. /\ v.type \in {"Int", "Real"} /\ w.type \in {"Int", "Real"}
        /\ AsDouble(v) \in Int /\ AsDouble(w) \in Int
    BY <1>2, NumbersOfValues
  <2>2. v.type = "Real" => v.data = AsDouble(v)
    BY DEF AsDouble
  <2>3. w.type = "Real" => w.data = AsDouble(w)
    BY DEF AsDouble
  <2>4. v.type = w.type /\ v.data = w.data
    BY <1>1, <1>2, <2>1, <2>2, <2>3, TypeOrderOfNumbers
  <2>. QED BY <1>1, <2>4
<1>3. CASE ~(IsNumber(v) /\ IsNumber(w))
  <2>1. Rank[v.type] \in Int /\ Rank[w.type] \in Int
    BY Ranks
  <2>2. Rank[v.type] = Rank[w.type]
    BY <1>3, <2>1, OrderOfOthers
  <2>3. v.type = w.type
    BY <1>1, <1>3, <2>2 DEF Rank, IsNumber
  <2>4. v.data = w.data
    BY <1>1, <1>3, <2>3, OrderOfOthers DEF IsNumber, Rank
  <2>. QED BY <1>1, <2>3, <2>4
<1>. QED BY <1>2, <1>3

\* Every finite double is almost equal to itself.
LEMMA AlmostEqualToItself ==
    ASSUME NEW x \in Finite
    PROVE  AlmostEqual(x, x)
<1>1. x \in Int /\ x - x = 0 /\ IsFinite(x)
  BY FormatFacts DEF Finite, IsFinite, Inf
<1>2. Rounded(0) = 0
  <2>1. 0 \in IntsUpTo(NarrowMax) /\ 0 * One = 0
    BY FormatFacts DEF IntsUpTo
  <2>. QED BY <2>1, RoundingAssumption
<1>3. Magnitude(Rounded(x - x)) = 0
  BY <1>1, <1>2 DEF Magnitude
<1>4. 0 < Precision
  BY FormatAssumption
<1>. QED BY <1>1, <1>3, <1>4 DEF AlmostEqual

\* What value_type_eq has to do with value_type_lt, for any two Values that are not NaN.
LEMMA TypeEqualityAndOrder ==
    ASSUME NEW v \in Values, NEW w \in Values, ~IsNaN(v), ~IsNaN(w)
    PROVE  value_type_eq(v, w) <=>
             \/ Blurred(v, w)
             \/ ~value_type_lt(v, w) /\ ~value_type_lt(w, v) /\ ~Infinite(v)
<1>1. ASSUME Blurred(v, w) PROVE value_type_eq(v, w)
  BY <1>1 DEF Blurred, value_type_eq
<1>2. ASSUME value_type_eq(v, w) PROVE ~Infinite(v)
  BY <1>2 DEF value_type_eq, Infinite, AlmostEqual, IsFinite
<1>3. ASSUME ~value_type_lt(v, w), ~value_type_lt(w, v), ~Infinite(v) PROVE value_type_eq(v, w)
  <2>1. v = w
    BY <1>3, TypeOrderIsTotal
  <2>2. CASE v.type = "Real"
    <3>1. v.data \in Finite
      BY <1>3, <2>2, ValueShapes DEF Infinite, IsNaN, Doubles
    <3>. QED BY <2>1, <2>2, <3>1, AlmostEqualToItself DEF value_type_eq
  <2>3. CASE v.type # "Real"
    BY <2>1, <2>3 DEF value_type_eq
  <2>. QED BY <2>2, <2>3
<1>. QED BY <1>1, <1>2, <1>3, EqualsAreNotLess

\* Almost equal doubles are different ones, and value_type_lt tells which is less.
LEMMA BlurredAreOrdered ==
    ASSUME NEW v \in Values, NEW w \in Values, ~IsNaN(v), ~IsNaN(w), Blurred(v, w)
    PROVE  /\ v.data \in Int /\ w.data \in Int /\ v.data # w.data
           /\ value_type_lt(v, w) <=> v.data < w.data
           /\ value_type_lt(w, v) <=> w.data < v.data
<1>1. v.type = "Real" /\ w.type = "Real" /\ v # w /\ IsNumber(v) /\ IsNumber(w)
  BY Ranks DEF Blurred
<1>2. v.data \in Int /\ w.data \in Int /\ v.data # w.data
  BY <1>1, ValueShapes DEF IsNaN
<1>3. AsDouble(v) = v.data /\ AsDouble(w) = w.data
  BY <1>1 DEF AsDouble
<1>4. /\ value_type_lt(v, w) <=> v.data < w.data
      /\ value_type_lt(w, v) <=> w.data < v.data
  BY <1>1, <1>2, <1>3, TypeOrderOfNumbers
<1>. QED BY <1>2, <1>4

\* dbval_type_lt, for any three DbValues that are not NaN and of which no two are
\* almost equal doubles.
LEMMA DeclaredOrderIsStrictWeak ==
    ASSUME NEW D, \A decl \in D : DeclOrder[decl] \in Int,
           NEW a \in [decl : D, val : Values],
           NEW b \in [decl : D, val : Values],
           NEW c \in [decl : D, val : Values],
           ~IsNaN(a.val), ~IsNaN(b.val), ~IsNaN(c.val),
           \A v, w \in {a.val, b.val, c.val} : ~Blurred(v, w)
    PROVE  /\ ~(dbval_type_lt(a, b) /\ dbval_type_lt(b, a))
           /\ dbval_type_lt(a, c) => dbval_type_lt(a, b) \/ dbval_type_lt(b, c)
<1>. DEFINE Sees(v) == value_type_eq(v, v)
<1>1. \A x, y \in {a, b, c} : value_type_eq(x.val, y.val) <=> x.val = y.val /\ Sees(x.val)
  <2>. SUFFICES ASSUME NEW x \in {a, b, c}, NEW y \in {a, b, c}, value_type_eq(x.val, y.val)
                PROVE  x.val = y.val
    OBVIOUS
  <2>. QED BY UnblurredEquals
<1>2. \A x, y \in {a, b, c} :
         dbval_type_lt(x, y) <=> \/ value_type_lt(x.val, y.val)
                                 \/ x.val = y.val /\ Sees(x.val) /\ DeclOrder[x.decl] < DeclOrder[y.decl]
  BY <1>1 DEF dbval_type_lt
<1>3. \A x, y \in {a, b, c} : ~value_type_lt(x.val, y.val) /\ ~value_type_lt(y.val, x.val) => x.val = y.val
  BY TypeOrderIsTotal
<1>4. \A x, y, z \in {a, b, c} :
         /\ ~(value_type_lt(x.val, y.val) /\ value_type_lt(y.val, x.val))
         /\ value_type_lt(x.val, z.val) => value_type_lt(x.val, y.val) \/ value_type_lt(y.val, z.val)
  BY TypeOrderIsStrictWeak
<1>5. \A x \in {a, b, c} : DeclOrder[x.decl] \in Int
  OBVIOUS
<1>. HIDE DEF Sees
<1>6. ~(dbval_type_lt(a, b) /\ dbval_type_lt(b, a))
  BY <1>2, <1>4, <1>5
<1>7. ASSUME dbval_type_lt(a, c) PROVE dbval_type_lt(a, b) \/ dbval_type_lt(b, c)
  <2>1. CASE value_type_lt(a.val, c.val)
    BY <1>2, <1>4, <2>1
  <2>2. CASE a.val = c.val /\ Sees(a.val) /\ DeclOrder[a.decl] < DeclOrder[c.decl]
    <3>1. CASE a.val = b.val
      <4>1. DeclOrder[a.decl] < DeclOrder[b.decl] \/ DeclOrder[b.decl] < DeclOrder[c.decl]
        BY <1>5, <2>2
      <4>. QED BY <1>2, <2>2, <3>1, <4>1
    <3>2. CASE a.val # b.val
      BY <1>2, <1>3, <2>2, <3>2
    <3>. QED BY <3>1, <3>2
  <2>. QED BY <1>2, <1>7, <2>1, <2>2
<1>. QED BY <1>6, <1>7
=============================================================================
