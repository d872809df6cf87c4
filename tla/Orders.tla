-------------------------------- MODULE Orders -------------------------------
(***************************************************************************)
(* The comparisons of Values and DbValues (src/src/sl3/value.cpp,          *)
(* src/src/sl3/dbvalue.cpp).  A Value has a type and data: an integer, a   *)
(* double as in Numbers, or for strings and blobs a place in their order.  *)
(* Operators named ...Bug are mistakes the properties must catch.          *)
(***************************************************************************)
EXTENDS Numbers

Int64(n) == [type |-> "Int", data |-> n]
Real(x)  == [type |-> "Real", data |-> x]
Null     == [type |-> "Null", data |-> 0]

Values == {Int64(n) : n \in Ints} \cup {Real(x) : x \in Doubles} \cup {Null}
          \cup [type : {"Text", "Blob"}, data : Nat]

Rank == [Null |-> 0, Int |-> 1, Real |-> 1, Text |-> 2, Blob |-> 3]
DeclOrder == [Null |-> 0, Int |-> 1, Real |-> 2, Text |-> 3, Blob |-> 4, Variant |-> 5]

IsNumber(v) == Rank[v.type] = 1
IsNaN(v) == v.type = "Real" /\ v.data = NaN

\* The common type of an int64_t and a double.
AsDouble(v) == IF v.type = "Int" THEN AsReal(v.data) ELSE v.data

\* Two numbers that are compared as doubles; two integers are not.
Mixed(v, w) == IsNumber(v) /\ IsNumber(w) /\ "Real" \in {v.type, w.type}

-----------------------------------------------------------------------------
(* Values.                                                                 *)

value_eqBug(v, w) == v.type = w.type /\ v.data = w.data   \* Bug: tells 1 from 1.0
value_eq(v, w) ==
    \/ v.type = "Null" /\ w.type = "Null"
    \/ Mixed(v, w) /\ RealEqual(AsDouble(v), AsDouble(w))
    \/ v.type = w.type /\ v.type \in {"Int", "Text", "Blob"} /\ v.data = w.data

\* Bug: two integers are compared as doubles as well.
value_ltBug(v, w) ==
    \/ Rank[v.type] < Rank[w.type]
    \/ IsNumber(v) /\ IsNumber(w) /\ RealLess(AsDouble(v), AsDouble(w))
    \/ v.type = w.type /\ v.type \in {"Text", "Blob"} /\ v.data < w.data
value_lt(v, w) ==
    \/ Rank[v.type] < Rank[w.type]
    \/ Mixed(v, w) /\ RealLess(AsDouble(v), AsDouble(w))
    \/ v.type = w.type /\ v.type \in {"Int", "Text", "Blob"} /\ v.data < w.data

value_type_eq(v, w) ==
    /\ v.type = w.type
    /\ CASE v.type = "Null" -> TRUE
         [] v.type = "Real" -> AlmostEqual(v.data, w.data)
         [] OTHER           -> v.data = w.data

\* Of an integer and a double that are equal the integer is less.
value_type_ltBug(v, w) == value_lt(v, w)   \* Bug: they are beside each other
value_type_lt(v, w) ==
    \/ value_lt(v, w)
    \/ v.type = "Int" /\ w.type = "Real" /\ RealEqual(AsDouble(v), w.data)

-----------------------------------------------------------------------------
(* DbValues: a value and its declared type.                                *)

dbval_lt(a, b) == value_lt(a.val, b.val)

dbval_type_eq(a, b) == a.decl = b.decl /\ value_type_eq(a.val, b.val)

\* Bug: the declared type counts even when the values differ.
dbval_type_ltBug(a, b) ==
    value_type_lt(a.val, b.val) \/ DeclOrder[a.decl] < DeclOrder[b.decl]
dbval_type_lt(a, b) ==
    \/ value_type_lt(a.val, b.val)
    \/ value_type_eq(a.val, b.val) /\ DeclOrder[a.decl] < DeclOrder[b.decl]

-----------------------------------------------------------------------------
(* The order of sqlite, and where the orders above can differ from it.     *)

\* The number itself, in quanta; NaN for what is none.
Number(v) == IF v.type = "Int" THEN v.data * One ELSE IF v.type = "Real" THEN v.data ELSE NaN

\* What ORDER BY does.
SqliteLess(v, w) ==
    \/ Rank[v.type] < Rank[w.type]
    \/ IsNumber(v) /\ IsNumber(w) /\ Number(v) < Number(w)
    \/ v.type = w.type /\ v.type \in {"Text", "Blob"} /\ v.data < w.data

ExactInDouble(v) == v.type = "Int" => AsReal(v.data) = Number(v)

\* An integer that no double has, and the double that it is rounded to.
RoundsTo(v, w) == ~ExactInDouble(v) /\ w.type = "Real" /\ AsDouble(v) = w.data

Infinite(v) == v.type = "Real" /\ v.data \in {Inf, -Inf}

\* Doubles that dbval_type_lt takes for the same and for one less than the other.
Blurred(v, w) == v.type = "Real" /\ w.type = "Real" /\ v # w /\ AlmostEqual(v.data, w.data)
=============================================================================
