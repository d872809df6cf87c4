------------------------------- MODULE Numerics ------------------------------
(***************************************************************************)
(* Numbers on their way through libsl3: a program puts them into Values,   *)
(* takes them out by a conversion (src/src/sl3/value.cpp), sends them to   *)
(* sqlite as parameters (bind in src/src/sl3/command.cpp), reads them from *)
(* a column (src/src/sl3/columns.cpp), and puts what it got into a Value.  *)
(* Operators named ...Bug are mistakes the properties must catch.          *)
(***************************************************************************)
EXTENDS Orders

CONSTANTS
    Slots,   \* the Value objects
    Given    \* the Values a program constructs

ASSUME GivenAssumption == Given \subseteq Values

VARIABLES
    held,   \* per slot its Value, and as history the number it descends from
    last    \* how the last conversion ended

vars == <<held, last>>

NumericsTypeOK ==
    /\ held \in [Slots -> [val : Values, origin : Finite \cup {Inf, -Inf, NaN}]]
    /\ last \in {"ok", "null", "mismatch", "range", "undefined"}

Put(t, v, origin) == held' = [held EXCEPT ![t] = [val |-> v, origin |-> origin]]
Returned == last' = "ok"

\* Slot t gets a number that comes from slot s.
Pass(s, t, v) == Put(t, v, held[s].origin)

-----------------------------------------------------------------------------
(* Conversions of a Value.                                                 *)

Construct(t, v) == Put(t, v, Number(v)) /\ Returned

\* operator int64_t and operator int, for max = IntMax and NarrowMax.
RefusalBug(v, max) ==   \* Bug: an int64_t is taken for an int unseen
    IF v.type = "Int" THEN "none"
    ELSE IF v.type # "Real" \/ LosesFraction(v.data) THEN "mismatch"
    ELSE IF OutOfLimits(v.data, max) THEN "range" ELSE "none"
Refusal(v, max) ==
    CASE v.type = "Null"             -> "null"
      [] v.type \in {"Text", "Blob"} -> "mismatch"
      [] v.type = "Int"              -> IF v.data \in IntsUpTo(max) THEN "none" ELSE "range"
      [] v.type = "Real"             -> IF LosesFraction(v.data) THEN "mismatch"
                                        ELSE IF OutOfLimits(v.data, max) THEN "range" ELSE "none"

Whole(v) == IF v.type = "Int" THEN v.data ELSE v.data \div One

Undefined(v, max) == v.type = "Real" /\ Unrepresentable(v.data, max)

\* values[t] = Value {int64_t (values[s])}, or int.  An undefined cast gives the least
\* integer on x86 and the greatest on ARM.
TakeWhole(s, t, max) ==
    LET v == held[s].val IN
    /\ Refusal(v, max) = "none"
    /\ IF Undefined(v, max)
       THEN (\E n \in {-max - 1, max} : Pass(s, t, Int64(n))) /\ last' = "undefined"
       ELSE Pass(s, t, Int64(Whole(v))) /\ Returned

WholeRefused(s, max) ==
    /\ Refusal(held[s].val, max) # "none"
    /\ last' = Refusal(held[s].val, max)
    /\ UNCHANGED held

\* values[t] = Value {double (values[s])}
TakeReal(s, t) ==
    LET v == held[s].val IN
    IF IsNumber(v) THEN Pass(s, t, Real(AsDouble(v))) /\ Returned
                   ELSE last' = (IF v.type = "Null" THEN "null" ELSE "mismatch") /\ UNCHANGED held

-----------------------------------------------------------------------------
(* To sqlite and back: SELECT ?                                            *)

\* What sqlite has after bind.  NaN is a NULL there, and so is an empty blob when the
\* address of its first element, which it does not have, is null.
Bound(v) ==
    CASE IsNaN(v)                           -> {Null}
      [] v.type = "Blob" /\ v.data = 0      -> {Null, v}
      [] ~IsNaN(v) /\ ~(v.type = "Blob" /\ v.data = 0) -> {v}

\* getValue(idx) reads by the type that sqlite reports.
FetchValue(s, t) == (\E v \in Bound(held[s].val) : Pass(s, t, v)) /\ Returned

Truncated(x) == IF x < 0 THEN -((-x) \div One) ELSE x \div One

\* sqlite converts: a number that is too great becomes the greatest, a null zero.
ColumnInt64(v) ==
    CASE v.type = "Null" -> 0
      [] v.type = "Int"  -> v.data
      [] v.type = "Real" -> IF v.data >= AsReal(IntMax + 1) THEN IntMax
                            ELSE IF v.data <= AsReal(-IntMax - 1) THEN -IntMax - 1 ELSE Truncated(v.data)

\* The low bits of that.
ColumnInt(v) == ((ColumnInt64(v) + NarrowMax + 1) % (2 * (NarrowMax + 1))) - NarrowMax - 1

ColumnReal(v) == IF v.type = "Null" THEN 0 ELSE AsDouble(v)

\* getInt64(idx), getInt(idx) and getReal(idx) start a new descent.  How sqlite reads
\* a number from text is left out.
Fetch(s, t) ==
    \E v \in Bound(held[s].val) :
        /\ v.type \notin {"Text", "Blob"}
        /\ \E w \in {Int64(ColumnInt64(v)), Int64(ColumnInt(v)), Real(ColumnReal(v))} : Put(t, w, Number(w))
        /\ Returned

-----------------------------------------------------------------------------
(* The specification.                                                      *)

Init == held = [s \in Slots |-> [val |-> Null, origin |-> NaN]] /\ last = "ok"

Next ==
    \/ \E t \in Slots, v \in Given : Construct(t, v)
    \/ \E s, t \in Slots, max \in {IntMax, NarrowMax} : TakeWhole(s, t, max) \/ WholeRefused(s, max)
    \/ \E s, t \in Slots : TakeReal(s, t) \/ FetchValue(s, t) \/ Fetch(s, t)

Spec == Init /\ [][Next]_vars

-----------------------------------------------------------------------------
(* Properties of the conversions.                                          *)

Nearest(x) == IF IsFinite(x) THEN Rounded(x) ELSE x

\* An int64_t that as a double is one too great for any int64_t, and that double.
AtTheEdge(x) == Nearest(x) = AsReal(IntMax + 1)

\* However often a number goes from type to type and through sqlite, it is the one it
\* began as, or the double next to that; it is not rounded twice, and it does not
\* become null (value.cpp, losslessConvert1 and operator double).
NumbersDoNotDrift ==
    \A s \in Slots : LET x == held[s].origin IN
        x # NaN /\ ~AtTheEdge(x) => Number(held[s].val) \in {x, Nearest(x)}

\* The limits are compared as doubles, and as a double the greatest int64_t is one
\* more than it is: at that number, and nowhere else, the check lets an undefined
\* cast through (value.cpp, losslessConvert1).
UndefinedOnlyAtTheEdge ==
    last = "undefined" => \E s \in Slots : AtTheEdge(held[s].origin)

\* Where a Value can be taken for an int64_t, the accessor of Columns for that type,
\* which never refuses, reads the same.  getInt reads the same as the Value for every
\* int, and something else, without a word, for exactly the whole numbers that the
\* Value refuses as out of range (columns.cpp, getInt).
ReadsAgree ==
    \A s \in Slots : LET v == held[s].val IN
        /\ Refusal(v, IntMax) = "none" /\ ~Undefined(v, IntMax) => ColumnInt64(v) = Whole(v)
        /\ Refusal(v, NarrowMax) \in {"none", "range"} =>
              (ColumnInt(v) = Whole(v) <=> Refusal(v, NarrowMax) = "none")

-----------------------------------------------------------------------------
(* Properties of the orders.                                               *)

Comparable == {held[s].val : s \in {r \in Slots : ~IsNaN(held[r].val)}}

\* value_type_lt is a strict weak order, so that std::sort and std::map may use it,
\* although it compares integers with doubles after rounding them and with each other
\* before (value.cpp, value_type_lt).
TypeOrderIsWeak ==
    \A u, v, w \in Comparable :
        /\ ~(value_type_lt(u, v) /\ value_type_lt(v, u))
        /\ value_type_lt(u, w) => value_type_lt(u, v) \/ value_type_lt(v, w)

\* What the equalities have to do with the orders.  value_eq holds where value_lt puts
\* neither first.  value_type_eq holds where value_type_lt puts neither first, but for
\* two kinds of doubles: no infinity is equal to itself, and almost equal doubles are
\* equal though one is less, however far apart they are once their sum overflows
\* (value.cpp, value_type_eq; value.hpp, 278-287, speaks of "the same value").
OrdersAgree ==
    \A v, w \in Comparable :
        /\ value_eq(v, w) <=> ~value_lt(v, w) /\ ~value_lt(w, v)
        /\ value_type_eq(v, w) <=>
              \/ Blurred(v, w)
              \/ ~value_type_lt(v, w) /\ ~value_type_lt(w, v) /\ ~Infinite(v)

\* Where the orders differ from that of sqlite: only between an integer that no double
\* has and the double it is rounded to.  value_lt puts neither first there, and
\* value_type_lt the integer, also when the integer is the greater one, which is the
\* contrary of ORDER BY (value.cpp, is_less_equal; value.hpp, 292, says "equal to the
\* sorting rules of sqlite").  Where the two are equal to sqlite, value_type_lt puts
\* the integer first too.
OrderFollowsSqlite ==
    \A v, w \in Comparable :
        /\ value_lt(v, w) <=> SqliteLess(v, w) /\ ~RoundsTo(v, w) /\ ~RoundsTo(w, v)
        /\ value_type_lt(v, w) <=>
              \/ SqliteLess(v, w) /\ ~RoundsTo(w, v)
              \/ v.type = "Int" /\ w.type = "Real" /\ Number(v) = Number(w)
              \/ RoundsTo(v, w)

\* The types a DbValue with value v can be declared with.  None is declared Null, and
\* one with any other declared type may hold a null.
Declared(v) ==
    LET types == {"Variant"} \cup (IF v.type = "Null" THEN {"Int", "Real", "Text", "Blob"} ELSE {v.type})
    IN  [decl : types, val : {v}]

\* a is declared greater than b and holds the lesser of two almost equal doubles.
Clash(a, b) ==
    Blurred(a.val, b.val) /\ a.val.data < b.val.data /\ DeclOrder[b.decl] < DeclOrder[a.decl]

\* Of two DbValues, however they are declared and typed nulls among them, exactly one
\* is less than the other unless they are dbval_type_eq.  dbval_type_lt holds in both
\* directions, which no sort allows, exactly when a Variant holds the lesser of two
\* almost equal doubles and a Real the greater, and in none also for an infinity
\* however declared (dbvalue.cpp, dbval_type_lt).
DeclaredOrderIsStrict ==
    \A v, w \in Comparable : \A a \in Declared(v), b \in Declared(w) :
        LET less == dbval_type_lt(a, b)
            more == dbval_type_lt(b, a)
        IN  /\ less /\ more <=> Clash(a, b) \/ Clash(b, a)
            /\ ~less /\ ~more <=> \/ dbval_type_eq(a, b) /\ ~Blurred(v, w)
                                  \/ Infinite(v) /\ v = w
=============================================================================
