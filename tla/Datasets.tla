------------------------------ MODULE Datasets -------------------------------
(***************************************************************************)
(* Datasets (src/src/sl3/dataset.cpp) and how a query fills them           *)
(* (Command::select in src/src/sl3/command.cpp, src/src/sl3/columns.cpp).  *)
(*                                                                         *)
(* A Dataset has the declared types of its fields, their names, and rows.  *)
(* Each operation checks some of the three against each other.             *)
(* Operators named ...Bug are mistakes the properties must catch; nothing  *)
(* else uses them.                                                         *)
(***************************************************************************)
EXTENDS Cells, Orders, Functions, FiniteSetsExt

CONSTANTS
    Sets,         \* the Dataset objects of a program
    TypeLists,    \* the declared types it asks for; none means that any will do
    Queries,      \* what its SELECTs return: names of columns, rows of values
    GivenRows,    \* the rows it merges itself
    NewCells,     \* what it assigns to a cell
    SortKeys,     \* the lists of fields it sorts by
    Comparators,  \* and by which comparison of cells
    MaxRows,      \* bound on the rows of all Datasets together
    MaxTouched    \* bound on them where a row is overwritten in place

Names == UNION {Range(q.names) : q \in Queries}
Cell  == [decl : Decls, val : Values]

FitsItsTypes(row) == \A i \in 1..Len(row) : ValueFits(row[i])

ASSUME DatasetsAssumption ==
    /\ TypeLists \subseteq Seq(Decls)
    /\ \A q \in Queries :
          /\ q.names \in Seq(Names) /\ q.names # <<>>
          /\ q.rows \in Seq(Seq(Values)) /\ \A n \in 1..Len(q.rows) : Len(q.rows[n]) = Len(q.names)
    /\ GivenRows \subseteq Seq(Cell) /\ \A row \in GivenRows : FitsItsTypes(row)
    /\ NewCells \subseteq Cell /\ \A c \in NewCells : ValueFits(c)
    /\ SortKeys \subseteq Seq(Int)
    /\ Comparators \subseteq {"dbval_lt", "dbval_type_lt"}
    /\ MaxRows \in Nat /\ MaxTouched \in Nat

VARIABLES
    ds,       \* per Dataset: types, names and rows
    last,     \* how the last call ended
    spoilt    \* history: Datasets with rows overwritten in place, or lost

vars == <<ds, last, spoilt>>

Empty == [types |-> <<>>, names |-> <<>>, rows |-> <<>>]

RowsInAll == FoldFunction(LAMBDA n, m : n + m, 0, [d \in Sets |-> Len(ds[d].rows)])
Bounded == RowsInAll <= MaxRows

DatasetTypeOK ==
    /\ ds \in [Sets -> [types : Seq(Decls), names : Seq(Names), rows : Seq(Seq(Cell))]]
    /\ last \in {"ok", "refused", "torn", "range"}
    /\ spoilt \subseteq Sets

Indices(d) == 1..Len(ds[d].rows)

Returned == last' = "ok"
Refused == last' = "refused" /\ UNCHANGED <<ds, spoilt>>

\* The rows of d come, all or in part, from those of e.
Inherits(d, e) == spoilt' = IF e \in spoilt THEN spoilt \cup {d} ELSE spoilt \ {d}

-----------------------------------------------------------------------------
(* Filling by a query.                                                     *)

\* Without types every field is a Variant.  Types are looked at when there is a row.
FieldTypes(types, q) ==
    IF types = <<>> THEN [i \in 1..Len(q.names) |-> "Variant"] ELSE types

FieldBug(type, v) == [decl |-> v.type, val |-> v]   \* Bug: also a null's
Field(type, v) == [decl |-> type, val |-> v]

ReadRow(types, row) == [i \in 1..Len(row) |-> Field(types[i], row[i])]

Readable(types, q) ==
    \A n \in 1..Len(q.rows) :
        /\ Len(FieldTypes(types, q)) = Len(q.names)
        /\ FitsItsTypes(ReadRow(FieldTypes(types, q), q.rows[n]))

Filled(types, q) ==
    IF q.rows = <<>> THEN [Empty EXCEPT !.types = types]
    ELSE [types |-> FieldTypes(types, q),
          names |-> q.names,
          rows  |-> [n \in 1..Len(q.rows) |-> ReadRow(FieldTypes(types, q), q.rows[n])]]

\* d = command.select(types)
Select(d, types, q) ==
    /\ Readable(types, q)
    /\ ds' = [ds EXCEPT ![d] = Filled(types, q)] /\ Bounded'
    /\ spoilt' = spoilt \ {d}
    /\ Returned

SelectRefused(types, q) == ~Readable(types, q) /\ Refused

\* sqlite reports an error at some row; the Dataset that select was filling is gone.
SelectFails == Refused

-----------------------------------------------------------------------------
(* Merging.                                                                *)

NamesAgree(d, e) ==
    ds[e].names # <<>> => ds[d].names \in {<<>>, ds[e].names}

TypesAgreeBug(types, others) ==   \* Bug: what fits a Variant fits from one as well
    /\ Len(types) = Len(others)
    /\ \A i \in 1..Len(types) : "Variant" \in {types[i], others[i]} \/ types[i] = others[i]
TypesAgree(types, others) ==
    /\ Len(types) = Len(others)
    /\ \A i \in 1..Len(types) : types[i] \in {"Variant", others[i]}

\* What is appended.  When a Dataset is merged with itself the vector may grow,
\* and then its own rows have been moved away before they are copied.
Appended(d, e) ==
    {ds[e].rows} \cup IF d = e THEN {[n \in 1..Len(ds[e].rows) |-> <<>>]} ELSE {}

\* merge(const Dataset&); the names are not taken over.
MergeSet(d, e) ==
    /\ NamesAgree(d, e) /\ TypesAgree(ds[d].types, ds[e].types)
    /\ \E more \in Appended(d, e) :
          /\ ds' = [ds EXCEPT ![d].rows = @ \o more]
          /\ spoilt' = IF e \in spoilt \/ more # ds[e].rows THEN spoilt \cup {d} ELSE spoilt
    /\ Bounded'
    /\ Returned

MergeSetRefused(d, e) ==
    /\ ~NamesAgree(d, e) \/ ~TypesAgree(ds[d].types, ds[e].types)
    /\ Refused

\* A Dataset without types takes a row of any size.
RowAgrees(types, row) ==
    types # <<>> => TypesAgree(types, LayoutOf(row))

\* merge(const DbValues&)
MergeRow(d, row) ==
    /\ RowAgrees(ds[d].types, row)
    /\ ds' = [ds EXCEPT ![d].rows = Append(@, row)] /\ Bounded'
    /\ Returned /\ UNCHANGED spoilt

MergeRowRefused(d, row) == ~RowAgrees(ds[d].types, row) /\ Refused

-----------------------------------------------------------------------------
(* Starting over, copying and moving.                                      *)

\* reset(): the types stay, also those that a query has found.
Reset(d) ==
    /\ ds' = [ds EXCEPT ![d].names = <<>>, ![d].rows = <<>>]
    /\ spoilt' = spoilt \ {d}
    /\ Returned

\* Bug: the types are new, the names are not.
ResetTypesBug(d, types) ==
    /\ ds' = [ds EXCEPT ![d].types = types, ![d].rows = <<>>]
    /\ spoilt' = spoilt \ {d}
    /\ Returned

\* reset(types), and a new Dataset in the place of d.
ResetTypes(d, types) ==
    /\ ds' = [ds EXCEPT ![d] = [Empty EXCEPT !.types = types]]
    /\ spoilt' = spoilt \ {d}
    /\ Returned

\* A copy of e in the place of d; also the assignment, when the vector of d is
\* too small for the rows of e.
CopyWhole(d, e) ==
    /\ ds' = [ds EXCEPT ![d] = ds[e]] /\ Bounded'
    /\ Inherits(d, e)
    /\ Returned

\* Otherwise std::vector assigns row to row, which keeps the declared types that
\* the rows of d have.
InBoth(d, e) == 1..Len(ds[d].rows) \cap 1..Len(ds[e].rows)

RefusesRow(d, e, n) == ~Compatible(ds[d].rows[n], ds[e].rows[n])

RowsAssigned(d, e) ==
    [n \in 1..Len(ds[e].rows) |->
        IF n \in InBoth(d, e) THEN RowAssigned(ds[d].rows[n], ds[e].rows[n])
                              ELSE ds[e].rows[n]]

CopyAssign(d, e) ==
    /\ d # e
    /\ \A n \in InBoth(d, e) : ~RefusesRow(d, e, n)
    /\ ds' = [ds EXCEPT ![d] = [ds[e] EXCEPT !.rows = RowsAssigned(d, e)]] /\ Bounded'
    /\ IF RowsAssigned(d, e) = ds[e].rows THEN Inherits(d, e) ELSE spoilt' = spoilt \cup {d}
    /\ Returned

\* A row refuses its counterpart; the rows before it are assigned, types and names
\* are not.
CopyAssignTorn(d, e) ==
    /\ d # e
    /\ \E n \in InBoth(d, e) :
          /\ RefusesRow(d, e, n)
          /\ \A m \in 1..n - 1 : ~RefusesRow(d, e, m)
          /\ ds' = [ds EXCEPT ![d].rows =
                      [m \in 1..Len(@) |-> IF m < n THEN RowAssigned(@[m], ds[e].rows[m]) ELSE @[m]]]
    /\ last' = "torn"
    /\ UNCHANGED spoilt

\* Dataset(Dataset&&) and operator=(Dataset&&)
Move(d, e) ==
    /\ d # e
    /\ ds' = [ds EXCEPT ![d] = ds[e], ![e] = Empty]
    /\ spoilt' = IF e \in spoilt THEN (spoilt \cup {d}) \ {e} ELSE spoilt \ {d}
    /\ Returned

-----------------------------------------------------------------------------
(* Rows in place: begin(), at() and operator[] give them out.              *)

\* d.at(n).at(i) = c
EditCell(d, n, i, c) ==
    /\ n \in Indices(d) /\ i \in 1..Len(ds[d].rows[n])
    /\ CanAssign(ds[d].rows[n][i], c)
    /\ ds' = [ds EXCEPT ![d].rows[n][i] = Assigned(@, c)]
    /\ Returned /\ UNCHANGED spoilt

\* There is no such row or cell, or it refuses the value.
EditRefused(d, n, i, c) ==
    /\ n \in Indices(d) /\ i \in 1..Len(ds[d].rows[n]) => ~CanAssign(ds[d].rows[n][i], c)
    /\ Refused

\* d.at(m).swap(e.at(n)): declared types go along.
SwapRows(d, m, e, n) ==
    /\ m \in Indices(d) /\ n \in Indices(e)
    /\ ds' = [ds EXCEPT ![d].rows[m] = ds[e].rows[n], ![e].rows[n] = ds[d].rows[m]]
    /\ spoilt' = IF d = e THEN spoilt ELSE spoilt \cup {d, e}
    /\ Returned

\* DbValues(std::move(d.at(n))): an empty row stays behind.
TakeRow(d, n) ==
    /\ n \in Indices(d)
    /\ ds' = [ds EXCEPT ![d].rows[n] = <<>>]
    /\ spoilt' = spoilt \cup {d}
    /\ Returned

-----------------------------------------------------------------------------
(* Sorting.                                                                *)

Less(cmp, c, d) == IF cmp = "dbval_lt" THEN dbval_lt(c, d) ELSE dbval_type_lt(c, d)

Has(a, b, key) == key \in 1..Len(a) /\ key \in 1..Len(b)

\* Bug: a field in which b is the lesser one does not end the comparison.
ComparisonBug(a, b, key, cmp) ==
    IF ~Has(a, b, key) THEN "throws"
    ELSE IF Less(cmp, a[key], b[key]) THEN "less" ELSE "equal"
Comparison(a, b, key, cmp) ==
    IF ~Has(a, b, key) THEN "throws"
    ELSE IF Less(cmp, a[key], b[key]) THEN "less"
    ELSE IF Less(cmp, b[key], a[key]) THEN "greater" ELSE "equal"

\* lessValues: the first field that settles the matter, or that a row lacks.
Verdict(a, b, keys, cmp) ==
    LET by       == [n \in 1..Len(keys) |-> Comparison(a, b, keys[n], cmp)]
        settling == {n \in 1..Len(keys) : by[n] # "equal"}
    IN  IF settling = {} THEN "equal" ELSE by[Min(settling)]

Verdicts(d, keys, cmp) ==
    [m \in Indices(d) |-> [n \in Indices(d) |-> Verdict(ds[d].rows[m], ds[d].rows[n], keys, cmp)]]

Arrangements(d) == Bijection(Indices(d), Indices(d))

\* Two rows of equal rank are compared sooner or later: a field they lack is found.
Throws(d, verdicts) ==
    \E m, n \in Indices(d) : m # n /\ verdicts[m][n] = "throws"

\* Whether lessValues is a strict weak order of the rows.
OrdersRows(d, verdicts) ==
    LET Before(m, n) == verdicts[m][n] = "less" IN
    \A k, m, n \in Indices(d) :
        /\ ~(Before(k, m) /\ Before(m, k))
        /\ Before(k, n) => Before(k, m) \/ Before(m, n)

Sortings(d, verdicts) ==
    {p \in Arrangements(d) :
        \A m, n \in Indices(d) : m < n => verdicts[p[n]][p[m]] # "less"}

\* std::sort promises nothing where it is none.
SortReturns(d, keys, cmp) ==
    LET verdicts == Verdicts(d, keys, cmp) IN
    /\ ~Throws(d, verdicts)
    /\ \E p \in IF OrdersRows(d, verdicts) THEN Sortings(d, verdicts) ELSE Arrangements(d) :
          ds' = [ds EXCEPT ![d].rows = [n \in Indices(d) |-> @[p[n]]]]
    /\ Returned /\ UNCHANGED spoilt

\* std::sort gives up with the rows in any order.  A row that it held in its hand,
\* on the way to its place after one comparison, is gone if the next one throws.
InHand(d, verdicts) ==
    {n \in Indices(d) : \E k, m \in Indices(d) \ {n} :
        verdicts[n][k] # "throws" /\ verdicts[n][m] = "throws"}

SortThrows(d, keys, cmp) ==
    LET verdicts == Verdicts(d, keys, cmp) IN
    /\ Throws(d, verdicts)
    /\ \E p \in Arrangements(d), lost \in SUBSET InHand(d, verdicts) :
          /\ \A m, n \in lost : m = n
          /\ ds' = [ds EXCEPT ![d].rows = [n \in Indices(d) |-> IF p[n] \in lost THEN <<>> ELSE @[p[n]]]]
          /\ spoilt' = IF lost = {} THEN spoilt ELSE spoilt \cup {d}
    /\ last' = "range"

-----------------------------------------------------------------------------
(* The specification.                                                      *)

Init ==
    /\ ds = [d \in Sets |-> Empty]
    /\ last = "ok"
    /\ spoilt = {}

Fill ==
    \/ \E types \in TypeLists, q \in Queries :
          (\E d \in Sets : Select(d, types, q)) \/ SelectRefused(types, q)
    \/ SelectFails
    \/ \E d, e \in Sets : MergeSet(d, e) \/ MergeSetRefused(d, e)
    \/ \E d \in Sets, row \in GivenRows : MergeRow(d, row) \/ MergeRowRefused(d, row)

Replace ==
    \/ \E d \in Sets : Reset(d) \/ \E types \in TypeLists : ResetTypes(d, types)
    \/ \E d, e \in Sets : CopyWhole(d, e) \/ CopyAssign(d, e) \/ CopyAssignTorn(d, e) \/ Move(d, e)

InPlace ==
    RowsInAll <= MaxTouched /\ \E d \in Sets, n \in 1..MaxTouched :
        \/ \E i \in {1, 2}, c \in NewCells : EditCell(d, n, i, c) \/ EditRefused(d, n, i, c)
        \/ \E e \in Sets, m \in 1..MaxTouched : SwapRows(d, m, e, n)
        \/ TakeRow(d, n)

SortNext ==
    \E d \in Sets, keys \in SortKeys, cmp \in Comparators :
        SortReturns(d, keys, cmp) \/ SortThrows(d, keys, cmp)

Next == Fill \/ Replace \/ InPlace \/ SortNext

Spec == Init /\ [][Next]_vars

-----------------------------------------------------------------------------
(* Properties.                                                             *)

\* Rows that nobody overwrote fit the fields of their Dataset, however they came
\* there: by queries, merges, copies and moves (dataset.hpp, merge and Dataset(Types)).
\* merge(const Dataset&) looks at the types only and relies on that.
RowsFit ==
    \A d \in Sets : \A n \in Indices(d) :
        /\ FitsItsTypes(ds[d].rows[n])
        /\ d \notin spoilt /\ ds[d].types # <<>> =>
              /\ Len(ds[d].rows[n]) = Len(ds[d].types)
              /\ \A i \in 1..Len(ds[d].types) : ds[d].types[i] \in {"Variant", ds[d].rows[n][i].decl}

\* Where fields have names, getIndex gives an index that the types have, and every
\* row that nobody overwrote (dataset.hpp, getIndex).
NamesFitFields ==
    \A d \in Sets : ds[d].names # <<>> =>
        /\ Len(ds[d].names) = Len(ds[d].types)
        /\ d \notin spoilt => \A n \in Indices(d) : Len(ds[d].rows[n]) = Len(ds[d].names)

\* What spoils the comparisons: NaN, for dbval_lt integers that no double has exactly,
\* for dbval_type_lt doubles that it takes for the same although one is less.
Orderable(d, cmp) ==
    LET values == UNION {{c.val : c \in Range(row)} : row \in Range(ds[d].rows)} IN
    /\ \A v \in values : ~IsNaN(v)
    /\ IF cmp = "dbval_lt" THEN \A v \in values : ExactInDouble(v)
                           ELSE \A v, w \in values : ~Blurred(v, w)

\* What std::sort is given is a strict weak order of the rows a Dataset has got,
\* for every list of fields, by either comparison, where none of the comparisons
\* throws and no number spoils them; anything else would be undefined (dataset.cpp,
\* lessValues).
SortOrderIsWeak ==
    \A d \in Sets, keys \in SortKeys, cmp \in Comparators :
        LET verdicts == Verdicts(d, keys, cmp) IN
        ~Throws(d, verdicts) /\ Orderable(d, cmp) => OrdersRows(d, verdicts)

\* A sorted Dataset is in the order of sqlite (dataset.hpp, sort).
InSqliteOrder(rows, keys) ==
    \A m, n \in 1..Len(rows) : m < n =>
        \A i \in 1..Len(keys) :
            Has(rows[m], rows[n], keys[i]) /\ SqliteLess(rows[n][keys[i]].val, rows[m][keys[i]].val) =>
                \E j \in 1..i - 1 : SqliteLess(rows[m][keys[j]].val, rows[n][keys[j]].val)

SortsLikeSqlite ==
    [][\A d \in Sets, keys \in SortKeys :
          SortReturns(d, keys, "dbval_lt") => InSqliteOrder(ds'[d].rows, keys)]_vars

\* After an assignment the left side is the right side (dataset.hpp, operator=).
AssignmentCopies ==
    [][\A d, e \in Sets : CopyAssign(d, e) \/ CopyAssignTorn(d, e) => ds'[d] = ds[e]]_vars
=============================================================================
