---------------------------- MODULE DatasetsProofs ----------------------------
(***************************************************************************)
(* Proofs about Datasets, for every set of Datasets, queries, rows and     *)
(* cells, for every list of fields to sort by and every rounding.          *)
(*                                                                         *)
(* A Dataset is sound when its cells hold what their declared types allow, *)
(* its names are as many as its types, and, unless rows of it have been    *)
(* overwritten in place, every row fits the types.  Sorting relies on      *)
(* nothing but the cells: a lexicographic comparison by strict weak orders *)
(* is one.                                                                 *)
(***************************************************************************)
EXTENDS Datasets, OrdersProofs, SequenceTheorems, WellFoundedInduction

GoodCell == {c \in Cell : ValueFits(c)}
GoodRow  == Seq(GoodCell)
GoodSet  == [types : Seq(Decls), names : Seq(Names), rows : Seq(GoodRow)]

\* A row, and all of some rows, have the cells that a list of types asks for.
RowFits(types, row) ==
    types # <<>> =>
        /\ Len(row) = Len(types)
        /\ \A i \in 1..Len(types) : types[i] \in {"Variant", row[i].decl}
AllFit(types, rows) == \A n \in 1..Len(rows) : RowFits(types, rows[n])

Named(x) == x.names # <<>> => Len(x.names) = Len(x.types)

\* The Datasets D, of which those in S are spoilt, are sound.
Sound(D, S) ==
    /\ D \in [Sets -> GoodSet] /\ S \subseteq Sets
    /\ \A d \in Sets : Named(D[d]) /\ (d \notin S => AllFit(D[d].types, D[d].rows))

\* The inductive invariant.
SetsInv == Sound(ds, spoilt) /\ last \in {"ok", "refused", "torn", "range"}

-----------------------------------------------------------------------------
(* Rows.                                                                   *)

\* A function on 1..n is a sequence of length n.
LEMMA SeqOnInterval ==
    ASSUME NEW S, NEW n \in Nat, NEW f \in [1..n -> S]
    PROVE  f \in Seq(S) /\ Len(f) = n
<1>1. f \in Seq(S)
  BY SeqDef
<1>2. Len(f) \in Nat /\ DOMAIN f = 1..Len(f)
  BY <1>1, LenProperties
<1>3. 1..n = 1..Len(f)
  BY <1>2
<1>. QED BY <1>1, <1>2, <1>3

\* A row with the same declared types fits where the other does.
LEMMA SameDeclsFit ==
    ASSUME NEW types \in Seq(Decls), NEW s \in GoodRow, NEW t \in GoodRow,
           Len(t) = Len(s), \A i \in 1..Len(s) : t[i].decl = s[i].decl,
           RowFits(types, s)
    PROVE  RowFits(types, t)
BY DEF RowFits

LEMMA AssignFits ==
    ASSUME NEW c \in GoodCell, NEW d \in Cell, ValueFits(d), CanAssign(c, d)
    PROVE  Assigned(c, d) \in GoodCell /\ Assigned(c, d).decl = c.decl
BY DEF GoodCell, Cell, CanAssign, Assigned, ValueFits

\* Assigning row to row keeps the declared types.
LEMMA RowAssignFits ==
    ASSUME NEW s \in GoodRow, NEW t \in GoodRow, Compatible(s, t)
    PROVE  /\ RowAssigned(s, t) \in GoodRow /\ Len(RowAssigned(s, t)) = Len(s)
           /\ \A i \in 1..Len(s) : RowAssigned(s, t)[i].decl = s[i].decl
<1>. DEFINE p == RowAssigned(s, t)
<1>1. Len(s) \in Nat
  BY LenProperties DEF GoodRow
<1>2. \A i \in 1..Len(s) : s[i] \in GoodCell /\ t[i] \in GoodCell /\ CanAssign(s[i], t[i])
  BY ElementOfSeq DEF GoodRow, Compatible
<1>3. \A i \in 1..Len(s) : p[i] \in GoodCell /\ p[i].decl = s[i].decl
  BY <1>2, AssignFits DEF RowAssigned, GoodCell
<1>4. p \in [1..Len(s) -> GoodCell]
  BY <1>3 DEF RowAssigned
<1>. HIDE DEF p
<1>5. p \in GoodRow /\ Len(p) = Len(s)
  BY <1>1, <1>4, SeqOnInterval DEF GoodRow
<1>. QED BY <1>3, <1>5 DEF p

\* A cell of a row is replaced by one with the same declared type.
LEMMA CellPut ==
    ASSUME NEW s \in GoodRow, NEW i \in 1..Len(s), NEW c \in GoodCell, c.decl = s[i].decl
    PROVE  /\ [s EXCEPT ![i] = c] \in GoodRow /\ Len([s EXCEPT ![i] = c]) = Len(s)
           /\ \A j \in 1..Len(s) : [s EXCEPT ![i] = c][j].decl = s[j].decl
BY ExceptSeq DEF GoodRow

LEMMA NoRows ==
    /\ <<>> \in Seq(GoodRow) /\ <<>> \in GoodRow /\ <<>> \in Seq(Names) /\ <<>> \in Seq(Decls)
    /\ \A types : AllFit(types, <<>>)
<1>1. \A S : <<>> \in Seq(S)
  BY EmptySeq
<1>2. Len(<<>>) = 0
  BY EmptySeq
<1>3. \A types : AllFit(types, <<>>)
  BY <1>2 DEF AllFit
<1>. QED BY <1>1, <1>3 DEF GoodRow

\* Rows, given one by one.
LEMMA RowsMade ==
    ASSUME NEW n \in Nat, NEW R, R = [m \in 1..n |-> R[m]], \A m \in 1..n : R[m] \in GoodRow,
           NEW types
    PROVE  /\ R \in Seq(GoodRow) /\ Len(R) = n
           /\ (\A m \in 1..n : RowFits(types, R[m])) => AllFit(types, R)
<1>1. R \in [1..n -> GoodRow]
  OBVIOUS
<1>2. R \in Seq(GoodRow) /\ Len(R) = n
  BY <1>1, SeqOnInterval
<1>. QED BY <1>2 DEF AllFit

\* Rows appended to rows.
LEMMA RowsJoined ==
    ASSUME NEW R \in Seq(GoodRow), NEW Q \in Seq(GoodRow), NEW types
    PROVE  /\ R \o Q \in Seq(GoodRow)
           /\ AllFit(types, R) /\ AllFit(types, Q) => AllFit(types, R \o Q)
<1>1. /\ R \o Q \in Seq(GoodRow) /\ Len(R \o Q) = Len(R) + Len(Q)
      /\ \A i \in 1..Len(R) + Len(Q) : (R \o Q)[i] = IF i <= Len(R) THEN R[i] ELSE Q[i - Len(R)]
  BY ConcatProperties
<1>2. Len(R) \in Nat /\ Len(Q) \in Nat
  BY LenProperties
<1>3. ASSUME AllFit(types, R), AllFit(types, Q), NEW i \in 1..Len(R \o Q)
      PROVE  RowFits(types, (R \o Q)[i])
  <2>1. CASE i <= Len(R)
    BY <1>1, <1>2, <1>3, <2>1 DEF AllFit
  <2>2. CASE ~(i <= Len(R))
    <3>1. i - Len(R) \in 1..Len(Q)
      BY <1>1, <1>2, <1>3, <2>2
    <3>. QED BY <1>1, <1>2, <1>3, <2>2, <3>1 DEF AllFit
  <2>. QED BY <2>1, <2>2
<1>4. AllFit(types, R) /\ AllFit(types, Q) => AllFit(types, R \o Q)
  BY <1>3 DEF AllFit
<1>. QED BY <1>1, <1>4

\* A row of some is replaced.
LEMMA RowPut ==
    ASSUME NEW R \in Seq(GoodRow), NEW n \in 1..Len(R), NEW row \in GoodRow, NEW types
    PROVE  /\ [R EXCEPT ![n] = row] \in Seq(GoodRow) /\ Len([R EXCEPT ![n] = row]) = Len(R)
           /\ AllFit(types, R) /\ RowFits(types, row) => AllFit(types, [R EXCEPT ![n] = row])
<1>1. /\ [R EXCEPT ![n] = row] \in Seq(GoodRow) /\ Len([R EXCEPT ![n] = row]) = Len(R)
      /\ \A m \in 1..Len(R) : [R EXCEPT ![n] = row][m] = IF m = n THEN row ELSE R[m]
  BY ExceptSeq
<1>. QED BY <1>1 DEF AllFit

-----------------------------------------------------------------------------
(* Datasets.                                                               *)

\* What a sound family says of one Dataset.
LEMMA SoundSet ==
    ASSUME NEW D, NEW S, Sound(D, S), NEW d \in Sets
    PROVE  /\ D[d] \in GoodSet /\ D[d].types \in Seq(Decls) /\ D[d].names \in Seq(Names)
           /\ D[d].rows \in Seq(GoodRow) /\ Len(D[d].rows) \in Nat
           /\ \A n \in 1..Len(D[d].rows) : D[d].rows[n] \in GoodRow /\ Len(D[d].rows[n]) \in Nat
           /\ Named(D[d])
           /\ d \notin S => AllFit(D[d].types, D[d].rows)
<1>1. D[d] \in GoodSet
  BY DEF Sound
<1>2. D[d].rows \in Seq(GoodRow)
  BY <1>1 DEF GoodSet
<1>3. \A n \in 1..Len(D[d].rows) : D[d].rows[n] \in GoodRow
  BY <1>2, ElementOfSeq
<1>4. \A row \in GoodRow : Len(row) \in Nat
  BY LenProperties DEF GoodRow
<1>5. Len(D[d].rows) \in Nat
  BY <1>2, LenProperties
<1>. QED BY <1>1, <1>2, <1>3, <1>4, <1>5 DEF Sound, GoodSet

\* One Dataset is replaced by another.
LEMMA SetPut ==
    ASSUME NEW D, NEW S, Sound(D, S), NEW d \in Sets, NEW x \in GoodSet, Named(x),
           NEW T \in SUBSET Sets, S \subseteq T \cup {d}, d \notin T => AllFit(x.types, x.rows)
    PROVE  Sound([D EXCEPT ![d] = x], T)
BY DEF Sound

\* The rows of one Dataset are replaced by others.
LEMMA RowsPut ==
    ASSUME NEW D, NEW S, Sound(D, S), NEW d \in Sets, NEW R \in Seq(GoodRow),
           NEW T \in SUBSET Sets, S \subseteq T \cup {d}, d \notin T => AllFit(D[d].types, R)
    PROVE  Sound([D EXCEPT ![d].rows = R], T)
<1>. DEFINE x == [D[d] EXCEPT !.rows = R]
<1>1. D[d] \in GoodSet /\ Named(D[d])
  BY SoundSet
<1>2. x \in GoodSet /\ x.types = D[d].types /\ x.names = D[d].names /\ x.rows = R
  BY <1>1 DEF GoodSet
<1>3. [D EXCEPT ![d].rows = R] = [D EXCEPT ![d] = x]
  OBVIOUS
<1>. HIDE DEF x
<1>4. Named(x)
  BY <1>1, <1>2 DEF Named
<1>5. Sound([D EXCEPT ![d] = x], T)
  BY <1>2, <1>4, SetPut
<1>. QED BY <1>3, <1>5
-----------------------------------------------------------------------------
(* Filling.                                                                *)

\* What the assumption says of a query.
LEMMA QueryFacts ==
    ASSUME NEW q \in Queries
    PROVE  /\ q.names \in Seq(Names) /\ Len(q.names) \in Nat \ {0}
           /\ q.rows \in Seq(Seq(Values)) /\ Len(q.rows) \in Nat
           /\ \A n \in 1..Len(q.rows) :
                 /\ q.rows[n] \in Seq(Values) /\ Len(q.rows[n]) = Len(q.names)
                 /\ \A i \in 1..Len(q.names) : q.rows[n][i] \in Values
<1>1. /\ q.names \in Seq(Names) /\ q.names # <<>> /\ q.rows \in Seq(Seq(Values))
      /\ \A n \in 1..Len(q.rows) : Len(q.rows[n]) = Len(q.names)
  BY DatasetsAssumption
<1>2. Len(q.names) \in Nat \ {0}
  BY <1>1, EmptySeq
<1>3. Len(q.rows) \in Nat
  BY <1>1, LenProperties
<1>4. \A n \in 1..Len(q.rows) : q.rows[n] \in Seq(Values)
  BY <1>1, ElementOfSeq
<1>5. \A n \in 1..Len(q.rows) : \A i \in 1..Len(q.rows[n]) : q.rows[n][i] \in Values
  BY <1>4, ElementOfSeq
<1>. QED BY <1>1, <1>2, <1>3, <1>4, <1>5

\* A row that was read fits the types it was read by.
LEMMA ReadRowFits ==
    ASSUME NEW types \in Seq(Decls), NEW row \in Seq(Values), Len(row) = Len(types),
           FitsItsTypes(ReadRow(types, row))
    PROVE  ReadRow(types, row) \in GoodRow /\ RowFits(types, ReadRow(types, row))
<1>. DEFINE p == ReadRow(types, row)
<1>1. Len(row) \in Nat
  BY LenProperties
<1>2. \A i \in 1..Len(row) : types[i] \in Decls /\ row[i] \in Values
  BY ElementOfSeq
<1>3. p \in [1..Len(row) -> Cell] /\ \A i \in 1..Len(row) : p[i].decl = types[i]
  BY <1>2 DEF ReadRow, Field, Cell
<1>4. FitsItsTypes(p)
  OBVIOUS
<1>. HIDE DEF p
<1>5. p \in Seq(Cell) /\ Len(p) = Len(row)
  BY <1>1, <1>3, SeqOnInterval
<1>6. p \in [1..Len(row) -> GoodCell]
  BY <1>3, <1>4, <1>5 DEF FitsItsTypes, GoodCell
<1>7. p \in GoodRow
  BY <1>1, <1>6, SeqOnInterval DEF GoodRow
<1>8. RowFits(types, p)
  BY <1>3, <1>5 DEF RowFits
<1>. QED BY <1>7, <1>8 DEF p

LEMMA FilledFits ==
    ASSUME NEW types \in Seq(Decls), NEW q \in Queries, Readable(types, q)
    PROVE  LET x == Filled(types, q) IN x \in GoodSet /\ Named(x) /\ AllFit(x.types, x.rows)
<1>1. CASE q.rows = <<>>
  BY <1>1, NoRows DEF Filled, Empty, GoodSet, Named
<1>2. CASE q.rows # <<>>
  <2>. DEFINE F == FieldTypes(types, q)
             R == [n \in 1..Len(q.rows) |-> ReadRow(F, q.rows[n])]
  <2>1. Len(q.rows) \in Nat /\ 1 \in 1..Len(q.rows)
    BY <1>2, QueryFacts, EmptySeq
  <2>2. Len(F) = Len(q.names) /\ \A n \in 1..Len(q.rows) : FitsItsTypes(ReadRow(F, q.rows[n]))
    BY <2>1 DEF Readable
  <2>3. F \in Seq(Decls)
    <3>1. CASE types = <<>>
      <4>1. [i \in 1..Len(q.names) |-> "Variant"] \in [1..Len(q.names) -> Decls]
        BY DEF Decls
      <4>2. [i \in 1..Len(q.names) |-> "Variant"] \in Seq(Decls)
        BY <4>1, QueryFacts, SeqOnInterval
      <4>. QED BY <3>1, <4>2 DEF FieldTypes
    <3>2. CASE types # <<>>
      BY <3>2 DEF FieldTypes
    <3>. QED BY <3>1, <3>2
  <2>4. Filled(types, q) = [types |-> F, names |-> q.names, rows |-> R]
    BY <1>2 DEF Filled
  <2>. HIDE DEF F
  <2>5. \A n \in 1..Len(q.rows) : ReadRow(F, q.rows[n]) \in GoodRow /\ RowFits(F, ReadRow(F, q.rows[n]))
    BY <2>2, <2>3, QueryFacts, ReadRowFits
  <2>6. /\ R = [n \in 1..Len(q.rows) |-> R[n]]
        /\ \A n \in 1..Len(q.rows) : R[n] \in GoodRow /\ RowFits(F, R[n])
    BY <2>5
  <2>. HIDE DEF R
  <2>7. R \in Seq(GoodRow) /\ AllFit(F, R)
    BY <2>1, <2>6, RowsMade
  <2>. QED BY <2>2, <2>3, <2>4, <2>7, QueryFacts DEF GoodSet, Named
<1>. QED BY <1>1, <1>2

LEMMA SelectSound ==
    ASSUME Sound(ds, spoilt), NEW d \in Sets, NEW types \in TypeLists, NEW q \in Queries, Select(d, types, q)
    PROVE  Sound(ds', spoilt')
<1>. DEFINE x == Filled(types, q)
<1>1. types \in Seq(Decls)
  BY DatasetsAssumption
<1>2. x \in GoodSet /\ Named(x) /\ AllFit(x.types, x.rows)
  BY <1>1, FilledFits DEF Select
<1>3. ds' = [ds EXCEPT ![d] = x] /\ spoilt' = spoilt \ {d}
  BY DEF Select
<1>. HIDE DEF x
<1>4. spoilt' \in SUBSET Sets /\ spoilt \subseteq spoilt' \cup {d}
  BY <1>3 DEF Sound
<1>5. Sound([ds EXCEPT ![d] = x], spoilt')
  BY <1>2, <1>4, SetPut
<1>. QED BY <1>3, <1>5

\* Types that agree: what fits the others fits these.
LEMMA AgreeingFit ==
    ASSUME NEW types \in Seq(Decls), NEW others \in Seq(Decls), TypesAgree(types, others),
           NEW row \in GoodRow, RowFits(others, row)
    PROVE  RowFits(types, row)
<1>1. Len(types) \in Nat /\ Len(types) = Len(others)
  BY LenProperties DEF TypesAgree
<1>2. types # <<>> => others # <<>>
  BY <1>1, EmptySeq
<1>. QED BY <1>1, <1>2 DEF RowFits, TypesAgree

LEMMA MergeSetSound ==
    ASSUME Sound(ds, spoilt), NEW d \in Sets, NEW e \in Sets, MergeSet(d, e)
    PROVE  Sound(ds', spoilt')
<1>1. PICK more \in Appended(d, e) :
         /\ ds' = [ds EXCEPT ![d].rows = @ \o more]
         /\ spoilt' = IF e \in spoilt \/ more # ds[e].rows THEN spoilt \cup {d} ELSE spoilt
  BY DEF MergeSet
<1>2. more \in Seq(GoodRow)
  <2>. DEFINE gone == [n \in 1..Len(ds[e].rows) |-> <<>>]
  <2>1. gone \in [1..Len(ds[e].rows) -> GoodRow]
    BY NoRows
  <2>. HIDE DEF gone
  <2>2. gone \in Seq(GoodRow)
    BY <2>1, SoundSet, SeqOnInterval
  <2>3. more \in {ds[e].rows, gone}
    BY DEF Appended, gone
  <2>. QED BY <2>2, <2>3, SoundSet
<1>. DEFINE R == ds[d].rows \o more
<1>3. ds' = [ds EXCEPT ![d].rows = R]
  BY <1>1
<1>4. R \in Seq(GoodRow)
  BY <1>2, SoundSet, RowsJoined
<1>5. ASSUME d \notin spoilt' PROVE AllFit(ds[d].types, R)
  <2>1. d \notin spoilt /\ e \notin spoilt /\ more = ds[e].rows
    BY <1>1, <1>5
  <2>2. TypesAgree(ds[d].types, ds[e].types)
    BY DEF MergeSet
  <2>3. AllFit(ds[d].types, more)
    BY <2>1, <2>2, SoundSet, AgreeingFit DEF AllFit
  <2>. QED BY <1>2, <2>1, <2>3, SoundSet, RowsJoined
<1>. HIDE DEF R
<1>6. spoilt' \in SUBSET Sets /\ spoilt \subseteq spoilt' \cup {d}
  BY <1>1 DEF Sound
<1>7. Sound([ds EXCEPT ![d].rows = R], spoilt')
  BY <1>4, <1>5, <1>6, RowsPut
<1>. QED BY <1>3, <1>7

LEMMA MergeRowSound ==
    ASSUME Sound(ds, spoilt), NEW d \in Sets, NEW row \in GivenRows, MergeRow(d, row)
    PROVE  Sound(ds', spoilt')
<1>1. row \in GoodRow /\ Len(row) \in Nat
  <2>1. row \in Seq(Cell) /\ FitsItsTypes(row)
    BY DatasetsAssumption
  <2>2. Len(row) \in Nat /\ row \in [1..Len(row) -> Cell]
    BY <2>1, LenProperties
  <2>3. row \in [1..Len(row) -> GoodCell]
    BY <2>1, <2>2 DEF FitsItsTypes, GoodCell
  <2>. QED BY <2>2, <2>3, SeqOnInterval DEF GoodRow
<1>2. RowFits(ds[d].types, row)
  <2>1. LayoutOf(row) = [i \in 1..Len(row) |-> row[i].decl]
    BY DEF LayoutOf
  <2>2. \A i \in 1..Len(row) : row[i].decl \in Decls
    BY <1>1, ElementOfSeq DEF GoodRow, GoodCell, Cell
  <2>3. LayoutOf(row) \in [1..Len(row) -> Decls]
    BY <2>1, <2>2
  <2>4. Len(LayoutOf(row)) = Len(row)
    BY <1>1, <2>3, SeqOnInterval
  <2>5. RowAgrees(ds[d].types, row)
    BY DEF MergeRow
  <2>. QED BY <2>1, <2>4, <2>5 DEF RowAgrees, TypesAgree, RowFits
<1>. DEFINE R == Append(ds[d].rows, row)
<1>3. ds' = [ds EXCEPT ![d].rows = R] /\ spoilt' = spoilt
  BY DEF MergeRow
<1>4. /\ R \in Seq(GoodRow) /\ Len(R) = Len(ds[d].rows) + 1
      /\ \A n \in 1..Len(R) : R[n] = IF n <= Len(ds[d].rows) THEN ds[d].rows[n] ELSE row
  BY <1>1, SoundSet, AppendProperties
<1>. HIDE DEF R
<1>5. d \notin spoilt => AllFit(ds[d].types, R)
  <2>1. \A n \in 1..Len(R) : n <= Len(ds[d].rows) => n \in 1..Len(ds[d].rows)
    BY <1>4, SoundSet
  <2>2. d \notin spoilt => AllFit(ds[d].types, ds[d].rows)
    BY SoundSet
  <2>. QED BY <1>2, <1>4, <2>1, <2>2 DEF AllFit
<1>6. Sound([ds EXCEPT ![d].rows = R], spoilt)
  BY <1>4, <1>5, RowsPut DEF Sound
<1>. QED BY <1>3, <1>6
-----------------------------------------------------------------------------
(* Starting over, copying and moving.                                      *)

LEMMA ResetSound ==
    ASSUME Sound(ds, spoilt), NEW d \in Sets, Reset(d)
    PROVE  Sound(ds', spoilt')
<1>. DEFINE x == [ds[d] EXCEPT !.names = <<>>, !.rows = <<>>]
<1>1. x \in GoodSet /\ x.names = <<>> /\ x.rows = <<>>
  BY NoRows, SoundSet DEF GoodSet
<1>2. ds' = [ds EXCEPT ![d] = x] /\ spoilt' = spoilt \ {d}
  BY DEF Reset
<1>. HIDE DEF x
<1>3. Named(x) /\ AllFit(x.types, x.rows)
  BY <1>1, NoRows DEF Named
<1>4. spoilt' \in SUBSET Sets /\ spoilt \subseteq spoilt' \cup {d}
  BY <1>2 DEF Sound
<1>5. Sound([ds EXCEPT ![d] = x], spoilt')
  BY <1>1, <1>3, <1>4, SetPut
<1>. QED BY <1>2, <1>5

LEMMA ResetTypesSound ==
    ASSUME Sound(ds, spoilt), NEW d \in Sets, NEW types \in TypeLists, ResetTypes(d, types)
    PROVE  Sound(ds', spoilt')
<1>. DEFINE x == [Empty EXCEPT !.types = types]
<1>1. x \in GoodSet /\ Named(x) /\ AllFit(x.types, x.rows)
  BY NoRows, DatasetsAssumption DEF Empty, GoodSet, Named
<1>2. ds' = [ds EXCEPT ![d] = x] /\ spoilt' = spoilt \ {d}
  BY DEF ResetTypes
<1>. HIDE DEF x
<1>3. spoilt' \in SUBSET Sets /\ spoilt \subseteq spoilt' \cup {d}
  BY <1>2 DEF Sound
<1>4. Sound([ds EXCEPT ![d] = x], spoilt')
  BY <1>1, <1>3, SetPut
<1>. QED BY <1>2, <1>4

LEMMA CopyWholeSound ==
    ASSUME Sound(ds, spoilt), NEW d \in Sets, NEW e \in Sets, CopyWhole(d, e)
    PROVE  Sound(ds', spoilt')
<1>1. /\ spoilt' \in SUBSET Sets /\ spoilt \subseteq spoilt' \cup {d}
      /\ d \notin spoilt' => e \notin spoilt
  BY DEF CopyWhole, Inherits, Sound
<1>2. Sound([ds EXCEPT ![d] = ds[e]], spoilt')
  BY <1>1, SoundSet, SetPut
<1>. QED BY <1>2 DEF CopyWhole

\* The rows that an assignment leaves.
LEMMA RowsAssignedGood ==
    ASSUME Sound(ds, spoilt), NEW d \in Sets, NEW e \in Sets,
           \A n \in InBoth(d, e) : ~RefusesRow(d, e, n)
    PROVE  RowsAssigned(d, e) \in Seq(GoodRow)
<1>. DEFINE R == RowsAssigned(d, e)
<1>1. \A n \in 1..Len(ds[e].rows) : R[n] \in GoodRow
  <2>. SUFFICES ASSUME NEW n \in 1..Len(ds[e].rows) PROVE R[n] \in GoodRow
    OBVIOUS
  <2>1. CASE n \in InBoth(d, e)
    <3>1. ds[d].rows[n] \in GoodRow /\ ds[e].rows[n] \in GoodRow
      BY <2>1, SoundSet DEF InBoth
    <3>2. Compatible(ds[d].rows[n], ds[e].rows[n])
      BY <2>1 DEF RefusesRow
    <3>3. R[n] = RowAssigned(ds[d].rows[n], ds[e].rows[n])
      BY <2>1 DEF RowsAssigned
    <3>. QED BY <3>1, <3>2, <3>3, RowAssignFits
  <2>2. CASE n \notin InBoth(d, e)
    BY <2>2, SoundSet DEF RowsAssigned
  <2>. QED BY <2>1, <2>2
<1>2. R = [n \in 1..Len(ds[e].rows) |-> R[n]]
  BY DEF RowsAssigned
<1>. HIDE DEF R
<1>3. R \in Seq(GoodRow)
  BY <1>1, <1>2, SoundSet, RowsMade
<1>. QED BY <1>3 DEF R

LEMMA CopyAssignSound ==
    ASSUME Sound(ds, spoilt), NEW d \in Sets, NEW e \in Sets, CopyAssign(d, e)
    PROVE  Sound(ds', spoilt')
<1>. DEFINE x == [ds[e] EXCEPT !.rows = RowsAssigned(d, e)]
<1>1. RowsAssigned(d, e) \in Seq(GoodRow)
  BY RowsAssignedGood DEF CopyAssign
<1>2. ds[e] \in GoodSet /\ Named(ds[e])
  BY SoundSet
<1>3. /\ x \in GoodSet /\ x.rows = RowsAssigned(d, e)
      /\ x.types = ds[e].types /\ x.names = ds[e].names
  BY <1>1, <1>2 DEF GoodSet
<1>4. ds' = [ds EXCEPT ![d] = x]
  BY DEF CopyAssign
<1>. HIDE DEF x
<1>5. Named(x)
  BY <1>2, <1>3 DEF Named
<1>6. /\ spoilt' \in SUBSET Sets /\ spoilt \subseteq spoilt' \cup {d}
      /\ d \notin spoilt' => e \notin spoilt /\ RowsAssigned(d, e) = ds[e].rows
  BY DEF CopyAssign, Inherits, Sound
<1>7. d \notin spoilt' => AllFit(x.types, x.rows)
  BY <1>3, <1>6, SoundSet
<1>8. Sound([ds EXCEPT ![d] = x], spoilt')
  BY <1>3, <1>5, <1>6, <1>7, SetPut
<1>. QED BY <1>4, <1>8

LEMMA CopyAssignTornSound ==
    ASSUME Sound(ds, spoilt), NEW d \in Sets, NEW e \in Sets, CopyAssignTorn(d, e)
    PROVE  Sound(ds', spoilt')
<1>1. PICK n \in InBoth(d, e) :
         /\ \A m \in 1..n - 1 : ~RefusesRow(d, e, m)
         /\ ds' = [ds EXCEPT ![d].rows =
                     [m \in 1..Len(@) |-> IF m < n THEN RowAssigned(@[m], ds[e].rows[m]) ELSE @[m]]]
  BY DEF CopyAssignTorn
<1>. DEFINE old == ds[d].rows
            R   == [m \in 1..Len(old) |-> IF m < n THEN RowAssigned(old[m], ds[e].rows[m]) ELSE old[m]]
<1>2. ds' = [ds EXCEPT ![d].rows = R] /\ spoilt' = spoilt
  BY <1>1 DEF CopyAssignTorn
<1>3. ASSUME NEW m \in 1..Len(old)
      PROVE  R[m] \in GoodRow /\ (RowFits(ds[d].types, old[m]) => RowFits(ds[d].types, R[m]))
  <2>1. CASE m < n
    <3>1. m \in 1..Len(ds[e].rows) /\ m \in 1..n - 1
      BY <2>1, SoundSet DEF InBoth
    <3>2. Compatible(old[m], ds[e].rows[m])
      BY <1>1, <3>1 DEF RefusesRow
    <3>3. old[m] \in GoodRow /\ ds[e].rows[m] \in GoodRow
      BY <3>1, SoundSet
    <3>. DEFINE t == RowAssigned(old[m], ds[e].rows[m])
    <3>4. /\ t \in GoodRow /\ Len(t) = Len(old[m])
          /\ \A i \in 1..Len(old[m]) : t[i].decl = old[m][i].decl
      BY <3>2, <3>3, RowAssignFits
    <3>5. R[m] = t
      BY <2>1
    <3>. HIDE DEF t, R
    <3>6. RowFits(ds[d].types, old[m]) => RowFits(ds[d].types, t)
      BY <3>3, <3>4, SoundSet, SameDeclsFit
    <3>. QED BY <3>4, <3>5, <3>6
  <2>2. CASE ~(m < n)
    BY <2>2, SoundSet
  <2>. QED BY <2>1, <2>2
<1>4. R = [m \in 1..Len(old) |-> R[m]]
  OBVIOUS
<1>. HIDE DEF R
<1>5. d \notin spoilt => \A m \in 1..Len(old) : RowFits(ds[d].types, R[m])
  BY <1>3, SoundSet DEF AllFit
<1>6. Len(old) \in Nat
  BY SoundSet
<1>7. R \in Seq(GoodRow) /\ (d \notin spoilt => AllFit(ds[d].types, R))
  BY <1>3, <1>4, <1>5, <1>6, RowsMade
<1>8. Sound([ds EXCEPT ![d].rows = R], spoilt)
  BY <1>7, RowsPut DEF Sound
<1>. QED BY <1>2, <1>8

LEMMA MoveSound ==
    ASSUME Sound(ds, spoilt), NEW d \in Sets, NEW e \in Sets, Move(d, e)
    PROVE  Sound(ds', spoilt')
<1>. DEFINE first == [ds EXCEPT ![d] = ds[e]]
            S     == IF e \in spoilt THEN spoilt \cup {d} ELSE spoilt \ {d}
<1>1. /\ S \in SUBSET Sets /\ spoilt \subseteq S \cup {d}
      /\ d \notin S => e \notin spoilt
  BY DEF Sound
<1>. HIDE DEF S
<1>2. Sound(first, S)
  BY <1>1, SoundSet, SetPut
<1>3. ds' = [first EXCEPT ![e] = Empty] /\ spoilt' = S \ {e}
  BY DEF Move, S, Sound
<1>4. Empty \in GoodSet /\ Named(Empty) /\ AllFit(Empty.types, Empty.rows)
  BY NoRows DEF Empty, GoodSet, Named
<1>. HIDE DEF first
<1>5. S \ {e} \in SUBSET Sets /\ S \subseteq (S \ {e}) \cup {e}
  BY <1>1
<1>6. Sound([first EXCEPT ![e] = Empty], S \ {e})
  BY <1>2, <1>4, <1>5, SetPut
<1>. QED BY <1>3, <1>6

-----------------------------------------------------------------------------
(* Rows in place.                                                          *)

LEMMA EditCellSound ==
    ASSUME Sound(ds, spoilt), NEW d \in Sets, NEW n, NEW i, NEW c \in NewCells, EditCell(d, n, i, c)
    PROVE  Sound(ds', spoilt')
<1>. DEFINE old == ds[d].rows[n]
            new == [old EXCEPT ![i] = Assigned(old[i], c)]
            R   == [ds[d].rows EXCEPT ![n] = new]
<1>1. n \in 1..Len(ds[d].rows) /\ i \in 1..Len(old) /\ CanAssign(old[i], c)
  BY DEF EditCell, Indices
<1>2. old \in GoodRow
  BY <1>1, SoundSet
<1>3. old[i] \in GoodCell
  BY <1>1, <1>2, ElementOfSeq DEF GoodRow
<1>4. Assigned(old[i], c) \in GoodCell /\ Assigned(old[i], c).decl = old[i].decl
  BY <1>1, <1>3, AssignFits, DatasetsAssumption
<1>5. ds' = [ds EXCEPT ![d].rows = R] /\ spoilt' = spoilt
  BY DEF EditCell
<1>6. /\ new \in GoodRow /\ Len(new) = Len(old)
      /\ \A j \in 1..Len(old) : new[j].decl = old[j].decl
  BY <1>1, <1>2, <1>4, CellPut
<1>. HIDE DEF new
<1>7. RowFits(ds[d].types, old) => RowFits(ds[d].types, new)
  BY <1>2, <1>6, SoundSet, SameDeclsFit
<1>8. d \notin spoilt => RowFits(ds[d].types, new)
  BY <1>1, <1>7, SoundSet DEF AllFit
<1>9. R \in Seq(GoodRow) /\ (d \notin spoilt => AllFit(ds[d].types, R))
  BY <1>1, <1>6, <1>8, SoundSet, RowPut
<1>. HIDE DEF R
<1>10. Sound([ds EXCEPT ![d].rows = R], spoilt)
  BY <1>9, RowsPut DEF Sound
<1>. QED BY <1>5, <1>10

LEMMA SwapRowsSound ==
    ASSUME Sound(ds, spoilt), NEW d \in Sets, NEW m, NEW e \in Sets, NEW n, SwapRows(d, m, e, n)
    PROVE  Sound(ds', spoilt')
<1>. DEFINE this == ds[d].rows[m]
            that == ds[e].rows[n]
            R    == [ds[d].rows EXCEPT ![m] = that]
            half == [ds EXCEPT ![d].rows = R]
            Q    == [half[e].rows EXCEPT ![n] = this]
<1>1. m \in 1..Len(ds[d].rows) /\ n \in 1..Len(ds[e].rows)
  BY DEF SwapRows, Indices
<1>2. this \in GoodRow /\ that \in GoodRow
  BY <1>1, SoundSet
<1>3. R \in Seq(GoodRow) /\ Len(R) = Len(ds[d].rows)
  BY <1>1, <1>2, SoundSet, RowPut
<1>4. ds' = [half EXCEPT ![e].rows = Q]
  BY DEF SwapRows, Sound
<1>5. spoilt' = (IF d = e THEN spoilt ELSE spoilt \cup {d, e}) /\ spoilt \subseteq Sets
  BY DEF SwapRows, Sound
<1>6. ds[d] \in GoodSet /\ DOMAIN ds = Sets
  BY SoundSet DEF Sound
<1>7. half[d].rows = R /\ (e # d => half[e] = ds[e]) /\ half[d].types = ds[d].types
  BY <1>6 DEF GoodSet
<1>8. Sound(half, spoilt \cup {d})
  <2>. HIDE DEF R
  <2>. QED BY <1>3, <1>5, RowsPut
<1>9. CASE d = e
  <2>1. d \notin spoilt => AllFit(ds[d].types, R)
    BY <1>1, <1>2, <1>9, SoundSet, RowPut DEF AllFit
  <2>. HIDE DEF R
  <2>2. Sound(half, spoilt)
    BY <1>3, <1>5, <2>1, RowsPut
  <2>3. half[e].rows = R /\ half[e].types = ds[d].types /\ n \in 1..Len(R)
    BY <1>1, <1>3, <1>7, <1>9
  <2>. HIDE DEF half
  <2>4. Q \in Seq(GoodRow) /\ (AllFit(ds[d].types, R) /\ RowFits(ds[d].types, this) => AllFit(ds[d].types, Q))
    BY <1>2, <1>3, <2>3, RowPut
  <2>5. d \notin spoilt => RowFits(ds[d].types, this)
    BY <1>1, SoundSet DEF AllFit
  <2>. HIDE DEF Q
  <2>6. Sound([half EXCEPT ![e].rows = Q], spoilt)
    BY <1>5, <1>9, <2>1, <2>2, <2>3, <2>4, <2>5, RowsPut
  <2>. QED BY <1>4, <1>5, <1>9, <2>6
<1>10. CASE d # e
  <2>1. half[e] = ds[e]
    BY <1>7, <1>10
  <2>. HIDE DEF half
  <2>2. Q \in Seq(GoodRow)
    BY <1>1, <1>2, <2>1, SoundSet, RowPut
  <2>. HIDE DEF Q
  <2>. DEFINE S == spoilt \cup {d}
             T == spoilt \cup {d, e}
  <2>3. Sound(half, S) /\ e \in T /\ T \in SUBSET Sets /\ S \subseteq T \cup {e}
    BY <1>5, <1>8
  <2>4. spoilt' = T
    BY <1>5, <1>10
  <2>. HIDE DEF S, T
  <2>5. Sound([half EXCEPT ![e].rows = Q], T)
    BY <2>2, <2>3, RowsPut
  <2>. QED BY <1>4, <2>4, <2>5
<1>. QED BY <1>9, <1>10

LEMMA TakeRowSound ==
    ASSUME Sound(ds, spoilt), NEW d \in Sets, NEW n, TakeRow(d, n)
    PROVE  Sound(ds', spoilt')
<1>. DEFINE R == [ds[d].rows EXCEPT ![n] = <<>>]
<1>1. /\ n \in 1..Len(ds[d].rows)
      /\ ds' = [ds EXCEPT ![d].rows = R] /\ spoilt' = spoilt \cup {d}
  BY DEF TakeRow, Indices
<1>2. R \in Seq(GoodRow)
  BY <1>1, NoRows, SoundSet, RowPut
<1>. HIDE DEF R
<1>3. Sound([ds EXCEPT ![d].rows = R], spoilt \cup {d})
  BY <1>2, RowsPut DEF Sound
<1>. QED BY <1>1, <1>3
-----------------------------------------------------------------------------
(* Sorting moves rows.                                                     *)

LEMMA ArrangementsStayInside ==
    \A d : \A p \in Arrangements(d) : \A n \in Indices(d) : p[n] \in Indices(d)
BY DEF Arrangements, Bijection, Injection

LEMMA SortReturnsSound ==
    ASSUME Sound(ds, spoilt), NEW d \in Sets, NEW keys, NEW cmp, SortReturns(d, keys, cmp)
    PROVE  Sound(ds', spoilt')
<1>1. PICK p \in Arrangements(d) : ds' = [ds EXCEPT ![d].rows = [n \in Indices(d) |-> @[p[n]]]]
  BY DEF SortReturns, Sortings
<1>. DEFINE R == [n \in 1..Len(ds[d].rows) |-> ds[d].rows[p[n]]]
<1>2. ds' = [ds EXCEPT ![d].rows = R] /\ spoilt' = spoilt
  BY <1>1 DEF SortReturns, Indices
<1>3. \A n \in 1..Len(ds[d].rows) : p[n] \in 1..Len(ds[d].rows)
  BY ArrangementsStayInside DEF Indices
<1>4. \A n \in 1..Len(ds[d].rows) : R[n] \in GoodRow /\ (d \notin spoilt => RowFits(ds[d].types, R[n]))
  BY <1>3, SoundSet DEF AllFit
<1>5. R = [n \in 1..Len(ds[d].rows) |-> R[n]] /\ Len(ds[d].rows) \in Nat
  BY SoundSet
<1>. HIDE DEF R
<1>6. R \in Seq(GoodRow) /\ (d \notin spoilt => AllFit(ds[d].types, R))
  BY <1>4, <1>5, RowsMade
<1>7. Sound([ds EXCEPT ![d].rows = R], spoilt)
  BY <1>6, RowsPut DEF Sound
<1>. QED BY <1>2, <1>7

LEMMA SortThrowsSound ==
    ASSUME Sound(ds, spoilt), NEW d \in Sets, NEW keys, NEW cmp, SortThrows(d, keys, cmp)
    PROVE  Sound(ds', spoilt')
<1>1. PICK p \in Arrangements(d), lost \in SUBSET InHand(d, Verdicts(d, keys, cmp)) :
         /\ ds' = [ds EXCEPT ![d].rows = [n \in Indices(d) |-> IF p[n] \in lost THEN <<>> ELSE @[p[n]]]]
         /\ spoilt' = IF lost = {} THEN spoilt ELSE spoilt \cup {d}
  BY DEF SortThrows
<1>. DEFINE R == [n \in 1..Len(ds[d].rows) |-> IF p[n] \in lost THEN <<>> ELSE ds[d].rows[p[n]]]
<1>2. ds' = [ds EXCEPT ![d].rows = R]
  BY <1>1 DEF Indices
<1>3. \A n \in 1..Len(ds[d].rows) : p[n] \in 1..Len(ds[d].rows)
  BY ArrangementsStayInside DEF Indices
<1>4. \A n \in 1..Len(ds[d].rows) : R[n] \in GoodRow
  BY <1>3, NoRows, SoundSet
<1>5. d \notin spoilt' => \A n \in 1..Len(ds[d].rows) : RowFits(ds[d].types, R[n])
  BY <1>1, <1>3, SoundSet DEF AllFit
<1>6. R = [n \in 1..Len(ds[d].rows) |-> R[n]] /\ Len(ds[d].rows) \in Nat
  BY SoundSet
<1>. HIDE DEF R
<1>7. R \in Seq(GoodRow) /\ (d \notin spoilt' => AllFit(ds[d].types, R))
  BY <1>4, <1>5, <1>6, RowsMade
<1>8. spoilt' \in SUBSET Sets /\ spoilt \subseteq spoilt' \cup {d}
  BY <1>1 DEF Sound
<1>9. Sound([ds EXCEPT ![d].rows = R], spoilt')
  BY <1>7, <1>8, RowsPut
<1>. QED BY <1>2, <1>9

-----------------------------------------------------------------------------
(* The invariant.                                                          *)

LEMMA FillSound ==
    ASSUME Sound(ds, spoilt), Fill
    PROVE  Sound(ds', spoilt')
<1>1. CASE Refused
  BY <1>1 DEF Refused
<1>2. CASE \E types \in TypeLists, q \in Queries :
              (\E d \in Sets : Select(d, types, q)) \/ SelectRefused(types, q)
  BY <1>1, <1>2, SelectSound DEF SelectRefused
<1>3. CASE \E d, e \in Sets : MergeSet(d, e) \/ MergeSetRefused(d, e)
  BY <1>1, <1>3, MergeSetSound DEF MergeSetRefused
<1>4. CASE \E d \in Sets, row \in GivenRows : MergeRow(d, row) \/ MergeRowRefused(d, row)
  BY <1>1, <1>4, MergeRowSound DEF MergeRowRefused
<1>. QED BY <1>1, <1>2, <1>3, <1>4 DEF Fill, SelectFails

LEMMA ReplaceSound ==
    ASSUME Sound(ds, spoilt), Replace
    PROVE  Sound(ds', spoilt')
BY ResetSound, ResetTypesSound, CopyWholeSound, CopyAssignSound, CopyAssignTornSound, MoveSound DEF Replace

LEMMA InPlaceSound ==
    ASSUME Sound(ds, spoilt), InPlace
    PROVE  Sound(ds', spoilt')
<1>1. PICK d \in Sets, n \in 1..MaxTouched :
         \/ \E i \in {1, 2}, c \in NewCells : EditCell(d, n, i, c) \/ EditRefused(d, n, i, c)
         \/ \E e \in Sets, m \in 1..MaxTouched : SwapRows(d, m, e, n)
         \/ TakeRow(d, n)
  BY DEF InPlace
<1>2. CASE Refused
  BY <1>2 DEF Refused
<1>3. CASE \E i \in {1, 2}, c \in NewCells : EditCell(d, n, i, c) \/ EditRefused(d, n, i, c)
  BY <1>2, <1>3, EditCellSound DEF EditRefused
<1>4. CASE \E e \in Sets, m \in 1..MaxTouched : SwapRows(d, m, e, n)
  BY <1>4, SwapRowsSound
<1>5. CASE TakeRow(d, n)
  BY <1>5, TakeRowSound
<1>. QED BY <1>1, <1>3, <1>4, <1>5

LEMMA SortSound ==
    ASSUME Sound(ds, spoilt), SortNext
    PROVE  Sound(ds', spoilt')
BY SortReturnsSound, SortThrowsSound DEF SortNext

\* Every call ends in one of four ways.
LEMMA CallsEnd == Next => last' \in {"ok", "refused", "torn", "range"}
<1>1. Fill => last' \in {"ok", "refused", "torn", "range"}
  BY DEF Fill, Select, SelectRefused, SelectFails, MergeSet, MergeSetRefused, MergeRow, MergeRowRefused,
         Returned, Refused
<1>2. Replace => last' \in {"ok", "refused", "torn", "range"}
  BY DEF Replace, Reset, ResetTypes, CopyWhole, CopyAssign, CopyAssignTorn, Move, Returned
<1>3. InPlace => last' \in {"ok", "refused", "torn", "range"}
  <2>1. \A d, n, i, c : EditCell(d, n, i, c) \/ EditRefused(d, n, i, c) => last' \in {"ok", "refused"}
    BY DEF EditCell, EditRefused, Returned, Refused
  <2>2. \A d, m, e, n : SwapRows(d, m, e, n) \/ TakeRow(d, n) => last' = "ok"
    BY DEF SwapRows, TakeRow, Returned
  <2>. QED BY <2>1, <2>2 DEF InPlace
<1>4. SortNext => last' \in {"ok", "refused", "torn", "range"}
  BY DEF SortNext, SortReturns, SortThrows, Returned
<1>. QED BY <1>1, <1>2, <1>3, <1>4 DEF Next

\* Whatever is merged, copied, assigned half way, moved, edited, swapped or sorted, the
\* Datasets of a program stay sound (dataset.cpp).
THEOREM DatasetsStaySound == Spec => []SetsInv
<1>1. Init => SetsInv
  <2>1. Empty \in GoodSet /\ Named(Empty) /\ AllFit(Empty.types, Empty.rows)
    BY NoRows DEF Empty, GoodSet, Named
  <2>. QED BY <2>1 DEF Init, SetsInv, Sound
<1>2. SetsInv /\ [Next]_vars => SetsInv'
  <2>1. Sound(ds, spoilt) /\ Next => Sound(ds', spoilt')
    BY FillSound, ReplaceSound, InPlaceSound, SortSound DEF Next
  <2>2. SetsInv /\ UNCHANGED vars => SetsInv'
    BY DEF SetsInv, vars, Sound
  <2>. QED BY <2>1, <2>2, CallsEnd DEF SetsInv, Sound
<1>. QED BY <1>1, <1>2, PTL DEF Spec

LEMMA InvariantSays == SetsInv => DatasetTypeOK /\ RowsFit /\ NamesFitFields
<1>. SUFFICES ASSUME SetsInv PROVE DatasetTypeOK /\ RowsFit /\ NamesFitFields
  OBVIOUS
<1>1. Sound(ds, spoilt)
  BY DEF SetsInv
<1>2. DatasetTypeOK
  <2>1. \A row \in GoodRow : row \in Seq(Cell)
    BY SeqMonotonic DEF GoodRow, GoodCell
  <2>2. \A d \in Sets : ds[d].rows \in Seq(Seq(Cell))
    BY <1>1, <2>1, SoundSet, SeqMonotonic
  <2>3. \A d \in Sets : ds[d] \in [types : Seq(Decls), names : Seq(Names), rows : Seq(Seq(Cell))]
    BY <1>1, <2>2, SoundSet DEF GoodSet
  <2>. QED BY <1>1, <2>3 DEF DatasetTypeOK, SetsInv, Sound
<1>3. \A row \in GoodRow : FitsItsTypes(row)
  BY ElementOfSeq DEF GoodRow, GoodCell, FitsItsTypes
<1>4. RowsFit
  BY <1>1, <1>3, SoundSet DEF RowsFit, Indices, AllFit, RowFits
<1>5. NamesFitFields
  <2>. SUFFICES ASSUME NEW d \in Sets, ds[d].names # <<>>
                PROVE  /\ Len(ds[d].names) = Len(ds[d].types)
                       /\ d \notin spoilt => \A n \in Indices(d) : Len(ds[d].rows[n]) = Len(ds[d].names)
    BY DEF NamesFitFields
  <2>1. Len(ds[d].names) = Len(ds[d].types)
    BY <1>1, SoundSet DEF Named
  <2>2. ds[d].types # <<>>
    BY <1>1, <2>1, SoundSet, EmptySeq
  <2>. QED BY <1>1, <2>1, <2>2, SoundSet DEF AllFit, RowFits, Indices
<1>. QED BY <1>2, <1>4, <1>5

\* A Dataset has declared types, names and rows of cells with Values in them.
THEOREM DatasetTypes == Spec => []DatasetTypeOK
BY DatasetsStaySound, InvariantSays, PTL

\* Rows that nobody overwrote in place fit the declared types of their fields
\* (dataset.cpp, merge and the constructors).
THEOREM RowsFitTheirFields == Spec => []RowsFit
BY DatasetsStaySound, InvariantSays, PTL

\* An index that getIndex finds for a name is one that the types and the rows have
\* (dataset.cpp, getIndex).
THEOREM NamesHaveFields == Spec => []NamesFitFields
BY DatasetsStaySound, InvariantSays, PTL
-----------------------------------------------------------------------------
(* Sorting compares rows.                                                  *)

\* Sets of natural numbers have a least element.
LEMMA LeastElement ==
    ASSUME NEW S \in SUBSET Nat, S # {}
    PROVE  Min(S) \in S /\ \A n \in S : Min(S) <= n
<1>1. \E m \in S : \A n \in S : <<n, m>> \notin OpToRel(<, Nat)
  BY WFMin, NatLessThanWellFounded
<1>2. \A m, n \in Nat : <<n, m>> \notin OpToRel(<, Nat) => m <= n
  BY DEF OpToRel
<1>3. \E m \in S : \A n \in S : m <= n
  BY <1>1, <1>2
<1>. QED BY <1>3 DEF Min

\* The cells of rows, and what spoils their comparisons (Orderable).
CellsOf(R) == {c \in Cell : \E n \in 1..Len(R) : \E i \in 1..Len(R[n]) : c = R[n][i]}

Unspoilt(R, cmp) ==
    /\ \A c \in CellsOf(R) : ~IsNaN(c.val)
    /\ cmp = "dbval_lt" => \A c \in CellsOf(R) : ExactInDouble(c.val)
    /\ cmp # "dbval_lt" => \A b, c \in CellsOf(R) : ~Blurred(b.val, c.val)

LEMMA CellsInRows ==
    ASSUME NEW R \in Seq(GoodRow), NEW n \in 1..Len(R), NEW i \in 1..Len(R[n])
    PROVE  R[n][i] \in CellsOf(R)
<1>1. R[n] \in GoodRow
  BY ElementOfSeq
<1>2. R[n][i] \in Cell
  BY <1>1, ElementOfSeq DEF GoodRow, GoodCell
<1>. QED BY <1>2 DEF CellsOf

\* Cells are compared by a strict weak order.
LEMMA CellsInOrder ==
    ASSUME NEW R, NEW cmp, Unspoilt(R, cmp),
           NEW a \in CellsOf(R), NEW b \in CellsOf(R), NEW c \in CellsOf(R)
    PROVE  /\ ~(Less(cmp, a, b) /\ Less(cmp, b, a))
           /\ Less(cmp, a, c) => Less(cmp, a, b) \/ Less(cmp, b, c)
<1>1. a \in Cell /\ b \in Cell /\ c \in Cell
  BY DEF CellsOf
<1>2. a.val \in Values /\ b.val \in Values /\ c.val \in Values
  BY <1>1 DEF Cell
<1>3. ~IsNaN(a.val) /\ ~IsNaN(b.val) /\ ~IsNaN(c.val)
  BY DEF Unspoilt
<1>4. CASE cmp = "dbval_lt"
  <2>1. ExactInDouble(a.val) /\ ExactInDouble(b.val) /\ ExactInDouble(c.val)
    BY <1>4 DEF Unspoilt
  <2>. QED BY <1>2, <1>3, <1>4, <2>1, PlainOrderIsStrictWeak DEF Less, dbval_lt
<1>5. CASE cmp # "dbval_lt"
  <2>1. \A v, w \in {a.val, b.val, c.val} : ~Blurred(v, w)
    BY <1>5 DEF Unspoilt
  <2>2. \A decl \in Decls : DeclOrder[decl] \in Int
    BY DEF Decls, Types, Heavy, DeclOrder
  <2>3. a \in [decl : Decls, val : Values] /\ b \in [decl : Decls, val : Values] /\ c \in [decl : Decls, val : Values]
    BY <1>1 DEF Cell
  <2>4. /\ ~(dbval_type_lt(a, b) /\ dbval_type_lt(b, a))
        /\ dbval_type_lt(a, c) => dbval_type_lt(a, b) \/ dbval_type_lt(b, c)
    BY <1>3, <2>1, <2>2, <2>3, DeclaredOrderIsStrictWeak
  <2>. QED BY <1>5, <2>4 DEF Less
<1>. QED BY <1>4, <1>5

\* The verdict on two rows is that of the first field that settles it.
LEMMA VerdictSettles ==
    ASSUME NEW a, NEW b, NEW keys \in Seq(Int), NEW cmp
    PROVE  \/ /\ Verdict(a, b, keys, cmp) = "equal"
              /\ \A j \in 1..Len(keys) : Comparison(a, b, keys[j], cmp) = "equal"
           \/ \E i \in 1..Len(keys) :
                 /\ Comparison(a, b, keys[i], cmp) = Verdict(a, b, keys, cmp)
                 /\ Verdict(a, b, keys, cmp) # "equal"
                 /\ \A j \in 1..Len(keys) : j < i => Comparison(a, b, keys[j], cmp) = "equal"
<1>. DEFINE by       == [n \in 1..Len(keys) |-> Comparison(a, b, keys[n], cmp)]
            settling == {n \in 1..Len(keys) : by[n] # "equal"}
<1>1. Len(keys) \in Nat
  BY LenProperties
<1>2. Verdict(a, b, keys, cmp) = IF settling = {} THEN "equal" ELSE by[Min(settling)]
  BY DEF Verdict
<1>3. \A n \in 1..Len(keys) : by[n] = Comparison(a, b, keys[n], cmp)
  OBVIOUS
<1>. HIDE DEF by
<1>4. CASE settling = {}
  BY <1>2, <1>3, <1>4
<1>5. CASE settling # {}
  <2>1. settling \in SUBSET Nat
    BY <1>1
  <2>. DEFINE i == Min(settling)
  <2>2. i \in settling /\ \A n \in settling : i <= n
    <3>. HIDE DEF settling
    <3>. QED BY <1>5, <2>1, LeastElement
  <2>. HIDE DEF i
  <2>3. \A j \in 1..Len(keys) : j < i => j \notin settling
    BY <1>1, <2>2
  <2>4. Verdict(a, b, keys, cmp) = by[i]
    BY <1>2, <1>5 DEF i
  <2>. QED BY <1>3, <2>2, <2>3, <2>4
<1>. QED BY <1>4, <1>5

\* Where it is not that they are equal, there is such a field.
LEMMA SettlingField ==
    ASSUME NEW a, NEW b, NEW keys \in Seq(Int), NEW cmp, NEW verdict,
           Verdict(a, b, keys, cmp) = verdict, verdict # "equal"
    PROVE  \E i \in 1..Len(keys) :
              /\ Comparison(a, b, keys[i], cmp) = verdict
              /\ \A j \in 1..Len(keys) : j < i => Comparison(a, b, keys[j], cmp) = "equal"
BY VerdictSettles

LEMMA SettledVerdict ==
    ASSUME NEW a, NEW b, NEW keys \in Seq(Int), NEW cmp, NEW i \in 1..Len(keys),
           \A j \in 1..Len(keys) : j < i => Comparison(a, b, keys[j], cmp) = "equal",
           Comparison(a, b, keys[i], cmp) # "equal"
    PROVE  Verdict(a, b, keys, cmp) = Comparison(a, b, keys[i], cmp)
<1>1. PICK n \in 1..Len(keys) :
         /\ Comparison(a, b, keys[n], cmp) = Verdict(a, b, keys, cmp)
         /\ Verdict(a, b, keys, cmp) # "equal"
         /\ \A j \in 1..Len(keys) : j < n => Comparison(a, b, keys[j], cmp) = "equal"
  BY VerdictSettles
<1>2. ~(n < i) /\ ~(i < n)
  BY <1>1
<1>3. n = i
  BY <1>2
<1>. QED BY <1>1, <1>3

\* One field of two rows.
LEMMA ComparisonSays ==
    ASSUME NEW R \in Seq(GoodRow), NEW cmp, Unspoilt(R, cmp), NEW key,
           NEW m \in 1..Len(R), NEW n \in 1..Len(R)
    PROVE  LET is == Comparison(R[m], R[n], key, cmp) IN
           /\ is \in {"throws", "less", "greater", "equal"}
           /\ is = "throws" <=> ~Has(R[m], R[n], key)
           /\ is = "less" <=> Has(R[m], R[n], key) /\ Less(cmp, R[m][key], R[n][key])
           /\ is = "greater" <=> Has(R[m], R[n], key) /\ Less(cmp, R[n][key], R[m][key])
           /\ Has(R[m], R[n], key) => R[m][key] \in CellsOf(R) /\ R[n][key] \in CellsOf(R)
<1>1. Has(R[m], R[n], key) => R[m][key] \in CellsOf(R) /\ R[n][key] \in CellsOf(R)
  BY CellsInRows DEF Has
<1>2. Has(R[m], R[n], key) => ~(Less(cmp, R[m][key], R[n][key]) /\ Less(cmp, R[n][key], R[m][key]))
  BY <1>1, CellsInOrder
<1>. QED BY <1>1, <1>2 DEF Comparison

\* lessValues is never true both ways.
LEMMA VerdictIsAsymmetric ==
    ASSUME NEW R \in Seq(GoodRow), NEW keys \in Seq(Int), NEW cmp, Unspoilt(R, cmp),
           NEW m \in 1..Len(R), NEW n \in 1..Len(R),
           Verdict(R[m], R[n], keys, cmp) = "less"
    PROVE  Verdict(R[n], R[m], keys, cmp) = "greater"
<1>. DEFINE a == R[m]
            b == R[n]
<1>0. Verdict(a, b, keys, cmp) = "less"
  OBVIOUS
<1>. HIDE DEF a, b
<1>1. PICK i \in 1..Len(keys) :
         /\ Comparison(a, b, keys[i], cmp) = "less"
         /\ \A j \in 1..Len(keys) : j < i => Comparison(a, b, keys[j], cmp) = "equal"
  BY <1>0, SettlingField
<1>. USE DEF a, b
<1>2. ASSUME NEW key
      PROVE  /\ Comparison(a, b, key, cmp) = "less" => Comparison(b, a, key, cmp) = "greater"
             /\ Comparison(a, b, key, cmp) = "equal" => Comparison(b, a, key, cmp) = "equal"
  <2>1. Has(a, b, key) <=> Has(b, a, key)
    BY DEF Has
  <2>. QED BY <2>1, ComparisonSays DEF Comparison
<1>. QED BY <1>1, <1>2, SettledVerdict

\* Rows are compared field by field, and so by a strict weak order.
LEMMA VerdictIsWeak ==
    ASSUME NEW R \in Seq(GoodRow), NEW keys \in Seq(Int), NEW cmp, Unspoilt(R, cmp),
           NEW k \in 1..Len(R), NEW m \in 1..Len(R), NEW n \in 1..Len(R),
           Verdict(R[k], R[n], keys, cmp) = "less",
           Verdict(R[k], R[m], keys, cmp) # "throws",
           Verdict(R[m], R[n], keys, cmp) # "throws"
    PROVE  \/ Verdict(R[k], R[m], keys, cmp) = "less"
           \/ Verdict(R[m], R[n], keys, cmp) = "less"
<1>. DEFINE a == R[k]
            b == R[m]
            c == R[n]
            ab(i) == Comparison(a, b, keys[i], cmp)
            bc(i) == Comparison(b, c, keys[i], cmp)
            ac(i) == Comparison(a, c, keys[i], cmp)
\* One field, in which the two rows at the ends are not the wrong way round.
<1>1. ASSUME NEW i, ab(i) \in {"equal", "greater"}, bc(i) \in {"equal", "greater"},
             ac(i) \in {"equal", "less"}
      PROVE  ab(i) = "equal" /\ bc(i) = "equal" /\ ac(i) = "equal"
  <2>. DEFINE x == a[keys[i]]
              y == b[keys[i]]
              z == c[keys[i]]
  <2>1. Has(a, b, keys[i]) /\ Has(b, c, keys[i])
    BY <1>1, ComparisonSays
  <2>2. Has(a, c, keys[i]) /\ x \in CellsOf(R) /\ y \in CellsOf(R) /\ z \in CellsOf(R)
    BY <2>1, CellsInRows DEF Has
  <2>3. /\ ~Less(cmp, x, y) /\ (ab(i) = "greater" <=> Less(cmp, y, x))
        /\ ~Less(cmp, y, z) /\ (bc(i) = "greater" <=> Less(cmp, z, y))
        /\ ~Less(cmp, z, x) /\ (ac(i) = "less" <=> Less(cmp, x, z))
    BY <1>1, <2>1, <2>2, ComparisonSays
  <2>. HIDE DEF x, y, z
  <2>4. /\ Less(cmp, x, z) => Less(cmp, x, y) \/ Less(cmp, y, z)
        /\ Less(cmp, y, x) => Less(cmp, y, z) \/ Less(cmp, z, x)
        /\ Less(cmp, z, y) => Less(cmp, z, x) \/ Less(cmp, x, y)
    BY <2>2, CellsInOrder
  <2>. QED BY <1>1, <2>3, <2>4
<1>2. PICK i \in 1..Len(keys) : ac(i) = "less" /\ \A j \in 1..Len(keys) : j < i => ac(j) = "equal"
  <2>1. Verdict(a, c, keys, cmp) = "less"
    OBVIOUS
  <2>. HIDE DEF a, b, c
  <2>. QED BY <2>1, SettlingField
<1>3. \A j : /\ ab(j) \in {"throws", "less", "greater", "equal"}
             /\ bc(j) \in {"throws", "less", "greater", "equal"}
  BY ComparisonSays
<1>4. Verdict(a, b, keys, cmp) # "throws" /\ Verdict(b, c, keys, cmp) # "throws"
  OBVIOUS
<1>. SUFFICES ASSUME Verdict(a, b, keys, cmp) # "less", Verdict(b, c, keys, cmp) # "less" PROVE FALSE
  OBVIOUS
<1>. DEFINE T == {j \in 1..i : ab(j) # "equal" \/ bc(j) # "equal"}
<1>5. T # {}
  <2>. SUFFICES ASSUME T = {} PROVE FALSE
    OBVIOUS
  <2>1. i \in 1..i
    OBVIOUS
  <2>2. ab(i) = "equal" /\ bc(i) = "equal"
    BY <2>1
  <2>. HIDE DEF ab, bc, ac
  <2>. QED BY <1>1, <1>2, <2>2
<1>6. PICK j \in T : \A l \in T : j <= l
  <2>1. T \in SUBSET Nat
    OBVIOUS
  <2>. HIDE DEF T
  <2>. QED BY <1>5, <2>1, LeastElement
<1>7. j \in 1..i /\ j \in 1..Len(keys) /\ (ab(j) # "equal" \/ bc(j) # "equal")
  BY LenProperties
<1>8. \A l \in 1..Len(keys) : l < j => ab(l) = "equal" /\ bc(l) = "equal"
  <2>1. \A l \in 1..Len(keys) : l < j => l \in 1..i /\ ~(j <= l)
    BY <1>7
  <2>. QED BY <1>6, <2>1
<1>9. ac(j) \in {"equal", "less"}
  <2>1. j = i \/ (j \in 1..Len(keys) /\ j < i)
    BY <1>7
  <2>. HIDE DEF ac
  <2>. QED BY <1>2, <2>1
<1>10. ab(j) \in {"equal", "greater"}
  <2>1. ab(j) # "equal" => Verdict(a, b, keys, cmp) = ab(j)
    <3>. HIDE DEF a, b, c
    <3>. QED BY <1>7, <1>8, SettledVerdict
  <2>. HIDE DEF ab, a, b, c
  <2>. QED BY <1>3, <1>4, <2>1
<1>11. bc(j) \in {"equal", "greater"}
  <2>1. bc(j) # "equal" => Verdict(b, c, keys, cmp) = bc(j)
    <3>. HIDE DEF a, b, c
    <3>. QED BY <1>7, <1>8, SettledVerdict
  <2>. HIDE DEF bc, a, b, c
  <2>. QED BY <1>3, <1>4, <2>1
<1>. HIDE DEF ab, bc, ac
<1>. QED BY <1>1, <1>7, <1>9, <1>10, <1>11

\* The strict weak order of OrdersRows, for rows without the Dataset around them.
LEMMA VerdictsOrderRows ==
    ASSUME NEW R \in Seq(GoodRow), NEW keys \in Seq(Int), NEW cmp, Unspoilt(R, cmp),
           \A m, n \in 1..Len(R) : m # n => Verdict(R[m], R[n], keys, cmp) # "throws",
           NEW k \in 1..Len(R), NEW m \in 1..Len(R), NEW n \in 1..Len(R)
    PROVE  LET Before(p, q) == Verdict(R[p], R[q], keys, cmp) = "less" IN
           /\ ~(Before(k, m) /\ Before(m, k))
           /\ Before(k, n) => Before(k, m) \/ Before(m, n)
<1>. DEFINE V(p, q) == Verdict(R[p], R[q], keys, cmp)
<1>1. \A p, q \in 1..Len(R) : V(p, q) = "less" => V(q, p) = "greater"
  BY VerdictIsAsymmetric
<1>2. ASSUME V(k, n) = "less" PROVE V(k, m) = "less" \/ V(m, n) = "less"
  <2>1. CASE k = m \/ m = n
    BY <1>2, <2>1
  <2>2. CASE k # m /\ m # n
    <3>1. V(k, m) # "throws" /\ V(m, n) # "throws"
      BY <2>2
    <3>. QED BY <1>2, <3>1, VerdictIsWeak
  <2>. QED BY <2>1, <2>2
<1>3. ~(V(k, m) = "less" /\ V(m, k) = "less")
  <2>. HIDE DEF V
  <2>. QED BY <1>1
<1>. QED BY <1>2, <1>3

\* What Orderable says of the rows.
LEMMA OrderableIsUnspoilt ==
    ASSUME Sound(ds, spoilt), NEW d \in Sets, NEW cmp, Orderable(d, cmp)
    PROVE  Unspoilt(ds[d].rows, cmp)
<1>. DEFINE R == ds[d].rows
            values == UNION {{c.val : c \in Range(row)} : row \in Range(R)}
<1>1. ASSUME NEW c \in CellsOf(R) PROVE c.val \in values
  <2>1. PICK n \in 1..Len(R) : \E i \in 1..Len(R[n]) : c = R[n][i]
    BY <1>1 DEF CellsOf
  <2>2. PICK i \in 1..Len(R[n]) : c = R[n][i]
    BY <2>1
  <2>3. R[n] \in GoodRow /\ n \in DOMAIN R
    BY SoundSet, LenProperties
  <2>4. i \in DOMAIN R[n]
    BY <2>3, LenProperties DEF GoodRow
  <2>5. R[n] \in Range(R) /\ c \in Range(R[n])
    BY <2>2, <2>3, <2>4 DEF Range
  <2>. QED BY <2>5
<1>2. /\ \A v \in values : ~IsNaN(v)
      /\ cmp = "dbval_lt" => \A v \in values : ExactInDouble(v)
      /\ cmp # "dbval_lt" => \A v, w \in values : ~Blurred(v, w)
  BY DEF Orderable
<1>. HIDE DEF values
<1>. QED BY <1>1, <1>2 DEF Unspoilt

\* Where nothing throws and no number spoils the comparisons, std::sort gets a strict
\* weak order of the rows, for any list of fields (dataset.cpp, lessValues).
THEOREM SortOrders == Spec => []SortOrderIsWeak
<1>1. SetsInv => SortOrderIsWeak
  <2>. SUFFICES ASSUME SetsInv, NEW d \in Sets, NEW keys \in SortKeys, NEW cmp \in Comparators,
                       ~Throws(d, Verdicts(d, keys, cmp)), Orderable(d, cmp)
                PROVE  OrdersRows(d, Verdicts(d, keys, cmp))
    BY DEF SortOrderIsWeak
  <2>1. keys \in Seq(Int)
    BY DatasetsAssumption
  <2>2. PICK R : R = ds[d].rows
    OBVIOUS
  <2>3. R \in Seq(GoodRow) /\ Unspoilt(R, cmp)
    BY <2>2, OrderableIsUnspoilt, SoundSet DEF SetsInv
  <2>4. PICK V : V = Verdicts(d, keys, cmp)
    OBVIOUS
  <2>5. \A m, n \in 1..Len(R) : V[m][n] = Verdict(R[m], R[n], keys, cmp)
    BY <2>2, <2>4 DEF Verdicts, Indices
  <2>6. \A m, n \in 1..Len(R) : m # n => V[m][n] # "throws"
    BY <2>2, <2>4 DEF Throws, Indices
  <2>7. \A m, n \in 1..Len(R) : m # n => Verdict(R[m], R[n], keys, cmp) # "throws"
    BY <2>5, <2>6
  <2>8. \A k, m, n \in 1..Len(R) :
           /\ ~(V[k][m] = "less" /\ V[m][k] = "less")
           /\ V[k][n] = "less" => V[k][m] = "less" \/ V[m][n] = "less"
    BY <2>1, <2>3, <2>5, <2>7, VerdictsOrderRows
  <2>. QED BY <2>2, <2>4, <2>8 DEF OrdersRows, Indices
<1>. QED BY <1>1, DatasetsStaySound, PTL
=============================================================================
