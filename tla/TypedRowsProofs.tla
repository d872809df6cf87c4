--------------------------- MODULE TypedRowsProofs ---------------------------
(***************************************************************************)
(* Proofs about TypedRows, for every set of rows and layouts.  The idea:   *)
(* a cell is good when its value fits its declared type; everything the    *)
(* code does turns rows of good cells into rows of good cells and keeps    *)
(* or exchanges whole lists of declared types.                             *)
(***************************************************************************)
EXTENDS TypedRows, SequenceTheorems, TLAPS

GoodCell == {c \in Cell : c.decl = "Variant" \/ c.val.type \in {c.decl, "Null"}}
GoodRow  == Seq(GoodCell)
Known    == Layouts \cup {<<>>, FreshLayout}

\* A family of rows as it should be.
Good(R) == R \in [Rows -> GoodRow] /\ \A r \in Rows : LayoutOf(R[r]) \in Known

\* The inductive invariant.
RowsInv ==
    /\ Good(rows)
    /\ bound \in [1..Width -> Content]
    /\ last \in [op : Calls, result : {"ok", "mismatch", "range", "bad_alloc"}]
    /\ displaced \in BOOLEAN

\* A function on 1..n is a sequence of length n.
LEMMA MakeSeq ==
    ASSUME NEW S, NEW n \in Nat, NEW f \in [1..n -> S]
    PROVE  f \in Seq(S) /\ Len(f) = n
<1>1. f \in Seq(S)
  BY SeqDef
<1>2. Len(f) \in Nat /\ DOMAIN f = 1..Len(f)
  BY <1>1, LenProperties
<1>3. 1..n = 1..Len(f)
  BY <1>2
<1> QED
  BY <1>1, <1>2, <1>3

\* What the code assigns to one cell fits, and the declared type stays.
LEMMA GiveGood ==
    ASSUME NEW c \in GoodCell, NEW x \in Given, Accepts(c, x)
    PROVE  /\ [c EXCEPT !.val = Stored(c, x)] \in GoodCell
           /\ [c EXCEPT !.val = Stored(c, x)].decl = c.decl
BY RowsAssumption DEF GoodCell, Cell, Given, Accepts, Stored, Content, NullContent, Types, Heavy, Decls

LEMMA ClearGood ==
    ASSUME NEW c \in GoodCell
    PROVE  /\ [c EXCEPT !.val = NullContent] \in GoodCell
           /\ [c EXCEPT !.val = NullContent].decl = c.decl
BY DEF GoodCell, Cell, Content, NullContent

LEMMA AssignGood ==
    ASSUME NEW c \in GoodCell, NEW d \in GoodCell, CanAssign(c, d)
    PROVE  /\ Assigned(c, d) \in GoodCell /\ Assigned(c, d).decl = c.decl
           /\ HalfAssigned(c, d) \in GoodCell /\ HalfAssigned(c, d).decl = c.decl
BY DEF GoodCell, Cell, CanAssign, Assigned, HalfAssigned, Content, Decls, Types, Heavy

\* A row made cell by cell with the declared types of s.
LEMMA RowGood ==
    ASSUME NEW s \in GoodRow, NEW t, t = [i \in 1..Len(s) |-> t[i]],
           \A i \in 1..Len(s) : t[i] \in GoodCell /\ t[i].decl = s[i].decl
    PROVE  t \in GoodRow /\ Len(t) = Len(s) /\ LayoutOf(t) = LayoutOf(s)
<1>1. Len(s) \in Nat
  BY LenProperties DEF GoodRow
<1>2. t \in [1..Len(s) -> GoodCell]
  OBVIOUS
<1>3. t \in Seq(GoodCell) /\ Len(t) = Len(s)
  BY <1>1, <1>2, MakeSeq
<1> QED
  BY <1>3 DEF GoodRow, LayoutOf

\* The assignments of rows, complete, interrupted or refused half way.
LEMMA RowAssignGood ==
    ASSUME NEW s \in GoodRow, NEW t \in GoodRow, Len(s) = Len(t)
    PROVE  /\ PrefixAssigned(s, t) \in GoodRow
           /\ LayoutOf(PrefixAssigned(s, t)) = LayoutOf(s)
           /\ Compatible(s, t) =>
                 /\ RowAssigned(s, t) \in GoodRow
                 /\ LayoutOf(RowAssigned(s, t)) = LayoutOf(s)
                 /\ \A k \in 1..Len(t) : /\ RowTorn(s, t, k) \in GoodRow
                                         /\ LayoutOf(RowTorn(s, t, k)) = LayoutOf(s)
<1>1. \A i \in 1..Len(s) : s[i] \in GoodCell /\ t[i] \in GoodCell
  BY ElementOfSeq DEF GoodRow
<1>2. \A i \in 1..Len(s) : i \in 1..i
  BY LenProperties DEF GoodRow
<1>3. PrefixAssigned(s, t) \in GoodRow /\ LayoutOf(PrefixAssigned(s, t)) = LayoutOf(s)
  <2> DEFINE p == PrefixAssigned(s, t)
  <2>1. p = [i \in 1..Len(s) |-> p[i]]
    BY DEF PrefixAssigned
  <2>2. ASSUME NEW i \in 1..Len(s) PROVE p[i] \in GoodCell /\ p[i].decl = s[i].decl
    <3>1. CASE \A j \in 1..i : CanAssign(s[j], t[j])
      BY <1>1, <1>2, <3>1, AssignGood DEF PrefixAssigned
    <3>2. CASE ~ \A j \in 1..i : CanAssign(s[j], t[j])
      BY <1>1, <3>2 DEF PrefixAssigned
    <3> QED
      BY <3>1, <3>2
  <2> HIDE DEF p
  <2>3. p \in GoodRow /\ LayoutOf(p) = LayoutOf(s)
    BY <2>1, <2>2, RowGood
  <2> QED
    BY <2>3 DEF p
<1>4. ASSUME Compatible(s, t)
      PROVE  RowAssigned(s, t) \in GoodRow /\ LayoutOf(RowAssigned(s, t)) = LayoutOf(s)
  <2> DEFINE p == RowAssigned(s, t)
  <2>1. p = [i \in 1..Len(s) |-> p[i]]
    BY DEF RowAssigned
  <2>2. \A i \in 1..Len(s) : p[i] \in GoodCell /\ p[i].decl = s[i].decl
    BY <1>1, <1>4, AssignGood DEF RowAssigned, Compatible
  <2> HIDE DEF p
  <2>3. p \in GoodRow /\ LayoutOf(p) = LayoutOf(s)
    BY <2>1, <2>2, RowGood
  <2> QED
    BY <2>3 DEF p
<1>5. ASSUME Compatible(s, t), NEW k \in 1..Len(t)
      PROVE  RowTorn(s, t, k) \in GoodRow /\ LayoutOf(RowTorn(s, t, k)) = LayoutOf(s)
  <2> DEFINE p == RowTorn(s, t, k)
  <2>1. p = [i \in 1..Len(s) |-> p[i]]
    BY DEF RowTorn
  <2>2. ASSUME NEW i \in 1..Len(s) PROVE p[i] \in GoodCell /\ p[i].decl = s[i].decl
    <3>1. \/ p[i] = Assigned(s[i], t[i])
          \/ p[i] = HalfAssigned(s[i], t[i])
          \/ p[i] = s[i]
      BY DEF RowTorn
    <3> QED
      BY <1>1, <1>5, <3>1, AssignGood DEF Compatible
  <2> HIDE DEF p
  <2>3. p \in GoodRow /\ LayoutOf(p) = LayoutOf(s)
    BY <2>1, <2>2, RowGood
  <2> QED
    BY <2>3 DEF p
<1> QED
  BY <1>3, <1>4, <1>5

\* Rows with the same layout are of the same length.
LEMMA SameLayout ==
    ASSUME NEW s \in GoodRow, NEW t \in GoodRow, LayoutOf(s) = LayoutOf(t)
    PROVE  Len(s) = Len(t)
<1>1. Len(s) \in Nat /\ Len(t) \in Nat
  BY LenProperties DEF GoodRow
<1>2. DOMAIN LayoutOf(s) = 1..Len(s) /\ DOMAIN LayoutOf(t) = 1..Len(t)
  BY DEF LayoutOf
<1>3. 1..Len(s) = 1..Len(t)
  BY <1>2
<1> QED
  BY <1>1, <1>3

\* New rows.
LEMMA NewRowGood ==
    ASSUME NEW layout \in Seq(Decls)
    PROVE  /\ NewRow(layout) \in GoodRow /\ LayoutOf(NewRow(layout)) = layout
           /\ Len(NewRow(layout)) = Len(layout)
<1> DEFINE p == NewRow(layout)
<1>1. Len(layout) \in Nat /\ layout = [i \in 1..Len(layout) |-> layout[i]]
  BY LenProperties
<1>2. \A i \in 1..Len(layout) : layout[i] \in Decls
  BY ElementOfSeq
<1>3. \A d \in Decls : NewCell(d) \in GoodCell /\ NewCell(d).decl = d
  BY DEF NewCell, GoodCell, Cell, Content, NullContent
<1>4. p \in [1..Len(layout) -> GoodCell] /\ \A i \in 1..Len(layout) : p[i].decl = layout[i]
  BY <1>2, <1>3 DEF NewRow
<1> HIDE DEF p
<1>5. p \in Seq(GoodCell) /\ Len(p) = Len(layout)
  BY <1>1, <1>4, MakeSeq
<1>6. LayoutOf(p) = [i \in 1..Len(layout) |-> layout[i]]
  BY <1>4, <1>5 DEF LayoutOf
<1> QED
  BY <1>1, <1>5, <1>6 DEF p, GoodRow

LEMMA EmptyGood == <<>> \in GoodRow /\ LayoutOf(<<>>) \in Known
<1>1. LayoutOf(<<>>) = <<>>
  BY DEF LayoutOf
<1> QED
  BY <1>1, EmptySeq DEF GoodRow, Known

\* One row of a good family is replaced by a good row.
LEMMA PutRow ==
    ASSUME NEW R, Good(R), NEW r \in Rows, NEW t \in GoodRow, LayoutOf(t) \in Known
    PROVE  Good([R EXCEPT ![r] = t])
BY DEF Good

\* One cell of a good family is replaced by a good cell of the same declared type.
LEMMA CellReplaced ==
    ASSUME NEW R, Good(R), NEW r \in Rows, NEW i \in 1..Len(R[r]),
           NEW c \in GoodCell, c.decl = R[r][i].decl,
           NEW Q, Q = [R EXCEPT ![r][i] = c]
    PROVE  Good(Q) /\ \A s \in Rows : Len(Q[s]) = Len(R[s])
<1> DEFINE t == [R[r] EXCEPT ![i] = c]
<1>1. R[r] \in GoodRow /\ R \in [Rows -> GoodRow] /\ LayoutOf(R[r]) \in Known
  BY DEF Good
<1>2. /\ t \in GoodRow /\ Len(t) = Len(R[r])
      /\ \A j \in 1..Len(R[r]) : t[j] = IF j = i THEN c ELSE R[r][j]
  BY <1>1, ExceptSeq DEF GoodRow
<1>3. LayoutOf(t) = LayoutOf(R[r])
  BY <1>2 DEF LayoutOf
<1>4. Q = [R EXCEPT ![r] = t]
  OBVIOUS
<1> HIDE DEF t
<1>5. Good([R EXCEPT ![r] = t])
  BY <1>1, <1>2, <1>3, PutRow
<1>6. \A s \in Rows : Q[s] = IF s = r THEN t ELSE R[s]
  BY <1>1, <1>4
<1>7. \A s \in Rows : Len(Q[s]) = Len(R[s])
  BY <1>2, <1>6
<1> QED
  BY <1>4, <1>5, <1>7

LEMMA CellsGood ==
    ASSUME NEW R, Good(R), NEW r \in Rows
    PROVE  R[r] \in GoodRow /\ LayoutOf(R[r]) \in Known /\ \A i \in 1..Len(R[r]) : R[r][i] \in GoodCell
<1>1. R[r] \in GoodRow /\ LayoutOf(R[r]) \in Known
  BY DEF Good
<1> QED
  BY <1>1, ElementOfSeq DEF GoodRow

-----------------------------------------------------------------------------
\* What a step records.
Results == {"ok", "mismatch", "range", "bad_alloc"}

LEMMA RowRecords ==
    ASSUME displaced \in BOOLEAN, RowNext
    PROVE  /\ UNCHANGED bound /\ displaced' \in BOOLEAN
           /\ last' \in [op : Calls, result : Results] /\ last'.op # "execute"
<1> DEFINE Fine == UNCHANGED bound /\ last' \in [op : Calls \ {"execute"}, result : Results] /\ displaced' \in BOOLEAN
<1>1. ASSUME NEW S, Displaces(S) PROVE displaced' \in BOOLEAN
  BY <1>1 DEF Displaces
<1>2. ASSUME NEW op \in {"new", "copy", "move", "swap"}, NEW result \in Results, Returns(op, result)
      PROVE  last' \in [op : Calls \ {"execute"}, result : Results]
  BY <1>2 DEF Returns, Calls
<1>3. "ok" \in Results /\ "mismatch" \in Results /\ "bad_alloc" \in Results
  BY DEF Results
<1>4. ASSUME NEW r \in Rows, NEW layout \in Layouts, Construct(r, layout) PROVE Fine
  BY <1>2, <1>3, <1>4 DEF Construct
<1>5. ASSUME NEW r \in Rows, NEW s \in Rows, CopyConstruct(r, s) PROVE Fine
  BY <1>2, <1>3, <1>5 DEF CopyConstruct
<1>6. ASSUME NEW r \in Rows, NEW s \in Rows, MoveConstruct(r, s) PROVE Fine
  BY <1>1, <1>2, <1>3, <1>6 DEF MoveConstruct
<1>7. ASSUME NEW r \in Rows, NEW s \in Rows, CopyRow(r, s) PROVE Fine
  BY <1>2, <1>3, <1>7 DEF CopyRow
<1>8. ASSUME NEW r \in Rows, NEW s \in Rows, CopyRowFails(r, s) PROVE Fine
  BY <1>2, <1>3, <1>8 DEF CopyRowFails
<1>9. ASSUME NEW r \in Rows, NEW s \in Rows, MoveRow(r, s) PROVE Fine
  BY <1>1, <1>2, <1>3, <1>9 DEF MoveRow
<1>10. ASSUME NEW r \in Rows, NEW s \in Rows, SwapRows(r, s) PROVE Fine
  BY <1>1, <1>2, <1>3, <1>10 DEF SwapRows
<1>11. ASSUME NEW r \in Rows, MoveRowToItself(r) PROVE Fine
  BY <1>1, <1>2, <1>3, <1>11 DEF MoveRowToItself
<1> HIDE DEF Fine
<1>12. Fine
  BY <1>4, <1>5, <1>6, <1>7, <1>8, <1>9, <1>10, <1>11 DEF RowNext
<1> QED
  BY <1>12 DEF Fine

LEMMA ParameterRecords ==
    ASSUME displaced \in BOOLEAN, ParameterNext
    PROVE  last' \in [op : Calls, result : Results] /\ displaced' \in BOOLEAN
<1> DEFINE Fine == last' \in [op : Calls, result : Results] /\ displaced' \in BOOLEAN
<1>1. ASSUME NEW S, Displaces(S) PROVE displaced' \in BOOLEAN
  BY <1>1 DEF Displaces
<1>2. ASSUME NEW op \in {"set", "reset", "execute"}, NEW result \in Results, Returns(op, result)
      PROVE  last' \in [op : Calls, result : Results]
  BY <1>2 DEF Returns, Calls
<1>3. "ok" \in Results /\ "mismatch" \in Results /\ "range" \in Results
  BY DEF Results
<1>4. ASSUME NEW s \in Rows, SetParameters(s) PROVE Fine
  BY <1>2, <1>3, <1>4 DEF SetParameters
<1>5. ASSUME NEW s \in Rows, NEW moved \in BOOLEAN, ResetParameters(s, moved) PROVE Fine
  <2>1. displaced' \in BOOLEAN
    BY <1>1, <1>5 DEF ResetParameters
  <2>2. Returns("reset", "ok") \/ Returns("reset", "mismatch")
    BY <1>5 DEF ResetParameters
  <2> QED
    BY <1>2, <1>3, <2>1, <2>2
<1>6. ASSUME NEW s \in Rows \cup {NoRow}, ExecuteRefused(s) PROVE Fine
  BY <1>2, <1>3, <1>6 DEF ExecuteRefused
<1>7. ASSUME NEW s \in Rows \cup {NoRow}, Execute(s) PROVE Fine
  BY <1>2, <1>3, <1>7 DEF Execute
<1> HIDE DEF Fine
<1>8. Fine
  BY <1>4, <1>5, <1>6, <1>7 DEF ParameterNext
<1> QED
  BY <1>8 DEF Fine

\* The steps, one family of operations at a time.
LEMMA CellSteps ==
    ASSUME RowsInv, CellNext
    PROVE  /\ RowsInv'
           /\ \A q \in Rows : Len(rows'[q]) = Len(rows[q])
           /\ last'.op # "execute"
           /\ UNCHANGED displaced
<1> DEFINE SameLength == \A q \in Rows : Len(rows'[q]) = Len(rows[q])
<1>0. PICK r \in Rows : \E i \in 1..Len(rows[r]) :
         \/ \E x \in Given : Give(r, i, x)
         \/ \E s \in Rows : \E j \in 1..Len(rows[s]) : CopyCell(r, i, s, j) \/ MoveCell(r, i, s, j)
         \/ ClearCell(r, i)
  BY DEF CellNext
<1>1. PICK i \in 1..Len(rows[r]) :
         \/ \E x \in Given : Give(r, i, x)
         \/ \E s \in Rows : \E j \in 1..Len(rows[s]) : CopyCell(r, i, s, j) \/ MoveCell(r, i, s, j)
         \/ ClearCell(r, i)
  BY <1>0
<1>2. Good(rows) /\ rows[r][i] \in GoodCell
  BY CellsGood DEF RowsInv
<1>3. ASSUME NEW x \in Given, Give(r, i, x) PROVE Good(rows') /\ SameLength
  <2>1. CASE Accepts(rows[r][i], x)
    <3> DEFINE c == [rows[r][i] EXCEPT !.val = Stored(rows[r][i], x)]
    <3>1. c \in GoodCell /\ c.decl = rows[r][i].decl
      BY <1>2, <2>1, GiveGood
    <3>2. rows' = [rows EXCEPT ![r][i] = c]
      BY <1>3, <2>1 DEF Give
    <3> HIDE DEF c
    <3> DEFINE m == [rows EXCEPT ![r][i] = c]
    <3>3. Good(m) /\ \A q \in Rows : Len(m[q]) = Len(rows[q])
      BY <1>2, <3>1, CellReplaced
    <3>4. rows' = m
      BY <3>2
    <3> HIDE DEF m
    <3> QED
      BY <3>3, <3>4
  <2>2. CASE ~Accepts(rows[r][i], x)
    BY <1>2, <1>3, <2>2 DEF Give
  <2> QED
    BY <2>1, <2>2
<1>4. ASSUME NEW s \in Rows, NEW j \in 1..Len(rows[s]), CopyCell(r, i, s, j) PROVE Good(rows') /\ SameLength
  <2>1. CASE CanAssign(rows[r][i], rows[s][j])
    <3>1. rows[s][j] \in GoodCell
      BY <1>2, CellsGood
    <3>2. Assigned(rows[r][i], rows[s][j]) \in GoodCell /\ Assigned(rows[r][i], rows[s][j]).decl = rows[r][i].decl
      BY <1>2, <2>1, <3>1, AssignGood
    <3>3. rows' = [rows EXCEPT ![r][i] = Assigned(rows[r][i], rows[s][j])]
      BY <1>4, <2>1 DEF CopyCell
    <3> DEFINE m == [rows EXCEPT ![r][i] = Assigned(rows[r][i], rows[s][j])]
    <3>4. Good(m) /\ \A q \in Rows : Len(m[q]) = Len(rows[q])
      BY <1>2, <3>2, CellReplaced
    <3>5. rows' = m
      BY <3>3
    <3> HIDE DEF m
    <3> QED
      BY <3>4, <3>5
  <2>2. CASE ~CanAssign(rows[r][i], rows[s][j])
    BY <1>2, <1>4, <2>2 DEF CopyCell
  <2> QED
    BY <2>1, <2>2
<1>5. ASSUME NEW s \in Rows, NEW j \in 1..Len(rows[s]), MoveCell(r, i, s, j) PROVE Good(rows') /\ SameLength
  <2>1. CASE CanAssign(rows[r][i], rows[s][j])
    <3> DEFINE c == Assigned(rows[r][i], rows[s][j])
               m == [rows EXCEPT ![r][i] = c]
               n == [m[s][j] EXCEPT !.val = NullContent]
    <3>1. rows[s][j] \in GoodCell
      BY <1>2, CellsGood
    <3>2. c \in GoodCell /\ c.decl = rows[r][i].decl
      BY <1>2, <2>1, <3>1, AssignGood
    <3>3. rows' = [m EXCEPT ![s][j] = n]
      BY <1>5, <2>1 DEF MoveCell
    <3> HIDE DEF c
    <3>4. Good(m) /\ j \in 1..Len(m[s]) /\ \A q \in Rows : Len(m[q]) = Len(rows[q])
      BY <1>2, <3>2, CellReplaced
    <3> HIDE DEF m
    <3>5. m[s][j] \in GoodCell
      BY <3>4, CellsGood
    <3>6. n \in GoodCell /\ n.decl = m[s][j].decl
      BY <3>5, ClearGood
    <3> HIDE DEF n
    <3> DEFINE p == [m EXCEPT ![s][j] = n]
    <3>7. Good(p) /\ \A q \in Rows : Len(p[q]) = Len(m[q])
      BY <3>4, <3>6, CellReplaced
    <3>8. rows' = p
      BY <3>3
    <3> HIDE DEF p
    <3> QED
      BY <3>4, <3>7, <3>8
  <2>2. CASE ~CanAssign(rows[r][i], rows[s][j])
    BY <1>2, <1>5, <2>2 DEF MoveCell
  <2> QED
    BY <2>1, <2>2
<1>6. ASSUME ClearCell(r, i) PROVE Good(rows') /\ SameLength
  <2> DEFINE c == [rows[r][i] EXCEPT !.val = NullContent]
  <2>1. c \in GoodCell /\ c.decl = rows[r][i].decl
    BY <1>2, ClearGood
  <2>2. rows' = [rows EXCEPT ![r][i] = c]
    BY <1>6 DEF ClearCell
  <2> HIDE DEF c
  <2> DEFINE m == [rows EXCEPT ![r][i] = c]
  <2>3. Good(m) /\ \A q \in Rows : Len(m[q]) = Len(rows[q])
    BY <1>2, <2>1, CellReplaced
  <2>4. rows' = m
    BY <2>2
  <2> HIDE DEF m
  <2> QED
    BY <2>3, <2>4
<1>7. Good(rows') /\ SameLength
  BY <1>1, <1>3, <1>4, <1>5, <1>6
<1>8. UNCHANGED bound /\ last' \in [op : {"cell", "clear"}, result : {"ok", "mismatch", "range", "bad_alloc"}]
  <2> DEFINE Ends(op, result) == last' = [op |-> op, result |-> result]
  <2>1. UNCHANGED bound /\ (Ends("cell", "ok") \/ Ends("cell", "mismatch") \/ Ends("clear", "ok"))
    <3>1. ASSUME NEW x \in Given, Give(r, i, x) PROVE UNCHANGED bound /\ (Ends("cell", "ok") \/ Ends("cell", "mismatch"))
      BY <3>1 DEF Give, Returns
    <3>2. ASSUME NEW s \in Rows, NEW j \in 1..Len(rows[s]), CopyCell(r, i, s, j)
          PROVE  UNCHANGED bound /\ (Ends("cell", "ok") \/ Ends("cell", "mismatch"))
      BY <3>2 DEF CopyCell, Returns
    <3>3. ASSUME NEW s \in Rows, NEW j \in 1..Len(rows[s]), MoveCell(r, i, s, j)
          PROVE  UNCHANGED bound /\ (Ends("cell", "ok") \/ Ends("cell", "mismatch"))
      BY <3>3 DEF MoveCell, Returns
    <3>4. ASSUME ClearCell(r, i) PROVE UNCHANGED bound /\ Ends("clear", "ok")
      BY <3>4 DEF ClearCell, Returns
    <3> HIDE DEF Ends
    <3> QED
      BY <1>1, <3>1, <3>2, <3>3, <3>4
  <2> QED
    BY <2>1
<1>9. UNCHANGED displaced
  BY <1>1 DEF Give, CopyCell, MoveCell, ClearCell
<1>10. /\ last' \in [op : Calls, result : {"ok", "mismatch", "range", "bad_alloc"}]
       /\ last'.op # "execute"
  BY <1>8 DEF Calls
<1> QED
  BY <1>7, <1>8, <1>9, <1>10 DEF RowsInv, Good

LEMMA RowSteps ==
    ASSUME RowsInv, RowNext
    PROVE  RowsInv'
<1>1. Good(rows) /\ \A r \in Rows : rows[r] \in GoodRow /\ LayoutOf(rows[r]) \in Known
  BY CellsGood DEF RowsInv
<1>2. ASSUME NEW r \in Rows, NEW layout \in Layouts, Construct(r, layout) PROVE Good(rows')
  <2>1. NewRow(layout) \in GoodRow /\ LayoutOf(NewRow(layout)) \in Known
    BY NewRowGood, RowsAssumption DEF Known
  <2> QED
    BY <1>1, <1>2, <2>1, PutRow DEF Construct
<1>3. ASSUME NEW r \in Rows, NEW s \in Rows,
             CopyConstruct(r, s) \/ MoveConstruct(r, s) \/ MoveRow(r, s) \/ SwapRows(r, s)
      PROVE  Good(rows')
  <2>1. Good([rows EXCEPT ![r] = rows[s]])
    BY <1>1, PutRow
  <2>2. Good([[rows EXCEPT ![r] = rows[s]] EXCEPT ![s] = <<>>])
    BY <2>1, PutRow, EmptyGood
  <2>3. Good([[rows EXCEPT ![r] = rows[s]] EXCEPT ![s] = rows[r]])
    BY <1>1, <2>1, PutRow
  <2> QED
    BY <1>1, <1>3, <2>1, <2>2, <2>3 DEF CopyConstruct, MoveConstruct, MoveRow, SwapRows
<1>4. ASSUME NEW r \in Rows, NEW s \in Rows, CopyRow(r, s) PROVE Good(rows')
  <2>1. CASE Compatible(rows[r], rows[s])
    <3>1. /\ RowAssigned(rows[r], rows[s]) \in GoodRow
          /\ LayoutOf(RowAssigned(rows[r], rows[s])) = LayoutOf(rows[r])
      BY <1>1, <2>1, RowAssignGood DEF Compatible
    <3> QED
      BY <1>1, <1>4, <2>1, <3>1, PutRow DEF CopyRow
  <2>2. CASE ~Compatible(rows[r], rows[s])
    BY <1>1, <1>4, <2>2 DEF CopyRow
  <2> QED
    BY <2>1, <2>2
<1>5. ASSUME NEW r \in Rows, NEW s \in Rows, CopyRowFails(r, s) PROVE Good(rows')
  <2>1. PICK k \in 1..Len(rows[s]) : rows' = [rows EXCEPT ![r] = RowTorn(rows[r], rows[s], k)]
    BY <1>5 DEF CopyRowFails
  <2>2. /\ RowTorn(rows[r], rows[s], k) \in GoodRow
        /\ LayoutOf(RowTorn(rows[r], rows[s], k)) = LayoutOf(rows[r])
    BY <1>1, <1>5, RowAssignGood DEF CopyRowFails, Compatible
  <2> QED
    BY <1>1, <2>1, <2>2, PutRow
<1>6. ASSUME NEW r \in Rows, MoveRowToItself(r) PROVE Good(rows')
  <2>1. PICK s \in {rows[r], <<>>} : rows' = [rows EXCEPT ![r] = s]
    BY <1>6 DEF MoveRowToItself
  <2>2. s \in GoodRow /\ LayoutOf(s) \in Known
    BY <1>1, EmptyGood
  <2> QED
    BY <1>1, <2>1, <2>2, PutRow
<1>7. Good(rows')
  BY <1>2, <1>3, <1>4, <1>5, <1>6 DEF RowNext
<1> QED
  BY <1>7, RowRecords DEF RowsInv, Good, Results

LEMMA ParameterSteps ==
    ASSUME RowsInv, ParameterNext
    PROVE  RowsInv'
<1>1. Good(rows) /\ \A r \in Rows : rows[r] \in GoodRow /\ LayoutOf(rows[r]) \in Known
  BY CellsGood DEF RowsInv
<1>2. Params \in Rows
  BY RowsAssumption
<1>3. ASSUME NEW t \in GoodRow, Len(t) = Len(rows[Params])
      PROVE  Good([rows EXCEPT ![Params] = PrefixAssigned(rows[Params], t)])
  <2>1. /\ PrefixAssigned(rows[Params], t) \in GoodRow
        /\ LayoutOf(PrefixAssigned(rows[Params], t)) = LayoutOf(rows[Params])
    BY <1>1, <1>2, <1>3, RowAssignGood
  <2> QED
    BY <1>1, <1>2, <2>1, PutRow
<1>4. ASSUME NEW s \in Rows, SetParameters(s) PROVE Good(rows')
  BY <1>1, <1>3, <1>4 DEF SetParameters
<1>5. ASSUME NEW s \in Rows, NEW moved \in BOOLEAN, ResetParameters(s, moved) PROVE Good(rows')
  <2> DEFINE t == IF moved THEN <<>> ELSE rows[s]
             m == [rows EXCEPT ![s] = t]
  <2>1. Good(m)
    BY <1>1, EmptyGood, PutRow
  <2>2. Good([m EXCEPT ![Params] = rows[s]])
    BY <1>1, <1>2, <2>1, PutRow
  <2>3. rows' = m \/ rows' = [m EXCEPT ![Params] = rows[s]]
    BY <1>5 DEF ResetParameters
  <2> QED
    BY <2>1, <2>2, <2>3
<1>6. ASSUME NEW s \in Rows \cup {NoRow} PROVE Argument(s) \in GoodRow
  BY <1>1, EmptyGood DEF Argument
<1>7. ASSUME NEW s \in Rows \cup {NoRow}, ExecuteRefused(s) PROVE Good(rows') /\ UNCHANGED bound
  BY <1>1, <1>3, <1>6, <1>7 DEF ExecuteRefused
<1>8. ASSUME NEW s \in Rows \cup {NoRow}, Execute(s)
      PROVE  Good(rows') /\ bound' \in [1..Width -> Content]
  <2>1. Good(rows')
    <3>1. CASE Argument(s) = <<>>
      BY <1>1, <1>8, <3>1 DEF Execute
    <3>2. CASE Argument(s) # <<>>
      <4>1. /\ RowAssigned(rows[Params], Argument(s)) \in GoodRow
            /\ LayoutOf(RowAssigned(rows[Params], Argument(s))) = LayoutOf(rows[Params])
        BY <1>1, <1>2, <1>6, <1>8, <3>2, RowAssignGood DEF Execute, Compatible
      <4> QED
        BY <1>1, <1>2, <1>8, <3>2, <4>1, PutRow DEF Execute
    <3> QED
      BY <3>1, <3>2
  <2> DEFINE p == rows'[Params]
  <2>2. p \in GoodRow /\ \A i \in 1..Len(p) : p[i] \in GoodCell
    BY <1>2, <2>1, CellsGood
  <2>3. bound' = BoundTo(p)
    BY <1>8 DEF Execute
  <2>4. Len(p) \in Nat
    BY <2>2, LenProperties DEF GoodRow
  <2> HIDE DEF p
  <2>5. BoundTo(p) \in [1..Width -> Content]
    <3>1. SUFFICES ASSUME NEW i \in 1..Width
                   PROVE  (IF i <= Len(p) THEN p[i].val ELSE bound[i]) \in Content
      BY DEF BoundTo
    <3>2. CASE i <= Len(p)
      <4>1. i \in 1..Len(p)
        BY <2>4, <3>2, RowsAssumption
      <4> QED
        BY <2>2, <3>2, <4>1 DEF GoodCell, Cell
    <3>3. CASE ~(i <= Len(p))
      BY <3>3 DEF RowsInv
    <3> QED
      BY <3>2, <3>3
  <2> QED
    BY <2>1, <2>3, <2>5
<1>9. Good(rows') /\ bound' \in [1..Width -> Content]
  <2>1. CASE \E s \in Rows : SetParameters(s) \/ \E moved \in BOOLEAN : ResetParameters(s, moved)
    BY <1>4, <1>5, <2>1 DEF RowsInv, SetParameters, ResetParameters
  <2>2. CASE \E s \in Rows \cup {NoRow} : ExecuteRefused(s) \/ Execute(s)
    BY <1>7, <1>8, <2>2 DEF RowsInv
  <2> QED
    BY <2>1, <2>2 DEF ParameterNext
<1> QED
  BY <1>9, ParameterRecords DEF RowsInv, Good, Results

LEMMA InitGood ==
    ASSUME Init
    PROVE  RowsInv
<1>1. FreshLayout \in Seq(Decls)
  <2>1. FreshLayout \in [1..Width -> Decls]
    BY DEF FreshLayout, Decls
  <2> QED
    BY <2>1, MakeSeq, RowsAssumption
<1>2. NewRow(FreshLayout) \in GoodRow /\ LayoutOf(NewRow(FreshLayout)) \in Known
  BY <1>1, NewRowGood DEF Known
<1>3. Good(rows)
  BY <1>2, EmptyGood DEF Init, Good
<1> QED
  BY <1>3 DEF Init, RowsInv, Content, NullContent, Calls

\* Rows of good cells with known layouts stay what they are.
THEOREM RowsStayGood == Spec => []RowsInv
<1>1. RowsInv /\ [Next]_vars => RowsInv'
  <2>1. ASSUME RowsInv, UNCHANGED vars PROVE RowsInv'
    BY <2>1 DEF RowsInv, Good, vars
  <2> QED
    BY <2>1, CellSteps, RowSteps, ParameterSteps DEF Next
<1> QED
  BY <1>1, InitGood, PTL DEF Spec

\* A Command's own parameters are never fewer than its SQL has.
Enough == displaced \/ Len(rows[Params]) >= Width

LEMMA EnoughSteps ==
    ASSUME RowsInv, Enough, Next
    PROVE  Enough'
<1>1. Params \in Rows /\ rows \in [Rows -> GoodRow]
  BY RowsAssumption DEF RowsInv, Good
<1>2. CASE displaced
  <2> DEFINE Stays == displaced' = TRUE
  <2>1. ASSUME NEW S, Displaces(S) PROVE Stays
    BY <1>2, <2>1 DEF Displaces
  <2>2. ASSUME UNCHANGED displaced PROVE Stays
    BY <1>2, <2>2 DEF RowsInv
  <2> HIDE DEF Stays
  <2>3. ASSUME CellNext PROVE Stays
    BY <2>2, <2>3, CellSteps
  <2>4. ASSUME RowNext PROVE Stays
    BY <2>1, <2>2, <2>4 DEF RowNext, Construct, CopyConstruct, MoveConstruct, CopyRow,
                            CopyRowFails, MoveRow, SwapRows, MoveRowToItself
  <2>5. ASSUME ParameterNext PROVE Stays
    BY <2>1, <2>2, <2>5 DEF ParameterNext, SetParameters, ResetParameters, ExecuteRefused, Execute
  <2>6. Stays
    BY <2>3, <2>4, <2>5 DEF Next
  <2> QED
    BY <2>6 DEF Enough, Stays
<1>3. CASE Len(rows[Params]) >= Width
  <2>1. SUFFICES displaced' \/ Len(rows'[Params]) >= Width
    BY DEF Enough
  <2>2. CASE CellNext
    BY <1>1, <1>3, <2>2, CellSteps
  <2>3. CASE RowNext
    <3>1. ASSUME NEW r \in Rows, NEW s \in Rows, CopyRow(r, s) \/ CopyRowFails(r, s)
          PROVE  Len(rows'[Params]) = Len(rows[Params])
      <4>1. CASE Compatible(rows[r], rows[s])
        <5>1. Len(rows[r]) = Len(rows[s])
          BY <4>1 DEF Compatible
        <5>2. /\ Len(RowAssigned(rows[r], rows[s])) = Len(rows[r])
              /\ \A k \in 1..Len(rows[s]) : Len(RowTorn(rows[r], rows[s], k)) = Len(rows[r])
          BY <1>1, <4>1, <5>1, RowAssignGood, SameLayout
        <5> QED
          BY <1>1, <3>1, <4>1, <5>2 DEF CopyRow, CopyRowFails
      <4>2. CASE ~Compatible(rows[r], rows[s])
        BY <3>1, <4>2 DEF CopyRow, CopyRowFails
      <4> QED
        BY <4>1, <4>2
    <3>2. ASSUME NEW r \in Rows, NEW s \in Rows, MoveRow(r, s)
          PROVE  displaced' \/ Len(rows'[Params]) >= Width
      <4>1. CASE s = Params
        BY <1>1, <1>3, <3>2, <4>1 DEF MoveRow, Displaces
      <4>2. CASE s # Params /\ r # Params
        BY <1>1, <1>3, <3>2, <4>2 DEF MoveRow
      <4>3. CASE s # Params /\ r = Params
        <5>1. CASE Compatible(rows[r], rows[s])
          BY <1>1, <1>3, <3>2, <4>3, <5>1 DEF MoveRow, Compatible
        <5>2. CASE rows[r] = <<>>
          <6>1. Width = 0
            BY <1>3, <4>3, <5>2, EmptySeq, RowsAssumption
          <6>2. rows'[Params] = rows[s]
            BY <1>1, <3>2, <4>3, <5>2 DEF MoveRow
          <6> QED
            BY <1>1, <6>1, <6>2, LenProperties DEF GoodRow
        <5>3. CASE ~Compatible(rows[r], rows[s]) /\ rows[r] # <<>>
          BY <1>3, <3>2, <5>3 DEF MoveRow
        <5> QED
          BY <5>1, <5>2, <5>3
      <4> QED
        BY <4>1, <4>2, <4>3
    <3>3. ASSUME NEW r \in Rows, NEW layout \in Layouts, Construct(r, layout)
          PROVE  Len(rows'[Params]) >= Width
      BY <1>1, <1>3, <3>3 DEF Construct
    <3>4. ASSUME NEW r \in Rows, NEW s \in Rows, CopyConstruct(r, s)
          PROVE  Len(rows'[Params]) >= Width
      BY <1>1, <1>3, <3>4 DEF CopyConstruct
    <3>5. ASSUME NEW r \in Rows, NEW s \in Rows, MoveConstruct(r, s) \/ SwapRows(r, s)
          PROVE  displaced' \/ Len(rows'[Params]) >= Width
      <4>1. CASE Params \in {r, s}
        BY <3>5, <4>1 DEF MoveConstruct, SwapRows, Displaces
      <4>2. CASE Params \notin {r, s}
        BY <1>1, <1>3, <3>5, <4>2 DEF MoveConstruct, SwapRows
      <4> QED
        BY <4>1, <4>2
    <3>6. ASSUME NEW r \in Rows, MoveRowToItself(r)
          PROVE  displaced' \/ Len(rows'[Params]) >= Width
      <4>1. CASE r = Params
        BY <3>6, <4>1 DEF MoveRowToItself, Displaces
      <4>2. CASE r # Params
        BY <1>1, <1>3, <3>6, <4>2 DEF MoveRowToItself
      <4> QED
        BY <4>1, <4>2
    <3> QED
      BY <1>3, <2>3, <3>1, <3>2, <3>3, <3>4, <3>5, <3>6 DEF RowNext
  <2>4. CASE ParameterNext
    <3>1. ASSUME NEW t \in GoodRow, Len(t) = Len(rows[Params])
          PROVE  /\ Len(PrefixAssigned(rows[Params], t)) = Len(rows[Params])
                 /\ Compatible(rows[Params], t) =>
                        Len(RowAssigned(rows[Params], t)) = Len(rows[Params])
      BY <1>1, <3>1, RowAssignGood, SameLayout
    <3>2. ASSUME NEW s \in Rows, SetParameters(s) PROVE Len(rows'[Params]) >= Width
      <4>1. CASE Len(rows[s]) = Len(rows[Params])
        BY <1>1, <1>3, <3>1, <3>2, <4>1 DEF SetParameters
      <4>2. CASE Len(rows[s]) # Len(rows[Params])
        BY <1>3, <3>2, <4>2 DEF SetParameters
      <4> QED
        BY <4>1, <4>2
    <3>3. ASSUME NEW s \in Rows, NEW moved \in BOOLEAN, ResetParameters(s, moved)
          PROVE  displaced' \/ Len(rows'[Params]) >= Width
      <4>1. CASE moved /\ s = Params
        BY <3>3, <4>1 DEF ResetParameters, Displaces
      <4>2. CASE ~(moved /\ s = Params)
        <5>1. CASE Len(rows[s]) = Len(rows[Params])
          <6>1. rows'[Params] = rows[s]
            BY <1>1, <3>3, <4>2, <5>1 DEF ResetParameters
          <6> QED
            BY <1>3, <5>1, <6>1
        <5>2. CASE Len(rows[s]) # Len(rows[Params])
          <6>1. rows'[Params] = rows[Params]
            BY <1>1, <3>3, <4>2, <5>2 DEF ResetParameters
          <6> QED
            BY <1>3, <6>1
        <5> QED
          BY <5>1, <5>2
      <4> QED
        BY <4>1, <4>2
    <3>4. ASSUME NEW s \in Rows \cup {NoRow} PROVE Argument(s) \in GoodRow
      BY <1>1, EmptyGood DEF Argument
    <3>5. ASSUME NEW s \in Rows \cup {NoRow}, ExecuteRefused(s) PROVE Len(rows'[Params]) >= Width
      <4>1. CASE Len(Argument(s)) = Len(rows[Params])
        BY <1>1, <1>3, <3>1, <3>4, <3>5, <4>1 DEF ExecuteRefused
      <4>2. CASE Len(Argument(s)) # Len(rows[Params])
        BY <1>3, <3>5, <4>2 DEF ExecuteRefused
      <4> QED
        BY <4>1, <4>2
    <3>6. ASSUME NEW s \in Rows \cup {NoRow}, Execute(s) PROVE Len(rows'[Params]) >= Width
      <4>1. CASE Argument(s) = <<>>
        BY <1>3, <3>6, <4>1 DEF Execute
      <4>2. CASE Argument(s) # <<>>
        <5>1. Compatible(rows[Params], Argument(s)) /\ Len(Argument(s)) = Len(rows[Params])
          BY <3>6, <4>2 DEF Execute, Compatible
        <5> QED
          BY <1>1, <1>3, <3>1, <3>4, <3>6, <4>2, <5>1 DEF Execute
      <4> QED
        BY <4>1, <4>2
    <3> QED
      BY <2>4, <3>2, <3>3, <3>5, <3>6 DEF ParameterNext
  <2> QED
    BY <2>2, <2>3, <2>4 DEF Next
<1> QED
  BY <1>2, <1>3 DEF Enough

\* The invariant says what the properties say.
LEMMA InvSays == RowsInv => TypedTypeOK /\ TypeGuarantee /\ LayoutsStayWhole
<1> SUFFICES ASSUME RowsInv PROVE TypedTypeOK /\ TypeGuarantee /\ LayoutsStayWhole
  OBVIOUS
<1>1. \A r \in Rows : rows[r] \in GoodRow /\ LayoutOf(rows[r]) \in Known /\ \A i \in 1..Len(rows[r]) : rows[r][i] \in GoodCell
  BY CellsGood DEF RowsInv
<1>2. GoodCell \subseteq Cell
  BY DEF GoodCell
<1>3. \A r \in Rows : rows[r] \in Seq(Cell)
  BY <1>1, <1>2, SeqMonotonic DEF GoodRow
<1>4. TypedTypeOK
  BY <1>3 DEF RowsInv, Good, TypedTypeOK
<1>5. TypeGuarantee
  BY <1>1 DEF TypeGuarantee, GoodCell, ValueFits
<1>6. LayoutsStayWhole
  BY <1>1 DEF LayoutsStayWhole, Known
<1> QED
  BY <1>4, <1>5, <1>6

\* Every variable keeps its type.
THEOREM RowsTypeCorrect == Spec => []TypedTypeOK
BY RowsStayGood, InvSays, PTL

\* Every value is null or of its declared type.
THEOREM TypesAreGuaranteed == Spec => []TypeGuarantee
BY RowsStayGood, InvSays, PTL

\* Declared types travel with whole rows or not at all.
THEOREM LayoutsAreWhole == Spec => []LayoutsStayWhole
BY RowsStayGood, InvSays, PTL

\* The inductive invariant of what a statement runs with.
RunInv == RowsInv /\ Enough /\ KeptParametersRun

LEMMA RunSteps ==
    ASSUME RunInv, Next
    PROVE  RunInv'
<1>1. RowsInv' /\ Enough'
  BY CellSteps, RowSteps, ParameterSteps, EnoughSteps DEF RunInv, Next
<1>2. ASSUME last'.op # "execute" \/ last'.result # "ok" PROVE KeptParametersRun'
  BY <1>2 DEF KeptParametersRun, RunsWithItsParameters
<1>3. CASE CellNext
  BY <1>1, <1>2, <1>3, CellSteps DEF RunInv
<1>4. CASE RowNext
  BY <1>1, <1>2, <1>4, RowRecords DEF RunInv, RowsInv
<1>5. CASE ParameterNext
  <2>1. ASSUME NEW s \in Rows, SetParameters(s) PROVE last'.op # "execute"
    BY <2>1 DEF SetParameters, Returns
  <2>2. ASSUME NEW s \in Rows, NEW moved \in BOOLEAN, ResetParameters(s, moved)
        PROVE  last'.op # "execute"
    BY <2>2 DEF ResetParameters, Returns
  <2>3. ASSUME NEW s \in Rows \cup {NoRow}, ExecuteRefused(s) PROVE last'.result # "ok"
    BY <2>3 DEF ExecuteRefused, Returns
  <2>4. ASSUME NEW s \in Rows \cup {NoRow}, Execute(s) PROVE KeptParametersRun'
    <3>1. SUFFICES ASSUME ~displaced', NEW i \in 1..Width
                   PROVE  bound'[i] = IF i <= Len(rows'[Params]) THEN rows'[Params][i].val
                                      ELSE NullContent
      BY DEF KeptParametersRun, RunsWithItsParameters
    <3> DEFINE p == rows'[Params]
    <3>2. bound' = BoundTo(p)
      BY <2>4 DEF Execute
    <3>3. Len(p) \in Nat /\ Len(p) >= Width
      <4>1. p \in GoodRow
        BY <1>1, RowsAssumption DEF RowsInv, Good
      <4> QED
        BY <1>1, <3>1, <4>1, LenProperties DEF Enough, GoodRow
    <3> HIDE DEF p
    <3>4. i <= Len(p)
      BY <3>3, RowsAssumption
    <3>5. bound'[i] = p[i].val
      BY <3>2, <3>4 DEF BoundTo
    <3> QED
      BY <3>4, <3>5 DEF p
  <2> QED
    BY <1>1, <1>2, <1>5, <2>1, <2>2, <2>3, <2>4 DEF ParameterNext, RunInv
<1> QED
  BY <1>1, <1>3, <1>4, <1>5 DEF RunInv, Next

\* A statement runs with the values of its Command's parameters, unless these have
\* been moved away or swapped.
THEOREM StatementsRunWithTheirParameters == Spec => []KeptParametersRun
<1>1. Init => RunInv
  <2>1. ASSUME Init PROVE KeptParametersRun
    BY <2>1 DEF Init, KeptParametersRun, RunsWithItsParameters
  <2>2. ASSUME Init PROVE Enough
    <3>1. rows[Params] = NewRow(FreshLayout)
      BY <2>2, RowsAssumption DEF Init
    <3>2. FreshLayout \in [1..Width -> Decls]
      BY DEF FreshLayout, Decls
    <3>3. FreshLayout \in Seq(Decls) /\ Len(FreshLayout) = Width
      BY <3>2, MakeSeq, RowsAssumption
    <3>4. Len(rows[Params]) = Width
      BY <3>1, <3>3, NewRowGood
    <3> QED
      BY <3>4, RowsAssumption DEF Enough
  <2> QED
    BY <2>1, <2>2, InitGood DEF RunInv
<1>2. RunInv /\ [Next]_vars => RunInv'
  <2>1. ASSUME RunInv, UNCHANGED vars PROVE RunInv'
    BY <2>1 DEF RunInv, RowsInv, Good, Enough, KeptParametersRun, RunsWithItsParameters, vars
  <2> QED
    BY <2>1, RunSteps
<1>3. RunInv => KeptParametersRun
  BY DEF RunInv
<1> QED
  BY <1>1, <1>2, <1>3, PTL DEF Spec

\* An assignment that refuses, of a cell or of a row, changes nothing.
THEOREM RefusalsChangeNothing == Spec => RefusedAssignmentChangesNothing
<1> DEFINE Harmless == last'.op \in {"cell", "copy", "move"} /\ last'.result = "mismatch"
                          => UNCHANGED rows
<1>1. ASSUME Next PROVE Harmless
  <2>1. ASSUME NEW r \in Rows, NEW i \in 1..Len(rows[r]), NEW x \in Given, Give(r, i, x) PROVE Harmless
    BY <2>1 DEF Give, Returns
  <2>2. ASSUME NEW r \in Rows, NEW i \in 1..Len(rows[r]), NEW s \in Rows, NEW j \in 1..Len(rows[s]),
               CopyCell(r, i, s, j)
        PROVE  Harmless
    BY <2>2 DEF CopyCell, Returns
  <2>3. ASSUME NEW r \in Rows, NEW i \in 1..Len(rows[r]), NEW s \in Rows, NEW j \in 1..Len(rows[s]),
               MoveCell(r, i, s, j)
        PROVE  Harmless
    BY <2>3 DEF MoveCell, Returns
  <2>4. ASSUME NEW r \in Rows, NEW i \in 1..Len(rows[r]), ClearCell(r, i) PROVE Harmless
    BY <2>4 DEF ClearCell, Returns
  <2>5. ASSUME NEW r \in Rows, NEW layout \in Layouts, Construct(r, layout) PROVE Harmless
    BY <2>5 DEF Construct, Returns
  <2>6. ASSUME NEW r \in Rows, NEW s \in Rows, CopyConstruct(r, s) PROVE Harmless
    BY <2>6 DEF CopyConstruct, Returns
  <2>7. ASSUME NEW r \in Rows, NEW s \in Rows, MoveConstruct(r, s) PROVE Harmless
    BY <2>7 DEF MoveConstruct, Returns
  <2>8. ASSUME NEW r \in Rows, NEW s \in Rows, CopyRow(r, s) PROVE Harmless
    BY <2>8 DEF CopyRow, Returns
  <2>9. ASSUME NEW r \in Rows, NEW s \in Rows, CopyRowFails(r, s) PROVE Harmless
    BY <2>9 DEF CopyRowFails, Returns
  <2>10. ASSUME NEW r \in Rows, NEW s \in Rows, MoveRow(r, s) PROVE Harmless
    BY <2>10 DEF MoveRow, Returns
  <2>11. ASSUME NEW r \in Rows, NEW s \in Rows, SwapRows(r, s) PROVE Harmless
    BY <2>11 DEF SwapRows, Returns
  <2>12. ASSUME NEW r \in Rows, MoveRowToItself(r) PROVE Harmless
    BY <2>12 DEF MoveRowToItself, Returns
  <2>13. ASSUME NEW s \in Rows, SetParameters(s) PROVE Harmless
    BY <2>13 DEF SetParameters, Returns
  <2>14. ASSUME NEW s \in Rows, NEW moved \in BOOLEAN, ResetParameters(s, moved) PROVE Harmless
    BY <2>14 DEF ResetParameters, Returns
  <2>15. ASSUME NEW s \in Rows \cup {NoRow}, ExecuteRefused(s) PROVE Harmless
    BY <2>15 DEF ExecuteRefused, Returns
  <2>16. ASSUME NEW s \in Rows \cup {NoRow}, Execute(s) PROVE Harmless
    BY <2>16 DEF Execute, Returns
  <2> HIDE DEF Harmless
  <2>17. CASE CellNext
    BY <2>17, <2>1, <2>2, <2>3, <2>4 DEF CellNext
  <2>18. CASE RowNext
    BY <2>18, <2>5, <2>6, <2>7, <2>8, <2>9, <2>10, <2>11, <2>12 DEF RowNext
  <2>19. CASE ParameterNext
    BY <2>19, <2>13, <2>14, <2>15, <2>16 DEF ParameterNext
  <2> QED
    BY <1>1, <2>17, <2>18, <2>19 DEF Next
<1>2. [Next]_vars => [Harmless]_vars
  BY <1>1 DEF vars
<1> QED
  BY <1>2, PTL DEF Spec, RefusedAssignmentChangesNothing
=============================================================================
