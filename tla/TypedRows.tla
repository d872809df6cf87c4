------------------------------ MODULE TypedRows ------------------------------
(***************************************************************************)
(* Values with a declared type (src/src/sl3/dbvalue.cpp), rows of them     *)
(* (src/src/sl3/dbvalues.cpp), and the row of parameters inside a Command  *)
(* on its way to sqlite (src/src/sl3/command.cpp).                         *)
(*                                                                         *)
(* Every assignment to a single cell is guarded by the declared type of    *)
(* the cell.  Rows are assigned cell by cell, but moved, swapped and reset *)
(* as a whole, and then the declared types travel with the values.         *)
(* What happens inside one value is the subject of module Values.          *)
(* Operators named ...Bug are mistakes the properties must catch; nothing  *)
(* else uses them.                                                         *)
(***************************************************************************)
EXTENDS Cells

CONSTANTS
    Rows,          \* the DbValues objects of a program
    Params,        \* the one among them that is the parameters of a Command
    NoRow,         \* "no row"
    Width,         \* how many parameters the Command's SQL has
    Layouts,       \* the lists of declared types the program makes rows with
    Kinds,         \* of which types the program assigns plain values
    Data,          \* payloads
    Junk,          \* the content of a null, or of a value half assigned
    AllocMayFail   \* assigning a string or a blob may throw std::bad_alloc

ASSUME RowsAssumption ==
    /\ Params \in Rows
    /\ NoRow \notin Rows
    /\ Width \in Nat
    /\ Layouts \subseteq Seq(Decls)
    /\ Junk \notin Data
    /\ Kinds \subseteq Types \cup {"int"}
    /\ AllocMayFail \in BOOLEAN

VARIABLES
    rows,        \* per DbValues object: its cells
    bound,       \* sqlite: the value last bound to each parameter of the statement
    last,        \* the last call and how it ended
    displaced    \* history: the parameters have been moved away or swapped

vars == <<rows, bound, last, displaced>>

Content == [type : Types \cup {"Null"}, data : Data \cup {Junk}]
Cell    == [decl : Decls, val : Content]

NullContent == [type |-> "Null", data |-> Junk]

\* What user code assigns: an int, an int64_t, a double, a string, a blob, or a
\* Value, which may also be null.
Given == {NullContent} \cup [type : Kinds, data : Data]

Calls == {"start", "new", "cell", "clear", "copy", "move", "swap", "set", "reset", "execute"}

TypedTypeOK ==
    /\ rows \in [Rows -> Seq(Cell)]
    /\ bound \in [1..Width -> Content]
    /\ last \in [op : Calls, result : {"ok", "mismatch", "range", "bad_alloc"}]
    /\ displaced \in BOOLEAN

-----------------------------------------------------------------------------
(* Cells.                                                                  *)

NewCell(t) == [decl |-> t, val |-> NullContent]

\* set and the assignments of plain values: an int also fits a Real, as a double.
Stored(c, x) ==
    IF x.type = "int"
      THEN [x EXCEPT !.type = IF c.decl = "Real" THEN "Real" ELSE "Int"]
      ELSE x

Accepts(c, x) == c.decl \in {Stored(c, x).type, "Variant"}

\* The copy of d's string or blob throws; between equal types nothing happens,
\* otherwise the old value is gone and only the new tag is there.
HalfAssigned(c, d) ==
    IF c.val.type = d.val.type THEN c
    ELSE [c EXCEPT !.val = [type |-> d.val.type, data |-> Junk]]

-----------------------------------------------------------------------------
(* Rows.                                                                   *)

NewRow(layout) == [i \in 1..Len(layout) |-> NewCell(layout[i])]

\* Memory runs out at cell k.
RowTorn(s, t, k) ==
    [i \in 1..Len(s) |-> CASE i < k -> Assigned(s[i], t[i])
                           [] i = k -> HalfAssigned(s[i], t[i])
                           [] OTHER -> s[i]]

\* setParameters assigns until the first cell refuses.
PrefixAssignedBug(s, t) ==   \* Bug: takes the declared types along
    [i \in 1..Len(s) |-> IF \A j \in 1..i : CanAssign(s[j], t[j]) THEN t[i] ELSE s[i]]
PrefixAssigned(s, t) ==
    [i \in 1..Len(s) |-> IF \A j \in 1..i : CanAssign(s[j], t[j])
                           THEN Assigned(s[i], t[i]) ELSE s[i]]

\* bind: as many parameters as the row has cells, the others keep what was bound.
BoundTo(s) == [i \in 1..Width |-> IF i <= Len(s) THEN s[i].val ELSE bound[i]]

-----------------------------------------------------------------------------
(* The operations on cells.                                                *)

\* No value is half assigned: what a program does with such a value is undefined.
Defined == \A r \in Rows : \A i \in 1..Len(rows[r]) :
              rows[r][i].val.type \in Heavy => rows[r][i].val.data # Junk

Returns(op, result) == last' = [op |-> op, result |-> result]

\* The vectors of the rows in S have gone elsewhere.
Displaces(S) == displaced' = (displaced \/ Params \in S)

\* cell = x, cell.set(x).
Give(r, i, x) ==
    /\ Defined
    /\ IF Accepts(rows[r][i], x)
         THEN /\ rows' = [rows EXCEPT ![r][i].val = Stored(rows[r][i], x)]
              /\ Returns("cell", "ok")
         ELSE /\ UNCHANGED rows
              /\ Returns("cell", "mismatch")
    /\ UNCHANGED <<bound, displaced>>

\* operator=(const DbValue&).
CopyCell(r, i, s, j) ==
    /\ Defined
    /\ IF CanAssign(rows[r][i], rows[s][j])
         THEN /\ rows' = [rows EXCEPT ![r][i] = Assigned(@, rows[s][j])]
              /\ Returns("cell", "ok")
         ELSE /\ UNCHANGED rows
              /\ Returns("cell", "mismatch")
    /\ UNCHANGED <<bound, displaced>>

\* operator=(DbValue&&); a cell moved to itself is null afterwards.
MoveCell(r, i, s, j) ==
    /\ Defined
    /\ IF CanAssign(rows[r][i], rows[s][j])
         THEN /\ rows' = [rows EXCEPT ![r][i] = Assigned(@, rows[s][j]),
                                      ![s][j].val = NullContent]
              /\ Returns("cell", "ok")
         ELSE /\ UNCHANGED rows
              /\ Returns("cell", "mismatch")
    /\ UNCHANGED <<bound, displaced>>

\* setNull, and ejectText and ejectBlob of what they ask for.
ClearCell(r, i) ==
    /\ Defined
    /\ rows' = [rows EXCEPT ![r][i].val = NullContent]
    /\ Returns("clear", "ok")
    /\ UNCHANGED <<bound, displaced>>

-----------------------------------------------------------------------------
(* The operations on rows.                                                 *)

\* A new row takes the place of an old one of the program's.
Construct(r, layout) ==
    /\ Defined /\ r # Params
    /\ rows' = [rows EXCEPT ![r] = NewRow(layout)]
    /\ Returns("new", "ok")
    /\ UNCHANGED <<bound, displaced>>

CopyConstruct(r, s) ==
    /\ Defined /\ r # Params /\ r # s
    /\ rows' = [rows EXCEPT ![r] = rows[s]]
    /\ Returns("new", "ok")
    /\ UNCHANGED <<bound, displaced>>

MoveConstruct(r, s) ==
    /\ Defined /\ r # Params /\ r # s
    /\ rows' = [rows EXCEPT ![r] = rows[s], ![s] = <<>>]
    /\ Returns("new", "ok") /\ Displaces({s})
    /\ UNCHANGED bound

\* operator=(const DbValues&): all checks first.
CopyRow(r, s) ==
    /\ Defined
    /\ IF Compatible(rows[r], rows[s])
         THEN /\ rows' = [rows EXCEPT ![r] = RowAssigned(@, rows[s])]
              /\ Returns("copy", "ok")
         ELSE /\ UNCHANGED rows
              /\ Returns("copy", "mismatch")
    /\ UNCHANGED <<bound, displaced>>

CopyRowFails(r, s) ==
    /\ Defined /\ AllocMayFail /\ r # s
    /\ Compatible(rows[r], rows[s])
    /\ \E k \in 1..Len(rows[s]) :
          /\ rows[s][k].val.type \in Heavy
          /\ rows' = [rows EXCEPT ![r] = RowTorn(@, rows[s], k)]
    /\ Returns("copy", "bad_alloc")
    /\ UNCHANGED <<bound, displaced>>

\* Bug: the source is emptied before the check refuses.
MoveRowBug(r, s) ==
    /\ Defined /\ r # s
    /\ IF rows[r] = <<>> \/ Compatible(rows[r], rows[s])
         THEN /\ rows' = [rows EXCEPT ![r] = rows[s], ![s] = <<>>]
              /\ Returns("move", "ok") /\ Displaces({s})
         ELSE /\ rows' = [rows EXCEPT ![s] = <<>>]
              /\ Returns("move", "mismatch") /\ Displaces({})
    /\ UNCHANGED bound

\* operator=(DbValues&&): the cells change hands together with their declared
\* types.
MoveRow(r, s) ==
    /\ Defined /\ r # s
    /\ IF rows[r] = <<>> \/ Compatible(rows[r], rows[s])
         THEN /\ rows' = [rows EXCEPT ![r] = rows[s], ![s] = <<>>]
              /\ Returns("move", "ok") /\ Displaces({s})
         ELSE /\ UNCHANGED rows
              /\ Returns("move", "mismatch") /\ Displaces({})
    /\ UNCHANGED bound

\* A std::vector moved to itself is empty or what it was, as its library likes.
MoveRowToItself(r) ==
    /\ Defined
    /\ \E s \in {rows[r], <<>>} : rows' = [rows EXCEPT ![r] = s]
    /\ Returns("move", "ok") /\ Displaces({r})
    /\ UNCHANGED bound

SwapRows(r, s) ==
    /\ Defined
    /\ rows' = [rows EXCEPT ![r] = rows[s], ![s] = rows[r]]
    /\ Returns("swap", "ok") /\ Displaces({r, s})
    /\ UNCHANGED bound

-----------------------------------------------------------------------------
(* The parameters of the Command.                                          *)

\* setParameters.
SetParameters(s) ==
    /\ Defined
    /\ rows' = IF Len(rows[s]) = Len(rows[Params])
                 THEN [rows EXCEPT ![Params] = PrefixAssigned(@, rows[s])] ELSE rows
    /\ Returns("set", IF Compatible(rows[Params], rows[s]) THEN "ok" ELSE "mismatch")
    /\ UNCHANGED <<bound, displaced>>

\* resetParameters takes its argument by value: a copy, or s itself moved there,
\* which is gone also when the size is refused.
ResetParameters(s, moved) ==
    /\ Defined /\ Displaces(IF moved THEN {s} ELSE {})
    /\ IF Len(rows[s]) = (IF moved /\ s = Params THEN 0 ELSE Len(rows[Params]))
         THEN /\ rows' = [rows EXCEPT ![s] = IF moved THEN <<>> ELSE @, ![Params] = rows[s]]
              /\ Returns("reset", "ok")
         ELSE /\ rows' = [rows EXCEPT ![s] = IF moved THEN <<>> ELSE @]
              /\ Returns("reset", "mismatch")
    /\ UNCHANGED bound

\* execute: an empty argument keeps the parameters that are there.
Argument(s) == IF s = NoRow THEN <<>> ELSE rows[s]

ExecuteRefused(s) ==
    /\ Defined
    /\ Argument(s) # <<>> /\ ~Compatible(rows[Params], Argument(s))
    /\ rows' = IF Len(Argument(s)) = Len(rows[Params])
                 THEN [rows EXCEPT ![Params] = PrefixAssigned(@, Argument(s))] ELSE rows
    /\ Returns("execute", "mismatch")
    /\ UNCHANGED <<bound, displaced>>

\* Bug: bound before the given parameters are set.
ExecuteBug(s) ==
    /\ Defined
    /\ Argument(s) = <<>> \/ Compatible(rows[Params], Argument(s))
    /\ rows' = IF Argument(s) = <<>> THEN rows
               ELSE [rows EXCEPT ![Params] = RowAssigned(@, Argument(s))]
    /\ bound' = BoundTo(rows[Params])
    /\ Returns("execute", "ok") /\ UNCHANGED displaced

\* The parameters are bound one after the other; sqlite refuses the first that
\* the statement does not have.
Execute(s) ==
    /\ Defined
    /\ Argument(s) = <<>> \/ Compatible(rows[Params], Argument(s))
    /\ rows' = IF Argument(s) = <<>> THEN rows
               ELSE [rows EXCEPT ![Params] = RowAssigned(@, Argument(s))]
    /\ bound' = BoundTo(rows'[Params])
    /\ Returns("execute", IF Len(rows[Params]) > Width THEN "range" ELSE "ok")
    /\ UNCHANGED displaced

-----------------------------------------------------------------------------
(* The specification.                                                      *)

\* createParameters: the parameters start as Variants that are null.
FreshLayout == [i \in 1..Width |-> "Variant"]

Init ==
    /\ rows = [r \in Rows |-> IF r = Params THEN NewRow(FreshLayout) ELSE <<>>]
    /\ bound = [i \in 1..Width |-> NullContent]
    /\ last = [op |-> "start", result |-> "ok"]
    /\ displaced = FALSE

CellNext ==
    \E r \in Rows : \E i \in 1..Len(rows[r]) :
        \/ \E x \in Given : Give(r, i, x)
        \/ \E s \in Rows : \E j \in 1..Len(rows[s]) : CopyCell(r, i, s, j) \/ MoveCell(r, i, s, j)
        \/ ClearCell(r, i)

RowNext ==
    \E r \in Rows :
        \/ \E layout \in Layouts : Construct(r, layout)
        \/ \E s \in Rows :
              \/ CopyConstruct(r, s) \/ MoveConstruct(r, s)
              \/ CopyRow(r, s) \/ CopyRowFails(r, s)
              \/ MoveRow(r, s) \/ SwapRows(r, s)
        \/ MoveRowToItself(r)

ParameterNext ==
    \/ \E s \in Rows : SetParameters(s) \/ \E moved \in BOOLEAN : ResetParameters(s, moved)
    \/ \E s \in Rows \cup {NoRow} : ExecuteRefused(s) \/ Execute(s)

Next == CellNext \/ RowNext \/ ParameterNext

Spec == Init /\ [][Next]_vars

-----------------------------------------------------------------------------
(* Properties.                                                             *)

\* A value is null or of its declared type, unless that is Variant, whatever is
\* assigned, moved, swapped or half assigned (dbvalue.hpp, class DbValue).
TypeGuarantee ==
    \A r \in Rows : \A i \in 1..Len(rows[r]) :
        ValueFits(rows[r][i])

\* The declared types of a row are always those some row was made with: they
\* travel as a whole or not at all, and no failure in the middle mixes two rows'.
LayoutsStayWhole ==
    \A r \in Rows : LayoutOf(rows[r]) \in Layouts \cup {<<>>, FreshLayout}

\* An assignment that is refused, of a cell or of a row, leaves both operands, and
\* everything else, as they were (dbvalues.cpp, operator=).
RefusedAssignmentChangesNothing ==
    [][last'.op \in {"cell", "copy", "move"} /\ last'.result = "mismatch" => UNCHANGED rows]_vars

\* A statement runs with the values its Command's parameters show, and with no
\* value of an earlier call (command.hpp, execute).
RunsWithItsParameters ==
    last.op = "execute" /\ last.result = "ok" =>
        \A i \in 1..Width :
            bound[i] = IF i <= Len(rows[Params]) THEN rows[Params][i].val ELSE NullContent

\* It does, until the parameters are moved away or swapped.
KeptParametersRun == ~displaced => RunsWithItsParameters
=============================================================================
