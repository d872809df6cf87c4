-------------------------------- MODULE Cells --------------------------------
(***************************************************************************)
(* When a cell or a row may be assigned to another, and what is assigned   *)
(* then (src/src/sl3/dbvalue.cpp, src/src/sl3/dbvalues.cpp).  A cell has a *)
(* declared type and a value, which has the type it has at the moment; a   *)
(* row is a sequence of cells.                                             *)
(***************************************************************************)
EXTENDS Integers, Sequences

Heavy == {"Text", "Blob"}
Types == {"Int", "Real"} \cup Heavy
Decls == Types \cup {"Variant"}

\* Bug: a Variant may be assigned to anything.
CanAssignBug(c, d) == "Variant" \in {c.decl, d.decl} \/ d.decl = c.decl

\* The declared type of a source that is no Variant counts even when it is null.
CanAssign(c, d) ==
    \/ c.decl = "Variant"
    \/ d.decl = "Variant" /\ d.val.type \in {c.decl, "Null"}
    \/ d.decl # "Variant" /\ d.decl = c.decl

Assigned(c, d) == [c EXCEPT !.val = d.val]

LayoutOf(s) == [i \in 1..Len(s) |-> s[i].decl]

Compatible(s, t) == Len(s) = Len(t) /\ \A i \in 1..Len(s) : CanAssign(s[i], t[i])

RowAssigned(s, t) == [i \in 1..Len(s) |-> Assigned(s[i], t[i])]

\* A value is null or of the declared type of its cell, unless that is Variant.
ValueFits(c) == c.decl = "Variant" \/ c.val.type \in {c.decl, "Null"}
=============================================================================
