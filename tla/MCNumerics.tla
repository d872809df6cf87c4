------------------------------ MODULE MCNumerics -----------------------------
(***************************************************************************)
(* A small instance of Numerics for TLC.                                   *)
(***************************************************************************)
EXTENDS Numerics, MCNumbers, TLC

\* On both sides of every limit: of int, of what a double has exactly, of int64_t.
MCGiven ==
    {Int64(n) : n \in {-16, -4, 3, 4, 7, 8, 9, 11, 15}}
    \cup {Real(x) : x \in {NaN, Inf, -80, -64, 4, 5, 12, 32, 64}}
    \cup {Null, [type |-> "Text", data |-> 0], [type |-> "Blob", data |-> 0]}

Symmetry == Permutations(Slots)
=============================================================================
