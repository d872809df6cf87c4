------------------------------ MODULE MCValues -------------------------------
(***************************************************************************)
(* Small instance of Values for TLC.                                       *)
(***************************************************************************)
EXTENDS Values, TLC

\* Slots and payloads are interchangeable.
Symmetry == Permutations(Slots) \cup Permutations(Data)
=============================================================================
