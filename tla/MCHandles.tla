------------------------------ MODULE MCHandles ------------------------------
(***************************************************************************)
(* Small instance of Handles for TLC.                                      *)
(***************************************************************************)
EXTENDS HandlesRefine, TLC

CONSTANTS plain, para, blank

MCSql == {plain, para, blank}
MCBlank == {blank}
MCParamCount == [q \in MCSql |-> IF q = para THEN 1 ELSE 0]

\* Slots and addresses are interchangeable; the three SQL texts are not.
Symmetry == Permutations(Databases) \cup Permutations(Commands)
              \cup Permutations(Connections) \cup Permutations(Stmts)
=============================================================================
