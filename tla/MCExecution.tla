----------------------------- MODULE MCExecution -----------------------------
(***************************************************************************)
(* Small instance of Execution for TLC.                                    *)
(***************************************************************************)
EXTENDS Execution, TLC

CONSTANTS plain, para

MCSql == {plain, para}
MCBlank == {}
MCParamCount == [q \in Sql |-> IF q = para THEN 1 ELSE 0]
MCRowCount == [q \in Sql |-> 2]

\* Slots and addresses are interchangeable; used where no liveness is checked.
Symmetry == Permutations(Commands) \cup Permutations(Connections) \cup Permutations(Stmts)
=============================================================================
