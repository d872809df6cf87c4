--------------------------- MODULE MCTransactions ----------------------------
(***************************************************************************)
(* Small instance of Transactions for TLC; no Command is in play.          *)
(***************************************************************************)
EXTENDS Writes, TLC

MCParamCount == [q \in Sql |-> 0]

\* Slots and addresses are interchangeable.
Symmetry == Permutations(Databases) \cup Permutations(Connections) \cup Permutations(Guards)
=============================================================================
