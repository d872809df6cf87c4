------------------------------- MODULE Writes --------------------------------
(***************************************************************************)
(* What a program writes under its transaction guards: Database::execute   *)
(* (src/src/sl3/database.cpp) in the company of module Transactions.       *)
(*                                                                         *)
(* Nothing in libsl3 ties a statement to a guard: execute runs on the      *)
(* connection, in whatever transaction sqlite has there, or in none.       *)
(***************************************************************************)
EXTENDS Transactions, FiniteSets

CONSTANT MaxWrites   \* bound on the different writes

ASSUME WritesAssumption == MaxWrites \in Nat

\* Per write, the transactions of the guards that pointed to its Database, and the
\* one of sqlite that it was made in.
VARIABLE writes

writeVars == <<allVars, writes>>

GuardsOver(d) == {g \in guards : txDb[g] = d}

Write(d) == [under |-> {begun[g] : g \in GuardsOver(d)}, inside |-> tx[ConnOf(d)]]

\* execute(sql), where sql is none of BEGIN, COMMIT and ROLLBACK.  It may throw with
\* some of its statements executed, which stay as they are.
RunScript(d) ==
    /\ Running
    /\ dbConn[d] # NoConn /\ sl3db[ConnOf(d)] = "open"
    /\ \E res \in {"ok", "SQLite3Error"} : Queried(res)
    /\ writes' = writes \cup {Write(d)}
    /\ Cardinality(writes') <= MaxWrites
    /\ UNCHANGED <<guardVars, txVars, endVars>>

RunScriptRefused(d) ==
    /\ Running
    /\ dbConn[d] # NoConn /\ sl3db[ConnOf(d)] # "open"
    /\ Queried("ErrNoConnection")
    /\ UNCHANGED <<writes, guardVars, txVars, endVars>>

WritesInit == TxInit /\ writes = {}

WritesNext ==
    \/ TxNext /\ UNCHANGED writes
    \/ \E d \in Databases : RunScript(d) \/ RunScriptRefused(d)

WritesSpec == WritesInit /\ [][WritesNext]_writeVars

-----------------------------------------------------------------------------
(* Properties.                                                             *)

Durable(w) == w.inside = 0 \/ fate[w.inside] = "committed"

\* A write made under a guard is kept when that guard's commit() has returned and not
\* otherwise, and any other is kept at once, unless a transaction or Database is taken
\* from under a guard (database.hpp, Transaction).
WritesFollowTheirGuard ==
    ~breached => \A w \in writes : Durable(w) <=> w.under \subseteq promised
=============================================================================
