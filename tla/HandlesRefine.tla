---------------------------- MODULE HandlesRefine ----------------------------
(***************************************************************************)
(* The handles of libsl3 implement the leases a user of the library sees.  *)
(* Forgotten are the sqlite3 statements and their addresses, the slots of  *)
(* Databases, and which of the shared_ptrs keep a Connection alive.        *)
(***************************************************************************)
EXTENDS Handles

\* The refinement mapping: the sessions that are open ...
OpenSessions == {k \in Connections : sl3db[k] = "open"}

\* ... and what the last call said, if it was one to run a Command.
LastAnswer == IF outcome.op = "execute"
                THEN [by |-> outcome.by, res |-> outcome.res]
                ELSE [by |-> NoCommand, res |-> "ok"]

L == INSTANCE Leases WITH
        Sessions  <- Connections,
        NoSession <- NoConn,
        open      <- OpenSessions,
        leaseOn   <- cmdConn,
        text      <- cmdSql,
        answer    <- LastAnswer

\* A Command runs exactly its own SQL on the session it was prepared on while
\* that is open, and throws ErrNoConnection from then on (Command::execute with
\* Connection::close, ~Command and the move constructors in between).
ImplementsLeases == L!Spec
=============================================================================
