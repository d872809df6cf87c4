------------------------------- MODULE Handles -------------------------------
(***************************************************************************)
(* Who owns which sqlite3 handle: internal::Connection, Database and       *)
(* Command of libsl3 (src/src/sl3/connection.hpp, database.cpp and         *)
(* command.cpp).  A Database and the Commands prepared from it share one   *)
(* internal::Connection object through a shared_ptr; the Connection holds  *)
(* the sqlite3* and a Command holds a bare sqlite3_stmt*.                  *)
(*                                                                         *)
(* Objects live in slots: an element of Databases or Commands is a piece   *)
(* of storage in which an object is constructed, moved from and destroyed, *)
(* over and over.  An element of Connections or Stmts is a heap address,   *)
(* and is handed out again once it has been freed.                         *)
(***************************************************************************)
EXTENDS Naturals

CONSTANTS
    Databases,    \* storage for sl3::Database objects
    Commands,     \* storage for sl3::Command objects
    Connections,  \* addresses of internal::Connection objects
    Stmts,        \* addresses of sqlite3_stmt objects
    Sql,          \* the SQL texts programs prepare
    Blank,        \* those with no statement in them: sqlite compiles them to NULL
    ParamCount,   \* sqlite3_bind_parameter_count of each of them
    MaxGiven,     \* bound: most parameters a caller passes to prepare
    NoConn,       \* the null shared_ptr<internal::Connection>
    NoStmt,       \* the null sqlite3_stmt*
    NoSql,        \* "no SQL": nothing is compiled or prepared there
    NoCommand     \* "no Command": the call was one on a Database

\* What a call can come back with besides the SQL it ran.
Answers == {"ok", "ErrNoConnection", "ErrTypeMisMatch", "SQLite3Error", "undefined"}

ASSUME HandlesAssumption ==
    /\ NoConn \notin Connections
    /\ NoStmt \notin Stmts
    /\ NoCommand \notin Commands
    /\ Blank \subseteq Sql
    /\ ParamCount \in [Sql -> Nat]
    /\ \A q \in Blank : ParamCount[q] = 0
    /\ MaxGiven \in Nat
    /\ (Sql \cup {NoSql}) \cap Answers = {}
    /\ NoSql \notin Sql

VARIABLES
    dbConn,    \* Database::_connection per slot, NoConn where no Database lives
    sl3db,     \* Connection::sl3db per address: "open", "null", or "free" storage
    stmtConn,  \* sqlite: the connection a statement belongs to, NoConn if finalized
    stmtSql,   \* sqlite: the SQL of the statement at this address
    made,      \* the Command slots that hold a constructed object
    cmdConn,   \* Command::_connection, NoConn in a moved-from object
    cmdStmt,   \* Command::_stmt
    cmdSql,    \* history: the SQL the object in this slot was prepared from
    outcome    \* the last call: [op, by, res]

connVars == <<dbConn, sl3db>>
stmtVars == <<stmtConn, stmtSql>>
cmdVars  == <<made, cmdConn, cmdStmt, cmdSql>>
vars     == <<dbConn, sl3db, stmtConn, stmtSql, made, cmdConn, cmdStmt, cmdSql, outcome>>

Ops == {"start", "open", "move", "close", "prepare", "query", "execute", "names", "release"}

Types ==
    /\ dbConn   \in [Databases -> Connections \cup {NoConn}]
    /\ sl3db    \in [Connections -> {"free", "open", "null"}]
    /\ stmtConn \in [Stmts -> Connections \cup {NoConn}]
    /\ stmtSql  \in [Stmts -> Sql \cup {NoSql}]
    /\ made     \in SUBSET Commands
    /\ cmdConn  \in [Commands -> Connections \cup {NoConn}]
    /\ cmdStmt  \in [Commands -> Stmts \cup {NoStmt}]
    /\ cmdSql   \in [Commands -> Sql \cup {NoSql}]
    /\ outcome  \in [op : Ops, by : Commands \cup {NoCommand}, res : Answers \cup Sql \cup {NoSql}]

\* An empty slot and a moved-from Command hold no connection and no statement.
Slots ==
    \A c \in Commands :
        /\ c \notin made => cmdConn[c] = NoConn
        /\ cmdConn[c] = NoConn => cmdStmt[c] = NoStmt

\* Every variable has its type, and objects that are gone or moved from hold no
\* pointer that a destructor or a later call could use (command.cpp, move
\* constructor and destructor).
TypeOK == Types /\ Slots

-----------------------------------------------------------------------------
(* Shared ownership of the Connection.  Operators named ...Bug are mistakes *)
(* the properties must catch; nothing else uses them.                       *)

\* Some Database or Command holds a shared_ptr to connection k.
Referenced(k, dc, cc) ==
    \/ \E d \in Databases : dc[d] = k
    \/ \E c \in Commands : cc[c] = k

\* Bug: only Databases count as owners, Commands keep a plain pointer.
ReleaseBug(dc, cc, db, sc) ==
    /\ dbConn' = dc
    /\ cmdConn' = cc
    /\ sl3db' = [k \in Connections |-> IF \E d \in Databases : dc[d] = k THEN db[k] ELSE "free"]
    /\ stmtConn' = [s \in Stmts |-> IF \E d \in Databases : dc[d] = sc[s] THEN sc[s] ELSE NoConn]
    /\ stmtSql' = [s \in Stmts |-> IF stmtConn'[s] = NoConn THEN NoSql ELSE stmtSql[s]]

\* The shared_ptrs become dc and cc, after the call left the connections in
\* state db and the statements on connections sc.  A Connection nobody points
\* to any more is destroyed, and ~Connection closes what is still open.
Release(dc, cc, db, sc) ==
    /\ dbConn' = dc
    /\ cmdConn' = cc
    /\ sl3db' = [k \in Connections |-> IF Referenced(k, dc, cc) THEN db[k] ELSE "free"]
    /\ stmtConn' = [s \in Stmts |->
                      IF sc[s] # NoConn /\ ~Referenced(sc[s], dc, cc) THEN NoConn ELSE sc[s]]
    /\ stmtSql' = [s \in Stmts |-> IF stmtConn'[s] = NoConn THEN NoSql ELSE stmtSql[s]]

\* Connection::close on k: every statement of the connection is finalized, then
\* the sqlite3 handle is closed and forgotten.  A closed connection stays so.
CloseDbBug(k) == sl3db   \* Bug: sl3db is not set to nullptr
CloseStmtsBug(k) == stmtConn   \* Bug: no loop over sqlite3_next_stmt
CloseDb(k) == [sl3db EXCEPT ![k] = "null"]
CloseStmts(k) ==
    [s \in Stmts |-> IF sl3db[k] = "open" /\ stmtConn[s] = k THEN NoConn ELSE stmtConn[s]]

Returns(op, c, res) == outcome' = [op |-> op, by |-> c, res |-> res]

-----------------------------------------------------------------------------
(* Database.                                                               *)

\* Database::Database: opendb throws, or a Connection is made for the handle.
OpenDatabase(d, k) ==
    /\ dbConn[d] = NoConn
    /\ sl3db[k] = "free"
    /\ dbConn' = [dbConn EXCEPT ![d] = k]
    /\ sl3db' = [sl3db EXCEPT ![k] = "open"]
    /\ Returns("open", NoCommand, "ok")
    /\ UNCHANGED <<stmtVars, cmdVars>>

OpenFails(d) ==
    /\ dbConn[d] = NoConn
    /\ Returns("open", NoCommand, "SQLite3Error")
    /\ UNCHANGED <<connVars, stmtVars, cmdVars>>

\* Bug: the connection is shared with the moved-from Database.
MoveDatabaseBug(d, e, k) ==
    /\ dbConn[d] # NoConn /\ dbConn[e] = NoConn
    /\ dbConn' = [dbConn EXCEPT ![e] = dbConn[d]]
    /\ Returns("move", NoCommand, "ok")
    /\ UNCHANGED <<sl3db, stmtVars, cmdVars>>

\* Database(Database&&): the connection moves from slot d to slot e, and d keeps
\* a new Connection that was never open.
MoveDatabase(d, e, k) ==
    /\ dbConn[d] # NoConn
    /\ dbConn[e] = NoConn
    /\ sl3db[k] = "free"
    /\ dbConn' = [dbConn EXCEPT ![e] = dbConn[d], ![d] = k]
    /\ sl3db' = [sl3db EXCEPT ![k] = "null"]
    /\ Returns("move", NoCommand, "ok")
    /\ UNCHANGED <<stmtVars, cmdVars>>

\* ~Database: close the connection, then let go of it.
CloseDatabase(d) ==
    /\ dbConn[d] # NoConn
    /\ Release([dbConn EXCEPT ![d] = NoConn], cmdConn,
               CloseDb(dbConn[d]), CloseStmts(dbConn[d]))
    /\ Returns("close", NoCommand, "ok")
    /\ UNCHANGED <<made, cmdStmt, cmdSql>>

\* Database::execute, select and selectValue, and the getters on the handle: all
\* end where they began (a temporary Command is destroyed again); they run SQL
\* only on a valid connection.
QueryDatabase(d) ==
    /\ dbConn[d] # NoConn
    /\ IF sl3db[dbConn[d]] = "open"
         THEN \E res \in {"ok", "SQLite3Error"} : Returns("query", NoCommand, res)
         ELSE Returns("query", NoCommand, "ErrNoConnection")
    /\ UNCHANGED <<connVars, stmtVars, cmdVars>>

-----------------------------------------------------------------------------
(* Command.                                                                *)

\* createStmt on connection k with text q yields the statement address s: a new
\* statement of sqlite, or NULL for a text that holds none.
Compiles(k, q, s) ==
    /\ sl3db[k] = "open"
    /\ \/ /\ q \in Blank
          /\ s = NoStmt
          /\ UNCHANGED stmtVars
       \/ /\ q \notin Blank
          /\ s # NoStmt
          /\ stmtConn[s] = NoConn
          /\ stmtConn' = [stmtConn EXCEPT ![s] = k]
          /\ stmtSql' = [stmtSql EXCEPT ![s] = q]

\* The constructors of Command, reached through Database::prepare: the Command
\* shares the connection of d and owns the statement.
Construct(d, c, q, s) ==
    /\ made' = made \cup {c}
    /\ cmdConn' = [cmdConn EXCEPT ![c] = dbConn[d]]
    /\ cmdStmt' = [cmdStmt EXCEPT ![c] = s]
    /\ cmdSql' = [cmdSql EXCEPT ![c] = q]
    /\ Returns("prepare", NoCommand, "ok")

\* Database::prepare(sql): the parameters are deduced from the statement.
Prepare(d, c, q, s) ==
    /\ dbConn[d] # NoConn
    /\ c \notin made
    /\ Compiles(dbConn[d], q, s)
    /\ Construct(d, c, q, s)
    /\ UNCHANGED connVars

\* Database::prepare(sql, parameters): the count is checked in the body of the
\* constructor, when the statement exists already.  A constructor that throws
\* has no destructor call, so the statement stays behind on the connection.
PrepareWith(d, c, q, s, given) ==
    /\ dbConn[d] # NoConn
    /\ c \notin made
    /\ Compiles(dbConn[d], q, s)
    /\ IF given = ParamCount[q]
         THEN Construct(d, c, q, s)
         ELSE /\ Returns("prepare", NoCommand, "ErrTypeMisMatch")
              /\ UNCHANGED cmdVars
    /\ UNCHANGED connVars

\* createStmt throws: no connection, or sqlite rejects the text.
PrepareFails(d) ==
    /\ dbConn[d] # NoConn
    /\ Returns("prepare", NoCommand,
               IF sl3db[dbConn[d]] = "open" THEN "SQLite3Error" ELSE "ErrNoConnection")
    /\ UNCHANGED <<connVars, stmtVars, cmdVars>>

\* Bug: a member-wise copy passes for a move.
MoveCommandCopiesBug(c, e) ==
    /\ c \in made /\ e \notin made
    /\ made' = made \cup {e}
    /\ cmdConn' = [cmdConn EXCEPT ![e] = cmdConn[c]]
    /\ cmdStmt' = [cmdStmt EXCEPT ![e] = cmdStmt[c]]
    /\ cmdSql' = [cmdSql EXCEPT ![e] = cmdSql[c]]
    /\ Returns("move", NoCommand, "ok")
    /\ UNCHANGED <<connVars, stmtVars>>

\* Command(Command&&) from slot c into slot e.
MoveCommand(c, e) ==
    /\ c \in made
    /\ e \notin made
    /\ made' = made \cup {e}
    /\ cmdConn' = [cmdConn EXCEPT ![e] = cmdConn[c], ![c] = NoConn]
    /\ cmdStmt' = [cmdStmt EXCEPT ![e] = cmdStmt[c], ![c] = NoStmt]
    /\ cmdSql' = [cmdSql EXCEPT ![e] = cmdSql[c], ![c] = NoSql]
    /\ Returns("move", NoCommand, "ok")
    /\ UNCHANGED <<connVars, stmtVars>>

\* What a sqlite3 call on the statement pointer of c reaches: SQLITE_MISUSE for
\* NULL, else the SQL of the statement, or undefined behaviour when the pointer
\* is not (any more) a statement of the connection it was prepared on.
Reached(c) == CASE cmdStmt[c] = NoStmt -> "SQLite3Error"
                [] cmdStmt[c] # NoStmt ->
                     IF stmtConn[cmdStmt[c]] = cmdConn[c]
                       THEN stmtSql[cmdStmt[c]] ELSE "undefined"

\* Command::execute and select on an object that has not been moved from.
Execute(c) ==
    /\ c \in made /\ cmdConn[c] # NoConn
    /\ Returns("execute", c,
               IF sl3db[cmdConn[c]] = "open" THEN Reached(c) ELSE "ErrNoConnection")
    /\ UNCHANGED <<connVars, stmtVars, cmdVars>>

\* Command::getParameterNames: asks sqlite once per parameter, with no look at
\* the connection.
GetParameterNames(c) ==
    /\ c \in made /\ cmdConn[c] # NoConn
    /\ Returns("names", c, IF ParamCount[cmdSql[c]] = 0 THEN "ok" ELSE Reached(c))
    /\ UNCHANGED <<connVars, stmtVars, cmdVars>>

\* ~Command: finalize the statement unless the object was moved from or the
\* Database has done it; then let go of the connection.
FinalizesBug(c) == cmdStmt[c] # NoStmt   \* Bug: no isValid()
Finalizes(c) == cmdStmt[c] # NoStmt /\ sl3db[cmdConn[c]] = "open"

DestroyCommand(c) ==
    /\ c \in made
    /\ made' = made \ {c}
    /\ cmdStmt' = [cmdStmt EXCEPT ![c] = NoStmt]
    /\ Release(dbConn, [cmdConn EXCEPT ![c] = NoConn], sl3db,
               IF Finalizes(c) THEN [stmtConn EXCEPT ![cmdStmt[c]] = NoConn] ELSE stmtConn)
    /\ cmdSql' = [cmdSql EXCEPT ![c] = NoSql]
    /\ Returns("release", c, IF Finalizes(c) THEN Reached(c) ELSE "ok")

-----------------------------------------------------------------------------
(* The specification.                                                      *)

Init ==
    /\ dbConn = [d \in Databases |-> NoConn]
    /\ sl3db = [k \in Connections |-> "free"]
    /\ stmtConn = [s \in Stmts |-> NoConn]
    /\ stmtSql = [s \in Stmts |-> NoSql]
    /\ made = {}
    /\ cmdConn = [c \in Commands |-> NoConn]
    /\ cmdStmt = [c \in Commands |-> NoStmt]
    /\ cmdSql = [c \in Commands |-> NoSql]
    /\ outcome = [op |-> "start", by |-> NoCommand, res |-> "ok"]

DatabaseNext ==
    \E d \in Databases :
        \/ \E k \in Connections : OpenDatabase(d, k)
        \/ OpenFails(d)
        \/ \E e \in Databases, k \in Connections : MoveDatabase(d, e, k)
        \/ CloseDatabase(d)
        \/ QueryDatabase(d)
        \/ PrepareFails(d)
        \/ \E c \in Commands, q \in Sql, s \in Stmts \cup {NoStmt} :
              \/ Prepare(d, c, q, s)
              \/ \E given \in 0..MaxGiven : PrepareWith(d, c, q, s, given)

CommandNext ==
    \E c \in Commands :
        \/ \E e \in Commands : MoveCommand(c, e)
        \/ Execute(c)
        \/ GetParameterNames(c)
        \/ DestroyCommand(c)

Next == DatabaseNext \/ CommandNext

Spec == Init /\ [][Next]_vars

-----------------------------------------------------------------------------
(* Properties.                                                             *)

\* An open sqlite3 handle has exactly one Database that will close it, however
\* often Databases are moved (database.cpp, move constructor and destructor):
\* no handle leaks and no handle is closed under a second Database.
OneOwner ==
    \A k \in Connections : sl3db[k] = "open" =>
        /\ \E d \in Databases : dbConn[d] = k
        /\ \A d, e \in Databases : dbConn[d] = k /\ dbConn[e] = k => d = e

\* The shared_ptr count: a Connection object exists exactly as long as a Database
\* or a Command points to it, so no pointer dangles when addresses are reused.
Counted ==
    \A k \in Connections : sl3db[k] = "free" <=> ~Referenced(k, dbConn, cmdConn)

\* A Command on an open connection holds a statement of that very connection,
\* compiled from the Command's own SQL, and no other Command holds it: what
\* ~Command finalizes and execute steps is its own.
OwnStatement ==
    /\ \A c \in Commands : cmdConn[c] # NoConn /\ sl3db[cmdConn[c]] = "open" =>
          IF cmdSql[c] \in Blank
            THEN cmdStmt[c] = NoStmt
            ELSE /\ cmdStmt[c] # NoStmt
                 /\ stmtConn[cmdStmt[c]] = cmdConn[c]
                 /\ stmtSql[cmdStmt[c]] = cmdSql[c]
    /\ \A c, e \in Commands :
          /\ cmdStmt[c] # NoStmt /\ cmdStmt[c] = cmdStmt[e]
          /\ sl3db[cmdConn[c]] = "open" /\ sl3db[cmdConn[e]] = "open"
          => c = e

\* No statement outlives the connection it was compiled on: also those that a
\* throwing Command constructor left behind are finalized by Connection::close.
StatementsDieFirst ==
    \A s \in Stmts : stmtConn[s] # NoConn => sl3db[stmtConn[s]] = "open"

\* The inductive invariant: none of its parts is preserved without the others.
HandlesInv ==
    Types /\ Slots /\ OneOwner /\ Counted /\ OwnStatement /\ StatementsDieFirst

\* Executing or destroying a Command never reaches a finalized statement, even
\* when the Database was closed, moved, or replaced by another one before.
NeverDangles ==
    outcome.op \in {"execute", "release"} => outcome.res # "undefined"

\* What database.hpp says of a Command used after the Database is closed: it
\* "knows about that and will throw an exception" (lines 350-353).  Holds of
\* execute; Command::getParameterNames hands the finalized statement to sqlite.
UseAfterCloseThrows ==
    outcome.op \in {"execute", "names"} => outcome.res # "undefined"

\* A Command cut off by its Database's destruction stays cut off: no new
\* Connection is made at the address it still points to.
CutForGood ==
    [][\A c \in Commands :
         cmdConn[c] # NoConn /\ sl3db[cmdConn[c]] = "null" /\ cmdConn'[c] = cmdConn[c]
         => sl3db'[cmdConn[c]] = "null"]_vars

\* A statement some live Command can use goes away only with that Command or with
\* the Database: destroying one Command never takes the statement of another.
OnlyOwnStatementEnds ==
    [][\A c \in Commands :
         /\ cmdStmt[c] # NoStmt /\ sl3db[cmdConn[c]] = "open"
         /\ cmdStmt'[c] = cmdStmt[c] /\ sl3db'[cmdConn[c]] = "open"
         => stmtConn'[cmdStmt[c]] = stmtConn[cmdStmt[c]]]_vars
=============================================================================
