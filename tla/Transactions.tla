---------------------------- MODULE Transactions -----------------------------
(***************************************************************************)
(* Database::Transaction, the scope guard for a transaction                *)
(* (src/src/sl3/database.cpp, from beginTransaction on), on top of the     *)
(* Databases of module Handles.                                            *)
(*                                                                         *)
(* A guard points to a Database object, not to its connection: a Database  *)
(* slot can be moved from, destroyed and used again under a living guard.  *)
(* Its destructor executes ROLLBACK, which throws for every error sqlite    *)
(* reports: no transaction to roll back, or no memory for the statement    *)
(* while the transaction is open.  A destructor that throws terminates the *)
(* program.                                                                *)
(***************************************************************************)
EXTENDS Handles

CONSTANTS
    Guards,          \* storage for Transaction objects
    NoDb,            \* the null Database pointer
    MaxTx,           \* bound: how many transactions sqlite starts
    UnderGuard,      \* what happens to a Database a guard points to
    SqliteRollsBack, \* sqlite may end a transaction by itself (disk full, I/O error)
    RollbackFails    \* sqlite may report an error for the ROLLBACK of an open one (no memory)

Disturbances == {"move", "close"}

ASSUME TransactionsAssumption ==
    /\ NoDb \notin Databases
    /\ MaxTx \in Nat
    /\ UnderGuard \subseteq Disturbances
    /\ SqliteRollsBack \in BOOLEAN /\ RollbackFails \in BOOLEAN

VARIABLES
    guards,      \* the guard slots that hold a constructed object
    txDb,        \* Transaction::_db
    begun,       \* history: the transaction the guard in this slot began
    tx,          \* sqlite: the transaction open on a connection, 0 for autocommit
    fate,        \* sqlite: what became of each transaction
    started,     \* how many transactions there have been
    promised,    \* history: the transactions whose guard's commit() returned
    terminated,  \* std::terminate has been called
    undefined,   \* a destroyed Database has been used
    refused,     \* history: sqlite refused a ROLLBACK and kept the transaction open
    breached     \* history: a transaction or Database was taken from under its guard

guardVars == <<guards, txDb, begun>>
txVars    == <<tx, fate, started, promised>>
endVars   == <<terminated, undefined, refused, breached>>
allVars   == <<vars, guardVars, txVars, endVars>>

TxIds == 1..MaxTx

\* Types, and the shape of the guards: who points to a Database is a constructed
\* guard whose BEGIN succeeded (database.cpp, constructor of Transaction); an
\* open transaction has an open connection under it.
TxTypeOK ==
    /\ TypeOK
    /\ guards \in SUBSET Guards
    /\ txDb \in [Guards -> Databases \cup {NoDb}]
    /\ begun \in [Guards -> 0..MaxTx]
    /\ tx \in [Connections -> 0..MaxTx]
    /\ fate \in [TxIds -> {"none", "active", "committed", "rolledback"}]
    /\ started \in 0..MaxTx
    /\ promised \in SUBSET TxIds
    /\ terminated \in BOOLEAN /\ undefined \in BOOLEAN
    /\ refused \in BOOLEAN /\ breached \in BOOLEAN
    /\ \A g \in Guards : txDb[g] # NoDb => g \in guards /\ begun[g] # 0
    /\ \A k \in Connections : tx[k] # 0 => sl3db[k] = "open" /\ fate[tx[k]] = "active"

Running == ~terminated /\ ~undefined

\* The connection a Database slot's execute would use.
ConnOf(d) == dbConn[d]

\* The transaction that COMMIT or ROLLBACK of guard g would end now: whatever is
\* open on the connection that is in its Database slot by now, 0 for none.
Reach(g) == IF txDb[g] # NoDb /\ dbConn[txDb[g]] # NoConn THEN tx[ConnOf(txDb[g])] ELSE 0

\* sqlite ends the transaction of connection k.
Ends(k, how) ==
    /\ fate' = [fate EXCEPT ![tx[k]] = how]
    /\ tx' = [tx EXCEPT ![k] = 0]
    /\ UNCHANGED started

Queried(res) == Returns("query", NoCommand, res) /\ UNCHANGED <<connVars, stmtVars, cmdVars>>

-----------------------------------------------------------------------------
(* The guard.                                                              *)

\* Database::beginTransaction: BEGIN on the connection of d.  Inside another
\* transaction, without a connection or for any error sqlite reports it throws,
\* and there is no guard.
BeginTransaction(g, d) ==
    /\ Running
    /\ g \notin guards /\ dbConn[d] # NoConn
    /\ sl3db[ConnOf(d)] = "open" /\ tx[ConnOf(d)] = 0
    /\ started < MaxTx
    /\ started' = started + 1
    /\ tx' = [tx EXCEPT ![ConnOf(d)] = started']
    /\ fate' = [fate EXCEPT ![started'] = "active"]
    /\ guards' = guards \cup {g}
    /\ txDb' = [txDb EXCEPT ![g] = d]
    /\ begun' = [begun EXCEPT ![g] = started']
    /\ Queried("ok")
    /\ UNCHANGED <<promised, endVars>>

\* Bug: the constructor swallows the exception.
BeginFailsBug(g, d) ==
    /\ Running
    /\ g \notin guards /\ dbConn[d] # NoConn
    /\ guards' = guards \cup {g}
    /\ txDb' = [txDb EXCEPT ![g] = d]
    /\ Queried("SQLite3Error")
    /\ UNCHANGED <<begun, txVars, endVars>>

BeginFails(g, d) ==
    /\ Running
    /\ g \notin guards /\ dbConn[d] # NoConn
    /\ Queried(IF sl3db[ConnOf(d)] = "open" THEN "SQLite3Error" ELSE "ErrNoConnection")
    /\ UNCHANGED <<guardVars, txVars, endVars>>

\* Bug: the moved-from guard keeps its pointer.
MoveGuardBug(g, h) ==
    /\ Running
    /\ g \in guards /\ h \notin guards
    /\ guards' = guards \cup {h}
    /\ txDb' = [txDb EXCEPT ![h] = txDb[g]]
    /\ begun' = [begun EXCEPT ![h] = begun[g]]
    /\ UNCHANGED <<vars, txVars, endVars>>

\* Transaction(Transaction&&) from slot g into slot h.
MoveGuard(g, h) ==
    /\ Running
    /\ g \in guards /\ h \notin guards
    /\ guards' = guards \cup {h}
    /\ txDb' = [txDb EXCEPT ![h] = txDb[g], ![g] = NoDb]
    /\ begun' = [begun EXCEPT ![h] = begun[g], ![g] = 0]
    /\ UNCHANGED <<vars, txVars, endVars>>

\* Bug: the guard keeps its pointer after COMMIT.
CommitReturnsBug(g) ==
    /\ Running
    /\ g \in guards /\ txDb[g] # NoDb /\ dbConn[txDb[g]] # NoConn
    /\ sl3db[ConnOf(txDb[g])] = "open" /\ tx[ConnOf(txDb[g])] # 0
    /\ Ends(ConnOf(txDb[g]), "committed")
    /\ promised' = promised \cup {begun[g]}
    /\ Queried("ok")
    /\ UNCHANGED <<guardVars, endVars>>

\* commit() that returns: COMMIT has ended the transaction, and the guard has
\* nothing left to do.  (Without a pointer commit() does nothing at all.)
CommitReturns(g) ==
    /\ Running
    /\ g \in guards /\ txDb[g] # NoDb /\ dbConn[txDb[g]] # NoConn
    /\ sl3db[ConnOf(txDb[g])] = "open" /\ tx[ConnOf(txDb[g])] # 0
    /\ Ends(ConnOf(txDb[g]), "committed")
    /\ txDb' = [txDb EXCEPT ![g] = NoDb]
    /\ promised' = promised \cup {begun[g]}
    /\ Queried("ok")
    /\ UNCHANGED <<guards, begun, endVars>>

\* Bug: the pointer is cleared before COMMIT is tried.
CommitThrowsBug(g) ==
    /\ Running
    /\ g \in guards /\ txDb[g] # NoDb /\ dbConn[txDb[g]] # NoConn
    /\ txDb' = [txDb EXCEPT ![g] = NoDb]
    /\ Queried("SQLite3Error")
    /\ UNCHANGED <<guards, begun, txVars, endVars>>

\* Bug: the result of COMMIT is not looked at.
CommitIgnoresErrorBug(g) ==
    /\ Running
    /\ g \in guards /\ txDb[g] # NoDb /\ dbConn[txDb[g]] # NoConn
    /\ txDb' = [txDb EXCEPT ![g] = NoDb]
    /\ promised' = promised \cup {begun[g]}
    /\ Queried("ok")
    /\ UNCHANGED <<guards, begun, tx, fate, started, endVars>>

\* commit() that throws: sqlite is busy, a deferred constraint fails, there is no
\* transaction or no connection.  The guard keeps its pointer.
CommitThrows(g) ==
    /\ Running
    /\ g \in guards /\ txDb[g] # NoDb /\ dbConn[txDb[g]] # NoConn
    /\ Queried(IF sl3db[ConnOf(txDb[g])] = "open" THEN "SQLite3Error" ELSE "ErrNoConnection")
    /\ UNCHANGED <<guardVars, txVars, endVars>>

\* Bug: the destructor does nothing for a guard whose commit() was not called.
DestroyGuardBug(g) ==
    /\ Running
    /\ g \in guards
    /\ guards' = guards \ {g}
    /\ txDb' = [txDb EXCEPT ![g] = NoDb]
    /\ begun' = [begun EXCEPT ![g] = 0]
    /\ UNCHANGED <<vars, txVars, endVars>>

Gone(g) ==
    /\ g \in guards
    /\ guards' = guards \ {g}
    /\ txDb' = [txDb EXCEPT ![g] = NoDb]
    /\ begun' = [begun EXCEPT ![g] = 0]

\* ~Transaction without a pointer: moved from or committed.
DestroyIdleGuard(g) ==
    /\ Running
    /\ txDb[g] = NoDb
    /\ Gone(g)
    /\ UNCHANGED <<vars, txVars, endVars>>

\* ~Transaction with one: ROLLBACK on whatever Database is in the slot by now.
DestroyGuard(g) ==
    /\ Running
    /\ txDb[g] # NoDb
    /\ dbConn[txDb[g]] # NoConn
    /\ sl3db[ConnOf(txDb[g])] = "open" /\ tx[ConnOf(txDb[g])] # 0
    /\ Gone(g)
    /\ Ends(ConnOf(txDb[g]), "rolledback")
    /\ Queried("ok")
    /\ UNCHANGED <<promised, endVars>>

\* The same when execute throws, and the exception leaves a destructor: there is no
\* connection or no transaction, or sqlite fails the statement for an error of its
\* own and the transaction stays open.
DestroyGuardThrows(g) ==
    /\ Running
    /\ g \in guards /\ txDb[g] # NoDb
    /\ dbConn[txDb[g]] # NoConn
    /\ \/ /\ sl3db[ConnOf(txDb[g])] # "open" \/ tx[ConnOf(txDb[g])] = 0
          /\ UNCHANGED refused
       \/ /\ sl3db[ConnOf(txDb[g])] = "open" /\ tx[ConnOf(txDb[g])] # 0
          /\ RollbackFails
          /\ refused' = TRUE
    /\ terminated' = TRUE
    /\ UNCHANGED <<vars, guardVars, txVars, undefined, breached>>

\* commit or ~Transaction when the Database is gone and its slot empty.
UseDeadDatabase(g) ==
    /\ Running
    /\ g \in guards /\ txDb[g] # NoDb
    /\ dbConn[txDb[g]] = NoConn
    /\ undefined' = TRUE
    /\ UNCHANGED <<vars, guardVars, txVars, terminated, refused, breached>>

-----------------------------------------------------------------------------
(* The Database under the guard.                                           *)

Guarded(d) == \E g \in guards : txDb[g] = d

\* Some statement fails in a way that makes sqlite roll back by itself.
AutoRollback(k) ==
    /\ Running /\ SqliteRollsBack
    /\ sl3db[k] = "open" /\ tx[k] # 0
    /\ Ends(k, "rolledback")
    /\ Queried("SQLite3Error")
    /\ breached' = TRUE
    /\ UNCHANGED <<guardVars, promised, terminated, undefined, refused>>

Open(d, k) ==
    /\ Running
    /\ OpenDatabase(d, k)
    /\ UNCHANGED <<guardVars, txVars, endVars>>

Move(d, e, k) ==
    /\ Running
    /\ Guarded(d) => "move" \in UnderGuard
    /\ MoveDatabase(d, e, k)
    /\ breached' = (breached \/ Guarded(d))
    /\ UNCHANGED <<guardVars, txVars, terminated, undefined, refused>>

\* Closing the connection rolls back what is open on it.
Close(d) ==
    /\ Running
    /\ Guarded(d) => "close" \in UnderGuard
    /\ CloseDatabase(d)
    /\ IF tx[ConnOf(d)] # 0 THEN Ends(ConnOf(d), "rolledback") ELSE UNCHANGED <<tx, fate, started>>
    /\ breached' = (breached \/ Guarded(d))
    /\ UNCHANGED <<guardVars, promised, terminated, undefined, refused>>

-----------------------------------------------------------------------------
(* The specification.  Operators named ...Bug are mistakes the properties   *)
(* must catch; nothing else uses them.                                      *)

TxInit ==
    /\ Init
    /\ guards = {}
    /\ txDb = [g \in Guards |-> NoDb]
    /\ begun = [g \in Guards |-> 0]
    /\ tx = [k \in Connections |-> 0]
    /\ fate = [t \in TxIds |-> "none"]
    /\ started = 0
    /\ promised = {}
    /\ terminated = FALSE
    /\ undefined = FALSE
    /\ refused = FALSE
    /\ breached = FALSE

GuardNext ==
    \E g \in Guards :
        \/ \E d \in Databases : BeginTransaction(g, d) \/ BeginFails(g, d)
        \/ \E h \in Guards : MoveGuard(g, h)
        \/ CommitReturns(g) \/ CommitThrows(g)
        \/ DestroyIdleGuard(g) \/ DestroyGuard(g) \/ DestroyGuardThrows(g)
        \/ UseDeadDatabase(g)

TxNext ==
    \/ GuardNext
    \/ \E k \in Connections : AutoRollback(k)
    \/ \E d \in Databases :
          \/ \E k \in Connections : Open(d, k)
          \/ \E e \in Databases, k \in Connections : Move(d, e, k)
          \/ Close(d)

TxSpec == TxInit /\ [][TxNext]_allVars

-----------------------------------------------------------------------------
(* Properties.                                                             *)

\* Wherever guards are moved to and whatever commit() answered, a guard that has a
\* Database left will end the transaction it began, and no other guard will end that
\* one, until a transaction or Database is taken from under a guard.
OneGuardPerTransaction ==
    ~breached => \A g \in guards : txDb[g] # NoDb =>
        /\ Reach(g) = begun[g]
        /\ \A h \in guards : Reach(h) = begun[g] => h = g

\* The guard g has its Database in the transaction that it began.
Stands(g) == txDb[g] # NoDb /\ Reach(g) = begun[g]

\* g ends its transaction, or another guard takes it over.
LetsGo(g) ==
    /\ txDb'[g] = NoDb
    /\ \/ fate'[begun[g]] # "active"
       \/ \E h \in Guards : Stands(h)' /\ begun'[h] = begun[g]

\* h ends transaction t, which is not the one that it began.
EndsAnothers(h, t) == Reach(h) = t /\ begun[h] # t /\ txDb'[h] = NoDb

\* Also after such a breach a guard that has its transaction loses it in four ways
\* only: it lets go of it, its Database is moved or closed, sqlite rolls back, or
\* another guard, whose own transaction is not the one in the Database it points to,
\* ends this one in its place (commit and ~Transaction execute on the connection, in
\* whatever transaction is there).
WhoTakesATransaction ==
    [][\A g \in Guards : Stands(g) /\ ~Stands(g)' =>
          \/ LetsGo(g)
          \/ dbConn'[txDb[g]] # dbConn[txDb[g]]
          \/ AutoRollback(ConnOf(txDb[g]))
          \/ \E h \in Guards : EndsAnothers(h, begun[g])]_allVars

\* As long as nothing is taken from under a guard, a transaction is open only while
\* a guard is there to end it, also after a commit() or beginTransaction() that
\* threw: none is left open behind a scope.
NoStrayTransaction ==
    ~breached => \A t \in TxIds : fate[t] = "active" =>
        \E g \in guards : /\ begun[g] = t /\ txDb[g] # NoDb
                          /\ dbConn[txDb[g]] # NoConn
                          /\ tx[ConnOf(txDb[g])] = t

\* Until then what is durable is what commit() said: a transaction is committed
\* exactly when its own guard's commit() returned.
DurableIffCommitReturned ==
    ~breached => \A t \in TxIds : fate[t] = "committed" <=> t \in promised

\* A guard going out of scope rolls back and the program goes on, as
\* database.hpp (lines 276-278) describes the scope guard: "If an instance of
\* this class goes out of scope and commit has not been called, it will call
\* Rollback."  When sqlite has already rolled back, ~Transaction throws.
DestructorReturns == ~terminated

\* ~Transaction and commit() use a dead Database only after such a breach, and
\* ~Transaction throws only after one, or when sqlite refuses to roll back the
\* transaction that the guard is there for: no failing BEGIN or COMMIT and no move of
\* guards makes a destructor terminate the program.
DestructorsAreSafe ==
    /\ terminated => breached \/ refused
    /\ undefined => breached

\* The refinement: a scope is a transaction, held by the guard that points to
\* the Database it runs on.
S == INSTANCE Scopes WITH
        MaxScopes <- MaxTx,
        held <- {begun[g] : g \in {h \in guards : txDb[h] # NoDb}}

\* Guards implement the promise of a transaction scope until a Database or a
\* transaction is taken from under one.
ImplementsScopes == S!Spec
=============================================================================
