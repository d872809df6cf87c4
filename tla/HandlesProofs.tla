---------------------------- MODULE HandlesProofs ----------------------------
(***************************************************************************)
(* Theorems about Handles and HandlesRefine, for every number of slots,    *)
(* addresses and SQL texts.                                                *)
(***************************************************************************)
EXTENDS HandlesRefine, TLAPS

-----------------------------------------------------------------------------
(* Type correctness.                                                       *)

\* Release preserves the types of the four variables it sets.
LEMMA ReleaseType ==
    ASSUME Types,
           NEW dc \in [Databases -> Connections \cup {NoConn}],
           NEW cc \in [Commands -> Connections \cup {NoConn}],
           NEW db \in [Connections -> {"free", "open", "null"}],
           NEW sc \in [Stmts -> Connections \cup {NoConn}],
           Release(dc, cc, db, sc)
    PROVE  /\ dbConn' \in [Databases -> Connections \cup {NoConn}]
           /\ cmdConn' \in [Commands -> Connections \cup {NoConn}]
           /\ sl3db' \in [Connections -> {"free", "open", "null"}]
           /\ stmtConn' \in [Stmts -> Connections \cup {NoConn}]
           /\ stmtSql' \in [Stmts -> Sql \cup {NoSql}]
BY DEF Release, Types

\* What a call reports has the type of outcome.
LEMMA ReturnsType ==
    ASSUME NEW op \in Ops, NEW c \in Commands \cup {NoCommand}, NEW res \in Answers \cup Sql \cup {NoSql},
           Returns(op, c, res)
    PROVE  outcome' \in [op : Ops, by : Commands \cup {NoCommand}, res : Answers \cup Sql \cup {NoSql}]
BY DEF Returns

\* What a call on a statement pointer reaches is SQL or an answer.
LEMMA ReachedType ==
    ASSUME Types, NEW c \in Commands
    PROVE  Reached(c) \in Answers \cup Sql \cup {NoSql}
BY HandlesAssumption DEF Reached, Types, Answers

\* Every step of the handles keeps every variable in its type.
LEMMA TypeNext == Types /\ [Next]_vars => Types'
<1> SUFFICES ASSUME Types, [Next]_vars PROVE Types'
  OBVIOUS
<1> USE DEF Ops, Answers
<1>1. ASSUME NEW d \in Databases, NEW k \in Connections, OpenDatabase(d, k) PROVE Types'
  BY <1>1 DEF Types, OpenDatabase, Returns, stmtVars, cmdVars
<1>2. ASSUME NEW d \in Databases, OpenFails(d) PROVE Types'
  BY <1>2 DEF Types, OpenFails, Returns, stmtVars, cmdVars, connVars
<1>3. ASSUME NEW d \in Databases, NEW e \in Databases, NEW k \in Connections,
             MoveDatabase(d, e, k)
      PROVE  Types'
  BY <1>3 DEF Types, MoveDatabase, Returns, stmtVars, cmdVars
<1>4. ASSUME NEW d \in Databases, CloseDatabase(d) PROVE Types'
  <2>1. [dbConn EXCEPT ![d] = NoConn] \in [Databases -> Connections \cup {NoConn}]
    BY DEF Types
  <2>2. CloseDb(dbConn[d]) \in [Connections -> {"free", "open", "null"}]
    BY DEF Types, CloseDb
  <2>3. CloseStmts(dbConn[d]) \in [Stmts -> Connections \cup {NoConn}]
    BY DEF Types, CloseStmts
  <2>4. cmdConn \in [Commands -> Connections \cup {NoConn}]
    BY DEF Types
  <2>5. Release([dbConn EXCEPT ![d] = NoConn], cmdConn,
                CloseDb(dbConn[d]), CloseStmts(dbConn[d]))
    BY <1>4 DEF CloseDatabase
  <2>6. /\ dbConn' \in [Databases -> Connections \cup {NoConn}]
        /\ cmdConn' \in [Commands -> Connections \cup {NoConn}]
        /\ sl3db' \in [Connections -> {"free", "open", "null"}]
        /\ stmtConn' \in [Stmts -> Connections \cup {NoConn}]
        /\ stmtSql' \in [Stmts -> Sql \cup {NoSql}]
    BY <2>1, <2>2, <2>3, <2>4, <2>5, ReleaseType
  <2> QED
    BY <1>4, <2>6 DEF Types, CloseDatabase, Returns
<1>5. ASSUME NEW d \in Databases, QueryDatabase(d) PROVE Types'
  BY <1>5 DEF Types, QueryDatabase, Returns, stmtVars, cmdVars, connVars
<1>6. ASSUME NEW d \in Databases, PrepareFails(d) PROVE Types'
  BY <1>6 DEF Types, PrepareFails, Returns, stmtVars, cmdVars, connVars
<1>7. ASSUME NEW d \in Databases, NEW c \in Commands, NEW q \in Sql,
             NEW s \in Stmts \cup {NoStmt}, Prepare(d, c, q, s)
      PROVE  Types'
  BY <1>7 DEF Types, Prepare, Compiles, Construct, Returns, stmtVars, connVars
<1>8. ASSUME NEW d \in Databases, NEW c \in Commands, NEW q \in Sql,
             NEW s \in Stmts \cup {NoStmt}, NEW given \in 0..MaxGiven,
             PrepareWith(d, c, q, s, given)
      PROVE  Types'
  BY <1>8 DEF Types, PrepareWith, Compiles, Construct, Returns, stmtVars, cmdVars, connVars
<1>9. ASSUME NEW c \in Commands, NEW e \in Commands, MoveCommand(c, e) PROVE Types'
  BY <1>9 DEF Types, MoveCommand, Returns, stmtVars, connVars
<1>10. ASSUME NEW c \in Commands, Execute(c) PROVE Types'
  BY <1>10, ReachedType DEF Types, Execute, Returns, stmtVars, cmdVars, connVars
<1>11. ASSUME NEW c \in Commands, GetParameterNames(c) PROVE Types'
  BY <1>11, ReachedType DEF Types, GetParameterNames, Returns, stmtVars, cmdVars, connVars
<1>12. ASSUME NEW c \in Commands, DestroyCommand(c) PROVE Types'
  <2> DEFINE cc == [cmdConn EXCEPT ![c] = NoConn]
             sc == IF Finalizes(c) THEN [stmtConn EXCEPT ![cmdStmt[c]] = NoConn] ELSE stmtConn
  <2>1. dbConn \in [Databases -> Connections \cup {NoConn}]
    BY DEF Types
  <2>2. cc \in [Commands -> Connections \cup {NoConn}]
    BY DEF Types
  <2>3. sl3db \in [Connections -> {"free", "open", "null"}]
    BY DEF Types
  <2>4. sc \in [Stmts -> Connections \cup {NoConn}]
    BY DEF Types
  <2>5. Release(dbConn, cc, sl3db, sc)
    BY <1>12 DEF DestroyCommand
  <2>6. /\ dbConn' \in [Databases -> Connections \cup {NoConn}]
        /\ cmdConn' \in [Commands -> Connections \cup {NoConn}]
        /\ sl3db' \in [Connections -> {"free", "open", "null"}]
        /\ stmtConn' \in [Stmts -> Connections \cup {NoConn}]
        /\ stmtSql' \in [Stmts -> Sql \cup {NoSql}]
    <3> HIDE DEF cc, sc
    <3> QED BY <2>1, <2>2, <2>3, <2>4, <2>5, ReleaseType
  <2>7. outcome' \in [op : Ops, by : Commands \cup {NoCommand}, res : Answers \cup Sql \cup {NoSql}]
    BY <1>12, ReachedType DEF DestroyCommand, Returns
  <2> QED
    BY <1>12, <2>6, <2>7 DEF Types, DestroyCommand
<1>13. CASE UNCHANGED vars
  BY <1>13 DEF Types, vars
<1> QED
  BY <1>1, <1>2, <1>3, <1>4, <1>5, <1>6, <1>7, <1>8, <1>9, <1>10, <1>11, <1>12, <1>13
     DEF Next, DatabaseNext, CommandNext

-----------------------------------------------------------------------------
(* The ownership invariant.                                                *)

\* A call that changes no pointer and no handle keeps it.
LEMMA InvQuiet ==
    ASSUME HandlesInv, Types', UNCHANGED <<connVars, stmtVars, cmdVars>>
    PROVE  HandlesInv'
BY DEF HandlesInv, connVars, stmtVars, cmdVars, Slots, OneOwner, Counted, Referenced,
       OwnStatement, StatementsDieFirst

\* A shared_ptr that is only copied or moved leaves the count of every
\* Connection above or at zero as it was.
LEMMA CountedKept ==
    ASSUME Counted, UNCHANGED <<sl3db, dbConn>>,
           \A k \in Connections :
               (\E c \in Commands : cmdConn[c] = k) => Referenced(k, dbConn', cmdConn'),
           \A k \in Connections :
               (\E c \in Commands : cmdConn'[c] = k) => Referenced(k, dbConn, cmdConn)
    PROVE  Counted'
BY DEF Counted, Referenced

\* Construct shares the connection of a Database.
LEMMA ConstructCounted ==
    ASSUME HandlesInv, NEW d \in Databases, NEW c \in Commands, NEW q \in Sql,
           NEW s \in Stmts \cup {NoStmt},
           c \notin made, Construct(d, c, q, s), UNCHANGED connVars
    PROVE  Counted'
<1>1. ASSUME NEW k \in Connections, NEW e \in Commands, cmdConn[e] = k
      PROVE  Referenced(k, dbConn', cmdConn')
  <2>1. e # c
    BY <1>1, HandlesAssumption DEF HandlesInv, Slots
  <2>2. cmdConn'[e] = k
    BY <1>1, <2>1 DEF Construct, HandlesInv, Types
  <2> QED
    BY <2>2 DEF Referenced
<1>2. ASSUME NEW k \in Connections, NEW e \in Commands, cmdConn'[e] = k
      PROVE  Referenced(k, dbConn, cmdConn)
  BY <1>2 DEF Construct, HandlesInv, Types, Referenced
<1> QED
  BY <1>1, <1>2, CountedKept DEF HandlesInv, connVars

\* The conjuncts of the invariant, for what the actions do not disturb.
LEMMA InvParts ==
    ASSUME Types', Slots', OneOwner', Counted', OwnStatement', StatementsDieFirst'
    PROVE  HandlesInv'
BY DEF HandlesInv

\* The invariant is inductive.
LEMMA InvNext == HandlesInv /\ [Next]_vars => HandlesInv'
<1> SUFFICES ASSUME HandlesInv, [Next]_vars PROVE HandlesInv'
  OBVIOUS
<1>0. Types' /\ Types
  BY TypeNext DEF HandlesInv
<1> USE HandlesAssumption
<1>1. ASSUME NEW d \in Databases, NEW k \in Connections, OpenDatabase(d, k)
      PROVE  HandlesInv'
  <2> USE <1>1 DEF HandlesInv, OpenDatabase, stmtVars, cmdVars
  <2>1. Slots'
    BY <1>0 DEF Types, Slots
  <2>2. OneOwner'
    BY <1>0 DEF Types, OneOwner, Counted, Referenced
  <2>3. Counted'
    BY <1>0 DEF Types, Counted, Referenced, OneOwner
  <2>4. OwnStatement'
    BY <1>0 DEF Types, OwnStatement, Slots, Counted, Referenced, OneOwner,
                  StatementsDieFirst
  <2>5. StatementsDieFirst'
    BY <1>0 DEF Types, StatementsDieFirst, Counted, Referenced, OneOwner
  <2> QED
    BY <1>0, <2>1, <2>2, <2>3, <2>4, <2>5, InvParts
<1>2. ASSUME NEW d \in Databases, OpenFails(d)
      PROVE  HandlesInv'
  BY <1>0, <1>2, InvQuiet DEF OpenFails
<1>3. ASSUME NEW d \in Databases, NEW e \in Databases, NEW k \in Connections,
             MoveDatabase(d, e, k)
      PROVE  HandlesInv'
  <2> USE <1>3 DEF HandlesInv, MoveDatabase, stmtVars, cmdVars
  <2>1. Slots'
    BY <1>0 DEF Types, Slots
  <2>2. OneOwner'
    BY <1>0 DEF Types, OneOwner, Counted, Referenced
  <2>3. Counted'
    BY <1>0 DEF Types, Counted, Referenced, OneOwner
  <2>4. OwnStatement'
    BY <1>0 DEF Types, OwnStatement, Slots, Counted, Referenced, OneOwner,
                  StatementsDieFirst
  <2>5. StatementsDieFirst'
    BY <1>0 DEF Types, StatementsDieFirst, Counted, Referenced, OneOwner
  <2> QED
    BY <1>0, <2>1, <2>2, <2>3, <2>4, <2>5, InvParts
<1>4. ASSUME NEW d \in Databases, CloseDatabase(d)
      PROVE  HandlesInv'
  <2> USE <1>4 DEF HandlesInv, CloseDatabase, Release, CloseDb, CloseStmts
  <2>1. Slots'
    BY <1>0 DEF Types, Slots
  <2>2. OneOwner'
    BY <1>0 DEF Types, OneOwner, Counted, Referenced
  <2>3. Counted'
    BY <1>0 DEF Types, Counted, Referenced, OneOwner
  <2>4. OwnStatement'
    BY <1>0 DEF Types, OwnStatement, Slots, Counted, Referenced, OneOwner,
                  StatementsDieFirst
  <2>5. StatementsDieFirst'
    BY <1>0 DEF Types, StatementsDieFirst, Counted, Referenced, OneOwner
  <2> QED
    BY <1>0, <2>1, <2>2, <2>3, <2>4, <2>5, InvParts
<1>5. ASSUME NEW d \in Databases, QueryDatabase(d)
      PROVE  HandlesInv'
  BY <1>0, <1>5, InvQuiet DEF QueryDatabase
<1>6. ASSUME NEW d \in Databases, PrepareFails(d)
      PROVE  HandlesInv'
  BY <1>0, <1>6, InvQuiet DEF PrepareFails
<1>7. ASSUME NEW d \in Databases, NEW c \in Commands, NEW q \in Sql,
             NEW s \in Stmts \cup {NoStmt}, Prepare(d, c, q, s)
      PROVE  HandlesInv'
  <2> USE <1>7 DEF HandlesInv, Prepare, Compiles, Construct, stmtVars, connVars
  <2>1. Slots'
    BY <1>0 DEF Types, Slots
  <2>2. OneOwner'
    BY <1>0 DEF Types, OneOwner, Counted, Referenced
  <2>3. Counted'
    BY ConstructCounted
  <2>4. OwnStatement'
    BY <1>0 DEF Types, OwnStatement, Slots, Counted, Referenced, OneOwner,
                  StatementsDieFirst
  <2>5. StatementsDieFirst'
    BY <1>0 DEF Types, StatementsDieFirst, Counted, Referenced, OneOwner
  <2> QED
    BY <1>0, <2>1, <2>2, <2>3, <2>4, <2>5, InvParts
<1>8. ASSUME NEW d \in Databases, NEW c \in Commands, NEW q \in Sql,
             NEW s \in Stmts \cup {NoStmt}, NEW given \in 0..MaxGiven,
             PrepareWith(d, c, q, s, given)
      PROVE  HandlesInv'
  <2> USE <1>8 DEF HandlesInv, PrepareWith, Compiles, Construct, stmtVars, cmdVars, connVars
  <2>1. Slots'
    BY <1>0 DEF Types, Slots
  <2>2. OneOwner'
    BY <1>0 DEF Types, OneOwner, Counted, Referenced
  <2>3. Counted'
    <3>1. CASE given = ParamCount[q]
      BY <3>1, ConstructCounted
    <3>2. CASE given # ParamCount[q]
      BY <3>2 DEF Counted, Referenced
    <3> QED
      BY <3>1, <3>2
  <2>4. OwnStatement'
    BY <1>0 DEF Types, OwnStatement, Slots, Counted, Referenced, OneOwner,
                  StatementsDieFirst
  <2>5. StatementsDieFirst'
    BY <1>0 DEF Types, StatementsDieFirst, Counted, Referenced, OneOwner
  <2> QED
    BY <1>0, <2>1, <2>2, <2>3, <2>4, <2>5, InvParts
<1>9. ASSUME NEW c \in Commands, NEW e \in Commands, MoveCommand(c, e)
      PROVE  HandlesInv'
  <2> USE <1>9 DEF HandlesInv, MoveCommand, stmtVars, connVars
  <2>1. Slots'
    BY <1>0 DEF Types, Slots
  <2>2. OneOwner'
    BY <1>0 DEF Types, OneOwner, Counted, Referenced
  <2>3. Counted'
    <3>1. ASSUME NEW k \in Connections, NEW x \in Commands, cmdConn[x] = k
          PROVE  \E y \in Commands : cmdConn'[y] = k
      <4>1. CASE x = c
        BY <1>0, <3>1, <4>1 DEF Types
      <4>2. CASE x # c
        <5>1. x # e
          BY <3>1 DEF Slots
        <5> QED
          BY <1>0, <3>1, <4>2, <5>1 DEF Types
      <4> QED
        BY <4>1, <4>2
    <3>2. ASSUME NEW k \in Connections, NEW x \in Commands, cmdConn'[x] = k
          PROVE  \E y \in Commands : cmdConn[y] = k
      BY <1>0, <3>2 DEF Types
    <3> QED
      BY <3>1, <3>2, CountedKept DEF Referenced
  <2>4. OwnStatement'
    <3>1. \A x \in Commands : cmdConn'[x] # NoConn =>
             \E y \in Commands : /\ cmdConn[y] = cmdConn'[x]
                                /\ cmdStmt[y] = cmdStmt'[x]
                                /\ cmdSql[y] = cmdSql'[x]
                                /\ y = IF x = e THEN c ELSE x
      BY <1>0 DEF Types
    <3>2. \A x \in Commands : cmdStmt'[x] # NoStmt => cmdConn'[x] # NoConn
      BY <1>0, <2>1 DEF Slots
    <3>3. cmdConn'[c] = NoConn
      BY <1>0 DEF Types
    <3> QED
      BY <1>0, <3>1, <3>2, <3>3 DEF Types, OwnStatement
  <2>5. StatementsDieFirst'
    BY <1>0 DEF Types, StatementsDieFirst, Counted, Referenced, OneOwner
  <2> QED
    BY <1>0, <2>1, <2>2, <2>3, <2>4, <2>5, InvParts
<1>10. ASSUME NEW c \in Commands, Execute(c)
      PROVE  HandlesInv'
  BY <1>0, <1>10, InvQuiet DEF Execute
<1>11. ASSUME NEW c \in Commands, GetParameterNames(c)
      PROVE  HandlesInv'
  BY <1>0, <1>11, InvQuiet DEF GetParameterNames
<1>12. ASSUME NEW c \in Commands, DestroyCommand(c)
      PROVE  HandlesInv'
  <2> USE <1>12 DEF HandlesInv, DestroyCommand, Release, Finalizes
  <2>1. Slots'
    BY <1>0 DEF Types, Slots
  <2>2. OneOwner'
    BY <1>0 DEF Types, OneOwner, Counted, Referenced
  <2>3. Counted'
    BY <1>0 DEF Types, Counted, Referenced, OneOwner
  <2>4. OwnStatement'
    BY <1>0 DEF Types, OwnStatement, Slots, Counted, Referenced, OneOwner,
                  StatementsDieFirst
  <2>5. StatementsDieFirst'
    BY <1>0 DEF Types, StatementsDieFirst, Counted, Referenced, OneOwner
  <2> QED
    BY <1>0, <2>1, <2>2, <2>3, <2>4, <2>5, InvParts
<1>13. CASE UNCHANGED vars
  BY <1>0, <1>13, InvQuiet DEF vars, connVars, stmtVars, cmdVars
<1> QED
  BY <1>1, <1>2, <1>3, <1>4, <1>5, <1>6, <1>7, <1>8, <1>9, <1>10, <1>11, <1>12, <1>13
     DEF Next, DatabaseNext, CommandNext

\* In every reachable state each open handle has one Database that will close
\* it, each Connection lives exactly as long as it is pointed to, and a Command
\* on an open connection owns its statement alone.
THEOREM Ownership == Spec => []HandlesInv
<1>1. Init => HandlesInv
  <2> SUFFICES ASSUME Init PROVE HandlesInv
    OBVIOUS
  <2>1. Types
    BY HandlesAssumption DEF Init, Types, Ops, Answers
  <2> QED
    BY <2>1, HandlesAssumption
       DEF HandlesInv, Init, Slots, OneOwner, Counted, Referenced, OwnStatement,
           StatementsDieFirst
<1> QED
  BY <1>1, InvNext, PTL DEF Spec

\* Every variable keeps to its type, and no object that is gone or moved from
\* keeps a pointer.
THEOREM TypeCorrect == Spec => []TypeOK
BY Ownership, PTL DEF HandlesInv, TypeOK

\* One Database, never none and never two, will close each open handle.
THEOREM OpenHandlesHaveOneOwner == Spec => []OneOwner
BY Ownership, PTL DEF HandlesInv

\* A Connection object lives exactly as long as somebody points to it.
THEOREM ConnectionsAreCounted == Spec => []Counted
BY Ownership, PTL DEF HandlesInv

\* On an open connection each Command has a statement of its own, of its own SQL.
THEOREM CommandsOwnTheirStatement == Spec => []OwnStatement
BY Ownership, PTL DEF HandlesInv

\* Connection::close leaves no statement behind.
THEOREM StatementsDieWithConnection == Spec => []StatementsDieFirst
BY Ownership, PTL DEF HandlesInv

-----------------------------------------------------------------------------
(* What calls on a Command reach.                                          *)

\* On an open connection a call on the statement reaches the Command's own SQL.
LEMMA ReachedOwn ==
    ASSUME HandlesInv, NEW c \in Commands, cmdConn[c] # NoConn, sl3db[cmdConn[c]] = "open"
    PROVE  /\ Reached(c) = IF cmdSql[c] \in Blank THEN "SQLite3Error" ELSE cmdSql[c]
           /\ Reached(c) # "undefined"
<1>1. cmdSql[c] # "undefined"
  BY HandlesAssumption DEF HandlesInv, Types, Answers
<1> QED
  BY <1>1 DEF HandlesInv, OwnStatement, Reached

\* Neither execute nor the destructor of a Command touches a finalized statement.
THEOREM CallsNeverDangle == Spec => []NeverDangles
<1>1. Init => NeverDangles
  BY DEF Init, NeverDangles
<1>2. HandlesInv /\ NeverDangles /\ [Next]_vars => NeverDangles'
  <2> SUFFICES ASSUME HandlesInv, NeverDangles, [Next]_vars PROVE NeverDangles'
    OBVIOUS
  <2>1. ASSUME NEW c \in Commands, Execute(c) PROVE NeverDangles'
    BY <2>1, ReachedOwn DEF Execute, Returns, NeverDangles
  <2>2. ASSUME NEW c \in Commands, DestroyCommand(c) PROVE NeverDangles'
    <3>1. CASE Finalizes(c)
      <4>1. cmdConn[c] # NoConn
        BY <3>1 DEF Finalizes, HandlesInv, Slots
      <4> QED
        BY <2>2, <3>1, <4>1, ReachedOwn DEF DestroyCommand, Finalizes, Returns, NeverDangles
    <3>2. CASE ~Finalizes(c)
      BY <2>2, <3>2 DEF DestroyCommand, Returns, NeverDangles
    <3> QED
      BY <3>1, <3>2
  <2>3. ASSUME NEW c \in Commands,
               GetParameterNames(c) \/ \E e \in Commands : MoveCommand(c, e)
        PROVE  NeverDangles'
    BY <2>3 DEF GetParameterNames, MoveCommand, Returns, NeverDangles
  <2>4. CASE DatabaseNext
    BY <2>4 DEF DatabaseNext, OpenDatabase, OpenFails, MoveDatabase, CloseDatabase,
                QueryDatabase, PrepareFails, Prepare, PrepareWith, Construct, Returns,
                NeverDangles
  <2>5. CASE UNCHANGED vars
    BY <2>5 DEF vars, NeverDangles
  <2> QED
    BY <2>1, <2>2, <2>3, <2>4, <2>5 DEF Next, CommandNext
<1> QED
  BY <1>1, <1>2, Ownership, PTL DEF Spec

-----------------------------------------------------------------------------
(* What a step may never do.                                               *)

\* No new connection is opened at an address an old Command still points to.
THEOREM CutOffStaysCutOff == Spec => CutForGood
<1> DEFINE A == \A c \in Commands :
                  cmdConn[c] # NoConn /\ sl3db[cmdConn[c]] = "null" /\ cmdConn'[c] = cmdConn[c]
                  => sl3db'[cmdConn[c]] = "null"
<1>1. HandlesInv /\ [Next]_vars => A
  <2> SUFFICES ASSUME HandlesInv, [Next]_vars, NEW c \in Commands,
                      cmdConn[c] # NoConn, sl3db[cmdConn[c]] = "null", cmdConn'[c] = cmdConn[c]
               PROVE  sl3db'[cmdConn[c]] = "null"
    OBVIOUS
  <2>1. cmdConn[c] \in Connections /\ Types
    BY DEF HandlesInv, Types
  <2>2. ASSUME NEW dc, NEW db, NEW sc, NEW cc, Release(dc, cc, db, sc), db[cmdConn[c]] = "null"
        PROVE  sl3db'[cmdConn[c]] = "null"
    BY <2>1, <2>2 DEF Release, Referenced
  <2>3. ASSUME NEW d \in Databases, CloseDatabase(d) PROVE sl3db'[cmdConn[c]] = "null"
    <3>1. CloseDb(dbConn[d])[cmdConn[c]] = "null"
      BY <2>1 DEF CloseDb, Types
    <3> QED
      BY <2>2, <2>3, <3>1 DEF CloseDatabase
  <2>4. ASSUME NEW e \in Commands, DestroyCommand(e) PROVE sl3db'[cmdConn[c]] = "null"
    BY <2>2, <2>4 DEF DestroyCommand
  <2>5. ASSUME NEW d \in Databases, NEW k \in Connections,
               \/ OpenDatabase(d, k)
               \/ \E e \in Databases : MoveDatabase(d, e, k)
        PROVE  sl3db'[cmdConn[c]] = "null"
    BY <2>1, <2>5 DEF OpenDatabase, MoveDatabase, Types
  <2>6. CASE UNCHANGED sl3db
    BY <2>6
  <2> QED
    BY <2>3, <2>4, <2>5, <2>6
       DEF Next, DatabaseNext, CommandNext, OpenFails, QueryDatabase, PrepareFails, Prepare,
           PrepareWith, MoveCommand, Execute, GetParameterNames, vars, connVars
<1> QED
  BY <1>1, Ownership, PTL DEF Spec, CutForGood

\* A step that leaves a Command its statement and its connection open leaves the
\* statement alone.
LEMMA StatementKept ==
    ASSUME HandlesInv, [Next]_vars, NEW c \in Commands,
           cmdStmt[c] # NoStmt, sl3db[cmdConn[c]] = "open",
           cmdStmt'[c] = cmdStmt[c], sl3db'[cmdConn[c]] = "open"
    PROVE  stmtConn'[cmdStmt[c]] = stmtConn[cmdStmt[c]]
<1> DEFINE s == cmdStmt[c]
           k == cmdConn[c]
<1>1. /\ s \in Stmts /\ k \in Connections /\ k # NoConn
      /\ stmtConn[s] = k
      /\ Types
  BY HandlesAssumption DEF HandlesInv, Types, Slots, OwnStatement
<1>2. ASSUME NEW d \in Databases, CloseDatabase(d) PROVE stmtConn'[s] = stmtConn[s]
  <2>1. CloseDb(dbConn[d])[k] = "open"
    BY <1>1, <1>2 DEF CloseDatabase, Release
  <2>2. dbConn[d] # k
    BY <1>1, <2>1 DEF CloseDb, Types
  <2>3. CloseStmts(dbConn[d])[s] = k
    BY <1>1, <2>2 DEF CloseStmts
  <2>4. Referenced(k, [dbConn EXCEPT ![d] = NoConn], cmdConn)
    BY DEF Referenced
  <2> QED
    BY <1>1, <1>2, <2>3, <2>4 DEF CloseDatabase, Release
<1>3. ASSUME NEW e \in Commands, DestroyCommand(e) PROVE stmtConn'[s] = stmtConn[s]
  <2> DEFINE cc == [cmdConn EXCEPT ![e] = NoConn]
             sc == IF Finalizes(e) THEN [stmtConn EXCEPT ![cmdStmt[e]] = NoConn]
                                   ELSE stmtConn
  <2>1. e # c
    BY <1>1, <1>3, HandlesAssumption DEF DestroyCommand, Types
  <2>2. Finalizes(e) => cmdStmt[e] # s
    BY <2>1 DEF Finalizes, HandlesInv, OwnStatement
  <2>3. sc[s] = k
    BY <1>1, <2>2 DEF Types
  <2>4. Referenced(k, dbConn, cc)
    BY <1>1, <2>1 DEF Referenced, Types
  <2>5. Release(dbConn, cc, sl3db, sc)
    BY <1>3 DEF DestroyCommand
  <2> HIDE DEF cc, sc
  <2> QED
    BY <1>1, <2>3, <2>4, <2>5 DEF Release
<1>4. ASSUME NEW d \in Databases, NEW e \in Commands, NEW q \in Sql,
             NEW x \in Stmts \cup {NoStmt},
             \/ Prepare(d, e, q, x)
             \/ \E given \in 0..MaxGiven : PrepareWith(d, e, q, x, given)
      PROVE  stmtConn'[s] = stmtConn[s]
  BY <1>1, <1>4 DEF Prepare, PrepareWith, Compiles, Types, stmtVars
<1>5. CASE UNCHANGED stmtConn
  BY <1>5
<1> QED
  BY <1>2, <1>3, <1>4, <1>5
     DEF Next, DatabaseNext, CommandNext, OpenDatabase, OpenFails, MoveDatabase,
         QueryDatabase, PrepareFails, MoveCommand, Execute, GetParameterNames, vars, stmtVars

\* Only ~Command of its owner and ~Database take a usable statement away.
THEOREM StatementsEndWithTheirOwner == Spec => OnlyOwnStatementEnds
<1> DEFINE A == \A c \in Commands :
                  /\ cmdStmt[c] # NoStmt /\ sl3db[cmdConn[c]] = "open"
                  /\ cmdStmt'[c] = cmdStmt[c] /\ sl3db'[cmdConn[c]] = "open"
                  => stmtConn'[cmdStmt[c]] = stmtConn[cmdStmt[c]]
<1>1. HandlesInv /\ [Next]_vars => A
  BY StatementKept
<1> QED
  BY <1>1, Ownership, PTL DEF Spec, OnlyOwnStatementEnds

-----------------------------------------------------------------------------
(* The handles implement the leases.                                       *)

\* Only ~Database shrinks the set of open sessions: what ~Command lets go of is
\* never the last pointer to an open connection.
LEMMA DestroyKeepsOpen ==
    ASSUME HandlesInv, NEW c \in Commands, DestroyCommand(c)
    PROVE  OpenSessions' = OpenSessions
<1>1. \A k \in Connections : sl3db[k] = "open" => \E d \in Databases : dbConn'[d] = k
  BY DEF HandlesInv, OneOwner, DestroyCommand, Release
<1> QED
  BY <1>1 DEF OpenSessions, DestroyCommand, Release, Referenced

\* ~Database ends the session of its connection and no other.
LEMMA CloseEndsOne ==
    ASSUME HandlesInv, NEW d \in Databases, CloseDatabase(d)
    PROVE  OpenSessions' = OpenSessions \ {dbConn[d]}
<1>1. \A k \in Connections : sl3db[k] = "open" /\ k # dbConn[d] =>
                               \E e \in Databases : dbConn'[e] = k
  BY DEF HandlesInv, OneOwner, CloseDatabase, Release, Types
<1>2. \A k \in Connections : CloseDb(dbConn[d])[k] = IF k = dbConn[d] THEN "null" ELSE sl3db[k]
  BY DEF HandlesInv, Types, CloseDb
<1>3. \A k \in Connections : sl3db'[k] = "open" => CloseDb(dbConn[d])[k] = "open"
  BY DEF CloseDatabase, Release
<1>4. \A k \in Connections : sl3db[k] = "open" /\ k # dbConn[d] => sl3db'[k] = "open"
  BY <1>1, <1>2 DEF CloseDatabase, Release, Referenced
<1> QED
  BY <1>2, <1>3, <1>4 DEF OpenSessions

\* Every step of the handles is a step of the leases.
LEMMA StepIsLeaseStep == HandlesInv /\ [Next]_vars => [L!Next]_(L!vars)
<1> SUFFICES ASSUME HandlesInv, [Next]_vars PROVE [L!Next]_(L!vars)
  OBVIOUS
<1>0. Types
  BY DEF HandlesInv
<1>1. ASSUME NEW d \in Databases, NEW k \in Connections, OpenDatabase(d, k) PROVE L!Open(k)
  <2>1. k \notin OpenSessions
    BY <1>1 DEF OpenDatabase, OpenSessions
  <2>2. \A c \in Commands : cmdConn[c] # k
    BY <1>1 DEF OpenDatabase, HandlesInv, Counted, Referenced
  <2>3. OpenSessions' = OpenSessions \cup {k}
    BY <1>0, <1>1 DEF OpenDatabase, OpenSessions, Types
  <2>4. LastAnswer' = L!Silent
    BY <1>1 DEF OpenDatabase, Returns, LastAnswer, L!Silent
  <2> QED
    BY <1>1, <2>1, <2>2, <2>3, <2>4 DEF OpenDatabase, L!Open, cmdVars
<1>2. ASSUME NEW d \in Databases, OpenFails(d) \/ QueryDatabase(d) \/ PrepareFails(d)
      PROVE  L!Other
  BY <1>2 DEF OpenFails, QueryDatabase, PrepareFails, Returns, connVars, cmdVars,
              OpenSessions, LastAnswer, L!Other, L!Silent
<1>3. ASSUME NEW d \in Databases, NEW e \in Databases, NEW k \in Connections,
             MoveDatabase(d, e, k)
      PROVE  L!Other
  <2>1. OpenSessions' = OpenSessions
    BY <1>0, <1>3 DEF MoveDatabase, OpenSessions, Types
  <2> QED
    BY <1>3, <2>1 DEF MoveDatabase, Returns, cmdVars, LastAnswer, L!Other, L!Silent
<1>4. ASSUME NEW d \in Databases, CloseDatabase(d) PROVE L!Close(dbConn[d])
  BY <1>4, CloseEndsOne
     DEF CloseDatabase, Release, Returns, LastAnswer, L!Close, L!Silent
<1>5. ASSUME NEW d \in Databases, NEW c \in Commands, NEW q \in Sql,
             NEW s \in Stmts \cup {NoStmt},
             \/ Prepare(d, c, q, s)
             \/ \E given \in 0..MaxGiven : PrepareWith(d, c, q, s, given)
      PROVE  L!Grant(c, dbConn[d], q) \/ L!Other
  <2>1. OpenSessions' = OpenSessions
    BY <1>5 DEF Prepare, PrepareWith, connVars, OpenSessions
  <2>2. dbConn[d] \in OpenSessions /\ cmdConn[c] = NoConn
    BY <1>0, <1>5 DEF Prepare, PrepareWith, Compiles, OpenSessions, Types, HandlesInv, Slots
  <2>3. LastAnswer' = L!Silent
    BY <1>5 DEF Prepare, PrepareWith, Construct, Returns, LastAnswer, L!Silent
  <2>4. CASE Construct(d, c, q, s)
    BY <2>1, <2>2, <2>3, <2>4 DEF Construct, L!Grant
  <2>5. CASE UNCHANGED cmdVars
    BY <2>1, <2>3, <2>5 DEF cmdVars, L!Other
  <2> QED
    BY <1>5, <2>4, <2>5 DEF Prepare, PrepareWith
<1>6. ASSUME NEW c \in Commands, NEW e \in Commands, MoveCommand(c, e) PROVE L!Transfer(c, e)
  <2>1. cmdConn[e] = NoConn
    BY <1>6 DEF MoveCommand, HandlesInv, Slots
  <2> QED
    BY <1>6, <2>1 DEF MoveCommand, Returns, connVars, OpenSessions, LastAnswer,
                      L!Transfer, L!Silent
<1>7. ASSUME NEW c \in Commands, Execute(c) PROVE L!Run(c)
  <2>1. cmdConn[c] \in Connections /\ cmdConn[c] # NoConn
    BY <1>0, <1>7, HandlesAssumption DEF Execute, Types
  <2>2. LastAnswer' = [by |-> c,
                       res |-> IF sl3db[cmdConn[c]] = "open" THEN Reached(c)
                                                             ELSE "ErrNoConnection"]
    BY <1>7 DEF Execute, Returns, LastAnswer
  <2>3. CASE sl3db[cmdConn[c]] = "open"
    BY <1>7, <2>1, <2>2, <2>3, ReachedOwn
       DEF Execute, connVars, cmdVars, OpenSessions, L!Run
  <2>4. CASE sl3db[cmdConn[c]] # "open"
    BY <1>7, <2>1, <2>2, <2>4 DEF Execute, connVars, cmdVars, OpenSessions, L!Run
  <2> QED
    BY <2>3, <2>4
<1>8. ASSUME NEW c \in Commands, GetParameterNames(c) PROVE L!Other
  BY <1>8 DEF GetParameterNames, Returns, connVars, cmdVars, OpenSessions, LastAnswer,
              L!Other, L!Silent
<1>9. ASSUME NEW c \in Commands, DestroyCommand(c) PROVE L!End(c)
  BY <1>9, DestroyKeepsOpen
     DEF DestroyCommand, Release, Returns, LastAnswer, L!End, L!Silent
<1>10. CASE UNCHANGED vars
  BY <1>10 DEF vars, L!vars, OpenSessions, LastAnswer
<1> QED
  <2>1. ASSUME NEW d \in Databases, CloseDatabase(d) PROVE dbConn[d] \in Connections
    BY <1>0, <2>1 DEF CloseDatabase, Types
  <2>2. ASSUME NEW d \in Databases, NEW c \in Commands, NEW q \in Sql,
               NEW s \in Stmts \cup {NoStmt},
               \/ Prepare(d, c, q, s)
               \/ \E given \in 0..MaxGiven : PrepareWith(d, c, q, s, given)
        PROVE  dbConn[d] \in Connections
    BY <1>0, <2>2 DEF Prepare, PrepareWith, Types
  <2>3. CASE DatabaseNext
    BY <1>1, <1>2, <1>3, <1>4, <1>5, <2>1, <2>2, <2>3 DEF DatabaseNext, L!Next
  <2>4. CASE CommandNext
    BY <1>6, <1>7, <1>8, <1>9, <2>4 DEF CommandNext, L!Next
  <2> QED
    BY <2>3, <2>4, <1>10 DEF Next

\* Seen through the mapping, a program using Databases and Commands only ever
\* takes, uses and loses leases on sessions.
THEOREM Refinement == Spec => ImplementsLeases
<1>1. Init => L!Init
  BY HandlesAssumption DEF Init, L!Init, L!Silent, OpenSessions, LastAnswer
<1> QED
  BY <1>1, StepIsLeaseStep, Ownership, PTL DEF Spec, ImplementsLeases, L!Spec
=============================================================================
