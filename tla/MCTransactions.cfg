CONSTANTS
    Databases = {d1, d2}
    Commands = {}
    Connections = {k1, k2, k3}
    Stmts = {}
    Sql = {}
    Blank = {}
    ParamCount <- MCParamCount
    MaxGiven = 0
    NoConn = NoConn
    NoStmt = NoStmt
    NoSql = NoSql
    NoCommand = NoCommand
    Guards = {g1, g2, g3}
    NoDb = NoDb
    MaxTx = 3
    MaxWrites = 1
    UnderGuard = {"move", "close"}
    SqliteRollsBack = TRUE
    RollbackFails = TRUE
SPECIFICATION WritesSpec
SYMMETRY Symmetry
INVARIANTS OneGuardPerTransaction NoStrayTransaction DurableIffCommitReturned DestructorsAreSafe WritesFollowTheirGuard
PROPERTIES WhoTakesATransaction ImplementsScopes
\* a terminated program takes no further step
CHECK_DEADLOCK FALSE
