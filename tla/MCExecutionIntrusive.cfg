CONSTANTS
    Databases = {d1}
    Commands = {c1, c2}
    Connections = {k1}
    Stmts = {s1, s2}
    plain = plain
    para = para
    Sql <- MCSql
    Blank <- MCBlank
    ParamCount <- MCParamCount
    RowCount <- MCRowCount
    MaxGiven = 1
    MaxDepth = 2
    NoConn = NoConn
    NoStmt = NoStmt
    NoSql = NoSql
    NoCommand = NoCommand
    InCallback = {"reenter", "parameters", "move", "destroy", "close"}
SPECIFICATION ExecSpec
SYMMETRY Symmetry
INVARIANTS ExecTypeOK IdleIsReset RowsInOrder ReentrySparesParameterized ColumnsShowTheRow
PROPERTIES AllRowsSeen
\* a program that has run into undefined behaviour is followed no further
CHECK_DEADLOCK FALSE
