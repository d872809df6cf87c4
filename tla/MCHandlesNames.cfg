CONSTANTS
    Databases = {d1, d2}
    Commands = {c1, c2}
    Connections = {k1, k2, k3, k4}
    Stmts = {s1, s2, s3}
    plain = plain
    para = para
    blank = blank
    Sql <- MCSql
    Blank <- MCBlank
    ParamCount <- MCParamCount
    MaxGiven = 2
    NoConn = NoConn
    NoStmt = NoStmt
    NoSql = NoSql
    NoCommand = NoCommand
SPECIFICATION Spec
SYMMETRY Symmetry
INVARIANTS UseAfterCloseThrows
