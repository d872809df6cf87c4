CONSTANTS
    Rows = {params, row}
    Params = params
    NoRow = NoRow
    Width = 2
    Layouts <- MCLayouts
    Kinds = {"int", "Int", "Text"}
    Data = {x}
    Junk = Junk
    AllocMayFail = TRUE
SPECIFICATION Spec
INVARIANTS TypeGuarantee LayoutsStayWhole KeptParametersRun
PROPERTIES RefusedAssignmentChangesNothing
\* a program with a half assigned value is followed no further
CHECK_DEADLOCK FALSE
