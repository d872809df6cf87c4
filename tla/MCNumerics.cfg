CONSTANTS
    Slots = {p, q, r}
    IntMax = 15
    NarrowMax = 3
    One = 4
    Precision = 4
    MaxReal = 112
    NaN = NaN
    Rounded <- MCRounded
    Given <- MCGiven
SPECIFICATION Spec
INVARIANTS NumbersDoNotDrift UndefinedOnlyAtTheEdge ReadsAgree TypeOrderIsWeak OrdersAgree OrderFollowsSqlite DeclaredOrderIsStrict
SYMMETRY Symmetry
