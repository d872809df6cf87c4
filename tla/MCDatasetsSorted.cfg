CONSTANTS
    Sets = {d, e}
    TypeLists <- MCTypeLists
    Queries <- MCGreatQueries
    GivenRows = {}
    NewCells = {}
    SortKeys <- MCSortKeys
    Comparators = {"dbval_lt"}
    MaxRows = 3
    MaxTouched = 2
    IntMax = 15
    NarrowMax = 3
    One = 4
    Precision = 4
    MaxReal = 112
    NaN = NaN
    Rounded <- MCRounded
SPECIFICATION Spec
PROPERTIES SortsLikeSqlite
