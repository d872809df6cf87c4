CONSTANTS
    Slots = {v1, v2, v3}
    Data = {x1, x2}
    Junk = Junk
    NoSlot = NoSlot
    AllocMayFail = TRUE
SPECIFICATION ValuesSpec
SYMMETRY Symmetry
INVARIANTS DamageIsLocal
PROPERTIES ImplementsBoxes
\* a terminated program, or one in undefined behaviour, is followed no further
CHECK_DEADLOCK FALSE
