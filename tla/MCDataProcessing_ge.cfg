CONSTANTS
    WordBits = 4
    MemBits = 2
    BigEndian = TRUE
    StraySlot = 0
SPECIFICATION Spec
INVARIANT GreaterOrEqualAfterCmp
CHECK_DEADLOCK FALSE
