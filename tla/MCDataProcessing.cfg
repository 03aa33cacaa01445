CONSTANTS
    WordBits = 4
    MemBits = 2
    BigEndian = TRUE
    StraySlot = 0
SPECIFICATION Spec
INVARIANTS TypeOK ArithmeticExact OverflowOfAdditions ConditionTablesAgree
CHECK_DEADLOCK FALSE
