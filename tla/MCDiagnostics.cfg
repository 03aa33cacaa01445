CONSTANTS
    MAX_FILES_NUMBER = 4
    Names <- MCNames
    MaxOptions = 5
    MaxNesting = 2
    MaxAccesses = 4
    StackSize = 4
    Nowhere = Nowhere
SPECIFICATION Spec
INVARIANTS TypeOK SearchFindsAsked StackMatches PrintsOwnPosition
CHECK_DEADLOCK FALSE
