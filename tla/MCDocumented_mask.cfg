CONSTANTS
    WordBits = 32
    MemBits = 5
    BigEndian = TRUE
    StraySlot = 0
    Program <- MCProgram
    Junk <- MCJunk
    InitialFiles <- MCFiles
    InitialMemories <- MCMemories
    Irqs <- MCIrqs
    RegisterWrites <- MCRegisterWrites
    GeneralWrites <- Nothing
    MemoryWrites <- Nothing
    CycleWrap = 1000
    MaxCycles = 2
    MaxCalls = 1
SPECIFICATION Spec
PROPERTY MaskedInterruptsIgnored
CHECK_DEADLOCK FALSE
