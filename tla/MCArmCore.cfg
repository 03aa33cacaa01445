CONSTANTS
    WordBits = 32
    MemBits = 5
    BigEndian = TRUE
    StraySlot = 0
    Program <- MCProgram
    Junk <- MCJunk
    InitialFiles <- MCFiles
    InitialMemories <- MCMemories
    Irqs <- MCIrqs
    RegisterWrites <- MCRegisterWrites
    GeneralWrites <- MCGeneralWrites
    MemoryWrites <- MCMemoryWrites
    CycleWrap = 1000
    MaxCycles = 3
    MaxCalls = 2
SPECIFICATION SpecR
INVARIANT TypeOK
PROPERTIES BankIsolation ReturnResumes EntryKeepsProgram
CHECK_DEADLOCK FALSE
