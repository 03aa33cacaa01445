CONSTANTS
    WordBits = 32
    MemBits = 5
    BigEndian = TRUE
    StraySlot = 0
    Program <- MCStores
    Junk <- MCFill
    InitialFiles <- MCBaseFiles
    InitialMemories <- MCContents
    Irqs = {}
    RegisterWrites = {}
    GeneralWrites = {}
    MemoryWrites = {}
    CycleWrap = 1
    MaxCycles = 0
    MaxCalls = 0
SPECIFICATION TransferSpec
INVARIANTS TransferTypeOK LoadReadsWhatStoreWrote StoreStaysInRange FailedStoreKeepsWords
CHECK_DEADLOCK FALSE
