CONSTANTS
    WordBits = 32
    MemBits = 5
    BigEndian = TRUE
    StraySlot = 0
    Program <- EndlessLoop
    Junk <- MCJunk
    InitialFiles <- MCFiles
    InitialMemories <- MCMemories
    Irqs = {0, 6, 7}
    RegisterWrites <- MCRegisterWrites
    GeneralWrites <- MCGeneralWrites
    MemoryWrites <- MCMemoryWrites
    Clients <- OneClient
    MaxBytes = 2
    MaxClients = 1
    Packets = {"c"}
    MaxPackets = 1
    CycleWrap = 2
    MaxCycles = 2
    MaxCalls = 7
SPECIFICATION FairSpec
PROPERTY RunningSimulatorTakesInterrupts
CHECK_DEADLOCK FALSE
