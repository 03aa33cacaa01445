CONSTANTS
    WordBits = 32
    MemBits = 5
    BigEndian = TRUE
    StraySlot = 0
    Program <- MCProgram
    Junk <- MCJunk
    InitialFiles <- MCFiles
    InitialMemories <- MCMemories
    Irqs = {0, 6, 7}
    RegisterWrites <- MCRegisterWrites
    GeneralWrites <- MCGeneralWrites
    MemoryWrites <- MCMemoryWrites
    Clients <- MCClients
    MaxBytes = 2
    MaxClients = 2
    Packets = {"s", "c", "P", "G", "X", "read", "unsupported", "badChecksum"}
    MaxPackets = 2
    CycleWrap = 1000
    MaxCycles = 2
    MaxCalls = 7
SPECIFICATION FairSpec
INVARIANTS TypeOK GdbKeepsCore
PROPERTIES Atomicity InterruptsDelivered
CHECK_DEADLOCK FALSE
