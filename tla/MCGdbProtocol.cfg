CONSTANTS
    WordBits = 32
    MemBits = 4
    BigEndian = TRUE
    HostBigEndian = FALSE
    StraySlot = 0
    Program <- MCProgram
    Junk <- MCJunk
    InitialFiles <- MCFiles
    InitialMemories <- MCMemories
    Irqs = {}
    RegisterWrites <- MCRegisterWrites
    GeneralWrites <- MCGeneralWrites
    MemoryWrites <- MCMemoryWrites
    CycleWrap = 1
    MaxCycles = 0
    MaxCalls = 0
    MaxContinue = 1
    Commands <- MCCommands
    Targets <- SimulatedTargets
    Answers <- TextAnswers
    InitialTargets <- FreshTargets
    Outcomes <- Handle
    Kills <- MCKills
    Endless <- MCEndless
    Untimed <- MCUntimed
    Garbles <- MCGarbles
    NoCommand = NoCommand
    NoAnswer = NoAnswer
    NoText = NoAnswer
    MAX_ERROR_SIZE = 2
    MaxCommands = 2
    MaxFaults = 2
SPECIFICATION FairSpec
INVARIANTS TypeOK ErrorsFit ExecutionsBounded DebuggerReadsBack
PROPERTIES ExactlyOnce CommandsAnswered
CHECK_DEADLOCK FALSE
