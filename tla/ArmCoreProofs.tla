----------------------------- MODULE ArmCoreProofs -----------------------------
(***************************************************************************)
(* ArmCore and InterruptReturn for every program, memory size, sequence of *)
(* interrupts and of debugger packets: the types, the isolation of the     *)
(* register banks, and the way back of a handler: an entry leaves the      *)
(* registers of the program it interrupts, and a handler that kept its lr  *)
(* and its saved status returns to it.                                     *)
(***************************************************************************)
EXTENDS InterruptReturn, CoreLemmas

---------------------------------------------------------------------------
(* The actions.                                                            *)

\* What BankIsolationStep allows a step from the registers r to s.
Isolated(r, s) ==
    \A slot \in Slots :
        s[slot] # r[slot] =>
            slot \in Bank(get_mode(r)) \cup EntryBank(get_mode(s)) \cup CommonSlots

\* A step of the processor: what the instruction may write, then what the
\* exception it raised may.
LEMMA StepIsolated ==
    ASSUME NEW r \in RegisterFile, NEW m \in MemoryContent, NEW ins \in Word,
           NEW junk \in JunkLocals,
           arm_step(r, m, ins, junk).result \notin ProcessEnds
    PROVE  /\ arm_step(r, m, ins, junk).regs \in RegisterFile
           /\ arm_step(r, m, ins, junk).mem \in MemoryContent
           /\ Isolated(r, arm_step(r, m, ins, junk).regs)
<1> DEFINE done == arm_execute_instruction(r, m, ins, junk)
           after == arm_exception(done.regs, done.result)
<1>1. OutcomeStays(r, done)
    BY InstructionStays
<1>2. Enters(done.regs, after)
    BY <1>1, ExceptionEnters DEF OutcomeStays, StaysIn
<1>3. arm_step(r, m, ins, junk) = Outcome(after, done.mem, done.result)
    BY DEF arm_step, TakeResult, done, after
<1> HIDE DEF done, after
<1>4. Isolated(r, after)
    BY <1>1, <1>2 DEF OutcomeStays, StaysIn, Reach, Enters, Isolated
<1>5. arm_step(r, m, ins, junk).regs = after /\ arm_step(r, m, ins, junk).mem = done.mem
    BY <1>3, OutcomeFields
<1> QED
    BY <1>1, <1>2, <1>4, <1>5 DEF OutcomeStays, Enters

\* An interrupt, or any code handed to arm_exception.
LEMMA ExceptionIsolated ==
    ASSUME NEW r \in RegisterFile, NEW exception
    PROVE  /\ arm_exception(r, exception) \in RegisterFile
           /\ Isolated(r, arm_exception(r, exception))
BY ExceptionEnters DEF Enters, Isolated

\* A P packet.
LEMMA WriteRegisterIsolated ==
    ASSUME NEW r \in RegisterFile, NEW p \in RegisterWrites
    PROVE  /\ RegisterWritten(r, p) \in RegisterFile
           /\ Isolated(r, RegisterWritten(r, p))
<1>1. p[2] \in Word
    BY ArmCoreAssumption
<1> QED
    BY <1>1, WriteRegisterStays DEF RegisterWritten, StaysIn, Reach, Isolated

\* A G packet.
LEMMA WriteGeneralIsolated ==
    ASSUME NEW r \in RegisterFile, NEW p \in GeneralWrites
    PROVE  /\ GeneralWritten(r, p) \in RegisterFile
           /\ Isolated(r, GeneralWritten(r, p))
<1> DEFINE s == write_registers(r, 0..15, p[1])
           t == write_cpsr(s, p[2])
<1>1. p[1] \in [0..15 -> Word] /\ p[2] \in Word
    BY ArmCoreAssumption
<1>2. StaysIn(r, s)
    BY <1>1, WriteRegistersStays
<1> HIDE DEF s
<1>3. /\ t \in RegisterFile
      /\ \A slot \in Slots \ CommonSlots : t[slot] = s[slot]
    BY <1>1, <1>2, WriteCpsrStays DEF StaysIn
<1> HIDE DEF t
<1>4. StaysIn(r, t)
    BY <1>2, <1>3, StaysThenCommon
<1>5. t \in RegisterFile /\ Isolated(r, t)
    BY <1>4 DEF StaysIn, Reach, Isolated
<1> QED
    BY <1>5 DEF GeneralWritten, s, t

---------------------------------------------------------------------------
(* The theorems.                                                           *)

\* arm_create and memory_create leave a well-typed core.
LEMMA InitTyped == Init => TypeOK
<1> SUFFICES ASSUME Init PROVE TypeOK
    OBVIOUS
<1>1. regs \in RegisterFile
    BY CreateTyped DEF Init, Created
<1>2. mem \in MemoryContent
    BY ArmCoreAssumption DEF Init
<1>3. cycle_count \in 0..MaxCycles /\ calls \in 0..MaxCalls
    BY ArmCoreAssumption DEF Init
<1> QED
    BY <1>1, <1>2, <1>3 DEF Init, TypeOK

\* Every step keeps the types and isolates the banks.
LEMMA NextKeeps ==
    ASSUME TypeOK, [Next]_vars
    PROVE  TypeOK' /\ Isolated(regs, regs')
<1> USE DEF TypeOK
<1>1. CASE Step
    <2>1. PICK ins \in Program, junk \in JunkLocals : StepOf(ins, junk)
        BY <1>1 DEF Step
    <2>2. ins \in Word
        BY ArmCoreAssumption
    <2> DEFINE done == arm_step(regs, mem, ins, junk)
    <2>3. cycle_count' \in 0..MaxCycles /\ calls' = calls
        BY <2>1, CounterInBound DEF StepOf
    <2>4. CASE done.result \in ProcessEnds
        <3>1. ended' = done.result /\ regs' = regs /\ mem' = mem
            BY <2>1, <2>4 DEF StepOf
        <3> QED
            BY <2>3, <2>4, <3>1 DEF Isolated
    <2>5. CASE done.result \notin ProcessEnds
        <3>1. ended' = 0 /\ regs' = done.regs /\ mem' = done.mem
            BY <2>1, <2>5 DEF StepOf
        <3>2. done.regs \in RegisterFile /\ done.mem \in MemoryContent /\ Isolated(regs, done.regs)
            BY <2>2, <2>5, StepIsolated
        <3> QED
            BY <2>3, <3>1, <3>2
    <2> QED
        BY <2>4, <2>5
<1>2. ASSUME Call
      PROVE  cycle_count' \in 0..MaxCycles /\ calls' \in 0..MaxCalls
             /\ ended' \in {0} \cup ProcessEnds
    BY <1>2, ArmCoreAssumption DEF Call
<1>3. CASE \E irq \in Irqs : Interrupt(irq)
    <2>1. PICK irq \in Irqs : Interrupt(irq)
        BY <1>3
    <2> QED
        BY <1>2, <2>1, ExceptionIsolated DEF Interrupt
<1>4. CASE WriteRegister
    BY <1>2, <1>4, WriteRegisterIsolated DEF WriteRegister
<1>5. CASE WriteGeneralRegisters
    BY <1>2, <1>5, WriteGeneralIsolated DEF WriteGeneralRegisters
<1>6. CASE WriteMemory
    <2>1. mem' \in MemoryContent
        BY <1>6, MemoryWrittenTyped DEF WriteMemory
    <2>2. regs' = regs /\ Call
        BY <1>6 DEF WriteMemory
    <2> QED
        BY <1>2, <2>1, <2>2 DEF Isolated
<1>7. CASE UNCHANGED vars
    BY <1>7 DEF vars, Isolated
<1> QED
    BY <1>1, <1>3, <1>4, <1>5, <1>6, <1>7 DEF Next, DebuggerWrite

\* Whatever the program, the interrupts and the debugger's packets, the core
\* keeps its types: no instruction of arm_instruction.c and no exception entry
\* makes a word wider than 32 bits or writes outside the register file or the
\* memory, and the cycle counter stays within its bound.
THEOREM TypeCorrect == Spec => []TypeOK
<1>1. TypeOK /\ [Next]_vars => TypeOK'
    BY NextKeeps
<1> QED
    BY InitTyped, <1>1, PTL DEF Spec

\* Whatever the program, the interrupts and the debugger's packets, a step of
\* the core changes no register but those of the bank it starts in and the sp
\* and lr of a handler it enters (write_register, execute_).
THEOREM BanksIsolated == Spec => BankIsolation
<1>1. TypeOK /\ [Next]_vars => BankIsolationStep
    BY NextKeeps DEF Isolated, BankIsolationStep
<1>2. TypeOK /\ [Next]_vars => [BankIsolationStep]_vars
    BY <1>1
<1> QED
    BY TypeCorrect, <1>2, PTL DEF Spec, BankIsolation

---------------------------------------------------------------------------
(* Arithmetic of the pc.                                                   *)

\* The pc as an instruction reads it has bit 1 clear, so that fetching from it
\* less 4 and reading it again gives the same.
LEMMA FetchAgain ==
    ASSUME NEW pc
    PROVE  AheadOfFetch(Sub(AheadOfFetch(pc), {2})) = AheadOfFetch(pc)
<1> DEFINE lr == AheadOfFetch(pc)
<1>1. lr \in Word /\ 1 \notin lr
  BY SumsAreWords DEF AheadOfFetch, clr_bit, Word
<1> HIDE DEF lr
<1>2. Add(Sub(lr, {2}), {2}) = lr
  BY <1>1, AddBack
<1>3. AheadOfFetch(Sub(lr, {2})) = lr \ {1}
  BY <1>2, Four DEF AheadOfFetch, clr_bit
<1> QED BY <1>1, <1>3 DEF lr

---------------------------------------------------------------------------
(* The entry.                                                              *)

\* The modes interrupts are handled in, and the slots of their registers.
HandlerModes == {IRQ, FIQ}

\* The modes with registers of their own, and where they keep the pc.
LEMMA NamedSlots ==
    ASSUME NEW r, get_mode(r) \in NamedModes
    PROVE  4 \in get_mode(r) /\ Slot(r, PC) = 15
<1>1. 4 \in get_mode(r)
  BY DEF NamedModes, ExceptionModes, USR, FIQ, IRQ, SVC, ABT, UND, SYS
<1>2. ModeSlot(get_mode(r), 15) = 15
  BY ModesDiffer DEF NamedModes, ExceptionModes, ModeSlot
<1> QED BY <1>1, <1>2 DEF Slot, PC

\* sp, lr and the saved status in the mode of a handler.
LEMMA HandlerSlots ==
    ASSUME NEW r, get_mode(r) \in HandlerModes
    PROVE  /\ Slot(r, SP) \in {26, 34} /\ Slot(r, LR) = LinkSlot(get_mode(r))
           /\ LinkSlot(get_mode(r)) \in {27, 35}
           /\ Slot(r, PC) = 15
           /\ has_spsr(r) /\ current_mode_has_spsr(r) /\ SpsrSlot(r) = SpsrHome
<1>1. get_mode(r) \in NamedModes /\ get_mode(r) \in ExceptionModes
  BY DEF HandlerModes, NamedModes, ExceptionModes
<1>2. 4 \in get_mode(r) /\ Slot(r, PC) = 15
  BY <1>1, NamedSlots
<1>3. ModeSlot(get_mode(r), 13) \in {26, 34} /\ ModeSlot(get_mode(r), 14) = LinkSlot(get_mode(r))
  BY ModesDiffer DEF HandlerModes, ModeSlot, LinkSlot, R13_IRQ, R8_FIQ
<1>4. has_spsr(r) /\ current_mode_has_spsr(r)
  BY <1>1, ModesDiffer DEF HandlerModes, has_spsr, current_mode_has_spsr
<1> QED BY <1>2, <1>3, <1>4 DEF Slot, SP, LR, SpsrSlot, SpsrColumn, SpsrHome, LinkSlot

\* execute_ for an interrupt: the handler's mode, its lr and the saved status;
\* the registers r1 to r14 of user mode stay.
LEMMA InterruptEnters ==
    ASSUME NEW r \in RegisterFile, NEW irq \in {INTERRUPT, FAST_INTERRUPT}
    PROVE  LET s == arm_exception(r, irq) IN
           /\ get_mode(s) = EntryMode(irq) /\ EntryMode(irq) \in HandlerModes
           /\ s[LinkSlot(EntryMode(irq))] = arm_read_register(r, PC)
           /\ s[SpsrHome] = read_cpsr(r)
           /\ \A slot \in 1..14 : s[slot] = r[slot]
<1> DEFINE mode == EntryMode(irq)
           cpsr == read_cpsr(r)
           sp   == arm_read_register(r, SP)
           addr == arm_read_register(r, PC)
           inMode  == EntryCpsr(r, irq)
           withSp  == EntrySp(inMode, sp)
           stacked == EntryLr(withSp, addr)
           saved   == EntrySpsr(stacked, irq, cpsr)
           final   == branch_exception_vector(saved, irq)
<1>1. irq \in Exceptions /\ mode \in HandlerModes /\ SavesSpsr(irq) /\ ReturnAddress(r, irq) = addr
  BY DEF Exceptions, RESET, PREFETCH_ABORT, DATA_ABORT, INTERRUPT, FAST_INTERRUPT, EntryMode,
      UNDEFINED_INSTRUCTION, SOFTWARE_INTERRUPT, HandlerModes, SavesSpsr, ReturnAddress
<1>2. arm_exception(r, irq) = final
  BY <1>1 DEF arm_exception, execute_
<1>3. cpsr \in Word /\ sp \in Word /\ addr \in Word /\ Vector(irq) \in Word
  BY <1>1, ReadsAreWords, VectorIsWord
<1>4. /\ ExceptionCpsr(cpsr, irq) \in Word
      /\ ExceptionCpsr(cpsr, irq) \cap ModeBits = mode
  BY <1>1, <1>3, ExceptionCpsrMode
<1> HIDE DEF cpsr, sp, addr
<1>5. /\ inMode \in RegisterFile /\ get_mode(inMode) = mode
      /\ \A slot \in Slots \ {CPSR} : inMode[slot] = r[slot]
  BY <1>4 DEF EntryCpsr, write_cpsr, get_mode, RegisterFile, CPSR, Slots, NB_REGISTER, cpsr
<1> HIDE DEF inMode, mode
<1>6. CPSR \in Slots
  BY DEF Slots, NB_REGISTER, CPSR
<1>7. /\ withSp \in RegisterFile /\ get_mode(withSp) = mode
      /\ \A slot \in Slots \ {CPSR, 26, 34} : withSp[slot] = r[slot]
  <2> DEFINE k == Slot(inMode, SP)
  <2>1. k \in {26, 34}
    BY <1>1, <1>5, HandlerSlots
  <2>2. withSp = [inMode EXCEPT ![k] = sp]
    BY DEF EntrySp, write_register, is_valid, SP
  <2>3. k \in Slots \ {CPSR}
    BY <2>1 DEF Slots, NB_REGISTER, CPSR
  <2> HIDE DEF withSp, k
  <2>4. /\ withSp \in RegisterFile /\ get_mode(withSp) = mode
        /\ \A slot \in Slots \ {k} : withSp[slot] = inMode[slot]
    BY <1>6, <1>3, <1>5, <2>2, <2>3 DEF RegisterFile, get_mode
  <2> QED BY <1>5, <2>1, <2>4
<1> HIDE DEF withSp
<1>8. /\ stacked \in RegisterFile /\ get_mode(stacked) = mode
      /\ stacked[LinkSlot(mode)] = addr
      /\ \A slot \in Slots \ {CPSR, 26, 34, 27, 35} : stacked[slot] = r[slot]
  <2> DEFINE k == Slot(withSp, LR)
  <2>1. k = LinkSlot(mode) /\ k \in {27, 35}
    BY <1>1, <1>7, HandlerSlots
  <2>2. stacked = [withSp EXCEPT ![k] = addr]
    BY DEF EntryLr, write_register, is_valid, LR
  <2>3. k \in Slots \ {CPSR}
    BY <2>1 DEF Slots, NB_REGISTER, CPSR
  <2> HIDE DEF stacked, k
  <2>4. /\ stacked \in RegisterFile /\ get_mode(stacked) = mode /\ stacked[k] = addr
        /\ \A slot \in Slots \ {k} : stacked[slot] = withSp[slot]
    BY <1>6, <1>3, <1>7, <2>2, <2>3 DEF RegisterFile, get_mode
  <2> QED BY <1>7, <2>1, <2>4
<1> HIDE DEF stacked
<1>9. LinkSlot(mode) \in {27, 35}
  BY DEF LinkSlot
<1>10. /\ saved \in RegisterFile /\ get_mode(saved) = mode
       /\ saved[LinkSlot(mode)] = addr /\ saved[SpsrHome] = cpsr
       /\ \A slot \in Slots \ {CPSR, 26, 34, 27, 35, 0} : saved[slot] = r[slot]
  <2>1. has_spsr(stacked) /\ SpsrSlot(stacked) = SpsrHome
    BY <1>1, <1>8, HandlerSlots
  <2>2. saved = [stacked EXCEPT ![SpsrHome] = cpsr]
    BY <1>1, <2>1 DEF EntrySpsr, write_spsr
  <2>3. SpsrHome \in Slots \ {CPSR} /\ SpsrHome = 0 /\ LinkSlot(mode) \in Slots \ {0}
    BY <1>9 DEF Slots, NB_REGISTER, CPSR, SpsrHome
  <2> HIDE DEF saved
  <2>4. /\ saved \in RegisterFile /\ get_mode(saved) = mode /\ saved[SpsrHome] = cpsr
        /\ \A slot \in Slots \ {SpsrHome} : saved[slot] = stacked[slot]
    BY <1>6, <1>3, <1>8, <2>2, <2>3 DEF RegisterFile, get_mode
  <2> QED BY <1>8, <2>3, <2>4
<1> HIDE DEF saved
<1>11. /\ get_mode(final) = mode
       /\ final[LinkSlot(mode)] = addr /\ final[SpsrHome] = cpsr
       /\ \A slot \in Slots \ {CPSR, 26, 34, 27, 35, 0, 15} : final[slot] = r[slot]
  <2> DEFINE k == Slot(saved, PC)
  <2>1. k = 15
    BY <1>1, <1>10, HandlerSlots
  <2>2. final = [saved EXCEPT ![k] = Vector(irq)]
    BY DEF branch_exception_vector, write_register, is_valid, PC
  <2>3. k \in Slots \ {CPSR} /\ SpsrHome \in Slots \ {k} /\ LinkSlot(mode) \in Slots \ {k}
    BY <1>9, <2>1 DEF Slots, NB_REGISTER, CPSR, SpsrHome
  <2> HIDE DEF final, k
  <2>4. get_mode(final) = mode /\ \A slot \in Slots \ {k} : final[slot] = saved[slot]
    BY <1>6, <1>3, <1>10, <2>2, <2>3 DEF RegisterFile, get_mode
  <2> QED BY <1>10, <2>1, <2>3, <2>4
<1>12. 1..14 \subseteq Slots \ {CPSR, 26, 34, 27, 35, 0, 15}
  BY DEF Slots, NB_REGISTER, CPSR
<1> QED BY <1>1, <1>2, <1>11, <1>12 DEF mode, cpsr, addr

---------------------------------------------------------------------------
(* The frame.                                                              *)

Frames == [open : BOOLEAN, mode : {{}} \cup HandlerModes, cpsr : Word, next : Word]

\* The frame is open as long as the lr of the handler is the pc the interrupted
\* program read, next is four below it, and the saved status is its CPSR.
FrameInv ==
    /\ frame \in Frames
    /\ frame.open =>
        /\ frame.mode \in HandlerModes
        /\ frame.cpsr \cap ModeBits \in NamedModes
        /\ \E pc : regs[LinkSlot(frame.mode)] = AheadOfFetch(pc)
        /\ frame.next = Sub(regs[LinkSlot(frame.mode)], FromNat(4))
        /\ regs[SpsrHome] = frame.cpsr

\* execute_ opens a frame that can be resumed.
LEMMA OpenedFrame ==
    ASSUME TypeOK, NEW irq \in {INTERRUPT, FAST_INTERRUPT}, Interrupt(irq),
           frame' = Opened(EntryMode(irq))
    PROVE  FrameInv'
<1> DEFINE mode == EntryMode(irq)
<1>1. regs \in RegisterFile /\ regs' = arm_exception(regs, irq)
  BY DEF TypeOK, Interrupt
<1>2. /\ mode \in HandlerModes
      /\ regs'[LinkSlot(mode)] = arm_read_register(regs, PC)
      /\ regs'[SpsrHome] = read_cpsr(regs)
  BY <1>1, InterruptEnters
<1>3. read_cpsr(regs) \in Word /\ FetchAddress(regs) \in Word
  BY <1>1, ReadsAreWords, SumsAreWords DEF FetchAddress
<1>4. /\ frame'.open = (get_mode(regs) \in NamedModes) /\ frame'.mode = mode
      /\ frame'.cpsr = read_cpsr(regs) /\ frame'.next = FetchAddress(regs)
      /\ frame' \in Frames
  BY <1>2, <1>3 DEF Opened, Frames
<1>5. read_cpsr(regs) \cap ModeBits = get_mode(regs)
  BY DEF read_cpsr, get_mode
<1>6. arm_read_register(regs, PC) = AheadOfFetch(read_register(regs, PC))
  BY DEF arm_read_register
<1>7. FetchAddress(regs) = Sub(regs'[LinkSlot(mode)], FromNat(4))
  BY <1>2 DEF FetchAddress
<1> HIDE DEF mode
<1> QED BY <1>2, <1>4, <1>5, <1>6, <1>7 DEF FrameInv

\* Any other step leaves the frame resumable, or closes it.
LEMMA KeptFrame ==
    ASSUME FrameInv, Kept
    PROVE  FrameInv'
<1>1. frame \in Frames
  BY DEF FrameInv
<1> DEFINE still == /\ frame.open
                    /\ regs'[LinkSlot(frame.mode)] = regs[LinkSlot(frame.mode)]
                    /\ regs'[SpsrHome] = regs[SpsrHome]
<1>2. frame' = [frame EXCEPT !.open = still] /\ still \in BOOLEAN
  BY <1>1 DEF Kept, Frames
<1>3. /\ frame' \in Frames /\ frame'.open = still /\ frame'.mode = frame.mode
      /\ frame'.cpsr = frame.cpsr /\ frame'.next = frame.next
  <2> HIDE DEF still
  <2> QED BY <1>1, <1>2 DEF Frames
<1> QED BY <1>3 DEF FrameInv

\* FrameInv holds at first and is kept by every step.
LEMMA FrameInvariant ==
    (InitR => FrameInv) /\ (TypeOK /\ FrameInv /\ [NextR]_varsR => FrameInv')
<1>1. ASSUME InitR PROVE FrameInv
  BY <1>1 DEF InitR, NoFrame, FrameInv, Frames, Word
<1>2. ASSUME TypeOK, FrameInv, [NextR]_varsR PROVE FrameInv'
  <2>1. CASE UNCHANGED varsR
    BY <1>2, <2>1 DEF varsR, vars, FrameInv
  <2>2. CASE Kept
    BY <1>2, <2>2, KeptFrame
  <2>3. ASSUME NEW irq \in Irqs, Interrupt(irq),
               CASE irq = INTERRUPT -> frame' = Opened(IRQ)
                 [] irq = FAST_INTERRUPT -> frame' = Opened(FIQ)
                 [] OTHER -> Kept
        PROVE  FrameInv'
    <3>1. EntryMode(INTERRUPT) = IRQ /\ EntryMode(FAST_INTERRUPT) = FIQ /\ INTERRUPT # FAST_INTERRUPT
      BY DEF EntryMode, RESET, PREFETCH_ABORT, DATA_ABORT, INTERRUPT, FAST_INTERRUPT,
          UNDEFINED_INSTRUCTION, SOFTWARE_INTERRUPT
    <3> QED BY <1>2, <2>3, <2>2, <3>1, OpenedFrame
  <2> QED BY <1>2, <2>1, <2>2, <2>3 DEF NextR
<1> QED BY <1>1, <1>2

\* The core of SpecR is that of Spec.
LEMMA CoreTyped == (InitR => TypeOK) /\ (TypeOK /\ [NextR]_varsR => TypeOK')
<1>1. [NextR]_varsR => [Next]_vars
  BY DEF NextR, Next, varsR
<1> QED BY <1>1, InitTyped, NextKeeps DEF InitR

---------------------------------------------------------------------------
(* The return.                                                             *)

\* The fields of subs pc, lr, #4.
LEMMA ReturnFields ==
    /\ get_bits(ReturnInstruction, 31, 28) = AL /\ AL # NeverCondition
    /\ get_bits(ReturnInstruction, 27, 25) = {0}
    /\ ~IsMsr(ReturnInstruction)
    /\ get_bits(ReturnInstruction, 24, 21) = SUB
    /\ ToNat(get_bits(ReturnInstruction, 15, 12)) = PC
    /\ ToNat(get_bits(ReturnInstruction, 19, 16)) = LR
    /\ get_bit(ReturnInstruction, 20)
    /\ ror(get_bits(ReturnInstruction, 7, 0), 2 * ToNat(get_bits(ReturnInstruction, 11, 8))) = {2}
<1> DEFINE i == ReturnInstruction
<1>1. /\ i \cap (28..31) = {31, 30, 29} /\ i \cap (25..27) = {25} /\ i \cap (23..24) = {}
      /\ i \cap (21..24) = {22} /\ i \cap (12..15) = {15, 14, 13, 12}
      /\ i \cap (16..19) = {19, 18, 17} /\ i \cap (0..7) = {2} /\ i \cap (8..11) = {} /\ 20 \in i
  BY DEF ReturnInstruction
<1> HIDE DEF i
<1>2. get_bits(i, 31, 28) = {3, 2, 1} /\ get_bits(i, 27, 25) = {0} /\ get_bits(i, 24, 23) = {}
  BY <1>1 DEF get_bits
<1>3. get_bits(i, 24, 21) = {1} /\ get_bits(i, 7, 0) = {2} /\ get_bits(i, 11, 8) = {}
  BY <1>1 DEF get_bits
<1>4. get_bits(i, 15, 12) = {3, 2, 1, 0} /\ get_bits(i, 19, 16) = {3, 2, 1}
  BY <1>1 DEF get_bits
<1>5. ToNat({}) = 0 /\ ToNat({3, 2, 1, 0}) = 15 /\ ToNat({3, 2, 1}) = 14
  BY DEF ToNat, BitValue
<1>6. ror({2}, 2 * 0) = {2}
  <2>1. (2 - 2 * 0) % 32 = 2
    OBVIOUS
  <2> QED BY <2>1, WordWidth DEF ror
<1>7. ~IsMsr(i)
  BY <1>2 DEF IsMsr, IsStatusAccess
<1>8. {3, 2, 1} # {3, 2, 1, 0}
  <2>1. 0 \in {3, 2, 1, 0} /\ 0 \notin {3, 2, 1}
    OBVIOUS
  <2> QED BY <2>1
<1> QED
  BY <1>1, <1>2, <1>3, <1>4, <1>5, <1>6, <1>7, <1>8
  DEF i, AL, NeverCondition, SUB, PC, LR, get_bit

\* arm_step for that instruction, when it is fetched in the mode of a handler:
\* the pc becomes the lr less 4 and the CPSR the saved status.
LEMMA ReturnStep ==
    ASSUME NEW r \in RegisterFile, NEW m, NEW junk, get_mode(r) \in HandlerModes,
           Access(FetchAddress(r), 4) = 0
    PROVE  LET done == arm_step(r, m, ReturnInstruction, junk) IN
           /\ done.result = 0
           /\ done.regs[15] = Sub(r[LinkSlot(get_mode(r))], {2})
           /\ done.regs[CPSR] = r[SpsrHome]
<1> DEFINE ins == ReturnInstruction
           f == AfterFetch(r)
           lr == r[LinkSlot(get_mode(r))]
           target == Sub(lr, {2})
           written == write_register(f, PC, target)
           final == write_cpsr(written, read_spsr(written))
\* The fetch.
<1>1. /\ f \in RegisterFile /\ get_mode(f) = get_mode(r)
      /\ \A slot \in Slots \ {15} : f[slot] = r[slot]
  <2> DEFINE next == Add(FetchAddress(r), FromNat(4))
             k == Slot(r, PC)
  <2>1. k = 15 /\ next \in Word
    BY HandlerSlots, SumsAreWords
  <2>2. f = [r EXCEPT ![k] = next]
    BY DEF AfterFetch, write_register, is_valid, PC
  <2>3. CPSR \in Slots \ {15} /\ 15 \in Slots
    BY DEF Slots, NB_REGISTER, CPSR
  <2> HIDE DEF f, next, k
  <2> QED BY <2>1, <2>2, <2>3 DEF RegisterFile, get_mode
<1> HIDE DEF f
\* The operands.
<1>2. arm_read_register(f, LR) = lr
  <2>1. Slot(f, LR) = LinkSlot(get_mode(r)) /\ LinkSlot(get_mode(r)) \in {27, 35}
    BY <1>1, HandlerSlots
  <2>2. LinkSlot(get_mode(r)) \in Slots \ {15}
    BY <2>1 DEF Slots, NB_REGISTER
  <2>3. arm_read_register(f, LR) = f[Slot(f, LR)]
    BY DEF arm_read_register, read_register, is_valid, LR, PC
  <2> QED BY <1>1, <2>1, <2>2, <2>3
\* The two writes.
<1>3. /\ target \in Word /\ written \in RegisterFile /\ get_mode(written) = get_mode(r)
      /\ written[15] = target /\ written[SpsrHome] = r[SpsrHome]
  <2> DEFINE k == Slot(f, PC)
  <2>1. k = 15 /\ target \in Word
    BY <1>1, HandlerSlots, SumsAreWords
  <2>2. written = [f EXCEPT ![k] = target]
    BY DEF write_register, is_valid, PC
  <2>3. CPSR \in Slots \ {15} /\ 15 \in Slots /\ SpsrHome \in Slots \ {15}
    BY DEF Slots, NB_REGISTER, CPSR, SpsrHome
  <2> HIDE DEF written, target, k
  <2> QED BY <1>1, <2>1, <2>2, <2>3 DEF RegisterFile, get_mode
<1>4. /\ current_mode_has_spsr(written) /\ read_spsr(written) = r[SpsrHome]
  <2> HIDE DEF written
  <2> QED BY <1>3, HandlerSlots DEF read_spsr
<1>5. final[15] = target /\ final[CPSR] = r[SpsrHome]
  <2>1. CPSR \in Slots /\ 15 \in Slots \ {CPSR}
    BY DEF Slots, NB_REGISTER, CPSR
  <2> HIDE DEF written, target
  <2> QED BY <1>3, <1>4, <2>1 DEF write_cpsr, RegisterFile
\* The decoding.
<1>6. \A c : Result(SUB, lr, {2}, c) = target
  <2>1. SUB \notin {AND, TST, EOR, TEQ, RSB, ADD, CMN}
    BY DEF SUB, AND, TST, EOR, TEQ, RSB, ADD, CMN
  <2>2. SUB \notin {ADC, SBC, RSC, ORR, MOV, BIC}
    BY DEF SUB, ADC, SBC, RSC, ORR, MOV, BIC
  <2> HIDE DEF lr
  <2> QED BY <2>1, <2>2 DEF Result
<1>7. SUB \notin Tests
  BY DEF SUB, Tests, TST, TEQ, CMP, CMN
<1>8. executeInst(SUB, f, PC, lr, {2}, TRUE) = final
  <2> HIDE DEF target
  <2> QED BY <1>4, <1>6, <1>7 DEF executeInst
<1> HIDE DEF final, ins
<1>9. arm_data_processing_immediate_msr(f, ins) = final
  BY <1>2, <1>8, ReturnFields DEF arm_data_processing_immediate_msr, ins
<1>10. Dispatch(f, m, ins, junk) = Outcome(final, m, 0)
  BY <1>9, ReturnFields DEF Dispatch, ins
<1>11. arm_execute_instruction(r, m, ins, junk) = Outcome(final, m, 0)
  <2>1. Execute(f, m, ins, junk) = Dispatch(f, m, ins, junk)
    BY ReturnFields DEF Execute, ins
  <2>2. FAULT # 0 /\ SEGV # 0
    BY DEF FAULT, SEGV
  <2> QED BY <1>10, <2>1, <2>2 DEF arm_execute_instruction, f
<1>12. arm_step(r, m, ins, junk) = Outcome(final, m, 0)
  <2>1. 0 \notin ProcessEnds /\ 0 \notin Exceptions
    BY DEF ProcessEnds, EXIT, ABORT, SEGV, Exceptions, RESET, FAST_INTERRUPT
  <2> QED BY <1>11, <2>1, OutcomeFields DEF arm_step, TakeResult, arm_exception
<1> QED BY <1>5, <1>12, OutcomeFields DEF ins, target, lr

\* execute_ and executeInst together: whatever program, interrupts and packets
\* ran in between, a handler that kept its lr and the saved status returns, by
\* subs pc, lr, #4, to the instruction and to the CPSR that were interrupted.
THEOREM HandlerReturns == SpecR => ReturnResumes
<1>1. TypeOK /\ FrameInv => ReturnResumesStep
  <2> SUFFICES ASSUME TypeOK, FrameInv, frame.open, get_mode(regs) = frame.mode,
                      Access(FetchAddress(regs), 4) = 0,
                      NEW junk \in JunkLocals, StepOf(ReturnInstruction, junk)
               PROVE  read_cpsr(regs') = frame.cpsr /\ FetchAddress(regs') = frame.next
    BY DEF ReturnResumesStep
  <2> DEFINE lr == regs[LinkSlot(frame.mode)]
             done == arm_step(regs, mem, ReturnInstruction, junk)
  <2>1. PICK pc : lr = AheadOfFetch(pc)
    BY DEF FrameInv
  <2>2. /\ regs \in RegisterFile /\ get_mode(regs) \in HandlerModes
        /\ frame.next = Sub(lr, {2}) /\ regs[SpsrHome] = frame.cpsr
        /\ frame.cpsr \cap ModeBits \in NamedModes
    BY Four DEF TypeOK, FrameInv
  <2>3. done.result = 0 /\ done.regs[15] = Sub(lr, {2}) /\ done.regs[CPSR] = frame.cpsr
    BY <2>2, ReturnStep
  <2>4. regs' = done.regs
    <3>1. 0 \notin ProcessEnds
      BY DEF ProcessEnds, EXIT, ABORT, SEGV
    <3> QED BY <2>3, <3>1 DEF StepOf
  <2> HIDE DEF done, lr
  <2>5. read_cpsr(regs') = frame.cpsr /\ get_mode(regs') \in NamedModes
    BY <2>2, <2>3, <2>4 DEF read_cpsr, get_mode
  <2>6. read_register(regs', PC) = Sub(lr, {2})
    <3>1. Slot(regs', PC) = 15
      BY <2>5, NamedSlots
    <3> QED BY <2>3, <2>4, <3>1 DEF read_register, is_valid, PC
  <2>7. AheadOfFetch(Sub(lr, {2})) = lr
    BY <2>1, FetchAgain
  <2>8. FetchAddress(regs') = Sub(lr, {2})
    BY <2>6, <2>7, Four DEF FetchAddress, arm_read_register
  <2> QED BY <2>2, <2>5, <2>8
<1>2. TypeOK /\ FrameInv /\ [NextR]_varsR => [ReturnResumesStep]_varsR
  BY <1>1
<1> QED BY CoreTyped, FrameInvariant, <1>2, PTL DEF SpecR, ReturnResumes

\* execute_: whenever an interrupt is taken in user or system mode, r1 to r14 of
\* the program stay as they were.
THEOREM EntriesKeepProgram == SpecR => EntryKeepsProgram
<1>1. TypeOK => EntryKeepsProgramStep
  <2> SUFFICES ASSUME TypeOK, NEW irq \in {INTERRUPT, FAST_INTERRUPT}, Interrupt(irq)
               PROVE  \A slot \in 1..14 : regs'[slot] = regs[slot]
    BY DEF EntryKeepsProgramStep
  <2> QED BY InterruptEnters DEF TypeOK, Interrupt
<1>2. TypeOK /\ [NextR]_varsR => [EntryKeepsProgramStep]_varsR
  BY <1>1
<1> QED BY CoreTyped, <1>2, PTL DEF SpecR, EntryKeepsProgram

=============================================================================
