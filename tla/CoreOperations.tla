--------------------------- MODULE CoreOperations ---------------------------
(***************************************************************************)
(* The operations the rest of the program performs on a core under the     *)
(* lock, as what they make of its registers and its memory: its creation,  *)
(* an instruction, an exception, and the writes of the debugger's packets. *)
(*                                                                         *)
(* Code and data are told apart: a fetch that is in bounds yields any word *)
(* of Program, so that one run covers every program over that set, while   *)
(* loads and stores act on the memory.                                     *)
(***************************************************************************)
EXTENDS Instruction, Sequences

CONSTANTS
    Program,            \* the words a fetch may read
    Junk,               \* the words an uninitialised variable may hold
    InitialFiles,       \* the register files malloc may return
    InitialMemories,    \* the memories malloc may return
    Irqs,               \* the bytes the interrupt thread may read
    RegisterWrites,     \* pairs <<reg, value>> of the debugger's P packets
    GeneralWrites,      \* pairs <<values of r0..r15, cpsr>> of its G packets
    MemoryWrites,       \* pairs <<address, sequence of bytes>> of its X packets
    CycleWrap,          \* 2^32: cycle_count is an uint32_t
    MaxCycles,          \* bound: instructions executed, unless CycleWrap <= MaxCycles
    MaxCalls            \* bound: interrupts and debugger writes

\* A fetch reads some word, and a variable that is not initialised holds one.
ASSUME ArmCoreAssumption ==
    /\ WordBits = 32
    /\ MemBits <= 31
    /\ Program \subseteq Word /\ Program # {}
    /\ Junk \subseteq Word /\ Junk # {}
    /\ InitialFiles \subseteq RegisterFile
    /\ InitialMemories \subseteq MemoryContent
    /\ Irqs \subseteq 0..255
    /\ RegisterWrites \subseteq (0..15) \X Word
    /\ GeneralWrites \subseteq [0..15 -> Word] \X Word
    /\ MemoryWrites \subseteq Word \X Seq(Byte)
    /\ \A p \in MemoryWrites : Len(p[2]) <= 1024
    /\ CycleWrap \in Nat \ {0}
    /\ MaxCycles \in Nat
    /\ MaxCalls \in Nat

---------------------------------------------------------------------------
\* arm_create: a new register file takes a reset.
arm_create(garbage) == arm_exception(registers_create(garbage), RESET)

\* The register files arm_create may return.
Created == {arm_create(garbage) : garbage \in InitialFiles}

\* What the locals of arm_step hold before they are assigned.
JunkLocals == [address : Junk, word : Junk]

\* The packets of the debugger that write.  P:
RegisterWritten(r, p) == write_register(r, p[1], p[2])

\* G: r0..r15 go to the current mode, then the CPSR is replaced.
GeneralWritten(r, p) == write_cpsr(write_registers(r, 0..15, p[1]), p[2])

\* X: bytes are stored up to the end of the memory.
MemoryWritten(m, p) ==
    StoreBytes(m,
        {<<ByteAddress(p[1], i - 1), p[2][i]>> :
            i \in {j \in 1..Len(p[2]) :
                    \A k \in 0..(j - 1) : ByteAddress(p[1], k) \in MemAddress}})

---------------------------------------------------------------------------
(* The register banks.                                                     *)

\* The slots of r1..r14 in each mode, as the banks of arm_constants.h lay them
\* out, with one bank for SVC, ABT, UND and IRQ; a mode that is none of the
\* seven has no slot of its own.
UserBank == 1..14
SharedBank == (1..12) \cup {26, 27}
FiqBank == (1..7) \cup (29..35)
Bank(mode) ==
    CASE mode \in {USR, SYS} -> UserBank
      [] mode \in {SVC, ABT, UND, IRQ} -> SharedBank
      [] mode = FIQ -> FiqBank
      [] OTHER -> {}

\* sp and lr of the mode an exception enters.
EntryBank(mode) ==
    CASE mode \in {SVC, ABT, UND, IRQ} -> {26, 27}
      [] mode = FIQ -> {34, 35}
      [] OTHER -> {}

\* Slots every mode writes: r0 (and with it every SPSR, and every register of a
\* mode without a bank), the pc and the CPSR.
CommonSlots == {0, StraySlot, PC, CPSR}

=============================================================================
