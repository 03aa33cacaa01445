----------------------------- MODULE Registers -----------------------------
(***************************************************************************)
(* registers.c: the register file.                                         *)
(*                                                                         *)
(* The file is an array of NB_REGISTER words.  A register number and the   *)
(* mode bits of the CPSR select a slot of it through the table             *)
(* arm_mode_register.  A register file is the function "r"; the operations *)
(* that write return the new file.                                         *)
(***************************************************************************)
EXTENDS Words

CONSTANT StraySlot      \* what the table lookup yields for a mode below 16

NB_REGISTER == 37
Slots == 0..(NB_REGISTER - 1)

\* A mode below 16 indexes the table at a negative offset: the byte read is
\* whatever object the linker put before the table.  Any slot but that of
\* the CPSR (in the build without --debug it reads zeros: slot 0).
SP == 13
LR == 14
PC == 15
CPSR == 16

ASSUME StraySlotAssumption == StraySlot \in Slots \ {CPSR}

---------------------------------------------------------------------------
(* Modes, the low five bits of the CPSR.                                   *)

USR == {4}
FIQ == {4, 0}
IRQ == {4, 1}
SVC == {4, 1, 0}
ABT == {4, 2, 1, 0}
UND == {4, 3, 1, 0}
SYS == {4, 3, 2, 1, 0}

ModeBits == 0..4
ModeMask == SUBSET ModeBits
ExceptionModes == {FIQ, IRQ, SVC, ABT, UND}
NamedModes == {USR, FIQ, IRQ, SVC, ABT, UND, SYS}

N == 31
Z == 30
C == 29
V == 28

---------------------------------------------------------------------------
(* The table arm_mode_register, as init() fills it.                        *)

R13_IRQ == 26
R8_FIQ == 29

\* Mutant: the bank of FIQ begins at r9.
ModeSlotFiqSharesR8(mode, reg) ==
    CASE mode \in {SVC, ABT, UND, IRQ} /\ reg \in {13, 14} -> R13_IRQ + (reg - 13)
      [] mode = FIQ /\ reg \in 9..14 -> R8_FIQ + (reg - 8)
      [] mode \in {USR, SYS, SVC, ABT, UND, IRQ, FIQ} -> reg
      [] OTHER -> 0

\* The test that picks the bank of SVC, ABT, UND or IRQ compares the loop
\* index 0..15 with the mode constants 16..31, so it always picks IRQ's.
\* Modes that name no bank leave the table's zero.
ModeSlot(mode, reg) ==
    CASE mode \in {USR, SYS} -> reg
      [] mode \in {SVC, ABT, UND, IRQ} ->
            IF reg <= 12 \/ reg >= 15 THEN reg ELSE R13_IRQ + (reg - 13)
      [] mode = FIQ ->
            IF reg <= 7 \/ reg >= 15 THEN reg ELSE R8_FIQ + (reg - 8)
      [] OTHER -> 0

\* Column 17 of the table, the SPSR of a mode: init() stops at column 16.
SpsrColumn == 0

get_mode(r) == r[CPSR] \cap ModeBits

Slot(r, reg) == IF 4 \in get_mode(r) THEN ModeSlot(get_mode(r), reg) ELSE StraySlot
SpsrSlot(r) == IF 4 \in get_mode(r) THEN SpsrColumn ELSE StraySlot

---------------------------------------------------------------------------
(* The operations.                                                         *)

RegisterFile == [Slots -> Word]

is_valid(reg) == reg \in 0..15

\* has_spsr: also true of the mode bits that name no mode.
has_spsr(r) == get_mode(r) \notin {USR, SYS}

\* current_mode_has_spsr: true of the five exception modes only.
current_mode_has_spsr(r) == get_mode(r) \in ExceptionModes

read_register(r, reg) == IF is_valid(reg) THEN r[Slot(r, reg)] ELSE {}
read_cpsr(r) == r[CPSR]
read_spsr(r) == IF has_spsr(r) THEN r[SpsrSlot(r)] ELSE {}

write_register(r, reg, value) ==
    IF is_valid(reg) THEN [r EXCEPT ![Slot(r, reg)] = value] ELSE r
write_cpsr(r, value) == [r EXCEPT ![CPSR] = value]
write_spsr(r, value) ==
    IF has_spsr(r) THEN [r EXCEPT ![SpsrSlot(r)] = value] ELSE r

\* registers_create: malloc leaves "garbage" in the file, the CPSR's mode
\* bits are set to USR.
registers_create(garbage) ==
    write_cpsr(garbage, set_bits(read_cpsr(garbage), 4, 0, USR))

=============================================================================
