----------------------------- MODULE Encodings -----------------------------
(***************************************************************************)
(* The instruction words the checked instances are made of.                *)
(***************************************************************************)
EXTENDS Words

\* The word of four bytes, most significant first.
Word32(a, b, c, d) ==
    lsl(FromNat(a), 24) \cup lsl(FromNat(b), 16) \cup lsl(FromNat(c), 8) \cup FromNat(d)

RegisterField(reg, low) == lsl(FromNat(reg), low)

MovImmediate(rd, imm) == Word32(227, 160, 0, imm) \cup RegisterField(rd, 12)
MovShifted(rd, imm) == Word32(227, 160, 8, imm) \cup RegisterField(rd, 12)  \* mov rd, #imm << 16
SubsPcLr(imm) == Word32(226, 94, 240, imm)      \* subs pc, lr, #imm
MovsPcLr == Word32(225, 176, 240, 14)           \* movs pc, lr
MsrControl(value) == Word32(227, 33, 240, 0) \cup value     \* msr cpsr_c, #value
MsrControlRegister(rm) == Word32(225, 33, 240, rm)          \* msr cpsr_c, rm
MrsSpsr(rd) == Word32(225, 79, 0, 0) \cup RegisterField(rd, 12)
Bl == Word32(235, 0, 0, 0)                      \* bl to the next instruction but one
BranchToSelf == Word32(234, 255, 255, 254)      \* b .
Swi == Word32(239, 0, 0, 0)
SwiExit == Word32(239, 18, 52, 86)              \* swi 0x123456
Coprocessor == Word32(238, 0, 0, 0)             \* undefined
Breakpoint == Word32(231, 240, 0, 240)

\* Transfers with base register rn; "up" and "before" are the U and P bits.
Bit(b, position) == IF b THEN {position} ELSE {}
Multiple(load, rn, before, up, list) ==
    {31, 30, 29, 27} \cup Bit(load, 20) \cup Bit(before, 24) \cup Bit(up, 23)
        \cup RegisterField(rn, 16) \cup list
WordTransfer(load, byte, rd, rn, imm) ==        \* ldr, str, ldrb, strb rd, [rn, #imm]
    {31, 30, 29, 26, 24, 23} \cup Bit(load, 20) \cup Bit(byte, 22)
        \cup RegisterField(rd, 12) \cup RegisterField(rn, 16) \cup FromNat(imm)
HalfTransfer(load, rd, rn, rm) ==               \* ldrh, strh rd, [rn, rm]
    {31, 30, 29, 24, 23, 7, 5, 4} \cup Bit(load, 20)
        \cup RegisterField(rd, 12) \cup RegisterField(rn, 16) \cup FromNat(rm)

OnCondition(cond, ins) == (ins \ (28..31)) \cup lsl(cond, 28)

=============================================================================
