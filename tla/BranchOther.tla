---------------------------- MODULE BranchOther ----------------------------
(***************************************************************************)
(* arm_branch_other.c: branches, the status register instructions, swi.    *)
(***************************************************************************)
EXTENDS ArmException

\* The swi that ends the simulation calls exit(0): a result of the model, the
\* code does not return from it.
EXIT == 256
ExitComment == {20, 17, 13, 12, 10, 6, 4, 2, 1}     \* 0x123456

---------------------------------------------------------------------------
\* The 24-bit offset, sign extended, times 4.
BranchOffset(ins) ==
    lsl(get_bits(ins, 23, 0), 2) \cup (IF get_bit(ins, 23) THEN 26..SignBit ELSE {})

arm_branch(r, ins) ==
    LET linked == IF get_bit(ins, 24)
                  THEN write_register(r, LR, Sub(arm_read_register(r, PC), FromNat(4)))
                  ELSE r
    IN  write_register(linked, PC, Add(arm_read_register(linked, PC), BranchOffset(ins)))

arm_coprocessor_others_swi(ins) ==
    IF ~get_bit(ins, 24) THEN UNDEFINED_INSTRUCTION
    ELSE IF get_bits(ins, 23, 0) = ExitComment THEN EXIT
    ELSE SOFTWARE_INTERRUPT

---------------------------------------------------------------------------
(* msr and mrs.                                                            *)

\* The same byte goes to each field the instruction selects; neither the mode
\* nor the field is checked.
PsrAfter(psr, ins, value) ==
    LET control   == IF get_bit(ins, 16) THEN set_bits(psr, 7, 0, value) ELSE psr
        extension == IF get_bit(ins, 17) THEN set_bits(control, 15, 8, value) ELSE control
        status    == IF get_bit(ins, 18) THEN set_bits(extension, 23, 16, value) ELSE extension
        flags     == set_bits(status, 30, 24, value)
    IN  IF ~get_bit(ins, 19) THEN status
        ELSE IF get_bit(value, 7) THEN set_bit(flags, 31) ELSE clr_bit(flags, 31)

write_psr(r, ins, value, toSpsr) ==
    IF toSpsr THEN write_spsr(r, PsrAfter(read_spsr(r), ins, value))
              ELSE write_cpsr(r, PsrAfter(read_cpsr(r), ins, value))

\* The operand of msr is a byte, a rotated immediate loses what left it.
MsrOperand(r, ins) ==
    (IF get_bit(ins, 25)
     THEN ror(get_bits(ins, 7, 0), 2 * ToNat(get_bits(ins, 11, 8)))
     ELSE arm_read_register(r, ToNat(get_bits(ins, 3, 0)))) \cap (0..7)

arm_miscellaneous(r, ins) ==
    IF get_bits(ins, 21, 20) = {1}
    THEN write_psr(r, ins, MsrOperand(r, ins), get_bit(ins, 22))
    ELSE write_register(r, ToNat(get_bits(ins, 15, 12)),
                        IF get_bit(ins, 22) THEN read_spsr(r) ELSE read_cpsr(r))

=============================================================================
