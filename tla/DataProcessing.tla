--------------------------- MODULE DataProcessing ---------------------------
(***************************************************************************)
(* arm_data_processing.c: the sixteen data-processing operations, their    *)
(* flags and the shifter operand.                                          *)
(*                                                                         *)
(* The flags Z, N, C and V are numbered by their bit of the CPSR; a set of *)
(* flags holds those that are 1.                                           *)
(***************************************************************************)
EXTENDS ArmException, FiniteSets

Flags == {N, Z, C, V}

AND == {}                       \* the opcodes, bits 24..21 of the instruction
EOR == {0}
SUB == {1}
RSB == {1, 0}
ADD == {2}
ADC == {2, 0}
SBC == {2, 1}
RSC == {2, 1, 0}
TST == {3}
TEQ == {3, 0}
CMP == {3, 1}
CMN == {3, 1, 0}
ORR == {3, 2}
MOV == {3, 2, 0}
BIC == {3, 2, 1}
MVN == {3, 2, 1, 0}

Opcode == SUBSET (0..3)
Tests == {TST, TEQ, CMP, CMN}   \* updateForTest: flags only

---------------------------------------------------------------------------
(* Flags of an addition or a subtraction.                                  *)

\* getCarryFlagAdd: the loop stops one bit short of the sign bit.
getCarryFlagAdd(left, right) == SignBit \in Carries(left, right, FALSE)

\* getCarryFlagSub: over the same bits.  A position 0 - 1 flips the borrow (a
\* borrow that meets 0 - 1 leaves -2, which the code takes for no borrow) and
\* a position 1 - 0 clears it.
getCarryFlagSub(left, right) ==
    LET flips == {i \in right \ left :
                    i < SignBit /\ ((i + 1)..(SignBit - 1)) \cap (left \ right) = {}}
    IN  Cardinality(flips) % 2 = 1

Sign(x) == get_bit(x, SignBit)

\* Mutant: the signs are compared as for a subtraction.
getOverflowFlagAddAsSub(res, a, b) == Sign(b) # Sign(a) /\ Sign(b) # Sign(res)

getOverflowFlagAdd(res, a, b) == Sign(b) = Sign(a) /\ Sign(b) # Sign(res)
getOverflowFlagSub(res, a, b) == Sign(b) # Sign(a) /\ Sign(b) # Sign(res)

---------------------------------------------------------------------------
(* executeInst.                                                            *)

\* Mutant: the carry of ADC is inverted, as SBC's is.
TruthInverted(b) == IF b THEN {} ELSE {0}

\* A truth value as an int: the code uses && and || for the logical opcodes.
Truth(b) == IF b THEN {0} ELSE {}
One == {0}

\* left - right - (~cFlag), where cFlag is 0 or 1 and ~ its complement as an
\* int: -1 or -2, so 1 or 2 is added.
SubWithCarry(left, right, carry) == Add(Sub(left, right), IF carry THEN {1} ELSE One)

\* The result of an opcode on valueRn and the shifter operand, c the C flag.
Result(opcode, rn, so, c) ==
    CASE opcode \in {AND, TST} -> Truth(rn # {} /\ so # {})
      [] opcode \in {EOR, TEQ} -> Truth((rn # {}) # (so # {}))
      [] opcode \in {SUB, CMP} -> Sub(rn, so)
      [] opcode = RSB -> Sub(so, rn)
      [] opcode \in {ADD, CMN} -> Add(so, rn)
      [] opcode = ADC -> Add(Add(so, rn), Truth(c))
      [] opcode = SBC -> SubWithCarry(rn, so, c)
      [] opcode = RSC -> SubWithCarry(so, rn, c)
      [] opcode = ORR -> Truth(rn # {} \/ so # {})
      [] opcode = MOV -> so
      [] opcode = BIC -> Truth(rn # {} /\ Complement(so) # {})
      [] OTHER -> Complement(so)                     \* MVN

\* A carry or overflow of two stages: of left o right, else of the second
\* stage, which takes the old carry into account.
AddCarryOut(rn, so, c) ==
    getCarryFlagAdd(so, rn) \/ (c /\ getCarryFlagAdd(Add(so, rn), One))
AddOverflow(rn, so, c, res) ==
    \/ getOverflowFlagAdd(Add(so, rn), so, rn)
    \/ c /\ getOverflowFlagAdd(res, Add(so, rn), One)
SubBorrowOut(left, right, c) ==
    getCarryFlagSub(left, right) \/ (~c /\ getCarryFlagSub(Sub(left, right), One))
SubOverflow(left, right, c, res) ==
    \/ getOverflowFlagSub(Sub(left, right), left, right)
    \/ ~c /\ getOverflowFlagSub(res, Sub(left, right), One)

CarryAfter(opcode, rn, so, c) ==
    CASE opcode \in {SUB, CMP} -> getCarryFlagSub(rn, so)
      [] opcode = RSB -> getCarryFlagSub(so, rn)
      [] opcode \in {ADD, CMN} -> getCarryFlagAdd(so, rn)
      [] opcode = ADC -> AddCarryOut(rn, so, c)
      [] opcode = SBC -> SubBorrowOut(rn, so, c)
      [] opcode = RSC -> SubBorrowOut(so, rn, c)
      [] OTHER -> c

OverflowAfter(opcode, rn, so, c, v, res) ==
    CASE opcode \in {SUB, CMP} -> getOverflowFlagSub(res, rn, so)
      [] opcode = RSB -> getOverflowFlagSub(res, so, rn)
      [] opcode \in {ADD, CMN} -> getOverflowFlagAdd(res, so, rn)
      [] opcode = ADC -> AddOverflow(rn, so, c, res)
      [] opcode = SBC -> SubOverflow(rn, so, c, res)
      [] opcode = RSC -> SubOverflow(so, rn, c, res)
      [] OTHER -> v

\* Z and N describe the result, C and V change with arithmetic opcodes only.
FlagsAfter(opcode, rn, so, flags) ==
    LET res == Result(opcode, rn, so, C \in flags)
    IN  {f \in Flags :
            \/ f = Z /\ res = {}
            \/ f = N /\ Sign(res)
            \/ f = C /\ CarryAfter(opcode, rn, so, C \in flags)
            \/ f = V /\ OverflowAfter(opcode, rn, so, C \in flags, V \in flags, res)}

\* The result is written first; with S set, an opcode that writes the pc then
\* copies the SPSR into the CPSR, any other writes its flags there.
executeInst(opcode, r, rd, rn, so, updateCPSR) ==
    LET cpsr    == read_cpsr(r)
        res     == Result(opcode, rn, so, C \in cpsr)
        written == IF opcode \in Tests THEN r ELSE write_register(r, rd, res)
        flags   == FlagsAfter(opcode, rn, so, cpsr \cap Flags)
    IN  IF ~(updateCPSR \/ opcode \in Tests) THEN written
        ELSE IF opcode \in Tests \/ rd # PC
             THEN write_cpsr(written, (cpsr \ Flags) \cup flags)
        ELSE IF current_mode_has_spsr(written)
             THEN write_cpsr(written, read_spsr(written))
        ELSE written

---------------------------------------------------------------------------
(* The shifter operand.                                                    *)

\* Nothing is shifted when the count, a signed int, is not positive; the host
\* takes a positive count modulo 32.  A logical shift to the right operates
\* on an int, so it copies the sign like an arithmetic one.
getShifterOperand(so, count, operand) ==
    LET n == ToNat(count \cap (0..4))
    IN  IF count = {} \/ Sign(count) THEN so
        ELSE CASE operand = "lsl" -> lsl(so, n)
               [] operand = "lsr" -> sar(so, n)
               [] operand = "asr" -> asr(so, n)
               [] operand = "ror" -> ror(so, n)

\* Bits 6..4 of the instruction select shift and count; the loop of the code
\* never reaches 7, so that a rotation by a register is no shift.
Shifted(r, ins, so) ==
    LET kind  == get_bits(ins, 6, 5)
        count == IF get_bit(ins, 4) THEN arm_read_register(r, ToNat(get_bits(ins, 11, 8)))
                                    ELSE get_bits(ins, 11, 7)
    IN  CASE kind = {} -> getShifterOperand(so, count, "lsl")
          [] kind = {0} -> getShifterOperand(so, count, "lsr")
          [] kind = {1} -> getShifterOperand(so, count, "asr")
          [] OTHER -> IF get_bit(ins, 4) THEN so ELSE getShifterOperand(so, count, "ror")

arm_data_processing_shift(r, ins) ==
    LET rn == ToNat(get_bits(ins, 19, 16))
        rm == ToNat(get_bits(ins, 3, 0))
        valueRn == arm_read_register(r, rn)
        operand == IF rm = PC THEN Add(arm_read_register(r, rm), FromNat(8))
                   ELSE IF rn = PC THEN Add(valueRn, FromNat(8))
                   ELSE arm_read_register(r, rm)
    IN  executeInst(get_bits(ins, 24, 21), r, ToNat(get_bits(ins, 15, 12)),
                    valueRn, Shifted(r, ins, operand), get_bit(ins, 20))

arm_data_processing_immediate_msr(r, ins) ==
    LET operand == ror(get_bits(ins, 7, 0), 2 * ToNat(get_bits(ins, 11, 8)))
        valueRn == arm_read_register(r, ToNat(get_bits(ins, 19, 16)))
    IN  executeInst(get_bits(ins, 24, 21), r, ToNat(get_bits(ins, 15, 12)),
                    valueRn, operand, get_bit(ins, 20))

=============================================================================
