--------------------------- MODULE MCDataProcessing ---------------------------
(***************************************************************************)
(* The data-processing operations, executed for every pair of operands and *)
(* every flags, against arithmetic on numbers.  TLC takes narrow words:    *)
(* the code treats all bits but the sign alike, so that every carry,       *)
(* borrow and overflow there can be already appears.                       *)
(***************************************************************************)
EXTENDS Instruction, WordNumbers

VARIABLES
    opcode, rn, so,     \* the inputs of executeInst: opcode and operands
    flags,              \* the flags before, then after
    carry,              \* the C flag before
    res,                \* the result
    done

vars == <<opcode, rn, so, flags, carry, res, done>>

Init ==
    /\ opcode \in Opcode
    /\ rn \in Word
    /\ so \in Word
    /\ flags \in SUBSET Flags
    /\ carry = (C \in flags)
    /\ res = {}
    /\ done = FALSE

Execution ==
    /\ ~done
    /\ done' = TRUE
    /\ res' = Result(opcode, rn, so, carry)
    /\ flags' = FlagsAfter(opcode, rn, so, flags)
    /\ UNCHANGED <<opcode, rn, so, carry>>

Next == Execution
Spec == Init /\ [][Next]_vars

---------------------------------------------------------------------------
(* The reference.                                                          *)

CarryIn == IF carry THEN 1 ELSE 0

\* What the opcode computes, as a number, on the values v gives its operands.
Exact(v(_)) ==
    CASE opcode \in {SUB, CMP} -> v(rn) - v(so)
      [] opcode = RSB -> v(so) - v(rn)
      [] opcode \in {ADD, CMN} -> v(rn) + v(so)
      [] opcode = ADC -> v(rn) + v(so) + CarryIn
      [] opcode = MOV -> v(so)
      [] opcode = MVN -> -1 - v(so)

Exactly == {SUB, CMP, RSB, ADD, CMN, ADC, MOV, MVN}

---------------------------------------------------------------------------
TypeOK ==
    /\ res \in Word
    /\ flags \subseteq Flags
    /\ done \in BOOLEAN

\* executeInst computes the eight arithmetic and move opcodes modulo the word,
\* whatever the operands and the carry in; Z and N describe that result.
ArithmeticExact ==
    done /\ opcode \in Exactly =>
        /\ Unsigned(res) = Exact(Unsigned) % Modulus
        /\ Z \in flags <=> Exact(Unsigned) % Modulus = 0
        /\ N \in flags <=> Exact(Unsigned) % Modulus >= Modulus \div 2

Overflows == Exact(Signed) \notin -(Modulus \div 2)..(Modulus \div 2 - 1)

\* getOverflowFlagAdd: after ADD and CMN V is set just when the signed sum does
\* not fit in the word.  The two stages of ADC never miss an overflow (but they
\* report one when the carry brings the sum back into range).
OverflowOfAdditions ==
    done =>
        /\ opcode \in {ADD, CMN} => (V \in flags <=> Overflows)
        /\ opcode = ADC /\ Overflows => V \in flags

\* The condition tables of arm_instruction.c and arm_load_store.c are separate
\* transcriptions: for the flags any execution leaves they agree.
ConditionTablesAgree ==
    \A cond \in (SUBSET (0..3)) \ {AL, NeverCondition} :
        arm_decode_condition(cond, flags) = ConditionTable(cond, flags)

\* Condition GE is commented "Greater than or equal": after CMP it holds just
\* when the first operand is greater than or equal to the second.
GreaterOrEqualAfterCmp ==
    done /\ opcode = CMP =>
        (ConditionTable({3, 1}, flags) <=> Signed(rn) >= Signed(so))

=============================================================================
