---------------------------- MODULE Instruction ----------------------------
(***************************************************************************)
(* arm_instruction.c: the condition of an instruction, the choice of the   *)
(* decoder its class bits make, and arm_step.                              *)
(***************************************************************************)
EXTENDS LoadStore, BranchOther

---------------------------------------------------------------------------
\* arm_decode_condition: whether condition cond (0..13) holds of the flags.
arm_decode_condition(cond, flags) ==
    CASE cond = {}        -> Z \in flags                                    \* EQ
      [] cond = {0}       -> Z \notin flags                                 \* NE
      [] cond = {1}       -> C \in flags                                    \* CS
      [] cond = {1, 0}    -> C \notin flags                                 \* CC
      [] cond = {2}       -> N \in flags                                    \* MI
      [] cond = {2, 0}    -> N \notin flags                                 \* PL
      [] cond = {2, 1}    -> V \in flags                                    \* VS
      [] cond = {2, 1, 0} -> V \notin flags                                 \* VC
      [] cond = {3}       -> flags \cap {Z, C} = {C}                        \* HI
      [] cond = {3, 0}    -> Z \in flags \/ C \notin flags                  \* LS
      [] cond = {3, 1}    -> N \in flags <=> V \in flags                    \* GE
      [] cond = {3, 1, 0} -> ~(N \in flags <=> V \in flags)                 \* LT
      [] cond = {3, 2}    -> (N \in flags <=> V \in flags) /\ Z \notin flags     \* GT
      [] cond = {3, 2, 0} -> ~(N \in flags <=> V \in flags) \/ Z \in flags       \* LE

AL == {3, 2, 1}
NeverCondition == {3, 2, 1, 0}

---------------------------------------------------------------------------
(* The dispatch.  Class bits 27..25, with two instructions of classes 0    *)
(* and 1 told apart by bits 24..20.                                        *)

IsStatusAccess(ins) == get_bits(ins, 24, 23) = {1} /\ ~get_bit(ins, 20)
IsMsr(ins) == IsStatusAccess(ins) /\ get_bit(ins, 21)
IsExtraLoadStore(ins) == get_bit(ins, 4) /\ get_bit(ins, 7)

\* The outcome of an instruction whose condition holds.
Dispatch(r, m, ins, junk) ==
    LET class == get_bits(ins, 27, 25)
    IN  CASE class = {} /\ IsStatusAccess(ins) -> Outcome(arm_miscellaneous(r, ins), m, 0)
          [] class = {} /\ ~IsStatusAccess(ins) /\ IsExtraLoadStore(ins) ->
                arm_load_store(r, m, ins, junk)
          [] class = {} /\ ~IsStatusAccess(ins) /\ ~IsExtraLoadStore(ins) ->
                Outcome(arm_data_processing_shift(r, ins), m, 0)
          [] class = {0} /\ IsMsr(ins) -> Outcome(arm_miscellaneous(r, ins), m, 0)
          [] class = {0} /\ ~IsMsr(ins) ->
                Outcome(arm_data_processing_immediate_msr(r, ins), m, 0)
          [] class \in {{1}, {1, 0}} -> arm_load_store(r, m, ins, junk)
          [] class = {2} -> arm_load_store_multiple(r, m, ins, junk)
          [] class = {2, 0} -> Outcome(arm_branch(r, ins), m, 0)
          [] class = {2, 1} -> Outcome(r, m, UNDEFINED_INSTRUCTION)
          [] OTHER -> Outcome(r, m, arm_coprocessor_others_swi(ins))

\* The outcome of the instruction word "ins" once it has been fetched.
Execute(r, m, ins, junk) ==
    LET cond == get_bits(ins, 31, 28)
        passes == cond = AL \/ arm_decode_condition(cond, read_cpsr(r) \cap Flags)
    IN  CASE cond = NeverCondition -> Outcome(r, m, UNDEFINED_INSTRUCTION)
          [] cond # NeverCondition /\ passes -> Dispatch(r, m, ins, junk)
          [] OTHER -> Outcome(r, m, 0)

---------------------------------------------------------------------------
(* The fetch: it reads the word at the pc and advances the pc by 4 whether *)
(* or not the read fails.                                                  *)

FetchAddress(r) == Sub(arm_read_register(r, PC), FromNat(4))
AfterFetch(r) == write_register(r, PC, Add(FetchAddress(r), FromNat(4)))

\* What arm_execute_instruction leaves, for the word "ins" read by the fetch.
arm_execute_instruction(r, m, ins, junk) ==
    CASE Access(FetchAddress(r), 4) = FAULT -> Outcome(AfterFetch(r), m, PREFETCH_ABORT)
      [] Access(FetchAddress(r), 4) = SEGV -> Outcome(r, m, SEGV)
      [] OTHER -> Execute(AfterFetch(r), m, ins, junk)

\* Mutant: the instruction that ends the program returns.
ProcessEndsButExit == {ABORT, SEGV}

\* The results from which arm_execute_instruction does not return.
ProcessEnds == {EXIT, ABORT, SEGV}

\* Any result but 0 is handed to arm_exception, which ignores a FAULT.
TakeResult(done) ==
    IF done.result \in ProcessEnds THEN done
    ELSE Outcome(arm_exception(done.regs, done.result), done.mem, done.result)

arm_step(r, m, ins, junk) == TakeResult(arm_execute_instruction(r, m, ins, junk))

=============================================================================
