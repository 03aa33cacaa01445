---------------------------- MODULE GdbHandlers ----------------------------
(***************************************************************************)
(* gdb_protocol.c: the handlers of the debugger's commands, and the text   *)
(* of words.                                                               *)
(*                                                                         *)
(* A handler takes a command and a target, the processor with its memory   *)
(* and the last exception, and yields the outcomes it may have: the new    *)
(* target, the answer, and whether the process ended.  Text is the bytes   *)
(* it spells: two digits are one byte.                                     *)
(***************************************************************************)
EXTENDS CoreOperations

CONSTANTS
    HostBigEndian,      \* is_big_endian() of util.c
    MaxContinue,        \* bound: instructions one "c" executes
    NoText

ASSUME HandlersAssumption ==
    /\ HostBigEndian \in BOOLEAN
    /\ MaxContinue \in Nat \ {0}

Done(target, code, data) ==
    [target |-> target, answer |-> [code |-> code, data |-> data], ended |-> FALSE]

\* assert(reg < 16) failed, or the process died in an instruction.
Dead(target) ==
    [target |-> target, answer |-> NoText, ended |-> TRUE]

---------------------------------------------------------------------------
(* Words as text: bytes in the order of the target.                        *)

\* Where the byte at index i of the union lies in the host's integer, and
\* the index of the byte that is at position i of the text.
HostLane(i) == IF HostBigEndian THEN 3 - i ELSE i

\* Mutant: the bytes are taken in the order of the host.
TextIndexOfHost(i) == i

TextIndex(i) == IF HostBigEndian = BigEndian THEN i ELSE 3 - i

write_uint32(value) == [i \in 1..4 |-> ByteOf(value, HostLane(TextIndex(i - 1)))]

read_uint32(text) ==
    {b \in Bits : \E i \in 0..3 : (b - 8 * HostLane(TextIndex(i))) \in text[i + 1]}

---------------------------------------------------------------------------
(* The handlers that read.                                                 *)

gdb_send_stop_reason(target) ==
    CASE target.exception = UNDEFINED_INSTRUCTION -> Done(target, "S04", <<>>)
      [] target.exception \in {PREFETCH_ABORT, DATA_ABORT} -> Done(target, "S10", <<>>)
      [] OTHER -> Done(target, "S05", <<>>)

query(target, what) ==
    CASE what = "Offsets" -> Done(target, "Text=0;Data=0;Bss=0", <<>>)
      [] what = "Supported" -> Done(target, "PacketSize=400", <<>>)
      [] what = "TStatus" -> Done(target, "T0;tnotrun:0", <<>>)
      [] OTHER -> Done(target, "", <<>>)

set_thread(target, type, value) ==
    Done(target, IF type \in {"c", "g"} /\ value \in {-1, 0} THEN "OK" ELSE "E01", <<>>)

\* The pc is one instruction in advance.
SeenRegister(r, reg) ==
    IF reg = PC THEN Sub(arm_read_register(r, reg), FromNat(4)) ELSE arm_read_register(r, reg)

\* r0..r15 and the CPSR; the floating point registers between are "x".
ShownWord(r, n) == IF n < 16 THEN SeenRegister(r, n) ELSE read_cpsr(r)
read_general_registers(target) ==
    Done(target, "data",
        [i \in 1..68 |-> write_uint32(ShownWord(target.regs, (i - 1) \div 4))[((i - 1) % 4) + 1]])

\* The bytes i of a transfer of "size" bytes that come before its first
\* failure.
InMemory(address, size) ==
    {i \in 0..(size - 1) : \A k \in 0..i : ByteAddress(address, k) \in MemAddress}

read_memory(target, address, size) ==
    Done(target, "data",
        [i \in {k + 1 : k \in InMemory(address, size)} |->
            target.mem[ByteAddress(address, i - 1)]])

\* The number is hexadecimal; atoi reads its decimal digits and stops at
\* the first letter.
Atoi(reg) ==
    IF reg % 16 > 9
    THEN IF reg < 16 THEN 0 ELSE reg \div 16
    ELSE 10 * (reg \div 16) + (reg % 16)

read_register_command(target, number) ==
    LET reg == Atoi(number)
    IN  IF reg < 16
        THEN Done(target, "data", write_uint32(SeenRegister(target.regs, reg)))
        ELSE Dead(target)

---------------------------------------------------------------------------
(* The handlers that write.                                                *)

WithRegs(target, r) == [target EXCEPT !.regs = r]

\* text: the texts of r0..r15, then that of the CPSR.
write_general_registers(target, text, cpsr) ==
    LET written == write_registers(target.regs, 0..15, [reg \in 0..15 |-> read_uint32(text[reg])])
    IN  Done(WithRegs(target, write_cpsr(written, read_uint32(cpsr))), "OK", <<>>)

write_register_command(target, reg, text) ==
    IF reg < 16
    THEN Done(WithRegs(target, write_register(target.regs, reg, read_uint32(text))), "OK", <<>>)
    ELSE Dead(target)

Escape == {6, 5, 4, 3, 2, 0}            \* 0x7d
Toggle(byte) == (byte \ {5}) \cup ({5} \ byte)      \* ^ 0x20

\* One byte of a binary content is read.
Taken(read, byte) ==
    CASE read.escaped -> [bytes |-> Append(read.bytes, Toggle(byte)), escaped |-> FALSE]
      [] ~read.escaped /\ byte = Escape -> [bytes |-> read.bytes, escaped |-> TRUE]
      [] OTHER -> [bytes |-> Append(read.bytes, byte), escaped |-> FALSE]

\* The bytes a binary content stands for.
Unescape(content) ==
    LET Read[n \in 0..Len(content)] ==
            IF n = 0 THEN [bytes |-> <<>>, escaped |-> FALSE] ELSE Taken(Read[n - 1], content[n])
    IN  Read[Len(content)].bytes

\* The bytes up to the end of the memory are written in any case.
write_memory_binary(target, address, size, content) ==
    LET bytes == Unescape(content)
        stored == {<<ByteAddress(address, i), bytes[i + 1]>> : i \in InMemory(address, size)}
        ok == address \in MemAddress /\ InMemory(address, size) = 0..(size - 1)
    IN  Done([target EXCEPT !.mem = StoreBytes(@, stored)], IF ok THEN "OK" ELSE "E02", <<>>)

---------------------------------------------------------------------------
(* The handlers that run the processor.                                    *)

\* What one arm_step leaves, and what it may leave on one of the words "fetched".
Left(target, done) ==
    IF done.result \in ProcessEnds THEN Dead(target)
    ELSE Done([regs |-> done.regs, mem |-> done.mem, exception |-> done.result], "", <<>>)

Stepped(target, fetched) ==
    UNION {{Left(target, arm_step(target.regs, target.mem, ins, junk)) : junk \in JunkLocals} :
            ins \in fetched}

\* gdb's breakpoints are undefined instructions of this form.
Breakpoints == {ins \in Program :
                    ins \cap ((20..31) \cup (4..7)) = (({31, 30, 29} \cup (20..26)) \cup (4..7))}

\* The answer of a handler that did not kill the process.
Reasoned(outcome) == IF outcome.ended THEN outcome ELSE gdb_send_stop_reason(outcome.target)

\* step stops after one instruction; cont when the word at the pc is a
\* breakpoint.  Where there is no word to read cont looks at the one before
\* again, and never stops.
Stops(name, n, outcome) ==
    \/ name = "s" /\ n = 1
    \/ name = "c" /\ outcome.ended
    \/ name = "c" /\ Breakpoints # {} /\ Access(FetchAddress(outcome.target.regs), 4) = 0

\* step and cont.
Executes(name, target) ==
    LET fetched == IF name = "s" THEN Program ELSE Program \ Breakpoints
        Run[n \in 0..MaxContinue] ==
            IF n = 0 THEN {Done(target, "", <<>>)}
            ELSE UNION {Stepped(outcome.target, fetched) :
                            outcome \in {o \in Run[n - 1] : ~o.ended}}
    IN  UNION {{Reasoned(outcome) : outcome \in {o \in Run[n] : Stops(name, n, o)}} :
                n \in 0..MaxContinue}

\* The connection is shut without an answer (GdbProtocol).
kill_request(target) == [Done(target, "", <<>>) EXCEPT !.answer = NoText]

---------------------------------------------------------------------------
\* gdb_init: the commands that have a handler.
handler == {"c", "k", "q", "g", "m", "p", "?", "H", "s", "G", "X", "P"}

\* What gdb_packet_analysis may do for a command with a good checksum.
Handle(command, target) ==
    CASE command.op \in {"s", "c"} -> Executes(command.op, target)
      [] command.op = "k" -> {kill_request(target)}
      [] command.op = "q" -> {query(target, command.what)}
      [] command.op = "g" -> {read_general_registers(target)}
      [] command.op = "m" -> {read_memory(target, command.address, command.size)}
      [] command.op = "p" -> {read_register_command(target, command.reg)}
      [] command.op = "?" -> {gdb_send_stop_reason(target)}
      [] command.op = "H" -> {set_thread(target, command.type, command.thread)}
      [] command.op = "G" -> {write_general_registers(target, command.text, command.cpsr)}
      [] command.op = "X" ->
            {write_memory_binary(target, command.address, command.size, command.content)}
      [] command.op = "P" -> {write_register_command(target, command.reg, command.text)}
      [] command.op \notin handler -> {Done(target, "", <<>>)}

=============================================================================
