----------------------------- MODULE GdbSession -----------------------------
(***************************************************************************)
(* A session of the debugger: GdbProtocol with the handlers of GdbHandlers *)
(* and the core of CoreOperations, and what the debugger reads back after  *)
(* it has written.                                                         *)
(***************************************************************************)
EXTENDS GdbProtocol, GdbHandlers

\* The simulated machines with the last exception, and the answers of handlers.
SimulatedTargets == [regs : RegisterFile, mem : MemoryContent, exception : 0..255]
Codes == {"", "OK", "E01", "E02", "S04", "S05", "S10", "data", "PacketSize=400",
          "Text=0;Data=0;Bss=0", "T0;tnotrun:0"}
TextAnswers == [code : Codes, data : Seq(Byte)]

\* gdb_init after arm_create: no exception yet.
FreshTargets == [regs : Created, mem : InitialMemories, exception : {0}]

\* A word as text, and what has to be in a command for its handler.
WordText == [1..4 -> Byte]
WellFormed(command) ==
    CASE command.op = "m" -> command.address \in Word /\ command.size \in Nat
      [] command.op = "p" -> command.reg \in Nat
      [] command.op = "P" -> command.reg \in Nat /\ command.text \in WordText
      [] command.op = "G" -> command.text \in [0..15 -> WordText] /\ command.cpsr \in WordText
      [] command.op = "X" -> /\ command.address \in Word
                             /\ command.content \in Seq(Byte)
                             /\ command.size \in 0..Len(Unescape(command.content))
      [] OTHER -> TRUE

\* A command without an answer leaves the buffer of the last one empty, and a
\* word the debugger writes into the pc is the address of an instruction.
ASSUME SessionAssumption ==
    /\ NoText = NoAnswer
    /\ \A command \in Commands : WellFormed(command)
    /\ \A p \in GeneralWrites : 1 \notin p[1][PC]

---------------------------------------------------------------------------
(* What gdb writes and reads.                                              *)

\* gdb escapes the bytes that mean something in a packet: } $ # *
Special == {Escape, {5, 2}, {5, 1, 0}, {5, 3, 1}}

Escaped(bytes) ==
    LET Written[n \in 0..Len(bytes)] ==
            IF n = 0 THEN <<>>
            ELSE Written[n - 1] \o
                    (IF bytes[n] \in Special THEN <<Escape, Toggle(bytes[n])>> ELSE <<bytes[n]>>)
    IN  Written[Len(bytes)]

\* The answer of "g" to a G with these words, and that of "p" to a P.
ShownAfter(p) ==
    read_general_registers(
        write_general_registers(target, [reg \in 0..15 |-> write_uint32(p[1][reg])],
                                write_uint32(p[2])).target).answer.data
ReadAfter(p) ==
    read_register_command(
        write_register_command(target, p[1], write_uint32(p[2])).target, p[1]).answer.data

\* The answer of "m" to an X with these bytes.
SeenAfter(p) ==
    read_memory(write_memory_binary(target, p[1], Len(p[2]), Escaped(p[2])).target,
                p[1], Len(p[2])).answer.data

\* The bytes of the word n of the answer of "g".
WordOf(data, n) == SubSeq(data, 4 * n + 1, 4 * n + 4)

---------------------------------------------------------------------------
\* read_uint32, write_uint32, the pc offset of the g, G, P and p handlers and
\* the escapes of X: in every mode the debugger reads back what it wrote, up to
\* the end of the memory, and a word of a register has the bytes that the
\* memory would have if it were stored.
DebuggerReadsBack ==
    gdb = "idle" /\ toStub = <<>> =>
        /\ \A p \in GeneralWrites :
            get_mode(target.regs) \in NamedModes /\ p[2] \cap ModeBits = get_mode(target.regs) =>
                LET shown == ShownAfter(p)
                IN  /\ \A reg \in 0..15 : WordOf(shown, reg) = write_uint32(p[1][reg])
                    /\ WordOf(shown, 16) = write_uint32(p[2])
        /\ \A p \in RegisterWrites :
            get_mode(target.regs) \in NamedModes /\ p[1] \in 0..9 =>
                ReadAfter(p) = write_uint32(p[2])
        /\ \A p \in MemoryWrites :
            SeenAfter(p) = SubSeq(p[2], 1, Cardinality(InMemory(p[1], Len(p[2]))))
        /\ \A p \in RegisterWrites, q \in MemoryWrites :
            InMemory(q[1], 4) = 0..3 =>
                read_memory([target EXCEPT !.mem = memory_write(@, q[1], 4, p[2])], q[1], 4).answer.data
                    = write_uint32(p[2])

=============================================================================
