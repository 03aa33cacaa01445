--------------------------- MODULE MCGdbProtocol ---------------------------
(***************************************************************************)
(* Small instances of GdbSession for TLC.                                  *)
(***************************************************************************)
EXTENDS GdbSession, Encodings

MCProgram == {SwiExit, Swi, Coprocessor, Breakpoint}
MCJunk == {{}}
MCFiles == {[slot \in Slots |-> {}]}
MCMemories == {[a \in MemAddress |-> {}]}

\* In each mode distinct words, the first with its sign bit, and the pc inside
\* the memory.
RegisterValue(reg) == IF reg = PC THEN {3} ELSE {reg, 31 - reg, 31}
InMode(mode) == mode \cup {6, 31}
MCGeneralWrites == {<<[reg \in 0..15 |-> RegisterValue(reg)], InMode(mode)>> : mode \in NamedModes}
MCRegisterWrites == {<<reg, {31, reg, 2}>> : reg \in 1..9}

\* Four bytes, one of them escaped by gdb, inside the memory, across its end
\* and behind it; and every byte that is escaped.
EscapedBytes == <<{0}, Escape, {7}, {1}>>
SpecialBytes == <<{5, 2}, {5, 1, 0}, Escape, {5, 3, 1}, {}>>
MCMemoryWrites ==
    {<<{2}, EscapedBytes>>, <<{3, 2, 1}, EscapedBytes>>, <<{4}, EscapedBytes>>,
     <<{3}, SpecialBytes>>}

WriteAll(mode) ==
    [op |-> "G", text |-> [reg \in 0..15 |-> write_uint32(RegisterValue(reg))],
     cpsr |-> write_uint32(InMode(mode))]
WriteOne(reg) == [op |-> "P", reg |-> reg, text |-> write_uint32({31, reg, 2})]
WriteMemory(address, bytes) ==
    [op |-> "X", address |-> address, size |-> Len(bytes), content |-> Escaped(bytes)]

MCKills == {[op |-> "k"]}
MCEndless == {[op |-> "c"]}
MCUntimed == {[op |-> name] : name \in {"s", "c"}}

\* Ctrl-C; a packet without its "$" that the scanner reads in two runs of invalid
\* bytes, as qSupported:multiprocess+;swbreak is; and one that asks for the last
\* answer, as the content of X may.
Garble(types) == [i \in DOMAIN types |-> Char(types[i])]
MCGarbles ==
    {Garble(<<"noise">>), Garble(<<"noise", "+", "noise">>), Garble(<<"-", "noise">>)}

MCCommands ==
    {[op |-> name] : name \in {"s", "c", "k", "g", "?", "Z"}}
    \cup {[op |-> "q", what |-> "Supported"], [op |-> "H", type |-> "c", thread |-> -1]}
    \cup {WriteAll(IRQ), WriteOne(25), [op |-> "p", reg |-> 14]}
    \cup {WriteMemory({3, 2, 1}, EscapedBytes), [op |-> "m", address |-> {2}, size |-> 4]}

=============================================================================
