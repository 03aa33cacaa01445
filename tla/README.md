# A TLA+ verification of the ARM processor simulator

The subject is `src/arm_simulator-1.4`: a simulator of an ARMv5 processor that a
debugger (gdb, over its remote protocol) loads and drives, while another process
(`send_irq`) sends it interrupts. Paths below are relative to that directory.

Contents: [the system](#1-the-system), [the modules](#2-the-modules),
[the runs](#3-the-runs), [bounds and fairness](#4-bounds-and-fairness),
[the proofs](#5-the-proofs), [where the code and its own words
differ](#6-where-the-code-and-its-own-words-differ), [what is not
modelled](#7-what-is-not-modelled), [the plan](#8-the-plan).

## 1. The system

### Components

| component | state | operations | made correct by |
|---|---|---|---|
| `util` | – | bit fields, `asr`, `ror` | nothing leaves the 32 bits of a word |
| `memory` | an array of 2^17 bytes, a byte order | read and write of 1, 2, 4 bytes | a write changes its own bytes only; reads mirror writes in both byte orders; out-of-range accesses change nothing |
| `registers` | 37 words; a table (mode, register) -> slot filled once | `read_/write_register`, `_cpsr`, `_spsr`, mode predicates | the banks keep the modes' registers apart |
| `arm_core` | a register file, a memory, a cycle counter | create, fetch, pc offset of `arm_read_register` | the pc seen by instructions, exceptions and the debugger is one and the same thing |
| `arm_exception` | – (acts on the core) | seven exceptions through `execute_` | what it saves is what a return needs; what it interrupts keeps its registers |
| `arm_instruction` | a table of conditions | condition, dispatch, `arm_step` | every word has one decoder; a failed fetch or instruction raises its exception |
| `arm_data_processing` | – | sixteen opcodes, shifter operand, flags | results and flags are those of the arithmetic |
| `arm_load_store` | – | `ldr/str`, `ldrh/strh`, `ldrd/strd`, `ldm/stm` | the addressing modes mirror each other; a transfer that fails midway is consistent |
| `arm_branch_other` | – | `b`, `bl`, `msr`, `mrs`, `swi` | return addresses; masks of status fields |
| `gdb_protocol` | the last answer, the last exception, the lock | handlers of the packets `s c g G p P m X q H ? k`, acknowledgement, retransmission | a handler is atomic; a command is executed once and its answer reaches gdb; what is written is read back |
| `scanner` | buffer of the byte stream, state of an automaton; invalid data | splits the stream into tokens, calls their rules | the rules of `scanner.l` run on exactly the text they match, however the stream is cut; the buffers hold |
| `arm_simulator` | the lock, two threads, sockets | `main`, `gdb_listener`, `irq_listener` | the core is never used by both threads, nor after it is freed |
| `send_irq` | – | connects and sends exception numbers | every byte sent is handed to the core |
| `trace` | stack of source locations, switch, flags | push, pop, trace lines | every push has its pop; a line has the position of its own access |
| `debug` | sorted table of file names | insertion, search | the search finds what was inserted |
| `csapp` | – | wrappers of system calls | a failed write ends the process |

### How they interact

`main` (`arm_simulator.c:135-217`) creates the memory and the core, then starts
two threads. `gdb_listener` accepts one debugger and feeds its bytes to the
scanner, which calls `gdb_packet_analysis` for each packet; this checks the sum,
takes the lock, runs the handler and releases the lock. `irq_listener` accepts
one client after the other and hands every byte it receives to `arm_exception`,
under the same lock. Both act on the one core: registers, memory, cycle counter.
`main` joins the debugger thread only, then frees the core and returns, which
ends the interrupt thread wherever it is.

Between gdb and the stub, each packet is acknowledged by `+` or refused by `-`,
in both directions; after `-` the sender sends again. The stub keeps the last
answer for that (`gdb_transmit_packet`), but no trace of the commands it has
executed. Bytes that belong to no packet are collected and answered with one `-`
at the next token (`handle_error`).

Every access to the core from a source line is wrapped in macros
(`trace_location.h`) that push the line's position on the stack of `trace.c`
before the access and pop it after. The stack and the switch are static data of
both threads; only the lock of the core keeps them apart.

Within a step of the processor: `arm_step` calls `arm_execute_instruction`
(fetch, condition, decoder), whose result, if not 0, is handed to
`arm_exception`. Every register access goes through the CPSR, since its mode
bits select the slot: the order in which a handler writes the CPSR and the
registers decides which bank it writes.

### What is hard

- **Concurrency.** `execute_` is a sequence of reads and five writes; `G` is
  seventeen writes; a step is a fetch, an instruction and perhaps an exception.
  Only the lock makes them atomic (`arm_simulator.c:102`, `gdb_protocol.c:437`).
- **Order within an operation.** CPSR before sp, lr, spsr (`arm_exception.c:62-68`).
- **Protocols over many steps.** Interrupt, handler, return: the return address
  saved by `execute_`, the pc offsets of `arm_read_register` and the arithmetic
  of `subs pc, lr, #4` have to agree (`arm_exception.c:51`, `arm_core.c:68-81`).
- **Progress.** `cont` keeps the lock until the program stops
  (`gdb_protocol.c:155-189`); the interrupt thread serves its clients one at a time.
- **Tear-down.** The core is freed while the interrupt thread may still use it.
- **An unreliable line.** Damaged packets and answers, lost packets,
  acknowledgements and answers, packets without their `$`, which are scanned byte
  by byte (`gdb_protocol.c:425-432`, `scanner.l:40-71`): once-only execution rests
  on when each side speaks, not on numbers in the packets.
- **Streams in pieces.** A read may end anywhere in a token; NULs in binary data
  look like the end mark of the scanner's buffer (`scanner.c:845-852`).
- **Order left to the compiler.** `f()+END_LOCATION` (`trace_location.h:33`).
- **Numeric edges.** Carry and overflow computed bit by bit, tables with holes
  and negative indices, bounds tests modulo 2^32, flags copied into a byte.
- **Partial failure.** `ldm`/`stm` that fail midway, reads whose failure is ignored.

`PROJECT.json` lists each of these under `hazards` with its line and the
properties aimed at it, or why there is none.

## 2. The modules

    Words ── Registers ── ArmException ──┬── BranchOther ──────┐
      │                     │            └── DataProcessing ── LoadStore ── Instruction
      └───── Memory ────────┼────────────────────────────────────┘              │
                          SendIrq                                               │
                            │                        ┌──────────────────────────┤
                            │                  CoreOperations            MCDataProcessing
                            │           ┌────────────┼──────────┐               │
                            │           │        Transfers      │               │
                            │           │        MCLoadStore    │               │
                            │      CoreMachine ──(Atomicity)── Simulator   GdbHandlers
                            │           │                       │               │
                            │        ArmCore              MCSimulator           │
                            └───────────┼───────────────────────┘               │
                       InterruptReturn, MCArmCore, MCDocumented                 │
                                                                                │
    GdbCommands ──(ExactlyOnce)── GdbProtocol ─────────────── GdbSession ───────┘
                                                                   │
                                                             MCGdbProtocol
    ScannerRules ──(ImplementsRules)── Scanner ── MCScanner
    DebugFiles ── Diagnostics ── MCDiagnostics

    proofs:  CoreOperations ── CoreLemmas;  InterruptReturn ── ArmCoreProofs (with CoreLemmas)
             MCDataProcessing ── DataProcessingProofs
             Transfers ── TransferProofs (with CoreLemmas, DataProcessingProofs)
             Simulator ── AtomicityProofs (with CoreLemmas)
             GdbSession ── GdbProtocolProofs (with CoreLemmas);  Scanner ── ScannerProofs
             Diagnostics ── DiagnosticsProofs

The modules of the first line, `CoreOperations`, `SendIrq`, `GdbHandlers` and
`DebugFiles` hold no state: they are the operations of the source files as operators,
with the names of the C functions. The state machines are `ArmCore`, `Simulator`,
`GdbProtocol`, `Scanner` and `Diagnostics`; `CoreMachine`, `GdbCommands` and
`ScannerRules` are the abstract specifications of three of them. `ArmCore` is
`CoreMachine` with its variables named, so that what is proved of the one is about the
machine that `Simulator` implements.

| module | code | notes |
|---|---|---|
| `Words` | `util.h`, `util.c`, host arithmetic | a word is the set of its bits that are 1; sums and differences through the positions carries and borrows enter, for any width |
| `Registers` | `registers.c`, `arm_constants.h` | the register file is a function of 37 slots; `ModeSlot` is the table `init()` fills |
| `Memory` | `memory.c` | a function from addresses to bytes; `InBounds` is the code's test, `Wild` its wrap-around |
| `ArmException` | `arm_exception.c`, `arm_core.c` | `execute_` with its five writes named, so that `Simulator` can take them one at a time |
| `DataProcessing` | `arm_data_processing.c` | opcodes, the bitwise flag functions, the shifter operand with its ignored cases |
| `LoadStore` | `arm_load_store.c` | the outcome of a transfer is a record of registers, memory and returned result |
| `BranchOther` | `arm_branch_other.c` | |
| `Instruction` | `arm_instruction.c`, `arm_fetch` | conditions, dispatch, `arm_step` |
| `CoreOperations` | what the rest of the program calls of the core | creation, a step, an interrupt, the writes of `P`, `G` and `X`, as operators on one record |
| `CoreMachine`, `ArmCore` | the core as the rest of the program sees it | one action per call made under the lock: `Step`, `Interrupt`, and the debugger's `P`, `G` and `X` |
| `InterruptReturn` | – | `ArmCore` with a history variable for the interrupted program |
| `Simulator` | `arm_simulator.c`, `gdb_protocol.c` | threads with program counters, the lock, each write of `execute_` a step, `cont`, tear-down |
| `SendIrq` | `send_irq.c`, `arm_constants.c` | the bytes a client of the interrupt port can send; `MCSimulator` takes its clients from there |
| `GdbCommands` | – | what the debugger is promised: each command executed once, its answer returned |
| `GdbHandlers` | `gdb_protocol.c` | every handler as the set of outcomes (new target, answer, whether the process ends), the text of words, binary data |
| `GdbProtocol` | `gdb_protocol.c`, `scanner.l`, `csapp.c` | stub, gdb and the line between them, which damages, loses, garbles and adds (`Damage`, `Loss`, `Noise`) |
| `GdbSession` | – | `GdbProtocol` with the handlers of `GdbHandlers` and the core: the well formed commands, the answers, what the debugger reads back after it has written |
| `ScannerRules` | `scanner.l` | longest match, first rule, on the whole stream |
| `Scanner` | `scanner.c` | the generated automaton with its tables, its buffer, its reads; one action per block between two labels of `yylex` |
| `DebugFiles`, `Diagnostics` | `debug.c`, `trace.c`, `trace_location.h`, options of `arm_simulator.c` | the table, the stack of positions, whose position a line is given |
| `Encodings` | – | instruction words for the instances |
| `WordNumbers` | – | the numbers words stand for, with and without sign: the reference for arithmetic and addresses |
| `Transfers` | – | a small machine: a store, other values in its registers, the load that mirrors it |
| `MC*` | – | instances for TLC; `MCDataProcessing` also holds the small machine that feeds the opcodes all their inputs |
| `CoreLemmas`, `*Proofs` | – | the proofs |

**State and actions against code.** `regs`, `mem`, `cycle_count` are the three
fields of `struct arm_core_data` (`arm_core.c:32-36`). In `Simulator`, `lock`
is `shared.lock`; `pc` the place of each thread, one label per point where the
other thread could see a difference; `local` the locals that survive from one
label to the next (`sp`, the return address and the CPSR in `execute_`, the
instruction in `cont`); `main` the place of `main` after it has started the
threads; `backlog`/`unread` the sockets of the interrupt port. `committed` is a
history variable: the core after the last complete operation.

In `GdbProtocol`, `target` is the processor with its memory and
`target_exception`; `packet` is `gdb->packet` (`NoAnswer` while `gdb->len` is 0);
`errors` is `len` of `struct parser_data`; `stub` and `work` are the place of the
scanner's thread: inside `gdb_packet_analysis`, after it has sent `+`, or outside.
`toStub` and `toGdb` are the two directions of the connection, as the
tokens the scanner will make of the bytes. `gdb`, `call`, `result` and the line
are the environment. `phase`, `reply`, `executed` are history variables. The
handlers are a parameter, `Outcomes`. `GdbSession` brings together `GdbProtocol` and
`GdbHandlers`; the cfg of `MCGdbProtocol` and the hypothesis `Simulated` of the last
theorems make `Outcomes` the handlers there. The other theorems leave it open.

In `Scanner`, the variables are the fields of `yyguts_t` and `yy_buffer_state`
that the reached functions use, pointers as indices into `ch_buf`, and `pc`
names the label of `yylex` or `yy_get_next_buffer`. In `Diagnostics`, `enabled`,
`top`, `stack` and `flags` are the statics of `trace.c`; `open` lists the
accesses a thread is inside of, which are on its C stack in the program.

**Abstractions.** Code and data are told apart: a fetch within bounds yields any
word of `Program`, whatever `mem` holds, so one run covers all programs over
these words. (A program that modifies its own code is covered too: the model
allows more, not less.) The peek of `cont` and the fetch that follows yield the
same word. In `Simulator` packets are reduced to the writes they make; in
`GdbHandlers` the text of a packet is the bytes it spells, without its digits;
in `GdbProtocol` a checksum is right or wrong. A handler is one step of
`GdbProtocol`: that nothing of it is seen before it ends is `Atomicity` of
`Simulator`. What C leaves undefined is a choice: `Junk` for uninitialised
locals, `InitialFiles` and `InitialMemories` for `malloc`, `StraySlot` for the
out-of-range table index of the modes below 16, `SEGV` for an access far out of
the memory, going on or dying for an interrupt thread whose core has been freed,
either order of the operands of `f()+END_LOCATION`.

**Validation of the transcription.** Besides the properties, the operators were
compared with the compiled C: for 6000 random instruction words, register files
(all modes) and memories, `Instruction!arm_step` and `arm_step` agreed on every
register, every byte and the result.

## 3. The runs

| run | question | result |
|---|---|---|
| `core` | Do all sequences of three instructions of ten kinds and two interrupts or debugger writes, in every mode (one that is none of the seven included), keep the types and the bank isolation? Does a handler that keeps its lr and saved status return to the interrupted instruction with the interrupted CPSR (`ReturnResumes`)? Does an interrupt leave r1–r14 of the program alone (`EntryKeepsProgram`)? | yes |
| `simulator` | Whatever the interleaving of debugger thread, interrupt thread and `main`, does the core go from complete operation to complete operation as `CoreMachine` says (`Atomicity`, a refinement with the mapping `committed`)? Is it freed only after the debugger thread is done? Is every interrupt connection served to its last byte (`InterruptsDelivered`)? | yes; delivery under `FairSpec`, unless the debugger continues the program |
| `protocol` | Two commands, with up to two faults of the line: is each executed once and answered with the answer of its execution (`ExactlyOnce`, a refinement of `GdbCommands`)? Is each answered in the end (`CommandsAnswered`)? When things are lost or packets are read byte by byte, how often can a command be executed (`ExecutionsBounded`)? Does the debugger read back what it wrote, in registers and memory (`DebuggerReadsBack`)? | yes; at most once more for each invalid byte and each thing lost |
| `scanner` | Does the generated scanner apply the rules of `scanner.l` (`ImplementsRules`, a refinement of `ScannerRules`), for every stream, however it is cut into reads? Does its buffer hold? Is there always a text to fall back to (`NoInternalError`)? Does it come to the end of every stream? | yes |
| `diagnostics` | Is the stack of positions that of the accesses the thread at work is inside of? Whose position is printed? Does the search in the table of debugged files find what was inserted? | yes, within the limits `PrintsOwnPosition` and `SearchFindsAsked` state |
| `arithmetic` | Do the opcodes compute what arithmetic says, for all operands and flags? Do the two condition tables agree? | yes |
| `transfers` | Does a load bring back what the mirrored store wrote, at all alignments and across the end of memory? Do failing stores stay in range? | yes |
| `masked_interrupt` | Does a set I bit keep interrupts out, as the comment in `execute_` says? | no |
| `shared_bank` | Does IRQ mode have an R13 and R14 of its own, as `arm_constants.h` lays out? | no |
| `conditional_store` | Does `condition_passed` see the flags, as its comment says? | no |
| `greater_or_equal` | Does condition GE after CMP mean greater or equal? | no |
| `continue` | Can an interrupt be sent to a running simulator, as README:64 says? | no: it waits for the lock |

Each property of a passing run has a mutant in `PROJECT.json`: a plausible bug,
written next to the definition it replaces, with which the run fails. Some mutants
of the type invariants let a value leave the width of its C type: they stand for a
variable that was given a wider type.

## 4. Bounds and fairness

- **`WordBits` = 32** except in `arithmetic` (4): the arithmetic treats all bits
  but the sign alike, so with 4 bits every pattern of carry into and out of the
  sign, with and without a carry chain before it, occurs. The proofs cover every
  width above 1.
- **`MemBits` = 5** (32 bytes; 17 in the code). It holds the exception vectors,
  transfers of four words at all alignments, and both ends. Nothing in the code
  depends on the size but the bounds test. The proofs cover all sizes.
- **`MaxCycles`, `MaxCalls`.** `core`: 3 instructions and 2 calls are enough to
  change mode, write a banked register there and come back, and to interrupt a
  handler that then works and returns. `simulator`: 2 instructions, 2 packets of
  any kind and 2 connections with up to 2 bytes, each interleaved at every write;
  there `MaxCalls` is higher than what they can use, so that it cuts off nothing.
  The proofs cover all bounds.
- **`protocol`.** `MaxCommands` = 2 of 13 commands: the retransmission of one can
  be met by the other, and a handler can read what another wrote. `MaxFaults` = 2
  lets a packet and its answer fail, or one of them twice, or a loss follow damage.
  `MAX_ERROR_SIZE` = 2 (1024) lets two invalid bytes fill the buffer.
  `MCGarbles` has one invalid byte (Ctrl-C), two runs of them parted by a `+` (a
  packet without its `$`, such as `qSupported:multiprocess+;swbreak`), and a `-`
  before invalid bytes, which asks for the last answer. An invalid byte counts as a
  fault, so that one garbled packet of two runs already is the third execution of a
  command asked once; the bytes of a run behind its first change nothing but the fill
  of the buffer. The proofs are about all sequences of such bytes.
  `MaxContinue` = 1: what `c` does to the core in more steps is the matter of
  `core` and `simulator`. Faults strike the token at the head of a line: since the
  line keeps the order, every token comes to that point.
- **`scanner`.** Every stream of up to four bytes over one byte of each class that
  the automaton tells apart, and packets with bodies, ends and surroundings chosen
  for what can go wrong: NULs at each place, a `$` or `#` too many, a packet cut
  off. A buffer of 2 bytes (16384) and reads of at most 3 (8192) make every longer
  token grow the buffer, often twice. `YY_BUF_SIZE` of 2 is the least that leaves
  room for a first read.
- **`diagnostics`.** A table of 4 names (64) and one name and one option more, so
  that it can be filled and overrun; `MaxNesting` = 2 is what the source has (reads
  in the arguments of a write); a stack of 4 (128), which `StackMatches` shows is
  never filled beyond `MaxNesting`; 4 accesses between two releases of the lock,
  any number of times.
- **`CycleWrap`** is 2^32. The passing runs never get there; `continue` sets it
  to 2 so that an endless program is a finite graph. No other part of the code
  reads the counter.
- **Deadlock** is not checked where a bound or the end of the process stops the
  machine: after `MaxCycles`, after exit, or when all input has been consumed.

**Fairness.** In `Simulator` (`FairSpec`): weak fairness of each thread's steps
from label to label and of `main`'s, justified by the operating system's scheduler,
which runs every thread that is not blocked. A thread is blocked on an empty socket
or on a held lock; weak fairness of a thread that waits for the lock asks for
nothing while another takes it again and again, which is all a pthread mutex
promises. Nothing is assumed of the debugger or of the clients: they may stop
sending at any time. `InterruptsDelivered` holds under this weak assumption because
in that run the debugger sends a bounded number of packets (`MaxPackets`), so that
the lock is eventually free for good. It excludes runs in which the debugger
continues the program (`KeepsLock`): there `cont` may keep the lock for ever, which
is what the run `continue` shows.

In `GdbProtocol`: weak fairness of the stub's thread, except in the middle of a
command of `Endless` (`c`), since no one promises that a program stops; and of gdb
reading what it is sent, asking again and timing out. It need not issue commands or
leave. gdb times out when nothing is on the way any more (`Still`): it sends its
packet again, or asks for the answer again, unless the command is one whose stop reply
it awaits for ever (`Untimed`: `s`, `c`). `CommandsAnswered` therefore excepts a lost
stop reply with nothing on the way (`StopReplyLost`). The scanner holds a packet
without its `#` until the next `$`; hence invalid bytes on the line do not keep gdb
from timing out. The model sets gdb no limit of attempts, and has no timeout that
races a late answer. The line is not fair: it may fault or not, up to `MaxFaults`. It
does not turn an acknowledgement into another, and puts nothing of its own on the way
to gdb; an answer without its `$` or `#` is the same to gdb as a lost one, since no
answer holds a `+` or `-`.

In `Scanner`: weak fairness of the thread, and `read()` returns in the end with
data, the end of the stream or an error, that is, gdb goes on sending or closes.

## 5. The proofs

TLAPS checks every statement of the eight proof modules to its last leaf.

**Assumptions.** The constants are typed (`ArmCoreAssumption`, `SimulatorAssumption`,
`ProtocolAssumption`, `DiagnosticsAssumption`, `ScannerAssumption`), words have 32 bits
(in `DataProcessingProofs` any width above 1), the memory at most 2^31 bytes, there is
at least one instruction word and one value an uninitialised word can have, and the
stray slot is not that of the CPSR (`StraySlotAssumption`; in the linked program the
byte is zero). The bound of `Simulator` on calls has room for all packets and bytes
(`MaxPackets + MaxClients * MaxBytes <= MaxCalls`): otherwise it would stop the abstract
machine where the code goes on. The stack of positions is as deep as accesses nest
(`MaxNesting <= StackSize`: 2 and 128). The bytes a garbled packet is read as are
invalid ones, `+` and `-`, at least one of them invalid (`GarblesAssumption`): the
checksum's digits always are. Nothing is assumed of the program, the interrupts or the
packets beyond their types, and nothing of the handlers of `GdbProtocol` but, in
`ProtocolTyped`, that they keep types themselves (`HandlersTyped`). Where the handlers
are those of `GdbHandlers` (`Simulated`), the commands are well formed
(`SessionAssumption`): an `X` has at least the bytes it announces, the text of a word is
four bytes, and a pc the debugger writes is the address of an instruction, as gdb sends
them.

**`CoreLemmas`** follows the code bottom up. `Reach(r)` is the set of slots that
the mode in `r` may write: its bank, and the slots common to all modes.
`StaysIn(r, s)` says that `s` is a well-typed register file that differs from
`r` within that reach. One lemma per operation shows that it stays within reach:
`WriteRegisterStays` from the bank table, then each class of instruction, then
dispatch, condition and fetch (`InstructionStays`). The point that needs care is
that the pc is written and the CPSR replaced on the way (`StaysThenCommon`,
`SameModeSameReach`): an instruction that changes the mode must not afterwards
write registers of the new one.

**`ArmCoreProofs`** shows that an exception entry writes, once the new CPSR is
in place, the sp and lr of the handler's bank only (`ExceptionEnters`), and
composes it with the instruction before (`StepIsolated`). The inductive invariant
is `TypeOK` itself: with it each action of `ArmCore` keeps `TypeOK` and satisfies
`BankIsolationStep` (`NextKeeps`, one case per action).

- `TypeCorrect`: `Spec => []TypeOK`.
- `BanksIsolated`: `Spec => BankIsolation`, that is, whatever the program,
  interrupts and packets, a step changes no register outside the bank it starts
  in and the sp and lr of a handler it enters.

A second part of the module follows one register from the interrupt to the return.
The inductive invariant `FrameInv` says that while a frame is open the lr of the
handler holds some pc seen ahead of the fetch (`AheadOfFetch`), the instruction to
resume lies 4 below it, and the slot of the saved status (r0, section 6) holds the
interrupted CPSR, in a mode that has a name. Entry establishes it (`InterruptEnters`),
other steps keep the frame by the model's own conditions, and the return restores it
by two facts about the 32-bit arithmetic: that subtracting 4 and adding it again is the
identity, for every word (`AddBack`, by following the borrow to the first bit that is 1,
where the carry stops), and that the next fetch is then of the interrupted instruction
(`FetchAgain`).

- `HandlerReturns`: `SpecR => ReturnResumes`.
- `EntriesKeepProgram`: `SpecR => EntryKeepsProgram`.

**`DataProcessingProofs`** shows that the operations on bits are arithmetic, for words of
every width. A word stands for the sum of the weights of its bits; `LowBits` sums those
of its lowest n, and the proofs go along n from one position to the next. The provers
here cannot take an induction rule as a theorem about all predicates; `Upwards` states
the one needed for a set of numbers, by its least number missing, and `StepsSolved`
that the sum is what its recursive equation says.

1. `CarryStep` and `BorrowStep`: `Carries` and `Borrows`, defined by where a carry is
   born and what it passes, satisfy the equation of an adder's one position. With them
   `LowSum` and `LowDifference` say by how much the lowest n bits of a sum or
   difference differ from the sum or difference of the numbers: by the carry out.
2. `Numbers` and `SumsOfWords`: a whole word stands for a number below the modulus, its
   sign bit tells the halves apart, its complement is the modulus less one less it.
3. The invariant `IInv` says that a finished execution holds the result and flags of
   `Result` and `FlagsAfter` on inputs that have not changed. Each opcode is then the
   arithmetic of 2 (`ArithmeticIsExact`), and the overflow flag, computed from three
   sign bits, is compared with the range of the signed sum (`FittingSum`).

- `ArithmeticIsExact`: `Spec => []ArithmeticExact`.
- `OverflowsAreFlagged`: `Spec => []OverflowOfAdditions`.
- `ConditionTablesAreOne`: `Spec => []ConditionTablesAgree`; row by row (`TablesAgree`).
- `ArithmeticTyped`: `Spec => []TypeOK`.

**`TransferProofs`** takes the arithmetic to addresses. The bytes of a transfer are at
addresses that count modulo 2^32, in an order that depends on the byte order; the
properties speak of numbers.

1. *Distances.* `AddressesAreBelow`: an address is one of the memory just when the number
   of the word is from 0 to below its size. `Distance`: k bytes after a word of number n
   is the number n + k, as long as k is small; `DistancesDiffer` and `DistancesAdd` are
   what follows of two of them. Nothing overlaps, across the end of the address space
   included.
2. *Bytes.* `ReadsBack`: bytes stored each once (`OneByteEach`), those of a value among
   them, give the value when they are read, in both byte orders (`LanesCover`). The places
   of a list are 0, 1, ... in the order of the registers (`Places`), so that its words are
   apart (`ListApart`). `ListResult` says which registers a list that fails midway has
   transferred.
3. *Registers.* In one of the seven modes the sixteen registers have sixteen slots
   (`SlotsDiffer` of `CoreLemmas`), so that what was written is read (`WrittenAreRead`).
4. *Decoding.* `StoreExecutes` and `LoadExecutes`: the instruction and its mirror pass
   the condition tables and the decoders of `arm_instruction.c` and `arm_load_store.c` and
   end in the store and the load of the same form, address and registers.
   `BeginsAtFirst`: the address is the one the reference computes with numbers.
5. *The machine.* `TransferInv` says that the memory is what the store leaves of the one
   before, that the machine goes on to the load only if the store lies in the memory
   (`Inside`), and that the registers the load takes its address from are as before. The
   three properties are then about the one outcome `Stored`.

- `LoadsReadBack`: `TransferSpec => []LoadReadsWhatStoreWrote`.
- `StoresKeepToRange`: `TransferSpec => []StoreStaysInRange`.
- `FailedStoresKeepWords`: `TransferSpec => []FailedStoreKeepsWords`.
- `TransfersTyped`: `TransferSpec => []TransferTypeOK`.

They are about the stores `TransfersAssumption` names: unconditional (`condition_passed`
sees no flags, section 6), of registers other than the pc (a load of the pc clears a bit),
in one of the forms whose address is defined, in one of the seven modes (in another, all
registers share a slot).

**`AtomicityProofs`** begins with who works on the core. `LockInv` says: the lock is held by
a thread just when that thread is inside the critical section (`HolderWorks`),
the packet that waits for the lock has a handler (`WaitsForHandler`, without
which `HandlerLabel` could lead anywhere), and `main` is past the join only if
the debugger thread is done (`JoinedDone`). Steps fall into four kinds with a
lemma each: a move within or outside the critical section, taking the lock,
giving it back, and no move at all.

- `OneThreadAtWork`: the two threads are never inside their operations at once.
- `DebuggerKeepsCore`: `main` frees the core only after the debugger thread.

The rest of the module shows that the writes of the two threads add up to complete
operations. The inductive invariant `WorkInv` extends `LockInv` by what the thread at
work has done so far: for each label of `execute_`, which of its writes the registers
already hold and what the locals were read from (`Entering`, `EntryAt`); for each label
of a step, that the instruction has been fetched (`Fetched`) or has had one of its
outcomes (`Ran`); for `G`, that the general registers are written and the CPSR is not
(`HalfWritten`); and that the core is as committed whenever the lock is free. It also
counts the calls that bytes and packets on their way can still make, so that the bound
of the abstract machine is never the reason why a step is not one of it
(`CallsCounted`). Each step then leaves `committed` alone, or is the last of an operation
and the abstract machine makes the whole of it at once.

- `CoreAtomic`: `Spec => Atomicity`, the refinement of `CoreMachine`, for all programs,
  clients, packets and interleavings, with `cont` and the end of the process.
- `SimulatorTyped`: `Spec => []TypeOK`, from the same invariant.

**`GdbProtocolProofs`** needs an invariant that says why once-only execution holds
although no side numbers its packets: as long as nothing is lost and no invalid byte
comes through (`noise` = 0), the two speak in turn. `Turns` lists the stages of an
exchange (`Idle`, `Asked`, `Handling`, `Served`, `Killed`, `Gone`), each with everything
that may be on the line in it, at most two tokens. A packet with a good checksum is on
the line in `Asked` only, the stub leaves that stage when it acknowledges, and nothing
leads back to it before the answer is taken; a `-` in `Served` therefore can only ask
for the answer. `Inv` adds that losses and invalid bytes are counted, so that a quiet
line was always quiet. One lemma per action shows that it keeps `Inv` and is a step of
`GdbCommands` or none of its variables' concern (`NextStep`).

- `ExecutedOnce`: `Spec => ExactlyOnce`, the refinement of `GdbCommands` as long as
  `noise` is 0, for all commands, handlers, targets and numbers of damaged packets and
  answers.
- `InvalidDataFits`: `Spec => []ErrorsFit`, with noise.

The next sections are about the same machine when things are lost and packets are
garbled, and nobody speaks in turn any more. `CountInv` counts executions before they
happen: every packet and every invalid byte on its way to the stub, every `-` on its
way to gdb, the invalid data the stub keeps and the command in hand can each become one
execution, and none becomes two (`Coming`). The sum never exceeds what was asked, the
invalid bytes there were and the things lost (`noise`): a garbled packet takes itself out
of the sum and puts its invalid bytes in (`GarbleCounts`, `NoiseCounts`), however its
`+` and `-` part them. The delicate step is gdb's timeout, which sends a packet again
although nothing was refused: it can only happen when what the first one would have
come to, or its acknowledgement, is lost, which `Awaited` keeps track of.

- `NoiseExecutesOnceMore`: `Spec => []ExecutionsBounded`: whatever is damaged, lost and
  garbled, each invalid byte and each thing lost costs one execution at most. A packet
  without its `$` is as many invalid bytes as the scanner finds in it, not one fault.
- `ProtocolTyped`: `HandlersTyped` implies `Spec => []TypeOK`. The invariant `Typed` adds
  what the packets on the line carry: commands one way, answers the other. The hypothesis
  says that a handler makes of a command and a target a target and an answer or none.

The last sections put the handlers of `GdbHandlers` in. The hypothesis `Simulated` of
their two theorems is what `MCGdbProtocol.cfg` substitutes: the targets are register
files with a memory and an exception, the outcomes are `Handle`.

1. *Types.* One lemma per handler shows that its outcomes are of the type `Yields`;
   `StepTyped` goes through the instructions for what `arm_step` may hand to `step` and
   `cont` as the last exception, which has to fit a byte. `Run` in `Executes`, `Read` in
   `Unescape` and `Written` in `Escaped` are recursive functions; `StepsSolved` says that
   they satisfy their equations, and `Upwards` goes along them.
2. *Addresses.* `BytesDiffer`: the bytes of an `X` or `m` that are inside the memory have
   addresses of their own, modulo 2^32, and are the first ones of the transfer
   (`InMemoryIsInitial`), so that none is stored over another.
3. *Texts.* `WordOfText` undoes `write_uint32` in the four combinations of byte orders;
   `EscapedIsRead` undoes the escapes of gdb, by the sequence read so far and the
   position in the content, which do not advance together.
4. *Reading back.* A register written in a mode is read in it, the pc through the offset
   of `arm_read_register` and the one `g` takes off again (`FetchBack`); what `m` shows
   of a word that was stored is what `g` would show of it in a register.

- `SessionTyped`: `Simulated` implies `Spec => []TypeOK`.
- `DebuggerReads`: `Simulated` implies `Spec => []DebuggerReadsBack`.

**`DiagnosticsProofs`** relates the stack of `trace.c` to the accesses on the C stack.
`Matches` says that the k-th position on the stack is that of the k-th access that has
not yet left it (`Rank`), and `Sound` that a thread's open accesses are its own, in the
order they began; only the thread at work has any, so the other cannot disturb them.
For the table of names, `CommandInv` says that the names are sorted, and `LeastOf` finds
the place where the next one goes; `TableInv` adds that the names in it are those asked
for, as long as there were no more options than entries. The search keeps the name it
looks for between its two bounds, and halves what is between them; that it ends is shown
on the size of the interval.

- `StackInStep`: `Spec => []StackMatches`.
- `OwnPositions`: `Spec => PrintsOwnPosition`.
- `DebuggedFilesFound`: `Spec => []SearchFindsAsked`.
- `DiagnosticsTyped`: `Spec => []TypeOK`; in particular the stack never holds more than
  its 128 positions.

**`ScannerProofs`** shows that the generated code does what `scanner.l` says, for every
stream, every way to cut it into reads, every size of the buffer and NULs anywhere among
the bytes.

1. *The automaton.* `Tables` and `Entries` read the tables off, `From*` the transitions
   from each state. `Reads(q, s, i, n)` says what n bytes lead to the state q, and `Dead`
   which texts no rule can go on with; `OneByteMore` shows that a transition takes the one
   to the other. `Accepted` connects the accepting states with the rules: the first rule
   that matches the text, and no other. `CompleteNoLonger`, `DeadNoPacket` and
   `InsidePacket` say when no longer text can match.
2. *Runs.* `Running` adds where the automaton last could have ended: inside a packet that
   is the `$` alone. `PreviousRuns` shows that `yy_get_previous_state`, which goes through
   the text again after a refill or a NUL, comes to the state of that text. It is a
   recursion over the text; `RunsExist` and `Least` do the induction by the least
   counterexample. `BestOf` then gives the longest match when the loop ends.
3. *The buffer.* `ScanInv`, the invariant, says at each label what the buffer holds of the
   stream (`Content`: the bytes, then two NULs), where in it the token begins (`TokenAt`),
   and what the automaton has read. A NUL under the automaton means either a byte or the
   end (`NulAt`); the two are told apart by the position alone, which is why `TextFound`
   carries both the length and the text before it. TLC has checked `ScanInv` on the
   instance of the run `scanner` before it was proved. One lemma per action keeps it.

- `FlexImplementsRules`: `ScannerSpec => ImplementsRules`.
- `BytesFitBuffer`: `ScannerSpec => []BufferFits`.
- `NoInternalErrors`: `ScannerSpec => []NoInternalError`. The model has no action for the
  `case 0` of `yylex`, which this theorem shows is dead code.
- `ScannerTyped`: `ScannerSpec => []TypeOK`.

They assume of the stream that it is a finite sequence of bytes, and that the buffer has
room for two bytes and a read asks for at least one (`ScannerAssumption`).

**Model-checked only.**

- Liveness (`InterruptsDelivered`, `CommandsAnswered`, `ReachesEnd`): fairness is out of
  the prover's reach. Every invariant, action property and refinement that a passing run
  checks is also a theorem.

## 6. Where the code and its own words differ

The five violation runs, each with the line it disagrees with (`findings`):
interrupts are taken while masked; SVC, ABT, UND and IRQ share one R13 and R14,
because `registers.c:56` compares a loop index below 16 with constants from 16
up; `condition_passed` looks for the flags in a byte; the overflow of a
subtraction is inverted when the operands' signs differ; an interrupt waits
while the program is continued.

Others are reproduced by the model and visible in its definitions, without a run:

- The bank table has no column for the SPSR: every SPSR is slot 0, which is r0
  (`SpsrColumn`). A handler that writes r0 loses the status it returns to;
  `InterruptReturn` has to exclude it.
- `swi` saves the address of the instruction after next: the pc is read 4 ahead
  of the fetch, which has advanced it already (`ReturnAddress`).
- `ldrb` compares an unsigned status with -1 and never writes its register (`LDRB`).
- An access that fails returns -1 as a byte, 255, which `arm_exception` ignores:
  no data abort is ever taken (`FAULT`). `ldr` then writes an uninitialised word.
- The assertion on the end address of `ldm`/`stm` fails when a transfer stops
  before the last register (`ABORT` in `MultipleResult`).
- A `strh` with P = 1 and U = 0 has the bits by which `arm_instruction.c` knows an
  access to the status registers (`IsStatusAccess`), which it tests for first: it is
  executed as one of these.
- A mode below 16, reached by `msr` or by the debugger, indexes the bank table
  at a negative offset (`StraySlot`).
- The carry of an addition or subtraction is computed without bit 31, and a borrow that
  meets 0 - 1 is lost (`getCarryFlagAdd`, `getCarryFlagSub`).
- A run of invalid data makes the stub send `-` at the next token, whatever that is
  (`handle_error`). gdb, which waits for the acknowledgement of its last command,
  sends it again, and the stub executes it again. A packet that lost its `$` is read
  byte by byte, and each `+` or `-` in it ends a run: `qSupported:multiprocess+;swbreak+`
  and more can cause several executions of the command, one for each run
  (`ExecutionsBounded` counts the invalid bytes). So can the loss of the stub's `+`,
  which makes gdb time out. A Ctrl-C during `c` is such an invalid byte: it does not
  stop the program.
- `p` reads the number of its register with `atoi`, `P` with `%x`: `p` of r10 to r15
  shows r0, and the CPSR (0x19) ends the process with an assertion (`Atoi`, `Dead`).
- A `G` that changes the mode writes r8–r14 in the bank of the old mode, then the
  CPSR; `DebuggerReadsBack` is about a `G` that keeps it.
- A write after `k` has shut the connection, or after gdb has closed it, ends the
  process (`Sends`).
- A debugged file that sorts inside a full table is inserted all the same, and
  shifts the last entry out of the array (`Overrun`).
- `arm_simulator.c:128-129` promises the file and line of each traced access. A read
  may be printed without a position, or with that of the access it is an argument
  of, since the compiler may pop the position first; the registers read for
  `--trace-state` are traced too, without any (`PrintsOwnPosition`, `trace_arm_state`).

And one the model does not show, because answers have no size in it: the answer to an
`m` of more than 509 bytes does not fit in `packet[1024]` (`gdb_protocol.c:248`), and
the announced `PacketSize=400` (hexadecimal) does not keep gdb from asking for 512.

## 7. What is not modelled

- The digits of packets and their arithmetic checksum: `GdbProtocol` has good and bad
  ones, `GdbHandlers` the bytes that the digits spell. The limits of `sscanf` and of
  the packet buffer are therefore outside the models.
- Of `scanner.c`: what `gdb_scanner` does not reach (`yypush_buffer_state`,
  `yy_scan_buffer`, the accessors, `input`), `malloc` that fails, and buffers beyond
  half the range of `int`, where growing takes its other branch.
- Of `trace.c`: the wording of lines, cycle numbers, sequential and non-sequential
  accesses (`last_address`), the format selected by `ARM_TRACE_FORMAT`.
- Of `csapp.c`: all but `Rio_writen`; wrappers of system calls without state.
- Names of registers and modes (`arm_constants.c`), ports and socket set-up
  (`arm_simulator.c`, `send_irq.c`): wording and I/O.
- `memory_test.c`, `Examples/`: tests and programs to simulate.

## 8. The plan

Done, in this order: the operators of the instruction set (`Words` to
`Instruction`), `ArmCore` with its types and isolation, `InterruptReturn`,
`Simulator` as an implementation of `CoreMachine`, the exhaustive checks of arithmetic
and transfers; then the way from the debugger's bytes to the core (`ScannerRules`,
`Scanner`, `GdbCommands`, `GdbHandlers`, `GdbProtocol`), `SendIrq` and
`Diagnostics`; and the proofs of section 5.

Next: `Machine`, `ArmCore` with the instruction fetched from `mem`, shown to implement
`ArmCore`; programs that store over their own code.
