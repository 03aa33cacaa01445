----------------------------- MODULE Simulator -----------------------------
(***************************************************************************)
(* arm_simulator.c: the process.  main creates the core, starts one thread *)
(* for the debugger and one for interrupts, waits for the first and tears  *)
(* the core down.  Both threads work on the core under one mutex, in steps *)
(* as small as the writes the code makes to it.                            *)
(*                                                                         *)
(* What the lock is for is stated by CoreMachine: seen at the points where *)
(* an operation is complete, the core behaves as if each were one step.    *)
(***************************************************************************)
EXTENDS CoreOperations

CONSTANTS
    Clients,        \* the byte sequences an interrupt client may send
    MaxClients,     \* bound: interrupt connections
    MaxBytes,       \* bound: bytes of a connection
    Packets,        \* the kinds of packet the debugger sends
    MaxPackets      \* bound: packets

Threads == {"gdb", "irq"}
PacketKinds == {"s", "c", "P", "G", "X", "read", "unsupported", "badChecksum"}

\* The bounds leave room for every call the clients and the debugger make.
ASSUME SimulatorAssumption ==
    /\ Clients \subseteq Seq(Irqs)
    /\ MaxClients \in Nat
    /\ MaxBytes \in Nat
    /\ \A bytes \in Clients : Len(bytes) <= MaxBytes
    /\ Packets \subseteq PacketKinds
    /\ MaxPackets \in Nat
    /\ MaxPackets + MaxClients * MaxBytes <= MaxCalls

VARIABLES
    regs, mem, cycle_count,     \* the core the threads share
    lock,           \* shared.lock: its holder, or "free"
    pc,             \* where each thread is
    local,          \* locals of each thread: of execute_ and of arm_step
    main,           \* where main is
    ended,          \* 0, or how the process ended
    backlog,        \* connections the interrupt thread has not accepted
    unread,         \* bytes of the accepted connection it has not read
    clients,        \* interrupt connections opened so far
    packets,        \* packets received so far
    packet,         \* the packet the debugger thread works on
    committed       \* history: the core after the last complete operation

vars == <<regs, mem, cycle_count, lock, pc, local, main, ended, backlog, unread,
          clients, packets, packet, committed>>

shared == <<regs, mem, cycle_count>>
irqWire == <<backlog, unread, clients>>
gdbWire == <<packets, packet>>

RETURNED == 259         \* main returned

\* ins, result: the instruction being stepped and what it returned.
\* exception, sp, addr, cpsr: the parameter and locals of execute_.
NoLocals == [ins |-> {}, result |-> 0, exception |-> 0, sp |-> {}, addr |-> {}, cpsr |-> {}]

Core == INSTANCE CoreMachine WITH
            regs <- committed.regs, mem <- committed.mem,
            cycle_count <- committed.cycle_count, calls <- committed.calls,
            ended <- committed.ended

---------------------------------------------------------------------------
\* main up to the creation of the threads.
Init ==
    /\ regs \in Created
    /\ mem \in InitialMemories
    /\ cycle_count = 0
    /\ lock = "free"
    /\ pc = [gdb |-> "accept", irq |-> "accept"]
    /\ local = [t \in Threads |-> NoLocals]
    /\ main = "join"
    /\ ended = 0
    /\ backlog = <<>>
    /\ unread = <<>>
    /\ clients = 0
    /\ packets = 0
    /\ packet = "none"
    /\ committed = [regs |-> regs, mem |-> mem, cycle_count |-> 0, calls |-> 0, ended |-> 0]

Running == ended = 0
Freed == main \in {"memory", "return"}      \* after arm_destroy

At(t, label) == Running /\ pc[t] = label
Goto(t, label) == pc' = [pc EXCEPT ![t] = label]

\* An operation of the core is complete.
Commit(calls) ==
    committed' = [regs |-> regs, mem |-> mem, cycle_count |-> cycle_count,
                  calls |-> committed.calls + calls, ended |-> ended]

\* Mutant: the interrupt thread does not wait for the lock.
LockWithoutWait(t, next) ==
    /\ At(t, "lock")
    /\ t = "irq" \/ lock = "free"
    /\ lock' = t
    /\ Goto(t, next)

Lock(t, next) ==
    /\ At(t, "lock")
    /\ lock = "free"
    /\ lock' = t
    /\ Goto(t, next)

---------------------------------------------------------------------------
(* execute_ in thread t: the reads, then one step per write.               *)

\* Codes that name no exception leave arm_exception at once.
BeginException(t, exception, leave) ==
    IF exception \in Exceptions
    THEN /\ local' = [local EXCEPT
                ![t].exception = exception,
                ![t].sp = arm_read_register(regs, SP),
                ![t].addr = ReturnAddress(regs, exception),
                ![t].cpsr = read_cpsr(regs)]
         /\ Goto(t, "cpsr")
    ELSE UNCHANGED local /\ Goto(t, leave)

ExceptionWrite(t, label, next, written) ==
    /\ At(t, label)
    /\ ~Freed
    /\ regs' = written
    /\ Goto(t, next)
    /\ UNCHANGED <<mem, cycle_count, lock, local, main, ended, irqWire, gdbWire, committed>>

WriteCpsr(t) ==
    ExceptionWrite(t, "cpsr", "sp",
        write_cpsr(regs, ExceptionCpsr(local[t].cpsr, local[t].exception)))
WriteSp(t) == ExceptionWrite(t, "sp", "lr", EntrySp(regs, local[t].sp))
WriteLr(t) == ExceptionWrite(t, "lr", "spsr", EntryLr(regs, local[t].addr))
WriteSpsr(t) ==
    ExceptionWrite(t, "spsr", "vector", EntrySpsr(regs, local[t].exception, local[t].cpsr))
Branch(t) ==
    ExceptionWrite(t, "vector", IF t = "gdb" THEN "stepped" ELSE "unlock",
        branch_exception_vector(regs, local[t].exception))

TakeException(t) == WriteCpsr(t) \/ WriteSp(t) \/ WriteLr(t) \/ WriteSpsr(t) \/ Branch(t)

---------------------------------------------------------------------------
(* irq_listener.                                                           *)

\* A client connects and sends its bytes.
Connect ==
    /\ Running
    /\ clients < MaxClients
    /\ clients' = clients + 1
    /\ \E bytes \in Clients : backlog' = Append(backlog, bytes)
    /\ UNCHANGED <<shared, lock, pc, local, main, ended, unread, gdbWire, committed>>

IrqAccept ==
    /\ At("irq", "accept")
    /\ backlog # <<>>
    /\ unread' = Head(backlog)
    /\ backlog' = Tail(backlog)
    /\ Goto("irq", "read")
    /\ UNCHANGED <<shared, lock, local, main, ended, clients, gdbWire, committed>>

\* Mutant: the thread serves one connection only.
IrqReadOneConnection ==
    /\ At("irq", "read")
    /\ IF unread = <<>>
       THEN Goto("irq", "done") /\ UNCHANGED <<unread, local>>
       ELSE /\ local' = [local EXCEPT !["irq"].result = Head(unread)]
            /\ unread' = Tail(unread)
            /\ Goto("irq", "lock")
    /\ UNCHANGED <<shared, lock, main, ended, backlog, clients, gdbWire, committed>>

\* A byte, or the end of the connection.
IrqRead ==
    /\ At("irq", "read")
    /\ IF unread = <<>>
       THEN Goto("irq", "accept") /\ UNCHANGED <<unread, local>>
       ELSE /\ local' = [local EXCEPT !["irq"].result = Head(unread)]
            /\ unread' = Tail(unread)
            /\ Goto("irq", "lock")
    /\ UNCHANGED <<shared, lock, main, ended, backlog, clients, gdbWire, committed>>

IrqLock ==
    /\ Lock("irq", "exception")
    /\ UNCHANGED <<shared, local, main, ended, irqWire, gdbWire, committed>>

IrqException ==
    /\ At("irq", "exception")
    /\ ~Freed
    /\ BeginException("irq", local["irq"].result, "unlock")
    /\ UNCHANGED <<shared, lock, main, ended, irqWire, gdbWire, committed>>

\* The core was freed under the thread: undefined, it goes on or dies.
IrqDangling ==
    /\ Running
    /\ Freed
    /\ pc["irq"] \in {"exception", "cpsr", "sp", "lr", "spsr", "vector"}
    /\ \/ Goto("irq", "unlock") /\ UNCHANGED ended
       \/ ended' = SEGV /\ UNCHANGED pc
    /\ UNCHANGED <<shared, lock, local, main, irqWire, gdbWire, committed>>

IrqUnlock ==
    /\ At("irq", "unlock")
    /\ lock' = "free"
    /\ local' = [local EXCEPT !["irq"] = NoLocals]
    /\ Goto("irq", "read")
    /\ IF Freed THEN UNCHANGED committed ELSE Commit(1)
    /\ UNCHANGED <<shared, main, ended, irqWire, gdbWire>>

---------------------------------------------------------------------------
(* gdb_listener and gdb_packet_analysis.                                   *)

GdbAccept ==
    /\ At("gdb", "accept")
    /\ Goto("gdb", "scan")
    /\ UNCHANGED <<shared, lock, local, main, ended, irqWire, gdbWire, committed>>

\* A packet with a bad checksum or without a handler is answered without the
\* lock; any other waits for it.
GdbReceive ==
    /\ At("gdb", "scan")
    /\ packets < MaxPackets
    /\ packets' = packets + 1
    /\ \E p \in Packets :
            IF p \in {"unsupported", "badChecksum"}
            THEN UNCHANGED <<pc, packet>>
            ELSE packet' = p /\ Goto("gdb", "lock")
    /\ UNCHANGED <<shared, lock, local, main, ended, irqWire, committed>>

\* End of file: gdb_scanner returns and the thread exits.
GdbEof ==
    /\ At("gdb", "scan")
    /\ Goto("gdb", "done")
    /\ UNCHANGED <<shared, lock, local, main, ended, irqWire, gdbWire, committed>>

HandlerLabel(p) ==
    CASE p = "s" -> "fetch"
      [] p = "c" -> "peek"
      [] p \in {"P", "G", "X"} -> "write"
      [] p = "read" -> "unlock"

GdbLock ==
    /\ Lock("gdb", HandlerLabel(packet))
    /\ IF packet = "c"      \* the local "instruction" of cont is not initialised
       THEN \E word \in Junk : local' = [local EXCEPT !["gdb"].ins = word]
       ELSE UNCHANGED local
    /\ UNCHANGED <<shared, main, ended, irqWire, gdbWire, committed>>

GdbUnlock ==
    /\ At("gdb", "unlock")
    /\ lock' = "free"
    /\ local' = [local EXCEPT !["gdb"] = NoLocals]
    /\ packet' = "none"
    /\ Goto("gdb", "scan")
    /\ UNCHANGED <<shared, main, ended, irqWire, packets, committed>>

---------------------------------------------------------------------------
(* The handlers that write: P, G, X.                                       *)

\* The last write of a handler completes its operation.
HandlerDone(r, m) ==
    /\ regs' = r
    /\ mem' = m
    /\ Goto("gdb", "unlock")
    /\ committed' = [committed EXCEPT !.regs = r, !.mem = m, !.calls = @ + 1]
    /\ UNCHANGED <<cycle_count, lock, local, main, ended, irqWire, gdbWire>>

GdbWriteRegister ==
    /\ At("gdb", "write") /\ packet = "P"
    /\ \E p \in RegisterWrites : HandlerDone(RegisterWritten(regs, p), mem)

\* r0..r15, then the CPSR.
GdbWriteGeneral ==
    /\ At("gdb", "write") /\ packet = "G"
    /\ \E p \in GeneralWrites :
            /\ regs' = write_registers(regs, 0..15, p[1])
            /\ local' = [local EXCEPT !["gdb"].cpsr = p[2]]
    /\ Goto("gdb", "writeCpsr")
    /\ UNCHANGED <<mem, cycle_count, lock, main, ended, irqWire, gdbWire, committed>>

GdbWriteCpsr ==
    /\ At("gdb", "writeCpsr")
    /\ HandlerDone(write_cpsr(regs, local["gdb"].cpsr), mem)

GdbWriteMemory ==
    /\ At("gdb", "write") /\ packet = "X"
    /\ \E p \in MemoryWrites : HandlerDone(regs, MemoryWritten(mem, p))

---------------------------------------------------------------------------
(* The handlers that run the processor: s and c.                           *)

\* The undefined instruction gdb puts in place of one to stop at.
IsBreakpoint(ins) == ins \cap ((20..31) \cup (4..7)) = (({31, 30, 29} \cup (20..26)) \cup (4..7))

\* cont looks at the next instruction before it steps; when the read fails it
\* keeps the one it had.
GdbPeek ==
    /\ At("gdb", "peek")
    /\ Access(FetchAddress(regs), 4) # SEGV
    /\ \E ins \in IF Access(FetchAddress(regs), 4) = 0 THEN Program ELSE {local["gdb"].ins} :
            /\ local' = [local EXCEPT !["gdb"].ins = ins]
            /\ Goto("gdb", IF IsBreakpoint(ins) THEN "unlock" ELSE "fetch")
    /\ UNCHANGED <<shared, lock, main, ended, irqWire, gdbWire, committed>>

\* arm_fetch: the pc advances whether or not the read succeeds.
GdbFetch ==
    /\ At("gdb", "fetch")
    /\ cycle_count < MaxCycles
    /\ Access(FetchAddress(regs), 4) # SEGV
    /\ cycle_count' = (cycle_count + 1) % CycleWrap
    /\ regs' = AfterFetch(regs)
    /\ \E ins \in IF packet = "c" THEN {local["gdb"].ins} ELSE Program :
            local' = [local EXCEPT !["gdb"].ins = ins]
    /\ Goto("gdb", IF Access(FetchAddress(regs), 4) = FAULT THEN "abort" ELSE "execute")
    /\ UNCHANGED <<mem, lock, main, ended, irqWire, gdbWire, committed>>

\* The process dies in the fetch or in the execution of the instruction.
ProcessDies(how, cycles) ==
    /\ ended' = how
    /\ committed' = [committed EXCEPT !.ended = how, !.cycle_count = cycles]
    /\ UNCHANGED <<shared, lock, pc, local, main, irqWire, gdbWire>>

GdbFetchDies ==
    /\ At("gdb", "fetch") \/ At("gdb", "peek")
    /\ cycle_count < MaxCycles
    /\ Access(FetchAddress(regs), 4) = SEGV
    /\ ProcessDies(SEGV, (cycle_count + 1) % CycleWrap)

GdbPrefetchAbort ==
    /\ At("gdb", "abort")
    /\ BeginException("gdb", PREFETCH_ABORT, "stepped")
    /\ UNCHANGED <<shared, lock, main, ended, irqWire, gdbWire, committed>>

GdbExecute ==
    /\ At("gdb", "execute")
    /\ \E junk \in [address : Junk, word : Junk] :
        LET done == Execute(regs, mem, local["gdb"].ins, junk)
        IN  IF done.result \in ProcessEnds
            THEN ProcessDies(done.result, cycle_count)
            ELSE /\ regs' = done.regs
                 /\ mem' = done.mem
                 /\ local' = [local EXCEPT !["gdb"].result = done.result]
                 /\ Goto("gdb", "executed")
                 /\ UNCHANGED <<cycle_count, lock, main, ended, irqWire, gdbWire, committed>>

GdbException ==
    /\ At("gdb", "executed")
    /\ BeginException("gdb", local["gdb"].result, "stepped")
    /\ UNCHANGED <<shared, lock, main, ended, irqWire, gdbWire, committed>>

\* arm_step has returned.
GdbStepped ==
    /\ At("gdb", "stepped")
    /\ Commit(0)
    /\ Goto("gdb", IF packet = "c" THEN "peek" ELSE "unlock")
    /\ UNCHANGED <<shared, lock, local, main, ended, irqWire, gdbWire>>

---------------------------------------------------------------------------
(* The end of main.                                                        *)

MainGoto(label, next) ==
    /\ Running
    /\ main = label
    /\ main' = next
    /\ UNCHANGED <<shared, lock, pc, local, ended, irqWire, gdbWire, committed>>

\* Mutant: main does not wait for the debugger thread.
MainDoesNotJoin == MainGoto("join", "destroy")

MainJoin == pc["gdb"] = "done" /\ MainGoto("join", "destroy")
ArmDestroy == MainGoto("destroy", "memory")
MemoryDestroy == MainGoto("memory", "return")

MainReturn ==
    /\ Running
    /\ main = "return"
    /\ ended' = RETURNED
    /\ UNCHANGED <<shared, lock, pc, local, main, irqWire, gdbWire, committed>>

---------------------------------------------------------------------------
Irq == \/ IrqAccept \/ IrqRead \/ IrqLock \/ IrqException \/ IrqDangling \/ IrqUnlock
       \/ TakeException("irq")

\* The debugger thread once a packet is there.
Gdb == \/ GdbLock \/ GdbUnlock
       \/ GdbWriteRegister \/ GdbWriteGeneral \/ GdbWriteCpsr \/ GdbWriteMemory
       \/ GdbPeek \/ GdbFetch \/ GdbFetchDies \/ GdbPrefetchAbort \/ GdbExecute
       \/ GdbException \/ GdbStepped \/ TakeException("gdb")

Main == MainJoin \/ ArmDestroy \/ MemoryDestroy \/ MainReturn

\* What comes from outside: the process has no say in when.
Environment == Connect \/ GdbAccept \/ GdbReceive \/ GdbEof

Next == Irq \/ Gdb \/ Main \/ Environment

Spec == Init /\ [][Next]_vars

Labels == {"accept", "lock", "unlock", "read", "exception", "cpsr", "sp", "lr", "spsr",
           "vector", "scan", "done", "write", "writeCpsr", "peek", "fetch", "abort",
           "execute", "executed", "stepped"}

\* What a thread may be blocked on: the network, the lock, or for good.
Blocked(t) ==
    \/ t = "irq" /\ pc[t] = "accept" /\ backlog = <<>>
    \/ t = "gdb" /\ pc[t] \in {"accept", "scan"}
    \/ pc[t] = "lock" /\ lock # "free"
    \/ pc[t] = "done"

\* A step of thread t, seen from outside: it leaves the label it is at.
Moves(t) ==
    /\ Running
    /\ ~Blocked(t)
    /\ \E label \in Labels \ {pc[t]} : Goto(t, label)

\* The operating system runs every thread that is not blocked; nothing obliges
\* a client or the debugger to send anything.
FairSpec ==
    /\ Spec
    /\ WF_pc(Moves("irq"))
    /\ WF_pc(Moves("gdb"))
    /\ WF_vars(Main)

---------------------------------------------------------------------------
(* Properties.                                                             *)

TypeOK ==
    /\ regs \in RegisterFile
    /\ mem \in MemoryContent
    /\ cycle_count \in 0..MaxCycles
    /\ lock \in Threads \cup {"free"}
    /\ pc \in [Threads -> Labels]
    /\ main \in {"join", "destroy", "memory", "return"}
    /\ ended \in {0, RETURNED} \cup ProcessEnds
    /\ packets \in 0..MaxPackets
    /\ clients \in 0..MaxClients

\* What the lock is for (gdb_packet_analysis and irq_listener take it around
\* every use of the core): however the writes of the two threads interleave,
\* the core goes from one complete operation to the next as CoreMachine says.
Atomicity == Core!Spec

\* main joins the debugger thread before it frees the core: that thread never
\* works on a freed core.
GdbKeepsCore == Freed => pc["gdb"] = "done"

\* The debugger continues the program, or the bound on cycles is reached.
KeepsLock == packet = "c" \/ (pc["gdb"] = "fetch" /\ cycle_count = MaxCycles)

\* irq_listener: every byte of every connection is eventually handed to
\* arm_exception, unless the process ends first or the debugger continues the
\* program, which keeps the lock.  Under FairSpec.
InterruptsDelivered ==
    backlog # <<>> ~> \/ ended # 0
                      \/ backlog = <<>> /\ unread = <<>> /\ pc["irq"] \in {"accept", "read"}
                      \/ KeepsLock


\* What the README says of send_irq, "send exception to a running simulator":
\* an interrupt that has been read is taken.
RunningSimulatorTakesInterrupts ==
    pc["irq"] = "lock" ~> (pc["irq"] = "exception" \/ ended # 0)

=============================================================================
