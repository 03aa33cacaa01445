---------------------------- MODULE AtomicityProofs ----------------------------
(***************************************************************************)
(* Simulator for every program, client and debugger: who works on the core *)
(* holds the lock, main frees the core after the debugger thread, and      *)
(* Simulator implements CoreMachine: the writes the two threads make under *)
(* the lock add up to complete operations.                                 *)
(*                                                                         *)
(* LockInv says who holds the lock; the invariant of the implementation    *)
(* says on top of it, for each label a thread works at, which part of its  *)
(* operation the registers hold already.                                   *)
(***************************************************************************)
EXTENDS Simulator, CoreLemmas, SequenceTheorems

---------------------------------------------------------------------------
(* The invariant.                                                          *)

\* Where a thread does not hold the lock.
Outside == {"accept", "lock", "read", "scan", "done"}
Working(t) == pc[t] \in Labels \ Outside

Handled == PacketKinds \ {"unsupported", "badChecksum"}

\* The threads and main are at labels of theirs.
Places ==
    /\ pc \in [Threads -> Labels]
    /\ lock \in Threads \cup {"free"}
    /\ main \in {"join", "destroy", "memory", "return"}

\* The lock is held by the thread that works on the core, and by no other.
HolderWorks == \A t \in Threads : lock = t <=> Working(t)

\* A packet that waits for the lock has a handler.
WaitsForHandler == pc["gdb"] = "lock" => packet \in Handled

\* main leaves pthread_join after the debugger thread.
JoinedDone == main # "join" => pc["gdb"] = "done"

LockInv == Places /\ HolderWorks /\ WaitsForHandler /\ JoinedDone

\* No two threads are inside the operations the lock protects.
MutualExclusion == \A t, u \in Threads : Working(t) /\ Working(u) => t = u

---------------------------------------------------------------------------
(* How a step moves a thread.                                              *)

\* The packet still fits the place of the debugger thread after t has gone to
\* the label "next".
PacketFits(t, next) ==
    \/ packet' \in Handled
    \/ packet' = packet /\ (t = "gdb" => next # "lock")
    \/ t = "gdb" /\ next # "lock"

\* What a move of thread t to the label "next" keeps, whatever the lock does.
LEMMA MoveKeeps ==
    ASSUME LockInv, NEW t \in Threads, NEW next \in Labels, Goto(t, next),
           UNCHANGED main, pc[t] # "done", PacketFits(t, next)
    PROVE  /\ pc' \in [Threads -> Labels]
           /\ pc'[t] = next
           /\ \A u \in Threads \ {t} : pc'[u] = pc[u]
           /\ WaitsForHandler'
           /\ JoinedDone'
<1>1. pc' = [pc EXCEPT ![t] = next] /\ pc \in [Threads -> Labels]
    BY DEF Goto, LockInv, Places
<1>2. pc' \in [Threads -> Labels] /\ pc'[t] = next /\ \A u \in Threads \ {t} : pc'[u] = pc[u]
    BY <1>1
<1>3. "gdb" \in Threads
    BY DEF Threads
<1>4. WaitsForHandler'
    <2>1. CASE t = "gdb"
        BY <1>2, <2>1 DEF WaitsForHandler, PacketFits
    <2>2. CASE t # "gdb"
        BY <1>2, <1>3, <2>2 DEF WaitsForHandler, PacketFits, LockInv
    <2> QED
        BY <2>1, <2>2
<1>5. JoinedDone'
    BY <1>2, <1>3 DEF JoinedDone, LockInv
<1> QED
    BY <1>2, <1>4, <1>5

\* A move that leaves the lock alone is within the critical section or outside.
LEMMA MoveKeepsLock ==
    ASSUME LockInv, NEW t \in Threads, NEW next \in Labels, Goto(t, next),
           UNCHANGED <<lock, main>>, pc[t] # "done", PacketFits(t, next),
           pc[t] \in Outside <=> next \in Outside
    PROVE  LockInv'
<1>1. /\ pc' \in [Threads -> Labels]
      /\ pc'[t] = next
      /\ \A u \in Threads \ {t} : pc'[u] = pc[u]
      /\ WaitsForHandler'
      /\ JoinedDone'
    BY MoveKeeps
<1>2. Places'
    BY <1>1 DEF LockInv, Places
<1>3. \A u \in Threads : Working(u)' <=> Working(u)
    BY <1>1 DEF LockInv, Places, Working
<1>4. HolderWorks'
    BY <1>3 DEF LockInv, HolderWorks
<1> QED
    BY <1>1, <1>2, <1>4 DEF LockInv

\* A thread that finds the lock free takes it and is then the only one inside.
LEMMA LockKeeps ==
    ASSUME LockInv, NEW t \in Threads, NEW next \in Labels \ Outside, Lock(t, next),
           UNCHANGED <<main, packet>>
    PROVE  LockInv'
<1>1. pc[t] = "lock" /\ lock = "free" /\ lock' = t /\ Goto(t, next)
    BY DEF Lock, At
<1>2. next # "lock"
    BY DEF Outside
<1>3. /\ pc' \in [Threads -> Labels]
      /\ pc'[t] = next
      /\ \A u \in Threads \ {t} : pc'[u] = pc[u]
      /\ WaitsForHandler'
      /\ JoinedDone'
    BY <1>1, <1>2, MoveKeeps DEF PacketFits
<1>4. Places'
    BY <1>1, <1>3 DEF LockInv, Places
<1>5. \A u \in Threads : ~Working(u)
    BY <1>1 DEF LockInv, HolderWorks, Threads
<1>6. \A u \in Threads : Working(u)' <=> u = t
    BY <1>3, <1>5 DEF Working
<1>7. HolderWorks'
    BY <1>1, <1>6 DEF HolderWorks
<1> QED
    BY <1>3, <1>4, <1>7 DEF LockInv

\* A thread that works leaves the critical section and frees the lock.
LEMMA UnlockKeeps ==
    ASSUME LockInv, NEW t \in Threads, NEW next \in Outside, At(t, "unlock"),
           lock' = "free", Goto(t, next), UNCHANGED main, PacketFits(t, next)
    PROVE  LockInv'
<1>1. pc[t] = "unlock" /\ next \in Labels
    BY DEF At, Outside, Labels
<1>2. /\ pc' \in [Threads -> Labels]
      /\ pc'[t] = next
      /\ \A u \in Threads \ {t} : pc'[u] = pc[u]
      /\ WaitsForHandler'
      /\ JoinedDone'
    BY <1>1, MoveKeeps
<1>3. Places'
    BY <1>2 DEF LockInv, Places
<1>4. Working(t)
    BY <1>1 DEF Working, Labels, Outside
<1>5. \A u \in Threads \ {t} : ~Working(u)
    BY <1>4 DEF LockInv, HolderWorks
<1>6. \A u \in Threads : ~Working(u)'
    BY <1>2, <1>5 DEF Working
<1>7. HolderWorks'
    BY <1>6 DEF HolderWorks, Threads
<1> QED
    BY <1>2, <1>3, <1>7 DEF LockInv

\* Steps that move no thread, nor main.
LEMMA StillKeeps ==
    ASSUME LockInv, UNCHANGED <<pc, lock, main, packet>>
    PROVE  LockInv'
BY DEF LockInv, Places, HolderWorks, Working, WaitsForHandler, JoinedDone

---------------------------------------------------------------------------
(* The actions.                                                            *)

\* An exception that begins goes to its first write or leaves.
LEMMA ExceptionBegins ==
    ASSUME NEW t \in Threads, NEW exception, NEW leave, BeginException(t, exception, leave)
    PROVE  Goto(t, "cpsr") \/ Goto(t, leave)
BY DEF BeginException

\* The five writes of execute_ stay inside the critical section.
LEMMA TakeExceptionKeeps ==
    ASSUME LockInv, NEW t \in Threads, TakeException(t)
    PROVE  LockInv'
<1>1. ASSUME NEW label \in Labels \ Outside, NEW next \in Labels \ Outside, NEW written,
             ExceptionWrite(t, label, next, written)
      PROVE  LockInv'
    <2>1. pc[t] = label /\ Goto(t, next) /\ UNCHANGED <<lock, main, packet>>
        BY <1>1 DEF ExceptionWrite, At, gdbWire
    <2>2. label # "done" /\ next # "lock" /\ label \notin Outside /\ next \notin Outside
        BY DEF Outside
    <2> QED
        BY <2>1, <2>2, MoveKeepsLock DEF PacketFits
<1>2. {"cpsr", "sp", "lr", "spsr", "vector", "stepped", "unlock"} \subseteq Labels \ Outside
    BY DEF Labels, Outside
<1>3. CASE WriteCpsr(t)
    BY <1>1, <1>2, <1>3 DEF WriteCpsr
<1>4. CASE WriteSp(t)
    BY <1>1, <1>2, <1>4 DEF WriteSp
<1>5. CASE WriteLr(t)
    BY <1>1, <1>2, <1>5 DEF WriteLr
<1>6. CASE WriteSpsr(t)
    BY <1>1, <1>2, <1>6 DEF WriteSpsr
<1>7. CASE Branch(t)
    BY <1>1, <1>2, <1>7 DEF Branch
<1> QED
    BY <1>3, <1>4, <1>5, <1>6, <1>7 DEF TakeException

\* irq_listener.
LEMMA IrqKeeps ==
    ASSUME LockInv, Irq
    PROVE  LockInv'
<1> USE DEF shared, irqWire, gdbWire, PacketFits
<1>1. "irq" \in Threads /\ Outside \subseteq Labels
    BY DEF Threads, Outside, Labels
<1>2. CASE IrqAccept
    <2>1. pc["irq"] = "accept" /\ Goto("irq", "read") /\ UNCHANGED <<lock, main, packet>>
        BY <1>2 DEF IrqAccept, At
    <2> QED
        BY <1>1, <2>1, MoveKeepsLock DEF Outside
<1>3. CASE IrqRead
    <2>1. /\ pc["irq"] = "read"
          /\ Goto("irq", "accept") \/ Goto("irq", "lock")
          /\ UNCHANGED <<lock, main, packet>>
        BY <1>3 DEF IrqRead, At
    <2> QED
        BY <1>1, <2>1, MoveKeepsLock DEF Outside
<1>4. CASE IrqLock
    <2>1. Lock("irq", "exception") /\ UNCHANGED <<main, packet>>
        BY <1>4 DEF IrqLock
    <2>2. "exception" \in Labels \ Outside
        BY DEF Labels, Outside
    <2> QED
        BY <1>1, <2>1, <2>2, LockKeeps
<1>5. CASE IrqException
    <2>1. /\ pc["irq"] = "exception"
          /\ Goto("irq", "cpsr") \/ Goto("irq", "unlock")
          /\ UNCHANGED <<lock, main, packet>>
        BY <1>1, <1>5, ExceptionBegins DEF IrqException, At
    <2> QED
        BY <1>1, <2>1, MoveKeepsLock DEF Labels, Outside
<1>6. CASE IrqDangling
    <2>1. pc["irq"] \in Labels \ Outside /\ UNCHANGED <<lock, main, packet>>
        BY <1>6 DEF IrqDangling, Labels, Outside
    <2>2. CASE Goto("irq", "unlock")
        BY <1>1, <2>1, <2>2, MoveKeepsLock DEF Labels, Outside
    <2>3. CASE UNCHANGED pc
        BY <2>1, <2>3, StillKeeps
    <2> QED
        BY <1>6, <2>2, <2>3 DEF IrqDangling
<1>7. CASE IrqUnlock
    <2>1. /\ At("irq", "unlock") /\ lock' = "free" /\ Goto("irq", "read")
          /\ UNCHANGED <<main, packet>>
        BY <1>7 DEF IrqUnlock
    <2> QED
        BY <1>1, <2>1, UnlockKeeps DEF Outside
<1>8. CASE TakeException("irq")
    BY <1>1, <1>8, TakeExceptionKeeps
<1> QED
    BY <1>2, <1>3, <1>4, <1>5, <1>6, <1>7, <1>8 DEF Irq

\* The handlers of the debugger thread: they stay inside the critical section.
LEMMA HandlerKeeps ==
    ASSUME LockInv,
           \/ GdbWriteRegister \/ GdbWriteGeneral \/ GdbWriteCpsr \/ GdbWriteMemory
           \/ GdbPeek \/ GdbFetch \/ GdbFetchDies \/ GdbPrefetchAbort \/ GdbExecute
           \/ GdbException \/ GdbStepped
    PROVE  LockInv'
<1> USE DEF shared, irqWire, gdbWire
<1>1. "gdb" \in Threads
    BY DEF Threads
<1> DEFINE Inside == {"write", "writeCpsr", "peek", "fetch", "abort", "execute", "executed",
                      "stepped", "cpsr", "unlock"}
<1>2. Inside \subseteq Labels \ Outside
    BY DEF Labels, Outside
\* Each either moves the thread or ends the process.
<1> DEFINE Moved == /\ pc["gdb"] \in Inside
                    /\ \E next \in Inside : Goto("gdb", next)
                    /\ UNCHANGED <<lock, main, packet>>
           Died  == UNCHANGED <<pc, lock, main, packet>>
<1>3. ASSUME NEW r, NEW m, HandlerDone(r, m), pc["gdb"] \in Inside
      PROVE  Moved
    BY <1>3 DEF HandlerDone
<1>4. Moved \/ Died
    <2>1. CASE GdbWriteRegister
        <3>1. \E p \in RegisterWrites : HandlerDone(RegisterWritten(regs, p), mem)
            BY <2>1 DEF GdbWriteRegister
        <3>2. pc["gdb"] \in Inside
            BY <2>1 DEF GdbWriteRegister, At
        <3> QED
            BY <1>3, <3>1, <3>2
    <2>2. CASE GdbWriteGeneral
        BY <2>2 DEF GdbWriteGeneral, At
    <2>3. CASE GdbWriteCpsr
        BY <1>3, <2>3 DEF GdbWriteCpsr, At
    <2>4. CASE GdbWriteMemory
        <3>1. \E m : HandlerDone(regs, m)
            BY <2>4 DEF GdbWriteMemory
        <3>2. pc["gdb"] \in Inside
            BY <2>4 DEF GdbWriteMemory, At
        <3> QED
            BY <1>3, <3>1, <3>2
    <2>5. CASE GdbPeek
        BY <2>5 DEF GdbPeek, At
    <2>6. CASE GdbFetch
        BY <2>6 DEF GdbFetch, At
    <2>7. CASE GdbFetchDies
        BY <2>7 DEF GdbFetchDies, ProcessDies
    <2>8. CASE GdbPrefetchAbort
        <3>1. Goto("gdb", "cpsr") \/ Goto("gdb", "stepped")
            BY <1>1, <2>8, ExceptionBegins DEF GdbPrefetchAbort
        <3> QED
            BY <2>8, <3>1 DEF GdbPrefetchAbort, At
    <2>9. CASE GdbExecute
        <3>1. pc["gdb"] \in Inside
            BY <2>9 DEF GdbExecute, At
        <3>2. (Goto("gdb", "executed") /\ UNCHANGED <<lock, main, packet>>) \/ Died
            BY <2>9 DEF GdbExecute, ProcessDies
        <3> QED
            BY <3>1, <3>2
    <2>10. CASE GdbException
        <3>1. Goto("gdb", "cpsr") \/ Goto("gdb", "stepped")
            BY <1>1, <2>10, ExceptionBegins DEF GdbException
        <3> QED
            BY <2>10, <3>1 DEF GdbException, At
    <2>11. CASE GdbStepped
        BY <2>11 DEF GdbStepped, At
    <2> QED
        BY <2>1, <2>2, <2>3, <2>4, <2>5, <2>6, <2>7, <2>8, <2>9, <2>10, <2>11
<1>5. CASE Moved
    BY <1>1, <1>2, <1>5, MoveKeepsLock DEF Outside, PacketFits
<1>6. CASE Died
    BY <1>6, StillKeeps
<1> QED
    BY <1>4, <1>5, <1>6

\* The debugger thread.
LEMMA GdbKeeps ==
    ASSUME LockInv, Gdb
    PROVE  LockInv'
<1> USE DEF shared, irqWire, gdbWire
<1>1. "gdb" \in Threads
    BY DEF Threads
<1>2. CASE GdbLock
    <2>1. Lock("gdb", HandlerLabel(packet)) /\ UNCHANGED <<main, packet>>
        BY <1>2 DEF GdbLock
    <2>2. packet \in Handled
        BY <2>1 DEF Lock, At, LockInv, WaitsForHandler
    <2>3. HandlerLabel(packet) \in {"fetch", "peek", "write", "unlock"}
        BY <2>2 DEF HandlerLabel, Handled, PacketKinds
    <2>4. HandlerLabel(packet) \in Labels \ Outside
        BY <2>3 DEF Labels, Outside
    <2> QED
        BY <1>1, <2>1, <2>4, LockKeeps
<1>3. CASE GdbUnlock
    <2>1. At("gdb", "unlock") /\ lock' = "free" /\ Goto("gdb", "scan") /\ UNCHANGED main
        BY <1>3 DEF GdbUnlock
    <2> QED
        BY <1>1, <2>1, UnlockKeeps DEF Outside, PacketFits
<1>4. CASE TakeException("gdb")
    BY <1>1, <1>4, TakeExceptionKeeps
<1> QED
    BY <1>2, <1>3, <1>4, HandlerKeeps DEF Gdb

\* main leaves "join" only when the debugger thread is done.
LEMMA MainKeeps ==
    ASSUME LockInv, Main
    PROVE  LockInv'
<1> USE DEF shared, irqWire, gdbWire
<1>1. UNCHANGED <<pc, lock, packet>>
    BY DEF Main, MainJoin, ArmDestroy, MemoryDestroy, MainReturn, MainGoto
<1>2. main' \in {"join", "destroy", "memory", "return"}
    BY DEF Main, MainJoin, ArmDestroy, MemoryDestroy, MainReturn, MainGoto, LockInv, Places
<1>3. main' # "join" => pc["gdb"] = "done"
    BY DEF Main, MainJoin, ArmDestroy, MemoryDestroy, MainReturn, MainGoto, LockInv, JoinedDone
<1> QED
    BY <1>1, <1>2, <1>3
    DEF LockInv, Places, HolderWorks, Working, WaitsForHandler, JoinedDone

\* Connections and packets.
LEMMA EnvironmentKeeps ==
    ASSUME LockInv, Environment
    PROVE  LockInv'
<1> USE DEF shared, irqWire, gdbWire
<1>1. "gdb" \in Threads /\ Outside \subseteq Labels
    BY DEF Threads, Outside, Labels
<1>2. CASE Connect
    BY <1>2, StillKeeps DEF Connect
<1>3. CASE GdbAccept
    <2>1. pc["gdb"] = "accept" /\ Goto("gdb", "scan") /\ UNCHANGED <<lock, main, packet>>
        BY <1>3 DEF GdbAccept, At
    <2> QED
        BY <1>1, <2>1, MoveKeepsLock DEF Outside, PacketFits
<1>4. CASE GdbReceive
    <2>1. PICK p \in Packets :
            IF p \in {"unsupported", "badChecksum"}
            THEN UNCHANGED <<pc, packet>>
            ELSE packet' = p /\ Goto("gdb", "lock")
        BY <1>4 DEF GdbReceive
    <2>2. pc["gdb"] = "scan" /\ UNCHANGED <<lock, main>>
        BY <1>4 DEF GdbReceive, At
    <2>3. CASE p \in {"unsupported", "badChecksum"}
        BY <2>1, <2>2, <2>3, StillKeeps
    <2>4. CASE p \notin {"unsupported", "badChecksum"}
        <3>1. packet' \in Handled /\ Goto("gdb", "lock")
            BY <2>1, <2>4, SimulatorAssumption DEF Handled
        <3> QED
            BY <1>1, <2>2, <3>1, MoveKeepsLock DEF Outside, PacketFits
    <2> QED
        BY <2>3, <2>4
<1>5. CASE GdbEof
    <2>1. pc["gdb"] = "scan" /\ Goto("gdb", "done") /\ UNCHANGED <<lock, main, packet>>
        BY <1>5 DEF GdbEof, At
    <2> QED
        BY <1>1, <2>1, MoveKeepsLock DEF Outside, PacketFits
<1> QED
    BY <1>2, <1>3, <1>4, <1>5 DEF Environment

---------------------------------------------------------------------------
(* The theorems.                                                           *)

\* The invariant holds in every reachable state: the lock and the places of the
\* threads agree.
LEMMA LockInvariant == Spec => []LockInv
<1>1. Init => LockInv
    BY DEF Init, LockInv, Places, HolderWorks, Working, WaitsForHandler, JoinedDone,
           Threads, Labels, Outside
<1>2. LockInv /\ [Next]_vars => LockInv'
    <2> SUFFICES ASSUME LockInv, [Next]_vars PROVE LockInv'
        OBVIOUS
    <2>1. CASE UNCHANGED vars
        BY <2>1, StillKeeps DEF vars
    <2> QED
        BY <2>1, IrqKeeps, GdbKeeps, MainKeeps, EnvironmentKeeps DEF Next
<1> QED
    BY <1>1, <1>2, PTL DEF Spec

\* Mutual exclusion: gdb_packet_analysis and irq_listener take the mutex around
\* every use of the core, so that the two threads are never between two of the
\* writes of their operations at once.
THEOREM OneThreadAtWork == Spec => []MutualExclusion
<1>1. LockInv => MutualExclusion
    BY DEF LockInv, HolderWorks, MutualExclusion
<1> QED
    BY LockInvariant, <1>1, PTL

\* main frees the core (arm_destroy, memory_destroy) only after the debugger
\* thread has ended, whatever the debugger and the interrupt clients do.
THEOREM DebuggerKeepsCore == Spec => []GdbKeepsCore
<1>1. LockInv => GdbKeepsCore
    BY DEF LockInv, JoinedDone, Freed, GdbKeepsCore
<1> QED
    BY LockInvariant, <1>1, PTL

---------------------------------------------------------------------------
(* Types.                                                                  *)

\* The locals of a thread.  Nothing is said of "result", which a byte of a
\* client or the outcome of an instruction gives.
Shaped(l) ==
    l = [ins |-> l.ins, result |-> l.result, exception |-> l.exception,
         sp |-> l.sp, addr |-> l.addr, cpsr |-> l.cpsr]
LocalsTyped ==
    /\ local = [t \in Threads |-> local[t]]
    /\ \A t \in Threads :
        /\ Shaped(local[t])
        /\ {local[t].ins, local[t].sp, local[t].addr, local[t].cpsr} \subseteq Word

EntryLabels == {"cpsr", "sp", "lr", "spsr", "vector"}

\* execute_ is entered for the seven exceptions only.
ExceptionNamed ==
    \A t \in Threads : pc[t] \in EntryLabels => local[t].exception \in Exceptions

CommittedTyped ==
    committed \in [regs : RegisterFile, mem : MemoryContent, cycle_count : 0..MaxCycles,
                   calls : Nat, ended : {0} \cup ProcessEnds]

TypeInv == TypeOK /\ LocalsTyped /\ ExceptionNamed /\ CommittedTyped

---------------------------------------------------------------------------
(* The calls fit in MaxCalls.                                              *)

\* The interrupt thread has a byte it has not handed over; the debugger thread
\* a packet that may still write.
HoldsByte == IF pc["irq"] \in {"accept", "read"} THEN 0 ELSE 1
HoldsWrite == IF pc["gdb"] \in {"lock", "write", "writeCpsr"} THEN 1 ELSE 0

CallsCounted ==
    /\ backlog \in Seq(Clients)
    /\ unread \in Seq(Irqs)
    /\ Len(unread) <= MaxBytes
    /\ Len(backlog) <= clients
    /\ committed.calls + Len(unread) + HoldsByte + HoldsWrite
            <= packets + (clients - Len(backlog)) * MaxBytes

---------------------------------------------------------------------------
(* How far the operation of the thread at work has come.                   *)

\* The registers at a label of execute_, entered with the registers r.
EntryAt(label, r, exception) ==
    LET inMode == EntryCpsr(r, exception)
        withSp == EntrySp(inMode, arm_read_register(r, SP))
        withLr == EntryLr(withSp, ReturnAddress(r, exception))
        saved  == EntrySpsr(withLr, exception, read_cpsr(r))
    IN  CASE label = "cpsr" -> r
          [] label = "sp" -> inMode
          [] label = "lr" -> withSp
          [] label = "spsr" -> withLr
          [] label = "vector" -> saved

\* Thread t is inside execute_, entered with the registers r.
Entering(t, r, exception) ==
    /\ exception \in Exceptions
    /\ local[t].exception = exception
    /\ local[t].sp = arm_read_register(r, SP)
    /\ local[t].addr = ReturnAddress(r, exception)
    /\ local[t].cpsr = read_cpsr(r)
    /\ regs = EntryAt(pc[t], r, exception)

\* The core is as the last complete operation left it.
AsCommitted ==
    /\ regs = committed.regs
    /\ mem = committed.mem
    /\ cycle_count = committed.cycle_count

IrqProgress ==
    /\ mem = committed.mem
    /\ cycle_count = committed.cycle_count
    /\ pc["irq"] = "exception" => regs = committed.regs
    /\ pc["irq"] \in EntryLabels => Entering("irq", committed.regs, local["irq"].result)
    /\ pc["irq"] = "unlock" => regs = arm_exception(committed.regs, local["irq"].result)

\* The outcomes the instruction at work may have.
Outcomes ==
    {arm_execute_instruction(committed.regs, committed.mem, ins, junk) :
        ins \in Program, junk \in JunkLocals}

Counted ==
    /\ committed.cycle_count < MaxCycles
    /\ cycle_count = (committed.cycle_count + 1) % CycleWrap

\* The instruction has been fetched and is not executed yet.
Fetched ==
    /\ Counted
    /\ regs = AfterFetch(committed.regs)
    /\ mem = committed.mem
    /\ Access(FetchAddress(committed.regs), 4) = 0
    /\ local["gdb"].ins \in Program

\* The instruction has this outcome, and its exception is being taken.
Ran(done) ==
    /\ Counted
    /\ done.result \notin ProcessEnds
    /\ mem = done.mem
    /\ pc["gdb"] = "abort" => regs = done.regs /\ done.result = PREFETCH_ABORT
    /\ pc["gdb"] = "executed" => regs = done.regs /\ done.result = local["gdb"].result
    /\ pc["gdb"] \in EntryLabels => Entering("gdb", done.regs, done.result)
    /\ pc["gdb"] = "stepped" => regs = arm_exception(done.regs, done.result)

\* A G packet has written r0..r15.
HalfWritten(p) ==
    /\ regs = write_registers(committed.regs, 0..15, p[1])
    /\ mem = committed.mem
    /\ cycle_count = committed.cycle_count
    /\ local["gdb"].cpsr = p[2]

GdbProgress ==
    /\ pc["gdb"] \in {"write", "peek", "fetch", "unlock"} => AsCommitted
    /\ pc["gdb"] = "writeCpsr" => \E p \in GeneralWrites : HalfWritten(p)
    /\ pc["gdb"] = "execute" => Fetched
    /\ pc["gdb"] \in {"abort", "executed", "stepped"} \cup EntryLabels =>
            \E done \in Outcomes : Ran(done)

\* cont hands what it looked at to the fetch.
Peeked ==
    pc["gdb"] = "fetch" /\ packet = "c" /\ Access(FetchAddress(regs), 4) = 0
        => local["gdb"].ins \in Program

\* The byte the interrupt thread has read.
ByteRead == pc["irq"] \notin {"accept", "read"} => local["irq"].result \in Irqs

Progress ==
    /\ committed.ended = 0
    /\ ByteRead
    /\ ~Freed =>
        /\ lock = "free" => AsCommitted
        /\ lock = "irq" => IrqProgress
        /\ lock = "gdb" => GdbProgress /\ Peeked

\* Once the process has ended nothing moves any more.
WorkInv == LockInv /\ TypeInv /\ CallsCounted /\ (Running => Progress)

---------------------------------------------------------------------------
(* Threads and their locals.                                               *)

\* A move changes the place of one thread.
LEMMA GotoMoves ==
    ASSUME pc \in [Threads -> Labels], NEW t \in Threads, NEW next, Goto(t, next)
    PROVE  pc'[t] = next /\ \A u \in Threads \ {t} : pc'[u] = pc[u]
BY DEF Goto

\* The fields of a local that has been assigned to.
LEMMA LocalAssigned ==
    ASSUME NEW l, Shaped(l), NEW x
    PROVE  /\ [l EXCEPT !.ins = x] = [ins |-> x, result |-> l.result, exception |-> l.exception,
                                      sp |-> l.sp, addr |-> l.addr, cpsr |-> l.cpsr]
           /\ [l EXCEPT !.result = x] = [ins |-> l.ins, result |-> x, exception |-> l.exception,
                                      sp |-> l.sp, addr |-> l.addr, cpsr |-> l.cpsr]
           /\ [l EXCEPT !.cpsr = x] = [ins |-> l.ins, result |-> l.result, exception |-> l.exception,
                                      sp |-> l.sp, addr |-> l.addr, cpsr |-> x]
           /\ [l EXCEPT !.exception = x] = [ins |-> l.ins, result |-> l.result, exception |-> x,
                                      sp |-> l.sp, addr |-> l.addr, cpsr |-> l.cpsr]
           /\ [l EXCEPT !.sp = x] = [ins |-> l.ins, result |-> l.result, exception |-> l.exception,
                                      sp |-> x, addr |-> l.addr, cpsr |-> l.cpsr]
           /\ [l EXCEPT !.addr = x] = [ins |-> l.ins, result |-> l.result, exception |-> l.exception,
                                      sp |-> l.sp, addr |-> x, cpsr |-> l.cpsr]
BY DEF Shaped

\* The locals after thread t has assigned to its own.
LEMMA LocalsKept ==
    ASSUME LocalsTyped, NEW t \in Threads, NEW l, local' = [local EXCEPT ![t] = l],
           Shaped(l), {l.ins, l.sp, l.addr, l.cpsr} \subseteq Word
    PROVE  LocalsTyped' /\ local'[t] = l /\ \A u \in Threads \ {t} : local'[u] = local[u]
<1>1. local = [u \in Threads |-> local[u]]
    BY DEF LocalsTyped
<1>2. local' = [u \in Threads |-> IF u = t THEN l ELSE local[u]]
    BY <1>1
<1>3. local'[t] = l /\ \A u \in Threads \ {t} : local'[u] = local[u]
    BY <1>2
<1>4. local' = [u \in Threads |-> local'[u]]
    BY <1>2
<1>5. \A u \in Threads : Shaped(local'[u])
    BY <1>3 DEF LocalsTyped
<1>6. \A u \in Threads : {local'[u].ins, local'[u].sp, local'[u].addr, local'[u].cpsr} \subseteq Word
    BY <1>3 DEF LocalsTyped
<1> QED
    BY <1>3, <1>4, <1>5, <1>6 DEF LocalsTyped

\* ins := x.
LEMMA InsAssigned ==
    ASSUME LocalsTyped, NEW t \in Threads, NEW x \in Word,
           local' = [local EXCEPT ![t].ins = x]
    PROVE  /\ LocalsTyped'
           /\ local'[t].ins = x
           /\ local'[t].result = local[t].result
           /\ local'[t].exception = local[t].exception
           /\ \A u \in Threads \ {t} : local'[u] = local[u]
<1> DEFINE l == [local[t] EXCEPT !.ins = x]
<1>1. Shaped(local[t]) /\ {local[t].sp, local[t].addr, local[t].cpsr} \subseteq Word
    BY DEF LocalsTyped
<1>2. l = [ins |-> x, result |-> local[t].result, exception |-> local[t].exception,
           sp |-> local[t].sp, addr |-> local[t].addr, cpsr |-> local[t].cpsr]
    BY <1>1, LocalAssigned
<1>3. local' = [local EXCEPT ![t] = l]
    OBVIOUS
<1> HIDE DEF l
<1>4. Shaped(l) /\ {l.ins, l.sp, l.addr, l.cpsr} \subseteq Word
    BY <1>1, <1>2 DEF Shaped
<1>5. l.ins = x /\ l.result = local[t].result /\ l.exception = local[t].exception
    BY <1>2
<1>6. LocalsTyped' /\ local'[t] = l /\ \A u \in Threads \ {t} : local'[u] = local[u]
    BY <1>3, <1>4, LocalsKept
<1> QED
    BY <1>5, <1>6

\* result := x.
LEMMA ResultAssigned ==
    ASSUME LocalsTyped, NEW t \in Threads, NEW x,
           local' = [local EXCEPT ![t].result = x]
    PROVE  /\ LocalsTyped'
           /\ local'[t].result = x
           /\ local'[t].exception = local[t].exception
           /\ \A u \in Threads \ {t} : local'[u] = local[u]
<1> DEFINE l == [local[t] EXCEPT !.result = x]
<1>1. Shaped(local[t])
      /\ {local[t].ins, local[t].sp, local[t].addr, local[t].cpsr} \subseteq Word
    BY DEF LocalsTyped
<1>2. l = [ins |-> local[t].ins, result |-> x, exception |-> local[t].exception,
           sp |-> local[t].sp, addr |-> local[t].addr, cpsr |-> local[t].cpsr]
    BY <1>1, LocalAssigned
<1>3. local' = [local EXCEPT ![t] = l]
    OBVIOUS
<1> HIDE DEF l
<1>4. Shaped(l) /\ {l.ins, l.sp, l.addr, l.cpsr} \subseteq Word
    BY <1>1, <1>2 DEF Shaped
<1>5. l.result = x /\ l.exception = local[t].exception
    BY <1>2
<1>6. LocalsTyped' /\ local'[t] = l /\ \A u \in Threads \ {t} : local'[u] = local[u]
    BY <1>3, <1>4, LocalsKept
<1> QED
    BY <1>5, <1>6

\* cpsr := x.
LEMMA CpsrAssigned ==
    ASSUME LocalsTyped, NEW t \in Threads, NEW x \in Word,
           local' = [local EXCEPT ![t].cpsr = x]
    PROVE  /\ LocalsTyped'
           /\ local'[t].cpsr = x
           /\ local'[t].exception = local[t].exception
           /\ \A u \in Threads \ {t} : local'[u] = local[u]
<1> DEFINE l == [local[t] EXCEPT !.cpsr = x]
<1>1. Shaped(local[t]) /\ {local[t].ins, local[t].sp, local[t].addr} \subseteq Word
    BY DEF LocalsTyped
<1>2. l = [ins |-> local[t].ins, result |-> local[t].result, exception |-> local[t].exception,
           sp |-> local[t].sp, addr |-> local[t].addr, cpsr |-> x]
    BY <1>1, LocalAssigned
<1>3. local' = [local EXCEPT ![t] = l]
    OBVIOUS
<1> HIDE DEF l
<1>4. Shaped(l) /\ {l.ins, l.sp, l.addr, l.cpsr} \subseteq Word
    BY <1>1, <1>2 DEF Shaped
<1>5. l.cpsr = x /\ l.exception = local[t].exception
    BY <1>2
<1>6. LocalsTyped' /\ local'[t] = l /\ \A u \in Threads \ {t} : local'[u] = local[u]
    BY <1>3, <1>4, LocalsKept
<1> QED
    BY <1>5, <1>6

\* The locals are those of a new call.
LEMMA LocalsReset ==
    ASSUME LocalsTyped, NEW t \in Threads, local' = [local EXCEPT ![t] = NoLocals]
    PROVE  LocalsTyped' /\ \A u \in Threads \ {t} : local'[u] = local[u]
<1>1. Shaped(NoLocals)
      /\ {NoLocals.ins, NoLocals.sp, NoLocals.addr, NoLocals.cpsr} \subseteq Word
    BY DEF NoLocals, Shaped, Word
<1> QED
    BY <1>1, LocalsKept

\* execute_ reads the registers it needs before it writes any.
LEMMA ExceptionBegun ==
    ASSUME LocalsTyped, regs \in RegisterFile, NEW t \in Threads, NEW e \in Exceptions,
           NEW leave, BeginException(t, e, leave)
    PROVE  /\ Goto(t, "cpsr")
           /\ LocalsTyped'
           /\ local'[t].exception = e
           /\ local'[t].sp = arm_read_register(regs, SP)
           /\ local'[t].addr = ReturnAddress(regs, e)
           /\ local'[t].cpsr = read_cpsr(regs)
           /\ local'[t].result = local[t].result
           /\ \A u \in Threads \ {t} : local'[u] = local[u]
<1> DEFINE sp   == arm_read_register(regs, SP)
           addr == ReturnAddress(regs, e)
           cpsr == read_cpsr(regs)
           l    == [ins |-> local[t].ins, result |-> local[t].result, exception |-> e,
                    sp |-> sp, addr |-> addr, cpsr |-> cpsr]
<1>1. sp \in Word /\ addr \in Word /\ cpsr \in Word
    BY ReadsAreWords, SumsAreWords DEF ReturnAddress
<1>2. /\ Goto(t, "cpsr")
      /\ local' = [local EXCEPT ![t].exception = e, ![t].sp = sp,
                                ![t].addr = addr, ![t].cpsr = cpsr]
    BY DEF BeginException
<1> HIDE DEF sp, addr, cpsr
<1>3. Shaped(local[t])
    BY DEF LocalsTyped
<1> DEFINE entered == [local[t] EXCEPT !.exception = e]
           withSp  == [entered EXCEPT !.sp = sp]
           withLr  == [withSp EXCEPT !.addr = addr]
<1>4. [withLr EXCEPT !.cpsr = cpsr] = l
    <2>1. entered = [ins |-> local[t].ins, result |-> local[t].result, exception |-> e,
                     sp |-> local[t].sp, addr |-> local[t].addr, cpsr |-> local[t].cpsr]
        BY <1>3, LocalAssigned
    <2> HIDE DEF entered
    <2>2. Shaped(entered)
        BY <2>1 DEF Shaped
    <2>3. withSp = [ins |-> local[t].ins, result |-> local[t].result, exception |-> e,
                    sp |-> sp, addr |-> local[t].addr, cpsr |-> local[t].cpsr]
        <3>1. withSp = [ins |-> entered.ins, result |-> entered.result,
                        exception |-> entered.exception, sp |-> sp, addr |-> entered.addr,
                        cpsr |-> entered.cpsr]
            BY <2>2, LocalAssigned
        <3> QED
            BY <2>1, <3>1
    <2> HIDE DEF withSp
    <2>4. Shaped(withSp)
        BY <2>3 DEF Shaped
    <2>5. withLr = [ins |-> local[t].ins, result |-> local[t].result, exception |-> e,
                    sp |-> sp, addr |-> addr, cpsr |-> local[t].cpsr]
        <3>1. withLr = [ins |-> withSp.ins, result |-> withSp.result,
                        exception |-> withSp.exception, sp |-> withSp.sp, addr |-> addr,
                        cpsr |-> withSp.cpsr]
            BY <2>4, LocalAssigned
        <3> QED
            BY <2>3, <3>1
    <2> HIDE DEF withLr
    <2>6. Shaped(withLr)
        BY <2>5 DEF Shaped
    <2>7. [withLr EXCEPT !.cpsr = cpsr] =
                [ins |-> withLr.ins, result |-> withLr.result, exception |-> withLr.exception,
                 sp |-> withLr.sp, addr |-> withLr.addr, cpsr |-> cpsr]
        BY <2>6, LocalAssigned
    <2> QED
        BY <2>5, <2>7
<1>5. local = [u \in Threads |-> local[u]]
    BY DEF LocalsTyped
<1>6. local' = [local EXCEPT ![t] = l]
    BY <1>2, <1>4, <1>5
<1>7. Shaped(l) /\ {l.ins, l.sp, l.addr, l.cpsr} \subseteq Word
    BY <1>1 DEF Shaped, LocalsTyped
<1>8. /\ l.exception = e /\ l.sp = sp /\ l.addr = addr /\ l.cpsr = cpsr
      /\ l.result = local[t].result
    OBVIOUS
<1> HIDE DEF l
<1>9. LocalsTyped' /\ local'[t] = l /\ \A u \in Threads \ {t} : local'[u] = local[u]
    BY <1>6, <1>7, LocalsKept
<1> QED
    BY <1>2, <1>8, <1>9 DEF sp, addr, cpsr

\* A code that names no exception leaves the locals alone.
LEMMA ExceptionIgnored ==
    ASSUME NEW t, NEW e, e \notin Exceptions, NEW leave, BeginException(t, e, leave)
    PROVE  Goto(t, leave) /\ UNCHANGED local
BY DEF BeginException

---------------------------------------------------------------------------
(* The types.                                                              *)

\* The writes of execute_ keep the register file one.
LEMMA EntryTyped ==
    ASSUME TypeInv, NEW t \in Threads, TakeException(t)
    PROVE  regs' \in RegisterFile
<1>1. regs \in RegisterFile /\ local[t].sp \in Word /\ local[t].addr \in Word /\ local[t].cpsr \in Word
    BY DEF TypeInv, TypeOK, LocalsTyped
<1>2. pc[t] \in EntryLabels
    BY DEF TakeException, WriteCpsr, WriteSp, WriteLr, WriteSpsr, Branch, ExceptionWrite, At,
           EntryLabels
<1>3. local[t].exception \in Exceptions
    BY <1>2 DEF TypeInv, ExceptionNamed
<1>4. \A reg : \A value \in Word : write_register(regs, reg, value) \in RegisterFile
    BY <1>1, WriteRegisterStays DEF StaysIn
<1>5. CASE WriteCpsr(t)
    BY <1>1, <1>3, <1>5, ExceptionCpsrMode, WriteCpsrStays DEF WriteCpsr, ExceptionWrite
<1>6. CASE WriteSp(t)
    BY <1>1, <1>4, <1>6 DEF WriteSp, ExceptionWrite, EntrySp
<1>7. CASE WriteLr(t)
    BY <1>1, <1>4, <1>7 DEF WriteLr, ExceptionWrite, EntryLr
<1>8. CASE WriteSpsr(t)
    BY <1>1, <1>8, WriteSpsrStays DEF WriteSpsr, ExceptionWrite, EntrySpsr
<1>9. CASE Branch(t)
    <2>1. Vector(local[t].exception) \in Word
        BY <1>3, VectorIsWord
    <2> QED
        BY <1>4, <1>9, <2>1 DEF Branch, ExceptionWrite, branch_exception_vector
<1> QED
    BY <1>5, <1>6, <1>7, <1>8, <1>9 DEF TakeException

\* A thread that leaves execute_, or was not in it, enters no other label of it.
LEMMA NamedKept ==
    ASSUME TypeInv, NEW t \in Threads, NEW next, Goto(t, next), next \notin EntryLabels,
           \A u \in Threads \ {t} : local'[u].exception = local[u].exception
    PROVE  ExceptionNamed'
<1>1. pc'[t] = next /\ \A u \in Threads \ {t} : pc'[u] = pc[u]
    BY GotoMoves DEF TypeInv, TypeOK
<1> QED
    BY <1>1 DEF TypeInv, ExceptionNamed

\* Steps that move a thread outside execute_ and change neither the core nor
\* what is known of it.
LEMMA MoveTyped ==
    ASSUME TypeInv, Places', NEW t \in Threads, NEW next, Goto(t, next), next \notin EntryLabels,
           LocalsTyped', \A u \in Threads \ {t} : local'[u].exception = local[u].exception,
           UNCHANGED <<shared, ended, clients, committed>>, packets' \in 0..MaxPackets
    PROVE  TypeInv'
<1>1. ExceptionNamed'
    BY NamedKept
<1> QED
    BY <1>1 DEF TypeInv, TypeOK, CommittedTyped, Places, shared

\* Steps that move no thread outside execute_ and assign to no local keep what
\* is known of both.
LEMMA StillTyped ==
    ASSUME TypeInv, UNCHANGED <<pc, local>>
    PROVE  LocalsTyped' /\ ExceptionNamed'
BY DEF TypeInv, LocalsTyped, ExceptionNamed

\* What an operation leaves behind is typed.
LEMMA CommitTyped ==
    ASSUME TypeInv, Running, NEW n \in Nat, Commit(n)
    PROVE  CommittedTyped'
<1>1. regs \in RegisterFile /\ mem \in MemoryContent /\ cycle_count \in 0..MaxCycles /\ ended = 0
    BY DEF TypeInv, TypeOK, Running
<1>2. committed.calls + n \in Nat
    BY DEF TypeInv, CommittedTyped
<1> QED
    BY <1>1, <1>2 DEF Commit, CommittedTyped

\* A write of execute_.
LEMMA TakeExceptionTyped ==
    ASSUME TypeInv, LockInv', NEW t \in Threads, TakeException(t)
    PROVE  TypeInv'
<1>1. regs' \in RegisterFile
    BY EntryTyped
<1>2. /\ pc[t] \in EntryLabels
      /\ \E next : Goto(t, next)
      /\ UNCHANGED <<mem, cycle_count, lock, local, main, ended, irqWire, gdbWire, committed>>
    BY DEF TakeException, WriteCpsr, WriteSp, WriteLr, WriteSpsr, Branch, ExceptionWrite, At,
           EntryLabels
<1>3. \A u \in Threads \ {t} : pc'[u] = pc[u]
    BY <1>2, GotoMoves DEF TypeInv, TypeOK
<1>4. ExceptionNamed'
    BY <1>2, <1>3 DEF TypeInv, ExceptionNamed
<1>5. LocalsTyped' /\ CommittedTyped'
    BY <1>2 DEF TypeInv, LocalsTyped, CommittedTyped
<1> QED
    BY <1>1, <1>2, <1>4, <1>5 DEF TypeInv, TypeOK, LockInv, Places, irqWire, gdbWire

\* An exception that begins, or is ignored.
LEMMA BeginTyped ==
    ASSUME TypeInv, LockInv', NEW t \in Threads, NEW e, NEW leave, leave \notin EntryLabels,
           BeginException(t, e, leave),
           UNCHANGED <<shared, lock, main, ended, irqWire, gdbWire, committed>>
    PROVE  TypeInv'
<1>1. regs \in RegisterFile /\ pc \in [Threads -> Labels]
    BY DEF TypeInv, TypeOK
<1>2. LocalsTyped' /\ ExceptionNamed'
    <2>1. CASE e \in Exceptions
        <3>1. /\ Goto(t, "cpsr") /\ LocalsTyped' /\ local'[t].exception = e
              /\ \A u \in Threads \ {t} : local'[u] = local[u]
            BY <1>1, <2>1, ExceptionBegun DEF TypeInv
        <3>2. \A u \in Threads \ {t} : pc'[u] = pc[u]
            BY <1>1, <3>1, GotoMoves
        <3> QED
            BY <2>1, <3>1, <3>2 DEF TypeInv, ExceptionNamed
    <2>2. CASE e \notin Exceptions
        <3>1. Goto(t, leave) /\ UNCHANGED local
            BY <2>2, ExceptionIgnored
        <3>2. LocalsTyped'
            BY <3>1 DEF TypeInv, LocalsTyped
        <3> QED
            BY <3>1, <3>2, NamedKept
    <2> QED
        BY <2>1, <2>2
<1>3. CommittedTyped'
    BY DEF TypeInv, CommittedTyped
<1> QED
    BY <1>2, <1>3 DEF TypeInv, TypeOK, LockInv, Places, shared, irqWire, gdbWire

\* irq_listener.
LEMMA IrqTyped ==
    ASSUME TypeInv, LockInv', Irq
    PROVE  TypeInv'
<1> USE DEF irqWire, gdbWire
<1>1. "irq" \in Threads /\ Places' /\ packets \in 0..MaxPackets
    BY DEF Threads, LockInv, TypeInv, TypeOK
<1>2. UNCHANGED local => LocalsTyped'
    BY DEF TypeInv, LocalsTyped
<1>3. {"accept", "read", "lock", "exception", "unlock"} \cap EntryLabels = {}
    BY DEF EntryLabels
<1>4. CASE IrqAccept
    <2>1. /\ Goto("irq", "read")
          /\ UNCHANGED <<shared, ended, clients, committed, local, packets>>
        BY <1>4 DEF IrqAccept
    <2> QED
        BY <1>1, <1>2, <1>3, <2>1, MoveTyped
<1>5. CASE IrqRead
    <2>1. /\ Goto("irq", "accept") \/ Goto("irq", "lock")
          /\ UNCHANGED local \/ local' = [local EXCEPT !["irq"].result = Head(unread)]
          /\ UNCHANGED <<shared, ended, clients, committed, packets>>
        BY <1>5 DEF IrqRead
    <2>2. LocalsTyped' /\ \A u \in Threads \ {"irq"} : local'[u] = local[u]
        BY <1>1, <1>2, <2>1, ResultAssigned DEF TypeInv
    <2> QED
        BY <1>1, <1>3, <2>1, <2>2, MoveTyped
<1>6. CASE IrqLock
    <2>1. /\ Goto("irq", "exception")
          /\ UNCHANGED <<shared, ended, clients, committed, local, packets>>
        BY <1>6 DEF IrqLock, Lock
    <2> QED
        BY <1>1, <1>2, <1>3, <2>1, MoveTyped
<1>7. CASE IrqException
    BY <1>1, <1>3, <1>7, BeginTyped DEF IrqException
<1>8. CASE IrqDangling
    <2>1. CASE Goto("irq", "unlock") /\ UNCHANGED ended
        <3>1. UNCHANGED <<shared, clients, committed, local, packets>>
            BY <1>8 DEF IrqDangling
        <3> QED
            BY <1>1, <1>2, <1>3, <2>1, <3>1, MoveTyped
    <2>2. CASE ended' = SEGV /\ UNCHANGED pc
        <3>1. UNCHANGED <<shared, clients, committed, local, packets>>
            BY <1>8 DEF IrqDangling
        <3>2. LocalsTyped' /\ ExceptionNamed' /\ CommittedTyped'
            BY <2>2, <3>1, StillTyped DEF TypeInv, CommittedTyped
        <3> QED
            BY <1>1, <2>2, <3>1, <3>2 DEF TypeInv, TypeOK, Places, shared, ProcessEnds
    <2> QED
        BY <1>8, <2>1, <2>2 DEF IrqDangling
<1>9. CASE IrqUnlock
    <2>1. /\ Running /\ Goto("irq", "read")
          /\ local' = [local EXCEPT !["irq"] = NoLocals]
          /\ Commit(1) \/ UNCHANGED committed
          /\ UNCHANGED <<shared, main, ended, clients, packets>>
        BY <1>9 DEF IrqUnlock, At
    <2>2. LocalsTyped' /\ \A u \in Threads \ {"irq"} : local'[u] = local[u]
        BY <1>1, <2>1, LocalsReset DEF TypeInv
    <2>3. ExceptionNamed'
        BY <1>1, <1>3, <2>1, <2>2, NamedKept
    <2>4. CommittedTyped'
        BY <2>1, CommitTyped DEF TypeInv, CommittedTyped
    <2> QED
        BY <1>1, <2>1, <2>2, <2>3, <2>4 DEF TypeInv, TypeOK, Places, shared
<1>10. CASE TakeException("irq")
    BY <1>1, <1>10, TakeExceptionTyped
<1> QED
    BY <1>4, <1>5, <1>6, <1>7, <1>8, <1>9, <1>10 DEF Irq

\* A packet that writes.
LEMMA HandlerTyped ==
    ASSUME TypeInv, LockInv', NEW r \in RegisterFile, NEW m \in MemoryContent, HandlerDone(r, m)
    PROVE  TypeInv'
<1>1. "gdb" \in Threads /\ "unlock" \notin EntryLabels
    BY DEF Threads, EntryLabels
<1>2. /\ Goto("gdb", "unlock")
      /\ committed' = [committed EXCEPT !.regs = r, !.mem = m, !.calls = @ + 1]
      /\ UNCHANGED <<cycle_count, local, ended, clients, packets>>
      /\ regs' = r /\ mem' = m
    BY DEF HandlerDone, irqWire, gdbWire
<1>3. CommittedTyped'
    <2>1. CommittedTyped
        BY DEF TypeInv
    <2>2. committed' = [regs |-> r, mem |-> m, cycle_count |-> committed.cycle_count,
                        calls |-> committed.calls + 1, ended |-> committed.ended]
        BY <1>2, <2>1 DEF CommittedTyped
    <2>3. committed.calls + 1 \in Nat
        BY <2>1 DEF CommittedTyped
    <2> QED
        BY <2>1, <2>2, <2>3 DEF CommittedTyped
<1>4. LocalsTyped'
    BY <1>2 DEF TypeInv, LocalsTyped
<1>5. ExceptionNamed'
    BY <1>1, <1>2, NamedKept
<1> QED
    BY <1>2, <1>3, <1>4, <1>5 DEF TypeInv, TypeOK, LockInv, Places

\* The end of the process in the fetch or in an instruction.
LEMMA DeathTyped ==
    ASSUME TypeInv, LockInv', NEW how \in ProcessEnds, NEW cycles \in 0..MaxCycles,
           ProcessDies(how, cycles)
    PROVE  TypeInv'
<1>1. /\ committed' = [committed EXCEPT !.ended = how, !.cycle_count = cycles]
      /\ ended' = how
      /\ UNCHANGED <<shared, pc, local, clients, packets>>
    BY DEF ProcessDies, irqWire, gdbWire
<1>2. CommittedTyped'
    BY <1>1 DEF TypeInv, CommittedTyped
<1>3. LocalsTyped' /\ ExceptionNamed'
    BY <1>1, StillTyped
<1> QED
    BY <1>1, <1>2, <1>3 DEF TypeInv, TypeOK, LockInv, Places, shared

\* The pc after the fetch.
LEMMA FetchTyped ==
    ASSUME NEW r \in RegisterFile
    PROVE  AfterFetch(r) \in RegisterFile
BY SumsAreWords, WritePcStays DEF AfterFetch

\* The packets that write, s and c.
LEMMA WritesTyped ==
    ASSUME TypeInv, LockInv',
           GdbWriteRegister \/ GdbWriteGeneral \/ GdbWriteCpsr \/ GdbWriteMemory
    PROVE  TypeInv'
<1> USE DEF irqWire, gdbWire
<1>1. "gdb" \in Threads /\ Places' /\ regs \in RegisterFile /\ mem \in MemoryContent
    BY DEF Threads, LockInv, TypeInv, TypeOK
<1>2. CASE GdbWriteRegister
    <2>1. PICK p \in RegisterWrites : HandlerDone(RegisterWritten(regs, p), mem)
        BY <1>2 DEF GdbWriteRegister
    <2>2. p[2] \in Word
        BY ArmCoreAssumption
    <2>3. RegisterWritten(regs, p) \in RegisterFile
        BY <1>1, <2>2, WriteRegisterStays DEF RegisterWritten, StaysIn
    <2> QED
        BY <1>1, <2>1, <2>3, HandlerTyped
<1>3. CASE GdbWriteGeneral
    <2>1. PICK p \in GeneralWrites :
                /\ regs' = write_registers(regs, 0..15, p[1])
                /\ local' = [local EXCEPT !["gdb"].cpsr = p[2]]
        BY <1>3 DEF GdbWriteGeneral
    <2>2. p[1] \in [0..15 -> Word] /\ p[2] \in Word
        BY ArmCoreAssumption
    <2>3. regs' \in RegisterFile
        BY <1>1, <2>1, <2>2, WriteRegistersStays DEF StaysIn
    <2>4. LocalsTyped' /\ \A u \in Threads \ {"gdb"} : local'[u] = local[u]
        BY <1>1, <2>1, <2>2, CpsrAssigned DEF TypeInv
    <2>5. ExceptionNamed'
        BY <1>1, <1>3, <2>4, NamedKept DEF GdbWriteGeneral, EntryLabels
    <2>6. /\ UNCHANGED <<mem, cycle_count, ended, clients, packets, committed>>
        BY <1>3 DEF GdbWriteGeneral
    <2> QED
        BY <1>1, <2>3, <2>4, <2>5, <2>6 DEF TypeInv, TypeOK, CommittedTyped, Places
<1>4. CASE GdbWriteCpsr
    <2>1. write_cpsr(regs, local["gdb"].cpsr) \in RegisterFile
        BY <1>1, WriteCpsrStays DEF TypeInv, LocalsTyped
    <2> QED
        BY <1>1, <1>4, <2>1, HandlerTyped DEF GdbWriteCpsr
<1>5. CASE GdbWriteMemory
    <2>1. PICK p \in MemoryWrites : HandlerDone(regs, MemoryWritten(mem, p))
        BY <1>5 DEF GdbWriteMemory
    <2>2. MemoryWritten(mem, p) \in MemoryContent
        BY <1>1, MemoryWrittenTyped
    <2> QED
        BY <1>1, <2>1, <2>2, HandlerTyped
<1> QED
    BY <1>2, <1>3, <1>4, <1>5

\* The debugger thread.
LEMMA GdbTyped ==
    ASSUME TypeInv, LockInv, LockInv', Gdb
    PROVE  TypeInv'
<1> USE DEF irqWire, gdbWire
<1>1. /\ "gdb" \in Threads /\ Places' /\ regs \in RegisterFile /\ mem \in MemoryContent
      /\ packets \in 0..MaxPackets /\ cycle_count \in 0..MaxCycles
    BY DEF Threads, LockInv, TypeInv, TypeOK
<1>2. UNCHANGED local => LocalsTyped'
    BY DEF TypeInv, LocalsTyped
<1>3. {"fetch", "peek", "write", "unlock", "scan", "abort", "execute", "executed", "stepped"}
            \cap EntryLabels = {}
    BY DEF EntryLabels
<1>4. Program \subseteq Word /\ Junk \subseteq Word
    BY ArmCoreAssumption
<1>5. ASSUME NEW word \in Word, local' = [local EXCEPT !["gdb"].ins = word]
      PROVE  LocalsTyped' /\ \A u \in Threads \ {"gdb"} : local'[u] = local[u]
    BY <1>1, <1>5, InsAssigned DEF TypeInv
<1>6. local["gdb"].ins \in Word
    BY <1>1 DEF TypeInv, LocalsTyped
<1>7. CASE GdbLock
    <2>1. packet \in Handled
        BY <1>7 DEF GdbLock, Lock, At, LockInv, WaitsForHandler
    <2>2. HandlerLabel(packet) \in {"fetch", "peek", "write", "unlock"}
        BY <2>1 DEF HandlerLabel, Handled, PacketKinds
    <2>3. /\ Goto("gdb", HandlerLabel(packet))
          /\ UNCHANGED <<shared, ended, clients, committed, packets>>
        BY <1>7 DEF GdbLock, Lock
    <2>4. \/ UNCHANGED local
          \/ \E word \in Junk : local' = [local EXCEPT !["gdb"].ins = word]
        BY <1>7 DEF GdbLock
    <2>5. LocalsTyped' /\ \A u \in Threads \ {"gdb"} : local'[u] = local[u]
        BY <1>2, <1>4, <1>5, <2>4
    <2> QED
        BY <1>1, <1>3, <2>2, <2>3, <2>5, MoveTyped
<1>8. CASE GdbUnlock
    <2>1. /\ Goto("gdb", "scan")
          /\ local' = [local EXCEPT !["gdb"] = NoLocals]
          /\ UNCHANGED <<shared, ended, clients, committed, packets>>
        BY <1>8 DEF GdbUnlock
    <2>2. LocalsTyped' /\ \A u \in Threads \ {"gdb"} : local'[u] = local[u]
        BY <1>1, <2>1, LocalsReset DEF TypeInv
    <2> QED
        BY <1>1, <1>3, <2>1, <2>2, MoveTyped
<1>9. CASE GdbPeek
    <2>1. PICK ins \in IF Access(FetchAddress(regs), 4) = 0 THEN Program ELSE {local["gdb"].ins} :
            /\ local' = [local EXCEPT !["gdb"].ins = ins]
            /\ Goto("gdb", IF IsBreakpoint(ins) THEN "unlock" ELSE "fetch")
        BY <1>9 DEF GdbPeek
    <2>2. ins \in Word
        BY <1>4, <1>6
    <2>3. LocalsTyped' /\ \A u \in Threads \ {"gdb"} : local'[u] = local[u]
        BY <1>5, <2>1, <2>2
    <2>4. UNCHANGED <<shared, ended, clients, committed, packets>>
        BY <1>9 DEF GdbPeek
    <2>5. Goto("gdb", "unlock") \/ Goto("gdb", "fetch")
        BY <2>1
    <2> QED
        BY <1>1, <1>3, <2>3, <2>4, <2>5, MoveTyped
<1>10. CASE GdbFetch
    <2>1. PICK ins \in IF packet = "c" THEN {local["gdb"].ins} ELSE Program :
            local' = [local EXCEPT !["gdb"].ins = ins]
        BY <1>10 DEF GdbFetch
    <2>2. ins \in Word
        BY <1>4, <1>6
    <2>3. LocalsTyped' /\ \A u \in Threads \ {"gdb"} : local'[u] = local[u]
        BY <1>5, <2>1, <2>2
    <2>4. /\ Goto("gdb", "abort") \/ Goto("gdb", "execute")
          /\ cycle_count < MaxCycles
          /\ cycle_count' = (cycle_count + 1) % CycleWrap
          /\ regs' = AfterFetch(regs)
          /\ UNCHANGED <<mem, ended, clients, committed, packets>>
        BY <1>10 DEF GdbFetch
    <2>5. ExceptionNamed'
        BY <1>1, <1>3, <2>3, <2>4, NamedKept
    <2>6. regs' \in RegisterFile /\ cycle_count' \in 0..MaxCycles
        BY <1>1, <2>4, FetchTyped, CounterInBound
    <2> QED
        BY <1>1, <2>3, <2>4, <2>5, <2>6 DEF TypeInv, TypeOK, CommittedTyped, Places
<1>11. CASE GdbFetchDies
    BY <1>1, <1>11, CounterInBound, DeathTyped DEF GdbFetchDies, ProcessEnds
<1>12. CASE GdbPrefetchAbort
    BY <1>1, <1>3, <1>12, BeginTyped DEF GdbPrefetchAbort
<1>13. CASE GdbExecute
    <2>1. PICK junk \in JunkLocals :
            LET done == Execute(regs, mem, local["gdb"].ins, junk)
            IN  IF done.result \in ProcessEnds
                THEN ProcessDies(done.result, cycle_count)
                ELSE /\ regs' = done.regs
                     /\ mem' = done.mem
                     /\ local' = [local EXCEPT !["gdb"].result = done.result]
                     /\ Goto("gdb", "executed")
                     /\ UNCHANGED <<cycle_count, lock, main, ended, irqWire, gdbWire, committed>>
        BY <1>13 DEF GdbExecute, JunkLocals
    <2> DEFINE done == Execute(regs, mem, local["gdb"].ins, junk)
    <2>2. OutcomeStays(regs, done)
        BY <1>1, <1>6, ExecuteStays
    <2>3. done.regs \in RegisterFile /\ done.mem \in MemoryContent
        BY <2>2 DEF OutcomeStays, StaysIn
    <2> HIDE DEF done
    <2>4. CASE done.result \in ProcessEnds
        <3>1. ProcessDies(done.result, cycle_count)
            BY <2>1, <2>4 DEF done
        <3> QED
            BY <1>1, <2>4, <3>1, DeathTyped
    <2>5. CASE done.result \notin ProcessEnds
        <3>1. /\ regs' = done.regs
              /\ mem' = done.mem
              /\ local' = [local EXCEPT !["gdb"].result = done.result]
              /\ Goto("gdb", "executed")
              /\ UNCHANGED <<cycle_count, ended, clients, packets, committed>>
            BY <2>1, <2>5 DEF done
        <3>2. LocalsTyped' /\ \A u \in Threads \ {"gdb"} : local'[u] = local[u]
            BY <1>1, <3>1, ResultAssigned DEF TypeInv
        <3>3. ExceptionNamed'
            BY <1>1, <1>3, <3>1, <3>2, NamedKept
        <3> QED
            BY <1>1, <2>3, <3>1, <3>2, <3>3 DEF TypeInv, TypeOK, CommittedTyped, Places
    <2> QED
        BY <2>4, <2>5
<1>14. CASE GdbException
    BY <1>1, <1>3, <1>14, BeginTyped DEF GdbException
<1>15. CASE GdbStepped
    <2>1. /\ Running /\ Commit(0)
          /\ Goto("gdb", "peek") \/ Goto("gdb", "unlock")
          /\ UNCHANGED <<shared, local, ended, clients, packets>>
        BY <1>15 DEF GdbStepped, At
    <2>2. CommittedTyped'
        BY <2>1, CommitTyped
    <2>3. ExceptionNamed'
        BY <1>1, <1>3, <2>1, NamedKept
    <2> QED
        BY <1>1, <1>2, <2>1, <2>2, <2>3 DEF TypeInv, TypeOK, Places, shared
<1>16. CASE TakeException("gdb")
    BY <1>1, <1>16, TakeExceptionTyped
<1> QED
    BY <1>7, <1>8, <1>9, <1>10, <1>11, <1>12, <1>13, <1>14, <1>15, <1>16, WritesTyped DEF Gdb

\* main, the clients and the debugger.
LEMMA MainAndEnvironmentTyped ==
    ASSUME TypeInv, LockInv', Main \/ Environment
    PROVE  TypeInv'
<1> USE DEF irqWire, gdbWire
<1>1. "gdb" \in Threads /\ Places' /\ packets \in 0..MaxPackets /\ MaxPackets \in Nat
    BY SimulatorAssumption DEF Threads, LockInv, TypeInv, TypeOK
<1>2. UNCHANGED local => LocalsTyped'
    BY DEF TypeInv, LocalsTyped
<1>3. {"scan", "lock", "done"} \cap EntryLabels = {}
    BY DEF EntryLabels
<1>4. CASE Main
    <2>1. UNCHANGED <<shared, pc, local, clients, packets, committed>>
        BY <1>4 DEF Main, MainJoin, ArmDestroy, MemoryDestroy, MainReturn, MainGoto
    <2>2. ended' = ended \/ ended' = RETURNED
        BY <1>4 DEF Main, MainJoin, ArmDestroy, MemoryDestroy, MainReturn, MainGoto
    <2>3. LocalsTyped' /\ ExceptionNamed' /\ CommittedTyped'
        BY <2>1, StillTyped DEF TypeInv, CommittedTyped
    <2> QED
        BY <1>1, <2>1, <2>2, <2>3 DEF TypeInv, TypeOK, Places, shared
<1>5. CASE Connect
    <2>1. clients < MaxClients /\ clients' = clients + 1
          /\ UNCHANGED <<shared, pc, local, ended, packets, committed>>
        BY <1>5 DEF Connect
    <2>2. LocalsTyped' /\ ExceptionNamed' /\ CommittedTyped'
        BY <2>1, StillTyped DEF TypeInv, CommittedTyped
    <2>3. clients' \in 0..MaxClients
        BY <2>1, SimulatorAssumption DEF TypeInv, TypeOK
    <2> QED
        BY <1>1, <2>1, <2>2, <2>3 DEF TypeInv, TypeOK, Places, shared
<1>6. CASE GdbAccept
    BY <1>1, <1>2, <1>3, <1>6, MoveTyped DEF GdbAccept
<1>7. CASE GdbReceive
    <2>1. /\ Goto("gdb", "lock") \/ UNCHANGED pc
          /\ packets < MaxPackets /\ packets' = packets + 1
          /\ UNCHANGED <<shared, ended, clients, committed, local>>
        BY <1>7 DEF GdbReceive
    <2>2. packets' \in 0..MaxPackets
        BY <1>1, <2>1
    <2>3. CASE Goto("gdb", "lock")
        BY <1>1, <1>2, <1>3, <2>1, <2>2, <2>3, MoveTyped
    <2>4. CASE UNCHANGED pc
        <3>1. LocalsTyped' /\ ExceptionNamed' /\ CommittedTyped'
            BY <2>1, <2>4, StillTyped DEF TypeInv, CommittedTyped
        <3> QED
            BY <1>1, <2>1, <2>2, <3>1 DEF TypeInv, TypeOK, Places, shared
    <2> QED
        BY <2>1, <2>3, <2>4
<1>8. CASE GdbEof
    BY <1>1, <1>2, <1>3, <1>8, MoveTyped DEF GdbEof
<1> QED
    BY <1>4, <1>5, <1>6, <1>7, <1>8 DEF Environment

---------------------------------------------------------------------------
(* The calls.                                                              *)

\* The threads move one at a time.
LEMMA HoldsAfterMove ==
    ASSUME TypeInv, NEW next
    PROVE  /\ Goto("irq", next) =>
                /\ HoldsByte' = IF next \in {"accept", "read"} THEN 0 ELSE 1
                /\ HoldsWrite' = HoldsWrite
           /\ Goto("gdb", next) =>
                /\ HoldsWrite' = IF next \in {"lock", "write", "writeCpsr"} THEN 1 ELSE 0
                /\ HoldsByte' = HoldsByte
           /\ UNCHANGED pc => HoldsByte' = HoldsByte /\ HoldsWrite' = HoldsWrite
<1>1. pc \in [Threads -> Labels] /\ "irq" \in Threads /\ "gdb" \in Threads /\ "irq" # "gdb"
    BY DEF TypeInv, TypeOK, Threads
<1>2. /\ Goto("irq", next) => pc'["irq"] = next /\ pc'["gdb"] = pc["gdb"]
      /\ Goto("gdb", next) => pc'["gdb"] = next /\ pc'["irq"] = pc["irq"]
    BY <1>1, GotoMoves
<1> QED
    BY <1>2 DEF HoldsByte, HoldsWrite

\* What a thread holds, and how many calls were made, are numbers.
LEMMA CountsAreNumbers ==
    ASSUME TypeInv
    PROVE  HoldsByte \in 0..1 /\ HoldsWrite \in 0..1 /\ committed.calls \in Nat /\ packets \in Nat
BY SimulatorAssumption DEF HoldsByte, HoldsWrite, TypeInv, CommittedTyped, TypeOK

\* Steps that leave the connections alone count no call that had no room.
LEMMA CountKept ==
    ASSUME TypeInv, TypeInv', CallsCounted, UNCHANGED irqWire,
           committed'.calls + HoldsByte' + HoldsWrite' - packets'
                <= committed.calls + HoldsByte + HoldsWrite - packets
    PROVE  CallsCounted'
<1> DEFINE room == (clients - Len(backlog)) * MaxBytes
           left == Len(unread)
<1>1. UNCHANGED <<backlog, unread, clients>>
    BY DEF irqWire
<1>2. /\ HoldsByte \in 0..1 /\ HoldsWrite \in 0..1 /\ committed.calls \in Nat /\ packets \in Nat
      /\ HoldsByte' \in 0..1 /\ HoldsWrite' \in 0..1
      /\ committed'.calls \in Nat /\ packets' \in Nat
    <2>1. HoldsByte' \in 0..1 /\ HoldsWrite' \in 0..1
        BY DEF HoldsByte, HoldsWrite
    <2>2. committed'.calls \in Nat /\ packets' \in Nat
        BY SimulatorAssumption DEF TypeInv, CommittedTyped, TypeOK
    <2> QED
        BY <2>1, <2>2, CountsAreNumbers
<1>3. /\ backlog \in Seq(Clients) /\ unread \in Seq(Irqs)
      /\ Len(unread) <= MaxBytes /\ Len(backlog) <= clients
    BY DEF CallsCounted
<1>4. committed.calls + left + HoldsByte + HoldsWrite <= packets + room
    BY DEF CallsCounted
<1>5. left \in Nat /\ room \in Int
    <2>1. Len(unread) \in Nat /\ Len(backlog) \in Nat
        BY <1>3
    <2> QED
        BY <2>1, SimulatorAssumption DEF TypeInv, TypeOK
<1>6. room' = room
    BY <1>1
<1> HIDE DEF room, left
<1>7. committed'.calls + left + HoldsByte' + HoldsWrite' <= packets' + room
    BY <1>2, <1>5, <1>4
<1> QED
    BY <1>1, <1>3, <1>6, <1>7 DEF CallsCounted, room, left

\* The calls of a record the last operation was replaced in.
LEMMA CallsOfCommit ==
    ASSUME TypeInv, NEW n \in Nat, Commit(n)
    PROVE  committed'.calls = committed.calls + n
BY DEF Commit

\* irq_listener.
LEMMA IrqCounted ==
    ASSUME TypeInv, TypeInv', CallsCounted, Irq
    PROVE  CallsCounted'
<1>1. /\ backlog \in Seq(Clients) /\ unread \in Seq(Irqs)
      /\ Len(unread) <= MaxBytes /\ Len(backlog) <= clients
      /\ committed.calls + Len(unread) + HoldsByte + HoldsWrite
            <= packets + (clients - Len(backlog)) * MaxBytes
    BY DEF CallsCounted
<1>2. /\ HoldsByte \in 0..1 /\ HoldsWrite \in 0..1 /\ committed.calls \in Nat /\ packets \in Nat
      /\ clients \in Nat /\ MaxBytes \in Nat /\ Len(backlog) \in Nat /\ Len(unread) \in Nat
    BY <1>1, CountsAreNumbers, SimulatorAssumption DEF TypeInv, TypeOK
<1>3. ASSUME NEW next, Goto("irq", next), UNCHANGED <<irqWire, gdbWire, committed>>,
             pc["irq"] \notin {"accept", "read"}
      PROVE  CallsCounted'
    <2>1. HoldsByte = 1
        BY <1>3 DEF HoldsByte
    <2>2. HoldsByte' \in 0..1 /\ HoldsWrite' = HoldsWrite
        BY <1>3, HoldsAfterMove
    <2>3. committed'.calls + HoldsByte' + HoldsWrite' - packets'
                <= committed.calls + HoldsByte + HoldsWrite - packets
        BY <1>2, <1>3, <2>1, <2>2 DEF gdbWire
    <2> QED
        BY <1>3, <2>3, CountKept
<1>4. CASE IrqAccept
    <2>1. /\ pc["irq"] = "accept" /\ backlog # <<>>
          /\ unread' = Head(backlog) /\ backlog' = Tail(backlog) /\ Goto("irq", "read")
          /\ UNCHANGED <<clients, packets, committed>>
        BY <1>4 DEF IrqAccept, At, gdbWire
    <2>2. /\ Head(backlog) \in Clients
          /\ Tail(backlog) \in Seq(Clients) /\ Len(Tail(backlog)) = Len(backlog) - 1
        BY <1>1, <2>1, HeadTailProperties
    <2>3. Head(backlog) \in Seq(Irqs) /\ Len(Head(backlog)) <= MaxBytes
        BY <2>2, SimulatorAssumption
    <2>4. HoldsByte = 0 /\ HoldsByte' = 0 /\ HoldsWrite' = HoldsWrite
        BY <2>1, HoldsAfterMove DEF HoldsByte
    <2>5. (clients - (Len(backlog) - 1)) * MaxBytes = (clients - Len(backlog)) * MaxBytes + MaxBytes
        <3>1. \A n \in Int, b \in Nat : (n + 1) * b = n * b + b
            OBVIOUS
        <3>2. clients - (Len(backlog) - 1) = (clients - Len(backlog)) + 1
              /\ clients - Len(backlog) \in Int
            BY <1>2
        <3> QED
            BY <1>2, <3>1, <3>2
    <2> DEFINE room == (clients - Len(backlog)) * MaxBytes
    <2>6. room \in Int
        BY <1>2
    <2>7. Len(Head(backlog)) \in Nat
        BY <2>3
    <2>8. committed.calls + Len(unread) + HoldsWrite <= packets + room
        BY <1>1, <1>2, <2>4
    <2>9. Len(backlog) - 1 <= clients
        BY <1>1, <1>2
    <2> HIDE DEF room
    <2>10. committed.calls + Len(Head(backlog)) + 0 + HoldsWrite <= packets + (room + MaxBytes)
        BY <1>2, <2>3, <2>6, <2>7, <2>8
    <2> QED
        BY <2>1, <2>2, <2>3, <2>4, <2>5, <2>9, <2>10 DEF CallsCounted, room
<1>5. CASE IrqRead
    <2>1. pc["irq"] = "read" /\ UNCHANGED <<backlog, clients, packets, committed>>
        BY <1>5 DEF IrqRead, At, gdbWire
    <2>2. CASE unread = <<>>
        <3>1. Goto("irq", "accept") /\ UNCHANGED <<unread, local>>
            BY <1>5, <2>2 DEF IrqRead
        <3>2. HoldsByte = 0 /\ HoldsByte' = 0 /\ HoldsWrite' = HoldsWrite
            BY <2>1, <3>1, HoldsAfterMove DEF HoldsByte
        <3>3. committed'.calls + HoldsByte' + HoldsWrite' - packets'
                <= committed.calls + HoldsByte + HoldsWrite - packets
            BY <1>2, <2>1, <3>2
        <3> QED
            BY <2>1, <3>1, <3>3, CountKept DEF irqWire
    <2>3. CASE unread # <<>>
        <3>1. unread' = Tail(unread) /\ Goto("irq", "lock")
            BY <1>5, <2>3 DEF IrqRead
        <3>2. Tail(unread) \in Seq(Irqs) /\ Len(Tail(unread)) = Len(unread) - 1
            BY <1>1, <2>3, HeadTailProperties
        <3>3. HoldsByte = 0 /\ HoldsByte' = 1 /\ HoldsWrite' = HoldsWrite
            BY <2>1, <3>1, HoldsAfterMove DEF HoldsByte
        <3> DEFINE room == (clients - Len(backlog)) * MaxBytes
        <3>4. room \in Int
            BY <1>2
        <3>5. committed.calls + Len(unread) + 0 + HoldsWrite <= packets + room
            BY <1>1, <3>3
        <3> HIDE DEF room
        <3>6. committed.calls + (Len(unread) - 1) + 1 + HoldsWrite <= packets + room
              /\ Len(unread) - 1 <= MaxBytes
            <4> DEFINE length == Len(unread)
            <4>1. length \in Nat /\ length <= MaxBytes /\ MaxBytes \in Nat
                BY <1>1, <1>2, LenProperties DEF CallsCounted
            <4>2. committed.calls + length + 0 + HoldsWrite <= packets + room
                BY <3>5
            <4>3. /\ committed.calls \in Nat /\ HoldsWrite \in 0..1 /\ packets \in Nat
                BY <1>2
            <4> HIDE DEF length
            <4>4. committed.calls + (length - 1) + 1 + HoldsWrite <= packets + room
                  /\ length - 1 <= MaxBytes
                BY <3>4, <4>1, <4>2, <4>3
            <4> QED BY <4>4 DEF length
        <3>7. unread' \in Seq(Irqs) /\ Len(unread') = Len(unread) - 1
            BY <3>1, <3>2
        <3>8. Len(unread') <= MaxBytes
            BY <3>6, <3>7
        <3>9. committed'.calls + Len(unread') + HoldsByte' + HoldsWrite'
                <= packets' + (clients' - Len(backlog')) * MaxBytes
            BY <2>1, <3>3, <3>6, <3>7 DEF room
        <3>10. backlog' \in Seq(Clients) /\ Len(backlog') <= clients'
            BY <1>1, <2>1
        <3> QED
            BY <3>7, <3>8, <3>9, <3>10 DEF CallsCounted
    <2> QED
        BY <2>2, <2>3
<1>6. CASE IrqLock
    BY <1>3, <1>6 DEF IrqLock, Lock, At
<1>7. CASE IrqException
    <2>1. "irq" \in Threads
        BY DEF Threads
    <2>2. Goto("irq", "cpsr") \/ Goto("irq", "unlock")
        BY <1>7, <2>1, ExceptionBegins DEF IrqException
    <2> QED
        BY <1>3, <1>7, <2>2 DEF IrqException, At
<1>8. CASE IrqDangling
    <2>1. CASE Goto("irq", "unlock")
        BY <1>3, <1>8, <2>1 DEF IrqDangling
    <2>2. CASE UNCHANGED pc
        <3>1. UNCHANGED <<irqWire, packets, committed>>
            BY <1>8 DEF IrqDangling, gdbWire
        <3>2. HoldsByte' = HoldsByte /\ HoldsWrite' = HoldsWrite
            BY <2>2, HoldsAfterMove
        <3>3. committed'.calls + HoldsByte' + HoldsWrite' - packets'
                <= committed.calls + HoldsByte + HoldsWrite - packets
            BY <1>2, <3>1, <3>2
        <3> QED
            BY <3>1, <3>3, CountKept
    <2> QED
        BY <1>8, <2>1, <2>2 DEF IrqDangling
<1>9. CASE IrqUnlock
    <2>1. /\ pc["irq"] = "unlock" /\ Goto("irq", "read")
          /\ Commit(1) \/ UNCHANGED committed
          /\ UNCHANGED <<irqWire, packets>>
        BY <1>9 DEF IrqUnlock, At, gdbWire
    <2>2. HoldsByte = 1 /\ HoldsByte' = 0 /\ HoldsWrite' = HoldsWrite
        BY <2>1, HoldsAfterMove DEF HoldsByte
    <2>3. committed'.calls = committed.calls + 1 \/ committed'.calls = committed.calls
        BY <2>1, CallsOfCommit
    <2>4. committed'.calls + HoldsByte' + HoldsWrite' - packets'
                <= committed.calls + HoldsByte + HoldsWrite - packets
        BY <1>2, <2>1, <2>2, <2>3
    <2> QED
        BY <2>1, <2>4, CountKept
<1>10. CASE TakeException("irq")
    BY <1>3, <1>10 DEF TakeException, WriteCpsr, WriteSp, WriteLr, WriteSpsr, Branch,
        ExceptionWrite, At
<1> QED
    BY <1>4, <1>5, <1>6, <1>7, <1>8, <1>9, <1>10 DEF Irq

\* The steps of the debugger thread, as the count sees them.  Nothing is counted
\* by a step to a label where no packet is waiting that may write.
LEMMA GdbMoveCounted ==
    ASSUME TypeInv, TypeInv', CallsCounted, NEW next, Goto("gdb", next),
           next \notin {"lock", "write", "writeCpsr"} \/ pc["gdb"] \in {"lock", "write"},
           UNCHANGED <<irqWire, packets>>, committed'.calls = committed.calls
    PROVE  CallsCounted'
<1>1. /\ HoldsByte \in Int /\ HoldsWrite \in Int /\ committed.calls \in Int /\ packets \in Int
      /\ 0 <= HoldsWrite
    BY CountsAreNumbers
<1>2. /\ HoldsWrite' = IF next \in {"lock", "write", "writeCpsr"} THEN 1 ELSE 0
      /\ HoldsByte' = HoldsByte
    BY HoldsAfterMove
<1>3. HoldsWrite' \in Int /\ HoldsWrite' <= HoldsWrite
    BY <1>1, <1>2 DEF HoldsWrite
<1>4. committed'.calls + HoldsByte' + HoldsWrite' - packets'
            <= committed.calls + HoldsByte + HoldsWrite - packets
    BY <1>1, <1>2, <1>3
<1> QED
    BY <1>4, CountKept

\* A packet that writes was counted when it was received.
LEMMA HandlerCounted ==
    ASSUME TypeInv, TypeInv', CallsCounted, pc["gdb"] \in {"write", "writeCpsr"},
           NEW r, NEW m, HandlerDone(r, m)
    PROVE  CallsCounted'
<1>1. HoldsByte \in Int /\ committed.calls \in Int /\ packets \in Int
    BY CountsAreNumbers
<1>2. /\ Goto("gdb", "unlock") /\ UNCHANGED <<irqWire, packets>>
      /\ committed' = [committed EXCEPT !.regs = r, !.mem = m, !.calls = @ + 1]
    BY DEF HandlerDone, gdbWire
<1>3. HoldsWrite = 1 /\ HoldsWrite' = 0 /\ HoldsByte' = HoldsByte
    BY <1>2, HoldsAfterMove DEF HoldsWrite
<1>4. committed'.calls = committed.calls + 1
    BY <1>2 DEF TypeInv, CommittedTyped
<1>5. committed'.calls + HoldsByte' + HoldsWrite' - packets'
            <= committed.calls + HoldsByte + HoldsWrite - packets
    BY <1>1, <1>2, <1>3, <1>4
<1> QED
    BY <1>2, <1>5, CountKept

\* The end of the process counts nothing.
LEMMA DeathCounted ==
    ASSUME TypeInv, TypeInv', CallsCounted, NEW how, NEW cycles, ProcessDies(how, cycles)
    PROVE  CallsCounted'
<1>1. /\ HoldsByte \in Int /\ HoldsWrite \in Int /\ committed.calls \in Int /\ packets \in Int
    BY CountsAreNumbers
<1>2. UNCHANGED <<pc, irqWire, packets>> /\ committed'.calls = committed.calls
    BY DEF ProcessDies, gdbWire, TypeInv, CommittedTyped
<1>3. HoldsByte' = HoldsByte /\ HoldsWrite' = HoldsWrite
    BY <1>2, HoldsAfterMove
<1>4. committed'.calls + HoldsByte' + HoldsWrite' - packets'
            <= committed.calls + HoldsByte + HoldsWrite - packets
    BY <1>1, <1>2, <1>3
<1> QED
    BY <1>2, <1>4, CountKept

\* The debugger thread.
LEMMA GdbCounted ==
    ASSUME TypeInv, TypeInv', CallsCounted, Gdb
    PROVE  CallsCounted'
<1> USE DEF gdbWire
<1> DEFINE Plain == /\ \E next : /\ Goto("gdb", next)
                                 /\ \/ next \notin {"lock", "write", "writeCpsr"}
                                    \/ pc["gdb"] \in {"lock", "write"}
                    /\ UNCHANGED <<irqWire, packets>>
                    /\ committed'.calls = committed.calls
<1>1. "gdb" \in Threads
    BY DEF Threads
<1>2. CASE Plain
    BY <1>2, GdbMoveCounted
<1>3. CASE GdbLock
    BY <1>2, <1>3 DEF GdbLock, Lock, At
<1>4. CASE GdbUnlock
    BY <1>2, <1>4 DEF GdbUnlock
<1>5. CASE GdbWriteRegister
    BY <1>5, HandlerCounted DEF GdbWriteRegister, At
<1>6. CASE GdbWriteGeneral
    BY <1>2, <1>6 DEF GdbWriteGeneral, At
<1>7. CASE GdbWriteCpsr
    BY <1>7, HandlerCounted DEF GdbWriteCpsr, At
<1>8. CASE GdbWriteMemory
    BY <1>8, HandlerCounted DEF GdbWriteMemory, At
<1>9. CASE GdbPeek
    <2>1. Goto("gdb", "unlock") \/ Goto("gdb", "fetch")
        BY <1>9 DEF GdbPeek
    <2> QED
        BY <1>2, <1>9, <2>1 DEF GdbPeek
<1>10. CASE GdbFetch
    <2>1. Goto("gdb", "abort") \/ Goto("gdb", "execute")
        BY <1>10 DEF GdbFetch
    <2> QED
        BY <1>2, <1>10, <2>1 DEF GdbFetch
<1>11. CASE GdbFetchDies
    BY <1>11, DeathCounted DEF GdbFetchDies
<1>12. ASSUME NEW e, BeginException("gdb", e, "stepped"),
              UNCHANGED <<irqWire, packets, committed>>
       PROVE  CallsCounted'
    <2>1. Goto("gdb", "cpsr") \/ Goto("gdb", "stepped")
        BY <1>1, <1>12, ExceptionBegins
    <2> QED
        BY <1>2, <1>12, <2>1
<1>13. CASE GdbPrefetchAbort
    BY <1>12, <1>13 DEF GdbPrefetchAbort
<1>14. CASE GdbExecute
    <2>1. \/ \E how, cycles : ProcessDies(how, cycles)
          \/ Goto("gdb", "executed") /\ UNCHANGED <<irqWire, packets, committed>>
        BY <1>14 DEF GdbExecute
    <2> QED
        BY <1>2, <2>1, DeathCounted
<1>15. CASE GdbException
    BY <1>12, <1>15 DEF GdbException
<1>16. CASE GdbStepped
    <2>1. /\ Commit(0) /\ UNCHANGED <<irqWire, packets>>
          /\ Goto("gdb", "peek") \/ Goto("gdb", "unlock")
        BY <1>16 DEF GdbStepped
    <2>2. committed'.calls = committed.calls
        BY <2>1, CallsOfCommit, CountsAreNumbers
    <2> QED
        BY <1>2, <2>1, <2>2
<1>17. CASE TakeException("gdb")
    <2>1. /\ UNCHANGED <<irqWire, packets, committed>>
          /\ \E next \in {"sp", "lr", "spsr", "vector", "stepped"} : Goto("gdb", next)
        BY <1>17 DEF TakeException, WriteCpsr, WriteSp, WriteLr, WriteSpsr, Branch, ExceptionWrite
    <2> QED
        BY <1>2, <2>1
<1> QED
    BY <1>3, <1>4, <1>5, <1>6, <1>7, <1>8, <1>9, <1>10, <1>11, <1>13, <1>14, <1>15, <1>16, <1>17
    DEF Gdb

\* main, the clients and the debugger.
LEMMA MainAndEnvironmentCounted ==
    ASSUME TypeInv, TypeInv', CallsCounted, Main \/ Environment
    PROVE  CallsCounted'
<1> USE DEF gdbWire
<1>1. /\ HoldsByte \in Int /\ HoldsWrite \in Int /\ committed.calls \in Int /\ packets \in Int
    BY CountsAreNumbers
<1>2. ASSUME UNCHANGED <<irqWire, pc, committed>>, packets' \in {packets, packets + 1}
      PROVE  CallsCounted'
    <2>1. HoldsByte' = HoldsByte /\ HoldsWrite' = HoldsWrite
        BY <1>2, HoldsAfterMove
    <2>2. committed'.calls + HoldsByte' + HoldsWrite' - packets'
                <= committed.calls + HoldsByte + HoldsWrite - packets
        BY <1>1, <1>2, <2>1
    <2> QED
        BY <1>2, <2>2, CountKept
<1>3. CASE Main
    BY <1>2, <1>3 DEF Main, MainJoin, ArmDestroy, MemoryDestroy, MainReturn, MainGoto
<1>4. CASE Connect
    <2>1. PICK bytes \in Clients : backlog' = Append(backlog, bytes)
        BY <1>4 DEF Connect
    <2>2. clients' = clients + 1 /\ UNCHANGED <<pc, unread, committed, packets>>
        BY <1>4 DEF Connect
    <2>3. backlog \in Seq(Clients) /\ clients \in Nat
        BY SimulatorAssumption DEF CallsCounted, TypeInv, TypeOK
    <2>4. backlog' \in Seq(Clients) /\ Len(backlog') = Len(backlog) + 1 /\ Len(backlog) \in Nat
        BY <2>1, <2>3
    <2>5. clients' - Len(backlog') = clients - Len(backlog)
          /\ (Len(backlog) <= clients => Len(backlog') <= clients')
        BY <2>2, <2>3, <2>4
    <2>6. HoldsByte' = HoldsByte /\ HoldsWrite' = HoldsWrite
        BY <2>2, HoldsAfterMove
    <2> QED
        BY <2>2, <2>4, <2>5, <2>6 DEF CallsCounted
<1>5. CASE GdbAccept
    BY <1>5, GdbMoveCounted DEF GdbAccept
<1>6. CASE GdbReceive
    <2>1. /\ UNCHANGED <<irqWire, committed>> /\ packets' = packets + 1 /\ pc["gdb"] = "scan"
          /\ UNCHANGED pc \/ Goto("gdb", "lock")
        BY <1>6 DEF GdbReceive, At
    <2>2. CASE Goto("gdb", "lock")
        <3>1. HoldsWrite = 0 /\ HoldsWrite' = 1 /\ HoldsByte' = HoldsByte
            BY <2>1, <2>2, HoldsAfterMove DEF HoldsWrite
        <3>2. committed'.calls + HoldsByte' + HoldsWrite' - packets'
                <= committed.calls + HoldsByte + HoldsWrite - packets
            BY <1>1, <2>1, <3>1
        <3> QED
            BY <2>1, <3>2, CountKept
    <2> QED
        BY <1>2, <2>1, <2>2
<1>7. CASE GdbEof
    BY <1>7, GdbMoveCounted DEF GdbEof
<1> QED
    BY <1>3, <1>4, <1>5, <1>6, <1>7 DEF Environment

---------------------------------------------------------------------------
(* How far an exception has come.                                          *)

\* Each write of execute_ takes the registers to the next label, and the last
\* one makes them what arm_exception returns.
LEMMA EntryMoves ==
    ASSUME TypeInv, NEW t \in Threads, NEW r, NEW e, Entering(t, r, e), TakeException(t)
    PROVE  /\ UNCHANGED <<mem, cycle_count, lock, local, main, ended, irqWire, gdbWire, committed>>
           /\ \A u \in Threads \ {t} : pc'[u] = pc[u]
           /\ \/ pc'[t] \in EntryLabels /\ Entering(t, r, e)'
              \/ /\ pc'[t] = IF t = "gdb" THEN "stepped" ELSE "unlock"
                 /\ regs' = arm_exception(r, e)
<1> DEFINE inMode == EntryCpsr(r, e)
           withSp == EntrySp(inMode, arm_read_register(r, SP))
           withLr == EntryLr(withSp, ReturnAddress(r, e))
           saved  == EntrySpsr(withLr, e, read_cpsr(r))
           MovesTo(next, written) == /\ Goto(t, next)
                                    /\ regs' = written
                                    /\ UNCHANGED <<mem, cycle_count, lock, local, main, ended,
                                                   irqWire, gdbWire, committed>>
<1>1. /\ e \in Exceptions /\ local[t].exception = e
      /\ local[t].sp = arm_read_register(r, SP)
      /\ local[t].addr = ReturnAddress(r, e)
      /\ local[t].cpsr = read_cpsr(r)
      /\ regs = EntryAt(pc[t], r, e)
    BY DEF Entering
<1>2. pc \in [Threads -> Labels]
    BY DEF TypeInv, TypeOK
<1>3. /\ EntryAt("cpsr", r, e) = r /\ EntryAt("sp", r, e) = inMode
      /\ EntryAt("lr", r, e) = withSp /\ EntryAt("spsr", r, e) = withLr
      /\ EntryAt("vector", r, e) = saved
    BY DEF EntryAt
<1>4. ASSUME NEW next \in EntryLabels, MovesTo(next, EntryAt(next, r, e))
      PROVE  /\ pc'[t] \in EntryLabels /\ Entering(t, r, e)'
             /\ \A u \in Threads \ {t} : pc'[u] = pc[u]
    <2>1. pc'[t] = next /\ \A u \in Threads \ {t} : pc'[u] = pc[u]
        BY <1>2, <1>4, GotoMoves
    <2> QED
        BY <1>1, <1>4, <2>1 DEF Entering
<1>5. CASE WriteCpsr(t)
    <2>1. MovesTo("sp", EntryAt("sp", r, e))
        BY <1>1, <1>3, <1>5 DEF WriteCpsr, ExceptionWrite, At, EntryCpsr
    <2> QED
        BY <1>4, <2>1 DEF EntryLabels
<1>6. CASE WriteSp(t)
    <2>1. MovesTo("lr", EntryAt("lr", r, e))
        BY <1>1, <1>3, <1>6 DEF WriteSp, ExceptionWrite, At
    <2> QED
        BY <1>4, <2>1 DEF EntryLabels
<1>7. CASE WriteLr(t)
    <2>1. MovesTo("spsr", EntryAt("spsr", r, e))
        BY <1>1, <1>3, <1>7 DEF WriteLr, ExceptionWrite, At
    <2> QED
        BY <1>4, <2>1 DEF EntryLabels
<1>8. CASE WriteSpsr(t)
    <2>1. MovesTo("vector", EntryAt("vector", r, e))
        BY <1>1, <1>3, <1>8 DEF WriteSpsr, ExceptionWrite, At
    <2> QED
        BY <1>4, <2>1 DEF EntryLabels
<1>9. CASE Branch(t)
    <2> DEFINE next == IF t = "gdb" THEN "stepped" ELSE "unlock"
    <2>1. MovesTo(next, branch_exception_vector(saved, e))
        BY <1>1, <1>3, <1>9 DEF Branch, ExceptionWrite, At
    <2>2. branch_exception_vector(saved, e) = arm_exception(r, e)
        BY <1>1 DEF arm_exception, execute_
    <2>3. pc'[t] = next /\ \A u \in Threads \ {t} : pc'[u] = pc[u]
        BY <1>2, <2>1, GotoMoves
    <2> QED
        BY <2>1, <2>2, <2>3
<1> QED
    BY <1>5, <1>6, <1>7, <1>8, <1>9 DEF TakeException

\* BeginException starts from the registers it finds.
LEMMA EntryBegins ==
    ASSUME TypeInv, NEW t \in Threads, NEW e, NEW leave, BeginException(t, e, leave),
           UNCHANGED regs
    PROVE  /\ \A u \in Threads \ {t} : pc'[u] = pc[u] /\ local'[u] = local[u]
           /\ local'[t].result = local[t].result
           /\ \/ \A r : r = regs => pc'[t] \in EntryLabels /\ Entering(t, r, e)'
              \/ pc'[t] = leave /\ regs' = arm_exception(regs, e)
<1>1. regs \in RegisterFile /\ pc \in [Threads -> Labels] /\ LocalsTyped
    BY DEF TypeInv, TypeOK
<1>2. CASE e \in Exceptions
    <2>1. /\ Goto(t, "cpsr")
          /\ local'[t].exception = e
          /\ local'[t].sp = arm_read_register(regs, SP)
          /\ local'[t].addr = ReturnAddress(regs, e)
          /\ local'[t].cpsr = read_cpsr(regs)
          /\ local'[t].result = local[t].result
          /\ \A u \in Threads \ {t} : local'[u] = local[u]
        BY <1>1, <1>2, ExceptionBegun
    <2>2. pc'[t] = "cpsr" /\ \A u \in Threads \ {t} : pc'[u] = pc[u]
        BY <1>1, <2>1, GotoMoves
    <2>3. \A r : EntryAt("cpsr", r, e) = r
        BY DEF EntryAt
    <2>4. ASSUME NEW r, r = regs
          PROVE  pc'[t] \in EntryLabels /\ Entering(t, r, e)'
        BY <1>2, <2>1, <2>2, <2>3, <2>4 DEF Entering, EntryLabels
    <2> QED
        BY <2>1, <2>2, <2>4
<1>3. CASE e \notin Exceptions
    <2>1. Goto(t, leave) /\ UNCHANGED local
        BY <1>3, ExceptionIgnored
    <2>2. pc'[t] = leave /\ \A u \in Threads \ {t} : pc'[u] = pc[u]
        BY <1>1, <2>1, GotoMoves
    <2>3. regs' = arm_exception(regs, e)
        BY <1>3 DEF arm_exception
    <2> QED
        BY <2>1, <2>2, <2>3
<1> QED
    BY <1>2, <1>3

---------------------------------------------------------------------------
(* Steps of the threads, as steps of the core.                             *)

CoreStep == [Core!Next]_(Core!vars)

\* Steps inside an operation are not seen.
LEMMA CoreStays ==
    ASSUME UNCHANGED committed
    PROVE  CoreStep
BY DEF CoreStep, Core!vars

\* At most one thread is inside, and then main has not freed the core under the
\* debugger thread.
LEMMA OneInside ==
    ASSUME LockInv
    PROVE  /\ pc["gdb"] \notin Outside => lock = "gdb" /\ pc["irq"] \in Outside /\ ~Freed
           /\ pc["irq"] \notin Outside => lock = "irq" /\ pc["gdb"] \in Outside
           /\ lock = "irq" => pc["irq"] \notin Outside
           /\ lock = "gdb" => pc["gdb"] \notin Outside
BY DEF LockInv, Places, HolderWorks, Working, JoinedDone, Freed, Outside, Threads

\* A thread that stays outside changes nothing the other has done.
LEMMA OutsideProgresses ==
    ASSUME LockInv, Progress, NEW t \in Threads, pc[t] \in Outside, ByteRead',
           \A u \in Threads \ {t} : pc'[u] = pc[u] /\ local'[u] = local[u],
           t = "irq" => UNCHANGED packet,
           UNCHANGED <<shared, lock, main, committed>>
    PROVE  Progress' /\ CoreStep
<1>1. (Freed' <=> Freed) /\ committed'.ended = 0
    BY DEF Freed, Progress
<1>2. UNCHANGED <<regs, mem, cycle_count, committed>>
    BY DEF shared
<1>3. lock = "free" => (AsCommitted => AsCommitted')
    BY <1>2 DEF AsCommitted
<1>4. lock = "irq" => pc'["irq"] = pc["irq"] /\ local'["irq"] = local["irq"]
    BY OneInside DEF Threads
<1>5. lock = "irq" /\ IrqProgress => IrqProgress'
    BY <1>2, <1>4 DEF IrqProgress, Entering
<1>6. lock = "gdb" => pc'["gdb"] = pc["gdb"] /\ local'["gdb"] = local["gdb"] /\ packet' = packet
    BY OneInside DEF Threads
<1>7. lock = "gdb" /\ GdbProgress /\ Peeked => GdbProgress' /\ Peeked'
    <2> SUFFICES ASSUME lock = "gdb", GdbProgress, Peeked PROVE GdbProgress' /\ Peeked'
        OBVIOUS
    <2>1. /\ (AsCommitted' <=> AsCommitted)
          /\ (Fetched' <=> Fetched)
          /\ Outcomes' = Outcomes
        BY <1>2, <1>6 DEF AsCommitted, Fetched, Counted, Outcomes
    <2>2. \A p : HalfWritten(p)' <=> HalfWritten(p)
        BY <1>2, <1>6 DEF HalfWritten
    <2>3. \A done : Ran(done)' <=> Ran(done)
        BY <1>2, <1>6 DEF Ran, Counted, Entering
    <2>4. GdbProgress'
        BY <1>6, <2>1, <2>2, <2>3 DEF GdbProgress
    <2> QED
        BY <1>2, <1>6, <2>4 DEF Peeked
<1> QED
    BY <1>1, <1>3, <1>5, <1>7, CoreStays DEF Progress

\* There is room for the call of a byte that has been read, and for that of a
\* packet that writes.
LEMMA RoomForCall ==
    ASSUME TypeInv, CallsCounted,
           \/ pc["irq"] \notin {"accept", "read"}
           \/ pc["gdb"] \in {"lock", "write", "writeCpsr"}
    PROVE  committed.calls < MaxCalls
<1>1. HoldsByte \in 0..1 /\ HoldsWrite \in 0..1 /\ HoldsByte + HoldsWrite >= 1
    BY CountsAreNumbers DEF HoldsByte, HoldsWrite
<1> DEFINE left == Len(unread)
           opened == clients - Len(backlog)
           room == opened * MaxBytes
<1>2. left \in Nat
    BY DEF CallsCounted
<1>3. opened \in Nat /\ opened <= MaxClients
    <2>1. Len(backlog) \in Nat /\ Len(backlog) <= clients
        BY DEF CallsCounted
    <2>2. clients \in 0..MaxClients /\ MaxClients \in Nat
        BY SimulatorAssumption DEF TypeInv, TypeOK
    <2> QED
        BY <2>1, <2>2
<1>4. committed.calls + left + HoldsByte + HoldsWrite <= packets + room
    BY DEF CallsCounted
<1>5. committed.calls \in Nat /\ packets \in 0..MaxPackets
    BY DEF TypeInv, TypeOK, CommittedTyped
<1> HIDE DEF left, opened
<1>6. room \in Int /\ room <= MaxClients * MaxBytes
    <2>1. \A a, b, n \in Nat : a <= b => a * n <= b * n
        OBVIOUS
    <2>2. MaxClients \in Nat /\ MaxBytes \in Nat
        BY SimulatorAssumption
    <2> QED
        BY <1>3, <2>1, <2>2
<1> HIDE DEF room
<1>7. /\ MaxPackets \in Nat /\ MaxClients * MaxBytes \in Int /\ MaxCalls \in Int
      /\ MaxPackets + MaxClients * MaxBytes <= MaxCalls
    BY SimulatorAssumption, ArmCoreAssumption
<1> QED
    BY <1>1, <1>2, <1>4, <1>5, <1>6, <1>7

\* The interrupt thread: its operation is complete when it frees the lock.
LEMMA IrqProgresses ==
    ASSUME LockInv, TypeInv, CallsCounted, Running, Progress, Irq
    PROVE  (Running' => Progress') /\ CoreStep
<1> USE DEF irqWire, gdbWire
<1>1. /\ "irq" \in Threads /\ "gdb" \in Threads /\ Threads \ {"irq"} = {"gdb"}
      /\ pc \in [Threads -> Labels]
    BY DEF Threads, TypeInv, TypeOK
<1>2. /\ committed.ended = 0
      /\ pc["irq"] \notin {"accept", "read"} => local["irq"].result \in Irqs
    BY DEF Progress, ByteRead
<1>3. ASSUME NEW next, Goto("irq", next)
      PROVE  pc'["irq"] = next /\ pc'["gdb"] = pc["gdb"]
    BY <1>1, <1>3, GotoMoves
\* Inside: the interrupt thread holds the lock.
<1>4. pc["irq"] \notin Outside => lock = "irq" /\ pc["gdb"] \in Outside /\ (~Freed => IrqProgress)
    BY OneInside DEF Progress
\* A step inside that completes nothing.
<1>5. ASSUME lock = "irq", UNCHANGED <<lock, main, committed>>,
             local'["irq"].result = local["irq"].result,
             pc["irq"] \notin {"accept", "read"},
             ~Freed => IrqProgress'
      PROVE  Progress' /\ CoreStep
    BY <1>2, <1>5, CoreStays DEF Progress, ByteRead, Freed
<1>6. CASE IrqAccept
    <2>1. pc["irq"] = "accept" /\ Goto("irq", "read")
          /\ UNCHANGED <<shared, lock, local, main, packet, committed>>
        BY <1>6 DEF IrqAccept, At
    <2>2. pc'["irq"] = "read" /\ pc'["gdb"] = pc["gdb"]
        BY <1>3, <2>1
    <2>3. ByteRead' /\ pc["irq"] \in Outside
        BY <2>1, <2>2 DEF ByteRead, Outside
    <2> QED
        BY <1>1, <2>1, <2>2, <2>3, OutsideProgresses
<1>7. CASE IrqRead
    <2>1. pc["irq"] = "read" /\ UNCHANGED <<shared, lock, main, packet, committed>>
        BY <1>7 DEF IrqRead, At
    <2>2. CASE unread = <<>>
        <3>1. Goto("irq", "accept") /\ UNCHANGED local
            BY <1>7, <2>2 DEF IrqRead
        <3>2. pc'["irq"] = "accept" /\ pc'["gdb"] = pc["gdb"]
            BY <1>3, <3>1
        <3>3. ByteRead' /\ pc["irq"] \in Outside
            BY <2>1, <3>2 DEF ByteRead, Outside
        <3> QED
            BY <1>1, <2>1, <3>1, <3>2, <3>3, OutsideProgresses
    <2>3. CASE unread # <<>>
        <3>1. local' = [local EXCEPT !["irq"].result = Head(unread)] /\ Goto("irq", "lock")
            BY <1>7, <2>3 DEF IrqRead
        <3>2. Head(unread) \in Irqs
            BY <2>3, HeadTailProperties DEF CallsCounted
        <3>3. local'["irq"].result = Head(unread) /\ local'["gdb"] = local["gdb"]
            BY <1>1, <3>1, ResultAssigned DEF TypeInv
        <3>4. pc'["irq"] = "lock" /\ pc'["gdb"] = pc["gdb"]
            BY <1>3, <3>1
        <3>5. ByteRead' /\ pc["irq"] \in Outside
            BY <2>1, <3>2, <3>3 DEF ByteRead, Outside
        <3> QED
            BY <1>1, <2>1, <3>3, <3>4, <3>5, OutsideProgresses
    <2> QED
        BY <2>2, <2>3
<1>8. CASE IrqLock
    <2>1. /\ pc["irq"] = "lock" /\ lock = "free" /\ lock' = "irq" /\ Goto("irq", "exception")
          /\ UNCHANGED <<regs, mem, cycle_count, local, main, committed>>
        BY <1>8 DEF IrqLock, Lock, At, shared
    <2>2. pc'["irq"] = "exception"
        BY <1>3, <2>1
    <2>3. ~Freed => regs = committed.regs /\ mem = committed.mem
                    /\ cycle_count = committed.cycle_count
        BY <2>1 DEF Progress, AsCommitted
    <2>4. ~Freed => IrqProgress'
        BY <2>1, <2>2, <2>3 DEF IrqProgress, EntryLabels
    <2>5. ByteRead' /\ committed'.ended = 0
        BY <1>2, <2>1 DEF ByteRead
    <2>6. Freed' <=> Freed
        BY <2>1 DEF Freed
    <2> QED
        BY <2>1, <2>4, <2>5, <2>6, CoreStays DEF Progress
<1>9. CASE IrqException
    <2>1. /\ pc["irq"] = "exception" /\ ~Freed
          /\ BeginException("irq", local["irq"].result, "unlock")
          /\ UNCHANGED <<regs, mem, cycle_count, lock, main, committed>>
        BY <1>9 DEF IrqException, At, shared
    <2>2. lock = "irq" /\ IrqProgress
        BY <1>4, <2>1 DEF Outside
    <2>3. regs = committed.regs /\ mem = committed.mem /\ cycle_count = committed.cycle_count
        BY <2>1, <2>2 DEF IrqProgress
    <2>4. PICK r : r = regs
        OBVIOUS
    <2>5. PICK e : e = local["irq"].result
        OBVIOUS
    <2>6. BeginException("irq", e, "unlock")
        BY <2>1, <2>5
    <2>7. /\ local'["irq"].result = local["irq"].result
          /\ \/ pc'["irq"] \in EntryLabels /\ Entering("irq", r, e)'
             \/ pc'["irq"] = "unlock" /\ regs' = arm_exception(regs, e)
        BY <1>1, <2>1, <2>4, <2>6, EntryBegins
    <2>8. IrqProgress'
        BY <2>1, <2>3, <2>4, <2>5, <2>7 DEF IrqProgress, Entering, EntryLabels
    <2> QED
        BY <1>5, <2>1, <2>2, <2>7, <2>8
<1>10. CASE IrqDangling
    <2>1. /\ Freed /\ pc["irq"] \notin {"accept", "read"}
          /\ UNCHANGED <<local, main, committed>>
        BY <1>10 DEF IrqDangling
    <2>2. ByteRead'
        BY <1>2, <2>1 DEF ByteRead
    <2> QED
        BY <1>2, <2>1, <2>2, CoreStays DEF Progress, Freed
<1>11. CASE IrqUnlock
    <2>1. /\ pc["irq"] = "unlock" /\ lock' = "free" /\ Goto("irq", "read")
          /\ UNCHANGED <<regs, mem, cycle_count, main, ended>>
          /\ IF Freed THEN UNCHANGED committed ELSE Commit(1)
        BY <1>11 DEF IrqUnlock, At, shared
    <2>2. ByteRead' /\ (Freed' <=> Freed)
        BY <1>3, <2>1 DEF ByteRead, Freed
    <2>3. CASE Freed
        BY <1>2, <2>1, <2>2, <2>3, CoreStays DEF Progress
    <2>4. CASE ~Freed
        <3>1. IrqProgress
            BY <1>4, <2>1, <2>4 DEF Outside
        <3>2. /\ regs = arm_exception(committed.regs, local["irq"].result)
              /\ mem = committed.mem /\ cycle_count = committed.cycle_count
            BY <2>1, <3>1 DEF IrqProgress
        <3>3. /\ committed'.regs = regs /\ committed'.mem = mem
              /\ committed'.cycle_count = cycle_count
              /\ committed'.calls = committed.calls + 1 /\ committed'.ended = 0
            BY <2>1, <2>4 DEF Commit, Running
        <3>4. Progress'
            BY <2>1, <2>2, <3>3 DEF Progress, AsCommitted
        <3>5. committed.calls < MaxCalls
            BY <2>1, RoomForCall
        <3>6. local["irq"].result \in Irqs
            BY <1>2, <2>1
        <3>7. Core!Interrupt(local["irq"].result)
            BY <1>2, <3>2, <3>3, <3>5 DEF Core!Interrupt, Core!Call
        <3> QED
            BY <3>4, <3>6, <3>7 DEF CoreStep, Core!Next
    <2> QED
        BY <2>3, <2>4
<1>12. CASE TakeException("irq")
    <2>1. pc["irq"] \in EntryLabels /\ ~Freed
        BY <1>12 DEF TakeException, WriteCpsr, WriteSp, WriteLr, WriteSpsr, Branch,
            ExceptionWrite, At, EntryLabels
    <2>2. lock = "irq" /\ IrqProgress
        BY <1>4, <2>1 DEF EntryLabels, Outside
    <2>3. PICK r : r = committed.regs
        OBVIOUS
    <2>4. PICK e : e = local["irq"].result
        OBVIOUS
    <2>5. Entering("irq", r, e)
        BY <2>1, <2>2, <2>3, <2>4 DEF IrqProgress
    <2>6. /\ UNCHANGED <<mem, cycle_count, lock, local, main, committed>>
          /\ \/ pc'["irq"] \in EntryLabels /\ Entering("irq", r, e)'
             \/ pc'["irq"] = "unlock" /\ regs' = arm_exception(r, e)
        BY <1>1, <1>12, <2>5, EntryMoves
    <2>7. IrqProgress'
        BY <2>2, <2>3, <2>4, <2>6 DEF IrqProgress, Entering, EntryLabels
    <2>8. pc["irq"] \notin {"accept", "read"}
        BY <2>1 DEF EntryLabels
    <2> QED
        BY <1>5, <2>2, <2>6, <2>7, <2>8
<1> QED
    BY <1>6, <1>7, <1>8, <1>9, <1>10, <1>11, <1>12 DEF Irq

\* What a step of the processor is, once its outcome is known.
LEMMA StepOfCore ==
    ASSUME TypeInv, committed.ended = 0, committed.cycle_count < MaxCycles,
           NEW done \in Outcomes,
           committed'.cycle_count = (committed.cycle_count + 1) % CycleWrap,
           committed'.calls = committed.calls,
           IF done.result \in ProcessEnds
           THEN /\ committed'.ended = done.result
                /\ committed'.regs = committed.regs /\ committed'.mem = committed.mem
           ELSE /\ committed'.ended = 0
                /\ committed'.regs = arm_exception(done.regs, done.result)
                /\ committed'.mem = done.mem
    PROVE  CoreStep
<1>1. PICK ins \in Program, junk \in JunkLocals :
            done = arm_execute_instruction(committed.regs, committed.mem, ins, junk)
    BY DEF Outcomes
<1>2. arm_step(committed.regs, committed.mem, ins, junk) = TakeResult(done)
    BY <1>1 DEF arm_step
<1> DEFINE stepped == arm_step(committed.regs, committed.mem, ins, junk)
<1> HIDE DEF stepped
<1>3. stepped \in {arm_step(committed.regs, committed.mem, ins, junk)}
    BY DEF stepped
<1>4. IF done.result \in ProcessEnds THEN stepped = done
      ELSE /\ stepped.regs = arm_exception(done.regs, done.result)
           /\ stepped.mem = done.mem
           /\ stepped.result = done.result
    BY <1>2, OutcomeFields DEF TakeResult, stepped
<1>5. IF stepped.result \in ProcessEnds
      THEN /\ committed'.ended = stepped.result
           /\ committed'.regs = committed.regs /\ committed'.mem = committed.mem
      ELSE /\ committed'.ended = 0
           /\ committed'.regs = stepped.regs /\ committed'.mem = stepped.mem
    BY <1>4
<1>6. Core!StepOf(ins, junk)
    BY <1>3, <1>5 DEF Core!StepOf
<1> QED
    BY <1>1, <1>6 DEF CoreStep, Core!Next, Core!Step

\* Inside, the debugger thread has the core for itself.
LEMMA GdbInside ==
    ASSUME LockInv, Progress, pc["gdb"] \notin Outside
    PROVE  lock = "gdb" /\ ~Freed /\ GdbProgress /\ Peeked
           /\ committed.ended = 0 /\ pc["irq"] \in Outside
BY OneInside DEF Progress

\* What such a step has to show.
LEMMA GdbShows ==
    ASSUME Progress, ~Freed, UNCHANGED main, committed'.ended = 0,
           pc'["irq"] = pc["irq"], local'["irq"] = local["irq"],
           \/ lock' = "gdb" /\ GdbProgress' /\ Peeked'
           \/ lock' = "free" /\ AsCommitted'
    PROVE  Progress'
<1>1. ByteRead'
    BY DEF Progress, ByteRead
<1> QED
    BY <1>1 DEF Progress, Freed

\* A packet that writes is one step of the core.
LEMMA WritesProgress ==
    ASSUME LockInv, TypeInv, CallsCounted, Running, Progress,
           GdbWriteRegister \/ GdbWriteGeneral \/ GdbWriteCpsr \/ GdbWriteMemory
    PROVE  Progress' /\ CoreStep
<1>1. /\ "irq" \in Threads /\ "gdb" \in Threads /\ Threads \ {"gdb"} = {"irq"}
      /\ pc \in [Threads -> Labels]
    BY DEF Threads, TypeInv, TypeOK
<1>2. pc["gdb"] \in {"write", "writeCpsr"}
    BY DEF GdbWriteRegister, GdbWriteGeneral, GdbWriteCpsr, GdbWriteMemory, At
<1>3. lock = "gdb" /\ ~Freed /\ GdbProgress /\ committed.ended = 0
    BY <1>2, GdbInside DEF Outside
<1>4. committed.calls < MaxCalls
    BY <1>2, RoomForCall
\* The last write of a packet.
<1>5. ASSUME NEW r, NEW m, HandlerDone(r, m), cycle_count = committed.cycle_count
      PROVE  /\ Progress'
             /\ committed'.regs = r /\ committed'.mem = m
             /\ committed'.cycle_count = committed.cycle_count
             /\ committed'.calls = committed.calls + 1 /\ committed'.ended = committed.ended
    <2>1. /\ regs' = r /\ mem' = m /\ Goto("gdb", "unlock")
          /\ committed' = [committed EXCEPT !.regs = r, !.mem = m, !.calls = @ + 1]
          /\ UNCHANGED <<cycle_count, lock, local, main>>
        BY <1>5 DEF HandlerDone
    <2>2. pc'["gdb"] = "unlock" /\ pc'["irq"] = pc["irq"]
        BY <1>1, <2>1, GotoMoves
    <2>3. committed = [regs |-> committed.regs, mem |-> committed.mem,
                       cycle_count |-> committed.cycle_count, calls |-> committed.calls,
                       ended |-> committed.ended]
        BY DEF TypeInv, CommittedTyped
    <2>4. committed' = [regs |-> r, mem |-> m,
                        cycle_count |-> committed.cycle_count, calls |-> committed.calls + 1,
                        ended |-> committed.ended]
        BY <2>1, <2>3
    <2>5. AsCommitted'
        BY <1>5, <2>1, <2>4 DEF AsCommitted
    <2>6. GdbProgress' /\ Peeked'
        BY <2>2, <2>5 DEF GdbProgress, Peeked, EntryLabels
    <2> QED
        BY <1>3, <2>1, <2>2, <2>4, <2>6, GdbShows
<1>6. CASE GdbWriteRegister
    <2>1. PICK p \in RegisterWrites : HandlerDone(RegisterWritten(regs, p), mem)
        BY <1>6 DEF GdbWriteRegister
    <2>2. AsCommitted
        BY <1>3, <1>6 DEF GdbProgress, GdbWriteRegister, At
    <2>3. Core!WriteRegister
        BY <1>3, <1>4, <1>5, <2>1, <2>2 DEF AsCommitted, Core!WriteRegister, Core!Call
    <2> QED
        BY <1>5, <2>1, <2>2, <2>3 DEF AsCommitted, CoreStep, Core!Next, Core!DebuggerWrite
<1>7. CASE GdbWriteGeneral
    <2>1. AsCommitted
        BY <1>3, <1>7 DEF GdbProgress, GdbWriteGeneral, At
    <2>2. PICK p \in GeneralWrites :
                /\ regs' = write_registers(regs, 0..15, p[1])
                /\ local' = [local EXCEPT !["gdb"].cpsr = p[2]]
        BY <1>7 DEF GdbWriteGeneral
    <2>3. p[2] \in Word
        BY ArmCoreAssumption
    <2>4. local'["gdb"].cpsr = p[2] /\ local'["irq"] = local["irq"]
        BY <1>1, <2>2, <2>3, CpsrAssigned DEF TypeInv
    <2>5. Goto("gdb", "writeCpsr") /\ UNCHANGED <<mem, cycle_count, lock, main, committed>>
        BY <1>7 DEF GdbWriteGeneral
    <2>6. pc'["gdb"] = "writeCpsr" /\ pc'["irq"] = pc["irq"]
        BY <1>1, <2>5, GotoMoves
    <2>7. HalfWritten(p)'
        BY <2>1, <2>2, <2>4, <2>5 DEF HalfWritten, AsCommitted
    <2>8. GdbProgress' /\ Peeked'
        BY <2>6, <2>7 DEF GdbProgress, Peeked, EntryLabels
    <2> QED
        BY <1>3, <2>4, <2>5, <2>6, <2>8, GdbShows, CoreStays
<1>8. CASE GdbWriteCpsr
    <2>1. PICK p \in GeneralWrites : HalfWritten(p)
        BY <1>3, <1>8 DEF GdbProgress, GdbWriteCpsr, At
    <2>2. /\ cycle_count = committed.cycle_count
          /\ mem = committed.mem
          /\ write_cpsr(regs, local["gdb"].cpsr) = GeneralWritten(committed.regs, p)
        BY <2>1 DEF HalfWritten, GeneralWritten
    <2>3. HandlerDone(write_cpsr(regs, local["gdb"].cpsr), mem)
        BY <1>8 DEF GdbWriteCpsr
    <2>4. Core!WriteGeneralRegisters
        BY <1>3, <1>4, <1>5, <2>2, <2>3 DEF Core!WriteGeneralRegisters, Core!Call
    <2> QED
        BY <1>5, <2>2, <2>3, <2>4 DEF CoreStep, Core!Next, Core!DebuggerWrite
<1>9. CASE GdbWriteMemory
    <2>1. PICK p \in MemoryWrites : HandlerDone(regs, MemoryWritten(mem, p))
        BY <1>9 DEF GdbWriteMemory
    <2>2. AsCommitted
        BY <1>3, <1>9 DEF GdbProgress, GdbWriteMemory, At
    <2>3. Core!WriteMemory
        BY <1>3, <1>4, <1>5, <2>1, <2>2 DEF AsCommitted, Core!WriteMemory, Core!Call
    <2> QED
        BY <1>5, <2>1, <2>2, <2>3 DEF AsCommitted, CoreStep, Core!Next, Core!DebuggerWrite
<1> QED
    BY <1>6, <1>7, <1>8, <1>9

\* The debugger thread: the writes of a packet are seen at its last, the work of
\* an instruction when arm_step returns or the process dies.
LEMMA GdbProgresses ==
    ASSUME LockInv, TypeInv, CallsCounted, Running, Progress, Gdb
    PROVE  (Running' => Progress') /\ CoreStep
<1> USE DEF gdbWire
<1>1. /\ "irq" \in Threads /\ "gdb" \in Threads /\ Threads \ {"gdb"} = {"irq"}
      /\ pc \in [Threads -> Labels]
    BY DEF Threads, TypeInv, TypeOK
<1>2. ASSUME NEW next, Goto("gdb", next)
      PROVE  pc'["gdb"] = next /\ pc'["irq"] = pc["irq"]
    BY <1>1, <1>2, GotoMoves
<1>3. pc["gdb"] \notin Outside =>
            lock = "gdb" /\ ~Freed /\ GdbProgress /\ Peeked /\ committed.ended = 0
    BY GdbInside
\* A step inside that completes nothing.
<1>4. ASSUME pc["gdb"] \notin Outside, UNCHANGED <<lock, main, committed>>,
             pc'["irq"] = pc["irq"], local'["irq"] = local["irq"],
             GdbProgress' /\ Peeked'
      PROVE  Progress' /\ CoreStep
    BY <1>3, <1>4, GdbShows, CoreStays
<1>5. ASSUME NEW word \in Word, local' = [local EXCEPT !["gdb"].ins = word]
      PROVE  local'["gdb"].ins = word /\ local'["irq"] = local["irq"]
    BY <1>1, <1>5, InsAssigned DEF TypeInv
<1>6. Program \subseteq Word /\ Junk \subseteq Word /\ local["gdb"].ins \in Word
    BY <1>1, ArmCoreAssumption DEF TypeInv, LocalsTyped
<1>7. CASE GdbLock
    <2>1. /\ pc["gdb"] = "lock" /\ lock = "free" /\ lock' = "gdb"
          /\ Goto("gdb", HandlerLabel(packet))
          /\ UNCHANGED <<regs, mem, cycle_count, main, packet, committed>>
        BY <1>7 DEF GdbLock, Lock, At, shared
    <2>2. packet \in Handled
        BY <2>1 DEF LockInv, WaitsForHandler
    <2>3. /\ HandlerLabel(packet) \in {"fetch", "peek", "write", "unlock"}
          /\ HandlerLabel(packet) = "fetch" => packet # "c"
        BY <2>2 DEF HandlerLabel, Handled, PacketKinds
    <2>4. \/ UNCHANGED local
          \/ \E word \in Junk : local' = [local EXCEPT !["gdb"].ins = word]
        BY <1>7 DEF GdbLock
    <2>5. local'["irq"] = local["irq"]
        BY <1>5, <1>6, <2>4
    <2>6. pc'["gdb"] = HandlerLabel(packet) /\ pc'["irq"] = pc["irq"]
        BY <1>2, <2>1
    <2>7. pc["gdb"] # "done" /\ ~Freed /\ committed.ended = 0
        BY <2>1 DEF LockInv, JoinedDone, Freed, Progress
    <2>8. AsCommitted'
        BY <2>1, <2>7 DEF Progress, AsCommitted
    <2>9. GdbProgress' /\ Peeked'
        BY <2>1, <2>3, <2>6, <2>8 DEF GdbProgress, Peeked, EntryLabels
    <2> QED
        BY <2>1, <2>5, <2>6, <2>7, <2>9, GdbShows, CoreStays
<1>8. CASE GdbUnlock
    <2>1. /\ pc["gdb"] = "unlock" /\ lock' = "free" /\ Goto("gdb", "scan")
          /\ local' = [local EXCEPT !["gdb"] = NoLocals]
          /\ UNCHANGED <<regs, mem, cycle_count, main, committed>>
        BY <1>8 DEF GdbUnlock, At, shared
    <2>2. ~Freed /\ AsCommitted /\ committed.ended = 0
        BY <1>3, <2>1 DEF GdbProgress, Outside
    <2>3. AsCommitted'
        BY <2>1, <2>2 DEF AsCommitted
    <2>4. local'["irq"] = local["irq"]
        BY <1>1, <2>1, LocalsReset DEF TypeInv
    <2>5. pc'["irq"] = pc["irq"]
        BY <1>2, <2>1
    <2> QED
        BY <2>1, <2>2, <2>3, <2>4, <2>5, GdbShows, CoreStays
<1>9. CASE GdbPeek
    <2>1. /\ pc["gdb"] = "peek"
          /\ UNCHANGED <<regs, mem, cycle_count, lock, main, packet, committed>>
        BY <1>9 DEF GdbPeek, At, shared
    <2>2. AsCommitted
        BY <1>3, <2>1 DEF GdbProgress, Outside
    <2>3. PICK ins \in IF Access(FetchAddress(regs), 4) = 0 THEN Program ELSE {local["gdb"].ins} :
            /\ local' = [local EXCEPT !["gdb"].ins = ins]
            /\ Goto("gdb", IF IsBreakpoint(ins) THEN "unlock" ELSE "fetch")
        BY <1>9 DEF GdbPeek
    <2>4. local'["gdb"].ins = ins /\ local'["irq"] = local["irq"]
        BY <1>5, <1>6, <2>3
    <2>5. pc'["gdb"] \in {"unlock", "fetch"} /\ pc'["irq"] = pc["irq"]
        BY <1>2, <2>3
    <2>6. AsCommitted'
        BY <2>1, <2>2 DEF AsCommitted
    <2>7. Peeked'
        BY <2>1, <2>3, <2>4 DEF Peeked
    <2>8. GdbProgress'
        BY <2>5, <2>6 DEF GdbProgress, EntryLabels
    <2>9. pc["gdb"] \notin Outside
        BY <2>1 DEF Outside
    <2> QED
        BY <1>4, <2>1, <2>4, <2>5, <2>7, <2>8, <2>9
<1>10. CASE GdbFetch
    <2>1. /\ pc["gdb"] = "fetch" /\ cycle_count < MaxCycles
          /\ Access(FetchAddress(regs), 4) # SEGV
          /\ cycle_count' = (cycle_count + 1) % CycleWrap
          /\ regs' = AfterFetch(regs)
          /\ UNCHANGED <<mem, lock, main, committed>>
        BY <1>10 DEF GdbFetch, At
    <2>2. AsCommitted /\ Peeked
        BY <1>3, <2>1 DEF GdbProgress, Outside
    <2>3. PICK ins \in IF packet = "c" THEN {local["gdb"].ins} ELSE Program :
            local' = [local EXCEPT !["gdb"].ins = ins]
        BY <1>10 DEF GdbFetch
    <2>4. local'["gdb"].ins = ins /\ local'["irq"] = local["irq"]
        BY <1>5, <1>6, <2>3
    <2>5. Counted'
        BY <2>1, <2>2 DEF Counted, AsCommitted
    <2>6. pc["gdb"] \notin Outside
        BY <2>1 DEF Outside
    <2>7. CASE Access(FetchAddress(regs), 4) = FAULT
        <3>1. pc'["gdb"] = "abort" /\ pc'["irq"] = pc["irq"]
            BY <1>2, <1>10, <2>7 DEF GdbFetch
        <3>2. PICK word \in Program, junk \in JunkLocals : TRUE
            <4>1. PICK j \in Junk : TRUE
                BY ArmCoreAssumption
            <4>2. [address |-> j, word |-> j] \in JunkLocals
                BY DEF JunkLocals
            <4> QED
                BY <4>2, ArmCoreAssumption
        <3>3. arm_execute_instruction(committed.regs, committed.mem, word, junk) =
                    Outcome(AfterFetch(committed.regs), committed.mem, PREFETCH_ABORT)
            BY <2>2, <2>7 DEF AsCommitted, arm_execute_instruction, SEGV, FAULT
        <3>4. PICK done \in Outcomes :
                    done = Outcome(AfterFetch(committed.regs), committed.mem, PREFETCH_ABORT)
            BY <3>2, <3>3 DEF Outcomes
        <3>5. /\ done.regs = regs' /\ done.mem = mem' /\ done.result = PREFETCH_ABORT
              /\ done \in Outcomes'
            BY <2>1, <2>2, <3>4, OutcomeFields DEF AsCommitted, Outcomes
        <3>6. Ran(done)'
            BY <2>5, <3>1, <3>5
            DEF Ran, EntryLabels, PREFETCH_ABORT, ProcessEnds, EXIT, ABORT, SEGV
        <3>7. GdbProgress' /\ Peeked'
            BY <3>1, <3>5, <3>6 DEF GdbProgress, Peeked, EntryLabels
        <3> QED
            BY <1>4, <2>1, <2>4, <2>6, <3>1, <3>7
    <2>8. CASE Access(FetchAddress(regs), 4) # FAULT
        <3>1. pc'["gdb"] = "execute" /\ pc'["irq"] = pc["irq"]
            BY <1>2, <1>10, <2>8 DEF GdbFetch
        <3>2. Access(FetchAddress(regs), 4) = 0
            BY <2>1, <2>8 DEF Access
        <3>3. ins \in Program
            BY <2>1, <2>2, <2>3, <3>2 DEF Peeked
        <3>4. Fetched'
            BY <2>1, <2>2, <2>4, <2>5, <3>2, <3>3 DEF Fetched, AsCommitted
        <3>5. GdbProgress' /\ Peeked'
            BY <3>1, <3>4 DEF GdbProgress, Peeked, EntryLabels
        <3> QED
            BY <1>4, <2>1, <2>4, <2>6, <3>1, <3>5
    <2> QED
        BY <2>7, <2>8
<1>11. CASE GdbFetchDies
    <2>1. /\ pc["gdb"] \in {"fetch", "peek"} /\ cycle_count < MaxCycles
          /\ Access(FetchAddress(regs), 4) = SEGV
          /\ ended' = SEGV
          /\ committed' = [committed EXCEPT !.ended = SEGV,
                                !.cycle_count = (cycle_count + 1) % CycleWrap]
        BY <1>11 DEF GdbFetchDies, ProcessDies, At
    <2>2. AsCommitted /\ committed.ended = 0
        BY <1>3, <2>1 DEF GdbProgress, Outside
    <2>3. PICK word \in Program, junk \in JunkLocals : TRUE
        <3>1. PICK j \in Junk : TRUE
            BY ArmCoreAssumption
        <3>2. [address |-> j, word |-> j] \in JunkLocals
            BY DEF JunkLocals
        <3> QED
            BY <3>2, ArmCoreAssumption
    <2>4. arm_execute_instruction(committed.regs, committed.mem, word, junk) =
                Outcome(committed.regs, committed.mem, SEGV)
        BY <2>1, <2>2 DEF AsCommitted, arm_execute_instruction, SEGV, FAULT
    <2>5. PICK done \in Outcomes : done = Outcome(committed.regs, committed.mem, SEGV)
        BY <2>3, <2>4 DEF Outcomes
    <2>6. done.result = SEGV
        BY <2>5, OutcomeFields
    <2>7. /\ committed'.ended = SEGV /\ committed'.regs = committed.regs
          /\ committed'.mem = committed.mem /\ committed'.calls = committed.calls
          /\ committed'.cycle_count = (committed.cycle_count + 1) % CycleWrap
        BY <2>1, <2>2 DEF TypeInv, CommittedTyped, AsCommitted
    <2>8. CoreStep
        BY <2>1, <2>2, <2>6, <2>7, StepOfCore DEF AsCommitted, ProcessEnds
    <2> QED
        BY <2>1, <2>8 DEF Running, SEGV
<1>12. ASSUME pc["gdb"] \notin Outside, NEW done \in Outcomes, Counted,
              done.result \notin ProcessEnds, mem = done.mem, regs = done.regs,
              NEW e, e = done.result, BeginException("gdb", e, "stepped"),
              UNCHANGED <<shared, lock, main, packet, committed>>
       PROVE  Progress' /\ CoreStep
    <2>1. UNCHANGED <<regs, mem, cycle_count>>
        BY <1>12 DEF shared
    <2>2. PICK r : r = done.regs
        OBVIOUS
    <2>3. /\ pc'["irq"] = pc["irq"] /\ local'["irq"] = local["irq"]
          /\ \/ pc'["gdb"] \in EntryLabels /\ Entering("gdb", r, e)'
             \/ pc'["gdb"] = "stepped" /\ regs' = arm_exception(regs, e)
        BY <1>1, <1>12, <2>1, <2>2, EntryBegins
    <2>4. Counted' /\ done \in Outcomes'
        BY <1>12, <2>1 DEF Counted, Outcomes
    <2>5. Ran(done)'
        BY <1>12, <2>1, <2>2, <2>3, <2>4 DEF Ran, EntryLabels, Entering
    <2>6. GdbProgress' /\ Peeked'
        BY <2>3, <2>4, <2>5 DEF GdbProgress, Peeked, EntryLabels
    <2> QED
        BY <1>4, <1>12, <2>3, <2>6
<1>13. CASE GdbPrefetchAbort
    <2>1. /\ pc["gdb"] = "abort" /\ BeginException("gdb", PREFETCH_ABORT, "stepped")
          /\ UNCHANGED <<shared, lock, main, packet, committed>>
        BY <1>13 DEF GdbPrefetchAbort, At
    <2>2. pc["gdb"] \notin Outside
        BY <2>1 DEF Outside
    <2>3. PICK done \in Outcomes : Ran(done)
        BY <1>3, <2>1, <2>2 DEF GdbProgress
    <2>4. /\ regs = done.regs /\ done.result = PREFETCH_ABORT /\ mem = done.mem /\ Counted
          /\ done.result \notin ProcessEnds
        BY <2>1, <2>3 DEF Ran
    <2> QED
        BY <1>12, <2>1, <2>2, <2>4
<1>14. CASE GdbException
    <2>1. /\ pc["gdb"] = "executed" /\ BeginException("gdb", local["gdb"].result, "stepped")
          /\ UNCHANGED <<shared, lock, main, packet, committed>>
        BY <1>14 DEF GdbException, At
    <2>2. pc["gdb"] \notin Outside
        BY <2>1 DEF Outside
    <2>3. PICK done \in Outcomes : Ran(done)
        BY <1>3, <2>1, <2>2 DEF GdbProgress
    <2>4. /\ regs = done.regs /\ done.result = local["gdb"].result /\ mem = done.mem /\ Counted
          /\ done.result \notin ProcessEnds
        BY <2>1, <2>3 DEF Ran
    <2>5. PICK e : e = done.result
        OBVIOUS
    <2>6. BeginException("gdb", e, "stepped")
        BY <2>1, <2>4, <2>5
    <2> QED
        BY <1>12, <2>1, <2>2, <2>4, <2>5, <2>6
<1>15. CASE GdbExecute
    <2>1. pc["gdb"] = "execute"
        BY <1>15 DEF GdbExecute, At
    <2>2. pc["gdb"] \notin Outside
        BY <2>1 DEF Outside
    <2>3. Fetched /\ committed.ended = 0
        BY <1>3, <2>1, <2>2 DEF GdbProgress
    <2>4. PICK junk \in JunkLocals :
            LET done == Execute(regs, mem, local["gdb"].ins, junk)
            IN  IF done.result \in ProcessEnds
                THEN ProcessDies(done.result, cycle_count)
                ELSE /\ regs' = done.regs
                     /\ mem' = done.mem
                     /\ local' = [local EXCEPT !["gdb"].result = done.result]
                     /\ Goto("gdb", "executed")
                     /\ UNCHANGED <<cycle_count, lock, main, ended, irqWire, gdbWire, committed>>
        BY <1>15 DEF GdbExecute, JunkLocals
    <2>5. Execute(regs, mem, local["gdb"].ins, junk) =
            arm_execute_instruction(committed.regs, committed.mem, local["gdb"].ins, junk)
        BY <2>3 DEF Fetched, arm_execute_instruction, SEGV, FAULT
    <2>6. PICK done \in Outcomes : done = Execute(regs, mem, local["gdb"].ins, junk)
        BY <2>3, <2>5 DEF Fetched, Outcomes
    <2>7. CASE done.result \in ProcessEnds
        <3>1. /\ ended' = done.result
              /\ committed' = [committed EXCEPT !.ended = done.result,
                                                !.cycle_count = cycle_count]
            BY <2>4, <2>6, <2>7 DEF ProcessDies
        <3>2. /\ committed'.ended = done.result /\ committed'.regs = committed.regs
              /\ committed'.mem = committed.mem /\ committed'.calls = committed.calls
              /\ committed'.cycle_count = (committed.cycle_count + 1) % CycleWrap
            BY <2>3, <3>1 DEF TypeInv, CommittedTyped, Fetched, Counted
        <3>3. CoreStep
            BY <2>3, <2>7, <3>2, StepOfCore DEF Fetched, Counted
        <3>4. ended' # 0
            BY <2>7, <3>1 DEF ProcessEnds, EXIT, ABORT, SEGV
        <3> QED
            BY <3>3, <3>4 DEF Running
    <2>8. CASE done.result \notin ProcessEnds
        <3>1. /\ regs' = done.regs /\ mem' = done.mem
              /\ local' = [local EXCEPT !["gdb"].result = done.result]
              /\ Goto("gdb", "executed")
              /\ UNCHANGED <<cycle_count, lock, main, committed>>
            BY <2>4, <2>6, <2>8
        <3>2. local'["gdb"].result = done.result /\ local'["irq"] = local["irq"]
            BY <1>1, <3>1, ResultAssigned DEF TypeInv
        <3>3. pc'["gdb"] = "executed" /\ pc'["irq"] = pc["irq"]
            BY <1>2, <3>1
        <3>4. Counted' /\ done \in Outcomes'
            BY <2>3, <3>1 DEF Fetched, Counted, Outcomes
        <3>5. Ran(done)'
            BY <2>8, <3>1, <3>2, <3>3, <3>4 DEF Ran, EntryLabels
        <3>6. GdbProgress' /\ Peeked'
            BY <3>3, <3>4, <3>5 DEF GdbProgress, Peeked, EntryLabels
        <3> QED
            BY <1>4, <2>2, <3>1, <3>2, <3>3, <3>6
    <2> QED
        BY <2>7, <2>8
<1>16. CASE GdbStepped
    <2>1. /\ pc["gdb"] = "stepped" /\ Commit(0)
          /\ Goto("gdb", "peek") \/ Goto("gdb", "unlock")
          /\ UNCHANGED <<regs, mem, cycle_count, lock, local, main, ended>>
        BY <1>16 DEF GdbStepped, At, shared
    <2>2. pc["gdb"] \notin Outside
        BY <2>1 DEF Outside
    <2>3. PICK done \in Outcomes : Ran(done)
        BY <1>3, <2>1, <2>2 DEF GdbProgress
    <2>4. /\ Counted /\ done.result \notin ProcessEnds /\ mem = done.mem
          /\ regs = arm_exception(done.regs, done.result)
        BY <2>1, <2>3 DEF Ran
    <2>5. /\ committed'.regs = regs /\ committed'.mem = mem
          /\ committed'.cycle_count = cycle_count
          /\ committed'.calls = committed.calls /\ committed'.ended = 0
        BY <2>1, CountsAreNumbers DEF Commit, Running
    <2>6. CoreStep
        BY <1>3, <2>2, <2>4, <2>5, StepOfCore DEF Counted
    <2>7. AsCommitted'
        BY <2>1, <2>5 DEF AsCommitted
    <2>8. pc'["gdb"] \in {"peek", "unlock"} /\ pc'["irq"] = pc["irq"]
        BY <1>2, <2>1
    <2>9. GdbProgress' /\ Peeked'
        BY <2>7, <2>8 DEF GdbProgress, Peeked, EntryLabels
    <2> QED
        BY <1>3, <2>1, <2>2, <2>5, <2>6, <2>8, <2>9, GdbShows
<1>17. CASE TakeException("gdb")
    <2>1. pc["gdb"] \in EntryLabels
        BY <1>17 DEF TakeException, WriteCpsr, WriteSp, WriteLr, WriteSpsr, Branch,
            ExceptionWrite, At, EntryLabels
    <2>2. pc["gdb"] \notin Outside
        BY <2>1 DEF Outside, EntryLabels
    <2>3. PICK done \in Outcomes : Ran(done)
        BY <1>3, <2>1, <2>2 DEF GdbProgress
    <2>4. PICK r, e : r = done.regs /\ e = done.result
        OBVIOUS
    <2>5. Entering("gdb", r, e)
        BY <2>1, <2>3, <2>4 DEF Ran
    <2>6. /\ UNCHANGED <<mem, cycle_count, lock, local, main, committed>>
          /\ pc'["irq"] = pc["irq"]
          /\ \/ pc'["gdb"] \in EntryLabels /\ Entering("gdb", r, e)'
             \/ pc'["gdb"] = "stepped" /\ regs' = arm_exception(r, e)
        BY <1>1, <1>17, <2>5, EntryMoves
    <2>7. Counted' /\ done \in Outcomes'
        BY <2>3, <2>6 DEF Ran, Counted, Outcomes
    <2>8. Ran(done)'
        BY <2>3, <2>4, <2>6, <2>7 DEF Ran, EntryLabels, Entering
    <2>9. GdbProgress' /\ Peeked'
        BY <2>6, <2>7, <2>8 DEF GdbProgress, Peeked, EntryLabels
    <2> QED
        BY <1>4, <2>2, <2>6, <2>9
<1> QED
    BY <1>7, <1>8, <1>9, <1>10, <1>11, <1>13, <1>14, <1>15, <1>16, <1>17, WritesProgress DEF Gdb

\* main, the clients and the debugger touch no core in use.
LEMMA MainAndEnvironmentProgress ==
    ASSUME LockInv, TypeInv, Running, Progress, Main \/ Environment
    PROVE  (Running' => Progress') /\ CoreStep
<1> USE DEF irqWire, gdbWire
<1>1. /\ "irq" \in Threads /\ "gdb" \in Threads /\ Threads \ {"gdb"} = {"irq"}
      /\ pc \in [Threads -> Labels]
    BY DEF Threads, TypeInv, TypeOK
<1>2. ASSUME pc["gdb"] \in Outside, pc'["irq"] = pc["irq"],
             UNCHANGED <<shared, lock, local, main, committed>>
      PROVE  Progress' /\ CoreStep
    <2>1. ByteRead'
        BY <1>2 DEF Progress, ByteRead
    <2> QED
        BY <1>1, <1>2, <2>1, OutsideProgresses
<1>3. ASSUME NEW next, Goto("gdb", next)
      PROVE  pc'["irq"] = pc["irq"]
    BY <1>1, <1>3, GotoMoves
\* Steps that leave the threads and the core alone.
<1>4. ASSUME UNCHANGED <<shared, lock, pc, local, packet, committed>>,
             Freed => Freed'
      PROVE  Progress' /\ CoreStep
    <2>1. UNCHANGED <<regs, mem, cycle_count>>
        BY <1>4 DEF shared
    <2>2. /\ ByteRead' <=> ByteRead
          /\ AsCommitted' <=> AsCommitted
          /\ IrqProgress' <=> IrqProgress
          /\ Peeked' <=> Peeked
        BY <1>4, <2>1 DEF ByteRead, AsCommitted, IrqProgress, Entering, Peeked
    <2>3. /\ Fetched' <=> Fetched
          /\ Outcomes' = Outcomes
          /\ \A p : HalfWritten(p)' <=> HalfWritten(p)
          /\ \A done : Ran(done)' <=> Ran(done)
        BY <1>4, <2>1 DEF Fetched, Counted, Outcomes, HalfWritten, Ran, Entering
    <2>4. GdbProgress' <=> GdbProgress
        BY <1>4, <2>2, <2>3 DEF GdbProgress
    <2> QED
        BY <1>4, <2>2, <2>4, CoreStays DEF Progress
<1>5. CASE Main
    <2>1. UNCHANGED <<shared, lock, pc, local, packet, committed>>
        BY <1>5 DEF Main, MainJoin, ArmDestroy, MemoryDestroy, MainReturn, MainGoto
    <2>2. Freed => Freed'
        BY <1>5 DEF Main, MainJoin, ArmDestroy, MemoryDestroy, MainReturn, MainGoto, Freed
    <2> QED
        BY <1>4, <2>1, <2>2
<1>6. CASE Connect
    BY <1>4, <1>6 DEF Connect, Freed
<1>7. CASE GdbAccept
    BY <1>2, <1>3, <1>7 DEF GdbAccept, At, Outside
<1>8. CASE GdbReceive
    <2>1. UNCHANGED pc \/ Goto("gdb", "lock")
        BY <1>8 DEF GdbReceive
    <2> QED
        BY <1>2, <1>3, <1>8, <2>1 DEF GdbReceive, At, Outside
<1>9. CASE GdbEof
    BY <1>2, <1>3, <1>9 DEF GdbEof, At, Outside
<1> QED
    BY <1>5, <1>6, <1>7, <1>8, <1>9 DEF Environment

\* Nothing moves once the process has ended.
LEMMA NextRuns ==
    ASSUME Next
    PROVE  Running
BY DEF Next, Irq, IrqAccept, IrqRead, IrqLock, IrqException, IrqDangling, IrqUnlock, Lock, At,
    TakeException, WriteCpsr, WriteSp, WriteLr, WriteSpsr, Branch, ExceptionWrite,
    Gdb, GdbLock, GdbUnlock, GdbWriteRegister, GdbWriteGeneral, GdbWriteCpsr, GdbWriteMemory,
    GdbPeek, GdbFetch, GdbFetchDies, GdbPrefetchAbort, GdbExecute, GdbException, GdbStepped,
    Main, MainJoin, ArmDestroy, MemoryDestroy, MainReturn, MainGoto,
    Environment, Connect, GdbAccept, GdbReceive, GdbEof

---------------------------------------------------------------------------
(* The theorems.                                                           *)

\* The process starts well typed, with nothing counted, at a new core.
LEMMA WorkInit ==
    ASSUME Init
    PROVE  WorkInv /\ Core!Init
<1>1. LockInv
    BY DEF Init, LockInv, Places, HolderWorks, Working, WaitsForHandler, JoinedDone,
           Threads, Labels, Outside
<1>2. /\ regs \in Created /\ mem \in InitialMemories
      /\ MaxCycles \in Nat /\ MaxClients \in Nat /\ MaxPackets \in Nat /\ MaxBytes \in Nat
    BY ArmCoreAssumption, SimulatorAssumption DEF Init
<1>3. regs \in RegisterFile /\ mem \in MemoryContent
    BY <1>2, CreateTyped, ArmCoreAssumption DEF Created
<1>4. TypeOK
    BY <1>1, <1>2, <1>3 DEF Init, TypeOK, LockInv, Places
<1>5. CommittedTyped
    BY <1>2, <1>3 DEF Init, CommittedTyped
<1>6. LocalsTyped /\ ExceptionNamed
    <2>1. Shaped(NoLocals)
          /\ {NoLocals.ins, NoLocals.sp, NoLocals.addr, NoLocals.cpsr} \subseteq Word
        BY DEF NoLocals, Shaped, Word
    <2>2. local = [t \in Threads |-> NoLocals] /\ \A t \in Threads : pc[t] = "accept"
        BY DEF Init, Threads
    <2> QED
        BY <2>1, <2>2 DEF LocalsTyped, ExceptionNamed, EntryLabels
<1>7. CallsCounted
    <2>1. backlog = <<>> /\ unread = <<>> /\ clients = 0 /\ packets = 0 /\ committed.calls = 0
        BY DEF Init
    <2>2. HoldsByte = 0 /\ HoldsWrite = 0
        BY DEF Init, HoldsByte, HoldsWrite
    <2>3. 0 * MaxBytes = 0
        BY <1>2
    <2>4. /\ backlog \in Seq(Clients) /\ unread \in Seq(Irqs)
          /\ Len(unread) = 0 /\ Len(backlog) = 0
        BY <2>1
    <2> QED
        BY <1>2, <2>1, <2>2, <2>3, <2>4 DEF CallsCounted
<1>8. Progress
    BY DEF Init, Progress, ByteRead, AsCommitted
<1>9. Core!Init
    BY <1>2 DEF Init, Core!Init
<1> QED
    BY <1>1, <1>4, <1>5, <1>6, <1>7, <1>8, <1>9 DEF WorkInv, TypeInv

\* Every step keeps the invariant and is a step of the core, or none.
LEMMA WorkStep ==
    ASSUME WorkInv, [Next]_vars
    PROVE  WorkInv' /\ CoreStep
<1>1. CASE UNCHANGED vars
    <2>1. LockInv'
        BY <1>1, StillKeeps DEF vars, WorkInv
    <2>2. TypeInv'
        BY <1>1 DEF vars, shared, WorkInv, TypeInv, TypeOK, LocalsTyped, ExceptionNamed,
            CommittedTyped
    <2>3. CallsCounted'
        BY <1>1 DEF vars, irqWire, gdbWire, WorkInv, CallsCounted, HoldsByte, HoldsWrite
    <2>4. UNCHANGED <<regs, mem, cycle_count, lock, pc, local, main, ended, packet, committed>>
        BY <1>1 DEF vars, shared, gdbWire
    <2>5. /\ Fetched' <=> Fetched
          /\ Outcomes' = Outcomes
          /\ \A p : HalfWritten(p)' <=> HalfWritten(p)
          /\ \A done : Ran(done)' <=> Ran(done)
        BY <2>4 DEF Fetched, Counted, Outcomes, HalfWritten, Ran, Entering
    <2>6. GdbProgress' <=> GdbProgress
        BY <2>4, <2>5 DEF GdbProgress, AsCommitted
    <2>7. Progress' <=> Progress
        BY <2>4, <2>6 DEF Progress, ByteRead, AsCommitted, IrqProgress, Entering, Peeked, Freed
    <2> QED
        BY <2>1, <2>2, <2>3, <2>4, <2>7, CoreStays DEF WorkInv, Running
<1>2. CASE Next
    <2>1. LockInv /\ TypeInv /\ CallsCounted /\ Running /\ Progress
        BY <1>2, NextRuns DEF WorkInv
    <2>2. LockInv'
        BY <1>2, <2>1, IrqKeeps, GdbKeeps, MainKeeps, EnvironmentKeeps DEF Next
    <2>3. TypeInv'
        BY <1>2, <2>1, <2>2, IrqTyped, GdbTyped, MainAndEnvironmentTyped DEF Next
    <2>4. CallsCounted'
        BY <1>2, <2>1, <2>3, IrqCounted, GdbCounted, MainAndEnvironmentCounted DEF Next
    <2>5. (Running' => Progress') /\ CoreStep
        BY <1>2, <2>1, IrqProgresses, GdbProgresses, MainAndEnvironmentProgress DEF Next
    <2> QED
        BY <2>2, <2>3, <2>4, <2>5 DEF WorkInv
<1> QED
    BY <1>1, <1>2

\* The invariant holds in every reachable state.
LEMMA WorkInvariant == Spec => []WorkInv
BY WorkInit, WorkStep, PTL DEF Spec

\* Type correctness of the process: the core, the locals of the threads and the
\* counters stay what they are, whatever the program, the clients and the
\* debugger do.
THEOREM SimulatorTyped == Spec => []TypeOK
<1>1. WorkInv => TypeOK
    BY DEF WorkInv, TypeInv
<1> QED
    BY WorkInvariant, <1>1, PTL

\* Atomicity: gdb_packet_analysis and irq_listener hold the mutex around their
\* whole operation, so that with every interleaving of their writes the core goes
\* through instructions, exceptions and packets one at a time.
THEOREM CoreAtomic == Spec => Atomicity
<1>1. Init => Core!Init
    BY WorkInit
<1>2. WorkInv /\ [Next]_vars => [Core!Next]_(Core!vars)
    BY WorkStep DEF CoreStep
<1> QED
    BY WorkInvariant, <1>1, <1>2, PTL DEF Spec, Atomicity, Core!Spec

=============================================================================
