----------------------------- MODULE Diagnostics -----------------------------
(***************************************************************************)
(* The options of main, and what they turn on: trace.c with the macros of  *)
(* trace_location.h, and the table of debug.c (DebugFiles).                *)
(*                                                                         *)
(* A source line that accesses the core puts its position on a stack,      *)
(* makes the access, which prints a line with the position on top, and     *)
(* takes it off again.  An access may be an argument of another.  The      *)
(* stack and the switch are static data of trace.c: what keeps the threads *)
(* apart is the lock of the core, and only that.                           *)
(***************************************************************************)
EXTENDS DebugFiles

CONSTANTS
    Names,          \* the names --debug may give, as numbers
    MaxOptions,     \* bound: options on the command line
    MaxNesting,     \* 2: accesses that are arguments of each other in the source
    MaxAccesses,    \* bound: accesses between two releases of the lock
    StackSize,      \* 128: the entries of location_file_stack
    Nowhere         \* no position

Threads == {"main", "gdb", "irq"}

ASSUME DiagnosticsAssumption ==
    /\ Names \subseteq Nat
    /\ MaxOptions \in Nat
    /\ MaxNesting \in Nat
    /\ MaxAccesses \in Nat
    /\ StackSize \in Nat /\ MaxNesting <= StackSize
    /\ \A t \in Threads, n \in 0..MaxAccesses : <<t, n>> # Nowhere

VARIABLES
    main,       \* where main is: "options", "create", "run", or "exit"
    options,    \* options read so far
    asked,      \* history: the names given to --debug
    files,      \* debugged_files with nb_debugged_files
    flags,      \* trace_flags
    enabled,    \* of trace.c
    top,        \* location_stack_top
    stack,      \* location_file_stack with location_line_stack
    lock,       \* shared.lock: its holder, or "free"
    open,       \* the accesses each thread is inside of, the innermost last
    accesses,   \* accesses since the lock was taken
    printed     \* history: the last line, with the access that made it

vars == <<main, options, asked, files, flags, enabled, top, stack,
          lock, open, accesses, printed>>

command == <<main, options, asked, files, flags>>
location == <<enabled, top, stack>>
threads == <<lock, open, accesses>>

Flags == {"REGISTERS", "MEMORY", "STATE", "POSITION"}
NoLine == [position |-> "own", write |-> FALSE]

Init ==
    /\ main = "options" /\ options = 0
    /\ asked = {} /\ files = <<>> /\ flags = {}
    /\ enabled = TRUE /\ top = -1 /\ stack = <<>>
    /\ lock = "free" /\ open = [t \in Threads |-> <<>>] /\ accesses = 0
    /\ printed = NoLine

---------------------------------------------------------------------------
(* main: getopt_long, then the initialisations.                            *)

Option ==
    /\ main = "options"
    /\ options < MaxOptions
    /\ options' = options + 1
    /\ UNCHANGED <<location, threads, printed>>

trace_add ==
    /\ Option
    /\ \E flag \in Flags : flags' = flags \cup {flag}
    /\ UNCHANGED <<main, asked, files>>

OptionDebug ==
    /\ Option
    /\ \E name \in Names : files' = add_debug_to(files, name) /\ asked' = asked \cup {name}
    /\ UNCHANGED <<main, flags>>

\* --help, an option that is unknown, a trace file that cannot be opened.
OptionEnds ==
    /\ Option
    /\ main' = "exit"
    /\ UNCHANGED <<asked, files, flags>>

\* gdb_init and arm_init access nothing; then arm_create does.
Initialise ==
    /\ main = "options"
    /\ main' = "create"
    /\ UNCHANGED <<options, asked, files, flags, location, threads, printed>>

\* arm_create has returned, and main starts the threads.
CreateThreads ==
    /\ main = "create"
    /\ open["main"] = <<>> /\ accesses > 0
    /\ main' = "run"
    /\ accesses' = 0
    /\ UNCHANGED <<options, asked, files, flags, location, lock, open, printed>>

---------------------------------------------------------------------------
(* The threads: arm_create in main, the handlers of the debugger and the   *)
(* exceptions of the interrupt thread, both under the lock.                *)

\* Mutant: the interrupt thread does not take the lock.
MayAccessAlways(t) == IF t = "main" THEN main = "create" ELSE main = "run" /\ lock \in {t, "gdb"}

MayAccess(t) == IF t = "main" THEN main = "create" ELSE main = "run" /\ lock = t

Lock(t) ==
    /\ main = "run" /\ t # "main"
    /\ lock = "free"
    /\ lock' = t
    /\ accesses' = 0
    /\ UNCHANGED <<command, location, open, printed>>

\* A handler returns with the trace on.
Unlock(t) ==
    /\ lock = t
    /\ open[t] = <<>> /\ enabled
    /\ lock' = "free"
    /\ UNCHANGED <<command, location, open, accesses, printed>>

\* cont, g, G, p and P access the core for the debugger, without a trace.
trace_disable ==
    /\ lock = "gdb" /\ open["gdb"] = <<>>
    /\ enabled /\ enabled' = FALSE
    /\ UNCHANGED <<command, top, stack, threads, printed>>

trace_enable ==
    /\ lock = "gdb" /\ open["gdb"] = <<>>
    /\ ~enabled /\ enabled' = TRUE
    /\ UNCHANGED <<command, top, stack, threads, printed>>

Inner(t) == open[t][Len(open[t])]
\* The innermost access is over when it was made and its position is off.
Over(access) == access.made /\ access.left
Mark(t, field) ==
    LET access == [Inner(t) EXCEPT ![field] = TRUE]
    IN  open' = [open EXCEPT ![t] =
                    IF Over(access) THEN Front(@) ELSE [@ EXCEPT ![Len(@)] = access]]

\* LOCATION: of an access, or of one in the arguments of an access.
trace_start_location(t) ==
    /\ MayAccess(t)
    /\ accesses < MaxAccesses
    /\ Len(open[t]) < MaxNesting
    /\ open[t] # <<>> => ~Inner(t).made
    /\ accesses' = accesses + 1
    /\ \E write \in BOOLEAN :
            open' = [open EXCEPT ![t] =
                        Append(@, [place |-> <<t, accesses>>, write |-> write,
                                   made |-> FALSE, left |-> FALSE])]
    /\ IF enabled
       THEN top' = top + 1 /\ stack' = Append(stack, <<t, accesses>>)
       ELSE UNCHANGED <<top, stack>>
    /\ UNCHANGED <<command, enabled, lock, printed>>

\* Mutant: the position is taken off although the trace is disabled.
PoppedAlways == TRUE

Popped == enabled

\* END_LOCATION: after a write; before or after a read, which are operands of
\* one "+".
trace_end_location(t) ==
    /\ MayAccess(t)
    /\ open[t] # <<>>
    /\ ~Inner(t).left
    /\ Inner(t).write => Inner(t).made
    /\ Mark(t, "left")
    /\ IF Popped
       THEN top' = top - 1 /\ stack' = SubSeq(stack, 1, top)
       ELSE UNCHANGED <<top, stack>>
    /\ UNCHANGED <<command, enabled, lock, accesses, printed>>

\* Mutant: the position under the top is printed.
LocationBelow == IF top >= 1 THEN stack[top] ELSE IF top = 0 THEN stack[1] ELSE Nowhere

\* trace_print_location
Location == IF top >= 0 THEN stack[top + 1] ELSE Nowhere

\* Whose position is printed for the access a thread makes.
Whose(t) ==
    CASE Location = Inner(t).place -> "own"
      [] \E i \in 1..(Len(open[t]) - 1) : Location = open[t][i].place -> "outer"
      [] Location = Nowhere -> "none"
      [] OTHER -> "other"

\* trace_register and trace_memory
Prints(kind, position, write) ==
    printed' = IF enabled /\ {kind, "POSITION"} \subseteq flags
               THEN [position |-> position, write |-> write]
               ELSE printed

\* The access itself, once its arguments are there.
Access(t) ==
    /\ MayAccess(t)
    /\ open[t] # <<>>
    /\ ~Inner(t).made
    /\ Mark(t, "made")
    /\ \E kind \in {"REGISTERS", "MEMORY"} : Prints(kind, Whose(t), Inner(t).write)
    /\ UNCHANGED <<command, location, lock, accesses>>

\* trace_arm_state: arm_core.c reads the registers without the macros.
trace_arm_state ==
    /\ lock = "gdb" /\ open["gdb"] = <<>>
    /\ "STATE" \in flags
    /\ Prints("REGISTERS", IF Location = Nowhere THEN "none" ELSE "other", FALSE)
    /\ UNCHANGED <<command, location, threads>>

Next ==
    \/ trace_add \/ OptionDebug \/ OptionEnds \/ Initialise \/ CreateThreads
    \/ trace_disable \/ trace_enable \/ trace_arm_state
    \/ \E t \in Threads : \/ Lock(t) \/ Unlock(t)
                          \/ trace_start_location(t) \/ trace_end_location(t) \/ Access(t)

Spec == Init /\ [][Next]_vars

---------------------------------------------------------------------------
(* Properties.                                                             *)

\* __is_debugged against add_debug_to: as long as there were not more names than
\* entries, a file is debugged just when it was asked for.
SearchFindsAsked ==
    options <= MAX_FILES_NUMBER =>
        /\ ~Overrun(files)
        /\ \A name \in Names : __is_debugged(files, name) <=> name \in asked

\* trace_start_location and trace_end_location: the positions on the stack are
\* those of the accesses the thread at work is inside of and has not taken off,
\* in the order they were begun; in particular it is empty whenever the lock is
\* free, and never deeper than the accesses of the source are nested.
Kept(t) == {i \in DOMAIN open[t] : ~open[t][i].left}
Rank(places, i) == Cardinality({j \in places : j <= i})
AtWork == IF main = "create" THEN "main" ELSE lock
StackMatches ==
    IF AtWork \in Threads /\ enabled
    THEN /\ top + 1 = Cardinality(Kept(AtWork))
         /\ Len(stack) = top + 1
         /\ \A i \in Kept(AtWork) : stack[Rank(Kept(AtWork), i)] = open[AtWork][i].place
    ELSE top = -1 /\ stack = <<>>

\* trace_print_location: a write is printed with its own position; a read with
\* its own, or that of the access it is an argument of, or none, as the compiler
\* orders the operands.  No line has the position of another thread.
PrintsOwnPosition ==
    /\ printed.position # "other"
    /\ printed.write => printed.position = "own"

TypeOK ==
    /\ main \in {"options", "create", "run", "exit"}
    /\ options \in 0..MaxOptions
    /\ asked \subseteq Names
    /\ files \in Seq(Names)
    /\ flags \subseteq Flags
    /\ enabled \in BOOLEAN
    /\ top \in -1..(StackSize - 1) /\ Len(stack) = top + 1
    /\ lock \in Threads \cup {"free"}
    /\ accesses \in 0..MaxAccesses

=============================================================================
