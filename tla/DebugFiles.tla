----------------------------- MODULE DebugFiles -----------------------------
(***************************************************************************)
(* debug.c: the table of the source files whose debug messages are shown.  *)
(*                                                                         *)
(* Names are numbers, in the order strcmp gives them.  The table is the    *)
(* sequence of the entries in use; "add" tells the whole table apart from  *)
(* one whose last entry was pushed out of the array.                       *)
(***************************************************************************)
EXTENDS Integers, Sequences, SequencesExt, FiniteSetsExt

CONSTANT MAX_FILES_NUMBER       \* 64

ASSUME FilesAssumption == MAX_FILES_NUMBER \in Nat \ {0}

\* How many of the first entries are before the name: the loop stops at the
\* first that is not.
Position(files, name) ==
    Min({i \in 0..Len(files) :
            \/ i = Len(files) \/ i = MAX_FILES_NUMBER
            \/ files[i + 1] >= name})

\* Mutant: the new name goes after the entry that follows it.
add_debug_toBehind(files, name) ==
    IF Position(files, name) >= MAX_FILES_NUMBER THEN files
    ELSE InsertAt(files, Min({Position(files, name) + 2, Len(files) + 1}), name)

\* A name that belongs behind a full table is dropped; one that belongs inside
\* it makes the table longer than the array.
add_debug_to(files, name) ==
    IF Position(files, name) >= MAX_FILES_NUMBER THEN files
    ELSE InsertAt(files, Position(files, name) + 1, name)

\* The entries were shifted over the end of the array.
Overrun(files) == Len(files) > MAX_FILES_NUMBER

\* __is_debugged: a binary search, from and to as in the code.
__is_debugged(files, name) ==
    LET Search[range \in (0..Len(files)) \X (-1..(Len(files) - 1))] ==
            LET from   == range[1]
                to     == range[2]
                middle == (from + to) \div 2
            IN  \/ from < to /\ files[middle + 1] < name /\ Search[<<middle + 1, to>>]
                \/ from < to /\ files[middle + 1] > name /\ Search[<<from, middle - 1>>]
                \/ from < to /\ files[middle + 1] = name
                \/ from = to /\ files[from + 1] = name
    IN  Search[<<0, Len(files) - 1>>]

=============================================================================
