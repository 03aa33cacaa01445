---------------------------- MODULE MCDiagnostics ----------------------------
(***************************************************************************)
(* A small instance of Diagnostics for TLC: one name more than the table   *)
(* has entries, so that a name may fit, be dropped or overrun it.          *)
(***************************************************************************)
EXTENDS Diagnostics

MCNames == 1..(MAX_FILES_NUMBER + 1)

=============================================================================
