----------------------------- MODULE MCLogFile -----------------------------
(* An instance of the logger with its files for model checking. *)
EXTENDS LogFile

\* An uninitialised word may hold anything.
AnyWord == SUBSET Bits
=============================================================================
