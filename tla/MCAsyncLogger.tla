--------------------------- MODULE MCAsyncLogger ---------------------------
(* An instance of the asynchronous logger for model checking. *)
EXTENDS AsyncLogger

\* The word meant.
AvailableWord == {{"available"}}
=============================================================================
