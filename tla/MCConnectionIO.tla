--------------------------- MODULE MCConnectionIO ---------------------------
(* Instances of a connection's input and output for model checking. *)
EXTENDS ConnectionIO
=============================================================================
