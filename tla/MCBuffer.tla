------------------------------ MODULE MCBuffer ------------------------------
(* Instances of the buffer for model checking. *)
EXTENDS Buffer
=============================================================================
