------------------------- MODULE MCEventloopThread -------------------------
(* An instance of the event loop on its thread for model checking. *)
EXTENDS EventloopThread

CONSTANT t1

Calls == [t \in {Base, t1, Loop} |-> CASE t = t1 -> 2 [] t = Loop -> 1 [] OTHER -> 0]
=============================================================================
