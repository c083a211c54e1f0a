-------------------------- MODULE MCTcpConnection --------------------------
(* Instances of the connection's state word for model checking. *)
EXTENDS TcpConnection

CONSTANT u1

CallsOfEach == [t \in Users \cup {Loop} |-> IF t = u1 THEN 2 ELSE 1]
=============================================================================
