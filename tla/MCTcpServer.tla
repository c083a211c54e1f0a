---------------------------- MODULE MCTcpServer ----------------------------
(* An instance of the server for model checking: no I/O loop, or two. *)
EXTENDS TcpServer

CONSTANTS io1, io2

NoneOrTwo == {<<>>, <<io1, io2>>}
=============================================================================
