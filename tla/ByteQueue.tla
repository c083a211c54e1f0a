----------------------------- MODULE ByteQueue -----------------------------
(***************************************************************************)
(* What a Buffer promises: a queue of bytes, written at one end and read   *)
(* at the other, from whose written end bytes can also be taken back.      *)
(* op is the last operation and the bytes that went in or came out.        *)
(***************************************************************************)
EXTENDS Integers, Sequences

CONSTANT Byte

VARIABLES bytes, op

Init == bytes = <<>> /\ op = [name |-> "new", data |-> <<>>]

\* Bytes arrive behind the ones there are.
Put == op'.name = "put" /\ op'.data \in Seq(Byte) /\ bytes' = bytes \o op'.data

\* The oldest bytes leave.
Take == op'.name = "take" /\ op'.data \in Seq(Byte) /\ bytes = op'.data \o bytes'

\* The newest bytes are taken back.
TakeBack == op'.name = "takeback" /\ op'.data \in Seq(Byte) /\ bytes = bytes' \o op'.data

\* The storage changes, the queue does not.
Arrange == op'.name = "arrange" /\ bytes' = bytes

Next == Put \/ Take \/ TakeBack \/ Arrange

Spec == Init /\ [][Next]_<<bytes, op>>
=============================================================================
