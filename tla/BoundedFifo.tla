---------------------------- MODULE BoundedFifo ----------------------------
(***************************************************************************)
(* What mpmc_bounded_Queue promises its users: a FIFO queue of at most     *)
(* Size items.  Put and Get are atomic; got[c] is the item the last        *)
(* successful call of consumer c delivered.  A refused try_push or try_pop *)
(* changes nothing, so it is a stuttering step here.                       *)
(***************************************************************************)
EXTENDS Naturals, Sequences

CONSTANTS Consumers, Items, Size

VARIABLES queue, got

FInit == queue = << >>

Put(v) ==
    /\ Len(queue) < Size
    /\ queue' = Append(queue, v)
    /\ UNCHANGED got

Get(c) ==
    /\ queue # << >>
    /\ got' = [got EXCEPT ![c] = Head(queue)]
    /\ queue' = Tail(queue)

FNext == (\E v \in Items : Put(v)) \/ (\E c \in Consumers : Get(c))

FSpec == FInit /\ [][FNext]_<<queue, got>>
=============================================================================
