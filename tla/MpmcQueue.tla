----------------------------- MODULE MpmcQueue -----------------------------
(***************************************************************************)
(* mpmc_bounded_Queue (src/helpers/queue.h): the bounded multi-producer    *)
(* multi-consumer ring every EventLoop and ThreadPool keeps its functors   *)
(* in.  One action per shared-memory access of try_push, try_pop and       *)
(* empty, so that every interleaving of the threads' accesses is a         *)
(* behaviour.  Producers run push, the retry loop around try_push;         *)
(* consumers run try_pop and empty.                                        *)
(*                                                                         *)
(* Positions are unbounded naturals: the 64-bit counters do not wrap in    *)
(* any run of the program, and Size divides 2^64 anyway.                   *)
(***************************************************************************)
EXTENDS Integers, Sequences

CONSTANTS
    Producers,  \* threads that call push
    Consumers,  \* threads that call try_pop and empty
    Items,      \* what is queued
    NoItem,     \* a cell that was never written
    Size,       \* buffer_size
    MaxTries,   \* calls of try_push one push makes before it gives up (322)
    MaxPos      \* bound of the model: no push starts at tail_pos >= MaxPos

Threads == Producers \cup Consumers

\* The constructor asserts a power of two, so pos & buffer_mask is pos % Size.
ASSUME QueueAssumption ==
    /\ Size \in Nat /\ Size >= 2 /\ \E k \in 1..Size : Size = 2^k
    /\ MaxTries \in Nat \ {0}
    /\ MaxPos \in Nat
    /\ Producers \cap Consumers = {}
    /\ NoItem \notin Items

VARIABLES
    head_pos, tail_pos,  \* the two shared counters
    sequence, data,      \* the cells of the ring
    pc, pos,             \* where each thread is; its local pos (h in empty)
    arg, tries,          \* a producer's item and failed calls of try_push
    result               \* the last item a consumer read

cells == <<sequence, data>>
locals == <<arg, tries, result>>
vars == <<head_pos, tail_pos, cells, pc, pos, locals>>

Cell(p) == p % Size
Seq0(t) == sequence[Cell(pos[t])]

Init ==
    /\ head_pos = 0 /\ tail_pos = 0
    /\ sequence = [i \in 0..Size-1 |-> i]
    /\ data = [i \in 0..Size-1 |-> NoItem]
    /\ pc = [t \in Threads |-> "idle"]
    /\ pos = [t \in Threads |-> 0]
    /\ arg = [t \in Producers |-> NoItem]
    /\ tries = [t \in Producers |-> 0]
    /\ result = [t \in Consumers |-> NoItem]

Goto(t, from, to) == pc[t] = from /\ pc' = [pc EXCEPT ![t] = to]

-----------------------------------------------------------------------------
\* push and try_push

Push(t, v) ==
    /\ tail_pos < MaxPos
    /\ Goto(t, "idle", "push_load")
    /\ arg' = [arg EXCEPT ![t] = v]
    /\ tries' = [tries EXCEPT ![t] = 0]
    /\ UNCHANGED <<head_pos, tail_pos, cells, pos, result>>

PushLoad(t) ==
    /\ Goto(t, "push_load", "push_seq")
    /\ pos' = [pos EXCEPT ![t] = tail_pos]
    /\ UNCHANGED <<head_pos, tail_pos, cells, locals>>

PushSeqEqual(t) ==
    /\ Seq0(t) = pos[t]
    /\ Goto(t, "push_seq", "push_cas")
    /\ UNCHANGED <<head_pos, tail_pos, cells, pos, locals>>

\* try_push returns false: push tries again, or returns with the item dropped.
PushRefused(t) ==
    /\ Seq0(t) < pos[t]
    /\ Goto(t, "push_seq", IF tries[t] + 1 < MaxTries THEN "push_load" ELSE "idle")
    /\ tries' = [tries EXCEPT ![t] = @ + 1]
    /\ UNCHANGED <<head_pos, tail_pos, cells, pos, arg, result>>

PushSeqAhead(t) ==
    /\ Seq0(t) > pos[t]
    /\ Goto(t, "push_seq", "push_load")
    /\ UNCHANGED <<head_pos, tail_pos, cells, pos, locals>>

\* Mutant: a store in place of the compare-and-swap.
PushCasBlind(t) ==
    /\ Goto(t, "push_cas", "push_data") /\ tail_pos' = pos[t] + 1
    /\ UNCHANGED <<head_pos, cells, pos, locals>>

PushCas(t) ==
    /\ tail_pos = pos[t]
    /\ Goto(t, "push_cas", "push_data")
    /\ tail_pos' = pos[t] + 1
    /\ UNCHANGED <<head_pos, cells, pos, locals>>

\* The compare-and-swap is weak: it may fail although tail_pos = pos[t].
PushCasFails(t) ==
    /\ Goto(t, "push_cas", "push_seq")
    /\ pos' = [pos EXCEPT ![t] = tail_pos]
    /\ UNCHANGED <<head_pos, tail_pos, cells, locals>>

PushData(t) ==
    /\ Goto(t, "push_data", "push_publish")
    /\ data' = [data EXCEPT ![Cell(pos[t])] = arg[t]]
    /\ UNCHANGED <<head_pos, tail_pos, sequence, pos, locals>>

PushPublish(t) ==
    /\ Goto(t, "push_publish", "idle")
    /\ sequence' = [sequence EXCEPT ![Cell(pos[t])] = pos[t] + 1]
    /\ UNCHANGED <<head_pos, tail_pos, data, pos, locals>>

ProducerStep(t) ==
    \/ \E v \in Items : Push(t, v)
    \/ PushLoad(t)
    \/ PushSeqEqual(t) \/ PushRefused(t) \/ PushSeqAhead(t)
    \/ PushCas(t) \/ PushCasFails(t)
    \/ PushData(t) \/ PushPublish(t)

-----------------------------------------------------------------------------
\* try_pop

PopLoad(t) ==
    /\ \/ Goto(t, "idle", "pop_seq")
       \/ Goto(t, "pop_load", "pop_seq")
    /\ pos' = [pos EXCEPT ![t] = head_pos]
    /\ UNCHANGED <<head_pos, tail_pos, cells, locals>>

PopSeqEqual(t) ==
    /\ Seq0(t) = pos[t] + 1
    /\ Goto(t, "pop_seq", "pop_cas")
    /\ UNCHANGED <<head_pos, tail_pos, cells, pos, locals>>

PopRefused(t) ==
    /\ Seq0(t) < pos[t] + 1
    /\ Goto(t, "pop_seq", "idle")
    /\ UNCHANGED <<head_pos, tail_pos, cells, pos, locals>>

PopSeqAhead(t) ==
    /\ Seq0(t) > pos[t] + 1
    /\ Goto(t, "pop_seq", "pop_load")
    /\ UNCHANGED <<head_pos, tail_pos, cells, pos, locals>>

\* Mutant: a store in place of the compare-and-swap.
PopCasBlind(t) ==
    /\ Goto(t, "pop_cas", "pop_data") /\ head_pos' = pos[t] + 1
    /\ UNCHANGED <<tail_pos, cells, pos, locals>>

PopCas(t) ==
    /\ head_pos = pos[t]
    /\ Goto(t, "pop_cas", "pop_data")
    /\ head_pos' = pos[t] + 1
    /\ UNCHANGED <<tail_pos, cells, pos, locals>>

PopCasFails(t) ==
    /\ Goto(t, "pop_cas", "pop_seq")
    /\ pos' = [pos EXCEPT ![t] = head_pos]
    /\ UNCHANGED <<head_pos, tail_pos, cells, locals>>

\* Mutant: the item is read at the current head, not at the claimed position.
PopDataAtHead(t) ==
    /\ Goto(t, "pop_data", "pop_publish")
    /\ result' = [result EXCEPT ![t] = data[Cell(head_pos)]]
    /\ UNCHANGED <<head_pos, tail_pos, cells, pos, arg, tries>>

PopData(t) ==
    /\ Goto(t, "pop_data", "pop_publish")
    /\ result' = [result EXCEPT ![t] = data[Cell(pos[t])]]
    /\ UNCHANGED <<head_pos, tail_pos, cells, pos, arg, tries>>

\* Mutant: pos + mask in place of pos + mask + 1.
PopPublishShort(t) ==
    /\ Goto(t, "pop_publish", "idle")
    /\ sequence' = [sequence EXCEPT ![Cell(pos[t])] = pos[t] + Size - 1]
    /\ UNCHANGED <<head_pos, tail_pos, data, pos, locals>>

PopPublish(t) ==
    /\ Goto(t, "pop_publish", "idle")
    /\ sequence' = [sequence EXCEPT ![Cell(pos[t])] = pos[t] + Size]
    /\ UNCHANGED <<head_pos, tail_pos, data, pos, locals>>

\* Mutant: the tail is loaded first.
EmptyTailFirst(t) ==
    /\ Goto(t, "idle", "empty_tail") /\ pos' = [pos EXCEPT ![t] = tail_pos]
    /\ UNCHANGED <<head_pos, tail_pos, cells, locals>>

\* empty loads head_pos, then tail_pos, and compares what it read.
EmptyHead(t) ==
    /\ Goto(t, "idle", "empty_tail")
    /\ pos' = [pos EXCEPT ![t] = head_pos]
    /\ UNCHANGED <<head_pos, tail_pos, cells, locals>>

EmptyTail(t) ==
    /\ Goto(t, "empty_tail", "idle")
    /\ UNCHANGED <<head_pos, tail_pos, cells, pos, locals>>

ConsumerStep(t) ==
    \/ PopLoad(t)
    \/ PopSeqEqual(t) \/ PopRefused(t) \/ PopSeqAhead(t)
    \/ PopCas(t) \/ PopCasFails(t)
    \/ PopData(t) \/ PopPublish(t)
    \/ EmptyHead(t) \/ EmptyTail(t)

Next ==
    \/ \E t \in Producers : ProducerStep(t)
    \/ \E t \in Consumers : ConsumerStep(t)

Spec == Init /\ [][Next]_vars
-----------------------------------------------------------------------------
\* Properties

Labels ==
    {"idle", "push_load", "push_seq", "push_cas", "push_data", "push_publish",
     "pop_load", "pop_seq", "pop_cas", "pop_data", "pop_publish", "empty_tail"}

\* The type of the ring (queue.h, struct node) and of the callers' locals.
TypeOK ==
    /\ head_pos \in Nat /\ tail_pos \in Nat
    /\ sequence \in [0..Size-1 -> Nat]
    /\ data \in [0..Size-1 -> Items \cup {NoItem}]
    /\ pc \in [Threads -> Labels]
    /\ pos \in [Threads -> Nat]
    /\ arg \in [Producers -> Items \cup {NoItem}]
    /\ \A t \in Producers : pc[t] # "idle" => arg[t] \in Items
    /\ tries \in [Producers -> Nat]
    /\ result \in [Consumers -> Items \cup {NoItem}]

\* A thread that won its compare-and-swap and has not yet published its cell.
Writing(t) == t \in Producers /\ pc[t] \in {"push_data", "push_publish"}
Reading(t) == t \in Consumers /\ pc[t] \in {"pop_data", "pop_publish"}
Owns(t) == Writing(t) \/ Reading(t)

\* No two threads access the data of one cell at a time: the plain accesses to
\* node::data in try_push and try_pop never race, although threads a whole lap
\* apart use the same cell.
ExclusiveCell ==
    \A t, u \in Threads :
        t # u /\ Owns(t) /\ Owns(u) => Cell(pos[t]) # Cell(pos[u])

\* Every position between head_pos and tail_pos is published or is about to be
\* by the one producer that claimed it: no claimed slot is ever orphaned, which
\* would stop try_pop for ever at that position.
NoOrphanSlot ==
    /\ tail_pos - head_pos \in 0..Size
    /\ \A p \in head_pos..(tail_pos - 1) :
          \/ sequence[Cell(p)] = p + 1
          \/ \E t \in Producers : Writing(t) /\ pos[t] = p

\* try_push returns false only at an instant when every cell is occupied: the
\* cell that tail_pos needs is still queued or still being read.  A stale pos
\* or a lost compare-and-swap never makes push drop an item.
RefusedOnlyWhenFull ==
    \A t \in Producers :
        pc[t] = "push_seq" /\ Seq0(t) < pos[t] =>
            /\ pos[t] = tail_pos
            /\ \/ tail_pos = head_pos + Size
               \/ \E c \in Consumers : Reading(c) /\ pos[c] = tail_pos - Size

\* try_pop returns false only at an instant when the oldest item is missing:
\* the queue is empty, or the producer of that item has not published it yet.
\* In the second case later items may be complete: try_pop may fail on a queue
\* that is not empty.
RefusedOnlyWhenHeadMissing ==
    \A c \in Consumers :
        pc[c] = "pop_seq" /\ Seq0(c) < pos[c] + 1 =>
            /\ pos[c] = head_pos
            /\ \/ head_pos = tail_pos
               \/ \E t \in Producers : Writing(t) /\ pos[t] = head_pos

\* Both refusals are justified at the instant they are made.
RefusedRightly == RefusedOnlyWhenFull /\ RefusedOnlyWhenHeadMissing

\* empty reads the two counters one after the other; when it answers true the
\* queue really is empty at the second read.
EmptyIsTruthful ==
    \A c \in Consumers :
        pc[c] = "empty_tail" /\ pos[c] = tail_pos => head_pos = tail_pos

-----------------------------------------------------------------------------
\* Why the properties hold: an inductive invariant.

\* A local pos was read from its counter, so it is never ahead of it.
PosBehindCounter ==
    /\ \A t \in Producers : pc[t] \in {"push_seq", "push_cas"} => pos[t] <= tail_pos
    /\ \A c \in Consumers :
          pc[c] \in {"pop_seq", "pop_cas", "empty_tail"} => pos[c] <= head_pos

\* Owners hold distinct positions, and the sequence of an owned cell stands still.
OwnersHoldCells ==
    /\ \A t \in Producers : Writing(t) =>
          /\ head_pos <= pos[t] /\ pos[t] < tail_pos
          /\ Seq0(t) = pos[t]
          /\ pc[t] = "push_publish" => data[Cell(pos[t])] = arg[t]
    /\ \A c \in Consumers : Reading(c) => pos[c] < head_pos /\ Seq0(c) = pos[c] + 1
    /\ \A t, u \in Producers : Writing(t) /\ Writing(u) /\ pos[t] = pos[u] => t = u
    /\ \A c, d \in Consumers : Reading(c) /\ Reading(d) /\ pos[c] = pos[d] => c = d

\* What was read before the compare-and-swap still holds if it succeeds.
CasIsSafe ==
    /\ \A t \in Producers : pc[t] = "push_cas" => Seq0(t) = pos[t] \/ pos[t] < tail_pos
    /\ \A c \in Consumers : pc[c] = "pop_cas" => Seq0(c) = pos[c] + 1 \/ pos[c] < head_pos

\* A free cell is free for the current lap; a published one was claimed.
CellsInLap ==
    \A i \in 0..Size-1 :
        /\ sequence[i] >= i
        /\ Cell(sequence[i]) = i => sequence[i] < head_pos + Size
        /\ Cell(sequence[i]) # i => sequence[i] <= tail_pos

\* Every position behind head_pos is being read or was handed to the next lap.
NoStuckReader ==
    \A p \in 0..(head_pos - 1) :
        \/ sequence[Cell(p)] >= p + Size
        \/ /\ sequence[Cell(p)] = p + 1
           /\ \E c \in Consumers : Reading(c) /\ pos[c] = p

\* The inductive invariant behind all of the above: together these facts are
\* preserved by every shared access of try_push, try_pop and empty.
IndInv ==
    /\ TypeOK
    /\ PosBehindCounter
    /\ OwnersHoldCells
    /\ CasIsSafe
    /\ CellsInLap
    /\ NoOrphanSlot
    /\ NoStuckReader

-----------------------------------------------------------------------------
\* The ring implements a FIFO queue.  An item is in the queue from the moment
\* its producer claims a position, and is delivered when a consumer claims it.

ItemAt(p) ==
    IF sequence[Cell(p)] = p + 1
    THEN data[Cell(p)]
    ELSE arg[CHOOSE t \in Producers : Writing(t) /\ pos[t] = p]

Queued == [i \in 1..(tail_pos - head_pos) |-> ItemAt(head_pos + i - 1)]

Delivered ==
    [c \in Consumers |-> IF pc[c] = "pop_data" THEN data[Cell(pos[c])] ELSE result[c]]

Fifo == INSTANCE BoundedFifo WITH queue <- Queued, got <- Delivered

\* Items are popped in the order their positions were claimed, each exactly
\* once and with the value that was pushed, and at most Size are queued:
\* try_push and try_pop behave as atomic operations on a bounded FIFO queue.
ImplementsFifo == Fifo!FSpec
=============================================================================
