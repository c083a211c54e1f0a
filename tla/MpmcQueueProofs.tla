-------------------------- MODULE MpmcQueueProofs --------------------------
(***************************************************************************)
(* Proofs about the ring of queue.h, for any number of threads, any items  *)
(* and any Size >= 2.  Cell is never expanded below the lemmas about it:   *)
(* all that is used of the modulus are its four facts.                     *)
(***************************************************************************)
EXTENDS MpmcQueue, TLAPS

-----------------------------------------------------------------------------
\* The modulus

\* Division with remainder, as the solver knows it.
LEMMA ModDiv ==
    ASSUME NEW a \in Nat, NEW N \in Nat, N > 0
    PROVE  /\ a = N * (a \div N) + (a % N)
           /\ a \div N \in Nat
           /\ a % N \in 0..N-1
  OBVIOUS

\* Multiples of N are at least N apart.
LEMMA MultiplesApart ==
    ASSUME NEW N \in Nat, NEW j \in Int, NEW k \in Int, j > k
    PROVE  N * j >= N * k + N
<1>1. N * (j - k - 1) >= 0
  OBVIOUS
<1>2. N * (j - k - 1) = N * j - N * k - N
  OBVIOUS
<1> QED
  BY <1>1, <1>2

\* The remainder is unique.
LEMMA ModUnique ==
    ASSUME NEW a \in Nat, NEW N \in Nat, N > 0, NEW q \in Int,
           NEW r \in 0..N-1, a = N * q + r
    PROVE  a % N = r
<1>1. a = N * (a \div N) + (a % N) /\ a \div N \in Nat /\ a % N \in 0..N-1
  BY ModDiv, Zenon
<1>2. CASE a \div N > q
  <2>1. N * (a \div N) >= N * q + N
    BY <1>1, <1>2, MultiplesApart
  <2> QED
    BY <1>1, <2>1
<1>3. CASE a \div N < q
  <2>1. N * q >= N * (a \div N) + N
    BY <1>1, <1>3, MultiplesApart
  <2> QED
    BY <1>1, <2>1
<1>4. CASE a \div N = q
  BY <1>1, <1>4
<1> QED
  BY <1>1, <1>2, <1>3, <1>4

\* The capacity is a power of two of at least two cells.
LEMMA SizeFacts == Size \in Nat /\ Size >= 2
  BY QueueAssumption, Zenon

\* pos & buffer_mask is an index of the ring.
LEMMA CellType == \A p \in Nat : Cell(p) \in 0..Size-1
  BY SizeFacts, ModDiv DEF Cell

\* Consecutive positions use different cells.
LEMMA CellNext == \A p \in Nat : Cell(p + 1) # Cell(p)
<1> SUFFICES ASSUME NEW p \in Nat
             PROVE  (p + 1) % Size # p % Size
  BY Zenon DEF Cell
<1>1. p = Size * (p \div Size) + (p % Size) /\ p \div Size \in Nat /\ p % Size \in 0..Size-1
  BY SizeFacts, ModDiv
<1>2. CASE p % Size = Size - 1
  <2>1. p + 1 = Size * ((p \div Size) + 1) + 0
    BY <1>1, <1>2, SizeFacts
  <2>2. p + 1 \in Nat /\ (p \div Size) + 1 \in Int /\ 0 \in 0..Size-1 /\ Size > 0
    BY <1>1, SizeFacts
  <2>3. (p + 1) % Size = 0
    BY <2>1, <2>2, ModUnique, SizeFacts, ZenonT(30)
  <2> QED
    BY <2>3, <1>2, SizeFacts
<1>3. CASE p % Size # Size - 1
  <2>1. p + 1 = Size * (p \div Size) + ((p % Size) + 1)
    BY <1>1, SizeFacts
  <2>2. p + 1 \in Nat /\ p \div Size \in Int /\ (p % Size) + 1 \in 0..Size-1 /\ Size > 0
    BY <1>1, <1>3, SizeFacts
  <2>3. (p + 1) % Size = (p % Size) + 1
    BY <2>1, <2>2, ModUnique, SizeFacts, ZenonT(30)
  <2> QED
    BY <2>3, <1>1
<1> QED
  BY <1>2, <1>3, Zenon

\* A position and the one a lap later use the same cell.
LEMMA CellLap == \A p \in Nat : Cell(p + Size) = Cell(p)
<1> SUFFICES ASSUME NEW p \in Nat
             PROVE  (p + Size) % Size = p % Size
  BY Zenon DEF Cell
<1>1. p = Size * (p \div Size) + (p % Size) /\ p \div Size \in Nat /\ p % Size \in 0..Size-1
  BY SizeFacts, ModDiv
<1>2. p + Size = Size * ((p \div Size) + 1) + (p % Size)
  BY <1>1, SizeFacts
<1>3. p + Size \in Nat /\ (p \div Size) + 1 \in Int /\ Size > 0
  BY <1>1, SizeFacts
<1> QED
  BY <1>1, <1>2, <1>3, ModUnique, SizeFacts, ZenonT(30)

\* In the first lap a position is its own cell.
LEMMA CellFirst == \A p \in 0..Size-1 : Cell(p) = p
<1> SUFFICES ASSUME NEW p \in 0..Size-1
             PROVE  p % Size = p
  BY Zenon DEF Cell
<1>1. p = Size * 0 + p
  BY SizeFacts
<1> QED
  BY <1>1, ModUnique, SizeFacts

-----------------------------------------------------------------------------
\* Steps of a thread that owns no cell

\* Only thread t moves.
OthersStay(t) ==
    \A u \in Threads \ {t} :
        pc'[u] = pc[u] /\ pos'[u] = pos[u] /\ (u \in Producers => arg'[u] = arg[u])

\* A step of a thread that owns no cell before or after it, and that leaves the
\* shared state alone, keeps every fact about owners and cells.
LEMMA OwnersUntouched ==
    ASSUME IndInv, NEW t \in Threads, ~Owns(t), ~Owns(t)', OthersStay(t),
           UNCHANGED <<head_pos, tail_pos, cells>>
    PROVE  /\ OwnersHoldCells' /\ CellsInLap' /\ NoOrphanSlot' /\ NoStuckReader'
<1>1. \A u \in Threads :
         /\ Writing(u)' <=> Writing(u)
         /\ Reading(u)' <=> Reading(u)
         /\ Owns(u) => pc'[u] = pc[u] /\ pos'[u] = pos[u] /\ (u \in Producers => arg'[u] = arg[u])
  BY Zenon DEF OthersStay, Owns, Writing, Reading
<1>2. UNCHANGED <<head_pos, tail_pos, sequence, data>>
  BY Zenon DEF cells
<1>3. OwnersHoldCells'
  <2>1. ASSUME NEW u \in Producers, Writing(u)'
        PROVE  /\ head_pos' <= pos'[u] /\ pos'[u] < tail_pos'
               /\ Seq0(u)' = pos'[u]
               /\ pc'[u] = "push_publish" => data'[Cell(pos'[u])] = arg'[u]
    BY <1>1, <1>2, <2>1 DEF IndInv, OwnersHoldCells, Seq0, Owns, Threads
  <2>2. ASSUME NEW c \in Consumers, Reading(c)'
        PROVE  pos'[c] < head_pos' /\ Seq0(c)' = pos'[c] + 1
    BY <1>1, <1>2, <2>2 DEF IndInv, OwnersHoldCells, Seq0, Owns, Threads
  <2>3. ASSUME NEW u \in Producers, NEW w \in Producers, Writing(u)', Writing(w)', pos'[u] = pos'[w]
        PROVE  u = w
    BY <1>1, <2>3, Zenon DEF IndInv, OwnersHoldCells, Owns, Threads
  <2>4. ASSUME NEW c \in Consumers, NEW d \in Consumers, Reading(c)', Reading(d)', pos'[c] = pos'[d]
        PROVE  c = d
    BY <1>1, <2>4, Zenon DEF IndInv, OwnersHoldCells, Owns, Threads
  <2> QED
    BY <2>1, <2>2, <2>3, <2>4, Zenon DEF OwnersHoldCells
<1>4. CellsInLap'
  BY <1>2, Zenon DEF IndInv, CellsInLap
<1>5. NoOrphanSlot'
  BY <1>1, <1>2, Zenon DEF IndInv, NoOrphanSlot, Owns, Threads
<1>6. NoStuckReader'
  BY <1>1, <1>2, Zenon DEF IndInv, NoStuckReader, Owns, Threads
<1> QED
  BY <1>3, <1>4, <1>5, <1>6, Zenon

\* The steps of push that touch no shared memory but to read it keep the invariant.
LEMMA ProducerLocalSteps ==
    ASSUME IndInv, NEW t \in Producers, 
           (\E v \in Items : Push(t, v)) \/ PushLoad(t) \/ PushSeqEqual(t) \/ PushRefused(t)
           \/ PushSeqAhead(t) \/ PushCasFails(t)
    PROVE  IndInv'
<1> USE DEF Push, PushLoad, PushSeqEqual, PushRefused, PushSeqAhead, PushCasFails, Goto, cells, locals
<1>1. TypeOK'
  <2>1. pc' \in [Threads -> Labels] /\ pos' \in [Threads -> Nat]
    BY ZenonT(30) DEF IndInv, TypeOK, Labels, Threads
  <2>2. arg' \in [Producers -> Items \cup {NoItem}]
    BY Zenon DEF IndInv, TypeOK
  <2>3. tries' \in [Producers -> Nat]
    <3>1. tries \in [Producers -> Nat]
      BY Zenon DEF IndInv, TypeOK
    <3> QED
      BY <3>1
  <2>4. UNCHANGED <<head_pos, tail_pos, sequence, data, result>>
    OBVIOUS
  <2>5. \A u \in Producers : pc'[u] # "idle" => arg'[u] \in Items
    BY ZenonT(30) DEF IndInv, TypeOK, Threads
  <2> QED
    BY <2>1, <2>2, <2>3, <2>4, <2>5, Zenon DEF IndInv, TypeOK
<1>2. ~Owns(t) /\ ~Owns(t)' /\ OthersStay(t) /\ UNCHANGED <<head_pos, tail_pos, sequence, data>>
  BY QueueAssumption, Zenon DEF IndInv, TypeOK, Threads, Owns, Writing, Reading, OthersStay
<1>3. OwnersHoldCells' /\ CellsInLap' /\ NoOrphanSlot' /\ NoStuckReader'
  BY <1>2, OwnersUntouched, Zenon DEF Threads
<1>4. PosBehindCounter'
  <2>1. pc'[t] \in {"push_seq", "push_cas"} => pos'[t] <= tail_pos
    BY DEF IndInv, TypeOK, PosBehindCounter, Threads
  <2> QED
    BY <1>2, <2>1, QueueAssumption, Zenon DEF IndInv, PosBehindCounter, OthersStay, Threads
<1>5. CasIsSafe'
  BY <1>2, ZenonT(30) DEF IndInv, TypeOK, CasIsSafe, OthersStay, Threads, Seq0
<1> QED
  BY <1>1, <1>3, <1>4, <1>5, Zenon DEF IndInv

\* So do those of try_pop and empty.
LEMMA ConsumerLocalSteps ==
    ASSUME IndInv, NEW t \in Consumers, 
           PopLoad(t) \/ PopSeqEqual(t) \/ PopRefused(t) \/ PopSeqAhead(t)
           \/ PopCasFails(t) \/ EmptyHead(t) \/ EmptyTail(t)
    PROVE  IndInv'
<1> USE DEF PopLoad, PopSeqEqual, PopRefused, PopSeqAhead, PopCasFails, EmptyHead, EmptyTail, Goto, cells, locals
<1>1. TypeOK'
  <2>1. pc' \in [Threads -> Labels] /\ pos' \in [Threads -> Nat]
    BY ZenonT(30) DEF IndInv, TypeOK, Labels, Threads
  <2>2. \A u \in Producers : pc'[u] = pc[u]
    BY QueueAssumption DEF IndInv, TypeOK, Threads
  <2> QED
    BY <2>1, <2>2, Zenon DEF IndInv, TypeOK
<1>2. ~Owns(t) /\ ~Owns(t)' /\ OthersStay(t) /\ UNCHANGED <<head_pos, tail_pos, sequence, data>>
  BY QueueAssumption, Zenon DEF IndInv, TypeOK, Threads, Owns, Writing, Reading, OthersStay
<1>3. OwnersHoldCells' /\ CellsInLap' /\ NoOrphanSlot' /\ NoStuckReader'
  BY <1>2, OwnersUntouched, Zenon DEF Threads
<1>4. PosBehindCounter'
  <2>1. pc'[t] \in {"pop_seq", "pop_cas", "empty_tail"} => pos'[t] <= head_pos
    BY DEF IndInv, TypeOK, PosBehindCounter, Threads
  <2> QED
    BY <1>2, <2>1, QueueAssumption, Zenon DEF IndInv, PosBehindCounter, OthersStay, Threads
<1>5. CasIsSafe'
  BY <1>2, ZenonT(30) DEF IndInv, TypeOK, CasIsSafe, OthersStay, Threads, Seq0
<1> QED
  BY <1>1, <1>3, <1>4, <1>5, Zenon DEF IndInv

-----------------------------------------------------------------------------
\* Steps of a thread that owns a cell, or comes to own one

\* Two owners never meet in a cell: they would agree on its sequence, hence on
\* the position, or be one apart, hence in different cells.
LEMMA OwnersApart == IndInv => ExclusiveCell
<1> SUFFICES ASSUME IndInv, NEW t \in Threads, NEW u \in Threads, t # u,
                    Owns(t), Owns(u), Cell(pos[t]) = Cell(pos[u])
             PROVE  FALSE
  BY Zenon DEF ExclusiveCell
<1>1. pos[t] \in Nat /\ pos[u] \in Nat
  BY Zenon DEF IndInv, TypeOK
<1>2. CASE Writing(t) /\ Writing(u)
  BY <1>1, <1>2 DEF IndInv, OwnersHoldCells, Writing, Seq0
<1>3. CASE Reading(t) /\ Reading(u)
  BY <1>1, <1>3 DEF IndInv, OwnersHoldCells, Reading, Seq0
<1>4. CASE Writing(t) /\ Reading(u)
  <2>1. pos[t] = pos[u] + 1
    BY <1>1, <1>4, Zenon DEF IndInv, OwnersHoldCells, Writing, Reading, Seq0
  <2> QED
    BY <1>1, <2>1, CellNext, Zenon
<1>5. CASE Reading(t) /\ Writing(u)
  <2>1. pos[u] = pos[t] + 1
    BY <1>1, <1>5, Zenon DEF IndInv, OwnersHoldCells, Writing, Reading, Seq0
  <2> QED
    BY <1>1, <2>1, CellNext, Zenon
<1> QED
  BY <1>2, <1>3, <1>4, <1>5, Zenon DEF Owns

\* The queue holds at most Size items.
LEMMA CounterBounds ==
    IndInv => /\ head_pos \in Nat /\ tail_pos \in Nat
              /\ head_pos <= tail_pos /\ tail_pos <= head_pos + Size
  BY SizeFacts DEF IndInv, TypeOK, NoOrphanSlot

\* Winning tail_pos.
LEMMA PushCasKeepsInv ==
    ASSUME IndInv, NEW t \in Producers, PushCas(t)
    PROVE  IndInv'
<1> USE DEF PushCas, Goto, cells, locals
<1>1. TypeOK'
  BY DEF IndInv, TypeOK, Labels, Threads
<1>2. /\ \A u \in Threads \ {t} : pc'[u] = pc[u]
      /\ pc'[t] = "push_data" /\ Writing(t)'
      /\ \A u \in Threads \ {t} : (Writing(u)' <=> Writing(u))
      /\ \A u \in Threads : (Reading(u)' <=> Reading(u))
  BY QueueAssumption, Zenon DEF IndInv, TypeOK, Threads, Writing, Reading
<1>3. /\ pos' = pos /\ sequence' = sequence /\ data' = data /\ arg' = arg
      /\ head_pos' = head_pos /\ tail_pos' = tail_pos + 1 /\ pos[t] = tail_pos
      /\ head_pos \in Nat /\ tail_pos \in Nat /\ pos \in [Threads -> Nat]
      /\ sequence \in [0..Size-1 -> Nat] /\ t \in Threads
  BY Zenon DEF IndInv, TypeOK, Threads
<1>4. sequence[Cell(tail_pos)] = tail_pos
  BY <1>3 DEF IndInv, CasIsSafe, Seq0
<1>5. tail_pos < head_pos + Size /\ head_pos <= tail_pos
  <2>1. Cell(tail_pos) \in 0..Size-1
    BY <1>3, CellType, Zenon
  <2>2. tail_pos < head_pos + Size
    BY <1>4, <2>1, Zenon DEF IndInv, CellsInLap
  <2>3. head_pos <= tail_pos
    BY <1>3, SizeFacts DEF IndInv, NoOrphanSlot
  <2> QED
    BY <2>2, <2>3, Zenon
<1>6. PosBehindCounter'
  BY <1>2, <1>3 DEF IndInv, PosBehindCounter, Threads
<1>7. OwnersHoldCells'
  <2>1. ASSUME NEW u \in Producers, Writing(u)'
        PROVE  /\ head_pos' <= pos'[u] /\ pos'[u] < tail_pos'
               /\ Seq0(u)' = pos'[u]
               /\ pc'[u] = "push_publish" => data'[Cell(pos'[u])] = arg'[u]
    BY <1>2, <1>3, <1>4, <1>5, <2>1 DEF IndInv, OwnersHoldCells, Seq0, Threads
  <2>2. ASSUME NEW u \in Producers, NEW w \in Producers, Writing(u)', Writing(w)', pos'[u] = pos'[w]
        PROVE  u = w
    BY <1>2, <1>3, <2>2 DEF IndInv, OwnersHoldCells, Threads
  <2> QED
    BY <1>2, <1>3, <2>1, <2>2 DEF IndInv, OwnersHoldCells, Seq0, Threads
<1>8. CasIsSafe'
  BY <1>2, <1>3 DEF IndInv, CasIsSafe, Seq0, Threads
<1>9. CellsInLap'
  BY <1>3 DEF IndInv, CellsInLap
<1>10. NoOrphanSlot'
  <2>1. (tail_pos - head_pos \in 0..Size)'
    BY <1>3, <1>5, SizeFacts
  <2>2. ASSUME NEW p \in head_pos'..(tail_pos' - 1)
        PROVE  \/ sequence'[Cell(p)] = p + 1
               \/ \E u \in Producers : Writing(u)' /\ pos'[u] = p
    <3>1. CASE p = tail_pos
      BY <1>2, <1>3, <3>1, Zenon
    <3>2. CASE p # tail_pos
      BY <1>2, <1>3, <3>2 DEF IndInv, NoOrphanSlot, Threads
    <3> QED
      BY <3>1, <3>2, Zenon
  <2> QED
    BY <2>1, <2>2, Zenon DEF NoOrphanSlot
<1>11. NoStuckReader'
  BY <1>2, <1>3 DEF IndInv, NoStuckReader, Threads
<1> QED
  BY <1>1, <1>6, <1>7, <1>8, <1>9, <1>10, <1>11, Zenon DEF IndInv

\* Winning head_pos.
LEMMA PopCasKeepsInv ==
    ASSUME IndInv, NEW t \in Consumers, PopCas(t)
    PROVE  IndInv'
<1> USE DEF PopCas, Goto, cells, locals
<1>1. TypeOK'
  BY DEF IndInv, TypeOK, Labels, Threads
<1>2. /\ \A u \in Threads \ {t} : pc'[u] = pc[u]
      /\ pc'[t] = "pop_data" /\ Reading(t)'
      /\ \A u \in Threads \ {t} : (Reading(u)' <=> Reading(u))
      /\ \A u \in Threads : (Writing(u)' <=> Writing(u))
      /\ \A u \in Producers : pc'[u] = pc[u]
  BY QueueAssumption, Zenon DEF IndInv, TypeOK, Threads, Writing, Reading
<1>3. /\ pos' = pos /\ sequence' = sequence /\ data' = data /\ arg' = arg
      /\ tail_pos' = tail_pos /\ head_pos' = head_pos + 1 /\ pos[t] = head_pos
      /\ head_pos \in Nat /\ tail_pos \in Nat /\ pos \in [Threads -> Nat]
      /\ sequence \in [0..Size-1 -> Nat] /\ t \in Threads
  BY Zenon DEF IndInv, TypeOK, Threads
<1>4. sequence[Cell(head_pos)] = head_pos + 1
  BY <1>3 DEF IndInv, CasIsSafe, Seq0
<1>5. head_pos < tail_pos /\ tail_pos <= head_pos + Size
  <2>1. Cell(head_pos) \in 0..Size-1 /\ Cell(head_pos + 1) # Cell(head_pos)
    BY <1>3, CellType, CellNext, Zenon
  <2>2. head_pos + 1 <= tail_pos
    BY <1>4, <2>1, Zenon DEF IndInv, CellsInLap
  <2>3. tail_pos <= head_pos + Size
    BY <1>3, SizeFacts DEF IndInv, NoOrphanSlot
  <2> QED
    BY <1>3, <2>2, <2>3
<1>6. PosBehindCounter'
  BY <1>2, <1>3 DEF IndInv, PosBehindCounter, Threads
<1>7. OwnersHoldCells'
  <2>1. ASSUME NEW u \in Producers, Writing(u)
        PROVE  head_pos + 1 <= pos[u]
    BY <1>3, <1>4, <2>1 DEF IndInv, OwnersHoldCells, Seq0, Threads
  <2>2. ASSUME NEW c \in Consumers, Reading(c)'
        PROVE  pos'[c] < head_pos' /\ Seq0(c)' = pos'[c] + 1
    BY <1>2, <1>3, <1>4, <2>2 DEF IndInv, OwnersHoldCells, Seq0, Threads
  <2>3. ASSUME NEW c \in Consumers, NEW d \in Consumers, Reading(c)', Reading(d)', pos'[c] = pos'[d]
        PROVE  c = d
    BY <1>2, <1>3, <2>3 DEF IndInv, OwnersHoldCells, Threads
  <2> QED
    BY <1>2, <1>3, <2>1, <2>2, <2>3 DEF IndInv, OwnersHoldCells, Seq0, Threads
<1>8. CasIsSafe'
  BY <1>2, <1>3 DEF IndInv, CasIsSafe, Seq0, Threads
<1>9. CellsInLap'
  BY <1>3, SizeFacts DEF IndInv, CellsInLap
<1>10. NoOrphanSlot'
  <2>1. (tail_pos - head_pos \in 0..Size)'
    BY <1>3, <1>5, SizeFacts
  <2>2. ASSUME NEW p \in head_pos'..(tail_pos' - 1)
        PROVE  \/ sequence'[Cell(p)] = p + 1
               \/ \E u \in Producers : Writing(u)' /\ pos'[u] = p
    <3>1. p \in head_pos..(tail_pos - 1)
      BY <1>3
    <3> QED
      BY <1>2, <1>3, <3>1, Zenon DEF IndInv, NoOrphanSlot, Threads
  <2> QED
    BY <2>1, <2>2, Zenon DEF NoOrphanSlot
<1>11. NoStuckReader'
  <2>1. ASSUME NEW p \in 0..(head_pos' - 1)
        PROVE  \/ sequence'[Cell(p)] >= p + Size
               \/ /\ sequence'[Cell(p)] = p + 1
                  /\ \E c \in Consumers : Reading(c)' /\ pos'[c] = p
    <3>1. CASE p = head_pos
      BY <1>2, <1>3, <1>4, <3>1, Zenon
    <3>2. CASE p # head_pos
      <4>1. p \in 0..(head_pos - 1)
        BY <1>3, <3>2
      <4> QED
        BY <1>2, <1>3, <4>1 DEF IndInv, NoStuckReader, OwnersHoldCells, Threads
    <3> QED
      BY <3>1, <3>2, Zenon
  <2> QED
    BY <2>1, Zenon DEF NoStuckReader
<1> QED
  BY <1>1, <1>6, <1>7, <1>8, <1>9, <1>10, <1>11, Zenon DEF IndInv

\* Filling the claimed cell: no other owner looks at it.
LEMMA PushDataKeepsInv ==
    ASSUME IndInv, NEW t \in Producers, PushData(t)
    PROVE  IndInv'
<1> USE DEF PushData, Goto, cells, locals
<1>1. TypeOK'
  BY CellType, ZenonT(30) DEF IndInv, TypeOK, Labels, Threads
<1>2. /\ \A u \in Threads \ {t} : pc'[u] = pc[u]
      /\ pc'[t] = "push_publish" /\ Writing(t)
      /\ \A u \in Threads : (Writing(u)' <=> Writing(u)) /\ (Reading(u)' <=> Reading(u))
      /\ \A u \in Consumers : pc'[u] = pc[u]
  BY QueueAssumption, Zenon DEF IndInv, TypeOK, Threads, Writing, Reading
<1>3. /\ pos' = pos /\ sequence' = sequence /\ arg' = arg
      /\ head_pos' = head_pos /\ tail_pos' = tail_pos
      /\ t \in Threads /\ pos \in [Threads -> Nat]
  BY Zenon DEF IndInv, TypeOK, Threads
<1>4. data'[Cell(pos[t])] = arg[t]
  BY <1>3, CellType, Zenon DEF IndInv, TypeOK
<1>5. \A u \in Producers \ {t} : Writing(u) => data'[Cell(pos[u])] = data[Cell(pos[u])]
  <2>1. \A u \in Producers \ {t} : Writing(u) => Cell(pos[u]) # Cell(pos[t])
    BY <1>2, <1>3, OwnersApart, Zenon DEF ExclusiveCell, Owns, Threads
  <2> QED
    BY <1>3, <2>1, CellType, Zenon DEF IndInv, TypeOK, Threads
<1>6. OwnersHoldCells'
  <2>1. ASSUME NEW u \in Producers, Writing(u)'
        PROVE  /\ head_pos' <= pos'[u] /\ pos'[u] < tail_pos'
               /\ Seq0(u)' = pos'[u]
               /\ pc'[u] = "push_publish" => data'[Cell(pos'[u])] = arg'[u]
    <3>1. CASE u = t
      BY <1>2, <1>3, <1>4, <3>1 DEF IndInv, OwnersHoldCells, Seq0
    <3>2. CASE u # t
      BY <1>2, <1>3, <1>5, <2>1, <3>2 DEF IndInv, OwnersHoldCells, Seq0, Threads
    <3> QED
      BY <3>1, <3>2, Zenon
  <2> QED
    BY <1>2, <1>3, <2>1 DEF IndInv, OwnersHoldCells, Seq0, Threads
<1>7. PosBehindCounter' /\ CasIsSafe'
  BY <1>2, <1>3, Zenon DEF IndInv, PosBehindCounter, CasIsSafe, Seq0, Threads
<1>8. CellsInLap' /\ NoOrphanSlot' /\ NoStuckReader'
  BY <1>2, <1>3 DEF IndInv, CellsInLap, NoOrphanSlot, NoStuckReader, Threads
<1> QED
  BY <1>1, <1>6, <1>7, <1>8, Zenon DEF IndInv

\* Reading the claimed cell.
LEMMA PopDataKeepsInv ==
    ASSUME IndInv, NEW t \in Consumers, PopData(t)
    PROVE  IndInv'
<1> USE DEF PopData, Goto, cells, locals
<1>1. TypeOK'
  BY CellType, ZenonT(30) DEF IndInv, TypeOK, Labels, Threads
<1>2. /\ \A u \in Threads \ {t} : pc'[u] = pc[u]
      /\ pc'[t] = "pop_publish"
      /\ \A u \in Threads : (Writing(u)' <=> Writing(u)) /\ (Reading(u)' <=> Reading(u))
      /\ \A u \in Producers : pc'[u] = pc[u]
  BY QueueAssumption, Zenon DEF IndInv, TypeOK, Threads, Writing, Reading
<1>3. /\ pos' = pos /\ sequence' = sequence /\ data' = data /\ arg' = arg
      /\ head_pos' = head_pos /\ tail_pos' = tail_pos
  OBVIOUS
<1>4. OwnersHoldCells'
  BY <1>2, <1>3 DEF IndInv, OwnersHoldCells, Seq0, Threads
<1>5. PosBehindCounter' /\ CasIsSafe'
  BY <1>2, <1>3, Zenon DEF IndInv, PosBehindCounter, CasIsSafe, Seq0, Threads
<1>6. CellsInLap' /\ NoOrphanSlot' /\ NoStuckReader'
  BY <1>2, <1>3 DEF IndInv, CellsInLap, NoOrphanSlot, NoStuckReader, Threads
<1> QED
  BY <1>1, <1>4, <1>5, <1>6, Zenon DEF IndInv

\* Publishing an item.
LEMMA PushPublishKeepsInv ==
    ASSUME IndInv, NEW t \in Producers, PushPublish(t)
    PROVE  IndInv'
<1> DEFINE i == Cell(pos[t])
<1> USE DEF PushPublish, Goto, cells, locals
<1>1. TypeOK'
  <2>1. pos[t] \in Nat /\ Cell(pos[t]) \in 0..Size-1
    BY CellType, Zenon DEF IndInv, TypeOK, Threads
  <2>2. sequence' \in [0..Size-1 -> Nat]
    BY <2>1, SizeFacts DEF IndInv, TypeOK
  <2>3. pc' \in [Threads -> Labels]
    BY ZenonT(30) DEF IndInv, TypeOK, Labels
  <2> QED
    BY <2>2, <2>3 DEF IndInv, TypeOK
<1>2. /\ \A u \in Threads \ {t} : pc'[u] = pc[u]
      /\ pc'[t] = "idle" /\ Writing(t) /\ ~Writing(t)'
      /\ \A u \in Threads \ {t} : (Writing(u)' <=> Writing(u))
      /\ \A u \in Threads : (Reading(u)' <=> Reading(u))
      /\ \A u \in Consumers : pc'[u] = pc[u]
  BY QueueAssumption, Zenon DEF IndInv, TypeOK, Threads, Writing, Reading
<1>3. /\ pos' = pos /\ data' = data /\ arg' = arg
      /\ head_pos' = head_pos /\ tail_pos' = tail_pos
      /\ head_pos \in Nat /\ tail_pos \in Nat
      /\ t \in Threads /\ pos \in [Threads -> Nat] /\ sequence \in [0..Size-1 -> Nat]
  BY Zenon DEF IndInv, TypeOK, Threads
<1>4. /\ i \in 0..Size-1 /\ sequence[i] = pos[t] /\ pos[t] < tail_pos
      /\ sequence'[i] = pos[t] + 1
      /\ \A j \in (0..Size-1) \ {i} : sequence'[j] = sequence[j]
  BY <1>2, <1>3, CellType, Zenon DEF IndInv, OwnersHoldCells, Seq0
<1>5. \A u \in Threads \ {t} : Owns(u) => Cell(pos[u]) # i
  BY <1>2, <1>3, OwnersApart, Zenon DEF ExclusiveCell, Owns
<1>6. \A p \in Nat : Cell(p) = i => sequence[i] # p + 1
  BY <1>3, <1>4, CellNext, Zenon
<1> HIDE DEF i, PushPublish, Goto, cells, locals
<1>7. PosBehindCounter'
  BY <1>2, <1>3, Zenon DEF IndInv, PosBehindCounter, Threads
<1>8. OwnersHoldCells'
  <2>0. \A u \in Threads : Cell(pos[u]) \in 0..Size-1
    BY <1>3, CellType, Zenon
  <2>1. ASSUME NEW u \in Producers, Writing(u)'
        PROVE  /\ head_pos' <= pos'[u] /\ pos'[u] < tail_pos'
               /\ Seq0(u)' = pos'[u]
               /\ pc'[u] = "push_publish" => data'[Cell(pos'[u])] = arg'[u]
    BY <1>2, <1>3, <1>4, <1>5, <2>0, <2>1, SMTT(30) DEF IndInv, OwnersHoldCells, Seq0, Owns, Threads
  <2>2. ASSUME NEW c \in Consumers, Reading(c)'
        PROVE  pos'[c] < head_pos' /\ Seq0(c)' = pos'[c] + 1
    BY <1>2, <1>3, <1>4, <1>5, <2>0, <2>2, QueueAssumption, Zenon
       DEF IndInv, OwnersHoldCells, Seq0, Owns, Threads
  <2> QED
    BY <1>2, <1>3, <2>1, <2>2, Zenon DEF IndInv, OwnersHoldCells, Threads
<1>9. CasIsSafe'
  <2>0. \A u \in Threads : pos[u] \in Nat /\ Cell(pos[u]) \in 0..Size-1
    BY <1>3, CellType, Zenon
  <2>1. ASSUME NEW u \in Producers, pc'[u] = "push_cas"
        PROVE  Seq0(u)' = pos'[u] \/ pos'[u] < tail_pos'
    BY <1>2, <1>3, <1>4, <2>0, <2>1, Zenon DEF IndInv, CasIsSafe, Seq0, Threads
  <2>2. ASSUME NEW c \in Consumers, pc'[c] = "pop_cas"
        PROVE  Seq0(c)' = pos'[c] + 1 \/ pos'[c] < head_pos'
    BY <1>2, <1>3, <1>4, <1>6, <2>0, <2>2, Zenon DEF IndInv, CasIsSafe, Seq0, Threads
  <2> QED
    BY <2>1, <2>2, Zenon DEF CasIsSafe
<1>10. CellsInLap'
  <2>1. Cell(pos[t] + 1) # i
    BY <1>3, CellNext, Zenon DEF i
  <2> QED
    BY <1>3, <1>4, <2>1 DEF IndInv, CellsInLap
<1>11. NoOrphanSlot'
  <2>1. ASSUME NEW p \in head_pos..(tail_pos - 1)
        PROVE  \/ sequence'[Cell(p)] = p + 1
               \/ \E u \in Producers : Writing(u)' /\ pos'[u] = p
    <3>0. p \in Nat
      BY <1>3
    <3>1. p \in Nat /\ Cell(p) \in 0..Size-1
      BY <3>0, CellType, Zenon
    <3>2. CASE p = pos[t]
      BY <1>4, <3>2, Zenon DEF i
    <3>3. CASE p # pos[t]
      <4>1. CASE sequence[Cell(p)] = p + 1
        BY <1>4, <1>6, <3>1, <4>1, Zenon
      <4>2. CASE \E u \in Producers : Writing(u) /\ pos[u] = p
        BY <1>2, <1>3, <3>3, <4>2, Zenon DEF Threads
      <4> QED
        BY <4>1, <4>2, Zenon DEF IndInv, NoOrphanSlot
    <3> QED
      BY <3>2, <3>3, Zenon
  <2> QED
    BY <1>3, <2>1, Zenon DEF IndInv, NoOrphanSlot
<1>12. NoStuckReader'
  <2>1. ASSUME NEW p \in 0..(head_pos - 1)
        PROVE  \/ sequence'[Cell(p)] >= p + Size
               \/ /\ sequence'[Cell(p)] = p + 1
                  /\ \E c \in Consumers : Reading(c)' /\ pos'[c] = p
    <3>0. p \in Nat
      BY <1>3
    <3>1. p \in Nat /\ Cell(p) \in 0..Size-1
      BY <3>0, CellType, Zenon
    <3>2. CASE sequence[Cell(p)] >= p + Size
      BY <1>3, <1>4, <3>1, <3>2, SizeFacts, SMTT(30)
    <3>3. CASE sequence[Cell(p)] = p + 1 /\ \E c \in Consumers : Reading(c) /\ pos[c] = p
      BY <1>2, <1>3, <1>4, <1>6, <3>1, <3>3, Zenon DEF Threads
    <3> QED
      BY <3>2, <3>3, Zenon DEF IndInv, NoStuckReader
  <2> QED
    BY <1>3, <2>1, Zenon DEF NoStuckReader
<1> QED
  BY <1>1, <1>7, <1>8, <1>9, <1>10, <1>11, <1>12, Zenon DEF IndInv

\* Handing the cell to the next lap.
LEMMA PopPublishKeepsInv ==
    ASSUME IndInv, NEW t \in Consumers, PopPublish(t)
    PROVE  IndInv'
<1> DEFINE i == Cell(pos[t])
<1> USE DEF PopPublish, Goto, cells, locals
<1>1. TypeOK'
  <2>1. pos[t] \in Nat /\ Cell(pos[t]) \in 0..Size-1
    BY CellType, Zenon DEF IndInv, TypeOK, Threads
  <2>2. sequence' \in [0..Size-1 -> Nat]
    BY <2>1, SizeFacts DEF IndInv, TypeOK
  <2>3. pc' \in [Threads -> Labels]
    BY ZenonT(30) DEF IndInv, TypeOK, Labels
  <2> QED
    BY <2>2, <2>3 DEF IndInv, TypeOK
<1>2. /\ \A u \in Threads \ {t} : pc'[u] = pc[u]
      /\ pc'[t] = "idle" /\ Reading(t) /\ ~Reading(t)'
      /\ \A u \in Threads \ {t} : (Reading(u)' <=> Reading(u))
      /\ \A u \in Threads : (Writing(u)' <=> Writing(u))
      /\ \A u \in Producers : pc'[u] = pc[u]
  BY QueueAssumption, Zenon DEF IndInv, TypeOK, Threads, Writing, Reading
<1>3. /\ pos' = pos /\ data' = data /\ arg' = arg
      /\ head_pos' = head_pos /\ tail_pos' = tail_pos
      /\ head_pos \in Nat /\ tail_pos \in Nat
      /\ t \in Threads /\ pos \in [Threads -> Nat] /\ sequence \in [0..Size-1 -> Nat]
  BY Zenon DEF IndInv, TypeOK, Threads
<1>4. /\ i \in 0..Size-1 /\ sequence[i] = pos[t] + 1 /\ pos[t] < head_pos
      /\ sequence'[i] = pos[t] + Size
      /\ \A j \in (0..Size-1) \ {i} : sequence'[j] = sequence[j]
  BY <1>2, <1>3, CellType, ZenonT(30) DEF IndInv, OwnersHoldCells, Seq0
<1>5. \A u \in Threads \ {t} : Owns(u) => Cell(pos[u]) # i
  BY <1>2, <1>3, OwnersApart, Zenon DEF ExclusiveCell, Owns
<1>6. \A p \in Nat : Cell(p) = i => sequence[i] # p
  BY <1>3, <1>4, CellNext, Zenon
<1> HIDE DEF i, PopPublish, Goto, cells, locals
<1>7. PosBehindCounter'
  BY <1>2, <1>3, Zenon DEF IndInv, PosBehindCounter, Threads
<1>8. OwnersHoldCells'
  <2>0. \A u \in Threads : Cell(pos[u]) \in 0..Size-1
    BY <1>3, CellType
  <2>1. ASSUME NEW u \in Producers, Writing(u)'
        PROVE  /\ head_pos' <= pos'[u] /\ pos'[u] < tail_pos'
               /\ Seq0(u)' = pos'[u]
               /\ pc'[u] = "push_publish" => data'[Cell(pos'[u])] = arg'[u]
    BY <1>2, <1>3, <1>4, <1>5, <2>0, <2>1, QueueAssumption, ZenonT(30)
       DEF IndInv, OwnersHoldCells, Seq0, Owns, Threads
  <2>2. ASSUME NEW c \in Consumers, Reading(c)'
        PROVE  pos'[c] < head_pos' /\ Seq0(c)' = pos'[c] + 1
    BY <1>2, <1>3, <1>4, <1>5, <2>0, <2>2 DEF IndInv, OwnersHoldCells, Seq0, Owns, Threads
  <2> QED
    BY <1>2, <1>3, <2>1, <2>2, Zenon DEF IndInv, OwnersHoldCells, Threads
<1>9. CasIsSafe'
  <2>0. \A u \in Threads : pos[u] \in Nat /\ Cell(pos[u]) \in 0..Size-1
    BY <1>3, CellType
  <2>1. ASSUME NEW u \in Producers, pc'[u] = "push_cas"
        PROVE  Seq0(u)' = pos'[u] \/ pos'[u] < tail_pos'
    BY <1>2, <1>3, <1>4, <1>6, <2>0, <2>1, Zenon DEF IndInv, CasIsSafe, Seq0, Threads
  <2>2. ASSUME NEW c \in Consumers, pc'[c] = "pop_cas"
        PROVE  Seq0(c)' = pos'[c] + 1 \/ pos'[c] < head_pos'
    BY <1>2, <1>3, <1>4, <2>0, <2>2, SMTT(30) DEF IndInv, CasIsSafe, Seq0, Threads
  <2> QED
    BY <2>1, <2>2, Zenon DEF CasIsSafe
<1>10. CellsInLap'
  <2>1. Cell(pos[t] + Size) = i
    BY <1>3, CellLap, Zenon DEF i
  <2>2. sequence[i] >= i
    BY <1>4, Zenon DEF IndInv, CellsInLap
  <2>3. sequence'[i] >= i /\ sequence'[i] < head_pos + Size
    BY <1>3, <1>4, <2>2, SizeFacts DEF i
  <2>4. /\ sequence'[i] >= i
        /\ Cell(sequence'[i]) = i => sequence'[i] < head_pos + Size
        /\ Cell(sequence'[i]) # i => sequence'[i] <= tail_pos
    BY <1>4, <2>1, <2>3, Zenon
  <2>5. ASSUME NEW j \in (0..Size-1) \ {i}
        PROVE  /\ sequence'[j] >= j
               /\ Cell(sequence'[j]) = j => sequence'[j] < head_pos + Size
               /\ Cell(sequence'[j]) # j => sequence'[j] <= tail_pos
    BY <1>4, <2>5, Zenon DEF IndInv, CellsInLap
  <2> QED
    BY <1>2, <1>3, <2>4, <2>5, Zenon DEF CellsInLap
<1>11. NoOrphanSlot'
  <2>1. ASSUME NEW p \in head_pos..(tail_pos - 1)
        PROVE  \/ sequence'[Cell(p)] = p + 1
               \/ \E u \in Producers : Writing(u)' /\ pos'[u] = p
    <3>0. p \in Nat
      BY <1>3
    <3>1. p \in Nat /\ Cell(p) \in 0..Size-1
      BY <3>0, CellType
    <3>2. CASE sequence[Cell(p)] = p + 1
      BY <1>3, <1>4, <3>1, <3>2
    <3>3. CASE \E u \in Producers : Writing(u) /\ pos[u] = p
      BY <1>2, <1>3, <3>3, Zenon DEF Threads
    <3> QED
      BY <3>2, <3>3, Zenon DEF IndInv, NoOrphanSlot
  <2> QED
    BY <1>3, <2>1, Zenon DEF IndInv, NoOrphanSlot
<1>12. NoStuckReader'
  <2>1. ASSUME NEW p \in 0..(head_pos - 1)
        PROVE  \/ sequence'[Cell(p)] >= p + Size
               \/ /\ sequence'[Cell(p)] = p + 1
                  /\ \E c \in Consumers : Reading(c)' /\ pos'[c] = p
    <3>0. p \in Nat
      BY <1>3
    <3>1. p \in Nat /\ Cell(p) \in 0..Size-1
      BY <3>0, CellType
    <3>2. CASE Cell(p) = i
      <4>1. sequence[Cell(p)] >= p + Size \/ sequence[Cell(p)] = p + 1
        BY Zenon DEF IndInv, NoStuckReader
      <4> QED
        BY <1>3, <1>4, <3>1, <3>2, <4>1, SizeFacts
    <3>3. CASE Cell(p) # i
      <4>1. sequence'[Cell(p)] = sequence[Cell(p)] /\ p # pos[t]
        BY <1>4, <3>1, <3>3, Zenon DEF i
      <4> QED
        BY <1>2, <1>3, <4>1, Zenon DEF IndInv, NoStuckReader, Threads
    <3> QED
      BY <3>2, <3>3, Zenon
  <2> QED
    BY <1>3, <2>1, Zenon DEF NoStuckReader
<1> QED
  BY <1>1, <1>7, <1>8, <1>9, <1>10, <1>11, <1>12 DEF IndInv

-----------------------------------------------------------------------------
\* The theorems

\* IndInv holds in every reachable state of the queue.
THEOREM Invariance == Spec => []IndInv
<1>1. Init => IndInv
  <2> SUFFICES ASSUME Init PROVE IndInv
    OBVIOUS
  <2> USE SizeFacts DEF Init
  <2>1. TypeOK
    BY DEF TypeOK, Labels, Threads
  <2>2. PosBehindCounter /\ OwnersHoldCells /\ CasIsSafe
    BY Zenon DEF PosBehindCounter, OwnersHoldCells, CasIsSafe, Writing, Reading, Threads
  <2>3. CellsInLap
    BY CellFirst DEF CellsInLap
  <2>4. NoOrphanSlot /\ NoStuckReader
    BY DEF NoOrphanSlot, NoStuckReader
  <2> QED
    BY <2>1, <2>2, <2>3, <2>4, Zenon DEF IndInv
<1>2. IndInv /\ [Next]_vars => IndInv'
  <2> SUFFICES ASSUME IndInv, [Next]_vars PROVE IndInv'
    OBVIOUS
  <2>1. ASSUME NEW t \in Producers, ProducerStep(t) PROVE IndInv'
    BY <2>1, ProducerLocalSteps, PushCasKeepsInv, PushDataKeepsInv, PushPublishKeepsInv, Zenon
       DEF ProducerStep
  <2>2. ASSUME NEW t \in Consumers, ConsumerStep(t) PROVE IndInv'
    BY <2>2, ConsumerLocalSteps, PopCasKeepsInv, PopDataKeepsInv, PopPublishKeepsInv, Zenon DEF
       ConsumerStep
  <2>3. CASE UNCHANGED vars
    BY <2>3 DEF vars, cells, locals, IndInv, TypeOK, PosBehindCounter, OwnersHoldCells, CasIsSafe,
                CellsInLap, NoOrphanSlot, NoStuckReader, Writing, Reading, Seq0
  <2> QED
    BY <2>1, <2>2, <2>3, Zenon DEF Next
<1> QED
  BY <1>1, <1>2, PTL DEF Spec

\* No two threads ever access the data of one cell at the same time.
THEOREM ExclusiveCellHolds == Spec => []ExclusiveCell
  BY Invariance, OwnersApart, PTL

\* Every claimed position is published or has a producer at work on it.
THEOREM NoOrphanSlotHolds == Spec => []NoOrphanSlot
<1>1. IndInv => NoOrphanSlot
  BY Zenon DEF IndInv
<1> QED
  BY <1>1, Invariance, PTL

\* try_push returns false only while the ring is full.
THEOREM RefusedOnlyWhenFullHolds == Spec => []RefusedOnlyWhenFull
<1>1. IndInv => RefusedOnlyWhenFull
  <2> SUFFICES ASSUME IndInv, NEW t \in Producers, pc[t] = "push_seq", Seq0(t) < pos[t]
               PROVE  /\ pos[t] = tail_pos
                      /\ \/ tail_pos = head_pos + Size
                         \/ \E c \in Consumers : Reading(c) /\ pos[c] = tail_pos - Size
    BY Zenon DEF RefusedOnlyWhenFull
  <2>1. /\ head_pos \in Nat /\ tail_pos \in Nat /\ pos[t] \in Nat
        /\ pos[t] <= tail_pos /\ head_pos <= tail_pos /\ tail_pos <= head_pos + Size
        /\ Cell(pos[t]) \in 0..Size-1 /\ sequence \in [0..Size-1 -> Nat]
        /\ sequence[Cell(pos[t])] < pos[t]
    <3>1. pos[t] \in Nat /\ sequence \in [0..Size-1 -> Nat]
      BY Zenon DEF IndInv, TypeOK, Threads
    <3>2. pos[t] <= tail_pos
      BY Zenon DEF IndInv, PosBehindCounter
    <3> QED
      BY <3>1, <3>2, CounterBounds, CellType, ZenonT(30) DEF Seq0
  <2>2. pos[t] >= head_pos
    <3>1. pos[t] < head_pos => sequence[Cell(pos[t])] >= pos[t] + Size \/ sequence[Cell(pos[t])] = pos[t] + 1
      BY <2>1 DEF IndInv, NoStuckReader
    <3> QED
      BY <2>1, <3>1, SizeFacts
  <2>3. pos[t] = tail_pos
    <3>1. pos[t] < tail_pos =>
             sequence[Cell(pos[t])] = pos[t] + 1
             \/ \E u \in Producers : Writing(u) /\ pos[u] = pos[t]
      BY <2>1, <2>2 DEF IndInv, NoOrphanSlot
    <3>2. \A u \in Producers : Writing(u) => sequence[Cell(pos[u])] = pos[u]
      BY Zenon DEF IndInv, OwnersHoldCells, Seq0
    <3> QED
      BY <2>1, <3>1, <3>2
  <2>4. tail_pos >= Size
    <3>1. tail_pos < Size => Cell(tail_pos) = tail_pos
      BY <2>1, CellFirst, SizeFacts
    <3>2. sequence[Cell(tail_pos)] >= Cell(tail_pos)
      BY <2>1, <2>3, Zenon DEF IndInv, CellsInLap
    <3> QED
      BY <2>1, <2>3, <3>1, <3>2, SizeFacts
  <2>5. Cell(tail_pos - Size) = Cell(tail_pos)
    <3>1. tail_pos - Size \in Nat /\ (tail_pos - Size) + Size = tail_pos
      BY <2>1, <2>4, SizeFacts
    <3> QED
      BY <3>1, CellLap, Zenon
  <2>6. CASE tail_pos - Size < head_pos
    <3>1. tail_pos - Size \in 0..(head_pos - 1)
      BY <2>1, <2>4, <2>6, SizeFacts
    <3>2. sequence[Cell(tail_pos)] < (tail_pos - Size) + Size
      BY <2>1, <2>3, SizeFacts
    <3>3. \/ sequence[Cell(tail_pos - Size)] >= (tail_pos - Size) + Size
          \/ \E c \in Consumers : Reading(c) /\ pos[c] = tail_pos - Size
      BY <3>1, Zenon DEF IndInv, NoStuckReader
    <3>4. ~(sequence[Cell(tail_pos - Size)] >= (tail_pos - Size) + Size)
      BY <2>1, <2>3, <2>5, <3>2, SizeFacts
    <3> QED
      BY <2>3, <3>3, <3>4, Zenon
  <2>7. CASE tail_pos - Size >= head_pos
    BY <2>1, <2>3, <2>7, SizeFacts
  <2> QED
    BY <2>1, <2>6, <2>7, SizeFacts
<1> QED
  BY <1>1, Invariance, PTL

\* try_pop returns false only while the oldest item is missing.
THEOREM RefusedOnlyWhenHeadMissingHolds == Spec => []RefusedOnlyWhenHeadMissing
<1>1. IndInv => RefusedOnlyWhenHeadMissing
  <2> SUFFICES ASSUME IndInv, NEW c \in Consumers, pc[c] = "pop_seq", Seq0(c) < pos[c] + 1
               PROVE  /\ pos[c] = head_pos
                      /\ \/ head_pos = tail_pos
                         \/ \E t \in Producers : Writing(t) /\ pos[t] = head_pos
    BY Zenon DEF RefusedOnlyWhenHeadMissing
  <2>1. /\ head_pos \in Nat /\ tail_pos \in Nat /\ pos[c] \in Nat
        /\ pos[c] <= head_pos /\ head_pos <= tail_pos
        /\ Cell(pos[c]) \in 0..Size-1 /\ sequence \in [0..Size-1 -> Nat]
        /\ sequence[Cell(pos[c])] < pos[c] + 1
    <3>1. pos[c] \in Nat /\ sequence \in [0..Size-1 -> Nat]
      BY Zenon DEF IndInv, TypeOK, Threads
    <3>2. pos[c] <= head_pos
      BY Zenon DEF IndInv, PosBehindCounter
    <3> QED
      BY <3>1, <3>2, CounterBounds, CellType, ZenonT(30) DEF Seq0
  <2>2. pos[c] = head_pos
    <3>1. pos[c] < head_pos => sequence[Cell(pos[c])] >= pos[c] + Size \/ sequence[Cell(pos[c])] = pos[c] + 1
      BY <2>1 DEF IndInv, NoStuckReader
    <3> QED
      BY <2>1, <3>1, SizeFacts
  <2>3. head_pos < tail_pos =>
           \/ sequence[Cell(head_pos)] = head_pos + 1
           \/ \E t \in Producers : Writing(t) /\ pos[t] = head_pos
    BY <2>1 DEF IndInv, NoOrphanSlot
  <2> QED
    BY <2>1, <2>2, <2>3
<1> QED
  BY <1>1, Invariance, PTL

\* Both refusals, of try_push and of try_pop, are justified at the instant they are made.
THEOREM RefusedRightlyHolds == Spec => []RefusedRightly
<1>1. RefusedOnlyWhenFull /\ RefusedOnlyWhenHeadMissing => RefusedRightly
  BY Zenon DEF RefusedRightly
<1> QED
  BY <1>1, RefusedOnlyWhenFullHolds, RefusedOnlyWhenHeadMissingHolds, PTL

\* empty answers true only on an empty queue.
THEOREM EmptyIsTruthfulHolds == Spec => []EmptyIsTruthful
<1>1. IndInv => EmptyIsTruthful
  BY CounterBounds DEF IndInv, TypeOK, PosBehindCounter, EmptyIsTruthful, Threads
<1> QED
  BY <1>1, Invariance, PTL

-----------------------------------------------------------------------------
\* The ring implements a bounded FIFO queue

\* The item of a claimed position that is not yet published is its producer's.
WriterItem == \A u \in Producers : Writing(u) => ItemAt(pos[u]) = arg[u]

\* The item at a position being written is the argument of its producer.
LEMMA WriterItemHolds == IndInv => WriterItem
<1> SUFFICES ASSUME IndInv, NEW u \in Producers, Writing(u)
             PROVE  ItemAt(pos[u]) = arg[u]
  BY Zenon DEF WriterItem
<1>1. pos[u] \in Nat /\ sequence[Cell(pos[u])] = pos[u]
  BY Zenon DEF IndInv, TypeOK, Threads, OwnersHoldCells, Seq0
<1>2. (CHOOSE t \in Producers : Writing(t) /\ pos[t] = pos[u]) = u
  BY Zenon DEF IndInv, OwnersHoldCells
<1>3. sequence[Cell(pos[u])] # pos[u] + 1
  BY <1>1
<1> QED
  BY <1>2, <1>3, Zenon DEF ItemAt

\* The same after a step.
LEMMA WriterItemHoldsNext == IndInv' => WriterItem'
  BY WriterItemHolds, PTL

\* The sequence of a cell that is being written, and of one that is being read.
LEMMA OwnedCell ==
    /\ \A t \in Producers : IndInv /\ Writing(t) => sequence[Cell(pos[t])] = pos[t]
    /\ \A c \in Consumers : IndInv /\ Reading(c) =>
          sequence[Cell(pos[c])] = pos[c] + 1 /\ pos[c] < head_pos
BY Zenon DEF IndInv, OwnersHoldCells, Seq0

\* When the published cells keep their items and no writer leaves, neither does
\* any queued item.
LEMMA ItemsStay ==
    ASSUME IndInv, IndInv',
           \A p \in head_pos..(tail_pos - 1) : sequence[Cell(p)] = p + 1 =>
               sequence'[Cell(p)] = p + 1 /\ data'[Cell(p)] = data[Cell(p)],
           \A u \in Producers : Writing(u) =>
               \/ Writing(u)' /\ pos'[u] = pos[u] /\ arg'[u] = arg[u]
               \/ sequence'[Cell(pos[u])] = pos[u] + 1 /\ data'[Cell(pos[u])] = arg[u]
    PROVE  \A p \in head_pos..(tail_pos - 1) : ItemAt(p)' = ItemAt(p)
<1> SUFFICES ASSUME NEW p \in head_pos..(tail_pos - 1)
             PROVE  ItemAt(p)' = ItemAt(p)
  OBVIOUS
<1>1. CASE sequence[Cell(p)] = p + 1
  BY <1>1, Zenon DEF ItemAt
<1>2. CASE sequence[Cell(p)] # p + 1
  <2>1. PICK u \in Producers : Writing(u) /\ pos[u] = p
    BY <1>2, Zenon DEF IndInv, NoOrphanSlot
  <2>2. ItemAt(p) = arg[u]
    BY <2>1, WriterItemHolds, Zenon DEF WriterItem
  <2>3. CASE Writing(u)' /\ pos'[u] = pos[u] /\ arg'[u] = arg[u]
    BY <2>1, <2>2, <2>3, WriterItemHoldsNext, Zenon DEF WriterItem
  <2>4. CASE sequence'[Cell(pos[u])] = pos[u] + 1 /\ data'[Cell(pos[u])] = arg[u]
    BY <2>1, <2>2, <2>4, Zenon DEF ItemAt
  <2> QED
    BY <2>1, <2>3, <2>4, Zenon
<1> QED
  BY <1>1, <1>2, Zenon

\* A step that keeps the counters, the queued items and what was delivered.
LEMMA StutterWhenItemsStay ==
    ASSUME IndInv, UNCHANGED <<head_pos, tail_pos>>,
           \A p \in head_pos..(tail_pos - 1) : ItemAt(p)' = ItemAt(p)
    PROVE  Queued' = Queued
<1>1. head_pos \in Nat /\ tail_pos \in Nat
  BY CounterBounds, Zenon
<1>2. \A i \in 1..(tail_pos - head_pos) : head_pos + i - 1 \in head_pos..(tail_pos - 1)
  BY <1>1
<1>3. \A i \in 1..(tail_pos - head_pos) : ItemAt(head_pos + i - 1)' = ItemAt(head_pos + i - 1)
  BY <1>2, Zenon
<1> QED
  BY <1>3, Zenon DEF Queued

\* Steps of a thread that owns no cell change nothing in the queue.
LEMMA LocalStepsStutter ==
    ASSUME IndInv, IndInv', NEW t \in Threads, ~Owns(t), ~Owns(t)', OthersStay(t),
           UNCHANGED <<head_pos, tail_pos, sequence, data, result>>
    PROVE  UNCHANGED <<Queued, Delivered>>
<1>1. \A u \in Producers : Writing(u) => Writing(u)' /\ pos'[u] = pos[u] /\ arg'[u] = arg[u]
  BY Zenon DEF OthersStay, Owns, Writing, Threads
<1>2. \A p \in head_pos..(tail_pos - 1) : ItemAt(p)' = ItemAt(p)
  BY <1>1, ItemsStay, Zenon
<1>3. \A c \in Consumers : (pc'[c] = "pop_data") <=> (pc[c] = "pop_data")
  BY Zenon DEF OthersStay, Owns, Reading, Threads
<1>4. \A c \in Consumers : pc[c] = "pop_data" => pos'[c] = pos[c]
  BY Zenon DEF OthersStay, Owns, Reading, Threads
<1>5. Delivered' = Delivered
  BY <1>3, <1>4, Zenon DEF Delivered
<1> QED
  BY <1>2, <1>5, StutterWhenItemsStay, Zenon

\* A won compare-and-swap on tail_pos appends the producer's item.
LEMMA PushCasPuts ==
    ASSUME IndInv, IndInv', NEW t \in Producers, PushCas(t)
    PROVE  Fifo!Put(arg[t]) /\ arg[t] \in Items
<1>1. /\ \A u \in Threads \ {t} : pc'[u] = pc[u]
      /\ pc[t] = "push_cas" /\ Writing(t)'
      /\ \A u \in Producers : Writing(u) => Writing(u)'
      /\ \A u \in Consumers : pc'[u] = pc[u]
  BY QueueAssumption, Zenon DEF IndInv, TypeOK, Threads, Writing, PushCas, Goto
<1>2. /\ pos' = pos /\ sequence' = sequence /\ data' = data /\ arg' = arg /\ result' = result
      /\ head_pos' = head_pos /\ tail_pos' = tail_pos + 1 /\ pos[t] = tail_pos
      /\ head_pos \in Nat /\ tail_pos \in Nat /\ head_pos <= tail_pos
      /\ tail_pos + 1 <= head_pos + Size
  <2>1. (tail_pos <= head_pos + Size)'
    BY CounterBounds, PTL
  <2> QED
    BY <2>1, CounterBounds, Zenon DEF PushCas, cells, locals
<1>3. \A p \in head_pos..(tail_pos - 1) : ItemAt(p)' = ItemAt(p)
  BY <1>1, <1>2, ItemsStay, ZenonT(30)
<1>4. PICK q \in Nat : q = tail_pos
  BY <1>2, Zenon
<1>5. ItemAt(q)' = arg[t]
  BY <1>1, <1>2, <1>4, WriterItemHoldsNext, Zenon DEF WriterItem
<1>6. Queued' = Append(Queued, arg[t])
  <2>1. /\ Queued' = [i \in 1..(tail_pos + 1 - head_pos) |-> Queued'[i]]
        /\ \A i \in 1..(tail_pos + 1 - head_pos) :
              \A p \in Nat : p = head_pos + i - 1 => Queued'[i] = ItemAt(p)'
    BY <1>2 DEF Queued
  <2>2. /\ Queued = [i \in 1..(tail_pos - head_pos) |-> Queued[i]]
        /\ Len(Queued) = tail_pos - head_pos
        /\ \A i \in 1..(tail_pos - head_pos) :
              \A p \in Nat : p = head_pos + i - 1 => Queued[i] = ItemAt(p)
    BY <1>2 DEF Queued
  <2>3. \A i \in 1..(tail_pos - head_pos) : Queued'[i] = Queued[i]
    <3> SUFFICES ASSUME NEW i \in 1..(tail_pos - head_pos)
                 PROVE  Queued'[i] = Queued[i]
      OBVIOUS
    <3>1. PICK p \in Nat : p = head_pos + i - 1
      BY <1>2
    <3>2. p \in head_pos..(tail_pos - 1) /\ i \in 1..(tail_pos + 1 - head_pos)
      BY <1>2, <3>1
    <3> QED
      BY <1>3, <2>1, <2>2, <3>1, <3>2, Zenon
  <2>4. Queued'[tail_pos - head_pos + 1] = arg[t]
    <3>1. /\ tail_pos - head_pos + 1 \in 1..(tail_pos + 1 - head_pos)
          /\ q = head_pos + (tail_pos - head_pos + 1) - 1
      BY <1>2, <1>4
    <3> QED
      BY <1>5, <2>1, <3>1, Zenon
  <2> QED
    BY <1>2, <2>1, <2>2, <2>3, <2>4
<1>7. Len(Queued) < Size
  BY <1>2, SizeFacts DEF Queued
<1>8. Delivered' = Delivered
  BY <1>1, <1>2, Zenon DEF Delivered
<1>9. arg[t] \in Items
  BY <1>1, Zenon DEF IndInv, TypeOK
<1> QED
  BY <1>6, <1>7, <1>8, <1>9, Zenon DEF Fifo!Put

\* A won compare-and-swap on head_pos takes the oldest item.
LEMMA PopCasGets ==
    ASSUME IndInv, IndInv', NEW t \in Consumers, PopCas(t)
    PROVE  Fifo!Get(t)
<1>1. /\ \A u \in Threads \ {t} : pc'[u] = pc[u]
      /\ pc[t] = "pop_cas" /\ pc'[t] = "pop_data"
      /\ \A u \in Producers : Writing(u) => Writing(u)'
  BY QueueAssumption, Zenon DEF IndInv, TypeOK, Threads, Writing, PopCas, Goto
<1>2. /\ pos' = pos /\ sequence' = sequence /\ data' = data /\ arg' = arg /\ result' = result
      /\ tail_pos' = tail_pos /\ head_pos' = head_pos + 1 /\ pos[t] = head_pos
      /\ head_pos \in Nat /\ tail_pos \in Nat
      /\ head_pos + 1 <= tail_pos
  <2>1. (head_pos <= tail_pos)'
    BY CounterBounds, PTL
  <2> QED
    BY <2>1, CounterBounds, Zenon DEF PopCas, cells, locals
<1>3. \A p \in head_pos..(tail_pos - 1) : ItemAt(p)' = ItemAt(p)
  BY <1>1, <1>2, ItemsStay, ZenonT(30)
<1>4. sequence[Cell(head_pos)] = head_pos + 1
  <2>1. sequence[Cell(pos[t])] = pos[t] + 1 \/ pos[t] < head_pos
    BY <1>1, Zenon DEF IndInv, CasIsSafe, Seq0
  <2> QED
    BY <1>2, <2>1
<1>5. ItemAt(head_pos) = data[Cell(head_pos)]
  BY <1>4, Zenon DEF ItemAt
<1>6. /\ Queued = [i \in 1..(tail_pos - head_pos) |-> ItemAt(head_pos + i - 1)]
      /\ Len(Queued) = tail_pos - head_pos /\ Queued # << >>
      /\ Head(Queued) = ItemAt(head_pos)
  <2>1. Head(Queued) = ItemAt(head_pos + 1 - 1)
    BY <1>2 DEF Queued
  <2> QED
    BY <1>2, <2>1 DEF Queued
<1>7. Queued' = Tail(Queued)
  <2>1. /\ Queued' = [i \in 1..(tail_pos - head_pos - 1) |-> Queued'[i]]
        /\ \A i \in 1..(tail_pos - head_pos - 1) :
              \A p \in Nat : p = head_pos + i => Queued'[i] = ItemAt(p)'
    <3>1. tail_pos' - head_pos' = tail_pos - head_pos - 1
      BY <1>2
    <3>2. \A i \in Int : head_pos' + i - 1 = head_pos + i
      BY <1>2
    <3> QED
      BY <3>1, <3>2 DEF Queued
  <2>2. /\ Tail(Queued) = [i \in 1..(tail_pos - head_pos - 1) |-> Queued[i + 1]]
        /\ \A i \in 1..(tail_pos - head_pos - 1) :
              \A p \in Nat : p = head_pos + i => Queued[i + 1] = ItemAt(p)
    <3>1. Tail(Queued) = [i \in 1..(tail_pos - head_pos - 1) |-> Queued[i + 1]]
      BY <1>2, <1>6
    <3>2. \A i \in 1..(tail_pos - head_pos - 1) : Queued[i + 1] = ItemAt(head_pos + i)
      BY <1>2 DEF Queued
    <3> QED
      BY <3>1, <3>2, Zenon
  <2>3. \A i \in 1..(tail_pos - head_pos - 1) : Queued'[i] = Queued[i + 1]
    <3> SUFFICES ASSUME NEW i \in 1..(tail_pos - head_pos - 1)
                 PROVE  Queued'[i] = Queued[i + 1]
      OBVIOUS
    <3>1. PICK p \in Nat : p = head_pos + i
      BY <1>2
    <3>2. p \in head_pos..(tail_pos - 1)
      BY <1>2, <3>1
    <3> QED
      BY <1>3, <2>1, <2>2, <3>1, <3>2, Zenon
  <2> QED
    BY <2>1, <2>2, <2>3, ZenonT(30)
<1>8. Delivered' = [Delivered EXCEPT ![t] = Head(Queued)]
  BY <1>1, <1>2, <1>5, <1>6, ZenonT(30) DEF Delivered, Threads
<1> QED
  BY <1>6, <1>7, <1>8, Zenon DEF Fifo!Get

\* The other steps of an owner change nothing in the queue.
LEMMA PushDataStutters ==
    ASSUME IndInv, IndInv', NEW t \in Producers, PushData(t)
    PROVE  UNCHANGED <<Queued, Delivered>>
<1>1. /\ Writing(t)
      /\ \A u \in Producers : Writing(u) => Writing(u)'
      /\ \A u \in Consumers : pc'[u] = pc[u]
  BY QueueAssumption, Zenon DEF IndInv, TypeOK, Threads, Writing, PushData, Goto
<1>2. /\ pos' = pos /\ sequence' = sequence /\ arg' = arg /\ result' = result
      /\ head_pos' = head_pos /\ tail_pos' = tail_pos
      /\ pos \in [Threads -> Nat] /\ data \in [0..Size-1 -> Items \cup {NoItem}]
      /\ data' = [data EXCEPT ![Cell(pos[t])] = arg[t]]
      /\ head_pos \in Nat /\ tail_pos \in Nat /\ t \in Threads
  BY Zenon DEF IndInv, TypeOK, Threads, PushData, locals
<1>3. \A p \in head_pos..(tail_pos - 1) : sequence[Cell(p)] = p + 1 => data'[Cell(p)] = data[Cell(p)]
  <2> SUFFICES ASSUME NEW p \in head_pos..(tail_pos - 1), sequence[Cell(p)] = p + 1
               PROVE  Cell(p) # Cell(pos[t])
    BY <1>2
  <2>1. p \in Nat /\ pos[t] \in Nat
    BY <1>2, SMTT(30)
  <2>2. sequence[Cell(pos[t])] = pos[t]
    BY <1>1, Zenon DEF IndInv, OwnersHoldCells, Seq0
  <2> QED
    BY <2>1, <2>2, CellNext, Zenon
<1>4. \A p \in head_pos..(tail_pos - 1) : ItemAt(p)' = ItemAt(p)
  BY <1>1, <1>2, <1>3, ItemsStay, Zenon
<1>5. \A c \in Consumers : pc[c] = "pop_data" => data'[Cell(pos[c])] = data[Cell(pos[c])]
  <2>1. \A c \in Consumers : pc[c] = "pop_data" => Cell(pos[c]) # Cell(pos[t])
    BY <1>1, <1>2, OwnersApart, QueueAssumption, Zenon DEF ExclusiveCell, Owns, Reading, Threads
  <2> QED
    BY <1>2, <2>1, SMTT(30)
<1>6. Delivered' = Delivered
  BY <1>1, <1>2, <1>5, Zenon DEF Delivered
<1> QED
  BY <1>2, <1>4, <1>6, StutterWhenItemsStay, Zenon

\* Publishing an item leaves the abstract queue as it is: the claim put it there.
LEMMA PushPublishStutters ==
    ASSUME IndInv, IndInv', NEW t \in Producers, PushPublish(t)
    PROVE  UNCHANGED <<Queued, Delivered>>
<1>1. /\ Writing(t) /\ pc[t] = "push_publish"
      /\ \A u \in Producers \ {t} : Writing(u) => Writing(u)'
      /\ \A u \in Consumers : pc'[u] = pc[u]
  BY QueueAssumption, Zenon DEF IndInv, TypeOK, Threads, Writing, PushPublish, Goto
<1>2. /\ pos' = pos /\ data' = data /\ arg' = arg /\ result' = result
      /\ head_pos' = head_pos /\ tail_pos' = tail_pos
      /\ pos \in [Threads -> Nat] /\ sequence \in [0..Size-1 -> Nat]
      /\ sequence' = [sequence EXCEPT ![Cell(pos[t])] = pos[t] + 1]
      /\ head_pos \in Nat /\ tail_pos \in Nat /\ t \in Threads
  BY Zenon DEF IndInv, TypeOK, Threads, PushPublish, locals
<1>3. \A p \in head_pos..(tail_pos - 1) : sequence[Cell(p)] = p + 1 => sequence'[Cell(p)] = p + 1
  <2> SUFFICES ASSUME NEW p \in head_pos..(tail_pos - 1), sequence[Cell(p)] = p + 1
               PROVE  Cell(p) # Cell(pos[t])
    BY <1>2
  <2>1. p \in Nat /\ pos[t] \in Nat
    BY <1>2, SMTT(30)
  <2>2. sequence[Cell(pos[t])] = pos[t]
    BY <1>1, OwnedCell, Zenon
  <2> QED
    BY <2>1, <2>2, CellNext
<1>4. sequence'[Cell(pos[t])] = pos[t] + 1 /\ data'[Cell(pos[t])] = arg[t]
  BY <1>1, <1>2, CellType, ZenonT(30) DEF IndInv, OwnersHoldCells
<1>5. \A p \in head_pos..(tail_pos - 1) : ItemAt(p)' = ItemAt(p)
  BY <1>1, <1>2, <1>3, <1>4, ItemsStay, Zenon
<1>6. Delivered' = Delivered
  BY <1>1, <1>2, Zenon DEF Delivered
<1> QED
  BY <1>2, <1>5, <1>6, StutterWhenItemsStay, Zenon

\* So does reading the claimed item, which the claim took out.
LEMMA PopDataStutters ==
    ASSUME IndInv, IndInv', NEW t \in Consumers, PopData(t)
    PROVE  UNCHANGED <<Queued, Delivered>>
<1>1. /\ pc[t] = "pop_data" /\ pc'[t] = "pop_publish"
      /\ \A u \in Threads \ {t} : pc'[u] = pc[u]
      /\ \A u \in Producers : Writing(u) => Writing(u)'
  BY QueueAssumption, Zenon DEF IndInv, TypeOK, Threads, Writing, PopData, Goto
<1>2. /\ pos' = pos /\ data' = data /\ arg' = arg /\ sequence' = sequence
      /\ head_pos' = head_pos /\ tail_pos' = tail_pos
      /\ result' = [result EXCEPT ![t] = data[Cell(pos[t])]]
      /\ result \in [Consumers -> Items \cup {NoItem}]
  BY Zenon DEF IndInv, TypeOK, PopData, cells
<1>3. \A p \in head_pos..(tail_pos - 1) : ItemAt(p)' = ItemAt(p)
  BY <1>1, <1>2, ItemsStay, ZenonT(30)
<1>4. Delivered' = Delivered
  BY <1>1, <1>2, ZenonT(30) DEF Delivered, Threads
<1> QED
  BY <1>2, <1>3, <1>4, StutterWhenItemsStay, Zenon

\* And so does giving the cell back.
LEMMA PopPublishStutters ==
    ASSUME IndInv, IndInv', NEW t \in Consumers, PopPublish(t)
    PROVE  UNCHANGED <<Queued, Delivered>>
<1>1. /\ Reading(t) /\ pc[t] = "pop_publish" /\ pc'[t] = "idle"
      /\ \A u \in Threads \ {t} : pc'[u] = pc[u]
      /\ \A u \in Producers : Writing(u) => Writing(u)'
  BY QueueAssumption, Zenon DEF IndInv, TypeOK, Threads, Writing, Reading, PopPublish, Goto
<1>2. /\ pos' = pos /\ data' = data /\ arg' = arg /\ result' = result
      /\ head_pos' = head_pos /\ tail_pos' = tail_pos
      /\ pos \in [Threads -> Nat] /\ sequence \in [0..Size-1 -> Nat]
      /\ sequence' = [sequence EXCEPT ![Cell(pos[t])] = pos[t] + Size]
      /\ head_pos \in Nat /\ tail_pos \in Nat /\ t \in Threads
  BY Zenon DEF IndInv, TypeOK, Threads, PopPublish, locals
<1>3. \A p \in head_pos..(tail_pos - 1) : sequence[Cell(p)] = p + 1 => sequence'[Cell(p)] = p + 1
  <2> SUFFICES ASSUME NEW p \in head_pos..(tail_pos - 1), sequence[Cell(p)] = p + 1
               PROVE  Cell(p) # Cell(pos[t])
    BY <1>2
  <2>1. p \in Nat /\ pos[t] \in Nat /\ p >= head_pos
    BY <1>2, SMTT(30)
  <2>2. sequence[Cell(pos[t])] = pos[t] + 1 /\ pos[t] < head_pos
    BY <1>1, OwnedCell, Zenon
  <2> QED
    BY <1>2, <2>1, <2>2
<1>4. \A p \in head_pos..(tail_pos - 1) : ItemAt(p)' = ItemAt(p)
  BY <1>1, <1>2, <1>3, ItemsStay, Zenon
<1>5. Delivered' = Delivered
  BY <1>1, <1>2, Zenon DEF Delivered, Threads
<1> QED
  BY <1>2, <1>4, <1>5, StutterWhenItemsStay, Zenon

\* The lock-free ring is a bounded FIFO queue: try_push and try_pop take effect
\* atomically, at their compare-and-swap.
THEOREM Refinement == Spec => ImplementsFifo
<1>1. Init => Fifo!FInit
  BY DEF Init, Fifo!FInit, Queued
<1>2. IndInv /\ IndInv' /\ [Next]_vars => [Fifo!FNext]_<<Queued, Delivered>>
  <2> SUFFICES ASSUME IndInv, IndInv', [Next]_vars
               PROVE  [Fifo!FNext]_<<Queued, Delivered>>
    OBVIOUS
  <2>1. ASSUME NEW t \in Producers,
               (\E v \in Items : Push(t, v)) \/ PushLoad(t) \/ PushSeqEqual(t) \/ PushRefused(t)
               \/ PushSeqAhead(t) \/ PushCasFails(t)
        PROVE  UNCHANGED <<Queued, Delivered>>
    <3>1. /\ ~Owns(t) /\ ~Owns(t)' /\ OthersStay(t)
          /\ UNCHANGED <<head_pos, tail_pos, sequence, data, result>>
      BY <2>1, QueueAssumption, Zenon DEF IndInv, TypeOK, Threads, Owns, Writing, Reading,
         OthersStay, Push, PushLoad, PushSeqEqual, PushRefused, PushSeqAhead, PushCasFails, Goto,
         cells, locals
    <3> QED
      BY <3>1, LocalStepsStutter, Zenon DEF Threads
  <2>2. ASSUME NEW t \in Consumers,
               PopLoad(t) \/ PopSeqEqual(t) \/ PopRefused(t) \/ PopSeqAhead(t)
               \/ PopCasFails(t) \/ EmptyHead(t) \/ EmptyTail(t)
        PROVE  UNCHANGED <<Queued, Delivered>>
    <3>1. /\ ~Owns(t) /\ ~Owns(t)' /\ OthersStay(t)
          /\ UNCHANGED <<head_pos, tail_pos, sequence, data, result>>
      BY <2>2, QueueAssumption, ZenonT(30) DEF IndInv, TypeOK, Threads, Owns, Writing, Reading,
         OthersStay, PopLoad, PopSeqEqual, PopRefused, PopSeqAhead, PopCasFails, EmptyHead, EmptyTail, Goto, cells, locals
    <3> QED
      BY <3>1, LocalStepsStutter, Zenon DEF Threads
  <2>3. ASSUME NEW t \in Producers, PushCas(t) PROVE Fifo!FNext
    BY <2>3, PushCasPuts, Zenon DEF Fifo!FNext
  <2>4. ASSUME NEW t \in Consumers, PopCas(t) PROVE Fifo!FNext
    BY <2>4, PopCasGets, Zenon DEF Fifo!FNext
  <2>5. CASE UNCHANGED vars
    <3>1. /\ head_pos' = head_pos /\ tail_pos' = tail_pos /\ sequence' = sequence /\ data' = data
          /\ pc' = pc /\ pos' = pos /\ arg' = arg /\ result' = result
      BY <2>5, Zenon DEF vars, cells, locals
    <3>2. \A p \in head_pos..(tail_pos - 1) : ItemAt(p)' = ItemAt(p)
      BY <3>1, ItemsStay, Zenon DEF Writing
    <3>3. Delivered' = Delivered
      BY <3>1, Zenon DEF Delivered
    <3> QED
      BY <3>1, <3>2, <3>3, StutterWhenItemsStay, Zenon
  <2>6. CASE \E t \in Producers : ProducerStep(t)
    BY <2>1, <2>3, <2>6, PushDataStutters, PushPublishStutters, Zenon DEF ProducerStep
  <2>7. CASE \E t \in Consumers : ConsumerStep(t)
    BY <2>2, <2>4, <2>7, PopDataStutters, PopPublishStutters, Zenon DEF ConsumerStep
  <2> QED
    BY <2>5, <2>6, <2>7, Zenon DEF Next
<1> QED
  BY <1>1, <1>2, Invariance, PTL DEF Spec, ImplementsFifo, Fifo!FSpec

=============================================================================
