---------------------------- MODULE ThreadProofs ----------------------------
(***************************************************************************)
(* Theorems about the threads of the library.  First an event loop on its  *)
(* thread, for any number of calling threads, any capacity of              *)
(* pendingFunctors and any number of calls: the facts about the loop are   *)
(* proved of EventLoop alone; every step of the composition is a step of   *)
(* the loop or leaves it alone, so they hold there too.  Then what         *)
(* ThreadPool::stop leaves behind, for any number of workers, threads and  *)
(* tasks and any capacity of the queue.                                    *)
(***************************************************************************)
EXTENDS EventloopThread, ThreadPool, TLAPS

Slots == [by : Threads, n : Nat \ {0}, published : BOOLEAN, early : BOOLEAN]

\* The loop's thread is inside a call only where it may make one.
LoopCalls == cpc[Loop] # "idle" => lpc \in {"new", "handle", "run"}

\* Before Loop() every functor of the loop's own thread is an early one.
EarlyMarked == lpc = "new" => \A i \in DOMAIN queue : queue[i].by = Loop => queue[i].early

\* A functor that needs a wakeup has one coming until Poll returns.
FunctorWakes ==
    lpc \in {"new", "test", "poll"} =>
        ((\E i \in DOMAIN queue : queue[i].published /\ ~queue[i].early) => WakeupComing)

QuitWakes == lpc = "poll" /\ quit => WakeupComing

\* Numbers grow along the functors run and then those queued, up to calls.
InOrder ==
    /\ RunInQueueOrder
    /\ \A i \in DOMAIN ran, j \in DOMAIN queue :
          ran[i][1] = queue[j].by => ran[i][2] < queue[j].n
    /\ \A i, j \in DOMAIN queue :
          i < j /\ queue[i].by = queue[j].by => queue[i].n < queue[j].n
    /\ \A j \in DOMAIN queue : queue[j].n <= calls[queue[j].by]
    /\ \A i \in DOMAIN ran : ran[i][2] <= calls[ran[i][1]]

WakeInv == TypeOK /\ LoopCalls /\ EarlyMarked /\ FunctorWakes /\ QuitWakes
LoopInv == WakeInv /\ InOrder

-----------------------------------------------------------------------------

\* A functor is named by its thread and its number.
LEMMA FunctorFacts ==
    /\ \A t \in Threads : MaxCalls[t] \in Nat
    /\ \A t \in Threads, n \in Nat \ {0} : n <= MaxCalls[t] => <<t, n>> \in Functors
    /\ \A f \in Functors : f[1] \in Threads /\ f[2] \in Nat \ {0}
<1>1. \A t \in Threads : MaxCalls[t] \in Nat
  BY LoopAssumption, Zenon DEF Threads
<1>2. ASSUME NEW t \in Threads, NEW n \in Nat \ {0}, n <= MaxCalls[t]
      PROVE  <<t, n>> \in Functors
  <2>1. n \in 1..MaxCalls[t]
    BY <1>1, <1>2
  <2>2. <<t, n>> \in {t} \X (1..MaxCalls[t])
    BY <2>1, Zenon
  <2> QED
    BY <2>2, Zenon DEF Functors
<1>3. ASSUME NEW f \in Functors
      PROVE  f[1] \in Threads /\ f[2] \in Nat \ {0}
  <2>1. PICK t \in Threads : f \in {t} \X (1..MaxCalls[t])
    BY Zenon DEF Functors
  <2> QED
    BY <2>1, <1>1
<1> QED
  BY <1>1, <1>2, <1>3, Zenon

\* What the sequences hold.
LEMMA QueueFacts ==
    ASSUME TypeOK
    PROVE  /\ queue \in Seq(Slots) /\ ran \in Seq(Functors)
           /\ DOMAIN queue = 1..Len(queue) /\ DOMAIN ran = 1..Len(ran)
           /\ \A j \in DOMAIN queue : queue[j].by \in Threads /\ queue[j].n \in Nat \ {0}
           /\ \A i \in DOMAIN ran : ran[i][1] \in Threads /\ ran[i][2] \in Nat \ {0}
<1>1. queue \in Seq(Slots) /\ ran \in Seq(Functors)
  BY Zenon DEF TypeOK, Slots
<1>2. DOMAIN queue = 1..Len(queue) /\ DOMAIN ran = 1..Len(ran)
  BY <1>1
<1>3. \A j \in DOMAIN queue : queue[j] \in Slots
  BY <1>1, <1>2
<1>4. \A i \in DOMAIN ran : ran[i] \in Functors
  BY <1>1, <1>2
<1>5. \A x \in Slots : x.by \in Threads /\ x.n \in Nat \ {0}
  BY Zenon DEF Slots
<1> QED
  BY <1>1, <1>2, <1>3, <1>4, <1>5, FunctorFacts, Zenon

-----------------------------------------------------------------------------
(* Every step, in terms of the queue: what follows looks no further into it. *)

\* Claiming a slot appends it, unpublished, under the caller's next number.
LEMMA ClaimFacts ==
    ASSUME TypeOK, NEW t \in Threads, QueueClaim(t)
    PROVE  /\ Slot(t) \in Slots /\ queue' = Append(queue, Slot(t))
           /\ Len(queue) < Size /\ MayCall(t)
           /\ calls[t] < MaxCalls[t] /\ calls' = [calls EXCEPT ![t] = calls[t] + 1]
           /\ cpc' = [cpc EXCEPT ![t] = "claimed"]
           /\ UNCHANGED <<readable, edge, quit, lpc, woken, ran, dropped>>
  BY DEF TypeOK, QueueClaim, Slot, Slots, Count, Goto, kernel

\* Publishing changes no slot but in its flag, and only slots of the caller.
LEMMA PublishFacts ==
    ASSUME TypeOK, NEW t \in Threads, QueuePublish(t)
    PROVE  /\ queue' \in Seq(Slots) /\ Len(queue') = Len(queue) /\ DOMAIN queue' = DOMAIN queue
           /\ \A i \in DOMAIN queue :
                 /\ queue'[i].by = queue[i].by /\ queue'[i].n = queue[i].n
                 /\ queue'[i].early = queue[i].early
                 /\ queue[i].by # t => queue'[i].published = queue[i].published
           /\ cpc[t] = "claimed"
           /\ cpc' = [cpc EXCEPT ![t] = IF t = Loop THEN "idle" ELSE "wake"]
           /\ UNCHANGED <<readable, edge, quit, lpc, woken, calls, ran, dropped>>
<1> DEFINE G(i) == IF queue[i].by = t THEN [queue[i] EXCEPT !.published = TRUE] ELSE queue[i]
<1>1. queue \in Seq(Slots) /\ queue' = [i \in 1..Len(queue) |-> G(i)]
  BY DEF TypeOK, Slots, QueuePublish
<1>2. \A i \in 1..Len(queue) :
        /\ G(i) \in Slots /\ G(i).by = queue[i].by /\ G(i).n = queue[i].n
        /\ G(i).early = queue[i].early
        /\ queue[i].by # t => G(i).published = queue[i].published
  <2> SUFFICES ASSUME NEW i \in 1..Len(queue)
               PROVE  /\ G(i) \in Slots /\ G(i).by = queue[i].by /\ G(i).n = queue[i].n
                      /\ G(i).early = queue[i].early
                      /\ queue[i].by # t => G(i).published = queue[i].published
    BY ZenonT(30)
  <2>1. queue[i] \in Slots
    BY <1>1
  <2> QED
    BY <2>1, ZenonT(30) DEF Slots
<1> HIDE DEF G
<1>3. queue' \in Seq(Slots) /\ Len(queue') = Len(queue) /\ DOMAIN queue' = DOMAIN queue
  BY <1>1, <1>2
<1>4. /\ cpc[t] = "claimed"
      /\ cpc' = [cpc EXCEPT ![t] = IF t = Loop THEN "idle" ELSE "wake"]
      /\ UNCHANGED <<readable, edge, quit, lpc, woken, calls, ran, dropped>>
  BY Zenon DEF QueuePublish, ThenWake, Goto, kernel
<1> QED
  BY <1>1, <1>2, <1>3, <1>4, Zenon

\* Running a functor takes the oldest slot.
LEMMA RunFacts ==
    ASSUME TypeOK, RunFunctor
    PROVE  /\ queue \in Seq(Slots) /\ queue # <<>> /\ queue' = Tail(queue)
           /\ queue[1] \in Slots
           /\ ran' = Append(ran, <<queue[1].by, queue[1].n>>)
           /\ lpc = "drain" /\ lpc' = "run"
           /\ UNCHANGED <<readable, edge, quit, woken, cpc, calls, dropped>>
<1>1. queue \in Seq(Slots) /\ queue # <<>>
  BY Zenon DEF TypeOK, Slots, RunFunctor
<1>2. queue[1] \in Slots /\ Head(queue) = queue[1]
  BY <1>1
<1> QED
  BY <1>1, <1>2, Zenon DEF RunFunctor, kernel, callers

-----------------------------------------------------------------------------
(* LoopInv is inductive. *)

\* InOrder does not change with the queue and ran, as long as calls only grows.
LEMMA OrderStays ==
    ASSUME TypeOK, InOrder, queue' = queue, ran' = ran,
           \A t \in Threads : calls'[t] \in Nat /\ calls[t] <= calls'[t]
    PROVE  InOrder'
<1>1. \A j \in DOMAIN queue : queue[j].by \in Threads /\ queue[j].n \in Nat
  BY QueueFacts, Zenon
<1>2. \A i \in DOMAIN ran : ran[i][1] \in Threads /\ ran[i][2] \in Nat
  BY QueueFacts, Zenon
<1>3. \A t \in Threads : calls[t] \in Nat
  BY Zenon DEF TypeOK
<1> QED
  BY <1>1, <1>2, <1>3 DEF InOrder, RunInQueueOrder

\* queueInLoop claims a slot.
LEMMA ClaimKeepsInv ==
    ASSUME LoopInv, NEW t \in Threads, QueueClaim(t)
    PROVE  LoopInv'
<1> USE DEF LoopInv, WakeInv
<1>1. /\ Slot(t) \in Slots /\ queue' = Append(queue, Slot(t))
      /\ Len(queue) < Size /\ MayCall(t)
      /\ calls[t] < MaxCalls[t] /\ calls' = [calls EXCEPT ![t] = calls[t] + 1]
      /\ cpc' = [cpc EXCEPT ![t] = "claimed"]
      /\ UNCHANGED <<readable, edge, quit, lpc, woken, ran, dropped>>
  BY ClaimFacts, Zenon
<1>2. Slot(t).by = t /\ Slot(t).n = calls[t] + 1 /\ ~Slot(t).published
      /\ (Slot(t).early <=> (t = Loop /\ lpc = "new"))
  BY ZenonT(30) DEF Slot
<1>3. queue \in Seq(Slots)
  BY Zenon DEF TypeOK, Slots
<1>4. /\ Len(queue') = Len(queue) + 1 /\ queue' \in Seq(Slots)
      /\ \A i \in 1..Len(queue) : queue'[i] = queue[i]
      /\ queue'[Len(queue) + 1] = Slot(t)
      /\ DOMAIN queue = 1..Len(queue) /\ DOMAIN queue' = 1..(Len(queue) + 1)
  BY <1>1, <1>3
<1>5. TypeOK'
  <2>1. queue' \in Seq([by : Threads, n : Nat \ {0}, published : BOOLEAN, early : BOOLEAN])
        /\ Len(queue') <= Size
    BY <1>1, <1>4, LoopAssumption DEF Slots
  <2>2. calls' \in [Threads -> Nat] /\ \A u \in Threads : calls'[u] <= MaxCalls[u]
    BY <1>1, FunctorFacts DEF TypeOK
  <2> QED
    BY <1>1, <2>1, <2>2, Zenon DEF TypeOK
<1>6. LoopCalls' /\ EarlyMarked'
  BY <1>1, <1>2, <1>4 DEF TypeOK, LoopCalls, EarlyMarked, MayCall
<1>7. WakeupComing => WakeupComing'
  BY <1>1 DEF TypeOK, WakeupComing, MayCall
<1>8. FunctorWakes' /\ QuitWakes'
  BY <1>1, <1>2, <1>4, <1>7 DEF FunctorWakes, QuitWakes
<1>9. InOrder'
  <2>1. \A u \in Threads : calls[u] \in Nat /\ calls'[u] \in Nat /\ calls[u] <= calls'[u]
    BY <1>1 DEF TypeOK
  <2>2. calls'[t] = calls[t] + 1
    BY <1>1, Zenon DEF TypeOK
  <2>3. \A j \in DOMAIN queue : queue[j].by \in Threads /\ queue[j].n \in Nat
    BY QueueFacts, Zenon
  <2>4. \A i \in DOMAIN ran : ran[i][1] \in Threads /\ ran[i][2] \in Nat
    BY QueueFacts, Zenon
  <2>5. RunInQueueOrder'
    BY <1>1, Zenon DEF InOrder, RunInQueueOrder
  <2>6. ASSUME NEW i \in DOMAIN ran, NEW j \in DOMAIN queue', ran[i][1] = queue'[j].by
        PROVE  ran[i][2] < queue'[j].n
    <3>1. CASE j \in DOMAIN queue
      BY <2>6, <3>1, <1>4, Zenon DEF InOrder
    <3>2. CASE j = Len(queue) + 1
      BY <2>6, <3>2, <1>2, <1>4, <2>1, <2>4 DEF InOrder
    <3> QED
      BY <3>1, <3>2, <1>3, <1>4
  <2>7. ASSUME NEW i \in DOMAIN queue', NEW j \in DOMAIN queue', i < j, queue'[i].by = queue'[j].by
        PROVE  queue'[i].n < queue'[j].n
    <3>1. CASE j \in DOMAIN queue
      BY <2>7, <3>1, <1>3, <1>4 DEF InOrder
    <3>2. CASE j = Len(queue) + 1
      <4>1. i \in DOMAIN queue
        BY <3>2, <2>7, <1>3, <1>4
      <4> QED
        BY <4>1, <2>7, <3>2, <1>2, <1>4, <2>1, <2>3 DEF InOrder
    <3> QED
      BY <3>1, <3>2, <1>3, <1>4
  <2>8. \A j \in DOMAIN queue' : queue'[j].n <= calls'[queue'[j].by]
    <3> SUFFICES ASSUME NEW j \in DOMAIN queue' PROVE queue'[j].n <= calls'[queue'[j].by]
      OBVIOUS
    <3>1. CASE j \in DOMAIN queue
      BY <3>1, <1>4, <2>1, <2>3 DEF InOrder
    <3>2. CASE j = Len(queue) + 1
      BY <3>2, <1>2, <1>4, <2>1, <2>2
    <3> QED
      BY <3>1, <3>2, <1>3, <1>4
  <2>9. \A i \in DOMAIN ran : ran[i][2] <= calls'[ran[i][1]]
    BY <2>1, <2>4 DEF InOrder
  <2> QED
    BY <1>1, <2>5, <2>6, <2>7, <2>8, <2>9, Zenon DEF InOrder
<1> QED
  BY <1>5, <1>6, <1>8, <1>9, Zenon

\* queueInLoop publishes its slot: a caller then owes a wakeup.
LEMMA PublishKeepsInv ==
    ASSUME LoopInv, NEW t \in Threads, QueuePublish(t)
    PROVE  LoopInv'
<1> USE DEF LoopInv, WakeInv
<1>1. /\ queue' \in Seq(Slots) /\ Len(queue') = Len(queue) /\ DOMAIN queue' = DOMAIN queue
      /\ \A i \in DOMAIN queue :
            /\ queue'[i].by = queue[i].by /\ queue'[i].n = queue[i].n
            /\ queue'[i].early = queue[i].early
            /\ queue[i].by # t => queue'[i].published = queue[i].published
      /\ cpc[t] = "claimed"
      /\ cpc' = [cpc EXCEPT ![t] = IF t = Loop THEN "idle" ELSE "wake"]
      /\ UNCHANGED <<readable, edge, quit, lpc, woken, calls, ran, dropped>>
  BY PublishFacts, Zenon
<1>2. TypeOK'
  <2>1. queue' \in Seq([by : Threads, n : Nat \ {0}, published : BOOLEAN, early : BOOLEAN])
        /\ Len(queue') <= Size
    BY <1>1, Zenon DEF TypeOK, Slots
  <2> QED
    BY <1>1, <2>1, Zenon DEF TypeOK
<1>3. LoopCalls' /\ EarlyMarked'
  BY <1>1, LoopAssumption, ZenonT(30) DEF TypeOK, LoopCalls, EarlyMarked, Threads
<1>4. WakeupComing => WakeupComing'
  BY <1>1 DEF TypeOK, WakeupComing
<1>5. t # Loop => WakeupComing'
  BY <1>1, Zenon DEF TypeOK, WakeupComing, Threads
<1>6. QuitWakes'
  BY <1>1, <1>4, Zenon DEF QuitWakes
<1>7. FunctorWakes'
  <2> SUFFICES ASSUME t = Loop, lpc \in {"new", "test", "poll"},
                      NEW i \in DOMAIN queue, queue'[i].published, ~queue'[i].early
               PROVE  WakeupComing'
    BY <1>1, <1>5, Zenon DEF FunctorWakes
  <2>1. lpc = "new"
    BY <1>1, Zenon DEF LoopCalls
  <2>2. queue[i].by # Loop
    BY <1>1, <2>1, Zenon DEF EarlyMarked
  <2> QED
    BY <1>1, <1>4, <2>2, Zenon DEF FunctorWakes
<1>8. InOrder'
  BY <1>1 DEF InOrder, RunInQueueOrder
<1> QED
  BY <1>2, <1>3, <1>6, <1>7, <1>8, Zenon

\* The loop runs the oldest functor.
LEMMA RunKeepsInv ==
    ASSUME LoopInv, RunFunctor
    PROVE  LoopInv'
<1> USE DEF LoopInv, WakeInv
<1> DEFINE f == <<queue[1].by, queue[1].n>>
<1>1. /\ queue \in Seq(Slots) /\ queue # <<>> /\ queue' = Tail(queue)
      /\ queue[1] \in Slots
      /\ ran' = Append(ran, f)
      /\ lpc = "drain" /\ lpc' = "run"
      /\ UNCHANGED <<readable, edge, quit, woken, cpc, calls, dropped>>
  BY RunFacts, Zenon
<1>2. /\ ran \in Seq(Functors) /\ DOMAIN queue = 1..Len(queue) /\ DOMAIN ran = 1..Len(ran)
      /\ \A j \in DOMAIN queue : queue[j].by \in Threads /\ queue[j].n \in Nat \ {0}
      /\ \A i \in DOMAIN ran : ran[i][1] \in Threads /\ ran[i][2] \in Nat \ {0}
  BY QueueFacts, Zenon
<1>3. /\ Len(queue) >= 1 /\ 1 \in DOMAIN queue
      /\ queue' \in Seq(Slots) /\ Len(queue') = Len(queue) - 1
      /\ DOMAIN queue' = 1..(Len(queue) - 1)
      /\ \A j \in 1..(Len(queue) - 1) : queue'[j] = queue[j + 1] /\ j + 1 \in DOMAIN queue
  BY <1>1, <1>2
<1>4. f \in Functors /\ f[1] = queue[1].by /\ f[2] = queue[1].n
  <2>1. queue[1].n <= calls[queue[1].by] /\ calls[queue[1].by] <= MaxCalls[queue[1].by]
        /\ calls[queue[1].by] \in Nat /\ MaxCalls[queue[1].by] \in Nat
    BY <1>2, <1>3, FunctorFacts, ZenonT(30) DEF InOrder, TypeOK
  <2>2. queue[1].n <= MaxCalls[queue[1].by]
    BY <1>2, <1>3, <2>1, SMTT(30)
  <2> QED
    BY <1>2, <1>3, <2>2, FunctorFacts, Zenon
<1> HIDE DEF f
<1>5. /\ ran' \in Seq(Functors) /\ DOMAIN ran' = 1..(Len(ran) + 1)
      /\ \A i \in DOMAIN ran : ran'[i] = ran[i]
      /\ ran'[Len(ran) + 1] = f
  BY <1>1, <1>2, <1>4
<1>6. TypeOK'
  <2>1. queue' \in Seq([by : Threads, n : Nat \ {0}, published : BOOLEAN, early : BOOLEAN])
    BY <1>3, Zenon DEF Slots
  <2>2. Len(queue') <= Size
    BY <1>1, <1>3, LoopAssumption DEF TypeOK
  <2> QED
    BY <1>1, <1>5, <2>1, <2>2, Zenon DEF TypeOK
<1>7. LoopCalls' /\ EarlyMarked' /\ FunctorWakes' /\ QuitWakes'
  BY <1>1, Zenon DEF LoopCalls, EarlyMarked, FunctorWakes, QuitWakes
<1>8. RunInQueueOrder'
  <2> SUFFICES ASSUME NEW i \in DOMAIN ran', NEW j \in DOMAIN ran', i < j, ran'[i][1] = ran'[j][1]
               PROVE  ran'[i][2] < ran'[j][2]
    BY Zenon DEF RunInQueueOrder
  <2>1. i \in DOMAIN ran
    BY <1>1, <1>2, <1>5
  <2>2. CASE j \in DOMAIN ran
    BY <1>5, <2>1, <2>2, Zenon DEF InOrder, RunInQueueOrder
  <2>3. CASE j = Len(ran) + 1
    BY <1>3, <1>4, <1>5, <2>1, <2>3, Zenon DEF InOrder
  <2> QED
    BY <1>1, <1>2, <1>5, <2>2, <2>3
<1>9. ASSUME NEW i \in DOMAIN ran', NEW j \in DOMAIN queue', ran'[i][1] = queue'[j].by
      PROVE  ran'[i][2] < queue'[j].n
  <2>1. CASE i \in DOMAIN ran
    BY <1>3, <1>5, <1>9, <2>1, ZenonT(30) DEF InOrder
  <2>2. CASE i = Len(ran) + 1
    <3>1. 1 < j + 1 /\ j + 1 \in DOMAIN queue /\ queue'[j] = queue[j + 1]
      BY <1>1, <1>3
    <3> QED
      BY <1>3, <1>4, <1>5, <1>9, <2>2, <3>1 DEF InOrder
  <2> QED
    BY <1>2, <1>5, <2>1, <2>2
<1>10. ASSUME NEW i \in DOMAIN queue', NEW j \in DOMAIN queue', i < j, queue'[i].by = queue'[j].by
       PROVE  queue'[i].n < queue'[j].n
  <2>1. i + 1 < j + 1 /\ i + 1 \in DOMAIN queue /\ j + 1 \in DOMAIN queue
        /\ queue'[i] = queue[i + 1] /\ queue'[j] = queue[j + 1]
    BY <1>1, <1>3, <1>10
  <2> QED
    BY <1>10, <2>1, Zenon DEF InOrder
<1>11. \A j \in DOMAIN queue' : queue'[j].n <= calls'[queue'[j].by]
  BY <1>1, <1>3, Zenon DEF InOrder
<1>12. \A i \in DOMAIN ran' : ran'[i][2] <= calls'[ran'[i][1]]
  <2> SUFFICES ASSUME NEW i \in DOMAIN ran' PROVE ran'[i][2] <= calls'[ran'[i][1]]
    OBVIOUS
  <2>1. CASE i \in DOMAIN ran
    BY <1>1, <1>5, <2>1, Zenon DEF InOrder
  <2>2. CASE i = Len(ran) + 1
    BY <1>1, <1>3, <1>4, <1>5, <2>2 DEF InOrder
  <2> QED
    BY <1>2, <1>5, <2>1, <2>2
<1> QED
  BY <1>6, <1>7, <1>8, <1>9, <1>10, <1>11, <1>12, Zenon DEF InOrder

\* queueInLoop on a full queue.
LEMMA GivesUpKeepsInv ==
    ASSUME LoopInv, NEW t \in Threads, QueueGivesUp(t)
    PROVE  LoopInv'
<1> USE DEF LoopInv, WakeInv
<1>1. /\ MayCall(t) /\ calls[t] < MaxCalls[t] /\ calls' = [calls EXCEPT ![t] = calls[t] + 1]
      /\ dropped' = dropped \cup {<<t, calls[t] + 1>>}
      /\ cpc' = [cpc EXCEPT ![t] = IF t = Loop THEN "idle" ELSE "wake"]
      /\ UNCHANGED <<queue, readable, edge, quit, lpc, woken, ran>>
  BY Zenon DEF QueueGivesUp, Count, ThenWake, Goto, kernel
<1>2. /\ calls \in [Threads -> Nat] /\ calls' \in [Threads -> Nat]
      /\ \A u \in Threads : calls[u] <= calls'[u] /\ calls'[u] <= MaxCalls[u]
  BY <1>1, FunctorFacts DEF TypeOK
<1>3. <<t, calls[t] + 1>> \in Functors
  BY <1>1, <1>2, FunctorFacts
<1>4. TypeOK'
  BY <1>1, <1>2, <1>3, ZenonT(30) DEF TypeOK
<1>5. WakeupComing => WakeupComing'
  BY <1>1 DEF TypeOK, WakeupComing, MayCall
<1>6. LoopCalls' /\ EarlyMarked' /\ FunctorWakes' /\ QuitWakes'
  BY <1>1, <1>5, LoopAssumption, Zenon
     DEF TypeOK, LoopCalls, EarlyMarked, FunctorWakes, QuitWakes, MayCall, Threads
<1>7. InOrder'
  BY <1>1, <1>2, OrderStays, Zenon
<1> QED
  BY <1>4, <1>6, <1>7, Zenon

\* quit_, whose caller then owes a wakeup.
LEMMA QuitKeepsInv ==
    ASSUME LoopInv, NEW t \in Threads, Quit(t)
    PROVE  LoopInv'
<1> USE DEF LoopInv, WakeInv
<1>1. /\ MayCall(t) /\ quit' = TRUE
      /\ cpc' = [cpc EXCEPT ![t] = IF t = Loop THEN "idle" ELSE "wake"]
      /\ UNCHANGED <<queue, readable, edge, lpc, woken, calls, ran, dropped>>
  BY Zenon DEF Quit, ThenWake, Goto, kernel
<1>2. TypeOK'
  BY <1>1, Zenon DEF TypeOK
<1>3. WakeupComing => WakeupComing'
  BY <1>1 DEF TypeOK, WakeupComing, MayCall
<1>4. t # Loop => WakeupComing'
  BY <1>1, Zenon DEF TypeOK, WakeupComing, Threads
<1>5. LoopCalls' /\ EarlyMarked' /\ FunctorWakes'
  BY <1>1, <1>3, LoopAssumption, Zenon
     DEF TypeOK, LoopCalls, EarlyMarked, FunctorWakes, MayCall, Threads
<1>6. QuitWakes'
  BY <1>1, <1>4, Zenon DEF QuitWakes, MayCall
<1>7. InOrder'
  BY <1>1, OrderStays DEF TypeOK
<1> QED
  BY <1>2, <1>5, <1>6, <1>7, Zenon

\* The wakeup itself.
LEMMA WakeupKeepsInv ==
    ASSUME LoopInv, NEW t \in Threads, Wakeup(t)
    PROVE  LoopInv'
<1> USE DEF LoopInv, WakeInv
<1>1. /\ cpc[t] = "wake" /\ cpc' = [cpc EXCEPT ![t] = "idle"]
      /\ readable' = TRUE /\ edge' = TRUE
      /\ UNCHANGED <<queue, quit, lpc, woken, calls, ran, dropped>>
  BY Zenon DEF Wakeup, Goto
<1>2. TypeOK'
  BY <1>1, Zenon DEF TypeOK
<1>3. WakeupComing'
  BY <1>1, Zenon DEF WakeupComing
<1>4. LoopCalls' /\ EarlyMarked' /\ FunctorWakes' /\ QuitWakes'
  BY <1>1, <1>3, LoopAssumption, Zenon
     DEF TypeOK, LoopCalls, EarlyMarked, FunctorWakes, QuitWakes, Threads
<1>5. InOrder'
  BY <1>1, OrderStays DEF TypeOK
<1> QED
  BY <1>2, <1>4, <1>5

\* The steps of Loop() that leave the queue alone.
LEMMA LoopKeepsInv ==
    ASSUME LoopInv,
           LoopStart \/ LoopTest \/ PollReturns \/ HandleWakeup \/ HandleDone
           \/ Drained \/ FunctorReturns
    PROVE  LoopInv'
<1> USE DEF LoopInv, WakeInv
<1>1. UNCHANGED <<queue, cpc, calls, dropped, quit, ran>>
  BY Zenon DEF LoopStart, LoopTest, PollReturns, HandleWakeup, HandleDone, Drained,
     FunctorReturns, callers
<1>2. TypeOK'
  BY <1>1, ZenonT(30) DEF TypeOK, LoopStart, LoopTest, PollReturns, HandleWakeup, HandleDone,
     Drained, FunctorReturns, kernel
<1>3. InOrder'
  BY <1>1, OrderStays DEF TypeOK
<1>4. EarlyMarked'
  BY <1>1, Zenon DEF EarlyMarked, LoopStart, LoopTest, PollReturns, HandleWakeup, HandleDone,
     Drained, FunctorReturns
<1>5. LoopCalls'
  BY <1>1, Zenon DEF LoopCalls, LoopStart, LoopTest, PollReturns, HandleWakeup, HandleDone,
     Drained, FunctorReturns
<1>6. CASE LoopStart \/ LoopTest
  <2>1. WakeupComing' <=> WakeupComing
    BY <1>1, <1>6 DEF WakeupComing, LoopStart, LoopTest, kernel
  <2> QED
    BY <1>1, <1>2, <1>3, <1>4, <1>5, <1>6, <2>1, Zenon
       DEF FunctorWakes, QuitWakes, LoopStart, LoopTest
<1>7. CASE PollReturns \/ HandleWakeup \/ HandleDone \/ FunctorReturns
  BY <1>2, <1>3, <1>4, <1>5, <1>7, Zenon
     DEF FunctorWakes, QuitWakes, PollReturns, HandleWakeup, HandleDone, FunctorReturns
<1>8. CASE Drained
  <2>1. DOMAIN queue = {}
    BY <1>8 DEF Drained
  <2> QED
    BY <1>1, <1>2, <1>3, <1>4, <1>5, <1>8, <2>1, Zenon DEF FunctorWakes, QuitWakes, Drained
<1> QED
  BY <1>6, <1>7, <1>8, Zenon

\* Nothing happens to the loop.
LEMMA StutterKeepsInv == LoopInv /\ UNCHANGED vars => LoopInv'
  BY DEF LoopInv, WakeInv, TypeOK, LoopCalls, EarlyMarked, FunctorWakes, QuitWakes, WakeupComing,
         InOrder, RunInQueueOrder, vars

\* LoopInv is inductive.
LEMMA LoopInvStep == LoopInv /\ [Next]_vars => LoopInv'
<1> SUFFICES ASSUME LoopInv, [Next]_vars PROVE LoopInv'
  OBVIOUS
<1>1. CASE \E t \in Threads : QueueClaim(t) \/ QueueGivesUp(t) \/ Quit(t) \/ CallerStep(t)
  BY <1>1, ClaimKeepsInv, GivesUpKeepsInv, QuitKeepsInv, PublishKeepsInv, WakeupKeepsInv, Zenon
     DEF CallerStep
<1>2. CASE LoopStep
  <2>1. CASE PopFails
    BY <2>1, StutterKeepsInv, Zenon DEF PopFails
  <2> QED
    BY <1>2, <2>1, RunKeepsInv, LoopKeepsInv, Zenon DEF LoopStep
<1>3. CASE Stopped \/ UNCHANGED vars
  BY <1>3, StutterKeepsInv, Zenon DEF Stopped
<1> QED
  BY <1>1, <1>2, <1>3, Zenon DEF Next

\* A loop that has just been constructed.
LEMMA LoopInvInit == Init => LoopInv
<1> SUFFICES ASSUME Init PROVE LoopInv
  OBVIOUS
<1>1. TypeOK
  <2>1. <<>> \in Seq([by : Threads, n : Nat \ {0}, published : BOOLEAN, early : BOOLEAN])
        /\ Len(<<>>) = 0 /\ <<>> \in Seq(Functors)
    OBVIOUS
  <2>2. 0 <= Size /\ \A t \in Threads : 0 <= MaxCalls[t]
    BY LoopAssumption, FunctorFacts
  <2>3. calls \in [Threads -> Nat] /\ \A t \in Threads : calls[t] <= MaxCalls[t]
    BY <2>2, Zenon DEF Init
  <2>4. cpc \in [Threads -> {"idle", "claimed", "wake"}]
    BY Zenon DEF Init
  <2> QED
    BY <2>1, <2>2, <2>3, <2>4, ZenonT(30) DEF Init, TypeOK
<1>2. DOMAIN queue = {} /\ DOMAIN ran = {}
  BY DEF Init
<1> QED
  BY <1>1, <1>2, Zenon DEF LoopInv, WakeInv, LoopCalls, EarlyMarked, FunctorWakes, QuitWakes,
     InOrder, RunInQueueOrder, Init, Threads

\* What LoopInv is for.
LEMMA LoopInvImplies == LoopInv => TypeOK /\ NoLostWakeup /\ RunInQueueOrder
  BY Zenon DEF LoopInv, WakeInv, NoLostWakeup, FunctorWakes, QuitWakes, InOrder

-----------------------------------------------------------------------------
(* The loop alone *)

\* The loop's invariant holds of EventLoop on its own.
THEOREM LoopInvariance == Spec => []LoopInv
  BY LoopInvInit, LoopInvStep, PTL DEF Spec

-----------------------------------------------------------------------------
(* The loop on its thread *)

\* Every step of the composition is a step of the loop or leaves it alone.
LEMMA StepOfLoop == [TNext]_tvars => [Next]_vars
<1> SUFFICES ASSUME [TNext]_tvars PROVE [Next]_vars
  OBVIOUS
<1>1. CASE BaseStep
  <2>1. CASE DtorQuit
    BY <2>1, BaseAssumption, Zenon DEF DtorQuit, Next, Threads
  <2>2. CASE StartThread \/ LatchWait \/ LoopWait \/ DtorTest \/ DtorJoin
    BY <2>2, Zenon DEF StartThread, LatchWait, LoopWait, DtorTest, DtorJoin
  <2> QED
    BY <1>1, <2>1, <2>2, Zenon DEF BaseStep
<1>2. CASE SpuriousWakeup \/ Destroy \/ TOver \/ UNCHANGED tvars
  BY <1>2, Zenon DEF SpuriousWakeup, Destroy, TOver, tvars
<1>3. CASE ThreadStep
  <2>1. CASE RunLoop
    BY <2>1, Zenon DEF RunLoop, Next
  <2>2. CASE CountDown \/ Construct \/ InitCallback \/ Publish \/ LoopReturns \/ Retract \/ Leave
    BY <2>2, Zenon DEF CountDown, Construct, InitCallback, Publish, LoopReturns, Retract, Leave
  <2> QED
    BY <1>3, <2>1, <2>2, Zenon DEF ThreadStep
<1>4. CASE \E t \in Threads : UserQueues(t) \/ UserQuits(t) \/ UserStep(t)
  BY <1>4, Zenon DEF UserQueues, UserQuits, UserStep, Next
<1> QED
  BY <1>1, <1>2, <1>3, <1>4, Zenon DEF TNext

\* An I/O thread runs its EventLoop as EventLoop describes it, so whatever holds of
\* the one holds of the other.
THEOREM ThreadImplementsLoop == TSpec => Spec
<1>1. TInit => Init
  BY Zenon DEF TInit
<1> QED
  BY <1>1, StepOfLoop, PTL DEF TSpec, Spec

\* pendingFunctors never exceeds its capacity (and the state has its types).
THEOREM TypeOKHolds == TSpec => []TypeOK
  BY LoopInvImplies, LoopInvariance, ThreadImplementsLoop, PTL

\* A thread that queues a functor or quits the loop never leaves the loop asleep in
\* Poll: for any number of callers the eventfd has an edge, or is about to have.
THEOREM NoLostWakeupHolds == TSpec => []NoLostWakeup
  BY LoopInvImplies, LoopInvariance, ThreadImplementsLoop, PTL

\* The functors of each thread run in the order queued, and none twice.
THEOREM RunInQueueOrderHolds == TSpec => []RunInQueueOrder
  BY LoopInvImplies, LoopInvariance, ThreadImplementsLoop, PTL

-----------------------------------------------------------------------------
(* The pointer to the loop *)

\* The loop is quit by its users or by the destructor, Loop() returns only then, the
\* thread goes on only after that, and the pointer is set only in between.
PointerInv ==
    /\ bpc = "start" => tpc = "none"
    /\ quit => quitters # {} \/ bpc \in {"join", "gone"}
    /\ lpc = "done" => quit
    /\ tpc \in {"retract", "leave", "exit"} => lpc = "done"
    /\ loop => tpc \in {"loop", "retract"}
    /\ bpc \in {"serve", "test", "quit"} => tpc \in {"loop", "retract", "leave", "exit"}
    /\ \A t \in Threads : cpc[t] # "idle" => tpc \notin {"none", "created", "construct"}
    /\ tpc \in {"none", "created", "construct", "init", "publish", "loop", "retract", "leave", "exit"}
    /\ DOMAIN cpc = Threads

\* Calls of the loop's users change none of this but quit, and where they are.
LEMMA UserKeepsPointer ==
    ASSUME PointerInv, NEW t \in Threads, UserQueues(t) \/ UserQuits(t) \/ UserStep(t)
    PROVE  PointerInv'
<1>1. UNCHANGED <<lpc, bpc, tpc, loop>>
  BY Zenon DEF UserQueues, UserQuits, UserStep, CallerStep, QueueClaim, QueueGivesUp, Quit,
     QueuePublish, Wakeup, base, thread
<1>2. \/ UNCHANGED <<quit, quitters>>
      \/ quit' = TRUE /\ quitters' # {}
  BY Zenon DEF UserQueues, UserQuits, UserStep, CallerStep, QueueClaim, QueueGivesUp, Quit,
     QueuePublish, Wakeup
<1>0. PICK l : cpc' = [cpc EXCEPT ![t] = l] /\ (cpc[t] # "idle" \/ MayUse(t))
  BY Zenon DEF UserQueues, UserQuits, UserStep, CallerStep, QueueClaim, QueueGivesUp, Quit,
     QueuePublish, Wakeup, Goto, ThenWake
<1>3. DOMAIN cpc' = Threads /\ \A u \in Threads : cpc'[u] # "idle" => cpc[u] # "idle" \/ MayUse(u)
  BY <1>0, Zenon DEF PointerInv
<1>4. \A u \in Threads : cpc'[u] # "idle" => tpc \notin {"none", "created", "construct"}
  BY <1>3, Zenon DEF PointerInv, MayUse
<1> QED
  BY <1>1, <1>2, <1>3, <1>4 DEF PointerInv

\* PointerInv is inductive.
LEMMA PointerStep == PointerInv /\ [TNext]_tvars => PointerInv'
<1> SUFFICES ASSUME PointerInv, [TNext]_tvars PROVE PointerInv'
  OBVIOUS
<1>1. CASE BaseStep
  <2>1. CASE DtorQuit
    <3>1. /\ UNCHANGED <<lpc, tpc, loop, quitters>> /\ bpc = "quit" /\ bpc' = "join" /\ quit'
          /\ DOMAIN cpc' = DOMAIN cpc
      BY <2>1, Zenon DEF DtorQuit, Quit, At, BaseGoes, thread, Goto, ThenWake
    <3>2. tpc \notin {"none", "created", "construct"}
      BY <3>1, Zenon DEF PointerInv
    <3> QED
      BY <3>1, <3>2, Zenon DEF PointerInv
  <2>2. CASE StartThread \/ LatchWait \/ LoopWait \/ DtorTest \/ DtorJoin
    BY <2>2 DEF PointerInv, StartThread, LatchWait, LoopWait, DtorTest, DtorJoin, At, BaseGoes,
                BaseWaits, thread, vars
  <2> QED
    BY <1>1, <2>1, <2>2, Zenon DEF BaseStep
<1>2. CASE SpuriousWakeup \/ Destroy \/ TOver \/ UNCHANGED tvars
  BY <1>2 DEF PointerInv, SpuriousWakeup, Destroy, TOver, At, BaseGoes, Wakes, tvars, vars, base,
     thread
<1>3. CASE ThreadStep
  <2>1. CASE RunLoop
    <3>1. /\ UNCHANGED <<quit, bpc, tpc, loop, quitters, cpc>>
          /\ lpc # "done"
          /\ lpc' = "done" => quit
      BY <2>1, Zenon DEF RunLoop, LoopStep, LoopStart, LoopTest, PollReturns, HandleWakeup,
         HandleDone, Drained, PopFails, RunFunctor, FunctorReturns, callers, base, thread, vars
    <3> QED
      BY <3>1, Zenon DEF PointerInv
  <2>2. CASE CountDown \/ Construct \/ InitCallback \/ Publish \/ LoopReturns \/ Retract \/ Leave
    BY <2>2 DEF PointerInv, CountDown, Construct, InitCallback, Publish, LoopReturns, Retract,
       Leave, Moves, Wakes, vars, base
  <2> QED
    BY <1>3, <2>1, <2>2, Zenon DEF ThreadStep
<1>4. CASE \E t \in Threads : UserQueues(t) \/ UserQuits(t) \/ UserStep(t)
  BY <1>4, UserKeepsPointer, Zenon
<1> QED
  BY <1>1, <1>2, <1>3, <1>4, Zenon DEF TNext

\* The pointer `loop` is valid while it is set; and until `quit' is set every call of the
\* loop under way, and ~EventloopThread about to enter quit_ with the pointer it read
\* without the mutex (EventloopThread.cpp:21), finds a living EventLoop.
THEOREM NoDanglingLoopHolds == TSpec => []NoDanglingLoop
<1>1. TInit => PointerInv
  BY Zenon DEF TInit, Init, PointerInv
<1>2. PointerInv => NoDanglingLoop
  BY Zenon DEF PointerInv, NoDanglingLoop, Alive
<1> QED
  BY <1>1, <1>2, PointerStep, PTL DEF TSpec

-----------------------------------------------------------------------------
(* The pool. *)

Entry == [task : SubmitThreads \X Nat, published : BOOLEAN]

Types ==
    /\ taskQueue \in Seq(Entry)
    /\ opc \in {"new", "create", "latch", "serve", "join", "gone"}
    /\ next \in Workers
    /\ wpc \in [Workers -> {"none", "created", "test", "pop", "run", "drain", "drainrun", "exit"}]
    /\ claimed \subseteq SubmitThreads

Stopping == opc \in {"join", "gone"}

\* Where the owner is tells where the workers may be.
Owner ==
    /\ running <=> opc \in {"create", "latch", "serve"}
    /\ opc = "new" => \A w \in Workers : wpc[w] = "none"
    /\ opc = "create" => \A w \in Workers : next <= w => wpc[w] = "none"
    /\ opc = "latch" => \A w \in Workers : next < w => wpc[w] = "none"
    /\ opc = "serve" => next = 1
    /\ opc = "join" => \A w \in Workers : w < next => wpc[w] = "exit"
    /\ opc = "gone" => \A w \in Workers : wpc[w] = "exit"
    /\ \A w \in Workers : wpc[w] \in {"drain", "drainrun", "exit"} => Stopping

\* A slot that is not published has a thread that will publish it: a worker in a task,
\* or a thread that was in submit when stop was called or calls it since.
Claims ==
    /\ \A w \in Workers : w \in claimed => wpc[w] \in {"run", "drainrun"}
    /\ \A i \in DOMAIN taskQueue : ~taskQueue[i].published =>
          /\ taskQueue[i].task[1] \in claimed
          /\ Stopping /\ taskQueue[i].task[1] \in Submitters => taskQueue[i].task \in late

AllExited == \A w \in Workers : wpc[w] = "exit"
OnlyLate == \A i \in DOMAIN taskQueue : \E j \in 1..i : taskQueue[j].task \in late

PoolInv == Types /\ Owner /\ Claims /\ (AllExited => OnlyLate)

-----------------------------------------------------------------------------

\* start creates at least one worker.
LEMMA FirstWorker == 1 \in Workers /\ NumThreads \in Workers
  BY PoolAssumption DEF Workers

\* A pool is constructed with an empty queue and no worker.
LEMMA InitPool == PoolInit => PoolInv
<1> SUFFICES ASSUME PoolInit PROVE PoolInv
  OBVIOUS
<1>1. Types
  BY FirstWorker DEF PoolInit, Types
<1>2. Owner /\ Claims
  BY DEF PoolInit, Owner, Claims, Stopping
<1>3. OnlyLate
  BY DEF PoolInit, OnlyLate
<1> QED
  BY <1>1, <1>2, <1>3, Zenon DEF PoolInv

\* submit claims a slot.
LEMMA SubmitKeeps == ASSUME PoolInv, NEW t \in SubmitThreads, NEW n \in Nat, Submit(t, n) PROVE PoolInv'
<1> DEFINE e == [task |-> <<t, n>>, published |-> FALSE]
<1> USE DEF PoolInv
<1>1. /\ taskQueue' = Append(taskQueue, e) /\ claimed' = claimed \cup {t}
      /\ t \in Workers => wpc[t] \in {"run", "drainrun"}
      /\ late' = IF t \in Submitters /\ Stopping THEN late \cup {e.task} ELSE late
      /\ UNCHANGED <<opc, next, running, wpc>>
  BY Zenon DEF Submit, pool, Stopping
<1>2. e \in Entry /\ e.task[1] = t /\ ~e.published
  BY DEF Types, Entry
<1> HIDE DEF e
<1>3. /\ Len(taskQueue') = Len(taskQueue) + 1 /\ taskQueue' \in Seq(Entry)
      /\ \A i \in DOMAIN taskQueue : taskQueue'[i] = taskQueue[i]
      /\ taskQueue'[Len(taskQueue')] = e
      /\ DOMAIN taskQueue' = DOMAIN taskQueue \cup {Len(taskQueue')}
  BY <1>1, <1>2 DEF Types
<1>4. Types'
  BY <1>1, <1>3 DEF Types
<1>5. Owner'
  BY <1>1, Zenon DEF Owner, Stopping
<1>6. Claims'
  BY <1>1, <1>2, <1>3, Zenon DEF Claims, Stopping
<1>7. ASSUME AllExited' PROVE OnlyLate'
  <2>1. AllExited /\ Stopping /\ OnlyLate
    BY <1>1, <1>7, FirstWorker, Zenon DEF AllExited, Owner, Stopping
  <2>2. t \in Submitters
    BY <1>1, <2>1, Zenon DEF AllExited, SubmitThreads
  <2>3. e.task \in late' /\ late \subseteq late'
    BY <1>1, <2>1, <2>2, Zenon
  <2>4. ASSUME NEW i \in DOMAIN taskQueue' PROVE \E j \in 1..i : taskQueue'[j].task \in late'
    <3>1. CASE i \in DOMAIN taskQueue
      <4>1. PICK j \in 1..i : taskQueue[j].task \in late
        BY <2>1, <3>1, Zenon DEF OnlyLate
      <4>2. j \in DOMAIN taskQueue
        BY <3>1, <4>1 DEF Types
      <4> QED
        BY <4>1, <4>2, <1>3, <2>3, Zenon
    <3>2. CASE i = Len(taskQueue')
      <4>1. i \in 1..i
        BY <3>2, <1>3 DEF Types
      <4> QED
        BY <3>2, <4>1, <1>3, <2>3, Zenon
    <3> QED
      BY <1>3, <3>1, <3>2, Zenon
  <2> QED
    BY <2>4, Zenon DEF OnlyLate
<1> QED
  BY <1>4, <1>5, <1>6, <1>7, Zenon

\* submit publishes its slot.
LEMMA PublishKeeps == ASSUME PoolInv, NEW t \in SubmitThreads, SubmitPublish(t) PROVE PoolInv'
<1> USE DEF PoolInv
<1>1. /\ claimed' = claimed \ {t} /\ UNCHANGED <<opc, next, running, wpc, late>>
      /\ taskQueue' = [i \in DOMAIN taskQueue |->
            IF taskQueue[i].task[1] = t THEN [taskQueue[i] EXCEPT !.published = TRUE]
            ELSE taskQueue[i]]
  BY Zenon DEF SubmitPublish, pool
<1>2. /\ DOMAIN taskQueue' = DOMAIN taskQueue
      /\ \A i \in DOMAIN taskQueue : taskQueue[i] \in Entry
  BY <1>1 DEF Types
<1>3. \A i \in DOMAIN taskQueue :
         /\ taskQueue'[i] \in Entry /\ taskQueue'[i].task = taskQueue[i].task
         /\ ~taskQueue'[i].published => taskQueue[i].task[1] # t /\ ~taskQueue[i].published
  BY <1>1, <1>2, Zenon DEF Entry
<1>4. taskQueue' \in Seq(Entry)
  <2>1. DOMAIN taskQueue = 1..Len(taskQueue) /\ Len(taskQueue) \in Nat
    BY DEF Types
  <2> QED
    BY <1>1, <1>2, <1>3, <2>1
<1>5. Types' /\ Owner'
  BY <1>1, <1>4, Zenon DEF Types, Owner, Stopping
<1>6. Claims'
  BY <1>1, <1>2, <1>3, Zenon DEF Claims, Stopping
<1>7. ASSUME AllExited' PROVE OnlyLate'
  <2>1. OnlyLate
    BY <1>1, <1>7, Zenon DEF AllExited
  <2>2. \A i \in DOMAIN taskQueue : \A j \in 1..i : j \in DOMAIN taskQueue
    BY DEF Types
  <2> QED
    BY <1>1, <1>2, <1>3, <2>1, <2>2 DEF OnlyLate
<1> QED
  BY <1>5, <1>6, <1>7, Zenon

\* The owner: start, the latch of each thread, stop and join.
LEMMA OwnerKeeps == ASSUME PoolInv, OwnerStep \/ Stop PROVE PoolInv'
<1> USE DEF PoolInv
<1>1. CASE Start
  BY <1>1, FirstWorker, Zenon DEF Start, Types, Owner, Claims, Stopping, AllExited, OnlyLate
<1>2. CASE CreateWorker
  <2>1. /\ opc = "create" /\ opc' = "latch" /\ wpc' = [wpc EXCEPT ![next] = "created"]
        /\ UNCHANGED <<taskQueue, next, running, claimed, late>>
    BY <1>2, Zenon DEF CreateWorker
  <2>2. next \in Workers /\ wpc[next] = "none"
    BY <2>1 DEF Types, Owner, Workers
  <2>3. Types' /\ Claims'
    BY <2>1, <2>2, Zenon DEF Types, Claims, Stopping
  <2>4. Owner'
    BY <2>1, <2>2 DEF Types, Owner, Stopping, Workers
  <2>5. ~AllExited'
    BY <2>1, <2>2, Zenon DEF Types, AllExited
  <2> QED
    BY <2>3, <2>4, <2>5, Zenon
<1>3. CASE Latched
  <2>1. /\ next' \in Workers /\ opc = "latch" /\ opc' \in {"serve", "create"}
        /\ opc' = "serve" => next' = 1
        /\ opc' = "create" => next' = next + 1
        /\ UNCHANGED <<taskQueue, running, wpc, claimed, late>>
    BY <1>3, FirstWorker, PoolAssumption DEF Latched, Types, Workers
  <2>2. Owner'
    BY <2>1 DEF Types, Owner, Stopping, Workers
  <2> QED
    BY <2>1, <2>2, Zenon DEF Types, Claims, Stopping, AllExited, OnlyLate
<1>4. CASE Join
  <2>1. /\ opc = "join" /\ opc' \in {"join", "gone"} /\ next' \in Workers /\ wpc[next] = "exit"
        /\ UNCHANGED <<taskQueue, running, wpc, claimed, late>>
        /\ opc' = "join" => next' = next + 1
        /\ opc' = "gone" => next = NumThreads
    BY <1>4, FirstWorker, PoolAssumption DEF Join, Types, Workers
  <2>2. \A w \in Workers : w <= next => wpc[w] = "exit"
    BY <2>1 DEF Owner, Types, Workers
  <2>3. Owner'
    BY <2>1, <2>2, PoolAssumption DEF Owner, Types, Workers, Stopping
  <2> QED
    BY <2>1, <2>3, Zenon DEF Types, Claims, Stopping, AllExited, OnlyLate
<1>5. CASE Stop
  <2>1. /\ opc = "serve" /\ opc' = "join" /\ ~running'
        /\ UNCHANGED <<taskQueue, next, wpc, claimed>>
        /\ \A i \in DOMAIN taskQueue :
              ~taskQueue[i].published /\ taskQueue[i].task[1] \in Submitters =>
                  taskQueue[i].task \in late'
    BY <1>5, Zenon DEF Stop
  <2>2. Types' /\ Owner'
    BY <2>1 DEF Types, Owner, Stopping, Workers
  <2>3. Claims'
    BY <2>1, Zenon DEF Claims, Stopping
  <2>4. ~AllExited'
    BY <2>1, FirstWorker, Zenon DEF AllExited, Owner, Stopping
  <2> QED
    BY <2>2, <2>3, <2>4, Zenon
<1> QED
  BY <1>1, <1>2, <1>3, <1>4, <1>5, Zenon DEF OwnerStep

\* The workers.  The last one to leave found the queue empty, or its head claimed by a
\* thread that is no worker.
LEMMA WorkerKeeps == ASSUME PoolInv, NEW w \in Workers, WorkerStep(w) PROVE PoolInv'
<1> USE DEF PoolInv
<1>1. CASE WorkerUp(w) \/ Test(w) \/ TaskReturns(w)
  <2>1. PICK to \in {"test", "pop", "drain"} :
           /\ wpc' = [wpc EXCEPT ![w] = to]
           /\ UNCHANGED <<taskQueue, opc, next, running, claimed, late>>
           /\ wpc[w] \notin {"none", "exit"}
           /\ w \in claimed => wpc[w] \notin {"run", "drainrun"}
           /\ to = "drain" => ~running \/ wpc[w] = "drainrun"
    BY <1>1, Zenon DEF WorkerUp, Test, TaskReturns, Goes, pool
  <2>2. Types' /\ Claims'
    BY <2>1, Zenon DEF Types, Claims, Stopping
  <2>3. Owner'
    BY <2>1, Zenon DEF Types, Owner, Stopping
  <2>4. ~AllExited'
    BY <2>1, Zenon DEF AllExited, Types
  <2> QED
    BY <2>2, <2>3, <2>4, Zenon
<1>2. CASE Pop(w)
  <2>1. PICK to \in {"run", "drainrun"} :
           /\ wpc' = [wpc EXCEPT ![w] = to] /\ wpc[w] \in {"pop", "drain"}
           /\ to = "drainrun" => wpc[w] = "drain"
           /\ taskQueue # <<>> /\ taskQueue' = Tail(taskQueue)
           /\ UNCHANGED <<opc, next, running, claimed, late>>
    BY <1>2, Zenon DEF Pop, Poppable, Goes, pool
  <2>2. /\ taskQueue' \in Seq(Entry)
        /\ \A i \in DOMAIN taskQueue' : i + 1 \in DOMAIN taskQueue /\ taskQueue'[i] = taskQueue[i + 1]
    BY <2>1 DEF Types
  <2>3. Types' /\ Owner'
    BY <2>1, <2>2, Zenon DEF Types, Owner, Stopping
  <2>4. Claims'
    BY <2>1, <2>2, Zenon DEF Types, Claims, Stopping
  <2>5. ~AllExited'
    BY <2>1, Zenon DEF AllExited, Types
  <2> QED
    BY <2>3, <2>4, <2>5, Zenon
<1>3. CASE PopNothing(w)
  <2>1. /\ UNCHANGED <<taskQueue, opc, next, running, claimed, late>>
        /\ ~Poppable
        /\ \/ wpc[w] = "pop" /\ wpc' = [wpc EXCEPT ![w] = "test"]
           \/ wpc[w] = "drain" /\ wpc' = [wpc EXCEPT ![w] = "exit"]
    BY <1>3, Zenon DEF PopNothing, Goes, pool
  <2>2. Types' /\ Owner' /\ Claims'
    <3>1. /\ wpc' \in [Workers -> {"none", "created", "test", "pop", "run", "drain", "drainrun", "exit"}]
          /\ wpc[w] \in {"pop", "drain"} /\ wpc'[w] \in {"test", "exit"}
          /\ wpc'[w] = "exit" => wpc[w] = "drain"
          /\ \A v \in Workers : v # w => wpc'[v] = wpc[v]
      BY <2>1, Zenon DEF Types
    <3>2. Types'
      BY <2>1, <3>1, Zenon DEF Types
    <3>3. Owner'
      BY <2>1, <3>1, Zenon DEF Types, Owner, Stopping
    <3>4. Claims'
      BY <2>1, <3>1, Zenon DEF Types, Claims, Stopping
    <3> QED
      BY <3>2, <3>3, <3>4, Zenon
  <2>3. ASSUME AllExited' PROVE OnlyLate'
    <3>1. wpc[w] = "drain" /\ \A v \in Workers : wpc[v] \in {"drain", "exit"}
      BY <2>1, <2>3, Zenon DEF AllExited, Types
    <3>2. Stopping /\ \A v \in Workers : v \notin claimed
      BY <3>1, Zenon DEF Owner, Claims
    <3>3. ASSUME NEW i \in DOMAIN taskQueue PROVE \E j \in 1..i : taskQueue[j].task \in late
      <4>1. 1 \in DOMAIN taskQueue /\ 1 \in 1..i /\ taskQueue[1] \in Entry
        BY <3>3 DEF Types
      <4>2. ~taskQueue[1].published
        BY <2>1, <4>1 DEF Poppable, Types
      <4>3. taskQueue[1].task[1] \in claimed
        BY <4>1, <4>2, Zenon DEF Claims
      <4>4. taskQueue[1].task[1] \in Submitters
        BY <4>3, <3>2, Zenon DEF Types, SubmitThreads
      <4>5. taskQueue[1].task \in late
        BY <4>1, <4>2, <4>4, <3>2, Zenon DEF Claims
      <4> QED
        BY <4>1, <4>5, Zenon
    <3> QED
      BY <2>1, <3>3, Zenon DEF OnlyLate
  <2> QED
    BY <2>2, <2>3, Zenon
<1> QED
  BY <1>1, <1>2, <1>3, Zenon DEF WorkerStep

\* Throughout start, submit and stop, where the owner is tells where the workers may be, a
\* claimed slot has a thread that will publish it, and workers that have all returned
\* leave only late tasks (ThreadPool.cpp:49).
THEOREM PoolInvariance == PoolSpec => []PoolInv
<1>1. PoolInv /\ [PoolNext]_poolVars => PoolInv'
  <2> SUFFICES ASSUME PoolInv, [PoolNext]_poolVars PROVE PoolInv'
    OBVIOUS
  <2>1. \A t \in SubmitThreads : 1..MaxTasks[t] \subseteq Nat
    OBVIOUS
  <2>2. CASE UNCHANGED poolVars
    BY <2>2, Zenon DEF poolVars, pool, PoolInv, Types, Owner, Claims, Stopping, AllExited, OnlyLate
  <2> QED
    BY <2>1, <2>2, SubmitKeeps, PublishKeeps, OwnerKeeps, WorkerKeeps, Zenon DEF PoolNext, Over
<1> QED
  BY <1>1, InitPool, PTL DEF PoolSpec

\* When stop has returned, what is left in the queue was submitted late, or stands
\* behind a task that was: the second loop of the workers (ThreadPool.cpp:49) has run
\* the rest, for any number of workers and whatever the tasks submit.
THEOREM StopDrainsHolds == PoolSpec => []StopDrains
<1>1. PoolInv => StopDrains
  BY Zenon DEF PoolInv, StopDrains, Owner, AllExited, OnlyLate
<1> QED
  BY <1>1, PoolInvariance, PTL
=============================================================================
