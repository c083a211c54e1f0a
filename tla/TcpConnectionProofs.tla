------------------------ MODULE TcpConnectionProofs ------------------------
(***************************************************************************)
(* Theorems about the state word of a connection, for any finite set of    *)
(* user threads and any number of calls: the count in the word covers the  *)
(* messages still to be written, Disconnecting is reached when all have    *)
(* been through sendInLoop, Disconnected is final, no message meets a      *)
(* freed SSL and closeCallback_ is called once.                            *)
(*                                                                         *)
(* The inductive invariant comes first, then how the messages that         *)
(* Unreleased counts are counted, what most steps have in common, the      *)
(* steps that leave the word alone and those that change it, and last the  *)
(* counting itself, from the library's theorems, and the theorems.         *)
(***************************************************************************)
EXTENDS TcpConnection, TLAPS

Words == [phase : {"Connecting", "Connected", "Disconnecting", "Disconnected"},
          used : BOOLEAN, writing : BOOLEAN, senders : Int]
Functors == {"connectEstablished", "shutdownInLoop", "forceCloseInLoop", "sendInLoop"}
CallPlaces == {"idle", "futex", "asleep", "asleep_local", "reload", "loop", "count",
               "accepted", "shutting", "delay"}
LoopPlaces == {"in_loop", "release", "clear", "hup", "hup_close", "hup_cb", "hup_store"}
UnusePlaces == {"futex", "asleep", "reload", "loop"}
ClosePlaces == {"hup_close", "hup_cb", "hup_store"}

Types ==
    /\ kind \in {"plain", "ssl"} /\ ssl_ \in BOOLEAN /\ revived \in BOOLEAN
    /\ open \in BOOLEAN /\ timers \in Nat /\ closed \in Nat
    /\ state_ \in Words
    /\ pending \in Seq(Functors)
    /\ pc \in [Threads -> CallPlaces \cup LoopPlaces]
    /\ op \in [Threads -> Ops \cup {"none", "hup"}]
    /\ old \in [Threads -> Words]
    /\ \A t \in Users : pc[t] \in CallPlaces /\ op[t] \notin {"forceClose", "hup"}

\* What the word can hold: senders under the writing mark, the mark under `used', and
\* outside Connected nothing but the phase.
WordShape ==
    /\ state_.senders >= 0
    /\ state_.senders > 0 => state_.writing
    /\ state_.writing => state_.used
    /\ state_.phase # "Connected" => state_ = Bare(state_.phase)

\* Until connectEstablished has run, everyone who called waits for it, and the loop has
\* nothing else to do; afterwards it is not queued again.
Start ==
    /\ state_.phase = "Connecting" =>
           /\ pending # <<>> /\ pending[1] = "connectEstablished"
           /\ ~open /\ timers = 0 /\ (kind = "ssl" => ssl_) /\ pc[Loop] = "idle"
           /\ \A t \in Threads : /\ pc[t] \in {"idle", "futex", "asleep"}
                                 /\ pc[t] = "futex" => old[t] = state_
    /\ \A i \in 1..Len(pending) :
           pending[i] = "connectEstablished" => i = 1 /\ state_.phase = "Connecting"

\* What a thread knows of the word from the value it loaded: `used' does not come back
\* once it is gone, and nothing is left to write when forceCloseWithDelay has found the
\* connection out of use.
LoadedBy(t) ==
    /\ pc[t] = "count" => old[t].used /\ old[t].writing
    /\ pc[t] = "clear" => old[t].used /\ old[t].senders = 0
    /\ pc[t] = "loop" /\ ~old[t].used => ~state_.used
    /\ pc[t] = "delay" => ~state_.used /\ Unreleased = 0
Loaded == \A t \in Threads : LoadedBy(t)

\* The count covers the messages; a TLS connection that is out of use has none left.
Covered ==
    /\ state_.phase # "Disconnected" => Unreleased <= state_.senders
    /\ kind = "ssl" /\ ~state_.used => Unreleased = 0

\* The hang-up of a TLS connection: the SSL is freed by a handle_ep_hup that is still in
\* set_unused, or the connection is out of use.
HangUp ==
    /\ op[Loop] = "hup" => kind = "ssl" /\ pc[Loop] \in UnusePlaces \cup ClosePlaces
    /\ pc[Loop] = "hup_close" => kind = "ssl"
    /\ kind = "ssl" /\ pc[Loop] \in ClosePlaces => ~state_.used
    /\ kind = "ssl" /\ ~ssl_ => ~state_.used \/ (op[Loop] = "hup" /\ pc[Loop] \in UnusePlaces)

\* closeCallback_ has been called at most once, and where handle_ep_hup is on its way to
\* it, not at all.
CloseCount ==
    ~revived =>
        /\ closed \in {0, 1}
        /\ closed = 1 => \/ state_.phase = "Disconnected"
                         \/ kind = "ssl" /\ pc[Loop] = "hup_store"
        /\ op[Loop] = "hup" /\ pc[Loop] # "hup_store" => closed = 0
        /\ pc[Loop] \in {"hup_close", "hup_cb"} => closed = 0
        /\ kind = "plain" /\ pc[Loop] = "hup_store" => closed = 0
        /\ kind = "plain" /\ pc[Loop] = "hup_cb" => state_.phase = "Disconnected"

ConnInv == Types /\ WordShape /\ Start /\ Loaded /\ Covered /\ HangUp /\ CloseCount

-----------------------------------------------------------------------------
(* Counting the messages. *)

Queued(p) == {i \in 1..Len(p) : p[i] = "sendInLoop"}
Sending(c) == {t \in Threads : c[t] \in {"accepted", "in_loop"}}
\* The messages a thread at place l has in hand, for Unreleased.
Share(l) == IF l \in {"accepted", "in_loop", "release"} THEN 1 ELSE 0

\* A step of t leaves the other threads where they are, or wakes them.
OthersStay(t) ==
    \A u \in Threads \ {t} :
        /\ old'[u] = old[u] /\ op'[u] = op[u]
        /\ pc'[u] = pc[u] \/ (pc[u] = "asleep" /\ pc'[u] = "reload")

\* How many functors of the queue and how many threads have a message.  Until the last
\* section proves this, from the library's theorems about finite sets, the lemmas assume it.
Counting ==
    /\ \A p \in Seq(Functors) : Cardinality(Queued(p)) \in Nat
    /\ \A p \in Seq(Functors), f \in Functors :
          Cardinality(Queued(Append(p, f)))
              = Cardinality(Queued(p)) + (IF f = "sendInLoop" THEN 1 ELSE 0)
    /\ \A p \in Seq(Functors) : p # <<>> =>
          Cardinality(Queued(Tail(p)))
              = Cardinality(Queued(p)) - (IF Head(p) = "sendInLoop" THEN 1 ELSE 0)
    /\ \A S \in SUBSET Threads :
          /\ Cardinality(S) \in Nat /\ (Cardinality(S) = 0 <=> S = {})
          /\ \A t \in Threads : Cardinality(S \ {t}) = Cardinality(S) - (IF t \in S THEN 1 ELSE 0)

\* The queue has so many messages,
LEMMA QueuedNat ==
    ASSUME Counting, NEW p \in Seq(Functors)
    PROVE  Cardinality(Queued(p)) \in Nat
BY Zenon DEF Counting

\* and so many threads have one.
LEMMA SendingNat ==
    ASSUME Counting, NEW c
    PROVE  Cardinality(Sending(c)) \in Nat /\ (Cardinality(Sending(c)) = 0 <=> Sending(c) = {})
<1>1. Sending(c) \in SUBSET Threads
  BY Zenon DEF Sending
<1> QED
  BY <1>1, Zenon DEF Counting

\* The number of messages whose count is still to be given back is a natural number.
LEMMA UnreleasedNat ==
    ASSUME Counting, Types
    PROVE  Unreleased \in Nat
<1>1. Cardinality(Queued(pending)) \in Nat /\ Cardinality(Sending(pc)) \in Nat
  BY QueuedNat, SendingNat, Zenon DEF Types
<1> QED
  BY <1>1 DEF Unreleased, Unwritten, Queued, Sending

\* The same after a step.
LEMMA UnreleasedNatNext ==
    ASSUME Counting, Types'
    PROVE  Unreleased' \in Nat
<1>1. Cardinality(Queued(pending')) \in Nat /\ Cardinality(Sending(pc')) \in Nat
  BY QueuedNat, SendingNat, Zenon DEF Types
<1> QED
  BY <1>1 DEF Unreleased, Unwritten, Queued, Sending

\* A step of one thread changes that number by what the thread takes or gives away and
\* by what the queue gains or loses.
LEMMA Recount ==
    ASSUME Counting, Types, Types', NEW t \in Threads, OthersStay(t)
    PROVE  Unreleased' = Unreleased
                           + (Cardinality(Queued(pending')) - Cardinality(Queued(pending)))
                           + (Share(pc'[t]) - Share(pc[t]))
<1> DEFINE S == Sending(pc)
           T == Sending(pc')
           q == Cardinality(Queued(pending))
           r == Cardinality(Queued(pending'))
<1>1. Cardinality(S) \in Nat /\ Cardinality(T) \in Nat
  BY SendingNat, Zenon
<1>2. q \in Nat /\ r \in Nat
  BY QueuedNat, Zenon DEF Types
<1>3. /\ Unreleased = q + Cardinality(S) + (IF pc[Loop] = "release" THEN 1 ELSE 0)
      /\ Unreleased' = r + Cardinality(T) + (IF pc'[Loop] = "release" THEN 1 ELSE 0)
  BY Zenon DEF Unreleased, Unwritten, Queued, Sending, At
<1>4. S \ {t} = T \ {t}
  BY Zenon DEF Sending, OthersStay
<1>5. S \in SUBSET Threads /\ T \in SUBSET Threads
  BY Zenon DEF Sending
<1>6. /\ Cardinality(S \ {t}) = Cardinality(S) - (IF t \in S THEN 1 ELSE 0)
      /\ Cardinality(T \ {t}) = Cardinality(T) - (IF t \in T THEN 1 ELSE 0)
  BY <1>5, Zenon DEF Counting
<1> DEFINE s == IF t \in S THEN 1 ELSE 0
           u == IF t \in T THEN 1 ELSE 0
           v == IF pc[Loop] = "release" THEN 1 ELSE 0
           w == IF pc'[Loop] = "release" THEN 1 ELSE 0
<1>a. Cardinality(S) - s = Cardinality(T) - u /\ s \in Nat /\ u \in Nat
  BY <1>1, <1>4, <1>5, <1>6, Zenon
<1>b. Unreleased = q + Cardinality(S) + v /\ Unreleased' = r + Cardinality(T) + w
  BY <1>3, Zenon
<1>c. v \in Nat /\ w \in Nat
  OBVIOUS
<1>7. CASE t = Loop
  <2>1. Share(pc[t]) = s + v /\ Share(pc'[t]) = u + w
    BY <1>7 DEF Share, Sending
  <2> HIDE DEF S, T, q, r, s, u, v, w
  <2> QED
    BY <1>1, <1>2, <1>a, <1>b, <1>c, <2>1 DEF q, r
<1>8. CASE t # Loop
  <2>1. t \in Users /\ Loop \in Threads \ {t}
    BY <1>8, Zenon DEF Threads
  <2>2. v = w
    BY <2>1, Zenon DEF OthersStay
  <2>3. pc[t] # "release" /\ pc'[t] # "release"
    BY <2>1, Zenon DEF Types, CallPlaces
  <2>4. Share(pc[t]) = s /\ Share(pc'[t]) = u
    BY <2>3, Zenon DEF Share, Sending
  <2> HIDE DEF S, T, q, r, s, u, v, w
  <2> QED
    BY <1>1, <1>2, <1>a, <1>b, <1>c, <2>2, <2>4, SMTT(30) DEF q, r
<1> QED
  BY <1>7, <1>8, Zenon

\* queueInLoop(sendInLoop) adds one message to the queue, any other functor none.
LEMMA QueueAppend ==
    ASSUME Counting, NEW p \in Seq(Functors), NEW f \in Functors
    PROVE  Cardinality(Queued(Append(p, f)))
               = Cardinality(Queued(p)) + (IF f = "sendInLoop" THEN 1 ELSE 0)
BY Zenon DEF Counting

\* Taking the first functor takes its message.
LEMMA QueueTake ==
    ASSUME Counting, NEW p \in Seq(Functors), p # <<>>
    PROVE  Cardinality(Queued(Tail(p)))
               = Cardinality(Queued(p)) - (IF Head(p) = "sendInLoop" THEN 1 ELSE 0)
BY Zenon DEF Counting

-----------------------------------------------------------------------------
(* What most steps have in common. *)

\* Somebody who is past the wait for connectEstablished has seen it.
LEMMA Settled ==
    ASSUME ConnInv, NEW t \in Threads, pc[t] \notin {"idle", "futex", "asleep"}
    PROVE  state_.phase # "Connecting"
BY Zenon DEF ConnInv, Start

\* Outside the set_unused of a hang-up and its close, nobody is in a hang-up.
LEMMA NotInHangUp ==
    ASSUME ConnInv, NEW t \in Threads, pc[t] \notin UnusePlaces \cup ClosePlaces
    PROVE  op[t] # "hup"
<1>1. op[Loop] = "hup" => pc[Loop] \in UnusePlaces \cup ClosePlaces
  BY Zenon DEF ConnInv, HangUp
<1>2. t # Loop => op[t] # "hup"
  BY Zenon DEF ConnInv, Types, Threads
<1> QED
  BY <1>1, <1>2, Zenon

\* The loop's queue as a step may leave it: as it was, with a functor more, or without
\* its first one.
QueueStep ==
    \/ pending' = pending
    \/ \E f \in Functors \ {"connectEstablished"} : pending' = Append(pending, f)
    \/ pending # <<>> /\ pending' = Tail(pending)

\* Once connected, connectEstablished is never queued again.
LEMMA StartKept ==
    ASSUME Types, Start, QueueStep, state_.phase # "Connecting", state_'.phase # "Connecting"
    PROVE  Start'
<1>1. pending \in Seq(Functors) /\ \A i \in 1..Len(pending) : pending[i] # "connectEstablished"
  BY Zenon DEF Types, Start
<1>2. \A i \in 1..Len(pending') : pending'[i] # "connectEstablished"
  <2>1. CASE pending' = pending
    BY <1>1, <2>1, Zenon
  <2>2. ASSUME NEW f \in Functors \ {"connectEstablished"}, pending' = Append(pending, f)
        PROVE  \A i \in 1..Len(pending') : pending'[i] # "connectEstablished"
    BY <1>1, <2>2
  <2>3. CASE pending # <<>> /\ pending' = Tail(pending)
    BY <1>1, <2>3
  <2> QED
    BY <2>1, <2>2, <2>3, Zenon DEF QueueStep
<1> QED
  BY <1>2, Zenon DEF Start

\* What the other threads know stays true: `used' does not come back, and out of use no
\* message is added.
LEMMA LoadedKept ==
    ASSUME Counting, ConnInv, Types', NEW t \in Threads, OthersStay(t), LoadedBy(t)',
           state_'.used => state_.used, ~state_.used => Unreleased' <= Unreleased
    PROVE  Loaded'
<1> SUFFICES ASSUME NEW u \in Threads PROVE LoadedBy(u)'
  BY Zenon DEF Loaded
<1>1. CASE u = t
  BY <1>1, Zenon
<1>2. CASE u # t
  <2>1. LoadedBy(u)
    BY Zenon DEF ConnInv, Loaded
  <2>2. /\ old'[u] = old[u]
        /\ pc'[u] = pc[u] \/ (pc[u] = "asleep" /\ pc'[u] = "reload")
    BY <1>2, Zenon DEF OthersStay
  <2>3. Unreleased \in Nat /\ (Unreleased \in Nat)'
    BY UnreleasedNat, UnreleasedNatNext, Zenon DEF ConnInv
  <2> QED
    BY <2>1, <2>2, <2>3 DEF LoadedBy
<1> QED
  BY <1>1, <1>2, Zenon

\* A step that leaves the word alone and adds no message keeps the invariant if what it
\* does with its own thread, and with the hang-up, is right.
LEMMA QuietKept ==
    ASSUME Counting, ConnInv, Types', NEW t \in Threads, OthersStay(t), QueueStep,
           state_.phase # "Connecting", state_' = state_, kind' = kind,
           Unreleased' <= Unreleased, LoadedBy(t)', HangUp', CloseCount'
    PROVE  ConnInv'
<1>1. Unreleased \in Nat /\ (Unreleased \in Nat)'
  BY UnreleasedNat, UnreleasedNatNext, Zenon DEF ConnInv
<1>2. Start'
  BY StartKept, Zenon DEF ConnInv
<1>3. Loaded'
  BY LoadedKept, Zenon
<1>4. WordShape' 
  BY Zenon DEF ConnInv, WordShape
<1>5. Covered'
  BY <1>1 DEF ConnInv, Covered, Types, Words
<1> QED
  BY <1>2, <1>3, <1>4, <1>5, Zenon DEF ConnInv

\* A thread that only moves on, in the sense of GotoWith: the places it leaves and reaches
\* say how many messages it has in hand.
LEMMA GotoTypes ==
    ASSUME Types, NEW t \in Threads, NEW l \in CallPlaces \cup LoopPlaces, NEW w \in Words,
           GotoWith(t, l, w), t \in Users => l \in CallPlaces
    PROVE  /\ pc' \in [Threads -> CallPlaces \cup LoopPlaces]
           /\ op' \in [Threads -> Ops \cup {"none", "hup"}]
           /\ old' \in [Threads -> Words]
           /\ \A u \in Users : pc'[u] \in CallPlaces /\ op'[u] \notin {"forceClose", "hup"}
           /\ OthersStay(t)
           /\ pc'[t] = l
           /\ op'[t] = IF l = "idle" THEN "none" ELSE op[t]
           /\ l \in {"futex", "loop", "count", "release", "clear"} => old'[t] = w
<1>0. Bare("Connecting") \in Words
  BY DEF Bare, Words
<1>1. pc' = [pc EXCEPT ![t] = l] /\ pc' \in [Threads -> CallPlaces \cup LoopPlaces]
  BY Zenon DEF Types, GotoWith
<1>2. /\ op' \in [Threads -> Ops \cup {"none", "hup"}]
      /\ op'[t] = IF l = "idle" THEN "none" ELSE op[t]
      /\ \A u \in Threads \ {t} : op'[u] = op[u]
  BY Zenon DEF Types, GotoWith, Returning
<1>3. /\ old' \in [Threads -> Words]
      /\ l \in {"futex", "loop", "count", "release", "clear"} => old'[t] = w
      /\ \A u \in Threads \ {t} : old'[u] = old[u]
  BY <1>0, Zenon DEF Types, GotoWith, Held
<1>4. \A u \in Users : u \in Threads
  BY Zenon DEF Threads
<1>5. \A u \in Users : pc'[u] \in CallPlaces /\ op'[u] \notin {"forceClose", "hup"}
  BY <1>1, <1>2, <1>4, Zenon DEF Types
<1> QED
  BY <1>1, <1>2, <1>3, <1>5, Zenon DEF OthersStay, Types

\* What Enter does with the threads.
LEMMA EnterTypes ==
    ASSUME Types, NEW t \in Threads, NEW o \in Ops \cup {"hup"}, Enter(t, o),
           t \in Users => o \notin {"forceClose", "hup"}
    PROVE  /\ pc' \in [Threads -> CallPlaces \cup LoopPlaces]
           /\ op' \in [Threads -> Ops \cup {"none", "hup"}]
           /\ old' \in [Threads -> Words]
           /\ \A u \in Users : pc'[u] \in CallPlaces /\ op'[u] \notin {"forceClose", "hup"}
           /\ OthersStay(t)
           /\ pc' = [pc EXCEPT ![t] = IF state_.phase = "Connecting" THEN "futex" ELSE "loop"]
           /\ op'[t] = o /\ old'[t] = state_
<1> DEFINE l == IF state_.phase = "Connecting" THEN "futex" ELSE "loop"
<1>1. pc' = [pc EXCEPT ![t] = l] /\ op' = [op EXCEPT ![t] = o] /\ old' = [old EXCEPT ![t] = state_]
  BY Zenon DEF Enter
<1>2. l \in CallPlaces
  BY Zenon DEF CallPlaces
<1> HIDE DEF l
<1>3. \A u \in Users : u \in Threads
  BY Zenon DEF Threads
<1>4. /\ pc' \in [Threads -> CallPlaces \cup LoopPlaces]
      /\ op' \in [Threads -> Ops \cup {"none", "hup"}]
      /\ old' \in [Threads -> Words]
  BY <1>1, <1>2, Zenon DEF Types
<1>5. \A u \in Users : pc'[u] \in CallPlaces /\ op'[u] \notin {"forceClose", "hup"}
  BY <1>1, <1>2, <1>3, Zenon DEF Types
<1>6. OthersStay(t) /\ op'[t] = o /\ old'[t] = state_
  BY <1>1, Zenon DEF Types, OthersStay
<1> QED
  BY <1>1, <1>4, <1>5, <1>6, Zenon DEF l

\* What GotoWaking does with the threads.
LEMMA WakingTypes ==
    ASSUME Types, NEW t \in Threads, NEW l \in CallPlaces \cup LoopPlaces,
           GotoWaking(t, l), t \in Users => l \in CallPlaces
    PROVE  /\ pc' \in [Threads -> CallPlaces \cup LoopPlaces]
           /\ op' \in [Threads -> Ops \cup {"none", "hup"}]
           /\ old' \in [Threads -> Words]
           /\ \A u \in Users : pc'[u] \in CallPlaces /\ op'[u] \notin {"forceClose", "hup"}
           /\ OthersStay(t)
           /\ pc'[t] = l
           /\ op'[t] = IF l = "idle" THEN "none" ELSE op[t]
<1>0. Bare("Connecting") \in Words /\ "reload" \in CallPlaces
  BY DEF Bare, Words, CallPlaces
<1>1. /\ pc' \in [Threads -> CallPlaces \cup LoopPlaces] /\ pc'[t] = l
      /\ \A u \in Threads \ {t} : pc'[u] = IF pc[u] = "asleep" THEN "reload" ELSE pc[u]
  BY <1>0, Zenon DEF Types, GotoWaking
<1>2. /\ op' \in [Threads -> Ops \cup {"none", "hup"}]
      /\ op'[t] = IF l = "idle" THEN "none" ELSE op[t]
      /\ \A u \in Threads \ {t} : op'[u] = op[u]
  BY Zenon DEF Types, GotoWaking, Returning
<1>3. /\ old' \in [Threads -> Words]
      /\ \A u \in Threads \ {t} : old'[u] = old[u]
  BY <1>0, Zenon DEF Types, GotoWaking, Held
<1>4. \A u \in Users : u \in Threads
  BY Zenon DEF Threads
<1>5. \A u \in Users : pc'[u] \in CallPlaces /\ op'[u] \notin {"forceClose", "hup"}
  BY <1>0, <1>1, <1>2, <1>4, Zenon DEF Types
<1> QED
  BY <1>1, <1>2, <1>3, <1>5, Zenon DEF OthersStay

\* The loop thread stays away from the places where handle_ep_hup closes, or stays in
\* the set_unused of a hang-up.
CalmLoop ==
    \/ op'[Loop] = op[Loop] /\ pc'[Loop] = pc[Loop]
    \/ op'[Loop] = op[Loop] /\ pc[Loop] \in UnusePlaces /\ pc'[Loop] \in UnusePlaces
    \/ /\ op[Loop] # "hup" /\ op'[Loop] # "hup"
       /\ pc[Loop] # "hup_store" /\ pc'[Loop] \notin ClosePlaces

\* Then the hang-up is where it was, provided that Disconnected stays.
LEMMA HangUpKept ==
    ASSUME ConnInv, CalmLoop, kind' = kind, ssl_' = ssl_, closed' = closed,
           revived => revived', state_'.used => state_.used,
           state_.phase = "Disconnected" => revived' \/ state_'.phase = "Disconnected"
    PROVE  HangUp' /\ CloseCount'
<1>1. HangUp'
  BY Zenon DEF ConnInv, HangUp, CalmLoop, UnusePlaces, ClosePlaces
<1>2. CloseCount'
  BY Zenon DEF ConnInv, HangUp, CloseCount, CalmLoop, UnusePlaces, ClosePlaces
<1> QED
  BY <1>1, <1>2, Zenon

\* A thread goes on to place l with w in its local variable; the word stays and no
\* message is added.
LEMMA GotoKept ==
    ASSUME Counting, ConnInv, NEW t \in Threads, NEW l \in CallPlaces \cup LoopPlaces,
           NEW w \in Words, GotoWith(t, l, w), t \in Users => l \in CallPlaces,
           state_.phase # "Connecting", state_' = state_, pending' = pending,
           UNCHANGED <<kind, ssl_, timers, revived>>, open' \in BOOLEAN, closed' \in Nat,
           Share(l) <= Share(pc[t]), l \notin {"count", "clear"},
           l = "loop" /\ ~w.used => ~state_.used,
           l = "delay" => ~state_.used /\ Unreleased = 0,
           HangUp', CloseCount'
    PROVE  ConnInv'
<1>1. Types /\ Types' /\ OthersStay(t) /\ pc'[t] = l
      /\ (l = "loop" => old'[t] = w)
  BY GotoTypes, Zenon DEF ConnInv, Types
<1>2. Share(l) \in Nat /\ Share(pc[t]) \in Nat
  BY Zenon DEF Share
<1>3. Unreleased' = Unreleased + (Cardinality(Queued(pending)) - Cardinality(Queued(pending)))
                      + (Share(l) - Share(pc[t]))
  BY <1>1, Recount, Zenon
<1>4. Cardinality(Queued(pending)) \in Nat
  BY <1>1, QueuedNat, Zenon DEF Types
<1>5. Unreleased \in Nat /\ (Unreleased \in Nat)'
  BY <1>1, UnreleasedNat, UnreleasedNatNext, Zenon
<1>6. Unreleased' <= Unreleased
  BY <1>2, <1>3, <1>4, <1>5, SMTT(30)
<1>7. LoadedBy(t)'
  BY <1>1, <1>5, <1>6 DEF LoadedBy
<1>8. QueueStep
  BY Zenon DEF QueueStep
<1> QED
  BY <1>1, <1>6, <1>7, <1>8, QuietKept, Zenon

\* The place After(t) is one a thread may be at, with no message in hand.
LEMMA AfterPlace ==
    ASSUME ConnInv, NEW t \in Threads, InUnuse(t)
    PROVE  /\ After(t) \in {"idle", "hup", "hup_close"}
           /\ After(t) \in CallPlaces \cup LoopPlaces /\ (t \in Users => After(t) \in CallPlaces)
           /\ Share(After(t)) = 0 /\ Share(pc[t]) = 0
           /\ state_.phase # "Connecting"
<1>1. pc[t] = "loop"
  BY Zenon DEF InUnuse, At
<1>2. After(t) \in {"idle", "hup", "hup_close"}
  BY Zenon DEF After
<1>3. t \in Users => After(t) = "idle"
  BY Zenon DEF ConnInv, Types, After
<1>4. state_.phase # "Connecting"
  BY <1>1, Settled, Zenon
<1> QED
  BY <1>1, <1>2, <1>3, <1>4, Zenon DEF CallPlaces, LoopPlaces, Share

\* Where set_unused returns to, when the connection is out of use.
LEMMA AfterUnuse ==
    ASSUME ConnInv, NEW t \in Threads, InUnuse(t), kind' = kind, UNCHANGED <<ssl_, closed, revived>>,
           OthersStay(t), pc'[t] = After(t), op'[t] = IF After(t) = "idle" THEN "none" ELSE op[t],
           ~state_'.used, state_'.phase = state_.phase
    PROVE  HangUp' /\ CloseCount'
<1>1. pc[t] = "loop" /\ op[t] \in {"set_unused", "forceClose", "hup"}
  BY Zenon DEF InUnuse, At
<1>2. CASE op[t] = "hup"
  <2>1. t = Loop /\ pc'[Loop] = "hup_close" /\ op'[Loop] = "hup"
    BY <1>2, Zenon DEF ConnInv, Types, Threads, After
  <2>2. HangUp'
    BY <1>2, <2>1, Zenon DEF ConnInv, HangUp, UnusePlaces, ClosePlaces
  <2>3. CloseCount'
    BY <1>1, <1>2, <2>1, Zenon DEF ConnInv, CloseCount
  <2> QED
    BY <2>2, <2>3, Zenon
<1>3. CASE op[t] # "hup"
  <2>1. After(t) \in {"idle", "hup"}
    BY <1>3, Zenon DEF After
  <2>2. CalmLoop
    BY <1>1, <1>3, <2>1, Zenon DEF CalmLoop, OthersStay, UnusePlaces, ClosePlaces, Threads
  <2> QED
    BY <2>2, HangUpKept, Zenon
<1> QED
  BY <1>2, <1>3, Zenon

-----------------------------------------------------------------------------
(* The steps that leave the word alone. *)

\* The place a thread reaches, in a call that leaves the word alone, and what it loads:
\* in every case the loop thread stays calm.
LEMMA MoveKept ==
    ASSUME Counting, ConnInv, NEW t \in Threads, NEW l \in CallPlaces, NEW w \in Words,
           GotoWith(t, l, w), state_.phase # "Connecting", UNCHANGED <<hup, state_, pending, open>>,
           Share(l) <= Share(pc[t]), l \notin {"count", "clear"},
           l = "loop" /\ ~w.used => ~state_.used,
           l = "delay" => ~state_.used /\ Unreleased = 0,
           pc[t] \notin ClosePlaces,
           op[t] = "hup" => l \in UnusePlaces
    PROVE  ConnInv'
<1>1. Types /\ HangUp
  BY Zenon DEF ConnInv
<1>2. /\ OthersStay(t) /\ pc'[t] = l
      /\ op'[t] = IF l = "idle" THEN "none" ELSE op[t]
  BY <1>1, GotoTypes, Zenon
<1>3. CalmLoop
  <2>1. CASE t = Loop
    <3>1. CASE op[Loop] = "hup"
      BY <1>1, <1>2, <2>1, <3>1, Zenon DEF CalmLoop, HangUp, UnusePlaces
    <3>2. CASE op[Loop] # "hup"
      BY <1>2, <2>1, <3>2, Zenon DEF CalmLoop, ClosePlaces, CallPlaces
    <3> QED
      BY <3>1, <3>2, Zenon
  <2>2. CASE t # Loop
    <3>1. Loop \in Threads \ {t}
      BY <2>2, Zenon DEF Threads
    <3> QED
      BY <1>2, <3>1, Zenon DEF OthersStay, CalmLoop, UnusePlaces
  <2> QED
    BY <2>1, <2>2, Zenon
<1>4. HangUp' /\ CloseCount'
  BY <1>3, HangUpKept, Zenon DEF hup
<1> QED
  BY <1>1, <1>4, GotoKept, Zenon DEF hup, Types

\* A thread in a call that goes on, starts again or returns, without a message in hand.
LEMMA QuietCallKept ==
    ASSUME Counting, ConnInv, NEW t \in Threads, UNCHANGED <<hup, state_, pending, open>>,
           pc[t] \in {"loop", "reload", "count", "shutting"},
           NEW l \in {"idle", "loop", "reload", "futex", "asleep_local"},
           NEW w \in {old[t], state_}, GotoWith(t, l, w), l = "loop" => w = state_,
           op[t] = "hup" => l \in UnusePlaces
    PROVE  ConnInv'
<1>1. state_ \in Words /\ old[t] \in Words
  BY Zenon DEF ConnInv, Types
<1>2. Share(l) <= Share(pc[t]) /\ l \in CallPlaces /\ pc[t] \notin ClosePlaces
  BY DEF Share, CallPlaces, ClosePlaces
<1>3. state_.phase # "Connecting"
  BY Settled, Zenon
<1> QED
  BY <1>1, <1>2, <1>3, MoveKept, Zenon

\* The steps of the calls that do not touch the word, and the compare-and-swaps that fail.
LEMMA CallsThatGoOn ==
    ASSUME Counting, ConnInv, NEW t \in Threads,
           \/ Reload(t) \/ SendRefused(t) \/ UnuseWait(t) \/ ShutdownLate(t) \/ ShutdownWait(t)
           \/ state_ # old[t] /\ (SendJoin(t) \/ SendMark(t) \/ SendCount(t))
           \/ state_ # old[t] /\ (UnuseCas(t) \/ ShutdownCas(t))
           \/ t = Loop /\ ShutdownRun(t)
    PROVE  ConnInv'
<1> USE DEF Goto, At, InLoop, InUnuse, UnusePlaces
<1>0. pc[t] \in {"count", "shutting"} => op[t] # "hup"
  <2>1. op[Loop] = "hup" => pc[Loop] \in UnusePlaces \cup ClosePlaces
    BY Zenon DEF ConnInv, HangUp
  <2>2. t # Loop => op[t] # "hup"
    BY Zenon DEF ConnInv, Types, Threads
  <2> QED
    BY <2>1, <2>2, Zenon DEF ClosePlaces
<1>1. CASE Reload(t)
  BY <1>1, QuietCallKept, Zenon DEF Reload
<1>2. CASE SendRefused(t)
  BY <1>2, QuietCallKept, Zenon DEF SendRefused
<1>3. CASE UnuseWait(t)
  BY <1>3, QuietCallKept, Zenon DEF UnuseWait
<1>4. CASE ShutdownLate(t)
  BY <1>4, QuietCallKept, Zenon DEF ShutdownLate
<1>5. CASE ShutdownWait(t)
  BY <1>5, QuietCallKept, Zenon DEF ShutdownWait
<1>6. CASE state_ # old[t] /\ SendJoin(t)
  BY <1>6, QuietCallKept, Zenon DEF SendJoin
<1>7. CASE state_ # old[t] /\ SendMark(t)
  BY <1>7, QuietCallKept, Zenon DEF SendMark
<1>8. CASE state_ # old[t] /\ SendCount(t)
  BY <1>0, <1>8, QuietCallKept, Zenon DEF SendCount
<1>9. CASE state_ # old[t] /\ UnuseCas(t)
  BY <1>9, QuietCallKept, Zenon DEF UnuseCas
<1>10. CASE state_ # old[t] /\ ShutdownCas(t)
  BY <1>10, QuietCallKept, Zenon DEF ShutdownCas
<1>11. CASE t = Loop /\ ShutdownRun(t)
  BY <1>0, <1>11, QuietCallKept, Zenon DEF ShutdownRun
<1> QED
  BY <1>1, <1>2, <1>3, <1>4, <1>5, <1>6, <1>7, <1>8, <1>9, <1>10, <1>11, Zenon

\* While Connecting a user thread starts a call, falls asleep or queues a functor, behind
\* connectEstablished.
LEMMA EarlyKept ==
    ASSUME Counting, ConnInv, Types', NEW t \in Users, OthersStay(t), state_.phase = "Connecting",
           UNCHANGED <<hup, state_, open>>,
           \/ pending' = pending
           \/ \E f \in Functors \ {"connectEstablished", "sendInLoop"} :
                 pending' = Append(pending, f),
           NEW l \in {"idle", "futex", "asleep"}, pc' = [pc EXCEPT ![t] = l],
           l = "futex" => old'[t] = state_
    PROVE  ConnInv'
<1>1. /\ Types /\ pending # <<>> /\ pending[1] = "connectEstablished"
      /\ ~open /\ timers = 0 /\ (kind = "ssl" => ssl_) /\ pc[Loop] = "idle"
      /\ \A u \in Threads : /\ pc[u] \in {"idle", "futex", "asleep"}
                            /\ pc[u] = "futex" => old[u] = state_
      /\ \A i \in 1..Len(pending) : pending[i] = "connectEstablished" => i = 1
  BY Zenon DEF ConnInv, Start
<1>2. t \in Threads /\ Loop \in Threads \ {t}
  BY ConnectionAssumption, Zenon DEF Threads
<1>3. /\ pending \in Seq(Functors) /\ Cardinality(Queued(pending)) \in Nat
      /\ Unreleased \in Nat
  BY <1>1, QueuedNat, UnreleasedNat, Zenon DEF Types
<1>4. /\ pending' # <<>> /\ pending'[1] = "connectEstablished"
      /\ \A i \in 1..Len(pending') : pending'[i] = "connectEstablished" => i = 1
      /\ Cardinality(Queued(pending')) = Cardinality(Queued(pending))
  <2>1. CASE pending' = pending
    BY <1>1, <2>1, Zenon
  <2>2. ASSUME NEW f \in Functors \ {"connectEstablished", "sendInLoop"},
               pending' = Append(pending, f)
        PROVE  <1>4!1 /\ <1>4!2 /\ <1>4!3
    <3>1. <1>4!1 /\ <1>4!2
      BY <1>1, <1>3, <2>2
    <3>2. <1>4!3
      BY <1>3, <2>2, QueueAppend
    <3> QED
      BY <3>1, <3>2, Zenon
  <2> QED
    BY <2>1, <2>2, Zenon
<1>5. Start'
  <2>1. \A u \in Threads : /\ pc'[u] \in {"idle", "futex", "asleep"}
                           /\ pc'[u] = "futex" => old'[u] = state_'
    BY <1>1 DEF OthersStay, Types
  <2>2. pc'[Loop] = "idle"
    BY <1>1, <1>2, Zenon DEF Types
  <2> QED
    BY <1>1, <1>4, <2>1, <2>2, Zenon DEF Start, hup
<1>6. Unreleased' = Unreleased
  <2>1. Share(pc'[t]) = 0 /\ Share(pc[t]) = 0
    BY <1>1, <1>2, Zenon DEF Share, Types
  <2> QED
    BY <1>1, <1>2, <1>3, <1>4, <2>1, Recount
<1>7. Loaded'
  <2>1. LoadedBy(t)'
    BY <1>1, <1>2, Zenon DEF LoadedBy, Types
  <2> QED
    BY <1>2, <1>3, <1>6, <2>1, LoadedKept
<1>8. CalmLoop
  BY <1>1, <1>2, Zenon DEF OthersStay, CalmLoop
<1>9. HangUp' /\ CloseCount'
  BY <1>8, HangUpKept, Zenon DEF hup
<1>10. WordShape' /\ Covered'
  BY <1>6, Zenon DEF ConnInv, WordShape, Covered, hup
<1> QED
  BY <1>5, <1>7, <1>9, <1>10, Zenon DEF ConnInv

\* futex_wait sleeps or reloads; while Connecting, it sleeps.
LEMMA FutexWaitKeeps ==
    ASSUME Counting, ConnInv, NEW t \in Threads, FutexWait(t)
    PROVE  ConnInv'
<1> DEFINE l == IF state_ = old[t] THEN "asleep" ELSE "reload"
<1>1. /\ Types /\ pc[t] = "futex" /\ GotoWith(t, l, old[t]) /\ old[t] \in Words
      /\ UNCHANGED <<hup, state_, pending, open>>
  BY Zenon DEF ConnInv, Types, FutexWait, Goto, At
<1>2. /\ l \in CallPlaces /\ Share(l) <= Share(pc[t]) /\ l \in UnusePlaces
      /\ pc[t] \notin ClosePlaces /\ l \notin {"idle", "count", "clear", "loop", "delay"}
  BY <1>1 DEF CallPlaces, Share, UnusePlaces, ClosePlaces
<1>3. CASE state_.phase # "Connecting"
  BY <1>1, <1>2, <1>3, MoveKept, Zenon
<1>4. CASE state_.phase = "Connecting"
  <2>1. l = "asleep" /\ pc[Loop] = "idle"
    BY <1>1, <1>4, Zenon DEF ConnInv, Start
  <2>2. t \in Users
    BY <1>1, <2>1, Zenon DEF Threads
  <2> HIDE DEF l
  <2>3. Types' /\ OthersStay(t) /\ pc' = [pc EXCEPT ![t] = "asleep"]
    BY <1>1, <1>2, <2>1, GotoTypes, Zenon DEF Types, hup, GotoWith
  <2> QED
    BY <1>1, <1>4, <2>2, <2>3, EarlyKept, Zenon
<1> QED
  BY <1>3, <1>4, Zenon

\* forceCloseWithDelay finds the connection out of use, with nothing left to write.
LEMMA ForceCloseDelayedKeeps ==
    ASSUME Counting, ConnInv, NEW t \in Threads, ForceCloseDelayed(t)
    PROVE  ConnInv'
<1>1. /\ Types /\ pc[t] = "idle" /\ GotoWith(t, "delay", old[t]) /\ old[t] \in Words
      /\ UNCHANGED <<hup, state_, pending, open>>
  BY Zenon DEF ConnInv, Types, ForceCloseDelayed, MayCall, Goto, At
<1>2. ~state_.used /\ state_.senders = 0 /\ state_.phase \in {"Connected", "Disconnecting"}
  BY DEF ForceCloseDelayed, Bare
<1>3. Unreleased \in Nat /\ Unreleased <= state_.senders
  BY <1>1, <1>2, UnreleasedNat, Zenon DEF ConnInv, Covered
<1>4. Unreleased = 0
  BY <1>2, <1>3
<1>5. "delay" \in CallPlaces /\ Share("delay") <= Share(pc[t]) /\ pc[t] \notin ClosePlaces
  BY <1>1 DEF CallPlaces, Share, ClosePlaces
<1>6. op[t] # "hup"
  <2>1. op[Loop] = "hup" => pc[Loop] \in UnusePlaces \cup ClosePlaces
    BY Zenon DEF ConnInv, HangUp
  <2>2. t # Loop => op[t] # "hup"
    BY Zenon DEF ConnInv, Types, Threads
  <2> QED
    BY <1>1, <2>1, <2>2, Zenon DEF UnusePlaces, ClosePlaces
<1> QED
  BY <1>1, <1>2, <1>4, <1>5, <1>6, MoveKept, Zenon

\* A call that is entered once the connection is established.
LEMMA EnterKept ==
    ASSUME Counting, ConnInv, NEW t \in Threads, NEW o \in Ops \cup {"hup"}, Enter(t, o),
           t \in Users => o \notin {"forceClose", "hup"},
           state_.phase # "Connecting", state_' = state_, kind' = kind, QueueStep,
           pending' \in Seq(Functors),
           Cardinality(Queued(pending')) = Cardinality(Queued(pending)),
           ssl_' \in BOOLEAN, timers' \in Nat, UNCHANGED <<open, closed, revived>>,
           HangUp', CloseCount'
    PROVE  ConnInv'
<1>1. Types /\ Types' /\ OthersStay(t) /\ pc'[t] = "loop" /\ old'[t] = state_
  BY EnterTypes DEF ConnInv, Types
<1>2. Share(pc'[t]) = 0 /\ Share(pc[t]) \in Nat
  BY <1>1, Zenon DEF Share
<1>3. Unreleased \in Nat /\ Cardinality(Queued(pending)) \in Nat
  BY <1>1, UnreleasedNat, QueuedNat, Zenon DEF Types
<1>4. Unreleased' <= Unreleased
  BY <1>1, <1>2, <1>3, Recount, SMTT(30)
<1>5. LoadedBy(t)'
  BY <1>1, Zenon DEF LoadedBy
<1> QED
  BY <1>1, <1>4, <1>5, QuietKept, Zenon

\* A call, before the connection is established or after.
LEMMA CallKeeps ==
    ASSUME Counting, ConnInv, NEW t \in Threads, NEW o \in Ops, Call(t, o)
    PROVE  ConnInv'
<1>1. /\ Types /\ pc[t] = "idle" /\ (t = Loop => open) /\ Enter(t, o)
      /\ t # Loop => o # "forceClose"
      /\ UNCHANGED <<hup, state_, pending, open>>
  BY Zenon DEF ConnInv, Call, MayCall, At
<1>2. t \in Users => t # Loop
  BY ConnectionAssumption, Zenon
<1>3. o \notin {"hup"} /\ (t \in Users => o \notin {"forceClose", "hup"})
  BY <1>1, <1>2, Zenon DEF Ops
<1>4. /\ OthersStay(t) /\ op'[t] = o /\ old'[t] = state_ /\ Types'
      /\ pc' = [pc EXCEPT ![t] = IF state_.phase = "Connecting" THEN "futex" ELSE "loop"]
  BY <1>1, <1>3, EnterTypes, Zenon DEF Types, hup
<1>5. CASE state_.phase = "Connecting"
  <2>1. t \in Users
    BY <1>1, <1>5, Zenon DEF ConnInv, Start, Threads
  <2> QED
    BY <1>1, <1>4, <1>5, <2>1, EarlyKept, Zenon
<1>6. CASE state_.phase # "Connecting"
  <2>1. op[t] # "hup"
    BY <1>1, NotInHangUp, Zenon DEF UnusePlaces, ClosePlaces
  <2>2. CalmLoop
    BY <1>1, <1>3, <1>4, <1>6, <2>1, Zenon
    DEF CalmLoop, OthersStay, UnusePlaces, ClosePlaces, Types, Threads
  <2>3. HangUp' /\ CloseCount'
    BY <1>1, <2>2, HangUpKept, Zenon DEF hup
  <2>4. QueueStep
    BY <1>1, Zenon DEF QueueStep
  <2> QED
    BY <1>1, <1>3, <1>6, <2>3, <2>4, EnterKept, Zenon DEF hup, Types
<1> QED
  BY <1>5, <1>6, Zenon

\* A step that only changes the queue, and adds no message to it.
LEMMA QueueKept ==
    ASSUME Counting, ConnInv, UNCHANGED <<hup, state_, open, pc, op, old>>, QueueStep,
           state_.phase # "Connecting", pending' \in Seq(Functors),
           Cardinality(Queued(pending')) = Cardinality(Queued(pending))
    PROVE  ConnInv'
<1>1. Types /\ Types' /\ Loop \in Threads /\ OthersStay(Loop) /\ CalmLoop
  BY Zenon DEF ConnInv, Types, hup, Threads, OthersStay, CalmLoop
<1>2. Unreleased \in Nat /\ Cardinality(Queued(pending)) \in Nat
  BY <1>1, UnreleasedNat, QueuedNat, Zenon DEF Types
<1>3. Share(pc[Loop]) \in Nat
  BY Zenon DEF Share
<1>4. Unreleased' = Unreleased
  BY <1>1, <1>2, <1>3, Recount
<1>5. LoadedBy(Loop)'
  BY <1>1, <1>4, Zenon DEF ConnInv, Loaded, LoadedBy
<1>6. HangUp' /\ CloseCount'
  BY <1>1, HangUpKept, Zenon DEF hup
<1> QED
  BY <1>1, <1>2, <1>4, <1>5, <1>6, QuietKept DEF hup

\* forceClose off the loop thread queues forceCloseInLoop.
LEMMA ForceCloseQueuedKeeps ==
    ASSUME Counting, ConnInv, NEW t \in Users, ForceCloseQueued(t)
    PROVE  ConnInv'
<1>1. /\ Types /\ pc[t] = "idle"
      /\ pending' = pending \/ pending' = Append(pending, "forceCloseInLoop")
      /\ UNCHANGED <<hup, state_, open, pc, op, old>>
  BY Zenon DEF ConnInv, ForceCloseQueued, QueueInLoop, MayCall, At
<1>2. "forceCloseInLoop" \in Functors \ {"connectEstablished", "sendInLoop"}
  BY Zenon DEF Functors
<1>3. t \in Threads /\ pending \in Seq(Functors) /\ pending' \in Seq(Functors)
  BY <1>1, <1>2 DEF Types, Threads
<1>4. CASE state_.phase = "Connecting"
  <2>1. Types' /\ OthersStay(t) /\ pc' = [pc EXCEPT ![t] = "idle"]
    BY <1>1, <1>3, Zenon DEF Types, hup, OthersStay
  <2> QED
    BY <1>1, <1>2, <1>4, <2>1, EarlyKept, Zenon
<1>5. CASE state_.phase # "Connecting"
  <2>1. Cardinality(Queued(pending')) = Cardinality(Queued(pending))
    <3>1. CASE pending' = pending
      BY <3>1, Zenon
    <3>2. CASE pending' = Append(pending, "forceCloseInLoop")
      BY <1>2, <1>3, <3>2, QueueAppend, QueuedNat
    <3> QED
      BY <1>1, <3>1, <3>2, Zenon
  <2>2. QueueStep
    BY <1>1, <1>2, Zenon DEF QueueStep
  <2> QED
    BY <1>1, <1>3, <1>5, <2>1, <2>2, QueueKept, Zenon
<1> QED
  BY <1>4, <1>5, Zenon

\* shutdownInLoop runs.
LEMMA RunShutdownInLoopKeeps ==
    ASSUME Counting, ConnInv, RunShutdownInLoop
    PROVE  ConnInv'
<1>1. /\ Types /\ pending # <<>> /\ Head(pending) = "shutdownInLoop" /\ pending' = Tail(pending)
      /\ UNCHANGED <<hup, state_, open, pc, op, old>>
  BY Zenon DEF ConnInv, RunShutdownInLoop, Take
<1>2. pending \in Seq(Functors) /\ pending' \in Seq(Functors) /\ Head(pending) = pending[1]
  BY <1>1 DEF Types
<1>3. state_.phase # "Connecting"
  BY <1>1, <1>2, Zenon DEF ConnInv, Start
<1>4. Cardinality(Queued(pending')) = Cardinality(Queued(pending))
  BY <1>1, <1>2, QueueTake, QueuedNat
<1>5. QueueStep
  BY <1>1, Zenon DEF QueueStep
<1> QED
  BY <1>1, <1>2, <1>3, <1>4, <1>5, QueueKept, Zenon

\* forceCloseInLoop starts, from the queue or from a timer.
LEMMA ForceCloseStarts ==
    ASSUME Counting, ConnInv, RunForceCloseInLoop \/ RunDelayed
    PROVE  ConnInv'
<1>1. /\ Types /\ Loop \in Threads /\ pc[Loop] = "idle" /\ Enter(Loop, "forceClose")
      /\ UNCHANGED <<kind, ssl_, closed, revived, state_, open>>
      /\ timers' \in Nat
  BY DEF ConnInv, Types, Threads, RunForceCloseInLoop, RunDelayed, Take, At, hup
<1>2. /\ pending \in Seq(Functors) /\ pending' \in Seq(Functors) /\ QueueStep
      /\ Cardinality(Queued(pending')) = Cardinality(Queued(pending))
      /\ state_.phase # "Connecting"
  <2>1. CASE RunForceCloseInLoop
    <3>1. /\ pending # <<>> /\ Head(pending) = "forceCloseInLoop" /\ pending' = Tail(pending)
      BY <2>1, Zenon DEF RunForceCloseInLoop, Take
    <3>2. pending \in Seq(Functors) /\ pending' \in Seq(Functors) /\ Head(pending) = pending[1]
      BY <1>1, <3>1 DEF Types
    <3>3. state_.phase # "Connecting"
      BY <3>1, <3>2, Zenon DEF ConnInv, Start
    <3>4. Cardinality(Queued(pending')) = Cardinality(Queued(pending))
      BY <3>1, <3>2, QueueTake, QueuedNat
    <3> QED
      BY <3>1, <3>2, <3>3, <3>4, Zenon DEF QueueStep
  <2>2. CASE RunDelayed
    BY <2>2 DEF ConnInv, Types, Start, RunDelayed, QueueStep
  <2> QED
    BY <2>1, <2>2, Zenon
<1>3. "forceClose" \in Ops /\ Loop \notin Users
  BY ConnectionAssumption, Zenon DEF Ops
<1>4. op[Loop] # "hup"
  BY <1>1, NotInHangUp, Zenon DEF UnusePlaces, ClosePlaces
<1>5. op'[Loop] = "forceClose" /\ pc'[Loop] = "loop"
  BY <1>1, <1>2, <1>3, EnterTypes, SMTT(30) DEF Types
<1>6. CalmLoop
  BY <1>1, <1>4, <1>5, Zenon DEF CalmLoop, ClosePlaces
<1>7. HangUp' /\ CloseCount'
  BY <1>1, <1>6, HangUpKept, Zenon
<1> QED
  BY <1>1, <1>2, <1>3, <1>7, EnterKept, Zenon DEF Types

\* set_unused finds the connection out of use.
LEMMA UnuseRefusedKeeps ==
    ASSUME Counting, ConnInv, NEW t \in Threads, UnuseRefused(t)
    PROVE  ConnInv'
<1>1. /\ Types /\ InUnuse(t) /\ pc[t] = "loop" /\ ~old[t].used /\ old[t] \in Words
      /\ GotoWith(t, After(t), old[t])
      /\ UNCHANGED <<hup, state_, pending, open>>
  BY Zenon DEF ConnInv, Types, UnuseRefused, Goto, InUnuse, At
<1>2. ~state_.used
  BY <1>1, Zenon DEF ConnInv, Loaded, LoadedBy
<1>3. /\ After(t) \in {"idle", "hup", "hup_close"}
      /\ After(t) \in CallPlaces \cup LoopPlaces /\ (t \in Users => After(t) \in CallPlaces)
      /\ Share(After(t)) <= Share(pc[t])
      /\ state_.phase # "Connecting"
  BY <1>1, AfterPlace
<1>4. HangUp' /\ CloseCount'
  <2>1. /\ OthersStay(t) /\ pc'[t] = After(t)
        /\ op'[t] = IF After(t) = "idle" THEN "none" ELSE op[t]
    BY <1>1, <1>3, GotoTypes, Zenon
  <2> QED
    BY <1>1, <1>2, <2>1, AfterUnuse, Zenon DEF hup
<1> QED
  BY <1>1, <1>3, <1>4, GotoKept, Zenon DEF hup, Types

\* A user thread queues a functor and returns: the message in its hands, if it has one, is
\* in the queue now.
LEMMA HandOver ==
    ASSUME Counting, ConnInv, NEW t \in Users, NEW f \in Functors \ {"connectEstablished"},
           pc[t] \in {"accepted", "shutting"}, pc[t] = "accepted" <=> f = "sendInLoop",
           pending' = Append(pending, f), Goto(t, "idle"), UNCHANGED <<hup, state_, open>>
    PROVE  ConnInv'
<1>1. /\ Types /\ t \in Threads /\ Loop \in Threads \ {t} /\ old[t] \in Words
      /\ pending \in Seq(Functors) /\ pending' \in Seq(Functors)
      /\ "idle" \in CallPlaces
  BY ConnectionAssumption DEF ConnInv, Types, Threads, CallPlaces
<1>2. Types' /\ OthersStay(t) /\ pc'[t] = "idle"
  BY <1>1, GotoTypes, Zenon DEF Goto, Types, hup
<1>3. state_.phase # "Connecting"
  BY <1>1, Settled, Zenon
<1>4. Unreleased \in Nat /\ Cardinality(Queued(pending)) \in Nat
  BY <1>1, UnreleasedNat, QueuedNat, Zenon
<1>5. Unreleased' = Unreleased
  <2>1. Cardinality(Queued(pending')) - Cardinality(Queued(pending)) =
            IF f = "sendInLoop" THEN 1 ELSE 0
    BY <1>1, <1>4, QueueAppend, SMTT(30)
  <2>2. Share(pc'[t]) - Share(pc[t]) = IF f = "sendInLoop" THEN -1 ELSE 0
    BY <1>2, SMTT(30) DEF Share
  <2>3. Unreleased' = Unreleased + (IF f = "sendInLoop" THEN 1 ELSE 0)
                        + (IF f = "sendInLoop" THEN -1 ELSE 0)
    BY <1>1, <1>2, <2>1, <2>2, Recount, Zenon
  <2> QED
    BY <1>4, <2>3
<1>6. CalmLoop
  BY <1>1, <1>2, Zenon DEF OthersStay, CalmLoop, UnusePlaces
<1>7. HangUp' /\ CloseCount'
  BY <1>6, HangUpKept, Zenon DEF hup
<1>8. LoadedBy(t)'
  BY <1>2, Zenon DEF LoadedBy
<1>9. QueueStep
  BY Zenon DEF QueueStep
<1> QED
  BY <1>1, <1>2, <1>3, <1>4, <1>5, <1>7, <1>8, <1>9, QuietKept, SMTT(30) DEF hup

\* The loop's queue is full, and the functor is lost; so is the message, if it had one,
\* but not its count.
LEMMA GiveUp ==
    ASSUME Counting, ConnInv, NEW t \in Users, pc[t] \in {"accepted", "shutting"},
           pending' = pending, Goto(t, "idle"), UNCHANGED <<hup, state_, open>>
    PROVE  ConnInv'
<1>1. t \in Threads /\ old[t] \in Words /\ GotoWith(t, "idle", old[t])
  BY Zenon DEF ConnInv, Types, Threads, Goto
<1>2. "idle" \in CallPlaces /\ Share("idle") <= Share(pc[t]) /\ pc[t] \notin ClosePlaces
  BY DEF CallPlaces, Share, ClosePlaces
<1>3. state_.phase # "Connecting" /\ op[t] # "hup"
  BY <1>1, Settled, NotInHangUp, Zenon DEF UnusePlaces, ClosePlaces
<1> QED
  BY <1>1, <1>2, <1>3, MoveKept, Zenon

\* runInLoop of the loop thread itself, and of the others.
LEMMA RunInLoopKeeps ==
    ASSUME Counting, ConnInv, NEW t \in Threads, SendAccepted(t) \/ (t # Loop /\ ShutdownRun(t))
    PROVE  ConnInv'
<1>1. CASE t # Loop /\ SendAccepted(t)
  <2>1. t \in Users /\ "sendInLoop" \in Functors \ {"connectEstablished"}
    BY <1>1, Zenon DEF Threads, Functors
  <2> QED
    BY <1>1, <2>1, HandOver, GiveUp, Zenon DEF SendAccepted, QueueInLoop, At
<1>2. CASE t # Loop /\ ShutdownRun(t)
  <2>1. t \in Users /\ "shutdownInLoop" \in Functors \ {"connectEstablished"}
    BY <1>2, Zenon DEF Threads, Functors
  <2> QED
    BY <1>2, <2>1, HandOver, GiveUp, Zenon DEF ShutdownRun, QueueInLoop, At
<1>3. CASE t = Loop /\ SendAccepted(t)
  <2>1. /\ Types /\ pc[t] = "accepted" /\ GotoWith(t, "in_loop", old[t]) /\ old[t] \in Words
        /\ UNCHANGED <<hup, state_, pending, open>>
    BY <1>3, Zenon DEF ConnInv, Types, SendAccepted, Goto, At
  <2>2. /\ "in_loop" \in CallPlaces \cup LoopPlaces /\ t \notin Users
        /\ Share("in_loop") <= Share(pc[t])
    BY <1>3, <2>1, ConnectionAssumption DEF LoopPlaces, Share
  <2>3. state_.phase # "Connecting"
    BY <2>1, Settled, Zenon
  <2>4. op[t] # "hup"
    BY <2>1, NotInHangUp, Zenon DEF UnusePlaces, ClosePlaces
  <2>5. pc'[t] = "in_loop" /\ op'[t] = op[t]
    BY <2>1, <2>2, GotoTypes, Zenon
  <2>6. CalmLoop
    BY <1>3, <2>1, <2>4, <2>5, Zenon DEF CalmLoop, ClosePlaces
  <2>7. HangUp' /\ CloseCount'
    BY <2>1, <2>6, HangUpKept, Zenon DEF hup
  <2> QED
    BY <2>1, <2>2, <2>3, <2>7, GotoKept, Zenon DEF hup, Types
<1> QED
  BY <1>1, <1>2, <1>3, Zenon

\* sendInLoop starts from the queue: its message moves from the queue to the loop thread.
LEMMA RunSendInLoopKeeps ==
    ASSUME Counting, ConnInv, RunSendInLoop
    PROVE  ConnInv'
<1>1. /\ Types /\ Loop \in Threads /\ Loop \notin Users /\ pc[Loop] = "idle" /\ old[Loop] \in Words
      /\ pending # <<>> /\ Head(pending) = "sendInLoop" /\ pending' = Tail(pending)
      /\ GotoWith(Loop, "in_loop", old[Loop]) /\ UNCHANGED <<hup, state_, open>>
  BY ConnectionAssumption, Zenon DEF ConnInv, Types, RunSendInLoop, Take, Goto, At, Threads
<1>2. pending \in Seq(Functors) /\ pending' \in Seq(Functors) /\ Head(pending) = pending[1]
  BY <1>1, SMTT(30) DEF Types
<1>3. state_.phase # "Connecting"
  BY <1>1, <1>2, Zenon DEF ConnInv, Start
<1>4. "in_loop" \in CallPlaces \cup LoopPlaces
  BY Zenon DEF LoopPlaces
<1>5. Types' /\ OthersStay(Loop) /\ pc'[Loop] = "in_loop" /\ op'[Loop] = op[Loop]
  BY <1>1, <1>2, <1>4, GotoTypes DEF Types, hup
<1>6. Unreleased \in Nat /\ Cardinality(Queued(pending)) \in Nat
  BY <1>1, <1>2, UnreleasedNat, QueuedNat, Zenon
<1>7. Unreleased' = Unreleased
  <2>1. Cardinality(Queued(pending')) = Cardinality(Queued(pending)) - 1
    BY <1>1, <1>2, QueueTake, Zenon
  <2>2. Share(pc'[Loop]) = 1 /\ Share(pc[Loop]) = 0
    BY <1>1, <1>5, Zenon DEF Share
  <2> QED
    BY <1>1, <1>5, <1>6, <2>1, <2>2, Recount, SMTT(30)
<1>8. op[Loop] # "hup"
  BY <1>1, NotInHangUp, Zenon DEF UnusePlaces, ClosePlaces
<1>9. CalmLoop
  BY <1>1, <1>5, <1>8, Zenon DEF CalmLoop, ClosePlaces
<1>10. HangUp' /\ CloseCount'
  BY <1>1, <1>9, HangUpKept, Zenon DEF hup
<1>11. LoadedBy(Loop)'
  BY <1>5, Zenon DEF LoadedBy
<1>12. QueueStep
  BY <1>1, Zenon DEF QueueStep
<1> QED
  BY <1>1, <1>3, <1>5, <1>6, <1>7, <1>10, <1>11, <1>12, QuietKept, SMTT(30) DEF hup

\* The loop thread moves on outside the close of a hang-up.
LEMMA LoopMoveKept ==
    ASSUME Counting, ConnInv, NEW l \in {"idle", "release", "hup"}, NEW w \in {old[Loop], state_},
           GotoWith(Loop, l, w), state_.phase # "Connecting",
           UNCHANGED <<hup, state_, pending, open>>,
           pc[Loop] \in {"idle", "in_loop", "release", "clear", "hup"},
           l = "release" => pc[Loop] = "in_loop"
    PROVE  ConnInv'
<1>1. /\ Types /\ Loop \in Threads /\ Loop \notin Users /\ w \in Words
      /\ l \in CallPlaces \cup LoopPlaces
  BY ConnectionAssumption DEF ConnInv, Types, Threads, CallPlaces, LoopPlaces
<1>2. pc'[Loop] = l /\ op'[Loop] = IF l = "idle" THEN "none" ELSE op[Loop]
  BY <1>1, GotoTypes, Zenon
<1>3. op[Loop] # "hup"
  BY <1>1, NotInHangUp, Zenon DEF UnusePlaces, ClosePlaces
<1>4. CalmLoop
  BY <1>2, <1>3, Zenon DEF CalmLoop, ClosePlaces
<1>5. HangUp' /\ CloseCount'
  BY <1>4, HangUpKept, Zenon DEF hup
<1>6. Share(l) <= Share(pc[Loop])
  BY DEF Share
<1> QED
  BY <1>1, <1>5, <1>6, GotoKept, Zenon DEF hup, Types

\* The steps of sendInLoop that do not change the word, and the hang-up that has nothing
\* to close.
LEMMA LoopMoves ==
    ASSUME Counting, ConnInv,
           \/ SendInLoop \/ ReleaseNot \/ HupEvent \/ HupAlready
           \/ state_ # old[Loop] /\ (Release \/ ClearWriting)
    PROVE  ConnInv'
<1> USE DEF Goto, At
<1>0. Loop \in Threads
  BY Zenon DEF Threads
<1>1. CASE SendInLoop
  BY <1>0, <1>1, Settled, LoopMoveKept, Zenon DEF SendInLoop
<1>2. CASE ReleaseNot
  BY <1>0, <1>2, Settled, LoopMoveKept, Zenon DEF ReleaseNot
<1>3. CASE HupEvent
  <2>1. state_.phase # "Connecting"
    BY <1>3, Zenon DEF HupEvent, ConnInv, Start
  <2> QED
    BY <1>3, <2>1, LoopMoveKept, Zenon DEF HupEvent
<1>4. CASE HupAlready
  BY <1>0, <1>4, Settled, LoopMoveKept, Zenon DEF HupAlready
<1>5. CASE state_ # old[Loop] /\ Release
  BY <1>0, <1>5, Settled, LoopMoveKept, Zenon DEF Release
<1>6. CASE state_ # old[Loop] /\ ClearWriting
  BY <1>0, <1>6, Settled, LoopMoveKept, Zenon DEF ClearWriting
<1> QED
  BY <1>1, <1>2, <1>3, <1>4, <1>5, <1>6, Zenon

\* The hang-up closes the socket; for a TLS connection after set_unused.
LEMMA HupCloses ==
    ASSUME Counting, ConnInv, HupClose \/ HupSslClose
    PROVE  ConnInv'
<1>1. Types /\ Loop \in Threads /\ Loop \notin Users /\ old[Loop] \in Words
  BY ConnectionAssumption, Zenon DEF ConnInv, Types, Threads
<1>2. CASE HupClose
  <2>1. /\ pc[Loop] = "hup" /\ state_.phase # "Disconnected" /\ kind = "plain"
        /\ GotoWith(Loop, "hup_store", old[Loop]) /\ open' = FALSE
        /\ UNCHANGED <<hup, state_, pending>>
    BY <1>2, Zenon DEF HupClose, Goto, At
  <2>2. "hup_store" \in CallPlaces \cup LoopPlaces /\ Share("hup_store") <= Share(pc[Loop])
    BY <2>1 DEF LoopPlaces, Share
  <2>3. state_.phase # "Connecting" /\ op[Loop] # "hup"
    BY <1>1, <2>1, Settled, NotInHangUp, Zenon DEF UnusePlaces, ClosePlaces
  <2>4. pc'[Loop] = "hup_store" /\ op'[Loop] = op[Loop]
    BY <1>1, <2>1, <2>2, GotoTypes, SMTT(30)
  <2>5. HangUp'
    BY <2>1, <2>3, <2>4, Zenon DEF HangUp, hup
  <2>6. CloseCount'
    BY <2>1, <2>3, <2>4, Zenon DEF ConnInv, CloseCount, hup
  <2> QED
    BY <1>1, <2>1, <2>2, <2>3, <2>5, <2>6, GotoKept, ZenonT(30) DEF hup, Types
<1>3. CASE HupSslClose
  <2>1. /\ pc[Loop] = "hup_close"
        /\ GotoWith(Loop, "hup_cb", old[Loop]) /\ open' = FALSE
        /\ UNCHANGED <<hup, state_, pending>>
    BY <1>3, Zenon DEF HupSslClose, Goto, At
  <2>2. "hup_cb" \in CallPlaces \cup LoopPlaces /\ Share("hup_cb") <= Share(pc[Loop])
    BY <2>1 DEF LoopPlaces, Share
  <2>3. state_.phase # "Connecting"
    BY <1>1, <2>1, Settled, Zenon
  <2>4. pc'[Loop] = "hup_cb" /\ op'[Loop] = op[Loop]
    BY <1>1, <2>1, <2>2, GotoTypes, Zenon
  <2>5. HangUp'
    BY <2>1, <2>4, Zenon DEF ConnInv, HangUp, hup, ClosePlaces
  <2>6. CloseCount'
    BY <2>1, <2>4, Zenon DEF ConnInv, HangUp, CloseCount, hup
  <2> QED
    BY <1>1, <2>1, <2>2, <2>3, <2>5, <2>6, GotoKept, ZenonT(30) DEF hup, Types
<1> QED
  BY <1>2, <1>3, Zenon

\* The hang-up of a TLS connection frees the SSL and starts set_unused.
LEMMA HupSslFreeKeeps ==
    ASSUME Counting, ConnInv, HupSslFree
    PROVE  ConnInv'
<1>1. /\ Types /\ Loop \in Threads /\ Loop \notin Users /\ pc[Loop] = "hup"
      /\ state_.phase # "Disconnected" /\ kind = "ssl" /\ ssl_' = FALSE /\ Enter(Loop, "hup")
      /\ UNCHANGED <<kind, revived, timers, closed, state_, pending, open>>
  BY ConnectionAssumption, Zenon DEF ConnInv, Threads, HupSslFree, At
<1>2. state_.phase # "Connecting"
  BY <1>1, Settled, Zenon
<1>3. op'[Loop] = "hup" /\ pc'[Loop] = "loop"
  BY <1>1, <1>2, EnterTypes DEF Types
<1>4. HangUp'
  BY <1>1, <1>3, Zenon DEF HangUp, UnusePlaces, ClosePlaces
<1>5. CloseCount'
  BY <1>1, <1>3, Zenon DEF ConnInv, CloseCount
<1>6. QueueStep
  BY <1>1, Zenon DEF QueueStep
<1> QED
  BY <1>1, <1>2, <1>4, <1>5, <1>6, EnterKept, Zenon DEF Types

-----------------------------------------------------------------------------
(* The steps that change the word. *)

\* A step that changes the word, and not the queue, keeps the invariant if `used' does not
\* come back, the new word covers the messages, and the thread and the hang-up are right.
LEMMA WordKept ==
    ASSUME Counting, ConnInv, Types', NEW t \in Threads, OthersStay(t),
           pending' = pending, kind' = kind, state_.phase # "Connecting",
           state_'.phase # "Connecting",
           state_'.used => state_.used, WordShape',
           Unreleased' = Unreleased + (Share(pc'[t]) - Share(pc[t])) =>
               /\ ~state_.used => Unreleased' <= Unreleased
               /\ LoadedBy(t)' /\ Covered',
           HangUp', CloseCount'
    PROVE  ConnInv'
<1>1. Types
  BY Zenon DEF ConnInv
<1>2. Unreleased \in Nat /\ Cardinality(Queued(pending)) \in Nat
  BY <1>1, UnreleasedNat, QueuedNat, Zenon DEF Types
<1>3. Share(pc'[t]) \in Nat /\ Share(pc[t]) \in Nat
  BY Zenon DEF Share
<1>4. Unreleased' = Unreleased + (Share(pc'[t]) - Share(pc[t]))
  BY <1>1, <1>2, <1>3, Recount
<1>5. LoadedBy(t)' /\ Covered' /\ (~state_.used => Unreleased' <= Unreleased)
  BY <1>4, Zenon
<1>6. Loaded'
  BY <1>5, LoadedKept, Zenon
<1>7. Start'
  BY StartKept, Zenon DEF ConnInv, QueueStep
<1> QED
  BY <1>5, <1>6, <1>7, Zenon DEF ConnInv

\* The count in the word is changed without touching its marks.
LEMMA PlusWord ==
    ASSUME NEW v \in Words, NEW n \in Int
    PROVE  /\ Plus(v, n) \in Words /\ v.senders \in Int
           /\ Plus(v, n).phase = v.phase /\ Plus(v, n).used = v.used
           /\ Plus(v, n).writing = v.writing /\ Plus(v, n).senders = v.senders + n
BY DEF Words, Plus

\* send takes the mark, counts itself or joins: the word stays in use, and the count goes
\* up with the messages.
LEMMA SendKeeps ==
    ASSUME Counting, ConnInv, NEW t \in Threads, state_ = old[t],
           SendJoin(t) \/ SendMark(t) \/ SendCount(t)
    PROVE  ConnInv'
<1> DEFINE l == IF pc[t] = "loop" /\ ~old[t].writing THEN "count" ELSE "accepted"
           w == IF l = "count" THEN Marked(state_) ELSE Plus(state_, 1)
<1>1. Types /\ pc[t] \in {"loop", "count"} /\ op[t] # "hup" /\ WordShape /\ Covered
  BY NotInHangUp, Zenon
  DEF ConnInv, SendJoin, SendMark, SendCount, InLoop, At, UnusePlaces, ClosePlaces
<1>2. /\ state_ \in Words /\ state_.used
      /\ l = "accepted" => state_.writing
  BY <1>1, Zenon DEF ConnInv, Types, Loaded, LoadedBy, SendJoin, SendMark, SendCount, InLoop, At
<1>3. /\ state_' = w /\ UNCHANGED <<hup, pending, open>>
      /\ GotoWith(t, l, IF l = "count" THEN w ELSE old[t])
  BY <1>1, <1>2, Zenon DEF SendJoin, SendMark, SendCount, InLoop, At, Goto
<1>4. /\ w \in Words /\ w.used /\ w.phase = state_.phase /\ w.writing
      /\ w.senders = IF l = "count" THEN state_.senders ELSE state_.senders + 1
      /\ state_.senders \in Int
  <2>1. /\ Marked(state_) \in Words /\ Marked(state_).used /\ Marked(state_).writing
        /\ Marked(state_).phase = state_.phase /\ Marked(state_).senders = state_.senders
        /\ state_.senders \in Int
    BY <1>2, Zenon DEF Words, Marked
  <2>2. /\ Plus(state_, 1) \in Words /\ Plus(state_, 1).used
        /\ Plus(state_, 1).writing = state_.writing
        /\ Plus(state_, 1).phase = state_.phase /\ Plus(state_, 1).senders = state_.senders + 1
    BY <1>2 DEF Words, Plus
  <2>3. CASE l = "count"
    BY <2>1, <2>3, Zenon
  <2>4. CASE l = "accepted"
    BY <1>2, <2>1, <2>2, <2>4, Zenon
  <2> QED
    BY <2>3, <2>4, Zenon
<1>5. state_.phase = "Connected"
  BY <1>1, <1>2 DEF WordShape, Bare
<1>6. l \in CallPlaces /\ l \in {"count", "accepted"} /\ (IF l = "count" THEN w ELSE old[t]) \in Words
  BY <1>1, <1>4, Zenon DEF CallPlaces, Types
<1> HIDE DEF l, w
<1>7. /\ OthersStay(t) /\ pc'[t] = l /\ op'[t] = op[t] /\ (l = "count" => old'[t] = w)
      /\ Types'
  BY <1>1, <1>3, <1>4, <1>6, GotoTypes DEF Types, hup
<1>8. CalmLoop
  BY <1>1, <1>6, <1>7, Zenon DEF CalmLoop, OthersStay, Threads, UnusePlaces, ClosePlaces
<1>9. HangUp' /\ CloseCount'
  BY <1>2, <1>3, <1>4, <1>8, HangUpKept, Zenon DEF hup
<1>10. WordShape'
  BY <1>1, <1>3, <1>4, <1>5 DEF WordShape
<1>11. ASSUME Unreleased' = Unreleased + (Share(pc'[t]) - Share(pc[t]))
       PROVE  LoadedBy(t)' /\ Covered'
  <2>1. Unreleased \in Nat
    BY <1>1, UnreleasedNat, Zenon
  <2>2. Share(pc[t]) = 0 /\ Share(pc'[t]) = IF l = "count" THEN 0 ELSE 1
    BY <1>1, <1>6, <1>7, Zenon DEF Share
  <2>3. Unreleased <= state_.senders
    BY <1>1, <1>5, Zenon DEF Covered
  <2>4. LoadedBy(t)'
    BY <1>4, <1>6, <1>7, Zenon DEF LoadedBy
  <2>5. Unreleased' <= state_'.senders
    BY <1>3, <1>4, <1>11, <2>1, <2>2, <2>3
  <2> QED
    BY <1>3, <1>4, <2>4, <2>5, Zenon DEF Covered
<1> QED
  BY <1>2, <1>3, <1>4, <1>5, <1>7, <1>9, <1>10, <1>11, WordKept, Zenon DEF hup

\* set_unused takes `used' off a word that has no writer, hence no message either.
LEMMA UnuseCasKeeps ==
    ASSUME Counting, ConnInv, NEW t \in Threads, state_ = old[t], UnuseCas(t)
    PROVE  ConnInv'
<1>1. /\ Types /\ InUnuse(t) /\ state_.used /\ ~state_.writing /\ WordShape /\ Covered
      /\ state_' = Unused(state_) /\ GotoWaking(t, After(t)) /\ UNCHANGED <<hup, pending, open>>
  BY Zenon DEF ConnInv, UnuseCas
<1>2. /\ state_ \in Words /\ state_' \in Words /\ ~state_'.used /\ ~state_'.writing
      /\ state_'.phase = state_.phase /\ state_'.senders = state_.senders
  BY <1>1, Zenon DEF Types, Words, Unused
<1>3. state_.senders = 0 /\ state_.phase = "Connected"
  BY <1>1, <1>2 DEF WordShape, Words, Bare
<1>4. /\ After(t) \in {"idle", "hup", "hup_close"}
      /\ After(t) \in CallPlaces \cup LoopPlaces /\ (t \in Users => After(t) \in CallPlaces)
      /\ Share(After(t)) = 0 /\ Share(pc[t]) = 0
  BY <1>1, AfterPlace, Zenon
<1>5. /\ OthersStay(t) /\ pc'[t] = After(t) /\ Types'
      /\ op'[t] = IF After(t) = "idle" THEN "none" ELSE op[t]
  BY <1>1, <1>2, <1>4, WakingTypes, Zenon DEF Types, hup
<1>6. HangUp' /\ CloseCount'
  BY <1>1, <1>2, <1>5, AfterUnuse, Zenon DEF hup
<1>7. WordShape'
  BY <1>2, <1>3 DEF WordShape
<1>8. ASSUME Unreleased' = Unreleased + (Share(pc'[t]) - Share(pc[t]))
      PROVE  LoadedBy(t)' /\ Covered'
  <2>1. Unreleased \in Nat /\ Unreleased <= state_.senders
    BY <1>1, <1>3, UnreleasedNat, Zenon DEF Covered
  <2>2. Unreleased' = 0
    BY <1>3, <1>4, <1>5, <1>8, <2>1
  <2>3. LoadedBy(t)'
    BY <1>4, <1>5, Zenon DEF LoadedBy
  <2> QED
    BY <1>2, <1>3, <2>2, <2>3 DEF Covered
<1> QED
  BY <1>1, <1>2, <1>3, <1>5, <1>6, <1>7, <1>8, WordKept, Zenon DEF hup

\* The word is overwritten with a bare phase when no message is left: by shutdown and by
\* forceCloseWithDelay.
LEMMA DisconnectingKept ==
    ASSUME Counting, ConnInv, NEW t \in Threads, NEW l \in {"idle", "shutting"}, Goto(t, l),
           pc[t] \in {"loop", "delay"}, op[t] # "hup", Unreleased = 0,
           state_' = Bare("Disconnecting"), UNCHANGED <<kind, ssl_, closed, pending, open>>,
           timers' \in Nat, revived' = (revived \/ state_.phase = "Disconnected")
    PROVE  ConnInv'
<1>1. Types /\ old[t] \in Words /\ l \in CallPlaces /\ GotoWith(t, l, old[t])
  BY Zenon DEF ConnInv, Types, Goto, CallPlaces
<1>2. /\ state_' \in Words /\ ~state_'.used /\ ~state_'.writing /\ state_'.senders = 0
      /\ state_'.phase = "Disconnecting"
  BY DEF Words, Bare
<1>3. /\ OthersStay(t) /\ pc'[t] = l /\ Types'
      /\ op'[t] = IF l = "idle" THEN "none" ELSE op[t]
  BY <1>1, <1>2, GotoTypes, Zenon DEF Types
<1>4. CalmLoop
  BY <1>3, Zenon DEF CalmLoop, OthersStay, Threads, UnusePlaces, ClosePlaces
<1>5. HangUp' /\ CloseCount'
  BY <1>2, <1>4, HangUpKept, Zenon
<1>6. WordShape'
  BY <1>2 DEF WordShape
<1>7. state_.phase # "Connecting"
  BY Settled, Zenon
<1>8. ASSUME Unreleased' = Unreleased + (Share(pc'[t]) - Share(pc[t]))
      PROVE  LoadedBy(t)' /\ Covered' /\ Unreleased' <= Unreleased
  <2>1. Share(pc[t]) = 0 /\ Share(pc'[t]) = 0
    BY <1>3, Zenon DEF Share
  <2>2. Unreleased' = 0
    BY <1>8, <2>1
  <2>3. LoadedBy(t)'
    BY <1>3, Zenon DEF LoadedBy
  <2> QED
    BY <1>2, <2>2, <2>3 DEF Covered
<1> QED
  BY <1>2, <1>3, <1>5, <1>6, <1>7, <1>8, WordKept, Zenon

\* shutdown finds a connection out of use; forceCloseWithDelay found one before.
LEMMA ShutdownKeeps ==
    ASSUME Counting, ConnInv, NEW t \in Threads, (state_ = old[t] /\ ShutdownCas(t)) \/ DelayStore(t)
    PROVE  ConnInv'
<1>1. CASE state_ = old[t] /\ ShutdownCas(t)
  <2>1. /\ Types /\ pc[t] = "loop" /\ op[t] = "shutdown" /\ ~state_.used
        /\ state_.phase \in {"Connecting", "Connected"}
        /\ Goto(t, "shutting") /\ state_' = Bare("Disconnecting")
        /\ UNCHANGED <<hup, pending, open>>
    BY <1>1, Zenon DEF ConnInv, ShutdownCas, InLoop, At
  <2>2. state_.senders = 0 /\ state_.phase # "Disconnected"
    BY <2>1 DEF ConnInv, WordShape, Types, Words
  <2>3. Unreleased \in Nat /\ Unreleased <= state_.senders
    BY <2>1, <2>2, UnreleasedNat, Zenon DEF ConnInv, Covered
  <2>4. Unreleased = 0
    BY <2>2, <2>3
  <2> QED
    BY <2>1, <2>2, <2>4, DisconnectingKept, Zenon DEF hup, Types
<1>2. CASE DelayStore(t)
  <2>1. Types /\ pc[t] = "delay"
    BY <1>2, Zenon DEF ConnInv, DelayStore, At
  <2>2. op[t] # "hup"
    BY <2>1, NotInHangUp, Zenon DEF UnusePlaces, ClosePlaces
  <2>3. Unreleased = 0
    BY <2>1, Zenon DEF ConnInv, Loaded, LoadedBy
  <2> QED
    BY <1>2, <2>1, <2>2, <2>3, DisconnectingKept DEF DelayStore, Types
<1> QED
  BY <1>1, <1>2, Zenon

\* sendInLoop gives its count back: the word goes down with the messages.
LEMMA ReleaseKeeps ==
    ASSUME Counting, ConnInv, state_ = old[Loop], Release
    PROVE  ConnInv'
<1> DEFINE l == IF state_.senders = 1 THEN "clear" ELSE "idle"
           w == Plus(state_, -1)
<1>1. /\ Types /\ WordShape /\ Covered /\ Loop \in Threads /\ Loop \notin Users
      /\ pc[Loop] = "release" /\ state_.used /\ state_.writing
      /\ state_' = w /\ GotoWith(Loop, l, w) /\ UNCHANGED <<hup, pending, open>>
  BY ConnectionAssumption, Zenon DEF ConnInv, Threads, Release, At
<1>2. /\ state_ \in Words /\ state_.senders \in Int /\ w \in Words /\ w.used /\ w.writing
      /\ w.phase = state_.phase /\ w.senders = state_.senders - 1
  <2>1. state_ \in Words
    BY <1>1, Zenon DEF Types
  <2>2. -1 \in Int
    OBVIOUS
  <2>3. /\ w \in Words /\ state_.senders \in Int /\ w.phase = state_.phase
        /\ w.used = state_.used /\ w.writing = state_.writing /\ w.senders = state_.senders + -1
    BY <2>1, <2>2, PlusWord, Zenon
  <2> HIDE DEF w
  <2> QED
    BY <1>1, <2>1, <2>3, Zenon
<1>3. l \in CallPlaces \cup LoopPlaces /\ l \in {"clear", "idle"}
      /\ (l = "clear" => w.senders = 0)
  BY <1>2 DEF CallPlaces, LoopPlaces
<1>4. state_.phase = "Connected"
  BY <1>1 DEF WordShape, Bare
<1> HIDE DEF l, w
<1>5. /\ OthersStay(Loop) /\ pc'[Loop] = l /\ Types' /\ (l = "clear" => old'[Loop] = w)
      /\ op'[Loop] = IF l = "idle" THEN "none" ELSE op[Loop]
  BY <1>1, <1>2, <1>3, GotoTypes DEF Types, hup
<1>6. op[Loop] # "hup"
  BY <1>1, NotInHangUp, Zenon DEF UnusePlaces, ClosePlaces
<1>7. CalmLoop
  BY <1>1, <1>3, <1>5, <1>6, Zenon DEF CalmLoop, ClosePlaces
<1>8. HangUp' /\ CloseCount'
  BY <1>1, <1>2, <1>7, HangUpKept, Zenon DEF hup
<1>9. Unreleased \in Nat /\ Unreleased <= state_.senders /\ Unreleased >= 1
  <2>1. Cardinality(Queued(pending)) \in Nat /\ Cardinality(Sending(pc)) \in Nat
    BY <1>1, QueuedNat, SendingNat, Zenon DEF Types
  <2>2. Unreleased = Cardinality(Queued(pending)) + Cardinality(Sending(pc)) + 1
    BY <1>1, Zenon DEF Unreleased, Unwritten, Queued, Sending, At
  <2> QED
    BY <1>1, <1>4, <2>1, <2>2 DEF Covered
<1>10. WordShape'
  BY <1>1, <1>2, <1>4, <1>9 DEF WordShape
<1>11. ASSUME Unreleased' = Unreleased + (Share(pc'[Loop]) - Share(pc[Loop]))
       PROVE  LoadedBy(Loop)' /\ Covered'
  <2>1. Share(pc[Loop]) = 1 /\ Share(pc'[Loop]) = 0
    BY <1>1, <1>3, <1>5, Zenon DEF Share
  <2>2. Unreleased' <= state_'.senders
    BY <1>1, <1>2, <1>9, <1>11, <2>1
  <2>3. LoadedBy(Loop)'
    BY <1>2, <1>3, <1>5, Zenon DEF LoadedBy
  <2> QED
    BY <1>1, <1>2, <2>2, <2>3, Zenon DEF Covered
<1> QED
  BY <1>1, <1>2, <1>4, <1>5, <1>8, <1>10, <1>11, WordKept, Zenon DEF hup

\* The last sender takes the mark off: the count it has seen is zero, so no message is left.
LEMMA ClearWritingKeeps ==
    ASSUME Counting, ConnInv, state_ = old[Loop], ClearWriting
    PROVE  ConnInv'
<1>1. /\ Types /\ WordShape /\ Covered /\ Loop \in Threads /\ Loop \notin Users
      /\ pc[Loop] = "clear" /\ state_' = Cleared(state_) /\ GotoWaking(Loop, "idle")
      /\ UNCHANGED <<hup, pending, open>>
  BY ConnectionAssumption, Zenon DEF ConnInv, Threads, ClearWriting, At
<1>2. state_.used /\ state_.senders = 0
  BY <1>1, Zenon DEF ConnInv, Loaded, LoadedBy
<1>3. /\ state_ \in Words /\ state_' \in Words /\ state_'.used /\ ~state_'.writing
      /\ state_'.phase = state_.phase /\ state_'.senders = 0
  BY <1>1, <1>2, Zenon DEF Types, Words, Cleared
<1>4. state_.phase = "Connected"
  BY <1>1, <1>2 DEF WordShape, Bare
<1>5. OthersStay(Loop) /\ pc'[Loop] = "idle" /\ op'[Loop] = "none" /\ Types'
  BY <1>1, <1>3, WakingTypes, Zenon DEF Types, hup, CallPlaces
<1>6. op[Loop] # "hup"
  BY <1>1, NotInHangUp, Zenon DEF UnusePlaces, ClosePlaces
<1>7. CalmLoop
  BY <1>1, <1>5, <1>6, Zenon DEF CalmLoop, ClosePlaces
<1>8. HangUp' /\ CloseCount'
  BY <1>1, <1>2, <1>3, <1>7, HangUpKept, Zenon DEF hup
<1>9. WordShape'
  BY <1>3, <1>4 DEF WordShape
<1>10. ASSUME Unreleased' = Unreleased + (Share(pc'[Loop]) - Share(pc[Loop]))
       PROVE  LoadedBy(Loop)' /\ Covered'
  <2>1. Unreleased \in Nat /\ Unreleased <= state_.senders
    BY <1>1, <1>4, UnreleasedNat, Zenon DEF Covered
  <2>2. Share(pc[Loop]) = 0 /\ Share(pc'[Loop]) = 0
    BY <1>1, <1>5, Zenon DEF Share
  <2>3. Unreleased' = 0
    BY <1>2, <1>10, <2>1, <2>2
  <2>4. LoadedBy(Loop)'
    BY <1>5, Zenon DEF LoadedBy
  <2> QED
    BY <1>3, <2>3, <2>4 DEF Covered
<1> QED
  BY <1>1, <1>2, <1>3, <1>4, <1>5, <1>8, <1>9, <1>10, WordKept, Zenon DEF hup

\* handle_ep_hup stores Disconnected; a TLS connection has been out of use before.
LEMMA DisconnectedKept ==
    ASSUME Counting, ConnInv, pc[Loop] \in {"hup_cb", "hup_store"}, state_' = Bare("Disconnected"),
           NEW l \in {"idle", "hup_cb", "hup_store"}, GotoWaking(Loop, l),
           UNCHANGED <<kind, ssl_, timers, pending, open>>, closed' \in Nat, revived' \in BOOLEAN,
           HangUp', CloseCount'
    PROVE  ConnInv'
<1>1. /\ Types /\ Loop \in Threads /\ Loop \notin Users /\ l \in CallPlaces \cup LoopPlaces
  BY ConnectionAssumption, Zenon DEF ConnInv, Threads, CallPlaces, LoopPlaces
<1>2. /\ state_' \in Words /\ ~state_'.used /\ ~state_'.writing /\ state_'.senders = 0
      /\ state_'.phase = "Disconnected"
  BY DEF Words, Bare
<1>3. OthersStay(Loop) /\ pc'[Loop] = l /\ Types'
  BY <1>1, <1>2, WakingTypes, Zenon DEF Types
<1>4. WordShape'
  BY <1>2 DEF WordShape
<1>5. state_.phase # "Connecting"
  BY <1>1, Settled, Zenon
<1>6. ASSUME Unreleased' = Unreleased + (Share(pc'[Loop]) - Share(pc[Loop]))
      PROVE  LoadedBy(Loop)' /\ Covered' /\ Unreleased' <= Unreleased
  <2>1. Unreleased \in Nat
    BY <1>1, UnreleasedNat, Zenon
  <2>2. Share(pc[Loop]) = 0 /\ Share(pc'[Loop]) = 0
    BY <1>3, Zenon DEF Share
  <2>3. Unreleased' = Unreleased
    BY <1>6, <2>1, <2>2
  <2>4. LoadedBy(Loop)'
    BY <1>3, Zenon DEF LoadedBy
  <2>5. kind = "ssl" => Unreleased = 0
    BY Zenon DEF ConnInv, HangUp, Covered, ClosePlaces
  <2> QED
    BY <1>2, <2>1, <2>3, <2>4, <2>5 DEF Covered
<1> QED
  BY <1>1, <1>2, <1>3, <1>4, <1>5, <1>6, WordKept, Zenon

\* The store of handle_ep_hup.
LEMMA HupStoreKeeps ==
    ASSUME Counting, ConnInv, HupStore
    PROVE  ConnInv'
<1> DEFINE l == IF kind = "plain" THEN "hup_cb" ELSE "idle"
<1>1. /\ Types /\ Loop \in Threads /\ Loop \notin Users /\ pc[Loop] = "hup_store"
      /\ state_' = Bare("Disconnected") /\ GotoWaking(Loop, l) /\ UNCHANGED <<hup, pending, open>>
      /\ l \in CallPlaces \cup LoopPlaces
  BY ConnectionAssumption, Zenon DEF ConnInv, Threads, HupStore, At, CallPlaces, LoopPlaces
<1>2. pc'[Loop] = l /\ op'[Loop] = IF l = "idle" THEN "none" ELSE op[Loop]
  BY <1>1, WakingTypes, Zenon
<1>3. ~state_'.used /\ state_'.phase = "Disconnected"
  BY <1>1, Zenon DEF Bare
<1>4. HangUp'
  BY <1>1, <1>2, <1>3, Zenon DEF ConnInv, HangUp, hup, UnusePlaces, ClosePlaces
<1>5. CloseCount'
  BY <1>1, <1>2, <1>3, Zenon DEF ConnInv, HangUp, CloseCount, Types, hup
<1> QED
  BY <1>1, <1>4, <1>5, DisconnectedKept, Zenon DEF hup, Types

\* closeCallback_ is called, and returns to handle_ep_hup.
LEMMA CallbackKept ==
    ASSUME Counting, ConnInv, pc[Loop] = "hup_cb", Goto(Loop, AfterCallback), closed' = closed + 1,
           UNCHANGED <<kind, revived, timers, ssl_, state_, pending, open>>
    PROVE  ConnInv'
<1>1. /\ Types /\ Loop \in Threads /\ Loop \notin Users /\ old[Loop] \in Words
      /\ GotoWith(Loop, AfterCallback, old[Loop])
  BY ConnectionAssumption, Zenon DEF ConnInv, Types, Threads, Goto
<1>2. /\ AfterCallback \in {"idle", "hup_store"} /\ AfterCallback \in CallPlaces \cup LoopPlaces
      /\ Share(AfterCallback) <= Share(pc[Loop])
  BY DEF AfterCallback, CallPlaces, LoopPlaces, Share
<1>3. state_.phase # "Connecting"
  BY <1>1, Settled, Zenon
<1>4. pc'[Loop] = AfterCallback /\ op'[Loop] = IF AfterCallback = "idle" THEN "none" ELSE op[Loop]
  BY <1>1, <1>2, GotoTypes, Zenon
<1>5. HangUp'
  BY <1>4, Zenon DEF ConnInv, HangUp, AfterCallback, UnusePlaces, ClosePlaces
<1>6. CloseCount'
  BY <1>4 DEF ConnInv, Types, CloseCount, AfterCallback
<1> QED
  BY <1>1, <1>2, <1>3, <1>5, <1>6, GotoKept DEF Types

\* closeCallback_, with and without a forceClose inside it.
LEMMA CloseCallbackKeeps ==
    ASSUME Counting, ConnInv, CloseCallback \/ CloseCallbackForceCloses
    PROVE  ConnInv'
<1>1. CASE CloseCallback
  BY <1>1, CallbackKept, Zenon DEF CloseCallback, At
<1>2. CASE CloseCallbackForceCloses /\ state_.phase = "Disconnected"
  BY <1>2, CallbackKept, Zenon DEF CloseCallbackForceCloses, At
<1>3. CASE CloseCallbackForceCloses /\ state_.phase # "Disconnected"
  <2>1. /\ Types /\ Loop \in Threads /\ Loop \notin Users /\ pc[Loop] = "hup_cb"
        /\ state_' = Bare("Disconnected") /\ GotoWaking(Loop, AfterCallback)
        /\ closed' = closed + 2 /\ revived' = (revived \/ kind = "ssl")
        /\ UNCHANGED <<kind, timers, ssl_, pending, open>>
    BY <1>3, ConnectionAssumption, Zenon DEF ConnInv, Threads, CloseCallbackForceCloses, At
  <2>2. AfterCallback \in {"idle", "hup_store"} /\ AfterCallback \in CallPlaces \cup LoopPlaces
    BY Zenon DEF AfterCallback, CallPlaces, LoopPlaces
  <2>3. /\ pc'[Loop] = AfterCallback
        /\ op'[Loop] = IF AfterCallback = "idle" THEN "none" ELSE op[Loop]
    BY <2>1, <2>2, WakingTypes, Zenon
  <2>4. ~state_'.used
    BY <2>1, Zenon DEF Bare
  <2>5. HangUp'
    BY <2>1, <2>3, <2>4, Zenon DEF ConnInv, HangUp, AfterCallback, UnusePlaces, ClosePlaces
  <2>6. CloseCount'
    BY <1>3, <2>1, Zenon DEF ConnInv, Types, CloseCount
  <2> QED
    BY <2>1, <2>2, <2>5, <2>6, DisconnectedKept DEF Types
<1> QED
  BY <1>1, <1>2, <1>3, Zenon

\* connectEstablished: everybody who called has been waiting, and no message is there yet.
LEMMA ConnectEstablishedKeeps ==
    ASSUME Counting, ConnInv, ConnectEstablished
    PROVE  ConnInv'
<1>1. /\ Types /\ Loop \in Threads /\ Loop \notin Users /\ pc[Loop] = "idle"
      /\ pending # <<>> /\ Head(pending) = "connectEstablished" /\ pending' = Tail(pending)
      /\ state_' = ConnectedUsed /\ open' = TRUE /\ GotoWaking(Loop, "idle")
      /\ UNCHANGED <<kind, timers, ssl_, closed, revived>>
  BY ConnectionAssumption, Zenon DEF ConnInv, Threads, ConnectEstablished, Take, At, hup
<1>2. /\ pending \in Seq(Functors) /\ pending' \in Seq(Functors) /\ Head(pending) = pending[1]
      /\ 1 \in 1..Len(pending)
      /\ \A i \in 1..Len(pending') : i + 1 \in 1..Len(pending) /\ pending'[i] = pending[i + 1]
  BY <1>1 DEF Types
<1>3. /\ state_.phase = "Connecting" /\ (kind = "ssl" => ssl_)
      /\ \A u \in Threads : pc[u] \in {"idle", "futex", "asleep"}
      /\ \A i \in 1..Len(pending) : pending[i] = "connectEstablished" => i = 1
  BY <1>1, <1>2, Zenon DEF ConnInv, Start
<1>4. /\ state_' \in Words /\ state_'.phase = "Connected" /\ state_'.used /\ ~state_'.writing
      /\ state_'.senders = 0
  <2> DEFINE b == Bare("Connected")
  <2>1. b \in Words /\ b.phase = "Connected" /\ ~b.writing /\ b.senders = 0
    BY DEF Bare, Words
  <2>2. state_' = [b EXCEPT !.used = TRUE]
    BY <1>1, Zenon DEF ConnectedUsed
  <2> HIDE DEF b
  <2> QED
    BY <2>1, <2>2, Zenon DEF Words
<1>5. OthersStay(Loop) /\ pc'[Loop] = "idle" /\ op'[Loop] = "none" /\ Types'
  BY <1>1, <1>2, <1>4, WakingTypes, Zenon DEF Types, CallPlaces
<1>6. Unreleased = 0
  <2>1. state_.senders = 0
    BY <1>3 DEF ConnInv, WordShape, Bare
  <2>2. Unreleased \in Nat /\ Unreleased <= state_.senders
    BY <1>1, <1>3, UnreleasedNat, Zenon DEF ConnInv, Covered
  <2> QED
    BY <2>1, <2>2
<1>7. Unreleased' = 0
  <2>1. Cardinality(Queued(pending')) = Cardinality(Queued(pending))
    BY <1>1, <1>2, QueueTake, QueuedNat
  <2>2. Share(pc'[Loop]) = 0 /\ Share(pc[Loop]) = 0 /\ Cardinality(Queued(pending)) \in Nat
    BY <1>1, <1>2, <1>5, QueuedNat, Zenon DEF Share
  <2> QED
    BY <1>1, <1>5, <1>6, <2>1, <2>2, Recount
<1>8. Start'
  <2>1. \A i \in 1..Len(pending') : i \in Nat /\ i >= 1
    BY <1>2
  <2>2. \A i \in 1..Len(pending') : pending'[i] # "connectEstablished"
    BY <1>2, <1>3, <2>1
  <2> QED
    BY <1>4, <2>2, Zenon DEF Start
<1>9. Loaded'
  <2>1. \A u \in Threads : pc'[u] \in {"idle", "futex", "reload", "asleep"}
    BY <1>3, <1>5, Zenon DEF OthersStay
  <2> QED
    BY <2>1, Zenon DEF Loaded, LoadedBy
<1>10. WordShape' /\ Covered'
  BY <1>4, <1>7 DEF WordShape, Covered
<1>11. HangUp'
  BY <1>1, <1>3, <1>5, Zenon DEF HangUp, ClosePlaces
<1>12. CloseCount'
  BY <1>1, <1>3, <1>5, Zenon DEF ConnInv, CloseCount
<1> QED
  BY <1>5, <1>8, <1>9, <1>10, <1>11, <1>12, Zenon DEF ConnInv

-----------------------------------------------------------------------------
(* The invariant, from the first state on. *)

\* A connection is constructed with nothing but connectEstablished queued.
LEMMA InitConn ==
    ASSUME Counting, Init
    PROVE  ConnInv
<1>1. Bare("Connecting") \in Words /\ "connectEstablished" \in Functors /\ "idle" \in CallPlaces
  BY DEF Bare, Words, Functors, CallPlaces
<1>2. Types
  <2>1. \A t \in Users : t \in Threads
    BY Zenon DEF Threads
  <2>2. ssl_ \in BOOLEAN
    BY Zenon DEF Init
  <2>3. pending \in Seq(Functors)
    BY <1>1 DEF Init
  <2>4. pc \in [Threads -> CallPlaces \cup LoopPlaces] /\ \A t \in Threads : pc[t] \in CallPlaces
    BY <1>1, Zenon DEF Init
  <2>5. op \in [Threads -> Ops \cup {"none", "hup"}] /\ \A t \in Threads : op[t] = "none"
    BY Zenon DEF Init
  <2>6. old \in [Threads -> Words] /\ state_ \in Words
    BY <1>1, Zenon DEF Init
  <2>7. kind \in {"plain", "ssl"} /\ revived \in BOOLEAN /\ open \in BOOLEAN
        /\ timers \in Nat /\ closed \in Nat
    BY Zenon DEF Init
  <2> QED
    BY <2>1, <2>2, <2>3, <2>4, <2>5, <2>6, <2>7, Zenon DEF Types
<1>3. pc[Loop] = "idle" /\ Len(pending) = 1 /\ pending[1] = "connectEstablished"
      /\ pending # <<>>
  BY Zenon DEF Init, Threads
<1>4. Unreleased = 0
  <2>1. Queued(pending) = {}
    BY <1>3 DEF Queued
  <2>2. Sending(pc) = {}
    BY Zenon DEF Sending, Init
  <2>3. Unwritten = Cardinality(Queued(pending)) + Cardinality(Sending(pc))
    BY Zenon DEF Unwritten, Queued, Sending
  <2>4. Cardinality({}) = 0 /\ Unwritten = 0
    <3>1. {} \in SUBSET Threads
      OBVIOUS
    <3>2. Cardinality({}) = 0
      BY <3>1, Zenon DEF Counting
    <3> QED
      BY <2>1, <2>2, <2>3, <3>2
  <2> QED
    BY <1>3, <2>4 DEF Unreleased, At
<1>5. state_.phase = "Connecting" /\ state_ = Bare("Connecting") /\ ~state_.used
      /\ ~state_.writing /\ state_.senders = 0
  BY Zenon DEF Init, Bare
<1>6. WordShape /\ Covered
  BY <1>4, <1>5 DEF WordShape, Covered
<1>7. Start
  <2>1. ~open /\ timers = 0 /\ (\A t \in Threads : pc[t] = "idle")
    BY Zenon DEF Init
  <2>2. kind = "ssl" => ssl_
    BY Zenon DEF Init
  <2> QED
    BY <1>3, <1>5, <2>1, <2>2 DEF Start
<1>8. Loaded
  BY Zenon DEF Loaded, LoadedBy, Init
<1>9. op[Loop] = "none" /\ closed = 0
  BY Zenon DEF Init, Threads
<1>10. HangUp /\ CloseCount
  BY <1>3, <1>5, <1>9 DEF HangUp, CloseCount, ClosePlaces
<1> QED
  BY <1>2, <1>6, <1>7, <1>8, <1>10, Zenon DEF ConnInv

\* Every step keeps the invariant.
LEMMA NextConn ==
    ASSUME Counting, ConnInv, [Next]_vars
    PROVE  ConnInv'
<1>1. ASSUME NEW t \in Threads, NEW o \in Ops, Call(t, o) PROVE ConnInv'
  BY <1>1, CallKeeps, Zenon
<1>2. ASSUME NEW t \in Users, ForceCloseQueued(t) PROVE ConnInv'
  BY <1>2, ForceCloseQueuedKeeps, Zenon
<1>3. ASSUME NEW t \in Threads, ForceCloseDelayed(t) PROVE ConnInv'
  BY <1>3, ForceCloseDelayedKeeps, Zenon
<1>4. ASSUME NEW t \in Threads, CallStep(t) PROVE ConnInv'
  <2>1. CASE FutexWait(t)
    BY <2>1, FutexWaitKeeps
  <2>2. CASE Reload(t) \/ SendRefused(t) \/ UnuseWait(t) \/ ShutdownLate(t) \/ ShutdownWait(t)
    BY <2>2, CallsThatGoOn, Zenon
  <2>3. CASE SendJoin(t) \/ SendMark(t) \/ SendCount(t)
    BY <2>3, CallsThatGoOn, SendKeeps, Zenon
  <2>4. CASE SendAccepted(t)
    BY <2>4, RunInLoopKeeps, Zenon
  <2>5. CASE UnuseRefused(t)
    BY <2>5, UnuseRefusedKeeps
  <2>6. CASE UnuseCas(t)
    BY <2>6, CallsThatGoOn, UnuseCasKeeps, Zenon
  <2>7. CASE DelayStore(t)
    BY <2>7, ShutdownKeeps, Zenon
  <2>8. CASE ShutdownCas(t)
    BY <2>8, CallsThatGoOn, ShutdownKeeps, Zenon
  <2>9. CASE ShutdownRun(t)
    BY <2>9, CallsThatGoOn, RunInLoopKeeps, Zenon
  <2> QED
    BY <1>4, <2>1, <2>2, <2>3, <2>4, <2>5, <2>6, <2>7, <2>8, <2>9, Zenon DEF CallStep
<1>5. CASE FunctorStep
  <2>1. CASE ConnectEstablished
    BY <2>1, ConnectEstablishedKeeps, Zenon
  <2>2. CASE RunShutdownInLoop
    BY <2>2, RunShutdownInLoopKeeps, Zenon
  <2>3. CASE RunForceCloseInLoop
    BY <2>3, ForceCloseStarts, Zenon
  <2>4. CASE RunSendInLoop
    BY <2>4, RunSendInLoopKeeps
  <2>5. CASE SendInLoop \/ ReleaseNot \/ HupAlready
    BY <2>5, LoopMoves, Zenon
  <2>6. CASE Release
    BY <2>6, LoopMoves, ReleaseKeeps, Zenon
  <2>7. CASE ClearWriting
    BY <2>7, LoopMoves, ClearWritingKeeps, Zenon
  <2>8. CASE HupClose \/ HupSslClose
    BY <2>8, HupCloses, Zenon
  <2>9. CASE HupSslFree
    BY <2>9, HupSslFreeKeeps
  <2>10. CASE HupStore
    BY <2>10, HupStoreKeeps
  <2>11. CASE CloseCallback
    BY <2>11, CloseCallbackKeeps
  <2> QED
    BY <1>5, <2>1, <2>2, <2>3, <2>4, <2>5, <2>6, <2>7, <2>8, <2>9, <2>10, <2>11,
       Zenon DEF FunctorStep
<1>6. CASE HupEvent
  BY <1>6, LoopMoves, Zenon
<1>7. CASE RunDelayed
  BY <1>7, ForceCloseStarts, Zenon
<1>8. CASE CloseCallbackForceCloses
  BY <1>8, CloseCallbackKeeps, Zenon
<1>9. CASE WriteWaiting \/ UNCHANGED vars
  <2>1. UNCHANGED <<kind, timers, ssl_, closed, revived, state_, pending, open, pc, op, old>>
    BY <1>9, Zenon DEF WriteWaiting, vars, hup
  <2>2. Types' /\ WordShape' /\ Start'
    BY <2>1, Zenon DEF ConnInv, Types, WordShape, Start
  <2>3. Unreleased' = Unreleased
    BY <2>1, Zenon DEF Unreleased, Unwritten, At
  <2>4. Loaded' /\ Covered'
    BY <2>1, <2>3, Zenon DEF ConnInv, Loaded, LoadedBy, Covered
  <2>5. HangUp' /\ CloseCount'
    BY <2>1, Zenon DEF ConnInv, HangUp, CloseCount
  <2> QED
    BY <2>2, <2>4, <2>5, Zenon DEF ConnInv
<1>10. CASE Quiescent
  BY <1>9, <1>10, Zenon DEF Quiescent
<1> QED
  BY <1>1, <1>2, <1>3, <1>4, <1>5, <1>6, <1>7, <1>8, <1>9, <1>10, Zenon DEF Next

\* No step but the store of forceCloseWithDelay leaves Disconnected.
LEMMA DisconnectedStays ==
    ASSUME ConnInv, [Next]_vars, state_.phase = "Disconnected",
           ~ \E t \in Threads : DelayStore(t)
    PROVE  state_' = state_
<1>1. state_ = Bare("Disconnected") /\ ~state_.used
  BY DEF ConnInv, WordShape, Bare
<1>2. pending # <<>> => Head(pending) # "connectEstablished"
  <2>1. pending \in Seq(Functors)
    BY Zenon DEF ConnInv, Types
  <2>2. \A i \in 1..Len(pending) : pending[i] # "connectEstablished"
    BY Zenon DEF ConnInv, Start
  <2> QED
    BY <2>1, <2>2
<1>3. ASSUME NEW t \in Threads, CallStep(t) PROVE state_' = state_
  <2>1. ~DelayStore(t)
    BY Zenon
  <2>2. CASE SendJoin(t) \/ SendMark(t) \/ UnuseCas(t)
    BY <1>1, <2>2, Zenon DEF SendJoin, SendMark, UnuseCas
  <2>3. CASE SendCount(t)
    BY <1>1, <2>3, Zenon DEF SendCount, At, ConnInv, Loaded, LoadedBy
  <2>4. CASE ShutdownCas(t)
    BY <2>4, Zenon DEF ShutdownCas
  <2>5. CASE FutexWait(t) \/ Reload(t) \/ SendRefused(t) \/ SendAccepted(t) \/ UnuseRefused(t)
             \/ UnuseWait(t) \/ ShutdownLate(t) \/ ShutdownWait(t) \/ ShutdownRun(t)
    BY <2>5, Zenon DEF FutexWait, Reload, SendRefused, SendAccepted, UnuseRefused, UnuseWait,
                ShutdownLate, ShutdownWait, ShutdownRun
  <2> QED
    BY <1>3, <2>1, <2>2, <2>3, <2>4, <2>5, Zenon DEF CallStep
<1>4. CASE FunctorStep
  <2>1. ~ConnectEstablished
    BY <1>2, Zenon DEF ConnectEstablished, Take
  <2>2. CASE Release
    BY <1>1, <2>2, Zenon DEF Release
  <2>3. CASE ClearWriting
    BY <1>1, <2>3, Zenon DEF ClearWriting, At, ConnInv, Loaded, LoadedBy, Threads
  <2>4. CASE HupStore
    BY <1>1, <2>4, Zenon DEF HupStore
  <2>5. CASE RunShutdownInLoop \/ RunForceCloseInLoop \/ RunSendInLoop \/ SendInLoop \/ ReleaseNot
    BY <2>5, Zenon DEF RunShutdownInLoop, RunForceCloseInLoop, RunSendInLoop, SendInLoop, ReleaseNot
  <2>6. CASE HupAlready \/ HupClose \/ HupSslFree \/ HupSslClose \/ CloseCallback
    BY <2>6, Zenon DEF HupAlready, HupClose, HupSslFree, HupSslClose, CloseCallback
  <2> QED
    BY <1>4, <2>1, <2>2, <2>3, <2>4, <2>5, <2>6, Zenon DEF FunctorStep
<1>5. CASE \/ HupEvent \/ WriteWaiting \/ RunDelayed \/ CloseCallbackForceCloses
           \/ Quiescent \/ UNCHANGED vars
  BY <1>5, Zenon
  DEF HupEvent, WriteWaiting, RunDelayed, CloseCallbackForceCloses, Quiescent, vars
<1>6. ASSUME NEW t \in Threads, NEW o \in Ops, Call(t, o) PROVE state_' = state_
  BY <1>6, Zenon DEF Call
<1>7. ASSUME NEW t \in Threads, ForceCloseQueued(t) \/ ForceCloseDelayed(t) PROVE state_' = state_
  BY <1>7, Zenon DEF ForceCloseQueued, ForceCloseDelayed
<1>8. \A t \in Users : t \in Threads
  BY Zenon DEF Threads
<1> QED
  BY <1>3, <1>4, <1>5, <1>6, <1>7, <1>8, Zenon DEF Next

-----------------------------------------------------------------------------
(* The counting, from the theorems about finite sets. *)

INSTANCE FiniteSetTheorems

\* The functors that are a sendInLoop are finitely many.
LEMMA QueuedFinite ==
    ASSUME NEW p \in Seq(Functors)
    PROVE  IsFiniteSet(Queued(p)) /\ Cardinality(Queued(p)) \in Nat
<1>1. IsFiniteSet(1..Len(p))
  BY FS_Interval
<1>2. IsFiniteSet(Queued(p))
  BY <1>1, FS_Subset, Zenon DEF Queued
<1> QED
  BY <1>2, FS_CardinalityType, Zenon

\* Appending a functor adds one to them if it is a sendInLoop,
LEMMA AppendCounted ==
    ASSUME NEW p \in Seq(Functors), NEW f \in Functors
    PROVE  Cardinality(Queued(Append(p, f)))
               = Cardinality(Queued(p)) + (IF f = "sendInLoop" THEN 1 ELSE 0)
<1> DEFINE n == Len(p)
           a == Append(p, f)
<1>1. /\ n \in Nat /\ Len(a) = n + 1 /\ a[n + 1] = f
      /\ \A i \in 1..n : a[i] = p[i]
  OBVIOUS
<1>2. IsFiniteSet(Queued(p)) /\ Cardinality(Queued(p)) \in Nat
  BY QueuedFinite, Zenon
<1>3. n + 1 \notin Queued(p)
  BY <1>1 DEF Queued
<1> HIDE DEF a, n
<1>4. CASE f = "sendInLoop"
  <2>1. Queued(a) = Queued(p) \cup {n + 1}
    BY <1>1, <1>4 DEF Queued, n
  <2>2. Cardinality(Queued(p) \cup {n + 1}) = Cardinality(Queued(p)) + 1
    BY <1>2, <1>3, FS_AddElement, Zenon
  <2> QED
    BY <1>4, <2>1, <2>2, Zenon DEF a
<1>5. CASE f # "sendInLoop"
  <2>1. Queued(a) = Queued(p)
    BY <1>1, <1>5 DEF Queued, n
  <2> QED
    BY <1>2, <1>5, <2>1 DEF a
<1> QED
  BY <1>4, <1>5, Zenon

\* and taking the first one takes one away.
LEMMA TakeCounted ==
    ASSUME NEW p \in Seq(Functors), p # <<>>
    PROVE  Cardinality(Queued(Tail(p)))
               = Cardinality(Queued(p)) - (IF Head(p) = "sendInLoop" THEN 1 ELSE 0)
<1> DEFINE n == Len(p)
           b == Tail(p)
           Rest == Queued(p) \ {1}
           g == [i \in Rest |-> i - 1]
<1>1. /\ n \in Nat \ {0} /\ Len(b) = n - 1 /\ p[1] = Head(p)
      /\ \A i \in 1..(n - 1) : b[i] = p[i + 1]
  OBVIOUS
<1>2. IsFiniteSet(Queued(p)) /\ Cardinality(Queued(p)) \in Nat
  BY QueuedFinite, Zenon
<1>3. 1 \in Queued(p) <=> Head(p) = "sendInLoop"
  BY <1>1 DEF Queued
<1>4. /\ IsFiniteSet(Rest)
      /\ Cardinality(Rest) = Cardinality(Queued(p)) - (IF Head(p) = "sendInLoop" THEN 1 ELSE 0)
  <2>1. /\ IsFiniteSet(Rest)
        /\ Cardinality(Rest) = IF 1 \in Queued(p) THEN Cardinality(Queued(p)) - 1
                               ELSE Cardinality(Queued(p))
    BY <1>2, FS_RemoveElement, Zenon
  <2> QED
    BY <1>2, <1>3, <2>1
<1> HIDE DEF b
<1>5. \A i \in Rest : i \in 2..n /\ i - 1 \in Queued(b)
  BY <1>1 DEF Queued
<1>6. \A j \in Queued(b) : j + 1 \in Rest /\ j \in Nat
  BY <1>1 DEF Queued
<1>7. g \in Bijection(Rest, Queued(b))
  <2>1. g \in [Rest -> Queued(b)]
    BY <1>5, Zenon
  <2>2. \A x, y \in Rest : g[x] = g[y] => x = y
    BY <1>1, <1>5
  <2>3. \A j \in Queued(b) : \E x \in Rest : g[x] = j
    BY <1>6
  <2> HIDE DEF g, Rest
  <2> QED
    BY <2>1, <2>2, <2>3, Zenon DEF Bijection, Injection, IsInjective, Surjection
<1>8. ExistsBijection(Rest, Queued(b))
  BY <1>7, Zenon DEF ExistsBijection
<1>9. Cardinality(Queued(b)) = Cardinality(Rest)
  BY <1>4, <1>8, FS_Bijection, Zenon
<1> QED
  BY <1>4, <1>9, Zenon DEF b

\* Sets of threads are finite: there are finitely many users and the loop.
LEMMA ThreadsCounted ==
    ASSUME NEW S \in SUBSET Threads
    PROVE  /\ Cardinality(S) \in Nat /\ (Cardinality(S) = 0 <=> S = {})
           /\ \A t \in Threads : Cardinality(S \ {t}) = Cardinality(S) - (IF t \in S THEN 1 ELSE 0)
<1>1. IsFiniteSet(Threads)
  BY ConnectionAssumption, FS_AddElement, Zenon DEF Threads
<1>2. IsFiniteSet(S)
  BY <1>1, FS_Subset, Zenon
<1>3. Cardinality(S) \in Nat /\ (Cardinality(S) = 0 <=> S = {})
  BY <1>2, FS_CardinalityType, FS_EmptySet, Zenon
<1>4. ASSUME NEW t \in Threads
      PROVE  Cardinality(S \ {t}) = Cardinality(S) - (IF t \in S THEN 1 ELSE 0)
  <2>1. Cardinality(S \ {t}) = IF t \in S THEN Cardinality(S) - 1 ELSE Cardinality(S)
    BY <1>2, FS_RemoveElement, Zenon
  <2> QED
    BY <1>3, <2>1
<1> QED
  BY <1>3, <1>4, Zenon

\* What the lemmas above assume of the messages' number.
LEMMA CountingHolds == Counting
BY QueuedFinite, AppendCounted, TakeCounted, ThreadsCounted, Zenon DEF Counting

-----------------------------------------------------------------------------
(* The theorems. *)

\* The invariant holds throughout, however many threads call and however often.
THEOREM ConnInvariance == Spec => []ConnInv
<1>1. Init => ConnInv
  BY CountingHolds, InitConn, Zenon
<1>2. ConnInv /\ [Next]_vars => ConnInv'
  BY CountingHolds, NextConn, Zenon
<1> QED
  BY <1>1, <1>2, PTL DEF Spec

\* The count in the word covers the messages that sendInLoop still has to write, is never
\* negative, and is positive under the writing mark only (TcpConnection.cpp:472).
THEOREM SendersCountedHolds == Spec => []SendersCounted
<1>1. ConnInv => SendersCounted
  BY Zenon DEF ConnInv, Covered, WordShape, SendersCounted
<1> QED
  BY <1>1, ConnInvariance, PTL

LeftInv == kind \in {"plain", "ssl"} /\ (left => kind = "ssl")

\* Only a TLS connection leaves something in outputBuffers_, and it stays one.
LEMMA LeftByTls == Spec => []LeftInv
<1> DEFINE M == kind' = kind /\ (left' = left \/ left' = FALSE \/ kind # "plain")
<1>1. Init => LeftInv
  BY Zenon DEF Init, LeftInv
<1>2. [Next]_vars => M
  <2> SUFFICES ASSUME [Next]_vars PROVE M
    OBVIOUS
  <2>1. ASSUME NEW t \in Threads, CallStep(t) PROVE UNCHANGED <<left, kind>>
    <3>1. CASE FutexWait(t) \/ Reload(t) \/ SendRefused(t) \/ SendJoin(t) \/ SendMark(t)
      BY <3>1, Zenon DEF FutexWait, Reload, SendRefused, SendJoin, SendMark, hup, out
    <3>2. CASE SendCount(t) \/ SendAccepted(t) \/ UnuseRefused(t) \/ UnuseWait(t)
      BY <3>2, Zenon DEF SendCount, SendAccepted, UnuseRefused, UnuseWait, hup, out
    <3>3. CASE UnuseCas(t) \/ DelayStore(t) \/ ShutdownLate(t) \/ ShutdownWait(t)
      BY <3>3, Zenon DEF UnuseCas, DelayStore, ShutdownLate, ShutdownWait, hup, out
    <3>4. CASE ShutdownCas(t) \/ ShutdownRun(t)
      BY <3>4, Zenon DEF ShutdownCas, ShutdownRun, hup, out
    <3> QED
      BY <2>1, <3>1, <3>2, <3>3, <3>4, Zenon DEF CallStep
  <2>2. CASE FunctorStep
    <3>1. CASE ConnectEstablished \/ RunShutdownInLoop \/ RunForceCloseInLoop \/ RunSendInLoop
      BY <3>1, Zenon
      DEF ConnectEstablished, RunShutdownInLoop, RunForceCloseInLoop, RunSendInLoop, hup, out
    <3>2. CASE SendInLoop
      BY <3>2, Zenon DEF SendInLoop, hup
    <3>3. CASE ReleaseNot \/ Release \/ ClearWriting \/ HupAlready \/ HupClose
      BY <3>3, Zenon DEF ReleaseNot, Release, ClearWriting, HupAlready, HupClose, hup, out
    <3>4. CASE HupSslFree \/ HupSslClose \/ HupStore \/ CloseCallback
      BY <3>4, Zenon DEF HupSslFree, HupSslClose, HupStore, CloseCallback, hup, out
    <3> QED
      BY <2>2, <3>1, <3>2, <3>3, <3>4, Zenon DEF FunctorStep
  <2>3. CASE \/ HupEvent \/ WriteWaiting \/ RunDelayed \/ CloseCallbackForceCloses
             \/ Quiescent \/ UNCHANGED vars
    BY <2>3, Zenon
    DEF HupEvent, WriteWaiting, RunDelayed, CloseCallbackForceCloses, Quiescent, vars, hup, out
  <2>4. ASSUME NEW t \in Threads, NEW o \in Ops, Call(t, o) PROVE UNCHANGED <<left, kind>>
    BY <2>4, Zenon DEF Call, hup, out
  <2>5. ASSUME NEW t \in Threads, ForceCloseQueued(t) \/ ForceCloseDelayed(t)
        PROVE  UNCHANGED <<left, kind>>
    BY <2>5, Zenon DEF ForceCloseQueued, ForceCloseDelayed, hup, out
  <2>6. \A t \in Users : t \in Threads
    BY Zenon DEF Threads
  <2> QED
    BY <2>1, <2>2, <2>3, <2>4, <2>5, <2>6, Zenon DEF Next
<1>3. LeftInv /\ [Next]_vars => LeftInv'
  BY <1>2, Zenon DEF LeftInv
<1> QED
  BY <1>1, <1>3, PTL DEF Spec

\* When shutdown has moved the word to Disconnecting, every accepted message has been
\* through sendInLoop ("we are not writing", TcpConnection.cpp:596), and only what TLS has
\* left in outputBuffers_ may still wait, which shutdownInLoop cuts off.
THEOREM ShutdownAfterSendsHolds == Spec => []ShutdownAfterSends
<1>1. ConnInv /\ LeftInv => ShutdownAfterSends
  <2> SUFFICES ASSUME ConnInv, LeftInv, state_.phase = "Disconnecting"
               PROVE  Unwritten = 0 /\ ~state_.writing
    BY Zenon DEF ShutdownAfterSends, LeftInv
  <2>1. state_.senders = 0 /\ ~state_.writing
    BY DEF ConnInv, WordShape, Bare
  <2>2. Cardinality(Queued(pending)) \in Nat /\ Cardinality(Sending(pc)) \in Nat
    BY CountingHolds, QueuedNat, SendingNat DEF ConnInv, Types
  <2>3. Unwritten \in Nat
    BY <2>2 DEF Unwritten, Queued, Sending
  <2>4. Unwritten <= Unreleased /\ Unreleased \in Nat
    BY <2>3 DEF Unreleased
  <2>5. Unreleased <= state_.senders
    BY Zenon DEF ConnInv, Covered
  <2> QED
    BY <2>1, <2>3, <2>4, <2>5
<1> QED
  BY <1>1, ConnInvariance, LeftByTls, PTL

\* sendInLoop never writes to the freed SSL of a connection that hung up
\* (ssl_TcpConnection.cpp:285).
THEOREM SslOpenWhileSendingHolds == Spec => []SslOpenWhileSending
<1>1. ConnInv => SslOpenWhileSending
  <2> SUFFICES ASSUME ConnInv, kind = "ssl", pc[Loop] = "in_loop", ~ssl_ PROVE FALSE
    BY Zenon DEF SslOpenWhileSending, At
  <2>1. ~state_.used
    BY Zenon DEF ConnInv, HangUp, UnusePlaces
  <2>2. Unreleased = 0
    BY <2>1, Zenon DEF ConnInv, Covered
  <2>3. Loop \in Sending(pc)
    BY Zenon DEF Sending, Threads
  <2>4. Cardinality(Queued(pending)) \in Nat /\ Cardinality(Sending(pc)) \in Nat
    BY CountingHolds, QueuedNat, SendingNat, Zenon DEF ConnInv, Types
  <2>5. Cardinality(Sending(pc)) # 0
    BY <2>3, CountingHolds, SendingNat, Zenon
  <2>6. Unreleased = Cardinality(Queued(pending)) + Cardinality(Sending(pc)) + 0
    BY Zenon DEF Unreleased, Unwritten, Queued, Sending, At
  <2> QED
    BY <2>2, <2>4, <2>5, <2>6
<1> QED
  BY <1>1, ConnInvariance, PTL

\* closeCallback_ is called once, unless Disconnected was overwritten or not yet stored
\* (TcpConnection.cpp:637, ssl_TcpConnection.cpp:294).
THEOREM ClosedOnceHolds == Spec => []ClosedOnce
<1>1. ConnInv => ClosedOnce
  BY DEF ConnInv, CloseCount, ClosedOnce
<1> QED
  BY <1>1, ConnInvariance, PTL

\* No step but the store of forceCloseWithDelay leaves Disconnected (TcpConnection.cpp:637).
THEOREM DisconnectedIsFinalHolds == Spec => DisconnectedIsFinal
<1>1. ConnInv /\ [Next]_vars =>
          [state_.phase = "Disconnected" => \E t \in Threads : DelayStore(t)]_state_
  BY DisconnectedStays, Zenon
<1> QED
  BY <1>1, ConnInvariance, PTL DEF Spec, DisconnectedIsFinal
=============================================================================
