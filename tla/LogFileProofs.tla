--------------------------- MODULE LogFileProofs ---------------------------
(***************************************************************************)
(* Theorems about the asynchronous logger and its files, for any number of *)
(* appending threads, any sizes and periods, and whatever the              *)
(* uninitialised word holds: the word is a lock, threadFunc's assertions   *)
(* hold, no record is lost, doubled or moved past another on its way from  *)
(* append into the files, and a file outgrows rollSize by less than a      *)
(* buffer.                                                                 *)
(***************************************************************************)
EXTENDS LogFile, SequenceTheorems, WellFoundedInduction, TLAPS

\* The word protects the appender: while it is inside, `full' is not set, and
\* `available' only together with `appending'.  (The backend may clear the whole
\* word under it on its way out, line 199.)  And `swaping' protects the backend.
LockInv ==
    /\ apc \in [Appenders -> {"idle", "try", "asleep", "append"}]
    /\ \A t \in Appenders : apc[t] = "append" =>
          "full" \notin state /\ ("available" \in state => "appending" \in state)
    /\ bpc = "swap" => "swaping" \in state
    /\ ExclusiveBuffers

\* The backend's buffers over a whole round of threadFunc.
RoundInv ==
    /\ bpc \in {"while", "lock", "asleep", "swap"} =>
          newBuffer1 = <<>> /\ newBuffer2 = <<>> /\ buffersToWrite = <<>>
    /\ bpc = "write" => newBuffer2 \in {<<>>, Absent}

-----------------------------------------------------------------------------

\* A wake moves no thread into or out of the buffers.
LEMMA AwakeFacts ==
    ASSUME apc \in [Appenders -> {"idle", "try", "asleep", "append"}]
    PROVE  /\ AwakeA(apc) \in [Appenders -> {"idle", "try", "asleep", "append"}]
           /\ \A t \in Appenders : AwakeA(apc)[t] = "append" <=> apc[t] = "append"
           /\ \A p : Awake(p, "lock") = "swap" <=> p = "swap"
           /\ \A p : Awake(p, "lock") = "write" <=> p = "write"
  BY Zenon DEF AwakeA, Awake

\* append: taking the lock and leaving without it.
LEMMA AppendEnters ==
    ASSUME LockInv, NEW t \in Appenders,
           Append_(t) \/ AppendRefused(t) \/ AppendSleeps(t) \/ AppendLocks(t)
    PROVE  LockInv'
<1>1. CASE Append_(t) \/ AppendRefused(t) \/ AppendSleeps(t)
  BY <1>1, Zenon DEF LockInv, ExclusiveBuffers, Append_, AppendRefused, AppendSleeps, word
<1>2. CASE AppendLocks(t)
  <2>1. /\ "available" \in state /\ state \cap Busy = {} /\ state' = state \cup {"appending"}
        /\ apc' = [apc EXCEPT ![t] = "append"] /\ bpc' = bpc
    BY <1>2, Zenon DEF AppendLocks
  <2>2. "appending" \notin state /\ "full" \notin state /\ "swaping" \notin state
    BY <2>1, Zenon DEF Busy
  <2>3. bpc # "swap" /\ \A u \in Appenders : apc[u] # "append"
    BY <2>1, <2>2, Zenon DEF LockInv
  <2> QED
    BY <2>1, <2>2, <2>3, Zenon DEF LockInv, ExclusiveBuffers
<1> QED
  BY <1>1, <1>2, Zenon

\* append: the store that ends it, with the wake.
LEMMA AppendEnds ==
    ASSUME LockInv, NEW t \in Appenders, AppendFits(t) \/ AppendFull(t)
    PROVE  LockInv'
<1>1. /\ apc[t] = "append" /\ apc' = [AwakeA(apc) EXCEPT ![t] = "idle"]
      /\ bpc' = Awake(bpc, "lock")
  BY Zenon DEF AppendFits, AppendFull, AppendRelease
<1>2. /\ apc \in [Appenders -> {"idle", "try", "asleep", "append"}]
      /\ \A u \in Appenders : apc[u] = "append" => u = t
      /\ bpc # "swap"
  BY <1>1, Zenon DEF LockInv, ExclusiveBuffers
<1>3. /\ apc' \in [Appenders -> {"idle", "try", "asleep", "append"}]
      /\ \A u \in Appenders : apc'[u] # "append"
      /\ bpc' # "swap"
  BY <1>1, <1>2, AwakeFacts, Zenon
<1> QED
  BY <1>3, Zenon DEF LockInv, ExclusiveBuffers

\* threadFunc.
LEMMA BackendKeepsLock ==
    ASSUME LockInv, BackendStep
    PROVE  LockInv'
<1>1. CASE BackendWhile \/ BackendReturns \/ BackendSleeps \/ BackendWrite
  BY <1>1, Zenon
  DEF LockInv, ExclusiveBuffers, BackendWhile, BackendReturns, BackendSleeps, BackendWrite,
              word
<1>2. CASE BackendLocksFull \/ BackendLocks
  <2>1. /\ UNCHANGED apc /\ bpc' = "swap" /\ "swaping" \in state'
        /\ "available" \in state /\ ("full" \in state \/ "appending" \notin state)
    BY <1>2, Zenon DEF BackendLocksFull, BackendLocks
  <2>2. \A t \in Appenders : apc[t] # "append"
    BY <2>1, Zenon DEF LockInv
  <2> QED
    BY <2>1, <2>2, Zenon DEF LockInv, ExclusiveBuffers
<1>3. CASE BackendSwap
  <2>1. bpc = "swap" /\ bpc' = "write" /\ apc' = AwakeA(apc)
    BY <1>3, Zenon DEF BackendSwap
  <2>2. \A t \in Appenders : apc'[t] # "append"
    BY <2>1, AwakeFacts, Zenon DEF LockInv, ExclusiveBuffers
  <2> QED
    BY <2>1, <2>2, AwakeFacts, Zenon DEF LockInv, ExclusiveBuffers
<1>4. CASE BackendLeaves
  <2>1. bpc' = "exited" /\ apc' = AwakeA(apc) /\ state' = {}
    BY <1>4, Zenon DEF BackendLeaves
  <2> QED
    BY <2>1, AwakeFacts, Zenon DEF LockInv, ExclusiveBuffers
<1> QED
  BY <1>1, <1>2, <1>3, <1>4, Zenon DEF BackendStep

\* stop() takes the word only when nobody is inside.
LEMMA StopKeepsLock ==
    ASSUME LockInv, Stop \/ StopStep
    PROVE  LockInv'
<1>1. CASE Stop \/ StopReturns_ \/ StopSleeps \/ StopJoins
  BY <1>1, Zenon DEF LockInv, ExclusiveBuffers, Stop, StopReturns_, StopSleeps, StopJoins, word
<1>2. CASE StopTakes
  <2>1. /\ state \cap Busy = {} /\ state' = {}
        /\ apc' = AwakeA(apc) /\ bpc' = Awake(bpc, "lock")
    BY <1>2, Zenon DEF StopTakes
  <2>2. bpc # "swap"
    BY <2>1, Zenon DEF LockInv, Busy
  <2> QED
    BY <2>1, <2>2, AwakeFacts, Zenon DEF LockInv, ExclusiveBuffers
<1> QED
  BY <1>1, <1>2, Zenon DEF StopStep

\* LockInv is inductive.
LEMMA LockStep == LockInv /\ [Next]_vars => LockInv'
<1> SUFFICES ASSUME LockInv, [Next]_vars PROVE LockInv'
  OBVIOUS
<1>1. CASE \E t \in Appenders : Append_(t) \/ AppendStep(t)
  BY <1>1, AppendEnters, AppendEnds, Zenon DEF AppendStep
<1>2. CASE BackendStep \/ Stop \/ StopStep
  BY <1>2, BackendKeepsLock, StopKeepsLock, Zenon
<1>3. CASE Over \/ UNCHANGED vars
  BY <1>3, Zenon DEF LockInv, ExclusiveBuffers, Over, vars, word
<1> QED
  BY <1>1, <1>2, <1>3, Zenon DEF Next

\* The word of the logger is a lock: append and the swap never meet in the buffers.
THEOREM ExclusiveBuffersHolds == Spec => []ExclusiveBuffers
<1>1. Init => LockInv
  BY Zenon DEF Init, LockInv, ExclusiveBuffers
<1>2. LockInv => ExclusiveBuffers
  BY Zenon DEF LockInv
<1> QED
  BY <1>1, <1>2, LockStep, PTL DEF Spec

-----------------------------------------------------------------------------

\* RoundInv is inductive: only the backend touches its buffers.
LEMMA RoundStep ==
    ASSUME RoundInv, [Next]_vars
    PROVE  RoundInv'
<1>1. CASE \E t \in Appenders : Append_(t) \/ AppendStep(t)
  <2>1. UNCHANGED <<newBuffer1, newBuffer2, buffersToWrite>> /\ bpc' \in {bpc, Awake(bpc, "lock")}
    BY <1>1, Zenon
    DEF AppendStep, Append_, AppendRefused, AppendSleeps, AppendLocks, AppendFits, AppendFull,
                AppendRelease, mine
  <2> QED
    BY <2>1, Zenon DEF RoundInv, Awake
<1>2. CASE Stop \/ StopStep
  <2>1. UNCHANGED <<newBuffer1, newBuffer2, buffersToWrite>> /\ bpc' \in {bpc, Awake(bpc, "lock")}
    BY <1>2, Zenon DEF Stop, StopStep, StopReturns_, StopSleeps, StopTakes, StopJoins, mine
  <2> QED
    BY <2>1 DEF RoundInv, Awake
<1>3. CASE BackendWhile \/ BackendReturns \/ BackendSleeps \/ BackendLocksFull \/ BackendLocks
           \/ BackendLeaves
  BY <1>3, Zenon
  DEF RoundInv, BackendWhile, BackendReturns, BackendSleeps, BackendLocksFull, BackendLocks,
              BackendLeaves, mine
<1>4. CASE BackendSwap \/ BackendWrite
  BY <1>4, Zenon DEF RoundInv, BackendSwap, BackendWrite
<1>5. CASE Over \/ UNCHANGED vars
  BY <1>5, Zenon DEF RoundInv, Over, vars, mine
<1> QED
  BY <1>1, <1>2, <1>3, <1>4, <1>5, Zenon DEF Next, BackendStep

\* threadFunc's assertions (lines 130-132) never fail.
THEOREM BackendAssertionsHold == Spec => []BackendAssertions
<1>1. Init => RoundInv
  BY Zenon DEF Init, RoundInv
<1>2. RoundInv => BackendAssertions
  BY Zenon DEF RoundInv, BackendAssertions
<1>3. RoundInv /\ [Next]_vars => RoundInv'
  BY RoundStep
<1> QED
  BY <1>1, <1>2, <1>3, PTL DEF Spec

-----------------------------------------------------------------------------
(* Induction along 0..n, and sequences joined by it *)

\* A set that holds 0 and, with each number before n, the next one holds 0..n.
LEMMA Climb ==
    ASSUME NEW n \in Nat, NEW S, 0 \in S, \A k \in 1..n : k - 1 \in S => k \in S
    PROVE  \A k \in 0..n : k \in S
<1> DEFINE R == OpToRel(<, Nat)
           T == {k \in 0..n : k \notin S}
<1>1. IsWellFoundedOn(R, Nat)
  BY NatLessThanWellFounded, Zenon
<1>2. \A x, y \in Nat : y < x => <<y, x>> \in R
  BY Zenon DEF OpToRel
<1> HIDE DEF R
<1> SUFFICES ASSUME T # {} PROVE FALSE
  OBVIOUS
<1>3. T \subseteq Nat
  OBVIOUS
<1>4. PICK x \in T : \A y \in T : ~(<<y, x>> \in R)
  <2> HIDE DEF T
  <2> QED
    BY <1>1, <1>3, WFMin, Zenon
<1>5. x \in 1..n /\ x - 1 \in 0..n
  BY <1>4
<1>6. x - 1 \notin S
  BY <1>4, <1>5, Zenon
<1>7. x - 1 \in T /\ x - 1 \in Nat /\ x \in Nat
  BY <1>5, <1>6
<1>8. <<x - 1, x>> \in R
  BY <1>2, <1>7
<1> QED
  BY <1>4, <1>7, <1>8, Zenon

\* The function in Joined exists.
LEMMA FlattenFunction ==
    ASSUME NEW R, NEW q \in Seq(Seq(R)), Len(q) > 0
    PROVE  \E f \in [1..Len(q) -> Seq(R)] :
               /\ f = [i \in 1..Len(q) |-> IF i = 1 THEN q[i] ELSE f[i - 1] \o q[i]]
               /\ Joined(q) = f[Len(q)]
<1> DEFINE n == Len(q)
           Upto(k, f) == /\ f \in [1..k -> Seq(R)]
                         /\ f = [i \in 1..k |-> IF i = 1 THEN q[i] ELSE f[i - 1] \o q[i]]
           S == {k \in 0..n : \E f : Upto(k, f)}
           F == CHOOSE f : f = [i \in 1..n |-> IF i = 1 THEN q[i] ELSE f[i - 1] \o q[i]]
<1>1. n \in Nat /\ n > 0 /\ \A i \in 1..n : q[i] \in Seq(R)
  OBVIOUS
<1>2. Joined(q) = F[n]
  BY <1>1 DEF Joined
<1> HIDE DEF n, F
<1>3. Upto(0, [i \in 1..0 |-> <<>>])
  OBVIOUS
<1>4. ASSUME NEW k \in 1..n, NEW f, Upto(k - 1, f) PROVE \E g : Upto(k, g)
  <2> DEFINE g == [i \in 1..k |-> IF i = k THEN (IF k = 1 THEN q[k] ELSE f[k - 1] \o q[k]) ELSE f[i]]
  <2>1. \A i \in 1..k : i # k => i \in 1..(k - 1)
    BY <1>1
  <2>2. k # 1 => f[k - 1] \o q[k] \in Seq(R)
    <3>1. k # 1 => f[k - 1] \in Seq(R) /\ q[k] \in Seq(R)
      BY <1>1, <1>4
    <3> QED
      BY <3>1, ConcatProperties, Zenon
  <2>3. g \in [1..k -> Seq(R)]
    BY <1>1, <1>4, <2>1, <2>2, Zenon
  <2>4. ASSUME NEW i \in 1..k PROVE g[i] = IF i = 1 THEN q[i] ELSE g[i - 1] \o q[i]
    <3>1. CASE i = k
      <4>1. i # 1 => i - 1 \in 1..k /\ i - 1 # k
        BY <1>1, <3>1
      <4> QED
        BY <3>1, <4>1, Zenon
    <3>2. CASE i # k
      <4>1. i \in 1..(k - 1) /\ (i # 1 => i - 1 \in 1..k /\ i - 1 # k)
        BY <1>1, <3>2
      <4>2. f[i] = IF i = 1 THEN q[i] ELSE f[i - 1] \o q[i]
        BY <1>4, <4>1, Zenon
      <4> QED
        BY <3>2, <4>1, <4>2, Zenon
    <3> QED
      BY <3>1, <3>2, Zenon
  <2> HIDE DEF g
  <2>5. g = [i \in 1..k |-> g[i]]
    BY <2>3, Zenon
  <2>6. Upto(k, g)
    BY <2>3, <2>4, <2>5, Zenon
  <2> HIDE DEF Upto
  <2> QED
    BY <2>6, Zenon
<1>5. \E h : Upto(n, h)
  <2> HIDE DEF Upto
  <2>1. 0 \in S
    BY <1>1, <1>3
  <2>2. ASSUME NEW k \in 1..n, k - 1 \in S PROVE k \in S
    <3>1. PICK f : Upto(k - 1, f)
      BY <2>2, Zenon
    <3>2. \E g : Upto(k, g)
      BY <1>4, <3>1, Zenon
    <3> QED
      BY <1>1, <3>2
  <2> HIDE DEF S
  <2>3. \A k \in 0..n : k \in S
    BY <1>1, <2>1, <2>2, Climb, Zenon
  <2>4. n \in S
    BY <1>1, <2>3
  <2> QED
    BY <2>4, Zenon DEF S
<1>6. F = [i \in 1..n |-> IF i = 1 THEN q[i] ELSE F[i - 1] \o q[i]]
  BY <1>5, Zenon DEF F
<1>7. \A i \in 1..n : F[i] = IF i = 1 THEN q[i] ELSE F[i - 1] \o q[i]
  BY <1>6, Zenon
<1>8. \A i \in 1..n : F[i] \in Seq(R)
  <2> DEFINE T == {k \in 0..n : k = 0 \/ F[k] \in Seq(R)}
  <2>1. 0 \in T
    BY <1>1
  <2>2. ASSUME NEW k \in 1..n, k - 1 \in T PROVE k \in T
    <3>1. CASE k = 1
      <4>1. F[k] = q[k] /\ q[k] \in Seq(R)
        BY <1>1, <1>7, <3>1, Zenon
      <4> QED
        BY <4>1
    <3>2. CASE k # 1
      <4>1. F[k] = F[k - 1] \o q[k] /\ q[k] \in Seq(R)
        BY <1>1, <1>7, <3>2, Zenon
      <4>2. F[k - 1] \in Seq(R)
        BY <2>2, <3>2
      <4>3. F[k - 1] \o q[k] \in Seq(R)
        BY <4>1, <4>2, ConcatProperties, Zenon
      <4>4. F[k] \in Seq(R)
        BY <4>1, <4>3, Zenon
      <4> QED
        BY <4>4
    <3> QED
      BY <3>1, <3>2, Zenon
  <2>3. \A k \in 0..n : k \in T
    <3> HIDE DEF T
    <3> QED
      BY <1>1, <2>1, <2>2, Climb, Zenon
  <2> QED
    BY <2>3
<1>9. F \in [1..n -> Seq(R)]
  BY <1>6, <1>8, Zenon
<1> QED
  BY <1>2, <1>6, <1>9, Zenon DEF n

\* Joined adds the last sequence to what it makes of the others.
LEMMA FlattenAppend ==
    ASSUME NEW R, NEW q \in Seq(Seq(R)), NEW x \in Seq(R)
    PROVE  /\ Joined(q) \in Seq(R)
           /\ Joined(Append(q, x)) = Joined(q) \o x
<1> DEFINE p == Append(q, x)
           n == Len(q)
           m == Len(p)
<1>1. /\ p \in Seq(Seq(R)) /\ m = n + 1 /\ p[m] = x
      /\ \A i \in 1..n : p[i] = q[i]
  OBVIOUS
<1>2. n \in Nat
  OBVIOUS
<1> SUFFICES Joined(q) \in Seq(R) /\ Joined(p) = Joined(q) \o x
  OBVIOUS
<1> HIDE DEF p
<1>3. Len(p) > 0
  BY <1>1, <1>2
<1>4. PICK g \in [1..Len(p) -> Seq(R)] :
          /\ g = [i \in 1..Len(p) |-> IF i = 1 THEN p[i] ELSE g[i - 1] \o p[i]]
          /\ Joined(p) = g[Len(p)]
  BY <1>1, <1>3, FlattenFunction, Zenon
<1>5. \A i \in 1..m : g[i] = IF i = 1 THEN p[i] ELSE g[i - 1] \o p[i]
  BY <1>4, Zenon
<1>6. CASE n = 0
  <2>1. q = <<>> /\ Joined(q) = <<>>
    BY <1>6 DEF Joined
  <2>2. Joined(p) = x
    BY <1>1, <1>4, <1>5, <1>6
  <2>3. <<>> \o x = x /\ <<>> \in Seq(R)
    BY ConcatEmptySeq
  <2> QED
    BY <2>1, <2>2, <2>3, Zenon
<1>7. CASE n > 0
  <2>1. PICK f \in [1..Len(q) -> Seq(R)] :
            /\ f = [i \in 1..Len(q) |-> IF i = 1 THEN q[i] ELSE f[i - 1] \o q[i]]
            /\ Joined(q) = f[Len(q)]
    BY <1>7, FlattenFunction, Zenon
  <2>2. \A i \in 1..n : f[i] = IF i = 1 THEN q[i] ELSE f[i - 1] \o q[i]
    BY <2>1, Zenon
  <2>3. Joined(q) = f[n] /\ Joined(p) = g[m]
    BY <1>4, <2>1, Zenon
  <2>10. n \in 1..n
    BY <1>2, <1>7
  <2>11. f[n] \in Seq(R)
    BY <2>1, <2>10, Zenon
  <2> HIDE DEF n, m
  <2> DEFINE S == {k \in 0..n : k = 0 \/ g[k] = f[k]}
  <2>4. 0 \in S
    BY <1>2
  <2>5. ASSUME NEW k \in 1..n, k - 1 \in S PROVE k \in S
    <3>1. k \in 1..m /\ p[k] = q[k]
      BY <1>1, <1>2
    <3>2. CASE k = 1
      <4>1. g[k] = f[k]
        BY <1>5, <2>2, <3>1, <3>2, Zenon
      <4> QED
        BY <4>1
    <3>3. CASE k # 1
      <4>1. g[k] = g[k - 1] \o p[k] /\ f[k] = f[k - 1] \o q[k]
        BY <1>5, <2>2, <3>1, <3>3, Zenon
      <4>2. g[k - 1] = f[k - 1]
        BY <2>5, <3>3
      <4>3. g[k] = f[k]
        BY <3>1, <4>1, <4>2, Zenon
      <4> QED
        BY <4>3
    <3> QED
      BY <3>2, <3>3, Zenon
  <2>6. \A k \in 0..n : k \in S
    <3> HIDE DEF S
    <3> QED
      BY <1>2, <2>4, <2>5, Climb, Zenon
  <2>7. g[n] = f[n]
    BY <1>2, <1>7, <2>6
  <2>8. m \in 1..m /\ m # 1 /\ m - 1 = n
    BY <1>1, <1>2, <1>7
  <2>9. g[m] = g[n] \o x
    BY <1>1, <1>5, <2>8, Zenon
  <2> QED
    BY <2>3, <2>7, <2>9, <2>11, Zenon
<1> QED
  BY <1>2, <1>6, <1>7

\* Empty sequences at the end add nothing.
LEMMA FlattenPad ==
    ASSUME NEW R, NEW q \in Seq(Seq(R)), NEW n \in Nat, Len(q) <= n
    PROVE  Joined([i \in 1..n |-> IF i <= Len(q) THEN q[i] ELSE <<>>]) = Joined(q)
<1> DEFINE m == Len(q)
           Pad(k) == [i \in 1..k |-> IF i <= m THEN q[i] ELSE <<>>]
           S == {k \in 0..(n - m) : Joined(Pad(m + k)) = Joined(q)}
<1>1. m \in Nat /\ m <= n /\ q = [i \in 1..m |-> q[i]] /\ \A i \in 1..m : q[i] \in Seq(R)
  OBVIOUS
<1> SUFFICES Joined(Pad(n)) = Joined(q)
  OBVIOUS
<1> HIDE DEF m
<1>2. Pad(m) = q
  BY <1>1
<1>3. ASSUME NEW j \in Nat, m <= j
      PROVE  /\ Pad(j) \in Seq(Seq(R))
             /\ Pad(j + 1) = Append(Pad(j), <<>>)
  <2> DEFINE u == Pad(j)
             v == Pad(j + 1)
  <2>1. u \in [1..j -> Seq(R)]
    BY <1>1, <1>3
  <2>2. v \in [1..(j + 1) -> Seq(R)] /\ v[j + 1] = <<>> /\ \A i \in 1..j : v[i] = u[i]
    BY <1>1, <1>3
  <2> HIDE DEF u, v
  <2>3. u \in Seq(Seq(R)) /\ Len(u) = j /\ v \in Seq(Seq(R)) /\ Len(v) = j + 1
    BY <2>1, <2>2
  <2>4. v = Append(u, <<>>)
    BY <2>2, <2>3
  <2> QED
    BY <2>3, <2>4, Zenon DEF u, v
<1> HIDE DEF Pad
<1>4. m + 0 = m /\ n - m \in Nat /\ m + (n - m) = n
  BY <1>1
<1>5. 0 \in S
  BY <1>2, <1>4
<1>6. ASSUME NEW k \in 1..(n - m), k - 1 \in S PROVE k \in S
  <2> DEFINE j == m + (k - 1)
  <2>1. j \in Nat /\ m + k = j + 1 /\ m <= j
    BY <1>1, <1>4
  <2>2. Joined(Pad(j)) = Joined(q)
    BY <1>6, Zenon
  <2> HIDE DEF j
  <2>3. Pad(j) \in Seq(Seq(R)) /\ Pad(j + 1) = Append(Pad(j), <<>>) /\ <<>> \in Seq(R)
    BY <1>3, <2>1
  <2>4. /\ Joined(Pad(j)) \in Seq(R)
        /\ Joined(Append(Pad(j), <<>>)) = Joined(Pad(j)) \o <<>>
    BY <2>3, FlattenAppend, Zenon
  <2>5. Joined(Pad(j)) \o <<>> = Joined(Pad(j))
    BY <2>4, ConcatEmptySeq, Zenon
  <2>6. Joined(Pad(m + k)) = Joined(q)
    BY <2>1, <2>2, <2>3, <2>4, <2>5, Zenon
  <2> QED
    BY <1>4, <2>6
<1>7. \A k \in 0..(n - m) : k \in S
  <2> HIDE DEF S
  <2> QED
    BY <1>4, <1>5, <1>6, Climb, Zenon
<1>8. n - m \in S
  BY <1>4, <1>7
<1> QED
  BY <1>4, <1>8, Zenon

-----------------------------------------------------------------------------
(* One append to the files *)

Records == Appenders \X Nat
LogFields == {"startOfPeriod", "count", "name", "writtenBytes", "again", "files"}

\* What each second's file holds, up to the file that is open.
Contents(l) == [s \in 1..l.name |-> IF s \in DOMAIN l.files THEN l.files[s] ELSE <<>>]
InFiles(l) == Joined(Contents(l))

\* The open file is the last one, writtenBytes is its length, and no file is longer
\* than FileBounded says.
Kept(l) ==
    /\ DOMAIN l = LogFields
    /\ l.name \in Nat \ {0} /\ l.writtenBytes \in Nat
    /\ l.startOfPeriod \in Int /\ l.startOfPeriod <= l.name
    /\ l.name \in DOMAIN l.files
    /\ \A s \in DOMAIN l.files : s \in 1..l.name /\ l.files[s] \in Seq(Records)
    /\ l.name \notin l.again => l.writtenBytes = Len(l.files[l.name])
    /\ \A s \in DOMAIN l.files \ l.again : Len(l.files[s]) < RollSize + BufferSize

\* Between two appends the open file is not full.
NotFull(l) == l.name \notin l.again => l.writtenBytes < RollSize

\* The contents are sequences of records.
LEMMA ContentsType ==
    ASSUME NEW l, Kept(l)
    PROVE  Contents(l) \in Seq(Seq(Records)) /\ Len(Contents(l)) = l.name
<1> DEFINE c == Contents(l)
<1>1. c \in [1..l.name -> Seq(Records)] /\ l.name \in Nat
  BY DEF Contents, Kept
<1> HIDE DEF c
<1>2. c \in Seq(Seq(Records)) /\ Len(c) = l.name
  BY <1>1
<1> QED
  BY <1>2, Zenon DEF c

\* AppendFile::append adds to the open file, which is the last one.
LEMMA WrittenKeeps ==
    ASSUME NEW l, Kept(l), NotFull(l), NEW logs \in Seq(Records), Len(logs) <= BufferSize
    PROVE  LET w == written(l, logs)
           IN  Kept(w) /\ w.name = l.name /\ InFiles(w) = InFiles(l) \o logs
<1> DEFINE w == written(l, logs)
           n == l.name
<1>1. /\ DOMAIN w = LogFields /\ w.name = n /\ w.again = l.again
      /\ w.startOfPeriod = l.startOfPeriod
      /\ w.writtenBytes = l.writtenBytes + Len(logs)
      /\ w.files = [l.files EXCEPT ![n] = @ \o logs]
  BY Zenon DEF written, Kept, LogFields
<1> HIDE DEF w
<1>2. /\ n \in Nat \ {0} /\ n \in DOMAIN l.files /\ l.files[n] \in Seq(Records)
      /\ \A s \in DOMAIN l.files : s \in 1..n /\ l.files[s] \in Seq(Records)
  BY Zenon DEF Kept
<1>3. /\ l.files[n] \o logs \in Seq(Records)
      /\ Len(l.files[n] \o logs) = Len(l.files[n]) + Len(logs)
  BY <1>2, ConcatProperties, Zenon
<1>4. /\ DOMAIN w.files = DOMAIN l.files /\ w.files[n] = l.files[n] \o logs
      /\ \A s \in DOMAIN l.files : s # n => w.files[s] = l.files[s]
  BY <1>1, <1>2, Zenon
<1>5. BufferSize \in Nat /\ RollSize \in Nat /\ Len(logs) \in Nat /\ Len(l.files[n]) \in Nat
  BY <1>2, LoggerAssumption, FileAssumption
<1>6. Kept(w)
  <2>1. n \notin l.again =>
          w.writtenBytes = Len(w.files[n]) /\ Len(w.files[n]) < RollSize + BufferSize
    <3>1. n \notin l.again => l.writtenBytes = Len(l.files[n]) /\ l.writtenBytes < RollSize
      BY Zenon DEF Kept, NotFull
    <3>2. w.writtenBytes = l.writtenBytes + Len(logs) /\ Len(w.files[n]) = Len(l.files[n]) + Len(logs)
      BY <1>1, <1>3, <1>4, Zenon
    <3> QED
      BY <1>5, <3>1, <3>2
  <2>2. w.writtenBytes \in Nat
    BY <1>1, <1>5 DEF Kept
  <2>3. \A s \in DOMAIN w.files : s \in 1..n /\ w.files[s] \in Seq(Records)
    BY <1>2, <1>3, <1>4, Zenon
  <2>4. \A s \in DOMAIN w.files \ w.again : Len(w.files[s]) < RollSize + BufferSize
    BY <1>1, <1>4, <2>1, Zenon DEF Kept
  <2> QED
    BY <1>1, <1>2, <1>4, <2>1, <2>2, <2>3, <2>4, Zenon DEF Kept
<1>7. InFiles(w) = InFiles(l) \o logs
  <2> DEFINE f == [s \in 1..(n - 1) |-> Contents(l)[s]]
             x == l.files[n]
  <2>1. n - 1 \in Nat /\ \A s \in 1..n : s = n \/ s \in 1..(n - 1)
    BY <1>2
  <2>2. Contents(l) \in Seq(Seq(Records)) /\ Len(Contents(l)) = n
    BY ContentsType, Zenon
  <2>3. Contents(w) \in Seq(Seq(Records)) /\ Len(Contents(w)) = n
    BY <1>1, <1>6, ContentsType, Zenon
  <2>4. Contents(l)[n] = x /\ Contents(w)[n] = x \o logs
    BY <1>1, <1>2, <1>4, ZenonT(30) DEF Contents
  <2>5. \A s \in 1..(n - 1) : Contents(w)[s] = Contents(l)[s]
    BY <1>1, <1>2, <1>4, <2>1 DEF Contents
  <2>6. f \in [1..(n - 1) -> Seq(Records)]
    BY <2>1, <2>2
  <2>7. \A s \in 1..(n - 1) : f[s] = Contents(l)[s]
    OBVIOUS
  <2> HIDE DEF f
  <2>8. f \in Seq(Seq(Records)) /\ Len(f) = n - 1
    BY <2>1, <2>6
  <2>9. Contents(l) = Append(f, x)
    <3> DEFINE a == Contents(l)
    <3>1. a \in Seq(Seq(Records)) /\ Len(a) = n /\ a[n] = x /\ \A s \in 1..(n - 1) : a[s] = f[s]
      BY <2>2, <2>4, <2>7, Zenon
    <3> HIDE DEF a
    <3>2. a = Append(f, x)
      BY <1>2, <2>1, <2>8, <3>1, SMTT(30)
    <3> QED
      BY <3>2, Zenon DEF a
  <2>10. Contents(w) = Append(f, x \o logs)
    <3> DEFINE a == Contents(w)
               y == x \o logs
    <3>1. /\ a \in Seq(Seq(Records)) /\ Len(a) = n /\ a[n] = y /\ y \in Seq(Records)
          /\ \A s \in 1..(n - 1) : a[s] = f[s]
      BY <1>3, <2>3, <2>4, <2>5, <2>7, Zenon
    <3> HIDE DEF a, y
    <3>2. a = Append(f, y)
      BY <1>2, <2>1, <2>8, <3>1, SMTT(30)
    <3> QED
      BY <3>2, Zenon DEF a, y
  <2>11. /\ Joined(f) \in Seq(Records)
         /\ Joined(Append(f, x)) = Joined(f) \o x
         /\ Joined(Append(f, x \o logs)) = Joined(f) \o (x \o logs)
    BY <1>2, <1>3, <2>8, FlattenAppend, Zenon
  <2> DEFINE g == Joined(f)
  <2>12. g \in Seq(Records) /\ x \in Seq(Records)
    BY <1>2, <2>11, Zenon
  <2> HIDE DEF g, x
  <2>13. g \o (x \o logs) = (g \o x) \o logs
    BY <2>12
  <2> QED
    BY <2>9, <2>10, <2>11, <2>13, Zenon DEF InFiles, g
<1> QED
  BY <1>1, <1>6, <1>7, Zenon DEF w

\* Counting the appends changes nothing else.
LEMMA CountKeeps ==
    ASSUME NEW l, Kept(l), NEW c
    PROVE  LET d == [l EXCEPT !.count = c]
           IN  /\ Kept(d) /\ d.name = l.name /\ InFiles(d) = InFiles(l)
               /\ d.writtenBytes = l.writtenBytes
<1> DEFINE d == [l EXCEPT !.count = c]
<1>1. /\ DOMAIN d = LogFields /\ d.name = l.name /\ d.again = l.again
      /\ d.startOfPeriod = l.startOfPeriod /\ d.writtenBytes = l.writtenBytes /\ d.files = l.files
  BY Zenon DEF Kept, LogFields
<1> HIDE DEF d
<1>2. Kept(d) /\ Contents(d) = Contents(l)
  BY <1>1, Zenon DEF Kept, Contents
<1> QED
  BY <1>1, <1>2, Zenon DEF d, InFiles

\* roll opens a later file, or this one again, and moves no record.
LEMMA RollKeeps ==
    ASSUME NEW l, Kept(l), NEW s \in Nat, l.name <= s
    PROVE  LET r == roll(l, s)
           IN  Kept(r) /\ NotFull(r) /\ r.name <= s /\ InFiles(r) = InFiles(l)
<1> DEFINE r == roll(l, s)
           n == l.name
<1>1. /\ n \in Nat \ {0} /\ n \in DOMAIN l.files
      /\ \A x \in DOMAIN l.files : x \in 1..n /\ l.files[x] \in Seq(Records)
      /\ l.startOfPeriod \in Int /\ l.startOfPeriod <= n
  BY Zenon DEF Kept
<1>2. /\ RollSize \in Nat \ {0} /\ BufferSize \in Nat
      /\ s - (s % RollPerSeconds) \in Int /\ s - (s % RollPerSeconds) <= s
  <2>1. RollPerSeconds \in Nat /\ RollPerSeconds > 0
    BY FileAssumption
  <2>2. s % RollPerSeconds \in 0..(RollPerSeconds - 1)
    BY <2>1
  <2> QED
    BY <2>1, <2>2, LoggerAssumption, FileAssumption
<1>3. CASE s > l.startOfPeriod
  <2>1. /\ DOMAIN r = LogFields /\ r.name = s /\ r.writtenBytes = 0
        /\ r.startOfPeriod = s - (s % RollPerSeconds)
        /\ r.again = (IF s = n THEN l.again \cup {s} ELSE l.again)
        /\ r.files = opened(l.files, s)
    BY <1>3, Zenon DEF roll, Kept, LogFields
  <2> HIDE DEF r
  <2>2. /\ DOMAIN r.files = DOMAIN l.files \cup {s}
        /\ \A x \in DOMAIN l.files : r.files[x] = l.files[x]
        /\ s \notin DOMAIN l.files => r.files[s] = <<>>
    BY <2>1, Zenon DEF opened
  <2>3. CASE s = n
    <3>1. Kept(r) /\ NotFull(r)
      BY <1>1, <1>2, <2>1, <2>2, <2>3 DEF Kept, NotFull
    <3>2. Contents(r) = Contents(l)
      BY <1>1, <2>1, <2>2, <2>3, Zenon DEF Contents
    <3> QED
      BY <2>1, <3>1, <3>2 DEF InFiles, r
  <2>4. CASE s # n
    <3>1. s \notin DOMAIN l.files /\ n < s
      BY <1>1, <2>4
    <3>2. \A x \in DOMAIN r.files : x \in 1..s /\ r.files[x] \in Seq(Records)
      <4>1. \A x \in DOMAIN l.files : x \in 1..s /\ r.files[x] \in Seq(Records)
        BY <1>1, <2>2, <3>1
      <4>2. s \in 1..s
        BY <1>1, <3>1
      <4>3. r.files[s] = <<>> /\ <<>> \in Seq(Records)
        BY <2>2, <3>1
      <4> QED
        BY <2>2, <4>1, <4>2, <4>3, Zenon
    <3>3. \A x \in DOMAIN r.files \ r.again : Len(r.files[x]) < RollSize + BufferSize
      BY <1>1, <1>2, <2>1, <2>2, <2>4, <3>1 DEF Kept
    <3>4. Kept(r) /\ NotFull(r)
      BY <1>1, <1>2, <2>1, <2>2, <3>1, <3>2, <3>3 DEF Kept, NotFull
    <3>5. Contents(l) \in Seq(Seq(Records)) /\ Len(Contents(l)) = n
      BY ContentsType, Zenon
    <3>6. Contents(r) = [i \in 1..s |-> IF i <= n THEN Contents(l)[i] ELSE <<>>]
      <4>1. \A i \in 1..s : (IF i \in DOMAIN r.files THEN r.files[i] ELSE <<>>)
                              = IF i <= n THEN Contents(l)[i] ELSE <<>>
        BY <1>1, <2>2, <3>1 DEF Contents
      <4> QED
        BY <2>1, <4>1, Zenon DEF Contents
    <3>7. Joined(Contents(r)) = Joined(Contents(l))
      BY <3>1, <3>5, <3>6, FlattenPad
    <3> QED
      BY <2>1, <3>4, <3>7 DEF InFiles, r
  <2> QED
    BY <2>3, <2>4, Zenon
<1>4. CASE ~(s > l.startOfPeriod)
  <2>1. s = n
    BY <1>1, <1>4
  <2>2. /\ DOMAIN r = LogFields /\ r.name = n /\ r.writtenBytes = l.writtenBytes
        /\ r.startOfPeriod = l.startOfPeriod /\ r.again = l.again \cup {s} /\ r.files = l.files
    BY <1>4, Zenon DEF roll, Kept, LogFields
  <2> HIDE DEF r
  <2>3. Kept(r) /\ NotFull(r) /\ Contents(r) = Contents(l)
    BY <2>1, <2>2, Zenon DEF Kept, NotFull, Contents
  <2> QED
    BY <2>1, <2>2, <2>3, Zenon DEF InFiles, r
<1> QED
  BY <1>3, <1>4, Zenon

\* append_impl.
LEMMA AppendImplKeeps ==
    ASSUME NEW l, Kept(l), NotFull(l), NEW logs \in Seq(Records), Len(logs) <= BufferSize,
           NEW s \in Nat, l.name <= s
    PROVE  LET a == append(l, logs, s)
           IN  Kept(a) /\ NotFull(a) /\ a.name <= s /\ InFiles(a) = InFiles(l) \o logs
<1> DEFINE w == written(l, logs)
           d == [w EXCEPT !.count = (@ + 1) % CheckInterval]
           a == append(l, logs, s)
<1>1. Kept(w) /\ w.name = l.name /\ InFiles(w) = InFiles(l) \o logs
  BY WrittenKeeps, Zenon
<1>2. \/ w.writtenBytes >= RollSize /\ a = roll(w, s)
      \/ ~(w.writtenBytes >= RollSize) /\ (a = roll(d, s) \/ a = d)
  BY Zenon DEF append
<1> HIDE DEF w, a
<1>3. Kept(d) /\ d.name = w.name /\ InFiles(d) = InFiles(w) /\ d.writtenBytes = w.writtenBytes
  BY <1>1, CountKeeps, Zenon
<1> HIDE DEF d
<1>4. CASE a = roll(w, s)
  BY <1>1, <1>4, RollKeeps, Zenon DEF a
<1>5. CASE a = roll(d, s)
  BY <1>1, <1>3, <1>5, RollKeeps, Zenon DEF a
<1>6. CASE a = d /\ ~(w.writtenBytes >= RollSize)
  <2>1. d.writtenBytes < RollSize
    BY <1>1, <1>3, <1>6, FileAssumption DEF Kept
  <2> QED
    BY <1>1, <1>3, <1>6, <2>1, Zenon DEF a, NotFull
<1> QED
  BY <1>2, <1>4, <1>5, <1>6, Zenon

-----------------------------------------------------------------------------
(* One round of the backend *)

\* Concatenation is associative.
LEMMA Regroup ==
    \A u, v, w \in Seq(Records) : (u \o v) \o w = u \o (v \o w)
  OBVIOUS

\* threadFunc appends the buffers one after the other, each at its own second.
LEMMA RoundKeeps ==
    ASSUME NEW l, Kept(l), NotFull(l), NEW b \in Seq(Seq(Records)),
           NEW c \in [1..Len(b) -> Nat],
           \A i \in 1..Len(b) : Len(b[i]) <= BufferSize /\ l.name <= c[i],
           \A i \in 1..(Len(b) - 1) : c[i] <= c[i + 1]
    PROVE  LET f[i \in 0..Len(b)] == IF i = 0 THEN l ELSE append(f[i - 1], b[i], c[i])
               a == f[Len(b)]
           IN  /\ Kept(a) /\ NotFull(a) /\ InFiles(a) = InFiles(l) \o Joined(b)
               /\ Len(b) > 0 => a.name <= c[Len(b)]
<1> DEFINE n == Len(b)
           Upto(k, f) == f = [i \in 0..k |-> IF i = 0 THEN l ELSE append(f[i - 1], b[i], c[i])]
           S == {k \in 0..n : \E f : Upto(k, f)}
           F == CHOOSE f : f = [i \in 0..n |-> IF i = 0 THEN l ELSE append(f[i - 1], b[i], c[i])]
           Good(k, a) == /\ Kept(a) /\ NotFull(a)
                         /\ InFiles(a) = InFiles(l) \o Joined(SubSeq(b, 1, k))
                         /\ k > 0 => a.name <= c[k]
           T == {k \in 0..n : Good(k, F[k])}
<1>1. n \in Nat /\ \A i \in 1..n : b[i] \in Seq(Records) /\ c[i] \in Nat
  BY SMTT(30)
<1>2. SubSeq(b, 1, n) = b
  OBVIOUS
<1>3. SUFFICES Good(n, F[n])
  BY <1>2, Zenon
<1> HIDE DEF n, F
<1>4. Upto(0, [i \in 0..0 |-> l])
  OBVIOUS
<1>5. ASSUME NEW k \in 1..n, NEW f, Upto(k - 1, f) PROVE \E g : Upto(k, g)
  <2> DEFINE g == [i \in 0..k |-> IF i = k THEN append(f[k - 1], b[k], c[k]) ELSE f[i]]
  <2>1. \A i \in 0..k : i # k => i \in 0..(k - 1)
    BY <1>1
  <2>2. ASSUME NEW i \in 0..k
        PROVE  g[i] = IF i = 0 THEN l ELSE append(g[i - 1], b[i], c[i])
    <3>1. i # 0 => i - 1 \in 0..k /\ i - 1 # k
      BY <1>1
    <3>2. CASE i = k
      <4>1. i # 0
        BY <1>1, <3>2
      <4> QED
        BY <3>1, <3>2, <4>1, Zenon
    <3>3. CASE i # k
      <4>1. f[i] = IF i = 0 THEN l ELSE append(f[i - 1], b[i], c[i])
        BY <1>5, <2>1, <3>3, Zenon
      <4> QED
        BY <3>1, <3>3, <4>1, Zenon
    <3> QED
      BY <3>2, <3>3, Zenon
  <2>3. g = [i \in 0..k |-> g[i]]
    OBVIOUS
  <2> HIDE DEF g
  <2>4. Upto(k, g)
    BY <2>2, <2>3, Zenon
  <2> HIDE DEF Upto
  <2> QED
    BY <2>4, Zenon
<1>6. \E h : Upto(n, h)
  <2> HIDE DEF Upto
  <2>1. 0 \in S
    BY <1>1, <1>4
  <2>2. ASSUME NEW k \in 1..n, k - 1 \in S PROVE k \in S
    <3>1. PICK f : Upto(k - 1, f)
      BY <2>2, Zenon
    <3>2. \E g : Upto(k, g)
      BY <1>5, <3>1, Zenon
    <3> QED
      BY <1>1, <3>2
  <2> HIDE DEF S
  <2>3. \A k \in 0..n : k \in S
    BY <1>1, <2>1, <2>2, Climb, Zenon
  <2>4. n \in S
    BY <1>1, <2>3
  <2> QED
    BY <2>4, Zenon DEF S
<1>7. F = [i \in 0..n |-> IF i = 0 THEN l ELSE append(F[i - 1], b[i], c[i])]
  BY <1>6, Zenon DEF F
<1>8. F[0] = l /\ \A i \in 1..n : F[i] = append(F[i - 1], b[i], c[i])
  <2>1. 0 \in 0..n /\ \A i \in 1..n : i \in 0..n /\ i # 0
    BY <1>1
  <2> QED
    BY <1>7, <2>1, Zenon
<1>9. Good(0, F[0])
  <2>1. SubSeq(b, 1, 0) = <<>> /\ Joined(<<>>) = <<>>
    BY DEF Joined
  <2>2. InFiles(l) \in Seq(Records)
    <3>1. Contents(l) \in Seq(Seq(Records)) /\ <<>> \in Seq(Records)
      BY ContentsType
    <3> QED
      BY <3>1, FlattenAppend, Zenon DEF InFiles
  <2>3. InFiles(l) \o <<>> = InFiles(l)
    BY <2>2, ConcatEmptySeq, Zenon
  <2>4. InFiles(l) = InFiles(l) \o Joined(SubSeq(b, 1, 0))
    BY <2>1, <2>3, Zenon
  <2>5. ~(0 > 0)
    OBVIOUS
  <2> QED
    BY <1>8, <2>4, <2>5, Zenon
<1>10. ASSUME NEW k \in 1..n, Good(k - 1, F[k - 1]) PROVE Good(k, F[k])
  <2> DEFINE h == F[k - 1]
             p == SubSeq(b, 1, k - 1)
             x == b[k]
  <2>1. x \in Seq(Records) /\ c[k] \in Nat /\ Len(x) <= BufferSize
    BY <1>1, Zenon DEF n
  <2>2. h.name <= c[k]
    <3>1. CASE k = 1
      <4>1. F[0].name <= c[k]
        BY <1>8, Zenon DEF n
      <4> QED
        BY <3>1, <4>1
    <3>2. CASE k # 1
      <4>1. k - 1 \in 1..(n - 1) /\ (k - 1) + 1 = k /\ k - 1 \in 1..n
        BY <1>1, <3>2
      <4>2. c[k - 1] <= c[k] /\ c[k - 1] \in Nat
        BY <1>1, <4>1, Zenon DEF n
      <4>3. h.name \in Nat /\ h.name <= c[k - 1]
        BY <1>10, <4>1 DEF Kept
      <4> QED
        BY <2>1, <4>2, <4>3, SMTT(30)
    <3> QED
      BY <3>1, <3>2, Zenon
  <2>3. p \in Seq(Seq(Records)) /\ SubSeq(b, 1, k) = Append(p, x)
    BY <1>1 DEF n
  <2>4. /\ InFiles(h) = InFiles(l) \o Joined(p) /\ Kept(h) /\ NotFull(h)
        /\ F[k] = append(h, x, c[k])
    BY <1>8, <1>10, Zenon
  <2>5. InFiles(l) \in Seq(Records)
    <3>1. Contents(l) \in Seq(Seq(Records)) /\ <<>> \in Seq(Records)
      BY ContentsType
    <3> QED
      BY <3>1, FlattenAppend, Zenon DEF InFiles
  <2> HIDE DEF h, p, x
  <2>6. /\ Kept(F[k]) /\ NotFull(F[k]) /\ F[k].name <= c[k]
        /\ InFiles(F[k]) = InFiles(h) \o x
    BY <2>1, <2>2, <2>4, AppendImplKeeps, Zenon
  <2>7. Joined(p) \in Seq(Records) /\ Joined(Append(p, x)) = Joined(p) \o x
    BY <2>1, <2>3, FlattenAppend, ZenonT(30)
  <2>8. (InFiles(l) \o Joined(p)) \o x = InFiles(l) \o (Joined(p) \o x)
    BY <2>1, <2>5, <2>7, Regroup, Zenon
  <2>9. InFiles(F[k]) = InFiles(l) \o Joined(SubSeq(b, 1, k))
    BY <2>3, <2>4, <2>6, <2>7, <2>8, Zenon
  <2> QED
    BY <2>6, <2>9, Zenon
<1> HIDE DEF Good
<1>11. 0 \in T /\ \A k \in 1..n : k - 1 \in T => k \in T
  BY <1>1, <1>9, <1>10
<1>12. n \in T
  <2>1. n \in 0..n
    BY <1>1
  <2> HIDE DEF T
  <2> QED
    BY <1>1, <1>11, <2>1, Climb, Zenon
<1> QED
  BY <1>12, Zenon

-----------------------------------------------------------------------------
(* Every step *)

\* Sequences of records, added to at the end.
LEMMA Extend ==
    \A u, v \in Seq(Records), r \in Records :
        /\ u \o v \in Seq(Records) /\ u \o Append(v, r) = Append(u \o v, r)
        /\ u \o <<r>> = Append(u, r) /\ Append(u, r) \in Seq(Records) /\ <<r>> \in Seq(Records)
        /\ u \o <<>> = u /\ <<>> \in Seq(Records)
  OBVIOUS

\* No buffer is longer than a LogBuffer.
Buffers(b) ==
    b \in Seq(Seq(Records)) /\ \A i \in 1..Len(b) : Len(b[i]) <= BufferSize

\* Between two appends the files are as append_impl leaves them, and the backend has
\* something to write exactly while it is writing.
FileInv ==
    /\ RoundInv
    /\ appends \in [Appenders -> Nat] /\ accepted \in Seq(Records)
    /\ cur_buffer \in Seq(Records) /\ Len(cur_buffer) <= BufferSize
    /\ Buffers(buffers) /\ Buffers(buffersToWrite)
    /\ bpc = "write" <=> buffersToWrite # <<>>
    /\ Kept(log) /\ NotFull(log) /\ now \in Nat /\ log.name <= now
    /\ RecordsConserved

\* RecordsConserved in terms of what the files hold.
LEMMA Flow ==
    /\ RecordsConserved <=>
         InFiles(log) \o Joined(buffersToWrite) \o Joined(buffers) \o cur_buffer = accepted
    /\ RecordsConserved' <=>
         InFiles(log') \o Joined(buffersToWrite') \o Joined(buffers') \o cur_buffer'
           = accepted'
  BY Zenon DEF RecordsConserved, Files, InFiles, Contents

\* What flows is made of records.
LEMMA FlowTypes ==
    ASSUME FileInv
    PROVE  /\ InFiles(log) \in Seq(Records) /\ Joined(buffersToWrite) \in Seq(Records)
           /\ Joined(buffers) \in Seq(Records) /\ cur_buffer \in Seq(Records)
           /\ accepted \in Seq(Records)
<1>1. /\ buffersToWrite \in Seq(Seq(Records)) /\ buffers \in Seq(Seq(Records))
      /\ cur_buffer \in Seq(Records) /\ accepted \in Seq(Records) /\ Kept(log)
  BY Zenon DEF FileInv, Buffers
<1>2. Contents(log) \in Seq(Seq(Records)) /\ <<>> \in Seq(Records)
  BY <1>1, ContentsType
<1>3. \A q \in Seq(Seq(Records)) : Joined(q) \in Seq(Records)
  BY <1>2, FlattenAppend, Zenon
<1> QED
  BY <1>1, <1>2, <1>3, Zenon DEF InFiles

\* A full or current buffer joins those in line.
LEMMA BuffersAppend ==
    ASSUME NEW b, Buffers(b), NEW x \in Seq(Records), Len(x) <= BufferSize
    PROVE  /\ Buffers(Append(b, x)) /\ Append(b, x) # <<>>
           /\ Joined(Append(b, x)) = Joined(b) \o x
<1>1. b \in Seq(Seq(Records)) /\ \A i \in 1..Len(b) : Len(b[i]) <= BufferSize
  BY Zenon DEF Buffers
<1>2. Joined(Append(b, x)) = Joined(b) \o x
  BY <1>1, FlattenAppend, Zenon
<1> DEFINE a == Append(b, x)
<1>3. /\ a \in Seq(Seq(Records)) /\ Len(a) = Len(b) + 1 /\ a[Len(b) + 1] = x
      /\ \A i \in 1..Len(b) : a[i] = b[i]
  BY <1>1
<1> HIDE DEF a
<1>4. Buffers(a) /\ a # <<>>
  <2>1. Len(b) \in Nat
    BY <1>1
  <2>2. ASSUME NEW i \in 1..Len(a) PROVE Len(a[i]) <= BufferSize
    <3>1. i \in 1..Len(b) \/ i = Len(b) + 1
      BY <1>3, <2>1
    <3> QED
      BY <1>1, <1>3, <3>1, Zenon
  <2>3. a # <<>>
    BY <1>3, <2>1
  <2> QED
    BY <1>3, <2>2, <2>3, Zenon DEF Buffers
<1> QED
  BY <1>2, <1>4, Zenon DEF a

\* Most steps move no record.
LEMMA StillFlow ==
    ASSUME FileInv, RoundInv', appends' \in [Appenders -> Nat],
           UNCHANGED <<accepted, cur_buffer, buffers, buffersToWrite, log, now>>,
           bpc' = "write" <=> bpc = "write"
    PROVE  FileInv'
<1>1. RecordsConserved'
  BY Flow, Zenon DEF FileInv
<1>2. Buffers(buffers) /\ Buffers(buffersToWrite) /\ Kept(log) /\ NotFull(log)
  BY Zenon DEF FileInv
<1>3. Buffers(buffers') /\ Buffers(buffersToWrite') /\ Kept(log') /\ NotFull(log')
  BY <1>2, Zenon
<1> QED
  BY <1>1, <1>3, Zenon DEF FileInv, Kept, NotFull, Buffers

\* append puts the record behind everything append took before.
LEMMA AppendFlow ==
    ASSUME FileInv, RoundInv', NEW t \in Appenders, AppendFits(t) \/ AppendFull(t),
           UNCHANGED logVars
    PROVE  FileInv'
<1> DEFINE r == <<t, appends[t]>>
           u == InFiles(log) \o Joined(buffersToWrite)
           v == Joined(buffers)
<1>1. /\ accepted' = Append(accepted, r) /\ bpc' = Awake(bpc, "lock")
      /\ UNCHANGED <<appends, buffersToWrite, log, now>>
  BY Zenon DEF AppendFits, AppendFull, AppendRelease, mine, logVars
<1>2. r \in Records /\ BufferSize \in Nat \ {0}
  BY LoggerAssumption, Zenon DEF FileInv, Records
<1>3. bpc' = "write" <=> bpc = "write"
  BY <1>1, Zenon DEF Awake
<1> HIDE DEF r
<1>4. /\ u \in Seq(Records) /\ v \in Seq(Records) /\ cur_buffer \in Seq(Records)
      /\ accepted \in Seq(Records)
  BY <1>2, FlowTypes, Extend, Zenon
<1>5. u \o v \o cur_buffer = accepted
  BY Flow, Zenon DEF FileInv
<1>6. accepted' \in Seq(Records)
  BY <1>1, <1>2, <1>4, Extend, Zenon
<1>7. Buffers(buffers) /\ Len(cur_buffer) <= BufferSize
  BY Zenon DEF FileInv
<1>8. CASE AppendFits(t)
  <2>1. cur_buffer' = Append(cur_buffer, r) /\ Len(cur_buffer) < BufferSize /\ buffers' = buffers
    BY <1>8, Zenon DEF AppendFits, r
  <2>2. cur_buffer' \in Seq(Records) /\ Len(cur_buffer') <= BufferSize
    BY <1>2, <1>4, <2>1
  <2> HIDE DEF u, v
  <2>3. u \o v \o cur_buffer' = accepted'
    <3>1. u \o v \in Seq(Records)
      BY <1>2, <1>4, Extend, Zenon
    <3> DEFINE w == u \o v
    <3> HIDE DEF w
    <3>2. w \o Append(cur_buffer, r) = Append(w \o cur_buffer, r)
      <4>1. w \in Seq(Records)
        BY <3>1, Zenon DEF w
      <4> QED
        BY <1>2, <1>4, <4>1, Extend
    <3> QED
      BY <1>1, <1>5, <2>1, <3>2, Zenon DEF w
  <2>4. RecordsConserved'
    BY <1>1, <2>1, <2>3, Flow, Zenon DEF u, v
  <2> QED
    BY <1>1, <1>3, <1>6, <2>1, <2>2, <2>4, Zenon DEF FileInv, Kept, NotFull, Buffers
<1>9. CASE AppendFull(t)
  <2>1. cur_buffer' = <<r>> /\ buffers' = Append(buffers, cur_buffer)
    BY <1>9, Zenon DEF AppendFull, r
  <2>2. cur_buffer' \in Seq(Records) /\ Len(cur_buffer') <= BufferSize
    BY <1>2, <2>1
  <2>3. Buffers(buffers') /\ Joined(buffers') = v \o cur_buffer
    BY <1>4, <1>7, <2>1, BuffersAppend, Zenon
  <2> HIDE DEF u, v
  <2>4. u \o (v \o cur_buffer) = accepted
    <3>1. (u \o v) \o cur_buffer = u \o (v \o cur_buffer)
      BY <1>4, Regroup, ZenonT(30)
    <3> QED
      BY <1>5, <3>1, Zenon
  <2>5. u \o (v \o cur_buffer) \o <<r>> = accepted'
    <3>1. accepted \o <<r>> = Append(accepted, r)
      BY <1>2, <1>4
    <3> QED
      BY <1>1, <2>4, <3>1, Zenon
  <2>6. RecordsConserved'
    BY <1>1, <2>1, <2>3, <2>5, Flow, Zenon DEF u
  <2> QED
    BY <1>1, <1>3, <1>6, <2>2, <2>3, <2>6, Zenon DEF FileInv, Kept, NotFull, Buffers
<1> QED
  BY <1>8, <1>9, Zenon

\* The swap moves the full buffers and the current one over to be written.
LEMMA SwapFlow ==
    ASSUME FileInv, RoundInv', BackendSwap, UNCHANGED logVars
    PROVE  FileInv'
<1> DEFINE a == InFiles(log)
           v == Joined(buffers)
<1>1. /\ bpc = "swap" /\ bpc' = "write" /\ buffersToWrite' = Append(buffers, cur_buffer)
      /\ buffers' = <<>> /\ cur_buffer' = newBuffer1
      /\ UNCHANGED <<appends, accepted, log, now>>
  BY Zenon DEF BackendSwap, logVars, ghosts
<1>2. newBuffer1 = <<>> /\ buffersToWrite = <<>>
  BY <1>1, Zenon DEF FileInv, RoundInv
<1>3. a \in Seq(Records) /\ v \in Seq(Records) /\ cur_buffer \in Seq(Records)
  BY FlowTypes, Zenon
<1>4. Buffers(buffers) /\ Len(cur_buffer) <= BufferSize
  BY Zenon DEF FileInv
<1>5. /\ Buffers(buffersToWrite') /\ buffersToWrite' # <<>>
      /\ Joined(buffersToWrite') = v \o cur_buffer
  BY <1>1, <1>3, <1>4, BuffersAppend, Zenon
<1>6. Joined(<<>>) = <<>>
  BY Zenon DEF Joined
<1>7. /\ Buffers(<<>>) /\ <<>> \in Seq(Records) /\ Len(<<>>) <= BufferSize
  BY LoggerAssumption DEF Buffers
<1>8. a \o <<>> \o v \o cur_buffer = accepted
  BY <1>2, <1>6, Flow, Zenon DEF FileInv
<1> HIDE DEF a, v
<1>9. a \o <<>> = a /\ v \o cur_buffer \in Seq(Records) /\ a \o (v \o cur_buffer) \in Seq(Records)
      /\ a \o (v \o cur_buffer) \o <<>> = a \o (v \o cur_buffer)
  BY <1>3
<1>10. (a \o v) \o cur_buffer = a \o (v \o cur_buffer)
  BY <1>3, Regroup, Zenon
<1>11. a \o (v \o cur_buffer) \o <<>> \o <<>> = accepted
  BY <1>8, <1>9, <1>10, Zenon
<1>12. RecordsConserved'
  BY <1>1, <1>2, <1>5, <1>6, <1>11, Flow, ZenonT(30) DEF a
<1> QED
  BY <1>1, <1>2, <1>5, <1>7, <1>12, Zenon DEF FileInv, Kept, NotFull, Buffers

\* The round moves the buffers being written into the files.
LEMMA WriteFlow ==
    ASSUME FileInv, RoundInv', BackendWrite, WriteFiles
    PROVE  FileInv'
<1> DEFINE b == buffersToWrite
           a == InFiles(log)
           u == Joined(b)
           v == Joined(buffers)
<1>1. /\ bpc = "write" /\ bpc' = "while" /\ buffersToWrite' = <<>>
      /\ UNCHANGED <<appends, accepted, buffers, cur_buffer>>
  BY Zenon DEF BackendWrite, shared, ghosts
<1>2. /\ b \in Seq(Seq(Records)) /\ Len(b) > 0 /\ Len(b) \in Nat
      /\ \A i \in 1..Len(b) : Len(b[i]) <= BufferSize
  BY <1>1 DEF FileInv, Buffers
<1>3. PICK c \in Clocks(Len(b)) :
          LET appended[i \in 0..Len(b)] == IF i = 0 THEN log ELSE append(appended[i - 1], b[i], c[i])
          IN  log' = appended[Len(b)] /\ now' = c[Len(b)]
  BY Zenon DEF WriteFiles
<1>4. /\ c \in [1..Len(b) -> Nat] /\ \A i \in 1..Len(b) : now <= c[i]
      /\ \A i \in 1..(Len(b) - 1) : c[i] <= c[i + 1]
  BY <1>3, FileAssumption, Zenon DEF Clocks, FileInv
<1>5. Kept(log) /\ NotFull(log) /\ log.name \in Nat /\ log.name <= now /\ now \in Nat
  BY Zenon DEF FileInv, Kept
<1>6. \A i \in 1..Len(b) : Len(b[i]) <= BufferSize /\ log.name <= c[i]
  <2> SUFFICES ASSUME NEW i \in 1..Len(b) PROVE log.name <= c[i]
    BY <1>2, Zenon
  <2>1. c[i] \in Nat /\ now <= c[i]
    BY <1>4, Zenon
  <2> QED
    BY <1>5, <2>1
<1>7. /\ Kept(log') /\ NotFull(log') /\ InFiles(log') = a \o u
      /\ log'.name <= now' /\ now' \in Nat
  <2> HIDE DEF b
  <2>1. LET f[i \in 0..Len(b)] == IF i = 0 THEN log ELSE append(f[i - 1], b[i], c[i])
            x == f[Len(b)]
        IN  /\ Kept(x) /\ NotFull(x) /\ InFiles(x) = InFiles(log) \o Joined(b)
            /\ Len(b) > 0 => x.name <= c[Len(b)]
    BY <1>2, <1>4, <1>5, <1>6, RoundKeeps, Zenon
  <2>2. /\ Kept(log') /\ NotFull(log') /\ InFiles(log') = a \o u
        /\ Len(b) > 0 => log'.name <= now'
    BY <1>3, <2>1, Zenon
  <2>3. now' \in Nat
    <3>1. now' = c[Len(b)]
      BY <1>3, Zenon
    <3>2. Len(b) \in 1..Len(b)
      BY <1>2
    <3> QED
      BY <1>4, <3>1, <3>2, Zenon
  <2> QED
    BY <1>2, <2>2, <2>3, Zenon
<1>8. /\ a \in Seq(Records) /\ u \in Seq(Records) /\ v \in Seq(Records)
      /\ cur_buffer \in Seq(Records) /\ accepted \in Seq(Records)
  BY FlowTypes, Zenon
<1>9. a \o u \o v \o cur_buffer = accepted
  <2>1. RecordsConserved
    BY Zenon DEF FileInv
  <2> QED
    BY <2>1, Flow, Zenon
<1> HIDE DEF a, u, v
<1>10. (a \o u) \o <<>> = a \o u
  BY <1>8
<1>11. Joined(<<>>) = <<>> /\ Buffers(<<>>)
  BY DEF Joined, Buffers
<1>12. InFiles(log') \o Joined(buffersToWrite') \o Joined(buffers') \o cur_buffer' = accepted'
  BY <1>1, <1>7, <1>9, <1>10, <1>11, ZenonT(30) DEF v
<1>13. RecordsConserved'
  BY <1>12, Flow, Zenon
<1> QED
  BY <1>1, <1>7, <1>11, <1>13, Zenon DEF FileInv, Kept, NotFull, Buffers

\* FileInv is inductive.
LEMMA FileStep ==
    ASSUME FileInv, [FNext]_fvars
    PROVE  FileInv'
<1>1. RoundInv'
  <2>1. RoundInv /\ [Next]_vars
    BY Zenon DEF FileInv, FNext, fvars
  <2> QED
    BY <2>1, RoundStep, Zenon
<1>2. CASE UNCHANGED fvars
  BY <1>1, <1>2, StillFlow, Zenon DEF fvars, logVars, vars, shared, mine, ghosts, FileInv
<1>3. ASSUME Next, Logged, NEW t \in Appenders, Append_(t) \/ AppendStep(t) PROVE FileInv'
  <2>1. bpc' \in {bpc, Awake(bpc, "lock")}
    BY <1>3, Zenon
    DEF AppendStep, Append_, AppendRefused, AppendSleeps, AppendLocks, AppendFits, AppendFull,
                AppendRelease
  <2>2. (bpc' = "write" <=> bpc = "write") /\ UNCHANGED logVars
    BY <1>3, <2>1, Zenon DEF Awake, Logged
  <2>3. CASE AppendFits(t) \/ AppendFull(t)
    BY <1>1, <2>2, <2>3, AppendFlow, Zenon
  <2>4. CASE Append_(t) \/ AppendRefused(t) \/ AppendSleeps(t) \/ AppendLocks(t)
    <3>1. UNCHANGED <<accepted, cur_buffer, buffers, buffersToWrite>>
      BY <2>4, Zenon DEF Append_, AppendRefused, AppendSleeps, AppendLocks, shared, mine, ghosts
    <3>2. appends' \in [Appenders -> Nat]
      <4>1. appends \in [Appenders -> Nat]
        BY Zenon DEF FileInv
      <4>2. appends' = appends \/ appends' = [appends EXCEPT ![t] = @ + 1]
        BY <2>4, Zenon DEF Append_, AppendRefused, AppendSleeps, AppendLocks, ghosts
      <4> QED
        BY <4>1, <4>2
    <3> QED
      BY <1>1, <2>2, <3>1, <3>2, StillFlow, Zenon DEF logVars
  <2> QED
    BY <1>3, <2>3, <2>4, Zenon DEF AppendStep
<1>4. ASSUME Logged, Stop \/ StopStep PROVE FileInv'
  <2>1. /\ bpc' \in {bpc, Awake(bpc, "lock")}
        /\ UNCHANGED <<appends, accepted, cur_buffer, buffers, buffersToWrite>>
    BY <1>4, Zenon
    DEF Stop, StopStep, StopReturns_, StopSleeps, StopTakes, StopJoins, shared, mine, ghosts
  <2>2. (bpc' = "write" <=> bpc = "write") /\ UNCHANGED logVars
    BY <1>4, <2>1, Zenon DEF Awake, Logged
  <2> QED
    BY <1>1, <2>1, <2>2, StillFlow, Zenon DEF logVars, FileInv
<1>5. ASSUME Logged, BackendStep PROVE FileInv'
  <2>1. CASE BackendSwap
    <3>1. UNCHANGED logVars
      BY <1>5, <2>1, Zenon DEF BackendSwap, Logged
    <3> QED
      BY <1>1, <2>1, <3>1, SwapFlow, Zenon
  <2>2. CASE BackendWrite
    <3>1. WriteFiles
      BY <1>5, <2>2, Zenon DEF BackendWrite, Logged
    <3> QED
      BY <1>1, <2>2, <3>1, WriteFlow, Zenon
  <2>3. CASE BackendWhile \/ BackendReturns \/ BackendSleeps \/ BackendLocksFull \/ BackendLocks
             \/ BackendLeaves
    <3>1. /\ bpc # "write" /\ bpc' # "write"
          /\ UNCHANGED <<appends, accepted, cur_buffer, buffers, buffersToWrite>>
      BY <2>3, Zenon DEF BackendWhile, BackendReturns, BackendSleeps, BackendLocksFull, BackendLocks,
                  BackendLeaves, shared, mine, ghosts
    <3>2. UNCHANGED logVars
      BY <1>5, <3>1, Zenon DEF Logged
    <3> QED
      BY <1>1, <3>1, <3>2, StillFlow, Zenon DEF logVars, FileInv
  <2> QED
    BY <1>5, <2>1, <2>2, <2>3, Zenon DEF BackendStep
<1>6. ASSUME Logged, Over PROVE FileInv'
  <2>1. UNCHANGED <<bpc, appends, accepted, cur_buffer, buffers, buffersToWrite>>
    BY <1>6, Zenon DEF Over, vars, shared, mine, ghosts
  <2>2. UNCHANGED logVars
    BY <1>6, <2>1, Zenon DEF Logged
  <2> QED
    BY <1>1, <2>1, <2>2, StillFlow, Zenon DEF logVars, FileInv
<1> QED
  BY <1>2, <1>3, <1>4, <1>5, <1>6, Zenon DEF FNext, Next

\* The LogFile's constructor rolls to the first file.
LEMMA FirstFile ==
    ASSUME FInit
    PROVE  FileInv
<1> DEFINE l == [startOfPeriod |-> 0, count |-> 0, name |-> 0, writtenBytes |-> 0,
                 again |-> {}, files |-> << >>]
           q == << >>
<1>1. now \in Nat /\ now > RollPerSeconds /\ RollPerSeconds \in Nat /\ RollPerSeconds > 1 /\ now > 0
  BY FileAssumption DEF FInit
<1>2. /\ now - (now % RollPerSeconds) \in Int /\ now - (now % RollPerSeconds) <= now
  <2>1. now % RollPerSeconds \in 0..(RollPerSeconds - 1)
    BY <1>1
  <2> QED
    BY <1>1, <2>1
<1>3. /\ DOMAIN l = LogFields /\ l.startOfPeriod = 0 /\ l.name = 0 /\ l.again = {}
      /\ DOMAIN l.files = {} /\ log = roll(l, now)
  BY DEF FInit, LogFields
<1> HIDE DEF l
<1>4. /\ DOMAIN log = LogFields /\ log.name = now /\ log.writtenBytes = 0
      /\ log.startOfPeriod = now - (now % RollPerSeconds)
      /\ log.again = {} /\ log.files = opened(l.files, now)
  BY <1>1, <1>3 DEF roll, LogFields
<1>5. DOMAIN log.files = {now} /\ log.files[now] = <<>>
  BY <1>3, <1>4, Zenon DEF opened
<1>6. <<>> \in Seq(Records) /\ Len(<<>>) = 0 /\ Buffers(<<>>) /\ Joined(<<>>) = <<>>
      /\ RollSize \in Nat \ {0} /\ BufferSize \in Nat \ {0}
  BY LoggerAssumption, FileAssumption DEF Buffers, Joined
<1>7. Kept(log) /\ NotFull(log) /\ log.name <= now
  <2>1. log.startOfPeriod \in Int /\ log.startOfPeriod <= log.name
    BY <1>2, <1>4, Zenon
  <2>2. log.name \in Nat \ {0} /\ log.writtenBytes \in Nat /\ log.name \in DOMAIN log.files
    BY <1>1, <1>4, <1>5
  <2>3. \A s \in DOMAIN log.files : s \in 1..log.name /\ log.files[s] = <<>>
    BY <1>1, <1>4, <1>5
  <2>4. 0 < RollSize + BufferSize /\ 0 < RollSize
    BY <1>6
  <2>5. \A s \in DOMAIN log.files : log.files[s] \in Seq(Records) /\ Len(log.files[s]) = 0
    BY <1>6, <2>3, ZenonT(30)
  <2>6. log.writtenBytes = Len(log.files[log.name]) /\ log.writtenBytes = 0
    BY <1>4, <2>2, <2>5, Zenon
  <2>7. Kept(log)
    BY <1>4, <2>1, <2>2, <2>3, <2>4, <2>5, <2>6, Zenon DEF Kept
  <2> QED
    BY <1>1, <1>4, <2>4, <2>6, <2>7 DEF NotFull
<1>8. InFiles(log) = <<>>
  <2>1. q \in Seq(Seq(Records)) /\ Len(q) <= now
    BY <1>1
  <2>2. Contents(log) = [i \in 1..now |-> IF i <= Len(q) THEN q[i] ELSE <<>>]
    BY <1>1, <1>4, <1>5 DEF Contents
  <2>3. Joined([i \in 1..now |-> IF i <= Len(q) THEN q[i] ELSE <<>>]) = Joined(q)
    BY <1>1, <2>1, FlattenPad, Zenon
  <2> QED
    BY <1>6, <2>2, <2>3, Zenon DEF InFiles
<1>9. /\ cur_buffer = <<>> /\ buffers = <<>> /\ buffersToWrite = <<>> /\ accepted = <<>>
      /\ bpc = "while" /\ appends \in [Appenders -> Nat] /\ RoundInv
  BY Zenon DEF FInit, Init, RoundInv
<1>10. <<>> \o <<>> = <<>>
  OBVIOUS
<1>11. RecordsConserved
  BY <1>6, <1>8, <1>9, <1>10, Flow, Zenon
<1> QED
  BY <1>1, <1>6, <1>7, <1>9, <1>11, SMTT(30) DEF FileInv

-----------------------------------------------------------------------------

\* The files are kept as append_impl leaves them in every state.
THEOREM FilesKept == FSpec => []FileInv
<1>1. FInit => FileInv
  BY FirstFile, Zenon
<1>2. FileInv /\ [FNext]_fvars => FileInv'
  BY FileStep
<1> QED
  BY <1>1, <1>2, PTL DEF FSpec

\* No record is lost, doubled or moved past another on its way from append through
\* the buffers (AsyncLogger.cpp) into the files (LogFile.cpp).
THEOREM RecordsAlwaysConserved == FSpec => []RecordsConserved
<1>1. FileInv => RecordsConserved
  BY Zenon DEF FileInv
<1> QED
  BY <1>1, FilesKept, PTL

\* A file that is left at its second exceeds rollSize by less than a buffer.
THEOREM FilesAlwaysBounded == FSpec => []FileBounded
<1>1. FileInv => FileBounded
  BY Zenon DEF FileInv, Kept, FileBounded
<1> QED
  BY <1>1, FilesKept, PTL
=============================================================================
