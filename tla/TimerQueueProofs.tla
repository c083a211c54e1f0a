-------------------------- MODULE TimerQueueProofs --------------------------
(***************************************************************************)
(* Theorems about the timer queue, for any finite set of timers, any       *)
(* periods and delays and any length of time, whatever the callbacks add   *)
(* and cancel: a timer that handle_timers runs is due and, unless it was   *)
(* cancelled in the walk in which it ran last, wanted; a wanted timer is   *)
(* found in activeTimers under its trigger time unless insert found that   *)
(* time taken or a timer that cancelled itself left its bucket to be       *)
(* erased; and while all timers repeat and none is cancelled, none is late *)
(* by more than the longest period.                                        *)
(***************************************************************************)
EXTENDS TimerQueue, FiniteSetTheorems, WellFoundedInduction, TLAPS

\* handle_timers is at work, and it is at work on a bucket.
Walking == pc \in {"scan", "run", "callback", "reset"}
Running == pc \in {"run", "callback"}
\* The bucket it is at work on is still in the map.
OnBucket == Running /\ ~undercut
\* The timers that a cancel has not taken away.
Live == wanted \cup outlived

\* The types of the variables; a bucket of activeTimers is never empty.
Types ==
    /\ now \in Nat /\ alarm \in Nat /\ start \in Nat
    /\ trigger \in [Timers -> Nat]
    /\ DOMAIN active \subseteq Nat
    /\ \A w \in DOMAIN active : active[w] \subseteq Timers /\ active[w] # {}
    /\ expired \in BOOLEAN
    /\ pc \in {"poll", "events", "scan", "run", "callback", "reset", "undefined"}
    /\ batch \subseteq Timers /\ triggered \in Seq(Timers)
    /\ added \subseteq Timers /\ wanted \subseteq added
    /\ cancelled \subseteq added /\ cancelled \cap wanted = {}
    /\ undercut \in BOOLEAN
    /\ undercut \/ victims # {} => cancelled # {}
    /\ undercut => pc \in {"run", "callback", "undefined"}

\* A timer in the map stands alone under its trigger time; no cancel has taken it away,
\* and it is wanted unless it is the timer of the bucket being run and has been run.
Filed ==
    \A w \in DOMAIN active : \A t \in active[w] :
        /\ trigger[t] = w /\ t \in added /\ \A u \in active[w] : u = t
        /\ t \in Live \/ (OnBucket /\ w = First(active) /\ t \notin batch)

\* What handle_timers knows as it goes: time stands still, the first bucket is due and
\* the wanted timers of it are still to run, a bucket has only one timer to run, reset
\* finds later buckets only, and what it adds again was due and repeats.
Walk ==
    /\ Walking => start = now
    /\ OnBucket =>
        /\ DOMAIN active # {} /\ First(active) <= start
        /\ batch \subseteq active[First(active)] /\ batch \subseteq Live
        /\ active[First(active)] \cap wanted \subseteq batch
    /\ pc = "callback" \/ (Running /\ undercut) => batch = {}
    /\ pc = "reset" => \A w \in DOMAIN active : w > start
    /\ Walking => \A i \in DOMAIN triggered :
                     /\ trigger[triggered[i]] <= start
                     /\ Period[triggered[i]] > 0
                     /\ triggered[i] \in added
                     /\ triggered[i] \in outlived \/ triggered[i] \notin cancelled

\* Every timer added repeats and none is cancelled.
AllRepeat == (\A u \in added : Period[u] > 0) /\ cancelled = {}
\* The longest period, and whether a timer waits and is not later than that.
Longest == Max({Period[u] : u \in Timers})
Waiting == DOMAIN active # {}
OnTime == now <= First(active) + Longest

\* Where the timerfd stands then.  While it is armed the alarm is no earlier than the
\* first timer, and no later than a period after it; once it has expired a timer is
\* due; and handle_timers runs at least one timer, so that reset arms it again.
Punctual ==
    /\ pc # "undefined"
    /\ (pc = "poll" /\ ~expired /\ alarm # Never) => (Waiting /\ First(active) <= alarm)
    /\ (pc = "poll" /\ ~expired /\ Waiting) => (now < alarm /\ alarm <= First(active) + Longest)
    /\ ((pc = "poll" /\ expired) \/ pc = "events") => (Waiting /\ First(active) <= now /\ OnTime)
    /\ pc = "scan" => (Waiting /\ OnTime /\ (triggered = <<>> => First(active) <= start))
    /\ Running => OnTime
    /\ (pc = "callback" \/ (pc = "run" /\ batch = {}) \/ pc = "reset") => triggered # <<>>

\* The inductive invariant.
TimerInv == Types /\ Filed /\ NoTimerForgotten /\ Walk /\ (AllRepeat => Punctual)

-----------------------------------------------------------------------------
(* Least and greatest elements *)

\* A set of naturals has a least element, by well-founded induction on <.
LEMMA NatMin ==
    ASSUME NEW S, S \subseteq Nat, S # {}
    PROVE  Min(S) \in S /\ \A y \in S : Min(S) <= y
<1> DEFINE R == OpToRel(<, Nat)
<1>1. IsWellFoundedOn(R, Nat)
  BY NatLessThanWellFounded, Zenon
<1>2. \A x, y \in Nat : y < x => <<y, x>> \in R
  BY Zenon DEF OpToRel
<1> HIDE DEF R
<1>3. \E x \in S : \A y \in S : ~(<<y, x>> \in R)
  BY <1>1, WFMin, Zenon
<1>4. PICK x \in S : \A y \in S : ~(<<y, x>> \in R)
  BY <1>3, Zenon
<1>5. ASSUME NEW y \in S PROVE x <= y
  <2>1. x \in Nat /\ y \in Nat /\ ~(y < x)
    BY <1>2, <1>4, Zenon
  <2> QED
    BY <2>1
<1> QED
  BY <1>5, Zenon DEF Min

\* begin() of a map that is not empty is its least trigger time,
LEMMA FirstIsLeast ==
    ASSUME NEW m, DOMAIN m \subseteq Nat, DOMAIN m # {}
    PROVE  First(m) \in DOMAIN m /\ \A w \in DOMAIN m : First(m) <= w
BY NatMin, Zenon DEF First

\* and no other trigger time is.
LEMMA FirstIsOnly ==
    ASSUME NEW m, DOMAIN m \subseteq Nat, NEW w \in DOMAIN m, \A x \in DOMAIN m : w <= x
    PROVE  First(m) = w
<1>1. First(m) \in DOMAIN m /\ First(m) <= w
  BY FirstIsLeast, Zenon
<1> QED
  BY <1>1

\* Finitely many naturals have a bound: otherwise take the shortest prefix without one.
LEMMA SequenceBounded ==
    ASSUME NEW n \in Nat, NEW f \in [1..n -> Nat]
    PROVE  \E b \in Nat : \A i \in 1..n : f[i] <= b
<1> DEFINE Bounded(k) == \E b \in Nat : \A i \in 1..k : f[i] <= b
           S == {k \in 0..n : ~Bounded(k)}
<1>1. Bounded(0)
  OBVIOUS
<1>2. ASSUME NEW k \in 0..n, k # 0, Bounded(k - 1) PROVE Bounded(k)
  <2>1. PICK b \in Nat : \A i \in 1..(k - 1) : f[i] <= b
    BY <1>2, Zenon
  <2>2. f[k] \in Nat /\ \A i \in 1..k : i = k \/ i \in 1..(k - 1)
    BY <1>2
  <2>3. CASE b <= f[k]
    <3>1. \A i \in 1..k : f[i] \in Nat
      BY <1>2
    <3>2. \A i \in 1..k : f[i] <= f[k]
      BY <2>1, <2>2, <2>3, <3>1
    <3> QED
      BY <2>2, <3>2, Zenon
  <2>4. CASE ~(b <= f[k])
    <3>1. \A i \in 1..k : f[i] <= b
      BY <2>1, <2>2, <2>4
    <3> QED
      BY <3>1, Zenon
  <2> QED
    BY <2>3, <2>4, Zenon
<1>3. S = {}
  <2> SUFFICES ASSUME S # {} PROVE FALSE
    BY Zenon
  <2> HIDE DEF Bounded
  <2>1. S \subseteq Nat
    OBVIOUS
  <2>2. Min(S) \in S /\ \A y \in S : Min(S) <= y
    BY <2>1, NatMin, Zenon
  <2> DEFINE k == Min(S)
  <2> HIDE DEF k
  <2>3. k \in S /\ \A y \in S : k <= y
    BY <2>2, Zenon DEF k
  <2>4. k \in 0..n /\ ~Bounded(k)
    BY <2>3, Zenon
  <2>5. k # 0
    BY <1>1, <2>4, Zenon
  <2>6. k - 1 \in 0..n /\ k - 1 \notin S
    BY <2>3, <2>4, <2>5
  <2>7. Bounded(k - 1)
    BY <2>6, Zenon
  <2> QED
    BY <1>2, <2>4, <2>5, <2>7, Zenon
<1>4. n \in 0..n
  OBVIOUS
<1>5. Bounded(n)
  <2> HIDE DEF Bounded
  <2> QED
    BY <1>3, <1>4, Zenon
<1> QED
  BY <1>5, Zenon

\* A set of naturals with a bound has a greatest element, its least bound.
LEMMA NatMax ==
    ASSUME NEW S, S \subseteq Nat, S # {}, NEW c \in Nat, \A y \in S : y <= c
    PROVE  Max(S) \in S /\ \A y \in S : y <= Max(S)
<1> DEFINE T == {b \in Nat : \A y \in S : y <= b}
<1>5. c \in T
  OBVIOUS
<1>6. Min(T) \in T /\ \A b \in T : Min(T) <= b
  BY <1>5, NatMin, Zenon
<1> DEFINE b == Min(T)
<1> HIDE DEF b
<1>7. b \in Nat /\ \A y \in S : y <= b
  BY <1>6, Zenon DEF b
<1>8. b \in S
  <2> SUFFICES ASSUME b \notin S PROVE FALSE
    OBVIOUS
  <2>1. PICK y \in S : TRUE
    BY Zenon
  <2>2. b # 0
    BY <1>7, <2>1
  <2>3. b - 1 \in Nat /\ \A z \in S : z <= b - 1
    BY <1>7, <2>2
  <2>4. b - 1 \in T
    BY <2>3, Zenon
  <2>5. b <= b - 1
    BY <1>6, <2>4, Zenon DEF b
  <2> QED
    BY <1>7, <2>5
<1> QED
  BY <1>7, <1>8, Zenon DEF Max

\* Max finds the longest period: there are finitely many timers.
LEMMA LongestIs ==
    /\ Timers # {} => Longest \in Nat
    /\ \A t \in Timers : Period[t] \in Nat /\ Longest \in Nat /\ Period[t] <= Longest
<1> SUFFICES ASSUME Timers # {}
             PROVE  Longest \in Nat /\ \A t \in Timers : Period[t] \in Nat /\ Period[t] <= Longest
  BY TimerAssumption, Zenon
<1> DEFINE S == {Period[u] : u \in Timers}
<1>1. S \subseteq Nat /\ S # {}
  BY TimerAssumption, Zenon
<1>2. PICK n \in Nat : ExistsBijection(1..n, Timers)
  BY TimerAssumption, FS_NatBijection, Zenon
<1>3. PICK f \in [1..n -> Timers] : \A t \in Timers : \E i \in 1..n : f[i] = t
  BY <1>2, Zenon DEF ExistsBijection, Bijection, Surjection
<1> DEFINE g == [i \in 1..n |-> Period[f[i]]]
<1>4. g \in [1..n -> Nat]
  BY <1>3, TimerAssumption, Zenon
<1>5. PICK c \in Nat : \A i \in 1..n : g[i] <= c
  BY <1>4, SequenceBounded, Zenon
<1>6. \A y \in S : y <= c
  BY <1>3, <1>5, ZenonT(30)
<1>7. Max(S) \in S /\ \A y \in S : y <= Max(S)
  BY <1>1, <1>6, NatMax, Zenon
<1> QED
  BY <1>1, <1>7, Zenon DEF Longest

-----------------------------------------------------------------------------
(* Each action keeps the invariant. *)

\* The invariant holds at first.
LEMMA InitTimers == Init => TimerInv
<1> SUFFICES ASSUME Init PROVE TimerInv
  OBVIOUS
<1>1. DOMAIN active = {}
  BY Zenon DEF Init
<1>2. /\ now \in Nat /\ alarm \in Nat /\ start \in Nat
      /\ trigger \in [Timers -> Nat] /\ triggered \in Seq(Timers)
  BY TimerAssumption DEF Init, Never
<1>0. Types
  BY <1>1, <1>2, Zenon DEF Init, Types
<1>3. Filed /\ NoTimerForgotten /\ Walk
  BY <1>1, Zenon DEF Init, Filed, NoTimerForgotten, Walk, Walking, Running, OnBucket
<1>4. Punctual
  BY <1>1, Zenon DEF Init, Punctual, Waiting, Running
<1> QED
  BY <1>0, <1>3, <1>4, Zenon DEF TimerInv

\* insert puts a timer under a free time and leaves every other bucket alone; the first
\* bucket changes only when insert says so.
LEMMA InsertIs ==
    ASSUME Types, NEW t \in Timers, NEW w \in Nat
    PROVE  LET m == Insert(active, t, w)
           IN  /\ DOMAIN m = DOMAIN active \cup {w}
               /\ \A x \in DOMAIN active : m[x] = active[x]
               /\ w \notin DOMAIN active => m[w] = {t}
               /\ BecomesFirst(active, w) => First(m) = w
               /\ ~BecomesFirst(active, w) => DOMAIN active # {} /\ First(m) = First(active)
<1> DEFINE m == Insert(active, t, w)
<1>1. /\ DOMAIN m = DOMAIN active \cup {w}
      /\ \A x \in DOMAIN active : m[x] = active[x]
      /\ w \notin DOMAIN active => m[w] = {t}
  BY Zenon DEF Insert
<1>2. DOMAIN m \subseteq Nat /\ DOMAIN active \subseteq Nat
  BY <1>1, Zenon DEF Types
<1> HIDE DEF m
<1>3. ASSUME BecomesFirst(active, w) PROVE First(m) = w
  <2>1. \A x \in DOMAIN m : w <= x
    BY <1>1, <1>2, <1>3 DEF BecomesFirst
  <2> QED
    BY <1>1, <1>2, <2>1, FirstIsOnly, Zenon
<1>4. ASSUME ~BecomesFirst(active, w) PROVE DOMAIN active # {} /\ First(m) = First(active)
  <2>1. DOMAIN active # {}
    BY <1>4, Zenon DEF BecomesFirst
  <2>2. First(active) \in DOMAIN active /\ \A x \in DOMAIN active : First(active) <= x
    BY <1>2, <2>1, FirstIsLeast, Zenon
  <2>3. First(active) <= w
    BY <1>2, <1>4, <2>2 DEF BecomesFirst
  <2>4. First(active) \in DOMAIN m /\ \A x \in DOMAIN m : First(active) <= x
    BY <1>1, <2>2, <2>3, Zenon
  <2> QED
    BY <1>2, <2>1, <2>4, FirstIsOnly, Zenon
<1> QED
  BY <1>1, <1>3, <1>4, Zenon DEF m

\* addTimer (lines 49-91), called from any callback, even of the bucket being run.
LEMMA AddTimerKeeps ==
    ASSUME TimerInv, NEW t \in Timers, NEW d \in Delays, AddTimer(t, d)
    PROVE  TimerInv'
<1> DEFINE w == now + d
<1>1. w \in Nat /\ now <= w /\ Types
  BY TimerAssumption DEF TimerInv, Types
<1> HIDE DEF w
<1>2. /\ InCallback /\ t \notin added
      /\ trigger' = [trigger EXCEPT ![t] = w]
      /\ active' = Insert(active, t, w)
      /\ BecomesFirst(active, w) => alarm' = AlarmFor(w) /\ expired' = FALSE
      /\ ~BecomesFirst(active, w) => alarm' = alarm /\ expired' = expired
      /\ added' = added \cup {t} /\ wanted' = wanted \cup {t}
      /\ collided' = IF w \in DOMAIN active THEN collided \cup {t} ELSE collided
      /\ now' = now /\ pc' = pc /\ start' = start /\ batch' = batch /\ triggered' = triggered
      /\ cancelled' = cancelled
      /\ undercut' = undercut /\ victims' = victims /\ outlived' = outlived
  BY Zenon DEF AddTimer, w, walk, slips
<1>3. /\ DOMAIN active' = DOMAIN active \cup {w}
      /\ \A x \in DOMAIN active : active'[x] = active[x]
      /\ w \notin DOMAIN active => active'[w] = {t}
      /\ BecomesFirst(active, w) => First(active') = w
      /\ ~BecomesFirst(active, w) => DOMAIN active # {} /\ First(active') = First(active)
  BY <1>1, <1>2, InsertIs, ZenonT(30)
<1>4. AlarmFor(w) \in Nat /\ AlarmFor(w) > now /\ w <= AlarmFor(w) /\ AlarmFor(w) <= w + 1
  BY <1>1 DEF AlarmFor, Types
<1>5. Types'
  <2>1. \A x \in DOMAIN active' : active'[x] \subseteq Timers /\ active'[x] # {}
    BY <1>1, <1>3, Zenon DEF Types
  <2>2. DOMAIN active' \subseteq Nat
    BY <1>1, <1>3, Zenon DEF Types
  <2>3. trigger' \in [Timers -> Nat] /\ alarm' \in Nat /\ expired' \in BOOLEAN
    BY <1>1, <1>2, <1>4, Zenon DEF Types
  <2> QED
    BY <1>1, <1>2, <2>1, <2>2, <2>3, Zenon DEF Types
<1>6. \A u \in added : trigger'[u] = trigger[u] /\ u # t /\ u \in Timers
  BY <1>1, <1>2, Zenon DEF Types
<1>7. trigger'[t] = w
  BY <1>1, <1>2, Zenon DEF Types
\* A timer in the walk's bucket is due already, so the new one is not in it.
<1>8. OnBucket => First(active') = First(active) /\ First(active) \in DOMAIN active
  <2> SUFFICES ASSUME OnBucket
               PROVE  First(active') = First(active) /\ First(active) \in DOMAIN active
    OBVIOUS
  <2>1. DOMAIN active # {} /\ First(active) <= now /\ DOMAIN active \subseteq Nat /\ now \in Nat
    BY <1>1, Zenon DEF TimerInv, Walk, Types, OnBucket, Running, Walking
  <2>2. First(active) \in DOMAIN active
    BY <2>1, FirstIsLeast, Zenon
  <2>3. ~BecomesFirst(active, w)
    BY <1>1, <2>1, <2>2 DEF BecomesFirst
  <2> QED
    BY <1>3, <2>2, <2>3, Zenon
<1>9. (Running' <=> Running) /\ (OnBucket' <=> OnBucket) /\ Live' = Live \cup {t}
  BY <1>2, Zenon DEF Running, OnBucket, Live
<1>10. Walking' <=> Walking
  BY <1>2, Zenon DEF Walking
<1>11. Filed'
  <2> SUFFICES ASSUME NEW x \in DOMAIN active', NEW u \in active'[x]
               PROVE  /\ trigger'[u] = x /\ u \in added' /\ \A v \in active'[x] : v = u
                      /\ u \in Live' \/ (OnBucket' /\ x = First(active') /\ u \notin batch')
    BY Zenon DEF Filed
  <2>1. CASE x \in DOMAIN active
    <3>1. /\ trigger[u] = x /\ u \in added /\ \A v \in active[x] : v = u
          /\ u \in Live \/ (OnBucket /\ x = First(active) /\ u \notin batch)
      BY <1>3, <2>1, Zenon DEF TimerInv, Filed
    <3> QED
      BY <1>2, <1>3, <1>6, <1>8, <1>9, <2>1, <3>1, Zenon
  <2>2. CASE x \notin DOMAIN active
    <3>1. x = w /\ u = t /\ active'[x] = {t}
      BY <1>3, <2>2, Zenon
    <3> QED
      BY <1>2, <1>7, <1>9, <3>1, Zenon
  <2> QED
    BY <2>1, <2>2, Zenon
<1>12. NoTimerForgotten'
  <2> SUFFICES ASSUME NEW u \in wanted', u \notin collided', u \notin victims'
               PROVE  trigger'[u] \in DOMAIN active' /\ u \in active'[trigger'[u]]
    BY Zenon DEF NoTimerForgotten
  <2>1. CASE u = t
    <3>1. w \notin DOMAIN active
      BY <1>2, <2>1, Zenon
    <3> QED
      BY <1>3, <1>7, <2>1, <3>1, Zenon
  <2>2. CASE u # t
    <3>1. u \in wanted \ (collided \cup victims) /\ u \in added
      BY <1>1, <1>2, <2>2, Zenon DEF Types
    <3>2. trigger[u] \in DOMAIN active /\ u \in active[trigger[u]]
      BY <3>1, Zenon DEF TimerInv, NoTimerForgotten
    <3> QED
      BY <1>3, <1>6, <3>1, <3>2, Zenon
  <2> QED
    BY <2>1, <2>2, Zenon
<1>13. Walk'
  <2>1. Walk /\ pc # "reset" /\ pc' # "reset"
    BY <1>2, Zenon DEF TimerInv, InCallback
  <2>2. ASSUME OnBucket
        PROVE  /\ DOMAIN active' # {} /\ First(active') <= start'
               /\ batch' \subseteq active'[First(active')] /\ batch' \subseteq Live'
               /\ active'[First(active')] \cap wanted' \subseteq batch'
    <3>1. /\ DOMAIN active # {} /\ First(active) <= start
          /\ batch \subseteq active[First(active)] /\ batch \subseteq Live
          /\ active[First(active)] \cap wanted \subseteq batch
      BY <2>1, <2>2, Zenon DEF Walk
    <3>2. t \notin active[First(active)]
      BY <1>2, <1>8, <2>2, Zenon DEF TimerInv, Filed
    <3>3. active'[First(active')] = active[First(active)] /\ DOMAIN active' # {}
      BY <1>3, <1>8, <2>2, Zenon
    <3> QED
      BY <1>2, <1>8, <1>9, <2>2, <3>1, <3>2, <3>3, Zenon
  <2>3. ASSUME Walking, NEW i \in DOMAIN triggered
        PROVE  /\ trigger'[triggered[i]] <= start /\ Period[triggered[i]] > 0
               /\ triggered[i] \in added'
               /\ triggered[i] \in outlived \/ triggered[i] \notin cancelled
    BY <1>2, <1>6, <2>1, <2>3, Zenon DEF Walk
  <2>4. /\ Walking' => start' = now'
        /\ pc' = "callback" \/ (Running' /\ undercut') => batch' = {}
    BY <1>2, <1>9, <1>10, <2>1, Zenon DEF Walk
  <2>5. /\ triggered' = triggered /\ start' = start
        /\ cancelled' = cancelled /\ outlived' = outlived
    BY <1>2, Zenon
  <2> QED
    BY <1>9, <1>10, <2>1, <2>2, <2>3, <2>4, <2>5, Zenon DEF Walk
<1>14. ASSUME AllRepeat' PROVE Punctual'
  <2>1. AllRepeat /\ Period[t] > 0
    BY <1>2, <1>14, Zenon DEF AllRepeat
  <2>2. Punctual
    BY <2>1, Zenon DEF TimerInv
  <2>3. Longest \in Nat /\ Longest >= 1
    BY <2>1, LongestIs
  <2>4. DOMAIN active' # {} /\ pc \in {"poll", "events", "callback"}
    BY <1>2, <1>3, Zenon DEF InCallback
  <2>5. now \in Nat /\ alarm \in Nat
    BY <1>1, Zenon DEF Types
  <2>6. CASE BecomesFirst(active, w)
    <3>1. pc = "poll"
      <4>1. ~Running
        <5>1. Running => OnBucket
          BY <1>1, <2>1, Zenon DEF AllRepeat, Types, OnBucket
        <5>2. OnBucket => w \notin DOMAIN active
          BY <1>1, <1>8, <2>6, Zenon DEF BecomesFirst, Types
        <5> QED
          BY <1>3, <1>8, <2>6, <5>1, <5>2, Zenon
      <4>2. pc # "events"
        <5> SUFFICES ASSUME pc = "events" PROVE FALSE
          OBVIOUS
        <5>1. DOMAIN active # {} /\ First(active) <= now /\ DOMAIN active \subseteq Nat
          BY <1>1, <2>2, Zenon DEF Punctual, Waiting, Types
        <5>2. First(active) \in DOMAIN active
          BY <5>1, FirstIsLeast, Zenon
        <5> QED
          BY <1>1, <2>5, <2>6, <5>1, <5>2 DEF BecomesFirst
      <4> QED
        BY <2>4, <4>1, <4>2, Zenon DEF Running
    <3>2. pc' = "poll" /\ ~expired' /\ alarm' = AlarmFor(w) /\ First(active') = w /\ now' = now
      BY <1>2, <1>3, <2>6, <3>1, Zenon
    <3> QED
      BY <1>1, <1>4, <2>3, <2>4, <2>5, <3>2 DEF Punctual, Waiting, Running
  <2>7. CASE ~BecomesFirst(active, w)
    <3>1. /\ First(active') = First(active) /\ DOMAIN active # {}
          /\ alarm' = alarm /\ expired' = expired
      BY <1>2, <1>3, <2>7, Zenon
    <3>2. Waiting /\ Waiting' /\ (OnTime' <=> OnTime) /\ Never' = Never /\ Longest' = Longest
      BY <1>2, <2>4, <3>1, Zenon DEF Waiting, OnTime, Never, Longest
    <3> QED
      BY <1>2, <1>9, <2>2, <3>1, <3>2, Zenon DEF Punctual
  <2> QED
    BY <2>6, <2>7, Zenon
<1> QED
  BY <1>5, <1>11, <1>12, <1>13, <1>14, Zenon DEF TimerInv

\* cancelTimer (lines 69-110) takes one timer out, be it the one being run.
LEMMA CancelTimerKeeps ==
    ASSUME TimerInv, NEW t \in Timers, CancelTimer(t)
    PROVE  TimerInv'
<1>1. Types /\ Filed /\ NoTimerForgotten /\ Walk
  BY Zenon DEF TimerInv
<1>2. /\ InCallback /\ t \in added
      /\ cancelled' = cancelled \cup {t} /\ wanted' = wanted \ {t}
      /\ now' = now /\ trigger' = trigger /\ alarm' = alarm /\ expired' = expired /\ pc' = pc
      /\ start' = start /\ batch' = batch /\ triggered' = triggered
      /\ added' = added /\ collided' = collided /\ victims' = victims
      /\ undercut' = (undercut \/ (pc = "callback" /\ t \in active[First(active)]))
      /\ outlived' = IF pc = "callback" /\ t \in Range(triggered)
                     THEN outlived \cup {t} ELSE outlived \ {t}
  BY Zenon DEF CancelTimer, walk
<1>3. \A x \in DOMAIN active : x # trigger[t] => t \notin active[x]
  BY <1>1, Zenon DEF Filed
<1>4. /\ DOMAIN active' \subseteq DOMAIN active
      /\ \A x \in DOMAIN active' : active'[x] = active[x] \ {t} /\ active'[x] # {}
      /\ \A x \in DOMAIN active : x \notin DOMAIN active' => active[x] \subseteq {t}
  <2>1. CASE trigger[t] \notin DOMAIN active
    <3>1. active' = active
      BY <2>1, Zenon DEF CancelTimer
    <3> QED
      BY <1>1, <1>3, <2>1, <3>1, Zenon DEF Types
  <2> DEFINE b == active[trigger[t]] \ {t}
  <2>2. CASE trigger[t] \in DOMAIN active /\ b = {}
    <3>1. active' = [x \in DOMAIN active \ {trigger[t]} |-> active[x]]
      BY <2>2, Zenon DEF CancelTimer, Without
    <3> QED
      BY <1>1, <1>3, <2>2, <3>1, Zenon DEF Types
  <2>3. CASE trigger[t] \in DOMAIN active /\ b # {}
    <3>1. active' = [active EXCEPT ![trigger[t]] = b]
      BY <2>3, Zenon DEF CancelTimer
    <3> QED
      BY <1>1, <1>3, <2>3, <3>1, Zenon DEF Types
  <2> QED
    BY <2>1, <2>2, <2>3, Zenon
<1>5. Types'
  <2>1. undercut' \in BOOLEAN /\ (undercut' => pc' \in {"run", "callback", "undefined"})
    BY <1>1, <1>2, Zenon DEF Types
  <2>2. t \in cancelled'
    BY <1>2, Zenon
  <2>3. cancelled' \subseteq added' /\ cancelled' \cap wanted' = {}
    BY <1>1, <1>2, Zenon DEF Types
  <2> QED
    BY <1>1, <1>2, <1>4, <2>1, <2>2, <2>3, Zenon DEF Types
<1>6. ASSUME OnBucket'
      PROVE  /\ OnBucket
             /\ First(active) \in DOMAIN active' /\ First(active') = First(active)
             /\ First(active) <= start /\ t \notin active[First(active)]
             /\ batch \subseteq active[First(active)] /\ batch \subseteq Live
             /\ active[First(active)] \cap wanted \subseteq batch
  <2>0. OnBucket /\ pc = "callback" /\ t \notin active[First(active)]
    BY <1>2, <1>6, Zenon DEF OnBucket, Running, InCallback
  <2>1. /\ DOMAIN active # {} /\ First(active) <= start
        /\ batch \subseteq active[First(active)] /\ batch \subseteq Live
        /\ active[First(active)] \cap wanted \subseteq batch
    BY <1>1, <2>0, Zenon DEF Walk
  <2>2. DOMAIN active \subseteq Nat
    BY <1>1, Zenon DEF Types
  <2>3. First(active) \in DOMAIN active /\ \A w \in DOMAIN active : First(active) <= w
    BY <2>1, <2>2, FirstIsLeast, Zenon
  <2>4. active[First(active)] # {}
    BY <1>1, <2>3, Zenon DEF Types
  <2>6. First(active) \in DOMAIN active'
    BY <1>4, <2>0, <2>3, <2>4, Zenon
  <2>7. DOMAIN active' \subseteq Nat /\ \A w \in DOMAIN active' : First(active) <= w
    BY <1>4, <2>2, <2>3, Zenon
  <2> QED
    BY <2>0, <2>1, <2>6, <2>7, FirstIsOnly, Zenon
<1>7. /\ (Running' <=> Running) /\ (Walking' <=> Walking)
      /\ \A u \in Live : u # t => u \in Live'
  BY <1>2, Zenon DEF Running, Walking, Live
<1>8. Filed'
  <2> SUFFICES ASSUME NEW x \in DOMAIN active', NEW u \in active'[x]
               PROVE  /\ trigger'[u] = x /\ u \in added' /\ \A v \in active'[x] : v = u
                      /\ u \in Live' \/ (OnBucket' /\ x = First(active') /\ u \notin batch')
    BY Zenon DEF Filed
  <2>1. x \in DOMAIN active /\ u \in active[x] /\ u # t /\ \A v \in active'[x] : v \in active[x]
    BY <1>4, Zenon
  <2>2. /\ trigger[u] = x /\ u \in added /\ \A v \in active[x] : v = u
        /\ u \in Live \/ (OnBucket /\ x = First(active) /\ u \notin batch)
    BY <1>1, <2>1, Zenon DEF Filed
  <2>3. CASE u \in Live
    BY <1>2, <1>7, <2>1, <2>2, <2>3, Zenon
  <2>4. CASE OnBucket /\ x = First(active) /\ u \notin batch
    <3>1. OnBucket'
      BY <1>2, <2>1, <2>2, <2>4, Zenon DEF OnBucket, Running
    <3> QED
      BY <1>2, <1>6, <2>1, <2>2, <2>4, <3>1, Zenon
  <2> QED
    BY <2>2, <2>3, <2>4, Zenon
<1>9. NoTimerForgotten'
  <2> SUFFICES ASSUME NEW u \in wanted', u \notin collided', u \notin victims'
               PROVE  trigger'[u] \in DOMAIN active' /\ u \in active'[trigger'[u]]
    BY Zenon DEF NoTimerForgotten
  <2>1. u \in wanted \ (collided \cup victims) /\ u # t
    BY <1>2, Zenon
  <2>2. trigger[u] \in DOMAIN active /\ u \in active[trigger[u]]
    BY <1>1, <2>1, Zenon DEF NoTimerForgotten
  <2> QED
    BY <1>2, <1>4, <2>1, <2>2, Zenon
<1>10. Walk'
  <2>1. pc' # "reset" /\ (Running => pc = "callback") /\ (Walking => pc = "callback")
    BY <1>2, Zenon DEF InCallback, Running, Walking
  <2>2. ASSUME OnBucket'
        PROVE  /\ DOMAIN active' # {} /\ First(active') <= start'
               /\ batch' \subseteq active'[First(active')] /\ batch' \subseteq Live'
               /\ active'[First(active')] \cap wanted' \subseteq batch'
    <3>1. /\ First(active') \in DOMAIN active' /\ First(active') = First(active)
          /\ t \notin active[First(active)] /\ t \notin batch
      BY <1>6, <2>2, Zenon
    <3>2. active'[First(active)] = active[First(active)] \ {t}
      BY <1>4, <3>1, Zenon
    <3>3. active'[First(active')] = active[First(active)]
      BY <3>1, <3>2, Zenon
    <3> QED
      BY <1>2, <1>6, <1>7, <2>2, <3>1, <3>3, Zenon
  <2>3. ASSUME Walking, NEW i \in DOMAIN triggered
        PROVE  /\ trigger[triggered[i]] <= start /\ Period[triggered[i]] > 0
               /\ triggered[i] \in added
               /\ triggered[i] \in outlived' \/ triggered[i] \notin cancelled'
    <3>1. /\ trigger[triggered[i]] <= start /\ Period[triggered[i]] > 0
          /\ triggered[i] \in added
          /\ triggered[i] \in outlived \/ triggered[i] \notin cancelled
      BY <1>1, <2>3, Zenon DEF Walk
    <3>2. triggered[i] \in Range(triggered)
      BY Zenon DEF Range
    <3> QED
      BY <1>2, <2>1, <2>3, <3>1, <3>2, Zenon
  <2>4. pc' = "callback" \/ (Running' /\ undercut') => batch' = {}
    BY <1>1, <1>2, <1>7, <2>1, Zenon DEF Walk
  <2> QED
    BY <1>1, <1>2, <1>7, <2>1, <2>2, <2>3, <2>4, Zenon DEF Walk
<1>11. ~AllRepeat'
  BY <1>2, Zenon DEF AllRepeat
<1> QED
  BY <1>5, <1>8, <1>9, <1>10, <1>11, Zenon DEF TimerInv

\* The clock passes the alarm only by expiring it, and then a timer is due.
LEMMA TickKeeps ==
    ASSUME TimerInv, Tick
    PROVE  TimerInv'
<1>1. Types /\ Filed /\ NoTimerForgotten /\ Walk
  BY Zenon DEF TimerInv
<1>2. /\ pc = "poll" /\ ~expired /\ now < MaxTime /\ now' = now + 1
      /\ expired' = (alarm = now + 1)
      /\ alarm' = IF alarm = now + 1 THEN Never ELSE alarm
      /\ trigger' = trigger /\ active' = active /\ pc' = pc
      /\ start' = start /\ batch' = batch /\ triggered' = triggered
      /\ added' = added /\ collided' = collided /\ cancelled' = cancelled /\ wanted' = wanted
      /\ undercut' = undercut /\ victims' = victims /\ outlived' = outlived
  BY Zenon DEF Tick, walk, users, slips
<1>3. Types'
  <2>1. now' \in Nat /\ alarm' \in Nat
    BY <1>1, <1>2, TimerAssumption DEF Types, Never
  <2>2. expired' \in BOOLEAN
    BY <1>2, Zenon
  <2> QED
    BY <1>1, <1>2, <2>1, <2>2, Zenon DEF Types
<1>4. (Running' <=> Running) /\ ~Walking' /\ ~Running /\ pc' # "reset"
  BY <1>2, Zenon DEF Running, Walking
<1>5. Filed' /\ NoTimerForgotten' /\ Walk'
  BY <1>1, <1>2, <1>4, Zenon DEF Filed, NoTimerForgotten, Walk, OnBucket, Live
<1>6. ASSUME AllRepeat' PROVE Punctual'
  <2>1. Punctual
    BY <1>2, <1>6, Zenon DEF TimerInv, AllRepeat
  <2>2. now \in Nat /\ alarm \in Nat /\ MaxTime \in Nat
    BY <1>1, TimerAssumption, Zenon DEF Types
  <2>3. First(active') = First(active) /\ (Waiting' <=> Waiting)
    BY <1>2, Zenon DEF Waiting
  <2>4. CASE alarm = now + 1
    <3>1. alarm # Never
      BY <1>2, <2>2, <2>4 DEF Never
    <3>2. Waiting /\ First(active) <= alarm /\ alarm <= First(active) + Longest
      BY <1>2, <2>1, <3>1, Zenon DEF Punctual
    <3>3. expired' /\ pc' = "poll"
      BY <1>2, <2>4, Zenon
    <3>4. Waiting' /\ First(active') <= now' /\ OnTime'
      BY <1>2, <2>3, <2>4, <3>2, Zenon DEF OnTime, Longest
    <3> QED
      BY <1>4, <3>3, <3>4, Zenon DEF Punctual
  <2>5. CASE alarm # now + 1
    <3>1. ~expired' /\ alarm' = alarm /\ pc' = "poll" /\ Never' = Never /\ Longest' = Longest
      BY <1>2, <2>5, Zenon DEF Never, Longest
    <3>2. alarm # Never => Waiting /\ First(active) <= alarm
      BY <1>2, <2>1, Zenon DEF Punctual
    <3>3. Waiting => now < alarm /\ alarm <= First(active) + Longest
      BY <1>2, <2>1, Zenon DEF Punctual
    <3>4. Waiting => now' < alarm
      BY <1>2, <2>2, <2>5, <3>3
    <3> QED
      BY <1>4, <2>3, <3>1, <3>2, <3>3, <3>4, Zenon DEF Punctual
  <2> QED
    BY <2>4, <2>5, Zenon
<1> QED
  BY <1>3, <1>5, <1>6, Zenon DEF TimerInv

\* Poll reports the timerfd.
LEMMA PollReportsKeeps ==
    ASSUME TimerInv, PollReports
    PROVE  TimerInv'
<1>1. Types /\ Filed /\ NoTimerForgotten /\ Walk
  BY DEF TimerInv
<1>2. /\ pc = "poll" /\ expired /\ pc' = "events" /\ expired' = FALSE
      /\ now' = now /\ trigger' = trigger /\ active' = active /\ alarm' = alarm
      /\ start' = start /\ batch' = batch /\ triggered' = triggered
      /\ added' = added /\ collided' = collided /\ cancelled' = cancelled /\ wanted' = wanted
      /\ undercut' = undercut /\ victims' = victims /\ outlived' = outlived
  BY Zenon DEF PollReports, walk, users, slips
<1>3. Types'
  BY <1>1, <1>2, Zenon DEF Types
<1>4. ~Walking' /\ ~Running /\ ~Running'
  BY <1>2, Zenon DEF Running, Walking
<1>5. Filed' /\ NoTimerForgotten' /\ Walk'
  BY <1>1, <1>2, <1>4, Zenon DEF Filed, NoTimerForgotten, Walk, OnBucket, Live
<1>6. ASSUME AllRepeat' PROVE Punctual'
  <2>1. Waiting /\ First(active) <= now /\ OnTime
    BY <1>2, <1>6, Zenon DEF TimerInv, AllRepeat, Punctual
  <2>2. Waiting' /\ First(active') <= now' /\ OnTime'
    BY <1>2, <2>1, Zenon DEF Waiting, OnTime, Longest
  <2> QED
    BY <1>2, <1>4, <2>2, Zenon DEF Punctual
<1> QED
  BY <1>3, <1>5, <1>6 DEF TimerInv

\* handle_timers reads the clock once and forgets what ran before.
LEMMA HandleTimersKeeps ==
    ASSUME TimerInv, HandleTimers
    PROVE  TimerInv'
<1>1. Types /\ Filed /\ NoTimerForgotten /\ Walk
  BY DEF TimerInv
<1>2. /\ pc = "events" /\ pc' = "scan" /\ start' = now /\ triggered' = <<>>
      /\ now' = now /\ trigger' = trigger /\ active' = active /\ alarm' = alarm
      /\ expired' = expired /\ batch' = batch
      /\ added' = added /\ collided' = collided /\ cancelled' = cancelled /\ wanted' = wanted
      /\ undercut' = undercut /\ victims' = victims /\ outlived' = outlived
  BY Zenon DEF HandleTimers, users, slips
<1>3. Types'
  BY <1>1, <1>2 DEF Types
<1>4. ~Running /\ ~Running' /\ pc' # "reset" /\ DOMAIN triggered' = {}
  BY <1>2 DEF Running
<1>5. Filed' /\ NoTimerForgotten' /\ Walk'
  BY <1>1, <1>2, <1>4, Zenon DEF Filed, NoTimerForgotten, Walk, OnBucket, Live
<1>6. ASSUME AllRepeat' PROVE Punctual'
  <2>1. Waiting /\ First(active) <= now /\ OnTime
    BY <1>2, <1>6, Zenon DEF TimerInv, AllRepeat, Punctual
  <2>2. Waiting' /\ First(active') <= start' /\ OnTime'
    BY <1>2, <2>1, Zenon DEF Waiting, OnTime, Longest
  <2> QED
    BY <1>2, <1>4, <2>2, Zenon DEF Punctual
<1> QED
  BY <1>3, <1>5, <1>6 DEF TimerInv

\* The test of begin() (line 121): the next bucket is run, or only later ones are left.
LEMMA ScanKeeps ==
    ASSUME TimerInv, Scan
    PROVE  TimerInv'
<1>1. Types /\ Filed /\ NoTimerForgotten /\ Walk
  BY DEF TimerInv
<1>2. /\ pc = "scan"
      /\ now' = now /\ trigger' = trigger /\ active' = active /\ alarm' = alarm
      /\ expired' = expired /\ start' = start /\ triggered' = triggered
      /\ added' = added /\ collided' = collided /\ cancelled' = cancelled /\ wanted' = wanted
      /\ undercut' = undercut /\ victims' = victims /\ outlived' = outlived
  BY Zenon DEF Scan, users, slips
<1>3. /\ start = now /\ start \in Nat /\ DOMAIN active \subseteq Nat
      /\ \A i \in DOMAIN triggered : /\ trigger[triggered[i]] <= start
                                     /\ Period[triggered[i]] > 0
                                     /\ triggered[i] \in added
                                     /\ triggered[i] \in outlived \/ triggered[i] \notin cancelled
  BY <1>1, <1>2, Zenon DEF Walk, Walking, Types
<1>4. ~Running /\ ~undercut /\ Live' = Live
  BY <1>1, <1>2, Zenon DEF Running, Types, Live
<1>5. NoTimerForgotten'
  BY <1>1, <1>2, Zenon DEF NoTimerForgotten
<1>6. \A w \in DOMAIN active : \A t \in active[w] :
         trigger[t] = w /\ t \in added /\ t \in Live /\ \A u \in active[w] : u = t
  BY <1>1, <1>4, Zenon DEF Filed, OnBucket
<1>7. Filed'
  BY <1>2, <1>4, <1>6, Zenon DEF Filed
<1>8. AllRepeat' => Punctual /\ Waiting /\ OnTime /\ (triggered = <<>> => First(active) <= start)
  BY <1>2, Zenon DEF TimerInv, AllRepeat, Punctual
<1>9. CASE DOMAIN active = {}
  <2>1. pc' = "undefined" /\ batch' = batch
    BY <1>9, Zenon DEF Scan
  <2>2. ~Running' /\ ~Walking'
    BY <2>1, Zenon DEF Running, Walking
  <2>3. Types' /\ Walk'
    BY <1>1, <1>2, <2>1, <2>2, Zenon DEF Types, Walk, OnBucket
  <2>4. ~AllRepeat'
    BY <1>8, <1>9, Zenon DEF Waiting
  <2> QED
    BY <1>5, <1>7, <2>3, <2>4, Zenon DEF TimerInv
<1>10. CASE DOMAIN active # {} /\ First(active) <= start
  <2>1. pc' = "run" /\ batch' = active[First(active)]
    BY <1>10, Zenon DEF Scan
  <2>2. First(active) \in DOMAIN active
    BY <1>3, <1>10, FirstIsLeast, Zenon
  <2>3. batch' \subseteq Timers /\ batch' # {} /\ batch' \subseteq Live
    BY <1>1, <1>6, <2>1, <2>2, Zenon DEF Types
  <2>4. Types'
    BY <1>1, <1>2, <1>4, <2>1, <2>3, Zenon DEF Types
  <2>5. Walk'
    BY <1>2, <1>3, <1>4, <1>10, <2>1, <2>3, Zenon DEF Walk, Walking, Running, OnBucket
  <2>6. AllRepeat' => Punctual'
    BY <1>2, <1>8, <2>1, <2>3, Zenon DEF Punctual, Running, OnTime, Longest
  <2> QED
    BY <1>5, <1>7, <2>4, <2>5, <2>6, Zenon DEF TimerInv
<1>11. CASE DOMAIN active # {} /\ ~(First(active) <= start)
  <2>1. pc' = "reset" /\ batch' = batch
    BY <1>11, Zenon DEF Scan
  <2>2. First(active) \in DOMAIN active /\ \A w \in DOMAIN active : First(active) <= w
    BY <1>3, <1>11, FirstIsLeast, Zenon
  <2>3. \A w \in DOMAIN active : w > start
    BY <1>3, <1>11, <2>2
  <2>4. Types'
    BY <1>1, <1>2, <1>4, <2>1, Zenon DEF Types
  <2>5. Walk'
    BY <1>2, <1>3, <1>4, <2>1, <2>3, Zenon DEF Walk, Walking, Running, OnBucket
  <2>6. AllRepeat' => Punctual'
    BY <1>2, <1>8, <1>11, <2>1, Zenon DEF Punctual, Running
  <2> QED
    BY <1>5, <1>7, <2>4, <2>5, <2>6 DEF TimerInv
<1> QED
  BY <1>9, <1>10, <1>11, Zenon

\* A timer of the bucket is run and, if it repeats, remembered for reset.
LEMMA RunTimerKeeps ==
    ASSUME TimerInv, NEW t \in Timers, RunTimer(t)
    PROVE  TimerInv'
<1>1. Types /\ Filed /\ NoTimerForgotten /\ Walk
  BY DEF TimerInv
<1>2. /\ pc = "run" /\ t \in batch /\ batch' = batch \ {t} /\ wanted' = wanted \ {t}
      /\ triggered' = IF Period[t] > 0 THEN Append(triggered, t) ELSE triggered
      /\ pc' = "callback"
      /\ now' = now /\ trigger' = trigger /\ active' = active /\ alarm' = alarm
      /\ expired' = expired /\ start' = start
      /\ added' = added /\ collided' = collided /\ cancelled' = cancelled
      /\ undercut' = undercut /\ victims' = victims /\ outlived' = outlived
  BY Zenon DEF RunTimer, users, slips
<1>0. OnBucket
  BY <1>1, <1>2, Zenon DEF Walk, OnBucket, Running
<1>3. /\ start = now /\ DOMAIN active # {} /\ First(active) <= start
      /\ batch \subseteq active[First(active)] /\ batch \subseteq Live
      /\ active[First(active)] \cap wanted \subseteq batch
      /\ \A i \in DOMAIN triggered : /\ trigger[triggered[i]] <= start
                                     /\ Period[triggered[i]] > 0
                                     /\ triggered[i] \in added
                                     /\ triggered[i] \in outlived \/ triggered[i] \notin cancelled
  BY <1>0, <1>1, <1>2, Zenon DEF Walk, Walking
<1>4. First(active) \in DOMAIN active
  BY <1>1, <1>3, FirstIsLeast, Zenon DEF Types
<1>5. trigger[t] = First(active) /\ t \in added /\ \A u \in active[First(active)] : u = t
  BY <1>1, <1>2, <1>3, <1>4, Zenon DEF Filed
<1>6. triggered' \in Seq(Timers)
  BY <1>1, <1>2 DEF Types
<1>7. Types'
  BY <1>1, <1>2, <1>6, Zenon DEF Types
<1>8. Filed'
  <2> SUFFICES ASSUME NEW x \in DOMAIN active, NEW u \in active[x]
               PROVE  /\ trigger[u] = x /\ u \in added /\ \A v \in active[x] : v = u
                      /\ u \in Live' \/ (x = First(active) /\ u \notin batch')
    BY <1>0, <1>2, Zenon DEF Filed, OnBucket, Running
  <2> QED
    BY <1>1, <1>2, <1>5, Zenon DEF Filed, Live
<1>9. NoTimerForgotten'
  BY <1>1, <1>2, Zenon DEF NoTimerForgotten
<1>10. ASSUME NEW i \in DOMAIN triggered'
       PROVE  /\ trigger[triggered'[i]] <= start /\ Period[triggered'[i]] > 0
              /\ triggered'[i] \in added
              /\ triggered'[i] \in outlived \/ triggered'[i] \notin cancelled
  <2>0. t \in outlived \/ t \notin cancelled
    BY <1>1, <1>2, <1>3, Zenon DEF Types, Live
  <2>1. CASE Period[t] > 0
    <3>1. triggered \in Seq(Timers) /\ triggered' = Append(triggered, t)
      BY <1>1, <1>2, <2>1, Zenon DEF Types
    <3>2. triggered'[i] = t \/ (i \in DOMAIN triggered /\ triggered'[i] = triggered[i])
      BY <3>1
    <3> QED
      BY <1>3, <1>5, <2>0, <2>1, <3>2, Zenon
  <2>2. CASE ~(Period[t] > 0)
    BY <1>2, <1>3, <2>2, Zenon
  <2> QED
    BY <2>1, <2>2, Zenon
<1>11. Walk'
  <2>1. batch' = {} /\ active[First(active)] \cap wanted' = {}
    BY <1>2, <1>3, <1>5, Zenon
  <2> QED
    BY <1>2, <1>3, <1>10, <2>1, Zenon DEF Walk, Walking
<1>12. ASSUME AllRepeat' PROVE Punctual'
  <2>1. OnTime /\ Period[t] > 0
    BY <1>2, <1>5, <1>12, Zenon DEF TimerInv, AllRepeat, Punctual, Running
  <2>2. triggered \in Seq(Timers) /\ triggered' = Append(triggered, t)
    BY <1>1, <1>2, <2>1, Zenon DEF Types
  <2>3. triggered' # <<>>
    BY <2>2
  <2> QED
    BY <1>2, <2>1, <2>3, Zenon DEF Punctual, OnTime, Longest
<1> QED
  BY <1>7, <1>8, <1>9, <1>11, <1>12, Zenon DEF TimerInv

\* A timer's callback returns.
LEMMA CallbackReturnsKeeps ==
    ASSUME TimerInv, CallbackReturns
    PROVE  TimerInv'
<1>1. Types /\ Filed /\ NoTimerForgotten /\ Walk
  BY DEF TimerInv
<1>2. /\ pc = "callback" /\ pc' = "run"
      /\ now' = now /\ trigger' = trigger /\ active' = active /\ alarm' = alarm
      /\ expired' = expired /\ start' = start /\ batch' = batch /\ triggered' = triggered
      /\ added' = added /\ collided' = collided /\ cancelled' = cancelled /\ wanted' = wanted
      /\ undercut' = undercut /\ victims' = victims /\ outlived' = outlived
  BY Zenon DEF CallbackReturns, walk, users, slips
<1>3. Types' /\ NoTimerForgotten'
  BY <1>1, <1>2, Zenon DEF Types, NoTimerForgotten
<1>4. Running /\ Running' /\ Walking /\ Walking' /\ pc' # "reset"
  BY <1>2, Zenon DEF Running, Walking
<1>5. Filed' /\ Walk'
  <2>1. (OnBucket' <=> OnBucket) /\ Live' = Live
    BY <1>2, <1>4, Zenon DEF OnBucket, Live
  <2> QED
    BY <1>1, <1>2, <1>4, <2>1, Zenon DEF Filed, Walk
<1>6. ASSUME AllRepeat' PROVE Punctual'
  <2>1. OnTime /\ triggered # <<>>
    BY <1>2, <1>4, <1>6, Zenon DEF TimerInv, AllRepeat, Punctual
  <2> QED
    BY <1>2, <2>1, Zenon DEF Punctual, OnTime, Longest
<1> QED
  BY <1>3, <1>5, <1>6, Zenon DEF TimerInv

\* The bucket erased (line 134) holds no wanted timer any more, unless the timer that ran
\* has cancelled itself: then it is whatever bucket comes first, if there is one.
LEMMA EraseBucketKeeps ==
    ASSUME TimerInv, EraseBucket
    PROVE  TimerInv'
<1>1. Types /\ Filed /\ NoTimerForgotten /\ Walk
  BY DEF TimerInv
<1>2. /\ pc = "run" /\ batch = {}
      /\ now' = now /\ trigger' = trigger /\ alarm' = alarm
      /\ expired' = expired /\ start' = start /\ batch' = batch /\ triggered' = triggered
      /\ added' = added /\ collided' = collided /\ cancelled' = cancelled /\ wanted' = wanted
      /\ outlived' = outlived /\ Live' = Live
  BY Zenon DEF EraseBucket, walk, users, Live
<1>13. CASE DOMAIN active = {}
  <2>1. pc' = "undefined" /\ active' = active /\ undercut' = undercut /\ victims' = victims
    BY <1>13, Zenon DEF EraseBucket, slips
  <2>2. undercut /\ ~Running' /\ ~Walking'
    BY <1>1, <1>2, <1>13, <2>1, Zenon DEF Walk, OnBucket, Running, Walking
  <2>3. Types' /\ NoTimerForgotten'
    BY <1>1, <1>2, <2>1, Zenon DEF Types, NoTimerForgotten
  <2>4. Filed' /\ Walk'
    BY <1>13, <2>1, <2>2, Zenon DEF Filed, Walk, OnBucket
  <2>5. ~AllRepeat'
    BY <1>1, <1>2, <2>2, Zenon DEF AllRepeat, Types
  <2> QED
    BY <2>3, <2>4, <2>5, Zenon DEF TimerInv
<1> SUFFICES ASSUME DOMAIN active # {} PROVE TimerInv'
  BY <1>13, Zenon
<1>14. /\ active' = Without(active, First(active))
       /\ pc' = IF DOMAIN active' = {} THEN "reset" ELSE "scan"
       /\ victims' = IF undercut THEN victims \cup active[First(active)] ELSE victims
       /\ undercut' = FALSE
  BY Zenon DEF EraseBucket
<1>3. /\ start = now
      /\ ~undercut => active[First(active)] \cap wanted = {}
      /\ \A i \in DOMAIN triggered : /\ trigger[triggered[i]] <= start
                                     /\ Period[triggered[i]] > 0
                                     /\ triggered[i] \in added
                                     /\ triggered[i] \in outlived \/ triggered[i] \notin cancelled
  BY <1>1, <1>2, Zenon DEF Walk, Walking, OnBucket, Running
<1>4. First(active) \in DOMAIN active /\ \A w \in DOMAIN active : First(active) <= w
  BY <1>1, FirstIsLeast, Zenon DEF Types
<1>5. /\ DOMAIN active' = DOMAIN active \ {First(active)}
      /\ \A x \in DOMAIN active' : active'[x] = active[x]
  BY <1>14, Zenon DEF Without
<1>6. ~Running' /\ Walking' /\ ~OnBucket'
  BY <1>14, Zenon DEF Running, Walking, OnBucket
<1>7. Types'
  BY <1>1, <1>2, <1>5, <1>14, ZenonT(30) DEF Types
<1>8. Filed'
  BY <1>1, <1>2, <1>5, Zenon DEF Filed
<1>9. NoTimerForgotten'
  <2> SUFFICES ASSUME NEW u \in wanted, u \notin collided, u \notin victims'
               PROVE  trigger[u] \in DOMAIN active' /\ u \in active'[trigger[u]]
    BY <1>2, Zenon DEF NoTimerForgotten
  <2>1. trigger[u] \in DOMAIN active /\ u \in active[trigger[u]]
    BY <1>1, <1>14, Zenon DEF NoTimerForgotten
  <2>2. trigger[u] # First(active)
    BY <1>3, <1>14, <2>1, Zenon
  <2> QED
    BY <1>5, <2>1, <2>2, Zenon
<1>10. Walk'
  <2>1. pc' = "reset" => DOMAIN active' = {}
    BY <1>14, Zenon
  <2> QED
    BY <1>2, <1>3, <1>6, <1>14, <2>1, Zenon DEF Walk
<1>11. ASSUME AllRepeat' PROVE Punctual'
  <2>1. OnTime /\ triggered # <<>>
    BY <1>2, <1>11, Zenon DEF TimerInv, AllRepeat, Punctual, Running
  <2>2. CASE DOMAIN active' = {}
    BY <1>2, <1>14, <2>1, <2>2, Zenon DEF Punctual, Running
  <2>3. CASE DOMAIN active' # {}
    <3>1. First(active') \in DOMAIN active'
      BY <1>7, <2>3, FirstIsLeast, Zenon DEF Types
    <3>2. /\ First(active) <= First(active')
          /\ First(active) \in Nat /\ First(active') \in Nat /\ now \in Nat
      BY <1>1, <1>4, <1>5, <3>1, Zenon DEF Types
    <3>3. PICK w \in DOMAIN active : TRUE
      BY Zenon
    <3>4. Timers # {}
      BY <1>1, <3>3, Zenon DEF Types
    <3>5. Longest \in Nat
      BY <3>4, LongestIs, Zenon
    <3>6. OnTime'
      BY <1>2, <2>1, <3>2, <3>5 DEF OnTime, Longest
    <3> QED
      BY <1>2, <1>14, <2>1, <2>3, <3>6, Zenon DEF Punctual, Running, Waiting
  <2> QED
    BY <2>2, <2>3, Zenon
<1> QED
  BY <1>7, <1>8, <1>9, <1>10, <1>11, Zenon DEF TimerInv

\* A free time that a repeating timer asks for is given to the first that asks, alone.
LEMMA ReaddedIs ==
    ASSUME Types, NEW n \in DOMAIN triggered, Next_(triggered[n]) \notin DOMAIN active,
           Period \in [Timers -> Nat]
    PROVE  /\ Readded(Next_(triggered[n])) # {}
           /\ \A t, u \in Readded(Next_(triggered[n])) : t = u
<1> DEFINE w == Next_(triggered[n])
           S == {i \in DOMAIN triggered : Next_(triggered[i]) = w}
<1>1. S \subseteq Nat /\ S # {}
  BY DEF Types
<1>2. Min(S) \in S /\ \A j \in S : Min(S) <= j
  BY <1>1, NatMin, Zenon
<1> DEFINE i == Min(S)
<1> HIDE DEF i
<1>3. i \in DOMAIN triggered /\ Next_(triggered[i]) = w /\ \A j \in S : i <= j
  BY <1>2, Zenon DEF i
<1>4. triggered \in Seq(Timers)
  BY Zenon DEF Types
<1>5. \A j \in 1..(i - 1) : j \in DOMAIN triggered /\ ~(i <= j)
  BY <1>3, <1>4
<1>6. ~Taken(i)
  BY <1>3, <1>5, Zenon DEF Taken
<1>7. triggered[i] \in Readded(w)
  BY <1>3, <1>6, Zenon DEF Readded
<1>8. ASSUME NEW j \in S, ~Taken(j) PROVE j = i
  <2>1. j \in Nat /\ i \in Nat /\ i <= j
    BY <1>1, <1>2, <1>3, Zenon DEF i
  <2>2. i \notin 1..(j - 1)
    BY <1>3, <1>8, Zenon DEF Taken
  <2>3. i >= 1
    BY <1>3, <1>4
  <2> QED
    BY <2>1, <2>2, <2>3
<1>9. \A t \in Readded(w) : t = triggered[i]
  BY <1>8, Zenon DEF Readded
<1> QED
  BY <1>7, <1>9, Zenon

\* reset (lines 174-187) adds what repeats again and sets the timerfd.
LEMMA ResetKeeps ==
    ASSUME TimerInv, Reset
    PROVE  TimerInv'
<1> DEFINE ts == Range(triggered)
           times == {Next_(t) : t \in ts}
<1>1. Types /\ Filed /\ NoTimerForgotten /\ Walk
  BY DEF TimerInv
<1>2. /\ pc = "reset" /\ pc' = "poll"
      /\ active' = [w \in DOMAIN active \cup times |->
                        IF w \in DOMAIN active THEN active[w] ELSE Readded(w)]
      /\ collided' = collided \cup {triggered[i] : i \in {j \in DOMAIN triggered : Taken(j)}}
      /\ trigger' = [t \in Timers |-> IF t \in ts THEN Next_(t) ELSE trigger[t]]
      /\ wanted' = wanted \cup (ts \ cancelled)
      /\ alarm' = IF ts = {} THEN Never ELSE AlarmFor(Min(times))
      /\ expired' = FALSE
      /\ now' = now /\ start' = start /\ batch' = batch /\ triggered' = triggered
      /\ added' = added /\ cancelled' = cancelled
      /\ undercut' = undercut /\ victims' = victims /\ outlived' = outlived
  BY Zenon DEF Reset, walk, slips
<1>3. start = now /\ start \in Nat /\ \A w \in DOMAIN active : w > start /\ w \in Nat
  BY <1>1, <1>2, Zenon DEF Walk, Walking, Types
<1>4. \A t \in ts : /\ t \in Timers /\ t \in added /\ trigger[t] <= start /\ Period[t] > 0
                    /\ Next_(t) \in Nat /\ Next_(t) > start /\ Next_(t) = start + Period[t]
                    /\ t \in outlived \/ t \notin cancelled
  <2>1. \A i \in DOMAIN triggered : /\ trigger[triggered[i]] <= start /\ Period[triggered[i]] > 0
                                    /\ triggered[i] \in added /\ triggered[i] \in Timers
                                    /\ triggered[i] \in outlived \/ triggered[i] \notin cancelled
    BY <1>1, <1>2, Zenon DEF Walk, Walking, Types
  <2>2. \A t \in ts : \E i \in DOMAIN triggered : t = triggered[i]
    BY Zenon DEF Range
  <2>3. \A t \in ts : /\ t \in Timers /\ t \in added /\ trigger[t] <= start /\ Period[t] > 0
                      /\ t \in outlived \/ t \notin cancelled
    BY <2>1, <2>2, Zenon
  <2>4. \A t \in Timers : Period[t] \in Nat
    BY TimerAssumption, Zenon
  <2> QED
    BY <1>3, <2>3, <2>4, SMTT(30) DEF Next_
<1>5. \A i \in DOMAIN triggered : triggered[i] \in ts
  BY Zenon DEF Range
<1>6. \A t \in ts : \E i \in DOMAIN triggered : t = triggered[i]
  BY DEF Range
<1> HIDE DEF ts
<1>7. times \subseteq Nat /\ \A w \in times : w > start
  BY <1>4, Zenon
<1>8. /\ DOMAIN active' = DOMAIN active \cup times
      /\ \A w \in DOMAIN active : active'[w] = active[w]
      /\ \A w \in times : w \notin DOMAIN active => active'[w] = Readded(w)
  BY <1>2, Zenon
<1>9. \A w \in times : w \notin DOMAIN active => /\ Readded(w) # {}
                                                /\ \A t, u \in Readded(w) : t = u
  <2> SUFFICES ASSUME NEW w \in times, w \notin DOMAIN active
               PROVE  Readded(w) # {} /\ \A t, u \in Readded(w) : t = u
    OBVIOUS
  <2>1. PICK n \in DOMAIN triggered : w = Next_(triggered[n])
    BY <1>6, Zenon
  <2> QED
    BY <1>1, <2>1, ReaddedIs, TimerAssumption, Zenon
<1>10. \A w : \A t \in Readded(w) : t \in ts /\ Next_(t) = w
  BY <1>5, Zenon DEF Readded
<1>11. ts # {} => Min(times) \in times /\ \A w \in times : Min(times) <= w
  <2>1. ts # {} => times # {}
    OBVIOUS
  <2> HIDE DEF times
  <2> QED
    BY <1>7, <2>1, NatMin, ZenonT(30)
<1>12. ts # {} => AlarmFor(Min(times)) = Min(times)
  BY <1>3, <1>7, <1>11, Zenon DEF AlarmFor
<1>13. alarm' \in Nat
  BY <1>2, <1>7, <1>11, <1>12, TimerAssumption DEF Never
<1>14. trigger' \in [Timers -> Nat]
  <2>1. \A t \in Timers : trigger[t] \in Nat
    BY <1>1, Zenon DEF Types
  <2> QED
    BY <1>2, <1>4, <2>1, Zenon
<1>15. Types'
  <2>1. ASSUME NEW w \in DOMAIN active' PROVE active'[w] \subseteq Timers /\ active'[w] # {}
    <3>1. CASE w \in DOMAIN active
      BY <1>1, <1>8, <3>1, Zenon DEF Types
    <3>2. CASE w \notin DOMAIN active
      <4>1. w \in times /\ active'[w] = Readded(w)
        BY <1>8, <3>2, Zenon
      <4> QED
        BY <1>4, <1>9, <1>10, <3>2, <4>1
    <3> QED
      BY <3>1, <3>2, Zenon
  <2>2. DOMAIN active' \subseteq Nat
    BY <1>3, <1>7, <1>8, Zenon
  <2>3. wanted' \subseteq added'
    BY <1>1, <1>2, <1>4, Zenon DEF Types
  <2>4. /\ cancelled' \subseteq added' /\ cancelled' \cap wanted' = {}
        /\ ~undercut' /\ (victims' # {} => cancelled' # {})
    BY <1>1, <1>2, Zenon DEF Types
  <2> QED
    BY <1>1, <1>2, <1>13, <1>14, <2>1, <2>2, <2>3, <2>4, ZenonT(30) DEF Types
<1>16. ~Running /\ ~Running' /\ ~Walking' /\ pc' # "reset" /\ ~OnBucket /\ ~OnBucket'
  BY <1>2, Zenon DEF Running, Walking, OnBucket
<1>17. \A t \in Timers : trigger[t] > start => t \notin ts /\ trigger'[t] = trigger[t]
  <2>1. \A t \in Timers : trigger[t] \in Nat
    BY <1>1 DEF Types
  <2> QED
    BY <1>2, <1>3, <1>4, <2>1
<1>18. Filed'
  <2> SUFFICES ASSUME NEW w \in DOMAIN active', NEW t \in active'[w]
               PROVE  /\ trigger'[t] = w /\ t \in added' /\ t \in Live'
                      /\ \A u \in active'[w] : u = t
    BY Zenon DEF Filed
  <2>1. CASE w \in DOMAIN active
    <3>1. t \in active[w] /\ t \in Timers
      BY <1>1, <1>8, <2>1, Zenon DEF Types
    <3>2. trigger[t] = w /\ t \in added /\ t \in Live /\ \A u \in active[w] : u = t
      BY <1>1, <1>16, <2>1, <3>1, Zenon DEF Filed
    <3>3. t \in Live'
      BY <1>2, <3>2, Zenon DEF Live
    <3> QED
      BY <1>2, <1>3, <1>8, <1>17, <2>1, <3>1, <3>2, <3>3, Zenon
  <2>2. CASE w \notin DOMAIN active
    <3>1. w \in times /\ active'[w] = Readded(w)
      BY <1>8, <2>2, Zenon
    <3>0. \A u, v \in Readded(w) : u = v
      BY <1>9, <2>2, <3>1, Zenon
    <3>2. t \in ts /\ Next_(t) = w /\ \A u \in active'[w] : u = t
      BY <1>10, <3>0, <3>1, Zenon
    <3>3. t \in Live'
      BY <1>2, <1>4, <3>2, Zenon DEF Live
    <3> QED
      BY <1>2, <1>4, <3>2, <3>3, Zenon
  <2> QED
    BY <2>1, <2>2, Zenon
<1>19. NoTimerForgotten'
  <2> SUFFICES ASSUME NEW t \in wanted', t \notin collided', t \notin victims'
               PROVE  trigger'[t] \in DOMAIN active' /\ t \in active'[trigger'[t]]
    BY Zenon DEF NoTimerForgotten
  <2>1. CASE t \in ts
    <3>1. PICK i \in DOMAIN triggered : t = triggered[i]
      BY <1>6, <2>1, Zenon
    <3>2. ~Taken(i)
      BY <1>2, <3>1, Zenon
    <3>3. Next_(t) \notin DOMAIN active /\ t \in Readded(Next_(t))
      BY <3>1, <3>2, Zenon DEF Taken, Readded
    <3>4. trigger'[t] = Next_(t) /\ Next_(t) \in times
      BY <1>2, <1>4, <2>1, Zenon
    <3> QED
      BY <1>8, <3>3, <3>4, Zenon
  <2>2. CASE t \notin ts
    <3>1. t \in wanted \ (collided \cup victims) /\ t \in Timers
      BY <1>1, <1>2, <2>2, Zenon DEF Types
    <3>2. trigger[t] \in DOMAIN active /\ t \in active[trigger[t]]
      BY <1>1, <3>1, Zenon DEF NoTimerForgotten
    <3>3. trigger'[t] = trigger[t]
      BY <1>2, <2>2, <3>1, Zenon
    <3> QED
      BY <1>8, <3>2, <3>3
  <2> QED
    BY <2>1, <2>2, Zenon
<1>20. Walk'
  BY <1>2, <1>16, Zenon DEF Walk
<1>21. ASSUME AllRepeat' PROVE Punctual'
  <2>1. triggered # <<>>
    BY <1>2, <1>21, Zenon DEF TimerInv, AllRepeat, Punctual
  <2>2. 1 \in DOMAIN triggered
    BY <1>1, <2>1 DEF Types
  <2>3. ts # {}
    BY <1>5, <2>2, Zenon
  <2> DEFINE m == Min(times)
  <2>4. m \in times /\ alarm' = m
    BY <1>2, <1>11, <1>12, <2>3, ZenonT(30)
  <2>5. PICK t \in ts : m = Next_(t)
    BY <2>4, Zenon
  <2> HIDE DEF m, times
  <2>6. m \in Nat /\ m > start /\ m <= start + Longest /\ Longest \in Nat
    BY <1>3, <1>4, <2>5, LongestIs
  <2>7. First(active') \in DOMAIN active' /\ \A w \in DOMAIN active' : First(active') <= w
    BY <1>8, <1>15, <2>4, FirstIsLeast, Zenon DEF Types
  <2>8. First(active') \in Nat /\ First(active') > start /\ First(active') <= m
    BY <1>3, <1>7, <1>8, <2>4, <2>7, ZenonT(30)
  <2>9. Waiting' /\ pc' = "poll" /\ expired' = FALSE /\ Longest' = Longest
    BY <1>2, <1>8, <2>4, Zenon DEF Waiting, Longest
  <2>10. now' < alarm' /\ alarm' <= First(active') + Longest
    BY <1>2, <1>3, <2>4, <2>6, <2>8
  <2>11. First(active') <= alarm'
    BY <2>4, <2>8, Zenon
  <2> QED
    BY <1>16, <2>9, <2>10, <2>11, Zenon DEF Punctual
<1> QED
  BY <1>15, <1>18, <1>19, <1>20, <1>21 DEF TimerInv

\* The invariant is inductive.
LEMMA NextTimers == TimerInv /\ [Next]_vars => TimerInv'
<1> SUFFICES ASSUME TimerInv, [Next]_vars PROVE TimerInv'
  OBVIOUS
<1>1. CASE \E t \in Timers, d \in Delays : AddTimer(t, d)
  BY <1>1, AddTimerKeeps, Zenon
<1>2. CASE \E t \in Timers : CancelTimer(t)
  BY <1>2, CancelTimerKeeps, Zenon
<1>3. CASE Tick
  BY <1>3, TickKeeps, Zenon
<1>4. CASE PollReports
  BY <1>4, PollReportsKeeps
<1>5. CASE HandleTimers
  BY <1>5, HandleTimersKeeps
<1>6. CASE Scan
  BY <1>6, ScanKeeps
<1>7. CASE CallbackReturns
  BY <1>7, CallbackReturnsKeeps
<1>8. CASE EraseBucket
  BY <1>8, EraseBucketKeeps
<1>9. CASE Reset
  BY <1>9, ResetKeeps
<1>10. CASE \E t \in Timers : RunTimer(t)
  BY <1>10, RunTimerKeeps
<1>11. CASE UNCHANGED vars
  BY <1>11, ZenonT(30) DEF vars, TimerInv, Types, Filed, NoTimerForgotten, Walk, AllRepeat, Punctual,
               Walking, Running, OnBucket, Live, Waiting, OnTime, Longest, Never, First
<1> QED
  BY <1>1, <1>2, <1>3, <1>4, <1>5, <1>6, <1>7, <1>8, <1>9, <1>10, <1>11, Zenon DEF Next, Handle, Over

-----------------------------------------------------------------------------

\* The inductive invariant.
THEOREM TimerInvariant == Spec => []TimerInv
BY InitTimers, NextTimers, PTL DEF Spec

\* handle_timers (lines 121-133) runs a timer only when it is due and, unless a callback
\* cancelled it after it had run in the same walk, wanted; what it erases afterwards
\* (line 134) holds no timer that is still to run, unless the callback cancelled its own
\* timer.
THEOREM AlwaysRunsWhenDue == Spec => []RunsWhenDue
<1>1. TimerInv => RunsWhenDue
  <2> SUFFICES ASSUME TimerInv, pc \in {"run", "callback"} PROVE RunsWhenDue
    BY Zenon DEF RunsWhenDue
  <2>1. CASE undercut
    BY <2>1, Zenon DEF RunsWhenDue, TimerInv, Walk, Running
  <2>2. CASE ~undercut
    <3>1. /\ DOMAIN active # {} /\ First(active) <= start /\ start = now
          /\ batch \subseteq active[First(active)] /\ batch \subseteq Live
          /\ active[First(active)] \cap wanted \subseteq batch
      BY <2>2, Zenon DEF TimerInv, Walk, OnBucket, Running, Walking
    <3>2. First(active) \in DOMAIN active
      BY <3>1, FirstIsLeast, Zenon DEF TimerInv, Types
    <3>3. \A t \in batch : trigger[t] = First(active)
      BY <3>1, <3>2, Zenon DEF TimerInv, Filed
    <3> QED
      BY <3>1, <3>3, Zenon DEF RunsWhenDue, Live
  <2> QED
    BY <2>1, <2>2, Zenon
<1> QED
  BY <1>1, TimerInvariant, PTL

\* A timer that is wanted is in activeTimers under its trigger time, unless insert
\* (line 153) or reset found that time taken, or line 134 erased it in place of a timer
\* that had cancelled itself.
THEOREM NeverForgotten == Spec => []NoTimerForgotten
<1>1. TimerInv => NoTimerForgotten
  BY Zenon DEF TimerInv
<1> QED
  BY <1>1, TimerInvariant, PTL

\* While every timer repeats and none is cancelled, reset's arming of the timerfd for
\* the timers that just ran (line 186) passes an earlier one over for at most the
\* longest period, and the map is not empty when handle_timers reads its first entry.
THEOREM NeverLateByMore == Spec => []LateByAtMostOnePeriod
<1>1. TimerInv => LateByAtMostOnePeriod
  <2> SUFFICES ASSUME TimerInv, AllRepeat
               PROVE  /\ \A t \in wanted \ collided : now <= trigger[t] + Longest
                      /\ pc # "undefined"
    BY Zenon DEF LateByAtMostOnePeriod, AllRepeat, Longest
  <2>1. Types /\ Walk /\ Punctual
    BY Zenon DEF TimerInv
  <2>2. ASSUME NEW t \in wanted \ collided PROVE now <= trigger[t] + Longest
    <3>0. victims = {}
      BY <2>1, Zenon DEF AllRepeat, Types
    <3>1. trigger[t] \in DOMAIN active /\ DOMAIN active \subseteq Nat
      BY <2>1, <3>0, Zenon DEF TimerInv, NoTimerForgotten, Types
    <3>2. First(active) \in Nat /\ First(active) <= trigger[t] /\ trigger[t] \in Nat
      BY <3>1, FirstIsLeast, Zenon
    <3>3. t \in Timers /\ now \in Nat /\ alarm \in Nat /\ start \in Nat
      BY <2>1, Zenon DEF Types
    <3>4. Longest \in Nat
      BY <3>3, LongestIs, Zenon
    <3>5. CASE pc = "reset"
      <4>1. trigger[t] > start /\ start = now
        BY <2>1, <3>1, <3>5, Zenon DEF Walk, Walking
      <4> QED
        BY <3>2, <3>3, <3>4, <4>1
    <3>6. CASE pc = "poll" /\ ~expired
      <4>1. now < alarm /\ alarm <= First(active) + Longest
        BY <2>1, <3>1, <3>6, Zenon DEF Punctual, Waiting
      <4> QED
        BY <3>2, <3>3, <3>4, <4>1
    <3>7. CASE ~(pc = "reset" \/ (pc = "poll" /\ ~expired))
      <4>1. OnTime
        BY <2>1, <3>7, Zenon DEF Punctual, Types, Running
      <4> QED
        BY <3>2, <3>3, <3>4, <4>1, SMTT(30) DEF OnTime
    <3> QED
      BY <3>5, <3>6, <3>7, Zenon
  <2> QED
    BY <2>1, <2>2, Zenon DEF Punctual
<1> QED
  BY <1>1, TimerInvariant, PTL
=============================================================================
