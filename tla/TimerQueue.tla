----------------------------- MODULE TimerQueue -----------------------------
(***************************************************************************)
(* The timers of one event loop (src/Timers/TimerQueue.cpp): activeTimers  *)
(* maps a trigger time to the timers due then, and one timerfd is armed.   *)
(* Everything runs on the loop's thread; what interleaves are callbacks,   *)
(* of timers and of other channels, that add and cancel timers while the   *)
(* timerfd's event is pending or handle_timers walks the map.  The clock   *)
(* counts units of the shortest period updateFd sets and advances only     *)
(* while the thread is in Poll with nothing to report: the lateness left   *)
(* is what the queue itself causes.                                        *)
(***************************************************************************)
EXTENDS Integers, Sequences, FiniteSets, FiniteSetsExt

CONSTANTS
    Timers,         \* Timer objects, each added once by its user
    Period,         \* repeatCircle of each, 0 for one that does not repeat
    Delays,         \* how far ahead callers ask for
    MaxTime,        \* bound: the clock stops here
    DistinctTimes,  \* callers never ask for a trigger time that is taken
    MayCancel       \* callers cancel timers

ASSUME TimerAssumption ==
    /\ IsFiniteSet(Timers) /\ Period \in [Timers -> Nat]
    /\ Delays \subseteq Nat /\ MaxTime \in Nat
    /\ DistinctTimes \in BOOLEAN /\ MayCancel \in BOOLEAN

VARIABLES
    now,        \* the clock
    trigger,    \* triggerTime of each timer
    active,     \* activeTimers: trigger time -> timers
    alarm,      \* when the timerfd expires, Never if it does not
    expired,    \* the timerfd is readable
    pc,         \* where the loop's thread is
    start,      \* handle_timers: its local now
    batch,      \* handle_timers: timers of its copy ts still to run
    triggered,  \* triggeredTimers
    added,      \* timers their user has added
    wanted,     \* timers added or repeating, neither run since nor cancelled
    collided,   \* timers whose insert found the trigger time taken
    cancelled,  \* timers cancelled
    undercut,   \* the callback at work has cancelled its own timer
    victims,    \* timers line 134 erased in place of one that had cancelled itself
    outlived    \* timers cancelled after they ran in the same walk

vars == <<now, trigger, active, alarm, expired, pc, start, batch, triggered,
          added, wanted, collided, cancelled, undercut, victims, outlived>>
walk == <<start, batch, triggered>>
users == <<added, collided, cancelled, outlived>>
slips == <<undercut, victims>>

Never == MaxTime + 1        \* updateFd(0xffffffffffffffff)
First(m) == Min(DOMAIN m)
Without(m, k) == [x \in DOMAIN m \ {k} |-> m[x]]
\* Mutant: the trigger time is taken for a distance from now.
AlarmForAbsolute(w) == now + w + 1

\* periodFromNow: at least one unit ahead.
AlarmFor(w) == IF w > now THEN w ELSE now + 1

Init ==
    /\ now = 0 /\ trigger = [t \in Timers |-> 0]
    /\ active = [x \in {} |-> {}]
    /\ alarm = Never /\ expired = FALSE
    /\ pc = "poll" /\ start = 0 /\ batch = {} /\ triggered = <<>>
    /\ added = {} /\ wanted = {} /\ collided = {} /\ cancelled = {}
    /\ undercut = FALSE /\ victims = {} /\ outlived = {}

-----------------------------------------------------------------------------
(* addTimer and cancelTimer, from a callback of the loop *)

\* insert: when the time is taken the timer goes into a copy of the bucket.
Insert(m, t, w) ==
    IF w \in DOMAIN m THEN m
    ELSE [x \in DOMAIN m \cup {w} |-> IF x = w THEN {t} ELSE m[x]]

\* What insert returns: whether the timerfd has to be set.
BecomesFirst(m, w) == w \notin DOMAIN m /\ \A x \in DOMAIN m : x >= w

InCallback == pc \in {"poll", "events", "callback"}

AddTimer(t, d) ==
    /\ InCallback /\ t \notin added
    /\ now + d <= MaxTime - 2 /\ (DistinctTimes => now + d \notin DOMAIN active)
    /\ trigger' = [trigger EXCEPT ![t] = now + d]
    /\ active' = Insert(active, t, now + d)
    /\ IF BecomesFirst(active, now + d)
       THEN alarm' = AlarmFor(now + d) /\ expired' = FALSE
       ELSE UNCHANGED <<alarm, expired>>
    /\ added' = added \cup {t} /\ wanted' = wanted \cup {t}
    /\ collided' = IF now + d \in DOMAIN active THEN collided \cup {t} ELSE collided
    /\ UNCHANGED <<now, pc, walk, cancelled, outlived, slips>>

\* Mutant: begin() is erased, whatever timer is cancelled.
CancelFirst(t) ==
    /\ MayCancel /\ pc = "poll" /\ t \in added \ cancelled /\ DOMAIN active # {}
    /\ active' = Without(active, First(active))
    /\ cancelled' = cancelled \cup {t} /\ wanted' = wanted \ {t}
    /\ UNCHANGED <<now, trigger, alarm, expired, pc, walk, added, collided, outlived, slips>>

\* The timerfd is not set again.  A callback may cancel the very timer being run,
\* which takes the bucket being run out of the map, and a repeating timer that
\* has run in this walk, its own included, which reset adds again all the same.
CancelTimer(t) ==
    /\ MayCancel /\ InCallback /\ t \in added
    /\ active' = IF trigger[t] \notin DOMAIN active THEN active
                 ELSE LET b == active[trigger[t]] \ {t}
                      IN  IF b = {} THEN Without(active, trigger[t])
                          ELSE [active EXCEPT ![trigger[t]] = b]
    /\ cancelled' = cancelled \cup {t} /\ wanted' = wanted \ {t}
    /\ undercut' = (undercut \/ (pc = "callback" /\ t \in active[First(active)]))
    /\ outlived' = IF pc = "callback" /\ t \in Range(triggered)
                   THEN outlived \cup {t} ELSE outlived \ {t}
    /\ UNCHANGED <<now, trigger, alarm, expired, pc, walk, added, collided, victims>>

-----------------------------------------------------------------------------
(* The clock, the timerfd and Poll *)

Tick ==
    /\ pc = "poll" /\ ~expired /\ now < MaxTime
    /\ now' = now + 1
    /\ expired' = (alarm = now + 1)
    /\ alarm' = IF alarm = now + 1 THEN Never ELSE alarm
    /\ UNCHANGED <<trigger, active, pc, walk, users, wanted, slips>>

\* Poll reports the timerfd; other channels' callbacks may come first.
PollReports ==
    /\ pc = "poll" /\ expired
    /\ pc' = "events" /\ expired' = FALSE
    /\ UNCHANGED <<now, trigger, active, alarm, walk, users, wanted, slips>>

-----------------------------------------------------------------------------
(* handle_timers *)

HandleTimers ==
    /\ pc = "events"
    /\ pc' = "scan" /\ start' = now /\ triggered' = <<>>
    /\ UNCHANGED <<now, trigger, active, alarm, expired, batch, users, wanted, slips>>

\* Mutant: a timer of the next time unit is taken for due.
ScanEager ==
    /\ pc = "scan"
    /\ IF DOMAIN active = {} THEN pc' = "undefined" /\ UNCHANGED batch
       ELSE IF First(active) <= start + 1 THEN pc' = "run" /\ batch' = active[First(active)]
       ELSE pc' = "reset" /\ UNCHANGED batch
    /\ UNCHANGED <<now, trigger, active, alarm, expired, start, triggered, users, wanted, slips>>

\* The loop's condition reads activeTimers.begin(), which on an empty map is
\* undefined.
Scan ==
    /\ pc = "scan"
    /\ IF DOMAIN active = {} THEN pc' = "undefined" /\ UNCHANGED batch
       ELSE IF First(active) <= start THEN pc' = "run" /\ batch' = active[First(active)]
       ELSE pc' = "reset" /\ UNCHANGED batch
    /\ UNCHANGED <<now, trigger, active, alarm, expired, start, triggered, users, wanted, slips>>

RunTimer(t) ==
    /\ pc = "run" /\ t \in batch
    /\ batch' = batch \ {t} /\ wanted' = wanted \ {t}
    /\ triggered' = IF Period[t] > 0 THEN Append(triggered, t) ELSE triggered
    /\ pc' = "callback"
    /\ UNCHANGED <<now, trigger, active, alarm, expired, start, users, slips>>

CallbackReturns ==
    /\ pc = "callback" /\ pc' = "run"
    /\ UNCHANGED <<now, trigger, active, alarm, expired, walk, users, wanted, slips>>

\* activeTimers.erase(activeTimers.begin()), whatever bucket that is by now; on an
\* empty map this is undefined.
EraseBucket ==
    /\ pc = "run" /\ batch = {}
    /\ IF DOMAIN active = {} THEN pc' = "undefined" /\ UNCHANGED <<active, slips>>
       ELSE /\ active' = Without(active, First(active))
            /\ pc' = IF DOMAIN active' = {} THEN "reset" ELSE "scan"
            /\ victims' = IF undercut THEN victims \cup active[First(active)] ELSE victims
            /\ undercut' = FALSE
    /\ UNCHANGED <<now, trigger, alarm, expired, walk, users, wanted>>

\* Every repeating timer that ran is added again, in the order they ran: one whose
\* time is taken, by a timer that waits or by one added before it, is lost.
Next_(t) == start + Period[t]
Taken(i) ==
    \/ Next_(triggered[i]) \in DOMAIN active
    \/ \E j \in 1..(i - 1) : Next_(triggered[j]) = Next_(triggered[i])
Readded(w) ==
    {triggered[i] : i \in {j \in DOMAIN triggered : ~Taken(j) /\ Next_(triggered[j]) = w}}

\* The timerfd is then set for the earliest of these alone.
Reset ==
    /\ pc = "reset" /\ pc' = "poll"
    /\ LET ts == Range(triggered)
           times == {Next_(t) : t \in ts}
       IN  /\ active' = [w \in DOMAIN active \cup times |->
                             IF w \in DOMAIN active THEN active[w] ELSE Readded(w)]
           /\ collided' = collided \cup {triggered[i] : i \in {j \in DOMAIN triggered : Taken(j)}}
           /\ trigger' = [t \in Timers |-> IF t \in ts THEN Next_(t) ELSE trigger[t]]
           /\ wanted' = wanted \cup (ts \ cancelled)
           /\ alarm' = IF ts = {} THEN Never ELSE AlarmFor(Min(times))
    /\ expired' = FALSE
    /\ UNCHANGED <<now, walk, added, cancelled, outlived, slips>>

Handle ==
    \/ PollReports \/ HandleTimers \/ Scan \/ CallbackReturns \/ EraseBucket \/ Reset
    \/ \E t \in Timers : RunTimer(t)

-----------------------------------------------------------------------------

\* Time has run out, or a run of undefined behaviour ends the program.
Over == (pc = "undefined" \/ (pc = "poll" /\ ~expired /\ now = MaxTime)) /\ UNCHANGED vars

Next ==
    \/ \E t \in Timers, d \in Delays : AddTimer(t, d)
    \/ \E t \in Timers : CancelTimer(t)
    \/ Tick \/ Handle \/ Over

Spec == Init /\ [][Next]_vars

\* Time passes and the loop handles its events.
FairSpec == Spec /\ WF_vars(Tick) /\ WF_vars(Handle)

-----------------------------------------------------------------------------

\* A timer about to run is due and wanted: it was neither run already nor
\* cancelled, unless the cancel came from a callback after the timer had run in
\* the same walk (reset adds it again, line 183).  And the bucket EraseBucket will
\* drop (line 134) holds no wanted timer but those about to run, unless the
\* callback at work cancelled its own timer.
RunsWhenDue ==
    pc \in {"run", "callback"} =>
        /\ \A t \in batch : trigger[t] <= now /\ t \in wanted \cup outlived
        /\ undercut \/ (DOMAIN active # {} /\ active[First(active)] \cap wanted \subseteq batch)

\* A wanted timer is in the map under its own trigger time, unless insert found
\* that time taken or it was erased in place of a timer that cancelled itself.
NoTimerForgotten ==
    \A t \in wanted \ (collided \cup victims) :
        trigger[t] \in DOMAIN active /\ t \in active[trigger[t]]

\* While every timer added repeats and none is cancelled, each runs no later than
\* one (longest) period after it is due: reset arms the timerfd for a timer that
\* just ran (line 186), which bounds how long an earlier one is passed over.  And
\* handle_timers does not read begin() of an empty map (line 121).
LateByAtMostOnePeriod ==
    (\A u \in added : Period[u] > 0) /\ cancelled = {} =>
        /\ \A t \in wanted \ collided : now <= trigger[t] + Max({Period[u] : u \in Timers})
        /\ pc # "undefined"

\* Every timer added is run, as the timer test expects of its one-shot timers
\* (test/TimerQueue_test.cpp:51-54).
EveryTimerRuns == \A t \in Timers : t \in wanted ~> t \notin wanted
=============================================================================
