----------------------------- MODULE EventLoop -----------------------------
(***************************************************************************)
(* One event loop (src/EventLoop.cpp): its thread polls, handles events    *)
(* and drains pendingFunctors; other threads queue functors and quit it.   *)
(* A functor enters the queue in two steps, the claim of a slot and its    *)
(* publication, as MpmcQueue shows: between them empty() is false and      *)
(* try_pop refuses.  The eventfd is readable or not, reading it takes all  *)
(* its counter holds, and epoll keeps an edge for the edge-triggered       *)
(* channel.  Poll may return at any time: an event of another channel, a   *)
(* signal, or PollTimeout.                                                 *)
(***************************************************************************)
EXTENDS Integers, Sequences

CONSTANTS
    Callers,     \* threads other than the loop's own
    Loop,        \* the loop's thread
    Size,        \* capacity of pendingFunctors (1024 in the code)
    MaxCalls     \* bound: queueInLoop calls of each thread

ASSUME LoopAssumption ==
    /\ Loop \notin Callers
    /\ Size \in Nat \ {0}
    /\ MaxCalls \in [Callers \cup {Loop} -> Nat]

VARIABLES
    queue,     \* pendingFunctors: claimed slots, oldest first
    readable,  \* the eventfd's counter is not zero
    edge,      \* epoll has an edge of the eventfd to report
    quit,      \* the plain bool
    lpc,       \* where the loop's thread is
    woken,     \* the wakeup channel is among activeChannels
    cpc,       \* where each thread is in queueInLoop or quit_
    calls,     \* functors each thread has queued so far
    ran,       \* functors run, in order
    dropped    \* functors push gave up on

vars == <<queue, readable, edge, quit, lpc, woken, cpc, calls, ran, dropped>>
kernel == <<readable, edge>>
callers == <<cpc, calls, dropped>>

Threads == Callers \cup {Loop}

Init ==
    /\ queue = <<>> /\ readable = FALSE /\ edge = FALSE
    /\ quit = FALSE /\ lpc = "new" /\ woken = FALSE
    /\ cpc = [t \in Threads |-> "idle"]
    /\ calls = [t \in Threads |-> 0]
    /\ ran = <<>> /\ dropped = {}

-----------------------------------------------------------------------------
(* queueInLoop and quit_. *)

\* The loop's thread calls from a handler, from a functor, or before Loop().
MayCall(t) ==
    /\ cpc[t] = "idle"
    /\ t = Loop => lpc \in {"new", "handle", "run"}

Goto(t, l) == cpc' = [cpc EXCEPT ![t] = l]
\* Mutant: the condition is inverted.
ThenWakeSelf(t) == Goto(t, IF t = Loop THEN "wake" ELSE "idle")

\* if (!isInLoopThread()) wakeup();
ThenWake(t) == Goto(t, IF t = Loop THEN "idle" ELSE "wake")
Count(t) == calls[t] < MaxCalls[t] /\ calls' = [calls EXCEPT ![t] = @ + 1]

\* A functor the loop's thread queues before Loop() is early: nobody wakes it up.
Slot(t) ==
    [by |-> t, n |-> calls[t] + 1, published |-> FALSE, early |-> t = Loop /\ lpc = "new"]

\* push: the slot at the tail is claimed ...
QueueClaim(t) ==
    /\ MayCall(t) /\ Count(t)
    /\ Len(queue) < Size
    /\ queue' = Append(queue, Slot(t))
    /\ Goto(t, "claimed")
    /\ UNCHANGED <<kernel, quit, lpc, woken, ran, dropped>>

\* ... and its functor published.
QueuePublish(t) ==
    /\ cpc[t] = "claimed"
    /\ queue' = [i \in DOMAIN queue |->
                    IF queue[i].by = t THEN [queue[i] EXCEPT !.published = TRUE] ELSE queue[i]]
    /\ ThenWake(t)
    /\ UNCHANGED <<kernel, quit, lpc, woken, calls, ran, dropped>>

\* push: the queue stays full for all its attempts; the functor is dropped
\* without a word and the loop is woken all the same.
QueueGivesUp(t) ==
    /\ MayCall(t) /\ Count(t)
    /\ Len(queue) = Size
    /\ dropped' = dropped \cup {<<t, calls[t] + 1>>}
    /\ ThenWake(t)
    /\ UNCHANGED <<queue, kernel, quit, lpc, woken, ran>>

Quit(t) ==
    /\ MayCall(t)
    /\ quit' = TRUE /\ ThenWake(t)
    /\ UNCHANGED <<queue, kernel, lpc, woken, calls, ran, dropped>>

Wakeup(t) ==
    /\ cpc[t] = "wake" /\ Goto(t, "idle")
    /\ readable' = TRUE /\ edge' = TRUE
    /\ UNCHANGED <<queue, quit, lpc, woken, calls, ran, dropped>>

CallerStep(t) == QueuePublish(t) \/ Wakeup(t)

-----------------------------------------------------------------------------
(* Loop(). *)

LoopStart ==
    /\ lpc = "new" /\ cpc[Loop] = "idle" /\ lpc' = "test"
    /\ UNCHANGED <<queue, kernel, quit, woken, callers, ran>>

LoopTest ==
    /\ lpc = "test"
    /\ lpc' = IF quit THEN "done" ELSE "poll"
    /\ UNCHANGED <<queue, kernel, quit, woken, callers, ran>>

\* An edge is reported only if the eventfd is still readable.
PollReturns ==
    /\ lpc = "poll" /\ lpc' = "handle"
    /\ woken' = (edge /\ readable) /\ edge' = FALSE
    /\ UNCHANGED <<queue, readable, quit, callers, ran>>

HandleWakeup ==
    /\ lpc = "handle" /\ woken /\ cpc[Loop] = "idle"
    /\ woken' = FALSE /\ readable' = FALSE
    /\ UNCHANGED <<queue, edge, quit, lpc, callers, ran>>

HandleDone ==
    /\ lpc = "handle" /\ ~woken /\ cpc[Loop] = "idle"
    /\ lpc' = "drain"
    /\ UNCHANGED <<queue, kernel, quit, woken, callers, ran>>

\* while (!pendingFunctors.empty())
Drained ==
    /\ lpc = "drain" /\ queue = <<>>
    /\ lpc' = "test"
    /\ UNCHANGED <<queue, kernel, quit, woken, callers, ran>>

\* try_pop refuses while the oldest slot is claimed and not published.
PopFails ==
    /\ lpc = "drain" /\ queue # <<>> /\ ~Head(queue).published
    /\ UNCHANGED vars

\* Mutant: the popped functor is not run.
RunNothing ==
    /\ lpc = "drain" /\ queue # <<>> /\ Head(queue).published
    /\ queue' = Tail(queue) /\ lpc' = "run"
    /\ UNCHANGED <<kernel, quit, woken, callers, ran>>

RunFunctor ==
    /\ lpc = "drain" /\ queue # <<>> /\ Head(queue).published
    /\ queue' = Tail(queue)
    /\ ran' = Append(ran, <<Head(queue).by, Head(queue).n>>)
    /\ lpc' = "run"
    /\ UNCHANGED <<kernel, quit, woken, callers>>

FunctorReturns ==
    /\ lpc = "run" /\ cpc[Loop] = "idle"
    /\ lpc' = "drain"
    /\ UNCHANGED <<queue, kernel, quit, woken, callers, ran>>

LoopStep ==
    \/ LoopStart \/ LoopTest \/ PollReturns \/ HandleWakeup \/ HandleDone
    \/ Drained \/ PopFails \/ RunFunctor \/ FunctorReturns

-----------------------------------------------------------------------------

\* Loop() has returned and no other thread is inside a call.
Stopped == lpc = "done" /\ (\A t \in Threads : cpc[t] = "idle") /\ UNCHANGED vars

Next ==
    \/ \E t \in Threads : QueueClaim(t) \/ QueueGivesUp(t) \/ Quit(t) \/ CallerStep(t)
    \/ LoopStep
    \/ Stopped

Spec == Init /\ [][Next]_vars

\* The scheduler runs every thread inside a call, and the loop's thread: Poll
\* returns after PollTimeout at the latest.
FairSpec ==
    /\ Spec
    /\ \A t \in Threads : WF_vars(CallerStep(t))
    /\ WF_vars(LoopStep)

-----------------------------------------------------------------------------

Functors == UNION {{t} \X (1..MaxCalls[t]) : t \in Threads}

\* Types; pendingFunctors never holds more than its capacity.
TypeOK ==
    /\ queue \in Seq([by : Threads, n : Nat \ {0}, published : BOOLEAN, early : BOOLEAN])
    /\ Len(queue) <= Size
    /\ readable \in BOOLEAN /\ edge \in BOOLEAN /\ quit \in BOOLEAN /\ woken \in BOOLEAN
    /\ lpc \in {"new", "test", "poll", "handle", "drain", "run", "done"}
    /\ cpc \in [Threads -> {"idle", "claimed", "wake"}]
    /\ calls \in [Threads -> Nat] /\ \A t \in Threads : calls[t] <= MaxCalls[t]
    /\ ran \in Seq(Functors) /\ dropped \subseteq Functors

\* Poll returns at once when the eventfd has an edge to report, or will have.
WakeupComing == (edge /\ readable) \/ \E t \in Callers : cpc[t] = "wake"

\* No lost wakeup: when the loop's thread enters or sits in Poll, a published
\* functor (line 136 before line 138) and a quit (line 119 before line 121) both
\* have a wakeup pending, so neither waits for PollTimeout.  Only a functor the
\* loop's own thread queued before Loop() may have to.
NoLostWakeup ==
    lpc = "poll" =>
        /\ (\E i \in DOMAIN queue : queue[i].published /\ ~queue[i].early) => WakeupComing
        /\ quit => WakeupComing

\* Functors of one thread run in the order it queued them, each once.
RunInQueueOrder ==
    \A i, j \in DOMAIN ran : i < j /\ ran[i][1] = ran[j][1] => ran[i][2] < ran[j][2]

\* A functor in the queue is run, unless the loop quits first.
QueuedRuns ==
    \A f \in Functors :
        (\E i \in DOMAIN queue : <<queue[i].by, queue[i].n>> = f)
            ~> (lpc = "done" \/ \E i \in DOMAIN ran : ran[i] = f)
=============================================================================
