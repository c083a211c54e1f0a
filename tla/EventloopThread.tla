-------------------------- MODULE EventloopThread --------------------------
(***************************************************************************)
(* An I/O thread of a server and the EventLoop on its stack                *)
(* (EventloopThread.cpp, Threads/Thread.cpp, Threads/CountDownLatch.cpp):  *)
(* the composition of EventLoop with the thread that constructs, publishes,*)
(* runs and destroys it, and with the base thread that starts the I/O      *)
(* thread, waits for its loop, hands it out and in the end destroys it.    *)
(* EventloopThreadPool does this for one thread after the other.  A section *)
(* under the mutex is one step; a condition variable may wake for no reason.*)
(***************************************************************************)
EXTENDS EventLoop

CONSTANT Base   \* the base loop's thread, one of the callers

ASSUME BaseAssumption == Base \in Callers

VARIABLES
    bpc,      \* where the base thread is
    waiting,  \* it waits on a condition variable
    count,    \* the Thread's latch
    loop,     \* EventloopThread::loop is not null
    tpc,      \* where the I/O thread is outside Loop()
    quitters  \* threads that have called quit_, other than in the destructor

base == <<bpc, waiting>>
thread == <<count, loop, tpc>>
tvars == <<vars, base, thread, quitters>>

TInit ==
    /\ Init
    /\ bpc = "start" /\ waiting = FALSE
    /\ count = 1 /\ loop = FALSE /\ tpc = "none" /\ quitters = {}

\* The EventLoop is on the thread's stack.
Alive == tpc \in {"init", "publish", "loop", "retract", "leave"}

-----------------------------------------------------------------------------
(* The base thread *)

At(pc) == bpc = pc /\ ~waiting
BaseGoes(pc) == bpc' = pc /\ UNCHANGED waiting
BaseWaits == waiting' = TRUE /\ UNCHANGED bpc
\* notifyAll
Wakes == waiting' = FALSE /\ UNCHANGED bpc

\* startLoop: Thread::start creates the thread ...
StartThread ==
    /\ At("start") /\ BaseGoes("latch") /\ tpc' = "created"
    /\ UNCHANGED <<vars, count, loop, quitters>>

\* ... and waits for its latch;
LatchWait ==
    /\ At("latch") /\ (IF count > 0 THEN BaseWaits ELSE BaseGoes("wait"))
    /\ UNCHANGED <<vars, thread, quitters>>

\* then startLoop waits for the loop.
LoopWait ==
    /\ At("wait") /\ (IF loop THEN BaseGoes("serve") ELSE BaseWaits)
    /\ UNCHANGED <<vars, thread, quitters>>

SpuriousWakeup == waiting /\ Wakes /\ UNCHANGED <<vars, thread, quitters>>

\* The server is destroyed and ~EventloopThread called.
Destroy ==
    /\ At("serve") /\ cpc[Base] = "idle" /\ BaseGoes("test")
    /\ UNCHANGED <<vars, thread, quitters>>

\* if (loop != nullptr), without the mutex
DtorTest ==
    /\ At("test") /\ BaseGoes(IF loop THEN "quit" ELSE "gone")
    /\ UNCHANGED <<vars, thread, quitters>>

\* loop->quit_(), whose wakeup is Base's next step
DtorQuit ==
    /\ At("quit") /\ BaseGoes("join") /\ Quit(Base)
    /\ UNCHANGED <<thread, quitters>>

DtorJoin ==
    /\ At("join") /\ cpc[Base] = "idle" /\ tpc = "exit" /\ BaseGoes("gone")
    /\ UNCHANGED <<vars, thread, quitters>>

BaseStep == StartThread \/ LatchWait \/ LoopWait \/ DtorTest \/ DtorQuit \/ DtorJoin

-----------------------------------------------------------------------------
(* The I/O thread *)

Moves(from, to) == tpc = from /\ tpc' = to

\* ThreadData::runInThread: latch_->countDown()
CountDown ==
    /\ Moves("created", "construct") /\ count' = count - 1 /\ Wakes
    /\ UNCHANGED <<vars, loop, quitters>>

\* threadFunc: EventLoop loop_;
Construct ==
    /\ Moves("construct", "init")
    /\ UNCHANGED <<vars, base, count, loop, quitters>>

\* cb(&loop_) returns; it may have queued functors.
InitCallback ==
    /\ Moves("init", "publish") /\ cpc[Loop] = "idle"
    /\ UNCHANGED <<vars, base, count, loop, quitters>>

\* Mutant: no notification.
PublishSilent ==
    /\ Moves("publish", "loop") /\ loop' = TRUE
    /\ UNCHANGED <<vars, base, count, quitters>>

Publish ==
    /\ Moves("publish", "loop") /\ loop' = TRUE /\ Wakes
    /\ UNCHANGED <<vars, count, quitters>>

\* Loop()
RunLoop == tpc = "loop" /\ LoopStep /\ UNCHANGED <<base, thread, quitters>>

LoopReturns ==
    /\ Moves("loop", "retract") /\ lpc = "done"
    /\ UNCHANGED <<vars, base, count, loop, quitters>>

\* Mutant: the pointer stays.
RetractNot ==
    /\ Moves("retract", "leave")
    /\ UNCHANGED <<vars, base, count, loop, quitters>>

Retract ==
    /\ Moves("retract", "leave") /\ loop' = FALSE
    /\ UNCHANGED <<vars, base, count, quitters>>

\* loop_ leaves the stack and the thread ends.
Leave ==
    /\ Moves("leave", "exit")
    /\ UNCHANGED <<vars, base, count, loop, quitters>>

ThreadStep ==
    \/ CountDown \/ Construct \/ InitCallback \/ Publish \/ RunLoop
    \/ LoopReturns \/ Retract \/ Leave

-----------------------------------------------------------------------------
(* Calls of the loop: by its own thread in the thread's callback and in Loop(), by
   the others between startLoop and the destructor. *)

MayUse(t) ==
    IF t = Loop THEN tpc = "init" \/ (tpc = "loop" /\ lpc # "new") ELSE bpc = "serve"

UserQueues(t) ==
    /\ MayUse(t) /\ (QueueClaim(t) \/ QueueGivesUp(t))
    /\ UNCHANGED <<base, thread, quitters>>

UserQuits(t) ==
    /\ MayUse(t) /\ Quit(t) /\ quitters' = quitters \cup {t}
    /\ UNCHANGED <<base, thread>>

UserStep(t) == CallerStep(t) /\ UNCHANGED <<base, thread, quitters>>

\* The thread object is gone, or will be when its owner likes, and the thread with it.
TOver ==
    /\ bpc \in {"serve", "gone"} /\ tpc = "exit" /\ \A t \in Threads : cpc[t] = "idle"
    /\ UNCHANGED tvars

TNext ==
    \/ BaseStep \/ SpuriousWakeup \/ Destroy \/ ThreadStep
    \/ \E t \in Threads : UserQueues(t) \/ UserQuits(t) \/ UserStep(t)
    \/ TOver

\* The scheduler runs every thread inside a call; Poll returns, at the latest
\* after PollTimeout; a waiter need not wake for no reason.
TSpec ==
    /\ TInit /\ [][TNext]_tvars
    /\ WF_tvars(BaseStep) /\ WF_tvars(ThreadStep)
    /\ \A t \in Threads : WF_tvars(UserStep(t))

-----------------------------------------------------------------------------

\* No dangling pointer: while `loop` is set the EventLoop it points to is alive
\* (lines 57 and 69 against the end of threadFunc's scope).  Until somebody sets
\* `quit', so it is for every call of the loop under way, from the claim of a slot to
\* the wakeup, and for ~EventloopThread, which read `loop` without the mutex (line
\* 21) and is about to enter quit_ (line 23).  Once `quit' is set nothing is said:
\* the wakeup at the end of quit_ (EventLoop.cpp:121) may find the loop gone.
NoDanglingLoop ==
    loop \/ (~quit /\ (bpc = "quit" \/ \E t \in Threads : cpc[t] # "idle")) => Alive

\* startLoop returns, with the loop, unless the I/O thread itself quits the loop
\* before the base thread has seen it; ~EventloopThread returns, whatever is
\* queued in the loop and whoever else quits it.
StartAndStopReturn ==
    /\ <>(bpc = "serve" \/ Loop \in quitters)
    /\ bpc = "test" ~> bpc = "gone"
=============================================================================
