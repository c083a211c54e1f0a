--------------------------- MODULE TcpConnection ---------------------------
(***************************************************************************)
(* The state word of one connection, a TcpConnection                       *)
(* (src/TcpConnection.cpp) or an ssl_TcpConnection                         *)
(* (src/https/ssl_TcpConnection.cpp): user threads call send, set_unused,  *)
(* shutdown, forceClose and forceCloseWithDelay; each call is a sequence   *)
(* of atomic loads, stores, compare-and-swaps and futex waits on state_,   *)
(* and hands work to the connection's event loop.  The loop thread runs    *)
(* that work, the same calls made from its callbacks, and handle_ep_hup,   *)
(* which is all the two kinds do differently with the word.                *)
(*                                                                         *)
(* The word is a record: its phase bits, the bits used and writing, and    *)
(* the senders count kept above senders_offset.  The loop's functor queue  *)
(* is a FIFO, which is what MpmcQueue is shown to implement; it is shared  *)
(* with everything else in the loop, so a push of another thread may find  *)
(* it full and give up (queue.h:39), as EventLoop shows.  What a message   *)
(* holds and how much of it the socket takes is left to ConnectionIO:      *)
(* writing is the step SendInLoop, which may leave something to wait.      *)
(* kw_unlikely(old_state & Disconnected) expands to                        *)
(* !!old_state & Disconnected, which is 0: that test never fires, and the  *)
(* word Disconnected is caught by the test of `used' that follows it.      *)
(***************************************************************************)
EXTENDS Integers, Sequences, FiniteSets

CONSTANTS
    Users,     \* threads other than the loop's
    Loop,      \* the loop's thread
    MaxCalls   \* bound: calls each thread makes

Ops == {"send", "set_unused", "shutdown", "forceClose"}

ASSUME ConnectionAssumption ==
    /\ IsFiniteSet(Users) /\ Loop \notin Users
    /\ MaxCalls \in [Users \cup {Loop} -> Nat]

VARIABLES
    kind,      \* "plain" or "ssl"
    state_,    \* the atomic word
    pending,   \* functors queued in the loop
    timers,    \* timers that will run forceCloseInLoop
    open,      \* the channel is enabled and the socket not closed
    ssl_,      \* the SSL has not been freed
    closed,    \* calls of closeCallback_
    revived,   \* history: Disconnected was overwritten, or closeCallback_ called
               \* forceClose before it was stored
    shut,      \* the write side of the socket is shut down
    left,      \* something waits in outputBuffers_ to be written
    lost,      \* history: shutdownInLoop found the loop's queue full
    pc, op,    \* where each thread is, and in which call
    old,       \* its local old_state
    calls      \* calls it may still make

hup == <<kind, timers, ssl_, closed, revived>>
out == <<shut, left, lost>>
vars == <<hup, state_, pending, open, out, pc, op, old, calls>>

Threads == Users \cup {Loop}

\* The word: a phase, the used and writing marks and the count of senders.
Bare(p) == [phase |-> p, used |-> FALSE, writing |-> FALSE, senders |-> 0]
ConnectedUsed == [Bare("Connected") EXCEPT !.used = TRUE]
Marked(w) == [w EXCEPT !.writing = TRUE]
Cleared(w) == [w EXCEPT !.writing = FALSE]
Plus(w, n) == [w EXCEPT !.senders = @ + n]
Unused(w) == [w EXCEPT !.used = FALSE]

\* Both constructors leave Connecting and queue connectEstablished.
Init ==
    /\ state_ = Bare("Connecting")
    /\ pending = <<"connectEstablished">>
    /\ open = FALSE /\ shut = FALSE /\ left = FALSE /\ lost = FALSE
    /\ kind \in {"plain", "ssl"} /\ ssl_ = (kind = "ssl")
    /\ timers = 0 /\ closed = 0 /\ revived = FALSE
    /\ pc = [t \in Threads |-> "idle"]
    /\ op = [t \in Threads |-> "none"]
    /\ old = [t \in Threads |-> Bare("Connecting")]
    /\ calls = MaxCalls

At(t, l) == pc[t] = l

\* t goes on to l, with old_state = w; the local is kept where it is still read.
Held(t, l, w) ==
    [old EXCEPT ![t] = IF l \in {"futex", "loop", "count", "release", "clear"} THEN w
                       ELSE Bare("Connecting")]
Returning(t, l) == op' = IF l = "idle" THEN [op EXCEPT ![t] = "none"] ELSE op
GotoWith(t, l, w) ==
    pc' = [pc EXCEPT ![t] = l] /\ old' = Held(t, l, w) /\ Returning(t, l)
Goto(t, l) == GotoWith(t, l, old[t])
GotoWaking(t, l) ==
    /\ pc' = [u \in Threads |-> IF u = t THEN l
                               ELSE IF pc[u] = "asleep" THEN "reload" ELSE pc[u]]
    /\ old' = Held(t, l, old[t]) /\ Returning(t, l)
\* Returning from set_unused: forceCloseInLoop goes on to handle_ep_hup, and the
\* handle_ep_hup of ssl_TcpConnection to closing the socket.
After(t) == CASE op[t] = "forceClose" -> "hup" [] op[t] = "hup" -> "hup_close" [] OTHER -> "idle"
InUnuse(t) == At(t, "loop") /\ op[t] \in {"set_unused", "forceClose", "hup"}

-----------------------------------------------------------------------------
(* Entering a call: the first load, and the wait while Connecting. *)

Enter(t, o) ==
    LET l == IF state_.phase = "Connecting" THEN "futex" ELSE "loop"
    IN /\ op' = [op EXCEPT ![t] = o]
       /\ pc' = [pc EXCEPT ![t] = l]
       /\ old' = [old EXCEPT ![t] = state_]

Spend(t) == calls[t] > 0 /\ calls' = [calls EXCEPT ![t] = @ - 1]

\* The loop thread is in a callback of a live channel, a user thread anywhere.
MayCall(t) == At(t, "idle") /\ (t = Loop => open)

Call(t, o) ==
    /\ o # "forceClose" \/ t = Loop
    /\ MayCall(t) /\ Spend(t)
    /\ Enter(t, o)
    /\ UNCHANGED <<hup, state_, pending, open, out>>

\* queueInLoop ignores that push gives up on a full queue.
QueueInLoop(f) ==
    \/ pending' = Append(pending, f) /\ UNCHANGED lost
    \/ lost' = (lost \/ f = "shutdownInLoop") /\ UNCHANGED pending

\* forceClose off the loop thread only queues forceCloseInLoop.
ForceCloseQueued(t) ==
    /\ t # Loop
    /\ MayCall(t) /\ Spend(t)
    /\ QueueInLoop("forceCloseInLoop")
    /\ UNCHANGED <<hup, state_, open, shut, left, pc, op, old>>

\* forceCloseWithDelay does something only if the connection is not in use: it loads
\* the word,
ForceCloseDelayed(t) ==
    /\ MayCall(t) /\ Spend(t)
    /\ state_ \in {Bare("Connected"), Bare("Disconnecting")}
    /\ Goto(t, "delay")
    /\ UNCHANGED <<hup, state_, pending, open, out>>

\* stores Disconnecting and adds a timer that runs forceCloseInLoop.  Nothing says that
\* the timer runs.
DelayStore(t) ==
    /\ At(t, "delay") /\ Goto(t, "idle")
    /\ state_' = Bare("Disconnecting")
    /\ timers' = timers + 1
    /\ revived' = (revived \/ state_.phase = "Disconnected")
    /\ UNCHANGED <<kind, ssl_, closed, pending, open, out, calls>>

\* futex_wait(&state_, old_state) sleeps only if the word still has that value.
FutexWait(t) ==
    /\ At(t, "futex")
    /\ Goto(t, IF state_ = old[t] THEN "asleep" ELSE "reload")
    /\ UNCHANGED <<hup, state_, pending, open, out, calls>>

Reload(t) ==
    /\ At(t, "reload")
    /\ GotoWith(t, "loop", state_)
    /\ UNCHANGED <<hup, state_, pending, open, out, calls>>

InLoop(t, o) == At(t, "loop") /\ op[t] = o

-----------------------------------------------------------------------------
(* send *)

SendRefused(t) ==
    /\ InLoop(t, "send") /\ ~old[t].used
    /\ Goto(t, "idle")
    /\ UNCHANGED <<hup, state_, pending, open, out, calls>>

\* Mutant: the joining sender is not counted.
SendJoinUncounted(t) ==
    /\ InLoop(t, "send") /\ old[t].used /\ old[t].writing
    /\ Goto(t, "accepted")
    /\ UNCHANGED <<hup, state_, pending, open, out, calls>>

\* Another sender is writing: join it by counting this one.
SendJoin(t) ==
    /\ InLoop(t, "send") /\ old[t].used /\ old[t].writing
    /\ IF state_ = old[t]
       THEN state_' = Plus(old[t], 1) /\ Goto(t, "accepted")
       ELSE GotoWith(t, "loop", state_) /\ UNCHANGED state_
    /\ UNCHANGED <<hup, pending, open, out, calls>>

SendMark(t) ==
    /\ InLoop(t, "send") /\ old[t].used /\ ~old[t].writing
    /\ IF state_ = old[t]
       THEN state_' = Marked(old[t]) /\ GotoWith(t, "count", Marked(old[t]))
       ELSE Goto(t, "reload") /\ UNCHANGED state_
    /\ UNCHANGED <<hup, pending, open, out, calls>>

\* The mark is on; counting this sender is tried once and the send is given up
\* when the word has moved.
SendCount(t) ==
    /\ At(t, "count")
    /\ IF state_ = old[t]
       THEN state_' = Plus(old[t], 1) /\ Goto(t, "accepted")
       ELSE GotoWith(t, "idle", state_) /\ UNCHANGED state_
    /\ UNCHANGED <<hup, pending, open, out, calls>>

\* sendInLoop is called at once on the loop thread and queued otherwise.
SendAccepted(t) ==
    /\ At(t, "accepted")
    /\ IF t = Loop
       THEN Goto(t, "in_loop") /\ UNCHANGED <<pending, lost>>
       ELSE Goto(t, "idle") /\ QueueInLoop("sendInLoop")
    /\ UNCHANGED <<hup, state_, open, shut, left, calls>>

-----------------------------------------------------------------------------
(* set_unused *)

UnuseRefused(t) ==
    /\ InUnuse(t)
    /\ ~old[t].used
    /\ Goto(t, After(t))
    /\ UNCHANGED <<hup, state_, pending, open, out, calls>>

UnuseWait(t) ==
    /\ InUnuse(t)
    /\ old[t].used /\ old[t].writing
    /\ Goto(t, "futex")
    /\ UNCHANGED <<hup, state_, pending, open, out, calls>>

\* Mutant: set_unused does not mind a writer.
UnuseCasEarly(t) ==
    /\ InUnuse(t)
    /\ old[t].used /\ state_ = old[t]
    /\ state_' = [Unused(old[t]) EXCEPT !.writing = FALSE] /\ GotoWaking(t, After(t))
    /\ UNCHANGED <<hup, pending, open, out, calls>>

UnuseCas(t) ==
    /\ InUnuse(t)
    /\ old[t].used /\ ~old[t].writing
    /\ IF state_ = old[t]
       THEN state_' = Unused(old[t]) /\ GotoWaking(t, After(t))
       ELSE GotoWith(t, "loop", state_) /\ UNCHANGED state_
    /\ UNCHANGED <<hup, pending, open, out, calls>>

-----------------------------------------------------------------------------
(* shutdown *)

ShutdownLate(t) ==
    /\ InLoop(t, "shutdown") /\ old[t].phase \in {"Disconnected", "Disconnecting"}
    /\ Goto(t, "idle")
    /\ UNCHANGED <<hup, state_, pending, open, out, calls>>

\* The futex is the local variable, compared with Connected|used: when they are
\* equal the thread sleeps where nobody wakes it, otherwise it reloads and tries
\* again.
ShutdownWait(t) ==
    /\ InLoop(t, "shutdown") /\ old[t].phase \in {"Connecting", "Connected"} /\ old[t].used
    /\ Goto(t, IF old[t] = ConnectedUsed THEN "asleep_local" ELSE "reload")
    /\ UNCHANGED <<hup, state_, pending, open, out, calls>>

\* Mutant: a store in place of the compare-and-swap.
ShutdownStore(t) ==
    /\ InLoop(t, "shutdown") /\ old[t].phase \in {"Connecting", "Connected"} /\ ~old[t].used
    /\ state_' = Bare("Disconnecting") /\ Goto(t, "shutting")
    /\ UNCHANGED <<hup, pending, open, out, calls>>

ShutdownCas(t) ==
    /\ InLoop(t, "shutdown") /\ old[t].phase \in {"Connecting", "Connected"} /\ ~old[t].used
    /\ IF state_ = old[t]
       THEN state_' = Bare("Disconnecting") /\ Goto(t, "shutting")
       ELSE GotoWith(t, "loop", state_) /\ UNCHANGED state_
    /\ UNCHANGED <<hup, pending, open, out, calls>>

\* Mutant: shutdown off the loop thread does not queue shutdownInLoop.
ShutdownRunHere(t) ==
    /\ At(t, "shutting") /\ Goto(t, "idle")
    /\ shut' = (t = Loop \/ shut)
    /\ UNCHANGED <<hup, state_, pending, open, left, lost, calls>>

\* runInLoop(shutdownInLoop)
ShutdownRun(t) ==
    /\ At(t, "shutting") /\ Goto(t, "idle")
    /\ IF t = Loop
       THEN shut' = TRUE /\ UNCHANGED <<pending, lost>>
       ELSE QueueInLoop("shutdownInLoop") /\ UNCHANGED shut
    /\ UNCHANGED <<hup, state_, open, left, calls>>

-----------------------------------------------------------------------------
(* The loop thread: queued functors and the hang-up handler. *)

Take(f) ==
    /\ At(Loop, "idle") /\ pending # <<>> /\ Head(pending) = f
    /\ pending' = Tail(pending)

\* Mutant: those who wait for the connection are not woken.
ConnectEstablishedSilent ==
    /\ Take("connectEstablished")
    /\ state_' = ConnectedUsed /\ open' = TRUE
    /\ Goto(Loop, "idle")
    /\ UNCHANGED <<hup, out, calls>>

ConnectEstablished ==
    /\ Take("connectEstablished")
    /\ state_' = ConnectedUsed /\ open' = TRUE
    /\ GotoWaking(Loop, "idle")
    /\ UNCHANGED <<hup, out, calls>>

RunShutdownInLoop ==
    /\ Take("shutdownInLoop")
    /\ shut' = TRUE
    /\ UNCHANGED <<hup, state_, open, left, lost, pc, op, old, calls>>

RunForceCloseInLoop ==
    /\ Take("forceCloseInLoop")
    /\ Enter(Loop, "forceClose")
    /\ UNCHANGED <<hup, state_, open, out, calls>>

RunSendInLoop ==
    /\ Take("sendInLoop")
    /\ Goto(Loop, "in_loop")
    /\ UNCHANGED <<hup, state_, open, out, calls>>

\* The word is loaded before the message is written and not again before the
\* count is given back.  What SSL_write does not take, and what comes after it, waits in
\* outputBuffers_; a plain socket takes all of it, or the message is lost.
SendInLoop ==
    /\ At(Loop, "in_loop")
    /\ GotoWith(Loop, "release", state_)
    /\ left' \in IF kind = "plain" \/ left THEN {left} ELSE BOOLEAN
    /\ UNCHANGED <<hup, state_, pending, open, shut, lost, calls>>

\* handle_ep_out writes what waits, when the socket takes it all.
WriteWaiting ==
    /\ At(Loop, "idle") /\ open /\ ~shut
    /\ left /\ left' = FALSE
    /\ UNCHANGED <<hup, state_, pending, open, shut, lost, pc, op, old, calls>>

ReleaseNot ==
    /\ At(Loop, "release") /\ ~(old[Loop].used /\ old[Loop].writing)
    /\ Goto(Loop, "idle")
    /\ UNCHANGED <<hup, state_, pending, open, out, calls>>

\* The count is given back by one attempt.
Release ==
    /\ At(Loop, "release") /\ old[Loop].used /\ old[Loop].writing
    /\ IF state_ = old[Loop]
       THEN /\ state_' = Plus(old[Loop], -1)
            /\ GotoWith(Loop, IF old[Loop].senders = 1 THEN "clear" ELSE "idle",
                        Plus(old[Loop], -1))
       ELSE GotoWith(Loop, "idle", state_) /\ UNCHANGED state_
    /\ UNCHANGED <<hup, pending, open, out, calls>>

\* The last sender takes the mark off, unless another one came in meanwhile.
ClearWriting ==
    /\ At(Loop, "clear")
    /\ IF state_ = old[Loop]
       THEN state_' = Cleared(old[Loop]) /\ GotoWaking(Loop, "idle")
       ELSE GotoWith(Loop, "idle", state_) /\ UNCHANGED state_
    /\ UNCHANGED <<hup, pending, open, out, calls>>

\* A timer of forceCloseWithDelay runs.
RunDelayed ==
    /\ At(Loop, "idle") /\ timers > 0
    /\ timers' = timers - 1
    /\ Enter(Loop, "forceClose")
    /\ UNCHANGED <<kind, revived, ssl_, closed, state_, pending, open, out, calls>>

\* An event of the socket ends in handle_ep_hup.
HupEvent ==
    /\ At(Loop, "idle") /\ open
    /\ Goto(Loop, "hup")
    /\ UNCHANGED <<hup, state_, pending, open, out, calls>>

HupAlready ==
    /\ At(Loop, "hup") /\ state_.phase = "Disconnected"
    /\ Goto(Loop, "idle")
    /\ UNCHANGED <<hup, state_, pending, open, out, calls>>

\* TcpConnection::handle_ep_hup closes the socket, stores Disconnected and calls
\* closeCallback_.
HupClose ==
    /\ At(Loop, "hup") /\ state_.phase # "Disconnected" /\ kind = "plain"
    /\ Goto(Loop, "hup_store") /\ open' = FALSE
    /\ UNCHANGED <<hup, state_, pending, out, calls>>

\* Mutant: the SSL is freed, the socket closed, and nobody is asked whether they write.
HupSslFreeAtOnce ==
    /\ At(Loop, "hup") /\ state_.phase # "Disconnected" /\ kind = "ssl"
    /\ ssl_' = FALSE /\ open' = FALSE
    /\ Goto(Loop, "hup_cb")
    /\ UNCHANGED <<kind, revived, timers, closed, state_, pending, out, calls>>

\* ssl_TcpConnection::handle_ep_hup frees the SSL, and with it what waits, calls
\* set_unused, closes the socket, calls closeCallback_ and stores Disconnected.
HupSslFree ==
    /\ At(Loop, "hup") /\ state_.phase # "Disconnected" /\ kind = "ssl"
    /\ ssl_' = FALSE /\ left' = FALSE
    /\ Enter(Loop, "hup")
    /\ UNCHANGED <<kind, revived, timers, closed, state_, pending, open, shut, lost, calls>>

HupSslClose ==
    /\ At(Loop, "hup_close")
    /\ Goto(Loop, "hup_cb") /\ open' = FALSE
    /\ UNCHANGED <<hup, state_, pending, out, calls>>

\* Mutant: closeCallback_ finds the word as it was.
HupStoreNot ==
    /\ At(Loop, "hup_store")
    /\ state_' = IF kind = "plain" THEN Unused(Cleared(state_)) ELSE Bare("Disconnected")
    /\ GotoWaking(Loop, IF kind = "plain" THEN "hup_cb" ELSE "idle")
    /\ UNCHANGED <<hup, pending, open, out, calls>>

HupStore ==
    /\ At(Loop, "hup_store")
    /\ state_' = Bare("Disconnected")
    /\ GotoWaking(Loop, IF kind = "plain" THEN "hup_cb" ELSE "idle")
    /\ UNCHANGED <<hup, pending, open, out, calls>>

AfterCallback == IF kind = "plain" THEN "idle" ELSE "hup_store"

CloseCallback ==
    /\ At(Loop, "hup_cb")
    /\ closed' = closed + 1 /\ Goto(Loop, AfterCallback)
    /\ UNCHANGED <<kind, revived, timers, ssl_, state_, pending, open, out, calls>>

\* The callback calls forceClose, which runs forceCloseInLoop at once.  The word is not
\* in use any more, so only handle_ep_hup counts: it returns if the word is Disconnected,
\* and otherwise closes once more, down to the callback and the store.
CloseCallbackForceCloses ==
    /\ At(Loop, "hup_cb") /\ Spend(Loop)
    /\ IF state_.phase = "Disconnected"
       THEN closed' = closed + 1 /\ Goto(Loop, AfterCallback) /\ UNCHANGED <<state_, revived>>
       ELSE /\ closed' = closed + 2 /\ revived' = (revived \/ kind = "ssl")
            /\ state_' = Bare("Disconnected") /\ GotoWaking(Loop, AfterCallback)
    /\ UNCHANGED <<kind, timers, ssl_, pending, open, out>>

-----------------------------------------------------------------------------

CallStep(t) ==
    \/ FutexWait(t) \/ Reload(t)
    \/ SendRefused(t) \/ SendJoin(t) \/ SendMark(t) \/ SendCount(t) \/ SendAccepted(t)
    \/ UnuseRefused(t) \/ UnuseWait(t) \/ UnuseCas(t)
    \/ DelayStore(t)
    \/ ShutdownLate(t) \/ ShutdownWait(t) \/ ShutdownCas(t) \/ ShutdownRun(t)

FunctorStep ==
    \/ ConnectEstablished \/ RunShutdownInLoop \/ RunForceCloseInLoop \/ RunSendInLoop
    \/ SendInLoop \/ ReleaseNot \/ Release \/ ClearWriting
    \/ HupAlready \/ HupClose \/ HupSslFree \/ HupSslClose \/ HupStore \/ CloseCallback

\* Every call has returned and the loop waits in poll with nothing queued.
Quiescent ==
    /\ \A t \in Threads : At(t, "idle")
    /\ pending = <<>>
    /\ UNCHANGED vars

Next ==
    \/ \E t \in Threads, o \in Ops : Call(t, o)
    \/ \E t \in Users : ForceCloseQueued(t)
    \/ \E t \in Threads : ForceCloseDelayed(t)
    \/ \E t \in Threads : CallStep(t)
    \/ FunctorStep
    \/ HupEvent \/ WriteWaiting \/ RunDelayed \/ CloseCallbackForceCloses
    \/ Quiescent

Spec == Init /\ [][Next]_vars

\* Threads inside a call and the loop with queued functors keep running: the
\* scheduler runs every runnable thread, and Loop() drains its queue.
FairSpec ==
    /\ Spec
    /\ \A t \in Threads : WF_vars(CallStep(t))
    /\ WF_vars(FunctorStep)

-----------------------------------------------------------------------------

\* Messages accepted by send whose sendInLoop has not given its count back.
Unwritten ==
    Cardinality({i \in 1..Len(pending) : pending[i] = "sendInLoop"})
    + Cardinality({t \in Threads : pc[t] \in {"accepted", "in_loop"}})
Unreleased == Unwritten + (IF At(Loop, "release") THEN 1 ELSE 0)

\* The count in the word covers every accepted message: until hang-up it is at
\* least the number of messages whose sendInLoop has still to give its count back
\* (lines 186, 197 and 472).  It never goes below zero, although line 472 subtracts without
\* a test, and is positive under the writing mark only.
SendersCounted ==
    /\ state_.phase # "Disconnected" => Unreleased <= state_.senders
    /\ state_.senders >= 0 /\ (state_.senders > 0 => state_.writing)

\* shutdownInLoop says "we are not writing" (line 596): from the moment shutdown
\* has moved the word to Disconnecting, through its functor in the loop and
\* until hang-up, every accepted message has been through sendInLoop.  Only what TLS
\* left in outputBuffers_ may wait (ssl_TcpConnection.cpp:172 to 183), and shutdownInLoop,
\* which does not look there, then cuts it off.
ShutdownAfterSends ==
    state_.phase = "Disconnecting" =>
        Unwritten = 0 /\ ~state_.writing /\ (left => kind = "ssl")

\* Disconnected is final: no compare-and-swap on a value loaded before the
\* hang-up, and no later call, brings the connection back, except the store of
\* forceCloseWithDelay, whose test of the word is two loads earlier (line 637).
DisconnectedIsFinal ==
    [][state_.phase = "Disconnected" => \E t \in Threads : DelayStore(t)]_state_

\* sendInLoop never gives SSL_write the freed SSL of a connection that hung up: the
\* hang-up frees it first (line 285) and only then waits for the senders (line 288),
\* on the very thread that would run their sendInLoop.
SslOpenWhileSending ==
    kind = "ssl" /\ At(Loop, "in_loop") => ssl_

\* closeCallback_ is called once, so that the owner of the connection removes it once,
\* even if the callback calls forceClose: TcpConnection stores Disconnected before it.
\* ssl_TcpConnection stores it afterwards (line 294), and forceCloseWithDelay may
\* store Disconnecting over it (line 637).
ClosedOnce == closed > 1 => revived

\* The loop thread is itself inside a call that waits: for writing only it can end
\* (lines 139 and 655), or in shutdown for a release that may not come (line 568).
LoopWaits == op[Loop] \notin {"send", "none"}

\* A shutdown that got the word ends with the write side shut down, unless the
\* connection hangs up first, the loop thread waits for ever, or the loop's queue was full
\* (EventLoop.cpp:136) and shutdownInLoop is lost.
ShutdownTakesEffect ==
    (\E t \in Threads : At(t, "shutting"))
        ~> (shut \/ state_.phase = "Disconnected" \/ lost \/ []LoopWaits)

\* set_unused and shutdown come back to a user thread; shutdown is "thread safe"
\* (TcpConnection.h:62).  The writing that set_unused waits for ends, unless a sendInLoop
\* was lost on a full queue or has failed to give its count back (line 485), which leaves
\* the count above the messages it stands for, or the loop thread waits for ever.
\* shutdown has its answer once the connection is not in use any more, unless it had
\* loaded Connected|used and sleeps on its own local variable (line 568), which nobody
\* wakes.
CallsReturn ==
    \A t \in Users :
        /\ (op[t] = "set_unused" /\ ~At(t, "idle"))
               ~> (At(t, "idle") \/ state_.senders > Unreleased \/ []LoopWaits)
        /\ (op[t] = "shutdown" /\ ~At(t, "idle") /\ ~state_.used /\ state_.phase # "Connecting")
               ~> (At(t, "idle") \/ At(t, "asleep_local"))
=============================================================================
