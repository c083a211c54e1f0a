----------------------------- MODULE TcpServer -----------------------------
(***************************************************************************)
(* A TcpServer, its Acceptor and its EventloopThreadPool (TcpServer.cpp,   *)
(* basics/Acceptor.cpp, EventloopThreadPool.cpp) and the life of its       *)
(* connections from accept to destructor.  Every loop's thread handles the *)
(* channels Poll reported, then drains its functors.  A handler is atomic, *)
(* but handleRead and handle_sig_int deal with one connection at a time.   *)
(* A TcpConnection lives as long as a shared_ptr to it: the entry of       *)
(* connections_, a functor that captured one, or the user's.  The functor  *)
(* of forceClose captures a plain `this`.  A loop's queue of functors is   *)
(* shared with functors that are not modelled and may be full whenever     *)
(* something is pushed: the push gives up, and queueInLoop does not see it.*)
(***************************************************************************)
EXTENDS Integers, Sequences

CONSTANTS
    Main,        \* the acceptor's loop
    IoLoops,     \* the loops of the pool's threads
    Pools,       \* the I/O loops a server may have: sequences, <<>> when threadNum is 0
    MaxConns,    \* bound: connections accepted
    MaxStarts    \* bound: calls of start()

ASSUME ServerAssumption ==
    /\ Main \notin IoLoops /\ Pools \subseteq Seq(IoLoops)
    /\ \A p \in Pools : \A i, j \in 1..Len(p) : p[i] = p[j] => i = j
    /\ MaxConns \in Nat /\ MaxStarts \in Nat

VARIABLES
    loops,        \* EventloopThreadPool::loops, once started
    started_,     \* TcpServer::started_, which no constructor initialises
    poolStarted,  \* EventloopThreadPool::started
    starts,
    listening_,   \* the acceptor's channel is registered
    next,         \* EventloopThreadPool::next
    connections_, \* the map's keys
    accepted,     \* nextConnId_ - 1
    state,        \* state_ of each connection
    loopOf,       \* its loop
    held,         \* a user thread's shared_ptr to it: "none", "held" or "dropped"
    phase,        \* each loop: "poll", "events" (main also "accept", and in handle_sig_int
                  \* "closing" and "erased"), "drain" or "done"
    active,       \* activeChannels of each loop
    queue,        \* pendingFunctors of each loop
    lost,         \* history: the functors that found it full
    quit,         \* quit of the main loop
    signalled,    \* SIGINT has been delivered
    failed        \* the assertion that ended the program, or "none"

server == <<loops, started_, poolStarted, starts, listening_, next>>
poller == <<phase, active, quit>>
vars == <<server, connections_, accepted, state, loopOf, held, poller, queue, lost, signalled,
          failed>>

Conns == 1..MaxConns
AllLoops == IoLoops \cup {Main}
Live == failed = "none"

Init ==
    /\ loops \in Pools
    /\ started_ \in BOOLEAN /\ poolStarted = FALSE /\ starts = 0
    /\ listening_ = FALSE /\ next = 0
    /\ connections_ = {} /\ accepted = 0 /\ held = [c \in Conns |-> "none"]
    /\ state = [c \in Conns |-> "none"] /\ loopOf = [c \in Conns |-> Main]
    /\ phase = [l \in AllLoops |-> "poll"] /\ active = [l \in AllLoops |-> {}]
    /\ queue = [l \in AllLoops |-> <<>>] /\ lost = {}
    /\ quit = FALSE /\ signalled = FALSE /\ failed = "none"

Functor(f, c) == [f |-> f, c |-> c]

\* Someone has a shared_ptr to c: otherwise ~TcpConnection has run.
Alive(c) ==
    \/ c \in connections_ \/ held[c] = "held"
    \/ \E l \in AllLoops : \E i \in DOMAIN queue[l] :
          queue[l][i] \in {Functor("connectEstablished", c), Functor("removeConnectionInLoop", c)}
Destroyed(c) == state[c] # "none" /\ ~Alive(c)

-----------------------------------------------------------------------------
(* What handlers do, as the new values of the map, the states, the queues and
   the failure: a record w of them is threaded through the calls.  A handler pushes at
   most one functor; room tells whether the queue it is pushed to has room. *)

World(room) ==
    [map |-> connections_, st |-> state, q |-> queue, bad |-> failed, room |-> room, lost |-> lost]
Becomes(w) ==
    /\ connections_' = w.map /\ state' = w.st /\ queue' = w.q /\ failed' = w.bad
    /\ lost' = w.lost

\* EventLoop::queueInLoop of loop l, whose push gives up, and does not say so, when it
\* finds no room.
queueInLoop(w, l, f) ==
    IF w.room THEN [w EXCEPT !.q[l] = Append(@, f)] ELSE [w EXCEPT !.lost = @ \cup {f}]

\* Mutant: the entry is not erased.
removeConnectionNot(w, c) == w

\* assert(n == 1)
removeConnectionInLoop(w, c) ==
    [w EXCEPT !.map = @ \ {c}, !.bad = IF c \in w.map THEN @ ELSE "TcpServer.cpp:100"]

\* removeConnection: runInLoop(removeConnectionInLoop) from the thread of loop l.
removeConnection(w, c, l) ==
    IF l = Main THEN removeConnectionInLoop(w, c)
    ELSE queueInLoop(w, Main, Functor("removeConnectionInLoop", c))

\* Mutant: a second hang-up is not told from the first.
handle_ep_hup_again(w, c, l) == removeConnection([w EXCEPT !.st[c] = "Disconnected"], c, l)

\* Mutant: Disconnected is not stored.
handle_ep_hup_silent(w, c, l) == removeConnection(w, c, l)

\* handle_ep_hup, in the thread of l, the loop of c.
handle_ep_hup(w, c, l) ==
    IF w.st[c] = "Disconnected" THEN w
    ELSE removeConnection([w EXCEPT !.st[c] = "Disconnected"], c, l)

\* connectEstablished, whose callback may close the connection, as the echo
\* server's does.
connectEstablished(w, c, l) ==
    LET up == [w EXCEPT !.st[c] = "Connected"] IN {up, handle_ep_hup(up, c, l)}

\* The functor of forceClose may find its connection destroyed.
forceCloseInLoop(w, c, l) ==
    IF Destroyed(c) THEN [w EXCEPT !.bad = "TcpConnection.cpp:655"] ELSE handle_ep_hup(w, c, l)

\* forceClose called in the thread of loop l.
forceClose(w, c, l) ==
    IF l = loopOf[c] THEN handle_ep_hup(w, c, l)
    ELSE queueInLoop(w, loopOf[c], Functor("forceCloseInLoop", c))

-----------------------------------------------------------------------------
(* start() *)

Start ==
    /\ Live /\ phase[Main] = "poll" /\ starts < MaxStarts /\ starts' = starts + 1
    /\ IF started_ THEN UNCHANGED <<poolStarted, listening_, failed>>
       ELSE IF poolStarted
       THEN failed' = "EventloopThreadPool.cpp:17" /\ UNCHANGED <<poolStarted, listening_>>
       ELSE poolStarted' = TRUE /\ listening_' = TRUE /\ UNCHANGED failed
    /\ UNCHANGED <<loops, started_, next, connections_, accepted, state, loopOf, held, poller,
                   queue, lost, signalled>>

-----------------------------------------------------------------------------
(* The loops: Poll, the active channels, the functors. *)

Channel(kind, c) == [kind |-> kind, c |-> c]

\* The channels epoll may report in l.
Ready(l) ==
    {Channel("conn", c) : c \in {d \in Conns : state[d] = "Connected" /\ loopOf[d] = l}}
        \cup {Channel("accept", 0) : x \in {y \in {Main} : l = y /\ listening_ /\ accepted < MaxConns}}
        \cup {Channel("signal", 0) : x \in {y \in {Main} : l = y /\ poolStarted /\ ~signalled}}

Poll(l) ==
    /\ Live /\ phase[l] = "poll" /\ (l = Main => ~quit)
    /\ \E ready \in SUBSET Ready(l) : active' = [active EXCEPT ![l] = ready]
    /\ phase' = [phase EXCEPT ![l] = "events"]
    /\ UNCHANGED <<server, connections_, accepted, state, loopOf, held, quit, queue, lost,
                   signalled, failed>>

Handles(l, ch) ==
    /\ Live /\ phase[l] = "events" /\ ch \in active[l]
    /\ active' = [active EXCEPT ![l] = @ \ {ch}] /\ UNCHANGED phase

\* Acceptor::handleRead: accepts until nobody is waiting.
HandleRead ==
    /\ Live /\ phase[Main] = "events" /\ Channel("accept", 0) \in active[Main]
    /\ active' = [active EXCEPT ![Main] = @ \ {Channel("accept", 0)}]
    /\ phase' = [phase EXCEPT ![Main] = "accept"]
    /\ UNCHANGED <<server, connections_, accepted, state, loopOf, held, quit, queue, lost,
                   signalled, failed>>

\* EventloopThreadPool::getNextLoop: round robin, next is advanced first.
NextLoop == IF loops = <<>> THEN 0 ELSE (next + 1) % Len(loops)

\* TcpServer::newConnection.
NewConnection ==
    /\ Live /\ phase[Main] = "accept" /\ accepted < MaxConns
    /\ \E room \in BOOLEAN :
          LET c == accepted + 1
              n == NextLoop
              l == IF loops = <<>> THEN Main ELSE loops[n + 1]
              w == [World(room) EXCEPT !.st[c] = "Connecting", !.map = @ \cup {c}]
          IN  /\ accepted' = c /\ next' = n /\ loopOf' = [loopOf EXCEPT ![c] = l]
              /\ IF l = Main THEN \E v \in connectEstablished(w, c, l) : Becomes(v)
                 ELSE Becomes(queueInLoop(w, l, Functor("connectEstablished", c)))
    /\ UNCHANGED <<loops, started_, poolStarted, starts, listening_, held, poller, signalled>>

AcceptDone ==
    /\ Live /\ phase[Main] = "accept" /\ phase' = [phase EXCEPT ![Main] = "events"]
    /\ UNCHANGED <<server, connections_, accepted, state, loopOf, held, active, quit, queue,
                   lost, signalled, failed>>

\* The peer closes c, or a read or a write of it fails; its channel has no
\* callback any more once c is Disconnected.
ConnectionEvent(l, c) ==
    /\ Handles(l, Channel("conn", c)) /\ UNCHANGED loopOf
    /\ \E room \in BOOLEAN : Becomes(handle_ep_hup(World(room), c, l))
    /\ UNCHANGED <<server, accepted, held, quit, signalled>>

\* TcpServer::handle_sig_int stops the acceptor,
HandleSigInt ==
    /\ Live /\ phase[Main] = "events" /\ Channel("signal", 0) \in active[Main]
    /\ active' = [active EXCEPT ![Main] = @ \ {Channel("signal", 0)}]
    /\ phase' = [phase EXCEPT ![Main] = "closing"]
    /\ signalled' = TRUE /\ listening_' = FALSE
    /\ UNCHANGED <<loops, started_, poolStarted, starts, next, connections_, accepted, state,
                   loopOf, held, quit, queue, lost, failed>>

\* closes connections and erases them.  The loop erases the entry its iterator is at, so
\* that which entry comes next, if any, is undefined: it closes at least one.
CloseAndErase(c) ==
    /\ Live /\ phase[Main] \in {"closing", "erased"} /\ c \in connections_
    /\ phase' = [phase EXCEPT ![Main] = "erased"]
    /\ \E room \in BOOLEAN :
          LET w == forceClose(World(room), c, Main) IN Becomes([w EXCEPT !.map = @ \ {c}])
    /\ UNCHANGED <<server, accepted, loopOf, held, active, quit, signalled>>

\* and tells the main loop to quit.
SigIntDone ==
    /\ Live
    /\ phase[Main] = "erased" \/ (phase[Main] = "closing" /\ connections_ = {})
    /\ phase' = [phase EXCEPT ![Main] = "events"] /\ quit' = TRUE
    /\ UNCHANGED <<server, connections_, accepted, state, loopOf, held, active, queue, lost,
                   signalled, failed>>

EventsDone(l) ==
    /\ Live /\ phase[l] = "events" /\ active[l] = {}
    /\ phase' = [phase EXCEPT ![l] = "drain"]
    /\ UNCHANGED <<server, connections_, accepted, state, loopOf, held, active, quit, queue,
                   lost, signalled, failed>>

RunFunctor(l) ==
    /\ Live /\ phase[l] = "drain" /\ queue[l] # <<>> /\ UNCHANGED <<loopOf, phase, active>>
    /\ \E room \in BOOLEAN :
          LET f == Head(queue[l]).f
              c == Head(queue[l]).c
              w == [World(room) EXCEPT !.q[l] = Tail(@)]
          IN  \/ f = "connectEstablished" /\ \E v \in connectEstablished(w, c, l) : Becomes(v)
              \/ f = "removeConnectionInLoop" /\ Becomes(removeConnectionInLoop(w, c))
              \/ f = "forceCloseInLoop" /\ Becomes(forceCloseInLoop(w, c, l))
    /\ UNCHANGED <<server, accepted, held, quit, signalled>>

Drained(l) ==
    /\ Live /\ phase[l] = "drain" /\ queue[l] = <<>>
    /\ phase' = [phase EXCEPT ![l] = IF l = Main /\ quit THEN "done" ELSE "poll"]
    /\ UNCHANGED <<server, connections_, accepted, state, loopOf, held, active, quit, queue,
                   lost, signalled, failed>>

-----------------------------------------------------------------------------
(* A user thread that was given a connection. *)

Hold(c) ==
    /\ Live /\ held[c] = "none" /\ state[c] = "Connected"
    /\ held' = [held EXCEPT ![c] = "held"]
    /\ UNCHANGED <<server, connections_, accepted, state, loopOf, poller, queue, lost, signalled,
                   failed>>

\* forceClose, after which the thread drops its shared_ptr.
UserForceClose(c) ==
    /\ Live /\ held[c] = "held" /\ held' = [held EXCEPT ![c] = "dropped"]
    /\ \E room \in BOOLEAN :
          Becomes(queueInLoop(World(room), loopOf[c], Functor("forceCloseInLoop", c)))
    /\ UNCHANGED <<server, accepted, loopOf, poller, signalled>>

LoopStep(l) ==
    \/ Poll(l) \/ EventsDone(l) \/ RunFunctor(l) \/ Drained(l)
    \/ \E c \in Conns : ConnectionEvent(l, c)

MainStep ==
    \/ HandleRead \/ NewConnection \/ AcceptDone
    \/ HandleSigInt \/ (\E c \in Conns : CloseAndErase(c)) \/ SigIntDone

\* Loop() has returned in the main thread, or the program was aborted.
Exited == (phase[Main] = "done" \/ ~Live) /\ UNCHANGED vars

Next ==
    \/ Start \/ MainStep \/ Exited
    \/ \E l \in AllLoops : LoopStep(l)
    \/ \E c \in Conns : Hold(c) \/ UserForceClose(c)

Spec == Init /\ [][Next]_vars

\* Every loop's thread runs; Poll returns, at the latest after PollTimeout.
FairSpec == Spec /\ \A l \in AllLoops : WF_vars(LoopStep(l)) /\ WF_vars(MainStep)

-----------------------------------------------------------------------------

\* removeConnectionInLoop finds the connection in the map, once: assert(n == 1),
\* line 100, although closing is decided in the I/O loops and the map belongs to the
\* main one.  It fails only when handle_sig_int has erased the entries of
\* connections whose close is still queued in an I/O loop (line 113).
RemoveFindsConnection == failed = "TcpServer.cpp:100" => signalled /\ loops # <<>>

\* A connection is destroyed only after handle_ep_hup has made it Disconnected, but
\* when handle_sig_int erases it first; ~TcpConnection (line 84) reports the
\* contrary as a "wrong state".
DestroyedDisconnected ==
    \A c \in Conns : Destroyed(c) => state[c] = "Disconnected" \/ (signalled /\ loops # <<>>)

\* A connection that is down is destroyed in the end, unless a user keeps it, the main
\* loop has been told to quit, or the removal found the main loop's queue full when the
\* connection went down: nothing asks for it again (line 86; queue.h:39), and the map
\* keeps the connection.
ClosedIsDestroyed ==
    \A c \in Conns :
        state[c] = "Disconnected" ~>
            \/ Destroyed(c) \/ held[c] = "held" \/ quit \/ ~Live
            \/ Functor("removeConnectionInLoop", c) \in lost
=============================================================================
