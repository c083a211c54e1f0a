----------------------------- MODULE TcpClient -----------------------------
(***************************************************************************)
(* A TcpClient and its Connector (src/TcpClient.cpp, src/Connector.cpp):   *)
(* connecting, retrying with back-off, the TLS handshake                   *)
(* (src/https/ssl_handshake_handler.cpp), handing the socket over and      *)
(* reconnecting.  A user thread calls connect, disconnect and stop, whose  *)
(* work is queued in the loop; the loop's handlers are split where they    *)
(* read a flag that the user thread writes.  The outcome of connect(2), of *)
(* the event that ends a connect in progress and of SSL_connect is chosen  *)
(* by the environment.  A failed assertion, or the use of a deleted        *)
(* Channel, of a freed SSL or of an unset callback, ends the program.  Of  *)
(* the TimerQueue, which has its own module, the timerfd is kept: a timer  *)
(* that waits is run for certain only if the timerfd has been set for it.  *)
(* Addresses and names are left out.  HttpsClient makes a system of this   *)
(* module, and says what the callbacks of a connection do.                 *)
(***************************************************************************)
EXTENDS Integers, Sequences

CONSTANTS
    MaxConnects,   \* bound: calls of TcpClient::connect
    MaxStops,      \* bound: calls of TcpClient::stop and disconnect
    Outcomes,      \* outcomes of connect(2)
    AsyncFailure,  \* whether a connect in progress may fail
    Setups         \* how the client may be set up before connect

\* "now": connected at once; "progress": EINPROGRESS; "retry": ECONNREFUSED and
\* its like; "fatal": EACCES and its like.  is_http marks the client of an http_client,
\* which gives it no close callback and does not enable retry.
ASSUME ClientAssumption ==
    /\ MaxConnects \in Nat /\ MaxStops \in Nat
    /\ Outcomes \subseteq {"now", "progress", "retry", "fatal"}
    /\ AsyncFailure \in BOOLEAN
    /\ Setups \subseteq [is_http : BOOLEAN, enable_ssl_ : BOOLEAN, retry_ : BOOLEAN,
                         close_callback : BOOLEAN]
    /\ \A s \in Setups : s.is_http => s.enable_ssl_ /\ ~s.retry_ /\ ~s.close_callback

VARIABLES
    c,         \* the Connector, its timers and the client's connection_
    connect_,  \* TcpClient::connect_
    upc,       \* the user thread: "idle", or the connector's call it is to make
    lpc,       \* the loop's thread, within restart, startInLoop or connect
    queue,     \* functors queued in the loop
    timerfd,   \* "set" for a timer of the client, "off", or "walk" in handle_timers
    given_up,  \* why nothing more is tried: "none", or "errno" or "queue"
    connects, stops

clientVars == <<c, connect_, upc, lpc, queue, timerfd, given_up, connects, stops>>
user == <<connect_, upc, connects, stops>>
prospect == <<timerfd, given_up>>

InitRetryDelayMs == 500
MaxRetryDelayMs == 30000

\* channel_: "null", "live", or "deleted" when it points to a deleted Channel;
\* stale: the Poller's map still holds a deleted Channel.  timers counts pending
\* retries, reconnects those of TcpClient after a failed handshake; connection_ is the
\* client's, failed names what ended the program.
Connector(setup) ==
    [is_http       |-> setup.is_http,
     enable_ssl_   |-> setup.enable_ssl_,
     retry_        |-> setup.retry_,
     close_callback |-> setup.close_callback,
     handshake     |-> "none",
     reconnects    |-> 0,
     connect_      |-> FALSE,
     state_        |-> "Disconnected",
     channel_      |-> "null",
     stale         |-> FALSE,
     retryDelayMs_ |-> InitRetryDelayMs,
     timers        |-> 0,
     connection_   |-> FALSE,
     failed        |-> "none"]

ClientInit ==
    /\ c \in {Connector(setup) : setup \in Setups}
    /\ connect_ = FALSE /\ upc = "idle" /\ lpc = "idle" /\ queue = <<>>
    /\ timerfd = "off" /\ given_up = "none"
    /\ connects = 0 /\ stops = 0

-----------------------------------------------------------------------------
(* The Connector's handlers: the record k becomes the one returned. *)

Fails(k, where) == [k EXCEPT !.failed = where]
Doubled(ms) == IF 2 * ms < MaxRetryDelayMs THEN 2 * ms ELSE MaxRetryDelayMs

\* Mutant: no timer is set.
retryNever(k, inEvent) == [k EXCEPT !.state_ = "Disconnected"]

\* retry closes the socket and deletes the channel, whose destructor asserts that
\* no event of it is being handled; channel_ and the Poller's map are left alone.
retry(k, inEvent) ==
    IF k.channel_ = "deleted" THEN Fails(k, "Connector.cpp:234")
    ELSE IF inEvent THEN Fails(k, "Channel.cpp:32")
    ELSE LET gone == k.channel_ = "live"
             d == [k EXCEPT !.state_ = "Disconnected", !.stale = @ \/ gone,
                            !.channel_ = IF gone THEN "deleted" ELSE @]
         IN  IF d.connect_ THEN [d EXCEPT !.timers = @ + 1, !.retryDelayMs_ = Doubled(@)] ELSE d

\* The socket is connected: newConnection takes the channel over, or starts a
\* handshake on it, or the socket is closed because the connector was stopped.
established(k) ==
    IF k.connect_ /\ k.enable_ssl_
    THEN [k EXCEPT !.state_ = "Connected", !.channel_ = "live", !.handshake = "on"]
    ELSE [k EXCEPT !.state_ = "Connected",
                   !.channel_ = IF k.connect_ THEN "null" ELSE "live",
                   !.connection_ = @ \/ k.connect_]

\* A new socket may have the number of one whose Channel was deleted: add_channel
\* then returns that one.
add_channel(k, used) == {used} \cup (IF k.stale THEN {Fails(k, "Poller.cpp:50")} ELSE {})

connecting(k) ==
    IF k.channel_ # "null" THEN {Fails(k, "Connector.cpp:147")}
    ELSE add_channel(k, [k EXCEPT !.state_ = "Connecting", !.channel_ = "live"])

\* connect(): the switch on the errno of connect(2), but for the fatal ones, after
\* which the socket is closed and k is as it was.
connect(k) ==
    UNION {CASE o = "now"      -> add_channel(k, established(k))
             [] o = "progress" -> connecting(k)
             [] o = "retry"    -> {retry(k, FALSE)} : o \in Outcomes \ {"fatal"}}

Waiting(k) == k.timers + k.reconnects

\* TimerQueue::insert sets the timerfd for a timer that comes first of all: never in
\* handle_timers, where the timer at work is still ahead of it, for certain if no other
\* waits.  sure is FALSE where handle_timers may be at work unseen.
ArmTimer(sure) ==
    timerfd' \in IF Waiting(c') <= Waiting(c) \/ timerfd = "walk" THEN {timerfd}
                 ELSE IF sure /\ Waiting(c) = 0 THEN {"set"}
                 ELSE {timerfd, "set"}

\* TimerQueue::reset, when the callback is back: it sets the timerfd for the timers that
\* repeat, and those of the client do not.
Disarm == timerfd' = IF timerfd = "walk" THEN "off" ELSE timerfd

-----------------------------------------------------------------------------
(* The user thread *)

Running == c.failed = "none"

Connect ==
    /\ Running /\ upc = "idle" /\ connects < MaxConnects
    /\ connects' = connects + 1 /\ connect_' = TRUE /\ upc' = "start"
    /\ UNCHANGED <<c, lpc, queue, prospect, stops>>

Stop ==
    /\ Running /\ upc = "idle" /\ stops < MaxStops
    /\ stops' = stops + 1 /\ connect_' = FALSE /\ upc' = "stop"
    /\ UNCHANGED <<c, lpc, queue, prospect, connects>>

\* disconnect, and handle_sig_int, which also shut a connection down: one may go
\* down at any time.
Disconnect ==
    /\ Running /\ upc = "idle" /\ stops < MaxStops
    /\ stops' = stops + 1 /\ connect_' = FALSE
    /\ UNCHANGED <<c, upc, lpc, queue, prospect, connects>>

\* Connector::start and Connector::stop.  The push of the functor gives up, and does not
\* say so, if the loop's queue stays full.
Start_ ==
    /\ Running /\ upc = "start" /\ upc' = "idle"
    /\ c' = [c EXCEPT !.connect_ = TRUE]
    /\ \/ queue' = Append(queue, "startInLoop") /\ given_up' = "none"
       \/ queue' = queue /\ given_up' = "queue"
    /\ UNCHANGED <<connect_, lpc, timerfd, connects, stops>>

Stop_ ==
    /\ Running /\ upc = "stop" /\ upc' = "idle"
    /\ c' = [c EXCEPT !.connect_ = FALSE]
    /\ queue' \in {Append(queue, "stopInLoop"), queue}
    /\ UNCHANGED <<connect_, lpc, prospect, connects, stops>>

UserStep == Connect \/ Stop \/ Disconnect \/ Start_ \/ Stop_

-----------------------------------------------------------------------------
(* The loop's thread *)

At(pc) == Running /\ lpc = pc
Take(f) == At("idle") /\ queue # <<>> /\ Head(queue) = f /\ queue' = Tail(queue)

RunStart ==
    /\ Take("startInLoop") /\ lpc' = "start"
    /\ UNCHANGED <<c, prospect, user>>

\* handle_timers runs every timer that is due, whichever the timerfd was set for.
TimerFires ==
    /\ At("idle") /\ c.timers > 0 /\ lpc' = "start" /\ timerfd' = "walk"
    /\ c' = [c EXCEPT !.timers = @ - 1]
    /\ UNCHANGED <<queue, given_up, user>>

StartInLoop ==
    /\ At("start")
    /\ c' = IF c.state_ = "Disconnected" THEN c ELSE Fails(c, "Connector.cpp:31")
    /\ IF c.connect_ THEN lpc' = "connect" /\ UNCHANGED timerfd
       ELSE lpc' = "idle" /\ Disarm
    /\ UNCHANGED <<queue, given_up, user>>

ConnectCall ==
    /\ At("connect") /\ lpc' = "idle"
    /\ \/ c' \in connect(c) /\ given_up' = "none"
       \/ "fatal" \in Outcomes /\ UNCHANGED c /\ given_up' = "errno"
    /\ IF timerfd = "walk" THEN Disarm ELSE ArmTimer(TRUE)
    /\ UNCHANGED <<queue, user>>

RunStop ==
    /\ Take("stopInLoop")
    /\ c' = IF c.state_ = "Connecting" THEN retry(c, FALSE) ELSE c
    /\ ArmTimer(TRUE)
    /\ UNCHANGED <<lpc, given_up, user>>

\* check_whether_connected without a socket error.
ConnectSucceeds ==
    /\ At("idle") /\ c.state_ = "Connecting" /\ c' = established(c)
    /\ UNCHANGED <<lpc, queue, prospect, user>>

\* check_whether_connected with an error or a self-connect, and handle_err.
ConnectFails ==
    /\ AsyncFailure /\ At("idle") /\ c.state_ = "Connecting" /\ c' = retry(c, TRUE)
    /\ ArmTimer(TRUE)
    /\ UNCHANGED <<lpc, queue, given_up, user>>

\* doHandshake succeeds: the callback makes the connection, whoever has called stop.
HandshakeDone ==
    /\ At("idle") /\ c.handshake = "on"
    /\ c' = [c EXCEPT !.handshake = "none", !.connection_ = TRUE, !.channel_ = "null"]
    /\ UNCHANGED <<lpc, queue, prospect, user>>

\* onError, which frees the SSL and leaves the channel and the socket as they are; an
\* event of the channel may call it again.
HandshakeFails ==
    /\ At("idle") /\ c.handshake # "none"
    /\ c' = IF c.retry_ /\ connect_
            THEN [c EXCEPT !.handshake = "failed", !.retry_ = FALSE, !.reconnects = @ + 1]
            ELSE [c EXCEPT !.handshake = "failed"]
    /\ ArmTimer(FALSE)
    /\ UNCHANGED <<lpc, queue, given_up, user>>

\* An event calls doHandshake once more, with no SSL: what HandshakeFails does, or a crash.
HandshakeAfterFailure ==
    /\ At("idle") /\ c.handshake = "failed"
    /\ c' = Fails(c, "ssl_handshake_handler.cpp:30")
    /\ UNCHANGED <<lpc, queue, prospect, user>>

\* TcpClient::connect in the loop's thread: startInLoop follows at once.
ReconnectFires ==
    /\ At("idle") /\ c.reconnects > 0
    /\ c' = [c EXCEPT !.reconnects = @ - 1, !.connect_ = TRUE]
    /\ connect_' = TRUE /\ lpc' = "start" /\ timerfd' = "walk"
    /\ UNCHANGED <<upc, queue, given_up, connects, stops>>

\* Mutant: the connection is not forgotten.
RemoveConnectionLater ==
    /\ At("idle") /\ c.connection_
    /\ lpc' = IF c.retry_ /\ connect_ THEN "restart" ELSE "idle"
    /\ UNCHANGED <<c, queue, prospect, user>>

\* The connection hangs up: removeConnection forgets it and decides on a restart; then
\* close_callback is called.
RemoveConnection ==
    /\ At("idle") /\ c.connection_
    /\ c' = IF c.close_callback THEN [c EXCEPT !.connection_ = FALSE]
            ELSE Fails([c EXCEPT !.connection_ = FALSE], "TcpClient.cpp:157")
    /\ lpc' = IF c.retry_ /\ connect_ THEN "restart" ELSE "idle"
    /\ UNCHANGED <<queue, prospect, user>>

Restart ==
    /\ At("restart") /\ lpc' = "start"
    /\ c' = [c EXCEPT !.state_ = "Disconnected", !.retryDelayMs_ = InitRetryDelayMs,
                      !.connect_ = TRUE]
    /\ UNCHANGED <<queue, prospect, user>>

LoopStep == RunStart \/ StartInLoop \/ ConnectCall \/ RunStop \/ Restart
TimerStep == TimerFires \/ ReconnectFires

\* Every step but the end of a handshake.
ClientStep ==
    \/ LoopStep \/ TimerStep \/ ConnectSucceeds \/ ConnectFails \/ RemoveConnection
    \/ HandshakeFails \/ HandshakeAfterFailure

\* Nothing is left to do, or the program has been aborted.
Finished ==
    \/ ~Running
    \/ /\ upc = "idle" /\ lpc = "idle" /\ queue = <<>> /\ c.timers + c.reconnects = 0
       /\ c.state_ # "Connecting" /\ c.handshake = "none"

-----------------------------------------------------------------------------
One(b) == IF b THEN 1 ELSE 0

\* A client has no more going on than it was told to connect, so one thing at most if it
\* was told once: a start that is queued or due, a retry timer, a connect in progress, a
\* handshake, or a connection.
SingleAttempt ==
    One(upc = "start") + One(\E i \in DOMAIN queue : queue[i] = "startInLoop")
        + One(lpc # "idle") + c.timers + c.reconnects + One(c.state_ = "Connecting")
        + One(c.handshake = "on") + One(c.connection_) <= connects

\* A retry waits that nothing is sure to wake: connect(2) was refused in a timer's
\* callback (Connector.cpp:238), and reset has left the timerfd off.
Forgotten == c.timers > 0 /\ timerfd = "off"

\* The attempt to connect is over, without a connection and without a word to the caller:
\* the retry is forgotten, the errno was fatal (Connector.cpp:111 to 130), startInLoop
\* was lost to a full queue (Connector.cpp:25), a handshake failed, after which nothing
\* is tried that can succeed (TcpClient.cpp:176), or an assertion ended the program.
Abandoned == Forgotten \/ given_up # "none" \/ c.handshake = "failed" \/ ~Running

\* connect() comes to an end: in a connection, in a stop or disconnect that calls it off,
\* or in one of the ways to be abandoned, which are the only ones.  In particular a
\* first attempt that is refused is made a second time.
Connects == (connect_ /\ connects > 0) ~> (c.connection_ \/ ~connect_ \/ Abandoned)
=============================================================================
