---------------------------- MODULE ConnectionIO ----------------------------
(***************************************************************************)
(* What an open connection does with its channel: sendInLoop and the event *)
(* handlers of TcpConnection (src/TcpConnection.cpp) and of                *)
(* ssl_TcpConnection (src/https/ssl_TcpConnection.cpp), dispatched by      *)
(* Channel::HandleEvent, over the Channel, the Poller and epoll of Poller. *)
(*                                                                         *)
(* A message is two bytes <<m, 1>>, <<m, 2>>; <<m, 0>> is the byte in      *)
(* memory before it.  epoll is edge-triggered: writability is reported     *)
(* when it begins, when the registration changes, and together with any    *)
(* other event of the descriptor.                                          *)
(*                                                                         *)
(* Linux never stores EAGAIN in SO_ERROR, where a plain connection looks   *)
(* for it: a plain write that is refused is a fault, a plain connection    *)
(* keeps nothing in outputBuffers_, and the loops over them are left out   *)
(* of its handlers.  SSL_write takes a whole message or nothing.           *)
(* handle_ep_hup runs here with no message of another thread accepted and  *)
(* unwritten; TcpConnection models the other case.                         *)
(***************************************************************************)
EXTENDS Poller, Integers, Sequences

CONSTANT MaxSends   \* bound: messages sent on one connection

VARIABLE io   \* the rest of each connection

vars == <<pollerVars, io>>

NoConnection ==
    [kind |-> "plain",
     out |-> <<>>,            \* outputBuffers_, front first
     wire |-> <<>>,           \* bytes the socket has taken
     sends |-> 0,             \* messages given to sendInLoop
     rdhup_phrase |-> FALSE,
     ssl_ |-> "none",
     writeComplete |-> FALSE, \* writeCompleteCallback_ is set
     room |-> TRUE,           \* the socket takes bytes
     edge |-> FALSE,          \* epoll_wait will report that it does
     refused |-> FALSE,       \* history: a write took less than it was given
     overtaken |-> FALSE,     \* history: a message was put before one that waited
     lingers |-> FALSE,       \* history: write interest is on with nothing to write
     deaf |-> FALSE,          \* the socket broke, and this was reported and not acted on
     failed |-> "no"]         \* "spins": finish_in_out never ends; "null": SSL_write(nullptr)

Init == PollerInit /\ io = [fd \in Fds |-> NoConnection]

\* rdhup_phrase is not initialised.
Fresh(kind) ==
    {[NoConnection EXCEPT !.kind = kind, !.rdhup_phrase = r, !.writeComplete = w,
                          !.ssl_ = IF kind = "ssl" THEN "open" ELSE "none"] :
        r, w \in {FALSE, TRUE}}

-----------------------------------------------------------------------------
(* k is the whole of a connection: Of(fd) and its io. *)

Whole(fd) ==
    [f \in DOMAIN Of(fd) \cup DOMAIN NoConnection \cup {"aside"} |->
        IF f \in DOMAIN Of(fd) THEN Of(fd)[f] ELSE IF f = "aside" THEN FALSE ELSE io[fd][f]]
IoOf(k) == [f \in DOMAIN NoConnection |-> k[f]]

\* EPOLL_CTL_ADD and EPOLL_CTL_MOD look at the socket at once.
Rearm(k) == [k EXCEPT !.edge = "write" \in k.reg /\ k.room]
Writing(k) == "write" \in k.ch.listen_events
EnableIO(k, e) == Rearm(Enable(k, e))
DisableIO(k, e) == Rearm(Disable(k, e))

\* Both hang-ups end with the descriptor closed, which drops its registration.  With
\* nothing listened to, DisableAll registers the channel.
Hangup(k) ==
    [Socket(DisableAll(k), "closed") EXCEPT !.reg = NotThere, !.aside = k.ch.idx # "added"]

\* Mutant: the descriptor is closed without DisableAll.
hupPlainCloses(k) ==
    [Socket(k, "closed") EXCEPT !.ch.callbacks = FALSE, !.ch.listen_events = {}, !.reg = NotThere]

\* TcpConnection::handle_ep_hup also takes the callbacks off;
hupPlain(k) == [Hangup(k) EXCEPT !.ch.callbacks = FALSE]

\* ssl_TcpConnection::handle_ep_hup frees the SSL first.
hupSsl(k) == Hangup([k EXCEPT !.ssl_ = "freed"])

handle_ep_hup(k) ==
    IF k.conn = "closed" THEN k ELSE IF k.kind = "plain" THEN hupPlain(k) ELSE hupSsl(k)

-----------------------------------------------------------------------------
(* sendInLoop: the outcomes of sending message m. *)

Bytes(m, from) == [i \in 1..2 |-> <<m, from + i - 1>>]

\* The message goes to the front of outputBuffers_.
buffer(k, b) ==
    LET j == [k EXCEPT !.out = <<b>> \o @, !.overtaken = @ \/ k.out # <<>>]
    IN IF Writing(j) THEN j ELSE EnableIO(j, "write")

Took(k, b) == [k EXCEPT !.wire = @ \o b]
Refused(k) == [k EXCEPT !.refused = TRUE]
Full(k) == [k EXCEPT !.room = FALSE, !.edge = FALSE]

\* write(2) is given the whole message every time round the loop: a short write is
\* followed by a refusal, or by the message once more.
sendPlain(k, m) ==
    LET b == Bytes(m, 1) IN
    IF ~k.room THEN {Refused(k)}
    ELSE {Took(k, b), Refused(k), Full(Refused(k)), Full(Refused(Took(k, <<b[1]>>))),
          Refused(Took(k, <<b[1]>> \o b))}

\* SSL_write returns -1 when it cannot: the message is kept from data - 1.
sendSsl(k, m) ==
    {Refused(k), buffer(Full(Refused(k)), Bytes(m, 0)),
     buffer(EnableIO(Refused(k), "read"), Bytes(m, 0))}
    \cup (IF k.room THEN {Took(k, Bytes(m, 1))} ELSE {})

\* Mutant: nwrote starts at -1, what a failed write leaves.
sendInLoopFromMinusOne(k, m) ==
    IF Writing(k) \/ k.out # <<>> THEN {buffer(k, Bytes(m, 0))}
    ELSE IF k.kind = "plain" THEN sendPlain(k, m) ELSE sendSsl(k, m)

sendInLoop(k, m) ==
    IF Writing(k) \/ k.out # <<>> THEN {buffer(k, Bytes(m, 1))}
    ELSE IF k.kind = "plain" THEN sendPlain(k, m) ELSE sendSsl(k, m)

-----------------------------------------------------------------------------
(* The event handlers: the outcomes of each. *)

\* The bytes of messages, one after the other.
Joined(ms) == [i \in 1..2 * Len(ms) |-> ms[(i + 1) \div 2][1 + ((i + 1) % 2)]]

\* SSL_write of the first n messages that wait succeeds.
Drained(k, n) ==
    [k EXCEPT !.wire = @ \o Joined(SubSeq(k.out, 1, n)), !.out = SubSeq(@, n + 1, Len(@))]

\* The socket is full; finish_in_out makes sure of the write interest.
WantWrite(k, enable) ==
    IF enable /\ ~Writing(k) THEN EnableIO(Full(k), "write") ELSE Full(k)

\* The write loop of handle_ep_out and finish_in_out stops after n messages.
Stopped(k, n, enable) ==
    LET d == Refused(Drained(k, n))
    IN {WantWrite(d, enable), EnableIO(d, "read"), handle_ep_hup(d)}

\* Nothing waits: the write interest ends.  After a hang-up in the same HandleEvent this
\* adds a closed descriptor.
outNothing(k) ==
    [DisableIO(k, "write") EXCEPT !.aside = @ \/ k.conn = "closed", !.lingers = FALSE]

\* Mutant: the write interest is taken off when the first messages are out.
outSslOnce(k) == {DisableIO(Drained(k, n), "write") : n \in 1..Len(k.out)}

\* A list that has been written leaves the write interest on.
outSsl(k) ==
    IF k.ssl_ = "freed" THEN {[k EXCEPT !.failed = "null"]}
    ELSE Stopped(k, 0, FALSE) \cup
         (IF ~k.room THEN {}
          ELSE (UNION {Stopped(k, n, FALSE) : n \in 1..Len(k.out) - 1}) \cup
               {LET d == Drained(k, Len(k.out))
                IN IF k.rdhup_phrase THEN handle_ep_hup(d) ELSE [d EXCEPT !.lingers = TRUE]})

handle_ep_out(k) == IF k.out = <<>> THEN {outNothing(k)} ELSE outSsl(k)

\* Data or none (messageCallback_ is a step of its own), or the end of the stream or an
\* error;
inPlain(k) == {k, handle_ep_hup(k)}

\* with TLS, also a read that has to write and cannot.
inSsl(k) == {k, handle_ep_hup(k), EnableIO(Full(k), "write")}

handle_ep_in(k) == IF k.kind = "plain" THEN inPlain(k) ELSE inSsl(k)

\* The stream is read to its end and what waits is written; a failed read hangs up.
finishPlain(k) == {handle_ep_hup(k)}

\* With TLS a message is taken off the list only if there is a writeCompleteCallback_.
finishSsl(k) ==
    {handle_ep_hup(k)}
    \cup (IF k.out = <<>> THEN {} ELSE Stopped(k, 0, TRUE))
    \cup (IF k.out = <<>> \/ ~k.room THEN {}
          ELSE IF ~k.writeComplete THEN {[k EXCEPT !.failed = "spins"]}
          ELSE UNION {Stopped(k, n, TRUE) : n \in 1..Len(k.out) - 1})

finish_in_out(k) == IF k.kind = "plain" THEN finishPlain(k) ELSE finishSsl(k)

handle_ep_rdhup(k) ==
    IF k.ssl_ = "freed" THEN {[k EXCEPT !.failed = "null"]}
    ELSE {[f EXCEPT !.rdhup_phrase = TRUE] : f \in finish_in_out(k)}

\* SO_ERROR says what happened, unless it was read since the event was reported: by a
\* write of another handler of the same round.
handle_ep_err(k) == {handle_ep_hup(k), [Full(k) EXCEPT !.deaf = TRUE]}

\* Channel::HandleEvent_tied.  A hang-up takes the callbacks of a plain connection off;
\* a client's channel that left epoll and came back is untied and writes first.
HandleEvent(k, ready) ==
    LET j == [k EXCEPT !.edge = @ /\ "out" \notin ready]
        out(i, b) == IF b /\ "out" \in ready /\ i.ch.callbacks THEN handle_ep_out(i) ELSE {i}
        first == out(j, k.ch.is_io_channel /\ ~k.ch.tied)
    IN IF "err" \in ready THEN handle_ep_err(j)
       ELSE IF "hup" \in ready THEN {handle_ep_hup(o) : o \in first}
       ELSE IF "rdhup" \in ready
       THEN UNION {IF o.ch.callbacks /\ o.failed = "no" THEN handle_ep_rdhup(o) ELSE {o} :
                       o \in first}
       ELSE UNION {out(i, TRUE) : i \in IF "in" \in ready THEN handle_ep_in(j) ELSE {j}}

-----------------------------------------------------------------------------

Running == \A fd \in Fds : io[fd].failed = "no"

\* A connection that closes is let go with all it had.
Settle(fd, k) ==
    /\ Becomes(fd, k)
    /\ io' = [io EXCEPT ![fd] =
                 IF k.conn # "closed" THEN IoOf(k)
                 ELSE [NoConnection EXCEPT !.kind = k.kind, !.failed = k.failed]]
    /\ aside' = IF k.conn # "closed" THEN aside
                ELSE IF k.aside THEN aside \cup {fd} ELSE aside \ {fd}
    /\ UNCHANGED reading_

Open(fd, kind) == \E c \in Fresh(kind) : io' = [io EXCEPT ![fd] = c]

\* Steps of Poller that change the registration of an open connection.
Rearmed(fd) == io' = [io EXCEPT ![fd].edge = "write" \in epoll'[fd] /\ io[fd].room]

Send(fd) ==
    /\ conn[fd] = "up" /\ io[fd].sends < MaxSends
    /\ \E k \in sendInLoop([Whole(fd) EXCEPT !.sends = @ + 1], io[fd].sends + 1) : Settle(fd, k)

\* The peer reads: the socket takes bytes again.
Space(fd) ==
    /\ conn[fd] = "up" /\ ~io[fd].room /\ ~io[fd].deaf
    /\ Settle(fd, Rearm([Whole(fd) EXCEPT !.room = TRUE]))

\* What epoll_wait may report of a descriptor.
Ready(fd) ==
    LET writable == IF "write" \in epoll[fd] /\ io[fd].room THEN {"out"} ELSE {}
    IN (IF "read" \in epoll[fd] THEN {{"in"} \cup writable} ELSE {})
       \cup (IF io[fd].edge THEN {{"out"}} ELSE {})
       \cup {{e} \cup writable : e \in {"err", "hup", "rdhup"}}

Event(fd) ==
    /\ conn[fd] = "up" /\ epoll[fd] # NotThere /\ ~io[fd].deaf
    /\ \E ready \in Ready(fd) : \E k \in HandleEvent(Whole(fd), ready) : Settle(fd, k)

\* forceCloseInLoop
ForceClose(fd) == conn[fd] = "up" /\ Settle(fd, handle_ep_hup(Whole(fd)))

Next ==
    /\ Running
    /\ \E fd \in Fds :
          \/ Accept(fd) /\ Open(fd, "plain")
          \/ ConnectEstablished(fd) /\ UNCHANGED io
          \/ Connecting(fd) /\ UNCHANGED io
          \/ Connected(fd) /\ Open(fd, "plain")
          \/ Abandoned(fd) /\ UNCHANGED io
          \/ HandshakeStart(fd) /\ UNCHANGED io
          \/ \E e \in Events : HandshakeWants(fd, e) /\ UNCHANGED io
          \/ HandshakeDone(fd) /\ Open(fd, "ssl")
          \/ StopRead(fd) /\ Rearmed(fd)
          \/ StartRead(fd) /\ Rearmed(fd)
          \/ Send(fd) \/ Space(fd) \/ Event(fd) \/ ForceClose(fd)

Spec == Init /\ [][Next]_vars

-----------------------------------------------------------------------------

\* Channel::idx, which is all that decides between ADD, MOD and DEL, agrees with
\* the kernel's interest list, although close(2) changes the list without it and
\* the Channel outlives its connection: epoll_ctl then succeeds.  Three closes leave
\* the two apart: Connector's after stop(), one with nothing listened to (DisableAll
\* then registers the channel), and one of ssl_TcpConnection in handle_ep_in, when
\* handle_ep_out follows in the same HandleEvent with nothing to write.
IndexAgrees ==
    \A fd \in Fds \ aside : m_channels[fd].idx = "added" <=> epoll[fd] # NotThere

\* A connection that is up hears what its channel listens to, whatever happened on its
\* descriptor before and however often stopRead and startRead are called: what a
\* channel listens to is what it is registered for.  Until stopRead is first called
\* (startRead does not set reading_ again) that includes its data and the end of the
\* stream, and the channel is tied, so that HandleEvent holds a shared_ptr to the
\* connection.  After it, the channel may be untied: the Poller unties a channel that
\* listens to nothing (Poller.cpp:154), and startReadInLoop does not tie it again.
UpIsServed ==
    \A fd \in Fds \ aside : conn[fd] = "up" =>
        /\ m_channels[fd].listen_events # {} => epoll[fd] = m_channels[fd].listen_events
        /\ reading_[fd] => "read" \in epoll[fd] /\ m_channels[fd].tied

\* What waits in outputBuffers_ will be written: the channel is registered for
\* writing, and the socket is full, which ends with an event, or the event is due.
\* Nothing more comes of a socket whose error handle_ep_err did not find (line 1075),
\* or of a loop that is in finish_in_out for ever (ssl_TcpConnection.cpp:402).
\* The one other way to wait without an event is to be sent after handle_ep_out wrote
\* everything and left the write interest on (lines 881 to 918 of TcpConnection.cpp,
\* 81 to 122 of ssl_TcpConnection.cpp): edge-triggered epoll has nothing to report.
WaitingIsWatched ==
    Running => \A fd \in Fds \ aside : conn[fd] = "up" /\ io[fd].out # <<>> /\ ~io[fd].deaf =>
        /\ "write" \in epoll[fd]
        /\ ~io[fd].room \/ io[fd].edge \/ io[fd].lingers

\* The first n messages, byte after byte.
Stream(n) == [i \in 1..2 * n |-> <<(i + 1) \div 2, 1 + ((i + 1) % 2)>>]

\* The peer gets the messages whole and in the order they were sent, and what is not
\* on the wire yet waits, as long as no write was refused (lines 406 to 434: the rest
\* of the message is dropped or sent twice; with TLS it is kept from the byte before
\* it) and no message was put in front of one that waited (line 446).
StreamIntact ==
    \A fd \in Fds : conn[fd] = "up" /\ ~io[fd].refused /\ ~io[fd].overtaken =>
        io[fd].wire \o Joined(io[fd].out) = Stream(io[fd].sends)

\* A plain connection never has output waiting, whatever the socket refuses: a
\* message is on the wire when sendInLoop returns, or lost (line 437).
PlainNeverWaits ==
    \A fd \in Fds : conn[fd] = "up" /\ io[fd].kind = "plain" =>
        io[fd].out = <<>> /\ "write" \notin m_channels[fd].listen_events
=============================================================================
