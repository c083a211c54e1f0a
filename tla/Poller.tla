------------------------------- MODULE Poller -------------------------------
(***************************************************************************)
(* The channels of one loop, its Poller and epoll (basics/Channel.cpp,     *)
(* basics/Poller.cpp), driven by connections that open on file descriptors *)
(* the kernel hands out again.  m_channels keeps the Channel of a          *)
(* descriptor that was closed, for the next connection to reuse.           *)
(* Everything happens in the loop's thread.  What an open connection does  *)
(* with its events, and how it closes, is added by ConnectionIO.           *)
(***************************************************************************)
EXTENDS Naturals

CONSTANT Fds   \* file descriptors

VARIABLES
    m_channels,  \* the Channel of each descriptor, or NoChannel
    epoll,       \* the kernel's interest list: events registered, or NotThere
    conn,        \* the socket: "closed", "connecting", "handshake", "new" or "up"
    reading_,    \* TcpConnection::reading_ of the connection on it
    aside        \* history: descriptors last closed with their channel not in epoll,
                 \* after stopRead, or with a channel that is told nothing or too much

pollerVars == <<m_channels, epoll, conn, reading_, aside>>

Events == {"read", "write"}
NoChannel == [idx |-> "none"]
NotThere == {"nothing"}
NewChannel == [idx |-> "deleted", listen_events |-> {}, tied |-> FALSE, callbacks |-> FALSE,
               is_io_channel |-> FALSE]

PollerInit ==
    /\ m_channels = [fd \in Fds |-> NoChannel]
    /\ epoll = [fd \in Fds |-> NotThere]
    /\ conn = [fd \in Fds |-> "closed"]
    /\ reading_ = [fd \in Fds |-> FALSE]
    /\ aside = {}

-----------------------------------------------------------------------------
(* A descriptor's part of the state is a record k with at least its Channel, its *)
(* registration and its socket.                                                  *)

Of(fd) == [ch |-> m_channels[fd], reg |-> epoll[fd], conn |-> conn[fd]]
Becomes(fd, k) ==
    /\ m_channels' = [m_channels EXCEPT ![fd] = k.ch]
    /\ epoll' = [epoll EXCEPT ![fd] = k.reg]
    /\ conn' = [conn EXCEPT ![fd] = k.conn]

\* Epoller::update: epoll_ctl fails, and changes nothing, when it adds a descriptor
\* that is registered or closed, or changes or deletes one that is not registered.
ctl(k, op) ==
    IF (op = "ADD") # (k.reg = NotThere) \/ k.conn = "closed" THEN k
    ELSE [k EXCEPT !.reg = IF op = "DEL" THEN NotThere ELSE k.ch.listen_events]

\* Epoller::updateChannel
updateChannel(k) ==
    IF k.ch.idx = "deleted" THEN ctl([k EXCEPT !.ch.idx = "added"], "ADD")
    ELSE IF k.ch.listen_events = {}
    THEN ctl([k EXCEPT !.ch.idx = "deleted", !.ch.tied = FALSE], "DEL")
    ELSE ctl(k, "MOD")

\* Mutant: the Poller is not told.
EnableSilently(k, e) == [k EXCEPT !.ch.listen_events = @ \cup {e}]

Enable(k, e) == updateChannel([k EXCEPT !.ch.listen_events = @ \cup {e}])
Disable(k, e) == updateChannel([k EXCEPT !.ch.listen_events = @ \ {e}])
DisableAll(k) == updateChannel([k EXCEPT !.ch.listen_events = {}])

\* Poller::add_channel: a new Channel, or the one the descriptor had before.
add_channel(k) == IF k.ch = NoChannel THEN [k EXCEPT !.ch = NewChannel] ELSE k
Callbacks(k) == [k EXCEPT !.ch.callbacks = TRUE]
Tied(k) == [k EXCEPT !.ch.tied = TRUE]
Socket(k, s) == [k EXCEPT !.conn = s]

-----------------------------------------------------------------------------

Opened(fd) == reading_' = [reading_ EXCEPT ![fd] = TRUE]

\* accept gives the descriptor out; newConnection makes a TcpConnection of it
Accept(fd) ==
    /\ conn[fd] = "closed" /\ Opened(fd)
    /\ Becomes(fd, Callbacks(add_channel(Socket(Of(fd), "new"))))
    /\ UNCHANGED aside

\* and queues connectEstablished to the connection's loop.
ConnectEstablished(fd) ==
    /\ conn[fd] = "new"
    /\ Becomes(fd, Enable(Tied(Socket(Of(fd), "up")), "read"))
    /\ UNCHANGED <<reading_, aside>>

\* Connector::connecting
Connecting(fd) ==
    /\ conn[fd] = "closed"
    /\ LET k == Callbacks(add_channel(Socket(Of(fd), "connecting")))
       IN Becomes(fd, Enable([k EXCEPT !.ch.is_io_channel = TRUE], "write"))
    /\ UNCHANGED <<reading_, aside>>

\* Mutant: the write interest of the connect is left on.
ConnectedWriting(fd) ==
    /\ "write" \in epoll[fd] /\ conn[fd] = "connecting" /\ Opened(fd)
    /\ Becomes(fd, Enable(Tied(Socket(Of(fd), "up")), "read"))
    /\ UNCHANGED aside

\* Connector::check_whether_connected: TcpClient::newConnection takes the channel over
\* and calls connectEstablished,
Connected(fd) ==
    /\ "write" \in epoll[fd] /\ conn[fd] = "connecting" /\ Opened(fd)
    /\ Becomes(fd, Enable(Tied([Socket(Of(fd), "up") EXCEPT !.ch.listen_events = {}]), "read"))
    /\ UNCHANGED aside

\* or, after stop(), the descriptor is closed under the channel,
Abandoned(fd) ==
    /\ "write" \in epoll[fd] /\ conn[fd] = "connecting"
    /\ Becomes(fd, [Socket(Of(fd), "closed") EXCEPT !.ch.listen_events = {}, !.reg = NotThere])
    /\ aside' = aside \cup {fd}
    /\ UNCHANGED reading_

\* or, with TLS, the handshake handler takes it over.
HandshakeStart(fd) ==
    /\ "write" \in epoll[fd] /\ conn[fd] = "connecting"
    /\ LET k == Tied([Socket(Of(fd), "handshake") EXCEPT !.ch.listen_events = {}])
       IN Becomes(fd, Enable(Enable(k, "read"), "write"))
    /\ UNCHANGED <<reading_, aside>>

\* doHandshake listens to what SSL_connect wants and to nothing else,
HandshakeWants(fd, e) ==
    /\ conn[fd] = "handshake" /\ epoll[fd] # NotThere
    /\ LET other == CHOOSE x \in Events : x # e
       IN Becomes(fd, Disable(Enable(Of(fd), e), other))
    /\ UNCHANGED <<reading_, aside>>

\* and hands the channel to the new ssl_TcpConnection with nothing listened to.
HandshakeDone(fd) ==
    /\ conn[fd] = "handshake" /\ epoll[fd] # NotThere /\ Opened(fd)
    /\ Becomes(fd, Enable(Tied(Socket(DisableAll(Of(fd)), "up")), "read"))
    /\ UNCHANGED aside

StopRead(fd) ==
    /\ conn[fd] = "up"
    /\ reading_[fd] \/ "read" \in m_channels[fd].listen_events
    /\ Becomes(fd, Disable(Of(fd), "read"))
    /\ reading_' = [reading_ EXCEPT ![fd] = FALSE]
    /\ UNCHANGED aside

StartRead(fd) ==
    /\ conn[fd] = "up" /\ "read" \notin m_channels[fd].listen_events
    /\ Becomes(fd, Enable(Of(fd), "read"))
    /\ UNCHANGED <<reading_, aside>>
=============================================================================
