------------------------- MODULE ConnectionIOProofs -------------------------
(***************************************************************************)
(* Theorems about the channels and the output of connections, for any set  *)
(* of descriptors, any number of messages and any history of a descriptor: *)
(* Channel::idx agrees with epoll, a connection that is up is served, what *)
(* waits is watched, the stream is intact and a plain connection keeps     *)
(* nothing back.  All five follow from one invariant of each descriptor,   *)
(* which each handler and each step of Poller keeps.  The buffer of a      *)
(* connection comes last, for any bytes, any sizes and any number of       *)
(* calls: ensureWritableBytes makes the room it promises, and the buffer   *)
(* implements a queue of bytes.                                            *)
(***************************************************************************)
EXTENDS ConnectionIO, Buffer, SequenceTheorems, TLAPS

\* A Channel that a Poller made.
Channels ==
    [idx : {"deleted", "added"}, listen_events : SUBSET Events, tied : BOOLEAN,
     callbacks : BOOLEAN, is_io_channel : BOOLEAN]

\* Channel::idx knows whether the descriptor is in epoll.
Known(ch, reg) == ch.idx = "added" <=> reg # NotThere

\* The Channel and the kernel tell the same of a descriptor.
Agree(ch, reg) ==
    /\ Known(ch, reg)
    /\ ch.listen_events = IF reg = NotThere THEN {} ELSE reg

\* Nothing is in outputBuffers_ and all that was sent is on the wire, or the last
\* message waits.
Ordered(x) ==
    \/ x.out = <<>> /\ x.wire = Stream(x.sends)
    \/ x.sends > 0 /\ x.out = <<Bytes(x.sends, 1)>> /\ x.wire = Stream(x.sends - 1)

\* The output of a connection whose channel listens to listen: what waits is listened
\* for, and a plain connection keeps nothing.
Output(x, listen) ==
    /\ x.out # <<>> => "write" \in listen
    /\ x.kind = "plain" => x.out = <<>> /\ "write" \notin listen
    /\ ~x.refused /\ ~x.overtaken => Ordered(x)
    /\ x.sends \in Nat

\* A connection that listens for writing waits for the socket, or its event is due, or
\* handle_ep_out left the interest on.
Watched(x, listen) == x.failed = "no" /\ "write" \in listen => ~x.room \/ x.edge \/ x.lingers

\* A descriptor with no socket, or with one no channel listens to yet.
Down(fd) ==
    /\ epoll[fd] = NotThere
    /\ m_channels[fd] # NoChannel => m_channels[fd].listen_events = {}
    /\ fd \notin aside => m_channels[fd].idx # "added"

\* A descriptor with a channel, which epoll knows unless the descriptor is aside.
Given(fd) ==
    /\ m_channels[fd] \in Channels /\ m_channels[fd].callbacks
    /\ fd \notin aside => Agree(m_channels[fd], epoll[fd])

\* What is true of one descriptor, by the state of its socket.
DescriptorInv(fd) ==
    /\ DOMAIN io[fd] = DOMAIN NoConnection
    /\ m_channels[fd] \in Channels \cup {NoChannel} /\ reading_[fd] \in BOOLEAN
    /\ conn[fd] \in {"closed", "new", "connecting", "handshake", "up"}
    /\ conn[fd] = "closed" => Down(fd)
    /\ conn[fd] = "new" => Down(fd) /\ Given(fd) /\ io[fd] \in Fresh("plain")
    /\ conn[fd] \in {"connecting", "handshake"} => Given(fd)
    /\ conn[fd] = "up" =>
          /\ Given(fd)
          /\ reading_[fd] => "read" \in m_channels[fd].listen_events /\ m_channels[fd].tied
          /\ Output(io[fd], m_channels[fd].listen_events)
          /\ fd \notin aside => Watched(io[fd], m_channels[fd].listen_events)

\* Every variable is about the descriptors.
Shape ==
    /\ DOMAIN m_channels = Fds /\ DOMAIN epoll = Fds /\ DOMAIN conn = Fds
    /\ DOMAIN reading_ = Fds /\ DOMAIN io = Fds /\ aside \subseteq Fds

\* The inductive invariant.
IOInv == Shape /\ \A fd \in Fds : DescriptorInv(fd)

-----------------------------------------------------------------------------
(* The records. *)

\* The fields of io[fd], and of a whole connection.
IoFields ==
    {"kind", "out", "wire", "sends", "rdhup_phrase", "ssl_", "writeComplete", "room", "edge",
     "refused", "overtaken", "lingers", "deaf", "failed"}
Fields == IoFields \cup {"ch", "reg", "conn", "aside"}

\* j is k but for the fields S.
Same(j, k, S) == DOMAIN j = DOMAIN k /\ \A x \in DOMAIN k \ S : j[x] = k[x]

\* The fields of io[fd].
LEMMA NoConnectionFields == DOMAIN NoConnection = IoFields
  BY Zenon DEF NoConnection, IoFields

\* The record that the handlers are given has the fields of Poller and those of io[fd].
LEMMA WholeFields ==
    ASSUME NEW fd \in Fds, DOMAIN io[fd] = IoFields
    PROVE  /\ DOMAIN Whole(fd) = Fields
           /\ Whole(fd).ch = m_channels[fd] /\ Whole(fd).reg = epoll[fd]
           /\ Whole(fd).conn = conn[fd] /\ Whole(fd).aside = FALSE
           /\ \A x \in IoFields : Whole(fd)[x] = io[fd][x]
<1> DEFINE h == Of(fd)
<1>1. /\ DOMAIN h = {"ch", "reg", "conn"}
      /\ h.ch = m_channels[fd] /\ h.reg = epoll[fd] /\ h.conn = conn[fd]
  BY Zenon DEF Of
<1>2. Whole(fd) = [f \in DOMAIN h \cup IoFields \cup {"aside"} |->
                     IF f \in DOMAIN h THEN h[f] ELSE IF f = "aside" THEN FALSE ELSE io[fd][f]]
  BY NoConnectionFields, Zenon DEF Whole
<1> HIDE DEF h
<1>3. /\ \A x \in IoFields : x \notin DOMAIN h /\ x # "aside"
      /\ DOMAIN h \cup IoFields \cup {"aside"} = Fields /\ "aside" \notin DOMAIN h
  BY <1>1, Zenon DEF IoFields, Fields
<1> QED
  BY <1>1, <1>2, <1>3, ZenonT(30) DEF Fields

\* Epoller::updateChannel, on a descriptor that is open.
LEMMA UpdateChannel ==
    ASSUME NEW k, {"ch", "reg", "conn"} \subseteq DOMAIN k, k.ch \in Channels, k.conn # "closed",
           NEW L \in SUBSET Events
    PROVE  LET u == updateChannel([k EXCEPT !.ch.listen_events = L])
           IN  /\ Same(u, k, {"ch", "reg"})
               /\ u.ch \in Channels /\ u.ch.listen_events = L
               /\ u.ch.callbacks = k.ch.callbacks
               /\ L # {} => u.ch.tied = k.ch.tied
               /\ Known(k.ch, k.reg) => Agree(u.ch, u.reg)
<1> DEFINE v == [k EXCEPT !.ch.listen_events = L]
<1>1. /\ Same(v, k, {"ch"}) /\ v.ch \in Channels /\ v.ch.listen_events = L
      /\ v.ch.idx = k.ch.idx /\ v.ch.callbacks = k.ch.callbacks /\ v.ch.tied = k.ch.tied
  BY Zenon DEF Same, Channels
<1> HIDE DEF v
<1>2. v.conn = k.conn /\ v.reg = k.reg /\ {"ch", "reg", "conn"} \subseteq DOMAIN v
  BY <1>1, Zenon DEF Same
<1> SUFFICES /\ Same(updateChannel(v), k, {"ch", "reg"})
             /\ updateChannel(v).ch \in Channels /\ updateChannel(v).ch.listen_events = L
             /\ updateChannel(v).ch.callbacks = k.ch.callbacks
             /\ L # {} => updateChannel(v).ch.tied = k.ch.tied
             /\ Known(k.ch, k.reg) => Agree(updateChannel(v).ch, updateChannel(v).reg)
  BY Zenon DEF v
<1>3. CASE v.ch.idx = "deleted"
  <2> DEFINE w == [v EXCEPT !.ch.idx = "added"]
  <2>1. /\ Same(w, v, {"ch"}) /\ w.ch \in Channels /\ w.ch.listen_events = L
        /\ w.ch.idx = "added" /\ w.ch.callbacks = v.ch.callbacks /\ w.ch.tied = v.ch.tied
    BY <1>1, <1>2, Zenon DEF Same, Channels
  <2>2. updateChannel(v) = ctl(w, "ADD")
    BY <1>3, Zenon DEF updateChannel
  <2> HIDE DEF w
  <2>3. ctl(w, "ADD") = IF w.reg # NotThere THEN w ELSE [w EXCEPT !.reg = w.ch.listen_events]
    BY <1>2, <2>1, Zenon DEF ctl, Same
  <2> QED
    BY <1>1, <1>2, <1>3, <2>1, <2>2, <2>3 DEF Same, Agree, Known, NotThere, Events
<1>4. CASE v.ch.idx # "deleted" /\ L = {}
  <2> DEFINE w == [v EXCEPT !.ch.idx = "deleted", !.ch.tied = FALSE]
  <2>1. /\ Same(w, v, {"ch"}) /\ w.ch \in Channels /\ w.ch.listen_events = L
        /\ w.ch.idx = "deleted" /\ w.ch.callbacks = v.ch.callbacks
    BY <1>1, <1>2, Zenon DEF Same, Channels
  <2>2. updateChannel(v) = ctl(w, "DEL")
    BY <1>1, <1>4, Zenon DEF updateChannel
  <2> HIDE DEF w
  <2>3. ctl(w, "DEL") = IF w.reg = NotThere THEN w ELSE [w EXCEPT !.reg = NotThere]
    BY <1>2, <2>1, Zenon DEF ctl, Same
  <2> QED
    BY <1>1, <1>2, <1>4, <2>1, <2>2, <2>3, SMTT(30) DEF Same, Agree, Known, NotThere, Events
<1>5. CASE v.ch.idx # "deleted" /\ L # {}
  <2>1. updateChannel(v) = ctl(v, "MOD")
    BY <1>1, <1>5, Zenon DEF updateChannel
  <2>2. ctl(v, "MOD") = IF v.reg = NotThere THEN v ELSE [v EXCEPT !.reg = v.ch.listen_events]
    BY <1>2, Zenon DEF ctl
  <2> QED
    BY <1>1, <1>2, <1>5, <2>1, <2>2 DEF Same, Agree, Known, NotThere, Events, Channels
<1> QED
  BY <1>3, <1>4, <1>5, Zenon

-----------------------------------------------------------------------------
(* What a handler is given, and what it leaves. *)

\* The invariant of an open connection, on its whole record; a: it is aside, r: reading_.
Served(k, a, r) ==
    /\ DOMAIN k = Fields /\ k.conn = "up"
    /\ k.ch \in Channels /\ k.ch.callbacks
    /\ ~a => Agree(k.ch, k.reg)
    /\ r => "read" \in k.ch.listen_events /\ k.ch.tied

\* A handler is given, and leaves, a connection that is served and whose output is right;
Up(k, a, r) == Served(k, a, r) /\ Output(k, k.ch.listen_events)

\* between handlers, what it waits for will come.
Fit(k, a) == ~a => Watched(k, k.ch.listen_events)

\* A connection that has hung up.
Shut(k) ==
    /\ DOMAIN k = Fields /\ k.conn = "closed"
    /\ k.ch \in Channels /\ k.ch.listen_events = {}
    /\ k.reg = NotThere
    /\ ~k.aside => k.ch.idx # "added"
    /\ k.ch.callbacks => k.ssl_ = "freed"

\* What HandleEvent leaves.
Handled(k, a, r) == (Up(k, a, r) /\ Fit(k, a)) \/ Shut(k)

\* Fields that say nothing of the invariant.
LEMMA UpKept ==
    ASSUME NEW k, NEW a \in BOOLEAN, NEW r \in BOOLEAN, Up(k, a, r), NEW j,
           Same(j, k, {"rdhup_phrase", "ssl_", "writeComplete", "room", "edge", "lingers", "deaf",
                       "failed", "aside"})
    PROVE  Up(j, a, r)
<1>1. /\ DOMAIN j = Fields /\ j.ch = k.ch /\ j.reg = k.reg /\ j.conn = k.conn
      /\ j.out = k.out /\ j.kind = k.kind /\ j.refused = k.refused /\ j.overtaken = k.overtaken
      /\ j.wire = k.wire /\ j.sends = k.sends
  BY Zenon DEF Up, Served, Same, Fields, IoFields
<1> QED
  BY <1>1, Zenon DEF Up, Served, Output, Ordered

\* Channel::EnableReading and its like, followed by what epoll_ctl does to the event.
LEMMA Interest ==
    ASSUME NEW k, NEW a \in BOOLEAN, NEW r \in BOOLEAN, Served(k, a, r), NEW L \in SUBSET Events,
           NEW j, j = Rearm(updateChannel([k EXCEPT !.ch.listen_events = L])), r => "read" \in L
    PROVE  /\ Served(j, a, r) /\ Fit(j, a) /\ j.ch.listen_events = L
           /\ Same(j, k, {"ch", "reg", "edge"})
           /\ Output(k, L) => Up(j, a, r)
<1> DEFINE u == updateChannel([k EXCEPT !.ch.listen_events = L])
<1>1. /\ Same(u, k, {"ch", "reg"})
      /\ u.ch \in Channels /\ u.ch.listen_events = L
      /\ u.ch.callbacks = k.ch.callbacks
      /\ L # {} => u.ch.tied = k.ch.tied
      /\ Agree(k.ch, k.reg) => Agree(u.ch, u.reg)
  <2>1. {"ch", "reg", "conn"} \subseteq DOMAIN k /\ k.ch \in Channels /\ k.conn # "closed"
    BY Zenon DEF Served, Fields
  <2>2. Agree(k.ch, k.reg) => Known(k.ch, k.reg)
    BY Zenon DEF Agree
  <2> QED
    BY <2>1, <2>2, UpdateChannel, Zenon
<1>2. j = [u EXCEPT !.edge = "write" \in u.reg /\ u.room]
  BY Zenon DEF Rearm
<1> HIDE DEF u
<1>3. DOMAIN k = Fields /\ DOMAIN u = Fields
  BY <1>1, Zenon DEF Served, Same
<1>4. /\ DOMAIN j = Fields /\ Same(j, k, {"ch", "reg", "edge"})
      /\ j.ch = u.ch /\ j.reg = u.reg /\ j.conn = k.conn /\ j.room = k.room
      /\ j.edge = ("write" \in u.reg /\ u.room) /\ u.room = k.room
      /\ j.out = k.out /\ j.kind = k.kind /\ j.refused = k.refused /\ j.overtaken = k.overtaken
      /\ j.wire = k.wire /\ j.sends = k.sends
  BY <1>1, <1>2, <1>3, Zenon DEF Same, Fields, IoFields
<1>5. Served(j, a, r)
  BY <1>1, <1>4, Zenon DEF Served
<1>6. Fit(j, a)
  <2>1. ~a => Agree(u.ch, u.reg)
    BY <1>1, Zenon DEF Served
  <2>2. ~a /\ "write" \in j.ch.listen_events => "write" \in u.reg
    BY <1>4, <2>1, Zenon DEF Agree
  <2> QED
    BY <1>4, <2>2, Zenon DEF Fit, Watched
<1>7. Output(k, L) => Up(j, a, r)
  BY <1>1, <1>4, <1>5, Zenon DEF Up, Output, Ordered
<1> QED
  BY <1>1, <1>4, <1>5, <1>6, <1>7, Zenon

\* Listening to one more event keeps the connection served, and makes it fit.
LEMMA EnableKeeps ==
    ASSUME NEW k, NEW a \in BOOLEAN, NEW r \in BOOLEAN, Served(k, a, r), NEW e \in Events
    PROVE  LET j == EnableIO(k, e)
               L == k.ch.listen_events \cup {e}
           IN  /\ Served(j, a, r) /\ Fit(j, a) /\ j.ch.listen_events = L
               /\ Same(j, k, {"ch", "reg", "edge"})
               /\ Output(k, L) => Up(j, a, r)
<1> DEFINE L == k.ch.listen_events \cup {e}
<1>1. L \in SUBSET Events /\ (r => "read" \in L)
  BY Zenon DEF Served, Channels, Events
<1>2. EnableIO(k, e) = Rearm(updateChannel([k EXCEPT !.ch.listen_events = L]))
  <2>1. "ch" \in DOMAIN k /\ "listen_events" \in DOMAIN k.ch
    BY Zenon DEF Served, Channels, Fields
  <2> QED
    BY <2>1, Zenon DEF EnableIO, Enable
<1> HIDE DEF L
<1>3. /\ Served(EnableIO(k, e), a, r) /\ Fit(EnableIO(k, e), a)
      /\ EnableIO(k, e).ch.listen_events = L
      /\ Same(EnableIO(k, e), k, {"ch", "reg", "edge"})
      /\ Output(k, L) => Up(EnableIO(k, e), a, r)
  BY <1>1, <1>2, Interest
<1> QED
  BY <1>3, Zenon DEF L

\* The read interest is switched on.
LEMMA EnableRead ==
    ASSUME NEW k, NEW a \in BOOLEAN, NEW r \in BOOLEAN, Up(k, a, r)
    PROVE  /\ Up(EnableIO(k, "read"), a, r) /\ Fit(EnableIO(k, "read"), a)
           /\ Same(EnableIO(k, "read"), k, {"ch", "reg", "edge"})
<1>1. Output(k, k.ch.listen_events \cup {"read"})
  BY Zenon DEF Up, Output
<1> QED
  BY <1>1, EnableKeeps, Zenon DEF Up, Events

\* The write interest ends when nothing waits.
LEMMA DisableKeeps ==
    ASSUME NEW k, NEW a \in BOOLEAN, NEW r \in BOOLEAN, Up(k, a, r), k.out = <<>>
    PROVE  LET j == DisableIO(k, "write")
           IN  /\ Up(j, a, r) /\ Fit(j, a) /\ j.ch.listen_events = k.ch.listen_events \ {"write"}
               /\ Same(j, k, {"ch", "reg", "edge"})
<1> DEFINE L == k.ch.listen_events \ {"write"}
           j == DisableIO(k, "write")
<1>1. L \in SUBSET Events /\ (r => "read" \in L) /\ Output(k, L)
  BY Zenon DEF Up, Served, Output, Channels, Events
<1>2. j = Rearm(updateChannel([k EXCEPT !.ch.listen_events = L]))
  <2>1. "ch" \in DOMAIN k /\ "listen_events" \in DOMAIN k.ch
    BY Zenon DEF Up, Served, Channels, Fields
  <2> QED
    BY <2>1, Zenon DEF DisableIO, Disable
<1> HIDE DEF L, j
<1>3. j.ch.listen_events = L /\ Up(j, a, r) /\ Fit(j, a) /\ Same(j, k, {"ch", "reg", "edge"})
  BY <1>1, <1>2, Interest DEF Up
<1> QED
  BY <1>3, Zenon DEF L, j

\* handle_ep_hup of either kind of connection leaves it shut.
LEMMA HangupShuts ==
    ASSUME NEW k, NEW a \in BOOLEAN, NEW r \in BOOLEAN, Up(k, a, r)
    PROVE  Shut(handle_ep_hup(k))
<1>1. ASSUME NEW h, DOMAIN h = Fields, h.ch = k.ch, h.reg = k.reg, h.conn = "up"
      PROVE  /\ DOMAIN Hangup(h) = Fields /\ Hangup(h).conn = "closed"
             /\ Hangup(h).ch \in Channels /\ Hangup(h).ch.listen_events = {}
             /\ Hangup(h).reg = NotThere
             /\ ~Hangup(h).aside => Hangup(h).ch.idx # "added"
             /\ Hangup(h).ssl_ = h.ssl_
  <2> DEFINE u == DisableAll(h)
             s == Socket(u, "closed")
  <2>1. /\ Same(u, h, {"ch", "reg"}) /\ u.ch \in Channels /\ u.ch.listen_events = {}
    <3>1. {"ch", "reg", "conn"} \subseteq DOMAIN h /\ h.ch \in Channels /\ h.conn # "closed"
      BY <1>1, Zenon DEF Up, Served, Fields
    <3>2. {} \in SUBSET Events
      OBVIOUS
    <3> QED
      BY <3>1, <3>2, UpdateChannel, Zenon DEF DisableAll
  <2>2. h.ch.idx = "added" => u.ch.idx = "deleted"
    <3>1. ASSUME h.ch.idx = "added" PROVE u.ch.idx = "deleted"
      <4> DEFINE v == [h EXCEPT !.ch.listen_events = {}]
                 w == [v EXCEPT !.ch.idx = "deleted", !.ch.tied = FALSE]
      <4>1. /\ v.ch.idx = "added" /\ v.ch.listen_events = {} /\ v.ch \in Channels
            /\ DOMAIN v = Fields
        BY <1>1, <3>1, Zenon DEF Up, Served, Fields, Channels
      <4>2. u = ctl(w, "DEL")
        BY <4>1, Zenon DEF DisableAll, updateChannel
      <4> HIDE DEF v
      <4>3. w.ch.idx = "deleted" /\ DOMAIN w = Fields
        BY <4>1, Zenon DEF Fields, Channels
      <4> HIDE DEF w
      <4>4. ctl(w, "DEL").ch = w.ch
        BY <4>3, Zenon DEF ctl, Fields
      <4> QED
        BY <4>2, <4>3, <4>4, Zenon
    <3> QED
      BY <3>1, Zenon
  <2> HIDE DEF u
  <2>3. DOMAIN s = Fields /\ s.conn = "closed" /\ s.ch = u.ch /\ s.ssl_ = h.ssl_
    BY <1>1, <2>1, Zenon DEF Socket, Same, Fields, IoFields
  <2>4. Hangup(h) = [s EXCEPT !.reg = NotThere, !.aside = h.ch.idx # "added"]
    BY Zenon DEF Hangup, u
  <2> HIDE DEF s
  <2> QED
    BY <2>1, <2>2, <2>3, <2>4, <1>1, ZenonT(30) DEF Fields, IoFields
<1>2. CASE k.kind = "plain"
  <2> DEFINE h == Hangup(k)
  <2>1. /\ DOMAIN h = Fields /\ h.conn = "closed"
        /\ h.ch \in Channels /\ h.ch.listen_events = {}
        /\ h.reg = NotThere /\ (~h.aside => h.ch.idx # "added")
    BY <1>1, Zenon DEF Up, Served
  <2>2. handle_ep_hup(k) = [h EXCEPT !.ch.callbacks = FALSE]
    BY <1>2, Zenon DEF handle_ep_hup, hupPlain, Up, Served
  <2> DEFINE j == [h EXCEPT !.ch.callbacks = FALSE]
  <2> HIDE DEF h
  <2>3. /\ DOMAIN j = Fields /\ j.conn = h.conn /\ j.reg = h.reg /\ j.aside = h.aside
        /\ j.ch = [h.ch EXCEPT !.callbacks = FALSE]
    BY <2>1, Zenon DEF Fields
  <2>4. /\ j.ch \in Channels /\ j.ch.callbacks = FALSE /\ j.ch.idx = h.ch.idx
        /\ j.ch.listen_events = {}
    <3> DEFINE x == h.ch
    <3>1. x \in Channels /\ x.listen_events = {}
      BY <2>1, Zenon
    <3> HIDE DEF x
    <3>2. LET y == [x EXCEPT !.callbacks = FALSE]
          IN  y \in Channels /\ y.callbacks = FALSE /\ y.idx = x.idx /\ y.listen_events = {}
      BY <3>1, Zenon DEF Channels
    <3> QED
      BY <2>3, <3>2, Zenon DEF x
  <2> HIDE DEF j
  <2>5. Shut(j)
    BY <2>1, <2>3, <2>4, Zenon DEF Shut
  <2> QED
    BY <2>2, <2>5, Zenon DEF j
<1>3. CASE k.kind # "plain"
  <2> DEFINE h == [k EXCEPT !.ssl_ = "freed"]
  <2>1. /\ DOMAIN h = Fields /\ h.ch = k.ch /\ h.reg = k.reg /\ h.conn = "up" /\ h.ssl_ = "freed"
    BY Zenon DEF Up, Served, Fields, IoFields
  <2>2. handle_ep_hup(k) = Hangup(h)
    BY <1>3, Zenon DEF handle_ep_hup, hupSsl, Up, Served
  <2> HIDE DEF h
  <2> QED
    BY <2>1, <2>2, <1>1, Zenon DEF Shut
<1> QED
  BY <1>2, <1>3, Zenon

-----------------------------------------------------------------------------
(* sendInLoop *)

\* n messages are 2 * n bytes.
LEMMA StreamSeq ==
    ASSUME NEW n \in Nat
    PROVE  Stream(n) \in Seq(Int \X Int) /\ Len(Stream(n)) = 2 * n
  BY DEF Stream

\* Message n + 1 follows the first n messages.
LEMMA StreamNext ==
    ASSUME NEW n \in Nat
    PROVE  Stream(n) \o Bytes(n + 1, 1) = Stream(n + 1)
<1> DEFINE s == Stream(n)
           m == Bytes(n + 1, 1)
           t == Stream(n + 1)
<1>1. s \in Seq(Int \X Int) /\ m \in Seq(Int \X Int) /\ t \in Seq(Int \X Int)
  <2>1. m \in Seq(Int \X Int)
    BY DEF Bytes
  <2> QED
    BY <2>1, StreamSeq
<1>2. Len(s) = 2 * n /\ Len(m) = 2 /\ Len(t) = 2 * n + 2
  <2>1. Len(m) = 2
    BY DEF Bytes
  <2>2. Len(t) = 2 * (n + 1)
    BY StreamSeq
  <2> QED
    BY <2>1, <2>2, StreamSeq
<1>3. \A i \in 1..(2 * n) : s[i] = t[i]
  BY DEF Stream
<1>4. m[1] = <<n + 1, 1>> /\ m[2] = <<n + 1, 2>>
  BY DEF Bytes
<1>5. t[2 * n + 1] = <<n + 1, 1>>
  <2>1. (2 * n + 1 + 1) \div 2 = n + 1 /\ (2 * n + 1 + 1) % 2 = 0 /\ 2 * n + 1 \in 1..2 * (n + 1)
    OBVIOUS
  <2> QED
    BY <2>1 DEF Stream
<1>6. t[2 * n + 2] = <<n + 1, 2>>
  <2>1. (2 * n + 2 + 1) \div 2 = n + 1 /\ (2 * n + 2 + 1) % 2 = 1 /\ 2 * n + 2 \in 1..2 * (n + 1)
    OBVIOUS
  <2> QED
    BY <2>1 DEF Stream
<1> HIDE DEF s, m, t
<1> DEFINE c == s \o m
           N == 2 * n
<1>7. /\ c \in Seq(Int \X Int) /\ Len(c) = Len(s) + Len(m)
      /\ \A i \in 1..Len(s) + Len(m) : c[i] = IF i <= Len(s) THEN s[i] ELSE m[i - Len(s)]
  BY <1>1, ConcatProperties, Zenon
<1> HIDE DEF c
<1>8. /\ N \in Nat /\ Len(s) = N /\ Len(m) = 2 /\ Len(t) = N + 2
      /\ \A i \in 1..N : s[i] = t[i]
      /\ m[1] = t[N + 1] /\ m[2] = t[N + 2]
  BY <1>2, <1>3, <1>4, <1>5, <1>6
<1> HIDE DEF N
<1>9. ASSUME NEW i \in 1..N + 2 PROVE c[i] = t[i]
  <2>1. i <= N \/ (i = N + 1 /\ i - N = 1) \/ (i = N + 2 /\ i - N = 2)
    BY <1>8
  <2>2. c[i] = IF i <= N THEN s[i] ELSE m[i - N]
    BY <1>7, <1>8, Zenon
  <2> QED
    BY <1>8, <2>1, <2>2
<1>10. c = t
  BY <1>1, <1>7, <1>8, <1>9, SeqEqual, Zenon
<1> QED
  BY <1>10, Zenon DEF c, s, m, t

\* What Joined makes of no message and of one.
LEMMA JoinedOne ==
    ASSUME NEW m
    PROVE  Joined(<<>>) = <<>> /\ Joined(<<Bytes(m, 1)>>) = Bytes(m, 1)
<1>1. Joined(<<>>) = <<>>
  BY DEF Joined
<1> DEFINE s == <<Bytes(m, 1)>>
<1>2. 2 * Len(s) = 2 /\ s[1] = Bytes(m, 1)
  OBVIOUS
<1>3. ASSUME NEW i \in 1..2
      PROVE  s[(i + 1) \div 2][1 + ((i + 1) % 2)] = <<m, i>>
  <2>1. (i + 1) \div 2 = 1 /\ 1 + ((i + 1) % 2) = i
    OBVIOUS
  <2>2. Bytes(m, 1)[i] = <<m, i>>
    BY DEF Bytes
  <2> QED
    BY <1>2, <2>1, <2>2, Zenon
<1>4. Bytes(m, 1) = [i \in 1..2 |-> <<m, i>>]
  BY DEF Bytes
<1>5. Joined(s) = [i \in 1..2 |-> s[(i + 1) \div 2][1 + ((i + 1) % 2)]]
  BY <1>2, Zenon DEF Joined
<1> HIDE DEF s
<1>6. Joined(s) = Bytes(m, 1)
  BY <1>3, <1>4, <1>5, Zenon
<1> QED
  BY <1>1, <1>6, Zenon DEF s

\* sendInLoop keeps the output in order, or marks it as refused or overtaken.
LEMMA SendKeeps ==
    ASSUME NEW k, NEW a \in BOOLEAN, NEW r \in BOOLEAN, Up(k, a, r), Fit(k, a),
           NEW j \in sendInLoop([k EXCEPT !.sends = @ + 1], k.sends + 1)
    PROVE  Up(j, a, r) /\ Fit(j, a)
<1> DEFINE s == [k EXCEPT !.sends = @ + 1]
           m == k.sends + 1
<1>1. /\ DOMAIN s = Fields /\ s.sends = k.sends + 1 /\ k.sends \in Nat
      /\ Same(s, k, {"sends"})
  BY Zenon DEF Up, Served, Output, Fields, IoFields, Same
<1>2. j \in sendInLoop(s, m)
  OBVIOUS
<1> HIDE DEF s
<1>3. /\ s.ch = k.ch /\ s.reg = k.reg /\ s.conn = k.conn /\ s.kind = k.kind /\ s.out = k.out
      /\ s.wire = k.wire /\ s.refused = k.refused /\ s.overtaken = k.overtaken
      /\ s.room = k.room /\ s.edge = k.edge /\ s.lingers = k.lingers /\ s.failed = k.failed
  BY <1>1, Zenon DEF Same, Up, Served, Fields, IoFields
\* The message is lost, or part of it.
<1>4. ASSUME NEW i, Same(i, s, {"refused", "wire", "room", "edge"}), i.refused = TRUE
      PROVE  Up(i, a, r)
  <2>1. /\ DOMAIN i = Fields /\ i.ch = k.ch /\ i.reg = k.reg /\ i.conn = k.conn
        /\ i.kind = k.kind /\ i.out = k.out /\ i.sends = k.sends + 1
    BY <1>1, <1>3, <1>4, SMTT(30) DEF Same, Fields, IoFields
  <2> QED
    BY <1>1, <2>1, <1>4 DEF Up, Served, Output
\* It is on the wire.
<1>5. ASSUME NEW i, i = Took(s, Bytes(m, 1)), k.out = <<>>
      PROVE  Up(i, a, r) /\ Same(i, s, {"wire"})
  <2>1. /\ DOMAIN i = Fields /\ Same(i, s, {"wire"}) /\ i.wire = k.wire \o Bytes(m, 1)
    BY <1>1, <1>3, <1>5, Zenon DEF Took, Same, Fields, IoFields
  <2>2. /\ i.ch = k.ch /\ i.reg = k.reg /\ i.conn = k.conn /\ i.sends = k.sends + 1
        /\ i.kind = k.kind /\ i.out = k.out /\ i.refused = k.refused /\ i.overtaken = k.overtaken
    BY <1>1, <1>3, <2>1, Zenon DEF Same, Fields, IoFields
  <2>3. ~k.refused /\ ~k.overtaken => i.wire = Stream(k.sends + 1)
    <3>1. ~k.refused /\ ~k.overtaken => k.wire = Stream(k.sends)
      BY <1>5 DEF Up, Output, Ordered
    <3>2. Stream(k.sends) \o Bytes(m, 1) = Stream(k.sends + 1)
      BY <1>1, StreamNext, Zenon
    <3> QED
      BY <2>1, <3>1, <3>2, Zenon
  <2> QED
    BY <1>1, <1>5, <2>1, <2>2, <2>3, SMTT(30) DEF Up, Served, Output, Ordered
<1>6. CASE Writing(s) \/ s.out # <<>>
  <2>1. "write" \in k.ch.listen_events /\ Writing(s)
    BY <1>3, <1>6, Zenon DEF Up, Served, Output, Writing
  <2>2. j = [s EXCEPT !.out = <<Bytes(m, 1)>> \o @, !.overtaken = @ \/ s.out # <<>>]
    <3> DEFINE i == [s EXCEPT !.out = <<Bytes(m, 1)>> \o @, !.overtaken = @ \/ s.out # <<>>]
    <3>1. i.ch = s.ch
      BY <1>1, Zenon DEF Fields, IoFields
    <3>2. j = buffer(s, Bytes(m, 1))
      BY <1>2, <1>6, Zenon DEF sendInLoop
    <3>3. buffer(s, Bytes(m, 1)) = IF Writing(i) THEN i ELSE EnableIO(i, "write")
      BY Zenon DEF buffer
    <3> HIDE DEF i
    <3>4. Writing(i)
      BY <2>1, <3>1, Zenon DEF Writing
    <3> QED
      BY <3>2, <3>3, <3>4, Zenon DEF i
  <2>3. /\ DOMAIN j = Fields /\ Same(j, s, {"out", "overtaken"})
        /\ j.out = <<Bytes(m, 1)>> \o k.out /\ j.overtaken = (k.overtaken \/ k.out # <<>>)
    BY <1>1, <1>3, <2>2, ZenonT(30) DEF Same, Fields, IoFields
  <2>4. /\ j.ch = k.ch /\ j.reg = k.reg /\ j.conn = k.conn /\ j.sends = k.sends + 1
        /\ j.kind = k.kind /\ j.wire = k.wire /\ j.refused = k.refused
        /\ j.room = k.room /\ j.edge = k.edge /\ j.lingers = k.lingers /\ j.failed = k.failed
    BY <1>1, <1>3, <2>3, Zenon DEF Same, Fields, IoFields
  <2>5. k.out = <<>> => j.out = <<Bytes(m, 1)>>
    BY <2>3
  <2>6. ~j.refused /\ ~j.overtaken => Ordered(j)
    <3> SUFFICES ASSUME ~j.refused, ~j.overtaken PROVE Ordered(j)
      OBVIOUS
    <3>1. k.out = <<>> /\ ~k.overtaken /\ ~k.refused
      BY <2>3, <2>4, ZenonT(30)
    <3>2. k.wire = Stream(k.sends)
      BY <3>1 DEF Up, Served, Output, Ordered
    <3>3. j.sends > 0 /\ j.sends - 1 = k.sends
      BY <1>1, <2>4
    <3> QED
      BY <2>4, <2>5, <3>1, <3>2, <3>3, Zenon DEF Ordered
  <2>7. k.kind # "plain" /\ j.sends \in Nat
    BY <1>1, <2>1, <2>4 DEF Up, Served, Output
  <2>8. Up(j, a, r)
    BY <2>1, <2>3, <2>4, <2>6, <2>7, Zenon DEF Up, Served, Output
  <2>9. Fit(j, a)
    BY <2>4, Zenon DEF Fit, Watched
  <2> QED
    BY <2>8, <2>9, Zenon
<1>7. CASE ~Writing(s) /\ s.out = <<>> /\ s.kind = "plain"
  <2>1. j \in sendPlain(s, m)
    BY <1>2, <1>7, Zenon DEF sendInLoop
  <2>2. \/ j = Took(s, Bytes(m, 1))
        \/ Same(j, s, {"refused", "wire", "room", "edge"}) /\ j.refused = TRUE
    <3> DEFINE b == Bytes(m, 1)
    <3>1. \/ j \in {Refused(s), Full(Refused(s))} \/ j = Took(s, b)
          \/ j = Full(Refused(Took(s, <<b[1]>>))) \/ j = Refused(Took(s, <<b[1]>> \o b))
      BY <2>1, Zenon DEF sendPlain
    <3> HIDE DEF b
    <3>2. ASSUME NEW w
          PROVE  LET i == Full(Refused(Took(s, w)))
                     l == Refused(Took(s, w))
                 IN  /\ Same(i, s, {"refused", "wire", "room", "edge"}) /\ i.refused = TRUE
                     /\ Same(l, s, {"refused", "wire", "room", "edge"}) /\ l.refused = TRUE
      BY <1>1, Zenon DEF Same, Full, Refused, Took, Fields, IoFields
    <3>3. /\ Same(Refused(s), s, {"refused", "wire", "room", "edge"}) /\ Refused(s).refused = TRUE
          /\ Same(Full(Refused(s)), s, {"refused", "wire", "room", "edge"})
          /\ Full(Refused(s)).refused = TRUE
      BY <1>1, Zenon DEF Same, Full, Refused, Fields, IoFields
    <3> QED
      BY <3>1, <3>2, <3>3, Zenon DEF b
  <2>3. Up(j, a, r)
    BY <1>3, <1>4, <1>5, <1>7, <2>2, ZenonT(30)
  <2>4. j.kind = "plain"
    BY <1>1, <1>5, <1>7, <1>3, <2>2 DEF Same, Fields, IoFields
  <2>5. Fit(j, a)
    BY <2>3, <2>4, Zenon DEF Up, Served, Output, Fit, Watched
  <2> QED
    BY <2>3, <2>5
<1>8. CASE ~Writing(s) /\ s.out = <<>> /\ s.kind # "plain"
  <2>1. j \in sendSsl(s, m)
    BY <1>2, <1>8, Zenon DEF sendInLoop
  <2> DEFINE f == Full(Refused(s))
             e == EnableIO(Refused(s), "read")
  <2>2. /\ Same(Refused(s), s, {"refused", "wire", "room", "edge"}) /\ Refused(s).refused = TRUE
        /\ Same(f, s, {"refused", "wire", "room", "edge"}) /\ f.refused = TRUE
    BY <1>1, Zenon DEF Same, Full, Refused, Fields, IoFields
  <2>3. Up(Refused(s), a, r) /\ Up(f, a, r)
    BY <1>4, <2>2, Zenon
  <2>4. Up(e, a, r) /\ Same(e, Refused(s), {"ch", "reg", "edge"})
    BY <2>3, EnableRead, Zenon
  <2>5. f.kind = s.kind /\ e.kind = s.kind /\ e.refused = TRUE
    BY <1>1, <2>2, <2>4, Zenon DEF Same, Fields, IoFields
  <2>6. Refused(s).ch = s.ch
    BY <1>1, <2>2, Zenon DEF Same, Fields, IoFields
  <2> HIDE DEF f, e
  \* The message is kept: the write interest is switched on, or is on.
  <2>7. ASSUME NEW i, Up(i, a, r), i.refused = TRUE, i.kind # "plain", NEW b,
               Writing(i) => Fit(i, a)
        PROVE  Up(buffer(i, b), a, r) /\ Fit(buffer(i, b), a)
    <3> DEFINE q == [i EXCEPT !.out = <<b>> \o @, !.overtaken = @ \/ i.out # <<>>]
    <3>1. Same(q, i, {"out", "overtaken"}) /\ DOMAIN i = Fields
      BY <2>7, Zenon DEF Same, Up, Served, Fields, IoFields
    <3>2. buffer(i, b) = IF Writing(q) THEN q ELSE EnableIO(q, "write")
      BY Zenon DEF buffer
    <3> HIDE DEF q
    <3>3. /\ DOMAIN q = Fields /\ q.ch = i.ch /\ q.reg = i.reg /\ q.conn = i.conn
          /\ q.kind = i.kind /\ q.refused = i.refused /\ q.sends = i.sends
          /\ q.room = i.room /\ q.edge = i.edge /\ q.lingers = i.lingers /\ q.failed = i.failed
      BY <3>1, Zenon DEF Same, Fields, IoFields
    <3>4. Served(q, a, r)
      BY <2>7, <3>3, Zenon DEF Up, Served
    <3>5. CASE Writing(q)
      <4>1. Up(q, a, r)
        BY <2>7, <3>3, <3>4, <3>5, Zenon DEF Up, Output, Writing
      <4>2. Fit(q, a)
        BY <2>7, <3>3, <3>5, Zenon DEF Fit, Watched, Writing
      <4> QED
        BY <3>2, <3>5, <4>1, <4>2, Zenon
    <3>6. CASE ~Writing(q)
      <4>1. Output(q, q.ch.listen_events \cup {"write"})
        BY <2>7, <3>3, Zenon DEF Up, Output
      <4>2. Up(EnableIO(q, "write"), a, r) /\ Fit(EnableIO(q, "write"), a)
        BY <3>4, <4>1, EnableKeeps, Zenon DEF Events
      <4> QED
        BY <3>2, <3>6, <4>2, Zenon
    <3> QED
      BY <3>5, <3>6, Zenon
  <2>8. Fit(f, a) /\ Fit(e, a) /\ Fit(Refused(s), a)
    <3>1. Fit(f, a)
      BY <1>1, Zenon DEF f, Full, Refused, Fit, Watched, Fields, IoFields
    <3>2. Fit(e, a)
      BY <2>3, EnableRead, Zenon DEF e
    <3>3. Fit(Refused(s), a)
      BY <2>6, <1>8, Zenon DEF Fit, Watched, Writing
    <3> QED
      BY <3>1, <3>2, <3>3, Zenon
  <2>9. CASE j = Refused(s)
    BY <2>3, <2>8, <2>9, Zenon
  <2>10. CASE j = buffer(f, Bytes(m, 0)) \/ j = buffer(e, Bytes(m, 0))
    BY <1>8, <2>2, <2>3, <2>4, <2>5, <2>7, <2>8, <2>10, Zenon
  <2>11. CASE j = Took(s, Bytes(m, 1))
    <3>1. Up(j, a, r) /\ Same(j, s, {"wire"})
      BY <1>3, <1>5, <1>8, <2>11, Zenon
    <3>2. j.ch = s.ch
      BY <1>1, <3>1, Zenon DEF Same, Fields, IoFields
    <3> QED
      BY <1>8, <3>1, <3>2, Zenon DEF Fit, Watched, Writing
  <2> QED
    BY <2>1, <2>9, <2>10, <2>11, Zenon DEF sendSsl, f, e
<1> QED
  BY <1>6, <1>7, <1>8, Zenon

-----------------------------------------------------------------------------
(* The event handlers *)

\* A handler that writes takes messages off the front of outputBuffers_.
LEMMA DrainedKeeps ==
    ASSUME NEW k, NEW a \in BOOLEAN, NEW r \in BOOLEAN, Up(k, a, r), k.out # <<>>, NEW n
    PROVE  /\ Same(Drained(k, n), k, {"wire", "out"})
           /\ Up(Refused(Drained(k, n)), a, r)
           /\ n = Len(k.out) => Up(Drained(k, n), a, r)
<1> DEFINE d == Drained(k, n)
           e == Refused(d)
<1>1. /\ Same(d, k, {"wire", "out"}) /\ DOMAIN k = Fields
      /\ d.wire = k.wire \o Joined(SubSeq(k.out, 1, n))
      /\ d.out = SubSeq(k.out, n + 1, Len(k.out))
  BY Zenon DEF Drained, Same, Up, Served, Fields, IoFields
<1> HIDE DEF d
<1>2. /\ DOMAIN d = Fields /\ d.ch = k.ch /\ d.reg = k.reg /\ d.conn = k.conn /\ d.kind = k.kind
      /\ d.sends = k.sends /\ d.refused = k.refused /\ d.overtaken = k.overtaken
  BY <1>1, Zenon DEF Same, Fields, IoFields
<1>3. /\ DOMAIN e = Fields /\ e.ch = k.ch /\ e.reg = k.reg /\ e.conn = k.conn /\ e.kind = k.kind
      /\ e.sends = k.sends /\ e.refused = TRUE
  BY <1>2, Zenon DEF Refused, Fields, IoFields
<1> HIDE DEF e
<1>4. "write" \in k.ch.listen_events /\ k.kind # "plain" /\ k.sends \in Nat /\ Served(k, a, r)
  BY Zenon DEF Up, Output
<1>5. Up(e, a, r)
  BY <1>3, <1>4, Zenon DEF Up, Served, Output
<1>6. ASSUME n = Len(k.out), ~k.refused, ~k.overtaken
      PROVE  Ordered(d)
  <2> DEFINE b == Bytes(k.sends, 1)
  <2>1. k.sends > 0 /\ k.out = <<b>> /\ k.wire = Stream(k.sends - 1)
    BY <1>6, Zenon DEF Up, Output, Ordered
  <2>2. b \in Seq(Int \X Int)
    BY <1>4 DEF Bytes
  <2> HIDE DEF b
  <2>3. n = 1 /\ SubSeq(k.out, 1, n) = <<b>> /\ SubSeq(k.out, n + 1, Len(k.out)) = <<>>
    <3>1. <<b>> \in Seq({b}) /\ Len(<<b>>) = 1
      OBVIOUS
    <3>2. SubSeq(<<b>>, 1, 1) = <<b>>
      BY <3>1, SubSeqFull, Zenon
    <3>3. SubSeq(<<b>>, 2, 1) = <<>>
      BY SubSeqEmpty
    <3> QED
      BY <1>6, <2>1, <3>1, <3>2, <3>3
  <2>4. Stream(k.sends - 1) \o b = Stream(k.sends)
    <3> DEFINE q == k.sends - 1
    <3>1. q \in Nat /\ q + 1 = k.sends
      BY <1>4, <2>1
    <3> HIDE DEF q
    <3>2. Stream(q) \o Bytes(q + 1, 1) = Stream(q + 1)
      BY <3>1, StreamNext, ZenonT(30)
    <3> QED
      BY <3>1, <3>2, Zenon DEF q, b
  <2>5. Joined(<<b>>) = b
    BY JoinedOne, Zenon DEF b
  <2> QED
    BY <1>1, <1>2, <2>1, <2>3, <2>4, <2>5, Zenon DEF Ordered
<1>7. n = Len(k.out) => Up(d, a, r)
  BY <1>2, <1>4, <1>6, Zenon DEF Up, Served, Output
<1> QED
  BY <1>1, <1>5, <1>7, Zenon DEF d, e

\* The write loop that stops early leaves the connection waiting for the socket, or shut.
LEMMA StoppedKeeps ==
    ASSUME NEW k, NEW a \in BOOLEAN, NEW r \in BOOLEAN, Up(k, a, r), k.out # <<>>, NEW n,
           NEW w \in BOOLEAN, NEW j \in Stopped(k, n, w)
    PROVE  Handled(j, a, r)
<1> DEFINE d == Refused(Drained(k, n))
<1>1. Up(d, a, r) /\ Same(Drained(k, n), k, {"wire", "out"})
  BY DrainedKeeps, Zenon
<1>2. j \in {WantWrite(d, w), EnableIO(d, "read"), handle_ep_hup(d)}
  BY Zenon DEF Stopped
<1>3. d.ch = k.ch
  BY <1>1, Zenon DEF Refused, Same, Up, Served, Fields, IoFields
<1> HIDE DEF d
<1>4. CASE j = WantWrite(d, w)
  <2>1. Writing(d)
    BY <1>3, Zenon DEF Up, Output, Writing
  <2>2. j = Full(d)
    BY <1>4, <2>1, Zenon DEF WantWrite
  <2>3. Same(j, d, {"room", "edge"}) /\ j.room = FALSE
    BY <1>1, <2>2, Zenon DEF Full, Same, Up, Served, Fields, IoFields
  <2>4. Up(j, a, r)
    BY <1>1, <2>3, UpKept, Zenon DEF Same
  <2> QED
    BY <2>3, <2>4, Zenon DEF Handled, Fit, Watched
<1>5. CASE j = EnableIO(d, "read")
  BY <1>1, <1>5, EnableRead, Zenon DEF Handled
<1>6. CASE j = handle_ep_hup(d)
  BY <1>1, <1>6, HangupShuts, Zenon DEF Handled
<1> QED
  BY <1>2, <1>4, <1>5, <1>6, Zenon

\* handle_ep_out after the hang-up of the same HandleEvent.
LEMMA OutOfShut ==
    ASSUME NEW k, Shut(k), k.ch.callbacks, NEW j \in handle_ep_out(k)
    PROVE  Shut(j)
<1>1. CASE k.out = <<>>
  <2> DEFINE v == [k EXCEPT !.ch.listen_events = @ \ {"write"}]
             u == updateChannel(v)
             q == Rearm(u)
  <2>1. j = [q EXCEPT !.aside = @ \/ k.conn = "closed", !.lingers = FALSE]
    BY <1>1, Zenon DEF handle_ep_out, outNothing, DisableIO, Disable
  <2>2. /\ DOMAIN v = Fields /\ v.conn = "closed" /\ v.reg = NotThere /\ v.ssl_ = k.ssl_
        /\ v.ch \in Channels /\ v.ch.listen_events = {} /\ v.ch.callbacks = k.ch.callbacks
    BY Zenon DEF Shut, Channels, Fields, IoFields
  <2> HIDE DEF v
  <2>3. /\ DOMAIN u = Fields /\ u.conn = "closed" /\ u.reg = NotThere /\ u.ssl_ = k.ssl_
        /\ u.ch \in Channels /\ u.ch.listen_events = {}
    <3> DEFINE w == [v EXCEPT !.ch.idx = "added"]
               x == [v EXCEPT !.ch.idx = "deleted", !.ch.tied = FALSE]
    <3>1. /\ DOMAIN w = Fields /\ w.conn = "closed" /\ w.reg = NotThere /\ w.ssl_ = k.ssl_
          /\ w.ch \in Channels /\ w.ch.listen_events = {}
      BY <2>2, Zenon DEF Channels, Fields, IoFields
    <3>2. /\ DOMAIN x = Fields /\ x.conn = "closed" /\ x.reg = NotThere /\ x.ssl_ = k.ssl_
          /\ x.ch \in Channels /\ x.ch.listen_events = {}
      BY <2>2, Zenon DEF Channels, Fields, IoFields
    <3>3. u = ctl(w, "ADD") \/ u = ctl(x, "DEL")
      BY <2>2, Zenon DEF updateChannel
    <3> HIDE DEF w, x
    <3>4. ctl(w, "ADD") = w /\ ctl(x, "DEL") = x
      BY <3>1, <3>2, Zenon DEF ctl
    <3> QED
      BY <3>1, <3>2, <3>3, <3>4, Zenon
  <2> HIDE DEF u
  <2>4. /\ DOMAIN q = Fields /\ q.conn = "closed" /\ q.reg = NotThere /\ q.ssl_ = k.ssl_
        /\ q.ch = u.ch
    BY <2>3, Zenon DEF Rearm, Fields, IoFields
  <2> HIDE DEF q
  <2>5. /\ DOMAIN j = Fields /\ j.conn = "closed" /\ j.reg = NotThere /\ j.ssl_ = k.ssl_
        /\ j.ch = u.ch /\ j.aside
    BY <2>1, <2>4, Zenon DEF Shut, Fields, IoFields
  <2> QED
    BY <2>3, <2>5, Zenon DEF Shut
<1>2. CASE k.out # <<>>
  <2>1. j = [k EXCEPT !.failed = "null"]
    BY <1>2, Zenon DEF handle_ep_out, outSsl, Shut
  <2> QED
    BY <2>1, Zenon DEF Shut, Fields, IoFields
<1> QED
  BY <1>1, <1>2, Zenon

\* handle_ep_out of an open connection.
LEMMA OutKeeps ==
    ASSUME NEW k, NEW a \in BOOLEAN, NEW r \in BOOLEAN, Up(k, a, r), NEW j \in handle_ep_out(k)
    PROVE  Handled(j, a, r)
<1>1. CASE k.out = <<>>
  <2> DEFINE d == DisableIO(k, "write")
  <2>1. j = [d EXCEPT !.aside = @ \/ k.conn = "closed", !.lingers = FALSE]
    BY <1>1, Zenon DEF handle_ep_out, outNothing
  <2>2. Up(d, a, r) /\ d.ch.listen_events = k.ch.listen_events \ {"write"}
    BY <1>1, DisableKeeps, Zenon
  <2> HIDE DEF d
  <2>3. Same(j, d, {"aside", "lingers"}) /\ j.ch = d.ch
    BY <2>1, <2>2, Zenon DEF Same, Up, Served, Fields, IoFields
  <2>4. Up(j, a, r)
    BY <2>2, <2>3, UpKept, Zenon DEF Same
  <2> QED
    BY <2>2, <2>3, <2>4, Zenon DEF Handled, Fit, Watched
<1>2. CASE k.out # <<>> /\ k.ssl_ = "freed"
  <2>1. j = [k EXCEPT !.failed = "null"]
    BY <1>2, Zenon DEF handle_ep_out, outSsl
  <2>2. Same(j, k, {"failed"}) /\ j.failed = "null"
    BY <2>1, Zenon DEF Same, Up, Served, Fields, IoFields
  <2>3. Up(j, a, r)
    BY <2>2, UpKept, Zenon DEF Same
  <2> QED
    BY <2>2, <2>3, Zenon DEF Handled, Fit, Watched
<1>3. CASE k.out # <<>> /\ k.ssl_ # "freed"
  <2> DEFINE d == Drained(k, Len(k.out))
  <2>1. \/ \E n : j \in Stopped(k, n, FALSE)
        \/ j = IF k.rdhup_phrase THEN handle_ep_hup(d) ELSE [d EXCEPT !.lingers = TRUE]
    <3> DEFINE last == IF k.rdhup_phrase THEN handle_ep_hup(d) ELSE [d EXCEPT !.lingers = TRUE]
               some == UNION {Stopped(k, n, FALSE) : n \in 1..Len(k.out) - 1}
    <3>1. handle_ep_out(k) = Stopped(k, 0, FALSE) \cup IF ~k.room THEN {} ELSE some \cup {last}
      <4>1. handle_ep_out(k) = outSsl(k)
        BY <1>3, Zenon DEF handle_ep_out
      <4>2. outSsl(k) = IF k.ssl_ = "freed" THEN {[k EXCEPT !.failed = "null"]}
                        ELSE Stopped(k, 0, FALSE) \cup IF ~k.room THEN {} ELSE some \cup {last}
        BY Zenon DEF outSsl
      <4> QED
        BY <1>3, <4>1, <4>2, Zenon
    <3>2. j \in some => \E n : j \in Stopped(k, n, FALSE)
      BY Zenon
    <3> HIDE DEF last, some
    <3>3. j \in Stopped(k, 0, FALSE) \/ j \in some \/ j = last
      BY <3>1, Zenon
    <3> QED
      BY <3>2, <3>3, Zenon DEF last
  <2>2. Up(d, a, r)
    BY <1>3, DrainedKeeps, Zenon
  <2> HIDE DEF d
  <2>3. ASSUME j = [d EXCEPT !.lingers = TRUE] PROVE Handled(j, a, r)
    <3>1. Same(j, d, {"lingers"}) /\ j.lingers = TRUE
      BY <2>2, <2>3, Zenon DEF Same, Up, Served, Fields, IoFields
    <3>2. Up(j, a, r)
      BY <2>2, <3>1, UpKept, Zenon DEF Same
    <3> QED
      BY <3>1, <3>2, Zenon DEF Handled, Fit, Watched
  <2>4. Shut(handle_ep_hup(d))
    BY <2>2, HangupShuts, Zenon
  <2>5. ASSUME NEW n, j \in Stopped(k, n, FALSE) PROVE Handled(j, a, r)
    BY <1>3, <2>5, StoppedKeeps, Zenon
  <2> QED
    BY <2>1, <2>3, <2>4, <2>5, Zenon DEF Handled
<1> QED
  BY <1>1, <1>2, <1>3, Zenon

\* handle_ep_in of an open connection.
LEMMA InKeeps ==
    ASSUME NEW k, NEW a \in BOOLEAN, NEW r \in BOOLEAN, Up(k, a, r), NEW j \in handle_ep_in(k)
    PROVE  (Up(j, a, r) /\ (Fit(k, a) => Fit(j, a))) \/ Shut(j)
<1>1. CASE j = k
  BY <1>1, Zenon
<1>2. CASE j = handle_ep_hup(k)
  BY <1>2, HangupShuts, Zenon
<1>3. CASE k.kind # "plain" /\ j = EnableIO(Full(k), "write")
  <2> DEFINE f == Full(k)
  <2>1. Same(f, k, {"room", "edge"})
    BY Zenon DEF Full, Same, Up, Served, Fields, IoFields
  <2>2. Up(f, a, r)
    BY <2>1, UpKept, Zenon DEF Same
  <2>3. f.kind = k.kind
    BY <2>1, Zenon DEF Same, Up, Served, Fields, IoFields
  <2> HIDE DEF f
  <2>4. Output(f, f.ch.listen_events \cup {"write"}) /\ Served(f, a, r)
    BY <1>3, <2>2, <2>3, Zenon DEF Up, Output
  <2> QED
    BY <1>3, <2>4, EnableKeeps, Zenon DEF Events, f
<1> QED
  BY <1>1, <1>2, <1>3, Zenon DEF handle_ep_in, inPlain, inSsl

\* handle_ep_rdhup with finish_in_out, also after a hang-up of the same HandleEvent.
LEMMA RdhupKeeps ==
    ASSUME NEW k, NEW a \in BOOLEAN, NEW r \in BOOLEAN,
           Up(k, a, r) \/ (Shut(k) /\ k.ch.callbacks), NEW j \in handle_ep_rdhup(k)
    PROVE  Handled(j, a, r)
<1>1. CASE k.ssl_ = "freed"
  <2>1. j = [k EXCEPT !.failed = "null"]
    BY <1>1, Zenon DEF handle_ep_rdhup
  <2>2. CASE Up(k, a, r)
    <3>1. Same(j, k, {"failed"}) /\ j.failed = "null"
      BY <2>1, <2>2, Zenon DEF Same, Up, Served, Fields, IoFields
    <3>2. Up(j, a, r)
      BY <2>2, <3>1, UpKept, Zenon DEF Same
    <3> QED
      BY <3>1, <3>2, Zenon DEF Handled, Fit, Watched
  <2>3. CASE Shut(k)
    BY <2>1, <2>3, Zenon DEF Handled, Shut, Fields, IoFields
  <2> QED
    BY <2>2, <2>3, Zenon
<1>2. CASE k.ssl_ # "freed"
  <2>1. Up(k, a, r)
    BY <1>2, Zenon DEF Shut
  <2>2. PICK f \in finish_in_out(k) : j = [f EXCEPT !.rdhup_phrase = TRUE]
    BY <1>2, Zenon DEF handle_ep_rdhup
  <2>3. CASE f = handle_ep_hup(k)
    <3>1. Shut(f)
      BY <2>1, <2>3, HangupShuts, Zenon
    <3> QED
      BY <2>2, <3>1, Zenon DEF Handled, Shut, Fields, IoFields
  <2>4. CASE k.out # <<>> /\ \E n : f \in Stopped(k, n, TRUE)
    <3>1. Handled(f, a, r)
      BY <2>1, <2>4, StoppedKeeps, Zenon
    <3>2. CASE Shut(f)
      BY <2>2, <3>2, Zenon DEF Handled, Shut, Fields, IoFields
    <3>3. CASE Up(f, a, r) /\ Fit(f, a)
      <4>1. Same(j, f, {"rdhup_phrase"}) /\ DOMAIN f = Fields
        BY <2>2, <3>3, Zenon DEF Same, Up, Served, Fields, IoFields
      <4>2. Up(j, a, r)
        BY <3>3, <4>1, UpKept, Zenon DEF Same
      <4>3. /\ j.ch = f.ch /\ j.failed = f.failed /\ j.room = f.room /\ j.edge = f.edge
            /\ j.lingers = f.lingers
        BY <4>1, Zenon DEF Same, Fields, IoFields
      <4> QED
        BY <3>3, <4>2, <4>3, Zenon DEF Handled, Fit, Watched
    <3> QED
      BY <3>1, <3>2, <3>3, Zenon DEF Handled
  <2>5. CASE f = [k EXCEPT !.failed = "spins"]
    <3>1. Same(j, k, {"failed", "rdhup_phrase"}) /\ j.failed = "spins"
      BY <2>1, <2>2, <2>5, Zenon DEF Same, Up, Served, Fields, IoFields
    <3>2. Up(j, a, r)
      BY <2>1, <3>1, UpKept, Zenon DEF Same
    <3> QED
      BY <3>1, <3>2, Zenon DEF Handled, Fit, Watched
  <2>6. \/ f = handle_ep_hup(k)
        \/ k.out # <<>> /\ \E n : f \in Stopped(k, n, TRUE)
        \/ f = [k EXCEPT !.failed = "spins"]
    <3> DEFINE some == UNION {Stopped(k, n, TRUE) : n \in 1..Len(k.out) - 1}
               spins == [k EXCEPT !.failed = "spins"]
    <3>1. f \in some => \E n : f \in Stopped(k, n, TRUE)
      BY Zenon
    <3>2. finish_in_out(k) \in
            {{handle_ep_hup(k)},
             {handle_ep_hup(k)}
               \cup (IF k.out = <<>> THEN {} ELSE Stopped(k, 0, TRUE))
               \cup (IF k.out = <<>> \/ ~k.room THEN {}
                     ELSE IF ~k.writeComplete THEN {spins} ELSE some)}
      BY Zenon DEF finish_in_out, finishPlain, finishSsl
    <3> HIDE DEF some, spins
    <3>3. \/ f = handle_ep_hup(k) \/ f = spins
          \/ k.out # <<>> /\ (f \in Stopped(k, 0, TRUE) \/ f \in some)
      <4>1. CASE finish_in_out(k) = {handle_ep_hup(k)}
        BY <4>1, Zenon
      <4>2. CASE finish_in_out(k) # {handle_ep_hup(k)}
        <5>1. f \in {handle_ep_hup(k)}
                \cup (IF k.out = <<>> THEN {} ELSE Stopped(k, 0, TRUE))
                \cup (IF k.out = <<>> \/ ~k.room THEN {}
                      ELSE IF ~k.writeComplete THEN {spins} ELSE some)
          BY <3>2, <4>2, Zenon
        <5> QED
          BY <5>1, Zenon
      <4> QED
        BY <4>1, <4>2, Zenon
    <3> QED
      BY <3>1, <3>3, Zenon DEF spins
  <2> QED
    BY <2>3, <2>4, <2>5, <2>6, Zenon
<1> QED
  BY <1>1, <1>2, Zenon

\* handle_ep_err hangs up or does nothing.
LEMMA ErrKeeps ==
    ASSUME NEW k, NEW a \in BOOLEAN, NEW r \in BOOLEAN, Up(k, a, r), NEW j \in handle_ep_err(k)
    PROVE  Handled(j, a, r)
<1>1. CASE j = handle_ep_hup(k)
  BY <1>1, HangupShuts, Zenon DEF Handled
<1>2. CASE j = [Full(k) EXCEPT !.deaf = TRUE]
  <2>1. Same(j, k, {"room", "edge", "deaf"}) /\ j.room = FALSE
    BY <1>2, Zenon DEF Full, Same, Up, Served, Fields, IoFields
  <2>2. Up(j, a, r)
    BY <2>1, UpKept, Zenon DEF Same
  <2> QED
    BY <2>1, <2>2, Zenon DEF Handled, Fit, Watched
<1> QED
  BY <1>1, <1>2, Zenon DEF handle_ep_err

\* Channel::HandleEvent, whatever epoll_wait reports.
LEMMA EventKeeps ==
    ASSUME NEW k, NEW a \in BOOLEAN, NEW r \in BOOLEAN, Up(k, a, r), Fit(k, a), NEW ready,
           NEW j \in HandleEvent(k, ready)
    PROVE  Handled(j, a, r)
<1> DEFINE e == [k EXCEPT !.edge = @ /\ "out" \notin ready]
           out(i, b) == IF b /\ "out" \in ready /\ i.ch.callbacks THEN handle_ep_out(i) ELSE {i}
           first == out(e, k.ch.is_io_channel /\ ~k.ch.tied)
<1>1. Up(e, a, r) /\ ("out" \notin ready => Fit(e, a))
  <2>1. /\ Same(e, k, {"edge"}) /\ DOMAIN k = Fields /\ e.edge = (k.edge /\ "out" \notin ready)
    BY Zenon DEF Same, Up, Served, Fields, IoFields
  <2>2. /\ e.ch = k.ch /\ e.failed = k.failed /\ e.room = k.room /\ e.lingers = k.lingers
    BY <2>1, Zenon DEF Same, Fields, IoFields
  <2>3. Up(e, a, r)
    BY <2>1, UpKept, Zenon DEF Same
  <2> HIDE DEF e
  <2> QED
    BY <2>1, <2>2, <2>3, Zenon DEF Fit, Watched
<1>2. j \in IF "err" \in ready THEN handle_ep_err(e)
            ELSE IF "hup" \in ready THEN {handle_ep_hup(o) : o \in first}
            ELSE IF "rdhup" \in ready
            THEN UNION {IF o.ch.callbacks /\ o.failed = "no" THEN handle_ep_rdhup(o) ELSE {o} :
                            o \in first}
            ELSE UNION {out(i, TRUE) : i \in IF "in" \in ready THEN handle_ep_in(e) ELSE {e}}
  BY Zenon DEF HandleEvent
<1> HIDE DEF e
<1>3. ASSUME NEW o \in first PROVE Up(o, a, r) \/ Shut(o)
  BY <1>1, <1>3, OutKeeps, Zenon DEF Handled
<1> HIDE DEF first
<1>4. CASE "err" \in ready
  BY <1>1, <1>2, <1>4, ErrKeeps, Zenon
<1>5. CASE "err" \notin ready /\ "hup" \in ready
  <2>1. PICK o \in first : j = handle_ep_hup(o)
    BY <1>2, <1>5, Zenon
  <2>2. CASE Up(o, a, r)
    BY <2>1, <2>2, HangupShuts, Zenon DEF Handled
  <2>3. CASE Shut(o)
    BY <2>1, <2>3, Zenon DEF Handled, Shut, handle_ep_hup
  <2> QED
    BY <1>3, <2>2, <2>3, Zenon
<1>6. CASE "err" \notin ready /\ "hup" \notin ready /\ "rdhup" \in ready
  <2>1. PICK o \in first :
          j \in IF o.ch.callbacks /\ o.failed = "no" THEN handle_ep_rdhup(o) ELSE {o}
    BY <1>2, <1>6, Zenon
  <2>2. CASE o.ch.callbacks /\ o.failed = "no"
    BY <1>3, <2>1, <2>2, RdhupKeeps, Zenon
  <2>3. CASE ~(o.ch.callbacks /\ o.failed = "no")
    <3>1. j = o
      BY <2>1, <2>3, Zenon
    <3>2. CASE Up(o, a, r)
      <4>1. o.failed # "no"
        BY <2>3, <3>2, Zenon DEF Up, Served
      <4> QED
        BY <3>1, <3>2, <4>1, Zenon DEF Handled, Fit, Watched
    <3> QED
      BY <1>3, <3>1, <3>2, Zenon DEF Handled
  <2> QED
    BY <2>2, <2>3, Zenon
<1>7. CASE "err" \notin ready /\ "hup" \notin ready /\ "rdhup" \notin ready
  <2>1. PICK i \in IF "in" \in ready THEN handle_ep_in(e) ELSE {e} : j \in out(i, TRUE)
    BY <1>2, <1>7, Zenon
  <2>2. (Up(i, a, r) /\ (Fit(e, a) => Fit(i, a))) \/ Shut(i)
    BY <1>1, <2>1, InKeeps, Zenon
  <2>3. CASE "out" \in ready /\ i.ch.callbacks
    BY <2>1, <2>2, <2>3, OutKeeps, OutOfShut, Zenon DEF Handled
  <2>4. CASE ~("out" \in ready /\ i.ch.callbacks)
    <3>1. j = i
      BY <2>1, <2>4, Zenon
    <3>2. Up(i, a, r) => "out" \notin ready
      BY <2>4, Zenon DEF Up, Served
    <3> QED
      BY <1>1, <2>2, <3>1, <3>2, Zenon DEF Handled
  <2> QED
    BY <2>3, <2>4, Zenon
<1> QED
  BY <1>4, <1>5, <1>6, <1>7, Zenon

-----------------------------------------------------------------------------
(* Steps of a connection that is up. *)

\* A step of one descriptor leaves the others alone.
Only(fd) ==
    \A g \in Fds \ {fd} :
        /\ m_channels'[g] = m_channels[g] /\ epoll'[g] = epoll[g] /\ conn'[g] = conn[g]
        /\ reading_'[g] = reading_[g] /\ io'[g] = io[g] /\ (g \in aside' <=> g \in aside)

\* A step that touches one descriptor keeps the invariant if it keeps it there.
LEMMA OneDescriptor ==
    ASSUME IOInv, NEW fd \in Fds, Only(fd), Shape', DescriptorInv(fd)'
    PROVE  IOInv'
<1>1. ASSUME NEW g \in Fds \ {fd} PROVE DescriptorInv(g)'
  BY <1>1, ZenonT(30) DEF IOInv, Only, DescriptorInv, Down, Given
<1> QED
  BY <1>1, Zenon DEF IOInv

\* The record of a connection that is up is what the handlers expect.
LEMMA WholeUp ==
    ASSUME IOInv, NEW fd \in Fds, conn[fd] = "up", NEW a \in BOOLEAN, a <=> fd \in aside
    PROVE  Up(Whole(fd), a, reading_[fd]) /\ Fit(Whole(fd), a) /\ reading_[fd] \in BOOLEAN
<1> DEFINE k == Whole(fd)
<1>1. DescriptorInv(fd) /\ DOMAIN io[fd] = IoFields
  BY NoConnectionFields, Zenon DEF IOInv, DescriptorInv
<1>2. /\ DOMAIN k = Fields
      /\ k.ch = m_channels[fd] /\ k.reg = epoll[fd] /\ k.conn = conn[fd]
      /\ \A x \in IoFields : k[x] = io[fd][x]
  BY <1>1, WholeFields, ZenonT(30)
<1> HIDE DEF k
<1>3. /\ k.out = io[fd].out /\ k.kind = io[fd].kind /\ k.refused = io[fd].refused
      /\ k.overtaken = io[fd].overtaken /\ k.wire = io[fd].wire /\ k.sends = io[fd].sends
      /\ k.failed = io[fd].failed /\ k.room = io[fd].room /\ k.edge = io[fd].edge
      /\ k.lingers = io[fd].lingers
  BY <1>2, Zenon DEF IoFields
<1>4. Served(k, a, reading_[fd])
  BY <1>1, <1>2, Zenon DEF DescriptorInv, Given, Served
<1>5. Output(k, k.ch.listen_events)
  BY <1>1, <1>2, <1>3, Zenon DEF DescriptorInv, Output, Ordered
<1>6. Fit(k, a)
  BY <1>1, <1>2, <1>3, Zenon DEF DescriptorInv, Fit, Watched
<1> QED
  BY <1>1, <1>4, <1>5, <1>6, Zenon DEF Up, DescriptorInv, k

\* What a handler leaves becomes the state of its descriptor.
LEMMA SettleKeeps ==
    ASSUME IOInv, NEW fd \in Fds, NEW k, NEW a \in BOOLEAN, a <=> fd \in aside,
           Handled(k, a, reading_[fd]), Settle(fd, k)
    PROVE  IOInv'
<1>1. Shape /\ DescriptorInv(fd)
  BY Zenon DEF IOInv
<1>2. /\ Shape' /\ Only(fd)
      /\ m_channels'[fd] = k.ch /\ epoll'[fd] = k.reg /\ conn'[fd] = k.conn
      /\ reading_'[fd] = reading_[fd]
      /\ io'[fd] = IF k.conn # "closed" THEN IoOf(k)
                   ELSE [NoConnection EXCEPT !.kind = k.kind, !.failed = k.failed]
      /\ k.conn # "closed" => aside' = aside
      /\ k.conn = "closed" => (fd \in aside' <=> k.aside)
  BY <1>1, Zenon DEF Shape, Settle, Becomes, Only
<1>3. CASE Shut(k)
  <2>1. DOMAIN io'[fd] = IoFields
    <3> DEFINE n == NoConnection
    <3>1. DOMAIN n = IoFields
      BY NoConnectionFields, Zenon
    <3> HIDE DEF n
    <3>2. DOMAIN [n EXCEPT !.kind = k.kind, !.failed = k.failed] = IoFields
      BY <3>1, Zenon
    <3> QED
      BY <1>2, <1>3, <3>2, Zenon DEF Shut, n
  <2>2. Down(fd)'
    BY <1>2, <1>3, Zenon DEF Down, Shut
  <2>3. DescriptorInv(fd)'
    BY <1>1, <1>2, <1>3, <2>1, <2>2, NoConnectionFields, Zenon DEF DescriptorInv, Shut
  <2> QED
    BY <1>2, <2>3, OneDescriptor, Zenon
<1>4. CASE Up(k, a, reading_[fd]) /\ Fit(k, a)
  <2>1. k.conn = "up" /\ DOMAIN k = Fields
    BY <1>4, Zenon DEF Up, Served
  <2>2. io'[fd] = [f \in IoFields |-> k[f]]
    BY <1>2, <2>1, NoConnectionFields, Zenon DEF IoOf
  <2>3. /\ io'[fd].out = k.out /\ io'[fd].kind = k.kind /\ io'[fd].refused = k.refused
        /\ io'[fd].overtaken = k.overtaken /\ io'[fd].wire = k.wire /\ io'[fd].sends = k.sends
        /\ io'[fd].failed = k.failed /\ io'[fd].room = k.room /\ io'[fd].edge = k.edge
        /\ io'[fd].lingers = k.lingers /\ DOMAIN io'[fd] = IoFields
    BY <2>2, Zenon DEF IoFields
  <2>4. Given(fd)'
    BY <1>2, <1>4, <2>1, Zenon DEF Given, Up, Served
  <2>5. Output(io[fd], m_channels[fd].listen_events)'
    BY <1>2, <1>4, <2>3, Zenon DEF Up, Output, Ordered
  <2>6. fd \notin aside' => Watched(io[fd], m_channels[fd].listen_events)'
    BY <1>2, <1>4, <2>1, <2>3, Zenon DEF Fit, Watched
  <2>7. reading_'[fd] => "read" \in m_channels'[fd].listen_events /\ m_channels'[fd].tied
    BY <1>2, <1>4, Zenon DEF Up, Served
  <2>8. DescriptorInv(fd)'
    BY <1>1, <1>2, <2>1, <2>3, <2>4, <2>5, <2>6, <2>7, NoConnectionFields, Zenon
       DEF DescriptorInv, Given
  <2> QED
    BY <1>2, <2>8, OneDescriptor
<1> QED
  BY <1>3, <1>4, Zenon DEF Handled

\* sendInLoop, an event, forceCloseInLoop, and room in the socket.
LEMMA ConnectionSteps ==
    ASSUME IOInv, NEW fd \in Fds, Send(fd) \/ Space(fd) \/ Event(fd) \/ ForceClose(fd)
    PROVE  IOInv'
<1> DEFINE w == Whole(fd)
           r == reading_[fd]
<1>1. PICK a \in BOOLEAN : a <=> fd \in aside
  BY Zenon
<1>2. conn[fd] = "up"
  BY Zenon DEF Send, Space, Event, ForceClose
<1>3. Up(w, a, r) /\ Fit(w, a) /\ r \in BOOLEAN
  BY <1>1, <1>2, WholeUp, Zenon
<1>4. w.sends = io[fd].sends
  <2>1. DOMAIN io[fd] = IoFields
    BY NoConnectionFields, Zenon DEF IOInv, DescriptorInv
  <2> QED
    BY <2>1, WholeFields, Zenon DEF IoFields
<1>5. CASE Send(fd)
  <2>1. PICK k \in sendInLoop([w EXCEPT !.sends = @ + 1], w.sends + 1) : Settle(fd, k)
    BY <1>4, <1>5, Zenon DEF Send
  <2> HIDE DEF w
  <2>2. Up(k, a, r) /\ Fit(k, a)
    BY <1>3, SendKeeps, Zenon
  <2> QED
    BY <1>1, <2>1, <2>2, SettleKeeps, Zenon DEF Handled
<1>6. CASE Space(fd)
  <2> DEFINE v == [w EXCEPT !.room = TRUE]
             k == Rearm(v)
  <2>1. Settle(fd, k)
    BY <1>6, Zenon DEF Space
  <2> HIDE DEF w
  <2>2. Same(v, w, {"room"}) /\ DOMAIN v = Fields
    BY <1>3, Zenon DEF Same, Up, Served, Fields, IoFields
  <2>3. Up(v, a, r)
    BY <1>3, <2>2, UpKept, Zenon DEF Same
  <2> HIDE DEF v
  <2>4. /\ Same(k, v, {"edge"}) /\ k.edge = ("write" \in v.reg /\ v.room)
        /\ k.ch = v.ch /\ k.room = v.room
    BY <2>2, Zenon DEF Rearm, Same, Fields, IoFields
  <2>5. Up(k, a, r)
    BY <1>3, <2>3, <2>4, UpKept, Zenon DEF Same
  <2> HIDE DEF k
  <2>6. ~a /\ "write" \in v.ch.listen_events => "write" \in v.reg
    BY <2>3, Zenon DEF Up, Served, Agree
  <2>7. Fit(k, a)
    BY <2>4, <2>6, Zenon DEF Fit, Watched
  <2> QED
    BY <1>1, <2>1, <2>5, <2>7, SettleKeeps, Zenon DEF Handled
<1>7. CASE Event(fd)
  <2>1. PICK ready \in Ready(fd) : \E k \in HandleEvent(w, ready) : Settle(fd, k)
    BY <1>7, Zenon DEF Event
  <2>2. PICK k \in HandleEvent(w, ready) : Settle(fd, k)
    BY <2>1, Zenon
  <2> HIDE DEF w
  <2>3. Handled(k, a, r)
    BY <1>3, EventKeeps, Zenon
  <2> QED
    BY <1>1, <2>2, <2>3, SettleKeeps, Zenon
<1>8. CASE ForceClose(fd)
  <2>1. Settle(fd, handle_ep_hup(w))
    BY <1>8, Zenon DEF ForceClose
  <2> HIDE DEF w
  <2>2. Shut(handle_ep_hup(w))
    BY <1>3, HangupShuts, Zenon
  <2> QED
    BY <1>1, <2>1, <2>2, SettleKeeps, Zenon DEF Handled
<1> QED
  BY <1>5, <1>6, <1>7, <1>8, Zenon

-----------------------------------------------------------------------------
(* Steps of Poller. *)

\* The record that the operations of Poller are given.
PollFields == {"ch", "reg", "conn"}

\* What the record of a descriptor says.
LEMMA OfFields ==
    ASSUME NEW fd
    PROVE  /\ DOMAIN Of(fd) = PollFields
           /\ Of(fd).ch = m_channels[fd] /\ Of(fd).reg = epoll[fd] /\ Of(fd).conn = conn[fd]
  BY Zenon DEF Of, PollFields

\* A change of the socket changes nothing else.
LEMMA SocketFields ==
    ASSUME NEW k, DOMAIN k = PollFields, NEW s
    PROVE  /\ DOMAIN Socket(k, s) = PollFields
           /\ Socket(k, s).ch = k.ch /\ Socket(k, s).reg = k.reg /\ Socket(k, s).conn = s
  BY Zenon DEF Socket, PollFields

\* Channel::tie changes nothing else of the channel.
LEMMA TiedFields ==
    ASSUME NEW k, DOMAIN k = PollFields, k.ch \in Channels
    PROVE  /\ DOMAIN Tied(k) = PollFields /\ Tied(k).reg = k.reg /\ Tied(k).conn = k.conn
           /\ Tied(k).ch \in Channels /\ Tied(k).ch.tied /\ Tied(k).ch.callbacks = k.ch.callbacks
           /\ Tied(k).ch.listen_events = k.ch.listen_events
           /\ Tied(k).ch.idx = k.ch.idx
  BY Zenon DEF Tied, PollFields, Channels

\* EnableReading and EnableWriting on an open descriptor, and their opposites.
LEMMA EnableFields ==
    ASSUME NEW k, DOMAIN k = PollFields, k.ch \in Channels, k.conn # "closed", NEW e \in Events
    PROVE  LET u == Enable(k, e)
           IN  /\ DOMAIN u = PollFields /\ u.conn = k.conn /\ u.ch \in Channels
               /\ u.ch.listen_events = k.ch.listen_events \cup {e}
               /\ u.ch.callbacks = k.ch.callbacks /\ u.ch.tied = k.ch.tied
               /\ Known(k.ch, k.reg) => Agree(u.ch, u.reg)
<1> DEFINE L == k.ch.listen_events \cup {e}
<1>1. L \in SUBSET Events /\ L # {}
  BY Zenon DEF Channels, Events
<1>2. {"ch", "reg", "conn"} \subseteq DOMAIN k
  BY Zenon DEF PollFields
<1>3. Enable(k, e) = updateChannel([k EXCEPT !.ch.listen_events = L])
  BY <1>2, Zenon DEF Enable, Channels
<1> HIDE DEF L
<1>4. LET u == updateChannel([k EXCEPT !.ch.listen_events = L])
      IN  /\ Same(u, k, {"ch", "reg"}) /\ u.ch \in Channels /\ u.ch.listen_events = L
          /\ u.ch.callbacks = k.ch.callbacks /\ u.ch.tied = k.ch.tied
          /\ Known(k.ch, k.reg) => Agree(u.ch, u.reg)
  BY <1>1, <1>2, UpdateChannel, Zenon
<1> DEFINE u == updateChannel([k EXCEPT !.ch.listen_events = L])
<1> HIDE DEF u
<1>5. DOMAIN u = DOMAIN k /\ u.conn = k.conn
  <2>1. Same(u, k, {"ch", "reg"}) /\ "conn" \in DOMAIN k \ {"ch", "reg"}
    BY <1>2, <1>4, Zenon DEF u
  <2> QED
    BY <2>1, Zenon DEF Same
<1> QED
  BY <1>3, <1>4, <1>5, Zenon DEF L, u

\* DisableReading and DisableWriting.
LEMMA DisableFields ==
    ASSUME NEW k, DOMAIN k = PollFields, k.ch \in Channels, k.conn # "closed", NEW e \in Events
    PROVE  LET u == Disable(k, e)
           IN  /\ DOMAIN u = PollFields /\ u.conn = k.conn /\ u.ch \in Channels
               /\ u.ch.listen_events = k.ch.listen_events \ {e}
               /\ u.ch.callbacks = k.ch.callbacks
               /\ Known(k.ch, k.reg) => Agree(u.ch, u.reg)
<1> DEFINE L == k.ch.listen_events \ {e}
<1>1. L \in SUBSET Events
  BY Zenon DEF Channels, Events
<1>2. {"ch", "reg", "conn"} \subseteq DOMAIN k
  BY DEF PollFields
<1>3. Disable(k, e) = updateChannel([k EXCEPT !.ch.listen_events = L])
  BY <1>2, Zenon DEF Disable, Channels
<1> HIDE DEF L
<1>4. LET u == updateChannel([k EXCEPT !.ch.listen_events = L])
      IN  /\ Same(u, k, {"ch", "reg"}) /\ u.ch \in Channels /\ u.ch.listen_events = L
          /\ u.ch.callbacks = k.ch.callbacks
          /\ Known(k.ch, k.reg) => Agree(u.ch, u.reg)
  BY <1>1, <1>2, UpdateChannel, Zenon
<1> QED
  BY <1>3, <1>4, Zenon DEF Same, PollFields, L

\* A step of Poller is about one descriptor.
LEMMA BecomesFields ==
    ASSUME Shape, NEW fd \in Fds, NEW k, Becomes(fd, k)
    PROVE  /\ m_channels'[fd] = k.ch /\ epoll'[fd] = k.reg /\ conn'[fd] = k.conn
           /\ DOMAIN m_channels' = Fds /\ DOMAIN epoll' = Fds /\ DOMAIN conn' = Fds
           /\ \A g \in Fds \ {fd} :
                 m_channels'[g] = m_channels[g] /\ epoll'[g] = epoll[g] /\ conn'[g] = conn[g]
  BY Zenon DEF Shape, Becomes

\* A new TcpConnection or ssl_TcpConnection has sent nothing.
LEMMA FreshFields ==
    ASSUME NEW kind \in {"plain", "ssl"}, NEW x \in Fresh(kind)
    PROVE  /\ DOMAIN x = IoFields /\ x.kind = kind /\ x.out = <<>> /\ x.wire = <<>> /\ x.sends = 0
           /\ x.room = TRUE /\ x.lingers = FALSE /\ x.failed = "no"
<1> DEFINE n == NoConnection
<1>1. /\ DOMAIN n = IoFields /\ n.out = <<>> /\ n.wire = <<>> /\ n.sends = 0
      /\ n.room = TRUE /\ n.lingers = FALSE /\ n.failed = "no"
  BY NoConnectionFields, Zenon DEF NoConnection
<1> HIDE DEF n
<1>2. \E r, w \in {FALSE, TRUE} :
         x = [n EXCEPT !.kind = kind, !.rdhup_phrase = r, !.writeComplete = w,
                       !.ssl_ = IF kind = "ssl" THEN "open" ELSE "none"]
  BY DEF Fresh, n
<1>3. PICK r \in {FALSE, TRUE}, w \in {FALSE, TRUE} :
         x = [n EXCEPT !.kind = kind, !.rdhup_phrase = r, !.writeComplete = w,
                       !.ssl_ = IF kind = "ssl" THEN "open" ELSE "none"]
  BY <1>2, Zenon
<1> QED
  BY <1>1, <1>3, Zenon DEF IoFields

\* A connection that has just been given its socket.
LEMMA FreshOutput ==
    ASSUME NEW kind \in {"plain", "ssl"}, NEW x \in Fresh(kind)
    PROVE  Output(x, {"read"}) /\ Watched(x, {"read"}) /\ DOMAIN x = IoFields
<1>1. x.wire = Stream(x.sends)
  <2>1. 1..2 * 0 = {}
    OBVIOUS
  <2>2. Stream(0) = <<>>
    BY <2>1 DEF Stream
  <2> QED
    BY <2>2, FreshFields, Zenon
<1>2. DOMAIN x = IoFields /\ x.out = <<>> /\ x.sends = 0
  BY FreshFields, Zenon
<1>3. Ordered(x)
  BY <1>1, <1>2, Zenon DEF Ordered
<1> QED
  BY <1>2, <1>3 DEF Output, Watched

\* A descriptor's record with a channel to be used; a: the descriptor is aside.
Sound(k, a) ==
    /\ DOMAIN k = PollFields /\ k.ch \in Channels /\ k.ch.callbacks
    /\ ~a => Known(k.ch, k.reg)

\* A channel to be used stays one when the socket changes,
LEMMA SoundSocket ==
    ASSUME NEW k, NEW a \in BOOLEAN, Sound(k, a), NEW s
    PROVE  Sound(Socket(k, s), a) /\ Socket(k, s).ch = k.ch /\ Socket(k, s).conn = s
  BY SocketFields, Zenon DEF Sound

\* when it is tied,
LEMMA SoundTied ==
    ASSUME NEW k, NEW a \in BOOLEAN, Sound(k, a)
    PROVE  /\ Sound(Tied(k), a) /\ Tied(k).ch.tied /\ Tied(k).conn = k.conn
           /\ Tied(k).ch.listen_events = k.ch.listen_events
  BY TiedFields, Zenon DEF Sound, Known

\* The channel forgets what it listens to, and the Poller is not told.
LEMMA SoundForgets ==
    ASSUME NEW k, NEW a \in BOOLEAN, Sound(k, a)
    PROVE  LET q == [k EXCEPT !.ch.listen_events = {}]
           IN  Sound(q, a) /\ q.ch.listen_events = {} /\ q.conn = k.conn
<1> DEFINE q == [k EXCEPT !.ch.listen_events = {}]
<1>1. /\ DOMAIN q = PollFields /\ q.ch \in Channels /\ q.ch.callbacks /\ q.reg = k.reg
      /\ q.ch.idx = k.ch.idx /\ q.ch.listen_events = {} /\ q.conn = k.conn
  BY Zenon DEF Sound, Channels, PollFields
<1> HIDE DEF q
<1>2. Sound(q, a)
  BY <1>1, Zenon DEF Sound, Known
<1> QED
  BY <1>1, <1>2, Zenon DEF q

\* when it listens to more: epoll is then told,
LEMMA SoundEnable ==
    ASSUME NEW k, NEW a \in BOOLEAN, Sound(k, a), k.conn # "closed", NEW e \in Events
    PROVE  /\ Sound(Enable(k, e), a) /\ Enable(k, e).conn = k.conn
           /\ Enable(k, e).ch.listen_events = k.ch.listen_events \cup {e}
           /\ Enable(k, e).ch.tied = k.ch.tied
           /\ ~a => Agree(Enable(k, e).ch, Enable(k, e).reg)
<1>1. \A ch, reg : Agree(ch, reg) => Known(ch, reg)
  BY Zenon DEF Agree
<1>2. LET u == Enable(k, e)
      IN  /\ DOMAIN u = PollFields /\ u.conn = k.conn /\ u.ch \in Channels
          /\ u.ch.listen_events = k.ch.listen_events \cup {e}
          /\ u.ch.callbacks = k.ch.callbacks /\ u.ch.tied = k.ch.tied
          /\ Known(k.ch, k.reg) => Agree(u.ch, u.reg)
  BY EnableFields, Zenon DEF Sound
<1> QED
  BY <1>1, <1>2, Zenon DEF Sound

\* to less,
LEMMA SoundDisable ==
    ASSUME NEW k, NEW a \in BOOLEAN, Sound(k, a), k.conn # "closed", NEW e \in Events
    PROVE  /\ Sound(Disable(k, e), a) /\ Disable(k, e).conn = k.conn
           /\ Disable(k, e).ch.listen_events = k.ch.listen_events \ {e}
           /\ ~a => Agree(Disable(k, e).ch, Disable(k, e).reg)
<1>1. \A ch, reg : Agree(ch, reg) => Known(ch, reg)
  BY SMTT(30) DEF Agree
<1>2. LET u == Disable(k, e)
      IN  /\ DOMAIN u = PollFields /\ u.conn = k.conn /\ u.ch \in Channels
          /\ u.ch.listen_events = k.ch.listen_events \ {e}
          /\ u.ch.callbacks = k.ch.callbacks
          /\ Known(k.ch, k.reg) => Agree(u.ch, u.reg)
  BY DisableFields, Zenon DEF Sound
<1> QED
  BY <1>1, <1>2, Zenon DEF Sound

\* or to nothing.
LEMMA SoundDisableAll ==
    ASSUME NEW k, NEW a \in BOOLEAN, Sound(k, a), k.conn # "closed"
    PROVE  /\ Sound(DisableAll(k), a) /\ DisableAll(k).conn = k.conn
           /\ DisableAll(k).ch.listen_events = {}
<1>1. \A ch, reg : Agree(ch, reg) => Known(ch, reg)
  BY Zenon DEF Agree
<1>2. LET u == DisableAll(k)
      IN  /\ Same(u, k, {"ch", "reg"}) /\ u.ch \in Channels /\ u.ch.listen_events = {}
          /\ u.ch.callbacks = k.ch.callbacks
          /\ Known(k.ch, k.reg) => Agree(u.ch, u.reg)
  <2>1. {"ch", "reg", "conn"} \subseteq DOMAIN k /\ k.ch \in Channels /\ {} \in SUBSET Events
    BY Zenon DEF PollFields, Sound
  <2> QED
    BY <2>1, UpdateChannel, Zenon DEF DisableAll
<1>3. DOMAIN DisableAll(k) = PollFields /\ DisableAll(k).conn = k.conn
  BY <1>2, Zenon DEF Same, Sound, PollFields
<1> QED
  BY <1>1, <1>2, <1>3, Zenon DEF Sound

\* The record of a descriptor that has its channel.
LEMMA GivenSound ==
    ASSUME NEW fd \in Fds, Given(fd), NEW a \in BOOLEAN, a <=> fd \in aside
    PROVE  Sound(Of(fd), a)
  BY OfFields, Zenon DEF Given, Sound, Agree

\* A descriptor that the kernel gives out, with the channel it had before or a new one.
LEMMA TakenSound ==
    ASSUME IOInv, NEW fd \in Fds, conn[fd] = "closed", NEW a \in BOOLEAN, a <=> fd \in aside, NEW s
    PROVE  LET k == Callbacks(add_channel(Socket(Of(fd), s)))
           IN  /\ Sound(k, a) /\ k.conn = s /\ k.ch.listen_events = {} /\ k.reg = NotThere
               /\ ~a => k.ch.idx # "added"
<1> DEFINE o == Socket(Of(fd), s)
           c == add_channel(o)
           k == Callbacks(c)
<1>1. /\ m_channels[fd] \in Channels \cup {NoChannel} /\ epoll[fd] = NotThere
      /\ m_channels[fd] # NoChannel => m_channels[fd].listen_events = {}
      /\ ~a => m_channels[fd].idx # "added"
  BY Zenon DEF IOInv, DescriptorInv, Down
<1>2. DOMAIN o = PollFields /\ o.ch = m_channels[fd] /\ o.reg = epoll[fd] /\ o.conn = s
  BY OfFields, SocketFields, SMTT(30)
<1> HIDE DEF o
<1>3. /\ NewChannel \in Channels /\ NewChannel.listen_events = {} /\ NewChannel.idx = "deleted"
  BY Zenon DEF NewChannel, Channels
<1>4. /\ DOMAIN c = PollFields /\ c.ch \in Channels /\ c.ch.listen_events = {} /\ c.reg = NotThere
      /\ c.conn = s /\ (~a => c.ch.idx # "added")
  BY <1>1, <1>2, <1>3, Zenon DEF add_channel, PollFields
<1> HIDE DEF c
<1>5. /\ DOMAIN k = PollFields /\ k.ch \in Channels /\ k.ch.callbacks /\ k.ch.listen_events = {}
      /\ k.reg = NotThere /\ k.conn = s /\ k.ch.idx = c.ch.idx
  BY <1>4, ZenonT(30) DEF Callbacks, PollFields, Channels
<1> HIDE DEF k
<1>6. Sound(k, a) /\ (~a => k.ch.idx # "added")
  BY <1>4, <1>5, Zenon DEF Sound, Known
<1> QED
  BY <1>5, <1>6, Zenon DEF k, c, o

\* What a step of Poller changes.
LEMMA PollStep ==
    ASSUME IOInv, NEW fd \in Fds, NEW k, Becomes(fd, k),
           \/ UNCHANGED reading_
           \/ \E b \in BOOLEAN : reading_' = [reading_ EXCEPT ![fd] = b],
           aside' \in {aside, aside \cup {fd}},
           \/ UNCHANGED io
           \/ \E x : io' = [io EXCEPT ![fd] = x]
    PROVE  /\ Shape' /\ Only(fd) /\ reading_'[fd] \in BOOLEAN
           /\ m_channels'[fd] = k.ch /\ epoll'[fd] = k.reg /\ conn'[fd] = k.conn
<1>1. Shape /\ reading_[fd] \in BOOLEAN
  BY Zenon DEF IOInv, DescriptorInv
<1>2. /\ m_channels'[fd] = k.ch /\ epoll'[fd] = k.reg /\ conn'[fd] = k.conn
      /\ DOMAIN m_channels' = Fds /\ DOMAIN epoll' = Fds /\ DOMAIN conn' = Fds
      /\ \A g \in Fds \ {fd} :
            m_channels'[g] = m_channels[g] /\ epoll'[g] = epoll[g] /\ conn'[g] = conn[g]
  BY <1>1, BecomesFields, Zenon
<1>3. /\ DOMAIN reading_' = Fds /\ reading_'[fd] \in BOOLEAN
      /\ \A g \in Fds \ {fd} : reading_'[g] = reading_[g]
  BY <1>1, Zenon DEF Shape
<1>4. DOMAIN io' = Fds /\ \A g \in Fds \ {fd} : io'[g] = io[g]
  BY <1>1, Zenon DEF Shape
<1>5. aside' \subseteq Fds /\ \A g \in Fds \ {fd} : g \in aside' <=> g \in aside
  BY <1>1, Zenon DEF Shape
<1> QED
  BY <1>2, <1>3, <1>4, <1>5, Zenon DEF Shape, Only

\* A connection that is being made.
LEMMA MakingKeeps ==
    ASSUME IOInv, NEW fd \in Fds, NEW k, Becomes(fd, k), UNCHANGED <<reading_, aside, io>>,
           k.conn \in {"connecting", "handshake"}, NEW a \in BOOLEAN, a <=> fd \in aside,
           Sound(k, a), ~a => Agree(k.ch, k.reg)
    PROVE  IOInv'
<1>1. /\ Shape' /\ Only(fd) /\ reading_'[fd] \in BOOLEAN
      /\ m_channels'[fd] = k.ch /\ epoll'[fd] = k.reg /\ conn'[fd] = k.conn
  BY PollStep, Zenon
<1>2. DescriptorInv(fd)
  BY Zenon DEF IOInv
<1>3. Given(fd)'
  BY <1>1, Zenon DEF Given, Sound
<1>4. DescriptorInv(fd)'
  BY <1>1, <1>2, <1>3, Zenon DEF DescriptorInv, Sound
<1> QED
  BY <1>1, <1>4, OneDescriptor, Zenon

\* A connection that is up, with nothing sent.
LEMMA JustUpKeeps ==
    ASSUME IOInv, NEW fd \in Fds, NEW k, Becomes(fd, k), UNCHANGED aside,
           \/ UNCHANGED reading_
           \/ \E b \in BOOLEAN : reading_' = [reading_ EXCEPT ![fd] = b],
           \/ UNCHANGED io
           \/ \E x : io' = [io EXCEPT ![fd] = x],
           NEW kind \in {"plain", "ssl"}, io'[fd] \in Fresh(kind),
           k.conn = "up", k.ch.listen_events = {"read"}, k.ch.tied,
           NEW a \in BOOLEAN, a <=> fd \in aside, Sound(k, a), ~a => Agree(k.ch, k.reg)
    PROVE  IOInv'
<1>1. /\ Shape' /\ Only(fd) /\ reading_'[fd] \in BOOLEAN
      /\ m_channels'[fd] = k.ch /\ epoll'[fd] = k.reg /\ conn'[fd] = k.conn
  BY PollStep, Zenon
<1>2. Output(io'[fd], {"read"}) /\ Watched(io'[fd], {"read"}) /\ DOMAIN io'[fd] = IoFields
  BY FreshOutput, Zenon
<1>3. Given(fd)'
  BY <1>1, Zenon DEF Given, Sound
<1>4. /\ Output(io[fd], m_channels[fd].listen_events)'
      /\ Watched(io[fd], m_channels[fd].listen_events)'
  <2>1. m_channels'[fd].listen_events = {"read"}
    BY <1>1, Zenon
  <2> QED
    BY <1>2, <2>1, Zenon DEF Output, Watched, Ordered
<1>5. DescriptorInv(fd)'
  BY <1>1, <1>2, <1>3, <1>4, NoConnectionFields, Zenon DEF DescriptorInv, Sound
<1> QED
  BY <1>1, <1>5, OneDescriptor, Zenon

\* startRead and stopRead.
LEMMA RearmedKeeps ==
    ASSUME IOInv, NEW fd \in Fds, conn[fd] = "up", NEW k, Becomes(fd, k), Rearmed(fd),
           UNCHANGED aside,
           \/ UNCHANGED reading_
           \/ \E b \in BOOLEAN : reading_' = [reading_ EXCEPT ![fd] = b],
           k.conn = "up", NEW a \in BOOLEAN, a <=> fd \in aside, Sound(k, a),
           ~a => Agree(k.ch, k.reg),
           "write" \in k.ch.listen_events <=> "write" \in m_channels[fd].listen_events,
           reading_'[fd] => "read" \in k.ch.listen_events /\ k.ch.tied
    PROVE  IOInv'
<1>0. DescriptorInv(fd) /\ DOMAIN io[fd] = IoFields /\ Shape
  BY NoConnectionFields, Zenon DEF IOInv, DescriptorInv
<1> DEFINE x == [io[fd] EXCEPT !.edge = "write" \in epoll'[fd] /\ io[fd].room]
<1>1. io' = [io EXCEPT ![fd] = x]
  BY <1>0, Zenon DEF Rearmed, Shape
<1>2. io'[fd] = x
  BY <1>0, <1>1, Zenon DEF Shape
<1>3. /\ DOMAIN x = IoFields /\ x.edge = ("write" \in epoll'[fd] /\ io[fd].room)
      /\ x.out = io[fd].out /\ x.kind = io[fd].kind /\ x.refused = io[fd].refused
      /\ x.overtaken = io[fd].overtaken /\ x.wire = io[fd].wire /\ x.sends = io[fd].sends
      /\ x.room = io[fd].room
  BY <1>0, Zenon DEF IoFields
<1> HIDE DEF x
<1>4. /\ Shape' /\ Only(fd) /\ reading_'[fd] \in BOOLEAN
      /\ m_channels'[fd] = k.ch /\ epoll'[fd] = k.reg /\ conn'[fd] = k.conn
  BY <1>1, PollStep, ZenonT(30)
<1>5. Given(fd)'
  BY <1>4, Zenon DEF Given, Sound
<1>6. Output(io[fd], m_channels[fd].listen_events)'
  <2> DEFINE listen == m_channels[fd].listen_events
  <2>1. Output(io[fd], listen)
    BY <1>0, Zenon DEF DescriptorInv
  <2>2. "write" \in k.ch.listen_events <=> "write" \in listen
    OBVIOUS
  <2>3. Ordered(io[fd]) => Ordered(x)
    BY <1>3, Zenon DEF Ordered
  <2> HIDE DEF listen
  <2>4. Output(x, k.ch.listen_events)
    BY <1>3, <2>1, <2>2, <2>3, Zenon DEF Output
  <2> QED
    BY <1>2, <1>4, <2>4, Zenon DEF Output, Ordered
<1>7. fd \notin aside' => Watched(io[fd], m_channels[fd].listen_events)'
  <2>1. ~a /\ "write" \in k.ch.listen_events => "write" \in epoll'[fd]
    BY <1>4, Zenon DEF Agree
  <2> QED
    BY <1>2, <1>3, <1>4, <2>1, ZenonT(30) DEF Watched
<1>8. DescriptorInv(fd)'
  BY <1>2, <1>3, <1>4, <1>5, <1>6, <1>7, NoConnectionFields, Zenon DEF DescriptorInv, Sound
<1> QED
  BY <1>4, <1>8, OneDescriptor, Zenon

\* A descriptor is given out, or closed by Connector after stop().
LEMMA EdgeSteps ==
    ASSUME IOInv, NEW fd \in Fds,
           \/ Accept(fd) /\ Open(fd, "plain")
           \/ Connecting(fd) /\ UNCHANGED io
           \/ Abandoned(fd) /\ UNCHANGED io
    PROVE  IOInv'
<1>1. PICK a \in BOOLEAN : a <=> fd \in aside
  BY ZenonT(30)
<1>2. Shape /\ DescriptorInv(fd)
  BY Zenon DEF IOInv
<1>3. CASE Accept(fd) /\ Open(fd, "plain")
  <2> DEFINE k == Callbacks(add_channel(Socket(Of(fd), "new")))
  <2>1. Becomes(fd, k) /\ UNCHANGED aside /\ reading_' = [reading_ EXCEPT ![fd] = TRUE]
    BY <1>3, Zenon DEF Accept, Opened
  <2>2. /\ Sound(k, a) /\ k.conn = "new" /\ k.ch.listen_events = {} /\ k.reg = NotThere
        /\ ~a => k.ch.idx # "added"
    BY <1>1, <1>3, TakenSound, SMTT(30) DEF Accept
  <2> HIDE DEF k
  <2>3. PICK x \in Fresh("plain") : io' = [io EXCEPT ![fd] = x]
    BY <1>3, Zenon DEF Open
  <2>4. io'[fd] = x /\ DOMAIN x = IoFields
    BY <1>2, <2>3, FreshFields, ZenonT(30) DEF Shape
  <2>5. /\ Shape' /\ Only(fd) /\ reading_'[fd] \in BOOLEAN
        /\ m_channels'[fd] = k.ch /\ epoll'[fd] = k.reg /\ conn'[fd] = k.conn
    BY <2>1, <2>3, PollStep, ZenonT(30)
  <2>6. Down(fd)' /\ Given(fd)'
    BY <1>1, <2>1, <2>2, <2>5 DEF Down, Given, Sound, Agree
  <2>7. DescriptorInv(fd)'
    BY <2>2, <2>4, <2>5, <2>6, NoConnectionFields, SMTT(30)
       DEF DescriptorInv, Sound, Fresh, NoConnection
  <2> QED
    BY <2>5, <2>7, OneDescriptor, Zenon
<1>4. CASE Connecting(fd) /\ UNCHANGED io
  <2> DEFINE c == Callbacks(add_channel(Socket(Of(fd), "connecting")))
             k == [c EXCEPT !.ch.is_io_channel = TRUE]
             u == Enable(k, "write")
  <2>1. Becomes(fd, u) /\ UNCHANGED <<reading_, aside, io>>
    BY <1>4, Zenon DEF Connecting
  <2>2. Sound(c, a) /\ c.conn = "connecting"
    BY <1>1, <1>4, TakenSound, Zenon DEF Connecting
  <2> HIDE DEF c
  <2>3. /\ DOMAIN k = PollFields /\ k.ch \in Channels /\ k.ch.callbacks /\ k.reg = c.reg
        /\ k.ch.idx = c.ch.idx /\ k.conn = c.conn
    BY <2>2, Zenon DEF Sound, PollFields, Channels
  <2> HIDE DEF k
  <2>4. Sound(k, a)
    BY <2>2, <2>3, Zenon DEF Sound, Known
  <2>5. Sound(u, a) /\ u.conn = "connecting" /\ (~a => Agree(u.ch, u.reg))
    BY <2>2, <2>3, <2>4, SoundEnable, Zenon DEF Events
  <2> HIDE DEF u
  <2> QED
    BY <1>1, <2>1, <2>5, MakingKeeps, Zenon
<1>5. CASE Abandoned(fd) /\ UNCHANGED io
  <2> DEFINE o == Socket(Of(fd), "closed")
             k == [o EXCEPT !.ch.listen_events = {}, !.reg = NotThere]
  <2>1. Becomes(fd, k) /\ aside' = aside \cup {fd} /\ UNCHANGED <<reading_, io>>
    BY <1>5, Zenon DEF Abandoned
  <2>2. Given(fd)
    BY <1>2, <1>5, Zenon DEF DescriptorInv, Abandoned
  <2>3. Sound(o, a) /\ o.conn = "closed"
    BY <1>1, <2>2, GivenSound, SoundSocket, Zenon
  <2> HIDE DEF o
  <2>4. k.ch \in Channels /\ k.ch.listen_events = {} /\ k.reg = NotThere /\ k.conn = "closed"
    BY <2>3, Zenon DEF Sound, PollFields, Channels
  <2> HIDE DEF k
  <2>5. /\ Shape' /\ Only(fd) /\ reading_'[fd] \in BOOLEAN
        /\ m_channels'[fd] = k.ch /\ epoll'[fd] = k.reg /\ conn'[fd] = k.conn
    BY <2>1, PollStep, Zenon
  <2>6. Down(fd)'
    BY <2>1, <2>4, <2>5, Zenon DEF Down
  <2>7. DescriptorInv(fd)'
    BY <1>2, <2>1, <2>4, <2>5, <2>6, ZenonT(30) DEF DescriptorInv, NoConnection
  <2> QED
    BY <2>5, <2>7, OneDescriptor, Zenon
<1> QED
  BY <1>3, <1>4, <1>5, Zenon

\* The connection comes up, at once or after a handshake.
LEMMA RisingSteps ==
    ASSUME IOInv, NEW fd \in Fds,
           \/ ConnectEstablished(fd) /\ UNCHANGED io
           \/ Connected(fd) /\ Open(fd, "plain")
           \/ HandshakeDone(fd) /\ Open(fd, "ssl")
    PROVE  IOInv'
<1>1. PICK a \in BOOLEAN : a <=> fd \in aside
  BY ZenonT(30)
<1>2. Shape /\ DescriptorInv(fd)
  BY Zenon DEF IOInv
<1>3. Given(fd)
  BY <1>2, Zenon DEF DescriptorInv, ConnectEstablished, Connected, HandshakeDone
<1> DEFINE o == Of(fd)
<1>4. Sound(o, a) /\ o.ch = m_channels[fd] /\ o.conn = conn[fd]
  BY <1>1, <1>3, GivenSound, OfFields, Zenon
<1>5. ASSUME NEW h, Sound(h, a), h.ch.listen_events = {}, h.conn = "up"
      PROVE  LET u == Enable(Tied(h), "read")
             IN  /\ Sound(u, a) /\ u.conn = "up" /\ u.ch.listen_events = {"read"} /\ u.ch.tied
                 /\ ~a => Agree(u.ch, u.reg)
  <2>1. /\ Sound(Tied(h), a) /\ Tied(h).ch.tied /\ Tied(h).conn = "up"
        /\ Tied(h).ch.listen_events = {}
    BY <1>5, SoundTied, Zenon
  <2> QED
    BY <2>1, SoundEnable, ZenonT(30) DEF Events
<1>6. ASSUME NEW kind \in {"plain", "ssl"}, Open(fd, kind)
      PROVE  io'[fd] \in Fresh(kind) /\ \E x : io' = [io EXCEPT ![fd] = x]
  BY <1>2, <1>6, ZenonT(30) DEF Open, Shape
<1>7. CASE ConnectEstablished(fd) /\ UNCHANGED io
  <2> DEFINE h == Socket(o, "up")
             u == Enable(Tied(h), "read")
  <2>1. Becomes(fd, u) /\ UNCHANGED <<reading_, aside, io>>
    BY <1>7, Zenon DEF ConnectEstablished
  <2>2. io'[fd] \in Fresh("plain") /\ m_channels[fd].listen_events = {}
    <3>1. conn[fd] = "new" /\ io'[fd] = io[fd]
      BY <1>7, Zenon DEF ConnectEstablished
    <3>2. io[fd] \in Fresh("plain") /\ Down(fd) /\ m_channels[fd] \in Channels
      BY <1>2, <3>1, Zenon DEF DescriptorInv, Given
    <3>3. m_channels[fd] # NoChannel
      BY <3>2 DEF Channels, NoChannel
    <3> QED
      BY <3>1, <3>2, <3>3, Zenon DEF Down
  <2> HIDE DEF o
  <2>3. Sound(h, a) /\ h.ch.listen_events = {} /\ h.conn = "up"
    BY <1>4, <2>2, SoundSocket, SMTT(30)
  <2> HIDE DEF h
  <2>4. /\ Sound(u, a) /\ u.conn = "up" /\ u.ch.listen_events = {"read"} /\ u.ch.tied
        /\ ~a => Agree(u.ch, u.reg)
    BY <1>5, <2>3, Zenon
  <2> HIDE DEF u
  <2> QED
    BY <1>1, <2>1, <2>2, <2>4, JustUpKeeps, Zenon
<1>8. CASE Connected(fd) /\ Open(fd, "plain")
  <2> DEFINE g == Socket(o, "up")
             h == [g EXCEPT !.ch.listen_events = {}]
             u == Enable(Tied(h), "read")
  <2>1. Becomes(fd, u) /\ reading_' = [reading_ EXCEPT ![fd] = TRUE] /\ UNCHANGED aside
    BY <1>8, Zenon DEF Connected, Opened
  <2>2. io'[fd] \in Fresh("plain") /\ \E x : io' = [io EXCEPT ![fd] = x]
    BY <1>6, <1>8, Zenon
  <2> HIDE DEF o
  <2>3. Sound(g, a) /\ g.conn = "up"
    BY <1>4, SoundSocket, Zenon
  <2> HIDE DEF g
  <2>4. Sound(h, a) /\ h.ch.listen_events = {} /\ h.conn = "up"
    BY <2>3, SoundForgets, Zenon
  <2> HIDE DEF h
  <2>5. /\ Sound(u, a) /\ u.conn = "up" /\ u.ch.listen_events = {"read"} /\ u.ch.tied
        /\ ~a => Agree(u.ch, u.reg)
    BY <1>5, <2>4
  <2> HIDE DEF u
  <2> QED
    BY <1>1, <2>1, <2>2, <2>5, JustUpKeeps, Zenon
<1>9. CASE HandshakeDone(fd) /\ Open(fd, "ssl")
  <2> DEFINE g == DisableAll(o)
             h == Socket(g, "up")
             u == Enable(Tied(h), "read")
  <2>1. /\ Becomes(fd, u) /\ reading_' = [reading_ EXCEPT ![fd] = TRUE] /\ UNCHANGED aside
        /\ conn[fd] = "handshake"
    BY <1>9, Zenon DEF HandshakeDone, Opened
  <2>2. io'[fd] \in Fresh("ssl") /\ \E x : io' = [io EXCEPT ![fd] = x]
    BY <1>6, <1>9, Zenon
  <2> HIDE DEF o
  <2>3. Sound(g, a) /\ g.ch.listen_events = {}
    <3>1. o.conn # "closed"
      BY <1>4, <2>1, Zenon
    <3> QED
      BY <1>1, <1>4, <3>1, SoundDisableAll, Zenon
  <2> HIDE DEF g
  <2>4. Sound(h, a) /\ h.ch.listen_events = {} /\ h.conn = "up"
    BY <2>3, SoundSocket, Zenon
  <2> HIDE DEF h
  <2>5. /\ Sound(u, a) /\ u.conn = "up" /\ u.ch.listen_events = {"read"} /\ u.ch.tied
        /\ ~a => Agree(u.ch, u.reg)
    BY <1>5, <2>4
  <2> HIDE DEF u
  <2> QED
    BY <1>1, <2>1, <2>2, <2>5, JustUpKeeps, Zenon
<1> QED
  BY <1>7, <1>8, <1>9, Zenon

\* The TLS handshake, stopRead and startRead.
LEMMA InterestSteps ==
    ASSUME IOInv, NEW fd \in Fds,
           \/ HandshakeStart(fd) /\ UNCHANGED io
           \/ \E e \in Events : HandshakeWants(fd, e) /\ UNCHANGED io
           \/ StopRead(fd) /\ Rearmed(fd)
           \/ StartRead(fd) /\ Rearmed(fd)
    PROVE  IOInv'
<1>1. PICK a \in BOOLEAN : a <=> fd \in aside
  BY ZenonT(30)
<1>2. Shape /\ DescriptorInv(fd)
  BY Zenon DEF IOInv
<1>3. Given(fd)
  BY <1>2, Zenon DEF DescriptorInv, HandshakeStart, HandshakeWants, StopRead, StartRead
<1> DEFINE o == Of(fd)
<1>4. Sound(o, a) /\ o.ch = m_channels[fd] /\ o.conn = conn[fd]
  BY <1>1, <1>3, GivenSound, OfFields, Zenon
<1>5. "read" \in Events /\ "write" \in Events
  BY Zenon DEF Events
<1>6. CASE HandshakeStart(fd) /\ UNCHANGED io
  <2> DEFINE g == Socket(o, "handshake")
             q == [g EXCEPT !.ch.listen_events = {}]
             t == Tied(q)
             h == Enable(t, "read")
             u == Enable(h, "write")
  <2>1. Becomes(fd, u) /\ UNCHANGED <<reading_, aside, io>>
    BY <1>6, Zenon DEF HandshakeStart
  <2> HIDE DEF o
  <2>2. Sound(g, a) /\ g.conn = "handshake"
    BY <1>4, SoundSocket, Zenon
  <2> HIDE DEF g
  <2>3. Sound(q, a) /\ q.conn = "handshake"
    BY <2>2, SoundForgets, ZenonT(30)
  <2> HIDE DEF q
  <2>4. Sound(t, a) /\ t.conn = "handshake"
    BY <2>3, SoundTied, Zenon
  <2> HIDE DEF t
  <2>5. Sound(h, a) /\ h.conn = "handshake"
    BY <1>5, <2>4, SoundEnable, Zenon
  <2> HIDE DEF h
  <2>6. Sound(u, a) /\ u.conn = "handshake" /\ (~a => Agree(u.ch, u.reg))
    BY <1>5, <2>5, SoundEnable, Zenon
  <2> HIDE DEF u
  <2> QED
    BY <1>1, <2>1, <2>6, MakingKeeps, Zenon
<1>7. CASE \E e \in Events : HandshakeWants(fd, e) /\ UNCHANGED io
  <2>1. PICK e \in Events : HandshakeWants(fd, e) /\ UNCHANGED io
    BY <1>7, Zenon
  <2> DEFINE other == CHOOSE x \in Events : x # e
             h == Enable(o, e)
             u == Disable(h, other)
  <2>2. Becomes(fd, u) /\ UNCHANGED <<reading_, aside, io>> /\ conn[fd] = "handshake"
    BY <2>1, Zenon DEF HandshakeWants
  <2>3. other \in Events
    <3>1. \E x \in Events : x # e
      BY Zenon DEF Events
    <3> QED
      BY <3>1, Zenon
  <2> HIDE DEF o, other
  <2>4. Sound(h, a) /\ h.conn = "handshake"
    <3>1. o.conn # "closed" /\ o.conn = "handshake"
      BY <1>4, <2>2, Zenon
    <3> QED
      BY <1>1, <1>4, <2>1, <3>1, SoundEnable, Zenon
  <2> HIDE DEF h
  <2>5. Sound(u, a) /\ u.conn = "handshake" /\ (~a => Agree(u.ch, u.reg))
    BY <2>3, <2>4, SoundDisable, Zenon
  <2> HIDE DEF u
  <2> QED
    BY <1>1, <2>2, <2>5, MakingKeeps, Zenon
<1>8. CASE StopRead(fd) /\ Rearmed(fd)
  <2> DEFINE u == Disable(o, "read")
  <2>1. /\ Becomes(fd, u) /\ reading_' = [reading_ EXCEPT ![fd] = FALSE] /\ UNCHANGED aside
        /\ conn[fd] = "up"
    BY <1>8, Zenon DEF StopRead
  <2>2. ~reading_'[fd]
    <3>1. fd \in DOMAIN reading_
      BY <1>2, Zenon DEF Shape
    <3> QED
      BY <2>1, <3>1, Zenon
  <2> HIDE DEF o
  <2>3. /\ Sound(u, a) /\ u.conn = "up" /\ (~a => Agree(u.ch, u.reg))
        /\ u.ch.listen_events = m_channels[fd].listen_events \ {"read"}
    <3>1. o.conn # "closed"
      BY <1>4, <2>1, Zenon
    <3> QED
      BY <1>1, <1>4, <1>5, <2>1, <3>1, SoundDisable, ZenonT(30)
  <2> HIDE DEF u
  <2>4. "write" \in u.ch.listen_events <=> "write" \in m_channels[fd].listen_events
    BY <2>3, Zenon
  <2> QED
    BY <1>1, <1>8, <2>1, <2>2, <2>3, <2>4, RearmedKeeps, ZenonT(30)
<1>9. CASE StartRead(fd) /\ Rearmed(fd)
  <2> DEFINE u == Enable(o, "read")
  <2>1. Becomes(fd, u) /\ UNCHANGED <<reading_, aside>> /\ conn[fd] = "up"
    BY <1>9, Zenon DEF StartRead
  <2> HIDE DEF o
  <2>2. /\ Sound(u, a) /\ u.conn = "up" /\ (~a => Agree(u.ch, u.reg))
        /\ u.ch.listen_events = m_channels[fd].listen_events \cup {"read"}
        /\ u.ch.tied = m_channels[fd].tied
    <3>1. o.conn # "closed"
      BY <1>4, <2>1, Zenon
    <3>2. /\ Sound(u, a) /\ u.conn = o.conn /\ (~a => Agree(u.ch, u.reg))
          /\ u.ch.listen_events = o.ch.listen_events \cup {"read"} /\ u.ch.tied = o.ch.tied
      BY <1>1, <1>4, <1>5, <3>1, SoundEnable, Zenon
    <3> QED
      BY <1>4, <2>1, <3>2, Zenon
  <2> HIDE DEF u
  <2>3. "write" \in u.ch.listen_events <=> "write" \in m_channels[fd].listen_events
    BY <2>2, Zenon
  <2>4. reading_'[fd] => "read" \in u.ch.listen_events /\ u.ch.tied
    BY <1>2, <2>1, <2>2, ZenonT(30) DEF DescriptorInv
  <2> QED
    BY <1>1, <1>9, <2>1, <2>2, <2>3, <2>4, RearmedKeeps, ZenonT(30)
<1> QED
  BY <1>6, <1>7, <1>8, <1>9, Zenon

-----------------------------------------------------------------------------
(* The theorems. *)

\* The invariant holds before the first connection.
LEMMA InitIO == Init => IOInv
<1> SUFFICES ASSUME Init PROVE IOInv
  OBVIOUS
<1>1. Shape
  BY Zenon DEF Init, PollerInit, Shape
<1>2. ASSUME NEW fd \in Fds PROVE DescriptorInv(fd)
  <2>1. /\ m_channels[fd] = NoChannel /\ epoll[fd] = NotThere /\ conn[fd] = "closed"
        /\ reading_[fd] = FALSE /\ io[fd] = NoConnection
    BY <1>2, Zenon DEF Init, PollerInit
  <2>2. Down(fd)
    BY <2>1 DEF Down, NoChannel
  <2> QED
    BY <2>1, <2>2, ZenonT(30) DEF DescriptorInv
<1> QED
  BY <1>1, <1>2, Zenon DEF IOInv

\* Every step keeps the invariant.
LEMMA NextIO == IOInv /\ [Next]_vars => IOInv'
<1> SUFFICES ASSUME IOInv, [Next]_vars PROVE IOInv'
  BY Zenon
<1>1. CASE Next
  BY <1>1, EdgeSteps, RisingSteps, InterestSteps, ConnectionSteps, Zenon DEF Next
<1>2. CASE UNCHANGED vars
  BY <1>2, ZenonT(30) DEF vars, pollerVars, IOInv, Shape, DescriptorInv, Down, Given
<1> QED
  BY <1>1, <1>2, Zenon

\* Channel and epoll agree about a descriptor that is not aside, a connection that is up
\* is served, and its output is in order and waits only while it is listened for: the
\* invariant that every handler and every step of Poller keeps.
THEOREM ConnectionInvariant == Spec => []IOInv
  BY InitIO, NextIO, PTL DEF Spec

\* Channel::idx agrees with the kernel's interest list on every descriptor that was not
\* put aside by one of the three closes, for any set of descriptors.
THEOREM IndexAlwaysAgrees == Spec => []IndexAgrees
<1>1. IOInv => IndexAgrees
  <2> SUFFICES ASSUME IOInv, NEW fd \in Fds \ aside
               PROVE  m_channels[fd].idx = "added" <=> epoll[fd] # NotThere
    BY Zenon DEF IndexAgrees
  <2>1. DescriptorInv(fd)
    BY Zenon DEF IOInv
  <2>2. CASE conn[fd] = "closed"
    BY <2>1, <2>2, Zenon DEF DescriptorInv, Down
  <2>3. CASE conn[fd] # "closed"
    BY <2>1, <2>3, Zenon DEF DescriptorInv, Given, Agree, Known
  <2> QED
    BY <2>2, <2>3, Zenon
<1> QED
  BY <1>1, ConnectionInvariant, PTL

\* A connection that is up is registered with epoll for what its channel listens to, and
\* until stopRead is first called that includes reading, and the channel is tied.
THEOREM UpAlwaysServed == Spec => []UpIsServed
<1>1. IOInv => UpIsServed
  <2> SUFFICES ASSUME IOInv, NEW fd \in Fds \ aside, conn[fd] = "up"
               PROVE  /\ m_channels[fd].listen_events # {} =>
                            epoll[fd] = m_channels[fd].listen_events
                      /\ reading_[fd] => "read" \in epoll[fd] /\ m_channels[fd].tied
    BY Zenon DEF UpIsServed
  <2>1. DescriptorInv(fd)
    BY Zenon DEF IOInv
  <2>2. /\ Agree(m_channels[fd], epoll[fd])
        /\ reading_[fd] => "read" \in m_channels[fd].listen_events /\ m_channels[fd].tied
    BY <2>1, Zenon DEF DescriptorInv, Given
  <2> QED
    BY <2>2, Zenon DEF Agree
<1> QED
  BY <1>1, ConnectionInvariant, PTL

\* What waits in outputBuffers_ is listened for, and the socket is full or the event is
\* due, but for a message that came after handle_ep_out had written everything.
THEOREM WaitingAlwaysWatched == Spec => []WaitingIsWatched
<1>1. IOInv => WaitingIsWatched
  <2> SUFFICES ASSUME IOInv, Running, NEW fd \in Fds \ aside, conn[fd] = "up", io[fd].out # <<>>
               PROVE  /\ "write" \in epoll[fd]
                      /\ ~io[fd].room \/ io[fd].edge \/ io[fd].lingers
    BY Zenon DEF WaitingIsWatched
  <2>1. DescriptorInv(fd) /\ io[fd].failed = "no"
    BY Zenon DEF IOInv, Running
  <2>2. /\ Agree(m_channels[fd], epoll[fd]) /\ "write" \in m_channels[fd].listen_events
        /\ Watched(io[fd], m_channels[fd].listen_events)
    BY <2>1, Zenon DEF DescriptorInv, Given, Output
  <2> QED
    BY <2>1, <2>2, Zenon DEF Agree, Watched
<1> QED
  BY <1>1, ConnectionInvariant, PTL

\* While no write is refused and no message overtakes another, the bytes on the wire and
\* the bytes that wait are the messages sent, whole and in order, however many.
THEOREM StreamAlwaysIntact == Spec => []StreamIntact
<1>1. IOInv => StreamIntact
  <2> SUFFICES ASSUME IOInv, NEW fd \in Fds, conn[fd] = "up", ~io[fd].refused, ~io[fd].overtaken
               PROVE  io[fd].wire \o Joined(io[fd].out) = Stream(io[fd].sends)
    BY Zenon DEF StreamIntact
  <2>1. Ordered(io[fd]) /\ io[fd].sends \in Nat
    BY Zenon DEF IOInv, DescriptorInv, Output
  <2> DEFINE n == io[fd].sends
             w == io[fd].wire
             o == io[fd].out
  <2>2. CASE o = <<>> /\ w = Stream(n)
    <3>1. Stream(n) \in Seq(Int \X Int)
      BY <2>1, StreamSeq, Zenon
    <3>2. Stream(n) \o <<>> = Stream(n)
      BY <3>1, ConcatEmptySeq, Zenon
    <3> QED
      BY <2>2, <3>2, JoinedOne, ZenonT(30)
  <2>3. CASE n > 0 /\ o = <<Bytes(n, 1)>> /\ w = Stream(n - 1)
    <3>1. n - 1 \in Nat /\ (n - 1) + 1 = n
      BY <2>1, <2>3, SMTT(30)
    <3>2. Stream(n - 1) \o Bytes(n, 1) = Stream(n)
      BY <3>1, StreamNext, ZenonT(30)
    <3>3. Joined(o) = Bytes(n, 1)
      BY <2>3, JoinedOne, Zenon
    <3> QED
      BY <2>3, <3>2, <3>3, Zenon
  <2> QED
    BY <2>1, <2>2, <2>3, Zenon DEF Ordered
<1> QED
  BY <1>1, ConnectionInvariant, PTL

\* A plain connection keeps nothing in outputBuffers_ and never listens for writing.
THEOREM PlainNeverEverWaits == Spec => []PlainNeverWaits
<1>1. IOInv => PlainNeverWaits
  BY Zenon DEF IOInv, DescriptorInv, Output, PlainNeverWaits
<1> QED
  BY <1>1, ConnectionInvariant, PTL

-----------------------------------------------------------------------------
(* The buffer. *)

\* The indices delimit a part of the vector.
Good(k) ==
    /\ k \in [buf : Seq(Byte), read_idx : Nat, write_idx : Nat]
    /\ k.read_idx <= k.write_idx /\ k.write_idx <= Len(k.buf)

\* The inductive invariant.
BufferInv == Good(vec)

-----------------------------------------------------------------------------
(* What a buffer holds. *)

\* The contents are the bytes between the indices.
LEMMA ContentsBytes ==
    ASSUME NEW k, Good(k)
    PROVE  /\ Contents(k) \in Seq(Byte) /\ Len(Contents(k)) = readableBytes(k)
           /\ readableBytes(k) \in Nat /\ writableBytes(k) \in Nat
           /\ \A i \in 1..readableBytes(k) : Contents(k)[i] = k.buf[k.read_idx + i]
<1> DEFINE r == k.read_idx
           w == k.write_idx
           s == k.buf
<1>1. /\ r \in Nat /\ w \in Nat /\ s \in Seq(Byte) /\ Len(s) \in Nat
      /\ r <= w /\ w <= Len(s)
  BY DEF Good
<1>2. Contents(k) = SubSeq(s, r + 1, w) /\ readableBytes(k) = w - r
      /\ writableBytes(k) = Len(s) - w
  BY Zenon DEF Contents, readableBytes, writableBytes
<1> HIDE DEF r, w, s
<1>3. \A i \in r + 1..w : s[i] \in Byte
  BY <1>1
<1>4. /\ SubSeq(s, r + 1, w) \in Seq(Byte)
      /\ Len(SubSeq(s, r + 1, w)) = IF r + 1 <= w THEN w - (r + 1) + 1 ELSE 0
      /\ \A i \in 1..w - (r + 1) + 1 : SubSeq(s, r + 1, w)[i] = s[r + 1 + i - 1]
  BY <1>1, <1>3, SubSeqProperties
<1>5. \A i \in 1..w - r : SubSeq(s, r + 1, w)[i] = s[r + i]
  <2> SUFFICES ASSUME NEW i \in 1..w - r PROVE SubSeq(s, r + 1, w)[i] = s[r + i]
    BY Zenon
  <2>1. i \in 1..w - (r + 1) + 1 /\ r + 1 + i - 1 = r + i
    BY <1>1
  <2> QED
    BY <1>4, <2>1, Zenon
<1> QED
  BY <1>1, <1>2, <1>4, <1>5 DEF r, s

\* Two buffers with the same bytes between their indices hold the same.
LEMMA SameContents ==
    ASSUME NEW j, Good(j), NEW k, Good(k), readableBytes(j) = readableBytes(k),
           \A i \in 1..readableBytes(k) : j.buf[j.read_idx + i] = k.buf[k.read_idx + i]
    PROVE  Contents(j) = Contents(k)
<1>1. /\ Contents(j) \in Seq(Byte) /\ Contents(k) \in Seq(Byte)
      /\ Len(Contents(j)) = Len(Contents(k))
      /\ \A i \in 1..Len(Contents(k)) : Contents(j)[i] = Contents(k)[i]
  BY ContentsBytes
<1> QED
  BY <1>1, SeqEqual, Zenon

\* A part of a vector, cut in two.
LEMMA CutInTwo ==
    ASSUME NEW s \in Seq(Byte), NEW l \in Nat, NEW m \in Nat, NEW n \in Nat,
           l <= m, m <= n, n <= Len(s)
    PROVE  /\ SubSeq(s, l + 1, n) = SubSeq(s, l + 1, m) \o SubSeq(s, m + 1, n)
           /\ SubSeq(s, l + 1, m) \in Seq(Byte) /\ SubSeq(s, m + 1, n) \in Seq(Byte)
           /\ Len(SubSeq(s, l + 1, m)) = m - l /\ Len(SubSeq(s, m + 1, n)) = n - m
<1>1. Len(s) \in Nat
  OBVIOUS
<1>2. l + 1 \in 1..Len(s) + 1 /\ m \in (l + 1) - 1..Len(s) /\ n \in m..Len(s)
  BY <1>1
<1>3. SubSeq(s, l + 1, m) \o SubSeq(s, m + 1, n) = SubSeq(s, l + 1, n)
  BY <1>2, ConcatAdjacentSubSeq, Zenon
<1>4. ASSUME NEW x \in Nat, NEW y \in Nat, x <= y, y <= Len(s)
      PROVE  SubSeq(s, x + 1, y) \in Seq(Byte) /\ Len(SubSeq(s, x + 1, y)) = y - x
  <2>1. \A i \in x + 1..y : s[i] \in Byte
    BY <1>1, <1>4
  <2>2. /\ SubSeq(s, x + 1, y) \in Seq(Byte)
        /\ Len(SubSeq(s, x + 1, y)) = IF x + 1 <= y THEN y - (x + 1) + 1 ELSE 0
    BY <2>1, SubSeqProperties
  <2> QED
    BY <1>4, <2>2
<1> QED
  BY <1>1, <1>3, <1>4

-----------------------------------------------------------------------------
(* Room *)

\* A buffer just made holds nothing.
LEMMA FreshGood ==
    ASSUME NEW n \in Nat
    PROVE  Good(NewBuffer(n)) /\ Contents(NewBuffer(n)) = <<>>
<1> DEFINE x == CHOOSE y \in Byte : TRUE
           s == [i \in 1..n |-> x]
<1>1. x \in Byte
  BY BufferAssumption, Zenon
<1>2. s \in Seq(Byte) /\ Len(s) = n
  <2> HIDE DEF x
  <2> QED
    BY <1>1
<1>3. NewBuffer(n) = [buf |-> s, read_idx |-> 0, write_idx |-> 0]
  BY Zenon DEF NewBuffer
<1> HIDE DEF s
<1>4. Good(NewBuffer(n))
  BY <1>2, <1>3 DEF Good
<1>5. Contents(NewBuffer(n)) = SubSeq(s, 1, 0)
  BY <1>3 DEF Contents
<1> QED
  BY <1>4, <1>5, SubSeqEmpty

\* addCap keeps the contents and makes len more bytes of room; the vector grows only if
\* len bytes are not free before the read index.
LEMMA AddCapRoom ==
    ASSUME NEW k, Good(k), NEW len \in Nat
    PROVE  LET e == addCap(k, len)
           IN  /\ Good(e) /\ Contents(e) = Contents(k)
               /\ writableBytes(e) >= writableBytes(k) + len
               /\ Len(e.buf) > Len(k.buf) => k.read_idx < len
<1> DEFINE x == CHOOSE y \in Byte : TRUE
           N == Len(k.buf)
           n == readableBytes(k)
           size == IF k.read_idx < len THEN len + N ELSE N
           s == [i \in 1..size |-> IF i <= n THEN k.buf[k.read_idx + i]
                                    ELSE IF i <= N THEN k.buf[i] ELSE x]
           e == addCap(k, len)
<1>1. x \in Byte
  BY BufferAssumption, Zenon
<1>2. e = [buf |-> s, read_idx |-> 0, write_idx |-> n]
  BY Zenon DEF addCap
<1>3. /\ N \in Nat /\ n \in Nat /\ k.read_idx \in Nat /\ k.write_idx \in Nat /\ size \in Nat
      /\ k.buf \in Seq(Byte) /\ k.read_idx + n = k.write_idx /\ k.write_idx <= N
      /\ n = k.write_idx - k.read_idx /\ writableBytes(k) = N - k.write_idx
  BY DEF Good, readableBytes, writableBytes
<1> HIDE DEF N, n, x
<1>4. n <= size
  BY <1>3
<1>5. \A i \in 1..N : k.buf[i] \in Byte
  BY <1>3 DEF N
<1>6. \A i \in 1..n : k.buf[k.read_idx + i] \in Byte
  <2> DEFINE a == k.read_idx
             b == k.write_idx
  <2>1. N \in Nat /\ n \in Nat /\ a \in Nat /\ b \in Nat /\ a + n = b /\ b <= N
    BY <1>3, Zenon
  <2> HIDE DEF a, b
  <2>2. \A i \in 1..n : a + i \in 1..N
    BY <2>1
  <2> QED
    BY <1>5, <2>2, Zenon DEF a
<1>7. s \in Seq(Byte) /\ Len(s) = size /\ \A i \in 1..n : s[i] = k.buf[k.read_idx + i]
  <2>1. \A i \in 1..size : s[i] \in Byte
    BY <1>1, <1>3, <1>5, <1>6
  <2> HIDE DEF size
  <2>2. s \in [1..size -> Byte]
    BY <2>1, Zenon
  <2> QED
    BY <1>3, <1>4, <2>2
<1> HIDE DEF s
<1>8. Good(e)
  BY <1>2, <1>3, <1>4, <1>7 DEF Good
<1>9. readableBytes(e) = n /\ e.buf = s /\ e.read_idx = 0
  BY <1>2, <1>3 DEF readableBytes
<1>10. Contents(e) = Contents(k)
  <2>1. \A i \in 1..n : e.buf[e.read_idx + i] = k.buf[k.read_idx + i]
    BY <1>3, <1>7, <1>9
  <2> QED
    BY <1>8, <1>9, <2>1, SameContents, Zenon DEF n
<1>11. writableBytes(e) = size - n
  BY <1>2, <1>7 DEF writableBytes
<1>12. writableBytes(e) >= writableBytes(k) + len
  BY <1>3, <1>11
<1>13. Len(e.buf) > Len(k.buf) => k.read_idx < len
  BY <1>3, <1>7, <1>9 DEF N
<1> QED
  BY <1>8, <1>10, <1>12, <1>13, Zenon

\* ensureWritableBytes makes room for len bytes, and grows the vector only if they do
\* not fit in it with what it holds.
LEMMA EnsureRoom ==
    ASSUME NEW k, Good(k), NEW len \in Nat
    PROVE  LET e == ensureWritableBytes(k, len)
           IN  /\ Good(e) /\ Contents(e) = Contents(k) /\ writableBytes(e) >= len
               /\ Len(e.buf) > Len(k.buf) => readableBytes(k) + len > Len(k.buf)
<1>1. /\ writableBytes(k) \in Nat /\ Len(k.buf) \in Nat /\ k.read_idx \in Nat
      /\ k.write_idx \in Nat /\ writableBytes(k) = Len(k.buf) - k.write_idx
      /\ readableBytes(k) = k.write_idx - k.read_idx
  BY ContentsBytes DEF Good, readableBytes, writableBytes
<1>2. CASE writableBytes(k) < len
  <2> DEFINE m == len - writableBytes(k)
             e == addCap(k, m)
  <2>1. m \in Nat
    BY <1>1, <1>2
  <2>2. ensureWritableBytes(k, len) = e
    BY <1>2, Zenon DEF ensureWritableBytes
  <2>3. /\ Good(e) /\ Contents(e) = Contents(k)
        /\ writableBytes(e) >= writableBytes(k) + m
        /\ Len(e.buf) > Len(k.buf) => k.read_idx < m
    BY <2>1, AddCapRoom, Zenon
  <2>4. writableBytes(e) \in Nat
    BY <2>3, ContentsBytes, Zenon
  <2> HIDE DEF e
  <2>5. writableBytes(e) >= len
    BY <1>1, <2>3, <2>4
  <2>6. Len(e.buf) > Len(k.buf) => readableBytes(k) + len > Len(k.buf)
    <3> DEFINE N == Len(k.buf)
               a == k.read_idx
               b == k.write_idx
               n == readableBytes(k)
               w == writableBytes(k)
               grows == Len(e.buf) > N
    <3>1. /\ N \in Nat /\ a \in Nat /\ b \in Nat /\ w \in Nat /\ w = N - b /\ n = b - a
          /\ m = len - w /\ (grows => a < m)
      BY <1>1, <2>3, Zenon
    <3> HIDE DEF N, a, b, n, w, grows, m
    <3>2. grows => n + len > N
      BY <3>1
    <3> QED
      BY <3>2, Zenon DEF grows, n, N
  <2> QED
    BY <2>2, <2>3, <2>5, <2>6, Zenon
<1>3. CASE ~(writableBytes(k) < len)
  <2>1. ensureWritableBytes(k, len) = k
    BY <1>3, Zenon DEF ensureWritableBytes
  <2> QED
    BY <1>1, <1>3, <2>1
<1> QED
  BY <1>2, <1>3, Zenon

-----------------------------------------------------------------------------
(* Bytes in and out *)

\* Where the bytes after the first r are.
LEMMA PastFirst ==
    ASSUME NEW a \in Nat, NEW r \in Nat, NEW n \in Nat, NEW i \in 1..r + n, ~(i <= r)
    PROVE  i - r \in 1..n /\ a + i = (a + r) + (i - r)
<1>1. i - r \in 1..n
  OBVIOUS
<1>2. \A x, y, z \in Int : x + z = (x + y) + (z - y)
  OBVIOUS
<1>3. a \in Int /\ r \in Int /\ i \in Int
  OBVIOUS
<1> QED
  BY <1>1, <1>2, <1>3, Zenon

\* Bytes written where there is room follow the contents.
LEMMA WrittenFollows ==
    ASSUME NEW k, Good(k), NEW data \in Seq(Byte), Len(data) <= writableBytes(k)
    PROVE  Good(Written(k, data)) /\ Contents(Written(k, data)) = Contents(k) \o data
<1> DEFINE N == Len(k.buf)
           w == k.write_idx
           n == Len(data)
           s == [i \in 1..N |-> IF w < i /\ i <= w + n THEN data[i - w] ELSE k.buf[i]]
           e == Written(k, data)
<1>1. /\ DOMAIN k = {"buf", "read_idx", "write_idx"} /\ N \in Nat /\ w \in Nat /\ n \in Nat
      /\ k.read_idx \in Nat /\ k.read_idx <= w /\ w + n <= N /\ k.buf \in Seq(Byte)
  BY DEF Good, writableBytes
<1>2. e = [buf |-> s, read_idx |-> k.read_idx, write_idx |-> w + n]
  <2>1. e = [k EXCEPT !.buf = s, !.write_idx = @ + n]
    BY Zenon DEF Written
  <2> HIDE DEF e, s, n
  <2> QED
    BY <2>1, Zenon DEF Good
<1> HIDE DEF e, N, w, n
<1>3. \A i \in 1..N : s[i] \in Byte
  <2>1. \A i \in 1..n : data[i] \in Byte
    BY DEF n
  <2>2. \A i \in 1..N : k.buf[i] \in Byte
    BY <1>1 DEF N
  <2> QED
    BY <1>1, <2>1, <2>2
<1>4. s \in Seq(Byte) /\ Len(s) = N
  <2>1. s \in [1..N -> Byte]
    BY <1>3, Zenon
  <2> HIDE DEF s
  <2> QED
    BY <1>1, <2>1
<1>5. /\ \A i \in 1..N : i <= w => s[i] = k.buf[i]
      /\ \A i \in 1..n : s[w + i] = data[i]
  BY <1>1
<1> HIDE DEF s
<1>6. Good(e)
  BY <1>1, <1>2, <1>4 DEF Good
<1> DEFINE r == readableBytes(k)
           c == Contents(k) \o data
<1>7. /\ r \in Nat /\ r = w - k.read_idx /\ readableBytes(e) = r + n
      /\ Contents(k) \in Seq(Byte) /\ Len(Contents(k)) = r
      /\ \A i \in 1..r : Contents(k)[i] = k.buf[k.read_idx + i]
  BY <1>1, <1>2, ContentsBytes DEF readableBytes, w
<1>8. /\ Contents(e) \in Seq(Byte) /\ Len(Contents(e)) = readableBytes(e)
      /\ \A i \in 1..readableBytes(e) : Contents(e)[i] = e.buf[e.read_idx + i]
  BY <1>6, ContentsBytes, Zenon
<1>9. /\ c \in Seq(Byte) /\ Len(c) = r + n
      /\ \A i \in 1..r + n : c[i] = IF i <= r THEN Contents(k)[i] ELSE data[i - r]
  BY <1>7, ConcatProperties, SMTT(30) DEF n
<1> HIDE DEF c, r
<1> DEFINE a == k.read_idx
<1>10. a \in Nat /\ r \in Nat /\ n \in Nat /\ N \in Nat /\ w = a + r /\ w <= N
  BY <1>1, <1>7
<1> HIDE DEF a
<1>11. ASSUME NEW i \in 1..r + n PROVE Contents(e)[i] = c[i]
  <2>1. Contents(e)[i] = s[k.read_idx + i]
    BY <1>2, <1>7, <1>8, Zenon
  <2>2. CASE i <= r
    <3>1. i \in 1..r /\ a + i \in 1..N /\ a + i <= w
      BY <1>10, <2>2
    <3> QED
      BY <1>5, <1>7, <1>9, <2>1, <2>2, <3>1, Zenon DEF a
  <2>3. CASE ~(i <= r)
    <3>1. i - r \in 1..n /\ a + i = w + (i - r)
      BY <1>10, <2>3, PastFirst, Zenon
    <3> QED
      BY <1>5, <1>9, <2>1, <2>3, <3>1, Zenon DEF a
  <2> QED
    BY <2>2, <2>3, Zenon
<1>12. Contents(e) = c
  BY <1>7, <1>8, <1>9, <1>11, SeqEqual, Zenon
<1> QED
  BY <1>6, <1>12, Zenon DEF e, c

\* append, into whatever room there is.
LEMMA AppendFollows ==
    ASSUME NEW k, Good(k), NEW data \in Seq(Byte)
    PROVE  Good(append(k, data)) /\ Contents(append(k, data)) = Contents(k) \o data
<1> DEFINE e == ensureWritableBytes(k, Len(data))
<1>1. Len(data) \in Nat
  OBVIOUS
<1>2. Good(e) /\ Contents(e) = Contents(k) /\ writableBytes(e) >= Len(data)
  BY <1>1, EnsureRoom, Zenon
<1>3. writableBytes(e) \in Nat
  BY <1>2, ContentsBytes, Zenon
<1>4. append(k, data) = Written(e, data)
  BY Zenon DEF append
<1> HIDE DEF e
<1>5. Len(data) <= writableBytes(e)
  BY <1>1, <1>2, <1>3, Zenon
<1> QED
  BY <1>2, <1>4, <1>5, WrittenFollows, Zenon

\* readFd, through the second buffer or not.
LEMMA ReadFdFollows ==
    ASSUME NEW k, Good(k), NEW data \in Seq(Byte)
    PROVE  Good(readFd(k, data)) /\ Contents(readFd(k, data)) = Contents(k) \o data
<1> DEFINE w == writableBytes(k)
           d == SubSeq(data, 1, w)
           t == SubSeq(data, w + 1, Len(data))
           e == Written(k, d)
<1>1. w \in Nat /\ Len(data) \in Nat /\ Contents(k) \in Seq(Byte)
  BY ContentsBytes
<1>2. CASE Len(data) <= w
  BY <1>2, WrittenFollows, Zenon DEF readFd
<1>3. CASE ~(Len(data) <= w)
  <2>1. readFd(k, data) = append(e, t)
    BY <1>3, Zenon DEF readFd
  <2>2. /\ SubSeq(data, 0 + 1, Len(data)) = SubSeq(data, 0 + 1, w) \o t
        /\ SubSeq(data, 0 + 1, w) \in Seq(Byte) /\ t \in Seq(Byte)
        /\ Len(SubSeq(data, 0 + 1, w)) = w - 0
    <3> HIDE DEF w
    <3>1. w <= Len(data) /\ 0 <= w /\ Len(data) <= Len(data) /\ 0 \in Nat
      BY <1>1, <1>3
    <3> QED
      BY <1>1, <3>1, CutInTwo, ZenonT(30)
  <2>3. d \o t = data /\ d \in Seq(Byte) /\ t \in Seq(Byte) /\ Len(d) = w
    <3>1. 0 + 1 = 1 /\ w - 0 = w
      BY <1>1
    <3>2. SubSeq(data, 1, Len(data)) = data
      BY SubSeqFull, Zenon
    <3> QED
      BY <2>2, <3>1, <3>2, Zenon
  <2> HIDE DEF d, t
  <2>4. Good(e) /\ Contents(e) = Contents(k) \o d
    BY <1>1, <2>3, WrittenFollows
  <2> HIDE DEF e
  <2>5. Good(append(e, t)) /\ Contents(append(e, t)) = (Contents(k) \o d) \o t
    BY <2>3, <2>4, AppendFollows, Zenon
  <2>6. (Contents(k) \o d) \o t = Contents(k) \o data
    <3> DEFINE c == Contents(k)
    <3>1. c \in Seq(Byte) /\ d \in Seq(Byte) /\ t \in Seq(Byte)
      BY <1>1, <2>3, Zenon
    <3> HIDE DEF c
    <3>2. (c \o d) \o t = c \o (d \o t)
      BY <3>1
    <3> QED
      BY <2>3, <3>2, Zenon DEF c
  <2> QED
    BY <2>1, <2>5, <2>6, Zenon
<1> QED
  BY <1>2, <1>3, Zenon

\* retrieve drops the bytes that retrieveAsString copied.
LEMMA RetrieveDrops ==
    ASSUME NEW k, Good(k), NEW n \in 0..readableBytes(k)
    PROVE  LET d == SubSeq(k.buf, k.read_idx + 1, k.read_idx + n)
           IN  /\ Good(retrieve(k, n)) /\ d \in Seq(Byte)
               /\ Contents(k) = d \o Contents(retrieve(k, n))
<1> DEFINE r == k.read_idx
           w == k.write_idx
           s == k.buf
           d == SubSeq(s, r + 1, r + n)
           e == retrieve(k, n)
<1>1. /\ r \in Nat /\ w \in Nat /\ s \in Seq(Byte) /\ Len(s) \in Nat /\ r <= w /\ w <= Len(s)
      /\ n \in Nat /\ r + n <= w /\ readableBytes(k) = w - r
      /\ DOMAIN k = {"buf", "read_idx", "write_idx"}
  BY DEF Good, readableBytes
<1>2. Contents(k) = SubSeq(s, r + 1, w)
  BY Zenon DEF Contents
<1>3. /\ SubSeq(s, r + 1, w) = d \o SubSeq(s, (r + n) + 1, w) /\ d \in Seq(Byte)
  <2> HIDE DEF r, w, s
  <2>1. r + n \in Nat /\ r <= r + n
    BY <1>1
  <2> QED
    BY <1>1, <2>1, CutInTwo
<1>4. CASE n < readableBytes(k)
  <2>1. e.buf = s /\ e.read_idx = r + n /\ e.write_idx = w
        /\ e = [buf |-> s, read_idx |-> r + n, write_idx |-> w]
    BY <1>1, <1>4, Zenon DEF retrieve, Good
  <2> HIDE DEF e
  <2>2. Good(e)
    BY <1>1, <2>1 DEF Good
  <2>3. Contents(e) = SubSeq(s, (r + n) + 1, w)
    BY <2>1, Zenon DEF Contents
  <2> QED
    BY <1>2, <1>3, <2>2, <2>3, Zenon DEF e
<1>5. CASE ~(n < readableBytes(k))
  <2>1. e = [buf |-> s, read_idx |-> 0, write_idx |-> 0]
    BY <1>1, <1>5, Zenon DEF retrieve, Good
  <2>2. r + n = w
    BY <1>1, <1>5
  <2> HIDE DEF e
  <2>3. Good(e)
    BY <1>1, <2>1 DEF Good
  <2>4. Contents(e) = SubSeq(s, 1, 0)
    BY <2>1 DEF Contents
  <2>5. Contents(e) = <<>> /\ SubSeq(s, (r + n) + 1, w) = <<>>
    <3>1. w < (r + n) + 1
      BY <1>1, <2>2
    <3> QED
      BY <1>1, <2>4, <3>1, SubSeqEmpty
  <2> QED
    BY <1>2, <1>3, <2>3, <2>5, Zenon DEF e
<1> QED
  BY <1>4, <1>5, Zenon

\* unwrite drops the bytes written last.
LEMMA UnwriteDrops ==
    ASSUME NEW k, Good(k), NEW n \in 0..readableBytes(k)
    PROVE  LET d == SubSeq(k.buf, k.write_idx - n + 1, k.write_idx)
           IN  /\ Good(unwrite(k, n)) /\ d \in Seq(Byte)
               /\ Contents(k) = Contents(unwrite(k, n)) \o d
<1> DEFINE r == k.read_idx
           w == k.write_idx
           s == k.buf
           m == w - n
           d == SubSeq(s, m + 1, w)
           e == unwrite(k, n)
<1>1. /\ r \in Nat /\ w \in Nat /\ s \in Seq(Byte) /\ Len(s) \in Nat /\ r <= w /\ w <= Len(s)
      /\ m \in Nat /\ r <= m /\ m <= w
      /\ DOMAIN k = {"buf", "read_idx", "write_idx"}
  BY DEF Good, readableBytes
<1>2. Contents(k) = SubSeq(s, r + 1, w)
  BY DEF Contents
<1>3. e = [buf |-> s, read_idx |-> r, write_idx |-> m]
  BY <1>1 DEF unwrite, Good
<1> HIDE DEF e, m
<1>4. Good(e) /\ Contents(e) = SubSeq(s, r + 1, m)
  <2>1. e.buf = s /\ e.read_idx = r /\ e.write_idx = m
    BY <1>3, Zenon
  <2>2. e \in [buf : Seq(Byte), read_idx : Nat, write_idx : Nat]
    BY <1>1, <1>3, Zenon
  <2>3. r <= m /\ m <= Len(s)
    BY <1>1
  <2>4. Contents(e) = SubSeq(s, r + 1, m)
    BY <2>1, Zenon DEF Contents
  <2> QED
    BY <2>1, <2>2, <2>3, <2>4, Zenon DEF Good
<1>5. SubSeq(s, r + 1, w) = SubSeq(s, r + 1, m) \o d /\ d \in Seq(Byte)
  <2> HIDE DEF r, w, s
  <2> QED
    BY <1>1, CutInTwo
<1> QED
  BY <1>2, <1>4, <1>5, Zenon DEF e, m

\* shrink copies the contents to a buffer of its own.
LEMMA ShrinkKeeps ==
    ASSUME NEW k, Good(k), NEW reserve \in Nat
    PROVE  Good(shrink(k, reserve)) /\ Contents(shrink(k, reserve)) = Contents(k)
<1> DEFINE n == readableBytes(k) + reserve
           f == NewBuffer(Initial)
           e == ensureWritableBytes(f, n)
<1>1. Contents(k) \in Seq(Byte) /\ n \in Nat
  BY ContentsBytes
<1>2. Good(f) /\ Contents(f) = <<>>
  BY BufferAssumption, FreshGood, Zenon
<1> HIDE DEF n, f
<1>3. Good(e) /\ Contents(e) = <<>>
  BY <1>1, <1>2, EnsureRoom, Zenon
<1>4. shrink(k, reserve) = append(e, Contents(k))
  BY Zenon DEF shrink, e, f, n
<1> HIDE DEF e
<1>5. /\ Good(append(e, Contents(k)))
      /\ Contents(append(e, Contents(k))) = <<>> \o Contents(k)
  BY <1>1, <1>3, AppendFollows, Zenon
<1> QED
  BY <1>1, <1>4, <1>5, ConcatEmptySeq, Zenon

-----------------------------------------------------------------------------
(* The theorems. *)

\* The bytes a caller gives are a sequence of bytes.
LEMMA DataBytes == \A data \in Data : data \in Seq(Byte)
<1> SUFFICES ASSUME NEW n \in 0..MaxLen, NEW data \in [1..n -> Byte] PROVE data \in Seq(Byte)
  BY Zenon DEF Data
<1>1. n \in Nat
  BY BufferAssumption
<1> QED
  BY <1>1

\* Every call keeps the indices in order, and does to the contents what the queue of
\* bytes does.
LEMMA CallSteps == BufferInv /\ BufferNext => BufferInv' /\ Q!Next
<1> SUFFICES ASSUME Good(vec), BufferNext PROVE Good(vec') /\ Q!Next
  BY Zenon DEF BufferInv
<1>1. CASE Append_
  <2>1. PICK data \in Data : vec' = append(vec, data) /\ call' = Call("put", data)
    BY <1>1, Zenon DEF Append_
  <2>2. Good(vec') /\ Contents(vec') = Contents(vec) \o data /\ data \in Seq(Byte)
    BY <2>1, DataBytes, AppendFollows, Zenon
  <2>3. call'.name = "put" /\ call'.data = data
    BY <2>1, Zenon DEF Call
  <2> QED
    BY <2>2, <2>3, Zenon DEF Q!Next, Q!Put
<1>2. CASE ReadFd
  <2>1. PICK data \in Data : vec' = readFd(vec, data) /\ call' = Call("put", data)
    BY <1>2, Zenon DEF ReadFd
  <2>2. Good(vec') /\ Contents(vec') = Contents(vec) \o data /\ data \in Seq(Byte)
    BY <2>1, DataBytes, ReadFdFollows, Zenon
  <2>3. call'.name = "put" /\ call'.data = data
    BY <2>1 DEF Call
  <2> QED
    BY <2>2, <2>3 DEF Q!Next, Q!Put
<1>3. CASE Retrieve
  <2>1. PICK n \in 0..readableBytes(vec) :
           /\ vec' = retrieve(vec, n)
           /\ call' = Call("take", SubSeq(vec.buf, vec.read_idx + 1, vec.read_idx + n))
    BY <1>3, Zenon DEF Retrieve
  <2> DEFINE d == SubSeq(vec.buf, vec.read_idx + 1, vec.read_idx + n)
  <2>2. Good(vec') /\ Contents(vec) = d \o Contents(vec') /\ d \in Seq(Byte)
    BY <2>1, RetrieveDrops, Zenon
  <2>3. call'.name = "take" /\ call'.data = d
    BY <2>1, Zenon DEF Call
  <2> QED
    BY <2>2, <2>3, Zenon DEF Q!Next, Q!Take
<1>4. CASE Unwrite
  <2>1. PICK n \in 0..readableBytes(vec) :
           /\ vec' = unwrite(vec, n)
           /\ call' = Call("takeback", SubSeq(vec.buf, vec.write_idx - n + 1, vec.write_idx))
    BY <1>4, Zenon DEF Unwrite
  <2> DEFINE d == SubSeq(vec.buf, vec.write_idx - n + 1, vec.write_idx)
  <2>2. Good(vec') /\ Contents(vec) = Contents(vec') \o d /\ d \in Seq(Byte)
    BY <2>1, UnwriteDrops, Zenon
  <2>3. call'.name = "takeback" /\ call'.data = d
    BY <2>1, Zenon DEF Call
  <2> QED
    BY <2>2, <2>3, Zenon DEF Q!Next, Q!TakeBack
<1>5. CASE EnsureWritable
  <2>1. PICK n \in 0..MaxLen : vec' = ensureWritableBytes(vec, n) /\ call' = Call("arrange", <<>>)
    BY <1>5, Zenon DEF EnsureWritable
  <2>2. n \in Nat
    BY BufferAssumption
  <2>3. Good(vec') /\ Contents(vec') = Contents(vec)
    BY <2>1, <2>2, EnsureRoom, Zenon
  <2>4. call'.name = "arrange"
    BY <2>1 DEF Call
  <2> QED
    BY <2>3, <2>4, Zenon DEF Q!Next, Q!Arrange
<1>6. CASE Shrink
  <2>1. PICK n \in 0..MaxLen : vec' = shrink(vec, n) /\ call' = Call("arrange", <<>>)
    BY <1>6 DEF Shrink
  <2>2. n \in Nat
    BY BufferAssumption
  <2>3. Good(vec') /\ Contents(vec') = Contents(vec)
    BY <2>1, <2>2, ShrinkKeeps, Zenon
  <2>4. call'.name = "arrange"
    BY <2>1 DEF Call
  <2> QED
    BY <2>3, <2>4 DEF Q!Next, Q!Arrange
<1> QED
  BY <1>1, <1>2, <1>3, <1>4, <1>5, <1>6, Zenon DEF BufferNext

\* read_idx <= write_idx <= buf.size(), after any calls with any lengths.
THEOREM IndicesOrdered == BufferSpec => []BufferInv
<1>1. BufferInit => BufferInv
  BY BufferAssumption, FreshGood, Zenon DEF BufferInit, BufferInv
<1>2. BufferInv /\ [BufferNext]_bufferVars => BufferInv'
  <2>1. BufferInv /\ UNCHANGED bufferVars => BufferInv'
    BY Zenon DEF BufferInv, bufferVars
  <2> QED
    BY <2>1, CallSteps, Zenon
<1> QED
  BY <1>1, <1>2, PTL DEF BufferSpec

\* ensureWritableBytes(n) leaves room for n bytes, whatever was called before, and grows
\* the vector only when the bytes would not fit in it otherwise.
THEOREM RoomAlwaysAsPromised == BufferSpec => []RoomAsPromised
<1>1. BufferInv => RoomAsPromised
  <2> SUFFICES ASSUME Good(vec), NEW n \in 0..MaxLen
               PROVE  LET e == ensureWritableBytes(vec, n)
                      IN  /\ writableBytes(e) >= n /\ e.read_idx <= e.write_idx
                          /\ Len(e.buf) > Len(vec.buf) => readableBytes(vec) + n > Len(vec.buf)
    BY Zenon DEF BufferInv, RoomAsPromised
  <2>1. n \in Nat
    BY BufferAssumption
  <2> QED
    BY <2>1, EnsureRoom, Zenon DEF Good
<1> QED
  BY <1>1, IndicesOrdered, PTL

\* Buffer implements the queue of bytes: no call loses, doubles or reorders a byte.
THEOREM BufferIsQueue == BufferSpec => ImplementsQueue
<1>1. BufferInit => Q!Init
  BY BufferAssumption, FreshGood, Zenon DEF BufferInit, Q!Init, Call
<1>2. BufferInv /\ [BufferNext]_bufferVars => [Q!Next]_<<Contents(vec), call>>
  <2>1. UNCHANGED bufferVars => UNCHANGED <<Contents(vec), call>>
    BY Zenon DEF bufferVars, Contents
  <2> QED
    BY <2>1, CallSteps, Zenon
<1> QED
  BY <1>1, <1>2, IndicesOrdered, PTL DEF BufferSpec, ImplementsQueue, Q!Spec
=============================================================================
