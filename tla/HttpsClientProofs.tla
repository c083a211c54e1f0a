------------------------- MODULE HttpsClientProofs -------------------------
(***************************************************************************)
(* Theorems about the clients, for any number of calls of connect, stop,   *)
(* get and post and every way a client can be set up: no more attempts to  *)
(* connect are under way than connect was called, an http_client has one   *)
(* at most, and while its requests do not overlap each callback is given   *)
(* the response to its own request, in the order they were made, and the   *)
(* parser finds no error.                                                  *)
(***************************************************************************)
EXTENDS HttpsClient, FiniteSets, TLAPS

Functors == {"startInLoop", "stopInLoop"}

\* The calls of startInLoop that are queued.
Starts(q) == {i \in 1..Len(q) : q[i] = "startInLoop"}

\* What the connector itself has under way: timers, a connect in progress, a handshake, a
\* connection; and a handshake that failed when it was not to be repeated, which a later
\* event may still repeat.
Doing(k) ==
    k.timers + k.reconnects + One(k.state_ = "Connecting") + One(k.handshake = "on")
        + One(k.connection_) + One(k.handshake = "failed" /\ k.retry_)

Attempts ==
    One(upc = "start") + Cardinality(Starts(queue)) + One(lpc # "idle") + Doing(c)

\* The fields of a connector.
Fields ==
    {"is_http", "enable_ssl_", "retry_", "close_callback", "handshake", "reconnects", "connect_",
     "state_", "channel_", "stale", "retryDelayMs_", "timers", "connection_", "failed"}

\* A connector that counts what is under way.
Sound(k) ==
    /\ DOMAIN k = Fields /\ k.timers \in Nat /\ k.reconnects \in Nat
    /\ k.handshake \in {"none", "on", "failed"}

\* The client of an http_client is told to connect once.
HttpOnce == c.is_http => ~c.retry_ /\ c.reconnects = 0 /\ connects = One(connect_)

\* The inductive invariant of the client: every attempt goes back to a call of connect.
ClientInv ==
    /\ Sound(c) /\ queue \in Seq(Functors) /\ connects \in Nat
    /\ Attempts <= connects
    /\ HttpOnce

\* By how much appending and taking change the calls that are queued.  The last section
\* proves this, from the library's theorems about finite sets.
Counting ==
    /\ \A q \in Seq(Functors) :
          /\ Cardinality(Starts(q)) \in Nat
          /\ One(\E i \in DOMAIN q : q[i] = "startInLoop") <= Cardinality(Starts(q))
    /\ Cardinality(Starts(<<>>)) = 0
    /\ \A q \in Seq(Functors), f \in Functors :
          Cardinality(Starts(Append(q, f))) = Cardinality(Starts(q)) + One(f = "startInLoop")
    /\ \A q \in Seq(Functors) : q # <<>> =>
          Cardinality(Starts(Tail(q))) = Cardinality(Starts(q)) - One(Head(q) = "startInLoop")

-----------------------------------------------------------------------------
(* What the connector's handlers do to what is under way. *)

\* j is k but for the fields S.
Same(j, k, S) == DOMAIN j = DOMAIN k /\ \A x \in DOMAIN k \ S : j[x] = k[x]

\* A handler leaves alone how the client was set up, and its reconnects.
Keeps(j, k) == j.is_http = k.is_http /\ j.retry_ = k.retry_ /\ j.reconnects = k.reconnects

\* One is 0 or 1.
LEMMA OneNat ==
    ASSUME NEW b
    PROVE  One(b) \in {0, 1}
BY DEF One

\* What is under way is counted with natural numbers.
LEMMA DoingNat ==
    ASSUME NEW k, Sound(k)
    PROVE  Doing(k) \in Nat
BY DEF Sound, Doing, One

\* A timer or a reconnect less is one thing less.
LEMMA OneLess ==
    ASSUME NEW k, Sound(k), NEW j, j.state_ = k.state_, j.handshake = k.handshake,
           j.connection_ = k.connection_, j.retry_ = k.retry_,
           \/ j.timers = k.timers - 1 /\ j.reconnects = k.reconnects
           \/ j.timers = k.timers /\ j.reconnects = k.reconnects - 1
    PROVE  Doing(j) = Doing(k) - 1
<1> DEFINE w == One(k.state_ = "Connecting")
           x == One(k.handshake = "on")
           y == One(k.connection_)
           z == One(k.handshake = "failed" /\ k.retry_)
<1>1. w \in {0, 1} /\ x \in {0, 1} /\ y \in {0, 1} /\ z \in {0, 1}
  BY OneNat, Zenon
<1>2. /\ Doing(k) = k.timers + k.reconnects + w + x + y + z
      /\ Doing(j) = j.timers + j.reconnects + w + x + y + z
  BY Zenon DEF Doing
<1>3. k.timers \in Nat /\ k.reconnects \in Nat
  BY Zenon DEF Sound
<1> HIDE DEF w, x, y, z
<1> QED
  BY <1>1, <1>2, <1>3

\* Fields that say nothing of the attempts.
LEMMA SameDoing ==
    ASSUME NEW k, Sound(k), NEW j,
           Same(j, k, {"enable_ssl_", "close_callback", "connect_", "channel_", "stale", "failed"})
    PROVE  Sound(j) /\ Keeps(j, k) /\ Doing(j) = Doing(k)
<1>1. /\ DOMAIN j = Fields /\ Keeps(j, k) /\ j.timers = k.timers
      /\ j.state_ = k.state_ /\ j.handshake = k.handshake /\ j.connection_ = k.connection_
  BY Zenon DEF Sound, Same, Fields, Keeps
<1> QED
  BY <1>1, Zenon DEF Sound, Keeps, Doing

\* The end of the program changes nothing else.
LEMMA FailsSame ==
    ASSUME NEW k, Sound(k), NEW where
    PROVE  Sound(Fails(k, where)) /\ Keeps(Fails(k, where), k) /\ Doing(Fails(k, where)) = Doing(k)
<1>1. Same(Fails(k, where), k, {"failed"})
  BY Zenon DEF Fails, Same, Sound
<1>2. Same(Fails(k, where), k,
           {"enable_ssl_", "close_callback", "connect_", "channel_", "stale", "failed"})
  BY <1>1, Zenon DEF Same
<1> QED
  BY <1>2, SameDoing, Zenon

\* A retry ends a connect in progress and may set a timer.
LEMMA RetryDoes ==
    ASSUME NEW k, Sound(k), NEW e \in BOOLEAN
    PROVE  /\ Sound(retry(k, e)) /\ Keeps(retry(k, e), k)
           /\ Doing(retry(k, e)) <= Doing(k) - One(k.state_ = "Connecting") + 1
<1> DEFINE one == One(k.state_ = "Connecting")
           r == retry(k, e)
<1>1. Doing(k) \in Nat /\ one \in {0, 1}
  BY DoingNat, OneNat, Zenon
<1>2. CASE k.channel_ = "deleted" \/ e
  <2>1. r = Fails(k, "Connector.cpp:234") \/ r = Fails(k, "Channel.cpp:32")
    BY <1>2, Zenon DEF retry
  <2>2. Sound(r) /\ Keeps(r, k) /\ Doing(r) = Doing(k)
    BY <2>1, FailsSame, Zenon
  <2> HIDE DEF one, r
  <2>3. Doing(r) <= Doing(k) - one + 1
    BY <1>1, <2>2
  <2> QED
    BY <2>2, <2>3, Zenon DEF one, r
<1>3. CASE ~(k.channel_ = "deleted" \/ e)
  <2> DEFINE gone == k.channel_ = "live"
             d == [k EXCEPT !.state_ = "Disconnected", !.stale = @ \/ gone,
                            !.channel_ = IF gone THEN "deleted" ELSE @]
             t == [d EXCEPT !.timers = @ + 1, !.retryDelayMs_ = Doubled(@)]
  <2>1. Same(d, k, {"state_", "stale", "channel_"}) /\ d.state_ = "Disconnected"
    BY Zenon DEF Same, Sound, Fields
  <2>2. r = IF d.connect_ THEN t ELSE d
    BY <1>3, Zenon DEF retry
  <2> HIDE DEF d
  <2>3. /\ DOMAIN d = Fields /\ Keeps(d, k) /\ d.timers = k.timers
        /\ d.handshake = k.handshake /\ d.connection_ = k.connection_
    BY <2>1, Zenon DEF Same, Sound, Fields, Keeps
  <2>4. Same(t, d, {"timers", "retryDelayMs_"}) /\ t.timers = d.timers + 1
    BY <2>3, Zenon DEF Same, Fields
  <2> HIDE DEF t
  <2>5. /\ DOMAIN t = Fields /\ Keeps(t, k) /\ t.state_ = "Disconnected"
        /\ t.handshake = k.handshake /\ t.connection_ = k.connection_
    <3>1. /\ DOMAIN t = Fields /\ Keeps(t, d) /\ t.state_ = d.state_
          /\ t.handshake = d.handshake /\ t.connection_ = d.connection_
      BY <2>3, <2>4, Zenon DEF Same, Fields, Keeps
    <3> QED
      BY <2>1, <2>3, <3>1, Zenon DEF Keeps
  <2>6. Sound(d) /\ Sound(t)
    <3>1. k.timers + 1 \in Nat
      BY DEF Sound
    <3>2. Sound(d)
      BY <2>3, Zenon DEF Sound, Keeps
    <3>3. t.timers \in Nat
      BY <2>3, <2>4, <3>1, Zenon
    <3> QED
      BY <2>5, <3>2, <3>3, Zenon DEF Sound, Keeps
  <2>7. Doing(d) = Doing(k) - one /\ Doing(t) = Doing(k) - one + 1
    <3> DEFINE x == One(k.handshake = "on")
               y == One(k.connection_)
               z == One(k.handshake = "failed" /\ k.retry_)
    <3>1. x \in Nat /\ y \in Nat /\ z \in Nat
      BY DEF One
    <3>2. One(d.state_ = "Connecting") = 0 /\ One(t.state_ = "Connecting") = 0
      BY <2>1, <2>5 DEF One
    <3>3. /\ Doing(k) = k.timers + k.reconnects + one + x + y + z
          /\ Doing(d) = k.timers + k.reconnects + 0 + x + y + z
          /\ Doing(t) = (k.timers + 1) + k.reconnects + 0 + x + y + z
      BY <2>3, <2>4, <2>5, <3>2, Zenon DEF Doing, Keeps
    <3>4. k.timers \in Nat /\ k.reconnects \in Nat
      BY Zenon DEF Sound
    <3> HIDE DEF x, y, z, one
    <3> QED
      BY <1>1, <3>1, <3>3, <3>4
  <2> HIDE DEF one, r
  <2>8. Doing(r) <= Doing(k) - one + 1
    BY <1>1, <2>2, <2>7
  <2>9. Sound(r) /\ Keeps(r, k)
    BY <2>2, <2>3, <2>5, <2>6, Zenon
  <2> QED
    BY <2>8, <2>9, Zenon DEF one, r
<1> QED
  BY <1>2, <1>3, Zenon

\* The connect that was in progress becomes a handshake or a connection, or ends.
LEMMA EstablishedDoes ==
    ASSUME NEW k, Sound(k)
    PROVE  /\ Sound(established(k)) /\ Keeps(established(k), k)
           /\ Doing(established(k)) <= Doing(k) - One(k.state_ = "Connecting") + 1
<1> DEFINE d == established(k)
<1>1. /\ Same(d, k, {"state_", "channel_", "handshake", "connection_"})
      /\ d.state_ = "Connected"
      /\ \/ d.handshake = "on" /\ d.connection_ = k.connection_
         \/ d.handshake = k.handshake /\ d.connection_ = (k.connection_ \/ k.connect_)
  BY Zenon DEF established, Same, Sound, Fields
<1> HIDE DEF d
<1>2. /\ DOMAIN d = Fields /\ Keeps(d, k) /\ d.timers = k.timers
  BY <1>1, Zenon DEF Same, Sound, Fields, Keeps
<1>3. Sound(d)
  BY <1>1, <1>2, Zenon DEF Sound, Keeps
<1>4. /\ One(d.handshake = "on") + One(d.connection_) + One(d.handshake = "failed" /\ k.retry_)
          <= One(k.handshake = "on") + One(k.connection_) + One(k.handshake = "failed" /\ k.retry_) + 1
  BY <1>1 DEF One
<1>5. One(d.state_ = "Connecting") = 0
  BY <1>1 DEF One
<1>6. Doing(d) <= Doing(k) - One(k.state_ = "Connecting") + 1
  <2> DEFINE a == One(k.handshake = "on")
             b == One(k.connection_)
             f == One(k.handshake = "failed" /\ k.retry_)
             x == One(d.handshake = "on")
             y == One(d.connection_)
             z == One(d.handshake = "failed" /\ k.retry_)
             one == One(k.state_ = "Connecting")
  <2>1. {a, b, f, x, y, z, one} \subseteq Nat
    BY DEF One
  <2>2. /\ Doing(k) = k.timers + k.reconnects + one + a + b + f
        /\ Doing(d) = k.timers + k.reconnects + 0 + x + y + z
        /\ x + y + z <= a + b + f + 1
    BY <1>2, <1>4, <1>5, Zenon DEF Doing, Keeps
  <2>3. k.timers \in Nat /\ k.reconnects \in Nat
    BY Zenon DEF Sound
  <2> HIDE DEF a, b, f, x, y, z, one
  <2>4. Doing(d) <= Doing(k) - one + 1
    BY <2>1, <2>2, <2>3
  <2> QED
    BY <2>4, Zenon DEF one
<1> QED
  BY <1>2, <1>3, <1>6, Zenon DEF d

\* connect starts one thing at most.
LEMMA ConnectDoes ==
    ASSUME NEW k, Sound(k), NEW d \in connect(k)
    PROVE  Sound(d) /\ Keeps(d, k) /\ Doing(d) <= Doing(k) + 1
<1> DEFINE one == One(k.state_ = "Connecting")
<1>1. Doing(k) \in Nat /\ one \in {0, 1}
  BY DoingNat, OneNat, Zenon
<1> SUFFICES Sound(d) /\ Keeps(d, k) /\ (Doing(d) = Doing(k) \/ Doing(d) <= Doing(k) - one + 1)
  <2>1. Sound(d) => Doing(d) \in Nat
    BY DoingNat, Zenon
  <2> HIDE DEF one
  <2> QED
    BY <1>1, <2>1
<1>2. PICK o \in Outcomes \ {"fatal"} :
          d \in CASE o = "now"      -> add_channel(k, established(k))
                  [] o = "progress" -> connecting(k)
                  [] o = "retry"    -> {retry(k, FALSE)}
  BY Zenon DEF connect
<1>3. o \in {"now", "progress", "retry"}
  BY ClientAssumption, Zenon
<1>4. CASE o = "now"
  <2>1. d = established(k) \/ d = Fails(k, "Poller.cpp:50")
    BY <1>2, <1>4, Zenon DEF add_channel
  <2> QED
    BY <2>1, EstablishedDoes, FailsSame, ZenonT(30)
<1>5. CASE o = "progress"
  <2> DEFINE n == [k EXCEPT !.state_ = "Connecting", !.channel_ = "live"]
  <2>1. d = n \/ d = Fails(k, "Poller.cpp:50") \/ d = Fails(k, "Connector.cpp:147")
    BY <1>2, <1>5, Zenon DEF connecting, add_channel
  <2>2. Same(n, k, {"state_", "channel_"}) /\ n.state_ = "Connecting"
    BY Zenon DEF Same, Sound, Fields
  <2> HIDE DEF n
  <2>3. /\ DOMAIN n = Fields /\ Keeps(n, k) /\ n.timers = k.timers
        /\ n.handshake = k.handshake /\ n.connection_ = k.connection_
    BY <2>2, Zenon DEF Same, Sound, Fields, Keeps
  <2>4. Sound(n)
    BY <2>3, Zenon DEF Sound, Keeps
  <2>5. Doing(n) = Doing(k) - one + 1
    BY <2>2, <2>3 DEF Doing, Keeps, One, Sound
  <2>6. Doing(n) <= Doing(k) - one + 1
    <3>1. Doing(n) \in Nat
      BY <2>4, DoingNat, Zenon
    <3> HIDE DEF one
    <3> QED
      BY <2>5, <3>1
  <2> QED
    BY <2>1, <2>3, <2>4, <2>6, FailsSame, Zenon
<1>6. CASE o = "retry"
  <2>1. d = retry(k, FALSE)
    BY <1>2, <1>6, Zenon
  <2> QED
    BY <2>1, RetryDoes, Zenon
<1> QED
  BY <1>3, <1>4, <1>5, <1>6, Zenon

-----------------------------------------------------------------------------
(* The steps of the client. *)

\* The parts of the sum.
LEMMA PartsNat ==
    ASSUME Counting, ClientInv
    PROVE  /\ One(upc = "start") \in {0, 1} /\ One(lpc # "idle") \in {0, 1}
           /\ Cardinality(Starts(queue)) \in Nat /\ Doing(c) \in Nat /\ connects \in Nat
           /\ One(upc = "start") + Cardinality(Starts(queue)) + One(lpc # "idle") + Doing(c)
                  <= connects
<1>1. One(upc = "start") \in {0, 1} /\ One(lpc # "idle") \in {0, 1}
  BY OneNat, Zenon
<1>2. Doing(c) \in Nat
  BY DoingNat, Zenon DEF ClientInv
<1> QED
  BY <1>1, <1>2, Zenon DEF ClientInv, Counting, Attempts

\* A step of the loop that adds nothing to what is under way.
LEMMA NothingAdded ==
    ASSUME Counting, ClientInv, Sound(c'), UNCHANGED <<upc, connects>>, HttpOnce',
           queue' \in Seq(Functors),
           Cardinality(Starts(queue')) + One(lpc' # "idle") + Doing(c')
               <= Cardinality(Starts(queue)) + One(lpc # "idle") + Doing(c)
    PROVE  ClientInv'
<1> DEFINE u == One(upc = "start")
           l == One(lpc # "idle")
           q == Cardinality(Starts(queue))
           d == Doing(c)
           m == One(lpc' # "idle")
           r == Cardinality(Starts(queue'))
           e == Doing(c')
<1>1. /\ u \in {0, 1} /\ l \in {0, 1} /\ q \in Nat /\ d \in Nat /\ connects \in Nat
      /\ u + q + l + d <= connects
  BY PartsNat, Zenon
<1>2. m \in {0, 1} /\ r \in Nat /\ e \in Nat
  BY OneNat, DoingNat, Zenon DEF Counting
<1>3. r + m + e <= q + l + d
  OBVIOUS
<1>4. Attempts' = u + r + m + e
  BY Zenon DEF Attempts
<1> HIDE DEF u, l, q, d, m, r, e
<1>5. u + r + m + e <= connects
  BY <1>1, <1>2, <1>3
<1> QED
  BY <1>1, <1>4, <1>5, Zenon DEF ClientInv

\* What a step that keeps the setup and the reconnects leaves true of an http_client.
LEMMA OnceKept ==
    ASSUME ClientInv, Keeps(c', c), UNCHANGED <<connect_, connects>>
    PROVE  HttpOnce'
BY Zenon DEF ClientInv, HttpOnce, Keeps

\* Before connect is called nothing is under way.
LEMMA InitClient ==
    ASSUME Counting, ClientInit
    PROVE  ClientInv
<1>1. PICK setup \in Setups : c = Connector(setup)
  BY Zenon DEF ClientInit
<1>2. setup.is_http => ~setup.retry_
  BY ClientAssumption, Zenon
<1>3. /\ DOMAIN c = Fields /\ c.timers = 0 /\ c.reconnects = 0 /\ c.state_ = "Disconnected"
      /\ c.handshake = "none" /\ c.connection_ = FALSE
      /\ c.is_http = setup.is_http /\ c.retry_ = setup.retry_
  BY <1>1, Zenon DEF Connector, Fields
<1>4. Sound(c)
  BY <1>3 DEF Sound
<1>5. Doing(c) = 0
  BY <1>3 DEF Doing, One
<1>6. Attempts = 0
  BY <1>5 DEF Attempts, ClientInit, One, Counting
<1>7. HttpOnce
  BY <1>2, <1>3 DEF HttpOnce, ClientInit, One
<1> QED
  BY <1>4, <1>6, <1>7 DEF ClientInv, ClientInit

\* The user thread: connect is counted when it is called, and start only moves on.
LEMMA UserKeeps ==
    ASSUME Counting, ClientInv, ~c.is_http, UserStep
    PROVE  ClientInv'
<1> DEFINE l == One(lpc # "idle")
           q == Cardinality(Starts(queue))
           d == Doing(c)
           u == One(upc = "start")
<1>1. /\ u \in {0, 1} /\ l \in {0, 1} /\ q \in Nat /\ d \in Nat /\ connects \in Nat
      /\ u + q + l + d <= connects
  BY PartsNat, Zenon
<1>2. Sound(c) /\ queue \in Seq(Functors)
  BY Zenon DEF ClientInv
<1>3. CASE Connect
  <2>1. Attempts' = 1 + q + l + d
    BY <1>3 DEF Connect, Attempts, One
  <2>2. upc = "idle" /\ u = 0
    BY <1>3 DEF Connect, One
  <2> HIDE DEF u, l, q, d
  <2>3. 1 + q + l + d <= connects + 1 /\ connects + 1 \in Nat
    BY <1>1, <2>2
  <2> QED
    BY <1>2, <1>3, <2>1, <2>3, Zenon DEF Connect, ClientInv, HttpOnce
<1>4. CASE Stop \/ Disconnect
  <2>1. UNCHANGED <<c, lpc, queue, connects>> /\ One(upc' = "start") = 0
    BY <1>4 DEF Stop, Disconnect, One
  <2>2. Attempts' = 0 + q + l + d
    BY <2>1, Zenon DEF Attempts
  <2> HIDE DEF u, l, q, d
  <2>3. 0 + q + l + d <= connects
    BY <1>1
  <2> QED
    BY <1>1, <1>2, <2>1, <2>2, <2>3, Zenon DEF ClientInv, HttpOnce
<1>5. CASE Start_ \/ Stop_
  <2> DEFINE f == IF upc = "start" THEN "startInLoop" ELSE "stopInLoop"
  <2>1. /\ UNCHANGED <<lpc, connects>> /\ upc' = "idle"
        /\ queue' = Append(queue, f) \/ queue' = queue
        /\ c' = [c EXCEPT !.connect_ = (upc = "start")]
    BY <1>5, Zenon DEF Start_, Stop_
  <2>2. f \in Functors /\ One(f = "startInLoop") = u
    BY DEF Functors, One
  <2> HIDE DEF f
  <2> DEFINE r == Cardinality(Starts(queue'))
  <2>3. queue' \in Seq(Functors) /\ (r = q + u \/ r = q)
    <3>1. queue' \in Seq(Functors)
      BY <1>2, <2>1, <2>2
    <3>2. Cardinality(Starts(Append(queue, f))) = q + One(f = "startInLoop")
      BY <1>2, <2>2, Zenon DEF Counting
    <3> QED
      BY <2>1, <2>2, <3>1, <3>2, Zenon
  <2>4. Same(c', c, {"connect_"})
    BY <1>2, <2>1, Zenon DEF Same, Sound
  <2>5. Sound(c') /\ Keeps(c', c) /\ Doing(c') = d
    <3>1. Same(c', c, {"enable_ssl_", "close_callback", "connect_", "channel_", "stale", "failed"})
      BY <2>4, Zenon DEF Same
    <3> QED
      BY <1>2, <3>1, SameDoing, Zenon
  <2>6. One(upc' = "start") = 0
    BY <2>1 DEF One
  <2>7. Attempts' = 0 + r + l + d
    BY <2>1, <2>5, <2>6, Zenon DEF Attempts
  <2> HIDE DEF u, l, q, d, r
  <2>8. 0 + r + l + d <= connects
    BY <1>1, <2>3
  <2> QED
    BY <1>1, <2>1, <2>3, <2>5, <2>7, <2>8, Zenon DEF ClientInv, HttpOnce, Keeps
<1> QED
  BY <1>3, <1>4, <1>5, Zenon DEF UserStep

\* A functor, a timer and a decision to restart take the loop's thread on.
LEMMA LoopMovesOn ==
    ASSUME Counting, ClientInv,
           RunStart \/ TimerFires \/ StartInLoop \/ Restart \/ RemoveConnection
    PROVE  ClientInv'
<1> DEFINE l == One(lpc # "idle")
           q == Cardinality(Starts(queue))
           d == Doing(c)
<1>1. l \in {0, 1} /\ q \in Nat /\ d \in Nat /\ One(lpc' # "idle") \in {0, 1}
  BY PartsNat, OneNat, Zenon
<1>2. Sound(c) /\ queue \in Seq(Functors) /\ Keeps(c, c)
  BY Zenon DEF ClientInv, Keeps
<1>3. UNCHANGED <<connect_, upc, connects>>
  BY Zenon DEF RunStart, TimerFires, StartInLoop, Restart, RemoveConnection, user
<1>4. CASE RunStart
  <2>1. /\ queue # <<>> /\ Head(queue) = "startInLoop" /\ queue' = Tail(queue)
        /\ c' = c /\ lpc = "idle" /\ lpc' = "start"
    BY <1>4, Zenon DEF RunStart, Take, At
  <2>2. queue' \in Seq(Functors)
    BY <1>2, <2>1
  <2>3. Cardinality(Starts(queue')) = q - 1 /\ l = 0 /\ One(lpc' # "idle") = 1
    BY <1>2, <2>1 DEF Counting, One
  <2> HIDE DEF l, q, d
  <2>4. Cardinality(Starts(queue')) + One(lpc' # "idle") + d <= q + l + d
    BY <1>1, <2>3
  <2> QED
    BY <1>2, <1>3, <2>1, <2>2, <2>4, NothingAdded, OnceKept, Zenon DEF l, q, d
<1>5. CASE TimerFires
  <2>1. /\ c.timers > 0 /\ c' = [c EXCEPT !.timers = @ - 1] /\ queue' = queue
        /\ lpc = "idle" /\ lpc' = "start"
    BY <1>5, Zenon DEF TimerFires, At
  <2>2. Same(c', c, {"timers"}) /\ c'.timers = c.timers - 1
    BY <1>2, <2>1, Zenon DEF Same, Sound, Fields
  <2>3. /\ DOMAIN c' = Fields /\ Keeps(c', c) /\ c'.state_ = c.state_
        /\ c'.handshake = c.handshake /\ c'.connection_ = c.connection_
    BY <1>2, <2>2, Zenon DEF Same, Sound, Fields, Keeps
  <2>4. c.timers \in Nat /\ c.timers - 1 \in Nat
    BY <1>2, <2>1 DEF Sound
  <2>5. Sound(c')
    BY <1>2, <2>2, <2>3, <2>4, Zenon DEF Sound, Keeps
  <2>6. Doing(c') = d - 1
    BY <1>2, <2>2, <2>3, <2>4, OneLess, Zenon DEF Sound, Keeps
  <2>7. l = 0 /\ One(lpc' # "idle") = 1
    BY <2>1 DEF One
  <2> HIDE DEF l, q, d
  <2>8. q + One(lpc' # "idle") + Doing(c') <= q + l + d
    BY <1>1, <2>6, <2>7
  <2> QED
    BY <1>2, <1>3, <2>1, <2>3, <2>5, <2>8, NothingAdded, OnceKept, Zenon DEF l, q, d
<1>6. CASE StartInLoop
  <2>1. lpc = "start" /\ queue' = queue /\ (c' = c \/ c' = Fails(c, "Connector.cpp:31"))
    BY <1>6, Zenon DEF StartInLoop, At
  <2>2. Sound(c') /\ Keeps(c', c) /\ Doing(c') = d
    BY <1>2, <2>1, FailsSame, Zenon
  <2>3. l = 1
    BY <2>1 DEF One
  <2> HIDE DEF l, q, d
  <2>4. q + One(lpc' # "idle") + Doing(c') <= q + l + d
    BY <1>1, <2>2, <2>3
  <2> QED
    BY <1>2, <1>3, <2>1, <2>2, <2>4, NothingAdded, OnceKept, Zenon DEF l, q, d
<1>7. CASE Restart
  <2>1. /\ lpc = "restart" /\ queue' = queue
        /\ c' = [c EXCEPT !.state_ = "Disconnected", !.retryDelayMs_ = InitRetryDelayMs,
                          !.connect_ = TRUE]
    BY <1>7, Zenon DEF Restart, At
  <2>2. Same(c', c, {"state_", "retryDelayMs_", "connect_"}) /\ c'.state_ = "Disconnected"
    BY <1>2, <2>1, Zenon DEF Same, Sound, Fields
  <2>3. /\ DOMAIN c' = Fields /\ Keeps(c', c) /\ c'.timers = c.timers
        /\ c'.handshake = c.handshake /\ c'.connection_ = c.connection_
    BY <1>2, <2>2, Zenon DEF Same, Sound, Fields, Keeps
  <2>4. Sound(c')
    BY <1>2, <2>3, Zenon DEF Sound, Keeps
  <2>5. Doing(c') <= d
    BY <1>2, <2>2, <2>3 DEF Doing, Keeps, One, Sound
  <2>6. l = 1 /\ Doing(c') \in Nat
    BY <2>1, <2>4, DoingNat DEF One
  <2> HIDE DEF l, q, d
  <2>7. q + One(lpc' # "idle") + Doing(c') <= q + l + d
    BY <1>1, <2>5, <2>6
  <2> QED
    BY <1>2, <1>3, <2>1, <2>3, <2>4, <2>7, NothingAdded, OnceKept, Zenon DEF l, q, d
<1>8. CASE RemoveConnection
  <2> DEFINE k == [c EXCEPT !.connection_ = FALSE]
  <2>1. /\ lpc = "idle" /\ queue' = queue /\ c.connection_
        /\ c' = k \/ c' = Fails(k, "TcpClient.cpp:157")
    BY <1>8, Zenon DEF RemoveConnection, At
  <2>2. Same(k, c, {"connection_"}) /\ k.connection_ = FALSE
    BY <1>2, Zenon DEF Same, Sound, Fields
  <2> HIDE DEF k
  <2>3. /\ DOMAIN k = Fields /\ Keeps(k, c) /\ k.timers = c.timers
        /\ k.handshake = c.handshake /\ k.state_ = c.state_
    BY <1>2, <2>2, Zenon DEF Same, Sound, Fields, Keeps
  <2>4. Sound(k)
    BY <1>2, <2>3, Zenon DEF Sound, Keeps
  <2>5. Doing(k) = d - 1
    BY <1>2, <2>1, <2>2, <2>3 DEF Doing, Keeps, One, Sound
  <2>6. Sound(c') /\ Keeps(c', c) /\ Doing(c') = d - 1
    <3>1. LET f == Fails(k, "TcpClient.cpp:157") IN Sound(f) /\ Keeps(f, k) /\ Doing(f) = Doing(k)
      BY <2>4, FailsSame, Zenon
    <3>2. Sound(c') /\ Keeps(c', k) /\ Doing(c') = Doing(k)
      BY <2>1, <2>4, <3>1, Zenon DEF Keeps
    <3> QED
      BY <2>3, <2>5, <3>2, Zenon DEF Keeps
  <2>7. l = 0
    BY <2>1 DEF One
  <2> HIDE DEF l, q, d
  <2>8. q + One(lpc' # "idle") + Doing(c') <= q + l + d
    BY <1>1, <2>6, <2>7
  <2> QED
    BY <1>2, <1>3, <2>1, <2>6, <2>8, NothingAdded, OnceKept, Zenon DEF l, q, d
<1> QED
  BY <1>4, <1>5, <1>6, <1>7, <1>8, Zenon

\* The connect, its end and what a stop makes of it.
LEMMA ConnectorKeeps ==
    ASSUME Counting, ClientInv,
           ConnectCall \/ RunStop \/ ConnectSucceeds \/ ConnectFails \/ HandshakeAfterFailure
    PROVE  ClientInv'
<1> DEFINE l == One(lpc # "idle")
           q == Cardinality(Starts(queue))
           d == Doing(c)
           e == Doing(c')
           m == One(lpc' # "idle")
<1>1. l \in {0, 1} /\ q \in Nat /\ d \in Nat /\ m \in {0, 1}
  BY PartsNat, OneNat, Zenon
<1>2. Sound(c) /\ queue \in Seq(Functors) /\ Keeps(c, c)
  BY Zenon DEF ClientInv, Keeps
<1>3. UNCHANGED <<connect_, upc, connects>>
  BY Zenon DEF ConnectCall, RunStop, ConnectSucceeds, ConnectFails, HandshakeAfterFailure, user
<1>4. CASE ConnectCall
  <2>1. lpc = "connect" /\ lpc' = "idle" /\ queue' = queue /\ (c' \in connect(c) \/ c' = c)
    BY <1>4, Zenon DEF ConnectCall, At
  <2>2. Sound(c') /\ Keeps(c', c) /\ e <= d + 1
    <3>1. CASE c' \in connect(c)
      BY <1>2, <3>1, ConnectDoes, Zenon
    <3>2. CASE c' = c
      <4>1. e = d
        BY <3>2, Zenon
      <4> HIDE DEF d, e
      <4>2. e <= d + 1
        BY <1>1, <4>1
      <4> QED
        BY <1>2, <3>2, <4>2, Zenon
    <3> QED
      BY <2>1, <3>1, <3>2, Zenon
  <2>3. l = 1 /\ m = 0 /\ e \in Nat
    BY <2>1, <2>2, DoingNat DEF One
  <2> HIDE DEF l, q, d, e, m
  <2>4. q + m + e <= q + l + d
    BY <1>1, <2>2, <2>3
  <2> QED
    BY <1>2, <1>3, <2>1, <2>2, <2>4, NothingAdded, OnceKept, Zenon DEF l, q, d, e, m
<1>5. CASE RunStop \/ ConnectSucceeds \/ ConnectFails \/ HandshakeAfterFailure
  <2>1. lpc' = lpc /\ m = l
    BY <1>5, Zenon DEF RunStop, ConnectSucceeds, ConnectFails, HandshakeAfterFailure, At
  <2>2. \/ c' = c
        \/ c' = Fails(c, "ssl_handshake_handler.cpp:30")
        \/ /\ c.state_ = "Connecting"
           /\ c' = retry(c, FALSE) \/ c' = retry(c, TRUE) \/ c' = established(c)
    BY <1>5, Zenon DEF RunStop, ConnectSucceeds, ConnectFails, HandshakeAfterFailure, At
  <2>3. Sound(c') /\ Keeps(c', c) /\ (e = d \/ (e <= d - One(c.state_ = "Connecting") + 1
                                              /\ c.state_ = "Connecting"))
    <3>1. TRUE \in BOOLEAN /\ FALSE \in BOOLEAN
      OBVIOUS
    <3> QED
      BY <1>2, <2>2, <3>1, FailsSame, RetryDoes, EstablishedDoes, Zenon
  <2>4. e \in Nat
    BY <2>3, DoingNat, Zenon
  <2>5. e <= d
    <3>1. CASE e = d
      <4> HIDE DEF d, e
      <4> QED
        BY <1>1, <3>1
    <3>2. CASE e <= d - One(c.state_ = "Connecting") + 1 /\ c.state_ = "Connecting"
      <4>1. One(c.state_ = "Connecting") = 1
        BY <3>2 DEF One
      <4> HIDE DEF d, e
      <4> QED
        BY <1>1, <2>4, <3>2, <4>1
    <3> QED
      BY <2>3, <3>1, <3>2, Zenon
  <2>6. queue' \in Seq(Functors) /\ Cardinality(Starts(queue')) = q
    <3>1. CASE RunStop
      <4>1. queue # <<>> /\ Head(queue) = "stopInLoop" /\ queue' = Tail(queue)
        BY <3>1, Zenon DEF RunStop, Take
      <4>2. queue' \in Seq(Functors)
        BY <1>2, <4>1
      <4>3. One(Head(queue) = "startInLoop") = 0
        BY <4>1 DEF One
      <4>4. Cardinality(Starts(queue')) = q - 0
        BY <1>2, <4>1, <4>3, Zenon DEF Counting
      <4> HIDE DEF q
      <4>5. q - 0 = q
        BY <1>1
      <4> QED
        BY <4>2, <4>4, <4>5, Zenon
    <3>2. CASE ~RunStop
      <4>1. queue' = queue
        BY <1>5, <3>2, Zenon DEF ConnectSucceeds, ConnectFails, HandshakeAfterFailure
      <4> QED
        BY <1>2, <4>1, Zenon
    <3> QED
      BY <3>1, <3>2, Zenon
  <2> DEFINE p == Cardinality(Starts(queue'))
  <2> HIDE DEF l, q, d, e, m, p
  <2>7. p = q
    BY <2>6, Zenon DEF p, q
  <2>8. p + m + e <= q + l + d
    BY <1>1, <2>1, <2>4, <2>5, <2>7
  <2> QED
    BY <1>2, <1>3, <2>3, <2>6, <2>8, NothingAdded, OnceKept, Zenon DEF l, q, d, e, m, p
<1> QED
  BY <1>4, <1>5, Zenon

\* The end of a handshake: a connection, a reconnect, or nothing.
LEMMA HandshakeKeeps ==
    ASSUME Counting, ClientInv, HandshakeDone \/ HandshakeFails
    PROVE  ClientInv'
<1> DEFINE l == One(lpc # "idle")
           q == Cardinality(Starts(queue))
           d == Doing(c)
           e == Doing(c')
<1>1. l \in {0, 1} /\ q \in Nat /\ d \in Nat
  BY PartsNat, OneNat, Zenon
<1>2. Sound(c) /\ queue \in Seq(Functors)
  BY Zenon DEF ClientInv
<1>3. UNCHANGED <<connect_, upc, connects, lpc, queue>>
  BY Zenon DEF HandshakeDone, HandshakeFails, user
<1>4. Sound(c') /\ HttpOnce' /\ e <= d
  <2>1. CASE HandshakeDone
    <3>1. /\ Same(c', c, {"handshake", "connection_", "channel_"})
          /\ c.handshake = "on" /\ c'.handshake = "none" /\ c'.connection_ = TRUE
      BY <1>2, <2>1, Zenon DEF HandshakeDone, Same, Sound, Fields
    <3>2. DOMAIN c' = Fields /\ Keeps(c', c) /\ c'.timers = c.timers /\ c'.state_ = c.state_
      BY <1>2, <3>1, Zenon DEF Same, Sound, Fields, Keeps
    <3>3. Sound(c') /\ HttpOnce'
      BY <1>2, <1>3, <3>1, <3>2, OnceKept, Zenon DEF Sound, Keeps
    <3>4. e <= d
      BY <1>2, <3>1, <3>2, SMT DEF Doing, Keeps, One, Sound
    <3> QED
      BY <3>3, <3>4, Zenon
  <2>2. CASE HandshakeFails /\ c.retry_ /\ connect_
    <3>1. /\ Same(c', c, {"handshake", "retry_", "reconnects"}) /\ c.handshake # "none"
          /\ c'.handshake = "failed" /\ c'.retry_ = FALSE /\ c'.reconnects = c.reconnects + 1
      BY <1>2, <2>2, Zenon DEF HandshakeFails, Same, Sound, Fields
    <3>2. /\ DOMAIN c' = Fields /\ c'.is_http = c.is_http /\ c'.timers = c.timers
          /\ c'.state_ = c.state_ /\ c'.connection_ = c.connection_
      BY <1>2, <3>1, Zenon DEF Same, Sound, Fields
    <3>3. c.reconnects + 1 \in Nat
      BY <1>2 DEF Sound
    <3>4. Sound(c')
      BY <1>2, <3>1, <3>2, <3>3, Zenon DEF Sound
    <3>5. HttpOnce'
      BY <2>2, <3>2, Zenon DEF HttpOnce, ClientInv
    <3>6. c.handshake \in {"on", "failed"}
      BY <1>2, <3>1 DEF Sound
    <3>7. e <= d
      BY <1>2, <2>2, <3>1, <3>2, <3>6 DEF Doing, One, Sound
    <3> QED
      BY <3>4, <3>5, <3>7, Zenon
  <2>3. CASE HandshakeFails /\ ~(c.retry_ /\ connect_)
    <3>1. Same(c', c, {"handshake"}) /\ c.handshake # "none" /\ c'.handshake = "failed"
      BY <1>2, <2>3, Zenon DEF HandshakeFails, Same, Sound, Fields
    <3>2. /\ DOMAIN c' = Fields /\ Keeps(c', c) /\ c'.timers = c.timers
          /\ c'.state_ = c.state_ /\ c'.connection_ = c.connection_
      BY <1>2, <3>1, Zenon DEF Same, Sound, Fields, Keeps
    <3>3. Sound(c') /\ HttpOnce'
      BY <1>2, <1>3, <3>1, <3>2, OnceKept, Zenon DEF Sound, Keeps
    <3>4. e <= d
      BY <1>2, <3>1, <3>2, SMT DEF Doing, Keeps, One, Sound
    <3> QED
      BY <3>3, <3>4, Zenon
  <2> QED
    BY <2>1, <2>2, <2>3, Zenon
<1>5. e \in Nat
  BY <1>4, DoingNat, Zenon
<1> HIDE DEF l, q, d, e
<1>6. q + l + e <= q + l + d
  BY <1>1, <1>4, <1>5
<1> QED
  BY <1>2, <1>3, <1>4, <1>6, NothingAdded, Zenon DEF l, q, d, e

\* The second connect after a failed handshake is the first one's attempt; an http_client
\* makes none.
LEMMA ReconnectKeeps ==
    ASSUME Counting, ClientInv, ReconnectFires
    PROVE  ClientInv'
<1> DEFINE l == One(lpc # "idle")
           q == Cardinality(Starts(queue))
           d == Doing(c)
           e == Doing(c')
           m == One(lpc' # "idle")
<1>1. l \in {0, 1} /\ q \in Nat /\ d \in Nat
  BY PartsNat, OneNat, Zenon
<1>2. Sound(c) /\ queue \in Seq(Functors)
  BY Zenon DEF ClientInv
<1>3. /\ lpc = "idle" /\ lpc' = "start" /\ c.reconnects > 0
      /\ UNCHANGED <<upc, connects, queue>>
      /\ c' = [c EXCEPT !.reconnects = @ - 1, !.connect_ = TRUE]
  BY Zenon DEF ReconnectFires, At
<1>4. c.reconnects \in Nat /\ c.reconnects - 1 \in Nat /\ c.reconnects # 0
  BY <1>2, <1>3 DEF Sound
<1>5. Same(c', c, {"reconnects", "connect_"}) /\ c'.reconnects = c.reconnects - 1
  BY <1>2, <1>3, Zenon DEF Same, Sound, Fields
<1>6. /\ DOMAIN c' = Fields /\ c'.is_http = c.is_http /\ c'.timers = c.timers
      /\ c'.state_ = c.state_ /\ c'.handshake = c.handshake
      /\ c'.connection_ = c.connection_ /\ c'.retry_ = c.retry_
  BY <1>2, <1>5, Zenon DEF Same, Sound, Fields
<1>7. Sound(c') /\ HttpOnce'
  BY <1>2, <1>4, <1>5, <1>6, Zenon DEF Sound, HttpOnce, ClientInv
<1>8. e = d - 1
  BY <1>2, <1>5, <1>6, OneLess, Zenon
<1>9. l = 0 /\ m = 1
  BY <1>3 DEF One
<1> HIDE DEF l, q, d, e, m
<1>10. q + m + e <= q + l + d
  BY <1>1, <1>8, <1>9
<1> QED
  BY <1>2, <1>3, <1>7, <1>10, NothingAdded, Zenon DEF l, q, d, e, m

\* get and post tell the client to connect when it was never told to.
LEMMA RequestKeeps ==
    ASSUME Counting, ClientInv, Request
    PROVE  ClientInv'
<1> DEFINE u == One(upc = "start")
           l == One(lpc # "idle")
           q == Cardinality(Starts(queue))
           d == Doing(c)
<1>1. /\ u \in {0, 1} /\ l \in {0, 1} /\ q \in Nat /\ d \in Nat /\ connects \in Nat
      /\ u + q + l + d <= connects
  BY PartsNat, Zenon
<1>2. Sound(c) /\ queue \in Seq(Functors) /\ c.is_http
  BY Zenon DEF ClientInv, Request
<1>3. CASE connect_
  <2>1. UNCHANGED <<c, connect_, upc, lpc, queue, connects>>
    BY <1>3, Zenon DEF Request
  <2> QED
    BY <2>1, Zenon DEF ClientInv, Attempts, HttpOnce
<1>4. CASE ~connect_
  <2>1. /\ lpc = "idle" /\ lpc' = "start" /\ connect_' = TRUE /\ connects' = connects + 1
        /\ UNCHANGED <<upc, queue>> /\ c' = [c EXCEPT !.connect_ = TRUE]
    BY <1>4, Zenon DEF Request, At
  <2>2. Sound(c') /\ Keeps(c', c) /\ Doing(c') = d
    <3>1. Same(c', c, {"connect_"})
      BY <1>2, <2>1, Zenon DEF Same, Sound
    <3>2. Same(c', c, {"enable_ssl_", "close_callback", "connect_", "channel_", "stale", "failed"})
      BY <3>1, Zenon DEF Same
    <3> QED
      BY <1>2, <3>2, SameDoing, Zenon
  <2>3. l = 0 /\ One(lpc' # "idle") = 1
    BY <2>1 DEF One
  <2>4. connects = 0
    BY <1>2, <1>4 DEF ClientInv, HttpOnce, One
  <2>5. HttpOnce'
    BY <1>2, <2>1, <2>2, <2>4 DEF ClientInv, HttpOnce, Keeps, One
  <2>6. Attempts' = u + q + 1 + d
    BY <2>1, <2>2, <2>3, Zenon DEF Attempts
  <2> HIDE DEF u, l, q, d
  <2>7. u + q + 1 + d <= connects + 1 /\ connects + 1 \in Nat
    BY <1>1, <2>3
  <2> QED
    BY <1>2, <2>1, <2>2, <2>5, <2>6, <2>7, Zenon DEF ClientInv
<1> QED
  BY <1>3, <1>4, Zenon

\* Data that arrive leave the attempts alone.
LEMMA MessageKeeps ==
    ASSUME Counting, ClientInv, NEW n, OnMessage(n)
    PROVE  ClientInv'
<1>1. UNCHANGED <<connect_, upc, connects, lpc, queue>>
      /\ (c' = c \/ c' = Fails(c, "https_client.cpp:280"))
  BY Zenon DEF OnMessage, user
<1>2. Sound(c)
  BY Zenon DEF ClientInv
<1>3. Sound(c') /\ Keeps(c', c) /\ Doing(c') = Doing(c)
  BY <1>1, <1>2, FailsSame, Zenon DEF Keeps
<1> QED
  BY <1>1, <1>3, Zenon DEF ClientInv, Attempts, HttpOnce, Keeps

\* Every step keeps the invariant.
LEMMA ClientKeeps ==
    ASSUME Counting, ClientInv, [Next]_vars
    PROVE  ClientInv'
<1>1. CASE ~c.is_http /\ UserStep
  BY <1>1, UserKeeps, Zenon
<1>2. CASE ClientStep
  BY <1>2, LoopMovesOn, ConnectorKeeps, HandshakeKeeps, ReconnectKeeps, Zenon
      DEF ClientStep, LoopStep, TimerStep
<1>3. CASE OnConnection
  BY <1>3, HandshakeKeeps, Zenon DEF OnConnection
<1>4. CASE Request
  BY <1>4, RequestKeeps, Zenon
<1>5. CASE \E n \in 1..4 : OnMessage(n)
  BY <1>5, MessageKeeps, Zenon
<1>6. CASE Idle \/ UNCHANGED vars
  BY <1>6, Zenon DEF Idle, vars, clientVars, ClientInv, Attempts, HttpOnce
<1> QED
  BY <1>1, <1>2, <1>3, <1>4, <1>5, <1>6, Zenon DEF Next

-----------------------------------------------------------------------------
(* Requests and their answers. *)

\* The callbacks of m requests, each given its own response.
Own(m) == [i \in 1..m |-> [cb |-> i, got |-> Response(i)]]

\* Nothing is asked and nothing is on its way.
Quiet == answers = Own(made) /\ request_bufs = <<>> /\ stream = <<>> /\ parser = <<>>

\* The last request has no answer: it is queued, its response has not come, or half has.
Pending ==
    /\ made # 0 /\ answers = Own(made - 1)
    /\ \/ request_bufs = <<made>> /\ stream = <<>> /\ parser = <<>>
       \/ request_bufs = <<>> /\ stream = Response(made) /\ parser = <<>>
       \/ request_bufs = <<>> /\ stream = <<<<made, "tail">>>> /\ parser = <<<<made, "head">>>>

\* The inductive invariant of the requests, while they do not overlap.
ExchangeInv == ~overlap => made \in Nat /\ resp_cb = made /\ (Quiet \/ Pending)

\* One more callback that is given its own response.
LEMMA OwnOneMore ==
    ASSUME NEW m \in Nat
    PROVE  /\ Len(Own(m)) = m
           /\ Append(Own(m), [cb |-> m + 1, got |-> Response(m + 1)]) = Own(m + 1)
<1> DEFINE f(i) == [cb |-> i, got |-> Response(i)]
<1>1. Own(m) = [i \in 1..m |-> f(i)] /\ Own(m + 1) = [i \in 1..m + 1 |-> f(i)]
  BY Zenon DEF Own
<1> HIDE DEF f
<1>2. Len(Own(m)) = m
  BY <1>1
<1>3. Append(Own(m), f(m + 1)) = Own(m + 1)
  BY <1>1
<1> QED
  BY <1>2, <1>3, Zenon DEF f

\* What the server answers to no request and to one.
LEMMA AnswersOne ==
    ASSUME NEW r
    PROVE  Responses(<<>>) = <<>> /\ Responses(<<r>>) = Response(r)
<1>1. Responses(<<>>) = <<>>
  BY DEF Responses
<1>2. /\ Len(Response(r)) = 2 /\ Response(r)[1] = <<r, "head">> /\ Response(r)[2] = <<r, "tail">>
      /\ Response(r) = [i \in 1..2 |-> Response(r)[i]]
  BY DEF Response
<1>3. Responses(<<r>>) = [i \in 1..2 |-> Response(r)[i]]
  BY DEF Responses
<1> QED
  BY <1>1, <1>2, <1>3, Zenon

\* Sequences of one and of two.
LEMMA Tuples ==
    ASSUME NEW x, NEW y
    PROVE  /\ <<x>> \in Seq({x, y}) /\ Len(<<x>>) = 1 /\ <<x>>[1] = x
           /\ <<y>> \in Seq({x, y}) /\ Len(<<y>>) = 1 /\ <<y>>[1] = y
           /\ <<x, y>> \in Seq({x, y}) /\ Len(<<x, y>>) = 2
           /\ <<x, y>>[1] = x /\ <<x, y>>[2] = y
           /\ \A t \in Seq({x, y}) : Len(t) = 1 => t = <<t[1]>>
           /\ \A t \in Seq({x, y}) : Len(t) = 2 => t = <<t[1], t[2]>>
OBVIOUS

\* Two sequences of one.
LEMMA Joined ==
    ASSUME NEW S, NEW a \in Seq(S), NEW b \in Seq(S), Len(a) = 1, Len(b) = 1
    PROVE  a \o b \in Seq(S) /\ Len(a \o b) = 2 /\ (a \o b)[1] = a[1] /\ (a \o b)[2] = b[1]
<1>1. a \o b \in Seq(S)
  OBVIOUS
<1>2. Len(a \o b) = 2
  OBVIOUS
<1>3. (a \o b)[1] = a[1] /\ (a \o b)[2] = b[1]
  OBVIOUS
<1> QED
  BY <1>1, <1>2, <1>3, Zenon

\* How two pieces can arrive.
LEMMA Cuts ==
    ASSUME NEW x, NEW y
    PROVE  /\ SubSeq(<<x, y>>, 1, 1) = <<x>> /\ SubSeq(<<x, y>>, 2, 2) = <<y>>
           /\ SubSeq(<<x, y>>, 1, 2) = <<x, y>> /\ SubSeq(<<x, y>>, 3, 2) = <<>>
           /\ SubSeq(<<y>>, 1, 1) = <<y>> /\ SubSeq(<<y>>, 2, 1) = <<>>
           /\ <<x>> \o <<y>> = <<x, y>>
<1> DEFINE S == {x, y}
           s == <<x, y>>
           a == <<x>>
           b == <<y>>
<1>1. /\ s \in Seq(S) /\ Len(s) = 2 /\ s[1] = x /\ s[2] = y
      /\ a \in Seq(S) /\ Len(a) = 1 /\ a[1] = x /\ b \in Seq(S) /\ Len(b) = 1 /\ b[1] = y
  BY Tuples, Zenon
<1>2. /\ \A t \in Seq(S) : Len(t) = 1 => t = <<t[1]>>
      /\ \A t \in Seq(S) : Len(t) = 2 => t = <<t[1], t[2]>>
  BY Tuples, Zenon
<1> HIDE DEF S, s, a, b
<1>3. SubSeq(s, 1, 1) \in Seq(S) /\ Len(SubSeq(s, 1, 1)) = 1 /\ SubSeq(s, 1, 1)[1] = s[1]
  BY <1>1
<1>4. SubSeq(s, 2, 2) \in Seq(S) /\ Len(SubSeq(s, 2, 2)) = 1 /\ SubSeq(s, 2, 2)[1] = s[2]
  BY <1>1
<1>5. SubSeq(s, 1, 2) = s /\ SubSeq(s, 3, 2) = <<>>
  BY <1>1
<1>6. SubSeq(b, 1, 1) = b /\ SubSeq(b, 2, 1) = <<>>
  BY <1>1
<1>7. a \o b \in Seq(S) /\ Len(a \o b) = 2 /\ (a \o b)[1] = a[1] /\ (a \o b)[2] = b[1]
  <2>1. a \in Seq(S) /\ b \in Seq(S) /\ Len(a) = 1 /\ Len(b) = 1
    BY <1>1, Zenon
  <2> QED
    BY <2>1, Joined
<1>8. SubSeq(s, 1, 1) = <<x>> /\ SubSeq(s, 2, 2) = <<y>> /\ a \o b = <<x, y>>
  <2>1. SubSeq(s, 1, 1) = <<x>>
    BY <1>1, <1>2, <1>3, Zenon
  <2>2. SubSeq(s, 2, 2) = <<y>>
    BY <1>1, <1>2, <1>4, Zenon
  <2>3. a \o b = <<x, y>>
    BY <1>1, <1>2, <1>7, Zenon
  <2> QED
    BY <2>1, <2>2, <2>3, Zenon
<1> QED
  BY <1>5, <1>6, <1>8, Zenon DEF s, a, b

\* A response begins with its head, and only all of it is complete.
LEMMA Parsed ==
    ASSUME NEW r
    PROVE  /\ ~ParseError(<<<<r, "head">>>>) /\ ~MsgComplete(<<<<r, "head">>>>)
           /\ ~ParseError(Response(r)) /\ MsgComplete(Response(r))
BY DEF ParseError, MsgComplete, Response

\* What arrives of the response that is pending: its head, or what completes it.
LEMMA ArrivesOwn ==
    ASSUME ExchangeInv, ~overlap, NEW n \in 1..4, n <= Len(stream)
    PROVE  LET pieces == parser \o SubSeq(stream, 1, n)
               rest == SubSeq(stream, n + 1, Len(stream))
           IN  /\ Pending /\ request_bufs = <<>>
               /\ \/ pieces = <<<<made, "head">>>> /\ rest = <<<<made, "tail">>>>
                  \/ pieces = Response(made) /\ rest = <<>>
<1> DEFINE x == <<made, "head">>
           y == <<made, "tail">>
           R == request_bufs = <<>>
<1>1. Quiet \/ Pending
  BY Zenon DEF ExchangeInv
<1>2. Len(<<>>) = 0
  OBVIOUS
<1>3. stream # <<>>
  BY <1>2
<1>4. \/ R /\ stream = <<x, y>> /\ parser = <<>>
      \/ R /\ stream = <<y>> /\ parser = <<x>>
  BY <1>1, <1>3, Zenon DEF Quiet, Pending, Response
<1>5. Pending
  BY <1>1, <1>3, Zenon DEF Quiet
<1>6. Len(<<x, y>>) = 2 /\ Len(<<y>>) = 1
  OBVIOUS
<1>7. Response(made) = <<x, y>>
  BY Zenon DEF Response
<1> HIDE DEF x, y
<1>8. <<>> \o <<x>> = <<x>> /\ <<>> \o <<x, y>> = <<x, y>>
  OBVIOUS
<1>9. /\ SubSeq(<<x, y>>, 1, 1) = <<x>> /\ SubSeq(<<x, y>>, 1 + 1, 2) = <<y>>
      /\ SubSeq(<<x, y>>, 1, 2) = <<x, y>> /\ SubSeq(<<x, y>>, 2 + 1, 2) = <<>>
      /\ SubSeq(<<y>>, 1, 1) = <<y>> /\ SubSeq(<<y>>, 1 + 1, 1) = <<>>
      /\ <<x>> \o <<y>> = <<x, y>>
  <2>1. 1 + 1 = 2 /\ 2 + 1 = 3
    OBVIOUS
  <2>2. /\ SubSeq(<<x, y>>, 1, 1) = <<x>> /\ SubSeq(<<x, y>>, 2, 2) = <<y>>
        /\ SubSeq(<<x, y>>, 1, 2) = <<x, y>> /\ SubSeq(<<x, y>>, 3, 2) = <<>>
        /\ SubSeq(<<y>>, 1, 1) = <<y>> /\ SubSeq(<<y>>, 2, 1) = <<>>
        /\ <<x>> \o <<y>> = <<x, y>>
    BY Cuts, Zenon
  <2> QED
    BY <2>1, <2>2, Zenon
<1> DEFINE pieces == parser \o SubSeq(stream, 1, n)
           rest == SubSeq(stream, n + 1, Len(stream))
<1>10. \/ pieces = <<x>> /\ rest = <<y>>
       \/ pieces = <<x, y>> /\ rest = <<>>
  <2>1. CASE stream = <<x, y>> /\ parser = <<>> /\ n = 1
    <3>1. SubSeq(stream, 1, n) = <<x>> /\ rest = <<y>>
      BY <1>6, <1>9, <2>1, Zenon
    <3> HIDE DEF rest
    <3>2. pieces = <<x>>
      BY <1>8, <2>1, <3>1, Zenon
    <3> QED
      BY <3>1, <3>2, Zenon
  <2>2. CASE stream = <<x, y>> /\ parser = <<>> /\ n = 2
    <3>1. SubSeq(stream, 1, n) = <<x, y>> /\ rest = <<>>
      BY <1>6, <1>9, <2>2, Zenon
    <3> HIDE DEF rest
    <3>2. pieces = <<x, y>>
      BY <1>8, <2>2, <3>1, Zenon
    <3> QED
      BY <3>1, <3>2, Zenon
  <2>3. CASE stream = <<y>> /\ parser = <<x>> /\ n = 1
    <3>1. SubSeq(stream, 1, n) = <<y>> /\ rest = <<>>
      BY <1>6, <1>9, <2>3, Zenon
    <3> HIDE DEF rest
    <3>2. pieces = <<x, y>>
      BY <1>9, <2>3, <3>1, Zenon
    <3> QED
      BY <3>1, <3>2, Zenon
  <2>4. /\ stream = <<x, y>> => n = 1 \/ n = 2
        /\ stream = <<y>> => n = 1
    <3> DEFINE len == Len(stream)
    <3>1. (stream = <<x, y>> => len = 2) /\ (stream = <<y>> => len = 1)
      BY <1>6, Zenon
    <3>2. n \in 1..4 /\ n <= len
      OBVIOUS
    <3> HIDE DEF len
    <3>3. (len = 2 => n = 1 \/ n = 2) /\ (len = 1 => n = 1)
      BY <3>2
    <3> QED
      BY <3>1, <3>3, Zenon
  <2> QED
    BY <1>4, <2>1, <2>2, <2>3, <2>4, Zenon
<1> HIDE DEF pieces, rest
<1>11. R /\ Pending
  BY <1>4, <1>5, Zenon
<1> QED
  BY <1>7, <1>10, <1>11, Zenon DEF pieces, rest, x, y

\* Requests, the connection and the data that arrive keep the invariant.
LEMMA ExchangeKeeps ==
    ASSUME ExchangeInv, [Next]_vars
    PROVE  ExchangeInv'
<1>1. CASE UNCHANGED http
  BY <1>1, Zenon DEF http, ExchangeInv, Quiet, Pending
<1>2. CASE Request
  <2> SUFFICES ASSUME ~overlap' PROVE made' \in Nat /\ resp_cb' = made' /\ Pending'
    BY Zenon DEF ExchangeInv
  <2>1. ~overlap /\ ~(made > Len(answers))
    BY <1>2, Zenon DEF Request
  <2>2. made \in Nat /\ (Quiet \/ Pending)
    BY <2>1, Zenon DEF ExchangeInv
  <2>3. Quiet
    <3>1. ASSUME Pending PROVE FALSE
      <4>1. made - 1 \in Nat /\ answers = Own(made - 1)
        BY <2>2, <3>1 DEF Pending
      <4>2. Len(answers) = made - 1
        BY <4>1, OwnOneMore, Zenon
      <4> QED
        BY <2>1, <2>2, <4>2
    <3> QED
      BY <2>2, <3>1, Zenon
  <2>4. /\ made' = made + 1 /\ resp_cb' = made + 1 /\ parser' = <<>>
        /\ request_bufs' = <<made + 1>> \o request_bufs /\ UNCHANGED <<stream, answers>>
    BY <1>2, Zenon DEF Request
  <2>5. request_bufs' = <<made + 1>>
    <3>1. <<made + 1>> \o <<>> = <<made + 1>>
      OBVIOUS
    <3> QED
      BY <2>3, <2>4, <3>1, Zenon DEF Quiet
  <2>6. made + 1 \in Nat /\ made + 1 # 0 /\ (made + 1) - 1 = made
    BY <2>2
  <2> QED
    BY <2>3, <2>4, <2>5, <2>6, Zenon DEF Quiet, Pending
<1>3. CASE OnConnection
  <2> SUFFICES ASSUME ~overlap' PROVE made' \in Nat /\ resp_cb' = made' /\ (Quiet' \/ Pending')
    BY Zenon DEF ExchangeInv
  <2>1. /\ ~overlap /\ UNCHANGED <<resp_cb, parser, answers, made>>
        /\ request_bufs' = <<>> /\ stream' = stream \o Responses(request_bufs)
    BY <1>3, Zenon DEF OnConnection
  <2>2. made \in Nat /\ resp_cb = made /\ (Quiet \/ Pending)
    BY <2>1, Zenon DEF ExchangeInv
  <2>3. Responses(<<>>) = <<>> /\ Responses(<<made>>) = Response(made)
    BY AnswersOne, Zenon
  <2>4. /\ <<>> \o <<>> = <<>> /\ <<<<made, "tail">>>> \o <<>> = <<<<made, "tail">>>>
        /\ <<>> \o Response(made) = Response(made) /\ Response(made) \o <<>> = Response(made)
    BY DEF Response
  <2>5. CASE Quiet
    <3>1. Quiet'
      BY <2>1, <2>3, <2>4, <2>5, Zenon DEF Quiet
    <3> QED
      BY <2>1, <2>2, <3>1, Zenon
  <2>6. CASE Pending
    <3>1. Pending'
      BY <2>1, <2>3, <2>4, <2>6, Zenon DEF Pending
    <3> QED
      BY <2>1, <2>2, <3>1, Zenon
  <2> QED
    BY <2>2, <2>5, <2>6, Zenon
<1>4. ASSUME NEW n \in 1..4, OnMessage(n) PROVE ExchangeInv'
  <2> SUFFICES ASSUME ~overlap' PROVE made' \in Nat /\ resp_cb' = made' /\ (Quiet' \/ Pending')
    BY Zenon DEF ExchangeInv
  <2> DEFINE pieces == parser \o SubSeq(stream, 1, n)
             rest == SubSeq(stream, n + 1, Len(stream))
  <2>1. /\ ~overlap /\ n <= Len(stream) /\ UNCHANGED <<request_bufs, resp_cb, made>>
        /\ stream' = rest
        /\ ~ParseError(pieces) =>
              IF MsgComplete(pieces)
              THEN answers' = Append(answers, [cb |-> resp_cb, got |-> pieces]) /\ parser' = <<>>
              ELSE parser' = pieces /\ answers' = answers
    BY <1>4, Zenon DEF OnMessage
  <2>2. made \in Nat /\ resp_cb = made
    BY <2>1, Zenon DEF ExchangeInv
  <2>3. /\ Pending /\ request_bufs = <<>>
        /\ \/ pieces = <<<<made, "head">>>> /\ rest = <<<<made, "tail">>>>
           \/ pieces = Response(made) /\ rest = <<>>
    BY <2>1, ArrivesOwn, Zenon
  <2> HIDE DEF pieces, rest
  <2>4. CASE pieces = <<<<made, "head">>>> /\ rest = <<<<made, "tail">>>>
    <3>1. parser' = pieces /\ answers' = answers
      BY <2>1, <2>4, Parsed, Zenon
    <3>2. Pending'
      BY <2>1, <2>3, <2>4, <3>1, Zenon DEF Pending
    <3> QED
      BY <2>1, <2>2, <3>2, Zenon
  <2>5. CASE pieces = Response(made) /\ rest = <<>>
    <3>1. answers' = Append(answers, [cb |-> made, got |-> Response(made)]) /\ parser' = <<>>
      BY <2>1, <2>2, <2>5, Parsed, Zenon
    <3>2. made # 0 /\ answers = Own(made - 1)
      BY <2>3, Zenon DEF Pending
    <3>3. made - 1 \in Nat /\ (made - 1) + 1 = made
      BY <2>2, <3>2
    <3>4. answers' = Own(made)
      BY <3>1, <3>2, <3>3, OwnOneMore, Zenon
    <3>5. Quiet'
      BY <2>1, <2>3, <2>5, <3>1, <3>4, Zenon DEF Quiet
    <3> QED
      BY <2>1, <2>2, <3>5, Zenon
  <2> QED
    BY <2>3, <2>4, <2>5, Zenon
<1> QED
  BY <1>1, <1>2, <1>3, <1>4, Zenon DEF Next, Idle, vars

-----------------------------------------------------------------------------
(* The parser's errors. *)

\* What else ends the program.
Others ==
    {"Connector.cpp:31", "Connector.cpp:147", "Connector.cpp:234", "Channel.cpp:32",
     "Poller.cpp:50", "TcpClient.cpp:157", "ssl_handshake_handler.cpp:30"}

\* The parser finds an error only after requests have overlapped.
ParserInv == c.failed = "https_client.cpp:280" => overlap

\* What a handler of the connector makes of failed.
LEMMA HandlerFails ==
    ASSUME NEW k, Sound(k), NEW d,
           \/ d = Fails(k, "Connector.cpp:31") \/ d = Fails(k, "ssl_handshake_handler.cpp:30")
           \/ d = retry(k, FALSE) \/ d = retry(k, TRUE) \/ d = established(k) \/ d \in connect(k)
    PROVE  d.failed = k.failed \/ d.failed \in Others
<1>1. ASSUME NEW w \in Others PROVE Fails(k, w).failed \in Others
  <2>1. Fails(k, w).failed = w
    BY Zenon DEF Fails, Sound, Fields
  <2> QED
    BY <2>1, Zenon
<1>2. ASSUME NEW e \in BOOLEAN
      PROVE  retry(k, e).failed = k.failed \/ retry(k, e).failed \in Others
  <2> DEFINE gone == k.channel_ = "live"
             b == [k EXCEPT !.state_ = "Disconnected", !.stale = @ \/ gone,
                            !.channel_ = IF gone THEN "deleted" ELSE @]
             t == [b EXCEPT !.timers = @ + 1, !.retryDelayMs_ = Doubled(@)]
  <2>1. DOMAIN b = Fields /\ b.failed = k.failed
    BY Zenon DEF Sound, Fields
  <2>2. \/ retry(k, e) = Fails(k, "Connector.cpp:234") \/ retry(k, e) = Fails(k, "Channel.cpp:32")
        \/ retry(k, e) = b \/ retry(k, e) = t
    BY Zenon DEF retry
  <2> HIDE DEF b
  <2>3. t.failed = k.failed
    BY <2>1, Zenon DEF Fields
  <2> HIDE DEF t
  <2> QED
    BY <1>1, <2>1, <2>2, <2>3, Zenon DEF Others
<1>3. established(k).failed = k.failed
  BY Zenon DEF established, Sound, Fields
<1>4. ASSUME d \in connect(k) PROVE d.failed = k.failed \/ d.failed \in Others
  <2> DEFINE n == [k EXCEPT !.state_ = "Connecting", !.channel_ = "live"]
  <2>1. n.failed = k.failed
    BY Zenon DEF Sound, Fields
  <2>2. PICK o \in Outcomes \ {"fatal"} :
            d \in CASE o = "now"      -> add_channel(k, established(k))
                    [] o = "progress" -> connecting(k)
                    [] o = "retry"    -> {retry(k, FALSE)}
    BY <1>4, Zenon DEF connect
  <2>3. o \in {"now", "progress", "retry"}
    BY ClientAssumption, Zenon
  <2>4. \/ d = established(k) \/ d = n \/ d = retry(k, FALSE)
        \/ d = Fails(k, "Poller.cpp:50") \/ d = Fails(k, "Connector.cpp:147")
    BY <2>2, <2>3, Zenon DEF add_channel, connecting
  <2> HIDE DEF n
  <2> QED
    BY <1>1, <1>2, <1>3, <2>1, <2>4, Zenon DEF Others
<1> QED
  BY <1>1, <1>2, <1>3, <1>4, Zenon DEF Others

\* No step of the client but the reading of data ends in a parse error.
LEMMA ClientNoParse ==
    ASSUME Sound(c), UserStep \/ ClientStep \/ HandshakeDone \/ Request
    PROVE  c'.failed = c.failed \/ c'.failed \in Others
<1>1. CASE UserStep \/ Request
  BY <1>1, ZenonT(30) DEF UserStep, Connect, Stop, Disconnect, Start_, Stop_, Request, Sound,
                          Fields
<1>2. CASE RunStart \/ TimerFires \/ Restart \/ ReconnectFires \/ HandshakeDone \/ HandshakeFails
  BY <1>2, Zenon DEF RunStart, TimerFires, Restart, ReconnectFires, HandshakeDone,
                     HandshakeFails, Sound, Fields
<1>3. CASE StartInLoop \/ ConnectCall \/ RunStop \/ ConnectSucceeds \/ ConnectFails
           \/ HandshakeAfterFailure
  <2>1. \/ c' = c \/ c' = Fails(c, "Connector.cpp:31") \/ c' = Fails(c, "ssl_handshake_handler.cpp:30")
        \/ c' = retry(c, FALSE) \/ c' = retry(c, TRUE) \/ c' = established(c) \/ c' \in connect(c)
    BY <1>3, Zenon DEF StartInLoop, ConnectCall, RunStop, ConnectSucceeds, ConnectFails,
                       HandshakeAfterFailure
  <2> QED
    BY <2>1, HandlerFails, Zenon
<1>4. CASE RemoveConnection
  <2> DEFINE k == [c EXCEPT !.connection_ = FALSE]
  <2>1. DOMAIN k = Fields /\ k.failed = c.failed
    BY Zenon DEF Sound, Fields
  <2>2. c' = k \/ c' = Fails(k, "TcpClient.cpp:157")
    BY <1>4, Zenon DEF RemoveConnection
  <2> HIDE DEF k
  <2>3. Fails(k, "TcpClient.cpp:157").failed = "TcpClient.cpp:157"
    BY <2>1, Zenon DEF Fails, Fields
  <2> QED
    BY <2>1, <2>2, <2>3, Zenon DEF Others
<1> QED
  BY <1>1, <1>2, <1>3, <1>4, Zenon DEF ClientStep, LoopStep, TimerStep

\* Every step keeps it.
LEMMA ParserKeeps ==
    ASSUME ClientInv, ExchangeInv, ParserInv, [Next]_vars
    PROVE  ParserInv'
<1>1. Sound(c)
  BY Zenon DEF ClientInv
<1>2. overlap => overlap'
  BY Zenon DEF Next, http, OnConnection, Request, OnMessage, Idle, vars
<1>3. CASE UserStep \/ ClientStep \/ HandshakeDone \/ Request
  <2>1. "https_client.cpp:280" \notin Others
    BY DEF Others
  <2> QED
    BY <1>1, <1>2, <1>3, <2>1, ClientNoParse, Zenon DEF ParserInv
<1>4. ASSUME NEW n \in 1..4, OnMessage(n) PROVE ParserInv'
  <2>1. CASE overlap
    BY <1>2, <2>1, Zenon DEF ParserInv
  <2>2. CASE ~overlap
    <3> DEFINE pieces == parser \o SubSeq(stream, 1, n)
    <3>1. n <= Len(stream) /\ (~ParseError(pieces) => c' = c)
      BY <1>4, Zenon DEF OnMessage
    <3>2. pieces = <<<<made, "head">>>> \/ pieces = Response(made)
      BY <2>2, <3>1, ArrivesOwn, Zenon
    <3> HIDE DEF pieces
    <3>3. c' = c
      BY <3>1, <3>2, Parsed, Zenon
    <3> QED
      BY <1>2, <3>3, Zenon DEF ParserInv
  <2> QED
    BY <2>1, <2>2, Zenon
<1>5. CASE UNCHANGED vars
  BY <1>5, Zenon DEF vars, clientVars, http, ParserInv
<1> QED
  BY <1>3, <1>4, <1>5, Zenon DEF Next, OnConnection, Idle

-----------------------------------------------------------------------------
(* The counting, from the theorems about finite sets. *)

INSTANCE FiniteSetTheorems

\* The calls of startInLoop that are queued are finitely many, and none if there is none.
LEMMA StartsFinite ==
    ASSUME NEW q \in Seq(Functors)
    PROVE  /\ IsFiniteSet(Starts(q)) /\ Cardinality(Starts(q)) \in Nat
           /\ One(\E i \in DOMAIN q : q[i] = "startInLoop") <= Cardinality(Starts(q))
<1>1. IsFiniteSet(1..Len(q))
  BY FS_Interval
<1>2. IsFiniteSet(Starts(q))
  BY <1>1, FS_Subset, Zenon DEF Starts
<1>3. Cardinality(Starts(q)) \in Nat /\ (Cardinality(Starts(q)) = 0 <=> Starts(q) = {})
  BY <1>2, FS_CardinalityType, FS_EmptySet, Zenon
<1>4. CASE \E i \in DOMAIN q : q[i] = "startInLoop"
  <2>1. DOMAIN q = 1..Len(q)
    OBVIOUS
  <2>2. Starts(q) # {}
    BY <1>4, <2>1, Zenon DEF Starts
  <2> QED
    BY <1>2, <1>3, <1>4, <2>2 DEF One
<1>5. CASE ~\E i \in DOMAIN q : q[i] = "startInLoop"
  BY <1>2, <1>3, <1>5 DEF One
<1> QED
  BY <1>4, <1>5, Zenon

\* Appending adds one to them if it is a startInLoop,
LEMMA AppendCounted ==
    ASSUME NEW q \in Seq(Functors), NEW f \in Functors
    PROVE  Cardinality(Starts(Append(q, f))) = Cardinality(Starts(q)) + One(f = "startInLoop")
<1> DEFINE n == Len(q)
           a == Append(q, f)
<1>1. /\ n \in Nat /\ Len(a) = n + 1 /\ a[n + 1] = f
      /\ \A i \in 1..n : a[i] = q[i]
  OBVIOUS
<1>2. IsFiniteSet(Starts(q)) /\ Cardinality(Starts(q)) \in Nat
  BY StartsFinite, Zenon
<1>3. n + 1 \notin Starts(q)
  BY <1>1 DEF Starts
<1> HIDE DEF a, n
<1>4. CASE f = "startInLoop"
  <2>1. Starts(a) = Starts(q) \cup {n + 1}
    BY <1>1, <1>4 DEF Starts, n
  <2>2. Cardinality(Starts(q) \cup {n + 1}) = Cardinality(Starts(q)) + 1
    BY <1>2, <1>3, FS_AddElement, Zenon
  <2> QED
    BY <1>4, <2>1, <2>2, Zenon DEF a, One
<1>5. CASE f # "startInLoop"
  <2>1. Starts(a) = Starts(q)
    BY <1>1, <1>5 DEF Starts, n
  <2> QED
    BY <1>2, <1>5, <2>1 DEF a, One
<1> QED
  BY <1>4, <1>5, Zenon

\* and taking the first one takes one away.
LEMMA TakeCounted ==
    ASSUME NEW q \in Seq(Functors), q # <<>>
    PROVE  Cardinality(Starts(Tail(q))) = Cardinality(Starts(q)) - One(Head(q) = "startInLoop")
<1> DEFINE n == Len(q)
           b == Tail(q)
           Rest == Starts(q) \ {1}
           g == [i \in Rest |-> i - 1]
<1>1. /\ n \in Nat \ {0} /\ Len(b) = n - 1 /\ q[1] = Head(q)
      /\ \A i \in 1..(n - 1) : b[i] = q[i + 1]
  OBVIOUS
<1>2. IsFiniteSet(Starts(q)) /\ Cardinality(Starts(q)) \in Nat
  BY StartsFinite, Zenon
<1>3. 1 \in Starts(q) <=> Head(q) = "startInLoop"
  BY <1>1 DEF Starts
<1>4. /\ IsFiniteSet(Rest)
      /\ Cardinality(Rest) = Cardinality(Starts(q)) - One(Head(q) = "startInLoop")
  <2>1. /\ IsFiniteSet(Rest)
        /\ Cardinality(Rest) = IF 1 \in Starts(q) THEN Cardinality(Starts(q)) - 1
                               ELSE Cardinality(Starts(q))
    BY <1>2, FS_RemoveElement, Zenon
  <2> QED
    BY <1>2, <1>3, <2>1 DEF One
<1> HIDE DEF b
<1>5. \A i \in Rest : i \in 2..n /\ i - 1 \in Starts(b)
  BY <1>1 DEF Starts
<1>6. \A j \in Starts(b) : j + 1 \in Rest /\ j \in Nat
  BY <1>1 DEF Starts
<1>7. g \in Bijection(Rest, Starts(b))
  <2>1. g \in [Rest -> Starts(b)]
    BY <1>5, Zenon
  <2>2. \A x, y \in Rest : g[x] = g[y] => x = y
    BY <1>1, <1>5
  <2>3. \A j \in Starts(b) : \E x \in Rest : g[x] = j
    BY <1>6
  <2> HIDE DEF g, Rest
  <2> QED
    BY <2>1, <2>2, <2>3, Zenon DEF Bijection, Injection, IsInjective, Surjection
<1>8. ExistsBijection(Rest, Starts(b))
  BY <1>7, Zenon DEF ExistsBijection
<1>9. Cardinality(Starts(b)) = Cardinality(Rest)
  BY <1>4, <1>8, FS_Bijection, Zenon
<1> QED
  BY <1>4, <1>9, Zenon DEF b

\* What the lemmas above assume of the calls that are queued.
LEMMA CountingHolds == Counting
<1>1. Starts(<<>>) = {}
  BY DEF Starts
<1>2. Cardinality(Starts(<<>>)) = 0
  BY <1>1, FS_EmptySet, Zenon
<1> QED
  BY <1>2, StartsFinite, AppendCounted, TakeCounted, Zenon DEF Counting

-----------------------------------------------------------------------------
(* The theorems. *)

\* The invariants hold throughout, however often connect, stop, get and post are called
\* and however the connects, the handshakes and the reads turn out.
THEOREM ClientInvariance == Spec => [](ClientInv /\ ExchangeInv /\ ParserInv)
<1>1. Init => ClientInv /\ ExchangeInv /\ ParserInv
  <2> SUFFICES ASSUME Init PROVE ClientInv /\ ExchangeInv /\ ParserInv
    OBVIOUS
  <2>1. ClientInv
    BY CountingHolds, InitClient, Zenon DEF Init
  <2>2. Own(0) = <<>>
    BY DEF Own
  <2>3. ExchangeInv
    <3>1. 0 \in Nat
      OBVIOUS
    <3> QED
      BY <2>2, <3>1, Zenon DEF Init, ExchangeInv, Quiet
  <2>4. ParserInv
    <3>1. PICK setup \in Setups : c = Connector(setup)
      BY Zenon DEF Init, ClientInit
    <3>2. c.failed = "none"
      BY <3>1, Zenon DEF Connector
    <3> QED
      BY <3>2 DEF ParserInv
  <2> QED
    BY <2>1, <2>3, <2>4, Zenon
<1>2. ClientInv /\ ExchangeInv /\ ParserInv /\ [Next]_vars
          => ClientInv' /\ ExchangeInv' /\ ParserInv'
  BY CountingHolds, ClientKeeps, ExchangeKeeps, ParserKeeps, Zenon
<1> QED
  BY <1>1, <1>2, PTL DEF Spec

\* A client has no more going on than it was told to connect: every start, retry timer,
\* connect in progress, handshake and connection goes back to a call of connect of its own,
\* through every retry, restart and reconnect (Connector.cpp:238, TcpClient.cpp:176, 226).
THEOREM SingleAttemptHolds == Spec => []SingleAttempt
<1>1. ClientInv => SingleAttempt
  <2> SUFFICES ASSUME ClientInv PROVE SingleAttempt
    OBVIOUS
  <2> DEFINE u == One(upc = "start")
             q == Cardinality(Starts(queue))
             o == One(\E i \in DOMAIN queue : queue[i] = "startInLoop")
             l == One(lpc # "idle")
             w == One(c.state_ = "Connecting")
             x == One(c.handshake = "on")
             y == One(c.connection_)
             z == One(c.handshake = "failed" /\ c.retry_)
  <2>1. /\ u \in {0, 1} /\ o \in {0, 1} /\ l \in {0, 1} /\ w \in {0, 1} /\ x \in {0, 1}
        /\ y \in {0, 1} /\ z \in {0, 1}
    BY OneNat, Zenon
  <2>2. q \in Nat /\ o <= q
    BY CountingHolds, Zenon DEF ClientInv, Counting
  <2>3. c.timers \in Nat /\ c.reconnects \in Nat /\ connects \in Nat
    BY Zenon DEF ClientInv, Sound
  <2>4. u + q + l + (c.timers + c.reconnects + w + x + y + z) <= connects
    BY Zenon DEF ClientInv, Attempts, Doing
  <2> DEFINE t == c.timers
             r == c.reconnects
  <2> SUFFICES u + o + l + t + r + w + x + y <= connects
    BY Zenon DEF SingleAttempt
  <2> HIDE DEF u, q, o, l, w, x, y, z, t, r
  <2>5. t \in Nat /\ r \in Nat /\ u + q + l + (t + r + w + x + y + z) <= connects
    BY <2>3, <2>4, Zenon DEF t, r
  <2> QED
    BY <2>1, <2>2, <2>3, <2>5
<1> QED
  BY <1>1, ClientInvariance, PTL

\* An http_client tells its TcpClient to connect once, however many requests are made
\* (https_client.cpp:169), so one connection at most carries them.
THEOREM ConnectsOnce == Spec => [](c.is_http => connects <= 1)
<1>1. ClientInv => (c.is_http => connects <= 1)
  <2>1. ClientInv => (c.is_http => connects = One(connect_))
    BY Zenon DEF ClientInv, HttpOnce
  <2>2. One(connect_) <= 1
    BY DEF One
  <2> QED
    BY <2>1, <2>2, Zenon
<1> QED
  BY <1>1, ClientInvariance, PTL

\* While no request is made before the one before it is answered, each callback is given the
\* response to its own request, however the pieces of it arrive (https_client.cpp:124).
THEOREM AnswerIsOwnHolds == Spec => []AnswerIsOwn
<1>1. ExchangeInv => AnswerIsOwn
  <2> SUFFICES ASSUME ExchangeInv, ~overlap, NEW i \in DOMAIN answers
               PROVE  answers[i].got = Response(answers[i].cb)
    BY Zenon DEF AnswerIsOwn
  <2>1. PICK m : answers = Own(m)
    BY Zenon DEF ExchangeInv, Quiet, Pending
  <2>2. answers[i] = [cb |-> i, got |-> Response(i)]
    BY <2>1, Zenon DEF Own
  <2> QED
    BY <2>2
<1> QED
  BY <1>1, ClientInvariance, PTL

\* The parser's error (https_client.cpp:280) is never reached by a client whose requests do
\* not overlap: a reset of the parser never cuts a response.
THEOREM ParserErrorOnlyAfterOverlap == Spec => []ParserInv
BY ClientInvariance, PTL
=============================================================================
