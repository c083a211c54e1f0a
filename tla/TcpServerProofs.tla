-------------------------- MODULE TcpServerProofs --------------------------
(***************************************************************************)
(* Theorems about the server, for any number of loops and connections:     *)
(* until handle_sig_int erases connections of I/O loops, every connection  *)
(* that is not down is in the map, and a connection that is down is        *)
(* either out of it or has one removal on its way, so that the assertion   *)
(* of removeConnectionInLoop holds and no connection is destroyed before   *)
(* it is down.  With or without SIGINT, no removal is lost on its way to   *)
(* the main loop but the ones that found its queue full.                   *)
(***************************************************************************)
EXTENDS TcpServer, TLAPS

States == {"none", "Connecting", "Connected", "Disconnected"}
Up == {"Connected", "Disconnected"}   \* connectEstablished has run
Functors ==
    [f : {"connectEstablished", "removeConnectionInLoop", "forceCloseInLoop"}, c : Conns]

\* The functors in a queue.
In(s) == {s[i] : i \in 1..Len(s)}

\* connectEstablished and removeConnectionInLoop are queued once for each connection.
Once(s) == \A i, j \in 1..Len(s) : s[i] = s[j] /\ s[i].f # "forceCloseInLoop" => i = j

\* A functor is in the queue it belongs in, and finds its connection as it expects it.
Fits(e, l, m, s, lo) ==
    /\ e.f = "connectEstablished" => lo[e.c] = l /\ l # Main /\ s[e.c] = "Connecting"
    /\ e.f = "removeConnectionInLoop" =>
          l = Main /\ lo[e.c] # Main /\ s[e.c] = "Disconnected" /\ e.c \in m
    /\ e.f = "forceCloseInLoop" => lo[e.c] = l /\ s[e.c] \in Up

\* The map m, the states s and the queues q agree, for connections of the loops lo.
Agree(m, s, q, lo) ==
    /\ m \subseteq Conns /\ s \in [Conns -> States] /\ q \in [AllLoops -> Seq(Functors)]
    /\ \A c \in Conns : s[c] \in {"Connecting", "Connected"} => c \in m
    /\ \A c \in m : s[c] # "none"
    /\ \A l \in AllLoops : Once(q[l]) /\ \A e \in In(q[l]) : Fits(e, l, m, s, lo)

\* handle_sig_int has not begun to erase connections of I/O loops.
Clean == ~(signalled /\ loops # <<>>)

Types ==
    /\ loops \in Pools /\ next \in Nat /\ accepted \in Nat
    /\ loopOf \in [Conns -> AllLoops] /\ DOMAIN held = Conns
    /\ DOMAIN active = AllLoops /\ DOMAIN phase = AllLoops

\* Who else knows of a connection has it from connectEstablished.
Known ==
    /\ \A c \in Conns : c > accepted => state[c] = "none"
    /\ \A c \in Conns : held[c] # "none" => state[c] \in Up
    /\ \A l \in AllLoops, c \in Conns :
          Channel("conn", c) \in active[l] => state[c] \in Up /\ loopOf[c] = l

\* What is true of the server until then.
Tracked ==
    /\ Types /\ Known
    /\ Agree(connections_, state, queue, loopOf)
    /\ loops = <<>> => \A c \in Conns : loopOf[c] = Main
    /\ phase[Main] \in {"closing", "erased"} => signalled
    /\ failed # "TcpServer.cpp:100"

\* The inductive invariant.
ServerInv == Clean => Tracked

-----------------------------------------------------------------------------
(* Queues. *)

\* What is left after the first functor is taken.
LEMMA Taken ==
    ASSUME NEW s \in Seq(Functors), s # <<>>, Once(s)
    PROVE  /\ Tail(s) \in Seq(Functors) /\ Once(Tail(s)) /\ In(Tail(s)) \subseteq In(s)
           /\ Head(s) \in In(s) /\ Head(s) \in Functors
           /\ Head(s).f # "forceCloseInLoop" => Head(s) \notin In(Tail(s))
<1> DEFINE t == Tail(s)
           n == Len(s)
<1>1. /\ n \in Nat \ {0} /\ t \in Seq(Functors) /\ Len(t) = n - 1 /\ Head(s) = s[1]
      /\ \A i \in 1..n - 1 : t[i] = s[i + 1]
  OBVIOUS
<1>2. Head(s) \in Functors
  OBVIOUS
<1> HIDE DEF t
<1>3. In(t) \subseteq In(s) /\ s[1] \in In(s)
  BY <1>1 DEF In
<1>4. Once(t)
  BY <1>1 DEF Once
<1>5. s[1].f # "forceCloseInLoop" => s[1] \notin In(t)
  <2> SUFFICES ASSUME s[1].f # "forceCloseInLoop", NEW i \in 1..n - 1, t[i] = s[1] PROVE FALSE
    BY <1>1 DEF In
  <2>1. i + 1 \in 1..n /\ 1 \in 1..n /\ i + 1 # 1 /\ s[i + 1] = s[1]
    BY <1>1
  <2> QED
    BY <2>1, Zenon DEF Once, n
<1> QED
  BY <1>1, <1>2, <1>3, <1>4, <1>5, Zenon DEF t

\* What a functor that is queued adds.
LEMMA Queued ==
    ASSUME NEW s \in Seq(Functors), Once(s), NEW e \in Functors,
           e.f = "forceCloseInLoop" \/ e \notin In(s)
    PROVE  Append(s, e) \in Seq(Functors) /\ Once(Append(s, e)) /\ In(Append(s, e)) = In(s) \cup {e}
<1> DEFINE t == Append(s, e)
           n == Len(s)
<1>1. /\ n \in Nat /\ t \in Seq(Functors) /\ Len(t) = n + 1 /\ t[n + 1] = e
      /\ \A i \in 1..n : t[i] = s[i]
  OBVIOUS
<1> HIDE DEF t
<1>2. In(t) = In(s) \cup {e}
  BY <1>1 DEF In
<1>3. Once(t)
  <2> SUFFICES ASSUME NEW i \in 1..n + 1, NEW j \in 1..n + 1, t[i] = t[j],
                      t[i].f # "forceCloseInLoop"
               PROVE  i = j
    BY <1>1, Zenon DEF Once
  <2>1. \A k \in 1..n + 1 : k = n + 1 \/ k \in 1..n
    BY <1>1
  <2>2. \A k \in 1..n : t[k] = s[k] /\ s[k] \in In(s)
    BY <1>1, Zenon DEF In, n
  <2> QED
    BY <1>1, <2>1, <2>2, Zenon DEF Once, n
<1> QED
  BY <1>1, <1>2, <1>3, Zenon DEF t

-----------------------------------------------------------------------------
(* What the handlers do to the agreement of the map, the states and the queues. *)

\* A functor of another connection still fits.
LEMMA FitsStill ==
    ASSUME NEW e, NEW l, NEW m, NEW s, NEW lo, Fits(e, l, m, s, lo),
           NEW n, NEW t, t[e.c] = s[e.c], e.c \in m => e.c \in n
    PROVE  Fits(e, l, n, t, lo)
BY Zenon DEF Fits

\* The loop takes a functor: it fits, and no other for the same connection is queued
\* anywhere, unless it is a forceCloseInLoop.
LEMMA TakeAgrees ==
    ASSUME NEW m, NEW s, NEW q, NEW lo, Agree(m, s, q, lo),
           NEW l \in AllLoops, q[l] # <<>>
    PROVE  LET e == Head(q[l])
               r == [q EXCEPT ![l] = Tail(q[l])]
           IN  /\ Agree(m, s, r, lo) /\ e \in Functors /\ Fits(e, l, m, s, lo)
               /\ e.f # "forceCloseInLoop" => \A k \in AllLoops : e \notin In(r[k])
<1> DEFINE e == Head(q[l])
           r == [q EXCEPT ![l] = Tail(q[l])]
<1>1. q \in [AllLoops -> Seq(Functors)] /\ q[l] \in Seq(Functors) /\ Once(q[l])
  BY Zenon DEF Agree
<1>2. /\ Tail(q[l]) \in Seq(Functors) /\ Once(Tail(q[l])) /\ In(Tail(q[l])) \subseteq In(q[l])
      /\ e \in In(q[l]) /\ e \in Functors
      /\ e.f # "forceCloseInLoop" => e \notin In(Tail(q[l]))
  BY <1>1, Taken, Zenon
<1>3. r \in [AllLoops -> Seq(Functors)] /\ r[l] = Tail(q[l])
      /\ \A k \in AllLoops : k # l => r[k] = q[k]
  BY <1>1, <1>2, Zenon
<1>4. Fits(e, l, m, s, lo)
  BY <1>2, Zenon DEF Agree
<1> HIDE DEF r, e
<1>5. \A k \in AllLoops : Once(r[k]) /\ In(r[k]) \subseteq In(q[k])
  BY <1>2, <1>3, Zenon DEF Agree
<1>6. Agree(m, s, r, lo)
  BY <1>3, <1>5, Zenon DEF Agree
<1>7. ASSUME e.f # "forceCloseInLoop", NEW k \in AllLoops, e \in In(r[k]) PROVE FALSE
  <2>1. k # l
    BY <1>2, <1>3, <1>7, Zenon
  <2>2. Fits(e, k, m, s, lo)
    BY <1>6, <1>7, Zenon DEF Agree
  <2>3. e.f \in {"connectEstablished", "removeConnectionInLoop", "forceCloseInLoop"}
    BY <1>2, Zenon DEF Functors
  <2> QED
    BY <1>4, <1>7, <2>1, <2>2, <2>3, Zenon DEF Fits
<1> QED
  BY <1>2, <1>4, <1>6, <1>7, Zenon DEF e, r

\* A functor that fits is queued.
LEMMA QueueAgrees ==
    ASSUME NEW m, NEW s, NEW q, NEW lo, Agree(m, s, q, lo), NEW l \in AllLoops,
           NEW e \in Functors, Fits(e, l, m, s, lo),
           e.f = "forceCloseInLoop" \/ e \notin In(q[l])
    PROVE  Agree(m, s, [q EXCEPT ![l] = Append(q[l], e)], lo)
<1> DEFINE r == [q EXCEPT ![l] = Append(q[l], e)]
<1>1. q \in [AllLoops -> Seq(Functors)] /\ q[l] \in Seq(Functors) /\ Once(q[l])
  BY Zenon DEF Agree
<1>2. /\ Append(q[l], e) \in Seq(Functors) /\ Once(Append(q[l], e))
      /\ In(Append(q[l], e)) = In(q[l]) \cup {e}
  BY <1>1, Queued, Zenon
<1>3. /\ r \in [AllLoops -> Seq(Functors)] /\ r[l] = Append(q[l], e)
      /\ \A k \in AllLoops : k # l => r[k] = q[k]
  BY <1>1, <1>2, Zenon
<1> HIDE DEF r
<1>4. \A k \in AllLoops : Once(r[k]) /\ \A d \in In(r[k]) : Fits(d, k, m, s, lo)
  BY <1>2, <1>3, Zenon DEF Agree
<1>5. Agree(m, s, r, lo)
  BY <1>3, <1>4, Zenon DEF Agree
<1> QED
  BY <1>5, Zenon DEF r

\* A connection that is not down goes down in the thread of the main loop, which erases it,
LEMMA DownInMain ==
    ASSUME NEW m, NEW s, NEW q, NEW lo, Agree(m, s, q, lo), NEW c \in Conns, lo[c] = Main
    PROVE  Agree(m \ {c}, [s EXCEPT ![c] = "Disconnected"], q, lo)
<1> DEFINE t == [s EXCEPT ![c] = "Disconnected"]
           n == m \ {c}
<1>1. s \in [Conns -> States] /\ m \subseteq Conns
  BY Zenon DEF Agree
<1>2. /\ t \in [Conns -> States] /\ t[c] = "Disconnected"
      /\ \A d \in Conns : d # c => t[d] = s[d]
  <2>1. "Disconnected" \in States
    BY Zenon DEF States
  <2> QED
    BY <1>1, <2>1, Zenon
<1> HIDE DEF t
<1>3. ASSUME NEW l \in AllLoops, NEW e \in In(q[l]) PROVE Fits(e, l, n, t, lo)
  <2>1. Fits(e, l, m, s, lo) /\ q[l] \in Seq(Functors)
    BY <1>3, Zenon DEF Agree
  <2>2. e \in Functors
    BY <1>3, <2>1 DEF In
  <2>3. e.c \in Conns
    BY <2>2, Zenon DEF Functors
  <2>4. CASE e.c = c
    BY <1>2, <2>1, <2>4, Zenon DEF Fits, Up
  <2>5. CASE e.c # c
    BY <1>2, <2>1, <2>3, <2>5, FitsStill, Zenon
  <2> QED
    BY <2>4, <2>5, Zenon
<1> QED
  BY <1>1, <1>2, <1>3, Zenon DEF Agree

\* or in the thread of another loop, which asks the main loop to erase it: its queue takes
\* the functor, or is full.
LEMMA DownElsewhere ==
    ASSUME NEW m, NEW s, NEW q, NEW lo, Agree(m, s, q, lo), NEW c \in Conns,
           lo[c] # Main, s[c] = "Connected"
    PROVE  LET t == [s EXCEPT ![c] = "Disconnected"]
               r == [q EXCEPT ![Main] = Append(q[Main], Functor("removeConnectionInLoop", c))]
           IN  Agree(m, t, q, lo) /\ Agree(m, t, r, lo)
<1> DEFINE t == [s EXCEPT ![c] = "Disconnected"]
           e == Functor("removeConnectionInLoop", c)
           r == [q EXCEPT ![Main] = Append(q[Main], e)]
<1>1. /\ s \in [Conns -> States] /\ m \subseteq Conns /\ q \in [AllLoops -> Seq(Functors)]
      /\ Main \in AllLoops
  BY Zenon DEF Agree, AllLoops
<1>2. /\ t \in [Conns -> States] /\ t[c] = "Disconnected"
      /\ \A d \in Conns : d # c => t[d] = s[d]
  <2>1. "Disconnected" \in States
    BY Zenon DEF States
  <2> QED
    BY <1>1, <2>1, Zenon
<1>3. e \in Functors /\ e.f = "removeConnectionInLoop" /\ e.c = c
  BY DEF Functor, Functors
<1>4. c \in m
  BY Zenon DEF Agree
<1>5. \A l \in AllLoops : e \notin In(q[l])
  <2> SUFFICES ASSUME NEW l \in AllLoops, e \in In(q[l]) PROVE FALSE
    OBVIOUS
  <2>1. Fits(e, l, m, s, lo)
    BY Zenon DEF Agree
  <2>2. s[c] = "Disconnected"
    BY <1>3, <2>1, Zenon DEF Fits
  <2> QED
    BY <2>2
<1> HIDE DEF t, e
<1>6. ASSUME NEW l \in AllLoops, NEW d \in In(q[l]) PROVE Fits(d, l, m, t, lo)
  <2>1. Fits(d, l, m, s, lo) /\ q[l] \in Seq(Functors)
    BY <1>6, Zenon DEF Agree
  <2>2. d \in Functors
    BY <1>6, <2>1 DEF In
  <2>3. d.c \in Conns
    BY <2>2, Zenon DEF Functors
  <2>4. CASE d.c = c
    <3>1. "Connected" # "Connecting" /\ "Connected" # "Disconnected"
      OBVIOUS
    <3> QED
      BY <1>2, <2>1, <2>4, <3>1, Zenon DEF Fits, Up
  <2>5. CASE d.c # c
    BY <1>2, <2>1, <2>3, <2>5, FitsStill, Zenon
  <2> QED
    BY <2>4, <2>5, Zenon
<1>7. \A d \in Conns : t[d] \in {"Connecting", "Connected"} => d \in m
  BY <1>2, <1>4, Zenon DEF Agree
<1>8. \A d \in m : t[d] # "none"
  <2>1. "Disconnected" # "none"
    OBVIOUS
  <2> QED
    BY <1>1, <1>2, <2>1, Zenon DEF Agree
<1>9. Agree(m, t, q, lo)
  BY <1>1, <1>2, <1>6, <1>7, <1>8, Zenon DEF Agree
<1>10. Fits(e, Main, m, t, lo)
  <2>1. e.f # "connectEstablished" /\ e.f # "forceCloseInLoop"
    BY <1>3
  <2> QED
    BY <1>2, <1>3, <1>4, <2>1, Zenon DEF Fits
<1>11. Agree(m, t, r, lo)
  BY <1>1, <1>3, <1>5, <1>9, <1>10, QueueAgrees, Zenon
<1> QED
  BY <1>9, <1>11, Zenon DEF t, e

\* The main loop erases a connection that is down, when no other removal is queued.
LEMMA EraseAgrees ==
    ASSUME NEW m, NEW s, NEW q, NEW lo, Agree(m, s, q, lo), NEW c \in Conns,
           s[c] = "Disconnected",
           \A l \in AllLoops : Functor("removeConnectionInLoop", c) \notin In(q[l])
    PROVE  Agree(m \ {c}, s, q, lo)
<1>1. ASSUME NEW l \in AllLoops, NEW e \in In(q[l]) PROVE Fits(e, l, m \ {c}, s, lo)
  <2>1. Fits(e, l, m, s, lo) /\ q[l] \in Seq(Functors)
    BY <1>1, Zenon DEF Agree
  <2>2. e \in Functors
    BY <1>1, <2>1 DEF In
  <2>3. CASE e.c = c /\ e.f = "removeConnectionInLoop"
    <3>1. e = Functor("removeConnectionInLoop", c)
      BY <2>2, <2>3 DEF Functors, Functor
    <3> QED
      BY <1>1, <3>1, Zenon
  <2>4. CASE e.c # c \/ e.f # "removeConnectionInLoop"
    BY <2>1, <2>4, Zenon DEF Fits
  <2> QED
    BY <2>3, <2>4, Zenon
<1>2. "Disconnected" \notin {"Connecting", "Connected"}
  OBVIOUS
<1> QED
  BY <1>1, <1>2, Zenon DEF Agree

\* connectEstablished, when it is queued no more.
LEMMA UpAgrees ==
    ASSUME NEW m, NEW s, NEW q, NEW lo, Agree(m, s, q, lo), NEW c \in Conns,
           s[c] = "Connecting",
           \A l \in AllLoops : Functor("connectEstablished", c) \notin In(q[l])
    PROVE  Agree(m, [s EXCEPT ![c] = "Connected"], q, lo)
<1> DEFINE t == [s EXCEPT ![c] = "Connected"]
<1>1. s \in [Conns -> States] /\ m \subseteq Conns /\ c \in m
  BY Zenon DEF Agree
<1>2. /\ t \in [Conns -> States] /\ t[c] = "Connected"
      /\ \A d \in Conns : d # c => t[d] = s[d]
  <2>1. "Connected" \in States
    BY Zenon DEF States
  <2> QED
    BY <1>1, <2>1, Zenon
<1> HIDE DEF t
<1>3. ASSUME NEW l \in AllLoops, NEW e \in In(q[l]) PROVE Fits(e, l, m, t, lo)
  <2>1. Fits(e, l, m, s, lo) /\ q[l] \in Seq(Functors)
    BY <1>3, Zenon DEF Agree
  <2>2. e \in Functors
    BY <1>3, <2>1 DEF In
  <2>3. e.c \in Conns
    BY <2>2, Zenon DEF Functors
  <2>4. CASE e.c = c
    <3>1. e.f = "connectEstablished" => e = Functor("connectEstablished", c)
      BY <2>2, <2>4 DEF Functors, Functor
    <3>2. s[e.c] \notin Up /\ s[e.c] # "Disconnected"
      BY <2>4 DEF Up
    <3> QED
      BY <1>3, <2>1, <3>1, <3>2, Zenon DEF Fits
  <2>5. CASE e.c # c
    BY <1>2, <2>1, <2>3, <2>5, FitsStill, Zenon
  <2> QED
    BY <2>4, <2>5, Zenon
<1>4. \A d \in Conns : t[d] \in {"Connecting", "Connected"} => d \in m
  BY <1>1, <1>2, Zenon DEF Agree
<1>5. \A d \in m : t[d] # "none"
  <2>1. "Connected" # "none"
    OBVIOUS
  <2> QED
    BY <1>1, <1>2, <2>1, Zenon DEF Agree
<1>6. Agree(m, t, q, lo)
  BY <1>2, <1>3, <1>4, <1>5, Zenon DEF Agree
<1> QED
  BY <1>6, Zenon DEF t

\* A connection that is accepted: nothing is queued for it yet.
LEMMA NewAgrees ==
    ASSUME NEW m, NEW s, NEW q, NEW lo, Agree(m, s, q, lo), lo \in [Conns -> AllLoops],
           NEW c \in Conns, s[c] = "none", NEW l \in AllLoops
    PROVE  /\ Agree(m \cup {c}, [s EXCEPT ![c] = "Connecting"], q, [lo EXCEPT ![c] = l])
           /\ \A k \in AllLoops : \A e \in In(q[k]) : e.c # c
<1> DEFINE t == [s EXCEPT ![c] = "Connecting"]
           n == m \cup {c}
           lp == [lo EXCEPT ![c] = l]
<1>1. s \in [Conns -> States] /\ m \subseteq Conns
  BY Zenon DEF Agree
<1>2. /\ t \in [Conns -> States] /\ t[c] = "Connecting"
      /\ \A d \in Conns : d # c => t[d] = s[d] /\ lp[d] = lo[d]
  <2>1. "Connecting" \in States
    BY Zenon DEF States
  <2> QED
    BY <1>1, <2>1, Zenon
<1>3. ASSUME NEW k \in AllLoops, NEW e \in In(q[k])
      PROVE  e.c # c /\ e.c \in Conns /\ Fits(e, k, m, s, lo)
  <2>1. Fits(e, k, m, s, lo) /\ q[k] \in Seq(Functors)
    BY <1>3, Zenon DEF Agree
  <2>2. e \in Functors
    BY <1>3, <2>1 DEF In
  <2>3. e.c \in Conns /\ e.f \in {"connectEstablished", "removeConnectionInLoop", "forceCloseInLoop"}
    BY <2>2, Zenon DEF Functors
  <2>4. s[e.c] \in {"Connecting", "Connected", "Disconnected"}
    BY <2>1, <2>3, Zenon DEF Fits, Up
  <2>5. s[e.c] # "none"
    BY <2>4
  <2> QED
    BY <2>1, <2>3, <2>5, Zenon
<1> HIDE DEF t, lp
<1>4. ASSUME NEW k \in AllLoops, NEW e \in In(q[k]) PROVE Fits(e, k, n, t, lp)
  <2>1. e.c # c /\ e.c \in Conns /\ Fits(e, k, m, s, lo)
    BY <1>3, <1>4, Zenon
  <2>2. t[e.c] = s[e.c] /\ lp[e.c] = lo[e.c] /\ (e.c \in m => e.c \in n)
    BY <1>2, <2>1, Zenon
  <2> QED
    BY <2>1, <2>2, Zenon DEF Fits
<1>5. \A d \in Conns : t[d] \in {"Connecting", "Connected"} => d \in n
  BY <1>1, <1>2, Zenon DEF Agree
<1>6. \A d \in n : t[d] # "none"
  <2>1. "Connecting" # "none"
    OBVIOUS
  <2> QED
    BY <1>1, <1>2, <2>1, Zenon DEF Agree
<1>7. n \subseteq Conns
  BY <1>1, Zenon
<1> HIDE DEF n
<1>8. Agree(n, t, q, lp)
  BY <1>2, <1>4, <1>5, <1>6, <1>7, Zenon DEF Agree
<1> QED
  BY <1>3, <1>8, Zenon DEF t, n, lp

-----------------------------------------------------------------------------
(* The calls that thread a record through. *)

\* A record whose parts agree.
WorldOk(w, lo) ==
    /\ DOMAIN w = {"map", "st", "q", "bad", "room", "lost"}
    /\ Agree(w.map, w.st, w.q, lo) /\ w.bad # "TcpServer.cpp:100"

\* A record of all its parts.
Whole(w) == DOMAIN w = {"map", "st", "q", "bad", "room", "lost"} /\ Main \in DOMAIN w.q

\* Only the connection c changes, and connectEstablished has run for it.
Moves(v, w, c) == v.st[c] \in Up /\ \A d \in Conns : d # c => v.st[d] = w.st[d]

\* The queue of l takes f, or is full and f is lost.
Pushed(v, w, l, f) ==
    \/ v.q = [w.q EXCEPT ![l] = Append(w.q[l], f)] /\ v.lost = w.lost
    \/ v.q = w.q /\ v.lost = w.lost \cup {f}

\* The main loop erases c, and any other loop asks it to.
Removes(v, w, c, l) ==
    /\ DOMAIN v = DOMAIN w /\ v.st = w.st
    /\ l = Main => /\ v.map = w.map \ {c} /\ v.q = w.q /\ v.lost = w.lost
                   /\ c \in w.map => v.bad = w.bad
    /\ l # Main => /\ v.map = w.map /\ v.bad = w.bad
                   /\ Pushed(v, w, Main, Functor("removeConnectionInLoop", c))

\* queueInLoop changes nothing but the queue, or the functors that are lost.
LEMMA QueueDoes ==
    ASSUME NEW w, DOMAIN w = {"map", "st", "q", "bad", "room", "lost"}, NEW l, NEW f
    PROVE  LET v == queueInLoop(w, l, f)
           IN  /\ DOMAIN v = DOMAIN w /\ v.map = w.map /\ v.st = w.st /\ v.bad = w.bad
               /\ Pushed(v, w, l, f)
<1> DEFINE v == queueInLoop(w, l, f)
<1>1. CASE w.room
  <2>1. v = [w EXCEPT !.q[l] = Append(@, f)]
    BY <1>1, Zenon DEF queueInLoop
  <2> HIDE DEF v
  <2>2. /\ DOMAIN v = DOMAIN w /\ v.map = w.map /\ v.st = w.st /\ v.bad = w.bad
        /\ v.q = [w.q EXCEPT ![l] = Append(w.q[l], f)] /\ v.lost = w.lost
    BY <2>1, Zenon
  <2> QED
    BY <2>2, Zenon DEF Pushed, v
<1>2. CASE ~w.room
  <2>1. v = [w EXCEPT !.lost = @ \cup {f}]
    BY <1>2, Zenon DEF queueInLoop
  <2> HIDE DEF v
  <2>2. /\ DOMAIN v = DOMAIN w /\ v.map = w.map /\ v.st = w.st /\ v.bad = w.bad
        /\ v.q = w.q /\ v.lost = w.lost \cup {f}
    BY <2>1, Zenon
  <2> QED
    BY <2>2, Zenon DEF Pushed, v
<1> QED
  BY <1>1, <1>2, Zenon

\* removeConnection, which is called for a connection that has just gone down.
LEMMA RemoveDoes ==
    ASSUME NEW w, Whole(w), NEW c, NEW l
    PROVE  Removes(removeConnection(w, c, l), w, c, l)
<1> DEFINE v == removeConnection(w, c, l)
<1>1. CASE l = Main
  <2>1. v = [w EXCEPT !.map = @ \ {c}, !.bad = IF c \in w.map THEN @ ELSE "TcpServer.cpp:100"]
    BY <1>1, Zenon DEF removeConnection, removeConnectionInLoop
  <2> HIDE DEF v
  <2>2. /\ DOMAIN v = DOMAIN w /\ v.st = w.st /\ v.map = w.map \ {c} /\ v.q = w.q
        /\ v.lost = w.lost /\ (c \in w.map => v.bad = w.bad)
    BY <2>1, Zenon DEF Whole
  <2> QED
    BY <1>1, <2>2, Zenon DEF v, Removes
<1>2. CASE l # Main
  <2>1. v = queueInLoop(w, Main, Functor("removeConnectionInLoop", c))
    BY <1>2, Zenon DEF removeConnection
  <2> HIDE DEF v
  <2>2. /\ DOMAIN v = DOMAIN w /\ v.st = w.st /\ v.map = w.map /\ v.bad = w.bad
        /\ Pushed(v, w, Main, Functor("removeConnectionInLoop", c))
    BY <2>1, QueueDoes, Zenon DEF Whole
  <2> QED
    BY <1>2, <2>2, Zenon DEF v, Removes
<1> QED
  BY <1>1, <1>2, Zenon

\* handle_ep_hup, in the connection's loop.
LEMMA HupOk ==
    ASSUME NEW w, NEW lo, WorldOk(w, lo), NEW c \in Conns, NEW l \in AllLoops, lo[c] = l,
           w.st[c] \in Up \/ (l = Main /\ c \in w.map)
    PROVE  LET v == handle_ep_hup(w, c, l)
           IN  WorldOk(v, lo) /\ v.st[c] = "Disconnected" /\ Moves(v, w, c)
<1> DEFINE v == handle_ep_hup(w, c, l)
           t == [w.st EXCEPT ![c] = "Disconnected"]
           u == [w EXCEPT !.st[c] = "Disconnected"]
           r == [w.q EXCEPT ![Main] = Append(w.q[Main], Functor("removeConnectionInLoop", c))]
<1>1. /\ Agree(w.map, w.st, w.q, lo) /\ w.bad # "TcpServer.cpp:100" /\ w.st \in [Conns -> States]
      /\ DOMAIN w = {"map", "st", "q", "bad", "room", "lost"} /\ Main \in DOMAIN w.q
  BY Zenon DEF WorldOk, Agree, AllLoops
<1>2. CASE w.st[c] = "Disconnected"
  <2>1. v = w
    BY <1>2, Zenon DEF handle_ep_hup
  <2> HIDE DEF v
  <2>2. WorldOk(v, lo) /\ v.st[c] = "Disconnected" /\ Moves(v, w, c)
    BY <1>2, <2>1, Zenon DEF Moves, Up
  <2> QED
    BY <2>2, Zenon DEF v
<1>3. CASE w.st[c] # "Disconnected"
  <2>1. v = removeConnection(u, c, l)
    BY <1>3, Zenon DEF handle_ep_hup
  <2>2. /\ DOMAIN u = {"map", "st", "q", "bad", "room", "lost"} /\ u.st = t /\ u.map = w.map
        /\ u.q = w.q
        /\ u.bad = w.bad
    BY <1>1, Zenon
  <2>3. t[c] = "Disconnected" /\ \A d \in Conns : d # c => t[d] = w.st[d]
    BY <1>1, Zenon
  <2> HIDE DEF u
  <2>4. /\ DOMAIN v = {"map", "st", "q", "bad", "room", "lost"} /\ v.st = t
        /\ l = Main =>
              /\ v.map = w.map \ {c} /\ v.q = w.q
              /\ c \in w.map => v.bad = w.bad
        /\ l # Main =>
              /\ v.map = w.map /\ v.bad = w.bad
              /\ v.q = w.q \/ v.q = r
    <3>1. Whole(u)
      BY <1>1, <2>2, Zenon DEF Whole
    <3>2. Removes(v, u, c, l)
      BY <2>1, <3>1, RemoveDoes, Zenon
    <3> HIDE DEF v
    <3> QED
      BY <2>2, <3>2, Zenon DEF Removes, Pushed
  <2> HIDE DEF v
  <2>5. w.st[c] = "Connected" => c \in w.map
    BY <1>1, Zenon DEF Agree
  <2>6. l = Main => c \in w.map
    BY <1>3, <2>5, Zenon DEF Up
  <2>7. l # Main => w.st[c] = "Connected"
    BY <1>3, Zenon DEF Up
  <2>8. Agree(v.map, v.st, v.q, lo) /\ v.bad = w.bad
    <3>1. CASE l = Main
      <4>1. Agree(w.map \ {c}, t, w.q, lo)
        BY <1>1, <3>1, DownInMain, Zenon
      <4> HIDE DEF t
      <4> QED
        BY <2>4, <2>6, <3>1, <4>1, Zenon
    <3>2. CASE l # Main
      <4>1. Agree(w.map, t, w.q, lo) /\ Agree(w.map, t, r, lo)
        BY <1>1, <2>7, <3>2, DownElsewhere, Zenon
      <4> HIDE DEF t, r
      <4> QED
        BY <2>4, <3>2, <4>1, Zenon
    <3> QED
      BY <3>1, <3>2, Zenon
  <2> HIDE DEF t
  <2>9. WorldOk(v, lo) /\ v.st[c] = "Disconnected" /\ Moves(v, w, c)
    BY <1>1, <2>3, <2>4, <2>8, Zenon DEF WorldOk, Moves, Up
  <2> QED
    BY <2>9, Zenon DEF v
<1> QED
  BY <1>2, <1>3, Zenon

\* connectEstablished, whatever its callback does.
LEMMA EstablishedOk ==
    ASSUME NEW w, NEW lo, WorldOk(w, lo), NEW c \in Conns, NEW l \in AllLoops, lo[c] = l,
           w.st[c] = "Connecting",
           \A k \in AllLoops : Functor("connectEstablished", c) \notin In(w.q[k]),
           NEW v \in connectEstablished(w, c, l)
    PROVE  WorldOk(v, lo) /\ Moves(v, w, c)
<1> DEFINE u == [w EXCEPT !.st[c] = "Connected"]
           t == [w.st EXCEPT ![c] = "Connected"]
<1>1. /\ Agree(w.map, w.st, w.q, lo) /\ w.bad # "TcpServer.cpp:100" /\ w.st \in [Conns -> States]
      /\ DOMAIN w = {"map", "st", "q", "bad", "room", "lost"}
  BY Zenon DEF WorldOk, Agree
<1>2. v = u \/ v = handle_ep_hup(u, c, l)
  BY Zenon DEF connectEstablished
<1>3. /\ DOMAIN u = {"map", "st", "q", "bad", "room", "lost"} /\ u.st = t /\ u.map = w.map
      /\ u.q = w.q
      /\ u.bad = w.bad
  BY <1>1, Zenon
<1>4. t[c] = "Connected" /\ \A d \in Conns : d # c => t[d] = w.st[d]
  BY <1>1, Zenon
<1>5. Agree(w.map, t, w.q, lo)
  BY <1>1, UpAgrees, Zenon
<1> HIDE DEF u, t
<1>6. WorldOk(u, lo) /\ Moves(u, w, c) /\ u.st[c] \in Up
  BY <1>1, <1>3, <1>4, <1>5, Zenon DEF WorldOk, Moves, Up
<1>7. CASE v = handle_ep_hup(u, c, l)
  <2>1. WorldOk(v, lo) /\ Moves(v, u, c)
    BY <1>6, <1>7, HupOk, Zenon
  <2> QED
    BY <1>6, <2>1, Zenon DEF Moves
<1> QED
  BY <1>2, <1>6, <1>7, Zenon

-----------------------------------------------------------------------------
(* The steps. *)

\* Init.
LEMMA InitTracked ==
    ASSUME Init
    PROVE  Tracked
<1>1. Main \in AllLoops
  BY Zenon DEF AllLoops
<1>2. /\ loops \in Pools /\ next = 0 /\ accepted = 0 /\ connections_ = {}
      /\ failed = "none" /\ phase = [l \in AllLoops |-> "poll"]
      /\ held = [c \in Conns |-> "none"] /\ state = [c \in Conns |-> "none"]
      /\ loopOf = [c \in Conns |-> Main] /\ active = [l \in AllLoops |-> {}]
      /\ queue = [l \in AllLoops |-> <<>>]
  BY Zenon DEF Init
<1>3. /\ failed # "TcpServer.cpp:100"
      /\ "poll" \notin {"closing", "erased"} /\ "none" \notin {"Connecting", "Connected"}
  BY <1>2
<1>4. Types
  <2>1. 0 \in Nat
    OBVIOUS
  <2> QED
    BY <1>1, <1>2, <2>1, Zenon DEF Types
<1>5. Known
  BY <1>2, Zenon DEF Known
<1>6. <<>> \in Seq(Functors) /\ Once(<<>>) /\ In(<<>>) = {}
  BY DEF Once, In
<1>7. Agree(connections_, state, queue, loopOf)
  <2>1. "none" \in States
    BY Zenon DEF States
  <2> QED
    BY <1>2, <1>3, <1>6, <2>1, Zenon DEF Agree
<1> QED
  BY <1>1, <1>2, <1>3, <1>4, <1>5, <1>7, Zenon DEF Tracked

\* Steps that leave the connections alone.
LEMMA QuietKeeps ==
    ASSUME Tracked,
           UNCHANGED <<loops, next, connections_, accepted, state, loopOf, held, queue>>,
           failed' # "TcpServer.cpp:100", DOMAIN active' = AllLoops, DOMAIN phase' = AllLoops,
           \A l \in AllLoops, c \in Conns :
               Channel("conn", c) \in active'[l] =>
                   Channel("conn", c) \in active[l] \/ (state[c] = "Connected" /\ loopOf[c] = l),
           phase'[Main] \in {"closing", "erased"} => signalled'
    PROVE  Tracked'
<1>1. Types' /\ Agree(connections_, state, queue, loopOf)'
  BY Zenon DEF Tracked, Types
<1>2. Known'
  BY Zenon DEF Tracked, Known, Up
<1> QED
  BY <1>1, <1>2, Zenon DEF Tracked

\* Starting, polling, and moving from one phase of a loop to the next.
LEMMA PhasesKeep ==
    ASSUME Tracked, Clean',
           \/ Start \/ HandleRead \/ AcceptDone \/ HandleSigInt \/ SigIntDone
           \/ \E l \in AllLoops : Poll(l) \/ EventsDone(l) \/ Drained(l)
    PROVE  Tracked'
<1>1. /\ Types /\ failed # "TcpServer.cpp:100" /\ DOMAIN active = AllLoops
      /\ DOMAIN phase = AllLoops
      /\ phase[Main] \in {"closing", "erased"} => signalled
  BY Zenon DEF Tracked, Types
<1>2. Main \in AllLoops
  BY Zenon DEF AllLoops
<1>3. /\ "events" \notin {"closing", "erased"} /\ "accept" \notin {"closing", "erased"}
      /\ "drain" \notin {"closing", "erased"} /\ "done" \notin {"closing", "erased"}
      /\ "poll" \notin {"closing", "erased"} /\ "EventloopThreadPool.cpp:17" # "TcpServer.cpp:100"
  OBVIOUS
<1>4. CASE Start
  <2>1. /\ UNCHANGED <<loops, next, connections_, accepted, state, loopOf, held, queue>>
        /\ UNCHANGED <<phase, active, signalled>>
        /\ failed' = failed \/ failed' = "EventloopThreadPool.cpp:17"
    BY <1>4, Zenon DEF Start, poller
  <2> QED
    BY <1>1, <1>3, <2>1, QuietKeeps, Zenon
<1>5. CASE HandleRead \/ HandleSigInt
  <2>1. /\ UNCHANGED <<loops, next, connections_, accepted, state, loopOf, held, queue, failed>>
        /\ \E ch : active' = [active EXCEPT ![Main] = @ \ {ch}]
        /\ \/ phase' = [phase EXCEPT ![Main] = "accept"]
           \/ signalled' = TRUE /\ phase' = [phase EXCEPT ![Main] = "closing"]
    BY <1>5, Zenon DEF HandleRead, HandleSigInt, server
  <2>2. DOMAIN active' = AllLoops /\ \A l \in AllLoops : active'[l] \subseteq active[l]
    BY <1>1, <2>1, Zenon
  <2>3. DOMAIN phase' = AllLoops /\ (phase'[Main] \in {"closing", "erased"} => signalled')
    BY <1>1, <1>2, <1>3, <2>1, Zenon
  <2> QED
    BY <1>1, <2>1, <2>2, <2>3, QuietKeeps, Zenon
<1>6. CASE AcceptDone \/ SigIntDone
  <2>1. /\ UNCHANGED <<loops, next, connections_, accepted, state, loopOf, held, queue, failed>>
        /\ active' = active /\ phase' = [phase EXCEPT ![Main] = "events"]
    BY <1>6, Zenon DEF AcceptDone, SigIntDone, server
  <2>2. DOMAIN phase' = AllLoops /\ phase'[Main] \notin {"closing", "erased"}
    BY <1>1, <1>2, <1>3, <2>1, Zenon
  <2> QED
    BY <1>1, <2>1, <2>2, QuietKeeps, Zenon
<1>7. ASSUME NEW l \in AllLoops, EventsDone(l) \/ Drained(l) PROVE Tracked'
  <2>1. /\ UNCHANGED <<loops, next, connections_, accepted, state, loopOf, held, queue, failed>>
        /\ UNCHANGED <<active, signalled>>
        /\ \E p \in {"drain", "done", "poll"} : phase' = [phase EXCEPT ![l] = p]
    BY <1>7, Zenon DEF EventsDone, Drained, server
  <2>2. DOMAIN phase' = AllLoops /\ (phase'[Main] \in {"closing", "erased"} => signalled')
    <3>1. PICK p \in {"drain", "done", "poll"} : phase' = [phase EXCEPT ![l] = p]
      BY <2>1, Zenon
    <3>2. p \notin {"closing", "erased"}
      BY <1>3, Zenon
    <3> QED
      BY <1>1, <1>2, <2>1, <3>1, <3>2, Zenon
  <2> QED
    BY <1>1, <2>1, <2>2, QuietKeeps, Zenon
<1>8. ASSUME NEW l \in AllLoops, Poll(l) PROVE Tracked'
  <2>1. PICK ready \in SUBSET Ready(l) : active' = [active EXCEPT ![l] = ready]
    BY <1>8, Zenon DEF Poll
  <2>2. /\ UNCHANGED <<loops, next, connections_, accepted, state, loopOf, held, queue, failed>>
        /\ UNCHANGED signalled /\ phase' = [phase EXCEPT ![l] = "events"]
    BY <1>8, Zenon DEF Poll, server
  <2>3. DOMAIN phase' = AllLoops /\ (phase'[Main] \in {"closing", "erased"} => signalled')
    BY <1>1, <1>2, <1>3, <2>2, Zenon
  <2>4. ASSUME NEW c \in Conns, Channel("conn", c) \in Ready(l)
        PROVE  state[c] = "Connected" /\ loopOf[c] = l
    <3>1. \A d : Channel("conn", c) # Channel("accept", d) /\ Channel("conn", c) # Channel("signal", d)
      BY DEF Channel
    <3>2. PICK d \in Conns : state[d] = "Connected" /\ loopOf[d] = l /\ Channel("conn", c) = Channel("conn", d)
      BY <2>4, <3>1, Zenon DEF Ready
    <3>3. c = d
      BY <3>2 DEF Channel
    <3> QED
      BY <3>2, <3>3, Zenon
  <2>5. DOMAIN active' = AllLoops /\ active'[l] \subseteq Ready(l)
        /\ \A k \in AllLoops : k # l => active'[k] = active[k]
    BY <1>1, <2>1, Zenon
  <2>6. \A k \in AllLoops, c \in Conns :
            Channel("conn", c) \in active'[k] =>
                Channel("conn", c) \in active[k] \/ (state[c] = "Connected" /\ loopOf[c] = k)
    BY <2>4, <2>5, Zenon
  <2> QED
    BY <1>1, <2>2, <2>3, <2>5, <2>6, QuietKeeps, Zenon
<1> QED
  BY <1>4, <1>5, <1>6, <1>7, <1>8, Zenon

\* The parts of the record that the handlers start from.
LEMMA WorldParts ==
    ASSUME Tracked, NEW room
    PROVE  /\ WorldOk(World(room), loopOf) /\ World(room).map = connections_
           /\ World(room).st = state
           /\ World(room).q = queue /\ World(room).bad = failed
<1>1. /\ DOMAIN World(room) = {"map", "st", "q", "bad", "room", "lost"}
      /\ World(room).map = connections_ /\ World(room).st = state
      /\ World(room).q = queue /\ World(room).bad = failed
  BY DEF World
<1> QED
  BY <1>1, Zenon DEF WorldOk, Tracked

\* A handler has run for the connection c.
LEMMA HandlerKeeps ==
    ASSUME Tracked, NEW v, WorldOk(v, loopOf), Becomes(v), NEW c \in Conns, state[c] # "none",
           v.st[c] = state[c] \/ v.st[c] \in Up,
           \A d \in Conns : d # c => v.st[d] = state[d],
           UNCHANGED <<loops, next, accepted, loopOf, held, signalled>>,
           DOMAIN active' = AllLoops, \A l \in AllLoops : active'[l] \subseteq active[l],
           DOMAIN phase' = AllLoops, phase'[Main] \in {"closing", "erased"} => signalled
    PROVE  Tracked'
<1>1. connections_' = v.map /\ state' = v.st /\ queue' = v.q /\ failed' = v.bad
  BY Zenon DEF Becomes
<1>2. Agree(connections_', state', queue', loopOf') /\ failed' # "TcpServer.cpp:100"
  BY <1>1, Zenon DEF WorldOk
<1>3. \A d \in Conns : state'[d] = state[d] \/ (state'[d] \in Up /\ state[d] # "none")
  BY <1>1, Zenon
<1>4. Known'
  BY <1>3, Zenon DEF Tracked, Known
<1>5. Types'
  BY Zenon DEF Tracked, Types
<1> QED
  BY <1>2, <1>4, <1>5, Zenon DEF Tracked

\* An event of a connection closes it.
LEMMA EventKeeps ==
    ASSUME Tracked, NEW l \in AllLoops, NEW c \in Conns, ConnectionEvent(l, c)
    PROVE  Tracked'
<1>0. PICK room \in BOOLEAN : Becomes(handle_ep_hup(World(room), c, l))
  BY Zenon DEF ConnectionEvent
<1> DEFINE v == handle_ep_hup(World(room), c, l)
<1>1. /\ Channel("conn", c) \in active[l] /\ Becomes(v)
      /\ UNCHANGED <<loops, next, accepted, loopOf, held, signalled, phase>>
      /\ active' = [active EXCEPT ![l] = @ \ {Channel("conn", c)}]
  BY <1>0, Zenon DEF ConnectionEvent, Handles, server
<1>2. /\ WorldOk(World(room), loopOf) /\ World(room).st = state /\ DOMAIN active = AllLoops
      /\ DOMAIN phase = AllLoops /\ (phase[Main] \in {"closing", "erased"} => signalled)
      /\ state[c] \in Up /\ loopOf[c] = l
  BY <1>1, WorldParts, Zenon DEF Tracked, Types, Known
<1>3. WorldOk(v, loopOf) /\ v.st[c] = "Disconnected" /\ Moves(v, World(room), c)
  BY <1>2, HupOk, Zenon
<1>4. state[c] # "none"
  BY <1>2 DEF Up
<1>5. DOMAIN active' = AllLoops /\ \A k \in AllLoops : active'[k] \subseteq active[k]
  BY <1>1, <1>2, Zenon
<1> HIDE DEF v
<1> QED
  BY <1>1, <1>2, <1>3, <1>4, <1>5, HandlerKeeps, ZenonT(30) DEF Moves

\* What the functor e does in the loop l, from the record w.
Runs(l, e, w) ==
    \/ e.f = "connectEstablished" /\ \E v \in connectEstablished(w, e.c, l) : Becomes(v)
    \/ e.f = "removeConnectionInLoop" /\ Becomes(removeConnectionInLoop(w, e.c))
    \/ e.f = "forceCloseInLoop" /\ Becomes(forceCloseInLoop(w, e.c, l))

\* A functor is run.
LEMMA FunctorKeeps ==
    ASSUME Tracked, NEW l \in AllLoops, RunFunctor(l)
    PROVE  Tracked'
<1> DEFINE e == Head(queue[l])
<1>0. PICK room \in BOOLEAN : Runs(l, e, [World(room) EXCEPT !.q[l] = Tail(@)])
  BY Zenon DEF RunFunctor, Runs
<1> DEFINE r == [queue EXCEPT ![l] = Tail(queue[l])]
           w == [World(room) EXCEPT !.q[l] = Tail(@)]
<1>1. /\ queue[l] # <<>>
      /\ UNCHANGED <<loops, next, accepted, loopOf, held, signalled, phase, active>>
      /\ \/ e.f = "connectEstablished" /\ \E v \in connectEstablished(w, e.c, l) : Becomes(v)
         \/ e.f = "removeConnectionInLoop" /\ Becomes(removeConnectionInLoop(w, e.c))
         \/ e.f = "forceCloseInLoop" /\ Becomes(forceCloseInLoop(w, e.c, l))
  BY <1>0, Zenon DEF RunFunctor, Runs, server
<1>2. /\ Agree(connections_, state, queue, loopOf) /\ failed # "TcpServer.cpp:100"
      /\ World(room).map = connections_ /\ World(room).st = state /\ World(room).q = queue
      /\ World(room).bad = failed
      /\ DOMAIN World(room) = {"map", "st", "q", "bad", "room", "lost"}
      /\ DOMAIN active = AllLoops /\ DOMAIN phase = AllLoops
      /\ (phase[Main] \in {"closing", "erased"} => signalled)
  BY WorldParts, Zenon DEF Tracked, Types, WorldOk
<1>3. /\ Agree(connections_, state, r, loopOf) /\ e \in Functors
      /\ Fits(e, l, connections_, state, loopOf)
      /\ e.f # "forceCloseInLoop" => \A k \in AllLoops : e \notin In(r[k])
  <2>1. Agree(connections_, state, queue, loopOf) /\ queue[l] # <<>>
    BY <1>1, <1>2, Zenon
  <2> QED
    BY <2>1, TakeAgrees, Zenon
<1>4. /\ DOMAIN w = {"map", "st", "q", "bad", "room", "lost"} /\ w.map = connections_
      /\ w.st = state /\ w.q = r
      /\ w.bad = failed
  BY <1>2, Zenon
<1> DEFINE c == e.c
<1>5. c \in Conns /\ e = Functor(e.f, c)
  BY <1>3 DEF Functors, Functor
<1> HIDE DEF w, r, e
<1>6. WorldOk(w, loopOf)
  BY <1>2, <1>3, <1>4, Zenon DEF WorldOk
<1>7. ASSUME NEW v, WorldOk(v, loopOf), Becomes(v), Moves(v, w, c) \/ v.st = state, state[c] # "none"
      PROVE  Tracked'
  <2>1. v.st[c] = state[c] \/ v.st[c] \in Up
    BY <1>4, <1>7, Zenon DEF Moves
  <2>2. \A d \in Conns : d # c => v.st[d] = state[d]
    BY <1>4, <1>7, Zenon DEF Moves
  <2> QED
    BY <1>1, <1>2, <1>5, <1>7, <2>1, <2>2, HandlerKeeps, Zenon
<1>8. CASE e.f = "connectEstablished" /\ \E v \in connectEstablished(w, c, l) : Becomes(v)
  <2>1. PICK v \in connectEstablished(w, c, l) : Becomes(v)
    BY <1>8, Zenon
  <2>2. loopOf[c] = l /\ state[c] = "Connecting"
    BY <1>3, <1>8, Zenon DEF Fits
  <2>3. \A k \in AllLoops : Functor("connectEstablished", c) \notin In(w.q[k])
    <3>1. e.f # "forceCloseInLoop"
      BY <1>8
    <3> QED
      BY <1>3, <1>4, <1>5, <1>8, <3>1, Zenon
  <2>4. WorldOk(v, loopOf) /\ Moves(v, w, c)
    BY <1>4, <1>5, <1>6, <2>1, <2>2, <2>3, EstablishedOk, Zenon
  <2>5. state[c] # "none"
    BY <2>2
  <2> QED
    BY <1>7, <2>1, <2>4, <2>5, Zenon
<1>9. CASE e.f = "removeConnectionInLoop" /\ Becomes(removeConnectionInLoop(w, c))
  <2> DEFINE v == removeConnectionInLoop(w, c)
  <2>1. state[c] = "Disconnected" /\ c \in connections_
    BY <1>3, <1>9, Zenon DEF Fits
  <2>2. \A k \in AllLoops : Functor("removeConnectionInLoop", c) \notin In(r[k])
    <3>1. e.f # "forceCloseInLoop"
      BY <1>9
    <3> QED
      BY <1>3, <1>5, <1>9, <3>1, Zenon
  <2>3. Agree(connections_ \ {c}, state, r, loopOf)
    BY <1>3, <1>5, <2>1, <2>2, EraseAgrees, Zenon
  <2>4. /\ DOMAIN v = {"map", "st", "q", "bad", "room", "lost"} /\ v.map = connections_ \ {c}
        /\ v.st = state
        /\ v.q = r /\ v.bad = failed
    BY <1>4, <2>1, Zenon DEF removeConnectionInLoop
  <2> HIDE DEF v
  <2>5. WorldOk(v, loopOf) /\ state[c] # "none"
    <3>1. state[c] # "none"
      BY <2>1
    <3> QED
      BY <1>2, <2>3, <2>4, <3>1, Zenon DEF WorldOk
  <2> QED
    BY <1>7, <1>9, <2>4, <2>5, Zenon DEF v
<1>10. CASE e.f = "forceCloseInLoop" /\ Becomes(forceCloseInLoop(w, c, l))
  <2>1. loopOf[c] = l /\ state[c] \in Up
    BY <1>3, <1>10, Zenon DEF Fits
  <2>2. state[c] # "none"
    BY <2>1 DEF Up
  <2>3. CASE Destroyed(c)
    <3> DEFINE v == [w EXCEPT !.bad = "TcpConnection.cpp:655"]
    <3>1. Becomes(v)
      BY <1>10, <2>3, Zenon DEF forceCloseInLoop
    <3>2. /\ DOMAIN v = {"map", "st", "q", "bad", "room", "lost"} /\ v.map = connections_
          /\ v.st = state
          /\ v.q = r /\ v.bad = "TcpConnection.cpp:655"
      BY <1>4, Zenon
    <3> HIDE DEF v
    <3>3. v.bad # "TcpServer.cpp:100"
      BY <3>2
    <3>4. WorldOk(v, loopOf)
      BY <1>3, <3>2, <3>3, Zenon DEF WorldOk
    <3> QED
      BY <1>7, <2>2, <3>1, <3>2, <3>4, Zenon
  <2>4. CASE ~Destroyed(c)
    <3> DEFINE v == handle_ep_hup(w, c, l)
    <3>1. Becomes(v)
      BY <1>10, <2>4, Zenon DEF forceCloseInLoop
    <3>2. WorldOk(v, loopOf) /\ Moves(v, w, c)
      BY <1>4, <1>5, <1>6, <2>1, HupOk, Zenon
    <3> HIDE DEF v
    <3> QED
      BY <1>7, <2>2, <3>1, <3>2, Zenon
  <2> QED
    BY <2>3, <2>4, Zenon
<1> QED
  BY <1>1, <1>8, <1>9, <1>10, Zenon

\* handle_sig_int closes a connection and erases it; all of them are the main loop's.
LEMMA CloseKeeps ==
    ASSUME Tracked, Clean, NEW c \in Conns, CloseAndErase(c)
    PROVE  Tracked'
<1>0. PICK room \in BOOLEAN :
          Becomes([forceClose(World(room), c, Main) EXCEPT !.map = @ \ {c}])
  BY Zenon DEF CloseAndErase
<1> DEFINE w == handle_ep_hup(World(room), c, Main)
           v == [w EXCEPT !.map = @ \ {c}]
<1>1. /\ phase[Main] \in {"closing", "erased"} /\ c \in connections_
      /\ phase' = [phase EXCEPT ![Main] = "erased"]
      /\ Becomes([forceClose(World(room), c, Main) EXCEPT !.map = @ \ {c}])
      /\ UNCHANGED <<loops, next, accepted, loopOf, held, signalled, active>>
  BY <1>0, Zenon DEF CloseAndErase, server
<1>2. /\ Agree(connections_, state, queue, loopOf) /\ WorldOk(World(room), loopOf)
      /\ World(room).map = connections_ /\ World(room).st = state
      /\ DOMAIN active = AllLoops /\ DOMAIN phase = AllLoops /\ signalled /\ Main \in AllLoops
  BY <1>1, WorldParts, Zenon DEF Tracked, Types, AllLoops
<1>3. loopOf[c] = Main
  BY <1>2, Zenon DEF Clean, Tracked
<1>4. state[c] # "none"
  BY <1>1, <1>2, Zenon DEF Agree
<1>5. WorldOk(w, loopOf) /\ w.st[c] = "Disconnected" /\ Moves(w, World(room), c)
  BY <1>1, <1>2, <1>3, HupOk, Zenon
<1>6. Becomes(v)
  BY <1>1, <1>3, Zenon DEF forceClose
<1> HIDE DEF w
<1>7. /\ Agree(w.map, w.st, w.q, loopOf) /\ w.bad # "TcpServer.cpp:100"
      /\ DOMAIN w = {"map", "st", "q", "bad", "room", "lost"}
  BY <1>5, Zenon DEF WorldOk
<1>8. \A k \in AllLoops : Functor("removeConnectionInLoop", c) \notin In(w.q[k])
  <2> DEFINE e == Functor("removeConnectionInLoop", c)
  <2>1. e.f = "removeConnectionInLoop" /\ e.c = c
    BY DEF Functor
  <2> HIDE DEF e
  <2>2. ASSUME NEW k \in AllLoops, e \in In(w.q[k]) PROVE FALSE
    <3>1. Fits(e, k, w.map, w.st, loopOf)
      BY <1>7, <2>2, Zenon DEF Agree
    <3> QED
      BY <1>3, <2>1, <3>1, Zenon DEF Fits
  <2> QED
    BY <2>2, Zenon DEF e
<1>9. Agree(w.map \ {c}, w.st, w.q, loopOf)
  BY <1>5, <1>7, <1>8, EraseAgrees, Zenon
<1>10. /\ DOMAIN v = {"map", "st", "q", "bad", "room", "lost"} /\ v.map = w.map \ {c} /\ v.st = w.st
       /\ v.q = w.q /\ v.bad = w.bad
  BY <1>7, Zenon
<1> HIDE DEF v
<1>11. WorldOk(v, loopOf)
  BY <1>7, <1>9, <1>10, Zenon DEF WorldOk
<1>12. /\ v.st[c] = state[c] \/ v.st[c] \in Up
       /\ \A d \in Conns : d # c => v.st[d] = state[d]
  BY <1>2, <1>5, <1>10, Zenon DEF Moves
<1>13. DOMAIN phase' = AllLoops
  BY <1>1, <1>2, Zenon
<1>14. DOMAIN active' = AllLoops /\ \A l \in AllLoops : active'[l] \subseteq active[l]
  BY <1>1, <1>2, Zenon
<1> QED
  BY <1>1, <1>2, <1>4, <1>6, <1>11, <1>12, <1>13, <1>14, HandlerKeeps, Zenon

\* The loop of a new connection is one of the pool's, or the main one if there is none.
LEMMA PickedLoop ==
    ASSUME loops \in Pools, next \in Nat
    PROVE  LET l == IF loops = <<>> THEN Main ELSE loops[NextLoop + 1]
           IN  NextLoop \in Nat /\ l \in AllLoops /\ (l = Main <=> loops = <<>>)
<1>1. loops \in Seq(IoLoops) /\ next \in Nat /\ Main \notin IoLoops
  BY ServerAssumption
<1>2. CASE loops = <<>>
  BY <1>2 DEF NextLoop, AllLoops
<1>3. CASE loops # <<>>
  <2> DEFINE n == Len(loops)
  <2>1. n \in Nat /\ n > 0
    BY <1>1, <1>3
  <2>2. NextLoop = (next + 1) % n
    BY <1>3, Zenon DEF NextLoop
  <2> HIDE DEF n
  <2>3. NextLoop \in 0..n - 1
    BY <1>1, <2>1, <2>2
  <2>4. loops[NextLoop + 1] \in IoLoops
    BY <1>1, <2>1, <2>3 DEF n
  <2> QED
    BY <1>1, <1>3, <2>3, <2>4 DEF AllLoops
<1> QED
  BY <1>2, <1>3, Zenon

\* newConnection hands the connection c to the loop l, from the record w.
Settles(c, l, w) ==
    IF l = Main THEN \E v \in connectEstablished(w, c, l) : Becomes(v)
    ELSE Becomes(queueInLoop(w, l, Functor("connectEstablished", c)))

\* A connection is accepted.
LEMMA AcceptKeeps ==
    ASSUME Tracked, NewConnection
    PROVE  Tracked'
<1> DEFINE c == accepted + 1
           l == IF loops = <<>> THEN Main ELSE loops[NextLoop + 1]
<1>0. PICK room \in BOOLEAN :
          Settles(c, l, [World(room) EXCEPT !.st[c] = "Connecting", !.map = @ \cup {c}])
  BY Zenon DEF NewConnection, Settles
<1> DEFINE w == [World(room) EXCEPT !.st[c] = "Connecting", !.map = @ \cup {c}]
           s == [state EXCEPT ![c] = "Connecting"]
           lp == [loopOf EXCEPT ![c] = l]
<1>1. /\ accepted < MaxConns /\ accepted' = c /\ next' = NextLoop /\ loopOf' = lp
      /\ IF l = Main THEN \E v \in connectEstablished(w, c, l) : Becomes(v)
         ELSE Becomes(queueInLoop(w, l, Functor("connectEstablished", c)))
      /\ UNCHANGED <<loops, held, phase, active, signalled>>
  BY <1>0, Zenon DEF NewConnection, Settles, poller
<1>2. /\ Types /\ Known /\ Agree(connections_, state, queue, loopOf)
      /\ failed # "TcpServer.cpp:100" /\ accepted \in Nat /\ loopOf \in [Conns -> AllLoops]
      /\ DOMAIN World(room) = {"map", "st", "q", "bad", "room", "lost"}
      /\ World(room).map = connections_ /\ World(room).st = state /\ World(room).q = queue
      /\ World(room).bad = failed
  BY WorldParts, Zenon DEF Tracked, Types, WorldOk
<1>3. NextLoop \in Nat /\ l \in AllLoops /\ (l = Main <=> loops = <<>>)
  BY <1>2, PickedLoop, Zenon DEF Types
<1>4. /\ c \in Conns /\ c \in Nat /\ c > accepted
      /\ \A d \in Conns : d > c => d > accepted /\ d # c
  BY <1>1, <1>2, ServerAssumption DEF Conns
<1> HIDE DEF c, l
<1>5. state[c] = "none"
  BY <1>2, <1>4, Zenon DEF Known
<1>6. /\ Agree(connections_ \cup {c}, s, queue, lp)
      /\ \A k \in AllLoops : \A e \in In(queue[k]) : e.c # c
  BY <1>2, <1>3, <1>4, <1>5, NewAgrees, Zenon
<1>7. /\ DOMAIN w = {"map", "st", "q", "bad", "room", "lost"} /\ w.map = connections_ \cup {c}
      /\ w.st = s
      /\ w.q = queue /\ w.bad = failed
  BY <1>2, Zenon
<1>8. /\ s[c] = "Connecting" /\ \A d \in Conns : d # c => s[d] = state[d] /\ lp[d] = loopOf[d]
  BY <1>2, <1>4, Zenon DEF Agree
<1>9. lp \in [Conns -> AllLoops] /\ lp[c] = l
  BY <1>2, <1>3, <1>4, Zenon
<1> HIDE DEF w, s, lp
<1>10. WorldOk(w, lp)
  BY <1>2, <1>6, <1>7, Zenon DEF WorldOk
<1>11. ASSUME NEW k \in AllLoops, Functor("connectEstablished", c) \in In(queue[k]) PROVE FALSE
  <2>1. Functor("connectEstablished", c).c = c
    BY DEF Functor
  <2> QED
    BY <1>6, <1>11, <2>1, Zenon
<1>12. ASSUME NEW v, WorldOk(v, lp), Becomes(v), \A d \in Conns : d # c => v.st[d] = state[d]
       PROVE  Tracked'
  <2>1. connections_' = v.map /\ state' = v.st /\ queue' = v.q /\ failed' = v.bad
    BY <1>12, Zenon DEF Becomes
  <2>2. Agree(connections_', state', queue', loopOf') /\ failed' # "TcpServer.cpp:100"
    BY <1>1, <1>12, <2>1, Zenon DEF WorldOk
  <2>3. \A d \in Conns : d # c => state'[d] = state[d] /\ loopOf'[d] = loopOf[d]
    BY <1>1, <1>8, <1>12, <2>1, Zenon
  <2>4. Types'
    BY <1>1, <1>2, <1>3, <1>4, <1>9, Zenon DEF Types
  <2>5. "none" \notin Up
    BY DEF Up
  <2>6. held[c] = "none" /\ \A k \in AllLoops : Channel("conn", c) \notin active[k]
    BY <1>2, <1>4, <1>5, <2>5, Zenon DEF Known
  <2>7. Known'
    <3>1. \A d \in Conns : d > accepted' => state'[d] = "none"
      BY <1>1, <1>2, <1>4, <2>3, Zenon DEF Known
    <3>2. ASSUME NEW d \in Conns, held'[d] # "none" PROVE state'[d] \in Up
      BY <1>1, <1>2, <2>3, <2>6, <3>2, Zenon DEF Known
    <3>3. ASSUME NEW k \in AllLoops, NEW d \in Conns, Channel("conn", d) \in active'[k]
          PROVE  state'[d] \in Up /\ loopOf'[d] = k
      <4>1. Channel("conn", d) \in active[k] /\ d # c
        BY <1>1, <2>6, <3>3, Zenon
      <4> QED
        BY <1>2, <2>3, <3>3, <4>1, Zenon DEF Known
    <3> QED
      BY <3>1, <3>2, <3>3, Zenon DEF Known
  <2>8. loops' = <<>> => \A d \in Conns : loopOf'[d] = Main
    <3> SUFFICES ASSUME loops = <<>>, NEW d \in Conns PROVE lp[d] = Main
      BY <1>1, Zenon
    <3>1. loopOf[d] = Main
      BY Zenon DEF Tracked
    <3> QED
      BY <1>3, <1>8, <1>9, <3>1, Zenon
  <2>9. phase'[Main] \in {"closing", "erased"} => signalled'
    BY <1>1, Zenon DEF Tracked
  <2> QED
    BY <2>2, <2>4, <2>7, <2>8, <2>9, Zenon DEF Tracked
<1>13. CASE l = Main
  <2>1. PICK v \in connectEstablished(w, c, l) : Becomes(v)
    BY <1>1, <1>13, Zenon
  <2>2. w.st[c] = "Connecting" /\ \A k \in AllLoops : Functor("connectEstablished", c) \notin In(w.q[k])
    BY <1>7, <1>8, <1>11, Zenon
  <2>3. WorldOk(v, lp) /\ Moves(v, w, c)
    BY <1>3, <1>4, <1>9, <1>10, <2>1, <2>2, EstablishedOk, Zenon
  <2>4. \A d \in Conns : d # c => v.st[d] = state[d]
    BY <1>7, <1>8, <2>3, Zenon DEF Moves
  <2> QED
    BY <1>12, <2>1, <2>3, <2>4, Zenon
<1>14. CASE l # Main
  <2> DEFINE e == Functor("connectEstablished", c)
             v == queueInLoop(w, l, e)
             r == [queue EXCEPT ![l] = Append(queue[l], e)]
  <2>1. /\ DOMAIN v = {"map", "st", "q", "bad", "room", "lost"} /\ v.map = w.map /\ v.st = w.st
        /\ v.q = queue \/ v.q = r
        /\ v.bad = w.bad
    <3>1. /\ DOMAIN v = DOMAIN w /\ v.map = w.map /\ v.st = w.st /\ v.bad = w.bad
          /\ Pushed(v, w, l, e)
      <4> HIDE DEF e
      <4> QED
        BY <1>7, QueueDoes, Zenon
    <3> HIDE DEF v, e
    <3> QED
      BY <1>7, <3>1, Zenon DEF Pushed
  <2>2. Becomes(v)
    BY <1>1, <1>14, Zenon
  <2>3. e \in Functors /\ e.f = "connectEstablished" /\ e.c = c
    BY <1>4 DEF Functors, Functor
  <2>4. e.f # "removeConnectionInLoop" /\ e.f # "forceCloseInLoop"
    BY <2>3
  <2>5. e \notin In(queue[l])
    BY <1>3, <1>11, Zenon
  <2> HIDE DEF v, e, r
  <2>6. Fits(e, l, connections_ \cup {c}, s, lp)
    BY <1>8, <1>9, <1>14, <2>3, <2>4, Zenon DEF Fits
  <2>7. Agree(connections_ \cup {c}, s, r, lp)
    BY <1>3, <1>6, <2>3, <2>5, <2>6, QueueAgrees, Zenon DEF r
  <2>8. \A d \in Conns : d # c => v.st[d] = state[d]
    BY <1>7, <1>8, <2>1, Zenon
  <2>9. v.map = connections_ \cup {c} /\ v.st = s /\ v.bad = failed
    BY <1>7, <2>1, Zenon
  <2>10. WorldOk(v, lp)
    BY <1>2, <1>6, <2>1, <2>7, <2>9, Zenon DEF WorldOk
  <2> QED
    BY <1>12, <2>2, <2>8, <2>10, Zenon
<1> QED
  BY <1>13, <1>14, Zenon

\* A user thread is given a connection, or closes it.
LEMMA UserKeeps ==
    ASSUME Tracked, NEW c \in Conns, Hold(c) \/ UserForceClose(c)
    PROVE  Tracked'
<1> DEFINE e == Functor("forceCloseInLoop", c)
           r == [queue EXCEPT ![loopOf[c]] = Append(queue[loopOf[c]], e)]
<1>1. /\ UNCHANGED <<loops, next, connections_, accepted, state, loopOf, phase, active, signalled,
                     failed>>
      /\ \/ /\ state[c] = "Connected" /\ held' = [held EXCEPT ![c] = "held"] /\ queue' = queue
         \/ /\ held[c] = "held" /\ held' = [held EXCEPT ![c] = "dropped"]
            /\ queue' = queue \/ queue' = r
  <2>1. CASE Hold(c)
    BY <2>1, Zenon DEF Hold, server, poller
  <2>2. CASE UserForceClose(c)
    <3>1. PICK room \in BOOLEAN : Becomes(queueInLoop(World(room), loopOf[c], e))
      BY <2>2, Zenon DEF UserForceClose
    <3> DEFINE v == queueInLoop(World(room), loopOf[c], e)
    <3>2. /\ World(room).map = connections_ /\ World(room).st = state /\ World(room).q = queue
          /\ World(room).bad = failed
          /\ DOMAIN World(room) = {"map", "st", "q", "bad", "room", "lost"}
      BY WorldParts, Zenon DEF WorldOk
    <3>3. /\ v.map = connections_ /\ v.st = state /\ v.bad = failed /\ (v.q = queue \/ v.q = r)
      <4> DEFINE w == World(room)
                 l == loopOf[c]
      <4> HIDE DEF e, w, l
      <4>1. /\ DOMAIN v = DOMAIN w /\ v.map = w.map /\ v.st = w.st /\ v.bad = w.bad
            /\ Pushed(v, w, l, e)
        BY <3>2, QueueDoes, Zenon DEF w, l
      <4> HIDE DEF v
      <4> QED
        BY <3>2, <4>1, Zenon DEF Pushed, w, l
    <3> HIDE DEF v
    <3>4. connections_' = v.map /\ state' = v.st /\ queue' = v.q /\ failed' = v.bad
      BY <3>1, Zenon DEF Becomes, v
    <3> QED
      BY <2>2, <3>3, <3>4, Zenon DEF UserForceClose, server, poller
  <2> QED
    BY <2>1, <2>2, Zenon
<1>2. "held" # "none" /\ "Connected" \in Up
  BY DEF Up
<1>3. state[c] \in Up
  BY <1>1, <1>2, Zenon DEF Tracked, Known
<1>4. DOMAIN held' = Conns /\ \A d \in Conns : d # c => held'[d] = held[d]
  BY <1>1, Zenon DEF Tracked, Types
<1>5. Types'
  BY <1>1, <1>4, Zenon DEF Tracked, Types
<1>6. Known'
  <2>1. Known /\ UNCHANGED <<accepted, state, loopOf, active>>
    BY <1>1, Zenon DEF Tracked
  <2>2. \A d \in Conns : held'[d] # "none" => state'[d] \in Up
    BY <1>3, <1>4, <2>1, Zenon DEF Known
  <2> QED
    BY <2>1, <2>2, Zenon DEF Known
<1>7. Agree(connections_, state, r, loopOf)
  <2>1. e \in Functors /\ e.f = "forceCloseInLoop" /\ e.c = c
    BY DEF Functors, Functor
  <2>2. e.f # "connectEstablished" /\ e.f # "removeConnectionInLoop"
    BY <2>1
  <2>3. loopOf[c] \in AllLoops /\ Agree(connections_, state, queue, loopOf)
    BY Zenon DEF Tracked, Types
  <2> HIDE DEF e
  <2>4. Fits(e, loopOf[c], connections_, state, loopOf)
    BY <1>3, <2>1, <2>2, Zenon DEF Fits
  <2> QED
    BY <2>1, <2>3, <2>4, QueueAgrees, Zenon
<1>8. Agree(connections_, state, queue, loopOf)'
  BY <1>1, <1>7, Zenon DEF Tracked
<1> QED
  BY <1>1, <1>5, <1>6, <1>8, Zenon DEF Tracked

-----------------------------------------------------------------------------
(* Every step. *)

\* The pool never changes, and a signal stays delivered.
LEMMA CleanBefore ==
    ASSUME [Next]_vars, Clean'
    PROVE  Clean
<1>1. loops' = loops /\ (signalled' = signalled \/ signalled' = TRUE)
  <2>1. CASE Start
    BY <2>1, Zenon DEF Start
  <2>2. CASE MainStep
    BY <2>2, Zenon DEF MainStep, HandleRead, NewConnection, AcceptDone, HandleSigInt, CloseAndErase,
                       SigIntDone, server
  <2>3. CASE \E l \in AllLoops : LoopStep(l)
    BY <2>3, Zenon DEF LoopStep, Poll, EventsDone, RunFunctor, Drained, ConnectionEvent, server
  <2>4. CASE \E c \in Conns : Hold(c) \/ UserForceClose(c)
    BY <2>4, Zenon DEF Hold, UserForceClose, server
  <2>5. CASE UNCHANGED vars
    BY <2>5, Zenon DEF vars, server
  <2> QED
    BY <2>1, <2>2, <2>3, <2>4, <2>5, Zenon DEF Next, Exited
<1>2. CASE signalled' = TRUE
  BY <1>1, <1>2, Zenon DEF Clean
<1>3. CASE signalled' = signalled
  BY <1>1, <1>3, Zenon DEF Clean
<1> QED
  BY <1>1, <1>2, <1>3, Zenon

\* A step of the program keeps the invariant.
LEMMA NextServer ==
    ASSUME ServerInv, [Next]_vars
    PROVE  ServerInv'
<1> SUFFICES ASSUME Clean' PROVE Tracked'
  BY Zenon DEF ServerInv
<1>1. Clean /\ Tracked
  BY CleanBefore, Zenon DEF ServerInv
<1>2. CASE Start
  BY <1>1, <1>2, PhasesKeep, Zenon
<1>3. CASE MainStep
  BY <1>1, <1>3, PhasesKeep, AcceptKeeps, CloseKeeps, Zenon DEF MainStep
<1>4. CASE \E l \in AllLoops : LoopStep(l)
  BY <1>1, <1>4, PhasesKeep, EventKeeps, FunctorKeeps, Zenon DEF LoopStep
<1>5. CASE \E c \in Conns : Hold(c) \/ UserForceClose(c)
  BY <1>1, <1>5, UserKeeps, Zenon
<1>6. CASE UNCHANGED vars
  <2>1. UNCHANGED <<loops, next, connections_, accepted, state, loopOf, held, queue, phase, active,
                    signalled, failed>>
    BY <1>6, Zenon DEF vars, server, poller
  <2> QED
    BY <1>1, <2>1, Zenon DEF Tracked, Types, Known
<1> QED
  BY <1>2, <1>3, <1>4, <1>5, <1>6, Zenon DEF Next, Exited

\* Until handle_sig_int erases connections of I/O loops, the map of the main loop and
\* the states set by the I/O loops agree: a connection that is not down is in
\* connections_, a removal is queued only for one that is down and still there, once,
\* and connectEstablished only for one that is Connecting (TcpServer.cpp, lines 57-103).
THEOREM ServerInvariance == Spec => []ServerInv
<1>1. Init => ServerInv
  BY InitTracked, Zenon DEF ServerInv
<1>2. ServerInv /\ [Next]_vars => ServerInv'
  BY NextServer, Zenon
<1> QED
  BY <1>1, <1>2, PTL DEF Spec

\* The assertion of removeConnectionInLoop, assert(n == 1), holds in every execution
\* with no signal, or with no I/O loop.
THEOREM RemoveFindsConnectionHolds == Spec => []RemoveFindsConnection
<1>1. ServerInv => RemoveFindsConnection
  BY Zenon DEF ServerInv, Clean, Tracked, RemoveFindsConnection
<1> QED
  BY <1>1, ServerInvariance, PTL

\* No connection is destroyed before handle_ep_hup has made it Disconnected, so that
\* ~TcpConnection never finds the "wrong state", in the same executions.
THEOREM DestroyedDisconnectedHolds == Spec => []DestroyedDisconnected
<1>1. ASSUME ServerInv PROVE DestroyedDisconnected
  <2> SUFFICES ASSUME NEW c \in Conns, Destroyed(c), Clean PROVE state[c] = "Disconnected"
    BY Zenon DEF DestroyedDisconnected, Clean
  <2>1. Agree(connections_, state, queue, loopOf)
    BY <1>1, Zenon DEF ServerInv, Tracked
  <2>2. state[c] # "none" /\ c \notin connections_
    BY Zenon DEF Destroyed, Alive
  <2>3. state[c] \in States
    BY <2>1, Zenon DEF Agree
  <2>4. state[c] \notin {"Connecting", "Connected"}
    BY <2>1, <2>2, Zenon DEF Agree
  <2> QED
    BY <2>2, <2>3, <2>4, Zenon DEF States
<1> QED
  BY <1>1, ServerInvariance, PTL

-----------------------------------------------------------------------------
(* No removal is lost, whatever handle_sig_int erases. *)

Removal(c) == Functor("removeConnectionInLoop", c)

\* A connection that is down and still in the map m has its removal queued in the main loop,
\* or among the functors g that found a queue full.
Lossless(m, s, q, g) ==
    /\ m \subseteq Conns /\ s \in [Conns -> States] /\ q \in [AllLoops -> Seq(Functors)]
    /\ \A c \in m : s[c] = "Disconnected" => Removal(c) \in In(q[Main]) \cup g

\* The same of the record that handlers thread through.
Intact(w) ==
    /\ DOMAIN w = {"map", "st", "q", "bad", "room", "lost"}
    /\ Lossless(w.map, w.st, w.q, w.lost)

\* The inductive invariant.
LossInv ==
    /\ Lossless(connections_, state, queue, lost)
    /\ loops \in Pools /\ next \in Nat /\ accepted \in Nat /\ loopOf \in [Conns -> AllLoops]

\* Functors that are queued stay until they are run.
LEMMA QueueOnlyGrows ==
    ASSUME NEW s \in Seq(Functors), NEW e \in Functors
    PROVE  Append(s, e) \in Seq(Functors) /\ In(Append(s, e)) = In(s) \cup {e}
<1> DEFINE t == Append(s, e)
           n == Len(s)
<1>1. /\ n \in Nat /\ t \in Seq(Functors) /\ Len(t) = n + 1 /\ t[n + 1] = e
      /\ \A i \in 1..n : t[i] = s[i]
  OBVIOUS
<1> HIDE DEF t
<1>2. In(t) = In(s) \cup {e}
  BY <1>1 DEF In
<1> QED
  BY <1>1, <1>2, Zenon DEF t

\* Only the first functor leaves a queue.
LEMMA OthersStayQueued ==
    ASSUME NEW s \in Seq(Functors), s # <<>>
    PROVE  /\ Tail(s) \in Seq(Functors) /\ Head(s) \in Functors
           /\ \A e \in In(s) : e # Head(s) => e \in In(Tail(s))
<1> DEFINE t == Tail(s)
           n == Len(s)
<1>1. /\ n \in Nat \ {0} /\ t \in Seq(Functors) /\ Len(t) = n - 1 /\ Head(s) = s[1]
      /\ \A i \in 1..n - 1 : t[i] = s[i + 1]
  OBVIOUS
<1>2. Head(s) \in Functors
  OBVIOUS
<1> HIDE DEF t
<1>3. ASSUME NEW i \in 1..n, s[i] # s[1] PROVE s[i] \in In(t)
  <2>1. i - 1 \in 1..n - 1 /\ (i - 1) + 1 = i
    BY <1>1, <1>3
  <2>2. t[i - 1] = s[i] /\ i - 1 \in 1..Len(t)
    BY <1>1, <2>1
  <2> QED
    BY <2>2, Zenon DEF In
<1> QED
  BY <1>1, <1>2, <1>3, Zenon DEF t, In, n

\* A functor is queued.
LEMMA QueueKeepsIntact ==
    ASSUME NEW m, NEW s, NEW q, NEW g, Lossless(m, s, q, g), NEW l \in AllLoops,
           NEW e \in Functors
    PROVE  LET r == [q EXCEPT ![l] = Append(q[l], e)]
           IN  Lossless(m, s, r, g) /\ (l = Main => e \in In(r[Main]))
<1> DEFINE r == [q EXCEPT ![l] = Append(q[l], e)]
<1>1. q \in [AllLoops -> Seq(Functors)] /\ q[l] \in Seq(Functors) /\ Main \in AllLoops
  BY Zenon DEF Lossless, AllLoops
<1>2. Append(q[l], e) \in Seq(Functors) /\ In(Append(q[l], e)) = In(q[l]) \cup {e}
  BY <1>1, QueueOnlyGrows, Zenon
<1>3. /\ r \in [AllLoops -> Seq(Functors)] /\ r[l] = Append(q[l], e)
      /\ \A k \in AllLoops : k # l => r[k] = q[k]
  BY <1>1, <1>2, Zenon
<1> HIDE DEF r
<1>4. In(q[Main]) \subseteq In(r[Main]) /\ (l = Main => e \in In(r[Main]))
  BY <1>1, <1>2, <1>3, Zenon
<1>5. Lossless(m, s, r, g)
  BY <1>3, <1>4, Zenon DEF Lossless
<1> QED
  BY <1>4, <1>5, Zenon DEF r

\* A functor is queued, or is lost.
LEMMA PushKeepsIntact ==
    ASSUME NEW w, Intact(w), NEW l \in AllLoops, NEW e \in Functors
    PROVE  Intact(queueInLoop(w, l, e))
<1> DEFINE v == queueInLoop(w, l, e)
           r == [w.q EXCEPT ![l] = Append(w.q[l], e)]
<1>1. /\ DOMAIN w = {"map", "st", "q", "bad", "room", "lost"}
      /\ Lossless(w.map, w.st, w.q, w.lost)
  BY Zenon DEF Intact
<1>2. /\ DOMAIN v = DOMAIN w /\ v.map = w.map /\ v.st = w.st
      /\ \/ v.q = r /\ v.lost = w.lost
         \/ v.q = w.q /\ v.lost = w.lost \cup {e}
  <2>1. DOMAIN v = DOMAIN w /\ v.map = w.map /\ v.st = w.st /\ Pushed(v, w, l, e)
    BY <1>1, QueueDoes, Zenon
  <2> HIDE DEF v
  <2> QED
    BY <2>1, Zenon DEF Pushed
<1> HIDE DEF v
<1>3. Lossless(w.map, w.st, r, w.lost)
  BY <1>1, QueueKeepsIntact, Zenon
<1> HIDE DEF r
<1>4. Lossless(w.map, w.st, w.q, w.lost \cup {e})
  BY <1>1, Zenon DEF Lossless
<1>5. Intact(v)
  BY <1>1, <1>2, <1>3, <1>4, Zenon DEF Intact
<1> QED
  BY <1>5, Zenon DEF v

\* handle_ep_hup, in whatever loop.
LEMMA HupKeepsIntact ==
    ASSUME NEW w, Intact(w), NEW c \in Conns, NEW l
    PROVE  Intact(handle_ep_hup(w, c, l))
<1> DEFINE v == handle_ep_hup(w, c, l)
           t == [w.st EXCEPT ![c] = "Disconnected"]
           u == [w EXCEPT !.st[c] = "Disconnected"]
           e == Removal(c)
           r == [w.q EXCEPT ![Main] = Append(w.q[Main], e)]
<1>1. /\ Lossless(w.map, w.st, w.q, w.lost) /\ w.st \in [Conns -> States]
      /\ w.map \subseteq Conns /\ Main \in DOMAIN w.q /\ Main \in AllLoops
      /\ DOMAIN w = {"map", "st", "q", "bad", "room", "lost"}
  BY Zenon DEF Intact, Lossless, AllLoops
<1>2. CASE w.st[c] = "Disconnected"
  BY <1>2, Zenon DEF handle_ep_hup
<1>3. CASE w.st[c] # "Disconnected"
  <2>1. v = removeConnection(u, c, l)
    BY <1>3, Zenon DEF handle_ep_hup
  <2>2. /\ DOMAIN u = {"map", "st", "q", "bad", "room", "lost"} /\ u.st = t
        /\ u.map = w.map /\ u.q = w.q /\ u.lost = w.lost
    BY <1>1, Zenon
  <2>3. /\ t[c] = "Disconnected" /\ \A d \in Conns : d # c => t[d] = w.st[d]
        /\ t \in [Conns -> States]
    <3>1. "Disconnected" \in States
      BY Zenon DEF States
    <3> QED
      BY <1>1, <3>1, Zenon
  <2>4. e \in Functors
    BY DEF Functors, Functor, Removal
  <2>5. Lossless(w.map, w.st, r, w.lost) /\ e \in In(r[Main])
    BY <1>1, <2>4, QueueKeepsIntact, Zenon
  <2> HIDE DEF u
  <2>6. Removes(v, u, c, l)
    <3>1. Whole(u)
      BY <1>1, <2>2, Zenon DEF Whole
    <3> QED
      BY <2>1, <3>1, RemoveDoes, Zenon
  <2> HIDE DEF v
  <2>7. /\ DOMAIN v = {"map", "st", "q", "bad", "room", "lost"} /\ v.st = t
        /\ l = Main => v.map = w.map \ {c} /\ v.q = w.q /\ v.lost = w.lost
        /\ l # Main => /\ v.map = w.map
                       /\ \/ v.q = r /\ v.lost = w.lost
                          \/ v.q = w.q /\ v.lost = w.lost \cup {e}
    BY <2>2, <2>6, Zenon DEF Removes, Removal, Pushed
  <2> HIDE DEF t, r
  <2>8. Lossless(w.map \ {c}, t, w.q, w.lost)
    BY <1>1, <2>3, Zenon DEF Lossless
  <2>9. Lossless(w.map, t, r, w.lost) /\ Lossless(w.map, t, w.q, w.lost \cup {e})
    BY <1>1, <2>3, <2>5, Zenon DEF Lossless
  <2>10. Intact(v)
    BY <2>7, <2>8, <2>9, Zenon DEF Intact
  <2> QED
    BY <2>10, Zenon DEF v
<1> QED
  BY <1>2, <1>3, Zenon

\* connectEstablished, whatever its callback does.
LEMMA EstablishedKeepsIntact ==
    ASSUME NEW w, Intact(w), NEW c \in Conns, NEW l, NEW v \in connectEstablished(w, c, l)
    PROVE  Intact(v)
<1> DEFINE u == [w EXCEPT !.st[c] = "Connected"]
           t == [w.st EXCEPT ![c] = "Connected"]
<1>1. /\ Lossless(w.map, w.st, w.q, w.lost) /\ w.st \in [Conns -> States]
      /\ w.map \subseteq Conns
      /\ DOMAIN w = {"map", "st", "q", "bad", "room", "lost"}
  BY Zenon DEF Intact, Lossless
<1>2. v = u \/ v = handle_ep_hup(u, c, l)
  BY Zenon DEF connectEstablished
<1>3. /\ DOMAIN u = {"map", "st", "q", "bad", "room", "lost"} /\ u.st = t
      /\ u.map = w.map /\ u.q = w.q /\ u.lost = w.lost
  BY <1>1, Zenon
<1>4. /\ t[c] = "Connected" /\ \A d \in Conns : d # c => t[d] = w.st[d]
      /\ t \in [Conns -> States]
  <2>1. "Connected" \in States
    BY Zenon DEF States
  <2> QED
    BY <1>1, <2>1, Zenon
<1>5. t[c] # "Disconnected"
  BY <1>4
<1> HIDE DEF u, t
<1>6. Lossless(w.map, t, w.q, w.lost)
  BY <1>1, <1>4, <1>5, Zenon DEF Lossless
<1>7. Intact(u)
  BY <1>3, <1>6, Zenon DEF Intact
<1> QED
  BY <1>2, <1>7, HupKeepsIntact, Zenon

\* A handler has run, from a record that was intact.
LEMMA BecomesIntact ==
    ASSUME NEW v, Intact(v), Becomes(v), loops' \in Pools, next' \in Nat, accepted' \in Nat,
           loopOf' \in [Conns -> AllLoops]
    PROVE  LossInv'
<1>1. connections_' = v.map /\ state' = v.st /\ queue' = v.q /\ lost' = v.lost
  BY Zenon DEF Becomes
<1> QED
  BY <1>1, Zenon DEF LossInv, Intact

\* The record that handlers start from.
LEMMA WorldIntact ==
    ASSUME LossInv, NEW room
    PROVE  LET w == World(room)
           IN  /\ Intact(w) /\ w.map = connections_ /\ w.st = state /\ w.q = queue
               /\ w.lost = lost /\ DOMAIN w = {"map", "st", "q", "bad", "room", "lost"}
<1>1. LET w == World(room)
      IN  /\ DOMAIN w = {"map", "st", "q", "bad", "room", "lost"} /\ w.map = connections_
          /\ w.st = state /\ w.q = queue /\ w.lost = lost
  BY DEF World
<1> QED
  BY <1>1, Zenon DEF LossInv, Intact

\* A functor is run: the removal it may be erases the entry it was for.
LEMMA FunctorKeepsRemovals ==
    ASSUME LossInv, NEW l \in AllLoops, RunFunctor(l)
    PROVE  LossInv'
<1> DEFINE e == Head(queue[l])
<1>0. PICK room \in BOOLEAN : Runs(l, e, [World(room) EXCEPT !.q[l] = Tail(@)])
  BY Zenon DEF RunFunctor, Runs
<1> DEFINE r == [queue EXCEPT ![l] = Tail(queue[l])]
           w == [World(room) EXCEPT !.q[l] = Tail(@)]
           c == e.c
<1>1. /\ queue[l] # <<>> /\ UNCHANGED <<loops, next, accepted, loopOf>>
      /\ \/ e.f = "connectEstablished" /\ \E v \in connectEstablished(w, c, l) : Becomes(v)
         \/ e.f = "removeConnectionInLoop" /\ Becomes(removeConnectionInLoop(w, c))
         \/ e.f = "forceCloseInLoop" /\ Becomes(forceCloseInLoop(w, c, l))
  BY <1>0, Zenon DEF RunFunctor, Runs, server
<1>2. /\ Lossless(connections_, state, queue, lost) /\ World(room).lost = lost
      /\ queue \in [AllLoops -> Seq(Functors)]
      /\ queue[l] \in Seq(Functors) /\ Main \in AllLoops
      /\ World(room).map = connections_ /\ World(room).st = state /\ World(room).q = queue
      /\ DOMAIN World(room) = {"map", "st", "q", "bad", "room", "lost"}
  BY WorldIntact, Zenon DEF LossInv, Lossless, AllLoops
<1>3. /\ Tail(queue[l]) \in Seq(Functors) /\ e \in Functors
      /\ \A d \in In(queue[l]) : d # e => d \in In(Tail(queue[l]))
  BY <1>1, <1>2, OthersStayQueued, Zenon
<1>4. /\ r \in [AllLoops -> Seq(Functors)] /\ r[l] = Tail(queue[l])
      /\ \A k \in AllLoops : k # l => r[k] = queue[k]
  BY <1>2, <1>3, Zenon
<1>5. /\ DOMAIN w = {"map", "st", "q", "bad", "room", "lost"} /\ w.map = connections_
      /\ w.st = state /\ w.q = r /\ w.lost = lost
  BY <1>2, Zenon
<1>6. c \in Conns
  BY <1>3 DEF Functors
<1> HIDE DEF w, r, e
<1>7. \A d \in In(queue[Main]) : d # e => d \in In(r[Main])
  BY <1>2, <1>3, <1>4, Zenon
<1>8. \A d : Removal(d).f = "removeConnectionInLoop" /\ Removal(d).c = d
  BY DEF Removal, Functor
<1>9. ASSUME NEW v, Intact(v), Becomes(v) PROVE LossInv'
  BY <1>1, <1>9, BecomesIntact, Zenon DEF LossInv
<1>10. CASE e.f = "removeConnectionInLoop" /\ Becomes(removeConnectionInLoop(w, c))
  <2> DEFINE v == removeConnectionInLoop(w, c)
  <2>1. /\ DOMAIN v = {"map", "st", "q", "bad", "room", "lost"} /\ v.map = connections_ \ {c}
        /\ v.st = state /\ v.q = r /\ v.lost = lost
    BY <1>5, Zenon DEF removeConnectionInLoop
  <2> HIDE DEF v
  <2>2. ASSUME NEW d \in connections_ \ {c}, state[d] = "Disconnected"
        PROVE  Removal(d) \in In(r[Main]) \cup lost
    <3>1. Removal(d) \in In(queue[Main]) \cup lost /\ Removal(d) # e
      BY <1>2, <1>8, <2>2, Zenon DEF Lossless
    <3> QED
      BY <1>7, <3>1, Zenon
  <2>3. Lossless(connections_ \ {c}, state, r, lost)
    BY <1>2, <1>4, <2>2, Zenon DEF Lossless
  <2>4. Intact(v)
    BY <2>1, <2>3, Zenon DEF Intact
  <2> QED
    BY <1>9, <1>10, <2>4, Zenon DEF v
<1>11. CASE e.f # "removeConnectionInLoop"
  <2>1. ASSUME NEW d \in connections_, state[d] = "Disconnected"
        PROVE  Removal(d) \in In(r[Main]) \cup lost
    <3>1. Removal(d) \in In(queue[Main]) \cup lost /\ Removal(d) # e
      BY <1>2, <1>8, <1>11, <2>1, Zenon DEF Lossless
    <3> QED
      BY <1>7, <3>1, Zenon
  <2>2. Lossless(connections_, state, r, lost)
    BY <1>2, <1>4, <2>1, Zenon DEF Lossless
  <2>3. Intact(w)
    BY <1>5, <2>2, Zenon DEF Intact
  <2>4. CASE \E v \in connectEstablished(w, c, l) : Becomes(v)
    BY <1>6, <1>9, <2>3, <2>4, EstablishedKeepsIntact, Zenon
  <2>5. CASE Becomes(forceCloseInLoop(w, c, l))
    <3>1. CASE Destroyed(c)
      <4> DEFINE v == [w EXCEPT !.bad = "TcpConnection.cpp:655"]
      <4>1. Becomes(v)
        BY <2>5, <3>1, Zenon DEF forceCloseInLoop
      <4>2. /\ DOMAIN v = {"map", "st", "q", "bad", "room", "lost"} /\ v.map = connections_
            /\ v.st = state /\ v.q = r /\ v.lost = lost
        BY <1>5, Zenon
      <4> HIDE DEF v
      <4>3. Intact(v)
        BY <2>2, <4>2, Zenon DEF Intact
      <4> QED
        BY <1>9, <4>1, <4>3, Zenon
    <3>2. CASE ~Destroyed(c)
      <4>1. Becomes(handle_ep_hup(w, c, l))
        BY <2>5, <3>2, Zenon DEF forceCloseInLoop
      <4>2. Intact(handle_ep_hup(w, c, l))
        BY <1>6, <2>3, HupKeepsIntact, Zenon
      <4> QED
        BY <1>9, <4>1, <4>2, Zenon
    <3> QED
      BY <3>1, <3>2, Zenon
  <2> QED
    BY <1>1, <1>11, <2>4, <2>5, Zenon
<1> QED
  BY <1>1, <1>10, <1>11, Zenon

\* A connection is accepted.
LEMMA AcceptKeepsRemovals ==
    ASSUME LossInv, NewConnection
    PROVE  LossInv'
<1> DEFINE c == accepted + 1
           l == IF loops = <<>> THEN Main ELSE loops[NextLoop + 1]
<1>0. PICK room \in BOOLEAN :
          Settles(c, l, [World(room) EXCEPT !.st[c] = "Connecting", !.map = @ \cup {c}])
  BY Zenon DEF NewConnection, Settles
<1> DEFINE w == [World(room) EXCEPT !.st[c] = "Connecting", !.map = @ \cup {c}]
           s == [state EXCEPT ![c] = "Connecting"]
           lp == [loopOf EXCEPT ![c] = l]
<1>1. /\ accepted < MaxConns /\ accepted' = c /\ next' = NextLoop /\ loopOf' = lp /\ loops' = loops
      /\ IF l = Main THEN \E v \in connectEstablished(w, c, l) : Becomes(v)
         ELSE Becomes(queueInLoop(w, l, Functor("connectEstablished", c)))
  BY <1>0, Zenon DEF NewConnection, Settles
<1>2. /\ loops \in Pools /\ next \in Nat /\ accepted \in Nat /\ loopOf \in [Conns -> AllLoops]
      /\ Lossless(connections_, state, queue, lost) /\ state \in [Conns -> States]
      /\ connections_ \subseteq Conns /\ queue \in [AllLoops -> Seq(Functors)]
      /\ World(room).map = connections_ /\ World(room).st = state /\ World(room).q = queue
      /\ World(room).lost = lost
      /\ DOMAIN World(room) = {"map", "st", "q", "bad", "room", "lost"}
  BY WorldIntact, Zenon DEF LossInv, Lossless
<1>3. NextLoop \in Nat /\ l \in AllLoops
  BY <1>2, PickedLoop, Zenon
<1>4. c \in Conns /\ c \in Nat
  BY <1>1, <1>2, ServerAssumption DEF Conns
<1> HIDE DEF c, l
<1>5. lp \in [Conns -> AllLoops]
  BY <1>2, <1>3, <1>4, Zenon
<1>6. /\ DOMAIN w = {"map", "st", "q", "bad", "room", "lost"} /\ w.map = connections_ \cup {c}
      /\ w.st = s /\ w.q = queue /\ w.lost = lost
  BY <1>2, Zenon
<1>7. /\ s[c] = "Connecting" /\ s \in [Conns -> States]
      /\ \A d \in Conns : d # c => s[d] = state[d]
  <2>1. "Connecting" \in States
    BY Zenon DEF States
  <2> QED
    BY <1>2, <1>4, <2>1, Zenon
<1>8. s[c] # "Disconnected"
  BY <1>7
<1> HIDE DEF w, s, lp
<1>9. Lossless(connections_ \cup {c}, s, queue, lost)
  <2>1. connections_ \cup {c} \subseteq Conns
    BY <1>2, <1>4, Zenon
  <2>2. ASSUME NEW d \in connections_ \cup {c}, s[d] = "Disconnected"
        PROVE  Removal(d) \in In(queue[Main]) \cup lost
    <3>1. d \in connections_ /\ d \in Conns /\ d # c
      BY <1>2, <1>8, <2>2, Zenon
    <3> QED
      BY <1>2, <1>7, <2>2, <3>1, Zenon DEF Lossless
  <2> QED
    BY <1>2, <1>7, <2>1, <2>2, Zenon DEF Lossless
<1>10. Intact(w)
  BY <1>6, <1>9, Zenon DEF Intact
<1>11. ASSUME NEW v, Intact(v), Becomes(v) PROVE LossInv'
  BY <1>1, <1>2, <1>3, <1>4, <1>5, <1>11, BecomesIntact, Zenon
<1>12. CASE l = Main
  BY <1>1, <1>4, <1>10, <1>11, <1>12, EstablishedKeepsIntact, Zenon
<1>13. CASE l # Main
  <2> DEFINE e == Functor("connectEstablished", c)
             v == queueInLoop(w, l, e)
  <2>1. Becomes(v)
    BY <1>1, <1>13, Zenon
  <2>2. e \in Functors
    BY <1>4 DEF Functors, Functor
  <2> HIDE DEF e
  <2>3. Intact(v)
    BY <1>3, <1>10, <2>2, PushKeepsIntact, Zenon
  <2> QED
    BY <1>11, <2>1, <2>3, Zenon
<1> QED
  BY <1>12, <1>13, Zenon

\* handle_sig_int closes a connection, or asks its loop to, and erases it.
LEMMA CloseKeepsRemovals ==
    ASSUME LossInv, NEW c \in Conns, CloseAndErase(c)
    PROVE  LossInv'
<1>0. PICK room \in BOOLEAN :
          Becomes([forceClose(World(room), c, Main) EXCEPT !.map = @ \ {c}])
  BY Zenon DEF CloseAndErase
<1> DEFINE w == forceClose(World(room), c, Main)
           v == [w EXCEPT !.map = @ \ {c}]
<1>1. Becomes(v) /\ UNCHANGED <<loops, next, accepted, loopOf>>
  BY <1>0, Zenon DEF CloseAndErase, server
<1>2. /\ Intact(World(room)) /\ DOMAIN World(room) = {"map", "st", "q", "bad", "room", "lost"}
      /\ loopOf[c] \in AllLoops
  BY WorldIntact, Zenon DEF LossInv, Intact
<1>3. Intact(w)
  <2>1. CASE loopOf[c] = Main
    <3>1. w = handle_ep_hup(World(room), c, Main)
      BY <2>1, Zenon DEF forceClose
    <3> QED
      BY <1>2, <3>1, HupKeepsIntact, Zenon
  <2>2. CASE loopOf[c] # Main
    <3> DEFINE e == Functor("forceCloseInLoop", c)
               l == loopOf[c]
    <3>1. w = queueInLoop(World(room), l, e)
      BY <2>2, Zenon DEF forceClose
    <3>2. e \in Functors
      BY DEF Functors, Functor
    <3> HIDE DEF w, e
    <3>3. Intact(w)
      BY <1>2, <3>1, <3>2, PushKeepsIntact, Zenon
    <3> QED
      BY <3>3, Zenon DEF w
  <2> QED
    BY <2>1, <2>2, Zenon
<1> HIDE DEF w
<1>4. /\ DOMAIN v = {"map", "st", "q", "bad", "room", "lost"} /\ v.map = w.map \ {c}
      /\ v.st = w.st /\ v.q = w.q /\ v.lost = w.lost
  BY <1>3, Zenon DEF Intact
<1> HIDE DEF v
<1>5. Lossless(w.map \ {c}, w.st, w.q, w.lost)
  BY <1>3, Zenon DEF Intact, Lossless
<1>6. Intact(v)
  BY <1>4, <1>5, Zenon DEF Intact
<1> QED
  BY <1>1, <1>6, BecomesIntact, Zenon DEF LossInv

\* A step of the program keeps every removal that is due.
LEMMA NextKeepsRemovals ==
    ASSUME LossInv, [Next]_vars
    PROVE  LossInv'
<1>1. ASSUME UNCHANGED <<loops, next, accepted, loopOf, connections_, state, queue, lost>>
      PROVE  LossInv'
  BY <1>1, Zenon DEF LossInv
<1>2. CASE Start
  BY <1>1, <1>2, Zenon DEF Start
<1>3. CASE HandleRead \/ AcceptDone \/ HandleSigInt \/ SigIntDone
  BY <1>1, <1>3, Zenon DEF HandleRead, AcceptDone, HandleSigInt, SigIntDone, server
<1>4. ASSUME NEW l \in AllLoops, Poll(l) \/ EventsDone(l) \/ Drained(l) PROVE LossInv'
  BY <1>1, <1>4, Zenon DEF Poll, EventsDone, Drained, server
<1>5. ASSUME NEW l \in AllLoops, NEW c \in Conns, ConnectionEvent(l, c) PROVE LossInv'
  <2>1. PICK room \in BOOLEAN : Becomes(handle_ep_hup(World(room), c, l))
    BY <1>5, Zenon DEF ConnectionEvent
  <2>2. UNCHANGED <<loops, next, accepted, loopOf>> /\ Intact(handle_ep_hup(World(room), c, l))
    BY <1>5, WorldIntact, HupKeepsIntact, Zenon DEF ConnectionEvent, server
  <2> QED
    BY <2>1, <2>2, BecomesIntact, Zenon DEF LossInv
<1>6. ASSUME NEW c \in Conns, Hold(c) PROVE LossInv'
  BY <1>1, <1>6, Zenon DEF Hold, server
<1>7. ASSUME NEW c \in Conns, UserForceClose(c) PROVE LossInv'
  <2> DEFINE e == Functor("forceCloseInLoop", c)
             l == loopOf[c]
  <2>1. PICK room \in BOOLEAN : Becomes(queueInLoop(World(room), l, e))
    BY <1>7, Zenon DEF UserForceClose
  <2>2. e \in Functors
    BY DEF Functors, Functor
  <2>3. l \in AllLoops /\ Intact(World(room)) /\ UNCHANGED <<loops, next, accepted, loopOf>>
    BY <1>7, WorldIntact, Zenon DEF LossInv, UserForceClose, server
  <2> HIDE DEF e, l
  <2>4. Intact(queueInLoop(World(room), l, e))
    BY <2>2, <2>3, PushKeepsIntact, Zenon
  <2> QED
    BY <2>1, <2>3, <2>4, BecomesIntact, Zenon DEF LossInv
<1>8. CASE UNCHANGED vars
  BY <1>1, <1>8, Zenon DEF vars, server
<1>9. CASE MainStep
  BY <1>3, <1>9, AcceptKeepsRemovals, CloseKeepsRemovals, Zenon DEF MainStep
<1>10. CASE \E l \in AllLoops : LoopStep(l)
  BY <1>4, <1>5, <1>10, FunctorKeepsRemovals, Zenon DEF LoopStep
<1> QED
  BY <1>2, <1>6, <1>7, <1>8, <1>9, <1>10, Zenon DEF Next, Exited

\* No removal is lost between the loops but by a full queue: a connection that
\* handle_ep_hup made Disconnected in an I/O loop and that is still in connections_ has its
\* removeConnectionInLoop queued in the main loop (TcpServer.cpp:86), unless that push gave
\* up (queue.h:39), in every execution, interrupted or not.
THEOREM NoRemovalLost ==
    Spec => [](\A c \in connections_ :
                   state[c] = "Disconnected" =>
                       Removal(c) \in In(queue[Main]) \/ Removal(c) \in lost)
<1>1. Init => LossInv
  <2> SUFFICES ASSUME Init PROVE LossInv
    OBVIOUS
  <2>1. /\ loops \in Pools /\ next = 0 /\ accepted = 0 /\ connections_ = {}
        /\ state = [c \in Conns |-> "none"] /\ loopOf = [c \in Conns |-> Main]
        /\ queue = [l \in AllLoops |-> <<>>] /\ lost = {}
    BY Zenon DEF Init
  <2>2. 0 \in Nat /\ <<>> \in Seq(Functors)
    OBVIOUS
  <2>3. "none" \in States /\ Main \in AllLoops
    BY Zenon DEF States, AllLoops
  <2> QED
    BY <2>1, <2>2, <2>3, Zenon DEF LossInv, Lossless
<1>2. LossInv /\ [Next]_vars => LossInv'
  BY NextKeepsRemovals, Zenon
<1>3. LossInv => \A c \in connections_ :
                     state[c] = "Disconnected" =>
                         Removal(c) \in In(queue[Main]) \/ Removal(c) \in lost
  BY Zenon DEF LossInv, Lossless
<1> QED
  BY <1>1, <1>2, <1>3, PTL DEF Spec
=============================================================================
