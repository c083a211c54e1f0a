---------------------------- MODULE HttpsClient ----------------------------
(***************************************************************************)
(* http_client (src/https/https_client.cpp) over the TcpClient of one URL. *)
(* get and post, called in the loop's thread, replace the callback, reset  *)
(* the parser and queue a request; on_connection sends what is queued;     *)
(* on_message feeds the parser and calls the callback.                     *)
(*                                                                         *)
(* A request is a number, its response two pieces, <<r, "head">> and       *)
(* <<r, "tail">>, that the server sends in the order of the requests and   *)
(* that arrive one or more at a time.  llhttp, which is external, reads a  *)
(* stream of responses that begins with a head and finds an error in any   *)
(* other.  A client that is no http_client has a user thread of its own    *)
(* and makes no request.                                                   *)
(***************************************************************************)
EXTENDS TcpClient

CONSTANT MaxRequests   \* bound: calls of get and post

VARIABLES
    request_bufs,  \* requests not sent, the latest first
    resp_cb,       \* the request whose callback is installed
    parser,        \* pieces read since resetParser
    stream,        \* pieces the server has still to send
    answers,       \* calls of a callback: whose it was, and what it was given
    made,          \* requests made
    overlap        \* history: a request was made while another had no answer

http == <<request_bufs, resp_cb, parser, stream, answers, made, overlap>>
vars == <<clientVars, http>>

Init ==
    /\ ClientInit
    /\ request_bufs = <<>> /\ resp_cb = 0 /\ parser = <<>> /\ stream = <<>>
    /\ answers = <<>> /\ made = 0 /\ overlap = FALSE

Response(r) == <<<<r, "head">>, <<r, "tail">>>>

\* The responses to requests, one after the other.
Responses(rs) == [i \in 1..2 * Len(rs) |-> Response(rs[(i + 1) \div 2])[1 + ((i + 1) % 2)]]


\* get and post: connect is called unless it has been before, maybe in a timer's callback.
Request ==
    /\ At("idle") /\ c.is_http /\ made < MaxRequests
    /\ made' = made + 1 /\ overlap' = (overlap \/ made > Len(answers))
    /\ parser' = <<>> /\ resp_cb' = made + 1
    /\ request_bufs' = <<made + 1>> \o request_bufs
    /\ IF connect_ THEN UNCHANGED <<c, connect_, lpc, timerfd, connects>>
       ELSE /\ connect_' = TRUE /\ c' = [c EXCEPT !.connect_ = TRUE]
            /\ lpc' = "start" /\ connects' = connects + 1
            /\ timerfd' \in {timerfd, "walk"}
    /\ UNCHANGED <<upc, queue, given_up, stops, stream, answers>>

\* connectEstablished calls on_connection, which sends the queue, front first.
OnConnection ==
    /\ HandshakeDone
    /\ stream' = stream \o Responses(request_bufs)
    /\ request_bufs' = <<>>
    /\ UNCHANGED <<resp_cb, parser, answers, made, overlap>>

\* llhttp_execute over all that was read since the parser was reset.
ParseError(pieces) == pieces[1][2] # "head"
MsgComplete(pieces) == \E i \in DOMAIN pieces : pieces[i][2] = "tail"

\* Mutant: the callback is called as soon as something has arrived.
OnMessageEarly(n) ==
    LET pieces == parser \o SubSeq(stream, 1, n) IN
    /\ At("idle") /\ c.connection_ /\ n <= Len(stream)
    /\ stream' = SubSeq(stream, n + 1, Len(stream))
    /\ answers' = Append(answers, [cb |-> resp_cb, got |-> pieces])
    /\ parser' = <<>>
    /\ UNCHANGED <<c, lpc, queue, prospect, user, request_bufs, resp_cb, made, overlap>>

\* n pieces arrive.  After an error the loop's thread calls shutdown on a connection in
\* use, and does not come back from it.
OnMessage(n) ==
    LET pieces == parser \o SubSeq(stream, 1, n) IN
    /\ At("idle") /\ c.connection_ /\ n <= Len(stream)
    /\ stream' = SubSeq(stream, n + 1, Len(stream))
    /\ IF ParseError(pieces)
       THEN c' = Fails(c, "https_client.cpp:280") /\ UNCHANGED <<parser, answers>>
       ELSE IF MsgComplete(pieces)
       THEN /\ answers' = Append(answers, [cb |-> resp_cb, got |-> pieces])
            /\ parser' = <<>> /\ UNCHANGED c
       ELSE parser' = pieces /\ UNCHANGED <<c, answers>>
    /\ UNCHANGED <<lpc, queue, prospect, user, request_bufs, resp_cb, made, overlap>>

Idle == Finished /\ UNCHANGED vars

Next ==
    \/ ~c.is_http /\ UserStep /\ UNCHANGED http
    \/ ClientStep /\ UNCHANGED http
    \/ OnConnection
    \/ Request
    \/ \E n \in 1..4 : OnMessage(n)
    \/ Idle

Spec == Init /\ [][Next]_vars

\* A call that has begun goes on; the loop runs its functors, and a timer the timerfd is
\* set for; a connect and a handshake in progress end, one way or the other; the server
\* answers what it is asked.
FairSpec ==
    /\ Spec
    /\ WF_vars((Start_ \/ Stop_) /\ UNCHANGED http) /\ WF_vars(LoopStep /\ UNCHANGED http)
    /\ WF_vars(timerfd = "set" /\ TimerStep /\ UNCHANGED http)
    /\ WF_vars((ConnectSucceeds \/ ConnectFails) /\ UNCHANGED http)
    /\ WF_vars(OnConnection \/ (HandshakeFails /\ UNCHANGED http))
    /\ WF_vars(\E n \in 1..4 : OnMessage(n))

-----------------------------------------------------------------------------

\* A callback is given the response to its own request, whole and nothing else,
\* however it is cut up on its way, as long as no request is made while another has
\* no answer: there is one resp_cb and one parser (lines 124 to 128).
AnswerIsOwn ==
    ~overlap => \A i \in DOMAIN answers : answers[i].got = Response(answers[i].cb)

=============================================================================
