--------------------------- MODULE MCHttpsClient ---------------------------
(* An instance of the clients for model checking. *)
EXTENDS HttpsClient

Setup(ssl, retry_on, close) ==
    [is_http |-> ssl /\ ~retry_on /\ ~close, enable_ssl_ |-> ssl, retry_ |-> retry_on,
     close_callback |-> close]

\* A client that reconnects, plain and with TLS, and the one of an http_client.
Clients == {Setup(FALSE, TRUE, TRUE), Setup(TRUE, TRUE, TRUE), Setup(TRUE, FALSE, FALSE)}
=============================================================================
