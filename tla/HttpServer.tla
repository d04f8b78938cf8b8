----------------------------- MODULE HttpServer -----------------------------
(***************************************************************************)
(* The HTTP server: a listener that makes a session for every connection   *)
(* it accepts, and sessions that read a request, hand it to the request    *)
(* handler and write its response, one after the other, for as long as the *)
(* client keeps the connection.  A session lives as long as an operation   *)
(* of it is pending, for the operation's handler holds it.                 *)
(*                                                                         *)
(* Each client makes one connection.  It may send requests before earlier  *)
(* ones are answered, close the connection in order or have it reset; what *)
(* it sent before that may still be read.                                  *)
(***************************************************************************)
EXTENDS Naturals, Sequences

CONSTANTS
    Clients,     \* bound: the clients
    MaxRequests, \* bound: the requests of a client
    MayReset,    \* a client may reset its connection, not only close it
    Kinds        \* the kinds of requests the clients send

\* What becomes of the connection after the answer.  broken: no HTTP request at all;
\* throwing: one for which the request handler throws, as it does for an
\* address it cannot decode or a file it cannot open.
ASSUME ServerAssumption ==
    /\ MaxRequests \in Nat /\ MayReset \in BOOLEAN
    /\ Kinds \subseteq {"keep", "close", "broken", "throwing"}

VARIABLES
    peer,       \* of each client: none, open, finished or reset
    sent,       \* the requests of each client
    queued,     \* the connections in the queue of the acceptor
    listener,   \* accepting: an async_accept is pending; idle, or failed
    reading,    \* of each client's session: an async_read is pending
    writing,    \* the requests whose responses are being written
    read,       \* the number of requests read
    deadline,   \* expires_after was called on the session's stream
    answers,    \* history: the requests the responses written were for
    up          \* no exception has ended the process

clientVars  == <<peer, sent>>
sessionVars == <<reading, writing, read, deadline, answers>>
vars == <<peer, sent, queued, listener, sessionVars, up>>

Init ==
    /\ peer = [c \in Clients |-> "none"]
    /\ sent = [c \in Clients |-> <<>>]
    /\ queued = {}
    /\ listener = "accepting"
    /\ reading = [c \in Clients |-> FALSE]
    /\ writing = [c \in Clients |-> {}]
    /\ read = [c \in Clients |-> 0]
    /\ deadline = [c \in Clients |-> FALSE]
    /\ answers = [c \in Clients |-> <<>>]
    /\ up = TRUE
-----------------------------------------------------------------------------
(* The clients.                                                            *)

Connect(c) ==
    /\ peer[c] = "none"
    /\ peer' = [peer EXCEPT ![c] = "open"]
    /\ queued' = queued \cup {c}
    /\ UNCHANGED <<sent, listener, sessionVars, up>>

Send(c, kind) ==
    /\ peer[c] = "open" /\ Len(sent[c]) < MaxRequests
    /\ sent' = [sent EXCEPT ![c] = Append(@, kind)]
    /\ UNCHANGED <<peer, queued, listener, sessionVars, up>>

\* The client closes the connection, or is gone.
Finish(c) ==
    /\ peer[c] = "open"
    /\ peer' = [peer EXCEPT ![c] = "finished"]
    /\ UNCHANGED <<sent, queued, listener, sessionVars, up>>

Reset(c) ==
    /\ MayReset
    /\ peer[c] \in {"open", "finished"}
    /\ peer' = [peer EXCEPT ![c] = "reset"]
    /\ UNCHANGED <<sent, queued, listener, sessionVars, up>>
-----------------------------------------------------------------------------
(* The listener.                                                           *)

\* Slip: the read is started without a deadline.
ReadForEver(c) ==
    /\ reading' = [reading EXCEPT ![c] = TRUE]
    /\ UNCHANGED deadline

\* The time a client is given counts from here.
Read(c) ==
    /\ reading' = [reading EXCEPT ![c] = TRUE]
    /\ deadline' = [deadline EXCEPT ![c] = TRUE]

\* Slip: no further connection is asked for.
DoAcceptOnce == "idle"

DoAccept == "accepting"

\* The session is run and the next connection asked for.
OnAccept(c) ==
    /\ up /\ listener = "accepting" /\ c \in queued
    /\ queued' = queued \ {c}
    /\ Read(c)
    /\ listener' = DoAccept
    /\ UNCHANGED <<clientVars, writing, read, answers, up>>

\* An error is logged, and no further connection is asked for.
OnAcceptError ==
    /\ up /\ listener = "accepting"
    /\ listener' = "failed"
    /\ UNCHANGED <<clientVars, queued, sessionVars, up>>
-----------------------------------------------------------------------------
(* A session.                                                              *)

\* The session ends: nothing of it is pending, its socket is closed with it.
End(c) ==
    /\ reading' = [reading EXCEPT ![c] = FALSE]
    /\ writing' = [writing EXCEPT ![c] = {}]

\* The response of the n-th request begins to be written.
Write(c, n) == writing' = [writing EXCEPT ![c] = @ \cup {n}]

\* The address of the client is asked for, which a connection that was reset has
\* no more, the handler is called, and its response written.  An exception of
\* either leaves io_context::run: on a thread that RunWorkers started it ends the
\* process, on the main thread it waits for those threads to end, which go on.
Respond(c, n) ==
    IF peer[c] = "reset" \/ sent[c][n] = "throwing"
    THEN up' \in BOOLEAN /\ UNCHANGED writing
    ELSE Write(c, n) /\ UNCHANGED up

\* A request was read, from the socket or from what buffer_ held: n are read
\* now, and "more" says whether a read is pending still.
Receive(c, n, more) ==
    /\ up /\ reading[c]
    /\ read[c] < Len(sent[c]) /\ sent[c][read[c] + 1] # "broken"
    /\ reading' = [reading EXCEPT ![c] = more]
    /\ read' = [read EXCEPT ![c] = n]
    /\ Respond(c, read[c] + 1)
    /\ UNCHANGED <<clientVars, queued, listener, deadline, answers>>

\* Slip: the next request is read while this one is answered.
OnReadAndGoOn(c) == Receive(c, read[c] + 1, TRUE)

\* Slip: what was read stays in the buffer.
OnReadAndKeep(c) == Receive(c, read[c], FALSE)

OnRead(c) == Receive(c, read[c] + 1, FALSE)

\* The client closed the connection and nothing of it is left to read.
OnEndOfStream(c) ==
    /\ up /\ reading[c] /\ peer[c] = "finished" /\ read[c] = Len(sent[c])
    /\ End(c)
    /\ UNCHANGED <<clientVars, queued, listener, read, deadline, answers, up>>

OnReadError(c) ==
    /\ up /\ reading[c]
    /\ \/ peer[c] = "reset"
       \/ read[c] < Len(sent[c]) /\ sent[c][read[c] + 1] = "broken"
    /\ End(c)
    /\ UNCHANGED <<clientVars, queued, listener, read, deadline, answers, up>>

\* The operation that is pending at the deadline ends with an error.
OnTimeout(c) ==
    /\ up /\ deadline[c] /\ (reading[c] \/ writing[c] # {})
    /\ End(c)
    /\ UNCHANGED <<clientVars, queued, listener, read, deadline, answers, up>>

\* A client that has closed its side for good resets the connection when it is
\* written to; one that only has nothing more to send does not.
Written(c, n) ==
    /\ up /\ n \in writing[c] /\ peer[c] # "reset"
    /\ answers' = [answers EXCEPT ![c] = Append(@, n)]
    /\ \/ UNCHANGED peer
       \/ peer[c] = "finished" /\ peer' = [peer EXCEPT ![c] = "reset"]

\* Slip: need_eof is not looked at.
NeedEofNever(c, n) == FALSE

\* A response asks to close if its request did.  The default-made one of a
\* handler that is yet to run always does, having no length: it is an answer to
\* a request of kind close.
NeedEof(c, n) == sent[c][n] = "close"

\* Close, or on to the next request.
OnWrite(c, n) ==
    /\ Written(c, n)
    /\ \/ NeedEof(c, n) /\ End(c) /\ UNCHANGED deadline
       \/ /\ ~NeedEof(c, n)
          /\ writing' = [writing EXCEPT ![c] = @ \ {n}]
          /\ Read(c)
    /\ UNCHANGED <<sent, queued, listener, read, up>>

OnWriteError(c) ==
    /\ up /\ writing[c] # {} /\ peer[c] = "reset"
    /\ End(c)
    /\ UNCHANGED <<clientVars, queued, listener, read, deadline, answers, up>>

Serve(c) ==
    \/ OnRead(c) \/ OnEndOfStream(c) \/ OnReadError(c) \/ OnTimeout(c)
    \/ OnWriteError(c) \/ \E n \in 1 .. MaxRequests : OnWrite(c, n)

Next ==
    \/ OnAcceptError
    \/ \E c \in Clients :
        \/ Connect(c) \/ Finish(c) \/ Reset(c)
        \/ \E kind \in Kinds : Send(c, kind)
        \/ OnAccept(c)
        \/ Serve(c)

\* The io_context runs what is ready, and its timers expire.
Spec ==
    /\ Init /\ [][Next]_vars
    /\ \A c \in Clients : WF_vars(OnAccept(c)) /\ WF_vars(OnTimeout(c))
-----------------------------------------------------------------------------
(* Properties.                                                             *)

TypeOK ==
    /\ peer \in [Clients -> {"none", "open", "finished", "reset"}]
    /\ sent \in [Clients -> Seq(Kinds)]
    /\ queued \subseteq Clients
    /\ reading \in [Clients -> BOOLEAN] /\ deadline \in [Clients -> BOOLEAN]
    /\ \A c \in Clients : /\ read[c] \in 0 .. Len(sent[c])
                          /\ writing[c] \subseteq 1 .. read[c]
                          /\ answers[c] \in Seq(1 .. read[c])
    /\ listener \in {"accepting", "idle", "failed"} /\ up \in BOOLEAN

\* A client gets its answers in the order of its requests, one for each,
\* however many it sends ahead.
AnswersInOrder ==
    \A c \in Clients : \A k \in DOMAIN answers[c] : answers[c][k] = k

\* The answer to a request that closes the connection is the last one: the
\* session reads and writes nothing after it.
CloseIsTheLast ==
    \A c \in Clients : \A k \in DOMAIN answers[c] :
        sent[c][answers[c][k]] = "close" =>
            k = Len(answers[c]) /\ ~reading[c] /\ writing[c] = {}

\* A client that says nothing, or takes nothing, does not hold its session for
\* ever: every operation begun on its connection ends.
SilentSessionsEnd ==
    \A c \in Clients : /\ (reading[c] /\ up) ~> (~reading[c] \/ ~up)
                       /\ (writing[c] # {} /\ up) ~> (writing[c] = {} \/ ~up)

\* A connection does not wait in the queue while the listener is at work.
EveryoneIsAccepted ==
    \A c \in Clients :
        (c \in queued) ~> (c \notin queued \/ listener = "failed" \/ ~up)

\* Comment of OnRead ("a normal situation: the client has closed the
\* connection"): no client ends the process by going.
ClosingIsNormal == up
=============================================================================
