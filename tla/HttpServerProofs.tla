-------------------------- MODULE HttpServerProofs --------------------------
(***************************************************************************)
(* The answers of a connection, for any number of clients and of requests  *)
(* sent ahead.  A session has one operation pending at a time: it reads    *)
(* when it has answered all it has read, and it writes the answer to the   *)
(* last request it has read.  This, with what it is before it is accepted  *)
(* and after it has answered a request that closes, is inductive.          *)
(***************************************************************************)
EXTENDS HttpServer, TLAPS

Shapes ==
    /\ peer \in [Clients -> {"none", "open", "finished", "reset"}]
    /\ sent \in [Clients -> Seq(Kinds)]
    /\ queued \subseteq Clients
    /\ reading \in [Clients -> BOOLEAN] /\ deadline \in [Clients -> BOOLEAN]
    /\ writing \in [Clients -> SUBSET Nat]
    /\ read \in [Clients -> Nat]
    /\ answers \in [Clients -> Seq(Nat)]
    /\ listener \in {"accepting", "idle", "failed"} /\ up \in BOOLEAN

\* Nothing has happened on a connection that is not accepted.
Pristine(c) ==
    /\ peer[c] = "none" => c \notin queued
    /\ peer[c] = "none" \/ c \in queued =>
        /\ read[c] = 0 /\ ~reading[c] /\ writing[c] = {}
        /\ answers[c] = <<>>

\* One operation at a time, and what is answered is counted.
Turns(c) ==
    /\ reading[c] => writing[c] = {} /\ Len(answers[c]) = read[c]
    /\ writing[c] # {} => writing[c] = {read[c]} /\ read[c] = Len(answers[c]) + 1
    /\ Len(answers[c]) <= read[c] /\ read[c] <= Len(sent[c])
    /\ \A k \in 1 .. Len(answers[c]) : answers[c][k] = k

\* Of what is answered only the last may close, and nothing is pending then.
Closed(c) ==
    \A k \in 1 .. Len(answers[c]) : sent[c][k] = "close" =>
        k = Len(answers[c]) /\ ~reading[c] /\ writing[c] = {}

\* The inductive invariant.
InvOf(c) == Pristine(c) /\ Turns(c) /\ Closed(c)
IInv == Shapes /\ \A c \in Clients : InvOf(c)

LEMMA InvInitially == Init => IInv
<1> SUFFICES ASSUME Init PROVE IInv
  OBVIOUS
<1>1. Shapes
  BY DEF Init, Shapes
<1>2. ASSUME NEW c \in Clients PROVE InvOf(c)
  BY DEF Init, InvOf, Pristine, Turns, Closed
<1> QED  BY <1>1, <1>2 DEF IInv

\* What a step does not touch keeps its invariant.
LEMMA Untouched ==
  ASSUME NEW d \in Clients, InvOf(d),
         peer'[d] = peer[d], sent'[d] = sent[d], d \in queued' <=> d \in queued,
         reading'[d] = reading[d], writing'[d] = writing[d],
         read'[d] = read[d], answers'[d] = answers[d]
  PROVE  InvOf(d)'
  BY DEF InvOf, Pristine, Turns, Closed

\* The steps of a client.
LEMMA ClientKeeps ==
  ASSUME IInv, NEW c \in Clients,
         Connect(c) \/ Finish(c) \/ Reset(c) \/ \E kind \in Kinds : Send(c, kind)
  PROVE  IInv'
<1> USE DEF IInv, clientVars, sessionVars
<1>1. CASE Connect(c)
  <2>1. Shapes'
    BY <1>1 DEF Connect, Shapes
  <2>2. ASSUME NEW d \in Clients PROVE InvOf(d)'
    <3>1. CASE d = c
      BY <1>1, <3>1 DEF Connect, Shapes, InvOf, Pristine, Turns, Closed
    <3>2. CASE d # c
      BY <1>1, <3>2, Untouched DEF Connect, Shapes
    <3> QED  BY <3>1, <3>2
  <2> QED  BY <2>1, <2>2
<1>2. CASE Finish(c) \/ Reset(c)
  <2>1. Shapes'
    BY <1>2 DEF Finish, Reset, Shapes
  <2>2. ASSUME NEW d \in Clients PROVE InvOf(d)'
    <3>1. CASE d = c
      <4>1. peer[c] # "none" /\ peer'[c] # "none"
        BY <1>2 DEF Finish, Reset, Shapes
      <4>2. UNCHANGED <<sent, queued, reading, writing, read, answers>>
        BY <1>2 DEF Finish, Reset
      <4> QED  BY <3>1, <4>1, <4>2 DEF InvOf, Pristine, Turns, Closed
    <3>2. CASE d # c
      BY <1>2, <3>2, Untouched DEF Finish, Reset, Shapes
    <3> QED  BY <3>1, <3>2
  <2> QED  BY <2>1, <2>2
<1>3. ASSUME NEW kind \in Kinds, Send(c, kind) PROVE IInv'
  <2>1. sent[c] \in Seq(Kinds) /\ sent'[c] = Append(sent[c], kind)
    BY <1>3 DEF Send, Shapes
  <2>2. Shapes'
    BY <1>3, <2>1 DEF Send, Shapes
  <2>3. /\ Len(sent'[c]) = Len(sent[c]) + 1
        /\ \A k \in 1 .. Len(sent[c]) : sent'[c][k] = sent[c][k]
    BY <2>1
  <2>4. ASSUME NEW d \in Clients PROVE InvOf(d)'
    <3>1. CASE d = c
      <4>1. UNCHANGED <<peer, queued, reading, writing, read, answers>>
        BY <1>3 DEF Send
      <4>2. Len(answers[c]) \in Nat /\ Len(sent[c]) \in Nat /\ read[c] \in Nat
        BY DEF Shapes
      <4> QED  BY <2>3, <3>1, <4>1, <4>2 DEF InvOf, Pristine, Turns, Closed
    <3>2. CASE d # c
      BY <1>3, <3>2, Untouched DEF Send, Shapes
    <3> QED  BY <3>1, <3>2
  <2> QED  BY <2>2, <2>4
<1> QED  BY <1>1, <1>2, <1>3

\* The session is run: it reads its first request.
LEMMA AcceptKeeps == ASSUME IInv, NEW c \in Clients, OnAccept(c) PROVE IInv'
<1> USE DEF IInv, OnAccept, Read, clientVars
<1>1. Shapes'
  BY DEF Shapes, DoAccept
<1>2. ASSUME NEW d \in Clients PROVE InvOf(d)'
  <2>1. CASE d = c
    BY <2>1 DEF Shapes, InvOf, Pristine, Turns, Closed
  <2>2. CASE d # c
    BY <2>2, Untouched DEF Shapes
  <2> QED  BY <2>1, <2>2
<1> QED  BY <1>1, <1>2

\* A request is read: its answer is the one that is written, if any is.
LEMMA ReadKeeps == ASSUME IInv, NEW c \in Clients, OnRead(c) PROVE IInv'
<1> DEFINE n == read[c] + 1
<1>1. Respond(c, n)
  BY DEF OnRead, Receive
<1>2. \/ writing' = writing
      \/ writing' = [writing EXCEPT ![c] = @ \cup {n}]
  BY <1>1 DEF Respond, Write
<1>3. up' \in BOOLEAN
  BY <1>1 DEF Respond, IInv, Shapes
<1>4. /\ reading[c] /\ read[c] < Len(sent[c])
      /\ reading' = [reading EXCEPT ![c] = FALSE]
      /\ read' = [read EXCEPT ![c] = n]
      /\ UNCHANGED <<peer, sent, queued, listener, deadline, answers>>
  BY DEF OnRead, Receive, clientVars
<1>5. Shapes'
  <2>1. read[c] \in Nat /\ n \in Nat
    BY DEF IInv, Shapes
  <2>2. read' \in [Clients -> Nat] /\ reading' \in [Clients -> BOOLEAN]
    BY <1>4, <2>1 DEF IInv, Shapes
  <2>3. writing' \in [Clients -> SUBSET Nat]
    <3>1. writing \in [Clients -> SUBSET Nat]
      BY DEF IInv, Shapes
    <3>2. writing[c] \cup {n} \in SUBSET Nat
      BY <2>1, <3>1
    <3> HIDE DEF n
    <3> QED  BY <1>2, <3>1, <3>2
  <2> QED  BY <1>3, <1>4, <2>2, <2>3 DEF IInv, Shapes
<1>6. writing[c] = {} /\ Len(answers[c]) = read[c] /\ peer[c] # "none" /\ c \notin queued
  BY <1>4 DEF IInv, InvOf, Pristine, Turns
<1>7. /\ ~reading'[c] /\ read'[c] = n /\ writing'[c] \in {{}, {n}}
      /\ read[c] \in Nat /\ Len(sent[c]) \in Nat /\ Len(answers[c]) \in Nat
  BY <1>2, <1>4, <1>6 DEF IInv, Shapes
<1>8. ASSUME NEW d \in Clients PROVE InvOf(d)'
  <2>1. CASE d = c
    <3>1. Pristine(c)'
      BY <1>4, <1>6 DEF Pristine
    <3>2. Turns(c)'
      BY <1>4, <1>6, <1>7 DEF IInv, InvOf, Turns
    <3>3. Closed(c)'
      BY <1>4 DEF IInv, InvOf, Closed
    <3> QED  BY <2>1, <3>1, <3>2, <3>3 DEF InvOf
  <2>2. CASE d # c
    BY <1>2, <1>4, <2>2, Untouched DEF IInv, Shapes
  <2> QED  BY <2>1, <2>2
<1> QED  BY <1>5, <1>8 DEF IInv

\* A session that ends, whatever its reason.
LEMMA EndKeeps ==
  ASSUME IInv, NEW c \in Clients,
         OnEndOfStream(c) \/ OnReadError(c) \/ OnTimeout(c) \/ OnWriteError(c)
  PROVE  IInv'
<1>1. /\ reading' = [reading EXCEPT ![c] = FALSE]
      /\ writing' = [writing EXCEPT ![c] = {}]
      /\ UNCHANGED <<peer, sent, queued, listener, read, deadline, answers, up>>
  BY DEF OnEndOfStream, OnReadError, OnTimeout, OnWriteError, End, clientVars
<1>2. Shapes'
  BY <1>1 DEF IInv, Shapes
<1>3. ~reading'[c] /\ writing'[c] = {}
  BY <1>1 DEF IInv, Shapes
<1>4. ASSUME NEW d \in Clients PROVE InvOf(d)'
  <2>1. CASE d = c
    BY <1>1, <1>3, <2>1 DEF IInv, InvOf, Pristine, Turns, Closed
  <2>2. CASE d # c
    BY <1>1, <2>2, Untouched DEF IInv, Shapes
  <2> QED  BY <2>1, <2>2
<1> QED  BY <1>2, <1>4 DEF IInv

\* An answer is written: it is the next one, and if it closes the last.
LEMMA WriteKeeps ==
  ASSUME IInv, NEW c \in Clients, NEW n, OnWrite(c, n) PROVE IInv'
<1>1. /\ n \in writing[c]
      /\ answers' = [answers EXCEPT ![c] = Append(@, n)]
      /\ peer' \in {peer, [peer EXCEPT ![c] = "reset"]}
      /\ UNCHANGED <<sent, queued, listener, read, up>>
  BY DEF OnWrite, Written
<1>2. writing[c] = {n} /\ n = read[c] /\ n = Len(answers[c]) + 1 /\ ~reading[c]
  BY <1>1 DEF IInv, InvOf, Turns
<1>3. /\ n \in Nat /\ answers[c] \in Seq(Nat) /\ Len(answers[c]) \in Nat
      /\ Len(sent[c]) \in Nat
  BY <1>2 DEF IInv, Shapes
<1>4. /\ \/ /\ sent[c][n] = "close"
            /\ reading' = [reading EXCEPT ![c] = FALSE] /\ UNCHANGED deadline
         \/ /\ sent[c][n] # "close"
            /\ reading' = [reading EXCEPT ![c] = TRUE]
            /\ deadline' = [deadline EXCEPT ![c] = TRUE]
      /\ writing' = [writing EXCEPT ![c] = {}]
  BY <1>2 DEF OnWrite, NeedEof, End, Read
<1>5. Shapes'
  <2>1. Append(answers[c], n) \in Seq(Nat)
    BY <1>3
  <2>2. answers' \in [Clients -> Seq(Nat)]
    BY <1>1, <2>1 DEF IInv, Shapes
  <2>3. /\ reading' \in [Clients -> BOOLEAN] /\ deadline' \in [Clients -> BOOLEAN]
        /\ writing' \in [Clients -> SUBSET Nat]
    BY <1>4 DEF IInv, Shapes
  <2>4. peer' \in [Clients -> {"none", "open", "finished", "reset"}]
    BY <1>1 DEF IInv, Shapes
  <2> QED  BY <1>1, <2>2, <2>3, <2>4 DEF IInv, Shapes
<1>6. answers'[c] = Append(answers[c], n) /\ writing'[c] = {}
  BY <1>1, <1>4 DEF IInv, Shapes
<1>7. /\ Len(answers'[c]) = n /\ answers'[c][n] = n
      /\ \A k \in 1 .. n - 1 : answers'[c][k] = answers[c][k]
  <2> DEFINE s == answers[c]
  <2>1. s \in Seq(Nat) /\ n = Len(s) + 1 /\ answers'[c] = Append(s, n)
    BY <1>2, <1>3, <1>6
  <2> HIDE DEF s
  <2>2. Len(Append(s, n)) = n /\ Append(s, n)[n] = n
    BY <1>3, <2>1
  <2>3. \A k \in 1 .. n - 1 : Append(s, n)[k] = s[k]
    BY <1>3, <2>1
  <2> QED  BY <2>1, <2>2, <2>3 DEF s
<1>8. ASSUME NEW d \in Clients PROVE InvOf(d)'
  <2>1. CASE d = c
    <3>1. Pristine(c)'
      <4>1. peer[c] # "none" /\ c \notin queued
        BY <1>1 DEF IInv, InvOf, Pristine
      <4> QED  BY <1>1, <4>1 DEF IInv, Shapes, Pristine
    <3>2. Turns(c) /\ Closed(c) /\ Len(answers[c]) = n - 1
      BY <1>2, <1>3 DEF IInv, InvOf
    <3>3. Turns(c)'
      <4>1. \A k \in 1 .. n : answers'[c][k] = k
        <5> SUFFICES ASSUME NEW k \in 1 .. n PROVE answers'[c][k] = k
          OBVIOUS
        <5>1. CASE k = n
          BY <1>7, <5>1
        <5>2. CASE k \in 1 .. n - 1
          BY <1>7, <3>2, <5>2 DEF Turns
        <5> QED  BY <1>3, <5>1, <5>2
      <4>2. sent'[c] = sent[c] /\ read'[c] = n /\ n <= Len(sent[c])
        BY <1>1, <1>2, <3>2 DEF Turns
      <4> QED  BY <1>3, <1>6, <1>7, <4>1, <4>2 DEF Turns
    <3>4. \A k \in 1 .. n - 1 : sent[c][k] # "close"
      <4> SUFFICES ASSUME NEW k \in 1 .. n - 1, sent[c][k] = "close" PROVE FALSE
        OBVIOUS
      <4>1. writing[c] = {} \/ k # Len(answers[c])
        BY <3>2 DEF Closed
      <4> QED  BY <1>2, <3>2 DEF Closed
    <3>5. sent[c][n] = "close" => ~reading'[c]
      BY <1>4 DEF IInv, Shapes
    <3>6. Closed(c)'
      <4> SUFFICES ASSUME NEW k \in 1 .. n, sent[c][k] = "close"
                   PROVE  k = n /\ ~reading'[c]
        BY <1>1, <1>6, <1>7 DEF Closed
      <4>1. k = n
        BY <1>3, <3>4
      <4> QED  BY <3>5, <4>1
    <3> QED  BY <2>1, <3>1, <3>3, <3>6 DEF InvOf
  <2>2. CASE d # c
    BY <1>1, <1>4, <2>2, Untouched DEF IInv, Shapes
  <2> QED  BY <2>1, <2>2
<1> QED  BY <1>5, <1>8 DEF IInv

LEMMA InvKept == IInv /\ [Next]_vars => IInv'
<1> SUFFICES ASSUME IInv, [Next]_vars PROVE IInv'
  OBVIOUS
<1>1. CASE OnAcceptError \/ UNCHANGED vars
  <2>1. Shapes'
    BY <1>1 DEF OnAcceptError, vars, clientVars, sessionVars, IInv, Shapes
  <2>2. UNCHANGED <<peer, sent, queued, reading, writing, read, answers>>
    BY <1>1 DEF OnAcceptError, vars, clientVars, sessionVars
  <2> QED  BY <2>1, <2>2, Untouched DEF IInv
<1> QED  BY <1>1, ClientKeeps, AcceptKeeps, ReadKeeps, EndKeeps, WriteKeeps
            DEF Next, Serve

LEMMA InvImplies == IInv => TypeOK /\ AnswersInOrder /\ CloseIsTheLast
<1> SUFFICES ASSUME IInv PROVE TypeOK /\ AnswersInOrder /\ CloseIsTheLast
  OBVIOUS
<1>1. ASSUME NEW c \in Clients
      PROVE  /\ answers[c] \in Seq(Nat) /\ Len(answers[c]) \in Nat
             /\ DOMAIN answers[c] = 1 .. Len(answers[c])
             /\ \A k \in 1 .. Len(answers[c]) : answers[c][k] = k
  BY DEF IInv, Shapes, InvOf, Turns
<1>2. AnswersInOrder
  BY <1>1 DEF AnswersInOrder
<1>3. CloseIsTheLast
  BY <1>1 DEF CloseIsTheLast, IInv, InvOf, Closed
<1>4. ASSUME NEW c \in Clients
      PROVE  /\ read[c] \in 0 .. Len(sent[c]) /\ writing[c] \subseteq 1 .. read[c]
             /\ answers[c] \in Seq(1 .. read[c])
  <2>1. read[c] \in Nat /\ Len(sent[c]) \in Nat
    BY DEF IInv, Shapes
  <2>2. read[c] \in 0 .. Len(sent[c]) /\ Len(answers[c]) <= read[c]
    BY <2>1 DEF IInv, InvOf, Turns
  <2>3. writing[c] \subseteq 1 .. read[c]
    BY <1>1, <2>1 DEF IInv, InvOf, Turns
  <2>4. \A k \in 1 .. Len(answers[c]) : answers[c][k] \in 1 .. read[c]
    BY <1>1, <2>1, <2>2
  <2> QED  BY <1>1, <2>2, <2>3, <2>4
<1> QED  BY <1>2, <1>3, <1>4 DEF TypeOK, IInv, Shapes

\* Type correctness, which bounds what is read by what was sent.
THEOREM TypeCorrect == Spec => []TypeOK
  BY InvInitially, InvKept, InvImplies, PTL DEF Spec

\* A client gets its answers in the order of its requests, one for each, for any
\* number of clients and of requests sent ahead, resets and timeouts included.
THEOREM AnsweredInOrder == Spec => []AnswersInOrder
  BY InvInitially, InvKept, InvImplies, PTL DEF Spec

\* Nothing follows the answer that closes the connection.
THEOREM NothingAfterClose == Spec => []CloseIsTheLast
  BY InvInitially, InvKept, InvImplies, PTL DEF Spec
=============================================================================
