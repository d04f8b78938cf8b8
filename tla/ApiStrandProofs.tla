--------------------------- MODULE ApiStrandProofs ---------------------------
(***************************************************************************)
(* The strand executes one handler at a time, for every set of workers and *)
(* of requests.  What makes it inductive is the invoker: it exists once    *)
(* while the strand is locked, in the queue of the io_context or in the    *)
(* hands of one worker, and only that worker executes anything.            *)
(***************************************************************************)
EXTENDS ApiStrand, TLAPS

\* The program starts with an idle pool and a free strand.
LEMMA Initially == Init => IInv
<1> SUFFICES ASSUME Init PROVE IInv
  OBVIOUS
<1>1. <<>> \in Seq(Jobs)
  OBVIOUS
<1>2. TypeOK
  BY <1>1 DEF Init, TypeOK
<1>3. OneInvoker
  BY DEF Init, OneInvoker
<1> QED  BY <1>2, <1>3 DEF IInv

\* Every step of a worker keeps the types.
LEMMA TypesKept == ASSUME TypeOK, [Next]_vars PROVE TypeOK'
<1> USE JobsAssumption
<1>1. CASE UNCHANGED vars
  BY <1>1 DEF TypeOK, vars
<1>2. ASSUME NEW w \in Workers, NEW r \in Requests, Call(w, r) PROVE TypeOK'
  <2>1. <<r>> \in Seq(Jobs) /\ Append(waiting, r) \in Seq(Jobs)
    <3>1. waiting \in Seq(Jobs) /\ r \in Jobs
      BY DEF TypeOK, Jobs
    <3> QED  BY <3>1
  <2>2. CASE DispatchInline(w, r)
    BY <1>2, <2>1, <2>2 DEF TypeOK, Call, DispatchInline
  <2>3. CASE DispatchQueued(w, r, "returning")
    BY <1>2, <2>1, <2>3 DEF TypeOK, Call, DispatchQueued
  <2> QED  BY <1>2, <2>2, <2>3 DEF Call
<1>3. ASSUME NEW w \in Workers, Expire(w) PROVE TypeOK'
  <2>1. <<Tick>> \in Seq(Jobs) /\ Append(waiting, Tick) \in Seq(Jobs)
    <3>1. waiting \in Seq(Jobs) /\ Tick \in Jobs
      BY DEF TypeOK, Jobs
    <3> QED  BY <3>1
  <2>2. CASE DispatchInline(w, Tick)
    BY <1>3, <2>1, <2>2 DEF TypeOK, Expire, DispatchInline
  <2>3. CASE DispatchQueued(w, Tick, "idle")
    BY <1>3, <2>1, <2>3 DEF TypeOK, Expire, DispatchQueued
  <2> QED  BY <1>3, <2>2, <2>3 DEF Expire
<1>4. ASSUME NEW w \in Workers, TakeInvoker(w) PROVE TypeOK'
  BY <1>4 DEF TypeOK, TakeInvoker, answerVars
<1>5. ASSUME NEW w \in Workers, StartJob(w) PROVE TypeOK'
  <2>1. Head(ready) \in Jobs /\ Tail(ready) \in Seq(Jobs)
    <3>1. ready \in Seq(Jobs) /\ ready # <<>>
      BY <1>5 DEF StartJob, TypeOK
    <3> QED  BY <3>1
  <2> QED  BY <1>5, <2>1 DEF TypeOK, StartJob, answerVars
<1>6. ASSUME NEW w \in Workers, EndRequest(w) PROVE TypeOK'
  BY <1>6 DEF TypeOK, EndRequest, strandVars, Jobs
<1>7. ASSUME NEW w \in Workers, EndTick(w) PROVE TypeOK'
  BY <1>7 DEF TypeOK, EndTick, strandVars, answerVars
<1>8. ASSUME NEW w \in Workers, LeaveStrand(w) PROVE TypeOK'
  BY <1>8 DEF TypeOK, LeaveStrand, answerVars
<1>9. ASSUME NEW w \in Workers, Return(w) PROVE TypeOK'
  BY <1>9 DEF TypeOK, Return, strandVars
<1> QED
  BY <1>1, <1>2, <1>3, <1>4, <1>5, <1>6, <1>7, <1>8, <1>9 DEF Next, Work

\* A dispatch that finds the strand free makes its worker the one invoker.
LEMMA InlineKeeps ==
  ASSUME IInv, NEW w \in Workers, NEW j \in Jobs, DispatchInline(w, j)
  PROVE  OneInvoker'
  BY DEF IInv, TypeOK, OneInvoker, DispatchInline

\* A dispatch that finds it locked leaves the invoker alone.
LEMMA QueuedKeeps ==
  ASSUME IInv, NEW w \in Workers, NEW j \in Jobs, at[w] = "idle",
         NEW next \in {"idle", "returning"}, DispatchQueued(w, j, next)
  PROVE  OneInvoker'
  BY DEF IInv, TypeOK, OneInvoker, DispatchQueued

\* No step makes a second invoker.
LEMMA InvokerKept == ASSUME IInv, [Next]_vars PROVE OneInvoker'
<1> USE JobsAssumption
<1>1. CASE UNCHANGED vars
  BY <1>1 DEF IInv, OneInvoker, vars
<1>2. ASSUME NEW w \in Workers, NEW r \in Requests, Call(w, r)
      PROVE  OneInvoker'
  BY <1>2, InlineKeeps, QueuedKeeps DEF Call, Jobs
<1>3. ASSUME NEW w \in Workers, Expire(w) PROVE OneInvoker'
  BY <1>3, InlineKeeps, QueuedKeeps DEF Expire, Jobs
<1>4. ASSUME NEW w \in Workers, TakeInvoker(w) PROVE OneInvoker'
  BY <1>4 DEF IInv, TypeOK, OneInvoker, TakeInvoker
<1>5. ASSUME NEW w \in Workers, StartJob(w) PROVE OneInvoker'
  BY <1>5 DEF IInv, TypeOK, OneInvoker, StartJob
<1>6. ASSUME NEW w \in Workers, EndRequest(w) PROVE OneInvoker'
  BY <1>6 DEF IInv, TypeOK, OneInvoker, EndRequest, strandVars
<1>7. ASSUME NEW w \in Workers, EndTick(w) PROVE OneInvoker'
  BY <1>7 DEF IInv, TypeOK, OneInvoker, EndTick, strandVars
<1>8. ASSUME NEW w \in Workers, LeaveStrand(w) PROVE OneInvoker'
  BY <1>8 DEF IInv, TypeOK, OneInvoker, LeaveStrand
<1>9. ASSUME NEW w \in Workers, Return(w) PROVE OneInvoker'
  BY <1>9 DEF IInv, TypeOK, OneInvoker, Return, strandVars
<1> QED
  BY <1>1, <1>2, <1>3, <1>4, <1>5, <1>6, <1>7, <1>8, <1>9 DEF Next, Work

\* The strand has one invoker at most, whoever brings work to it and when.
THEOREM InvokerHolds == Spec => []IInv
<1>1. IInv /\ [Next]_vars => IInv'
  BY TypesKept, InvokerKept DEF IInv
<1> QED  BY Initially, <1>1, PTL DEF Spec

\* The asserts of the request handler and of the ticker hold: a request and a
\* tick never run in the game at the same time, however many workers there are.
THEOREM JobsOneAtATime == Spec => []OneAtATime
<1>1. IInv => OneAtATime
  BY DEF IInv, OneInvoker, OneAtATime
<1> QED  BY InvokerHolds, <1>1, PTL
-----------------------------------------------------------------------------
(* The order of execution.                                                 *)

\* n counts what of the history a was asked for up to each place of the queue
\* q, when the first m of a are executed: a place is a tick, or the next of a.
Counts(n, q, a, m) ==
    /\ n \in [0 .. Len(q) -> 0 .. Len(a)]
    /\ n[0] = m /\ n[Len(q)] = Len(a)
    /\ \A k \in 1 .. Len(q) : \/ q[k] = Tick /\ n[k] = n[k - 1]
                              \/ q[k] # Tick /\ n[k] = n[k - 1] + 1 /\ a[n[k]] = q[k]

\* The requests in the queue q are what of a comes after its first m.
Remains(q, a, m) == \E n : Counts(n, q, a, m)

Begins(e, a) == Len(e) <= Len(a) /\ \A k \in 1 .. Len(e) : e[k] = a[k]

LEMMA SequenceFacts ==
    ASSUME NEW S, NEW s \in Seq(S)
    PROVE  /\ Len(s) \in Nat /\ DOMAIN s = 1 .. Len(s)
           /\ \A k \in 1 .. Len(s) : s[k] \in S
           /\ \A j \in S : /\ Append(s, j) \in Seq(S)
                           /\ Len(Append(s, j)) = Len(s) + 1
                           /\ Append(s, j)[Len(s) + 1] = j
                           /\ \A k \in 1 .. Len(s) : Append(s, j)[k] = s[k]
           /\ s # <<>> => /\ Len(s) > 0 /\ Head(s) = s[1]
                          /\ Tail(s) \in Seq(S) /\ Len(Tail(s)) = Len(s) - 1
                          /\ \A k \in 1 .. Len(s) - 1 : Tail(s)[k] = s[k + 1]
OBVIOUS

\* What is noted of a job of a sequence.
LEMMA NotedFacts ==
    ASSUME NEW s \in Seq(Requests), NEW j \in Jobs
    PROVE  /\ Noted(s, j) \in Seq(Requests)
           /\ j = Tick => Noted(s, j) = s
           /\ j # Tick => j \in Requests /\ Noted(s, j) = Append(s, j)
BY DEF Noted, Jobs

\* A job dispatched to the strand comes last in the queue and in the history.
LEMMA RemainsWithLast ==
    ASSUME NEW q \in Seq(Jobs), NEW a \in Seq(Requests), NEW m \in Nat,
           NEW j \in Jobs, Remains(q, a, m)
    PROVE  Remains(Append(q, j), Noted(a, j), m)
<1> DEFINE Q == Append(q, j)
           A == Noted(a, j)
<1>1. PICK n : Counts(n, q, a, m) BY DEF Remains
<1>2. /\ Len(q) \in Nat /\ Len(a) \in Nat /\ Len(Q) = Len(q) + 1
      /\ \A k \in 1 .. Len(q) : Q[k] = q[k]
      /\ Q[Len(q) + 1] = j
  BY SequenceFacts
<1>3. /\ A \in Seq(Requests) /\ Len(A) \in Nat
      /\ j = Tick => A = a
      /\ j # Tick => /\ Len(A) = Len(a) + 1 /\ A[Len(a) + 1] = j
                     /\ \A k \in 1 .. Len(a) : A[k] = a[k]
  <2>1. A \in Seq(Requests) BY NotedFacts
  <2>2. Len(A) \in Nat BY <2>1, SequenceFacts
  <2>3. CASE j = Tick BY <2>1, <2>2, <2>3, NotedFacts
  <2>4. CASE j # Tick
    <3>1. j \in Requests /\ A = Append(a, j) BY <2>4, NotedFacts
    <3> HIDE DEF A
    <3> QED BY <2>1, <2>2, <2>4, <3>1, SequenceFacts
  <2> QED BY <2>3, <2>4
<1> HIDE DEF Q, A
<1> DEFINE N == [k \in 0 .. Len(q) + 1 |-> IF k <= Len(q) THEN n[k] ELSE Len(A)]
<1>4. /\ n \in [0 .. Len(q) -> 0 .. Len(a)] /\ n[0] = m /\ n[Len(q)] = Len(a)
      /\ \A k \in 1 .. Len(q) :
            \/ q[k] = Tick /\ n[k] = n[k - 1]
            \/ q[k] # Tick /\ n[k] = n[k - 1] + 1 /\ a[n[k]] = q[k]
  BY <1>1 DEF Counts
<1>5. Len(a) <= Len(A) BY <1>2, <1>3
<1>6. N \in [0 .. Len(Q) -> 0 .. Len(A)]
  BY <1>2, <1>3, <1>4, <1>5
<1>7. /\ N[0] = m /\ N[Len(q) + 1] = Len(A)
      /\ \A k \in 0 .. Len(q) : N[k] = n[k]
  BY <1>2, <1>4
<1> HIDE DEF N
<1>8. ASSUME NEW k \in 1 .. Len(Q)
      PROVE  \/ Q[k] = Tick /\ N[k] = N[k - 1]
             \/ Q[k] # Tick /\ N[k] = N[k - 1] + 1 /\ A[N[k]] = Q[k]
  <2>1. CASE k = Len(q) + 1
    <3>1. N[k - 1] = Len(a) /\ N[k] = Len(A) /\ Q[k] = j BY <2>1, <1>2, <1>4, <1>7
    <3> QED BY <3>1, <1>3
  <2>2. CASE k # Len(q) + 1
    <3>1. k \in 1 .. Len(q) /\ k - 1 \in 0 .. Len(q) /\ k \in 0 .. Len(q)
      BY <2>2, <1>2
    <3>2. N[k] = n[k] /\ N[k - 1] = n[k - 1] /\ Q[k] = q[k] BY <3>1, <1>2, <1>7
    <3>3. n[k] \in 0 .. Len(a) /\ n[k - 1] \in 0 .. Len(a) BY <3>1, <1>4
    <3>4. n[k] = n[k - 1] + 1 => n[k] \in 1 .. Len(a) BY <3>3, <1>2
    <3>5. n[k] = n[k - 1] + 1 => A[n[k]] = a[n[k]] BY <3>4, <1>3
    <3> QED BY <3>1, <3>2, <3>5, <1>4
  <2> QED BY <2>1, <2>2
<1>9. Counts(N, Q, A, m) BY <1>2, <1>6, <1>7, <1>8 DEF Counts
<1> QED BY <1>9 DEF Remains, Q, A

\* The first job of the queue is a tick or the next request of the history.
LEMMA RemainsWithoutFirst ==
    ASSUME NEW q \in Seq(Jobs), NEW a \in Seq(Requests), NEW m \in Nat,
           q # <<>>, Remains(q, a, m)
    PROVE  \/ Head(q) = Tick /\ Remains(Tail(q), a, m)
           \/ /\ Head(q) # Tick /\ m + 1 <= Len(a) /\ Head(q) = a[m + 1]
              /\ Remains(Tail(q), a, m + 1)
<1> DEFINE Q == Tail(q)
<1>1. PICK n : Counts(n, q, a, m) BY DEF Remains
<1>2. /\ Len(q) \in Nat /\ Len(a) \in Nat /\ Len(Q) = Len(q) - 1 /\ Len(q) > 0
      /\ \A k \in 1 .. Len(q) - 1 : Q[k] = q[k + 1]
      /\ Head(q) = q[1]
  BY SequenceFacts
<1> HIDE DEF Q
<1>3. /\ n \in [0 .. Len(q) -> 0 .. Len(a)] /\ n[0] = m /\ n[Len(q)] = Len(a)
      /\ \A k \in 1 .. Len(q) :
            \/ q[k] = Tick /\ n[k] = n[k - 1]
            \/ q[k] # Tick /\ n[k] = n[k - 1] + 1 /\ a[n[k]] = q[k]
  BY <1>1 DEF Counts
<1> DEFINE N == [k \in 0 .. Len(q) - 1 |-> n[k + 1]]
<1>4. /\ N \in [0 .. Len(Q) -> 0 .. Len(a)] /\ N[Len(Q)] = Len(a) /\ N[0] = n[1]
      /\ \A k \in 0 .. Len(Q) : N[k] = n[k + 1]
  BY <1>2, <1>3
<1> HIDE DEF N
<1>5. ASSUME NEW k \in 1 .. Len(Q)
      PROVE  \/ Q[k] = Tick /\ N[k] = N[k - 1]
             \/ Q[k] # Tick /\ N[k] = N[k - 1] + 1 /\ a[N[k]] = Q[k]
  <2>1. k + 1 \in 1 .. Len(q) /\ k \in 0 .. Len(Q) /\ k - 1 \in 0 .. Len(Q)
    BY <1>2
  <2>2. N[k] = n[k + 1] /\ N[k - 1] = n[k] /\ Q[k] = q[k + 1]
    BY <2>1, <1>2, <1>4
  <2> QED BY <2>1, <2>2, <1>3
<1>6. Counts(N, Q, a, n[1]) BY <1>4, <1>5 DEF Counts
<1>7. n[1] \in 0 .. Len(a) /\ 1 \in 1 .. Len(q) BY <1>2, <1>3
<1>8. \/ Head(q) = Tick /\ n[1] = m
      \/ Head(q) # Tick /\ n[1] = m + 1 /\ a[m + 1] = Head(q)
  BY <1>2, <1>3, <1>7
<1> QED BY <1>2, <1>6, <1>7, <1>8 DEF Remains, Q

\* The queue of the strand, in the order of execution.
Queue == ready \o waiting

\* What was asked for is what was executed and then what is queued.
InOrder ==
    /\ asked \in Seq(Requests) /\ executed \in Seq(Requests)
    /\ ~locked => ready = <<>> /\ waiting = <<>>
    /\ Begins(executed, asked)
    /\ Remains(Queue, asked, Len(executed))

\* How the queue changes.
LEMMA QueueFacts ==
    ASSUME NEW s \in Seq(Jobs), NEW t \in Seq(Jobs)
    PROVE  /\ s \o t \in Seq(Jobs)
           /\ \A j \in Jobs : s \o Append(t, j) = Append(s \o t, j)
           /\ s # <<>> => /\ s \o t # <<>> /\ Head(s \o t) = Head(s)
                          /\ Tail(s) \o t = Tail(s \o t)
           /\ s = <<>> => s \o t = t
           /\ t = <<>> => s \o t = s
OBVIOUS

\* A dispatch asks for one job more and puts it last.
LEMMA DispatchKeepsOrder ==
    ASSUME IInv, InOrder, NEW w, NEW j \in Jobs, NEW next,
           DispatchInline(w, j) \/ DispatchQueued(w, j, next)
    PROVE  InOrder'
<1> USE DEF InOrder
<1>1. ready \in Seq(Jobs) /\ waiting \in Seq(Jobs) BY DEF IInv, TypeOK
<1>2. /\ executed' = executed /\ asked' = Noted(asked, j) /\ locked'
      /\ Queue' = Append(Queue, j)
  <2>1. CASE DispatchInline(w, j)
    <3>1. ready = <<>> /\ waiting = <<>> BY <2>1 DEF DispatchInline
    <3>2. ready' = <<j>> /\ waiting' = <<>> BY <2>1, <3>1 DEF DispatchInline
    <3>3. <<j>> \in Seq(Jobs) /\ <<>> \in Seq(Jobs) /\ Append(<<>>, j) = <<j>>
      OBVIOUS
    <3>4. Queue = <<>> /\ Queue' = <<j>> BY <3>1, <3>2, <3>3, QueueFacts DEF Queue
    <3> QED BY <2>1, <3>3, <3>4 DEF DispatchInline
  <2>2. CASE DispatchQueued(w, j, next)
    BY <1>1, <2>2, QueueFacts DEF DispatchQueued, Queue
  <2> QED BY <2>1, <2>2
<1>3. /\ asked' \in Seq(Requests) /\ Begins(executed, asked')
  <2>1. asked' \in Seq(Requests) BY <1>2, NotedFacts
  <2>2. CASE j = Tick
    <3>1. asked' = asked BY <1>2, <2>2, NotedFacts
    <3> QED BY <2>1, <3>1
  <2>3. CASE j # Tick
    <3>1. j \in Requests /\ asked' = Append(asked, j) BY <1>2, <2>3, NotedFacts
    <3>2. /\ Len(executed) \in Nat /\ Len(asked) \in Nat /\ Len(asked') = Len(asked) + 1
          /\ \A k \in 1 .. Len(asked) : asked'[k] = asked[k]
      BY <3>1, SequenceFacts
    <3>3. /\ Len(executed) <= Len(asked)
          /\ \A k \in 1 .. Len(executed) : executed[k] = asked[k]
      BY DEF Begins
    <3>4. Begins(executed, asked') BY <3>2, <3>3 DEF Begins
    <3> QED BY <2>1, <3>4
  <2> QED BY <2>1, <2>2, <2>3
<1>4. Remains(Queue', asked', Len(executed))
  <2>1. Queue \in Seq(Jobs) BY <1>1, QueueFacts DEF Queue
  <2>2. Len(executed) \in Nat BY SequenceFacts
  <2> QED BY <1>2, <2>1, <2>2, RemainsWithLast
<1> QED BY <1>2, <1>3, <1>4

\* A job that is started is the next of what was asked for.
LEMMA StartKeepsOrder ==
    ASSUME IInv, InOrder, NEW w \in Workers, StartJob(w)
    PROVE  InOrder'
<1> USE DEF InOrder
<1> DEFINE j == Head(ready)
           m == Len(executed)
<1>1. /\ ready \in Seq(Jobs) /\ waiting \in Seq(Jobs) /\ ready # <<>> /\ j \in Jobs
      /\ ready' = Tail(ready) /\ waiting' = waiting /\ asked' = asked /\ locked' = locked
      /\ executed' = Noted(executed, j)
  <2>1. /\ ready \in Seq(Jobs) /\ waiting \in Seq(Jobs) /\ ready # <<>>
        /\ ready' = Tail(ready) /\ waiting' = waiting /\ asked' = asked
        /\ locked' = locked /\ executed' = Noted(executed, j)
    BY DEF IInv, TypeOK, StartJob
  <2>2. j \in Jobs BY <2>1
  <2> QED BY <2>1, <2>2
<1>2. locked BY DEF StartJob, IInv, OneInvoker
<1>3. /\ Queue \in Seq(Jobs) /\ Queue # <<>> /\ Head(Queue) = j /\ Queue' = Tail(Queue)
  BY <1>1, QueueFacts DEF Queue
<1>4. m \in Nat /\ Len(asked) \in Nat BY SequenceFacts
<1>5. \/ j = Tick /\ Remains(Queue', asked, m)
      \/ /\ j # Tick /\ m + 1 <= Len(asked) /\ j = asked[m + 1]
         /\ Remains(Queue', asked, m + 1)
  BY <1>3, <1>4, RemainsWithoutFirst
<1> HIDE DEF j
<1>6. executed' \in Seq(Requests) BY <1>1, NotedFacts
<1>7. CASE j = Tick
  <2>1. executed' = executed BY <1>1, <1>7, NotedFacts
  <2> QED BY <1>1, <1>2, <1>5, <1>7, <2>1
<1>8. CASE j # Tick
  <2>1. j \in Requests /\ executed' = Append(executed, j) BY <1>1, <1>8, NotedFacts
  <2>2. /\ Len(executed') = m + 1 /\ executed'[m + 1] = j
        /\ \A k \in 1 .. m : executed'[k] = executed[k]
    BY <2>1, SequenceFacts
  <2> HIDE DEF m
  <2>3. /\ m <= Len(asked) /\ \A k \in 1 .. m : executed[k] = asked[k]
    BY DEF Begins, m
  <2>4. \A k \in 1 .. m + 1 : executed'[k] = asked[k] BY <1>4, <1>5, <1>8, <2>2, <2>3
  <2>5. Begins(executed', asked) BY <1>5, <1>8, <2>2, <2>4 DEF Begins
  <2> QED BY <1>1, <1>2, <1>5, <1>6, <1>8, <2>2, <2>5
<1> QED BY <1>7, <1>8

\* No step changes the order, or executes anything twice.
LEMMA OrderKept == ASSUME IInv, InOrder, [Next]_vars PROVE InOrder'
<1>1. ASSUME NEW w \in Workers, NEW r \in Requests, Call(w, r) PROVE InOrder'
  BY <1>1, DispatchKeepsOrder DEF Call, Jobs
<1>2. ASSUME NEW w \in Workers, Expire(w) PROVE InOrder'
  BY <1>2, DispatchKeepsOrder DEF Expire, Jobs
<1>3. ASSUME NEW w \in Workers, StartJob(w) PROVE InOrder'
  BY <1>3, StartKeepsOrder
<1>4. ASSUME NEW w \in Workers, LeaveStrand(w) PROVE InOrder'
  <2>1. /\ ready = <<>> /\ ready' = waiting /\ waiting' = <<>>
        /\ locked' = (waiting # <<>>)
        /\ asked' = asked /\ executed' = executed
    BY <1>4 DEF LeaveStrand, historyVars
  <2>2. ready \in Seq(Jobs) /\ waiting \in Seq(Jobs) BY DEF IInv, TypeOK
  <2>3. Queue = waiting /\ Queue' = waiting
    <3>1. <<>> \in Seq(Jobs) OBVIOUS
    <3> QED BY <2>1, <2>2, <3>1, QueueFacts DEF Queue
  <2> QED BY <2>1, <2>3 DEF InOrder
<1>5. ASSUME NEW w \in Workers,
             TakeInvoker(w) \/ EndRequest(w) \/ EndTick(w) \/ Return(w)
      PROVE  InOrder'
  <2>1. UNCHANGED <<locked, ready, waiting, asked, executed>>
    BY <1>5 DEF TakeInvoker, EndRequest, EndTick, Return, strandVars, historyVars
  <2> QED BY <2>1 DEF InOrder, Queue
<1>6. CASE UNCHANGED vars
  BY <1>6 DEF InOrder, Queue, vars
<1> QED BY <1>1, <1>2, <1>3, <1>4, <1>5, <1>6 DEF Next, Work

LEMMA OrderInitially == Init => InOrder
<1> SUFFICES ASSUME Init PROVE InOrder
  OBVIOUS
<1>1. /\ ready = <<>> /\ waiting = <<>> /\ asked = <<>> /\ executed = <<>>
      /\ <<>> \in Seq(Requests) /\ <<>> \in Seq(Jobs) /\ Len(<<>>) = 0
  BY DEF Init
<1>2. Queue = <<>> BY <1>1, QueueFacts DEF Queue
<1>3. Counts([k \in 0 .. 0 |-> 0], <<>>, <<>>, 0) BY <1>1 DEF Counts
<1>4. Remains(Queue, asked, Len(executed)) BY <1>1, <1>2, <1>3 DEF Remains
<1> QED BY <1>1, <1>4 DEF InOrder, Begins

\* Every request is executed at most once, and in the order in which they were
\* dispatched, for every number of workers and of requests.
THEOREM OrderIsKept == Spec => []ExecutedInOrder
<1>1. InOrder => ExecutedInOrder
  <2> SUFFICES ASSUME InOrder PROVE ExecutedInOrder
    OBVIOUS
  <2> DEFINE e == executed
             a == asked
  <2>1. e \in Seq(Requests) /\ a \in Seq(Requests) BY DEF InOrder
  <2>2. /\ Len(e) \in Nat /\ Len(a) \in Nat /\ Len(e) <= Len(a)
        /\ \A k \in 1 .. Len(e) : e[k] = a[k]
    BY <2>1 DEF InOrder, Begins
  <2> HIDE DEF e, a
  <2>3. e = SubSeq(a, 1, Len(e)) BY <2>1, <2>2
  <2> QED BY <2>2, <2>3 DEF e, a, ExecutedInOrder
<1> QED BY OrderInitially, OrderKept, InvokerHolds, <1>1, PTL DEF Spec

-----------------------------------------------------------------------------
(* One worker.                                                             *)

\* What keeps a single worker safe: the strand is locked only while it is in
\* it, so its calls find it free and come back with resp written.
ComputedOnTheSpot ==
    /\ waiting = <<>> /\ ~posted
    /\ locked => \E w \in Workers : at[w] = "in strand"
    /\ \A w \in Workers :
        /\ at[w] = "idle" => request[w] = NoJob
        /\ at[w] = "returning" => request[w] \in filled
        /\ at[w] = "in strand" =>
               \/ job[w] = NoJob /\ request[w] # NoJob /\ ready = <<request[w]>>
               \/ job[w] = NoJob /\ request[w] = NoJob /\ ready = <<Tick>>
               \/ job[w] = Tick /\ request[w] = NoJob /\ ready = <<>>
               \/ job[w] # NoJob /\ job[w] = request[w] /\ ready = <<>>
               \/ job[w] = NoJob /\ request[w] \in filled \cup {NoJob}
                                /\ ready = <<>>
    /\ \A r \in Answered : answered[r]

LEMMA AloneInitially == Init => ComputedOnTheSpot
  BY DEF Init, ComputedOnTheSpot, Answered

\* The queue of an invoker that one job was dispatched to.
LEMMA OneJob == ASSUME NEW j PROVE Head(<<j>>) = j /\ Tail(<<j>>) = <<>>
<1>1. <<j>> \in Seq({j}) /\ Len(<<j>>) = 1
  OBVIOUS
<1>2. Len(Tail(<<j>>)) = 0 /\ Tail(<<j>>) \in Seq({j})
  BY <1>1
<1>3. \A s \in Seq({j}) : Len(s) = 0 => s = <<>>
  OBVIOUS
<1> QED  BY <1>1, <1>2, <1>3

\* A single worker that dispatches finds the strand free: it is not in it.
LEMMA AloneDispatches ==
  ASSUME \A v, w \in Workers : v = w, ComputedOnTheSpot,
         NEW w \in Workers, at[w] = "idle"
  PROVE  ~locked
  BY DEF ComputedOnTheSpot

LEMMA AloneKept ==
  ASSUME \A v, w \in Workers : v = w, IInv, ComputedOnTheSpot, [Next]_vars
  PROVE  ComputedOnTheSpot'
<1> USE JobsAssumption
<1>1. CASE UNCHANGED vars
  BY <1>1 DEF ComputedOnTheSpot, Answered, vars
<1>2. ASSUME NEW w \in Workers, NEW r \in Requests, Call(w, r)
      PROVE  ComputedOnTheSpot'
  <2>1. DispatchInline(w, r)
    BY <1>2, AloneDispatches DEF Call, DispatchQueued
  <2>2. job[w] = NoJob /\ r # NoJob
    BY <1>2 DEF Call, IInv, OneInvoker, Jobs
  <2> QED
    BY <1>2, <2>1, <2>2
    DEF ComputedOnTheSpot, Answered, Call, DispatchInline, IInv, TypeOK
<1>3. ASSUME NEW w \in Workers, Expire(w) PROVE ComputedOnTheSpot'
  <2>1. DispatchInline(w, Tick)
    BY <1>3, AloneDispatches DEF Expire, DispatchQueued
  <2>2. job[w] = NoJob
    BY <1>3 DEF Expire, IInv, OneInvoker
  <2> QED
    BY <1>3, <2>1, <2>2
    DEF ComputedOnTheSpot, Answered, Expire, DispatchInline, IInv, TypeOK
<1>4. ASSUME NEW w \in Workers PROVE ~TakeInvoker(w)
  BY DEF TakeInvoker, ComputedOnTheSpot
<1>5. ASSUME NEW w \in Workers, StartJob(w) PROVE ComputedOnTheSpot'
  <2>1. ready # <<>> /\ job[w] = NoJob /\ at[w] = "in strand"
    BY <1>5 DEF StartJob
  <2>2. \/ request[w] # NoJob /\ ready = <<request[w]>>
        \/ request[w] = NoJob /\ ready = <<Tick>>
    BY <2>1 DEF ComputedOnTheSpot, Jobs
  <2>3. \/ Head(ready) # NoJob /\ Head(ready) = request[w] /\ Tail(ready) = <<>>
        \/ Head(ready) = Tick /\ request[w] = NoJob /\ Tail(ready) = <<>>
    BY <2>2, OneJob
  <2> QED
    BY <1>5, <2>1, <2>3
    DEF ComputedOnTheSpot, Answered, StartJob, IInv, TypeOK, answerVars
<1>6. ASSUME NEW w \in Workers, EndRequest(w) PROVE ComputedOnTheSpot'
  BY <1>6
  DEF ComputedOnTheSpot, Answered, EndRequest, Alive, IInv, TypeOK, OneInvoker,
      strandVars, Jobs
<1>7. ASSUME NEW w \in Workers, EndTick(w) PROVE ComputedOnTheSpot'
  BY <1>7
  DEF ComputedOnTheSpot, Answered, EndTick, IInv, TypeOK, OneInvoker,
      strandVars, answerVars, Jobs
<1>8. ASSUME NEW w \in Workers, LeaveStrand(w) PROVE ComputedOnTheSpot'
  BY <1>8 DEF ComputedOnTheSpot, Answered, LeaveStrand, IInv, TypeOK, answerVars
<1>9. ASSUME NEW w \in Workers, Return(w) PROVE ComputedOnTheSpot'
  BY <1>9
  DEF ComputedOnTheSpot, Answered, Return, IInv, TypeOK, OneInvoker, strandVars
<1> QED
  BY <1>1, <1>2, <1>3, <1>4, <1>5, <1>6, <1>7, <1>8, <1>9 DEF Next, Work

\* With one worker, as on a machine with one processor, every answer is what
\* the execution of its request made: resp is written before it is returned.
THEOREM AloneAnswersAreComputed ==
  ASSUME \A v, w \in Workers : v = w
  PROVE  Spec => []AnswerIsComputed
<1>1. IInv /\ ComputedOnTheSpot /\ [Next]_vars => ComputedOnTheSpot'
  BY AloneKept
<1>2. ComputedOnTheSpot => AnswerIsComputed
  BY DEF ComputedOnTheSpot, AnswerIsComputed
<1> QED  BY AloneInitially, InvokerHolds, <1>1, <1>2, PTL DEF Spec
=============================================================================
