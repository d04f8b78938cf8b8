------------------------------ MODULE ApiStrand ------------------------------
(***************************************************************************)
(* The strand on which the requests to the API and the ticks of the timer  *)
(* are executed, and the worker threads of the io_context that bring work  *)
(* to it.  RequestHandler::operator() dispatches its handler to the strand *)
(* with references to its own locals, query and resp, and returns *resp:   *)
(* the handler runs at once when the strand is free, and later, on another *)
(* turn, when it is not.                                                   *)
(*                                                                         *)
(* The strand is the one of Boost.Asio: a lock, the queue its invoker is   *)
(* working off, and the queue of the handlers that came meanwhile.         *)
(***************************************************************************)
EXTENDS Naturals, Sequences

CONSTANTS
    Workers,    \* the threads that run the io_context
    Requests,   \* bound: the requests to the API
    Tick        \* the job of the ticker

NoJob == "no job"

Jobs == Requests \cup {Tick}

ASSUME JobsAssumption ==
    /\ Tick \notin Requests
    /\ NoJob \notin Jobs

VARIABLES
    at,         \* where each worker is in its code
    request,    \* the request whose operator() a worker is in, or NoJob
    job,        \* the handler a worker is executing in the strand, or NoJob
    locked,     \* the strand has an invoker, running or posted
    ready,      \* the handlers the invoker works off
    waiting,    \* the handlers dispatched while the strand was locked
    posted,     \* an invoker waits in the queue of the io_context
    todo,       \* the requests that were read and not yet handed over
    filled,     \* the requests whose resp was written while it was alive
    answered,   \* the answers sent: for a request, whether resp was filled
    executed,   \* history: the requests executed in the strand, in order
    asked,      \* history: the requests dispatched to the strand, in order
    armed,      \* the ticker's timer runs
    crashed     \* the process is gone

workerVars  == <<at, request, job>>
strandVars  == <<locked, ready, waiting, posted>>
answerVars  == <<todo, filled, answered>>
historyVars == <<executed, asked>>
vars == <<at, request, job, locked, ready, waiting, posted, todo, filled,
          answered, executed, asked, armed, crashed>>

\* Ticker::Start, which main hands over before the first worker runs, is the
\* first work of the io_context: when a request can come the timer is armed.
Init ==
    /\ at = [w \in Workers |-> "idle"]
    /\ request = [w \in Workers |-> NoJob]
    /\ job = [w \in Workers |-> NoJob]
    /\ locked = FALSE /\ ready = <<>> /\ waiting = <<>> /\ posted = FALSE
    /\ todo = Requests /\ filled = {}
    /\ answered = [r \in {} |-> FALSE]
    /\ executed = <<>> /\ asked = <<>>
    /\ armed = TRUE
    /\ crashed = FALSE

Answered == DOMAIN answered

\* The operator() of a request has not returned: its query and resp exist.
Alive(r) == \E w \in Workers : request[w] = r

\* The histories keep the requests; the ticks have no end.
Noted(history, j) == IF j = Tick THEN history ELSE Append(history, j)
-----------------------------------------------------------------------------
(* Bringing work to the strand.                                            *)

\* dispatch to a free strand: the invoker runs here and now.
DispatchInline(w, j) ==
    /\ ~locked
    /\ locked' = TRUE
    /\ ready' = <<j>>
    /\ at' = [at EXCEPT ![w] = "in strand"]
    /\ asked' = Noted(asked, j)
    /\ UNCHANGED <<job, waiting, posted, filled, answered, executed, crashed>>

\* Slip: what comes last is put first.
QueuedFirst(w, j, next) ==
    /\ locked
    /\ waiting' = <<j>> \o waiting
    /\ at' = [at EXCEPT ![w] = next]
    /\ asked' = Noted(asked, j)
    /\ UNCHANGED <<job, locked, ready, posted, filled, answered, executed,
                   crashed>>

\* dispatch to a busy strand: the handler is kept and dispatch returns.
DispatchQueued(w, j, next) ==
    /\ locked
    /\ waiting' = Append(waiting, j)
    /\ at' = [at EXCEPT ![w] = next]
    /\ asked' = Noted(asked, j)
    /\ UNCHANGED <<job, locked, ready, posted, filled, answered, executed,
                   crashed>>

\* Slip: the handler is called and not dispatched to the strand.
CallOutsideStrand(w, r) ==
    /\ ~crashed /\ at[w] = "idle" /\ r \in todo
    /\ todo' = todo \ {r}
    /\ request' = [request EXCEPT ![w] = r]
    /\ at' = [at EXCEPT ![w] = "in strand"]
    /\ job' = [job EXCEPT ![w] = r]
    /\ UNCHANGED <<strandVars, filled, answered, historyVars, armed, crashed>>

\* A worker calls operator() for a request that was read.
Call(w, r) ==
    /\ ~crashed /\ at[w] = "idle" /\ r \in todo
    /\ todo' = todo \ {r}
    /\ request' = [request EXCEPT ![w] = r]
    /\ UNCHANGED armed
    /\ DispatchInline(w, r) \/ DispatchQueued(w, r, "returning")

\* The timer expires; its handler is bound to the strand.
Expire(w) ==
    /\ ~crashed /\ at[w] = "idle" /\ armed
    /\ armed' = FALSE
    /\ UNCHANGED <<request, todo>>
    /\ DispatchInline(w, Tick) \/ DispatchQueued(w, Tick, "idle")
-----------------------------------------------------------------------------
(* Running in the strand.                                                  *)

StartJob(w) ==
    /\ ~crashed /\ at[w] = "in strand" /\ job[w] = NoJob /\ ready # <<>>
    /\ job' = [job EXCEPT ![w] = Head(ready)]
    /\ ready' = Tail(ready)
    /\ executed' = Noted(executed, Head(ready))
    /\ UNCHANGED <<at, request, locked, waiting, posted, answerVars, asked,
                   armed, crashed>>

\* The handler of a request writes *resp.  If operator() has returned, query
\* and resp are dead: the write goes astray, or the process dies of it.
EndRequest(w) ==
    /\ ~crashed /\ job[w] \in Requests
    /\ job' = [job EXCEPT ![w] = NoJob]
    /\ \/ /\ Alive(job[w])
          /\ filled' = filled \cup {job[w]}
          /\ UNCHANGED crashed
       \/ /\ ~Alive(job[w])
          /\ crashed' \in BOOLEAN
          /\ UNCHANGED filled
    /\ UNCHANGED <<at, request, strandVars, todo, answered, historyVars, armed>>

\* Slip: the tick waits for its timer without leaving the strand.
EndTickHoldingOn(w) ==
    /\ ~crashed /\ job[w] = Tick
    /\ at' = [at EXCEPT ![w] = "idle"]
    /\ armed' = TRUE
    /\ UNCHANGED <<request, job, strandVars, answerVars, historyVars, crashed>>

\* Slip: an exception of the handler is not caught, so OnTick ends early.
EndTickOrThrow(w) ==
    /\ ~crashed /\ job[w] = Tick
    /\ job' = [job EXCEPT ![w] = NoJob]
    /\ armed' \in BOOLEAN
    /\ UNCHANGED <<at, request, strandVars, answerVars, historyVars, crashed>>

\* OnTick: an exception of the handler is swallowed; the timer runs again.
EndTick(w) ==
    /\ ~crashed /\ job[w] = Tick
    /\ job' = [job EXCEPT ![w] = NoJob]
    /\ armed' = TRUE
    /\ UNCHANGED <<at, request, strandVars, answerVars, historyVars, crashed>>

\* Slip: the handlers that came meanwhile are forgotten.
LeaveAndForget(w) ==
    /\ ~crashed /\ at[w] = "in strand" /\ job[w] = NoJob /\ ready = <<>>
    /\ locked' = FALSE
    /\ at' = [at EXCEPT ![w] = IF request[w] = NoJob THEN "idle" ELSE "returning"]
    /\ UNCHANGED <<request, job, ready, waiting, posted, answerVars,
                   historyVars, armed, crashed>>

\* The invoker has worked off its queue: what came meanwhile becomes the next
\* queue, for an invoker that is posted; dispatch returns.
LeaveStrand(w) ==
    /\ ~crashed /\ at[w] = "in strand" /\ job[w] = NoJob /\ ready = <<>>
    /\ ready' = waiting
    /\ waiting' = <<>>
    /\ locked' = (waiting # <<>>)
    /\ posted' = (waiting # <<>>)
    /\ at' = [at EXCEPT ![w] = IF request[w] = NoJob THEN "idle" ELSE "returning"]
    /\ UNCHANGED <<request, job, answerVars, historyVars, armed, crashed>>

\* An idle worker takes the posted invoker.
TakeInvoker(w) ==
    /\ ~crashed /\ at[w] = "idle" /\ posted
    /\ posted' = FALSE
    /\ at' = [at EXCEPT ![w] = "in strand"]
    /\ UNCHANGED <<request, job, locked, ready, waiting, answerVars,
                   historyVars, armed, crashed>>

\* operator() returns *resp, whether a handler has written it or not.
Return(w) ==
    /\ ~crashed /\ at[w] = "returning"
    /\ answered' = [r \in Answered \cup {request[w]} |->
                        IF r = request[w] THEN r \in filled ELSE answered[r]]
    /\ request' = [request EXCEPT ![w] = NoJob]
    /\ at' = [at EXCEPT ![w] = "idle"]
    /\ UNCHANGED <<job, strandVars, todo, filled, historyVars, armed, crashed>>

Work(w) ==
    StartJob(w) \/ EndRequest(w) \/ EndTick(w) \/ LeaveStrand(w) \/ Return(w)

Next ==
    \E w \in Workers : \/ \E r \in Requests : Call(w, r)
                       \/ Expire(w)
                       \/ TakeInvoker(w)
                       \/ Work(w)

\* A worker does not stop in the middle of its code, and the io_context takes
\* its work in turn: a request, a timer or an invoker that keeps waiting for
\* an idle worker is taken.
Spec ==
    /\ Init /\ [][Next]_vars
    /\ \A w \in Workers : WF_vars(Work(w))
    /\ \A r \in Requests : SF_vars(\E w \in Workers : Call(w, r))
    /\ SF_vars(\E w \in Workers : Expire(w))
    /\ SF_vars(\E w \in Workers : TakeInvoker(w))
-----------------------------------------------------------------------------
(* Properties.                                                             *)

TypeOK ==
    /\ at \in [Workers -> {"idle", "in strand", "returning"}]
    /\ request \in [Workers -> Requests \cup {NoJob}]
    /\ job \in [Workers -> Jobs \cup {NoJob}]
    /\ locked \in BOOLEAN /\ posted \in BOOLEAN
    /\ ready \in Seq(Jobs) /\ waiting \in Seq(Jobs)
    /\ todo \subseteq Requests /\ filled \subseteq Requests
    /\ armed \in BOOLEAN /\ crashed \in BOOLEAN

\* The strand has one invoker while it is locked, posted or run by one worker,
\* and none while it is not; only that worker executes a job.
OneInvoker ==
    /\ posted => locked
    /\ \A w \in Workers : at[w] = "in strand" => locked /\ ~posted
    /\ \A v, w \in Workers :
           at[v] = "in strand" /\ at[w] = "in strand" => v = w
    /\ \A w \in Workers : job[w] # NoJob => at[w] = "in strand"

\* The inductive invariant of the strand.
IInv == TypeOK /\ OneInvoker

\* The asserts of the request handler and of the ticker, and what they are
\* for: handlers run only with the strand held, and never two at a time.
OneAtATime ==
    \A v, w \in Workers :
        job[v] # NoJob => /\ locked /\ at[v] = "in strand"
                          /\ (job[w] # NoJob => v = w)

\* Every job is executed once, and in the order in which they were dispatched.
ExecutedInOrder ==
    /\ Len(executed) <= Len(asked)
    /\ executed = SubSeq(asked, 1, Len(executed))

\* Every request is executed, or the process has died of a late one.
EveryRequestExecuted ==
    \A r \in Requests :
        <>(crashed \/ \E k \in DOMAIN executed : executed[k] = r)

\* The ticker goes on, whatever its handler throws.
TicksGoOn == []<>(crashed \/ armed)

\* Comment of main ("strand for the execution of requests to the API"): the
\* answer to a request is what its execution in the strand made of it.
AnswerIsComputed == \A r \in Answered : answered[r]
=============================================================================
