------------------------------ MODULE GameClock ------------------------------
(***************************************************************************)
(* The way of time into the game.  The ticker measures the time between    *)
(* two of its ticks on the steady clock and hands it on in milliseconds,   *)
(* main makes seconds of them for Game::SetTimeShift, and the generator of *)
(* the session, if a player has joined, is told the whole seconds.         *)
(*                                                                         *)
(* The steady clock counts modulo ClockRange, which no two ticks are apart,*)
(* so that time need not end.                                              *)
(***************************************************************************)
EXTENDS LootGenerator

CONSTANTS
    Period,         \* period_, in milliseconds
    UnitsPerMs,     \* units of the steady clock
    MsPerSecond,
    MaxGap          \* bound: the units between two ticks

\* A period of no time makes ticks of no time.
ASSUME ClockAssumption ==
    /\ Period \in Nat \ {0}
    /\ UnitsPerMs \in Nat \ {0} /\ MsPerSecond \in Nat \ {0}
    /\ MaxGap \in Nat /\ MaxGap >= Period * UnitsPerMs
    /\ \A gap \in 0 .. MaxGap : (gap \div UnitsPerMs) \div MsPerSecond \in Deltas

VARIABLES
    now,        \* Clock::now()
    lastTick,   \* last_tick_
    wait,       \* the units until timer_ expires
    handling,   \* OnTick runs
    told,       \* history: the delta of the last tick, in milliseconds
    elapsed     \* history: the units since the last tick began

tickerVars == <<now, lastTick, wait, handling, told, elapsed>>
clockVars == <<vars, tickerVars>>

ClockRange == MaxGap + 1

\* Ticker::Start: the timer is set for the first time.
ClockInit ==
    /\ Init
    /\ now = 0 /\ lastTick = 0
    /\ wait = Period * UnitsPerMs
    /\ handling = FALSE
    /\ told = 0 /\ elapsed = 0

\* The timer expires on time, its handler may have to wait for the strand.  The
\* bound leaves room for a period after a handler that takes long.
Elapse ==
    /\ elapsed < MaxGap
    /\ handling => elapsed + Period * UnitsPerMs < MaxGap
    /\ now' = (now + 1) % ClockRange
    /\ wait' = IF wait > 0 THEN wait - 1 ELSE 0
    /\ elapsed' = elapsed + 1
    /\ UNCHANGED <<vars, lastTick, handling, told>>

\* Without a session there is no generator to be told.
SetTimeShift(ms) ==
    IF looters > 0 THEN Generate(ms \div MsPerSecond) ELSE UNCHANGED vars

\* duration_cast cuts off the fraction of the millisecond.
Delta == ((now - lastTick) % ClockRange) \div UnitsPerMs

\* The handler of the tick, and the start from which the next is measured.
OnTickSince(start) ==
    /\ ~handling /\ wait = 0
    /\ told' = Delta
    /\ SetTimeShift(Delta)
    /\ lastTick' = start
    /\ handling' = TRUE
    /\ elapsed' = 0
    /\ UNCHANGED <<now, wait>>

\* Slip: last_tick_ is moved on by the period, not to the time of the tick.
OnTickByPeriod == OnTickSince((lastTick + Period * UnitsPerMs) % ClockRange)

OnTick == OnTickSince(now)

\* Slip: the timer expires a period after the tick was due, to make up for delays.
ScheduleFromDue ==
    LET left == (2 * Period - told) * UnitsPerMs - elapsed
    IN  IF left > 0 THEN left ELSE 0

ScheduleTick == Period * UnitsPerMs

\* The handler has returned, or what it threw has been caught.
EndTick ==
    /\ handling
    /\ wait' = ScheduleTick
    /\ handling' = FALSE
    /\ UNCHANGED <<vars, now, lastTick, told, elapsed>>

ClockNext ==
    \/ Elapse \/ OnTick \/ EndTick
    \/ ~handling /\ (Taken \/ Join) /\ UNCHANGED tickerVars

\* Time goes on, the strand takes a handler that waits for it and a handler,
\* once it runs, comes to its end.
ClockSpec ==
    /\ ClockInit /\ [][ClockNext]_clockVars
    /\ WF_clockVars(Elapse) /\ WF_clockVars(OnTick) /\ WF_clockVars(EndTick)
-----------------------------------------------------------------------------
(* Properties.                                                             *)

TickBegins == ~handling /\ handling'

\* The game is told of all the time there is, once: a tick tells it the time
\* since the last one began, less the fraction of a millisecond, however late
\* ticks come and however long they take.
TicksTellTheTime ==
    [][TickBegins => /\ told' * UnitsPerMs <= elapsed
                     /\ elapsed < (told' + 1) * UnitsPerMs]_clockVars

\* Comment of Ticker ("the handler will be called with the interval period"):
\* two calls are never closer, so that a late tick is followed by no burst.
TicksKeepTheirDistance ==
    [][TickBegins => elapsed >= Period * UnitsPerMs]_clockVars

\* While nothing is taken, every looter finds a thing in the end: ticks too
\* close together to generate anything still add up.
ShortageMadeUp ==
    \/ []<>(loot = looters)
    \/ []<><<Taken>>_vars
=============================================================================
