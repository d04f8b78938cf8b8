# TLA+ models and proofs of SeekersOfLostThings

SeekersOfLostThings is an HTTP game server: players join a map, their dogs run
along its roads, collect what lies there and bring it to offices for points.
This directory holds TLA+ modules translated from the C++ sources in `src/src`,
TLC configurations that check them on small instances, and TLAPS proofs of the
properties that hold for every instance. Paths such as `model.cpp:246` are
relative to `src/src`. `PROJECT.json` says which lines each definition stands
for.

## 1. The system

| Component | State | Operations | Interacts with |
|---|---|---|---|
| Roads and movement (`model.h`, `model.cpp` 30-87, 186-398) | directed roads, four tables from crossings to roads, `dog_and_his_road_`, each dog's direction, position and speed | `AddDog`, `SetMovementParameters`, four `MoveDog…` loops | called by the session's tick and by the action request |
| Collision detector (`collision_detector.*`) | none; builds a list of events | `TryCollectPoint`, `FindGatherEvents` | called by the tick with copies of positions |
| Loot generator (`loot_generator.*`) | `time_without_loot_` | `Generate` | called at the end of each tick |
| Game session (`GameSession`) | dogs, bags, scores, lost objects and their counter | `AddDog`, `SetTimeShift` | uses the three above |
| Game and players (`Game`, `Players`) | maps, sessions, players and the tables by id, by token and by dog and map | `AddPlayer`, `FindByToken`, `SetTimeShift` | called by API requests and by the ticker |
| API requests (`api_request_parser.*`) | the table of queries, which has `tick` only without a ticker | one handler per query | read and change the game |
| API strand, request handler (`request_handler.*`, `main.cpp` 42-51, 168-214) | the strand's queues; each call's local query and response | `operator()`, the dispatched handler | called by sessions on any worker thread |
| Ticker (`ticker.*`) | timer, `last_tick_` | `Start`, `ScheduleTick`, `OnTick` | its timer runs on the API strand |
| HTTP server (`http_server.*`) | acceptor; per session: stream, buffer, request, deadline | `DoAccept`/`OnAccept`, `Read`/`OnRead`, `Write`/`OnWrite`, `Close` | calls the request handler, writes what it returns |
| Request paths and static files (`request_handler.cpp`, `static_request_parser.*`), responses (`response_maker.*`) | none | `ParseURL`, `GetFilePath`, `IsSubPath`, `MakeFileResponse` | called by the request handler |
| Configuration (`json_loader.*`), start-up (`main.cpp` 60-153) | default speed and capacity, the maps and their index, the loot types for clients | `ParseCommandLine`, `LoadGame`, `LoadFrontendData`, before anything runs | make the maps and the options; a throw ends the program |
| Logging (`server_logging.h`) | none | writes lines around the request handler's call | between sessions and request handler |

What is hard here:

* **Concurrency.** `hardware_concurrency()` workers run one `io_context`. The
  game has no lock; one strand keeps requests and ticks apart. `dispatch` runs
  a handler at once or queues it, depending on who holds the strand.
* **Ordering.** Within a tick, events of several dogs with things and offices
  are worked off in the order of their times. Within a connection, requests
  sent ahead wait in the buffer.
* **State in two places.** A dog's position and the road it is said to be on are
  written by different statements in four copies of one loop; a player is
  entered into one container and three tables.
* **Failure.** Clients fall silent, close or reset; exceptions leave handlers,
  and the loader of the configuration in the middle of a map.
* **Numbers.** Rounding of positions to crossings, quotients in the collision
  test, casts of times, an unsigned score.

The full list, with lines, is under `hazards` in `PROJECT.json`.

What makes each part correct, in a sentence: a dog and its road stay together
and a walk over several roads loses no distance; the detector reports each
passing once and in order; the ticker tells the game all the time there is, and
the generator never floods the map and eventually makes up a shortage; a session
neither loses nor doubles a thing or a point; a token acts for the player it was
given to, and a request that is refused changes nothing; a server that answers
has loaded its whole configuration, shows it as it is, and answers files from
its root only; the strand executes one job at a time, all of them, in order, and
the answer given is the one computed; a client gets its answers one for one in
the order of its requests, and no connection waits for ever.

## 2. The modules

| Module | Models | State and actions |
|---|---|---|
| `RoadNetwork` | the road tables, `RoundCoord`, borders | operators only |
| `DogWalk` | speeds; the walk of one tick taken at once (`MoveDog`) | a recursive function |
| `DogMovement` | one dog, its walk one iteration of the loop per step | `dir`, `pos`, `speed`, `road` and the locals of the loop; `SetMovementParameters`, `StartMove`, `Arrive`, `PassToNextRoad`, `HitBoundary` |
| `CollectionGeometry` | `TryCollectPoint`, `IsCollected` | operators only |
| `CollisionDetector` | the two loops and the sort of `FindGatherEvents`, for gatherers that move along one axis or stand still (`InputsAssumption`), as dogs do (`WaysAreStraight`) | `SkipGatherer`, `TryItem`, `NextGatherer`, `SortEvents` |
| `LootGenerator` | `Generate` with things taken and looters joining in between | `Generate`, `Taken`, `Join` |
| `GameClock` | the way of time from the steady clock through the ticker, `main` and the session to the generator | `Elapse`, `OnTick`, `EndTick` |
| `LootLedger` | *abstract*: what a session promises about things | `Appear`, `Take`, `Deliver` |
| `GameSession` | a session with several dogs; a tick split at its events | `AddDog`, `SetMovementParameters`, `BeginTick`, `VisitOffice`, `TakeLoot`, `FindLootTaken`, `GenerateLostObjects` |
| `GameApi` | registry of maps, sessions, players, tokens; every API handler with its checks | one action per handler and `TimerTick` |
| `ApiStrand` | workers, `dispatch`, the strand's queues and invoker, the answer read from the local response, the ticker's chain | `Call`, `Expire`, `StartJob`, `EndRequest`, `EndTick`, `LeaveStrand`, `TakeInvoker`, `Return` |
| `Configuration` | the configuration file, what `JsonLoader` makes of it, the JSON of maps | operators only |
| `StartUp` | `main` up to the point from which it serves; a step per map | `ParseCommandLine`, `LoadOptions`, `LoadMap`, `LoadFrontendData` |
| `RequestPath` | `ParseURL`, map names, paths of files | operators only |
| `RequestHandler` | `operator()` with the answers about maps and files, on top of `StartUp` | `Handle`, `Send` |
| `HttpServer` | listener and sessions against clients | `OnAccept`, `OnAcceptError`, `OnRead`, `OnEndOfStream`, `OnReadError`, `OnTimeout`, `OnWrite`, `OnWriteError`; the clients' `Connect`, `Send`, `Finish`, `Reset` |

`MC…` modules give the constants of TLC's instances; `…Proofs` modules hold the
theorems. `GameSession` composes `DogWalk`, `CollectionGeometry` and
`LootGenerator`: it uses the walk and the collision test as operators and
instantiates the generator with its own variables. `GameClock` composes ticker
and generator, `RequestHandler` start-up, configuration and request paths.

Definitions introduced by a comment that begins with *Slip* are not part of
the model: each is a form of the definition after it with one plausible
programming error, and shows which property would notice that error.

### Abstractions

* **One lattice for doubles.** Positions are integers on a lattice on which
  the 0.4 of the border is exact (`LatticeAssumption`), as are the widths 0.3
  and 0.25 in `GameSession`; quotients are compared by cross-multiplying. The
  errors of floating point are not modelled.
* **Map coordinates are naturals**, as in `data/config.json`. Positions may be
  negative: a border lies 0.4 below 0. `RoundCoord` has the code's rule for
  them (`modf` truncates towards zero).
* **A handler on the strand is not interrupted.** Where it is split into steps
  (a walk at its roads, a tick at its events, the detector at its items), the
  split lets a property look in between; no other action comes between the
  steps. That handlers are not interleaved is what `ApiStrand` shows.
* **Randomness** is a free choice: the point of a spawn, the place and type of
  a new thing, a token. The generator's own `random_generator_` is the default
  of the program, which always returns 1. A token may be drawn a second time.
* **Bodies** are kept as far as something depends on them. In `GameApi` a
  request is its method, its header (with or without "Bearer", whole or not)
  and whether its body is well-formed, an answer its status, the token given or
  shown, and the players whose dogs it lists. What the state request shows of a
  session is `GetGameState` of `GameSession`; the JSON of maps is in
  `Configuration`. Wording, content types and the bodies that HEAD leaves out
  are not.
* **Targets of requests** are sequences of characters, and characters their
  codes, in `RequestPath` only: escapes are undone one character at a time, and
  what can go wrong is their arithmetic. Files are a set of paths with one root and
  no symbolic links; a directory can be opened, as in the code, and is answered
  with 200.
* **The steady clock** counts modulo a range that no two ticks are apart, so
  that time goes on for ever in finitely many states. The timer expires on
  time and its handler is taken later, as the strand allows.
* **JSON** is a record that may lack fields. Numbers have the kind in which the
  parser stores them where the loader accepts only one; a natural number is
  stored signed, so `bagCapacity` loads only beyond the signed range.
* **Reset connections** behave as on Linux: a peer that has closed for good
  resets the connection when it is written to, a request that has arrived
  before may still be read from the buffer, and `remote_endpoint()` of a reset
  socket throws.
* **An exception that leaves a handler** ends the process on a worker that
  `RunWorkers` has started. On the main thread it waits for the workers, which
  go on; `HttpServer` leaves open which of the two it is.
* `HttpServer` takes it that an answer asks to close if its request did. The
  default-made answer of section 5, finding 2, has no length, so `need_eof`
  holds of it whatever was asked, and the session closes after it: it is
  an answer to a request of kind *close*.

## 3. The runs

| Run | Instance | Shows |
|---|---|---|
| `dog_movement` | 1 dog spawned at every crossing of a map with corners, roads in a line and a road that ends in the middle of another; ticks short and long | types, the inductive invariant, position and road stay together, roads change at junctions only, distances, the walk equals its steps, termination |
| `gather_events` | 2 gatherers in all directions or standing, 2 items | events complete, once each, in order |
| `game_clock` | half milliseconds, a period of two, ticks up to nine units apart, up to 4 looters | ticks tell the time and keep their distance; no flood; generation grows with time; a shortage is made up |
| `game_session` | 2 dogs spawned anywhere on a street of two roads with an office, at most 3 things, scores modulo 3 | one place for each thing, ways swept, scores, the two refinements |
| `game_api` | 3 maps, one without a road at the origin, 3 joins, tokens that may repeat, time moved by requests or by a ticker | tables agree; errors change nothing; a token turns its own player's dog and is shown its own map |
| `api_strand` | 2 workers, 3 requests, ticks | mutual exclusion, order, everything executed, ticks go on |
| `http_server` | 2 clients, 2 requests each, of every kind | order of answers, closing is final, operations end, connections are accepted |
| `request_handler` | 32 command lines, 146 files with up to two maps, right ones and ones that throw, 22 paths written with escapes in 8 ways | whole configurations only; maps shown as in the file; escapes make no difference; files from the root only |
| `dog_leaves_road_area`, `clock_short_ticks`, `api_strand_answer`, `http_server_closing` | as above | the findings of section 5 |

**Bounds.** Two dogs are enough for a race for one thing; three things allow one
to be delivered while another is carried and a third lies on the map; a score
range of 3 wraps in two deliveries. Quiet time is capped where the generator
makes up every shortage at once, which more time would not change
(`CapAssumption`, `QuietAssumption`). In `game_clock` a gap of nine units lets a
tick come more than a period late, by whole milliseconds or fractions of them,
with handlers that take up to a period and more. Two maps in a file are one
before and one after the map that fails or that has the same id; longer files
are covered by the proof. Three requests and two workers give one that runs, one
in each of the strand's two queues (waiting and ready). Two requests on a
connection give one that is being answered and one in the buffer. Tokens are
interchangeable and `GameApi` compares them only for equality, dogs likewise in
`GameSession`: symmetry is used there, and only in runs without liveness
properties.

**Deadlock** is not checked in the runs of `CollisionDetector`, `GameApi`,
`ApiStrand`, `RequestHandler` and `HttpServer`: there the events are sorted, all
bounds are used up, all clients are gone or the process has ended, and nothing
remains to be done. It is checked in all others.

**Fairness.** `DogMovement`: the walk, once begun, goes on (it is one function
call), and, for `AbandonedDogStops`, ticks keep coming (the ticker sets its
timer again). `GameClock`: time goes on, the strand takes the handler of an
expired timer, and a handler once run returns (all weak). `ApiStrand`: a worker that runs
takes its next step (weak), and each request, expired timer and posted invoker
is taken by some worker (strong, since workers are idle only from time to time;
the `io_context` keeps what is ready in a queue). `HttpServer`: a waiting
connection is accepted and timers expire; nothing is assumed of the clients, nor
that data arrives.

**`GameSession` and the generator.** The property `DrivesGenerator` says that a
session, seen through its numbers of things and dogs and its quiet time, is a
behaviour of `LootGenerator`'s specification. Both this and
what the generator then promises are proved (`GeneratorIsDriven`,
`MapIsNotFlooded`), so it holds for the map of a session of any size.

## 4. What is proved

The theorems hold for every value of the constants that the named assumptions
of the modules allow; some have a hypothesis more, which is named below and
holds of the instances of section 3. Every invariant and every action property
of the passing runs is stated by a theorem, and so is every refinement.

* **`GeometryProofs`**: what the operators on roads, walks and collecting
  guarantee. A point that rounds to a crossing is near it, and a road that a
  table returns starts there. On every map without a road of no length
  (`NoEmptyRoads`) each road that a walk is handed ranks below the last
  (`RoadsRunOut`), so the recursion of `MoveDog` is one, and `WalkArrives` says
  where it ends; along a road of no length the loops of `MoveDog…` would spin,
  in the code as well. `CollectsIffPasses`: for a move along one axis the
  quotients of `TryCollectPoint` and the comparisons of `IsCollected` accept
  exactly the items beside the way.
* **`DogMovementProofs`**: `TypeCorrect`, `InvariantHolds`, `DogNearOwnRoad`,
  `GoalOrStopped`, `JunctionsOnly`, and, with `NoEmptyRoads`, `WalkTakenAtOnce`:
  the iterations of the loop make the walk that `MoveDog` takes at once, so that
  `GameSession` may use the latter. The inductive invariant `IInv` adds two
  facts to the types and `NearOwnRoad`: the speed follows the direction, and
  while a walk lasts, what is gone and what is left add up to speed times length
  of the tick (`GoalKept`). The first is needed to know to which side the walk
  goes, the second so that `Arrive` ends at the goal; `NearOwnRoad` of the
  next road follows from the lemma about rounding at `PassToNextRoad`, the one
  step in which the road changes.
* **`GameSessionProofs`**, the session. `BooksInv` is inductive: `Books` (the
  types of bags, things and scores, and that the things on the map have numbers
  below the counter), `TickKept` (between ticks nothing is left to be worked
  off, and only dogs that have joined gather), `OnePlace` (a thing is lying,
  carried by one dog at one place of its bag, or delivered) and the property
  `ScoreIsWorthDelivered`, whose proof adds up `BagWorth`, a recursive function.
  From it follow `ThingsLiveOnce`, `ScoreIsDeserved` and the two refinements,
  step by step: `GeneratorIsDriven` and `LedgerIsKept`; a thing that is taken is
  one that lies there, a visit to an office delivers the bag, and what appears
  has a new number. With `NoEmptyRoads`, `Bodies` (a dog is on the lattice and
  has one of five speeds) is inductive too and gives `TypeCorrect`; `Sweeping`
  (while a tick lasts, an event is left for each thing that lies where a dog
  went) and `WaysAreStraight` give `NothingIsPassedBy`. That ways are straight
  is proved with it because `WaysAreSwept` would be empty for others.
* **`GameSessionProofs`**, the detector that the tick calls: `EventsAreComplete`
  and `EventsAreOrdered`. The inductive invariant `Detecting` says that the list
  holds the pairs that the loops have been through and that met, each once, with
  the quotient of its way; a sort permutes them, and `CollectsIffPasses` makes
  passings of them. The sort compares neighbours, as products of two quotients;
  that all are in order takes an induction and the cancelling of the products.
  `SessionGetsItsEvents` puts detector and session together: whatever lists the
  session makes of its dogs, offices and things (`Lists`), the list that comes
  back has the events with which a tick of `GameSession` begins (a set there),
  and whoever works it off takes one of the earliest that are left, as
  `GameSession` does. With `WaysAreStraight`, which is what the detector's
  `InputsAssumption` asks for, the session may be read without the detector.
* **`GameClockProofs`**, the generator: `MapIsNotFlooded`, the invariant being
  inductive together with the types, since the generated number is at most the
  shortage; `WaitingPays`, from what powers do to inequalities.
* **`GameClockProofs`**, the clock: `GameIsToldTheTime`, `TicksAreAPeriodApart`
  and `ClockDrivesGenerator`. The inductive invariant adds two facts to the
  types: the steady clock is ahead of `last_tick_` by the time that has passed,
  up to the clock's range, and while no handler runs, that time and what the
  timer still waits make up a period. The first gives the time told, the second
  the distance of ticks. The third theorem is a refinement: every behaviour of
  the clock is one of the generator's specification.
* **`GameApiProofs`**: `TypeCorrect`, `FirstPlayerKeepsToken`,
  `SessionsAreTheirPlayers`, `ErrorsAreHarmless`, `TokenIsItsPlayer`. The
  inductive invariant adds `TableHasFirst` to the types and to
  `SessionsHoldTheirPlayers`: the table of tokens has the tokens that were told
  and no others, each with the first player it was told to. It is kept because
  `emplace` leaves an entry alone when its token is drawn again; without it the
  players that a request with a token reaches could not be named.
* **`RequestHandlerProofs`**: `WholeConfigurationsServed`. While maps are
  loaded, those at hand are the first ones of the file and the table has their
  ids and no others; so the next id, if it is accepted, is new and changes no
  entry. For requests whose target writes the path that is meant
  (`WellWritten`): `WritingMakesNoDifference`, where `ParseURL`, a recursive
  function on the places of a target, is followed from the last place back;
  `MapsAreShown`, if map ids are names (`IdsAreNames`: not empty, no slash),
  where the roads of the file are added one by one by `SetRoads` and again by
  whoever reads the answer; and `FilesAreServed`, if files have names
  (`FilesAreNamed`) and none below the root is under the name of the API
  (`NothingHidden`: the files of a directory `api` are hidden by the requests of
  that name, in the code too).
* **`ApiStrandProofs`**: `InvokerHolds`, `JobsOneAtATime`, `OrderIsKept`,
  `AloneAnswersAreComputed`. The inductive invariant says that the strand has
  at most one invoker: a worker inside it, or the posted one, and none
  unless the strand is locked. Without the posted one in it, it would not be
  kept by the step in which a worker leaves the strand with a non-empty queue.
  The order follows from `InOrder`: the requests dispatched are those executed,
  then those in the ready queue, then those that wait. With a single worker,
  `ComputedOnTheSpot` says that the strand is locked only while that worker is
  in it, so that each dispatch runs the handler at once: what finding 2 shows
  for two workers cannot happen.
* **`HttpServerProofs`**: `TypeCorrect`, `AnsweredInOrder`,
  `NothingAfterClose`. The inductive invariant says that a session has one
  operation pending at most: it reads when all it has read is answered, and it
  writes the answer to the last request it has read. So the answers are the
  requests counted from one. A connection in the queue has no session yet, so
  that accepting it does not start a second read.

**Recursive functions and folds** (`MoveDog`, `BagWorth`, `ParseURL`, `Power`,
the folds in `SetRoads` and in paths) are reasoned about with `SetInduction`: a
set of numbers that holds a number whenever it holds all smaller ones holds
all. It is proved from the well-foundedness of the naturals and, unlike the
induction theorems of the library, takes a set and not an operator. That a
recursive definition has a function at all is a lemma of its own in each case.

**Only model-checked** is liveness: `MoveTerminates`, `AbandonedDogStops`,
`ShortageMadeUp`, `EveryRequestExecuted`, `TicksGoOn`, `SilentSessionsEnd` and
`EveryoneIsAccepted`, since the proof system has no rules for `ENABLED`. What
makes `MoveTerminates` true, that the roads of a walk run out, is proved.

## 5. Findings

1. `dog_leaves_road_area`: a dog between two crossings can turn on to the next
   road before it is in its area (`model.cpp:201`), and is then at a place that
   is in the area of no road.
2. `api_strand_answer`: with more than one worker an API request that finds the
   strand busy is answered with an empty default response, and its handler runs
   later with references to locals that are gone (`request_handler.h:43`). With
   one worker this cannot happen (`AloneAnswersAreComputed`).
3. `clock_short_ticks`: of each tick the generator is told the whole
   seconds only (`model.cpp:90`). With a tick period below a second it is told
   nothing, and nothing ever appears, though its comments promise a probability
   per base interval of all the time that passes.
4. `http_server_closing`: a client that closes while a request of it waits in
   the buffer can end the process (`http_server.cpp:38`).

## 6. Not modelled

* **Logging** writes lines and keeps no state; the formatting of answers, their
  content types and the bodies that HEAD leaves out.
* **Signals**: `ioc.stop()` drops what is pending, on all connections at once.
* **Undefined values**: keys of JSON objects made from strings that are gone
  (`api_request_parser.cpp:100`, 125, 143). The models show the ids of the tables.
* **Symbolic links**, and files that change while the server runs.
* **Roads of no length** in movement: they make a `MoveDog` loop spin; the runs
  of `DogMovement` and `GameSession` have none, and the theorems that need it say
  so (`NoEmptyRoads`). `MapsAnswerTheConfiguration` has one, as it can be loaded
  and shown.
* A road that ends in the middle of another is known to the tables by its end
  only, so a dog is stopped there as at the border of the map; the model has
  this as the code has it and states no property about it. The same holds for
  the bag capacity, which is loaded and never looked at, and for the character
  after `/api/v1/maps`, which is skipped whatever it is.
* Maps without loot types and a generator period below one, for which the code
  has no defined behaviour, and tick periods of no time, with which the ticker
  never rests.

## 7. Plan

Done, in the order of importance: movement, collecting, generator, session,
registry and API, strand, HTTP server, the game's clock, start-up, maps and
files; proofs of all their safety properties. Next:

1. A composition of `ApiStrand` with `HttpServer`: the answer that finding 2
   makes, and the connection it closes.
2. The composition of `GameApi` and `GameSession`, which are linked only by what
   each takes of the other: the dogs of a session and the commands to them.
