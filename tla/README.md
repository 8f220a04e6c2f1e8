# FundArbitrage: TLA+ models, model checking and proofs

The program (`src/fandos1`) earns funding: it holds a long position of an asset
on one exchange and a short one on another, of the same size, and collects the
difference of the funding rates. What must not go wrong is narrow and hard to
test: orders whose answer is lost, writes that fail half way, a process that
dies between two steps, two goroutines, or two processes, that look at the
same position at different times, and seven exchanges that each have their own
words for an order, an error and a quantity. This directory models those parts, checks the
models with TLC and proves the central properties with TLAPS.

Paths below are relative to `src/fandos1` unless they start with `src/`.

## 1. Inventory

### 1.1 Position state machine (`internal/portfolio`, `internal/repository/positions.go`)

* State: `Position` with state, history, leg quantities, PnL sums and the flag
  `persisting`, behind a mutex; the tables `positions` and
  `position_transitions`.
* Operations: `NewPosition`, `TransitionTo`, `SetQuantities`, `AddRealisedPnL`,
  `AddFundingPnL`, `Snapshot`, `RestorePosition`; `Persister.OnTransition` (one
  transaction: upsert of the row, insert into the log), `LoadByStates`.
* Interaction: `TransitionTo` changes memory under the lock, **releases it**,
  calls `OnTransition`, takes the lock again and rolls back on an error.
* Hard: another goroutine between the two critical sections; a failed write; a
  commit whose answer is lost; a restart anywhere.
* Correct when: one transition is in flight at a time; memory and row are at
  most one legal transition apart; a refused transition leaves no trace; the log
  is a path; a terminal row has the last quantities, and nothing rewrites it but
  the process that lost the answer to a commit, as long as it runs.

### 1.2 Execution (`internal/execution`)

* `OrderExecutor.Place`: send, on an acknowledgement query the fill, without one
  query before deciding; never send twice. State: none of its own, the order
  lives at the exchange under its client id.
* `CoordinatedClose`: reduce both legs by the same quantity, both orders of a
  round in parallel, re-send the residual of each leg at most `MaxRequotes`
  times, stop at the first leg of unknown outcome.
* `AnalyzeMismatch`, `ApplyTopUp`, `PlaceReduceOrder`: the delta repair.
* Hard: lost requests and answers, requests that arrive after the caller gave
  up, fills nobody sees, one leg failing while the other is in flight.
* Correct when: a reported fill is real; counters never exceed reality; success
  means both legs; an unknown leg ends the close; the close ends.

### 1.3 Trading loop (`internal/engine`, `cmd/worker`)

* State: `seq`, `open`, `closeReq`, the positions; the tables `positions` and
  `position_legs`.
* Operations: `Tick` (monitor, then open), `closePosition`, `openPosition` with
  `placeEntryLegs` and `repairImbalance`, `persistLegs`, `RequestClose` (another
  goroutine), `Restore`.
* Interaction: calls the executors, the persister, the registry and the halt
  flag; the outbox dispatcher calls `RequestClose`.
* Hard: every transition may fail and is sometimes ignored; legs are saved
  apart from the position; a restart rebuilds quantities from what was saved.
* Correct when: orders go out only for a position whose row a restart takes up,
  none before OPENING is saved and none once it is over; a hedged pair is within
  the tolerance and real; a degraded position waits for the operator; a request is
  taken up; the limit of open positions holds. What a FAILED or CLOSED position
  may still hold is read by no restart (3.4, engine_alone).

### 1.4 Rebalance (`internal/rebalance`)

* State: plan, attempts, circuit breaker per source exchange (in memory); the
  tables `transfer_plans` and `transfer_attempts`.
* Operations: `Plan.Transition`, `ExecuteTest`, `ExecuteMain`, `RecordFailure`,
  `RecordSuccess`, `Reset`, the planner.
* Hard: a withdrawal is irreversible, returns errors after it was carried out,
  and is credited late; every write around it may fail; several plans share one
  breaker.
* Correct when: the main amount leaves at most once and only after the test was
  credited; completed means credited; dry run moves nothing; a tripped exchange
  rests; a finished plan stays finished.

### 1.5 Control plane (`internal/lifecycle`, `outbox`, `keyrotation`, `telegram`, `app`, `cmd/server`)

* State: the SAFE_HALT flag of each process and the row of `system_locks`; the
  outbox rows; idempotency keys; credentials; the watchdog's failure counter.
* Operations: `Halt`, `Resume`, `RestoreFromDB`, `DBWatchdog.Run`, the steps of
  the kill switch, `RunOnce` and `processEvent` of the dispatcher, the HTTP
  handlers, the start-up sequence.
* Interaction: server and worker share nothing but the database. The server
  writes the lock row, the keys and outbox events; the worker reads the first two
  when it starts and polls the third.
* Hard: two processes over one lock row; at-least-once delivery; requests that
  fail after their key was taken; a database that is down while it is written;
  a kill switch whose steps fail one by one.
* Correct when: a halted process opens nothing; a halt is not lost; a kill switch
  that reports success is complete; an event is handled at least once, by one
  dispatcher at a time, and a failing one is given up; an accepted request is
  served.

### 1.6 Exchange adapters (`internal/exchange`)

* State: the contract sizes read from the list of instruments, Gate's table of
  order numbers; no more. The orders and the settings live at the venue.
* Operations the processes call: `GetInstruments`, `GetFundingRate`,
  `GetTicker`, `GetOrderBook`, `PlaceOrder`, `GetOrder`, `SetLeverage`;
  `CancelOrder`, `SetMarginMode`, `SetPositionMode`, `Transfer` and the
  subscriptions belong to the contract and have no caller yet.
* Interaction: the executor decides by the sentinel errors and by the filled
  quantity; the market loop replaces the table of contract sizes at any time.
* Hard: a reply that is lost; an order that moves from one list to another
  between two queries; a code that means "already so" next to one that means
  "refused"; quantities that are not whole contracts; ids a venue cuts short.
* Correct when: the order at the venue is the one asked for; "not found" means
  absent; a terminal status is final; a setting answered without an error is
  done; `Place` over an adapter is `Place` over the exchange the executor assumes.

### 1.7 Connections (`internal/exchange/httpclient`, `*/ws.go`, `internal/marketdata/ws_manager.go`)

* State: the token bucket, the attempts and timers of each call; the loop of the
  connection manager with its breaker; a goroutine, a Go channel and the
  last-known values for each stream.
* Hard: calls that share a bucket; an unsafe request that must not be repeated;
  events put together from changes while others are dropped; a goroutine blocked
  on a channel nobody reads; a breaker that closes in two places.
* Correct when: the rate is kept and no call starves; an order leaves at most
  once; an opened breaker rests; an event shows what the venue had; a stop ends
  everything.

### 1.8 Market loop and search (`cmd/worker`, `marketdata`, `instrument`, `scanner`, `strategy`)

* State: the cache of snapshots, the registry of instruments.
* Operations: `marketRefreshLoop` (per venue: instruments, funding, ticker,
  book), `Replace`, `Scan`, `primaryFilters`, `BuildFundingCalendar`,
  `ExpectedNetPnL`, `CheckEligibility`.
* Hard: a snapshot made from three requests and dated after the last; funding
  events that pass while it ages; fields a reply leaves out, which some adapters
  read as zero.
* Correct when: a pair the engine picks is timely, real and pays.

### 1.9 Algorithms (`allocation`, `risk`, `orderbook`, `decimal`, `rebalance/planner.go`)

Pure functions of their inputs: allocation, limits, VWAP, quantisation, score.

### 1.10 The rest

`auth`, `credentials/crypto`, `observability`, `clocks`, settings and the other
repositories, the web app: see `components` in PROJECT.json for each one's
status and reason.

## 2. Modules

| Module | Models | Uses |
| --- | --- | --- |
| PositionStates | states and table of transitions (constant level) | |
| PositionStateMachine | Position and its persister, step by step | PositionStates |
| PositionStateMachineProofs | theorems about it | TLAPS |
| OrderOutcomes | what the answer of `Place` tells (constant level) | |
| OrderExecutor | `Place`, with the exchange and the network | OrderOutcomes |
| CoordinatedClose | `CoordinatedClose` over two executors | OrderExecutor, PairReduction |
| PairReduction | abstract specification of a close | |
| CoordinatedCloseProofs | theorems about it | TLAPS |
| Repair | the decisions of the delta repair (constant level) | |
| Engine | the trading loop | PositionStates, OrderOutcomes, Repair |
| EngineProofs | theorems about it | TLAPS |
| PlanStates | plan states, table, breaker of a scope (constant level) | |
| RebalanceExecutor | `ExecuteTest`, `ExecuteMain` of several plans | PlanStates |
| RebalanceExecutorProofs | theorems about it | TLAPS |
| SafeHalt | lock row, keys, start-up, watchdogs, clock and kill switch of both processes | |
| SafeHaltProofs | theorems about it | TLAPS |
| AtLeastOnce | abstract specification of the outbox | |
| Outbox | the dispatchers over `outbox_events` | AtLeastOnce |
| CloseRequests | a close request from HTTP through the outbox to the engine | Outbox |
| CloseRequestsProofs | theorems about it | TLAPS |
| ExchangeAdapter | what the adapters share: errors, replies, how numbers are read, orders, ids (constant level) | |
| Binance, Bitget, Bybit, Gate, Kucoin, Mexc, Okx | one adapter each, as tables (constant level) | ExchangeAdapter |
| Venues | the seven by name | the seven |
| Adapters | `Place` over the adapter of a venue, settings, instruments | Venues, OrderExecutor (abstract) |
| HttpClient | `Do` with the token bucket, retries and deadlines | |
| ConnectionManager | `Run` and `Stop` with breaker and backoff | |
| Streams | `SubscribePublic`, `SubscribePrivate` under the manager | Venues, ConnectionManager |
| Connections | calls or a stream, one at a time | HttpClient, Streams |
| ConnectionsProofs | theorems about the three | TLAPS |
| FundingCalendar | calendar, cash flow, eligibility (constant level) | |
| MarketRefresh | the market loop and the engine's search for an entry | Venues, FundingCalendar |
| VenuesProofs | theorems about Adapters and MarketRefresh | TLAPS |
| MC... | the instances that are model-checked | |

Composition goes by promises. `OrderExecutor` derives every answer of `Place`
from the steps of the code and of the exchange, and the theorem `AnswersSound`
shows that each is in `OrderOutcomes!Answers`; `Adapters` runs the same `Place`
over what each venue's adapter really sends and reads, and implements
`OrderExecutor`; `Engine` places orders as one step with any
outcome in `Answers`. `CoordinatedClose` runs `OrderExecutor` for each leg and
attempt; `Engine` takes a close as one step with any result its properties
(`NoPhantomClose`, `SuccessClosesBoth`) allow on a first close. `Engine` takes
`TransitionTo` as one step with the outcomes that `PositionStateMachine` gives
it: not allowed, saved, refused, or saved with the answer lost. `CloseRequests`
extends `Outbox` with the producer (the server) and the handler (the worker's
engine, whose map is `closeReq` of `Engine`). `MarketRefresh` ends where
`Engine` begins: with the pair that is picked, which `Engine` takes as any.

### 2.1 State and actions against the code

**PositionStateMachine.** `state`, `persisting`, `history` and `delta` are the
fields of `Position` (of the quantities only their difference is stored in the
row). Each caller has a `pc` inside `TransitionTo`: `Begin` is the first
critical section, with the guard on the flag and on the table; `UpsertTx`,
`Commit`, `CommitAnswerLost` and `PersistFails` are the transaction;
`Finish` and `Rollback` are the second section. The row and the log change
together at the commit. `SetQuantities` has the terminal guard. `Restart`
rebuilds the position from its row, if the row's state is one of those `Restore`
asks for.

**OrderExecutor.** For each client id, `order` is the exchange's side (not sent,
in flight, accepted, filled so far) and `place` the executor's (placing,
acknowledged, unknown, returned, with the kind of answer and the fill it
reports). An order that was accepted may come back as an error, when the adapter
cannot read the reply (`AckUnreadable`). `Accept` and `Fill` are the exchange's and happen at any time, also
after `Place` returned. An order still in flight may be accepted or never be.

**CoordinatedClose.** `Launch` starts a round; the two executors then run
interleaved; the `Join...` actions are what the code does after `wg.Wait()`:
count, stop on an ambiguous leg, stop on a failed one, or go round again with
each leg's residual. `position` is the real exposure of each leg, which may be
smaller or larger than the caller believes; reduce-only fills are bounded by it.

**Engine.** `pc` walks the code of `Tick`, one database call or order per step.
`real` is the exposure at the exchanges, `qty` what the position records,
`legsRow` and `row` what the tables hold. A transition whose error the code
returns on is `Advance`, one whose error it ignores is `AdvanceAnyway`. Market
data, funding and candidates are free choices, since the loop reads them from
outside. `Restart` forgets memory, requests and the registry, and restores the
positions from their rows with the quantities `Restore` would compute, including
the fallback to `actual_delta` when the legs cannot be read.

**RebalanceExecutor.** One `pc` per plan through `ExecuteTest` and
`ExecuteMain`; both have the same steps and differ in their guards and in the
state they confirm, so they share them through `phase`. The store, the
transferer, the confirmation checker and the caller have no implementation in
the repository: they are external, with the outcomes their interfaces allow.

**SafeHalt.** Live mode. `phase` is how far `run` of a process has come; each
start-up statement is a step, and one that must have an answer ends the process
without it (`Reads`). `Restore` is `RestoreFromDB` with `IsEngaged`, which turns
every error into "not engaged". `Halt` is two steps in each of its callers (the
watchdog, the clock callback, the kill switch): flag, then row. `BuildAdapter`
is one exchange of `BuildLiveAdapters`; fewer than two adapters end the worker.
`KillEngage`, `KillPersist`, `KillList`, `KillRevoke`, `KillRevoked` and
`KillRecord` are the statements of `KillSwitch`. `db` says whether a statement
gets an answer; one sent without the database returns an error and may have
taken effect all the same. A statement cut off because the context of its
request ended is such a statement, too. A kill switch is served one request at a
time. `unsaved`, `brake` and `restarted` are history: they are read by
properties and by no guard. `Keys` are the trade keys of one owner.

**Outbox.** `Select` is the one statement of `RunOnce` (its row locks end with
it, so they need no state), `Lock` the second lock in `processEvent`, then the
handler, then the update and the commit, which may be done, rolled back, or done
with the answer lost. Events are numbered by `created_at`, the start of the
producer's transaction; they become visible in any order. `RetryDue` is the
passing of `next_retry_at`.

**CloseRequests.** `Receive` is `idemMiddleware` (lookup and registration under
one lock), `RequestClose` the transaction of audit record and event with the
answer 202 or 500, `Handle` the outbox handler of `cmd/worker/main.go`,
`EngineTakes` the moment the monitor begins the close.

**The adapters.** An adapter is sequential code between a request and a reply, so
its module has no variables but the code's decisions, one operator each: the
error tables (`Codes` to `Errors`, and what status and body together come to,
`Answer`), the order on the wire (`Wire`: size in contracts, type and time in
force, reduce-only), what `PlaceOrder` makes of an acknowledgement, the length
to which a client id is cut, the sources `GetOrder` asks one after the other and
what each contains, the states of an order by the venue's words, `SetLeverage`
to `Transfer`, and for market data how each field of a row is read (`strict`,
`positive`, `orZero`, `lax`, `unread`) and whether a bad one drops the row or
fails the call. A reply is an HTTP status and a code of the venue's; a body of
no known form is one more code. Strings are not modelled, except the one thing
about ids that matters: that what tells two orders apart stands at the end.

**Adapters.** `venue` picks the tables. `request` is what the engine asks for;
`book` the venue's side of each order; `place` the step of `Place` with the
source `GetOrder` is at; `contractSize` the size of a contract, which `RefreshInstruments`
(the market loop) replaces between any two steps; `known` is Gate's table of
order numbers. `Refuse`, `Ack` and `NoAck` are what a sent order may come to,
each with the error the adapter makes of the reply; `QueryFails`, `QueryFinds`
and `QueryFindsNothing` one query. A reply to an order or a setting that was
carried out is the documented one, or with status 200 a body that holds nothing
the adapter knows, or none that parses (`OkReplies`); a refusal may have such a
body, too. `Instruct` is a setting, a transfer or a cancel, which the adapters
send once. The side of an order on the wire is whether it buys or sells: at
MEXC it is what the venue does with the side code (`SideCode`, `Deal`).

**HttpClient.** Each call of `Do` has a `pc`. `TakeToken` is one pass of
`waitToken` under the lock with `refill`; `Reply` is `doOnce` by its outcome;
`WakeUp` and `Expire` are the timers and the context. `elapsed` is the time since
`lastFill`; `credit` is a history, the content of an exact bucket, and no guard
reads it.

**ConnectionManager** and **Streams.** `loop` is `Run` with the breaker's fields;
`Check` is the head of the loop, where an old enough breaker closes, `Rested` the
second place where it does. `connect` is external and behaves as the comment of
`ReconnectCallback` says: it subscribes and reads the Go channel until that is
closed. `reader` is the goroutine of the subscription, with the values
`mergeTicker` keeps; `truth` is a history of what the venue had.

**MarketRefresh.** `round` is one pass of the loop with the snapshot it is
putting together, `cache` and `registry` what the engine reads, `Scan` and
`Open` the engine. What a reply may lack at each venue is computed from the
adapter's tables (`InstrumentsRead`, `FundingRead`, `TickerRead`, `BookRead`).
`terms` are the contract's rate and interval at each of the two venues, and what
its adapter makes of them: it may know the interval, take a default for it or
read none (`FundingInterval` of each adapter), and take a forecast for the rate
of the next event (`Forecast`). `market` is the time to each venue's next event,
`late` says of a snapshot that it has the time of the event after the next.
`Tick` is time: each venue's own schedule goes on whatever the program does.

### 2.2 Abstract specifications

`AtLeastOnce`: an event that was sent is worked on, any number of times, each of
which may deliver it; it is done only after a delivery, at the end of a time it
was worked on, and is never worked on again. The outbox implements it with
`sent <- stored, working <- Locked, delivered <- handled, done <- processed`,
also inside `CloseRequests`; the theorem `Delivered` proves it.

`PairReduction`: the confirmed reduction of each leg only grows and never passes
the common target, the verdict is given once, and it is success only when both
legs are confirmed in full. `CoordinatedClose` implements it with
`target <- Target, confirmed <- closed`; the run checks it as a property and the
theorem `Refinement` proves it.

`OrderExecutor` is the abstract exchange the rest of the project rests on.
`Adapters` implements its orders and its `Place` with the quantities counted in
contracts (`qty <- size on the wire`, `reported <- reported / Multiplier`), for
each of the seven venues: `ImplementsOrderExecutor`, which the theorem
`AdaptersRefine` proves.

## 3. What is checked

All bounds are constants in the `.cfg` files. `CHECK_DEADLOCK FALSE` stands
where the system may rest: a position whose log is full, a close that has
returned, a halted loop with no restart left, plans that are over, requests that
are all answered and served, an order that has returned, calls that have returned
and a loop that has ended, a search that has ended with an entry. Three runs are
expected to find a violation (3.4).

| Run | Question | Bounds |
| --- | --- | --- |
| position | Do memory, row and log agree over two goroutines, failing writes, lost answers and restarts? | 2 callers, deltas {0,1}, 5 log entries |
| close | Does a close count only what is real, stop on doubt, end, and implement PairReduction? | quantities and exposure up to 2, one requote |
| engine | Does the loop keep its promises over one position's life, one failed write, one restart, operator and halt? | one asset, target 2, tolerance 0 |
| safe_halt | Is a halt durable and a kill switch complete over failing statements and restarts? | 2 keys (the fewest a live worker starts with), threshold 2 |
| close_requests | Are events delivered at least once, by one handler at a time, and failing ones given up? | 2 requests with one key, one of them with a failing handler, 2 dispatchers, 2 attempts, batch 1, 2 failing statements, one restart of each side |
| rebalance | Do the transfers happen once, in order, and only when they may? | two plans on one exchange, threshold 1, 2 failing writes, one restart |
| adapters | Is `Place` over each of the seven adapters what the executor assumes? | two slices of one order of the long leg (entry, top-up, close, repair), quantities 1 and 3, contracts of 2, every known code under every HTTP status |
| connections | Do the calls keep the rate, repeat only what they may and return; are streams faithful, and do they end? | two safe calls and a timed unsafe one, a bucket of 1, 1 retry; 7 public and 2 private streams, 2 updates after the first values, 2 messages under way, channels of 1, threshold 2 |
| market | Is what the engine picks timely, real and paid? | nine pairs with all seven venues, an event every 2 or 4 ticks, default 4, horizon 6, at least 2 ticks to the event, snapshots of age 0, rates -1 and 1 |

Properties, by run:

* **position** — `TypeOK`. `RowAtMostOneStepAhead`: at rest, row and memory are
  equal or one legal transition apart (a lost commit answer).
  `MemoryMatchesRow`: equal while no answer was lost. `LogIsPath`: the audit
  trail.
* **close** — `NoPhantomClose`: what is counted as closed is. `SuccessClosesBoth`,
  `StopsOnAmbiguity`, `CloseReturns` (liveness), `ImplementsPairReduction`.
* **engine** — `RecordedIsReal`: a position in work holds at least what it
  records, also after a restart. `HedgeWithinTolerance`. `OrdersHaveRow`: an order
  changes the exposure only of a position whose row shows the state in memory, one
  that a restart takes up. `DegradedWaitsForOperator`. `CloseRequestIsTaken`
  (liveness).
* **rebalance** — `MainAtMostOnce`, `MainAfterTest`, `TrippedScopeRests`.
* **safe_halt** — `HaltIsDurable`: whoever stands still has the lock row on its
  side. `KillSwitchIsComplete`: success means lock engaged and no key left.
  `WatchdogHalts` (liveness): a process halts by itself if an outage lasts.
* **close_requests** — `OneHandlerAtATime`, `OneEventPerKey`, `AcceptedIsServed`
  (liveness), `ImplementsAtLeastOnce`.
* **adapters** — `OrderIsTheRequest`: the order at the venue has the reduce-only
  flag and, but for an order that only reduces at MEXC (adapters_mexc), the side
  that were asked for, is less than one contract short of the quantity and never
  above it, and is never a market order in the place of a limit. `TerminalIsFinal`: an order reported as over cannot fill any more.
  `SettingIsDone`: answered without an error means carried out, except of Bybit's
  refusals without a code and KuCoin's settings, which are not sent (3.4).
  `NotFoundMeansAbsent`: the executor counts on it when it takes a leg as not
  opened. `ImplementsOrderExecutor`.
* **connections** — `WithinRate`: no more than an exact bucket would allow.
  `TokenIsDue`: the refill loses less than one token each time. `UnsafeSentOnce`.
  `BreakerRests`. `EventsAreFaithful`: an event shows values the venue had at one
  moment, in order, and of a private stream none is missing. `CallsReturn`,
  `StopEnds` (liveness).
* **market** — `EntryIsTimely`, `EntryIsReal`, `EntryPays`: about the step in
  which the engine picks a pair, in terms of the venues' own schedules and rates.
  The first excepts a venue that told only the time of the event after the next
  (OKX). The last speaks of pairs whose intervals, rates and times the program
  has as the venues have them: the calendar of an aging snapshot and the signs of
  the legs are right. The run also has the pairs it does not speak of.

### 3.1 Why the bounds are enough

* Two callers: the hazard of `TransitionTo` is one goroutine inside the window
  of another; a third one meets the same flag. Five log entries reach a terminal
  state and go round the DEGRADED cycle.
* Quantity 2 tells no fill, a part and all apart; one requote gives an earlier
  order whose late fill meets the next round's. The close is proved for all
  values.
* Engine: one position goes through every state; a second asset matters only to
  the limit, which no run checks: it is proved (`Limited`). One failed write at any step plus one
  restart at any step covers each pair of a failure and a recovery; a second
  failure starts from the same kinds of states. The safety properties are proved
  for all values.
* Rebalance: the plans meet only at the breaker; two plans and threshold 1 trip
  it by one and stop the other. Two failing writes cover a failure in the test
  and one in the main phase. It is proved for all values.
* SafeHalt: two keys tell all, some and none; outages and restarts are not
  bounded; threshold 2 tells a row of failures from one. It is proved for all
  values.
* CloseRequests: two requests meet at the key and at the engine's map, two
  dispatchers at the row; a batch of one leaves an event for the next call. The
  bounded failures and restarts come at any step. The safety properties are
  proved for all values.
* Adapters: two slices tell the order that is looked for from one that looks
  like it; with contracts of 2, a quantity of 1 is too small for a contract and
  3 leaves a remainder. The replies are not a choice of ours: every code in the
  adapter's tables, an unknown one and none, under every status the adapter reads.
  The short leg's orders are those of the long leg with the sides exchanged; the
  theorems cover both, all quantities, multipliers and slices.
* Connections: three calls are one that has the token, one that waits and one
  that comes meanwhile; `Period` 2 has a fraction of a token to lose. A channel
  of 1 and two updates after the first values fill it, drop an event and take
  another. Calls and streams share no state, so the run takes one or the other.
  Each call is made once, so `CallsReturn` does not speak of a waiter that ever
  new callers overtake (`waitToken` has no queue).
  The safety properties are proved for all values.
* Market: between two events of 4 ticks a snapshot can go stale while its event
  is ahead, and be fresh when the event has passed; the horizon of 6 holds one
  event or two of them, two or three at an interval of 2, depending on the time of
  the look. Each adapter that does not read the interval has a contract with the
  default and one with another, each that may read none has one without, and OKX
  and KuCoin book a rate that is not the next event's. `Slow` lets one tick pass
  between the three requests. It is proved for all values.

### 3.2 Fairness

* position: `WF` on each caller inside `TransitionTo`: the goroutine is
  scheduled and the database call returns, with an answer or an error. Nothing
  is assumed of who calls it.
* close: `WF` on the steps of the close: adapters have timeouts. Nothing is
  assumed of the exchange, so an order need not be accepted or filled.
* engine: `WF` on the loop's steps: the ticker fires and calls return. The
  operator, the registry refresh, the halt and restarts are free.
* rebalance: safety only, no fairness.
* safe_halt: `WF` on the watchdogs (a ticker fires and a ping has a timeout). The
  database, the owner, the clock, and starting a process are free.
* close_requests: `WF` on each dispatcher (ticker, returning calls), on each
  engine coming round to its requests, on the passing of `next_retry_at`, and on
  the server going on with a request it has. That requests arrive, that handlers
  succeed and that processes start is not assumed. That failing statements and
  restarts are bounded stands for a time after which they cease.
* connections: `WF` on time, on each call, on the manager's loop, the callback
  and the goroutine: they run on. `WF` on the venue closing a connection once the
  program has stopped: it is not pinged any more. Replies are part of a call's
  steps, since `http.Client` has a timeout. Nothing else is assumed of the
  network; calls need not begin and updates need not come.
* adapters, market: safety only, no fairness.

### 3.3 Assumptions about the venues

What a venue does is not in the repository, so the models say what they take
for granted:

* A filled quantity in an order's row parses (some adapters would read it as
  zero otherwise), and a row is whole or has one bad field. A reply that refuses
  an order never uses the code for "no such order".
* A refusal means "already so" only if its code is one of those the adapters list:
  110043 and 110025 at Bybit, 4028, 4046 and 4059 at Binance.
* The side codes of MEXC do what the comment on `domainSideToCode` says: 1 opens a
  long, 2 closes a short, 3 opens a short, 4 closes a long.
* A reply of status 200 that an adapter cannot read, or that holds nothing it knows,
  may come to an order or a setting that was carried out.
* An order whose answer was lost reaches the venue before `GetOrder` asks its
  first source or after its last.
* In the run adapters and in two of its theorems, Gate's replies are not lost (`Lossy`), because then
  `NotFoundMeansAbsent` does not hold: that is the run adapters_gate. KuCoin and
  MEXC do not lose the instrument from their list (`Delistable`): their table of
  contract sizes is replaced by each list, and a fill of an instrument that has
  left it is reported as contracts (MEXC) or as zero (KuCoin).
* The venues quote one price, so the basis is zero. The rate and the interval of a
  contract, and what its adapter takes them for, stay as they are in one behaviour;
  every rate, interval and reading the adapter admits may be the one. Bitget's
  interval is in hours, as its adapter supposes.
* A missing time of the next funding reads as long past, except at OKX, where the
  time of the event after it may stand in. A snapshot with a time long past, like
  one without liquidity, is kept in one form, since no entry can come of it.
* A stream's connection carries one topic that is followed, and one event of
  each message.

### 3.4 Where code and documents disagree

Three have a run of their own. The next four have a property in the models that
the code does not keep; it is named in the first line of the `.cfg` and is
checked by adding it there (as a PROPERTY or an INVARIANT, as the line says).

* **engine_alone** (`internal/engine/engine.go:7`: a leg never stays without the
  other unnoticed). The entry order of a leg is acknowledged, its status query
  fails or shows nothing filled yet, `Place` reports zero filled without an
  error, the position becomes FAILED, and the leg's fill stays on the exchange:
  a FAILED position is neither monitored nor restored.
* **adapters_gate** (`internal/execution/order_executor.go:130`: not found means
  the order is certainly not created). Gate stores 28 characters of a client id
  and `GetOrder` compares with all 32, so after a lost reply it always answers
  that there is no such order.
* **adapters_mexc** (`internal/execution/close.go:150`: a long is closed by
  selling, `SideShort`; `repair.go:146` says the same). `domainSideToCode`
  (`internal/exchange/mexc/adapter.go:987`) takes the side of a reduce-only order
  for the side of the position and sends 2, "close short", which buys; for
  `SideLong` it sends 4, "close long". A close or a repair at MEXC is thus an
  order to the other side.
* `CloseEnds`, MCEngine.cfg (`docs/MANUAL.md:337`: a close ends as CLOSED or
  DEGRADED). A failed or unanswered write of RECONCILING or CLOSED, or a restart
  during the close, leaves EXIT_REQUESTED, EXITING or RECONCILING, for which
  `monitor` has no case.
* `HaltedStillCloses`, MCEngine.cfg (`docs/MANUAL.md:228`: under SAFE_HALT open
  positions are still attended to). `Tick` returns before `monitor`.
* `KillSwitchStopsWorker`, MCSafeHalt.cfg (`docs/MANUAL.md:234`: at once
  SAFE_HALT, trading stands). The kill switch is served by the server; the worker
  reads the lock row only when it starts, so a running worker goes on trading.
* `SurvivesRestarts`, MCCloseRequests.cfg (`internal/app/providers.go:161`: the
  request survives restarts). The event is marked processed once the request is
  in the engine's map, and the map is lost with the worker.

More disagreements are visible in the models and have no property:

* The outcome of a top-up or of a reduction may be unknown and the position still
  becomes HEDGED (`docs/MANUAL.md:208` says it stops as DEGRADED).
* `ExecuteTest` called again in TEST_SENT transfers the test amount again
  (`internal/rebalance/executor.go:193` says all operations are idempotent by
  request id).
* A halt by the watchdog writes its row once, in the outage; if that fails it is
  lost with the process (`docs/MANUAL.md:228` says it survives).
* `docs/MANUAL.md:150` describes entry orders as IOC. MEXC sends them as plain
  limit orders, which rest in the book; `Place` may report one as acknowledged
  while it still can fill.
* At OKX an explicit IOC overrides the order type, so the market order of a close
  or a repair is sent as IOC (`internal/exchange/okx/adapter.go:1317`).
* KuCoin sends leverage 3 with every order, whatever `SetLeverage` was given
  (`internal/exchange/kucoin/adapter.go:1184`).
* An order the venue has taken, with a reply of status 200 that does not parse, is
  returned as a definite error (`bybit/adapter.go:1168`, `mexc/adapter.go:1081`
  and the others); `internal/execution/order_executor.go:109-110` says of such an
  error that the order was certainly not created. It is a step of the models
  (`AckUnreadable`), which the answer "error" of `OrderOutcomes` allows for.
* Bybit's adapter reads a body without `retCode` as success, whatever the HTTP
  status below 500 but 429 (`bybit/adapter.go:154-165`, 259-269), also of a refused setting.
  KuCoin's `SetLeverage`, `SetMarginMode` and `SetPositionMode` send nothing and
  return no error (`kucoin/adapter.go:1097-1125`); the engine sets leverage 2
  (`internal/engine/engine.go:489`).
* OKX reads `nextFundingTime`, the event after the next, when `fundingTime` is
  missing (`okx/adapter.go:663-668`): an entry may then come right before an
  event, against `MinSecondsBeforeFunding`.
* OKX and MEXC take 8 hours for the interval of every contract
  (`okx/adapter.go:558`, `mexc/adapter.go:478`, though `GetFunding` of MEXC reads
  `collectCycle`); Binance, Bitget and KuCoin take it where the reply has none; at
  Bybit and Gate a missing one is 0, and the calendar is empty. There are
  contracts with 1, 4 and 8 hours (`docs/exchange_contracts/binance.md:75`,
  `bybit.md:73`), and the calendar then has too few events or too many.
* The calendar books `PredictedRate`, commented as the rate of the next event
  (`internal/strategy/funding_calendar.go:51`). OKX gives `nextFundingRate`, that of
  the event after, when it is not zero (`okx/adapter.go:656-661`), KuCoin
  `predictedValue` (`kucoin/adapter.go:629`).
* The breaker of the connection manager is commented as letting one probe
  through (`internal/marketdata/ws_manager.go:82`); it closes and lets through as
  many attempts as the threshold. The HTTP client waits a backoff also after its
  last attempt.

The properties of the engine that hold carry the conditions these facts impose:
`OpenWithinLimit` (theorem `Limited`) speaks of behaviours without a failed write, since an unanswered
write of HEDGED or MONITORING leaves a position that is not registered until the
next restart; `HedgeWithinTolerance` excepts a restart that found one of two leg
rows; `RecordedIsReal` speaks of HEDGED and MONITORING only, since a second
close with the client ids of the first may be answered with the old orders.

## 4. What is proved

The eight proof modules prove their theorems for every value of the constants, from
the named assumptions of the modules and nothing else.

**PositionStateMachineProofs** assumes a non-empty set of callers, that 0 is one
of the deltas, and a bound on the log; any number of goroutines. The claim at
rest (`RowAtMostOneStepAhead`) is not inductive: `Rollback` restores the state
at which the call began, so one must know, for a call in flight, that memory
shows its target, that its step is legal, and that the row is still near its
start until it commits. `IInv` adds this (`CallInv`), that one call at most is
in flight, and, for a terminal target, that the snapshot to be written has
today's quantities. It gives `OnePersister`
(no run checks it by itself), `RowFollowsMemory` and
`FinalDeltaIsSaved`. A second invariant (`NoLossInv`), on top of the first,
follows the case in which no commit answer was lost and gives `MemoryIsRow` and
`TerminalUntilLoss`: a terminal row is rewritten by no process that has had every
answer, nor after a restart; one that lost an answer may begin again from the
older state in memory, and does rewrite it. `LogTellsLife` stands on both and on one more fact
(`PathInv`): the log is empty as long as there is no row. A commit appends a
transition from the state in memory, which by `NoLossInv` is the row's.

**EngineProofs** assumes a positive target, a tolerance of at least 0, a positive
limit of open positions and a value for "no leg" that is no integer; any set of
assets and any number of positions, failed database calls and restarts. None of
the invariants the runs check is inductive, and each part of `EngineInv` is there
for a step that would break another. `Near`: the row of a position shows the
state in memory or the transition `Tick` tries next, since an unanswered write
may have been done and a second attempt starts from memory. `Held` and `Even`
say of the quantities in memory and, in the same words, of those a restart would
read (the legs, or `actual_delta` where they cannot be read) that they are real
and within the tolerance. `Sane` says where a negative quantity may stand: in
the long leg, after a restart that read only the delta, and then the short one
is 0. `Fresh` says that a position not yet begun
has left nothing anywhere. `StateAt`, `RowAt`, `EntryAt` and `ExitAt` (together
`Cursor`) tell, for every step of `Tick`, the state of the position it works on,
when its row is not ahead of memory, and what the fills counted so far are worth:
that they are backed by the exposure while orders are out, and no longer once a
reduction was answered without certainty. `WithinLimit` counts the positions a
restart would restore, since a restart must find no more than were open. The
step lemmas follow `Tick`; the theorems about single steps
(`OrdersTraced`, `DegradedWaits`, `RowsFollow`) use the invariant at the step: an
order is tried only where the row is not ahead of memory and shows a state that a
restart takes up.

**CoordinatedCloseProofs** assumes a positive quantity bound, any number of
requotes and any real exposure. `NoPhantomClose` is not inductive: counting the
answer of the current order could count a fill twice. `IInv` has five parts:
`Control` (residual plus closed is the target), `Fresh` (orders of later
attempts do not exist), `Settled` (earlier attempts are over and none was
ambiguous), `Sound` (an answer is backed by the order) and `Backed` (what was
counted is real, and what the current order has filled comes on top of it). It
gives `AnswersSound`, `NoPhantom`, `SuccessIsReal`, `AmbiguityStops` and, with
the lemmas about each step, `Refinement`: every step of a close is a step of
`PairReduction` or a stutter.

**SafeHaltProofs** assumes a finite set of keys and a positive threshold. The
promise of a finished kill switch needs what it has done while it runs: that no
key outside the list still to be revoked is active unless an error is recorded
or the promise is off (`Progress`), that the server stands still meanwhile, and
that a worker started after it has built no adapter (`NoAdapters`). `HaltDurable`
needs that the writers of the row have set the flag before (`Memory`).

**CloseRequestsProofs** assumes finite sets of events and dispatchers and
positive limits. `OneEvent` needs that a request in work or stored has its key
taken and that no two requests with one key are in work while the server lives
(`Keyed`). `Delivered` needs that a dispatcher about to write a success has had
its handler succeed and that no event in a transaction is processed already
(`Transaction`).

**ConnectionsProofs** assumes a period, a bucket, a threshold and Go channels of
at least one, delays of at least 0, subscriptions that are non-empty sets of the
program's channels, and any set of calls. For the client, `RateIsKept` needs more
than `WithinRate`: the tokens in the bucket and the time since `lastFill` are
never worth more than the exact bucket has (`Worth`); `RefillIsWorth` shows that
a refill takes from one what it gives to the other. `UnsafeIsSentOnce` needs that
what a call has sent follows from its attempts and its step. For the manager,
`BreakerHolds` needs that a closed breaker has rested, and that the timer of a
loop that rests covers what is left (`Rests`), since the breaker closes in two
places; and that only the connect callback ends an attempt, while the loop waits
for it (`Called`). `EventsFaithful` follows an update from the venue to the
application. The messages on a connection are consecutive and, while it is open,
end with the venue's last values (`Wired`); where an adapter merges changes, what
it keeps is what the venue had just before the message it reads next, unless that
one is whole (`KeptIsLast`); the events in the Go channel, the one taken and the
one that waits for room are in order, and the next message comes after them
(`Ordered`); a connection that ends leaves nothing a later one could continue
(`Clean`). That private streams leave nothing out also needs a fact of the
adapters' tables: none of them sends mere changes on a private topic
(`PrivateIsWhole`), so no private message is merged or dropped.

**VenuesProofs**, about the adapters, assumes known venues, positive quantities
within a bound, a positive multiplier and slices in the range of the code. The
adapters differ only in their tables, so each venue's tables are looked through
once (`BinanceTables` to `OkxTables`) for the facts `Place` rests on
(`TablesAreSound`): no word for an order that can still fill reads as its end; a
refusal of an order is neither a success nor one of the errors after which the
executor asks for the order, and what an adapter makes of the reply to an order
that was taken is no such error either; of a setting's refusals only the
codes that mean "already so" count as done, but for Bybit's empty body, and what
is not sent is answered with an error, but for KuCoin's settings; and `GetOrder` asks either one source that shows every order, or the live
orders first and then the finished ones. To this come what an order is on the
wire (`WireIs`) and what the adapter makes of a fill (`FilledIs`). What follows
is the same for all venues. None of the properties but `SettingIsDone` is
inductive. `Sent` says of a slice that nothing of it is at the venue before
`Place`, and that what was sent is what the engine asked for, but for the side of
an order that only reduces at MEXC: it gives `OrderIsRequest`. `Asked` says that an order the query has not found among the
live ones is not live, so that the second source cannot miss it (the order of the
two sources is what matters here: an order ends between the two questions, it
never comes back), and that without an acknowledgement an order can be at the
venue only where replies get lost. `Final` is `TerminalIsFinal`. `SizeIsKept`
says that the contract size stays known once an order was placed.
`NotFoundAbsent` and `AdaptersRefine` have a hypothesis: that Gate loses no
reply. Gate shows an order only by the number it has told, and without
the hypothesis the run `adapters_gate` finds `NotFoundMeansAbsent` violated. `AdaptersRefine` has one more: that KuCoin and MEXC keep the
instrument in their lists as long as an order is out, since both replace the
contract sizes with each round and read a fill of an instrument that is gone as
0 or in contracts (3.3). The run `adapters` has the same two conditions. In the
refinement every step of `Place` over an adapter is the step of `OrderExecutor`
of the same name, or, for a setting, a round of instruments, the end of an order
and the question to the second source, a stutter.

About the market loop, **VenuesProofs** assumes any set of offers (two known
venues, at each an integer rate, a positive interval and what the tables let its
adapter make of them: `OffersAssumption`), and times that are positive where a
time of zero would mean nothing. The invariant `SnapshotsAreTrue` says of every
snapshot that may lead to an entry that its rate is what the adapter takes for the
venue's, that what it tells was read no longer ago than its age and the time of
three requests, and that its next event, as long as it is positive and not `late`,
is the venue's own: that is what survives the passing of an event. `EntryTimely`,
`EntryReal` and `EntryIsPaid` follow from it at the step in which the engine picks;
the last one also needs that a calendar begun at the venue's next event with the
venue's interval is its schedule up to the horizon.

**RebalanceExecutorProofs** assumes a finite set of plans, an exchange for each
and a positive threshold, and holds for any number of failed writes, test
transfers and restarts. `MainAtMostOnce` is not inductive: a restart forgets the
call and reads the row, so one must know that MAIN_SENT is durable before the
main transfer is tried and that nothing has left before it (`InMain`), that the
row is never ahead of memory and that a plan with a terminal row has no call in
flight (`NotAhead`), and that a plan past a confirmation, in memory or in its
row, had the deposit credited and the attempt recorded (`Backed`).
`TrippedScopeRests` needs that a breaker which has not tripped counts the
failures in a row (`Counting`).

Proved, and checked by no run of their own: `FinalDeltaIsSaved` and
`TerminalUntilLoss` (a terminal position's row has the last quantities, and only a
process that lost a commit's answer rewrites it), `OnePersister`, `AnswersSound`
(every answer is in `OrderOutcomes!Answers`: the fill reported with "ok" is a lower
bound of the real one, every other answer reports none), `Limited` (the limit of
open positions, while no database call has failed), `HaltFirst` (no key is touched before
the halt), `WorkerStaysDown` (a worker that starts after a kill switch does not
come up), `CompletedMeansCredited` and `TerminalPlanStays` (what the row of a
finished plan says is so, and stays), and type correctness of all nine
specifications (of the position's a run checks it too), and `RowsFollow` (the row
of a position only moves along the table).

Model-checked only: all liveness (`CloseReturns`, `CloseRequestIsTaken`,
`WatchdogHalts`, `AcceptedIsServed`, `CallsReturn`, `StopEnds`), since liveness
under fairness and ENABLED are outside TLAPS's reach here. Every other property
of the runs that pass is a theorem. What a recursive definition
computes for every input (induction over data) is not provable with the
installed provers either; the algorithms planned below will be checked over
bounded inputs.

## 5. Not modelled, or abstracted

* Prices, fees, PnL and funding amounts in `Engine`: no property of the loop
  depends on them; quantities are integer multiples of one step.
* `CloseOneLegEmergency`, `PositionRepo.Save` and `Load`, `Halter.Resume`,
  `RotateKey`, the breaker's table and the risk engine have no caller in the two
  processes. Nor have the adapters' balances, positions, fills and histories,
  fees, deposits and withdrawals; `CancelOrder`, the settings, `Transfer`, the
  subscriptions and the connection manager have none either but are modelled,
  since the plan of the code needs them next.
* `AddRealisedPnL` and `AddFundingPnL`: additions behind the same terminal guard
  as `SetQuantities`.
* A request for a position that is neither open nor being opened is never read
  by the loop; it is left out of `RequestClose`.
* Order records (`recordEntryOrders`) and notifications are best effort and read
  by no decision.
* Dry run at start-up (mock exchanges, failed preconditions only logged): the
  worker then trades with nothing real.
* The audit records and the rotation journal are written and read by nothing.
* Of an adapter: signing, URLs, the text of requests and replies, pagination,
  the arithmetic of decimals. A limit price is there or not.
* Of the scanner: confidence, the class of the funding interval, the spread
  filter, several assets; of the strategy: basis, fee schedules and score.
* The mock exchange (dry run), allocation, risk, VWAP, quantisation, the
  planner: next in the plan. Signing and encryption have no state and no
  interleaving.

## 6. Plan

The position state machine, the executors, the engine, the rebalance executor,
the control plane, the seven adapters, the connections and the market loop are
modelled, in that order. What is left:

1. **Algorithms**: quantisation, VWAP, basis and score, allocation
   and its caps, rebalance planner, client order ids, each against a reference
   definition over bounded inputs, and lemmas about the non-recursive ones.
2. **Settings and HTTP**: optimistic versions of the settings with their hot
   swap, sessions, the suppression of repeated notifications.
3. **Second life of client order ids**: two closes of one position, with an
   exchange that answers a known id with its old order.
