# EonTrading in TLA+

A verification project for EonTrading: TLA+ models of the live trading system,
TLC runs that check them on small instances, and theorems about them checked by
TLAPS. Paths are relative to the repository root (`src/src/common/x.py` is the
repository's `src/common/x.py`).

## 1. The system

EonTrading turns news into orders. It runs as one process (`live/pipeline.py`)
or, with the Redis or Kafka bus, as one process per component
(`scripts/distributed.py`, `docker-compose.yml` with `restart: unless-stopped`).

    NewsWatcher --[news]--> AnalyzerService --[sentiment]--> SentimentTrader
                                                                 | execute
                                  PriceMonitor --execute-->   broker
                                       |                         |
                                       +--- orders collection ---+  (mongo_log_order)
                                                 | poll
                                            OrderTracker --> positions collection
                                                                  | read
                                              PriceMonitor, SentimentTrader

The `[trade]` channel is for observers only: nobody acts on it. The README of
the repository and some docs still speak of a `TradeExecutor` and a `[fill]`
channel; the code has neither.

| Component | State | Operations | What is hard | What makes it correct |
|---|---|---|---|---|
| OrderTracker, order log and store (`common/order_tracker.py`, `order_store.py`, `order_log.py`) | `orders` and `positions` collections, the batch in memory | log an order, poll, mark filled / failed / timed out, retry later, move the position | writes from a batch read several awaits earlier, with no guard on the status; crashes and failed writes between two updates; partial fills and board lots | closed orders stay closed; a fill moves the position at most once, and only if the broker dealt it; every order closes |
| Broker adapters (`live/brokers/`) | the broker's own books | execute, check_order, cancel_order | five ways of reporting a partial fill or an error | what an adapter reports as filled was dealt |
| PriceMonitor (`live/price_monitor.py`, `common/trading_logic.py`) | `_states` per symbol, next to the position store | a tick: refresh, evaluate, sell, forget; restore at start | the store follows an accepted sell only much later; other processes open, extend and close positions during a tick; refused sells; restarts | a stop is not forgotten, and is executed; the trailing peak does not fall; a position is sold once |
| SentimentTrader (`live/sentiment_trader.py`) | the queue, `_last_trade_at`, cash at the broker | enqueue, process one event at a time, hold checker | two coroutines over one memory; one snapshot of positions for several trades; late confirmations; exceptions in the middle of an event | cash is spent once; one trade per symbol, side and dedup window; every event is dealt with |
| Redis bus (`common/event_bus.py`) | stream, group cursor and pending list in Redis; listener task | publish, subscribe, start, read, handle, ack | the group is created after the handler is registered; the listener task dies of any exception; a restarted process is another consumer | at most once, in order; acknowledged only after the handler |
| Kafka bus (`common/event_bus.py`) | topic, committed offset; listener task | the same | commit after a batch: a death repeats it | no record is skipped |
| Local bus (`common/event_bus.py`) | a task per handler and message | publish | handlers overtake one another | order is restored by the trader's queue |
| News intake (`live/news_watcher.py`, `common/news_poller.py`, `data/news/`) | a bounded memory of keys per source, the URL store | poll all sources, filter, publish | seen before published; a source cancelled by its time-out, or running on in its thread; the trimmed memory; one URL under two keys | no article slips through without a failure that lost it; with a URL store no URL goes out twice; the oldest keys are forgotten first |
| AnalyzerService (`live/analyzer_service.py`) | none | staleness, analysis, publish | wall clock against replay clock | fresh relevant news becomes one event |
| PaperBroker account (`live/brokers/paper.py`) | cash in memory and in a document | load, create, trade, persist | each process has its own copy; one that starts while another trades | with one process that trades, the document is what its orders left |
| Back-test engines (`backtest/`) | cash, positions, pending signal, peaks of one run | per bar: fill the pending signal, exits, new signal, valuation; close at the end | fees after the share count; shorts; symbols without a bar; the order of the steps of a bar | purchases are covered; the books balance; the value reported is the value left |
| Back-test jobs (`api/server.py`) | the job table | submit, poll, clean up | polling threads against one another and the event loop | a result is handed out once, a job waits for its client, a client gets an answer |
| Process manager (`run.py`, `scripts/distributed.py`) | pid files, running processes | start, stop, restart, status | several commands at once, an interrupted command, deaths, reused pids | every running service is known and runs once; a stop leaves nothing |
| Reconciliation, wealth (`common/reconcile.py`, `live/wealth_tracker.py`) | none | compare, record | reads at different times | reports only real differences |
| Replay (`live/pipeline.py`, `live/replay*.py`, `scripts/backtest/`, the body of an API job) | the pipeline on a local bus, a paper account in memory | publish the history, report, stop the bus | deliveries that outlive the report; the wall clock against the simulated one | the account is a cash account; every event ends |

The remaining parts (market data ingest and storage, prices, technical
strategies, heartbeats and logs, process scripts, settings, front end) are I/O,
arithmetic on data frames or presentation; `PROJECT.json` lists every part with
its status and reason, and every hazard at its line.

## 2. Modules

| Module | Models |
|---|---|
| `Brokers` | the five adapters, as far as the tracker can tell them apart |
| `Ledger` | abstract: orders are accepted, each settles at most once, and only a settlement moves a position |
| `OrderTracker` | the life of an order; implements `Ledger` |
| `OrderTrackerProofs` | theorems on it |
| `PriceMonitor` | the monitor against the position store |
| `PriceMonitorProofs`, `MCPriceMonitor` | theorems; TLC prices |
| `Delivery` | abstract: at-most-once in order, and gap-free at-least-once |
| `RedisStreamBus`, `RedisStreamBusProofs` | one channel, one group, one process; implements `Delivery!OnceSpec` |
| `KafkaEventBus`, `KafkaEventBusProofs` | one topic of one partition; implements `Delivery!GapFreeSpec` |
| `SentimentTrader`, `SentimentTraderProofs`, `MCSentimentTrader` | queue, processing loop, hold checker; theorems; TLC events |
| `NewsIntake`, `NewsIntakeProofs`, `MCNewsIntake` | the watcher, its sources and the URL store; theorems; TLC feeds |
| `Account` | abstract: a cash account whose purchases are paid for and whose sales give up a whole position |
| `Backtest` | the bar loop of the three engines; implements `Account` when it sells nothing short |
| `ReplayPipeline`, `MCReplayPipeline` | the single-process pipeline under its four drivers, on the local bus; implements `Account` |
| `BacktestJobs` | the job table of the API |
| `ProcessManager` | the pid files under several commands |
| `PaperDesk` | the cash document shared by the paper brokers of several processes |
| `MCParts` | TLC: `Backtest` and the last four, one of them (`part`) to a behaviour, since they share no state |
| `PartsProofs` | theorems on `Backtest`, the last four and `MCParts` |
| `SumFacts` | lemmas on sums over finite sets, for `OrderTrackerProofs` and `PartsProofs` |

Definitions whose comment starts with "Slip:" belong to no specification. Each
is a definition of the module with a plausible mistake in it, and is there to
show that a property notices the mistake (`PROJECT.json`, "mutants").

### How the models follow the code

**Awaits.** All components are asyncio coroutines. A model splits a handler
exactly where it awaits something outside (store, broker, price, bus), since
only there can another coroutine or process come in; what lies between two
awaits is one action. A process death is possible in every state the process
has.

**OrderTracker.** `Submit` is `broker.execute` accepting an order (from any
component, of any shape), `LogOrder` / `LoseOrder` are `mongo_log_order` with
and without its effect. `ReadBatch` is `find_pending`; `NextDoc`, `CheckOrder`,
`CancelOrder`, `Mark*`, `UpdateRetry` and `ApplyFill` are the body of the loop
in `_check_pending` with `_cancel` and `_mark_filled`. `pc` names the next
database or broker call. `DbFails` is a write that raises, with its effect or
without; `Crash` the same for the process. `overdue` stands for the age of a
document: it is computed at the read, which is why the batch remembers `late`.
`next_check_at` is left out: it is never later than the next wake-up of the
loop. `settled` is a history variable for the ledger.

**Brokers.** `CheckAnswers` is the set of answers `check_order` can give for
what the broker really did. PaperBroker's depends on the order document;
Futu's reports partial fills as filled, with the dealt quantity; the others
only report complete ones. A cancelled order that had dealt something is
"cancelled" for IBKR, Alpaca and Webull and "pending" for Futu.

**PriceMonitor.** One tick of `check_once` is `Refresh`, `Evaluate` for each
state, `StartSelling`, then `SellAccepted` + `PopState` or `SellRefused` for
each triggered symbol, then `EndTick`. Entry prices are kept as a pair
cost/lots, so averages are exact without fractions. The clean-up at the end of
a tick (price_monitor.py:149) compares the states with a set that contains
them, and so removes nothing; `EndTick` does the same, and states of closed
positions stay. Orders of the monitor are sizes in `sells` until they are
confirmed (`SellFills`) or end otherwise (`SellFails`).

**Buses.** `listener` is where the listener task is; "dead" is a task ended by
an exception in a process that lives on. In Redis, reads and acknowledgements
may lose their reply after their effect. Messages are numbers. Publishers do not die in the middle of
`XADD`; a publish that fails is no message.

**SentimentTrader.** `Dequeue` to `EndEvent` are `_process_loop` with
`_handle_sentiment`; `Decide` is the dedup check with the note taken before the
trade, without an await between; `Execute` and `Publish` are
`_execute_and_publish`. The `Hold*` actions are `_hold_checker`. Cash moves as
in PaperBroker: a buy deducts it as it is accepted. The one share the code buys
when `get_cash` raises is not there: every adapter's `get_account_info`
swallows its errors and reports no cash, which skips the buy. `MayRaise` says
where an event may raise: at a read of the store, at a publish, and at a price
as of an older event, whose Redis cache nothing guards (price.py:46). The hold
checker asks for the price of the moment, which is not cached.

**NewsIntake.** A poll starts every source at once; `Respond` and its siblings
run one source from a response to its next request, which is where a coroutine
gives way. A source cancelled by the time-out keeps what it has marked; one
that fetches in a thread (`ThreadSources`) goes on marking after its poll has
given it up. Keys a source never has (`None`) are always new. The memory is
trimmed as `_check_seen` does, to the newest four fifths. `queue` is what the
filter let through and `run` publishes one by one; a publish that raises ends
the watcher for good, and nobody notices (`pc = "dead"`). `dropped` is a
history variable: what a failure lost. The runners pass no news store, so the
"Deduplicates by URL" of the README has no effect in any deployment; `Stores`
holds both cases.

**Backtest.** `pc` walks through the steps of a bar in the order of the loop.
An engine is a configuration (`Config`), not a module: the three share exits,
cost model and closes. Money is counted in units in which every percentage of
a price is exact. Prices, news and signals are arbitrary at every bar, and a
symbol may have none. What the code does and one might not expect: the flat
commission is not part of any sizing, so a purchase may overdraw the account by
it; a stop is filled at its own price, even if the bar opened beyond it;
closing a short pays in the entry value a second time (engine.py:207; `credited`
keeps count, see `BooksBalance`); a symbol without a bar is missing from the
equity of that bar; `final_value` is the last equity and `annual_return` uses
the cash; the cool-down also holds back the first bars of a portfolio run.

**ReplayPipeline.** One task per delivery, as `LocalEventBus.publish` makes
them: `stage` says how far each event is, and events overtake one another until
the trader's queue. The drivers differ in what they wait for and what ends
them: the API reports 0.3 s after its last event, whatever its deliveries are
doing, and stops the bus, whose cleared subscribers lose what comes later; a
job with a bad date, or whose valuation after an event fails, ends without
stopping the bus; the last valuation may fail too (`unreported`), and a price
in the middle of the handling of an event; the scripts end with their
`main`, and a store that fails in the monitor's check ends it early and cuts
off the tasks. Nobody runs an `OrderTracker` there: positions are never
recorded, so no replay ever sells. The dedup memory of the trader works in real
time, so the second buy of a symbol within a real minute is suppressed however
far apart the news are.

**BacktestJobs.** A caller stops between any two accesses to the table, because
polls run in threads; the clean-up comes to one job after the other (`seen`).
A dictionary that changes size under an iteration raises
(`resized`), and so does a key deleted by another poll; the client then gets a
500 and polls again. The time-to-live counts from the creation of a job. A poll
may answer "done" without the result, since the status is read twice.

**ProcessManager.** A command (start, stop, restart, status) goes through the
services in order; `step` is what it does next for the one in `turn`. A pid
whose process has died may be taken by another program (`Stranger`): a start
then finds the service "running", and a stop kills the stranger. `tangled` is
set once two commands, of which one starts services, overlap, or a start is
interrupted between the process and its pid file: what the code can promise
ends there, and the properties say so. Not modelled: `run.py` looks for the
single-process mode by the name "news_trader", which the process it starts
(`run.py single`) does not have, so it is neither found nor killed; and
`docker_ctl` still names an "executor" component.

**PaperDesk.** `savedCash` is the document, `money[b]` the copy of a process,
`book` what the orders add up to, `writers` who has traded. With trader and
monitor in processes of their own each order overwrites the cash of the other;
`AccountKept` is what is left to say.

## 3. Runs

TLC, two workers. Deadlock checking is off everywhere, because every model
bounds its inputs (orders, messages, faults) and so may stop when they are used
up; that the code itself does not stop is what the liveness properties say.

| Run | Shows | Bounds, and why they are enough |
|---|---|---|
| `OrderTracker` | `TrackerInv` (with `FilledWasDealt`), `StoreNotOverstated`, `HoldingIsComplete`; closed orders are final; `Ledger` is implemented; every order closes; without a fault every fill settles | Two orders of two shares on one symbol, lots of three: Futu asks for more than the document, and partial fills exist below, at and above the document's size. Two orders give a batch with one order in hand and one to come, and two fills of one position. One fault suffices for each property to break if it can; the theorems cover any number |
| `OrderTrackerLostFill` | violation: a fill is lost | two orders, one fault |
| `PriceMonitor` | `PeakKnown`, peaks never fall, stops are not abandoned and are executed | One symbol, since symbols only share the order of a tick; two buys give averaging in, and a second position after the first; two open sells; prices that hit the stop, the trailing stop and the profit; one restart. Trailing is on here (the live runners leave it off; the theorems cover both) |
| `PriceMonitorEntry` | violation: the entry price in use is not the store's | two buys |
| `PriceMonitorShort` | violation: the account goes short | one buy, two open sells |
| `RedisStreamBus` | `BatchInv`, acknowledged means handled, at most once in order, nothing lost unless a process or listener dies | four messages in batches of two give full and partial batches; a group from an earlier deployment or none; two deaths; one failure |
| `RedisRestart` | violation: a message read by a dead process is lost | two messages, one death |
| `KafkaEventBus` | `CommitInv`, no record skipped, all handled unless the listener dies | as for Redis |
| `SentimentTrader` | cash never negative, equal orders a dedup window apart, the queue drains | two symbols; a bullish event naming one of them twice, a bearish and a weak one; two events, two orders, three instants against a window of two; with and without the hold checker; one restart |
| `NewsIntake` | its types; `NothingSlips`, `PublishedOnce`, `ForgetsOldest`; whatever is posted is published, skipped as known, or lost to a failure | Two sources, one of them in a thread, and three feeds: a time-out can hit a source in the middle. Four articles: one URL under two keys, one article without a URL, one from the thread; memories of two keys, so that they are trimmed; two attempts per request; one failure, one restart; with and without a URL store |
| `Parts` | their types; `BooksBalance`, `ReportedValue`, `BuyIsCovered`, `ImplementsAccount` of the engines; `ReplayImplementsAccount`, `EveryEventEnds` of the replay; `ResultHandedOutOnce`, `JobsWait`, `ClientIsAnswered` of the jobs; `EveryProcessIsKnown`, `StopLeavesNothing` of the manager; `AccountKept` of the desk | Engines: two symbols, two prices, three bars (enter, hold or leave, enter again or be closed at the end), six configurations, capital for a few shares so that sizing matters. Replay: two events on two tickers give overtaking and one event of two trades; four drivers. Jobs: two jobs, two clients: two polls of one job, and a clean-up of the other under them. Manager: two services, three pids (one is reused), two operators; not followed once tangled. Desk: a single broker, or trader and monitor; orders of two sizes that cannot both be paid; one mishap; not followed once two have traded |
| `ReplayStale` | violation: a replayed event is skipped as stale | as the replay of `Parts` |

The dedup property is for the deployed configuration, `max_hold_days` 0. With
the hold checker it does not hold (the checker tests the memory, awaits a
price, and only then notes its sell), but no runner starts it; the checker is
part of the model, and the cash and queue properties hold with it.

### Fairness

- A loop that is an endless `while` in the code (tracker, monitor, trader,
  listener) takes its next step if it stays able to: weak fairness of the
  loop's steps as a whole, never of one outcome of a broker or database call.
- The watcher goes on while it is not dead (`WF(Work)`), with no assumption on
  the requests: each has its attempts and its time-out.
- An event loop runs what is ready (`WF(EventLoop)`, `WF(LoopWork)`), which is
  asyncio's promise, and a client keeps polling until it has an answer
  (`WF(Poll(c))` for each client on its own). `PartsSpec` joins these.
- A process that is down is started again (`restart: unless-stopped`): weak
  fairness of `Start` in the bus models. A listener task that has ended is not.
- Time passes: weak fairness of `GrowOld`.
- `StopIsExecuted` also assumes that a broker asked again and again accepts an
  order some day (strong fairness of `SellAccepted`); without it the code can
  do nothing.

Nothing is assumed of publishers, of the broker dealing orders, of prices, or
of the absence of faults.

### Disagreements found

1. **A fill can be lost** (`OrderTrackerLostFill`). `_mark_filled` closes the
   order document first and moves the position second, and swallows an
   exception of the second: after a crash or a failed write the order is never
   looked at again. The docstring promises to survive crashes.
2. **The monitor keeps the first entry price** (`PriceMonitorEntry`). Only the
   shares are refreshed for a symbol it already knows; the docs say the entry
   price is read on each cycle.
3. **A stop can sell twice** (`PriceMonitorShort`). The state popped after an
   accepted sell is created again at the next tick, because the position is
   deleted only when the tracker confirms; a price still below the stop
   triggers a second sell of the same shares. The README rules short positions out.
4. **Messages do not survive a restart** (`RedisRestart`). The listener reads
   `>` only, and a new process is a new consumer: what the old one had read
   and not acknowledged is never delivered again, against the "at-least-once"
   of the docstring. The other side of it is that nothing is delivered twice
   (`DeliversOnce`).
5. **A replay trades on nothing by default** (`ReplayStale`). The staleness
   check compares the timestamp of the news with the real time, not the
   simulated one: every event of a history is older than `max_age_sec` and is
   skipped. `replay.py` promises the exact same pipeline under a simulated clock.

## 4. Theorems

All are proved for every value of the constants allowed by the named
assumptions (`TrackerAssumption`, `LotAssumption`, `MonitorAssumption`,
`TraderAssumption`, `BusAssumption`, `IntakeAssumption`, `BacktestAssumption`,
`ReplayAssumption`, `JobsAssumption`, `ProcessAssumption`, `DeskAssumption`):
sizes, lots and prices are positive, percentages are parts of a whole, fees are
not negative, placeholders differ from what they stand beside; sets may be any
sets, bounds any numbers.

- **OrderTrackerProofs.** `TrackerInvariant`: `TrackerInv` is inductive. What
  one wants (`FilledWasDealt`, settled at most once) is not inductive alone: a
  fill is decided at one await and written at the next, so the invariant says
  that the document in hand is still pending and not also in the rest of the
  batch (`BatchIsPending`; this is why updates without a guard are safe while a
  single tracker runs), that a fill about to be written was covered
  (`FillIsCovered`), and that an order about to move a position has not done so
  (`SettledIsFilled`). `PaperDealt` is needed because PaperBroker answers from
  the document rather than from its books. From it follow `TypeCorrect`,
  `FilledOrdersWereDealt`, the action property `ClosedOrdersAreFinal`, and
  `ImplementsLedger`: `Submit` maps to `Accept`, the update of the position
  (also one whose reply was lost) to `Settle`, everything else to a stutter.
  `StoreIsNotOverstated` is proved over the steps of the ledger: a position is
  at most what its settled buys add up to (`HoldingInv`; `StoreNotOverstated`
  alone is not inductive, since a settlement raises a position and nothing the
  broker dealt), and settled orders are filled, so they were dealt. Only
  finitely many orders have been placed in any state, so `Orders` may be
  infinite.
  `HoldingsAreComplete` is the other side: as long as no sell of a symbol has
  settled, its position is exactly that sum (the last part of `HoldingInv`), and
  before a first fault every filled order is settled or is the one in hand
  between `_mark_filled`'s two writes (`FillsAreSettled`), so the settled orders
  of the symbol are its filled ones.
- **PriceMonitorProofs.** `TypesAreRight` for all of the state. `PeakInv` is `PeakKnown` with the types it needs and
  the fact that only monitored symbols are evaluated. It gives `PeaksAreKnown`,
  `PeaksNeverFall` (the only write of a peak raises the monitor's, which is at
  least the store's) and `StopsAreNotAbandoned`.
- **SentimentTraderProofs.** `TraderInv` is `TypeOK` with `HandsInv`: a buy
  that has been decided can be paid for when it is executed, because only the
  hold checker acts in between and it only sells. It gives `TypeCorrect` and
  `CashStaysSolvent`. `SpacedInv` adds what `OrdersSpaced` needs to be
  inductive: in one life of the process the dedup memory is at least as late as
  every order placed, and a trade about to be executed is noted and a window
  later than all its twins; orders of earlier lives are told apart by number.
  It gives `EqualOrdersAreSpaced`.
- **RedisStreamBusProofs.** `BatchInv` ties the entry in hand to the cursor,
  the unacknowledged entries and the history of calls; with it each handler
  call is a first call with no later one, which is `ImplementsOnce`.
- **KafkaEventBusProofs.** `CommitInv`: everything below the committed offset,
  and below the record in hand, has been handled; hence `ImplementsGapFree`.

- **NewsIntakeProofs.** `MemoryInv`: the memory of a source holds no key twice
  (its bound is part of `TypeOK`), which is what makes trimming it drop the oldest keys only
  (`OldestIsForgotten`). `SlipInv` follows every marked key and URL to an
  article that is published, on its way or dropped (`NoArticleSlips`). `OnceInv`
  says, for a watcher with a store and no failure yet, that every URL published
  or queued is recorded, and that the queue holds none twice and none that is
  published (`NoUrlTwice`).
- **PartsProofs, the engines.** The invariant has four parts: what the cash allows
  (`AccountInv`), what a position holds (`HeldInv`), what a bar shows
  (`MarketInv`) and what each step may find (`ControlInv`). Every step is shown
  to be one of five kinds of trade (buys long, sells short, sells long, buys
  back, moves the peak) or none, so that each part is proved for six cases
  instead of for every action. `PurchasesAreCovered` and `EnginesAreCashAccounts`
  follow; the arithmetic they need (a whole number of effective prices fits in
  the cash) is in lemmas of its own. `BooksAreBalanced` adds up entry values
  over the open positions: a trade moves one position, so one summand, and by
  what it moves cash, profit and fees (`TradeBalances`, one case per kind of
  trade); a step opens one position at most, so they are finite whatever
  `Symbols` is. `ValueReported` follows the same sum through the phases of the
  last bar (`ValueInv`): while the equity is computed, what it still lacks is
  the value of the symbols not looked at; during the forced close, what it has
  above the cash is the value of what is still open; and the strategy engine,
  which has one symbol, ends with its fee as the difference. The proof showed
  that the property as first stated, with the capital as bound of the shares
  sold, only held on small instances: profits buy more. It is now bounded by
  the fee itself.
- **PartsProofs, the other parts.** `ReplayIsACashAccount`: whatever order the tasks run in,
  only the one queue buys. `ResultIsHandedOutOnce` and `FinishedJobsWait`: a
  result leaves with the deletion of its job, and of two polls that both hold it
  the second to delete gets a KeyError instead of an answer. `ProcessesAreKnown` and `StopIsComplete`: unless tangled, a command that
  starts services is alone, and what a command found about a pid still holds
  when it acts on it. `AccountIsKept`: the one writer's copy is the document.
  `EveryPartIsItself`: a behaviour of `MCParts` is one of every part's own
  specification, because the parts share no state; so the theorems on the parts
  hold where the runs check them together (`PartsTypesAreRight` for the types).
- **SumFacts.** `SumFunctionOnSet(f, S)` of the community module `Functions` is
  a fold, defined by `CHOOSE` of a function that solves a recursion over the
  subsets of S. That the recursion has a solution (`SumsExist`) is shown by
  induction over subsets, stated over a set instead of a predicate
  (`SubsetInduction`, from the well-foundedness of strict inclusion), since a
  fact with an operator parameter cannot be instantiated. From it: the empty
  sum, an element more or less, types, and comparison of sums.

Every invariant and every action property of the passing runs, and every
refinement, is stated by a theorem. Only model-checked: the liveness properties
(`EveryOrderCloses`, `FillsSettleUnlessFault`, `StopIsExecuted`,
`HandledUnlessStopped`, `HandledUnlessDead`, `QueueDrains`, `NewsGetsOut`,
`EveryEventEnds`, `ClientIsAnswered`), which rest on fairness and thus on
ENABLED.

## 5. Not modelled, and the plan

Not modelled for good: parsing of feeds, what an LLM or a keyword list makes of
a headline, data frames, metrics, wording of messages, market hours of the
brokers, more than one consumer of a group, more than one tracker (each is
deployed once), indicators, quotes and their cache, market data storage, the
front end, maintenance scripts that run with everything stopped.

In the models, but promised by no code and so forbidden by no property: what a
broker deals of an order that was given up, or of one without a document; the
states the monitor's clean-up keeps; the second sell of the trader (the
monitor's is shown) and of the hold checker, and its silent end; a listener
ended by an exception or by a group that does not exist yet (the liveness of
the buses exempts it); deliveries cut off at the end of a replay, or lost
(`EveryEventEnds` counts them as ended); the second credit of a closed short
(`BooksBalance` has it as a term); a last bar without an open symbol
(`ReportedValue` excludes it); a second process that trades on the paper
account; starts that overlap or are interrupted (`tangled`). PROJECT.json has
each at its line.

In order, next:

1. `TradingDesk`: trader and monitor placing orders that the tracker confirms,
   on one account; implements the `Spec` of `OrderTracker`. Hazards: a sell that
   deletes shares bought meanwhile, double sells across processes.
   Nothing in the code keeps a sell from overlapping other orders of its symbol,
   so store and broker can only be shown to agree while none does; the useful
   result is which overlap makes them differ in which direction.
2. Its observers: reconciliation and wealth. A restarted PaperBroker knows no
   positions, and the API builds a fresh one for each report, so that every
   position is reported as missing at the broker; the wealth process never
   reloads the cash it read at its start.
3. The single-process mode beside the distributed one, and `docker_ctl`.
4. The distributed replay: the driver against components in other processes.
5. `price.py` and `portfolio.py`: the order of fallbacks and the cache.

Runs are kept few: a component that shares no state with the others joins
`Parts`, and a disagreement gets a run of its own.
