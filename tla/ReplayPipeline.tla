---------------------------- MODULE ReplayPipeline ----------------------------
(***************************************************************************)
(* The single-process pipeline: a driver feeds a history of news into a    *)
(* LocalEventBus, on which AnalyzerService and SentimentTrader trade with  *)
(* a PaperBroker.  The drivers are the API's live back-test, replay mode,  *)
(* and the keyword and pre-scored scripts of scripts/backtest.             *)
(*                                                                         *)
(* The bus runs every delivery as a task of its own, so events overtake    *)
(* one another until the trader's queue puts them in line; no driver waits *)
(* for the tasks, it sleeps and reports.  Nobody writes positions to the   *)
(* store of these processes (there is no OrderTracker): the trader never   *)
(* finds one to sell, and the price monitor has nothing to check.          *)
(***************************************************************************)
EXTENDS Integers, Sequences

CONSTANTS
  Tickers,
  TickerPrices,   \* prices of a share
  ReplayCapital,  \* initial_cash
  Sizes,          \* percents of cash an order may take: |sentiment| or max_allocation
  NEvents,        \* length of the history
  Drivers,
  PaperFee(_, _)  \* buy_cost of the broker's cost model

Events == 1..NEvents

ASSUME ReplayAssumption ==
  /\ TickerPrices \subseteq Nat \ {0}
  /\ ReplayCapital \in Nat
  /\ Sizes \subseteq 1..100
  /\ NEvents \in Nat \ {0}
  /\ Drivers \subseteq {"api", "replay", "keyword", "prescored"}
  /\ \A p \in TickerPrices, n \in 0..ReplayCapital : PaperFee(p, n) \in Nat

VARIABLES
  driver,
  fresh,        \* fresh[e]: the event is not older than max_age_sec of real time
  rpc,          \* what the driver is doing
  nextEvent,    \* the event it publishes next
  stage,        \* stage[e]: how far the event is
  fate,         \* fate[e]: how it ended
  aim,          \* aim[e]: symbols it would buy that are still to be looked at
  trading,      \* the trader's _queue
  paperCash,    \* _cash of the broker
  holdings,     \* _positions of the broker
  recent        \* symbols bought in the last _dedup_seconds of real time

driving    == <<driver, fresh, rpc, nextEvent>>
deliveries == <<stage, fate, aim, trading>>
paper      == <<paperCash, holdings, recent>>
replayVars == <<driving, deliveries, paper>>

Fates == {"none", "stale", "unscored", "lost", "handled", "broken", "cut"}

ReplayTypeOK ==
  /\ driver \in Drivers
  /\ fresh \in [Events -> BOOLEAN]
  /\ rpc \in {"loading", "running", "settling", "reported", "unreported", "failed"}
  /\ nextEvent \in 1..(NEvents + 1)
  /\ stage \in [Events -> {"waiting", "news", "scoring", "sentiment", "queued", "handling",
                           "ended"}]
  /\ fate \in [Events -> Fates]
  /\ aim \in [Events -> SUBSET Tickers]
  /\ trading \in Seq(Events)
  /\ paperCash \in Int
  /\ holdings \in [Tickers -> Nat]
  /\ recent \in SUBSET Tickers

ReplayInit ==
  /\ driver \in Drivers
  /\ fresh \in [Events -> BOOLEAN]
  /\ driver = "prescored" => \A e \in Events : fresh[e]
  /\ rpc = "loading"
  /\ nextEvent = 1
  /\ stage = [e \in Events |-> "waiting"]
  /\ fate = [e \in Events |-> "none"]
  /\ aim = [e \in Events |-> {}]
  /\ trading = <<>>
  /\ paperCash = ReplayCapital
  /\ holdings = [t \in Tickers |-> 0]
  /\ recent = {}

-----------------------------------------------------------------------------
(* The driver.                                                             *)

(* build_pipeline wires the components; the analyzer and the trader listen.*)
Load ==
  /\ rpc = "loading"
  /\ driver \in {"api", "replay"}
  /\ rpc' = "running"
  /\ UNCHANGED <<driver, fresh, nextEvent, deliveries, paper>>

(* The scripts wire theirs by hand, and empty the store they share first.  *)
LoadScript ==
  /\ rpc = "loading"
  /\ driver \in {"keyword", "prescored"}
  /\ rpc' = "running"
  /\ UNCHANGED <<driver, fresh, nextEvent, deliveries, paper>>

(* A store fails, or has no news for the API.                              *)
LoadFails ==
  /\ rpc = "loading"
  /\ rpc' = "failed"
  /\ UNCHANGED <<driver, fresh, nextEvent, deliveries, paper>>

(* A delivery is a new task.                                               *)
PublishNews ==
  /\ rpc = "running"
  /\ driver # "prescored"
  /\ nextEvent <= NEvents
  /\ nextEvent' = nextEvent + 1
  /\ stage' = [stage EXCEPT ![nextEvent] = "news"]
  /\ UNCHANGED <<driver, fresh, rpc, fate, aim, trading, paper>>

(* Pre-scored news skips the analyzer.                                     *)
PublishScored ==
  /\ rpc = "running"
  /\ driver = "prescored"
  /\ nextEvent <= NEvents
  /\ nextEvent' = nextEvent + 1
  /\ stage' = [stage EXCEPT ![nextEvent] = "sentiment"]
  /\ \E ts \in SUBSET Tickers : aim' = [aim EXCEPT ![nextEvent] = ts]
  /\ UNCHANGED <<driver, fresh, rpc, fate, trading, paper>>

(* The end of a script's event loop cancels the tasks.                     *)
UnderWay == {e \in Events : stage[e] \notin {"waiting", "ended"}}

CutOff ==
  /\ stage' = [e \in Events |-> IF e \in UnderWay THEN "ended" ELSE stage[e]]
  /\ fate' = [e \in Events |-> IF e \in UnderWay THEN "cut" ELSE fate[e]]
  /\ trading' = <<>>
  /\ UNCHANGED aim

(* What is held is valued at a price of its date: the Redis cache of the   *)
(* prices may fail.                                                        *)
SomethingHeld == \E t \in Tickers : holdings[t] > 0

(* A document of the API's news whose date does not parse ends the job, and*)
(* so does the valuation after an event; the bus is not stopped.           *)
DriverFails ==
  /\ rpc = "running"
  /\ driver = "api"
  /\ nextEvent <= NEvents \/ SomethingHeld
  /\ rpc' = "failed"
  /\ UNCHANGED <<driver, fresh, nextEvent, deliveries, paper>>

(* A script checks the stops before every event, and the store it reads the*)
(* positions from fails: main ends.                                        *)
ScriptFails ==
  /\ rpc = "running"
  /\ driver \in {"keyword", "prescored"}
  /\ nextEvent <= NEvents
  /\ rpc' = "failed"
  /\ CutOff
  /\ UNCHANGED <<driver, fresh, nextEvent, paper>>

EndLoop ==
  /\ rpc = "running"
  /\ nextEvent > NEvents
  /\ rpc' = "settling"
  /\ UNCHANGED <<driver, fresh, nextEvent, deliveries, paper>>

(* The account is reported after a pause, whatever is still under way, or  *)
(* not, if the valuation fails.  The API has stopped the bus by then, and  *)
(* its tasks run on.                                                       *)
Report ==
  /\ rpc = "settling"
  /\ driver = "api"
  /\ rpc' = "reported" \/ (SomethingHeld /\ rpc' = "unreported")
  /\ UNCHANGED <<driver, fresh, nextEvent, deliveries, paper>>

(* A script ends with its report, or in it; replay mode reports no value.  *)
ReportAndExit ==
  /\ rpc = "settling"
  /\ driver # "api"
  /\ \/ rpc' = "reported"
     \/ driver # "replay" /\ SomethingHeld /\ rpc' = "unreported"
  /\ CutOff
  /\ UNCHANGED <<driver, fresh, nextEvent, paper>>

(* stop() clears the subscribers: what is published then is lost.          *)
Stopped == driver = "api" /\ rpc \in {"reported", "unreported"}

-----------------------------------------------------------------------------
(* AnalyzerService._on_news, a task per event.                             *)

Ends(e, how) ==
  /\ stage' = [stage EXCEPT ![e] = "ended"]
  /\ fate' = [fate EXCEPT ![e] = how]

(* _is_stale compares the event's timestamp with the real time, of which   *)
(* the simulated clock knows nothing.                                      *)
SkipStale(e) ==
  /\ stage[e] = "news"
  /\ ~fresh[e]
  /\ Ends(e, "stale")
  /\ UNCHANGED <<driving, aim, trading, paper>>

StartScoring(e) ==
  /\ stage[e] = "news"
  /\ fresh[e]
  /\ stage' = [stage EXCEPT ![e] = "scoring"]
  /\ UNCHANGED <<driving, fate, aim, trading, paper>>

(* The positions cannot be read, the model does not answer, or the news    *)
(* says nothing (confidence 0).                                            *)
NotScored(e) ==
  /\ stage[e] = "scoring"
  /\ Ends(e, "unscored")
  /\ UNCHANGED <<driving, aim, trading, paper>>

(* The sentiment favours some symbols, or none if it is weak or bearish.   *)
Scored(e) ==
  /\ stage[e] = "scoring"
  /\ \/ /\ Stopped
        /\ Ends(e, "lost")
        /\ UNCHANGED aim
     \/ /\ ~Stopped
        /\ stage' = [stage EXCEPT ![e] = "sentiment"]
        /\ \E ts \in SUBSET Tickers : aim' = [aim EXCEPT ![e] = ts]
        /\ UNCHANGED fate
  /\ UNCHANGED <<driving, trading, paper>>

-----------------------------------------------------------------------------
(* SentimentTrader.                                                        *)

(* The tasks that put pre-scored news in the queue run in their order.     *)
Enqueue(e) ==
  /\ stage[e] = "sentiment"
  /\ driver = "prescored" => \A d \in 1..(e - 1) : stage[d] # "sentiment"
  /\ stage' = [stage EXCEPT ![e] = "queued"]
  /\ trading' = Append(trading, e)
  /\ UNCHANGED <<driving, fate, aim, paper>>

(* Slip: an event without symbols ends _process_loop.                      *)
DequeueWithSymbols(e) ==
  /\ trading # <<>>
  /\ e = Head(trading)
  /\ aim[e] # {}
  /\ \A d \in Events : stage[d] # "handling"
  /\ trading' = Tail(trading)
  /\ stage' = [stage EXCEPT ![e] = "handling"]
  /\ UNCHANGED <<driving, fate, aim, paper>>

Dequeue(e) ==
  /\ trading # <<>>
  /\ e = Head(trading)
  /\ \A d \in Events : stage[d] # "handling"
  /\ trading' = Tail(trading)
  /\ stage' = [stage EXCEPT ![e] = "handling"]
  /\ UNCHANGED <<driving, fate, aim, paper>>

(* Slip: without the means for a share, one share is bought all the same.  *)
AtLeastOne(size, price) ==
  LET n == (paperCash * size) \div (100 * price)
  IN  IF paperCash > 0 /\ n > 0 /\ n * price < paperCash THEN n ELSE 1

(* _buy_shares with should_buy: no share from an exhausted account.        *)
Affordable(size, price) ==
  LET n == (paperCash * size) \div (100 * price)
  IN  IF paperCash > 0 /\ n > 0 /\ n * price < paperCash THEN n ELSE 0

(* From the price on there is no await: the decision, the dedup check, the *)
(* order and the broker's bookkeeping are one step.                        *)
BuyTicker(e, t) ==
  /\ stage[e] = "handling"
  /\ t \in aim[e]
  /\ t \notin recent
  /\ \E price \in TickerPrices, size \in Sizes :
       LET n == Affordable(size, price)
       IN  /\ n > 0
           /\ paperCash' = paperCash - (n * price + PaperFee(price, n))
           /\ holdings' = [holdings EXCEPT ![t] = @ + n]
  /\ recent' = recent \cup {t}
  /\ aim' = [aim EXCEPT ![e] = @ \ {t}]
  /\ UNCHANGED <<driving, stage, fate, trading>>

(* There is no price, no cash, or a buy a moment ago.                      *)
PassTicker(e, t) ==
  /\ stage[e] = "handling"
  /\ t \in aim[e]
  /\ aim' = [aim EXCEPT ![e] = @ \ {t}]
  /\ UNCHANGED <<driving, stage, fate, trading, paper>>

(* The scripts' position store fails, or the cache of the price of a symbol*)
(* to buy: _process_loop logs and goes on.                                 *)
HandlingBreaks(e) ==
  /\ stage[e] = "handling"
  /\ driver \in {"keyword", "prescored"} \/ aim[e] # {}
  /\ Ends(e, "broken")
  /\ UNCHANGED <<driving, aim, trading, paper>>

Handled(e) ==
  /\ stage[e] = "handling"
  /\ aim[e] = {}
  /\ Ends(e, "handled")
  /\ UNCHANGED <<driving, aim, trading, paper>>

(* A minute of real time: a replayed year may not take one.                *)
WindowPasses(t) ==
  /\ t \in recent
  /\ recent' = recent \ {t}
  /\ UNCHANGED <<driving, deliveries, paperCash, holdings>>

Deliver(e) ==
  \/ SkipStale(e) \/ StartScoring(e) \/ NotScored(e) \/ Scored(e) \/ Enqueue(e)
  \/ Dequeue(e) \/ HandlingBreaks(e) \/ Handled(e)
  \/ \E t \in Tickers : BuyTicker(e, t) \/ PassTicker(e, t)

EventLoop ==
  \/ Load \/ LoadScript \/ LoadFails \/ PublishNews \/ PublishScored \/ DriverFails
  \/ ScriptFails \/ EndLoop \/ Report \/ ReportAndExit
  \/ \E e \in Events : Deliver(e)

ReplayNext == EventLoop \/ \E t \in Tickers : WindowPasses(t)

ReplaySpec == ReplayInit /\ [][ReplayNext]_replayVars

(* The event loop runs; a request ends, at the latest by its time-out and  *)
(* the last retry.                                                         *)
ReplayFairSpec == ReplaySpec /\ WF_replayVars(EventLoop)

-----------------------------------------------------------------------------
(* The paper account is a cash account: a broken or repeated event, one    *)
(* that overtakes another or comes after the report, never spends what is  *)
(* not there.  (SentimentTrader._process_loop, PaperBroker.execute.)       *)
Replayed == INSTANCE Account WITH
  Symbols <- Tickers, Quotes <- TickerPrices, Opening <- ReplayCapital,
  BuyFee <- PaperFee, SellFee <- PaperFee, funds <- paperCash, stock <- holdings

ReplayImplementsAccount == Replayed!Spec

(* Every published event ends: traded, skipped, lost with the bus, or cut  *)
(* off with the process.  (LocalEventBus, _on_news, _process_loop.)        *)
EveryEventEnds == \A e \in Events : (stage[e] # "waiting") ~> (stage[e] = "ended")

(* The replayed news is traded on, none of it is skipped as too old.       *)
(* (replay.py: "the exact same pipeline as live mode", "Clock is simulated *)
(* to match each news event's timestamp".)                                 *)
NothingReplayedIsStale == \A e \in Events : fate[e] # "stale"
=============================================================================
