---------------------------- MODULE SentimentTrader ----------------------------
(***************************************************************************)
(* SentimentTrader (src/live/sentiment_trader.py): events are queued and   *)
(* handled one at a time by _process_loop; with max_hold_days set, a       *)
(* second coroutine, _hold_checker, sells old positions.  The two share    *)
(* _last_trade_at, the broker and the position store, and interleave at    *)
(* every await.  Time is counted in units of which the dedup window and    *)
(* the maximal holding time are multiples.                                 *)
(*                                                                         *)
(* The broker deducts a buy from the cash it reports as it accepts it, as  *)
(* PaperBroker does; the position store follows when the tracker confirms. *)
(***************************************************************************)
EXTENDS Integers, Sequences

CONSTANTS
  Symbols,
  Events,       \* sentiment events: [symbols, mood, size]
  Prices,       \* prices of a share
  InitialCash,
  Allocation,   \* max_allocation in percent
  DedupWindow,  \* _dedup_seconds
  MaxHolds,     \* values of max_hold_days, 0: no hold checker
  MaxTime,      \* clock bound
  MaxEvents,    \* events published in all
  MaxOrders,    \* orders accepted in all
  MaxRestarts   \* deaths of the process

Moods == {"bull", "bear", "weak"}

ASSUME TraderAssumption ==
  /\ Symbols # {}
  /\ Events \subseteq [symbols : Seq(Symbols), mood : Moods, size : 0..100]
  /\ Prices \subseteq Nat \ {0}
  /\ InitialCash \in Nat
  /\ Allocation \in 0..100
  /\ DedupWindow \in Nat \ {0}
  /\ MaxHolds \subseteq Nat
  /\ {MaxTime, MaxEvents, MaxOrders, MaxRestarts} \subseteq Nat

VARIABLES
  clock,
  cash,         \* what get_cash reports
  store,        \* store[s]: qty and entry time of the position document
  orders,       \* history: the accepted orders, with the time of their decision
  arrived,      \* events published so far
  queue,        \* _queue
  last,         \* _last_trade_at[s][action]
  pc,           \* where _process_loop is
  event,        \* the event in hand, its symbols cut down to those left
  snap,         \* positions as read for this event
  now,          \* utcnow() as read for this event
  trade,        \* the trade decided on
  maxHold,      \* max_hold_days of this process, never changed
  hpc,          \* where _hold_checker is
  hTodo,        \* holdings left to look at, as read: [Symbols -> Position]
  hNow,
  hSymbol,      \* the symbol whose price is being fetched
  hTrade,
  restarts

world   == <<clock, cash, store, orders>>
loop    == <<pc, event, snap, now, trade>>
holder  == <<maxHold, hpc, hTodo, hNow, hSymbol, hTrade>>
vars    == <<world, arrived, queue, last, loop, holder, restarts>>

-----------------------------------------------------------------------------

Sides == {"buy", "sell"}

Position == [qty : Nat, entry : Nat]
NoPosition == [qty |-> 0, entry |-> 0]

Trade == [symbol : Symbols, action : Sides, shares : Nat, price : Nat]
NoTrade == [symbol |-> "", action |-> "", shares |-> 0, price |-> 0]

Order == [symbol : Symbols, action : Sides, shares : Nat, at : Nat, life : Nat,
          status : {"open", "filled", "failed"}]

NoEvent == [symbols |-> <<>>, mood |-> "weak", size |-> 0]

AnySymbol == CHOOSE s \in Symbols : TRUE

Never == 0 - DedupWindow
NoTrades == [s \in Symbols |-> [a \in Sides |-> Never]]
Empty == [s \in Symbols |-> NoPosition]

TypeOK ==
  /\ clock \in 0..MaxTime
  /\ cash \in Int
  /\ store \in [Symbols -> Position]
  /\ orders \in Seq(Order)
  /\ arrived \in 0..MaxEvents
  /\ queue \in Seq(Events)
  /\ last \in [Symbols -> [Sides -> {Never} \cup 0..MaxTime]]
  /\ pc \in {"idle", "read", "next", "buying", "execute", "publish", "dead"}
  /\ event \in [symbols : Seq(Symbols), mood : Moods, size : 0..100]
  /\ snap \in [Symbols -> Position]
  /\ now \in 0..MaxTime
  /\ trade \in Trade \cup {NoTrade}
  /\ maxHold \in MaxHolds
  /\ hpc \in {"asleep", "pick", "price", "execute", "publish", "dead"}
  /\ hTodo \in [Symbols -> Position]
  /\ hNow \in 0..MaxTime
  /\ hSymbol \in Symbols
  /\ hTrade \in Trade \cup {NoTrade}
  /\ restarts \in 0..MaxRestarts

Init ==
  /\ clock = 0
  /\ cash = InitialCash
  /\ store = Empty
  /\ orders = <<>>
  /\ arrived = 0
  /\ queue = <<>>
  /\ last = NoTrades
  /\ pc = "idle"
  /\ event = NoEvent
  /\ snap = Empty
  /\ now = 0
  /\ trade = NoTrade
  /\ maxHold \in MaxHolds
  /\ hpc = "asleep"
  /\ hTodo = Empty
  /\ hNow = 0
  /\ hSymbol = AnySymbol
  /\ hTrade = NoTrade
  /\ restarts = 0

-----------------------------------------------------------------------------
(* The rest of the system.                                                 *)

TimePasses ==
  /\ clock < MaxTime
  /\ clock' = clock + 1
  /\ UNCHANGED <<cash, store, orders, arrived, queue, last, loop, holder, restarts>>

(* _on_sentiment: the handler only enqueues.                               *)
OnSentiment ==
  /\ arrived < MaxEvents
  /\ arrived' = arrived + 1
  /\ \E e \in Events : queue' = Append(queue, e)
  /\ UNCHANGED <<world, last, loop, holder, restarts>>

(* An order document with another status.                                  *)
Closed(o, st) == [symbol |-> o.symbol, action |-> o.action, shares |-> o.shares,
                  at |-> o.at, life |-> o.life, status |-> st]

(* The tracker confirms an order: open_position keeps the entry time of a  *)
(* position it adds to, close_position deletes the document.               *)
OrderFills(i) ==
  LET o == orders[i]
  IN  /\ o.status = "open"
      /\ orders' = [orders EXCEPT ![i] = Closed(@, "filled")]
      /\ store' = [store EXCEPT ![o.symbol] =
                     IF o.action = "sell" THEN NoPosition
                     ELSE [qty   |-> @.qty + o.shares,
                           entry |-> IF @.qty > 0 THEN @.entry ELSE clock]]
      /\ UNCHANGED <<clock, cash, arrived, queue, last, loop, holder, restarts>>

(* Slip: an order that fails takes back shares that were never added.      *)
OrderRolledBack(i) ==
  LET o == orders[i]
  IN  /\ o.status = "open"
      /\ orders' = [orders EXCEPT ![i] = Closed(@, "failed")]
      /\ store' = [store EXCEPT ![o.symbol].qty = @ - o.shares]
      /\ UNCHANGED <<clock, cash, arrived, queue, last, loop, holder, restarts>>

OrderFails(i) ==
  /\ orders[i].status = "open"
  /\ orders' = [orders EXCEPT ![i] = Closed(@, "failed")]
  /\ UNCHANGED <<clock, cash, store, arrived, queue, last, loop, holder, restarts>>

-----------------------------------------------------------------------------
(* _process_loop and _handle_sentiment.                                    *)

Dequeue ==
  /\ pc = "idle"
  /\ queue # <<>>
  /\ event' = Head(queue)
  /\ queue' = Tail(queue)
  /\ pc' = IF event'.symbols = <<>> THEN "idle" ELSE "read"
  /\ UNCHANGED <<world, arrived, last, snap, now, trade, holder, restarts>>

(* One read of all positions and of the clock for the whole event.         *)
ReadPositions ==
  /\ pc = "read"
  /\ snap' = store
  /\ now' = clock
  /\ pc' = "next"
  /\ UNCHANGED <<world, arrived, queue, last, event, trade, holder, restarts>>

Current == Head(event.symbols)
Rest == [symbols |-> Tail(event.symbols), mood |-> event.mood, size |-> event.size]
Held(s) == snap[s].qty > 0

Noted(s, action, t) == [last EXCEPT ![s] = [@ EXCEPT ![action] = t]]
Recent(s, action, t) == t - last[s][action] < DedupWindow

(* Slip: the trade is not noted.                                           *)
DecideForgetful(action, shares, price) ==
  IF Recent(Current, action, now)
    THEN /\ pc' = "next"
         /\ UNCHANGED <<last, trade>>
    ELSE /\ pc' = "execute"
         /\ UNCHANGED last
         /\ trade' = [symbol |-> Current, action |-> action, shares |-> shares, price |-> price]

(* The dedup check, and the trade noted before it is executed; no await    *)
(* lies between the two.                                                   *)
Decide(action, shares, price) ==
  IF Recent(Current, action, now)
    THEN /\ pc' = "next"
         /\ UNCHANGED <<last, trade>>
    ELSE /\ pc' = "execute"
         /\ last' = Noted(Current, action, now)
         /\ trade' = [symbol |-> Current, action |-> action, shares |-> shares, price |-> price]

(* A bearish event sells what the snapshot shows, and takes it off the     *)
(* snapshot; the price is not checked (0: none).                           *)
DecideSell ==
  /\ pc = "next"
  /\ event.symbols # <<>>
  /\ event.mood = "bear"
  /\ Held(Current)
  /\ \E p \in Prices \cup {0} : Decide("sell", snap[Current].qty, p)
  /\ snap' = [snap EXCEPT ![Current] = NoPosition]
  /\ event' = Rest
  /\ UNCHANGED <<world, arrived, queue, now, holder, restarts>>

(* A bullish event buys, averaging in if held: the price is fetched first, *)
(* and the cash read after that await.                                     *)
StartBuy ==
  /\ pc = "next"
  /\ event.symbols # <<>>
  /\ event.mood = "bull"
  /\ pc' = "buying"
  /\ UNCHANGED <<world, arrived, queue, last, event, snap, now, trade, holder, restarts>>

Smaller(a, b) == IF a < b THEN a ELSE b

(* Slip: the number of shares is rounded up, and not held against the cash.*)
ShouldBuyRoundedUp(size, price) ==
  LET percent == IF Allocation > 0 THEN Smaller(size, Allocation) ELSE size
  IN  (cash * percent + 100 * price - 1) \div (100 * price)

(* TradingLogic.should_buy with the live settings (no risk_per_trade).     *)
ShouldBuy(size, price) ==
  LET percent == IF Allocation > 0 THEN Smaller(size, Allocation) ELSE size
      shares  == (cash * percent) \div (100 * price)
  IN  IF shares * price < cash THEN shares ELSE 0

(* No price, no cash, or nothing worth buying: the symbol is skipped.  (The*)
(* one share bought when get_cash raises is never bought: every adapter's  *)
(* get_account_info swallows its errors and reports no cash.)              *)
DecideBuy ==
  /\ pc = "buying"
  /\ \/ \E p \in Prices :
          /\ cash > 0
          /\ ShouldBuy(event.size, p) > 0
          /\ Decide("buy", ShouldBuy(event.size, p), p)
     \/ /\ pc' = "next"
        /\ UNCHANGED <<last, trade>>
  /\ event' = Rest
  /\ UNCHANGED <<world, arrived, queue, snap, now, holder, restarts>>

(* A weak event, or a bearish one for a symbol not held.                   *)
SkipSymbol ==
  /\ pc = "next"
  /\ event.symbols # <<>>
  /\ event.mood = "weak" \/ (event.mood = "bear" /\ ~Held(Current))
  /\ event' = Rest
  /\ UNCHANGED <<world, arrived, queue, last, pc, snap, now, trade, holder, restarts>>

EndEvent ==
  /\ pc = "next"
  /\ event.symbols = <<>>
  /\ pc' = "idle"
  /\ event' = NoEvent
  /\ snap' = Empty
  /\ now' = 0
  /\ UNCHANGED <<world, arrived, queue, last, trade, holder, restarts>>

(* broker.execute: the order is accepted, and its cash moved, or it is not.*)
(* Without a price the broker fetches one itself.                          *)
Accepted(t, at) ==
  /\ Len(orders) < MaxOrders
  /\ orders' = Append(orders, [symbol |-> t.symbol, action |-> t.action, shares |-> t.shares,
                               at |-> at, life |-> restarts, status |-> "open"])
  /\ \E p \in IF t.price = 0 THEN Prices ELSE {t.price} :
       cash' = IF t.action = "buy" THEN cash - p * t.shares ELSE cash + p * t.shares

(* _execute_and_publish, first half: an exception is logged and swallowed. *)
Execute ==
  /\ pc = "execute"
  /\ Accepted(trade, now) \/ UNCHANGED <<cash, orders>>
  /\ pc' = "publish"
  /\ UNCHANGED <<clock, store, arrived, queue, last, event, snap, now, trade, holder, restarts>>

Publish ==
  /\ pc = "publish"
  /\ pc' = "next"
  /\ trade' = NoTrade
  /\ UNCHANGED <<world, arrived, queue, last, event, snap, now, holder, restarts>>

(* Where an event may raise: the positions are read, [trade] is published, *)
(* or the price as of an older event is fetched (its Redis cache fails).   *)
MayRaise ==
  \/ pc \in {"read", "buying", "publish"}
  \/ pc = "next" /\ event.symbols # <<>> /\ event.mood = "bear" /\ Held(Current)

(* Slip: an exception ends the loop.                                       *)
EventKills ==
  /\ MayRaise
  /\ pc' = "dead"
  /\ event' = NoEvent
  /\ trade' = NoTrade
  /\ UNCHANGED <<world, arrived, queue, last, snap, now, holder, restarts>>

(* The symbols left of the event are dropped, and the loop goes on with the*)
(* next one.                                                               *)
EventRaises ==
  /\ MayRaise
  /\ pc' = "idle"
  /\ event' = NoEvent
  /\ snap' = Empty
  /\ now' = 0
  /\ trade' = NoTrade
  /\ UNCHANGED <<world, arrived, queue, last, holder, restarts>>

-----------------------------------------------------------------------------
(* _hold_checker.                                                          *)

HoldRead ==
  /\ maxHold > 0
  /\ hpc = "asleep"
  /\ hTodo' = store
  /\ hNow' = clock
  /\ hpc' = "pick"
  /\ UNCHANGED <<world, arrived, queue, last, loop, maxHold, hSymbol, hTrade, restarts>>

(* A holding that is too young or was just sold is passed over; for an old *)
(* one the price is awaited before the sell is noted in _last_trade_at.    *)
HoldPick(s) ==
  /\ hpc = "pick"
  /\ hTodo[s].qty > 0
  /\ IF hNow - hTodo[s].entry < maxHold \/ Recent(s, "sell", hNow)
       THEN /\ hTodo' = [hTodo EXCEPT ![s] = NoPosition]
            /\ UNCHANGED <<hpc, hSymbol>>
       ELSE /\ hpc' = "price"
            /\ hSymbol' = s
            /\ UNCHANGED hTodo
  /\ UNCHANGED <<world, arrived, queue, last, loop, maxHold, hNow, hTrade, restarts>>

HoldDecide ==
  /\ hpc = "price"
  /\ \/ /\ hpc' = "pick"             \* no price
        /\ UNCHANGED <<last, hTrade>>
     \/ /\ hpc' = "execute"
        /\ last' = Noted(hSymbol, "sell", hNow)
        /\ \E p \in Prices :
             hTrade' = [symbol |-> hSymbol, action |-> "sell",
                        shares |-> hTodo[hSymbol].qty, price |-> p]
  /\ hTodo' = [hTodo EXCEPT ![hSymbol] = NoPosition]
  /\ UNCHANGED <<world, arrived, queue, loop, maxHold, hNow, hSymbol, restarts>>

HoldExecute ==
  /\ hpc = "execute"
  /\ Accepted(hTrade, hNow) \/ UNCHANGED <<cash, orders>>
  /\ hpc' = "publish"
  /\ UNCHANGED <<clock, store, arrived, queue, last, loop, maxHold, hTodo, hNow, hSymbol, hTrade, restarts>>

HoldPublished ==
  /\ hpc = "publish"
  /\ hpc' = "pick"
  /\ hTrade' = NoTrade
  /\ UNCHANGED <<world, arrived, queue, last, loop, maxHold, hTodo, hNow, hSymbol, restarts>>

HoldEnd ==
  /\ hpc = "pick"
  /\ hTodo = Empty
  /\ hpc' = "asleep"
  /\ hNow' = 0
  /\ hSymbol' = AnySymbol
  /\ UNCHANGED <<world, arrived, queue, last, loop, maxHold, hTodo, hTrade, restarts>>

(* Nothing catches an exception here: the task ends for good.  (The price  *)
(* of the moment is not cached, and does not raise.)                       *)
HoldRaises ==
  /\ maxHold > 0
  /\ hpc \in {"asleep", "publish"}
  /\ hpc' = "dead"
  /\ hTodo' = Empty
  /\ hNow' = 0
  /\ hSymbol' = AnySymbol
  /\ hTrade' = NoTrade
  /\ UNCHANGED <<world, arrived, queue, last, loop, maxHold, restarts>>

-----------------------------------------------------------------------------

(* The process dies and is started again: the queue and the dedup memory   *)
(* are gone.                                                               *)
Restart ==
  /\ restarts < MaxRestarts
  /\ restarts' = restarts + 1
  /\ queue' = <<>>
  /\ last' = NoTrades
  /\ pc' = "idle"
  /\ event' = NoEvent
  /\ snap' = Empty
  /\ now' = 0
  /\ trade' = NoTrade
  /\ hpc' = "asleep"
  /\ hTodo' = Empty
  /\ hNow' = 0
  /\ hSymbol' = AnySymbol
  /\ hTrade' = NoTrade
  /\ UNCHANGED <<world, arrived, maxHold>>

Outside ==
  \/ TimePasses
  \/ OnSentiment
  \/ \E i \in 1..Len(orders) : OrderFills(i) \/ OrderFails(i)

Process ==
  \/ Dequeue \/ ReadPositions \/ DecideSell \/ StartBuy \/ DecideBuy
  \/ SkipSymbol \/ EndEvent \/ Execute \/ Publish \/ EventRaises

HoldCheck ==
  \/ HoldRead \/ HoldDecide \/ HoldExecute \/ HoldPublished \/ HoldEnd \/ HoldRaises
  \/ \E s \in Symbols : HoldPick(s)

Next == Outside \/ Process \/ HoldCheck \/ Restart

Spec == Init /\ [][Next]_vars

(* The event loop runs every coroutine that can go on.                     *)
FairSpec == Spec /\ WF_vars(Process)

-----------------------------------------------------------------------------
(* Properties.                                                             *)

(* No decision spends cash an earlier one has spent: the account never     *)
(* goes below zero, however the events queue up and the sells interleave.  *)
(* (test_news_trader: "Cash should never go negative".)                    *)
CashNeverNegative == cash >= 0

(* Without a hold checker, two orders of one symbol and side, decided in   *)
(* one life of the process, are a dedup window apart: for events of the    *)
(* same symbol, and for symbols repeated in one event.  (_last_trade_at;   *)
(* the module's docstring: "no double execution".)                         *)
Twins(i, j) ==
  /\ orders[i].symbol = orders[j].symbol
  /\ orders[i].action = orders[j].action
  /\ orders[i].life = orders[j].life

OrdersSpaced ==
  maxHold = 0 =>
    \A i, j \in 1..Len(orders) :
      i < j /\ Twins(i, j) => orders[j].at - orders[i].at >= DedupWindow

(* Every event taken over from the bus is dealt with, whatever raises.     *)
QueueDrains ==
  (queue # <<>> \/ pc # "idle") ~> (queue = <<>> /\ pc = "idle")
=============================================================================
