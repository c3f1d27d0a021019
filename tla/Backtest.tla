------------------------------- MODULE Backtest -------------------------------
(***************************************************************************)
(* The three back-test engines (src/backtest): run_backtest plays a        *)
(* strategy's signals, run_portfolio_backtest and run_sentiment_backtest   *)
(* play news, over the price bars of a history.  One step of a bar is one  *)
(* step here: fill the pending signal at the open, leave what hit its stop *)
(* or target, take the new signal, value the account; at the end close     *)
(* what is still open.  Prices, news and signals are arbitrary.            *)
(*                                                                         *)
(* Money is counted in units small enough that every percentage of a price *)
(* is exact; percentages are in parts of Scale.                            *)
(***************************************************************************)
EXTENDS Integers, Functions

CONSTANTS
  Symbols,
  Prices,       \* prices of a bar
  MaxBars,      \* bars of a history
  Capital,      \* initial_capital
  Scale,        \* parts a whole is counted in
  Commission,   \* flat fee of a trade
  BuyPct,       \* commission_pct + slippage_pct
  SellPct,      \* the same and stamp_duty_pct
  StopPct,      \* stop_loss_pct, 0: off
  TakePct,      \* take_profit_pct, 0: off
  PositionSize, \* position_size of run_backtest
  Allocation,   \* max_allocation of the news engines, 0: off
  Risk,         \* risk_per_trade, 0: off
  Threshold,    \* sentiment it takes to trade
  Sentiments,   \* sentiments an analyzer returns, confident enough to act on
  Signals,      \* what a strategy returns for a bar, see Signal
  MaxHold,      \* max_hold_days in bars, 0: off
  Cooldown,     \* cooldown_days in bars
  Configs       \* the runs to consider, see Config

(* A rich signal carries its own size, stop and target (0: the engine's).  *)
Signal == [action : {-1, 0, 1}, size : 0..Scale, stop : 0..Scale, take : 0..Scale]

(* nextOpen: exec_next_open, short: allow_short (both of run_backtest);    *)
(* trailing: trailing_sl of the portfolio engine.                          *)
Config == [engine : {"strategy", "portfolio", "sentiment"},
           nextOpen : BOOLEAN, short : BOOLEAN, trailing : BOOLEAN]

ASSUME BacktestAssumption ==
  /\ Prices \subseteq Nat \ {0}
  /\ {MaxBars, Capital, Commission, MaxHold} \subseteq Nat
  /\ Scale \in Nat \ {0}
  /\ {BuyPct, SellPct, StopPct, TakePct, PositionSize, Allocation, Risk} \subseteq 0..Scale
  /\ SellPct < Scale
  /\ StopPct > 0 => \A p \in Prices : p * StopPct >= Scale  \* a stop is worth a unit
  /\ Threshold \in 1..Scale
  /\ Sentiments \subseteq (-Scale)..Scale
  /\ Cooldown \in Nat \ {0}
  /\ Signals \subseteq Signal
  /\ Configs \subseteq Config
  /\ \A c \in Configs : /\ c.engine # "strategy" => ~c.short /\ ~c.nextOpen
                        /\ c.engine # "portfolio" => ~c.trailing

VARIABLES
  conf,         \* the configuration of the run
  universe,     \* symbols the run has prices for
  bar,          \* number of the current bar, 0: none yet
  ohlc,         \* ohlc[s]: the current bar of the symbol, if it has one
  lastClose,    \* lastClose[s]: close of the symbol's latest bar
  pc,           \* what the run does next
  todo,         \* symbols this step still has to look at
  mood,         \* sentiment of the bar's news
  pending,      \* pending_signal
  cash,
  pos,          \* pos[s]: the open position of the symbol
  lastTrade,    \* lastTrade[s]: bar of the last trade on news
  equity,       \* equity[-1]
  realised,     \* sum of pnl over trades
  openFees,     \* fees paid for opening positions
  credited      \* twice the entry value of the shorts closed so far

account == <<cash, pos, realised, openFees, credited>>
market  == <<conf, universe, bar, ohlc, lastClose>>
control == <<pc, todo, mood, pending, lastTrade, equity>>
btVars  == <<market, control, account>>

-----------------------------------------------------------------------------
(* Money.                                                                  *)

PctOf(x, pct) == (x * pct) \div Scale

(* CostModel.                                                              *)
BuyCost(price, n)  == Commission + n * PctOf(price, BuyPct)
SellCost(price, n) == Commission + n * PctOf(price, SellPct)

(* Slip: percentage costs are left out of the sizing.                      *)
RawBuyPrice(price) == price

EffectiveBuyPrice(price) == price + PctOf(price, BuyPct)

EffectiveSellPrice(price) == price - PctOf(price, SellPct)

(* int((cash * size) / price) of the engines, nothing for an overdrawn one.*)
SharesFor(size, price) == IF cash > 0 THEN PctOf(cash, size) \div price ELSE 0

(* TradingLogic.should_buy: the share counts the limits that are on allow  *)
(* for a sentiment, and the number it buys, if any (size = min(|s|, 1)).   *)
Limits(sentiment, price) ==
  {SharesFor(sentiment, EffectiveBuyPrice(price))}
    \cup (IF Allocation > 0 THEN {SharesFor(Allocation, EffectiveBuyPrice(price))} ELSE {})
    \cup (IF Risk > 0 /\ StopPct > 0 THEN {PctOf(cash, Risk) \div PctOf(price, StopPct)} ELSE {})

ShouldBuy(sentiment, price) ==
  {n \in Limits(sentiment, price) :
     n > 0 /\ n * price < cash /\ \A m \in Limits(sentiment, price) : n <= m}

-----------------------------------------------------------------------------
(* Bars and positions.                                                     *)

Bar == {b \in [open : Prices, high : Prices, low : Prices, close : Prices] :
          \A p \in {b.open, b.close} : b.low <= p /\ p <= b.high}
NoBar == [open |-> 0, high |-> 0, low |-> 0, close |-> 0]

Position == [side : {"flat", "long", "short"}, shares : Nat, entry : Nat, peak : Nat,
             since : 0..MaxBars, sl : 0..Scale, tp : 0..Scale]
NoPosition == [side |-> "flat", shares |-> 0, entry |-> 0, peak |-> 0,
               since |-> 0, sl |-> 0, tp |-> 0]

Hold == [action |-> 0, size |-> Scale, stop |-> 0, take |-> 0]

Side(s) == pos[s].side
Held == {s \in Symbols : Side(s) # "flat"}

TypeOK ==
  /\ conf \in Configs
  /\ universe \in SUBSET Symbols
  /\ bar \in 0..MaxBars
  /\ ohlc \in [Symbols -> Bar \cup {NoBar}]
  /\ lastClose \in [Symbols -> Prices \cup {0}]
  /\ pc \in {"bar", "fill", "exits", "signalled", "news", "value", "closing"}
  /\ todo \in SUBSET Symbols
  /\ mood \in Sentiments \cup {0}
  /\ pending \in Signals \cup {Hold}
  /\ cash \in Int
  /\ pos \in [Symbols -> Position]
  /\ lastTrade \in [Symbols -> Int]
  /\ equity \in Int
  /\ realised \in Int
  /\ openFees \in Nat
  /\ credited \in Nat

(* The cooldown counts from the first bar in the portfolio engine, from    *)
(* long ago in the single-symbol one.                                      *)
Init ==
  /\ conf \in Configs
  /\ universe \in SUBSET Symbols
  /\ universe # {}
  /\ conf.engine # "portfolio" => \E s \in Symbols : universe = {s}
  /\ bar = 0
  /\ ohlc = [s \in Symbols |-> NoBar]
  /\ lastClose = [s \in Symbols |-> 0]
  /\ pc = "bar"
  /\ todo = {}
  /\ mood = 0
  /\ pending = Hold
  /\ cash = Capital
  /\ pos = [s \in Symbols |-> NoPosition]
  /\ lastTrade = [s \in Symbols |-> IF conf.engine = "portfolio" THEN 1 ELSE 1 - Cooldown]
  /\ equity = Capital
  /\ realised = 0
  /\ openFees = 0
  /\ credited = 0

-----------------------------------------------------------------------------
(* Trades.                                                                 *)

(* Slip: the holding time counts from the bar after the trade.             *)
OpenedNextBar(side, n, price, sl, tp) ==
  [side |-> side, shares |-> n, entry |-> price, peak |-> price,
   since |-> bar + 1, sl |-> sl, tp |-> tp]

Opened(side, n, price, sl, tp) ==
  [side |-> side, shares |-> n, entry |-> price, peak |-> price,
   since |-> bar, sl |-> sl, tp |-> tp]

OpenLong(s, price, n, sl, tp) ==
  /\ cash' = cash - (n * price + BuyCost(price, n))
  /\ pos' = [pos EXCEPT ![s] = Opened("long", n, price, sl, tp)]
  /\ openFees' = openFees + BuyCost(price, n)
  /\ UNCHANGED <<realised, credited>>

OpenShort(s, price, n, sl, tp) ==
  /\ cash' = cash + (n * price - SellCost(price, n))
  /\ pos' = [pos EXCEPT ![s] = Opened("short", n, price, sl, tp)]
  /\ openFees' = openFees + SellCost(price, n)
  /\ UNCHANGED <<realised, credited>>

(* Slip: the entry price is used in place of the exit price.               *)
CloseLongAtEntry(s, price, fee) ==
  /\ cash' = cash + (pos[s].shares * pos[s].entry - fee)
  /\ realised' = realised + ((price - pos[s].entry) * pos[s].shares - fee)
  /\ pos' = [pos EXCEPT ![s] = NoPosition]
  /\ UNCHANGED <<openFees, credited>>

(* Slip: shares stays set after the close.                                 *)
CloseLongKeepsShares(s, price, fee) ==
  /\ cash' = cash + (pos[s].shares * price - fee)
  /\ realised' = realised + ((price - pos[s].entry) * pos[s].shares - fee)
  /\ UNCHANGED <<pos, openFees, credited>>

CloseLong(s, price, fee) ==
  /\ cash' = cash + (pos[s].shares * price - fee)
  /\ realised' = realised + ((price - pos[s].entry) * pos[s].shares - fee)
  /\ pos' = [pos EXCEPT ![s] = NoPosition]
  /\ UNCHANGED <<openFees, credited>>

(* The proceeds of the sale are in cash since _open_short; here the profit *)
(* and the entry value are added, not the cost of buying back taken off.   *)
CloseShort(s, price) ==
  LET fee == BuyCost(price, pos[s].shares)
      pnl == (pos[s].entry - price) * pos[s].shares - fee
  IN  /\ cash' = cash + (pnl + pos[s].entry * pos[s].shares)
      /\ realised' = realised + pnl
      /\ credited' = credited + 2 * (pos[s].entry * pos[s].shares)
      /\ pos' = [pos EXCEPT ![s] = NoPosition]
      /\ UNCHANGED openFees

CloseAt(s, price) ==
  \/ Side(s) = "long" /\ CloseLong(s, price, SellCost(price, pos[s].shares))
  \/ Side(s) = "short" /\ CloseShort(s, price)

-----------------------------------------------------------------------------
(* A bar.                                                                  *)

NextBar ==
  /\ pc \in {"bar", "value"} /\ todo = {}
  /\ bar < MaxBars
  /\ bar' = bar + 1
  /\ ohlc' \in [Symbols -> Bar \cup {NoBar}]
  /\ \A s \in Symbols \ universe : ohlc'[s] = NoBar
  /\ \E s \in universe : ohlc'[s] # NoBar
  /\ lastClose' = [s \in Symbols |-> IF ohlc'[s] = NoBar THEN lastClose[s] ELSE ohlc'[s].close]
  /\ pc' = IF conf.engine = "strategy" THEN "fill" ELSE "exits"
  /\ todo' = IF conf.engine = "strategy" THEN {} ELSE Held
  /\ UNCHANGED <<conf, universe, mood, pending, lastTrade, equity, account>>

(* The pending signal is executed at the open: a position the other way is *)
(* closed, then the new one opened, if allowed and worth a share.          *)
OwnOr(given, default) == IF given > 0 THEN given ELSE default
SizeOf(sig) == IF sig.size # Scale THEN sig.size ELSE PositionSize

ToExits ==
  /\ pending' = Hold
  /\ pc' = "exits"
  /\ todo' = {s \in Symbols : pos'[s].side # "flat"}
  /\ UNCHANGED <<market, mood, lastTrade, equity>>

FillClose(s) ==
  /\ pc = "fill"
  /\ \/ pending.action = 1 /\ Side(s) = "short"
     \/ pending.action = -1 /\ Side(s) = "long"
  /\ CloseAt(s, ohlc[s].open)
  /\ UNCHANGED <<market, control>>

FillOpen(s) ==
  /\ pc = "fill"
  /\ s \in universe
  /\ Side(s) = "flat"
  /\ LET n == SharesFor(SizeOf(pending),
                        IF pending.action = 1 THEN EffectiveBuyPrice(ohlc[s].open)
                                              ELSE EffectiveSellPrice(ohlc[s].open))
         sl == OwnOr(pending.stop, StopPct)
         tp == OwnOr(pending.take, TakePct)
     IN  \/ pending.action = 1 /\ n > 0 /\ OpenLong(s, ohlc[s].open, n, sl, tp)
         \/ pending.action = -1 /\ conf.short /\ n > 0 /\ OpenShort(s, ohlc[s].open, n, sl, tp)
         \/ /\ \/ pending.action = 1 /\ n = 0
               \/ pending.action = -1 /\ (conf.short => n = 0)
            /\ UNCHANGED account
  /\ ToExits

FillNothing ==
  /\ pc = "fill"
  /\ \/ pending.action = 0
     \/ \E s \in universe : \/ pending.action = 1 /\ Side(s) = "long"
                            \/ pending.action = -1 /\ Side(s) = "short"
  /\ UNCHANGED account
  /\ ToExits

-----------------------------------------------------------------------------
(* Leaving a position: stop loss before take profit, then the holding time.*)

Peak(s) == IF conf.trailing /\ ohlc[s].high > pos[s].peak THEN ohlc[s].high ELSE pos[s].peak

StopPrice(s) ==
  LET reference == IF conf.trailing THEN Peak(s) ELSE pos[s].entry
  IN  IF Side(s) = "long" THEN reference - PctOf(reference, pos[s].sl)
                          ELSE reference + PctOf(reference, pos[s].sl)

TargetPrice(s) ==
  IF Side(s) = "long" THEN pos[s].entry + PctOf(pos[s].entry, pos[s].tp)
                      ELSE pos[s].entry - PctOf(pos[s].entry, pos[s].tp)

StopHit(s) ==
  /\ pos[s].sl > 0
  /\ IF Side(s) = "long" THEN ohlc[s].low <= StopPrice(s) ELSE ohlc[s].high >= StopPrice(s)

TargetHit(s) ==
  /\ pos[s].tp > 0
  /\ IF Side(s) = "long" THEN ohlc[s].high >= TargetPrice(s) ELSE ohlc[s].low <= TargetPrice(s)

HeldTooLong(s) ==
  conf.engine # "strategy" /\ MaxHold > 0 /\ bar - pos[s].since >= MaxHold

Checked(s) ==
  /\ pc = "exits"
  /\ s \in todo
  /\ todo' = todo \ {s}
  /\ UNCHANGED <<market, pc, mood, pending, lastTrade, equity>>

LeaveAtStop(s) ==
  /\ Checked(s)
  /\ ohlc[s] # NoBar
  /\ StopHit(s)
  /\ CloseAt(s, StopPrice(s))

LeaveAtTarget(s) ==
  /\ Checked(s)
  /\ ohlc[s] # NoBar
  /\ ~StopHit(s) /\ TargetHit(s)
  /\ CloseAt(s, TargetPrice(s))

LeaveExpired(s) ==
  /\ Checked(s)
  /\ ohlc[s] # NoBar
  /\ ~StopHit(s) /\ ~TargetHit(s) /\ HeldTooLong(s)
  /\ CloseAt(s, ohlc[s].open)

WithPeak(p, peak) ==
  [side |-> p.side, shares |-> p.shares, entry |-> p.entry, peak |-> peak,
   since |-> p.since, sl |-> p.sl, tp |-> p.tp]

Keep(s) ==
  /\ Checked(s)
  /\ ohlc[s] = NoBar \/ ~(StopHit(s) \/ TargetHit(s) \/ HeldTooLong(s))
  /\ pos' = [pos EXCEPT ![s] = WithPeak(@, Peak(s))]
  /\ UNCHANGED <<cash, realised, openFees, credited>>

-----------------------------------------------------------------------------
(* The strategy's signal of the bar: kept for the next open, or executed   *)
(* at this bar's close.                                                    *)
TakeSignal(s) ==
  /\ pc = "exits" /\ todo = {}
  /\ conf.engine = "strategy"
  /\ s \in universe
  /\ \E sig \in Signals :
       LET n == SharesFor(SizeOf(sig), EffectiveBuyPrice(ohlc[s].close))
           buys  == ~conf.nextOpen /\ sig.action = 1 /\ Side(s) = "flat" /\ n > 0
           sells == ~conf.nextOpen /\ sig.action = -1 /\ Side(s) = "long"
       IN  /\ pending' = IF conf.nextOpen THEN sig ELSE Hold
           /\ \/ /\ buys
                 /\ OpenLong(s, ohlc[s].close, n, OwnOr(sig.stop, StopPct), OwnOr(sig.take, TakePct))
              \/ sells /\ CloseAt(s, ohlc[s].close)
              \/ ~buys /\ ~sells /\ UNCHANGED account
  /\ pc' = "signalled"
  /\ UNCHANGED <<market, todo, mood, lastTrade, equity>>

(* The bar's news, if any: a sentiment for some symbols.                   *)
ReadNews ==
  /\ pc = "exits" /\ todo = {}
  /\ conf.engine # "strategy"
  /\ mood' \in Sentiments \cup {0}
  /\ todo' \in IF mood' = 0 THEN {{}} ELSE SUBSET universe
  /\ pc' = "news"
  /\ UNCHANGED <<market, pending, lastTrade, equity, account>>

Cooled(s) == bar - lastTrade[s] >= Cooldown

ReadFor(s) ==
  /\ pc = "news"
  /\ s \in todo
  /\ todo' = todo \ {s}
  /\ UNCHANGED <<market, pc, mood, pending, equity>>

BuysOnNews(s) ==
  /\ Cooled(s) /\ mood >= Threshold /\ Side(s) = "flat" /\ ohlc[s] # NoBar
  /\ ShouldBuy(mood, ohlc[s].open) # {}

SellsOnNews(s) ==
  Cooled(s) /\ mood <= -Threshold /\ Side(s) = "long" /\ ohlc[s] # NoBar

BuyOnNews(s) ==
  /\ ReadFor(s)
  /\ BuysOnNews(s)
  /\ \E n \in ShouldBuy(mood, ohlc[s].open) : OpenLong(s, ohlc[s].open, n, StopPct, TakePct)
  /\ lastTrade' = [lastTrade EXCEPT ![s] = bar]

SellOnNews(s) ==
  /\ ReadFor(s)
  /\ SellsOnNews(s)
  /\ CloseAt(s, ohlc[s].open)
  /\ lastTrade' = [lastTrade EXCEPT ![s] = bar]

IgnoreNews(s) ==
  /\ ReadFor(s)
  /\ ~BuysOnNews(s) /\ ~SellsOnNews(s)
  /\ UNCHANGED <<lastTrade, account>>

(* Slip: positions are valued at their entry price.                        *)
ValueAtEntry(s) == pos[s].shares * pos[s].entry

(* The equity curve; a symbol without a bar now is left out of it.         *)
ValueOf(s) ==
  IF ohlc[s] = NoBar THEN 0
  ELSE IF Side(s) = "short" THEN (pos[s].entry - ohlc[s].close) * pos[s].shares
                            ELSE pos[s].shares * ohlc[s].close

Value ==
  /\ pc \in {"signalled", "news"} /\ todo = {}
  /\ equity' = cash
  /\ todo' = Held
  /\ pc' = "value"
  /\ UNCHANGED <<market, mood, pending, lastTrade, account>>

AddValue(s) ==
  /\ pc = "value"
  /\ s \in todo
  /\ equity' = equity + ValueOf(s)
  /\ todo' = todo \ {s}
  /\ UNCHANGED <<market, pc, mood, pending, lastTrade, account>>

(* The history ends: what is open is closed at its last close, by the news *)
(* engines without a fee.                                                  *)
Finish ==
  /\ pc = "value" /\ todo = {}
  /\ pc' = "closing"
  /\ todo' = Held
  /\ UNCHANGED <<market, mood, pending, lastTrade, equity, account>>

CloseOut(s) ==
  /\ pc = "closing"
  /\ s \in todo
  /\ todo' = todo \ {s}
  /\ \/ conf.engine = "strategy" /\ CloseAt(s, lastClose[s])
     \/ conf.engine # "strategy" /\ CloseLong(s, lastClose[s], 0)
  /\ UNCHANGED <<market, pc, mood, pending, lastTrade, equity>>

Step(s) ==
  \/ FillClose(s) \/ FillOpen(s)
  \/ LeaveAtStop(s) \/ LeaveAtTarget(s) \/ LeaveExpired(s) \/ Keep(s)
  \/ TakeSignal(s) \/ BuyOnNews(s) \/ SellOnNews(s) \/ IgnoreNews(s)
  \/ AddValue(s) \/ CloseOut(s)

Next ==
  \/ NextBar \/ FillNothing \/ ReadNews \/ Value \/ Finish
  \/ \E s \in Symbols : Step(s)

Spec == Init /\ [][Next]_btVars

-----------------------------------------------------------------------------
(* The cash of a run is its capital and what its trades say they earned,   *)
(* less the fees and the entry value of what is open; only a short, whose  *)
(* sale is paid in at the open, adds its entry value while open and keeps  *)
(* twice that once closed.  (engine.py _open_short and _close_short, the   *)
(* closes of the other engines.)                                           *)
EntryValues ==
  [s \in Symbols |-> (IF Side(s) = "short" THEN 1 ELSE -1) * (pos[s].shares * pos[s].entry)]

BooksBalance ==
  cash = Capital + realised - openFees + credited + SumFunctionOnSet(EntryValues, Held)

(* Shares are bought with cash the run has: the fee included, a purchase   *)
(* overdraws it by the flat commission at most, which no sizing counts in. *)
(* (README.md: "Cash only - no margin, no leverage".)                      *)
BuyIsCovered ==
  [][(\E s \in Symbols : Side(s) = "flat" /\ pos'[s].side = "long") => cash' >= -Commission]_btVars

(* The value a run reports is the cash it ends with, when every symbol has *)
(* a bar at the end; run_backtest reports as well what the forced close    *)
(* then pays in fees.  A percentage fee is a unit a share at least, or     *)
(* nothing: the fee itself bounds the shares it can be for.  (final_value  *)
(* is equity[-1], taken before the open positions are closed.)             *)
ReportedValue ==
  (pc = "closing" /\ todo = {} /\ ~conf.short /\ \A s \in universe : ohlc[s] # NoBar)
    => \/ equity = cash
       \/ /\ conf.engine = "strategy"
          /\ \E s \in universe, n \in 1..(equity - cash + 1) :
               equity = cash + SellCost(lastClose[s], n)

(* Every run that never sells short is a cash account; one that may is     *)
(* mapped to the account it was opened with.                               *)
Quotes == {p - PctOf(p, q) : p \in Prices, q \in 0..Scale}
            \cup {p + PctOf(p, q) : p \in Prices, q \in 0..Scale}

Simulated == INSTANCE Account WITH
  Opening <- Capital, BuyFee <- BuyCost, SellFee <- SellCost,
  funds <- IF conf.short THEN Capital ELSE cash,
  stock <- [s \in Symbols |-> IF conf.short THEN 0 ELSE pos[s].shares]

ImplementsAccount == Simulated!Spec
=============================================================================
