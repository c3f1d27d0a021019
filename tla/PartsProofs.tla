------------------------------ MODULE PartsProofs ------------------------------
(***************************************************************************)
(* Theorems about the parts that stand alone, and about MCParts, where a   *)
(* behaviour is about one of them: the back-test engines (Backtest), for   *)
(* every history of bars, news and signals, every cost model, stop, target *)
(* and sizing; the pipeline a live back-test replays (ReplayPipeline), the *)
(* table its result waits in (BacktestJobs), the process manager and the   *)
(* paper account, for every price and fee, every number of jobs, clients,  *)
(* services and commands.                                                  *)
(*                                                                         *)
(* To the account every step of an engine is one of six things; what they  *)
(* do to it is proved once for each.                                       *)
(***************************************************************************)
EXTENDS MCParts, SumFacts, SequenceTheorems

LEMMA Constants ==
  /\ \A p \in Prices : p \in Nat /\ p > 0
  /\ Scale \in Nat /\ Scale > 0
  /\ Commission \in Nat /\ Capital \in Nat /\ MaxBars \in Nat /\ Cooldown \in Nat
  /\ BuyPct \in 0..Scale /\ SellPct \in 0..Scale /\ SellPct < Scale
  /\ StopPct \in 0..Scale /\ TakePct \in 0..Scale
  /\ PositionSize \in 0..Scale /\ Allocation \in 0..Scale /\ Risk \in 0..Scale
BY BacktestAssumption

-----------------------------------------------------------------------------
(* Arithmetic.                                                             *)

LEMMA TimesMono == ASSUME NEW a \in Nat, NEW b \in Nat, NEW c \in Nat, a <= b
                   PROVE  a * c <= b * c /\ c * a <= c * b
OBVIOUS

LEMMA CountBelowProduct == ASSUME NEW n \in Nat, NEW q \in Nat, q > 0 PROVE n <= n * q
OBVIOUS

LEMMA TimesType == \A a, b \in Nat : a * b \in Nat
OBVIOUS

LEMMA TimesInt == \A a, b \in Int : a * b \in Int
OBVIOUS

LEMMA DivNat == ASSUME NEW x \in Nat, NEW d \in Nat, d > 0
                PROVE  x \div d \in Nat /\ (x \div d) * d <= x
OBVIOUS

LEMMA DivBound == ASSUME NEW x \in Nat, NEW y \in Nat, NEW d \in Nat, d > 0, x <= y * d
                  PROVE  x \div d <= y
OBVIOUS

LEMMA PctNat == ASSUME NEW x \in Nat, NEW pct \in 0..Scale
                PROVE  PctOf(x, pct) \in Nat /\ PctOf(x, pct) <= x
<1>1. x * pct \in Nat /\ x * pct <= x * Scale
  BY Constants, TimesType, TimesMono
<1>2. QED
  BY <1>1, Constants, DivNat, DivBound DEF PctOf

LEMMA PctInt == ASSUME NEW x \in Int, NEW pct \in 0..Scale PROVE PctOf(x, pct) \in Int
<1>1. x * pct \in Int
  BY Constants, TimesInt
<1>2. QED
  BY <1>1, Constants DEF PctOf

LEMMA DivPositive == ASSUME NEW x \in Nat, NEW d \in Nat, d > 0, x >= d PROVE x \div d > 0
OBVIOUS

LEMMA StopIsWorth == ASSUME StopPct > 0, NEW price \in Prices PROVE PctOf(price, StopPct) > 0
<1>1. price * StopPct \in Nat /\ price * StopPct >= Scale
  BY BacktestAssumption, Constants, TimesType
<1>2. QED
  BY <1>1, Constants, DivPositive DEF PctOf

LEMMA FeeTypes ==
  ASSUME NEW price \in Nat, NEW n \in Nat
  PROVE  BuyCost(price, n) \in Nat /\ SellCost(price, n) \in Nat
BY Constants, PctNat, TimesType DEF BuyCost, SellCost

LEMMA DivStrict == ASSUME NEW x \in Nat, NEW y \in Nat, NEW d \in Nat, d > 0, x < y * d
                   PROVE  x \div d < y
OBVIOUS

LEMMA TimesStrict == ASSUME NEW a \in Nat, NEW b \in Nat, NEW c \in Nat, a < b, c > 0
                     PROVE  c * a < c * b
OBVIOUS

LEMMA EffectivePrices ==
  ASSUME NEW price \in Prices
  PROVE  /\ EffectiveBuyPrice(price) \in Nat /\ EffectiveBuyPrice(price) >= price
         /\ EffectiveSellPrice(price) \in Nat /\ EffectiveSellPrice(price) > 0
<1>1. price * SellPct \in Nat /\ price * SellPct < price * Scale
  BY Constants, TimesType, TimesStrict
<1>2. PctOf(price, SellPct) < price
  BY <1>1, Constants, DivStrict DEF PctOf
<1>3. QED
  BY <1>2, Constants, PctNat DEF EffectiveBuyPrice, EffectiveSellPrice

(* The shares of an order cost no more than the cash, percentages included.*)
LEMMA SharesCovered ==
  ASSUME cash \in Int, NEW size \in 0..Scale, NEW price \in Nat, price > 0
  PROVE  /\ SharesFor(size, price) \in Nat
         /\ SharesFor(size, price) > 0 => SharesFor(size, price) * price <= cash
<1>1. CASE cash > 0
  <2>1. PctOf(cash, size) \in Nat /\ PctOf(cash, size) <= cash
    BY <1>1, PctNat
  <2>2. QED
    BY <1>1, <2>1, DivNat DEF SharesFor
<1>2. CASE ~(cash > 0)
  BY <1>2 DEF SharesFor
<1>3. QED
  BY <1>1, <1>2

LEMMA QuoteTypes ==
  /\ Prices \subseteq Quotes
  /\ \A p \in Prices, q \in 0..Scale : p - PctOf(p, q) \in Quotes /\ p + PctOf(p, q) \in Quotes
  /\ Quotes \subseteq Nat
<1>1. \A p \in Prices, q \in 0..Scale : p - PctOf(p, q) \in Quotes /\ p + PctOf(p, q) \in Quotes
  BY DEF Quotes
<1>2. ASSUME NEW p \in Prices PROVE p \in Quotes
  <2>1. 0 \in 0..Scale /\ PctOf(p, 0) = 0
    BY Constants, DivNat DEF PctOf
  <2>2. p - PctOf(p, 0) = p
    BY <2>1, Constants
  <2>3. QED
    BY <1>1, <2>1, <2>2
<1>3. Quotes \subseteq Nat
  BY Constants, PctNat DEF Quotes
<1>4. QED
  BY <1>1, <1>2, <1>3

-----------------------------------------------------------------------------
(* The inductive invariant.  TypeOK is not inductive by itself: the prices *)
(* of a close come from the position and the bars, so a held symbol has an *)
(* entry, a peak and a last close that are prices, and a strategy always   *)
(* has a bar of its only symbol.                                           *)

Good(p) ==
  /\ p \in Position
  /\ p.side = "flat" => p.shares = 0
  /\ p.side # "flat" => p.shares > 0 /\ p.entry \in Prices /\ p.peak \in Prices

AccountInv ==
  /\ cash \in Int
  /\ realised \in Int
  /\ openFees \in Nat
  /\ credited \in Nat
  /\ pos \in [Symbols -> Position]
  /\ \A s \in Symbols : Good(pos[s])

HeldInv ==
  \A s \in Symbols : Side(s) # "flat" =>
     /\ s \in universe
     /\ lastClose[s] \in Prices
     /\ Side(s) = "short" => conf.short

MarketInv ==
  /\ conf \in Configs
  /\ universe \in SUBSET Symbols
  /\ bar \in 0..MaxBars
  /\ ohlc \in [Symbols -> Bar \cup {NoBar}]
  /\ lastClose \in [Symbols -> Prices \cup {0}]
  /\ \A s \in Symbols : ohlc[s] # NoBar => s \in universe /\ lastClose[s] \in Prices
  /\ conf.engine # "portfolio" => \E s \in Symbols : universe = {s}

ControlInv ==
  /\ pc \in {"bar", "fill", "exits", "signalled", "news", "value", "closing"}
  /\ todo \in SUBSET Symbols
  /\ mood \in Sentiments \cup {0}
  /\ pending \in Signals \cup {Hold}
  /\ lastTrade \in [Symbols -> Int]
  /\ equity \in Int
  /\ pc = "fill" => conf.engine = "strategy"
  /\ conf.engine = "strategy" /\ pc # "bar" => \A s \in universe : ohlc[s] # NoBar
  /\ pc = "closing" => \A s \in todo : Side(s) # "flat"

Inv == AccountInv /\ HeldInv /\ MarketInv /\ ControlInv

LEMMA InvIsTyped == Inv => TypeOK
BY DEF Inv, AccountInv, MarketInv, ControlInv, TypeOK

LEMMA NoPositionGood == NoPosition \in Position /\ Good(NoPosition)
                        /\ NoPosition.side = "flat" /\ NoPosition.shares = 0
BY Constants DEF NoPosition, Position, Good

LEMMA ConfigTypes == ASSUME conf \in Configs
                     PROVE  /\ conf.engine \in {"strategy", "portfolio", "sentiment"}
                            /\ conf.engine # "strategy" => ~conf.short
BY BacktestAssumption DEF Config

LEMMA BarTypes == ASSUME MarketInv, NEW s \in Symbols, ohlc[s] # NoBar
                  PROVE  /\ ohlc[s].open \in Prices /\ ohlc[s].high \in Prices
                         /\ ohlc[s].low \in Prices /\ ohlc[s].close \in Prices
                         /\ lastClose[s] \in Prices
BY DEF MarketInv, Bar

LEMMA PositionTypes ==
  ASSUME AccountInv, NEW s \in Symbols
  PROVE  /\ pos[s].side \in {"flat", "long", "short"}
         /\ pos[s].shares \in Nat /\ pos[s].entry \in Nat /\ pos[s].peak \in Nat
         /\ pos[s].sl \in 0..Scale /\ pos[s].tp \in 0..Scale /\ pos[s].since \in 0..MaxBars
         /\ pos[s].side = "flat" => pos[s].shares = 0
         /\ pos[s].side # "flat" => pos[s].shares > 0 /\ pos[s].entry \in Prices
                                                     /\ pos[s].peak \in Prices
BY DEF AccountInv, Good, Position

LEMMA OpenedGood ==
  ASSUME NEW side \in {"long", "short"}, NEW n \in Nat, n > 0, NEW price \in Prices,
         NEW sl \in 0..Scale, NEW tp \in 0..Scale, bar \in 0..MaxBars
  PROVE  /\ Good(Opened(side, n, price, sl, tp))
         /\ Opened(side, n, price, sl, tp).side = side
         /\ Opened(side, n, price, sl, tp).shares = n
BY Constants DEF Opened, Good, Position

LEMMA WithPeakGood ==
  ASSUME NEW p, Good(p), NEW peak \in Nat, p.side # "flat" => peak \in Prices
  PROVE  Good(WithPeak(p, peak)) /\ WithPeak(p, peak).side = p.side
         /\ WithPeak(p, peak).shares = p.shares
BY Constants DEF WithPeak, Good, Position

LEMMA OneChange ==
  ASSUME pos \in [Symbols -> Position], \A t \in Symbols : Good(pos[t]),
         NEW s \in Symbols, NEW p, Good(p), pos' = [pos EXCEPT ![s] = p]
  PROVE  /\ pos' \in [Symbols -> Position] /\ \A t \in Symbols : Good(pos'[t])
         /\ pos'[s] = p /\ \A t \in Symbols \ {s} : pos'[t] = pos[t]
BY DEF Good

-----------------------------------------------------------------------------
(* What a step can be to the account.                                      *)

BuysLong(s) ==
  /\ Side(s) = "flat"
  /\ s \in universe /\ lastClose[s] \in Prices
  /\ \E price \in Prices, n \in Nat, sl \in 0..Scale, tp \in 0..Scale :
       /\ n > 0
       /\ n * EffectiveBuyPrice(price) <= cash
       /\ OpenLong(s, price, n, sl, tp)

SellsShort(s) ==
  /\ Side(s) = "flat" /\ conf.short
  /\ s \in universe /\ lastClose[s] \in Prices
  /\ \E price \in Prices, n \in Nat, sl \in 0..Scale, tp \in 0..Scale :
       n > 0 /\ OpenShort(s, price, n, sl, tp)

SellsLong(s) ==
  /\ Side(s) = "long"
  /\ \E price \in Quotes : \E fee \in {0, SellCost(price, pos[s].shares)} :
       CloseLong(s, price, fee)

BuysBack(s) == Side(s) = "short" /\ \E price \in Nat : CloseShort(s, price)

MovesPeak(s) ==
  /\ \E peak \in Nat :
       /\ Side(s) # "flat" => peak \in Prices
       /\ pos' = [pos EXCEPT ![s] = WithPeak(@, peak)]
  /\ UNCHANGED <<cash, realised, openFees, credited>>

Trades(s) == BuysLong(s) \/ SellsShort(s) \/ SellsLong(s) \/ BuysBack(s) \/ MovesPeak(s)

LEMMA TradesInv ==
  ASSUME AccountInv, HeldInv, MarketInv, NEW s \in Symbols, Trades(s), UNCHANGED market
  PROVE  AccountInv' /\ HeldInv'
<1> USE DEF AccountInv, HeldInv, Side
<1> UNCHANGED <<conf, universe, lastClose>> /\ bar \in 0..MaxBars
  BY DEF market, MarketInv
<1>1. CASE BuysLong(s)
  <2>1. PICK price \in Prices, n \in Nat, sl \in 0..Scale, tp \in 0..Scale :
          n > 0 /\ OpenLong(s, price, n, sl, tp)
    BY <1>1 DEF BuysLong
  <2>2. n * price \in Nat /\ BuyCost(price, n) \in Nat
    BY FeeTypes, TimesType, Constants
  <2>3. cash' \in Int /\ openFees' \in Nat
    BY <2>1, <2>2 DEF OpenLong
  <2>4. Good(Opened("long", n, price, sl, tp)) /\ Opened("long", n, price, sl, tp).side = "long"
    BY <2>1, OpenedGood
  <2>5. QED
    BY <1>1, <2>1, <2>3, <2>4, OneChange DEF OpenLong, BuysLong
<1>2. CASE SellsShort(s)
  <2>1. PICK price \in Prices, n \in Nat, sl \in 0..Scale, tp \in 0..Scale :
          n > 0 /\ OpenShort(s, price, n, sl, tp)
    BY <1>2 DEF SellsShort
  <2>2. n * price \in Nat /\ SellCost(price, n) \in Nat
    BY FeeTypes, TimesType, Constants
  <2>3. cash' \in Int /\ openFees' \in Nat
    BY <2>1, <2>2 DEF OpenShort
  <2>4. Good(Opened("short", n, price, sl, tp)) /\ Opened("short", n, price, sl, tp).side = "short"
    BY <2>1, OpenedGood
  <2>5. QED
    BY <1>2, <2>1, <2>3, <2>4, OneChange DEF OpenShort, SellsShort
<1>3. CASE SellsLong(s)
  <2>1. PICK price \in Quotes : \E fee \in {0, SellCost(price, pos[s].shares)} :
          CloseLong(s, price, fee)
    BY <1>3 DEF SellsLong
  <2> PICK fee \in {0, SellCost(price, pos[s].shares)} : CloseLong(s, price, fee)
    BY <2>1
  <2>2. price \in Nat /\ fee \in Nat /\ pos[s].shares \in Nat /\ pos[s].entry \in Nat
    <3>1. price \in Nat /\ pos[s].shares \in Nat /\ pos[s].entry \in Nat
      BY QuoteTypes, PositionTypes
    <3>2. SellCost(price, pos[s].shares) \in Nat
      BY <3>1, FeeTypes
    <3>3. QED
      BY <3>1, <3>2
  <2>3. pos[s].shares * price \in Int /\ (price - pos[s].entry) * pos[s].shares \in Int
    BY <2>2, TimesInt
  <2>4. cash' \in Int /\ realised' \in Int
    BY <2>2, <2>3 DEF CloseLong
  <2>5. /\ pos' \in [Symbols -> Position] /\ \A t \in Symbols : Good(pos'[t])
        /\ pos'[s].side = "flat" /\ \A t \in Symbols \ {s} : pos'[t] = pos[t]
    BY NoPositionGood, OneChange DEF CloseLong
  <2>6. QED
    BY <2>4, <2>5 DEF CloseLong
<1>4. CASE BuysBack(s)
  <2>1. PICK price \in Nat : CloseShort(s, price)
    BY <1>4 DEF BuysBack
  <2>2. pos[s].shares \in Nat /\ pos[s].entry \in Nat
    BY PositionTypes
  <2>3. /\ BuyCost(price, pos[s].shares) \in Nat
        /\ (pos[s].entry - price) * pos[s].shares \in Int
        /\ pos[s].entry * pos[s].shares \in Nat
    <3>1. BuyCost(price, pos[s].shares) \in Nat
      BY <2>2, FeeTypes
    <3>2. pos[s].entry - price \in Int
      BY <2>2
    <3>3. QED
      BY <2>2, <3>1, <3>2, TimesInt, TimesType
  <2>4. cash' \in Int /\ realised' \in Int /\ credited' \in Nat
    BY <2>1, <2>3 DEF CloseShort
  <2>5. /\ pos' \in [Symbols -> Position] /\ \A t \in Symbols : Good(pos'[t])
        /\ pos'[s].side = "flat" /\ \A t \in Symbols \ {s} : pos'[t] = pos[t]
    BY <2>1, NoPositionGood, OneChange DEF CloseShort
  <2>6. QED
    BY <2>1, <2>4, <2>5 DEF CloseShort
<1>5. CASE MovesPeak(s)
  <2>1. PICK peak \in Nat :
          /\ Side(s) # "flat" => peak \in Prices
          /\ pos' = [pos EXCEPT ![s] = WithPeak(pos[s], peak)]
    BY <1>5 DEF MovesPeak
  <2>2. Good(WithPeak(pos[s], peak)) /\ WithPeak(pos[s], peak).side = pos[s].side
    BY <2>1, WithPeakGood
  <2>3. QED
    BY <1>5, <2>1, <2>2, OneChange DEF MovesPeak
<1>6. QED
  BY <1>1, <1>2, <1>3, <1>4, <1>5 DEF Trades

-----------------------------------------------------------------------------
(* Every step is one of them, or none.                                     *)

LEMMA CloseAtTrades ==
  ASSUME AccountInv, NEW s \in Symbols, NEW price \in Quotes, CloseAt(s, price)
  PROVE  Trades(s) /\ \A t \in Symbols \ {s} : pos'[t] = pos[t]
<1>1. CASE Side(s) = "long" /\ CloseLong(s, price, SellCost(price, pos[s].shares))
  <2>1. Trades(s)
    BY <1>1 DEF Trades, SellsLong
  <2>2. QED
    BY <1>1, <2>1 DEF CloseLong, AccountInv
<1>2. CASE Side(s) = "short" /\ CloseShort(s, price)
  <2>1. Trades(s)
    BY <1>2, QuoteTypes DEF Trades, BuysBack
  <2>2. QED
    BY <1>2, <2>1 DEF CloseShort, AccountInv
<1>3. QED
  BY <1>1, <1>2 DEF CloseAt

LEMMA ExitQuotes ==
  ASSUME Inv, NEW s \in Symbols, Side(s) # "flat", ohlc[s] # NoBar
  PROVE  StopPrice(s) \in Quotes /\ TargetPrice(s) \in Quotes /\ Peak(s) \in Prices
<1>1. pos[s].entry \in Prices /\ pos[s].peak \in Prices
      /\ pos[s].sl \in 0..Scale /\ pos[s].tp \in 0..Scale
  BY PositionTypes DEF Inv, Side
<1>2. Peak(s) \in Prices
  BY <1>1, BarTypes DEF Inv, Peak
<1>3. QED
  BY <1>1, <1>2, QuoteTypes DEF StopPrice, TargetPrice

LEMMA SignalTypes ==
  ASSUME NEW sig \in Signals \cup {Hold}
  PROVE  /\ SizeOf(sig) \in 0..Scale
         /\ OwnOr(sig.stop, StopPct) \in 0..Scale /\ OwnOr(sig.take, TakePct) \in 0..Scale
<1>1. sig \in Signal
  BY BacktestAssumption, Constants DEF Hold, Signal
<1>2. sig.size \in 0..Scale /\ sig.stop \in 0..Scale /\ sig.take \in 0..Scale
  BY <1>1 DEF Signal
<1>3. QED
  BY <1>2, Constants DEF SizeOf, OwnOr

(* A strategy has a bar of its symbol.                                     *)
LEMMA StrategyBar ==
  ASSUME Inv, conf.engine = "strategy", pc # "bar", NEW s \in universe
  PROVE  s \in Symbols /\ ohlc[s] # NoBar
BY DEF Inv, ControlInv, MarketInv

LEMMA LongTrade ==
  ASSUME Inv, NEW s \in universe, Side(s) = "flat", lastClose[s] \in Prices,
         NEW price \in Prices, NEW n \in Nat, n > 0, n * EffectiveBuyPrice(price) <= cash,
         NEW sl \in 0..Scale, NEW tp \in 0..Scale, OpenLong(s, price, n, sl, tp)
  PROVE  Trades(s)
BY DEF Trades, BuysLong

LEMMA FillCloseTrades == ASSUME Inv, NEW s \in Symbols, FillClose(s) PROVE Trades(s)
<1>1. Side(s) # "flat" /\ s \in universe
  BY DEF FillClose, Inv, HeldInv
<1>2. ohlc[s] # NoBar
  BY <1>1, StrategyBar DEF FillClose, Inv, ControlInv
<1>3. ohlc[s].open \in Quotes
  BY <1>2, BarTypes, QuoteTypes DEF Inv
<1>4. QED
  BY <1>3, CloseAtTrades DEF FillClose, Inv

LEMMA FillOpenTrades ==
  ASSUME Inv, NEW s \in Symbols, FillOpen(s) PROVE Trades(s) \/ UNCHANGED account
<1>1. s \in universe /\ Side(s) = "flat" /\ ohlc[s] # NoBar
  BY StrategyBar DEF FillOpen, Inv, ControlInv
<1> DEFINE price == ohlc[s].open
           n == SharesFor(SizeOf(pending), IF pending.action = 1 THEN EffectiveBuyPrice(price)
                                                                ELSE EffectiveSellPrice(price))
           sl == OwnOr(pending.stop, StopPct)
           tp == OwnOr(pending.take, TakePct)
<1>2. price \in Prices /\ lastClose[s] \in Prices
  BY <1>1, BarTypes DEF Inv
<1>3. SizeOf(pending) \in 0..Scale /\ sl \in 0..Scale /\ tp \in 0..Scale
  BY SignalTypes DEF Inv, ControlInv
<1>4. /\ EffectiveBuyPrice(price) \in Nat /\ EffectiveBuyPrice(price) > 0
      /\ EffectiveSellPrice(price) \in Nat /\ EffectiveSellPrice(price) > 0
  BY <1>2, EffectivePrices, Constants
<1>5. CASE pending.action = 1 /\ n > 0 /\ OpenLong(s, price, n, sl, tp)
  <2>1. n \in Nat /\ n * EffectiveBuyPrice(price) <= cash
    BY <1>3, <1>4, <1>5, SharesCovered DEF Inv, AccountInv
  <2> HIDE DEF price, n, sl, tp
  <2>2. QED
    BY <1>1, <1>2, <1>3, <1>5, <2>1, LongTrade
<1>6. CASE pending.action = -1 /\ conf.short /\ n > 0 /\ OpenShort(s, price, n, sl, tp)
  <2>1. n \in Nat
    BY <1>3, <1>4, <1>6, SharesCovered DEF Inv, AccountInv
  <2> HIDE DEF price, n, sl, tp
  <2>2. QED
    BY <1>1, <1>2, <1>3, <1>6, <2>1 DEF Trades, SellsShort
<1>7. QED
  BY <1>5, <1>6 DEF FillOpen

LEMMA ExitTrades ==
  ASSUME Inv, NEW s \in Symbols,
         LeaveAtStop(s) \/ LeaveAtTarget(s) \/ LeaveExpired(s) \/ Keep(s)
  PROVE  Trades(s)
<1>1. ASSUME NEW price, CloseAt(s, price), ohlc[s] # NoBar,
             price \in {StopPrice(s), TargetPrice(s), ohlc[s].open}
      PROVE  Trades(s)
  <2>1. Side(s) # "flat"
    BY <1>1 DEF CloseAt
  <2>2. price \in Quotes
    BY <1>1, <2>1, ExitQuotes, BarTypes, QuoteTypes DEF Inv
  <2>3. QED
    BY <1>1, <2>2, CloseAtTrades DEF Inv
<1>2. CASE LeaveAtStop(s)
  BY <1>1, <1>2 DEF LeaveAtStop
<1>3. CASE LeaveAtTarget(s)
  BY <1>1, <1>3 DEF LeaveAtTarget
<1>4. CASE LeaveExpired(s)
  BY <1>1, <1>4 DEF LeaveExpired
<1>5. CASE Keep(s)
  <2>1. Peak(s) \in Nat
    BY PositionTypes, Constants, BarTypes DEF Inv, Peak, NoBar
  <2>2. Side(s) # "flat" => Peak(s) \in Prices
    <3>1. ohlc[s] = NoBar /\ Side(s) # "flat" => Peak(s) = pos[s].peak
      BY PositionTypes, Constants DEF Inv, Peak, NoBar, Side
    <3>2. QED
      BY <3>1, PositionTypes, ExitQuotes DEF Inv, Side
  <2>3. QED
    BY <1>5, <2>1, <2>2 DEF Keep, Trades, MovesPeak
<1>6. QED
  BY <1>2, <1>3, <1>4, <1>5

LEMMA SignalTrades ==
  ASSUME Inv, NEW s \in Symbols, TakeSignal(s)
  PROVE  (Trades(s) \/ UNCHANGED account) /\ pending' \in Signals \cup {Hold}
<1>1. s \in universe /\ ohlc[s] # NoBar
  BY StrategyBar DEF TakeSignal
<1> DEFINE price == ohlc[s].close
<1>2. price \in Prices /\ price \in Quotes /\ lastClose[s] \in Prices
  BY <1>1, BarTypes, QuoteTypes DEF Inv
<1>3. EffectiveBuyPrice(price) \in Nat /\ EffectiveBuyPrice(price) > 0
  BY <1>2, EffectivePrices, Constants
<1>4. PICK sig \in Signals :
        LET n == SharesFor(SizeOf(sig), EffectiveBuyPrice(price))
            buys  == ~conf.nextOpen /\ sig.action = 1 /\ Side(s) = "flat" /\ n > 0
            sells == ~conf.nextOpen /\ sig.action = -1 /\ Side(s) = "long"
        IN  /\ pending' = IF conf.nextOpen THEN sig ELSE Hold
            /\ \/ /\ buys
                  /\ OpenLong(s, price, n, OwnOr(sig.stop, StopPct), OwnOr(sig.take, TakePct))
               \/ sells /\ CloseAt(s, price)
               \/ ~buys /\ ~sells /\ UNCHANGED account
  BY DEF TakeSignal
<1> DEFINE n == SharesFor(SizeOf(sig), EffectiveBuyPrice(price))
           sl == OwnOr(sig.stop, StopPct)
           tp == OwnOr(sig.take, TakePct)
<1>5. SizeOf(sig) \in 0..Scale /\ sl \in 0..Scale /\ tp \in 0..Scale
  BY SignalTypes
<1>6. ASSUME Side(s) = "flat", n > 0, OpenLong(s, price, n, sl, tp) PROVE Trades(s)
  <2>1. n \in Nat /\ n * EffectiveBuyPrice(price) <= cash
    BY <1>3, <1>5, <1>6, SharesCovered DEF Inv, AccountInv
  <2> HIDE DEF price, n, sl, tp
  <2>2. QED
    BY <1>1, <1>2, <1>5, <1>6, <2>1, LongTrade
<1>7. ASSUME CloseAt(s, price) PROVE Trades(s)
  BY <1>2, <1>7, CloseAtTrades DEF Inv
<1>8. pending' \in Signals \cup {Hold}
  BY <1>4
<1>9. Trades(s) \/ UNCHANGED account
  BY <1>4, <1>6, <1>7
<1>10. QED
  BY <1>8, <1>9

LEMMA MoodTypes == ASSUME mood \in Sentiments \cup {0}, mood >= Threshold
                   PROVE  mood \in 0..Scale
BY BacktestAssumption

(* should_buy returns no more than the sentiment allows.                   *)
LEMMA ShouldBuyCovered ==
  ASSUME Inv, mood >= Threshold, NEW price \in Prices, NEW n \in ShouldBuy(mood, price)
  PROVE  n \in Nat /\ n > 0 /\ n * EffectiveBuyPrice(price) <= cash
<1> DEFINE m == SharesFor(mood, EffectiveBuyPrice(price))
<1>1. EffectiveBuyPrice(price) \in Nat /\ EffectiveBuyPrice(price) > 0
      /\ EffectiveBuyPrice(price) >= price
  BY EffectivePrices, Constants
<1>2. mood \in 0..Scale
  BY MoodTypes DEF Inv, ControlInv
<1>3. m \in Nat /\ (m > 0 => m * EffectiveBuyPrice(price) <= cash)
  BY <1>1, <1>2, SharesCovered DEF Inv, AccountInv
<1>4. n <= m /\ n > 0 /\ n \in Limits(mood, price)
  BY DEF ShouldBuy, Limits
<1>5. n \in Nat
  <2>1. CASE n = m
    BY <1>3, <2>1
  <2>2. CASE Allocation > 0 /\ n = SharesFor(Allocation, EffectiveBuyPrice(price))
    BY <1>1, <2>2, Constants, SharesCovered DEF Inv, AccountInv
  <2>3. CASE Risk > 0 /\ StopPct > 0 /\ n = PctOf(cash, Risk) \div PctOf(price, StopPct)
    <3>1. cash > 0 /\ cash \in Nat
      <4>1. cash \in Int
        BY DEF Inv, AccountInv
      <4>2. PctOf(cash, Risk) \in Int /\ PctOf(price, StopPct) \in Nat /\ PctOf(price, StopPct) > 0
        BY <2>3, <4>1, Constants, PctInt, PctNat, StopIsWorth
      <4>3. n \in Int
        BY <2>3, <4>2
      <4>4. m # 0
        <5> HIDE DEF m
        <5>1. QED
          BY <1>3, <1>4, <4>3
      <4>5. QED
        BY <4>1, <4>4 DEF SharesFor
    <3>2. /\ PctOf(cash, Risk) \in Nat
          /\ PctOf(price, StopPct) \in Nat /\ PctOf(price, StopPct) > 0
      BY <2>3, <3>1, Constants, PctNat, StopIsWorth
    <3>3. QED
      BY <2>3, <3>2, DivNat
  <2>4. QED
    BY <1>4, <2>1, <2>2, <2>3 DEF Limits
<1>6. n * EffectiveBuyPrice(price) <= m * EffectiveBuyPrice(price)
  <2> HIDE DEF m
  <2>1. QED
    BY <1>1, <1>3, <1>4, <1>5, TimesMono
<1>7. EffectiveBuyPrice(price) * n \in Nat /\ m * EffectiveBuyPrice(price) \in Nat
      /\ n * EffectiveBuyPrice(price) \in Nat
  BY <1>1, <1>3, <1>5, TimesType
<1>8. QED
  BY <1>3, <1>4, <1>5, <1>6, <1>7 DEF Inv, AccountInv

LEMMA NewsTrades ==
  ASSUME Inv, NEW s \in Symbols, BuyOnNews(s) \/ SellOnNews(s) PROVE Trades(s)
<1>1. ohlc[s] # NoBar
  BY DEF BuyOnNews, BuysOnNews, SellOnNews, SellsOnNews
<1>2. ohlc[s].open \in Prices /\ ohlc[s].open \in Quotes /\ lastClose[s] \in Prices
  BY <1>1, BarTypes, QuoteTypes DEF Inv
<1>3. CASE BuyOnNews(s)
  <2>1. PICK n \in ShouldBuy(mood, ohlc[s].open) : OpenLong(s, ohlc[s].open, n, StopPct, TakePct)
    BY <1>3 DEF BuyOnNews
  <2>2. n \in Nat /\ n > 0 /\ n * EffectiveBuyPrice(ohlc[s].open) <= cash
    BY <1>2, <1>3, ShouldBuyCovered DEF BuyOnNews, BuysOnNews
  <2>3. s \in universe /\ Side(s) = "flat"
    BY <1>1, <1>3 DEF BuyOnNews, BuysOnNews, Inv, MarketInv
  <2>4. StopPct \in 0..Scale /\ TakePct \in 0..Scale
    BY Constants
  <2>5. QED
    BY <1>2, <2>1, <2>2, <2>3, <2>4, LongTrade
<1>4. CASE SellOnNews(s)
  BY <1>2, <1>4, CloseAtTrades DEF SellOnNews, Inv
<1>5. QED
  BY <1>3, <1>4

LEMMA CloseOutTrades ==
  ASSUME Inv, NEW s \in Symbols, CloseOut(s) PROVE Trades(s)
<1>1. Side(s) # "flat"
  BY DEF CloseOut, Inv, ControlInv
<1>2. lastClose[s] \in Quotes
  BY <1>1, QuoteTypes DEF Inv, HeldInv
<1>3. CASE CloseAt(s, lastClose[s])
  BY <1>2, <1>3, CloseAtTrades DEF Inv
<1>4. CASE conf.engine # "strategy" /\ CloseLong(s, lastClose[s], 0)
  <2>1. Side(s) = "long"
    BY <1>1, <1>4, PositionTypes, ConfigTypes DEF Inv, HeldInv, MarketInv, Side
  <2>2. QED
    BY <1>2, <1>4, <2>1 DEF Trades, SellsLong
<1>5. QED
  BY <1>3, <1>4 DEF CloseOut

LEMMA StepTrades ==
  ASSUME Inv, NEW s \in Symbols, Step(s)
  PROVE  (Trades(s) \/ UNCHANGED account) /\ UNCHANGED market
<1> USE DEF Step
<1>1. Trades(s) \/ UNCHANGED account
  <2>1. CASE IgnoreNews(s) \/ AddValue(s)
    BY <2>1 DEF IgnoreNews, AddValue
  <2>2. QED
    BY <2>1, FillCloseTrades, FillOpenTrades, ExitTrades, SignalTrades, NewsTrades, CloseOutTrades
<1>2. UNCHANGED market
  BY DEF FillClose, FillOpen, ToExits, LeaveAtStop, LeaveAtTarget, LeaveExpired, Keep, Checked,
         TakeSignal, BuyOnNews, SellOnNews, IgnoreNews, ReadFor, AddValue, CloseOut
<1>3. QED
  BY <1>1, <1>2

(* What the other symbols have stays.                                      *)
LEMMA TradesFrame ==
  ASSUME AccountInv, NEW s \in Symbols, Trades(s)
  PROVE  \A t \in Symbols \ {s} : pos'[t] = pos[t]
BY DEF Trades, BuysLong, SellsShort, SellsLong, BuysBack, MovesPeak,
       OpenLong, OpenShort, CloseLong, CloseShort, AccountInv

-----------------------------------------------------------------------------
(* The invariant holds.                                                    *)

LEMMA InitInv == Init => Inv
<1> SUFFICES ASSUME Init PROVE Inv
  OBVIOUS
<1> USE DEF Init
<1>1. pos \in [Symbols -> Position] /\ \A s \in Symbols : Good(pos[s]) /\ Side(s) = "flat"
  BY NoPositionGood DEF Side
<1>2. AccountInv
  BY <1>1, Constants DEF AccountInv
<1>3. HeldInv
  BY <1>1 DEF HeldInv
<1>4. MarketInv
  BY Constants DEF MarketInv
<1>5. ControlInv
  <2>1. lastTrade \in [Symbols -> Int]
    BY Constants
  <2>2. QED
    BY <2>1, Constants DEF ControlInv
<1>6. QED
  BY <1>2, <1>3, <1>4, <1>5 DEF Inv

LEMMA ValueIsInt == ASSUME Inv, NEW s \in Symbols PROVE ValueOf(s) \in Int
<1>1. CASE ohlc[s] # NoBar
  <2>1. ohlc[s].close \in Int /\ pos[s].shares \in Int /\ pos[s].entry \in Int
    BY <1>1, BarTypes, PositionTypes, Constants DEF Inv
  <2>2. /\ (pos[s].entry - ohlc[s].close) * pos[s].shares \in Int
        /\ pos[s].shares * ohlc[s].close \in Int
    BY <2>1, TimesInt
  <2>3. QED
    BY <1>1, <2>2 DEF ValueOf
<1>2. QED
  BY <1>1 DEF ValueOf

LEMMA StepControl ==
  ASSUME Inv, NEW s \in Symbols, Step(s) PROVE ControlInv'
<1>0. UNCHANGED <<conf, universe, bar, ohlc, lastClose>>
  BY StepTrades DEF market
<1>1. bar \in Int /\ Hold \in Signals \cup {Hold} /\ lastTrade \in [Symbols -> Int]
  BY Constants DEF Inv, MarketInv, ControlInv
<1>2. pc \in {"fill", "exits", "news", "value", "closing"}
  BY DEF Step, FillClose, FillOpen, LeaveAtStop, LeaveAtTarget, LeaveExpired, Keep, Checked,
         TakeSignal, BuyOnNews, SellOnNews, IgnoreNews, ReadFor, AddValue, CloseOut
<1> DEFINE Fixed == UNCHANGED <<conf, universe, ohlc>>
<1>3. ASSUME UNCHANGED <<mood, pending, lastTrade, equity>>, pc' \in {pc, "exits", "signalled"},
             pc # "closing", todo' \in SUBSET Symbols
      PROVE  ControlInv'
  <2>1. pc' # "closing" /\ (pc' = "fill" => pc = "fill")
    BY <1>2, <1>3
  <2>2. QED
    BY <1>0, <1>1, <1>2, <1>3, <2>1 DEF Inv, ControlInv
<1>4. CASE FillClose(s)
  BY <1>0, <1>4 DEF FillClose, control, Inv, ControlInv
<1>5. CASE FillOpen(s)
  BY <1>0, <1>1, <1>2, <1>5 DEF FillOpen, ToExits, Inv, ControlInv
<1>6. CASE LeaveAtStop(s) \/ LeaveAtTarget(s) \/ LeaveExpired(s) \/ Keep(s)
  <2>1. Checked(s)
    BY <1>6 DEF LeaveAtStop, LeaveAtTarget, LeaveExpired, Keep
  <2>2. QED
    BY <1>0, <1>3, <2>1 DEF Checked, Inv, ControlInv
<1>7. CASE TakeSignal(s)
  <2>1. pending' \in Signals \cup {Hold}
    BY <1>7, SignalTrades
  <2>2. QED
    BY <1>0, <1>2, <1>7, <2>1 DEF TakeSignal, Inv, ControlInv
<1>8. CASE BuyOnNews(s) \/ SellOnNews(s) \/ IgnoreNews(s)
  <2>1. ReadFor(s) /\ lastTrade' \in [Symbols -> Int]
    BY <1>1, <1>8 DEF BuyOnNews, SellOnNews, IgnoreNews
  <2>2. QED
    BY <1>0, <2>1 DEF ReadFor, Inv, ControlInv
<1>9. CASE AddValue(s)
  <2>1. equity' \in Int
    BY <1>9, ValueIsInt DEF AddValue, Inv, ControlInv
  <2>2. QED
    BY <1>0, <1>9, <2>1 DEF AddValue, Inv, ControlInv
<1>10. CASE CloseOut(s)
  <2>1. \A t \in Symbols \ {s} : pos'[t] = pos[t]
    BY <1>10, CloseOutTrades, TradesFrame DEF Inv
  <2>2. \A t \in todo' : pos'[t].side # "flat"
    BY <1>10, <2>1 DEF CloseOut, Inv, ControlInv, Side
  <2>3. QED
    BY <1>0, <1>10, <2>2 DEF CloseOut, Inv, ControlInv, Side
<1>11. QED
  BY <1>4, <1>5, <1>6, <1>7, <1>8, <1>9, <1>10 DEF Step

LEMMA StepInv == ASSUME Inv, NEW s \in Symbols, Step(s) PROVE Inv'
<1>1. UNCHANGED market
  BY StepTrades
<1>2. MarketInv'
  BY <1>1 DEF Inv, MarketInv, market
<1>3. AccountInv' /\ HeldInv'
  <2>1. CASE Trades(s)
    BY <1>1, <2>1, TradesInv DEF Inv
  <2>2. CASE UNCHANGED account
    BY <1>1, <2>2 DEF Inv, AccountInv, HeldInv, account, market, Side
  <2>3. QED
    BY <2>1, <2>2, StepTrades
<1>4. QED
  BY <1>2, <1>3, StepControl DEF Inv

LEMMA NextBarInv == ASSUME Inv, NextBar PROVE Inv'
<1>1. UNCHANGED <<conf, universe, mood, pending, lastTrade, equity, cash, pos, realised, openFees,
                  credited>>
  BY DEF NextBar, account
<1>2. AccountInv'
  BY <1>1 DEF Inv, AccountInv
<1>3. bar' \in 0..MaxBars /\ ohlc' \in [Symbols -> Bar \cup {NoBar}]
  BY Constants DEF NextBar, Inv, MarketInv
<1>4. /\ lastClose' \in [Symbols -> Prices \cup {0}]
      /\ \A s \in Symbols : ohlc'[s] # NoBar => s \in universe /\ lastClose'[s] \in Prices
      /\ \A s \in Symbols : ohlc'[s] = NoBar => lastClose'[s] = lastClose[s]
  <2>1. \A s \in Symbols : ohlc'[s] # NoBar => ohlc'[s].close \in Prices
    BY <1>3 DEF Bar
  <2>2. lastClose' = [s \in Symbols |->
                        IF ohlc'[s] = NoBar THEN lastClose[s] ELSE ohlc'[s].close]
    BY DEF NextBar
  <2>3. \A s \in Symbols : ohlc'[s] # NoBar => s \in universe
    BY DEF NextBar
  <2>4. QED
    BY <2>1, <2>2, <2>3 DEF Inv, MarketInv
<1>5. HeldInv'
  BY <1>1, <1>4 DEF Inv, HeldInv, Side
<1>6. MarketInv'
  BY <1>1, <1>3, <1>4 DEF Inv, MarketInv
<1>7. ControlInv'
  <2>1. pc' \in {"fill", "exits"} /\ (pc' = "fill" => conf.engine = "strategy")
    BY DEF NextBar
  <2>2. todo' \in SUBSET Symbols
    BY DEF NextBar, Held
  <2>3. conf.engine = "strategy" => \A s \in universe : ohlc'[s] # NoBar
    <3>1. conf.engine = "strategy" => \E s \in Symbols : universe = {s}
      BY DEF Inv, MarketInv
    <3>2. \E s \in universe : ohlc'[s] # NoBar
      BY DEF NextBar
    <3>3. QED
      BY <3>1, <3>2
  <2>4. QED
    BY <1>1, <2>1, <2>2, <2>3 DEF Inv, ControlInv
<1>8. QED
  BY <1>2, <1>5, <1>6, <1>7 DEF Inv

LEMMA NextInv == ASSUME Inv, Next PROVE Inv'
<1>1. ASSUME UNCHANGED market, UNCHANGED account, ControlInv' PROVE Inv'
  BY <1>1 DEF Inv, AccountInv, HeldInv, MarketInv, market, account, Side
<1>2. CASE FillNothing
  BY <1>1, <1>2, Constants DEF FillNothing, ToExits, market, Inv, ControlInv
<1>3. CASE ReadNews
  <2>1. todo' \in SUBSET Symbols
    BY <1>3 DEF ReadNews, Inv, MarketInv
  <2>2. QED
    BY <1>1, <1>3, <2>1 DEF ReadNews, market, Inv, ControlInv
<1>4. CASE Value
  BY <1>1, <1>4 DEF Value, Held, market, Inv, ControlInv, AccountInv
<1>5. CASE Finish
  <2>1. ControlInv'
    BY <1>5 DEF Finish, Held, Side, market, account, Inv, ControlInv
  <2>2. QED
    BY <1>1, <1>5, <2>1 DEF Finish
<1>6. QED
  BY <1>2, <1>3, <1>4, <1>5, NextBarInv, StepInv DEF Next

LEMMA StutterInv == ASSUME Inv, UNCHANGED btVars PROVE Inv'
BY DEF Inv, AccountInv, HeldInv, MarketInv, ControlInv, btVars, market, control, account, Side

LEMMA Inductive == Spec => []Inv
<1>1. Inv /\ [Next]_btVars => Inv'
  BY NextInv, StutterInv
<1>2. QED
  BY InitInv, <1>1, PTL DEF Spec

(* The variables have their types in every run of every engine: no         *)
(* position is ever opened, closed or valued at something that is no price *)
(* (engine.py, portfolio_backtest.py, sentiment_backtest.py).              *)
THEOREM TypesAreRight == Spec => []TypeOK
BY Inductive, InvIsTyped, PTL

-----------------------------------------------------------------------------
(* A purchase overdraws the cash by the flat fee at most.                  *)

LEMMA LongCost ==
  ASSUME NEW price \in Prices, NEW n \in Nat
  PROVE  n * price + BuyCost(price, n) = n * EffectiveBuyPrice(price) + Commission
<1> DEFINE q == PctOf(price, BuyPct)
<1>1. price \in Nat /\ q \in Nat
  BY Constants, PctNat
<1>2. ASSUME NEW x \in Nat PROVE n * price + (Commission + n * x) = n * (price + x) + Commission
  BY <1>1, Constants
<1> HIDE DEF q
<1>3. n * price + (Commission + n * q) = n * (price + q) + Commission
  BY <1>1, <1>2
<1>4. QED
  BY <1>3 DEF BuyCost, EffectiveBuyPrice, q

LEMMA BuysLongCovered ==
  ASSUME AccountInv, NEW s \in Symbols, BuysLong(s)
  PROVE  cash' >= -Commission
<1>1. PICK price \in Prices, n \in Nat, sl \in 0..Scale, tp \in 0..Scale :
        n * EffectiveBuyPrice(price) <= cash /\ OpenLong(s, price, n, sl, tp)
  BY DEF BuysLong
<1>2. cash' = cash - (n * EffectiveBuyPrice(price) + Commission)
  BY <1>1, LongCost DEF OpenLong
<1>3. n * EffectiveBuyPrice(price) \in Nat /\ cash \in Int /\ Commission \in Nat
  BY EffectivePrices, TimesType, Constants DEF AccountInv
<1>4. QED
  BY <1>1, <1>2, <1>3

(* A position turns long only when it is bought.                           *)
LEMMA TurnsLong ==
  ASSUME AccountInv, NEW s \in Symbols, NEW t \in Symbols, Trades(t),
         Side(s) = "flat", pos'[s].side = "long"
  PROVE  s = t /\ BuysLong(s)
<1>1. s = t
  BY TradesFrame DEF Side
<1>2. pos[s] \in Position /\ Good(pos[s])
  BY DEF AccountInv
<1>3. ~SellsShort(s)
  BY <1>2 DEF SellsShort, OpenShort, Opened, AccountInv
<1>4. ~SellsLong(s) /\ ~BuysBack(s)
  BY DEF SellsLong, BuysBack, Side
<1>5. ~MovesPeak(s)
  <2>1. ASSUME NEW peak, pos' = [pos EXCEPT ![s] = WithPeak(pos[s], peak)]
        PROVE  pos'[s].side = pos[s].side
    BY <2>1, <1>2 DEF WithPeak, AccountInv
  <2>2. QED
    BY <2>1 DEF MovesPeak, Side
<1>6. QED
  BY <1>1, <1>3, <1>4, <1>5 DEF Trades

LEMMA NextTrades ==
  ASSUME Inv, [Next]_btVars
  PROVE  (\E s \in Symbols : Trades(s)) \/ UNCHANGED account
<1>1. CASE NextBar \/ FillNothing \/ ReadNews \/ Value \/ Finish \/ UNCHANGED btVars
  BY <1>1 DEF NextBar, FillNothing, ReadNews, Value, Finish, btVars
<1>2. QED
  BY <1>1, StepTrades DEF Next

LEMMA BuyIsCoveredStep ==
  ASSUME Inv, [Next]_btVars, NEW s \in Symbols, Side(s) = "flat", pos'[s].side = "long"
  PROVE  cash' >= -Commission
<1>1. ~UNCHANGED account
  BY DEF account, Side
<1>2. QED
  BY <1>1, NextTrades, TurnsLong, BuysLongCovered DEF Inv

(* Shares are bought with cash the run has, but for the flat commission:   *)
(* the sizing by the effective price covers the percentages for every      *)
(* price and size (engine.py _open_long, trading_logic.py should_buy).     *)
THEOREM PurchasesAreCovered == Spec => BuyIsCovered
<1>1. Inv /\ [Next]_btVars =>
        [(\E s \in Symbols : Side(s) = "flat" /\ pos'[s].side = "long")
           => cash' >= -Commission]_btVars
  BY BuyIsCoveredStep
<1>2. QED
  BY <1>1, Inductive, PTL DEF Spec, BuyIsCovered

-----------------------------------------------------------------------------
(* Every run is a run of a cash account.                                   *)

Stock == [s \in Symbols |-> IF conf.short THEN 0 ELSE pos[s].shares]

LEMMA StockIs ==
  ASSUME ~conf.short
  PROVE  Stock = [s \in Symbols |-> pos[s].shares]
BY DEF Stock

LEMMA ConfStays == ASSUME [Next]_btVars, Inv PROVE conf' = conf
<1>1. CASE NextBar \/ FillNothing \/ ReadNews \/ Value \/ Finish \/ UNCHANGED btVars
  BY <1>1 DEF NextBar, FillNothing, ToExits, ReadNews, Value, Finish, btVars, market
<1>2. QED
  BY <1>1, StepTrades DEF Next, market

LEMMA BuyRefines ==
  ASSUME Inv, ~conf.short, conf' = conf, NEW s \in Symbols, BuysLong(s)
  PROVE  Simulated!Next
<1>1. PICK price \in Prices, n \in Nat, sl \in 0..Scale, tp \in 0..Scale :
        /\ n > 0 /\ n * EffectiveBuyPrice(price) <= cash
        /\ OpenLong(s, price, n, sl, tp)
  BY DEF BuysLong
<1>2. /\ Stock = [t \in Symbols |-> pos[t].shares]
      /\ Stock' = [t \in Symbols |-> pos'[t].shares]
  BY StockIs DEF Stock
<1>3. /\ pos[s].shares = 0 /\ pos'[s].shares = n
      /\ \A t \in Symbols \ {s} : pos'[t] = pos[t]
  <2>1. pos[s].shares = 0
    BY PositionTypes DEF BuysLong, Side, Inv
  <2>2. QED
    BY <1>1, <2>1 DEF OpenLong, Opened, Inv, AccountInv
<1>4. /\ Stock[s] = 0 /\ Stock'[s] = n /\ Stock'[s] - Stock[s] = n
      /\ \A t \in Symbols \ {s} : Stock'[t] = Stock[t]
  BY <1>2, <1>3
<1>5. n * price <= cash
  <2>1. EffectiveBuyPrice(price) \in Nat /\ price \in Nat /\ price <= EffectiveBuyPrice(price)
    BY EffectivePrices, Constants
  <2>2. n * price <= n * EffectiveBuyPrice(price)
    BY <2>1, TimesMono
  <2>3. n * price \in Nat /\ n * EffectiveBuyPrice(price) \in Nat /\ cash \in Int
    BY <2>1, TimesType DEF Inv, AccountInv
  <2>4. QED
    BY <1>1, <2>2, <2>3
<1>6. price \in Quotes
  BY QuoteTypes
<1>7. cash' = cash - (n * price + BuyCost(price, n))
  BY <1>1 DEF OpenLong
<1>8. Simulated!Added(s) = n
  BY <1>4 DEF Simulated!Added, Stock
<1>9. Simulated!Buy(s, price)
  <2>1. \A t \in Symbols \ {s} : Stock'[t] = Stock[t]
    BY <1>4
  <2>2. QED
    BY <1>1, <1>5, <1>7, <1>8, <2>1 DEF Simulated!Buy, Stock 
<1>10. Stock'[s] # Stock[s]
  BY <1>1, <1>4
<1>11. QED
  BY <1>6, <1>9, <1>10 DEF Simulated!Next, Simulated!Trade, Stock

LEMMA SellRefines ==
  ASSUME Inv, ~conf.short, conf' = conf, NEW s \in Symbols, SellsLong(s)
  PROVE  Simulated!Next
<1>1. PICK price \in Quotes : \E fee \in {0, SellCost(price, pos[s].shares)} :
        CloseLong(s, price, fee)
  BY DEF SellsLong
<1>2. /\ Stock = [t \in Symbols |-> pos[t].shares]
      /\ Stock' = [t \in Symbols |-> pos'[t].shares]
  BY StockIs DEF Stock
<1>3. pos[s].shares > 0 /\ pos[s].shares \in Nat
  BY PositionTypes DEF SellsLong, Side, Inv
<1>4. /\ \E fee \in {0, SellCost(price, pos[s].shares)} :
            cash' = cash + (pos[s].shares * price - fee)
      /\ pos' = [pos EXCEPT ![s] = NoPosition]
  BY <1>1 DEF CloseLong
<1>5. Stock' = [Stock EXCEPT ![s] = 0]
  BY <1>2, <1>4, NoPositionGood DEF Inv, AccountInv
<1>6. Stock[s] = pos[s].shares /\ Stock'[s] = 0
  BY <1>2, <1>5
<1>7. Simulated!Sell(s, price)
  BY <1>3, <1>4, <1>5, <1>6 DEF Simulated!Sell, Stock
<1>8. Stock'[s] # Stock[s]
  BY <1>3, <1>6
<1>9. QED
  BY <1>7, <1>8 DEF Simulated!Next, Simulated!Trade, Stock

LEMMA StepRefines ==
  ASSUME Inv, [Next]_btVars
  PROVE  [Simulated!Next]_(Simulated!accountVars)
<1>1. conf' = conf
  BY ConfStays
<1>2. CASE conf.short
  BY <1>1, <1>2 DEF Simulated!accountVars
<1>3. CASE UNCHANGED account
  BY <1>1, <1>3 DEF Simulated!accountVars, account
<1>4. ASSUME ~conf.short, NEW s \in Symbols, Trades(s)
      PROVE  Simulated!Next \/ UNCHANGED Simulated!accountVars
  <2>1. ~SellsShort(s) /\ ~BuysBack(s)
    BY <1>4 DEF SellsShort, BuysBack, Inv, HeldInv
  <2>2. CASE MovesPeak(s)
    <3>1. PICK peak \in Nat : pos' = [pos EXCEPT ![s] = WithPeak(pos[s], peak)]
      BY <2>2 DEF MovesPeak
    <3>2. \A t \in Symbols : pos'[t].shares = pos[t].shares
      BY <3>1 DEF WithPeak, Inv, AccountInv
    <3>3. QED
      BY <1>1, <2>2, <3>2 DEF MovesPeak, Simulated!accountVars
  <2>3. QED
    BY <1>1, <1>4, <2>1, <2>2, BuyRefines, SellRefines DEF Trades
<1>5. QED
  BY <1>2, <1>3, <1>4, NextTrades

LEMMA InitRefines == Init => Simulated!Init
BY DEF Init, Simulated!Init, NoPosition

(* A run that never sells short behaves as a cash account: it buys with    *)
(* cash it has at a price of the bar and sells whole positions, and its    *)
(* cash moves by nothing else (all three engines, every trade of them).    *)
THEOREM EnginesAreCashAccounts == Spec => ImplementsAccount
<1>1. Inv /\ [Next]_btVars => [Simulated!Next]_(Simulated!accountVars)
  BY StepRefines
<1>2. QED
  BY <1>1, InitRefines, Inductive, PTL DEF Spec, ImplementsAccount, Simulated!Spec


-----------------------------------------------------------------------------
(* The books balance.  A trade moves one position, so it moves one summand *)
(* of the sum over the open positions; and it opens one at most, so the    *)
(* open positions are finite whatever Symbols is.                          *)

EntryOf(p) == (IF p.side = "short" THEN 1 ELSE -1) * (p.shares * p.entry)

OpenIn(ps) == {s \in Symbols : ps[s].side # "flat"}

EntriesOf(ps) == [s \in Symbols |-> EntryOf(ps[s])]

BooksInv == IsFiniteSet(Held) /\ BooksBalance

LEMMA EntryTypes ==
  ASSUME NEW p, Good(p)
  PROVE  /\ p.shares * p.entry \in Nat
         /\ EntryOf(p) \in Int
         /\ p.side = "flat" => EntryOf(p) = 0
         /\ p.side = "long" => EntryOf(p) = -(p.shares * p.entry)
         /\ p.side = "short" => EntryOf(p) = p.shares * p.entry
<1>1. p.shares \in Nat /\ p.entry \in Nat /\ (p.side = "flat" => p.shares = 0)
  BY DEF Good, Position
<1>2. p.shares * p.entry \in Nat /\ (p.shares = 0 => p.shares * p.entry = 0)
  BY <1>1, TimesType
<1> DEFINE e == p.shares * p.entry
<1> HIDE DEF e
<1>3. EntryOf(p) = (IF p.side = "short" THEN 1 ELSE -1) * e
  BY DEF EntryOf, e
<1>4. e \in Nat /\ (p.side = "flat" => e = 0)
  BY <1>1, <1>2 DEF e
<1>5. CASE p.side = "short"
  BY <1>3, <1>4, <1>5 DEF e
<1>6. CASE p.side # "short"
  <2>1. EntryOf(p) = -e
    BY <1>3, <1>4, <1>6
  <2>2. QED
    BY <1>4, <1>6, <2>1 DEF e
<1>7. QED
  BY <1>5, <1>6

(* The summand of any symbol may be taken out: that of a flat one is 0.    *)
LEMMA EntryTakenOut ==
  ASSUME NEW ps, \A t \in Symbols : Good(ps[t]), IsFiniteSet(OpenIn(ps)), NEW s \in Symbols
  PROVE  /\ SumFunctionOnSet(EntriesOf(ps), OpenIn(ps))
              = EntryOf(ps[s]) + SumFunctionOnSet(EntriesOf(ps), OpenIn(ps) \ {s})
         /\ SumFunctionOnSet(EntriesOf(ps), OpenIn(ps) \ {s}) \in Int
<1> DEFINE f == EntriesOf(ps)
<1>1. OpenIn(ps) \subseteq Symbols /\ \A t \in Symbols : f[t] = EntryOf(ps[t]) /\ f[t] \in Int
  BY EntryTypes DEF OpenIn, EntriesOf
<1>2. IsFiniteSet(OpenIn(ps) \ {s})
  BY FS_Subset
<1> HIDE DEF f
<1>3. SumFunctionOnSet(f, OpenIn(ps) \ {s}) \in Int
  BY <1>1, <1>2, SumIsInt
<1>4. CASE s \in OpenIn(ps)
  <2>1. SumFunctionOnSet(f, OpenIn(ps)) = f[s] + SumFunctionOnSet(f, OpenIn(ps) \ {s})
    BY <1>1, <1>4, SumRemove
  <2>2. QED
    BY <1>1, <1>3, <2>1 DEF f
<1>5. CASE s \notin OpenIn(ps)
  <2>1. OpenIn(ps) \ {s} = OpenIn(ps) /\ EntryOf(ps[s]) = 0
    BY <1>5, EntryTypes DEF OpenIn
  <2> DEFINE total == SumFunctionOnSet(f, OpenIn(ps))
  <2>2. SumFunctionOnSet(f, OpenIn(ps) \ {s}) = total /\ total \in Int
    BY <1>3, <2>1
  <2> HIDE DEF total
  <2>3. total = EntryOf(ps[s]) + total
    BY <2>1, <2>2
  <2>4. QED
    BY <2>2, <2>3 DEF f, total
<1>6. QED
  BY <1>4, <1>5

LEMMA EntryMoves ==
  ASSUME NEW old, NEW new, NEW s \in Symbols,
         \A t \in Symbols : Good(old[t]) /\ Good(new[t]),
         \A t \in Symbols \ {s} : new[t] = old[t],
         IsFiniteSet(OpenIn(old))
  PROVE  /\ IsFiniteSet(OpenIn(new))
         /\ SumFunctionOnSet(EntriesOf(old), OpenIn(old)) \in Int
         /\ SumFunctionOnSet(EntriesOf(new), OpenIn(new))
              = SumFunctionOnSet(EntriesOf(old), OpenIn(old)) - EntryOf(old[s]) + EntryOf(new[s])
<1> DEFINE Rest == OpenIn(old) \ {s}
<1>1. OpenIn(new) \ {s} = Rest /\ OpenIn(new) \subseteq Rest \cup {s}
  BY DEF OpenIn
<1>2. IsFiniteSet(Rest) /\ IsFiniteSet(OpenIn(new))
  BY <1>1, FS_Subset, FS_AddElement
<1>3. SumFunctionOnSet(EntriesOf(new), Rest) = SumFunctionOnSet(EntriesOf(old), Rest)
  <2>1. \A t \in Rest : EntriesOf(new)[t] \in Int /\ EntriesOf(new)[t] = EntriesOf(old)[t]
    BY EntryTypes DEF EntriesOf, OpenIn
  <2>2. QED
    BY <1>2, <2>1, SumSame
<1>4. EntryOf(old[s]) \in Int /\ EntryOf(new[s]) \in Int
  BY EntryTypes
<1>5. /\ SumFunctionOnSet(EntriesOf(old), OpenIn(old))
           = EntryOf(old[s]) + SumFunctionOnSet(EntriesOf(old), Rest)
      /\ SumFunctionOnSet(EntriesOf(old), Rest) \in Int
  BY EntryTakenOut
<1>6. SumFunctionOnSet(EntriesOf(new), OpenIn(new))
        = EntryOf(new[s]) + SumFunctionOnSet(EntriesOf(new), Rest)
  <2>1. \A t \in Symbols : Good(new[t])
    OBVIOUS
  <2>2. SumFunctionOnSet(EntriesOf(new), OpenIn(new))
          = EntryOf(new[s]) + SumFunctionOnSet(EntriesOf(new), OpenIn(new) \ {s})
    BY <1>2, <2>1, EntryTakenOut
  <2>3. QED
    BY <1>1, <2>2
<1> HIDE DEF Rest
<1>7. QED
  BY <1>2, <1>3, <1>4, <1>5, <1>6

LEMMA BooksAre == /\ Held = OpenIn(pos) /\ EntryValues = EntriesOf(pos)
                  /\ Held' = OpenIn(pos') /\ EntryValues' = EntriesOf(pos')
BY DEF Held, OpenIn, Side, EntryValues, EntriesOf, EntryOf

LEMMA BooksInit == Init => BooksInv
<1> SUFFICES ASSUME Init PROVE BooksInv
  OBVIOUS
<1>1. Held = {}
  BY DEF Init, Held, Side, NoPosition
<1>2. IsFiniteSet(Held) /\ SumFunctionOnSet(EntryValues, Held) = 0
  BY <1>1, FS_EmptySet, SumEmpty
<1>3. QED
  BY <1>2, Constants DEF Init, BooksInv, BooksBalance

LEMMA TimesSplit == ASSUME NEW a \in Int, NEW b \in Int, NEW n \in Int
                    PROVE  (a - b) * n = n * a - n * b /\ (a - b) * n + n * b = n * a
OBVIOUS

(* What a trade takes from the cash or adds to it is what it changes in the*)
(* entry value of its symbol, in realised, openFees and credited.          *)
LEMMA TradeBalances ==
  ASSUME AccountInv, AccountInv', NEW s \in Symbols, Trades(s)
  PROVE  cash' - cash = (realised' - realised) - (openFees' - openFees)
                          + (credited' - credited) + (EntryOf(pos'[s]) - EntryOf(pos[s]))
<1>0. /\ Good(pos[s]) /\ Good(pos'[s]) /\ pos \in [Symbols -> Position]
      /\ {cash, realised, openFees, credited} \subseteq Int
  BY DEF AccountInv
<1>1. CASE BuysLong(s)
  <2>1. PICK price \in Prices, n \in Nat, sl \in 0..Scale, tp \in 0..Scale :
          OpenLong(s, price, n, sl, tp)
    BY <1>1 DEF BuysLong
  <2>2. pos'[s] = Opened("long", n, price, sl, tp) /\ EntryOf(pos[s]) = 0
    BY <1>0, <1>1, <2>1, EntryTypes DEF OpenLong, BuysLong, Side
  <2>3. EntryOf(pos'[s]) = -(n * price) /\ n * price \in Nat
    BY <1>0, <2>2, EntryTypes DEF Opened
  <2>4. BuyCost(price, n) \in Nat
    BY FeeTypes, Constants
  <2>5. QED
    BY <1>0, <2>1, <2>2, <2>3, <2>4 DEF OpenLong
<1>2. CASE SellsShort(s)
  <2>1. PICK price \in Prices, n \in Nat, sl \in 0..Scale, tp \in 0..Scale :
          OpenShort(s, price, n, sl, tp)
    BY <1>2 DEF SellsShort
  <2>2. pos'[s] = Opened("short", n, price, sl, tp) /\ EntryOf(pos[s]) = 0
    BY <1>0, <1>2, <2>1, EntryTypes DEF OpenShort, SellsShort, Side
  <2>3. EntryOf(pos'[s]) = n * price /\ n * price \in Nat
    BY <1>0, <2>2, EntryTypes DEF Opened
  <2>4. SellCost(price, n) \in Nat
    BY FeeTypes, Constants
  <2>5. QED
    BY <1>0, <2>1, <2>2, <2>3, <2>4 DEF OpenShort
<1>3. CASE SellsLong(s)
  <2>1. PICK price \in Quotes : \E fee \in {0, SellCost(price, pos[s].shares)} :
          CloseLong(s, price, fee)
    BY <1>3 DEF SellsLong
  <2>2. PICK fee \in {0, SellCost(price, pos[s].shares)} : CloseLong(s, price, fee)
    BY <2>1
  <2>3. price \in Nat /\ pos[s].shares \in Nat /\ pos[s].entry \in Nat
    BY QuoteTypes, PositionTypes
  <2>4. fee \in Int
    BY <2>3, FeeTypes
  <2>5. EntryOf(pos'[s]) = 0 /\ EntryOf(pos[s]) = -(pos[s].shares * pos[s].entry)
    BY <1>0, <1>3, <2>2, NoPositionGood, EntryTypes DEF CloseLong, SellsLong, Side
  <2> DEFINE e == pos[s].shares * pos[s].entry
             v == pos[s].shares * price
             g == (price - pos[s].entry) * pos[s].shares
  <2>6. e \in Int /\ v \in Int /\ g \in Int /\ g = v - e
    <3>1. price \in Int /\ pos[s].shares \in Int /\ pos[s].entry \in Int
      BY <2>3
    <3>2. g = v - e
      BY ONLY <3>1, TimesSplit
    <3>3. e \in Int /\ v \in Int
      BY <3>1, TimesInt
    <3> HIDE DEF e, v, g
    <3>4. QED
      BY <3>2, <3>3
  <2>7. /\ cash' = cash + (v - fee) /\ realised' = realised + (g - fee)
        /\ UNCHANGED <<openFees, credited>>
    BY <2>2 DEF CloseLong
  <2>8. EntryOf(pos[s]) = -e
    BY <2>5
  <2> HIDE DEF e, v, g
  <2>9. QED
    BY <1>0, <2>4, <2>5, <2>6, <2>7, <2>8
<1>4. CASE BuysBack(s)
  <2>1. PICK price \in Nat : CloseShort(s, price)
    BY <1>4 DEF BuysBack
  <2>2. pos[s].shares \in Nat /\ pos[s].entry \in Nat
    BY PositionTypes
  <2>3. EntryOf(pos'[s]) = 0 /\ EntryOf(pos[s]) = pos[s].shares * pos[s].entry
    BY <1>0, <1>4, <2>1, NoPositionGood, EntryTypes DEF CloseShort, BuysBack, Side
  <2> DEFINE e == pos[s].entry * pos[s].shares
             pnl == (pos[s].entry - price) * pos[s].shares - BuyCost(price, pos[s].shares)
  <2>4. e \in Int /\ pnl \in Int
    <3>1. BuyCost(price, pos[s].shares) \in Nat
      BY <2>2, FeeTypes
    <3>2. pos[s].entry - price \in Int /\ pos[s].shares \in Int
      BY <2>2
    <3>3. (pos[s].entry - price) * pos[s].shares \in Int
      BY ONLY <3>2, TimesInt
    <3>4. QED
      BY <2>2, <3>1, <3>3, TimesInt
  <2>5. /\ cash' = cash + (pnl + e) /\ realised' = realised + pnl /\ credited' = credited + 2 * e
        /\ UNCHANGED openFees
    BY <2>1 DEF CloseShort
  <2>6. EntryOf(pos[s]) = e
    BY <2>2, <2>3
  <2> HIDE DEF e, pnl
  <2>7. QED
    BY <1>0, <2>3, <2>4, <2>5, <2>6
<1>5. CASE MovesPeak(s)
  <2>1. PICK peak \in Nat : pos' = [pos EXCEPT ![s] = WithPeak(pos[s], peak)]
    BY <1>5 DEF MovesPeak
  <2>2. EntryOf(pos'[s]) = EntryOf(pos[s]) /\ EntryOf(pos[s]) \in Int
    BY <1>0, <2>1, EntryTypes DEF WithPeak, EntryOf
  <2>3. QED
    BY <1>0, <1>5, <2>2 DEF MovesPeak
<1>6. QED
  BY <1>1, <1>2, <1>3, <1>4, <1>5 DEF Trades

LEMMA BooksStep == ASSUME Inv, Inv', BooksInv, [Next]_btVars PROVE BooksInv'
<1>1. CASE UNCHANGED account
  BY <1>1 DEF account, BooksInv, BooksBalance, Held, Side, EntryValues
<1>2. ASSUME NEW s \in Symbols, Trades(s) PROVE BooksInv'
  <2> DEFINE before == SumFunctionOnSet(EntriesOf(pos), OpenIn(pos))
             after == SumFunctionOnSet(EntriesOf(pos'), OpenIn(pos'))
  <2>1. /\ \A t \in Symbols : Good(pos[t]) /\ Good(pos'[t])
        /\ \A t \in Symbols \ {s} : pos'[t] = pos[t]
    BY <1>2, TradesFrame DEF Inv, AccountInv
  <2>2. IsFiniteSet(OpenIn(pos)) /\ cash = Capital + realised - openFees + credited + before
    BY BooksAre DEF BooksInv, BooksBalance
  <2>3. /\ IsFiniteSet(OpenIn(pos')) /\ before \in Int
        /\ after = before - EntryOf(pos[s]) + EntryOf(pos'[s])
    BY <2>1, <2>2, EntryMoves
  <2>4. EntryOf(pos[s]) \in Int /\ EntryOf(pos'[s]) \in Int
    BY <2>1, EntryTypes
  <2>5. {cash, realised, openFees, credited, cash', realised', openFees', credited'} \subseteq Int
    BY DEF Inv, AccountInv
  <2>6. cash' - cash = (realised' - realised) - (openFees' - openFees)
                         + (credited' - credited) + (EntryOf(pos'[s]) - EntryOf(pos[s]))
    BY <1>2, TradeBalances DEF Inv
  <2> HIDE DEF before, after
  <2>7. cash' = Capital + realised' - openFees' + credited' + after
    BY <2>2, <2>3, <2>4, <2>5, <2>6, Constants
  <2>8. QED
    BY <2>3, <2>7, BooksAre DEF BooksInv, BooksBalance, after
<1>3. QED
  BY <1>1, <1>2, NextTrades

LEMMA BooksInductive == Spec => []BooksInv
<1>1. Inv /\ Inv' /\ BooksInv /\ [Next]_btVars => BooksInv'
  BY BooksStep
<1>2. QED
  BY BooksInit, <1>1, Inductive, PTL DEF Spec

(* Cash is capital and what the trades earned, less the fees and the entry *)
(* value of what is open, for every number of symbols, trades and bars; a  *)
(* closed short leaves twice its entry value over (engine.py _close_short).*)
THEOREM BooksAreBalanced == Spec => []BooksBalance
<1>1. BooksInv => BooksBalance
  BY DEF BooksInv
<1>2. QED
  BY <1>1, BooksInductive, PTL

-----------------------------------------------------------------------------
(* The reported value.  What is still to be added to the equity is the     *)
(* value of the symbols not looked at yet; once the run closes, what the   *)
(* equity is above the cash is the value of what is still open, until the  *)
(* strategy engine's only position is sold for its value less a fee.       *)

Values == [s \in Symbols |-> ValueOf(s)]

EveryBar == \A s \in universe : ohlc[s] # NoBar

FeePaid ==
  /\ conf.engine = "strategy"
  /\ Held = {}
  /\ \E s \in universe, n \in Nat \ {0} : equity = cash + SellCost(lastClose[s], n)

ValueInv ==
  /\ \A s \in Symbols : ohlc[s] # NoBar => lastClose[s] = ohlc[s].close
  /\ pc = "value" =>
       /\ todo \in SUBSET Held
       /\ equity + SumFunctionOnSet(Values, todo) = cash + SumFunctionOnSet(Values, Held)
  /\ pc = "closing" =>
       /\ todo = Held
       /\ ~conf.short /\ EveryBar =>
            \/ equity = cash + SumFunctionOnSet(Values, Held)
            \/ FeePaid

LEMMA ValueInit == Init => ValueInv
BY DEF Init, ValueInv

LEMMA ValueTypes ==
  ASSUME Inv, IsFiniteSet(Held)
  PROVE  /\ Held \in SUBSET Symbols
         /\ \A s \in Symbols : Values[s] = ValueOf(s) /\ Values[s] \in Int
         /\ \A T \in SUBSET Held : IsFiniteSet(T) /\ SumFunctionOnSet(Values, T) \in Int
         /\ cash \in Int /\ equity \in Int
<1>1. \A s \in Symbols : Values[s] = ValueOf(s) /\ Values[s] \in Int
  BY ValueIsInt DEF Values
<1>2. Held \in SUBSET Symbols
  BY DEF Held
<1>3. ASSUME NEW T \in SUBSET Held PROVE IsFiniteSet(T) /\ SumFunctionOnSet(Values, T) \in Int
  <2>1. IsFiniteSet(T) /\ \A s \in T : Values[s] \in Int
    BY <1>1, <1>2, FS_Subset
  <2>2. QED
    BY <2>1, SumIsInt
<1>4. QED
  BY <1>1, <1>2, <1>3 DEF Inv, AccountInv, ControlInv

(* Most steps are of another phase of the bar.                             *)
LEMMA ValueElsewhere ==
  ASSUME ValueInv, UNCHANGED market, pc' \notin {"value", "closing"}
  PROVE  ValueInv'
BY DEF ValueInv, market

LEMMA NextBarValue == ASSUME Inv, NextBar PROVE ValueInv'
<1>1. pc' \notin {"value", "closing"}
  BY DEF NextBar
<1>2. \A s \in Symbols : ohlc'[s] # NoBar => lastClose'[s] = ohlc'[s].close
  BY DEF NextBar
<1>3. QED
  BY <1>1, <1>2 DEF ValueInv

LEMMA ValuesStay ==
  ASSUME UNCHANGED <<market, account>>
  PROVE  Values' = Values /\ Held' = Held /\ EveryBar' = EveryBar
BY DEF Values, ValueOf, Held, EveryBar, Side, market, account

LEMMA AddValueKeeps ==
  ASSUME Inv, IsFiniteSet(Held), ValueInv, NEW s \in Symbols, AddValue(s)
  PROVE  ValueInv'
<1> DEFINE rest == SumFunctionOnSet(Values, todo \ {s})
           all == SumFunctionOnSet(Values, Held)
<1>1. /\ Values' = Values /\ Held' = Held /\ cash' = cash /\ pc' = "value"
      /\ s \in todo /\ todo' = todo \ {s} /\ equity' = equity + ValueOf(s)
      /\ UNCHANGED market
  BY ValuesStay DEF AddValue, account
<1>2. todo \in SUBSET Held /\ equity + SumFunctionOnSet(Values, todo) = cash + all
  BY DEF ValueInv, AddValue
<1>3. /\ Values[s] = ValueOf(s) /\ Values[s] \in Int /\ rest \in Int /\ all \in Int
      /\ IsFiniteSet(todo) /\ cash \in Int /\ equity \in Int
      /\ \A t \in todo : Values[t] \in Int
  BY <1>2, ValueTypes
<1>4. SumFunctionOnSet(Values, todo) = Values[s] + rest
  BY <1>1, <1>3, SumRemove
<1> HIDE DEF rest, all
<1>5. equity' + rest = cash + all
  BY <1>1, <1>2, <1>3, <1>4
<1>6. QED
  BY <1>1, <1>2, <1>5 DEF ValueInv, market, rest, all

LEMMA StartValue ==
  ASSUME Inv, IsFiniteSet(Held), ValueInv, Value
  PROVE  ValueInv'
<1>1. /\ Values' = Values /\ Held' = Held /\ cash' = cash /\ pc' = "value"
      /\ equity' = cash /\ todo' = Held /\ UNCHANGED market
  BY ValuesStay DEF Value, account
<1>2. QED
  BY <1>1 DEF ValueInv, market

LEMMA FinishValue ==
  ASSUME Inv, IsFiniteSet(Held), ValueInv, Finish
  PROVE  ValueInv'
<1>1. /\ Values' = Values /\ Held' = Held /\ cash' = cash /\ pc' = "closing" /\ pc = "value"
      /\ equity' = equity /\ todo' = Held /\ todo = {} /\ UNCHANGED market
  BY ValuesStay DEF Finish, account
<1>2. equity = cash + SumFunctionOnSet(Values, Held)
  <2>1. SumFunctionOnSet(Values, todo) = 0 /\ equity \in Int
    BY <1>1, SumEmpty, ValueTypes
  <2>2. QED
    BY <1>1, <2>1 DEF ValueInv
<1>3. QED
  BY <1>1, <1>2 DEF ValueInv, market

(* A forced close empties the position.                                    *)
LEMMA CloseOutEmpties ==
  ASSUME Inv, ValueInv, NEW s \in Symbols, CloseOut(s)
  PROVE  /\ Held' = Held \ {s} /\ todo' = Held'
         /\ \A t \in Symbols \ {s} : pos'[t] = pos[t]
         /\ s \in Held
<1>1. pos' = [pos EXCEPT ![s] = NoPosition]
  BY DEF CloseOut, CloseAt, CloseLong, CloseShort
<1>2. pos'[s] = NoPosition /\ \A t \in Symbols \ {s} : pos'[t] = pos[t]
  BY <1>1 DEF Inv, AccountInv
<1>3. Held' = Held \ {s}
  BY <1>2, NoPositionGood DEF Held, Side
<1>4. QED
  BY <1>2, <1>3 DEF CloseOut, ValueInv

LEMMA CloseOutLong ==
  ASSUME Inv, NEW s \in Symbols, CloseOut(s), Side(s) # "flat", ~conf.short
  PROVE  /\ \/ conf.engine = "strategy"
                 /\ CloseLong(s, lastClose[s], SellCost(lastClose[s], pos[s].shares))
            \/ conf.engine # "strategy" /\ CloseLong(s, lastClose[s], 0)
         /\ Side(s) = "long" /\ s \in universe
<1>1. Side(s) = "long" /\ s \in universe
  BY PositionTypes DEF Inv, HeldInv, Side
<1>2. QED
  BY <1>1 DEF CloseOut, CloseAt

LEMMA CloseOutValue ==
  ASSUME Inv, IsFiniteSet(Held), ValueInv, NEW s \in Symbols, CloseOut(s)
  PROVE  ValueInv'
<1>1. /\ UNCHANGED <<market, equity, pc>> /\ pc = "closing"
      /\ UNCHANGED <<conf, universe, ohlc, lastClose>>
  BY DEF CloseOut, market
<1>2. /\ Held' = Held \ {s} /\ todo' = Held' /\ s \in Held
      /\ \A t \in Symbols \ {s} : pos'[t] = pos[t]
  BY CloseOutEmpties
<1>3. ASSUME ~conf.short, EveryBar
      PROVE  \/ equity = cash' + SumFunctionOnSet(Values', Held')
             \/ FeePaid'
  <2> DEFINE v == pos[s].shares * lastClose[s]
             rest == SumFunctionOnSet(Values, Held \ {s})
  <2>1. /\ \/ conf.engine = "strategy"
                /\ CloseLong(s, lastClose[s], SellCost(lastClose[s], pos[s].shares))
           \/ conf.engine # "strategy" /\ CloseLong(s, lastClose[s], 0)
        /\ Side(s) = "long" /\ s \in universe
    BY <1>2, <1>3, CloseOutLong DEF Held
  <2>2. Values[s] = v /\ v \in Int
    <3>1. Values[s] = ValueOf(s) /\ Values[s] \in Int
      BY ValueTypes
    <3>2. ohlc[s] # NoBar /\ lastClose[s] = ohlc[s].close
      BY <1>3, <2>1 DEF EveryBar, ValueInv
    <3>3. QED
      BY <2>1, <3>1, <3>2 DEF ValueOf
  <2>3. equity = cash + (v + rest) /\ rest \in Int /\ cash \in Int
    <3>1. equity = cash + SumFunctionOnSet(Values, Held)
      BY <1>1, <1>2, <1>3 DEF ValueInv, FeePaid
    <3>2. SumFunctionOnSet(Values, Held) = Values[s] + rest
      BY <1>2, ValueTypes, SumRemove
    <3>3. rest \in Int /\ cash \in Int
      BY ValueTypes
    <3>4. QED
      BY <2>2, <3>1, <3>2, <3>3
  <2>4. SumFunctionOnSet(Values', Held') = rest
    <3>1. \A t \in Held \ {s} : Values[t] \in Int /\ Values[t] = Values'[t]
      BY <1>1, <1>2, ValueTypes DEF Values, ValueOf, Side
    <3>2. IsFiniteSet(Held \ {s})
      BY ValueTypes
    <3>3. QED
      BY <1>2, <3>1, <3>2, SumSame
  <2>5. CASE conf.engine # "strategy"
    <3>1. cash' = cash + (v - 0)
      BY <2>1, <2>5 DEF CloseLong
    <3> HIDE DEF v, rest
    <3>2. equity = cash' + rest
      BY <2>2, <2>3, <3>1
    <3>3. QED
      BY <2>4, <3>2
  <2>6. CASE conf.engine = "strategy"
    <3> DEFINE fee == SellCost(lastClose[s], pos[s].shares)
    <3>1. cash' = cash + (v - fee)
      BY <2>1, <2>6 DEF CloseLong
    <3>2. pos[s].shares \in Nat \ {0} /\ fee \in Int
      <4>1. pos[s].shares \in Nat \ {0} /\ lastClose[s] \in Nat
        BY <2>1, PositionTypes, Constants DEF Inv, HeldInv, Side
      <4>2. QED
        BY <4>1, FeeTypes
    <3>3. Held' = {}
      <4>1. Held \subseteq universe /\ \E x \in Symbols : universe = {x}
        BY <2>6 DEF Inv, HeldInv, MarketInv, Held
      <4>2. QED
        BY <1>2, <4>1
    <3>4. rest = 0
      BY <1>2, <3>3, SumEmpty
    <3> HIDE DEF v, rest, fee
    <3>5. equity = cash' + fee
      BY <2>2, <2>3, <3>1, <3>2, <3>4
    <3>6. equity' = cash' + SellCost(lastClose'[s], pos[s].shares)
      BY <1>1, <3>5 DEF fee
    <3>7. QED
      BY <1>1, <2>1, <2>6, <3>2, <3>3, <3>6 DEF FeePaid
  <2>7. QED
    BY <2>5, <2>6
<1>4. EveryBar' = EveryBar /\ conf' = conf /\ equity' = equity
  BY <1>1 DEF EveryBar
<1>5. QED
  BY <1>1, <1>2, <1>3, <1>4 DEF ValueInv

LEMMA StepValue ==
  ASSUME Inv, IsFiniteSet(Held), ValueInv, NEW s \in Symbols, Step(s)
  PROVE  ValueInv'
<1>1. UNCHANGED market
  BY StepTrades
<1>2. CASE \/ FillClose(s) \/ FillOpen(s)
           \/ LeaveAtStop(s) \/ LeaveAtTarget(s) \/ LeaveExpired(s) \/ Keep(s)
           \/ TakeSignal(s) \/ BuyOnNews(s) \/ SellOnNews(s) \/ IgnoreNews(s)
  <2>1. pc' \in {"fill", "exits", "signalled", "news"}
    BY <1>2 DEF FillClose, FillOpen, ToExits, LeaveAtStop, LeaveAtTarget, LeaveExpired, Keep,
                Checked, TakeSignal, BuyOnNews, SellOnNews, IgnoreNews, ReadFor, control
  <2>2. QED
    BY <1>1, <2>1, ValueElsewhere
<1>3. QED
  BY <1>2, AddValueKeeps, CloseOutValue DEF Step

LEMMA ValueStep ==
  ASSUME Inv, BooksInv, ValueInv, [Next]_btVars
  PROVE  ValueInv'
<1>1. IsFiniteSet(Held)
  BY DEF BooksInv
<1>2. CASE FillNothing \/ ReadNews
  <2>1. UNCHANGED market /\ pc' \notin {"value", "closing"}
    BY <1>2 DEF FillNothing, ToExits, ReadNews
  <2>2. QED
    BY <2>1, ValueElsewhere
<1>3. CASE UNCHANGED btVars
  <2>1. /\ Values' = Values /\ Held' = Held /\ EveryBar' = EveryBar
        /\ UNCHANGED <<conf, universe, ohlc, lastClose, pc, todo, equity, cash>>
    BY <1>3, ValuesStay DEF btVars, market, control, account
  <2>2. QED
    BY <2>1 DEF ValueInv, FeePaid
<1>4. QED
  BY <1>1, <1>2, <1>3, NextBarValue, StepValue, StartValue, FinishValue DEF Next

(* What the fee was paid for needs no more shares than the fee is worth.   *)
LEMMA FeeIsOfFew ==
  ASSUME NEW price \in Nat, NEW n \in Nat \ {0}
  PROVE  /\ SellCost(price, n) \in Nat
         /\ \E k \in 1..(SellCost(price, n) + 1) : SellCost(price, k) = SellCost(price, n)
<1> DEFINE q == PctOf(price, SellPct)
           fee == SellCost(price, n)
<1>1. q \in Nat /\ fee \in Nat
  BY Constants, PctNat, FeeTypes
<1>2. \A k \in Nat : SellCost(price, k) = Commission + k * q
  BY DEF SellCost
<1>3. CASE q = 0
  <2>1. SellCost(price, 1) = fee
    BY <1>2, <1>3, Constants
  <2>2. 1 \in 1..(fee + 1)
    BY <1>1
  <2>3. QED
    BY <1>1, <2>1, <2>2
<1>4. CASE q > 0
  <2> HIDE DEF q
  <2>1. n * q \in Nat /\ n <= n * q
    BY <1>1, <1>4, TimesType, CountBelowProduct
  <2>2. fee = Commission + n * q
    BY <1>2
  <2> HIDE DEF fee
  <2>3. n \in 1..(fee + 1)
    BY <1>1, <2>1, <2>2, Constants
  <2>4. QED
    BY <1>1, <2>3 DEF fee
<1>5. QED
  BY <1>1, <1>3, <1>4

LEMMA ValueIsReported == ASSUME Inv, ValueInv PROVE ReportedValue
<1> SUFFICES ASSUME pc = "closing", todo = {}, ~conf.short, EveryBar, equity # cash
             PROVE  /\ conf.engine = "strategy"
                    /\ \E s \in universe, n \in 1..(equity - cash + 1) :
                         equity = cash + SellCost(lastClose[s], n)
  BY DEF ReportedValue, EveryBar
<1>1. cash \in Int /\ equity \in Int
  BY DEF Inv, AccountInv, ControlInv
<1>2. FeePaid
  <2>1. SumFunctionOnSet(Values, Held) = 0
    BY SumEmpty DEF ValueInv
  <2>2. QED
    BY <1>1, <2>1 DEF ValueInv
<1>3. PICK s \in universe, n \in Nat \ {0} : equity = cash + SellCost(lastClose[s], n)
  BY <1>2 DEF FeePaid
<1>4. lastClose[s] \in Nat
  BY Constants DEF Inv, MarketInv
<1>5. /\ SellCost(lastClose[s], n) \in Nat
      /\ \E k \in 1..(SellCost(lastClose[s], n) + 1) :
           SellCost(lastClose[s], k) = SellCost(lastClose[s], n)
  BY <1>4, FeeIsOfFew
<1>6. SellCost(lastClose[s], n) = equity - cash
  BY <1>1, <1>3, <1>5
<1>7. \E k \in 1..(equity - cash + 1) : equity = cash + SellCost(lastClose[s], k)
  BY <1>3, <1>5, <1>6
<1>8. QED
  BY <1>2, <1>7 DEF FeePaid

(* The value a run reports is the cash it ends with, and in run_backtest   *)
(* the fee of the forced close on top, for every history in which all      *)
(* symbols have a last bar and every engine that sells nothing short       *)
(* (final_value in engine.py, portfolio_backtest.py, sentiment_backtest.py)*)
THEOREM ValueReported == Spec => []ReportedValue
<1>1. Inv /\ BooksInv /\ ValueInv /\ [Next]_btVars => ValueInv'
  BY ValueStep
<1>2. Inv /\ ValueInv => ReportedValue
  BY ValueIsReported
<1>3. QED
  BY ValueInit, <1>1, <1>2, Inductive, BooksInductive, PTL DEF Spec

-----------------------------------------------------------------------------
(* What the trader can buy.                                                *)

LEMMA ReplayConstants ==
  /\ \A p \in TickerPrices : p \in Nat /\ p > 0
  /\ ReplayCapital \in Nat /\ NEvents \in Nat /\ NEvents > 0
  /\ \A x \in Sizes : x \in Nat
  /\ \A p \in TickerPrices, n \in 0..ReplayCapital : PaperFee(p, n) \in Nat
BY ReplayAssumption

LEMMA QuotientNat == ASSUME NEW x \in Nat, NEW d \in Nat, d > 0 PROVE x \div d \in Nat
OBVIOUS

LEMMA AffordableCovered ==
  ASSUME paperCash \in Int, paperCash <= ReplayCapital,
         NEW size \in Sizes, NEW price \in TickerPrices,
         NEW n, n = Affordable(size, price), n > 0
  PROVE  /\ n \in 0..ReplayCapital
         /\ n * price \in Nat
         /\ n * price < paperCash
<1> DEFINE q == (paperCash * size) \div (100 * price)
<1>1. paperCash > 0 /\ n = q /\ n * price < paperCash
  BY DEF Affordable
<1>2. price \in Nat /\ price > 0 /\ size \in Nat /\ ReplayCapital \in Nat
  BY ReplayConstants
<1>3. q \in Nat
  <2>1. paperCash * size \in Nat /\ 100 * price \in Nat /\ 100 * price > 0
    BY <1>1, <1>2, TimesType
  <2>2. QED
    BY <2>1, QuotientNat
<1> HIDE DEF q
<1>4. n \in Nat /\ n * price \in Nat /\ n <= n * price
  BY <1>1, <1>2, <1>3, TimesType, CountBelowProduct
<1>5. QED
  BY <1>1, <1>2, <1>4

-----------------------------------------------------------------------------
(* The pipeline: types, and a cash that only shrinks.                      *)

ReplayInv == ReplayTypeOK /\ paperCash <= ReplayCapital

LEMMA ReplayInitInv == ReplayInit => ReplayInv
BY ReplayConstants DEF ReplayInit, ReplayInv, ReplayTypeOK, Fates, Events

(* One event moves on.                                                     *)
LEMMA StageMoves ==
  ASSUME ReplayTypeOK, NEW e \in Events,
         NEW where \in {"news", "scoring", "sentiment", "queued", "handling", "ended"},
         stage' = [stage EXCEPT ![e] = where]
  PROVE  stage' \in [Events -> {"waiting", "news", "scoring", "sentiment", "queued", "handling",
                                "ended"}]
BY DEF ReplayTypeOK

LEMMA EventEnds ==
  ASSUME ReplayTypeOK, NEW e \in Events, NEW how \in Fates, Ends(e, how)
  PROVE  /\ stage' \in [Events -> {"waiting", "news", "scoring", "sentiment", "queued",
                                   "handling", "ended"}]
         /\ fate' \in [Events -> Fates]
BY StageMoves DEF Ends, ReplayTypeOK

LEMMA DriverInv ==
  ASSUME ReplayInv,
         \/ Load \/ LoadScript \/ LoadFails \/ PublishNews \/ PublishScored \/ DriverFails
         \/ ScriptFails \/ EndLoop \/ Report \/ ReportAndExit
  PROVE  ReplayInv' /\ UNCHANGED paper
<1> USE DEF ReplayInv, ReplayTypeOK, driving, deliveries, paper
<1>1. CASE Load \/ LoadScript \/ LoadFails \/ DriverFails \/ EndLoop \/ Report
  BY <1>1 DEF Load, LoadScript, LoadFails, DriverFails, EndLoop, Report
<1>2. CASE PublishNews \/ PublishScored
  <2>1. nextEvent \in Events /\ nextEvent' \in 1..(NEvents + 1)
    BY <1>2, ReplayConstants DEF PublishNews, PublishScored, Events
  <2>2. stage' \in [Events -> {"waiting", "news", "scoring", "sentiment", "queued", "handling",
                               "ended"}]
    BY <1>2, <2>1, StageMoves DEF PublishNews, PublishScored
  <2>3. aim' \in [Events -> SUBSET Tickers]
    BY <1>2, <2>1 DEF PublishNews, PublishScored
  <2>4. QED
    BY <1>2, <2>1, <2>2, <2>3 DEF PublishNews, PublishScored
<1>3. CASE ScriptFails \/ ReportAndExit
  <2>1. fate' \in [Events -> Fates]
    BY <1>3 DEF ScriptFails, ReportAndExit, CutOff, Fates
  <2>2. trading' \in Seq(Events)
    BY <1>3, EmptySeq DEF ScriptFails, ReportAndExit, CutOff
  <2>3. QED
    BY <1>3, <2>1, <2>2 DEF ScriptFails, ReportAndExit, CutOff
<1>4. QED
  BY <1>1, <1>2, <1>3

LEMMA BuyTickerIs ==
  ASSUME ReplayInv, NEW e \in Events, NEW t \in Tickers, BuyTicker(e, t)
  PROVE  \E price \in TickerPrices, n \in Nat :
           /\ n > 0 /\ n * price \in Nat /\ n * price < paperCash
           /\ PaperFee(price, n) \in Nat
           /\ paperCash' = paperCash - (n * price + PaperFee(price, n))
           /\ holdings' = [holdings EXCEPT ![t] = holdings[t] + n]
<1>1. PICK price \in TickerPrices, size \in Sizes :
        LET n == Affordable(size, price)
        IN  /\ n > 0
            /\ paperCash' = paperCash - (n * price + PaperFee(price, n))
            /\ holdings' = [holdings EXCEPT ![t] = holdings[t] + n]
  BY DEF BuyTicker
<1> DEFINE n == Affordable(size, price)
<1>2. n \in 0..ReplayCapital /\ n * price \in Nat /\ n * price < paperCash
  BY <1>1, AffordableCovered DEF ReplayInv, ReplayTypeOK
<1>3. PaperFee(price, n) \in Nat /\ n \in Nat
  BY <1>2, ReplayConstants
<1>4. QED
  BY <1>1, <1>2, <1>3

LEMMA DeliverInv == ASSUME ReplayInv, NEW e \in Events, Deliver(e) PROVE ReplayInv'
<1> USE DEF ReplayInv, driving, deliveries, paper
<1>1. CASE SkipStale(e) \/ NotScored(e) \/ HandlingBreaks(e) \/ Handled(e)
  <2>1. \E how \in Fates : Ends(e, how)
    BY <1>1 DEF SkipStale, NotScored, HandlingBreaks, Handled, Fates
  <2>2. QED
    BY <1>1, <2>1, EventEnds DEF SkipStale, NotScored, HandlingBreaks, Handled, ReplayTypeOK
<1>2. CASE StartScoring(e)
  BY <1>2, StageMoves DEF StartScoring, ReplayTypeOK
<1>3. CASE Scored(e)
  <2>1. CASE Ends(e, "lost") /\ UNCHANGED aim
    BY <1>3, <2>1, EventEnds DEF Scored, ReplayTypeOK, Fates
  <2>2. CASE /\ stage' = [stage EXCEPT ![e] = "sentiment"]
             /\ \E ts \in SUBSET Tickers : aim' = [aim EXCEPT ![e] = ts]
             /\ UNCHANGED fate
    BY <1>3, <2>2, StageMoves DEF Scored, ReplayTypeOK
  <2>3. QED
    BY <1>3, <2>1, <2>2 DEF Scored
<1>4. CASE Enqueue(e)
  <2>1. trading' \in Seq(Events)
    BY <1>4, AppendProperties DEF Enqueue, ReplayTypeOK
  <2>2. QED
    BY <1>4, <2>1, StageMoves DEF Enqueue, ReplayTypeOK
<1>5. CASE Dequeue(e)
  <2>1. trading' \in Seq(Events)
    BY <1>5, HeadTailProperties DEF Dequeue, ReplayTypeOK
  <2>2. QED
    BY <1>5, <2>1, StageMoves DEF Dequeue, ReplayTypeOK
<1>6. ASSUME NEW t \in Tickers, BuyTicker(e, t) PROVE ReplayInv'
  <2>1. PICK price \in TickerPrices, n \in Nat :
          /\ n * price \in Nat /\ PaperFee(price, n) \in Nat
          /\ paperCash' = paperCash - (n * price + PaperFee(price, n))
          /\ holdings' = [holdings EXCEPT ![t] = holdings[t] + n]
    BY <1>6, BuyTickerIs
  <2>2. paperCash' \in Int /\ paperCash' <= ReplayCapital
    BY <2>1, ReplayConstants DEF ReplayTypeOK
  <2>3. holdings' \in [Tickers -> Nat]
    BY <2>1 DEF ReplayTypeOK
  <2>4. aim' \in [Events -> SUBSET Tickers] /\ recent' \in SUBSET Tickers
    BY <1>6 DEF BuyTicker, ReplayTypeOK
  <2>5. QED
    BY <1>6, <2>2, <2>3, <2>4 DEF BuyTicker, ReplayTypeOK
<1>7. ASSUME NEW t \in Tickers, PassTicker(e, t) PROVE ReplayInv'
  <2>1. aim' \in [Events -> SUBSET Tickers]
    BY <1>7 DEF PassTicker, ReplayTypeOK
  <2>2. QED
    BY <1>7, <2>1 DEF PassTicker, ReplayTypeOK
<1>8. QED
  BY <1>1, <1>2, <1>3, <1>4, <1>5, <1>6, <1>7 DEF Deliver

LEMMA ReplayNextInv == ASSUME ReplayInv, [ReplayNext]_replayVars PROVE ReplayInv'
<1>1. ASSUME NEW t \in Tickers, WindowPasses(t) PROVE ReplayInv'
  BY <1>1 DEF WindowPasses, ReplayInv, ReplayTypeOK, driving, deliveries
<1>2. CASE UNCHANGED replayVars
  BY <1>2 DEF ReplayInv, ReplayTypeOK, replayVars, driving, deliveries, paper
<1>3. QED
  BY <1>1, <1>2, DriverInv, DeliverInv DEF ReplayNext, EventLoop

LEMMA ReplayInductive == ReplaySpec => []ReplayInv
BY ReplayInitInv, ReplayNextInv, PTL DEF ReplaySpec

(* A replay never holds a fraction of a share, nor an event it was not fed *)
(* (event_bus.py, sentiment_trader.py, paper.py).                          *)
THEOREM ReplayTypesAreRight == ReplaySpec => []ReplayTypeOK
BY ReplayInductive, PTL DEF ReplayInv

-----------------------------------------------------------------------------
(* The paper account is a cash account.                                    *)

LEMMA BuyIsABuy ==
  ASSUME ReplayInv, NEW e \in Events, NEW t \in Tickers, BuyTicker(e, t)
  PROVE  Replayed!Next
<1>1. PICK price \in TickerPrices, n \in Nat :
        /\ n > 0 /\ n * price \in Nat /\ n * price < paperCash
        /\ paperCash' = paperCash - (n * price + PaperFee(price, n))
        /\ holdings' = [holdings EXCEPT ![t] = holdings[t] + n]
  BY BuyTickerIs
<1>2. /\ holdings[t] \in Nat /\ holdings'[t] = holdings[t] + n
      /\ \A u \in Tickers \ {t} : holdings'[u] = holdings[u]
  BY <1>1 DEF ReplayInv, ReplayTypeOK
<1>3. Replayed!Added(t) = n
  BY <1>2 DEF Replayed!Added
<1>4. Replayed!Buy(t, price)
  <2>1. n * price <= paperCash
    BY <1>1 DEF ReplayInv, ReplayTypeOK
  <2>2. QED
    BY <1>1, <1>2, <1>3, <2>1 DEF Replayed!Buy
<1>5. holdings'[t] # holdings[t]
  BY <1>1, <1>2
<1>6. QED
  BY <1>4, <1>5 DEF Replayed!Next, Replayed!Trade

LEMMA ReplayRefines ==
  ASSUME ReplayInv, [ReplayNext]_replayVars
  PROVE  [Replayed!Next]_(Replayed!accountVars)
<1> USE DEF Replayed!accountVars
<1>1. CASE UNCHANGED paper
  BY <1>1 DEF paper
<1>2. ASSUME NEW e \in Events, Deliver(e)
      PROVE  UNCHANGED paper \/ \E t \in Tickers : BuyTicker(e, t)
  BY <1>2 DEF Deliver, SkipStale, StartScoring, NotScored, Scored, Enqueue, Dequeue,
              HandlingBreaks, Handled, PassTicker
<1>3. CASE \E t \in Tickers : WindowPasses(t)
  BY <1>3 DEF WindowPasses
<1>4. CASE UNCHANGED replayVars
  BY <1>4 DEF replayVars, paper
<1>5. QED
  BY <1>1, <1>2, <1>3, <1>4, DriverInv, BuyIsABuy DEF ReplayNext, EventLoop

(* Whatever order the deliveries end in, whichever are broken or come      *)
(* after the report, the paper account buys only with cash it has          *)
(* (LocalEventBus.publish, SentimentTrader._process_loop, PaperBroker).    *)
THEOREM ReplayIsACashAccount == ReplaySpec => ReplayImplementsAccount
<1>1. ReplayInit => Replayed!Init
  BY DEF ReplayInit, Replayed!Init
<1>2. ReplayInv /\ [ReplayNext]_replayVars => [Replayed!Next]_(Replayed!accountVars)
  BY ReplayRefines
<1>3. QED
  BY <1>1, <1>2, ReplayInductive, PTL DEF ReplaySpec, ReplayImplementsAccount, Replayed!Spec

-----------------------------------------------------------------------------
(* The table of jobs.  That a result is handed out once rests on the id of *)
(* a job never coming back into the table, and that a job waits on what a  *)
(* caller found stale staying so until it is deleted.                      *)

JobsInv ==
  /\ JobsTypeOK
  /\ \A j \in table : given[j] = 0
  /\ \A j \in Jobs : status[j] = "new" => given[j] = 0
  /\ ResultHandedOutOnce
  /\ at[Loop] \in {"idle", "collect", "drop"}
  /\ at[Loop] # "idle" => target[Loop] \in Jobs /\ status[target[Loop]] = "new"
  /\ \A c \in Callers : \A j \in stale[c] : j \in expired /\ status[j] \in {"done", "error"}
  /\ JobsWait

LEMMA JobsInitInv == JobsInit => JobsInv
BY JobsAssumption DEF JobsInit, JobsInv, JobsTypeOK, ResultHandedOutOnce, JobsWait, Callers

(* A step that only moves a caller.                                        *)
LEMMA CallerMoves ==
  ASSUME JobsInv, NEW c \in Callers, NEW where \in {"idle", "collect", "drop", "take", "status",
                                                    "satisfied"},
         Goto(c, where), c = Loop => where = "idle",
         UNCHANGED <<jobVars, target, given>>,
         resized' \in SUBSET Callers,
         seen' = seen \/ seen' = [seen EXCEPT ![c] = {}],
         stale' = stale \/ stale' = [stale EXCEPT ![c] = {}]
  PROVE  JobsInv'
<1>1. at' \in [Callers -> {"idle", "collect", "drop", "take", "status", "satisfied"}]
  BY DEF Goto, JobsInv, JobsTypeOK
<1>2. at'[Loop] \in {"idle", at[Loop]}
  BY DEF Goto, JobsInv, JobsTypeOK, Callers
<1>3. stale' \in [Callers -> SUBSET Jobs] /\ \A d \in Callers : stale'[d] \subseteq stale[d]
  BY DEF JobsInv, JobsTypeOK
<1>4. seen' \in [Callers -> SUBSET Jobs]
  BY DEF JobsInv, JobsTypeOK
<1>5. JobsTypeOK'
  BY <1>1, <1>3, <1>4 DEF JobsInv, JobsTypeOK, jobVars
<1>6. QED
  BY <1>2, <1>3, <1>5 DEF JobsInv, ResultHandedOutOnce, JobsWait, jobVars

LEMMA BodyInv ==
  ASSUME JobsInv, NEW j \in Jobs, JobDone(j) \/ JobFails(j) \/ SetResult(j) \/ Expire(j)
  PROVE  JobsInv'
<1>1. CASE JobDone(j) \/ JobFails(j)
  <2>1. PICK how \in {"done", "error"} : status' = [status EXCEPT ![j] = how]
    BY <1>1 DEF JobDone, JobFails
  <2>2. status[j] = "running"
    BY <1>1 DEF JobDone, JobFails, BodyRuns
  <2>3. /\ status' \in [Jobs -> {"new", "running", "done", "error"}]
        /\ status'[j] = how /\ \A i \in Jobs \ {j} : status'[i] = status[i]
    BY <2>1 DEF JobsInv, JobsTypeOK
  <2>4. UNCHANGED <<table, hasResult, expired, callVars, given>>
    BY <1>1 DEF JobDone, JobFails
  <2>5. JobsTypeOK'
    BY <2>2, <2>3, <2>4 DEF JobsInv, JobsTypeOK, callVars
  <2>6. at'[Loop] # "idle" => target'[Loop] \in Jobs /\ status'[target'[Loop]] = "new"
    BY <2>2, <2>3, <2>4 DEF JobsInv, callVars
  <2>7. \A c \in Callers : \A i \in stale'[c] : i \in expired' /\ status'[i] \in {"done", "error"}
    BY <2>2, <2>3, <2>4 DEF JobsInv, JobsTypeOK, callVars
  <2>8. JobsWait'
    BY <2>2, <2>3, <2>4 DEF JobsInv, JobsWait
  <2>9. \A i \in Jobs : status'[i] = "new" => given'[i] = 0
    BY <2>2, <2>3, <2>4 DEF JobsInv
  <2>10. QED
    BY <2>4, <2>5, <2>6, <2>7, <2>8, <2>9 DEF JobsInv, ResultHandedOutOnce, callVars
<1>2. CASE SetResult(j)
  BY <1>2 DEF SetResult, JobsInv, JobsTypeOK, ResultHandedOutOnce, JobsWait, callVars
<1>3. CASE Expire(j)
  BY <1>3 DEF Expire, JobsInv, JobsTypeOK, ResultHandedOutOnce, JobsWait, callVars
<1>4. QED
  BY <1>1, <1>2, <1>3

LEMMA CallInv == ASSUME JobsInv, NEW c \in Callers, Call(c) PROVE JobsInv'
<1>1. Loop \in Callers
  BY DEF Callers
<1>2. /\ target' \in [Callers -> Jobs \cup {NoJob}]
      /\ c = Loop => target'[Loop] \in Unused
      /\ c # Loop => target'[Loop] = target[Loop]
  <2>1. ASSUME c = Loop PROVE target'[Loop] \in Unused /\ target' \in [Callers -> Jobs \cup {NoJob}]
    <3>1. PICK j \in Unused : target' = [target EXCEPT ![c] = j]
      BY <2>1 DEF Call
    <3>2. QED
      BY <1>1, <2>1, <3>1 DEF Unused, JobsInv, JobsTypeOK
  <2>2. ASSUME c # Loop
        PROVE  target' \in [Callers -> Jobs \cup {NoJob}] /\ target'[Loop] = target[Loop]
    BY <1>1, <2>2 DEF Call, JobsInv, JobsTypeOK
  <2>3. QED
    BY <2>1, <2>2
<1>3. /\ at' \in [Callers -> {"idle", "collect", "drop", "take", "status", "satisfied"}]
      /\ at'[c] = "collect" /\ \A d \in Callers \ {c} : at'[d] = at[d]
  BY DEF Call, Goto, JobsInv, JobsTypeOK
<1>4. UNCHANGED <<table, status, hasResult, expired, seen, stale, resized, given>>
  BY DEF Call, jobVars, JobsInv, JobsTypeOK
<1>5. JobsTypeOK'
  BY <1>2, <1>3, <1>4 DEF JobsInv, JobsTypeOK
<1>6. /\ at'[Loop] \in {"idle", "collect", "drop"}
      /\ at'[Loop] # "idle" => target'[Loop] \in Jobs /\ status'[target'[Loop]] = "new"
  BY <1>1, <1>2, <1>3, <1>4 DEF Unused, JobsInv
<1>7. QED
  BY <1>4, <1>5, <1>6 DEF JobsInv, ResultHandedOutOnce, JobsWait

LEMMA CleanUpInv ==
  ASSUME JobsInv, NEW c \in Callers,
         Collected(c) \/ \E j \in Jobs : Collect(c, j) \/ Drop(c, j)
  PROVE  JobsInv'
<1>1. ASSUME NEW j \in Jobs, Collect(c, j) PROVE JobsInv'
  <2>1. /\ stale' \in [Callers -> SUBSET Jobs] /\ seen' \in [Callers -> SUBSET Jobs]
        /\ \A d \in Callers : \A i \in stale'[d] : i \in expired /\ status[i] \in {"done", "error"}
    BY <1>1 DEF Collect, IsStale, JobsInv, JobsTypeOK
  <2>2. UNCHANGED <<table, status, hasResult, expired, at, target, resized, given>>
    BY <1>1 DEF Collect, jobVars
  <2>3. JobsTypeOK'
    BY <2>1, <2>2 DEF JobsInv, JobsTypeOK
  <2>4. QED
    BY <2>1, <2>2, <2>3 DEF JobsInv, ResultHandedOutOnce, JobsWait
<1>2. CASE Collected(c)
  <2>1. /\ at' \in [Callers -> {"idle", "collect", "drop", "take", "status", "satisfied"}]
        /\ at'[Loop] \in {"drop", at[Loop]}
        /\ at'[Loop] # "idle" => at[Loop] # "idle"
    BY <1>2 DEF Collected, Goto, JobsInv, JobsTypeOK, Callers
  <2>2. UNCHANGED <<table, status, hasResult, expired, target, stale, given>>
    BY <1>2 DEF Collected, jobVars
  <2>3. seen' \in [Callers -> SUBSET Jobs] /\ resized' \in SUBSET Callers
    BY <1>2 DEF Collected, JobsInv, JobsTypeOK
  <2>4. JobsTypeOK'
    BY <2>1, <2>2, <2>3 DEF JobsInv, JobsTypeOK
  <2>5. QED
    BY <2>1, <2>2, <2>4 DEF JobsInv, ResultHandedOutOnce, JobsWait
<1>3. ASSUME NEW j \in Jobs, Drop(c, j) PROVE JobsInv'
  <2>1. /\ table' = table \ {j}
        /\ j \in stale[c]
        /\ UNCHANGED <<status, hasResult, expired, at, target, seen, given>>
    BY <1>3 DEF Drop, Resize
  <2>2. /\ stale' \in [Callers -> SUBSET Jobs]
        /\ \A d \in Callers : stale'[d] \subseteq stale[d]
        /\ resized' \in SUBSET Callers
    BY <1>3 DEF Drop, Resize, JobsInv, JobsTypeOK
  <2>3. JobsTypeOK'
    BY <2>1, <2>2 DEF JobsInv, JobsTypeOK
  <2>4. j \in expired /\ status[j] # "running"
    BY <2>1 DEF JobsInv
  <2>5. JobsWait'
    BY <2>1, <2>4 DEF JobsInv, JobsWait
  <2>6. QED
    BY <2>1, <2>2, <2>3, <2>5 DEF JobsInv, ResultHandedOutOnce
<1>4. QED
  BY <1>1, <1>2, <1>3

LEMMA StartInv == ASSUME JobsInv, NEW j \in Jobs, StartJob(j) PROVE JobsInv'
<1>1. j = target[Loop] /\ status[j] = "new" /\ given[j] = 0
  BY DEF StartJob, CleanedUp, JobsInv
<1>2. /\ table' = table \cup {j} /\ resized' \in SUBSET Callers
      /\ UNCHANGED <<hasResult, expired, target, seen, stale, given>>
  BY DEF StartJob, Resize, JobsInv, JobsTypeOK
<1>3. /\ status' \in [Jobs -> {"new", "running", "done", "error"}]
      /\ status'[j] = "running" /\ \A i \in Jobs \ {j} : status'[i] = status[i]
  BY DEF StartJob, JobsInv, JobsTypeOK
<1>4. /\ at' \in [Callers -> {"idle", "collect", "drop", "take", "status", "satisfied"}]
      /\ at'[Loop] = "idle"
  BY DEF StartJob, Goto, JobsInv, JobsTypeOK, Callers
<1>5. JobsTypeOK'
  BY <1>2, <1>3, <1>4 DEF JobsInv, JobsTypeOK
<1>6. \A c \in Callers : \A i \in stale'[c] : i \in expired' /\ status'[i] \in {"done", "error"}
  BY <1>1, <1>2, <1>3 DEF JobsInv, JobsTypeOK
<1>7. JobsWait'
  BY <1>2, <1>3 DEF JobsInv, JobsWait
<1>8. QED
  BY <1>1, <1>2, <1>3, <1>4, <1>5, <1>6, <1>7 DEF JobsInv, ResultHandedOutOnce

LEMMA TakeInv == ASSUME JobsInv, NEW c \in Callers, TakeResult(c) PROVE JobsInv'
<1> DEFINE j == target[c]
<1>1. j \in table /\ j \in Jobs /\ given[j] = 0 /\ status[j] # "new" /\ c # Loop
  BY DEF TakeResult, JobsInv, JobsTypeOK
<1>2. /\ table' = table \ {j} /\ resized' \in SUBSET Callers
      /\ UNCHANGED <<status, hasResult, expired, target, seen, stale>>
  BY DEF TakeResult, Resize, JobsInv, JobsTypeOK
<1>3. given' \in [Jobs -> Nat] /\ given'[j] = 1 /\ \A i \in Jobs \ {j} : given'[i] = given[i]
  BY <1>1 DEF TakeResult, JobsInv, JobsTypeOK
<1>4. /\ at' \in [Callers -> {"idle", "collect", "drop", "take", "status", "satisfied"}]
      /\ at'[Loop] = at[Loop]
  BY <1>1 DEF TakeResult, Goto, JobsInv, JobsTypeOK, Callers
<1> HIDE DEF j
<1>5. JobsTypeOK'
  BY <1>2, <1>3, <1>4 DEF JobsInv, JobsTypeOK
<1>6. JobsWait'
  BY <1>1, <1>2, <1>3 DEF JobsInv, JobsWait
<1>7. /\ \A i \in table' : given'[i] = 0
      /\ \A i \in Jobs : status'[i] = "new" => given'[i] = 0
      /\ ResultHandedOutOnce'
  BY <1>1, <1>2, <1>3 DEF JobsInv, JobsTypeOK, ResultHandedOutOnce
<1>8. QED
  BY <1>2, <1>4, <1>5, <1>6, <1>7 DEF JobsInv

LEMMA ServeInv == ASSUME JobsInv, NEW c \in Callers, Serve(c) PROVE JobsInv'
<1>1. ASSUME Breaks(c) PROVE JobsInv'
  BY <1>1, CallerMoves DEF Breaks, JobsInv, JobsTypeOK
<1>2. CASE NotFound(c) \/ Lookup(c)
  <2>1. /\ \E where \in {"satisfied", "take", "idle", "status"} : Goto(c, where)
        /\ c # Loop /\ UNCHANGED <<jobVars, target, seen, stale, resized, given>>
    BY <1>2 DEF NotFound, Lookup
  <2>2. QED
    BY <2>1, CallerMoves DEF JobsInv, JobsTypeOK
<1>3. CASE AnswerStatus(c)
  <2>1. /\ \E where \in {"satisfied", "idle"} : Goto(c, where)
        /\ c # Loop /\ UNCHANGED <<jobVars, target, seen, stale, resized, given>>
    BY <1>3 DEF AnswerStatus, JobsInv
  <2>2. QED
    BY <2>1, CallerMoves DEF JobsInv, JobsTypeOK
<1>4. QED
  BY <1>1, <1>2, <1>3, CleanUpInv, TakeInv DEF Serve, CollectBreaks, DropBreaks, TakeBreaks

LEMMA JobsNextInv == ASSUME JobsInv, [JobsNext]_tableVars PROVE JobsInv'
<1>1. CASE UNCHANGED tableVars
  BY <1>1 DEF JobsInv, JobsTypeOK, ResultHandedOutOnce, JobsWait, tableVars, jobVars, callVars
<1>2. Loop \in Callers /\ Clients \subseteq Callers
  BY DEF Callers
<1>3. QED
  BY <1>1, <1>2, BodyInv, CallInv, StartInv, ServeInv DEF JobsNext, LoopWork

LEMMA JobsInductive == JobsSpec => []JobsInv
BY JobsInitInv, JobsNextInv, PTL DEF JobsSpec

(* A job has a status as long as it is in the table (server.py             *)
(* start_live_backtest).                                                   *)
THEOREM JobsTypesAreRight == JobsSpec => []JobsTypeOK
BY JobsInductive, PTL DEF JobsInv

(* For any number of clients polling any number of jobs from as many       *)
(* threads, a result leaves the table once (get_live_backtest).            *)
THEOREM ResultIsHandedOutOnce == JobsSpec => []ResultHandedOutOnce
BY JobsInductive, PTL DEF JobsInv

(* Whatever the callers interleave, only an expired job that has finished  *)
(* is cleaned away, and a result only when it is handed out                *)
(* (_cleanup_stale_jobs, get_live_backtest).                               *)
THEOREM FinishedJobsWait == JobsSpec => []JobsWait
BY JobsInductive, PTL DEF JobsInv

-----------------------------------------------------------------------------
(* The process manager: what untangled commands know.                      *)

Runs(s) == \E p \in Pids : process[p] = s

(* Commands do not run into one that starts services.                      *)
Alone == \A o, other \in Operators :
  o # other /\ Starting(command[o]) => command[other] = "none"

(* Between services a command has nothing in hand; without one, nothing.   *)
AtRest == \A o \in Operators :
  /\ turn[o] > Len(Services) => step[o] = "look"
  /\ command[o] = "none" => step[o] = "look" /\ turn[o] = 1

(* What a command found out of its service still holds when it acts on it, *)
(* and a stop has left nothing of the services it is done with.            *)
Knows(o) ==
  /\ At(o, {"start"}, "spawn") => ~Runs(Service(o))
  /\ At(o, {"start"}, "record") =>
       /\ noted[o] \in Pids
       /\ process[noted[o]] \in ServiceNames => process[noted[o]] = Service(o)
       /\ \A p \in Pids : process[p] = Service(o) => p = noted[o]
  /\ At(o, Stopping, "await") =>
       /\ noted[o] \in Pids
       /\ \A p \in Pids : process[p] = Service(o) => p = noted[o]
  /\ At(o, Stopping \cup {"status"}, "forget") => ~Runs(Service(o))
  /\ command[o] \in Stopping => \A i \in 1..(turn[o] - 1) : ~Runs(Services[i])

Untangled == Alone /\ (\A o \in Operators : Knows(o)) /\ EveryProcessIsKnown

ManagerInv == ManagerTypeOK /\ AtRest /\ (~tangled => Untangled)

LEMMA ServiceCount == Len(Services) \in Nat /\ Len(Services) > 0
BY ProcessAssumption

LEMMA ServiceIsNamed ==
  ASSUME ManagerTypeOK, NEW o \in Operators, turn[o] <= Len(Services)
  PROVE  Service(o) \in ServiceNames /\ turn[o] \in 1..Len(Services)
<1>1. turn[o] \in 1..Len(Services)
  BY ServiceCount DEF ManagerTypeOK
<1>2. QED
  BY <1>1 DEF Service, ServiceNames

LEMMA ManagerInitInv == ManagerInit => ManagerInv
<1> SUFFICES ASSUME ManagerInit PROVE ManagerInv
  OBVIOUS
<1> USE DEF ManagerInit
<1>1. ManagerTypeOK
  <2>1. 1 \in 1..(Len(Services) + 1)
    BY ServiceCount
  <2>2. QED
    BY <2>1 DEF ManagerTypeOK
<1>2. AtRest
  BY ServiceCount DEF AtRest
<1>3. \A o \in Operators : command[o] = "none"
  OBVIOUS
<1>4. \A p \in Pids : process[p] \notin ServiceNames
  BY ProcessAssumption
<1>5. Untangled
  BY <1>3, <1>4 DEF Untangled, Alone, Knows, EveryProcessIsKnown, At, Starting, Stopping
<1>6. QED
  BY <1>1, <1>2, <1>5 DEF ManagerInv

(* A command goes on to another step, or to the next service.              *)
LEMMA StepsTyped ==
  ASSUME ManagerTypeOK, AtRest, NEW o \in Operators, command[o] # "none",
         turn[o] <= Len(Services),
         \/ /\ \E where \in {"look", "spawn", "record", "await", "forget"} : GoesTo(o, where)
            /\ noted' \in [Operators -> Pids \cup {NoPid}]
         \/ NextService(o)
  PROVE  /\ command' = command
         /\ step' \in [Operators -> {"look", "spawn", "record", "await", "forget"}]
         /\ turn' \in [Operators -> 1..(Len(Services) + 1)]
         /\ noted' \in [Operators -> Pids \cup {NoPid}]
         /\ AtRest'
<1> USE ServiceCount DEF ManagerTypeOK, AtRest
<1>1. CASE NextService(o)
  <2>1. turn[o] + 1 \in 1..(Len(Services) + 1)
    OBVIOUS
  <2>2. QED
    BY <1>1, <2>1 DEF NextService
<1>2. CASE /\ \E where \in {"look", "spawn", "record", "await", "forget"} : GoesTo(o, where)
           /\ noted' \in [Operators -> Pids \cup {NoPid}]
  <2>1. PICK where \in {"look", "spawn", "record", "await", "forget"} : GoesTo(o, where)
    BY <1>2
  <2>2. step' \in [Operators -> {"look", "spawn", "record", "await", "forget"}]
        /\ command' = command /\ turn' = turn
    BY <2>1 DEF GoesTo
  <2>3. AtRest'
    BY <2>1, <2>2 DEF GoesTo
  <2>4. QED
    BY <1>2, <2>2, <2>3
<1>3. QED
  BY <1>1, <1>2

LEMMA OperatorTypes ==
  ASSUME ManagerTypeOK, AtRest, NEW o \in Operators, OperatorStep(o)
  PROVE  ManagerTypeOK' /\ AtRest'
<1> USE ServiceCount DEF ManagerTypeOK
<1>1. CASE Begin(o)
  BY <1>1 DEF Begin, AtRest
<1>2. CASE EndCommand(o) \/ Interrupt(o)
  <2>1. command' \in [Operators -> {"none", "start", "stop", "status", "restart"}]
    <3>1. \E c \in {"none", "start"} : command' = [command EXCEPT ![o] = c]
      BY <1>2 DEF EndCommand, Interrupt
    <3>2. QED
      BY <3>1
  <2>2. step' = [step EXCEPT ![o] = "look"] /\ noted' \in [Operators -> Pids \cup {NoPid}]
    <3>1. CASE EndCommand(o)
      <4>1. step[o] = "look" /\ UNCHANGED <<step, noted>>
        BY <3>1 DEF EndCommand, AtRest
      <4>2. QED
        BY <4>1
    <3>2. CASE Interrupt(o)
      BY <3>2 DEF Interrupt
    <3>3. QED
      BY <1>2, <3>1, <3>2
  <2>7. turn' = [turn EXCEPT ![o] = 1] /\ 1 \in 1..(Len(Services) + 1)
    BY <1>2 DEF EndCommand, Interrupt
  <2>3. \A other \in Operators \ {o} : command'[other] = command[other]
    BY <1>2 DEF EndCommand, Interrupt
  <2>4. AtRest'
    BY <2>1, <2>2, <2>3, <2>7 DEF AtRest
  <2>5. UNCHANGED <<process, pidFile>> /\ tangled' \in BOOLEAN
    BY <1>2 DEF EndCommand, Interrupt
  <2>6. QED
    BY <2>1, <2>2, <2>4, <2>5, <2>7
<1>3. ASSUME NEW C \in SUBSET {"start", "stop", "status", "restart"}, NEW where, At(o, C, where)
      PROVE  command[o] # "none" /\ turn[o] <= Len(Services)
  BY <1>3 DEF At
<1>4. CASE StartLooks(o) \/ StatusLooks(o) \/ NothingToStop(o) \/ SeeItGone(o)
  <2>1. command[o] # "none" /\ turn[o] <= Len(Services)
    BY <1>3, <1>4 DEF StartLooks, StatusLooks, NothingToStop, SeeItGone, At, Stopping
  <2>2. \/ \E where \in {"look", "spawn", "record", "await", "forget"} : GoesTo(o, where)
           /\ noted' = noted
        \/ NextService(o)
    BY <1>4 DEF StartLooks, StatusLooks, NothingToStop, SeeItGone
  <2>3. QED
    BY <1>4, <2>1, <2>2, StepsTyped DEF StartLooks, StatusLooks, NothingToStop, SeeItGone
<1>5. CASE Spawn(o)
  <2>1. PICK p \in Pids : /\ process' = [process EXCEPT ![p] = Service(o)]
                          /\ noted' = [noted EXCEPT ![o] = p]
    BY <1>5 DEF Spawn
  <2>2. command[o] # "none" /\ turn[o] <= Len(Services) /\ Service(o) \in ServiceNames
    BY <1>5, ServiceIsNamed DEF Spawn, At
  <2>3. QED
    BY <1>5, <2>1, <2>2, StepsTyped DEF Spawn
<1>6. CASE Record(o) \/ Forget(o)
  <2>1. command[o] # "none" /\ turn[o] <= Len(Services) /\ Service(o) \in ServiceNames
    BY <1>6, ServiceIsNamed DEF Record, Forget, At, Stopping
  <2>2. NextService(o) /\ UNCHANGED <<process, tangled>>
    BY <1>6 DEF Record, Forget
  <2>3. pidFile' \in [ServiceNames -> Pids \cup {NoPid}]
    BY <1>6, <2>1 DEF Record, Forget
  <2>4. QED
    BY <2>1, <2>2, <2>3, StepsTyped
<1>7. CASE AskToStop(o) \/ Kill(o)
  <2>1. command[o] # "none" /\ turn[o] <= Len(Services) /\ Service(o) \in ServiceNames
    BY <1>7, ServiceIsNamed DEF AskToStop, Kill, At, Stopping
  <2>2. \E where \in {"await", "forget"} : GoesTo(o, where)
    BY <1>7 DEF AskToStop, Kill
  <2>3. noted' \in [Operators -> Pids \cup {NoPid}]
    BY <1>7, <2>1 DEF AskToStop, Kill
  <2>4. process' \in [Pids -> ServiceNames \cup {Free, Stranger}]
        /\ UNCHANGED <<pidFile, tangled>>
    BY <1>7 DEF AskToStop, Kill
  <2>5. QED
    BY <2>1, <2>2, <2>3, <2>4, StepsTyped
<1>8. QED
  BY <1>1, <1>2, <1>4, <1>5, <1>6, <1>7 DEF OperatorStep

(* What one command does to the state the others keep of their own.        *)
OthersStay(o) == \A x \in Operators \ {o} :
  /\ command'[x] = command[x] /\ step'[x] = step[x]
  /\ turn'[x] = turn[x] /\ noted'[x] = noted[x]

NoneStarts == \A p \in Pids : process'[p] \in ServiceNames => process'[p] = process[p]

LEMMA OthersStayPut ==
  ASSUME ManagerTypeOK, NEW o \in Operators, OperatorStep(o) PROVE OthersStay(o)
<1> USE DEF ManagerTypeOK, OthersStay
<1>1. CASE Begin(o) \/ EndCommand(o) \/ Interrupt(o)
  BY <1>1 DEF Begin, EndCommand, Interrupt
<1>2. CASE \/ StartLooks(o) \/ Spawn(o) \/ Record(o) \/ NothingToStop(o) \/ AskToStop(o)
           \/ SeeItGone(o) \/ Kill(o) \/ StatusLooks(o) \/ Forget(o)
  <2>1. \/ NextService(o)
        \/ /\ \E where : GoesTo(o, where)
           /\ noted' = noted \/ \E p : noted' = [noted EXCEPT ![o] = p]
    BY <1>2 DEF StartLooks, Spawn, Record, NothingToStop, AskToStop, SeeItGone, Kill,
       StatusLooks, Forget
  <2>2. QED
    BY <2>1 DEF NextService, GoesTo
<1>3. QED
  BY <1>1, <1>2 DEF OperatorStep

LEMMA SameAt ==
  ASSUME NEW o \in Operators, OthersStay(o), NEW x \in Operators \ {o}
  PROVE  /\ \A C, where : At(x, C, where)' <=> At(x, C, where)
         /\ Service(x)' = Service(x)
BY DEF OthersStay, At, Service

LEMMA NobodyRecords ==
  ASSUME Alone, NEW o \in Operators, command[o] # "none",
         command[o] # "start" \/ step[o] # "record"
  PROVE  \A p \in Pids : ~BeingRecorded(p)
BY DEF Alone, Starting, BeingRecorded, At

LEMMA VerdictTells ==
  ASSUME ManagerTypeOK, EveryProcessIsKnown, ~tangled, NEW s \in ServiceNames,
         \A p \in Pids : ~BeingRecorded(p), FALSE \in Verdicts(s)
  PROVE  ~Runs(s)
<1> SUFFICES ASSUME NEW p \in Pids, process[p] = s PROVE FALSE
  BY DEF Runs
<1>1. pidFile[s] = p /\ p # NoPid
  BY ProcessAssumption DEF EveryProcessIsKnown
<1>2. FALSE \in Answers(p)
  BY <1>1 DEF Verdicts
<1>3. QED
  BY <1>2 DEF Answers

LEMMA NoneRunsMore == ASSUME NoneStarts, NEW s \in ServiceNames, ~Runs(s) PROVE ~Runs(s)'
BY DEF NoneStarts, Runs

LEMMA OthersKnow ==
  ASSUME ManagerTypeOK, ManagerTypeOK', NEW o \in Operators, OthersStay(o), NoneStarts,
         NEW x \in Operators \ {o}, Knows(x)
  PROVE  Knows(x)'
<1>1. /\ \A C, where : At(x, C, where)' <=> At(x, C, where)
      /\ Service(x)' = Service(x)
  BY SameAt
<1>2. \A C, where : At(x, C, where) => Service(x) \in ServiceNames
  BY ServiceIsNamed DEF At
<1>3. At(x, {"start"}, "spawn")' => ~Runs(Service(x))'
  BY <1>1, <1>2, NoneRunsMore DEF Knows, Runs
<1>4. At(x, Stopping \cup {"status"}, "forget")' => ~Runs(Service(x))'
  BY <1>1, <1>2, NoneRunsMore DEF Knows, Runs, Stopping, At
<1>5. noted'[x] = noted[x] /\ command'[x] = command[x] /\ turn'[x] = turn[x]
  BY DEF OthersStay
<1>6. At(x, {"start"}, "record")' =>
        /\ noted'[x] \in Pids
        /\ process'[noted'[x]] \in ServiceNames => process'[noted'[x]] = Service(x)'
        /\ \A p \in Pids : process'[p] = Service(x)' => p = noted'[x]
  BY <1>1, <1>2, <1>5 DEF Knows, NoneStarts
<1>7. At(x, Stopping, "await")' =>
        /\ noted'[x] \in Pids
        /\ \A p \in Pids : process'[p] = Service(x)' => p = noted'[x]
  BY <1>1, <1>2, <1>5 DEF Knows, NoneStarts
<1>8. ASSUME command'[x] \in Stopping, NEW i \in 1..(turn'[x] - 1) PROVE ~Runs(Services[i])'
  <2>1. i \in 1..Len(Services) /\ Services[i] \in ServiceNames
    BY <1>5, ServiceCount DEF ManagerTypeOK, ServiceNames
  <2>2. ~Runs(Services[i])
    BY <1>5, <1>8 DEF Knows
  <2>3. QED
    BY <2>1, <2>2, NoneRunsMore
<1>9. QED
  BY <1>3, <1>4, <1>6, <1>7, <1>8 DEF Knows

LEMMA KnownKept ==
  ASSUME ~tangled, EveryProcessIsKnown, NEW o \in Operators, OthersStay(o), NoneStarts,
         ~At(o, {"start"}, "record"), pidFile' = pidFile
  PROVE  EveryProcessIsKnown'
<1>1. \A p \in Pids : BeingRecorded(p) => BeingRecorded(p)'
  BY SameAt DEF BeingRecorded, OthersStay
<1>2. QED
  BY <1>1 DEF EveryProcessIsKnown, NoneStarts

(* The step of one command: what it knows itself, and the pid files.       *)
LEMMA UntangledStep ==
  ASSUME ManagerInv, ManagerTypeOK', NEW o \in Operators, OperatorStep(o), ~tangled'
  PROVE  Untangled'
<1>0. ~tangled /\ OthersStay(o)
  <2>1. ~tangled
    <3>1. CASE Begin(o) \/ Interrupt(o)
      BY <3>1 DEF Begin, Interrupt
    <3>2. CASE ~Begin(o) /\ ~Interrupt(o)
      BY <3>2 DEF OperatorStep, EndCommand, StartLooks, Spawn, Record, NothingToStop, AskToStop,
         SeeItGone, Kill, StatusLooks, Forget
    <3>3. QED
      BY <3>1, <3>2
  <2>2. QED
    BY <2>1, OthersStayPut DEF ManagerInv
<1>S. PICK s : s = Service(o)
  OBVIOUS
<1> USE <1>S
<1>T. ManagerTypeOK /\ AtRest /\ Alone /\ (\A x \in Operators : Knows(x)) /\ EveryProcessIsKnown
  BY <1>0 DEF ManagerInv, Untangled
<1>1. CASE Begin(o)
  <2>1. Alone'
    <3>1. PICK c \in {"start", "stop", "status", "restart"} :
            /\ command' = [command EXCEPT ![o] = c]
            /\ \A other \in Operators \ {o} :
                 command[other] = "none" \/ (~Starting(c) /\ ~Starting(command[other]))
      BY <1>1 DEF Begin
    <3>2. command'[o] = c /\ \A other \in Operators \ {o} : command'[other] = command[other]
      BY <1>T, <3>1 DEF ManagerTypeOK
    <3>3. SUFFICES ASSUME NEW a \in Operators, NEW b \in Operators, a # b,
                          Starting(command'[a])
                   PROVE  command'[b] = "none"
      BY DEF Alone
    <3>4. CASE a = o
      BY <3>1, <3>2, <3>3, <3>4
    <3>5. CASE b = o
      BY <3>1, <3>2, <3>3, <3>5 DEF Starting
    <3>6. CASE a # o /\ b # o
      BY <1>T, <3>2, <3>3, <3>6 DEF Alone
    <3>7. QED
      BY <3>4, <3>5, <3>6
  <2>2. NoneStarts /\ ~At(o, {"start"}, "record") /\ pidFile' = pidFile
    BY <1>1 DEF Begin, NoneStarts, At
  <2>3. turn'[o] = 1 /\ step'[o] = "look"
    BY <1>1, <1>T DEF Begin, AtRest
  <2>4. Knows(o)'
    BY <2>3 DEF Knows, At
  <2>5. QED
    BY <1>0, <1>T, <2>1, <2>2, <2>4, OthersKnow, KnownKept DEF Untangled
<1>2. CASE EndCommand(o) \/ Interrupt(o)
  <2>1. \E c \in {"none", "start"} :
          command' = [command EXCEPT ![o] = c] /\ (c = "start" => command[o] = "restart")
    BY <1>2 DEF EndCommand, Interrupt
  <2>2. Alone'
    BY <1>0, <1>T, <2>1 DEF Alone, Starting, OthersStay, ManagerTypeOK
  <2>3. NoneStarts /\ ~At(o, {"start"}, "record") /\ pidFile' = pidFile
    <3>1. CASE EndCommand(o)
      BY <1>T, <3>1, ServiceCount DEF EndCommand, NoneStarts, At, ManagerTypeOK
    <3>2. CASE Interrupt(o)
      BY <3>2 DEF Interrupt, NoneStarts, At
    <3>3. QED
      BY <1>2, <3>1, <3>2
  <2>4. step'[o] = "look" /\ command'[o] \notin Stopping
    <3>1. command'[o] \in {"none", "start"}
      BY <1>T, <2>1 DEF ManagerTypeOK
    <3>2. CASE EndCommand(o)
      BY <1>T, <3>1, <3>2 DEF EndCommand, AtRest, Stopping
    <3>3. CASE Interrupt(o)
      BY <1>T, <3>1, <3>3 DEF Interrupt, Stopping, ManagerTypeOK
    <3>4. QED
      BY <1>2, <3>2, <3>3
  <2>5. Knows(o)'
    BY <2>4 DEF Knows, At
  <2>6. QED
    BY <1>0, <1>T, <2>2, <2>3, <2>5, OthersKnow, KnownKept DEF Untangled
<1>3. ASSUME command[o] # "none", turn[o] <= Len(Services), command' = command
      PROVE  s \in ServiceNames /\ Alone'
  BY <1>3, <1>T, ServiceIsNamed DEF Alone, Starting
(* The looks change nothing but where the command is.                      *)
<1>4. CASE StartLooks(o) \/ StatusLooks(o) \/ NothingToStop(o) \/ AskToStop(o)
  <2>1. /\ command[o] # "none" /\ turn[o] <= Len(Services) /\ step[o] = "look"
        /\ process' = process /\ pidFile' = pidFile /\ command' = command
    BY <1>4 DEF StartLooks, StatusLooks, NothingToStop, AskToStop, At, Stopping, GoesTo, NextService
  <2>2. s \in ServiceNames /\ Alone' /\ NoneStarts /\ ~At(o, {"start"}, "record")
    BY <1>3, <2>1 DEF NoneStarts, At
  <2>3. FALSE \in Verdicts(s) => ~Runs(s)
    BY <1>0, <1>T, <2>1, <2>2, NobodyRecords, VerdictTells
  <2>4. Runs(s)' = Runs(s) /\ \A i \in 1..Len(Services) : Runs(Services[i])' = Runs(Services[i])
    BY <2>1 DEF Runs
  <2>5. CASE StartLooks(o) \/ StatusLooks(o)
    <3>1. command[o] \in {"start", "status"}
      BY <2>5 DEF StartLooks, StatusLooks, At
    <3>2. Knows(o)'
      <4>1. CASE NextService(o)
        <5>1. command'[o] = command[o] /\ step'[o] = "look"
          BY <1>T, <4>1 DEF NextService, ManagerTypeOK
        <5>2. QED
          BY <3>1, <5>1 DEF Knows, At, Stopping
      <4>2. CASE ~NextService(o)
        <5>1. /\ FALSE \in Verdicts(s)
              /\ \E where \in {"spawn", "forget"} : GoesTo(o, where)
          BY <2>5, <4>2 DEF StartLooks, StatusLooks, Verdicts, Answers
        <5>2. ~Runs(Service(o))' /\ step'[o] \in {"spawn", "forget"}
          BY <1>T, <2>3, <2>4, <5>1 DEF GoesTo, Service, ManagerTypeOK, Runs
        <5>3. QED
          BY <2>1, <3>1, <5>2 DEF Knows, At, Stopping
      <4>3. QED
        BY <4>1, <4>2
    <3>3. QED
      BY <1>0, <1>T, <2>1, <2>2, <3>2, OthersKnow, KnownKept DEF Untangled
  <2>6. CASE NothingToStop(o)
    <3>1. ~Runs(s)
      BY <2>3, <2>6 DEF NothingToStop, Verdicts
    <3>2. \A i \in 1..(turn[o] - 1) : ~Runs(Services[i])
      BY <1>T, <2>6 DEF Knows, NothingToStop, At
    <3>3. turn' = [turn EXCEPT ![o] = @ + 1] /\ step'[o] = "look" /\ turn[o] \in 1..Len(Services)
      BY <1>T, <2>1, <2>6, ServiceIsNamed DEF NothingToStop, NextService, ManagerTypeOK
    <3>4. \A i \in 1..(turn'[o] - 1) : ~Runs(Services[i])'
      BY <1>T, <2>4, <3>1, <3>2, <3>3, ServiceCount DEF Service, ManagerTypeOK
    <3>5. Knows(o)'
      BY <3>3, <3>4 DEF Knows, At
    <3>6. QED
      BY <1>0, <1>T, <2>1, <2>2, <3>5, OthersKnow, KnownKept DEF Untangled
  <2>7. CASE AskToStop(o)
    <3>1. noted'[o] = pidFile[s] /\ pidFile[s] \in Pids
      BY <1>T, <2>2, <2>7 DEF AskToStop, ManagerTypeOK
    <3>2. \A p \in Pids : process[p] = s => p = noted'[o]
      BY <1>0, <1>T, <2>1, <2>2, <3>1, NobodyRecords DEF EveryProcessIsKnown
    <3>3. command[o] \in Stopping /\ turn' = turn /\ Service(o)' = s
      BY <2>7 DEF AskToStop, At, GoesTo, Service
    <3>4. step'[o] \in {"await", "forget"} /\ (step'[o] = "forget" => ~Runs(s))
      BY <1>T, <2>3, <2>7 DEF AskToStop, GoesTo, ManagerTypeOK, Verdicts, Answers
    <3>5. \A i \in 1..(turn'[o] - 1) : ~Runs(Services[i])'
      BY <1>T, <2>1, <3>3 DEF Knows, Runs
    <3>6. Knows(o)'
      BY <2>1, <2>4, <3>1, <3>2, <3>3, <3>4, <3>5 DEF Knows, At, Stopping
    <3>7. QED
      BY <1>0, <1>T, <2>1, <2>2, <3>6, OthersKnow, KnownKept DEF Untangled
  <2>8. QED
    BY <1>4, <2>5, <2>6, <2>7
<1>5. CASE SeeItGone(o) \/ Kill(o)
  <2>1. /\ command[o] \in Stopping /\ turn[o] <= Len(Services) /\ step[o] = "await"
        /\ command' = command /\ turn' = turn /\ step' = [step EXCEPT ![o] = "forget"]
        /\ noted' = noted /\ pidFile' = pidFile
    BY <1>5 DEF SeeItGone, Kill, At, GoesTo
  <2>2. s \in ServiceNames /\ Alone' /\ ~At(o, {"start"}, "record")
    BY <1>3, <2>1 DEF Stopping, At
  <2>3. noted[o] \in Pids /\ \A p \in Pids : process[p] = s => p = noted[o]
    BY <1>T, <2>1 DEF Knows, At
  <2>4. NoneStarts
    BY <1>5, <1>T, <2>3, ProcessAssumption DEF SeeItGone, Kill, NoneStarts, ManagerTypeOK
  <2>5. ~Runs(s)'
    <3>1. process'[noted[o]] \notin ServiceNames
      BY <1>5, <1>T, <2>3, ProcessAssumption DEF SeeItGone, Kill, Answers, ManagerTypeOK
    <3>2. QED
      BY <2>2, <2>3, <2>4, <3>1 DEF Runs, NoneStarts
  <2>6. \A i \in 1..(turn[o] - 1) : ~Runs(Services[i])'
    <3>1. \A i \in 1..(turn[o] - 1) : Services[i] \in ServiceNames /\ ~Runs(Services[i])
      BY <1>T, <2>1, ServiceCount DEF Knows, ServiceNames, ManagerTypeOK
    <3>2. QED
      BY <2>4, <3>1, NoneRunsMore
  <2>7. Service(o)' = s /\ step'[o] = "forget"
    BY <1>T, <2>1 DEF Service, ManagerTypeOK
  <2>8. Knows(o)'
    BY <2>1, <2>5, <2>6, <2>7 DEF Knows, At
  <2>9. QED
    BY <1>0, <1>T, <2>1, <2>2, <2>4, <2>8, OthersKnow, KnownKept DEF Untangled
<1>6. CASE Spawn(o)
  <2>1. PICK p \in Pids : /\ process[p] = Free
                          /\ process' = [process EXCEPT ![p] = s]
                          /\ noted' = [noted EXCEPT ![o] = p]
    BY <1>6 DEF Spawn
  <2>2. /\ command[o] = "start" /\ turn[o] <= Len(Services) /\ step[o] = "spawn"
        /\ command' = command /\ turn' = turn /\ step' = [step EXCEPT ![o] = "record"]
        /\ pidFile' = pidFile /\ ~Runs(s)
    BY <1>6, <1>T DEF Spawn, At, GoesTo, Knows
  <2>3. s \in ServiceNames /\ Alone' /\ Service(o)' = s
    BY <1>3, <2>2 DEF Service
  <2>4. \A x \in Operators \ {o} : Knows(x)'
    BY <1>0, <1>T, <2>2 DEF Alone, Starting, OthersStay, Knows, At, Stopping
  <2>5. \A q \in Pids : q # p => process'[q] = process[q]
    BY <1>T, <2>1 DEF ManagerTypeOK
  <2>6. step'[o] = "record" /\ noted'[o] = p /\ process'[p] = s
    BY <1>T, <2>1, <2>2 DEF ManagerTypeOK
  <2>7. \A q \in Pids : process'[q] = s => q = p
    BY <2>2, <2>5 DEF Runs
  <2>8. Knows(o)'
    BY <2>2, <2>3, <2>6, <2>7 DEF Knows, At, Stopping
  <2>9. EveryProcessIsKnown'
    <3>1. \A q \in Pids : ~BeingRecorded(q)
      BY <1>T, <2>2, NobodyRecords
    <3>2. BeingRecorded(p)'
      BY <2>2, <2>6 DEF BeingRecorded, At
    <3>3. QED
      BY <1>0, <1>T, <2>2, <2>5, <2>6, <2>7, <3>1, <3>2 DEF EveryProcessIsKnown
  <2>10. QED
    BY <2>3, <2>4, <2>8, <2>9 DEF Untangled
<1>7. CASE Record(o) \/ Forget(o)
  <2>1. /\ command[o] # "none" /\ turn[o] \in 1..Len(Services)
        /\ command' = command /\ turn' = [turn EXCEPT ![o] = @ + 1]
        /\ step' = [step EXCEPT ![o] = "look"] /\ process' = process
    BY <1>7, <1>T, ServiceIsNamed DEF Record, Forget, NextService, At, Stopping
  <2>2. s \in ServiceNames /\ Alone' /\ NoneStarts
    BY <1>3, <2>1, ServiceCount DEF NoneStarts
  <2>3. step'[o] = "look" /\ turn'[o] = turn[o] + 1
    BY <1>T, <2>1 DEF ManagerTypeOK
  <2>4. CASE Record(o)
    <3>1. /\ command[o] = "start" /\ noted[o] \in Pids
          /\ process[noted[o]] \in ServiceNames => process[noted[o]] = s
          /\ \A p \in Pids : process[p] = s => p = noted[o]
          /\ pidFile' = [pidFile EXCEPT ![s] = noted[o]]
      BY <1>T, <2>4 DEF Record, At, Knows
    <3>2. \A p \in Pids : BeingRecorded(p) => p = noted[o]
      BY <1>T, <3>1 DEF BeingRecorded, At, Alone, Starting
    <3>3. EveryProcessIsKnown'
      BY <1>0, <1>T, <2>1, <2>2, <3>1, <3>2 DEF EveryProcessIsKnown, ManagerTypeOK
    <3>4. Knows(o)'
      BY <2>1, <2>3, <3>1 DEF Knows, At, Stopping
    <3>5. QED
      BY <1>0, <1>T, <2>2, <3>3, <3>4, OthersKnow DEF Untangled
  <2>5. CASE Forget(o)
    <3>1. /\ step[o] = "forget" /\ command[o] # "start" /\ ~Runs(s)
          /\ pidFile' = [pidFile EXCEPT ![s] = NoPid]
      BY <1>T, <2>5 DEF Forget, At, Knows, Stopping
    <3>2. \A p \in Pids : ~BeingRecorded(p)
      BY <1>T, <2>1, <3>1, NobodyRecords
    <3>3. EveryProcessIsKnown'
      BY <1>0, <1>T, <2>1, <2>2, <3>1, <3>2 DEF EveryProcessIsKnown, ManagerTypeOK, Runs
    <3>4. command[o] \in Stopping => \A i \in 1..turn[o] : ~Runs(Services[i])'
      BY <1>T, <2>1, <3>1 DEF Knows, Runs, Service
    <3>5. Knows(o)'
      BY <2>1, <2>3, <3>4 DEF Knows, At
    <3>6. QED
      BY <1>0, <1>T, <2>2, <3>3, <3>5, OthersKnow DEF Untangled
  <2>6. QED
    BY <1>7, <2>4, <2>5
<1>8. QED
  BY <1>1, <1>2, <1>4, <1>5, <1>6, <1>7 DEF OperatorStep

(* A process ends, or a stranger takes a pid.                              *)
LEMMA MachineInv ==
  ASSUME ManagerInv, NEW p \in Pids, Die(p) \/ TakePid(p) PROVE ManagerInv'
<1>1. /\ \E what \in {Free, Stranger} : process' = [process EXCEPT ![p] = what]
      /\ UNCHANGED <<pidFile, command, step, turn, noted, tangled>>
  BY DEF Die, TakePid, progress
<1>2. ManagerTypeOK' /\ AtRest'
  BY <1>1 DEF ManagerInv, ManagerTypeOK, AtRest
<1>3. NoneStarts
  BY <1>1, ProcessAssumption DEF NoneStarts, ManagerInv, ManagerTypeOK
<1>4. ASSUME ~tangled' PROVE Untangled'
  <2>1. ~tangled /\ Alone /\ (\A o \in Operators : Knows(o)) /\ EveryProcessIsKnown
    BY <1>1, <1>4 DEF ManagerInv, Untangled
  <2>2. Alone'
    BY <1>1, <2>1 DEF Alone
  <2>3. \A o \in Operators : Knows(o)'
    <3>1. SUFFICES ASSUME NEW o \in Operators PROVE Knows(o)'
      OBVIOUS
    <3>2. At(o, {"start"}, "spawn") \/ At(o, Stopping \cup {"status"}, "forget") =>
            Service(o) \in ServiceNames
      BY ServiceIsNamed DEF At, ManagerInv
    <3>3. \A i \in 1..(turn[o] - 1) : Services[i] \in ServiceNames
      <4>1. \A i \in 1..(turn[o] - 1) : i \in 1..Len(Services)
        BY ServiceCount DEF ManagerInv, ManagerTypeOK
      <4>2. QED
        BY <4>1 DEF ServiceNames
    <3>4. PICK s : s = Service(o)
      OBVIOUS
    <3>5. Service(o)' = s
      BY <1>1, <3>4 DEF Service
    <3>6. At(o, {"start"}, "record") \/ At(o, Stopping, "await") => s \in ServiceNames
      BY <3>4, ServiceIsNamed DEF At, ManagerInv
    <3>7. QED
      BY <1>1, <1>3, <2>1, <3>2, <3>3, <3>4, <3>5, <3>6, NoneRunsMore
      DEF Knows, At, NoneStarts, Runs
  <2>4. EveryProcessIsKnown'
    <3>1. \A q \in Pids : BeingRecorded(q) => BeingRecorded(q)'
      BY <1>1 DEF BeingRecorded, At
    <3>2. QED
      BY <1>1, <1>3, <2>1, <3>1 DEF EveryProcessIsKnown, NoneStarts
  <2>5. QED
    BY <2>2, <2>3, <2>4 DEF Untangled
<1>5. QED
  BY <1>2, <1>4 DEF ManagerInv

LEMMA ManagerNextInv == ASSUME ManagerInv, [ManagerNext]_managerVars PROVE ManagerInv'
<1>1. ASSUME NEW o \in Operators, OperatorStep(o) PROVE ManagerInv'
  <2>1. ManagerTypeOK' /\ AtRest'
    BY <1>1, OperatorTypes DEF ManagerInv
  <2>2. QED
    BY <1>1, <2>1, UntangledStep DEF ManagerInv
<1>2. CASE UNCHANGED managerVars
  <2>1. /\ ManagerTypeOK' = ManagerTypeOK /\ AtRest' = AtRest /\ tangled' = tangled
        /\ Alone' = Alone /\ EveryProcessIsKnown' = EveryProcessIsKnown
        /\ \A o \in Operators : Knows(o)' = Knows(o)
    BY <1>2 DEF managerVars, progress, ManagerTypeOK, AtRest, Alone, EveryProcessIsKnown,
       BeingRecorded, Knows, At, Service, Runs
  <2>2. QED
    BY <2>1 DEF ManagerInv, Untangled
<1>3. QED
  BY <1>1, <1>2, MachineInv DEF ManagerNext

LEMMA ManagerInductive == ManagerSpec => []ManagerInv
BY ManagerInitInv, ManagerNextInv, PTL DEF ManagerSpec

(* The manager's variables keep their types (distributed.py).              *)
THEOREM ManagerTypesAreRight == ManagerSpec => []ManagerTypeOK
BY ManagerInductive, PTL DEF ManagerInv

(* For any services, pids and number of commands, interrupted anywhere, on *)
(* a machine where anything dies and pids are given to others: no service  *)
(* runs twice, or unknown to its pid file (_start_component, _start_api,   *)
(* _start_logtail, _stop_process, status_all).                             *)
THEOREM ProcessesAreKnown == ManagerSpec => []EveryProcessIsKnown
<1>1. ManagerInv => EveryProcessIsKnown
  BY DEF ManagerInv, Untangled, EveryProcessIsKnown
<1>2. QED
  BY <1>1, ManagerInductive, PTL

(* stop_all finds everything that runs.                                    *)
THEOREM StopIsComplete == ManagerSpec => StopLeavesNothing
<1>1. ASSUME ManagerInv, ManagerInv', [ManagerNext]_managerVars, NEW o \in Operators,
             EndCommand(o), command[o] \in Stopping, ~tangled, NEW p \in Pids
      PROVE  process[p] \notin ServiceNames
  <2>1. Knows(o) /\ turn[o] = Len(Services) + 1
    BY <1>1, ServiceCount DEF ManagerInv, Untangled, EndCommand, ManagerTypeOK
  <2>2. \A i \in 1..Len(Services) : ~Runs(Services[i])
    BY <1>1, <2>1, ServiceCount DEF Knows
  <2>3. QED
    BY <2>2 DEF Runs, ServiceNames
<1>2. ManagerInv /\ ManagerInv' /\ [ManagerNext]_managerVars =>
        [\A o \in Operators : EndCommand(o) /\ command[o] \in Stopping =>
           tangled \/ \A p \in Pids : process[p] \notin ServiceNames]_managerVars
  BY <1>1
<1>3. QED
  BY <1>2, ManagerInductive, PTL DEF ManagerSpec, StopLeavesNothing
-----------------------------------------------------------------------------
(* The paper account.                                                      *)

(* Before the first order everybody has the starting cash; after it, the   *)
(* one that trades never finds the document missing again.                 *)
CashInv ==
  /\ savedCash = NoAccount => writers = {} /\ \A b \in Brokers : desk[b] # "up"
  /\ savedCash # NoAccount => savedCash = book
  /\ book >= 0
  /\ writers = {} => book = StartingCash /\ \A b \in Brokers : desk[b] = "up" =>
                                              money[b] = StartingCash
  /\ \A b \in writers : desk[b] # "creating" /\ (desk[b] = "up" => money[b] = book)

DeskInv == DeskTypeOK /\ (mishaps = 0 /\ OneWriter => CashInv)

LEMMA DeskConstants ==
  /\ StartingCash \in Nat /\ NoAccount \notin Int
  /\ \A v \in OrderValues : v \in Nat
  /\ \A l \in Layouts : l \subseteq Brokers
BY DeskAssumption DEF Brokers

LEMMA DeskInitInv == DeskInit => DeskInv
BY DeskConstants DEF DeskInit, DeskInv, DeskTypeOK, CashInv

(* An order of a broker that is up.                                        *)
LEMMA TradeInv ==
  ASSUME DeskInv, NEW b \in deployed, NEW amount \in Int, Trade(b, amount),
         amount >= 0 \/ -amount < money[b], lots' \in [Brokers -> Nat]
  PROVE  DeskInv'
<1>1. b \in Brokers /\ desk[b] = "up" /\ UNCHANGED <<deployed, desk>>
  BY DeskConstants DEF DeskInv, DeskTypeOK, Trade
<1>2. /\ money' = [money EXCEPT ![b] = money[b] + amount] /\ money[b] + amount \in Int
      /\ book' = book + amount /\ book + amount \in Int
      /\ writers' = writers \cup {b}
  BY <1>1 DEF DeskInv, DeskTypeOK, Trade
<1>3. money' \in [Brokers -> Int] /\ money'[b] = money[b] + amount
  BY <1>1, <1>2 DEF DeskInv, DeskTypeOK
<1>4. \/ savedCash' = money'[b] /\ mishaps' = mishaps
      \/ mishaps' = mishaps + 1 /\ savedCash' = savedCash
  BY DEF Trade, SaveCash
<1>5. DeskTypeOK'
  <2>1. savedCash' \in Int \cup {NoAccount} /\ mishaps' \in Nat
    BY <1>1, <1>3, <1>4 DEF DeskInv, DeskTypeOK
  <2>2. QED
    BY <1>1, <1>2, <1>3, <2>1 DEF DeskInv, DeskTypeOK
<1>6. ASSUME mishaps' = 0, OneWriter' PROVE CashInv'
  <2>1. mishaps = 0 /\ savedCash' = money[b] + amount
    BY <1>3, <1>4, <1>6 DEF DeskInv, DeskTypeOK
  <2>2. writers' = {b} /\ writers \subseteq {b} /\ OneWriter
    BY <1>2, <1>6 DEF OneWriter
  <2>3. money[b] = book
    <3>1. CashInv
      BY <2>1, <2>2 DEF DeskInv
    <3>2. CASE writers = {}
      BY <1>1, <3>1, <3>2 DEF CashInv
    <3>3. CASE b \in writers
      BY <1>1, <3>1, <3>3 DEF CashInv
    <3>4. QED
      BY <2>2, <3>2, <3>3
  <2>4. savedCash' = book' /\ savedCash' # NoAccount /\ book' >= 0
    BY <1>2, <2>1, <2>2, <2>3, DeskConstants DEF DeskInv, DeskTypeOK, CashInv
  <2>5. QED
    BY <1>1, <1>2, <1>3, <2>1, <2>2, <2>3, <2>4 DEF CashInv
<1>7. QED
  BY <1>5, <1>6 DEF DeskInv

LEMMA DeskStepInv == ASSUME DeskInv, NEW b \in deployed, DeskStep(b) PROVE DeskInv'
<1>0. b \in Brokers
  BY DeskConstants DEF DeskInv, DeskTypeOK
<1>1. CASE FindAccount(b) \/ CreateAccount(b) \/ LoadCashFails(b)
  <2>1. /\ \E amount \in Int : Reads(b, amount)
        /\ UNCHANGED <<deployed, book, writers>>
        /\ savedCash' \in Int \cup {NoAccount} /\ mishaps' \in Nat
    BY <1>1, DeskConstants DEF FindAccount, CreateAccount, LoadCashFails, DeskInv, DeskTypeOK
  <2>2. DeskTypeOK'
    BY <1>0, <2>1 DEF Reads, DeskInv, DeskTypeOK
  <2>3. ASSUME mishaps' = 0, OneWriter' PROVE CashInv'
    <3>1. mishaps = 0 /\ OneWriter /\ CashInv /\ ~LoadCashFails(b)
      BY <1>1, <2>1, <2>3 DEF FindAccount, CreateAccount, LoadCashFails, OneWriter, DeskInv,
         DeskTypeOK
    <3>2. \A c \in Brokers \ {b} : desk'[c] = desk[c] /\ money'[c] = money[c]
      BY <2>1 DEF Reads, DeskInv, DeskTypeOK
    <3>3. CASE FindAccount(b)
      <4>1. desk'[b] = "up" /\ money'[b] = savedCash /\ savedCash' = savedCash
            /\ savedCash # NoAccount
        BY <1>0, <3>3 DEF FindAccount, Reads, DeskInv, DeskTypeOK
      <4>2. /\ writers' = writers /\ book' = book /\ savedCash' = book /\ savedCash' # NoAccount
            /\ writers \subseteq Brokers /\ book >= 0
        BY <2>1, <3>1, <4>1, DeskConstants DEF CashInv, DeskInv, DeskTypeOK
      <4>3. writers = {} => book = StartingCash /\ \A c \in Brokers : desk'[c] = "up" =>
                                                       money'[c] = StartingCash
        BY <3>1, <3>2, <4>1, <4>2 DEF CashInv
      <4>4. \A c \in writers : desk'[c] # "creating" /\ (desk'[c] = "up" => money'[c] = book)
        BY <3>1, <3>2, <4>1, <4>2 DEF CashInv
      <4>5. QED
        BY <4>2, <4>3, <4>4 DEF CashInv
    <3>4. CASE CreateAccount(b)
      <4>1. /\ desk[b] = "creating" /\ desk'[b] = "up" /\ money'[b] = StartingCash
            /\ savedCash' = IF savedCash = NoAccount THEN StartingCash ELSE savedCash
        BY <1>0, <3>4 DEF CreateAccount, Reads, DeskInv, DeskTypeOK
      <4>2. b \notin writers /\ savedCash' = book /\ savedCash' # NoAccount
        BY <3>1, <4>1, DeskConstants DEF CashInv
      <4>3. /\ writers' = writers /\ book' = book /\ savedCash' = book /\ savedCash' # NoAccount
            /\ writers \subseteq Brokers /\ book >= 0
        BY <2>1, <3>1, <4>2, DeskConstants DEF CashInv, DeskInv, DeskTypeOK
      <4>4. writers = {} => book = StartingCash /\ \A c \in Brokers : desk'[c] = "up" =>
                                                       money'[c] = StartingCash
        BY <3>1, <3>2, <4>1 DEF CashInv
      <4>5. \A c \in writers : desk'[c] # "creating" /\ (desk'[c] = "up" => money'[c] = book)
        BY <3>1, <3>2, <4>1, <4>2, <4>3 DEF CashInv
      <4>6. QED
        BY <4>3, <4>4, <4>5 DEF CashInv
    <3>5. QED
      BY <1>1, <3>1, <3>3, <3>4
  <2>4. QED
    BY <2>2, <2>3 DEF DeskInv
<1>2. CASE FindNone(b) \/ GoDown(b)
  <2>1. /\ \E where \in {"creating", "down"} : desk' = [desk EXCEPT ![b] = where]
        /\ UNCHANGED <<deployed, savedCash, money, lots, book, writers, mishaps>>
    BY <1>2 DEF FindNone, GoDown
  <2>2. DeskTypeOK'
    BY <2>1 DEF DeskInv, DeskTypeOK
  <2>3. ASSUME CashInv PROVE CashInv'
    <3>1. desk'[b] # "up" /\ \A c \in Brokers \ {b} : desk'[c] = desk[c]
      BY <1>0, <2>1 DEF DeskInv, DeskTypeOK
    <3>2. b \in writers => desk'[b] # "creating"
      BY <1>0, <1>2, <2>3 DEF FindNone, GoDown, CashInv, DeskInv, DeskTypeOK
    <3>3. writers \subseteq Brokers
      BY DeskConstants DEF DeskInv, DeskTypeOK
    <3>4. QED
      BY <2>1, <2>3, <3>1, <3>2, <3>3 DEF CashInv
  <2>4. QED
    BY <2>1, <2>2, <2>3 DEF DeskInv, OneWriter
<1>3. ASSUME NEW value \in OrderValues, BuyShares(b, value) \/ SellShares(b, value)
      PROVE  DeskInv'
  <2>1. value \in Int /\ -value \in Int /\ value >= 0 /\ -(-value) = value
    BY DeskConstants
  <2>2. lots' \in [Brokers -> Nat]
    BY <1>0, <1>3 DEF BuyShares, SellShares, DeskInv, DeskTypeOK
  <2>3. QED
    BY <1>3, <2>1, <2>2, TradeInv DEF BuyShares, SellShares
<1>4. QED
  BY <1>1, <1>2, <1>3 DEF DeskStep

LEMMA DeskInductive == DeskSpec => []DeskInv
<1>1. ASSUME DeskInv, [DeskNext]_deskVars PROVE DeskInv'
  <2>1. CASE UNCHANGED deskVars
    BY <1>1, <2>1 DEF deskVars, DeskInv, DeskTypeOK, CashInv, OneWriter
  <2>2. QED
    BY <1>1, <2>1, DeskStepInv DEF DeskNext
<1>2. QED
  BY <1>1, DeskInitInv, PTL DEF DeskSpec

(* The desk's variables keep their types (paper.py).                       *)
THEOREM DeskTypesAreRight == DeskSpec => []DeskTypeOK
BY DeskInductive, PTL DEF DeskInv

(* For any processes and order values: as long as one process trades  *)
(* and the database answers, no restart and no other process makes the     *)
(* account lose or repeat an order (_load_cash, _save_cash).               *)
THEOREM AccountIsKept == DeskSpec => []AccountKept
<1>1. DeskInv => AccountKept
  BY DEF DeskInv, CashInv, AccountKept
<1>2. QED
  BY <1>1, DeskInductive, PTL

-----------------------------------------------------------------------------
(* The parts side by side.                                                 *)

LEMMA PartsStep ==
  ASSUME [PartsNext]_partVars
  PROVE  /\ [Next]_btVars /\ [ReplayNext]_replayVars /\ [JobsNext]_tableVars
         /\ [ManagerNext]_managerVars /\ [DeskNext]_deskVars
BY DEF PartsNext, partVars, EngineStep, ReplayStep, JobsStep, ManagerStep, DeskPartStep

(* A behaviour of MCParts is one of every part: the parts share no state,  *)
(* and in a behaviour that is about one of them the others stutter.  What  *)
(* the theorems say of a part holds where the parts are checked together.  *)
THEOREM EveryPartIsItself ==
  PartsSpec => Spec /\ ReplaySpec /\ JobsSpec /\ ManagerSpec /\ DeskSpec
<1>1. PartsSpec => PartsInit /\ [][PartsNext]_partVars
  BY PTL DEF PartsSpec
<1>2. PartsInit => Init /\ ReplayInit /\ JobsInit /\ ManagerInit /\ DeskInit
  BY DEF PartsInit
<1>3. [PartsNext]_partVars =>
        /\ [Next]_btVars /\ [ReplayNext]_replayVars /\ [JobsNext]_tableVars
        /\ [ManagerNext]_managerVars /\ [DeskNext]_deskVars
  BY PartsStep
<1>4. QED
  BY <1>1, <1>2, <1>3, PTL DEF Spec, ReplaySpec, JobsSpec, ManagerSpec, DeskSpec

(* Every part keeps its variables in their types: the engines, the replayed*)
(* pipeline, the job table, the process manager and the paper account.     *)
THEOREM PartsTypesAreRight == PartsSpec => []TypesOK
<1>1. TypeOK /\ ReplayTypeOK /\ JobsTypeOK /\ ManagerTypeOK /\ DeskTypeOK => TypesOK
  BY DEF TypesOK
<1>2. QED
  BY <1>1, EveryPartIsItself, TypesAreRight, ReplayTypesAreRight, JobsTypesAreRight,
     ManagerTypesAreRight, DeskTypesAreRight, PTL
=============================================================================
