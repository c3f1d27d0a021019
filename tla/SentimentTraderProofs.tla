------------------------- MODULE SentimentTraderProofs -------------------------
(***************************************************************************)
(* Theorems about SentimentTrader for every set of symbols, events and     *)
(* prices, every cash, allocation and window, and every bound.             *)
(***************************************************************************)
EXTENDS SentimentTrader, SequenceTheorems, TLAPS

LEMMA PricesAreNat == \A p \in Prices : p \in Nat /\ p > 0
BY TraderAssumption

LEMMA BoundsAreNat ==
  /\ MaxTime \in Nat /\ MaxEvents \in Nat /\ MaxRestarts \in Nat
  /\ DedupWindow \in Nat /\ DedupWindow > 0 /\ Never \in Int
  /\ Allocation \in 0..100 /\ InitialCash \in Nat
  /\ \A m \in MaxHolds : m \in Nat
BY TraderAssumption DEF Never

LEMMA EventType ==
  \A e \in Events : e \in [symbols : Seq(Symbols), mood : Moods, size : 0..100]
BY TraderAssumption

LEMMA NothingTypes ==
  /\ NoPosition \in Position
  /\ Empty \in [Symbols -> Position]
  /\ NoTrades \in [Symbols -> [Sides -> {Never} \cup 0..MaxTime]]
  /\ NoEvent \in [symbols : Seq(Symbols), mood : Moods, size : 0..100]
  /\ AnySymbol \in Symbols
<1>1. AnySymbol \in Symbols
  BY TraderAssumption DEF AnySymbol
<1>2. NoEvent \in [symbols : Seq(Symbols), mood : Moods, size : 0..100]
  BY DEF NoEvent, Moods
<1>3. QED
  BY <1>1, <1>2 DEF NoPosition, Position, Empty, NoTrades

(* Division of shares: a whole number again.                               *)
LEMMA DivType == \A a \in Nat, b \in Nat : b > 0 => a \div b \in Nat
OBVIOUS

LEMMA TimesType == \A a \in Nat, b \in Nat : a * b \in Nat
OBVIOUS

(* What should_buy allows is affordable.                                   *)
LEMMA ShouldBuyAffordable ==
  ASSUME NEW p \in Prices, NEW size \in 0..100, cash \in Nat
  PROVE  /\ ShouldBuy(size, p) \in Nat
         /\ ShouldBuy(size, p) > 0 => p * ShouldBuy(size, p) <= cash
<1> DEFINE percent == IF Allocation > 0 THEN Smaller(size, Allocation) ELSE size
           shares  == (cash * percent) \div (100 * p)
<1>1. p \in Nat /\ p > 0 /\ percent \in Nat
  BY PricesAreNat, BoundsAreNat DEF Smaller
<1>2. cash * percent \in Nat /\ 100 * p \in Nat /\ 100 * p > 0
  BY <1>1, TimesType
<1>3. shares \in Nat
  <2> HIDE DEF percent
  <2>1. QED
    BY <1>2, DivType
<1>4. ShouldBuy(size, p) = IF shares * p < cash THEN shares ELSE 0
  BY DEF ShouldBuy
<1> HIDE DEF percent, shares
<1>5. shares * p = p * shares /\ p * shares \in Nat
  BY <1>1, <1>3
<1>6. QED
  BY <1>3, <1>4, <1>5

-----------------------------------------------------------------------------
(* Types.                                                                  *)

(* A buy has a symbol at hand, and what is about to be executed is a trade:*)
(* the hold checker's a sell, the loop's one it can pay for.  Cash only    *)
(* grows between the decision and the execution, because the hold checker  *)
(* is the only other spender and never buys.                               *)
HandsInv ==
  /\ cash >= 0
  /\ pc = "buying" => event.symbols # <<>>
  /\ pc = "execute" => /\ trade \in Trade
                       /\ trade.action = "buy" => /\ trade.price > 0
                                                  /\ trade.price * trade.shares <= cash
  /\ hpc = "execute" => hTrade \in Trade /\ hTrade.action = "sell"

TraderInv == TypeOK /\ HandsInv

LEMMA InitTrader == Init => TraderInv
BY BoundsAreNat, NothingTypes DEF Init, TraderInv, TypeOK, HandsInv

(* The pieces of an event.                                                 *)
LEMMA EventPieces ==
  ASSUME TypeOK, event.symbols # <<>>
  PROVE  /\ Current \in Symbols
         /\ Rest \in [symbols : Seq(Symbols), mood : Moods, size : 0..100]
BY DEF TypeOK, Current, Rest

LEMMA NotedType ==
  ASSUME TypeOK, NEW s \in Symbols, NEW a \in Sides, NEW t \in 0..MaxTime
  PROVE  Noted(s, a, t) \in [Symbols -> [Sides -> {Never} \cup 0..MaxTime]]
<1>1. last \in [Symbols -> [Sides -> {Never} \cup 0..MaxTime]]
  BY DEF TypeOK
<1>2. [last[s] EXCEPT ![a] = t] \in [Sides -> {Never} \cup 0..MaxTime]
  BY <1>1
<1>3. QED
  BY <1>1, <1>2 DEF Noted

(* What a decision leaves behind.                                          *)
LEMMA DecideType ==
  ASSUME TypeOK, NEW s \in Symbols, s = Current, NEW a \in Sides,
         NEW n \in Nat, NEW p \in Nat, Decide(a, n, p)
  PROVE  /\ last' \in [Symbols -> [Sides -> {Never} \cup 0..MaxTime]]
         /\ pc' \in {"next", "execute"}
         /\ trade' \in Trade \cup {NoTrade}
         /\ pc' = "execute" => /\ trade' = [symbol |-> s, action |-> a, shares |-> n, price |-> p]
                               /\ trade' \in Trade
<1>1. now \in 0..MaxTime /\ trade \in Trade \cup {NoTrade}
  BY DEF TypeOK
<1>2. CASE Recent(Current, a, now)
  BY <1>2 DEF Decide, TypeOK
<1>3. CASE ~Recent(Current, a, now)
  <2>1. /\ pc' = "execute"
        /\ last' = Noted(s, a, now)
        /\ trade' = [symbol |-> s, action |-> a, shares |-> n, price |-> p]
    BY <1>3 DEF Decide
  <2>2. trade' \in Trade
    BY <2>1 DEF Trade
  <2>3. QED
    BY <2>1, <2>2, <1>1, NotedType
<1>4. QED
  BY <1>2, <1>3

(* An accepted order: a buy is paid from cash it was decided with.         *)
LEMMA AcceptedType ==
  ASSUME TypeOK, cash >= 0, NEW t \in Trade, NEW at \in 0..MaxTime,
         t.action = "buy" => t.price > 0 /\ t.price * t.shares <= cash,
         Accepted(t, at)
  PROVE  orders' \in Seq(Order) /\ cash' \in Int /\ cash' >= 0
<1>1. orders \in Seq(Order) /\ cash \in Nat /\ restarts \in Nat /\ at \in Nat
  BY BoundsAreNat DEF TypeOK
<1> DEFINE o == [symbol |-> t.symbol, action |-> t.action, shares |-> t.shares,
                 at |-> at, life |-> restarts, status |-> "open"]
<1>2. o \in Order
  BY <1>1 DEF Trade, Order
<1>3. orders' = Append(orders, o)
  BY DEF Accepted
<1>4. orders' \in Seq(Order)
  BY <1>1, <1>2, <1>3
<1>5. PICK p \in IF t.price = 0 THEN Prices ELSE {t.price} :
        cash' = IF t.action = "buy" THEN cash - p * t.shares ELSE cash + p * t.shares
  BY DEF Accepted
<1>6. p \in Nat /\ t.shares \in Nat
  BY <1>5, PricesAreNat DEF Trade
<1>7. p * t.shares \in Nat
  BY <1>6, TimesType
<1>8. CASE t.action = "buy"
  <2>1. p = t.price
    BY <1>8, <1>5
  <2>2. p * t.shares <= cash
    BY <2>1, <1>8
  <2>3. QED
    BY <1>1, <1>4, <1>5, <1>7, <1>8, <2>2
<1>9. CASE t.action # "buy"
  BY <1>1, <1>4, <1>5, <1>7, <1>9
<1>10. QED
  BY <1>8, <1>9

(* A position a buy adds to, or opens.                                     *)
LEMMA GrownPosition ==
  ASSUME NEW pos \in Position, NEW n \in Nat, NEW t \in Nat
  PROVE  [qty |-> pos.qty + n, entry |-> IF pos.qty > 0 THEN pos.entry ELSE t] \in Position
<1>1. pos.qty \in Nat /\ pos.entry \in Nat
  BY DEF Position
<1> DEFINE q == pos.qty + n
           e == IF pos.qty > 0 THEN pos.entry ELSE t
<1>2. q \in Nat /\ e \in Nat
  BY <1>1
<1> HIDE DEF q, e
<1>3. [qty |-> q, entry |-> e] \in Position
  BY <1>2 DEF Position
<1>4. QED
  BY <1>3 DEF q, e

LEMMA OutsideTrader == ASSUME TraderInv, Outside PROVE TraderInv'
<1> USE DEF TraderInv, TypeOK, HandsInv
<1>1. CASE TimePasses
  BY <1>1, BoundsAreNat DEF TimePasses, loop, holder
<1>2. CASE OnSentiment
  <2>1. PICK e \in Events : queue' = Append(queue, e)
    BY <1>2 DEF OnSentiment
  <2>2. queue' \in Seq(Events)
    BY <2>1
  <2>3. QED
    BY <1>2, <2>2, BoundsAreNat DEF OnSentiment, world, loop, holder
<1>3. CASE \E i \in 1..Len(orders) : OrderFills(i) \/ OrderFails(i)
  <2> PICK i \in 1..Len(orders) : OrderFills(i) \/ OrderFails(i)
    BY <1>3
  <2>1. orders[i] \in Order
    BY ElementOfSeq
  <2>2. Closed(orders[i], "filled") \in Order /\ Closed(orders[i], "failed") \in Order
    BY <2>1 DEF Closed, Order
  <2>3. ASSUME NEW o \in Order PROVE [orders EXCEPT ![i] = o] \in Seq(Order)
    BY <2>3, ExceptSeq
  <2>4. CASE OrderFills(i)
    <3>1. orders' \in Seq(Order)
      BY <2>2, <2>3, <2>4 DEF OrderFills
    <3> DEFINE o == orders[i]
               new == IF o.action = "sell" THEN NoPosition
                      ELSE [qty   |-> store[o.symbol].qty + o.shares,
                            entry |-> IF store[o.symbol].qty > 0 THEN store[o.symbol].entry ELSE clock]
    <3>a. o.symbol \in Symbols /\ o.shares \in Nat /\ clock \in Nat
      BY <2>1, BoundsAreNat DEF Order
    <3>b. new \in Position
      BY <3>a, NothingTypes, GrownPosition
    <3>c. store' = [store EXCEPT ![o.symbol] = new]
      BY <2>4 DEF OrderFills
    <3> HIDE DEF new
    <3>2. store' \in [Symbols -> Position]
      BY <3>a, <3>b, <3>c
    <3>3. QED
      BY <2>4, <3>1, <3>2 DEF OrderFills, loop, holder
  <2>5. CASE OrderFails(i)
    <3>1. orders' \in Seq(Order)
      BY <2>2, <2>3, <2>5 DEF OrderFails
    <3>2. QED
      BY <2>5, <3>1 DEF OrderFails, loop, holder
  <2>6. QED
    BY <2>4, <2>5
<1>4. QED
  BY <1>1, <1>2, <1>3 DEF Outside

LEMMA ProcessTrader == ASSUME TraderInv, Process PROVE TraderInv'
<1> USE DEF TraderInv, TypeOK, HandsInv
<1>1. CASE Dequeue
  <2>1. Head(queue) \in Events /\ Tail(queue) \in Seq(Events)
    BY <1>1, HeadTailProperties DEF Dequeue
  <2>2. event' \in [symbols : Seq(Symbols), mood : Moods, size : 0..100]
    BY <1>1, <2>1, EventType DEF Dequeue
  <2>3. QED
    BY <1>1, <2>1, <2>2 DEF Dequeue, world, holder
<1>2. CASE ReadPositions
  BY <1>2 DEF ReadPositions, world, holder
<1>3. CASE DecideSell
  <2>1. Current \in Symbols /\ event' \in [symbols : Seq(Symbols), mood : Moods, size : 0..100]
    BY <1>3, EventPieces DEF DecideSell
  <2>2. PICK p \in Prices \cup {0} : Decide("sell", snap[Current].qty, p)
    BY <1>3 DEF DecideSell
  <2>3. snap[Current].qty \in Nat /\ p \in Nat /\ "sell" \in Sides
    <3>1. snap[Current] \in Position
      BY <2>1
    <3>2. p \in Nat
      BY PricesAreNat
    <3>3. QED
      BY <3>1, <3>2 DEF Position, Sides
  <2>4. /\ last' \in [Symbols -> [Sides -> {Never} \cup 0..MaxTime]]
        /\ pc' \in {"next", "execute"}
        /\ trade' \in Trade \cup {NoTrade}
        /\ pc' = "execute" => trade' \in Trade /\ trade'.action = "sell"
    BY <2>1, <2>2, <2>3, DecideType
  <2>5. snap' \in [Symbols -> Position]
    BY <1>3, NothingTypes DEF DecideSell
  <2>6. QED
    BY <1>3, <2>1, <2>4, <2>5 DEF DecideSell, world, holder
<1>4. CASE StartBuy
  BY <1>4 DEF StartBuy, world, holder
<1>5. CASE DecideBuy
  <2>1. Current \in Symbols /\ event' \in [symbols : Seq(Symbols), mood : Moods, size : 0..100]
    BY <1>5, EventPieces DEF DecideBuy
  <2>2. CASE \E p \in Prices :
               /\ cash > 0
               /\ ShouldBuy(event.size, p) > 0
               /\ Decide("buy", ShouldBuy(event.size, p), p)
    <3>1. PICK p \in Prices : /\ ShouldBuy(event.size, p) > 0
                              /\ Decide("buy", ShouldBuy(event.size, p), p)
      BY <2>2
    <3>2. event.size \in 0..100 /\ cash \in Nat /\ p \in Nat /\ p > 0 /\ "buy" \in Sides
      BY PricesAreNat DEF Sides
    <3>3. /\ ShouldBuy(event.size, p) \in Nat
          /\ p * ShouldBuy(event.size, p) <= cash
      BY <3>1, <3>2, ShouldBuyAffordable
    <3>4. /\ last' \in [Symbols -> [Sides -> {Never} \cup 0..MaxTime]]
          /\ pc' \in {"next", "execute"}
          /\ trade' \in Trade \cup {NoTrade}
          /\ pc' = "execute" => /\ trade' \in Trade
                                /\ trade' = [symbol |-> Current, action |-> "buy",
                                             shares |-> ShouldBuy(event.size, p), price |-> p]
      BY <2>1, <3>1, <3>2, <3>3, DecideType
    <3>5. pc' = "execute" => trade'.price > 0 /\ trade'.price * trade'.shares <= cash
      BY <3>2, <3>3, <3>4
    <3>6. QED
      BY <1>5, <2>1, <3>4, <3>5 DEF DecideBuy, world, holder
  <2>3. CASE pc' = "next" /\ UNCHANGED <<last, trade>>
    BY <1>5, <2>1, <2>3 DEF DecideBuy, world, holder
  <2>4. QED
    BY <1>5, <2>2, <2>3 DEF DecideBuy
<1>6. CASE SkipSymbol
  <2>1. event' \in [symbols : Seq(Symbols), mood : Moods, size : 0..100]
    BY <1>6, EventPieces DEF SkipSymbol
  <2>2. QED
    BY <1>6, <2>1 DEF SkipSymbol, world, holder
<1>7. CASE EndEvent
  BY <1>7, NothingTypes, BoundsAreNat DEF EndEvent, world, holder
<1>8. CASE Execute
  <2>1. orders' \in Seq(Order) /\ cash' \in Int /\ cash' >= 0
    BY <1>8, AcceptedType DEF Execute
  <2>2. QED
    BY <1>8, <2>1 DEF Execute, holder
<1>9. CASE Publish
  BY <1>9 DEF Publish, world, holder
<1>10. CASE EventRaises
  BY <1>10, NothingTypes, BoundsAreNat DEF EventRaises, world, holder
<1>11. QED
  BY <1>1, <1>2, <1>3, <1>4, <1>5, <1>6, <1>7, <1>8, <1>9, <1>10 DEF Process

LEMMA HoldTrader == ASSUME TraderInv, HoldCheck PROVE TraderInv'
<1> USE DEF TraderInv, TypeOK, HandsInv
<1>1. CASE HoldRead
  BY <1>1 DEF HoldRead, world, loop
<1>2. CASE HoldDecide
  <2>1. hTodo' \in [Symbols -> Position]
    BY <1>2, NothingTypes DEF HoldDecide
  <2>2. CASE hpc' = "pick" /\ UNCHANGED <<last, hTrade>>
    BY <1>2, <2>1, <2>2 DEF HoldDecide, world, loop
  <2>3. CASE /\ hpc' = "execute"
             /\ last' = Noted(hSymbol, "sell", hNow)
             /\ \E p \in Prices :
                  hTrade' = [symbol |-> hSymbol, action |-> "sell",
                             shares |-> hTodo[hSymbol].qty, price |-> p]
    <3>1. last' \in [Symbols -> [Sides -> {Never} \cup 0..MaxTime]]
      BY <2>3, NotedType DEF Sides
    <3>2. hTrade' \in Trade /\ hTrade'.action = "sell"
      BY <2>3, PricesAreNat DEF Trade, Sides, Position
    <3>3. QED
      BY <1>2, <2>1, <2>3, <3>1, <3>2 DEF HoldDecide, world, loop
  <2>4. QED
    BY <1>2, <2>2, <2>3 DEF HoldDecide
<1>3. CASE HoldExecute
  <2>1. hTrade \in Trade /\ hTrade.action = "sell"
    BY <1>3 DEF HoldExecute
  <2>2. CASE Accepted(hTrade, hNow)
    <3>1. orders' \in Seq(Order) /\ cash' \in Int /\ cash' >= 0
      BY <2>1, <2>2, AcceptedType
    <3>2. cash' >= cash
      <4>1. PICK p \in IF hTrade.price = 0 THEN Prices ELSE {hTrade.price} :
              cash' = cash + p * hTrade.shares
        BY <2>1, <2>2 DEF Accepted
      <4>2. p \in Nat /\ hTrade.shares \in Nat
        BY <2>1, <4>1, PricesAreNat DEF Trade
      <4>3. p * hTrade.shares \in Nat
        BY <4>2, TimesType
      <4>4. QED
        BY <4>1, <4>3
    <3>3. pc = "execute" /\ trade.action = "buy" => trade.price * trade.shares <= cash'
      <4>1. ASSUME trade \in Trade PROVE trade.price * trade.shares \in Nat
        BY <4>1, TimesType DEF Trade
      <4>2. QED
        BY <3>1, <3>2, <4>1
    <3>4. QED
      BY <1>3, <3>1, <3>3 DEF HoldExecute, loop
  <2>3. CASE UNCHANGED <<cash, orders>>
    BY <1>3, <2>3 DEF HoldExecute, loop
  <2>4. QED
    BY <1>3, <2>2, <2>3 DEF HoldExecute
<1>4. CASE HoldPublished
  BY <1>4 DEF HoldPublished, world, loop
<1>5. CASE HoldEnd
  BY <1>5, NothingTypes, BoundsAreNat DEF HoldEnd, world, loop
<1>6. CASE HoldRaises
  BY <1>6, NothingTypes, BoundsAreNat DEF HoldRaises, world, loop
<1>7. CASE \E s \in Symbols : HoldPick(s)
  <2> PICK s \in Symbols : HoldPick(s)
    BY <1>7
  <2>1. CASE hTodo' = [hTodo EXCEPT ![s] = NoPosition] /\ UNCHANGED <<hpc, hSymbol>>
    BY <2>1, NothingTypes DEF HoldPick, world, loop
  <2>2. CASE hpc' = "price" /\ hSymbol' = s /\ UNCHANGED hTodo
    BY <2>2 DEF HoldPick, world, loop
  <2>3. QED
    BY <2>1, <2>2 DEF HoldPick
<1>8. QED
  BY <1>1, <1>2, <1>3, <1>4, <1>5, <1>6, <1>7 DEF HoldCheck

LEMMA RestartTrader == ASSUME TraderInv, Restart PROVE TraderInv'
<1>1. restarts' \in 0..MaxRestarts /\ 0 \in 0..MaxTime
  BY BoundsAreNat DEF TraderInv, TypeOK, Restart
<1>2. <<>> \in Seq(Events)
  OBVIOUS
<1>3. QED
  BY <1>1, <1>2, NothingTypes DEF TraderInv, TypeOK, HandsInv, Restart, world

LEMMA NextTrader == TraderInv /\ [Next]_vars => TraderInv'
<1> SUFFICES ASSUME TraderInv, [Next]_vars PROVE TraderInv'
  OBVIOUS
<1>1. CASE UNCHANGED vars
  BY <1>1 DEF TraderInv, TypeOK, HandsInv, vars, world, loop, holder
<1>2. CASE Next
  BY <1>2, OutsideTrader, ProcessTrader, HoldTrader, RestartTrader DEF Next
<1>3. QED
  BY <1>1, <1>2

(* The types, and the cash behind every decided buy, hold in every state.  *)
THEOREM TraderInvariant == Spec => []TraderInv
BY InitTrader, NextTrader, PTL DEF Spec

(* Type correctness, for every configuration.                              *)
THEOREM TypeCorrect == Spec => []TypeOK
<1>1. TraderInv => TypeOK
  BY DEF TraderInv
<1>2. QED
  BY <1>1, TraderInvariant, PTL

(* No decision spends cash an earlier one has spent, however the events    *)
(* queue up and whether or not the hold checker runs.                      *)
THEOREM CashStaysSolvent == Spec => []CashNeverNegative
<1>1. TraderInv => CashNeverNegative
  BY DEF TraderInv, HandsInv, CashNeverNegative
<1>2. QED
  BY <1>1, TraderInvariant, PTL

-----------------------------------------------------------------------------
(* Spacing.                                                                *)

Mine(i) == orders[i].life = restarts
SameTrade(i) == orders[i].symbol = trade.symbol /\ orders[i].action = trade.action

(* The dedup memory covers every order of this life of the process, and an *)
(* order about to be placed is noted and far enough from all its twins.    *)
MemoryInv ==
  /\ hpc = "asleep"
  /\ \A i \in 1..Len(orders) :
       Mine(i) => orders[i].at <= last[orders[i].symbol][orders[i].action]
  /\ pc = "execute" =>
       /\ last[trade.symbol][trade.action] = now
       /\ \A i \in 1..Len(orders) :
            Mine(i) /\ SameTrade(i) => now - orders[i].at >= DedupWindow

SpacedInv ==
  /\ \A i \in 1..Len(orders) : orders[i].life <= restarts
  /\ maxHold = 0 => MemoryInv
  /\ OrdersSpaced

LEMMA InitSpaced == Init => SpacedInv
BY DEF Init, SpacedInv, MemoryInv, OrdersSpaced

(* A step that touches neither the orders nor the memory.                  *)
LEMMA QuietSpaced ==
  ASSUME SpacedInv, UNCHANGED <<orders, last, restarts, maxHold>>,
         maxHold = 0 => hpc' = hpc,
         pc' = "execute" => pc = "execute" /\ UNCHANGED <<trade, now>>
  PROVE  SpacedInv'
BY DEF SpacedInv, MemoryInv, OrdersSpaced, Twins, Mine, SameTrade

(* A step of the hold checker.                                             *)
LEMMA HoldingSpaced ==
  ASSUME SpacedInv, maxHold # 0, UNCHANGED <<restarts, maxHold>>,
         \A i \in 1..Len(orders') : orders'[i].life <= restarts
  PROVE  SpacedInv'
BY DEF SpacedInv, OrdersSpaced

(* A decision notes the trade and keeps its distance.                      *)
LEMMA DecideSpaced ==
  ASSUME TypeOK, SpacedInv, UNCHANGED <<orders, restarts, maxHold, hpc, now>>, pc # "execute",
         NEW s \in Symbols, s = Current, NEW a \in Sides, NEW n, NEW p, Decide(a, n, p)
  PROVE  SpacedInv'
<1>1. CASE pc' = "next" /\ UNCHANGED <<last, trade>>
  BY <1>1, QuietSpaced
<1>2. CASE ~Recent(s, a, now)
  <2>1. /\ pc' = "execute"
        /\ last' = Noted(s, a, now)
        /\ trade' = [symbol |-> s, action |-> a, shares |-> n, price |-> p]
    BY <1>2 DEF Decide
  <2>2. /\ last \in [Symbols -> [Sides -> Int]]
        /\ now \in Int
        /\ DedupWindow \in Nat
        /\ orders \in Seq(Order)
    BY BoundsAreNat DEF TypeOK
  <2>3. now - last[s][a] >= DedupWindow /\ last[s][a] \in Int
    BY <1>2, <2>2 DEF Recent
  <2>4. ASSUME NEW t \in Symbols, NEW b \in Sides
        PROVE  last'[t][b] = IF t = s /\ b = a THEN now ELSE last[t][b]
    BY <2>1, <2>2 DEF Noted
  <2>5. ASSUME NEW i \in 1..Len(orders)
        PROVE  orders[i].symbol \in Symbols /\ orders[i].action \in Sides /\ orders[i].at \in Nat
    <3>1. orders[i] \in Order
      BY <2>2, ElementOfSeq
    <3>2. QED
      BY <3>1 DEF Order
  <2>6. CASE maxHold # 0
    BY <2>6 DEF SpacedInv, OrdersSpaced
  <2>7. CASE maxHold = 0
    <3>1. MemoryInv /\ OrdersSpaced
      BY <2>7 DEF SpacedInv
    <3>2. ASSUME NEW i \in 1..Len(orders), Mine(i)
          PROVE  /\ orders[i].at <= last'[orders[i].symbol][orders[i].action]
                 /\ SameTrade(i)' => now - orders[i].at >= DedupWindow
      <4>1. orders[i].at <= last[orders[i].symbol][orders[i].action]
        BY <3>1, <3>2 DEF MemoryInv
      <4>2. last[orders[i].symbol][orders[i].action] \in Int
        BY <2>2, <2>5
      <4>3. CASE orders[i].symbol = s /\ orders[i].action = a
        BY <2>2, <2>3, <2>4, <2>5, <4>1, <4>3
      <4>4. CASE ~(orders[i].symbol = s /\ orders[i].action = a)
        BY <2>1, <2>4, <2>5, <4>1, <4>4 DEF SameTrade
      <4>5. QED
        BY <4>3, <4>4
    <3>3. last'[trade'.symbol][trade'.action] = now
      BY <2>1, <2>4
    <3>4. MemoryInv'
      BY <3>1, <3>2, <3>3 DEF MemoryInv, Mine
    <3>5. OrdersSpaced'
      BY <3>1 DEF OrdersSpaced, Twins
    <3>6. QED
      BY <3>4, <3>5 DEF SpacedInv
  <2>8. QED
    BY <2>6, <2>7
<1>3. QED
  BY <1>1, <1>2 DEF Decide

(* The order of a decided trade is the last of its twins, a window later.  *)
LEMMA ExecuteSpaced == ASSUME TraderInv, SpacedInv, Execute PROVE SpacedInv'
<1>1. CASE UNCHANGED orders
  BY <1>1, QuietSpaced DEF Execute, holder
<1>2. CASE Accepted(trade, now)
  <2> DEFINE o == [symbol |-> trade.symbol, action |-> trade.action, shares |-> trade.shares,
                   at |-> now, life |-> restarts, status |-> "open"]
             n == Len(orders)
  <2>1. orders' = Append(orders, o)
    BY <1>2 DEF Accepted
  <2>2. /\ orders \in Seq(Order) /\ n \in Nat /\ now \in Nat
        /\ restarts \in Nat /\ DedupWindow \in Nat
    BY BoundsAreNat DEF TraderInv, TypeOK
  <2>3. Len(orders') = n + 1 /\ orders'[n + 1] = o
    BY <2>1, <2>2
  <2>4. \A i \in 1..n : orders'[i] = orders[i] /\ i \in 1..(n + 1)
    BY <2>1, <2>2
  <2>5. UNCHANGED <<last, restarts, now, trade, maxHold, hpc>> /\ pc = "execute" /\ pc' = "publish"
    BY DEF Execute, holder
  <2> HIDE DEF o, n
  <2>6. \A i \in 1..(n + 1) : i \in 1..n \/ i = n + 1
    BY <2>2
  <2>7. o.life = restarts /\ o.at = now /\ o.symbol = trade.symbol /\ o.action = trade.action
    BY DEF o
  <2>8. \A i \in 1..n : orders[i].life <= restarts
    BY DEF SpacedInv, n
  <2>9. \A i \in 1..Len(orders') : orders'[i].life <= restarts
    BY <2>2, <2>3, <2>4, <2>6, <2>7, <2>8
  <2>10. CASE maxHold # 0
    BY <2>5, <2>9, <2>10, HoldingSpaced
  <2>11. CASE maxHold = 0
    <3>1. MemoryInv /\ OrdersSpaced
      BY <2>11 DEF SpacedInv
    <3>2. MemoryInv'
      <4>1. \A i \in 1..Len(orders') :
              orders'[i].life = restarts => orders'[i].at <= last[orders'[i].symbol][orders'[i].action]
        BY <2>2, <2>3, <2>4, <2>5, <2>6, <2>7, <3>1 DEF MemoryInv, Mine, n
      <4>2. QED
        BY <2>5, <3>1, <4>1 DEF MemoryInv, Mine
    <3>3. ASSUME NEW i \in 1..Len(orders'), NEW j \in 1..Len(orders'), i < j, Twins(i, j)'
          PROVE  orders'[j].at - orders'[i].at >= DedupWindow
      <4>1. i \in 1..n
        BY <2>2, <2>3, <2>6, <3>3
      <4>2. CASE j \in 1..n
        BY <2>4, <2>11, <3>1, <3>3, <4>1, <4>2 DEF OrdersSpaced, Twins, n
      <4>3. CASE j = n + 1
        <5>1. Mine(i) /\ SameTrade(i)
          BY <2>3, <2>4, <2>7, <3>3, <4>1, <4>3 DEF Twins, Mine, SameTrade
        <5>2. now - orders[i].at >= DedupWindow
          BY <2>5, <3>1, <4>1, <5>1 DEF MemoryInv, n
        <5>3. QED
          BY <2>3, <2>4, <2>7, <4>1, <4>3, <5>2
      <4>4. QED
        BY <2>3, <2>6, <4>2, <4>3
    <3>4. OrdersSpaced'
      BY <3>3 DEF OrdersSpaced
    <3>5. QED
      BY <2>5, <2>9, <3>2, <3>4 DEF SpacedInv
  <2>12. QED
    BY <2>10, <2>11
<1>3. QED
  BY <1>1, <1>2 DEF Execute

(* Closing an order changes nothing that counts.                           *)
LEMMA CloseSpaced ==
  ASSUME TypeOK, SpacedInv, NEW i \in 1..Len(orders), NEW st \in {"filled", "failed"},
         orders' = [orders EXCEPT ![i] = Closed(@, st)],
         UNCHANGED <<last, loop, holder, restarts>>
  PROVE  SpacedInv'
<1>1. orders \in Seq(Order) /\ orders[i] \in Order
  BY ElementOfSeq DEF TypeOK
<1>2. Closed(orders[i], st) \in Order
  BY <1>1 DEF Closed, Order
<1>3. /\ Len(orders') = Len(orders)
      /\ \A j \in 1..Len(orders) : orders'[j] = IF j = i THEN Closed(orders[i], st) ELSE orders[j]
  BY <1>1, <1>2, ExceptSeq
<1>4. \A j \in 1..Len(orders) : /\ orders'[j].symbol = orders[j].symbol
                                /\ orders'[j].action = orders[j].action
                                /\ orders'[j].at = orders[j].at
                                /\ orders'[j].life = orders[j].life
  BY <1>3 DEF Closed
<1>5. UNCHANGED <<restarts, maxHold, hpc, pc, trade, now, last>>
  BY DEF loop, holder
<1>6. QED
  BY <1>3, <1>4, <1>5 DEF SpacedInv, MemoryInv, OrdersSpaced, Twins, Mine, SameTrade

LEMMA HoldSpaced == ASSUME TraderInv, SpacedInv, HoldCheck PROVE SpacedInv'
<1>1. maxHold # 0
  <2>1. maxHold = 0 => hpc = "asleep"
    BY DEF SpacedInv, MemoryInv
  <2>2. QED
    BY <2>1 DEF HoldCheck, HoldRead, HoldPick, HoldDecide, HoldExecute, HoldPublished,
                HoldEnd, HoldRaises
<1>2. UNCHANGED <<restarts, maxHold>>
  BY DEF HoldCheck, HoldRead, HoldPick, HoldDecide, HoldExecute, HoldPublished, HoldEnd, HoldRaises
<1>3. CASE UNCHANGED orders
  BY <1>1, <1>2, <1>3, HoldingSpaced DEF SpacedInv
<1>4. CASE HoldExecute /\ Accepted(hTrade, hNow)
  <2> DEFINE o == [symbol |-> hTrade.symbol, action |-> hTrade.action, shares |-> hTrade.shares,
                   at |-> hNow, life |-> restarts, status |-> "open"]
  <2>1. orders' = Append(orders, o)
    BY <1>4 DEF Accepted
  <2>2. orders \in Seq(Order) /\ Len(orders) \in Nat /\ restarts \in Nat
    BY BoundsAreNat DEF TraderInv, TypeOK
  <2>3. Len(orders') = Len(orders) + 1 /\ orders'[Len(orders) + 1] = o
    BY <2>1, <2>2
  <2>4. \A i \in 1..Len(orders) : orders'[i] = orders[i]
    BY <2>1, <2>2
  <2>5. o.life = restarts
    OBVIOUS
  <2> HIDE DEF o
  <2>6. \A i \in 1..Len(orders') : i \in 1..Len(orders) \/ i = Len(orders) + 1
    BY <2>2, <2>3
  <2>7. \A i \in 1..Len(orders') : orders'[i].life <= restarts
    BY <2>2, <2>3, <2>4, <2>5, <2>6 DEF SpacedInv
  <2>8. QED
    BY <1>1, <1>2, <2>7, HoldingSpaced
<1>5. QED
  BY <1>3, <1>4 DEF HoldCheck, HoldRead, HoldPick, HoldDecide, HoldExecute, HoldPublished,
                    HoldEnd, HoldRaises, world

(* A new life has noted nothing, and has no orders yet.                    *)
LEMMA RestartSpaced == ASSUME TraderInv, SpacedInv, Restart PROVE SpacedInv'
<1>1. /\ restarts' = restarts + 1 /\ restarts \in Nat
      /\ UNCHANGED <<orders, maxHold>> /\ pc' = "idle" /\ hpc' = "asleep"
  BY BoundsAreNat DEF TraderInv, TypeOK, Restart, world
<1>2. \A i \in 1..Len(orders) : orders[i].life \in Nat
  <2>1. orders \in Seq(Order)
    BY DEF TraderInv, TypeOK
  <2>2. \A i \in 1..Len(orders) : orders[i] \in Order
    BY <2>1, ElementOfSeq
  <2>3. QED
    BY <2>2 DEF Order
<1>3. \A i \in 1..Len(orders) : orders[i].life <= restarts' /\ orders[i].life # restarts'
  BY <1>1, <1>2 DEF SpacedInv
<1>4. MemoryInv'
  BY <1>1, <1>3 DEF MemoryInv, Mine
<1>5. QED
  BY <1>1, <1>3, <1>4 DEF SpacedInv, OrdersSpaced, Twins

LEMMA ProcessSpaced == ASSUME TraderInv, SpacedInv, Process PROVE SpacedInv'
<1>1. CASE Dequeue \/ ReadPositions \/ StartBuy \/ SkipSymbol \/ EndEvent \/ Publish \/ EventRaises
  BY <1>1, QuietSpaced DEF Dequeue, ReadPositions, StartBuy, SkipSymbol, EndEvent, Publish,
                           EventRaises, world, holder
<1>2. CASE DecideSell
  <2>1. Current \in Symbols
    BY <1>2, EventPieces DEF DecideSell, TraderInv
  <2>2. PICK p \in Prices \cup {0} : Decide("sell", snap[Current].qty, p)
    BY <1>2 DEF DecideSell
  <2>3. UNCHANGED <<orders, restarts, maxHold, hpc, now>> /\ pc # "execute"
    BY <1>2 DEF DecideSell, world, holder
  <2>4. QED
    BY <2>1, <2>2, <2>3, DecideSpaced DEF TraderInv, Sides
<1>3. CASE DecideBuy
  <2>1. Current \in Symbols
    BY <1>3, EventPieces DEF DecideBuy, TraderInv, HandsInv
  <2>2. UNCHANGED <<orders, restarts, maxHold, hpc, now>> /\ pc # "execute"
    BY <1>3 DEF DecideBuy, world, holder
  <2>3. CASE \E p \in Prices : Decide("buy", ShouldBuy(event.size, p), p)
    BY <2>1, <2>2, <2>3, DecideSpaced DEF TraderInv, Sides
  <2>4. CASE pc' = "next" /\ UNCHANGED <<last, trade>>
    BY <2>2, <2>4, QuietSpaced
  <2>5. QED
    BY <1>3, <2>3, <2>4 DEF DecideBuy
<1>4. CASE Execute
  BY <1>4, ExecuteSpaced
<1>5. QED
  BY <1>1, <1>2, <1>3, <1>4 DEF Process

LEMMA OutsideSpaced == ASSUME TraderInv, SpacedInv, Outside PROVE SpacedInv'
<1>1. CASE TimePasses \/ OnSentiment
  BY <1>1, QuietSpaced DEF TimePasses, OnSentiment, world, loop, holder
<1>2. CASE \E i \in 1..Len(orders) : OrderFills(i) \/ OrderFails(i)
  BY <1>2, CloseSpaced DEF OrderFills, OrderFails, TraderInv
<1>3. QED
  BY <1>1, <1>2 DEF Outside

LEMMA NextSpaced == TraderInv /\ SpacedInv /\ [Next]_vars => SpacedInv'
<1> SUFFICES ASSUME TraderInv, SpacedInv, [Next]_vars PROVE SpacedInv'
  OBVIOUS
<1>1. CASE UNCHANGED vars
  BY <1>1, QuietSpaced DEF vars, world, loop, holder
<1>2. CASE Next
  BY <1>2, OutsideSpaced, ProcessSpaced, HoldSpaced, RestartSpaced DEF Next
<1>3. QED
  BY <1>1, <1>2

(* Without a hold checker, equal orders of one life of the process are a   *)
(* dedup window apart, for symbols repeated in one event too.              *)
THEOREM EqualOrdersAreSpaced == Spec => []OrdersSpaced
<1>1. SpacedInv => OrdersSpaced
  BY DEF SpacedInv
<1>2. QED
  BY <1>1, InitSpaced, NextSpaced, TraderInvariant, PTL DEF Spec
=============================================================================
