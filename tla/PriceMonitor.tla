----------------------------- MODULE PriceMonitor -----------------------------
(***************************************************************************)
(* PriceMonitor (src/live/price_monitor.py) against the position store it  *)
(* shares with the order tracker: every tick it refreshes its in-memory    *)
(* states from the store, evaluates stop loss and take profit, and sells   *)
(* what triggered through the broker.  The store follows only later, when  *)
(* the tracker confirms the sell; buys and the trader's own sells move it  *)
(* meanwhile.  The tick is split at its store, price, broker and bus calls.*)
(*                                                                         *)
(* An entry price is kept as the pair cost/shares it is the average of, so *)
(* the weighted average of open_position is exact.  A peak price of 0      *)
(* means "at the entry price", as in PositionState.__post_init__.          *)
(***************************************************************************)
EXTENDS Integers, Sequences

CONSTANTS
  Symbols,
  TraderSymbols,\* the symbols the trader may sell as well
  Prices,       \* prices a symbol can trade at
  StopLossPct,  \* stop_loss_pct in percent, 0: off
  TakeProfitPct,\* take_profit_pct in percent, 0: off
  Trailing,     \* trailing_sl
  MaxBuys,      \* fills of buy orders per symbol
  MaxOpenSells, \* sell orders of a symbol waiting at the broker
  MaxRestarts   \* restarts of the monitor

ASSUME MonitorAssumption ==
  /\ TraderSymbols \subseteq Symbols
  /\ Prices \subseteq Nat \ {0}
  /\ StopLossPct \in 0..100
  /\ TakeProfitPct \in Nat
  /\ Trailing \in BOOLEAN
  /\ {MaxBuys, MaxOpenSells, MaxRestarts} \subseteq Nat

VARIABLES
  price,        \* price[s]: what get_price returns, 0: no price
  store,        \* store[s]: the position document
  sells,        \* sells[s]: sizes of the sell orders waiting at the broker
  held,         \* held[s]: shares held at the broker, negative: short
  buys,         \* buys[s]: buy fills so far
  states,       \* _states[s]: the monitor's in-memory state of a symbol
  known,        \* all_positions: the symbols read by the last refresh
  pc,           \* what the tick is about to do
  toEval,       \* symbols still to evaluate
  results,      \* results[s]: shares to sell, as triggered; 0: not triggered
  selling,      \* symbols of the order just accepted by the broker
  restarts

market  == <<price, sells, held, buys>>
monitor == <<states, known, pc, toEval, results, selling>>
vars    == <<market, store, monitor, restarts>>

-----------------------------------------------------------------------------
(* Position documents and monitoring states.                               *)

Doc == [qty : Nat, cost : Nat, peak : Prices \cup {0}]
NoDoc == [qty |-> 0, cost |-> 0, peak |-> 0]

(* shares is refreshed from the store; the entry price cost/lots is not.   *)
State == [on : BOOLEAN, shares : Nat, cost : Nat, lots : Nat, peak : Prices \cup {0}]
NoState == [on |-> FALSE, shares |-> 0, cost |-> 0, lots |-> 0, peak |-> 0]

Open(s) == store[s].qty > 0

WithShares(st, n) ==
  [on |-> st.on, shares |-> n, cost |-> st.cost, lots |-> st.lots, peak |-> st.peak]

FromDoc(d) == [on |-> TRUE, shares |-> d.qty, cost |-> d.cost, lots |-> d.qty, peak |-> d.peak]

(* open_position: merge quantities, average the entry price, keep the peak.*)
Bought(d, p) == [qty |-> d.qty + 1, cost |-> d.cost + p, peak |-> d.peak]

(* Slip: the peak follows the price down as well.                          *)
NewPeakEitherWay(st, p) == Trailing /\ p # st.peak

(* TradingLogic.update_peak, check_stop_loss and check_take_profit, with   *)
(* the entry price cost/lots compared without dividing.                    *)
NewPeak(st, p) ==
  /\ Trailing
  /\ IF st.peak = 0 THEN st.cost < p * st.lots ELSE st.peak < p

WithPeak(st, p) ==
  [on |-> st.on, shares |-> st.shares, cost |-> st.cost, lots |-> st.lots,
   peak |-> IF NewPeak(st, p) THEN p ELSE st.peak]

StopHit(st, p) ==
  /\ StopLossPct > 0
  /\ IF Trailing /\ st.peak > 0
       THEN p * 100 <= st.peak * (100 - StopLossPct)
       ELSE p * 100 * st.lots <= st.cost * (100 - StopLossPct)

ProfitHit(st, p) ==
  /\ TakeProfitPct > 0
  /\ p * 100 * st.lots >= st.cost * (100 + TakeProfitPct)

Triggered(st, p) == StopHit(st, p) \/ ProfitHit(st, p)

-----------------------------------------------------------------------------

TypeOK ==
  /\ price \in [Symbols -> Prices \cup {0}]
  /\ store \in [Symbols -> Doc]
  /\ sells \in [Symbols -> Seq(Nat)]
  /\ held \in [Symbols -> Int]
  /\ buys \in [Symbols -> 0..MaxBuys]
  /\ states \in [Symbols -> State]
  /\ known \in SUBSET Symbols
  /\ pc \in {"idle", "evaluate", "execute", "logged"}
  /\ toEval \in SUBSET Symbols
  /\ results \in [Symbols -> Nat]
  /\ selling \in SUBSET Symbols
  /\ restarts \in 0..MaxRestarts

None == [s \in Symbols |-> 0]

Init ==
  /\ price \in [Symbols -> Prices]
  /\ store = [s \in Symbols |-> NoDoc]
  /\ sells = [s \in Symbols |-> <<>>]
  /\ held = None
  /\ buys = None
  /\ states = [s \in Symbols |-> NoState]
  /\ known = {}
  /\ pc = "idle"
  /\ toEval = {}
  /\ results = None
  /\ selling = {}
  /\ restarts = 0

-----------------------------------------------------------------------------
(* Outside the monitor.                                                    *)

PriceMoves(s) ==
  /\ \E p \in Prices \cup {0} : p # price[s] /\ price' = [price EXCEPT ![s] = p]
  /\ UNCHANGED <<sells, held, buys, store, monitor, restarts>>

(* The tracker confirms a buy of one share at the current price.           *)
BuyFills(s) ==
  /\ buys[s] < MaxBuys
  /\ price[s] > 0
  /\ buys' = [buys EXCEPT ![s] = @ + 1]
  /\ held' = [held EXCEPT ![s] = @ + 1]
  /\ store' = [store EXCEPT ![s] = Bought(@, price[s])]
  /\ UNCHANGED <<price, sells, monitor, restarts>>

(* The trader sells the quantity it reads from the store.                  *)
TraderSells(s) ==
  /\ s \in TraderSymbols
  /\ Open(s)
  /\ Len(sells[s]) < MaxOpenSells
  /\ sells' = [sells EXCEPT ![s] = Append(@, store[s].qty)]
  /\ UNCHANGED <<price, held, buys, store, monitor, restarts>>

(* The broker deals a sell order and the tracker confirms it:              *)
(* close_position deletes the document, peak included.                     *)
SellFills(s) ==
  /\ sells[s] # <<>>
  /\ held' = [held EXCEPT ![s] = @ - Head(sells[s])]
  /\ sells' = [sells EXCEPT ![s] = Tail(@)]
  /\ store' = [store EXCEPT ![s] = NoDoc]
  /\ UNCHANGED <<price, buys, monitor, restarts>>

(* A sell order ends unfilled: cancelled, rejected, or timed out.          *)
SellFails(s) ==
  /\ sells[s] # <<>>
  /\ sells' = [sells EXCEPT ![s] = Tail(@)]
  /\ UNCHANGED <<price, held, buys, store, monitor, restarts>>

-----------------------------------------------------------------------------
(* PriceMonitor.check_once.                                                *)

Positions == {s \in Symbols : Open(s)}

(* Slip: a new state forgets the stored peak.                              *)
RefreshedPeakless(s) ==
  IF ~Open(s) THEN states[s]
  ELSE IF states[s].on THEN WithShares(states[s], store[s].qty)
  ELSE FromDoc([qty |-> store[s].qty, cost |-> store[s].cost, peak |-> 0])

(* Slip: positions opened after the start are never picked up.             *)
RefreshedKnownOnly(s) ==
  IF Open(s) /\ states[s].on THEN WithShares(states[s], store[s].qty) ELSE states[s]

(* Refresh: a state for every position that has none; for the others only  *)
(* the shares are taken from the store.                                    *)
Refreshed(s) ==
  IF ~Open(s) THEN states[s]
  ELSE IF states[s].on THEN WithShares(states[s], store[s].qty)
  ELSE FromDoc(store[s])

Refresh ==
  /\ pc = "idle"
  /\ known' = Positions
  /\ states' = [s \in Symbols |-> Refreshed(s)]
  /\ toEval' = {s \in Symbols : states'[s].on}
  /\ results' = None
  /\ pc' = "evaluate"
  /\ UNCHANGED <<market, store, selling, restarts>>

(* store.update_peak: an update of a missing document does nothing.        *)
Peaked(d, p) ==
  [qty |-> d.qty, cost |-> d.cost, peak |-> IF d.qty > 0 THEN p ELSE d.peak]

(* One round of _evaluate_positions.  The peak is raised first, and written*)
(* to the store without checking that the document is still the position it*)
(* was read from; a failed write is swallowed.                             *)
Evaluate(s) ==
  LET st == WithPeak(states[s], price[s])
  IN  /\ pc = "evaluate"
      /\ s \in toEval
      /\ toEval' = toEval \ {s}
      /\ IF price[s] = 0
           THEN UNCHANGED <<states, store, results>>
           ELSE /\ states' = [states EXCEPT ![s] = st]
                /\ \/ UNCHANGED store
                   \/ /\ NewPeak(states[s], price[s])
                      /\ store' = [store EXCEPT ![s] = Peaked(@, price[s])]
                /\ results' = IF Triggered(st, price[s])
                                THEN [results EXCEPT ![s] = st.shares]
                                ELSE results
      /\ UNCHANGED <<market, known, pc, selling, restarts>>

StartSelling ==
  /\ pc = "evaluate"
  /\ toEval = {}
  /\ pc' = "execute"
  /\ UNCHANGED <<market, store, states, known, toEval, results, selling, restarts>>

(* Slip: a refused sell drops the state all the same.                      *)
SellRefusedPops(s) ==
  /\ pc = "execute"
  /\ results[s] > 0
  /\ results' = [results EXCEPT ![s] = 0]
  /\ states' = [states EXCEPT ![s] = NoState]
  /\ UNCHANGED <<market, store, known, pc, toEval, selling, restarts>>

(* A triggered symbol is given up for this tick: no price at the second    *)
(* read, or the broker returned no order id or raised.                     *)
SellRefused(s) ==
  /\ pc = "execute"
  /\ results[s] > 0
  /\ results' = [results EXCEPT ![s] = 0]
  /\ UNCHANGED <<market, store, states, known, pc, toEval, selling, restarts>>

(* The broker accepts the sell and the order is logged.                    *)
SellAccepted(s) ==
  /\ pc = "execute"
  /\ results[s] > 0
  /\ price[s] > 0
  /\ Len(sells[s]) < MaxOpenSells
  /\ sells' = [sells EXCEPT ![s] = Append(@, results[s])]
  /\ selling' = {s}
  /\ pc' = "logged"
  /\ UNCHANGED <<price, held, buys, store, states, known, toEval, results, restarts>>

(* _execute returned True: the state is popped and [trade] published.  If  *)
(* publish raises, the rest of the tick is abandoned.                      *)
PopState(s) ==
  /\ pc = "logged"
  /\ s \in selling
  /\ states' = [states EXCEPT ![s] = NoState]
  /\ selling' = {}
  /\ \/ /\ results' = [results EXCEPT ![s] = 0]
        /\ pc' = "execute"
     \/ /\ results' = None
        /\ pc' = "idle"
  /\ UNCHANGED <<market, store, known, toEval, restarts>>

(* The last lines of check_once: forget the states of symbols in neither   *)
(* all_positions nor the states.                                           *)
EndTick ==
  /\ pc = "execute"
  /\ results = None
  /\ LET check_symbols == known \cup {s \in Symbols : states[s].on}
     IN  states' = [s \in Symbols |-> IF s \in check_symbols THEN states[s] ELSE NoState]
  /\ pc' = "idle"
  /\ UNCHANGED <<market, store, known, toEval, results, selling, restarts>>

(* The process dies and __init__ restores the states from the store.  A    *)
(* failed read is swallowed and leaves them empty.                         *)
Restart ==
  /\ restarts < MaxRestarts
  /\ restarts' = restarts + 1
  /\ \/ /\ states' = [s \in Symbols |-> IF Open(s) THEN FromDoc(store[s]) ELSE NoState]
        /\ known' = Positions
     \/ /\ states' = [s \in Symbols |-> NoState]
        /\ known' = {}
  /\ pc' = "idle"
  /\ toEval' = {}
  /\ results' = None
  /\ selling' = {}
  /\ UNCHANGED <<market, store>>

-----------------------------------------------------------------------------

Outside == \E s \in Symbols :
  PriceMoves(s) \/ BuyFills(s) \/ TraderSells(s) \/ SellFills(s) \/ SellFails(s)

Tick ==
  \/ Refresh
  \/ \E s \in Symbols : Evaluate(s)
  \/ StartSelling
  \/ \E s \in Symbols : SellRefused(s) \/ SellAccepted(s) \/ PopState(s)
  \/ EndTick

Next == Outside \/ Tick \/ Restart

Spec == Init /\ [][Next]_vars

(* The loop of run never ends, and a broker asked again and again accepts  *)
(* an order some day.                                                      *)
FairSpec ==
  /\ Spec
  /\ WF_vars(Tick)
  /\ \A s \in Symbols : SF_vars(SellAccepted(s))

-----------------------------------------------------------------------------
(* Properties.                                                             *)

(* The monitor, the only writer of peaks, is never behind the store: a     *)
(* state, however old the position it was made for, knows a peak at least  *)
(* as high as the document it would be written to.  (_evaluate_positions   *)
(* against open_position and close_position of another process.)           *)
PeakKnown ==
  \A s \in Symbols : states[s].on => states[s].peak >= store[s].peak

(* The persisted trailing peak of a position never falls while the position*)
(* lives: not by a stale state, not by a restart between two peaks, not by *)
(* averaging in.  (_evaluate_positions with store.update_peak and the      *)
(* restore in __init__.)                                                   *)
PeakNeverFalls ==
  [][\A s \in Symbols :
       (Open(s) /\ store'[s].qty > 0 /\ store[s].peak > 0) => store'[s].peak >= store[s].peak]_vars

(* A symbol leaves the monitor only with a sell order of its own accepted  *)
(* in this tick; a refused or failed sell keeps it monitored.  (check_once:*)
(* "a failed execution is retried on the next tick instead of silently     *)
(* abandoning the stop-loss".)                                             *)
StopNotAbandoned ==
  [][\A s \in Symbols :
       (states[s].on /\ ~states'[s].on) => restarts' # restarts \/ s \in selling]_vars

(* A position whose stop is hit is sold unless the price recovers or the   *)
(* position goes: by the entry and peak the monitor holds of the symbol, or*)
(* by the document's when it holds none yet.  (check_once: picked up at a  *)
(* refresh, evaluated, sold, retried when the broker refuses.)             *)
Watched(s) == IF states[s].on THEN states[s] ELSE FromDoc(store[s])
StopStands(s) == Open(s) /\ price[s] > 0 /\ StopHit(Watched(s), price[s])

StopIsExecuted ==
  \A s \in Symbols : StopStands(s) ~> (sells[s] # <<>> \/ ~StopStands(s))

(* Each tick evaluates the entry price the store had at its refresh.       *)
EntryIsCurrent ==
  [][\A s \in Symbols :
       (pc = "idle" /\ pc' = "evaluate" /\ Open(s))
         => states'[s].cost * store[s].qty = store[s].cost * states'[s].lots]_vars

(* The account is never short.                                             *)
NeverShort == \A s \in Symbols : held[s] >= 0
=============================================================================
