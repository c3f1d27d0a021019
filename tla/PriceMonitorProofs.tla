-------------------------- MODULE PriceMonitorProofs --------------------------
(***************************************************************************)
(* Theorems about PriceMonitor for every set of symbols and prices, every  *)
(* stop, profit and trailing setting, and every bound.                     *)
(***************************************************************************)
EXTENDS PriceMonitor, SequenceTheorems, TLAPS

LEMMA PricesAreNat == \A p \in Prices : p \in Nat /\ p > 0
BY MonitorAssumption

USE PricesAreNat

(* The part of the state the peaks live in, and the monitor's place in its *)
(* tick: only monitored symbols are evaluated, so that a peak can only be  *)
(* written for a symbol whose state PeakKnown speaks of.                   *)
PeakTypes ==
  /\ price \in [Symbols -> Prices \cup {0}]
  /\ store \in [Symbols -> Doc]
  /\ states \in [Symbols -> State]
  /\ toEval \subseteq {s \in Symbols : states[s].on}
  /\ pc # "evaluate" => toEval = {}
  /\ restarts \in Nat

PeakInv == PeakTypes /\ PeakKnown

(* Raising the peak is what update_peak does: never down, and to the price.*)
LEMMA WithPeakRaises ==
  ASSUME NEW st \in State, NEW p \in Prices
  PROVE  /\ WithPeak(st, p) \in State
         /\ WithPeak(st, p).on = st.on
         /\ WithPeak(st, p).peak >= st.peak
         /\ NewPeak(st, p) => WithPeak(st, p).peak = p
<1>1. p \in Nat \ {0}
  OBVIOUS
<1>2. CASE NewPeak(st, p)
  <2>1. st.peak \in Nat /\ (st.peak = 0 \/ st.peak < p)
    <3>1. st.peak \in Nat
      BY DEF State
    <3>2. st.peak = 0 \/ st.peak < p
      BY <1>2, Zenon DEF NewPeak
    <3>3. QED
      BY <3>1, <3>2
  <2>2. QED
    BY <1>1, <1>2, <2>1 DEF WithPeak, State
<1>3. CASE ~NewPeak(st, p)
  BY <1>3 DEF WithPeak, State
<1>4. QED
  BY <1>2, <1>3

LEMMA RefreshedKeepsPeak ==
  ASSUME NEW s \in Symbols, PeakTypes
  PROVE  /\ Refreshed(s) \in State
         /\ Refreshed(s).peak \in {states[s].peak, store[s].peak}
         /\ Refreshed(s).on => Refreshed(s).peak = IF states[s].on THEN states[s].peak ELSE store[s].peak
BY DEF PeakTypes, Refreshed, WithShares, FromDoc, State, Doc, Open

LEMMA PeakType == \A st \in State : st.peak \in Nat
BY DEF State

LEMMA NoStateType == NoState \in State /\ NoDoc \in Doc
BY DEF NoState, State, NoDoc, Doc

LEMMA PeaksAreNat == ASSUME PeakTypes, NEW s \in Symbols
                     PROVE  states[s].peak \in Nat /\ store[s].peak \in Nat
BY DEF PeakTypes, State, Doc

-----------------------------------------------------------------------------

LEMMA InitInv == Init => PeakInv
BY NoStateType DEF Init, PeakInv, PeakTypes, PeakKnown, NoState, NoDoc

LEMMA OutsideInv == ASSUME PeakInv, Outside PROVE PeakInv'
<1> USE DEF PeakInv, PeakTypes, PeakKnown
<1> PICK s \in Symbols :
      PriceMoves(s) \/ BuyFills(s) \/ TraderSells(s) \/ SellFills(s) \/ SellFails(s)
  BY DEF Outside
<1>1. CASE PriceMoves(s)
  BY <1>1 DEF PriceMoves, monitor
<1>2. CASE BuyFills(s)
  <2>1. /\ Bought(store[s], price[s]) \in Doc
        /\ Bought(store[s], price[s]).peak = store[s].peak
    <3>1. store[s] \in Doc /\ price[s] \in Nat
      OBVIOUS
    <3>2. QED
      BY <3>1 DEF Bought, Doc
  <2>2. QED
    BY <1>2, <2>1 DEF BuyFills, monitor
<1>3. CASE TraderSells(s)
  BY <1>3 DEF TraderSells, monitor
<1>4. CASE SellFills(s)
  BY <1>4, NoStateType, PeaksAreNat DEF SellFills, monitor, NoDoc
<1>5. CASE SellFails(s)
  BY <1>5 DEF SellFails, monitor
<1>6. QED
  BY <1>1, <1>2, <1>3, <1>4, <1>5

LEMMA EvaluateInv == ASSUME PeakInv, NEW s \in Symbols, Evaluate(s) PROVE PeakInv'
<1> USE DEF PeakInv, PeakTypes, PeakKnown
<1> DEFINE st == WithPeak(states[s], price[s])
<1>1. CASE price[s] = 0
  BY <1>1 DEF Evaluate, market
<1>2. CASE price[s] # 0
  <2>1. /\ price[s] \in Prices
        /\ st \in State
        /\ st.on = states[s].on
        /\ st.peak >= states[s].peak
        /\ NewPeak(states[s], price[s]) => st.peak = price[s]
    BY <1>2, WithPeakRaises
  <2>2. Peaked(store[s], price[s]) \in Doc
        /\ Peaked(store[s], price[s]).peak \in {store[s].peak, price[s]}
    BY <2>1 DEF Peaked, Doc
  <2>3. /\ states' = [states EXCEPT ![s] = st]
        /\ toEval' = toEval \ {s}
        /\ UNCHANGED <<price, pc, restarts>>
        /\ pc = "evaluate"
    BY <1>2 DEF Evaluate, market
  <2>4. \/ store' = store
        \/ NewPeak(states[s], price[s]) /\ store' = [store EXCEPT ![s] = Peaked(@, price[s])]
    BY <1>2 DEF Evaluate
  <2>5. st.peak \in Nat
    BY <2>1, PeakType
  <2>6. st.peak >= store'[s].peak \/ ~states[s].on
    BY <2>1, <2>2, <2>4, <2>5, PeaksAreNat
  <2>7. PeakTypes'
    BY <2>1, <2>2, <2>3, <2>4
  <2>8. PeakKnown'
    BY <2>1, <2>3, <2>4, <2>6
  <2>9. QED
    BY <2>7, <2>8
<1>3. QED
  BY <1>1, <1>2

LEMMA TickInv == ASSUME PeakInv, Tick PROVE PeakInv'
<1> USE DEF PeakInv, PeakTypes, PeakKnown
<1>1. CASE Refresh
  BY <1>1, RefreshedKeepsPeak, PeaksAreNat DEF Refresh, market
<1>2. ASSUME NEW s \in Symbols, Evaluate(s) PROVE PeakInv'
  BY <1>2, EvaluateInv
<1>3. CASE StartSelling
  BY <1>3 DEF StartSelling, market
<1>4. ASSUME NEW s \in Symbols, SellRefused(s) \/ SellAccepted(s) PROVE PeakInv'
  BY <1>4 DEF SellRefused, SellAccepted, market
<1>5. ASSUME NEW s \in Symbols, PopState(s) PROVE PeakInv'
  BY <1>5, NoStateType DEF PopState, market, NoState
<1>6. CASE EndTick
  BY <1>6, NoStateType DEF EndTick, market, NoState
<1>7. QED
  BY <1>1, <1>2, <1>3, <1>4, <1>5, <1>6 DEF Tick

LEMMA RestartInv == ASSUME PeakInv, Restart PROVE PeakInv'
<1> USE DEF PeakInv, PeakTypes, PeakKnown
<1>1. \A s \in Symbols : /\ FromDoc(store[s]) \in State
                         /\ FromDoc(store[s]).peak = store[s].peak
  BY DEF FromDoc, State, Doc
<1>2. CASE states' = [s \in Symbols |-> IF Open(s) THEN FromDoc(store[s]) ELSE NoState]
  BY <1>1, <1>2, NoStateType, PeaksAreNat DEF Restart, market, NoState
<1>3. CASE states' = [s \in Symbols |-> NoState]
  BY <1>3, NoStateType DEF Restart, market, NoState
<1>4. QED
  BY <1>2, <1>3 DEF Restart

LEMMA NextInv == PeakInv /\ [Next]_vars => PeakInv'
<1> SUFFICES ASSUME PeakInv, [Next]_vars PROVE PeakInv'
  OBVIOUS
<1>1. CASE Outside
  BY <1>1, OutsideInv
<1>2. CASE Tick
  BY <1>2, TickInv
<1>3. CASE Restart
  BY <1>3, RestartInv
<1>4. CASE UNCHANGED vars
  BY <1>4 DEF vars, market, monitor, PeakInv, PeakTypes, PeakKnown
<1>5. QED
  BY <1>1, <1>2, <1>3, <1>4 DEF Next

(* The monitor's memory is never behind the peak the store has, whatever   *)
(* the tracker and the trader do to the document between its reads and its *)
(* writes, with failed writes and restarts.                                *)
THEOREM PeaksAreKnown == Spec => []PeakKnown
<1>1. PeakInv => PeakKnown
  BY DEF PeakInv
<1>2. QED
  BY InitInv, NextInv, <1>1, PTL DEF Spec

-----------------------------------------------------------------------------

LEMMA PeakStep ==
  ASSUME PeakInv, [Next]_vars, NEW s \in Symbols,
         Open(s), store'[s].qty > 0, store[s].peak > 0
  PROVE  store'[s].peak >= store[s].peak
<1> USE DEF PeakInv, PeakTypes
<1>0. store[s] \in Doc /\ store[s].peak \in Nat
  BY PeaksAreNat
<1>1. CASE store'[s] = store[s]
  BY <1>0, <1>1
<1>2. ASSUME BuyFills(s) PROVE store'[s].peak >= store[s].peak
  BY <1>0, <1>2 DEF BuyFills, Bought
<1>3. ASSUME SellFills(s) PROVE store'[s].peak >= store[s].peak
  BY <1>0, <1>3 DEF SellFills, NoDoc
<1>4. ASSUME Evaluate(s), NewPeak(states[s], price[s]), price[s] # 0,
             store' = [store EXCEPT ![s] = Peaked(@, price[s])]
      PROVE  store'[s].peak >= store[s].peak
  <2>1. /\ WithPeak(states[s], price[s]).peak >= states[s].peak
        /\ WithPeak(states[s], price[s]).peak = price[s]
    BY <1>4, WithPeakRaises
  <2>2. states[s].peak >= store[s].peak
    BY <1>4 DEF Evaluate, PeakKnown
  <2>3. store'[s].peak = price[s]
    BY <1>0, <1>4 DEF Peaked, Open
  <2>4. price[s] \in Nat
    BY <1>4
  <2>5. QED
    BY <2>1, <2>2, <2>3, <2>4, PeaksAreNat
<1>5. \/ store'[s] = store[s]
      \/ BuyFills(s) \/ SellFills(s)
      \/ /\ Evaluate(s) /\ NewPeak(states[s], price[s]) /\ price[s] # 0
         /\ store' = [store EXCEPT ![s] = Peaked(@, price[s])]
  <2>1. CASE Outside
    BY <2>1 DEF Outside, PriceMoves, BuyFills, TraderSells, SellFills, SellFails
  <2>2. CASE Tick
    <3>1. ASSUME NEW t \in Symbols, Evaluate(t)
          PROVE  \/ store'[s] = store[s]
                 \/ /\ Evaluate(s) /\ NewPeak(states[s], price[s]) /\ price[s] # 0
                    /\ store' = [store EXCEPT ![s] = Peaked(@, price[s])]
      BY <3>1 DEF Evaluate
    <3>2. QED
      BY <2>2, <3>1 DEF Tick, Refresh, StartSelling, SellRefused, SellAccepted, PopState, EndTick
  <2>3. CASE Restart \/ UNCHANGED vars
    BY <2>3 DEF Restart, vars
  <2>4. QED
    BY <2>1, <2>2, <2>3 DEF Next
<1>6. QED
  BY <1>1, <1>2, <1>3, <1>4, <1>5

(* A persisted trailing peak never falls while its position lives.         *)
THEOREM PeaksNeverFall == Spec => PeakNeverFalls
<1>1. PeakInv /\ [Next]_vars =>
        [\A s \in Symbols :
           (Open(s) /\ store'[s].qty > 0 /\ store[s].peak > 0)
             => store'[s].peak >= store[s].peak]_vars
  BY PeakStep
<1>2. QED
  BY InitInv, NextInv, <1>1, PTL DEF Spec, PeakNeverFalls

-----------------------------------------------------------------------------

LEMMA StopStep ==
  ASSUME PeakInv, [Next]_vars, NEW s \in Symbols, states[s].on, ~states'[s].on
  PROVE  restarts' # restarts \/ s \in selling
<1> USE DEF PeakInv, PeakTypes
<1>1. CASE Outside
  BY <1>1 DEF Outside, PriceMoves, BuyFills, TraderSells, SellFills, SellFails, monitor
<1>2. CASE Restart
  BY <1>2 DEF Restart
<1>3. CASE UNCHANGED vars
  BY <1>3 DEF vars, monitor
<1>4. CASE Tick
  <2>1. CASE Refresh
    BY <2>1, RefreshedKeepsPeak DEF Refresh, Refreshed, WithShares, FromDoc
  <2>2. ASSUME NEW t \in Symbols, Evaluate(t) PROVE FALSE
    <3>1. WithPeak(states[t], price[t]).on = states[t].on
      BY DEF WithPeak
    <3>2. QED
      BY <2>2, <3>1 DEF Evaluate
  <2>3. CASE StartSelling
    BY <2>3 DEF StartSelling
  <2>4. ASSUME NEW t \in Symbols, SellRefused(t) \/ SellAccepted(t) PROVE FALSE
    BY <2>4 DEF SellRefused, SellAccepted
  <2>5. ASSUME NEW t \in Symbols, PopState(t) PROVE s \in selling
    BY <2>5 DEF PopState
  <2>6. CASE EndTick
    BY <2>6 DEF EndTick
  <2>7. QED
    BY <1>4, <2>1, <2>2, <2>3, <2>4, <2>5, <2>6 DEF Tick
<1>5. QED
  BY <1>1, <1>2, <1>3, <1>4 DEF Next

(* A symbol leaves the monitor only with its own sell accepted, or with the*)
(* process.                                                                *)
THEOREM StopsAreNotAbandoned == Spec => StopNotAbandoned
<1>1. PeakInv /\ [Next]_vars =>
        [\A s \in Symbols :
           (states[s].on /\ ~states'[s].on) => restarts' # restarts \/ s \in selling]_vars
  BY StopStep
<1>2. QED
  BY InitInv, NextInv, <1>1, PTL DEF Spec, StopNotAbandoned

-----------------------------------------------------------------------------
(* Type correctness needs no more than itself: what a refresh or an        *)
(* evaluation makes of a state is a state again.                           *)

LEMMA OpenSells == ASSUME NEW q \in Seq(Nat), NEW n \in Nat
                   PROVE  /\ Append(q, n) \in Seq(Nat)
                          /\ q # <<>> => Tail(q) \in Seq(Nat) /\ Head(q) \in Nat
BY HeadTailProperties, AppendProperties

LEMMA OutsideTypes == ASSUME TypeOK, Outside PROVE TypeOK'
<1> USE DEF TypeOK
<1> PICK s \in Symbols :
      PriceMoves(s) \/ BuyFills(s) \/ TraderSells(s) \/ SellFills(s) \/ SellFails(s)
  BY DEF Outside
<1>1. CASE PriceMoves(s)
  BY <1>1 DEF PriceMoves, monitor
<1>2. CASE BuyFills(s)
  <2>1. Bought(store[s], price[s]) \in Doc
    <3>1. store[s] \in Doc /\ price[s] \in Nat
      OBVIOUS
    <3>2. QED
      BY <3>1 DEF Bought, Doc
  <2>2. buys[s] + 1 \in 0..MaxBuys
    BY <1>2, MonitorAssumption DEF BuyFills
  <2>3. QED
    BY <1>2, <2>1, <2>2 DEF BuyFills, monitor
<1>3. CASE TraderSells(s)
  <2>1. Append(sells[s], store[s].qty) \in Seq(Nat)
    BY OpenSells DEF Doc
  <2>2. QED
    BY <1>3, <2>1 DEF TraderSells, monitor
<1>4. CASE SellFills(s)
  <2>1. Tail(sells[s]) \in Seq(Nat) /\ Head(sells[s]) \in Nat
    BY <1>4, OpenSells DEF SellFills
  <2>2. held[s] - Head(sells[s]) \in Int
    BY <2>1
  <2>3. QED
    BY <1>4, <2>1, <2>2, NoStateType DEF SellFills, monitor
<1>5. CASE SellFails(s)
  <2>1. Tail(sells[s]) \in Seq(Nat)
    BY <1>5, OpenSells DEF SellFails
  <2>2. QED
    BY <1>5, <2>1 DEF SellFails, monitor
<1>6. QED
  BY <1>1, <1>2, <1>3, <1>4, <1>5

LEMMA EvaluateTypes == ASSUME TypeOK, NEW s \in Symbols, Evaluate(s) PROVE TypeOK'
<1> USE DEF TypeOK
<1> DEFINE st == WithPeak(states[s], price[s])
<1>1. /\ toEval' = toEval \ {s}
      /\ UNCHANGED <<price, sells, held, buys, known, pc, selling, restarts>>
  BY DEF Evaluate, market
<1>2. CASE price[s] = 0
  BY <1>1, <1>2 DEF Evaluate
<1>3. CASE price[s] # 0
  <2>1. st \in State /\ st.shares \in Nat
    <3>1. st \in State
      BY <1>3, WithPeakRaises
    <3>2. QED
      BY <3>1 DEF State
  <2>2. Peaked(store[s], price[s]) \in Doc
    BY DEF Peaked, Doc
  <2>3. /\ states' = [states EXCEPT ![s] = st]
        /\ store' = store \/ store' = [store EXCEPT ![s] = Peaked(@, price[s])]
        /\ results' = results \/ results' = [results EXCEPT ![s] = st.shares]
    BY <1>3 DEF Evaluate
  <2> HIDE DEF st
  <2>4. QED
    BY <1>1, <2>1, <2>2, <2>3
<1>4. QED
  BY <1>2, <1>3

LEMMA RefreshedType == ASSUME TypeOK, NEW s \in Symbols PROVE Refreshed(s) \in State
BY DEF TypeOK, Refreshed, WithShares, FromDoc, State, Doc

LEMMA TickTypes == ASSUME TypeOK, Tick PROVE TypeOK'
<1> USE NoStateType DEF TypeOK
<1>1. CASE Refresh
  <2>1. states' \in [Symbols -> State]
    BY <1>1, RefreshedType DEF Refresh
  <2>2. QED
    BY <1>1, <2>1 DEF Refresh, market, None, Positions
<1>2. ASSUME NEW s \in Symbols, Evaluate(s) PROVE TypeOK'
  BY <1>2, EvaluateTypes
<1>3. CASE StartSelling
  BY <1>3 DEF StartSelling, market
<1>4. ASSUME NEW s \in Symbols, SellRefused(s) PROVE TypeOK'
  BY <1>4 DEF SellRefused, market
<1>5. ASSUME NEW s \in Symbols, SellAccepted(s) PROVE TypeOK'
  <2>1. Append(sells[s], results[s]) \in Seq(Nat)
    BY OpenSells
  <2>2. QED
    BY <1>5, <2>1 DEF SellAccepted
<1>6. ASSUME NEW s \in Symbols, PopState(s) PROVE TypeOK'
  <2>1. results' \in [Symbols -> Nat] /\ pc' \in {"idle", "execute"}
    <3>1. None \in [Symbols -> Nat]
      BY DEF None
    <3>2. CASE results' = [results EXCEPT ![s] = 0] /\ pc' = "execute"
      BY <3>2
    <3>3. CASE results' = None /\ pc' = "idle"
      BY <3>1, <3>3
    <3>4. QED
      BY <1>6, <3>2, <3>3 DEF PopState
  <2>2. QED
    BY <1>6, <2>1 DEF PopState, market
<1>7. CASE EndTick
  BY <1>7 DEF EndTick, market
<1>8. QED
  BY <1>1, <1>2, <1>3, <1>4, <1>5, <1>6, <1>7 DEF Tick

LEMMA RestartTypes == ASSUME TypeOK, Restart PROVE TypeOK'
<1>1. \A s \in Symbols : FromDoc(store[s]) \in State
  BY DEF TypeOK, FromDoc, State, Doc
<1>2. restarts' \in 0..MaxRestarts
  BY MonitorAssumption DEF TypeOK, Restart
<1>3. QED
  BY <1>1, <1>2, NoStateType DEF TypeOK, Restart, market, Positions, None

(* Every variable of the monitor and of what it shares stays of its type.  *)
(* (_refresh_states, _evaluate_positions, _execute of price_monitor.py.)   *)
THEOREM TypesAreRight == Spec => []TypeOK
<1>1. Init => TypeOK
  BY NoStateType, MonitorAssumption DEF Init, TypeOK, None
<1>2. TypeOK /\ [Next]_vars => TypeOK'
  <2>1. TypeOK /\ UNCHANGED vars => TypeOK'
    BY DEF TypeOK, vars, market, monitor
  <2>2. QED
    BY <2>1, OutsideTypes, TickTypes, RestartTypes DEF Next
<1>3. QED
  BY <1>1, <1>2, PTL DEF Spec
=============================================================================
