-------------------------------- MODULE Ledger --------------------------------
(***************************************************************************)
(* What the order lifecycle promises about the position store: positions   *)
(* are a ledger of settled orders.  An accepted order may settle at most   *)
(* once; a settled buy adds its shares to the symbol's position, a settled *)
(* sell empties it; and nothing else ever changes a position.  How an      *)
(* order is logged, polled, confirmed, expired or lost is not visible here.*)
(***************************************************************************)
EXTENDS Naturals

CONSTANTS
  Orders,       \* order ids the broker may hand out
  Symbols,      \* traded symbols
  Shares,       \* order sizes
  NoOrder       \* an order id not handed out yet

VARIABLES
  order,        \* order[o]: the order document's symbol, action and shares
  settled,      \* orders whose fill has reached the position store
  positions     \* positions[s]: shares held according to the store, 0: no document

ledgerVars == <<order, settled, positions>>

OrderInfo == [symbol : Symbols, action : {"buy", "sell"}, shares : Shares]

(* The position store after the fill of one order.                         *)
AfterFill(pos, info) ==
  [pos EXCEPT ![info.symbol] = IF info.action = "buy" THEN @ + info.shares ELSE 0]

Init ==
  /\ order = [o \in Orders |-> NoOrder]
  /\ settled = {}
  /\ positions = [s \in Symbols |-> 0]

(* An order id is handed out for an order, and never reused.               *)
Accept(o) ==
  /\ order[o] = NoOrder
  /\ \E info \in OrderInfo : order' = [order EXCEPT ![o] = info]
  /\ UNCHANGED <<settled, positions>>

Settle(o) ==
  /\ order[o] \in OrderInfo
  /\ o \notin settled
  /\ settled' = settled \cup {o}
  /\ positions' = AfterFill(positions, order[o])
  /\ UNCHANGED order

Next == \E o \in Orders : Accept(o) \/ Settle(o)

Spec == Init /\ [][Next]_ledgerVars
=============================================================================
