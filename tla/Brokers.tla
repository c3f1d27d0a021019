------------------------------- MODULE Brokers -------------------------------
(***************************************************************************)
(* The five broker adapters of src/live/brokers, reduced to what the order *)
(* tracker can tell apart: how many shares an adapter submits for an order *)
(* document, what happens to the order at submission, which answers        *)
(* check_order can give, and what cancel_order can do.                     *)
(*                                                                         *)
(* A broker's own record of an order (its "book" entry) is                 *)
(*    [state |-> "none" | "open" | "filled" | "cancelled",                 *)
(*     qty |-> shares submitted, dealt |-> shares dealt so far].           *)
(* A partial fill is an open entry with 0 < dealt < qty; an order that is  *)
(* cancelled or expires after a partial fill keeps its dealt shares.       *)
(***************************************************************************)
EXTENDS Naturals

CONSTANT LotSize    \* board lot of the traded stocks (Futu, Hong Kong)

ASSUME LotAssumption == LotSize \in Nat \ {0}

Kinds == {"paper", "futu", "ibkr", "alpaca", "webull"}

Sides == {"buy", "sell"}

BookStates == {"none", "open", "filled", "cancelled"}

BookEntry == [state : BookStates, qty : Nat, dealt : Nat]

NoEntry == [state |-> "none", qty |-> 0, dealt |-> 0]

(* FutuBroker.execute rounds a buy up to a whole lot; the order document   *)
(* keeps the unrounded number of shares.                                   *)
FutuQty(action, shares) ==
  IF action = "buy"
    THEN ((shares + LotSize - 1) \div LotSize) * LotSize
    ELSE shares

(* PaperBroker.execute fills at once, in memory.                           *)
PaperEntry(shares) == [state |-> "filled", qty |-> shares, dealt |-> shares]

(* The book entry of an order the broker has accepted.                     *)
AcceptedEntry(kind, action, shares) ==
  CASE kind = "paper" -> PaperEntry(shares)
    [] kind = "futu"  -> [state |-> "open", qty |-> FutuQty(action, shares), dealt |-> 0]
    [] OTHER          -> [state |-> "open", qty |-> shares, dealt |-> 0]

(* The broker deals n more shares, or ends the order as it stands.         *)
Dealt(entry, n) ==
  [state |-> IF entry.dealt + n = entry.qty THEN "filled" ELSE "open",
   qty   |-> entry.qty,
   dealt |-> entry.dealt + n]

Ended(entry) == [state |-> "cancelled", qty |-> entry.qty, dealt |-> entry.dealt]

(* execute hands out the order id at once, except IBKRBroker.execute, which*)
(* polls until the order is done.                                          *)
IdReturned(kind, entry) == kind = "ibkr" => entry.state # "open"

Answer(st, n) == [status |-> st, qty |-> n]

(* PaperBroker.check_order trusts the order document: whatever is still    *)
(* pending there is reported filled, and anything else is unknown.  A      *)
(* failed read of the document raises, which the tracker treats as unknown.*)
PaperAnswers(pending, shares) ==
  {Answer("unknown", 0)} \cup (IF pending THEN {Answer("filled", shares)} ELSE {})

(* FutuBroker.check_order: FILLED_ALL and FILLED_PART are both "filled"    *)
(* with the dealt quantity; CANCELLED_PART is none of the listed states    *)
(* and stays "pending", like every failed query.                           *)
FutuAnswers(entry) ==
  {Answer("pending", 0)}
  \cup (IF entry.state \in {"open", "filled"} /\ entry.dealt > 0
          THEN {Answer("filled", entry.dealt)} ELSE {})
  \cup (IF entry.state = "cancelled" /\ entry.dealt = 0
          THEN {Answer("cancelled", 0)} ELSE {})

(* IBKR, Alpaca and Webull: only a complete fill is "filled", and an order *)
(* that ended otherwise is "cancelled" whatever it had dealt; errors are   *)
(* "pending".                                                              *)
DoneAnswers(entry) ==
  {Answer("pending", 0)}
  \cup (IF entry.state = "filled" THEN {Answer("filled", entry.dealt)} ELSE {})
  \cup (IF entry.state = "cancelled" THEN {Answer("cancelled", 0)} ELSE {})

(* Every answer check_order can give for an order of this many shares.     *)
CheckAnswers(kind, entry, pending, shares) ==
  CASE kind = "paper" -> PaperAnswers(pending, shares)
    [] kind = "futu"  -> FutuAnswers(entry)
    [] OTHER          -> DoneAnswers(entry)

(* cancel_order: Futu and Webull send a cancellation, which takes effect   *)
(* on an open order or fails; the others inherit Broker.cancel_order,      *)
(* which does nothing and returns False.                                   *)
CancelOutcomes(kind, entry) ==
  {entry} \cup (IF kind \in {"futu", "webull"} /\ entry.state = "open"
                  THEN {Ended(entry)} ELSE {})
=============================================================================
