----------------------------- MODULE OrderTracker -----------------------------
(***************************************************************************)
(* The life of an order: submitted to the broker, logged in the `orders`   *)
(* collection, polled by OrderTracker (src/common/order_tracker.py) and,   *)
(* once confirmed, written to the `positions` collection.                  *)
(*                                                                         *)
(* The components that place orders are unconstrained here (any order at   *)
(* any time), so what holds in this module holds whoever places them.  The *)
(* tracker's batch loop is split where it awaits: at each await the broker,*)
(* the placing components and the clock may move, and the process may die. *)
(***************************************************************************)
EXTENDS Brokers, Functions

CONSTANTS
  Orders,       \* order ids
  Symbols,      \* traded symbols
  Shares,       \* order sizes
  NoOrder,      \* "no order": an unused id, or the tracker's empty hands
  MaxFaults     \* how often the tracker crashes or a database call fails

ASSUME TrackerAssumption ==
  /\ Shares \subseteq Nat \ {0}
  /\ NoOrder \notin Orders
  /\ NoOrder \notin [symbol : Symbols, action : Sides, shares : Shares]
  /\ MaxFaults \in Nat

VARIABLES
  kind,         \* the configured broker, never changed while running
  order,        \* order[o]: symbol, action and shares of the order document
  book,         \* book[o]: the broker's own record of the order
  status,       \* status[o]: where the order is in the `orders` collection
  overdue,      \* orders older than max_pending_age
  positions,    \* positions[s]: qty in the `positions` collection, 0: no document
  settled,      \* history: orders whose fill changed a position
  pc,           \* what the tracker is about to do
  todo,         \* orders of the tracker's batch still to process
  late,         \* orders of the batch that were overdue when it was read
  doc,          \* the order the tracker is working on
  faults        \* crashes and failed database calls so far

placing  == <<kind, order>>
store    == <<status, positions, settled>>
tracker  == <<pc, todo, late, doc>>
vars     == <<placing, book, store, overdue, tracker, faults>>

L == INSTANCE Ledger

-----------------------------------------------------------------------------

(* "unlogged": accepted by the broker, not yet in the collection;          *)
(* "untracked": accepted by the broker, and never to be in the collection. *)
Statuses == {"none", "unlogged", "untracked", "pending", "filled", "failed", "timeout"}

Closed == {"filled", "failed", "timeout"}

Steps == {"asleep", "next", "check", "cancel", "expire", "fill", "apply", "fail", "retry"}

TypeOK ==
  /\ kind \in Kinds
  /\ order \in [Orders -> L!OrderInfo \cup {NoOrder}]
  /\ book \in [Orders -> BookEntry]
  /\ status \in [Orders -> Statuses]
  /\ overdue \in SUBSET Orders
  /\ positions \in [Symbols -> Nat]
  /\ settled \in SUBSET Orders
  /\ pc \in Steps
  /\ todo \in SUBSET Orders
  /\ late \in SUBSET Orders
  /\ doc \in Orders \cup {NoOrder}
  /\ faults \in 0..MaxFaults

Init ==
  /\ kind \in Kinds
  /\ order = [o \in Orders |-> NoOrder]
  /\ book = [o \in Orders |-> NoEntry]
  /\ status = [o \in Orders |-> "none"]
  /\ overdue = {}
  /\ positions = [s \in Symbols |-> 0]
  /\ settled = {}
  /\ pc = "asleep"
  /\ todo = {}
  /\ late = {}
  /\ doc = NoOrder
  /\ faults = 0

-----------------------------------------------------------------------------
(* The placing side: SentimentTrader and PriceMonitor.                     *)

(* broker.execute: the broker accepts the order.  An order it rejects gets *)
(* no id and changes nothing the tracker reads.                            *)
Submit(o, info) ==
  /\ order[o] = NoOrder
  /\ order' = [order EXCEPT ![o] = info]
  /\ book' = [book EXCEPT ![o] = AcceptedEntry(kind, info.action, info.shares)]
  /\ status' = [status EXCEPT ![o] = "unlogged"]
  /\ UNCHANGED <<kind, overdue, positions, settled, tracker, faults>>

(* mongo_log_order inserts the document, due for a check at once.          *)
LogOrder(o) ==
  /\ status[o] = "unlogged"
  /\ IdReturned(kind, book[o])
  /\ status' = [status EXCEPT ![o] = "pending"]
  /\ UNCHANGED <<placing, book, overdue, positions, settled, tracker, faults>>

(* The document is never inserted: execute lost the broker's reply and     *)
(* returned None, or the insert failed (swallowed by mongo_log_order), or  *)
(* the placing process died between the two calls.                         *)
LoseOrder(o) ==
  /\ status[o] = "unlogged"
  /\ status' = [status EXCEPT ![o] = "untracked"]
  /\ UNCHANGED <<placing, book, overdue, positions, settled, tracker, faults>>

-----------------------------------------------------------------------------
(* The broker and the clock.                                               *)

Deal(o, n) ==
  /\ book[o].state = "open"
  /\ book[o].dealt + n <= book[o].qty
  /\ book' = [book EXCEPT ![o] = Dealt(@, n)]
  /\ UNCHANGED <<placing, store, overdue, tracker, faults>>

(* The order is rejected, expires, or is cancelled at the broker.          *)
EndUnfilled(o) ==
  /\ book[o].state = "open"
  /\ book' = [book EXCEPT ![o] = Ended(@)]
  /\ UNCHANGED <<placing, store, overdue, tracker, faults>>

GrowOld(o) ==
  /\ status[o] = "pending"
  /\ o \notin overdue
  /\ overdue' = overdue \cup {o}
  /\ UNCHANGED <<placing, book, store, tracker, faults>>

-----------------------------------------------------------------------------
(* OrderTracker._check_pending.                                            *)

(* Slip: find_pending lists every document.                                *)
AllDocuments == {o \in Orders : status[o] \in {"pending"} \cup Closed}

Pending == {o \in Orders : status[o] = "pending"}

(* One read of the collection; ages are computed from the clock read just  *)
(* before it.  next_check_at is never later than the next wake-up.         *)
ReadBatch ==
  /\ pc = "asleep"
  /\ Pending # {}
  /\ todo' = Pending
  /\ late' = Pending \cap overdue
  /\ pc' = "next"
  /\ UNCHANGED <<placing, book, store, overdue, doc, faults>>

(* Slip: the order in hand stays in the batch.                             *)
NextDocKept(o) ==
  /\ pc = "next"
  /\ o \in todo
  /\ doc' = o
  /\ pc' = IF o \in late THEN "cancel" ELSE "check"
  /\ UNCHANGED <<placing, book, store, overdue, todo, late, faults>>

(* Slip: max_pending_age is not looked at.                                 *)
NextDocAgeless(o) ==
  /\ pc = "next"
  /\ o \in todo
  /\ todo' = todo \ {o}
  /\ doc' = o
  /\ pc' = "check"
  /\ UNCHANGED <<placing, book, store, overdue, late, faults>>

NextDoc(o) ==
  /\ pc = "next"
  /\ o \in todo
  /\ todo' = todo \ {o}
  /\ doc' = o
  /\ pc' = IF o \in late THEN "cancel" ELSE "check"
  /\ UNCHANGED <<placing, book, store, overdue, late, faults>>

EndBatch ==
  /\ pc = "next"
  /\ todo = {}
  /\ late' = {}
  /\ doc' = NoOrder
  /\ pc' = "asleep"
  /\ UNCHANGED <<placing, book, store, overdue, todo, faults>>

(* Slip: any fill, partial ones included, fills the order.                 *)
VerdictOfAnyFill(fill, shares) ==
  CASE fill.status = "filled"                              -> "fill"
    [] fill.status \in {"cancelled", "failed", "rejected"} -> "fail"
    [] OTHER                                               -> "retry"

(* What to do with the broker's answer.                                    *)
Verdict(fill, shares) ==
  CASE fill.status = "filled" /\ fill.qty >= shares          -> "fill"
    [] fill.status \in {"cancelled", "failed", "rejected"}   -> "fail"
    [] OTHER                                                 -> "retry"

CheckOrder ==
  /\ pc = "check"
  /\ \E fill \in CheckAnswers(kind, book[doc], status[doc] = "pending", order[doc].shares) :
       pc' = Verdict(fill, order[doc].shares)
  /\ UNCHANGED <<placing, book, store, overdue, todo, late, doc, faults>>

(* _cancel, first half: whatever cancel_order does, False and exceptions   *)
(* included, the order is marked timed out next.                           *)
CancelOrder ==
  /\ pc = "cancel"
  /\ \E entry \in CancelOutcomes(kind, book[doc]) : book' = [book EXCEPT ![doc] = entry]
  /\ pc' = "expire"
  /\ UNCHANGED <<placing, store, overdue, todo, late, doc, faults>>

(* One unconditional update of the document the tracker holds.             *)
Mark(step, st, then) ==
  /\ pc = step
  /\ status' = [status EXCEPT ![doc] = st]
  /\ pc' = then
  /\ UNCHANGED <<placing, book, positions, settled, overdue, todo, late, doc, faults>>

MarkTimeout == Mark("expire", "timeout", "next")
MarkFailed  == Mark("fail", "failed", "next")
UpdateRetry == Mark("retry", status[doc], "next")

(* Slip: the position moves although the order was left pending.           *)
MarkNothing == Mark("fill", status[doc], "apply")

(* Slip: the position update is forgotten.                                 *)
MarkOnly == Mark("fill", "filled", "next")

(* _mark_filled, first half: the order is closed before the position moves.*)
MarkFilled  == Mark("fill", "filled", "apply")

(* _mark_filled, second half: open_position or close_position, with the    *)
(* shares of the document.                                                 *)
ApplyFill ==
  /\ pc = "apply"
  /\ positions' = L!AfterFill(positions, order[doc])
  /\ settled' = settled \cup {doc}
  /\ pc' = "next"
  /\ UNCHANGED <<placing, book, status, overdue, todo, late, doc, faults>>

-----------------------------------------------------------------------------
(* Faults.                                                                 *)

(* What a database write leaves behind when the call raises: nothing, or   *)
(* (the reply was lost) its effect.                                        *)
Torn ==
  \/ UNCHANGED store
  \/ /\ pc = "expire"
     /\ status' = [status EXCEPT ![doc] = "timeout"]
     /\ UNCHANGED <<positions, settled>>
  \/ /\ pc = "fail"
     /\ status' = [status EXCEPT ![doc] = "failed"]
     /\ UNCHANGED <<positions, settled>>
  \/ /\ pc = "fill"
     /\ status' = [status EXCEPT ![doc] = "filled"]
     /\ UNCHANGED <<positions, settled>>
  \/ /\ pc = "apply"
     /\ positions' = L!AfterFill(positions, order[doc])
     /\ settled' = settled \cup {doc}
     /\ UNCHANGED status

(* A write raises.  The exception ends the work on this order (it is       *)
(* swallowed in _mark_filled or by the loop) and the batch goes on.        *)
DbFails ==
  /\ pc \in {"expire", "fail", "retry", "fill", "apply"}
  /\ faults < MaxFaults
  /\ faults' = faults + 1
  /\ Torn
  /\ pc' = "next"
  /\ UNCHANGED <<placing, book, overdue, todo, late, doc>>

(* The process dies and is started again; the batch was only in memory.    *)
Crash ==
  /\ pc # "asleep"
  /\ faults < MaxFaults
  /\ faults' = faults + 1
  /\ Torn
  /\ pc' = "asleep"
  /\ todo' = {}
  /\ late' = {}
  /\ doc' = NoOrder
  /\ UNCHANGED <<placing, book, overdue>>

-----------------------------------------------------------------------------

Placing == \E o \in Orders :
  \/ \E info \in L!OrderInfo : Submit(o, info)
  \/ LogOrder(o)
  \/ LoseOrder(o)

World == \E o \in Orders :
  \/ \E n \in 1..book[o].qty : Deal(o, n)
  \/ EndUnfilled(o)
  \/ GrowOld(o)

Tracking ==
  \/ ReadBatch
  \/ \E o \in Orders : NextDoc(o)
  \/ EndBatch
  \/ CheckOrder
  \/ CancelOrder
  \/ MarkTimeout
  \/ MarkFailed
  \/ UpdateRetry
  \/ MarkFilled
  \/ ApplyFill

Next == Placing \/ World \/ Tracking \/ DbFails \/ Crash

Spec == Init /\ [][Next]_vars

(* The tracker's loop never stops by itself, and time passes.              *)
FairSpec ==
  /\ Spec
  /\ WF_vars(Tracking)
  /\ \A o \in Orders : WF_vars(GrowOld(o))

-----------------------------------------------------------------------------
(* Properties.                                                             *)

(* A document is only marked filled when the broker had dealt at least the *)
(* document's shares, whatever lot the adapter submitted and however it    *)
(* reports partial fills.  (_check_pending's comparison of filled_qty.)    *)
FilledWasDealt ==
  \A o \in Orders : status[o] = "filled" => book[o].dealt >= order[o].shares

(* The shares the broker has dealt, order by order, and the buys of a      *)
(* symbol among the orders placed.                                         *)
DealtShares == [o \in Orders |-> book[o].dealt]

BuysOf(s) == {o \in Orders : /\ order[o] # NoOrder
                             /\ order[o].symbol = s
                             /\ order[o].action = "buy"}

(* The position store never shows more shares of a symbol than the broker  *)
(* has dealt in buys of it: neither partial fills, board lots, retries nor *)
(* crashes make a holding up.  (_check_pending's comparison and            *)
(* _mark_filled's open_position, against the broker's own record.)         *)
StoreNotOverstated ==
  \A s \in Symbols : positions[s] <= SumFunctionOnSet(DealtShares, BuysOf(s))

(* The shares the documents ask for, and the filled orders of a symbol.    *)
OrderShares == [o \in Orders |-> IF order[o] = NoOrder THEN 0 ELSE order[o].shares]

FilledOrders(s) == {o \in Orders : status[o] = "filled" /\ order[o].symbol = s}

(* Nor does it show fewer: before a first fault, and except while a fill is*)
(* being written, a symbol of which only buys are filled is held with the  *)
(* shares of all of them, whichever batches confirmed them and whatever    *)
(* time-outs, retries and partial fills came between.  (_mark_filled, its  *)
(* two writes, and open_position's averaging in.)                          *)
HoldingIsComplete ==
  faults = 0 /\ pc # "apply" =>
    \A s \in Symbols :
      (\A o \in FilledOrders(s) : order[o].action = "buy") =>
        positions[s] = SumFunctionOnSet(OrderShares, FilledOrders(s))

(* An order has a status exactly when it has been submitted.               *)
Accepted ==
  \A o \in Orders : order[o] = NoOrder <=> status[o] = "none"

(* PaperBroker deals every order it accepts, at once.                      *)
PaperDealt ==
  kind = "paper" =>
    \A o \in Orders : order[o] # NoOrder => /\ book[o].state = "filled"
                                            /\ book[o].dealt >= order[o].shares

(* The batch and the document in hand are still pending, and distinct: the *)
(* snapshot _check_pending works from never goes stale under it, although  *)
(* its updates carry no status guard.                                      *)
BatchIsPending ==
  /\ todo \subseteq Pending
  /\ pc = "asleep" => todo = {}
  /\ pc \in {"check", "cancel", "expire", "fill", "fail", "retry"} =>
       doc \in Pending \ todo

(* A fill is written only after the broker's answer covered it.            *)
FillIsCovered ==
  pc = "fill" => book[doc].dealt >= order[doc].shares

(* Only orders the collection calls filled have moved a position, and the  *)
(* one about to move it has not done so before.                            *)
SettledIsFilled ==
  /\ \A o \in settled : status[o] = "filled"
  /\ pc = "apply" => /\ doc \in Orders \ settled
                     /\ status[doc] = "filled"

(* The inductive invariant behind the theorems: what the collections, the  *)
(* broker and the tracker's memory know of an order agree, at every await  *)
(* of _check_pending and after every crash.                                *)
TrackerInv ==
  /\ TypeOK
  /\ Accepted
  /\ PaperDealt
  /\ BatchIsPending
  /\ FillIsCovered
  /\ SettledIsFilled
  /\ FilledWasDealt

(* The tracker's document updates are unconditional (by _id only), yet a   *)
(* closed order is never written again, crashes and lost replies included. *)
(* (OrderTracker._check_pending with MongoOrderStore's mark_* updates.)    *)
ClosedIsFinal ==
  [][\A o \in Orders : status[o] \in Closed => status'[o] = status[o]]_vars

(* The position store is a ledger of fills: each accepted order changes it *)
(* at most once, crashes and retries included, and nothing else does.      *)
(* (_mark_filled with open_position and close_position.)                   *)
LedgerSpec == L!Spec

(* No order stays pending for ever: the broker's answer or max_pending_age *)
(* closes it.  (The loop of OrderTracker.run.)                             *)
EveryOrderCloses ==
  \A o \in Orders : status[o] = "pending" ~> status[o] \in Closed

(* A fill the collection records reaches the position store.  (Module      *)
(* docstring: the tracker "survives crashes".)                             *)
FillsReachPositions ==
  \A o \in Orders : status[o] = "filled" ~> o \in settled

(* Short of a crash or a failed database call, it does, whatever the broker*)
(* answers and however the batches fall.  (_mark_filled.)                  *)
FillsSettleUnlessFault ==
  \A o \in Orders : status[o] = "filled" ~> (o \in settled \/ faults > 0)
=============================================================================
