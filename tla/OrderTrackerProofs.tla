-------------------------- MODULE OrderTrackerProofs --------------------------
(***************************************************************************)
(* Theorems about OrderTracker for every set of orders, symbols and sizes, *)
(* every broker kind, every board lot and every number of faults.          *)
(***************************************************************************)
EXTENDS OrderTracker, SumFacts

-----------------------------------------------------------------------------
(* The adapters.                                                           *)

(* Rounding to whole lots yields a number of shares.                       *)
LEMMA FutuQtyType ==
  ASSUME NEW action \in Sides, NEW n \in Nat
  PROVE  FutuQty(action, n) \in Nat
<1>1. LotSize \in Nat /\ LotSize > 0
  BY LotAssumption
<1>2. n + LotSize - 1 \in Nat
  BY <1>1
<1>3. (n + LotSize - 1) \div LotSize \in Nat
  BY <1>1, <1>2
<1>4. ASSUME NEW q \in Nat PROVE q * LotSize \in Nat
  BY <1>1
<1>5. QED
  BY <1>3, <1>4 DEF FutuQty

(* An accepted order has a well-formed book entry.                         *)
LEMMA AcceptedEntryType ==
  ASSUME NEW k \in Kinds, NEW action \in Sides, NEW n \in Nat
  PROVE  AcceptedEntry(k, action, n) \in BookEntry
<1>1. FutuQty(action, n) \in Nat
  BY FutuQtyType
<1>2. QED
  BY <1>1 DEF AcceptedEntry, PaperEntry, BookEntry, BookStates

(* Whatever the adapter, an order judged filled has dealt its shares: the  *)
(* paper broker by construction of its entries, the others because the     *)
(* quantity they report is the quantity dealt.                             *)
LEMMA FillVerdict ==
  ASSUME NEW k \in Kinds, NEW entry \in BookEntry, NEW n \in Nat, NEW pending \in BOOLEAN,
         NEW fill \in CheckAnswers(k, entry, pending, n),
         Verdict(fill, n) = "fill",
         k = "paper" => entry.dealt >= n
  PROVE  entry.dealt >= n
<1>1. fill.status = "filled" /\ fill.qty >= n
  BY DEF Verdict
<1>2. CASE k = "paper"
  BY <1>2
<1>3. CASE k = "futu"
  <2>1. fill \in FutuAnswers(entry)
    BY <1>3 DEF CheckAnswers
  <2>2. fill = Answer("filled", entry.dealt)
    BY <2>1, <1>1 DEF FutuAnswers, Answer
  <2>3. QED
    BY <2>2, <1>1 DEF Answer
<1>4. CASE k \notin {"paper", "futu"}
  <2>1. fill \in DoneAnswers(entry)
    BY <1>4 DEF CheckAnswers
  <2>2. fill = Answer("filled", entry.dealt)
    BY <2>1, <1>1 DEF DoneAnswers, Answer
  <2>3. QED
    BY <2>2, <1>1 DEF Answer
<1>5. QED
  BY <1>2, <1>3, <1>4

-----------------------------------------------------------------------------
(* The inductive invariant.                                                *)

USE LotAssumption, TrackerAssumption

(* What TypeOK says of one submitted order.                                *)
LEMMA OrderTyping ==
  ASSUME TypeOK, NEW o \in Orders, order[o] # NoOrder
  PROVE  /\ order[o] \in L!OrderInfo
         /\ order[o].symbol \in Symbols
         /\ order[o].shares \in Nat
         /\ book[o] \in BookEntry
         /\ book[o].dealt \in Nat
<1>1. order[o] \in L!OrderInfo /\ book[o] \in BookEntry
  BY DEF TypeOK
<1>2. QED
  BY <1>1 DEF L!OrderInfo, BookEntry

(* Applying a fill keeps quantities natural numbers.                       *)
LEMMA AfterFillType ==
  ASSUME NEW pos \in [Symbols -> Nat], NEW info \in L!OrderInfo
  PROVE  L!AfterFill(pos, info) \in [Symbols -> Nat]
<1>1. info.symbol \in Symbols /\ info.shares \in Nat
  BY DEF L!OrderInfo
<1>2. pos[info.symbol] \in Nat
  BY <1>1
<1>3. (IF info.action = "buy" THEN pos[info.symbol] + info.shares ELSE 0) \in Nat
  BY <1>1, <1>2
<1>4. QED
  BY <1>1, <1>3 DEF L!AfterFill

(* Initially the collections are empty and the tracker sleeps.             *)
LEMMA InitInv == Init => TrackerInv
BY DEF Init, TrackerInv, TypeOK, Accepted, PaperDealt, BatchIsPending, FillIsCovered,
       SettledIsFilled, FilledWasDealt, NoEntry, BookEntry, BookStates, Statuses, Steps

(* The placing side moves an order from "none" to "pending" or loses it.   *)
LEMMA PlacingInv ==
  ASSUME TrackerInv, Placing
  PROVE  TrackerInv'
<1> USE DEF TrackerInv, TypeOK, Accepted, PaperDealt, BatchIsPending, FillIsCovered,
            SettledIsFilled, FilledWasDealt, Pending, Statuses, Steps,
            placing, tracker, L!OrderInfo
<1>1. PICK o \in Orders : \/ \E info \in L!OrderInfo : Submit(o, info)
                          \/ LogOrder(o)
                          \/ LoseOrder(o)
  BY DEF Placing
<1>2. ASSUME NEW info \in L!OrderInfo, Submit(o, info)
      PROVE  TrackerInv'
  <2>1. AcceptedEntry(kind, info.action, info.shares) \in BookEntry
    BY AcceptedEntryType DEF Sides
  <2>2. kind = "paper" => AcceptedEntry(kind, info.action, info.shares) = PaperEntry(info.shares)
    BY DEF AcceptedEntry
  <2>3. TypeOK'
    BY <1>2, <2>1 DEF Submit
  <2>4. Accepted'
    BY <1>2 DEF Submit, Sides
  <2>5. PaperDealt'
    <3> SUFFICES ASSUME kind = "paper", NEW x \in Orders, order'[x] # NoOrder
                 PROVE  book'[x].state = "filled" /\ book'[x].dealt >= order'[x].shares
      BY <1>2 DEF Submit
    <3>1. CASE x = o
      <4>1. book'[o] = PaperEntry(info.shares) /\ order'[o] = info
        BY <1>2, <2>2 DEF Submit
      <4>2. info.shares \in Nat
        OBVIOUS
      <4>3. QED
        BY <3>1, <4>1, <4>2 DEF PaperEntry
    <3>2. CASE x # o
      BY <3>2, <1>2 DEF Submit
    <3>3. QED
      BY <3>1, <3>2
  <2>6. (BatchIsPending /\ FillIsCovered /\ SettledIsFilled /\ FilledWasDealt)'
    BY <1>2 DEF Submit
  <2>7. QED
    BY <2>3, <2>4, <2>5, <2>6
<1>3. CASE LogOrder(o)
  BY <1>3 DEF LogOrder
<1>4. CASE LoseOrder(o)
  BY <1>4 DEF LoseOrder
<1>5. QED
  BY <1>1, <1>2, <1>3, <1>4

(* The broker only ever deals more, and never touches the collections.     *)
LEMMA WorldInv ==
  ASSUME TrackerInv, World
  PROVE  TrackerInv'
<1> USE DEF TrackerInv, TypeOK, Accepted, PaperDealt, BatchIsPending, FillIsCovered,
            SettledIsFilled, FilledWasDealt, Pending, Statuses, Steps,
            placing, tracker, store, L!OrderInfo, BookEntry, BookStates
<1>1. PICK o \in Orders : \/ \E n \in 1..book[o].qty : Deal(o, n)
                          \/ EndUnfilled(o)
                          \/ GrowOld(o)
  BY DEF World
<1>2. ASSUME NEW n \in 1..book[o].qty, Deal(o, n)
      PROVE  TrackerInv'
  <2>1. book[o] \in BookEntry /\ book[o].state = "open"
    BY <1>2 DEF Deal
  <2>2. Dealt(book[o], n) \in BookEntry /\ Dealt(book[o], n).dealt >= book[o].dealt
    BY <2>1 DEF Dealt
  <2>3. \A x \in Orders : book'[x] \in BookEntry /\ book'[x].dealt >= book[x].dealt
    BY <1>2, <2>2 DEF Deal
  <2>4. TypeOK' /\ Accepted' /\ BatchIsPending' /\ SettledIsFilled'
    BY <1>2, <2>2 DEF Deal
  <2>5. PaperDealt'
    BY <1>2, <2>1 DEF Deal
  <2>6. ASSUME NEW x \in Orders, order[x] # NoOrder, book[x].dealt >= order[x].shares
        PROVE  book'[x].dealt >= order'[x].shares
    <3>1. order[x].shares \in Nat /\ book[x].dealt \in Nat /\ book'[x].dealt \in Nat
      BY <2>3, <2>6, OrderTyping
    <3>2. order' = order
      BY <1>2 DEF Deal
    <3>3. QED
      BY <2>3, <2>6, <3>1, <3>2
  <2>7. FilledWasDealt'
    <3> SUFFICES ASSUME NEW x \in Orders, status[x] = "filled"
                 PROVE  book'[x].dealt >= order'[x].shares
      BY <1>2 DEF Deal
    <3>1. book[x].dealt >= order[x].shares
      BY DEF FilledWasDealt
    <3>2. order[x] # NoOrder
      BY DEF Accepted
    <3>3. QED
      BY <2>6, <3>1, <3>2
  <2>8. FillIsCovered'
    <3> SUFFICES ASSUME pc = "fill"
                 PROVE  book'[doc].dealt >= order'[doc].shares
      BY <1>2 DEF Deal
    <3>1. doc \in Orders /\ order[doc] # NoOrder /\ book[doc].dealt >= order[doc].shares
      OBVIOUS
    <3>2. QED
      BY <2>6, <3>1
  <2>9. QED
    BY <2>4, <2>5, <2>7, <2>8
<1>3. CASE EndUnfilled(o)
  BY <1>3 DEF EndUnfilled, Ended
<1>4. CASE GrowOld(o)
  BY <1>4 DEF GrowOld
<1>5. QED
  BY <1>1, <1>2, <1>3, <1>4

(* The tracker's own steps.                                                *)
LEMMA TrackingInv ==
  ASSUME TrackerInv, Tracking
  PROVE  TrackerInv'
<1> USE DEF TrackerInv, TypeOK, Accepted, PaperDealt, BatchIsPending, FillIsCovered,
            SettledIsFilled, FilledWasDealt, Pending, Statuses, Steps,
            placing, store, L!OrderInfo
<1>1. CASE ReadBatch
  BY <1>1 DEF ReadBatch
<1>2. ASSUME NEW o \in Orders, NextDoc(o)
      PROVE  TrackerInv'
  BY <1>2 DEF NextDoc
<1>3. CASE EndBatch
  BY <1>3 DEF EndBatch
<1>4. CASE CheckOrder
  <2>1. doc \in Orders /\ doc \in Pending \ todo /\ order[doc] # NoOrder
    BY <1>4 DEF CheckOrder
  <2>2. PICK fill \in CheckAnswers(kind, book[doc], status[doc] = "pending", order[doc].shares) :
          pc' = Verdict(fill, order[doc].shares)
    BY <1>4 DEF CheckOrder
  <2>3. order[doc].shares \in Nat /\ book[doc] \in BookEntry /\ kind \in Kinds
    BY <2>1, OrderTyping
  <2>4. kind = "paper" => book[doc].dealt >= order[doc].shares
    BY <2>1
  <2>5. pc' = "fill" => book[doc].dealt >= order[doc].shares
    <3> DEFINE pending == status[doc] = "pending"
    <3>1. pending \in BOOLEAN
      OBVIOUS
    <3>2. QED
      BY <2>2, <2>3, <2>4, <3>1, FillVerdict, Zenon
  <2>6. pc' \in {"fill", "fail", "retry"}
    BY <2>2, Zenon DEF Verdict
  <2>7. QED
    BY <1>4, <2>1, <2>5, <2>6 DEF CheckOrder
<1>5. CASE CancelOrder
  <2>1. doc \in Orders
    BY <1>5 DEF CancelOrder
  <2>2. PICK entry \in CancelOutcomes(kind, book[doc]) : book' = [book EXCEPT ![doc] = entry]
    BY <1>5 DEF CancelOrder
  <2>3. /\ entry \in BookEntry
        /\ entry.dealt = book[doc].dealt
        /\ kind = "paper" => entry = book[doc]
    BY <2>1, <2>2 DEF CancelOutcomes, Ended, BookEntry, BookStates
  <2>4. TypeOK' /\ Accepted' /\ BatchIsPending' /\ FillIsCovered' /\ SettledIsFilled'
    BY <1>5, <2>2, <2>3 DEF CancelOrder
  <2>5. PaperDealt' /\ FilledWasDealt'
    BY <1>5, <2>1, <2>2, <2>3 DEF CancelOrder
  <2>6. QED
    BY <2>4, <2>5
<1>6. CASE MarkTimeout
  BY <1>6 DEF MarkTimeout, Mark
<1>7. CASE MarkFailed
  BY <1>7 DEF MarkFailed, Mark
<1>8. CASE UpdateRetry
  BY <1>8 DEF UpdateRetry, Mark
<1>9. CASE MarkFilled
  BY <1>9 DEF MarkFilled, Mark
<1>10. CASE ApplyFill
  <2>1. doc \in Orders /\ status[doc] = "filled" /\ order[doc] \in L!OrderInfo
    BY <1>10 DEF ApplyFill
  <2>2. positions' \in [Symbols -> Nat]
    BY <1>10, <2>1, AfterFillType DEF ApplyFill
  <2>3. QED
    BY <1>10, <2>1, <2>2 DEF ApplyFill
<1>11. QED
  BY <1>1, <1>2, <1>3, <1>4, <1>5, <1>6, <1>7, <1>8, <1>9, <1>10 DEF Tracking

(* A write that raised has left its effect or nothing.                     *)
LEMMA TornInv ==
  ASSUME TrackerInv, Torn
  PROVE  /\ status' \in [Orders -> Statuses]
         /\ positions' \in [Symbols -> Nat]
         /\ settled' \in SUBSET Orders
         /\ \A o \in Orders : status'[o] = status[o] \/ (o = doc /\ pc # "asleep")
         /\ \A o \in Orders : status'[o] = "none" <=> status[o] = "none"
         /\ \A o \in Orders : status'[o] = "filled" =>
                status[o] = "filled" \/ (pc = "fill" /\ o = doc)
         /\ \A o \in settled' : status'[o] = "filled"
         /\ pc = "next" => status' = status
<1> USE DEF TrackerInv, TypeOK, BatchIsPending, SettledIsFilled, Pending, Statuses,
            Steps, store
<1>1. CASE UNCHANGED store
  BY <1>1
<1>2. CASE pc = "expire" /\ status' = [status EXCEPT ![doc] = "timeout"]
           /\ UNCHANGED <<positions, settled>>
  BY <1>2
<1>3. CASE pc = "fail" /\ status' = [status EXCEPT ![doc] = "failed"]
           /\ UNCHANGED <<positions, settled>>
  BY <1>3
<1>4. CASE pc = "fill" /\ status' = [status EXCEPT ![doc] = "filled"]
           /\ UNCHANGED <<positions, settled>>
  BY <1>4
<1>5. CASE /\ pc = "apply"
           /\ positions' = L!AfterFill(positions, order[doc])
           /\ settled' = settled \cup {doc}
           /\ UNCHANGED status
  <2>1. doc \in Orders /\ status[doc] = "filled"
    BY <1>5
  <2>2. order[doc] \in L!OrderInfo
    BY <2>1, OrderTyping DEF Accepted
  <2>3. positions' \in [Symbols -> Nat]
    BY <1>5, <2>2, AfterFillType
  <2>4. QED
    BY <1>5, <2>1, <2>3
<1>6. QED
  BY <1>1, <1>2, <1>3, <1>4, <1>5 DEF Torn

(* A failed call: the tracker drops the order in hand.                     *)
LEMMA DbFailsInv ==
  ASSUME TrackerInv, DbFails
  PROVE  TrackerInv'
<1>1. Torn
  BY DEF DbFails
<1>2. TypeOK'
  BY <1>1, TornInv DEF DbFails, TrackerInv, TypeOK, Steps, placing
<1>3. Accepted' /\ PaperDealt'
  BY <1>1, TornInv DEF DbFails, TrackerInv, Accepted, PaperDealt, placing
<1>4. BatchIsPending'
  <2>1. doc \notin todo /\ todo \subseteq Pending
    BY DEF DbFails, TrackerInv, BatchIsPending, SettledIsFilled, Pending
  <2>2. \A o \in todo : status'[o] = status[o]
    BY <1>1, <2>1, TornInv DEF Pending
  <2>3. QED
    BY <2>1, <2>2 DEF DbFails, BatchIsPending, Pending
<1>5. FilledWasDealt'
  <2> SUFFICES ASSUME NEW o \in Orders, status'[o] = "filled"
               PROVE  book'[o].dealt >= order'[o].shares
    BY DEF FilledWasDealt
  <2>1. status[o] = "filled" \/ (pc = "fill" /\ o = doc)
    BY <1>1, TornInv
  <2>2. QED
    BY <2>1 DEF DbFails, TrackerInv, FilledWasDealt, FillIsCovered, placing
<1>6. FillIsCovered' /\ SettledIsFilled'
  BY <1>1, TornInv DEF DbFails, FillIsCovered, SettledIsFilled
<1>7. QED
  BY <1>2, <1>3, <1>4, <1>5, <1>6 DEF TrackerInv

(* A crash: the tracker forgets its batch.                                 *)
LEMMA CrashInv ==
  ASSUME TrackerInv, Crash
  PROVE  TrackerInv'
<1>1. Torn
  BY DEF Crash
<1>2. TypeOK'
  BY <1>1, TornInv DEF Crash, TrackerInv, TypeOK, Steps, placing
<1>3. Accepted' /\ PaperDealt'
  BY <1>1, TornInv DEF Crash, TrackerInv, Accepted, PaperDealt, placing
<1>4. BatchIsPending'
  BY DEF Crash, BatchIsPending
<1>5. FilledWasDealt'
  <2> SUFFICES ASSUME NEW o \in Orders, status'[o] = "filled"
               PROVE  book'[o].dealt >= order'[o].shares
    BY DEF FilledWasDealt
  <2>1. status[o] = "filled" \/ (pc = "fill" /\ o = doc)
    BY <1>1, TornInv
  <2>2. QED
    BY <2>1 DEF Crash, TrackerInv, FilledWasDealt, FillIsCovered, placing
<1>6. FillIsCovered' /\ SettledIsFilled'
  BY <1>1, TornInv DEF Crash, FillIsCovered, SettledIsFilled
<1>7. QED
  BY <1>2, <1>3, <1>4, <1>5, <1>6 DEF TrackerInv

(* Every step keeps the invariant.                                         *)
LEMMA NextInv ==
  ASSUME TrackerInv, [Next]_vars
  PROVE  TrackerInv'
<1>1. CASE Next
  BY <1>1, PlacingInv, WorldInv, TrackingInv, DbFailsInv, CrashInv DEF Next
<1>2. CASE UNCHANGED vars
  BY <1>2 DEF vars, placing, store, tracker, TrackerInv, TypeOK, Accepted, PaperDealt,
              BatchIsPending, FillIsCovered, SettledIsFilled, FilledWasDealt, Pending
<1>3. QED
  BY <1>1, <1>2

-----------------------------------------------------------------------------
(* Theorems.                                                               *)

(* In every reachable state the collections, the broker's book and the     *)
(* tracker's memory agree (OrderTracker._check_pending, all awaits and     *)
(* crashes included).                                                      *)
THEOREM TrackerInvariant == Spec => []TrackerInv
<1>1. Init => TrackerInv
  BY InitInv
<1>2. TrackerInv /\ [Next]_vars => TrackerInv'
  BY NextInv
<1>3. QED
  BY <1>1, <1>2, PTL DEF Spec

(* The variables keep their types.                                         *)
THEOREM TypeCorrect == Spec => []TypeOK
<1>1. TrackerInv => TypeOK
  BY DEF TrackerInv
<1>2. QED
  BY <1>1, TrackerInvariant, PTL

(* A document marked filled was dealt in full at the broker, for every     *)
(* broker kind and every lot size (the filled_qty test of _check_pending). *)
THEOREM FilledOrdersWereDealt == Spec => []FilledWasDealt
<1>1. TrackerInv => FilledWasDealt
  BY DEF TrackerInv
<1>2. QED
  BY <1>1, TrackerInvariant, PTL

(* A step of the tracker closes no order twice: what it writes to is the   *)
(* order in hand, and that one is pending (or, in apply, is not written).  *)
LEMMA ClosedStep ==
  ASSUME TrackerInv, [Next]_vars, NEW o \in Orders, status[o] \in Closed
  PROVE  status'[o] = status[o]
<1> USE DEF Closed
<1>1. status \in [Orders -> Statuses]
  BY DEF TrackerInv, TypeOK
<1>2. pc \in {"expire", "fill", "fail", "retry"} => doc # o /\ doc \in Orders
  BY DEF TrackerInv, BatchIsPending, Pending
<1>3. CASE Placing
  BY <1>1, <1>3 DEF Placing, Submit, LogOrder, LoseOrder, TrackerInv, Accepted
<1>4. CASE World
  BY <1>4 DEF World, Deal, EndUnfilled, GrowOld, store
<1>5. CASE Tracking
  <2>1. CASE MarkTimeout \/ MarkFailed \/ UpdateRetry \/ MarkFilled
    BY <1>1, <1>2, <2>1 DEF MarkTimeout, MarkFailed, UpdateRetry, MarkFilled, Mark
  <2>2. CASE ReadBatch \/ (\E x \in Orders : NextDoc(x)) \/ EndBatch \/ CheckOrder
             \/ CancelOrder \/ ApplyFill
    BY <2>2 DEF ReadBatch, NextDoc, EndBatch, CheckOrder, CancelOrder, ApplyFill, store
  <2>3. QED
    BY <1>5, <2>1, <2>2 DEF Tracking
<1>6. CASE DbFails \/ Crash
  <2>1. Torn
    BY <1>6 DEF DbFails, Crash
  <2>2. QED
    BY <1>1, <1>2, <2>1 DEF Torn, store
<1>7. CASE UNCHANGED vars
  BY <1>7 DEF vars, store
<1>8. QED
  BY <1>3, <1>4, <1>5, <1>6, <1>7 DEF Next

(* A filled, failed or timed-out order keeps that status for ever, although*)
(* the updates of MongoOrderStore carry no status guard.                   *)
THEOREM ClosedOrdersAreFinal == Spec => ClosedIsFinal
<1>1. TrackerInv /\ [Next]_vars
        => [\A o \in Orders : status[o] \in Closed => status'[o] = status[o]]_vars
  BY ClosedStep
<1>2. QED
  BY <1>1, TrackerInvariant, PTL DEF Spec, ClosedIsFinal

-----------------------------------------------------------------------------
(* The position store is a ledger.                                         *)

(* One step of the order lifecycle is a ledger step or invisible to it.    *)
LEMMA LedgerStep ==
  ASSUME TrackerInv, [Next]_vars
  PROVE  [L!Next]_(L!ledgerVars)
<1> USE DEF L!ledgerVars
<1>1. CASE Placing
  <2>1. PICK o \in Orders : \/ \E info \in L!OrderInfo : Submit(o, info)
                            \/ LogOrder(o)
                            \/ LoseOrder(o)
    BY <1>1 DEF Placing
  <2>2. CASE \E info \in L!OrderInfo : Submit(o, info)
    <3>1. L!Accept(o)
      BY <2>2 DEF Submit, L!Accept
    <3>2. QED
      BY <3>1 DEF L!Next
  <2>3. CASE LogOrder(o) \/ LoseOrder(o)
    BY <2>3 DEF LogOrder, LoseOrder, placing
  <2>4. QED
    BY <2>1, <2>2, <2>3
<1>2. CASE World
  BY <1>2 DEF World, Deal, EndUnfilled, GrowOld, placing, store
<1>3. ASSUME pc = "apply",
             positions' = L!AfterFill(positions, order[doc]),
             settled' = settled \cup {doc},
             order' = order
      PROVE  L!Next
  <2>1. doc \in Orders /\ doc \notin settled /\ status[doc] = "filled"
    BY <1>3 DEF TrackerInv, SettledIsFilled
  <2>2. order[doc] \in L!OrderInfo
    BY <2>1, OrderTyping DEF TrackerInv, Accepted
  <2>3. L!Settle(doc)
    BY <1>3, <2>1, <2>2 DEF L!Settle
  <2>4. QED
    BY <2>1, <2>3 DEF L!Next
<1>4. CASE Tracking
  <2>1. CASE ApplyFill
    BY <1>3, <2>1 DEF ApplyFill, placing
  <2>2. CASE MarkTimeout \/ MarkFailed \/ UpdateRetry \/ MarkFilled
    BY <2>2 DEF MarkTimeout, MarkFailed, UpdateRetry, MarkFilled, Mark, placing
  <2>3. CASE ReadBatch \/ (\E x \in Orders : NextDoc(x)) \/ EndBatch \/ CheckOrder
             \/ CancelOrder
    BY <2>3 DEF ReadBatch, NextDoc, EndBatch, CheckOrder, CancelOrder, store, placing
  <2>4. QED
    BY <1>4, <2>1, <2>2, <2>3 DEF Tracking
<1>5. CASE DbFails \/ Crash
  <2>1. Torn /\ order' = order
    BY <1>5 DEF DbFails, Crash, placing
  <2>2. CASE UNCHANGED <<positions, settled>>
    BY <2>1, <2>2
  <2>3. CASE ~UNCHANGED <<positions, settled>>
    BY <1>3, <2>1, <2>3 DEF Torn, store
  <2>4. QED
    BY <2>2, <2>3
<1>6. CASE UNCHANGED vars
  BY <1>6 DEF vars, store, placing
<1>7. QED
  BY <1>1, <1>2, <1>4, <1>5, <1>6 DEF Next

(* The order lifecycle implements the ledger: however submissions, deals,  *)
(* polls, time-outs, failed writes and crashes interleave, an order changes*)
(* the position store at most once, by its own shares, and nothing else    *)
(* changes it.                                                             *)
THEOREM ImplementsLedger == Spec => LedgerSpec
<1>1. Init => L!Init
  BY DEF Init, L!Init
<1>2. TrackerInv /\ [Next]_vars => [L!Next]_(L!ledgerVars)
  BY LedgerStep
<1>3. QED
  BY <1>1, <1>2, TrackerInvariant, PTL DEF Spec, LedgerSpec, L!Spec

-----------------------------------------------------------------------------
(* The position store shows neither more than the broker dealt nor, short  *)
(* of a fault, less than the collection calls filled.                      *)
(*                                                                         *)
(* StoreNotOverstated says nothing of the orders that are not settled yet, *)
(* so it is not inductive: settling a buy raises the position and no sum.  *)
(* What a settled buy adds is its document's shares, so a position is at   *)
(* most what the settled buys add up to; those are filled, and were dealt. *)
(* It is exactly their sum as long as no sell of the symbol has settled.   *)

Placed == {o \in Orders : order[o] # NoOrder}

SettledBuys(s) == settled \cap BuysOf(s)

Unsold(s) == \A o \in settled : order[o].symbol = s => order[o].action = "buy"

HoldingInv ==
  /\ IsFiniteSet(Placed)
  /\ \A s \in Symbols : positions[s] <= SumFunctionOnSet(OrderShares, SettledBuys(s))
  /\ \A s \in Symbols :
       Unsold(s) => positions[s] = SumFunctionOnSet(OrderShares, SettledBuys(s))

LEMMA HoldingInit == Init => HoldingInv
<1> SUFFICES ASSUME Init PROVE HoldingInv
  OBVIOUS
<1>1. Placed = {} /\ \A s \in Symbols : positions[s] = 0 /\ SettledBuys(s) = {}
  BY DEF Init, Placed, SettledBuys
<1>2. QED
  BY <1>1, FS_EmptySet, SumEmpty DEF HoldingInv

(* Only finitely many orders are placed, and what they are worth.          *)
LEMMA HoldingTypes ==
  ASSUME TrackerInv, IsFiniteSet(Placed)
  PROVE  /\ settled \subseteq Placed
         /\ \A o \in Orders : OrderShares[o] \in Nat
         /\ positions \in [Symbols -> Nat]
         /\ \A s \in Symbols : /\ IsFiniteSet(BuysOf(s))
                                /\ IsFiniteSet(SettledBuys(s))
                                /\ SettledBuys(s) \in SUBSET BuysOf(s)
                                /\ BuysOf(s) \in SUBSET Orders
                                /\ SumFunctionOnSet(OrderShares, SettledBuys(s)) \in Int
<1>1. \A o \in Orders : OrderShares[o] \in Nat
  BY OrderTyping DEF OrderShares, TrackerInv
<1>2. settled \subseteq Placed /\ positions \in [Symbols -> Nat]
  BY DEF TrackerInv, TypeOK, SettledIsFilled, Accepted, Placed
<1>3. ASSUME NEW s \in Symbols
      PROVE  /\ IsFiniteSet(BuysOf(s))
             /\ IsFiniteSet(SettledBuys(s))
             /\ SettledBuys(s) \in SUBSET BuysOf(s)
             /\ BuysOf(s) \in SUBSET Orders
             /\ SumFunctionOnSet(OrderShares, SettledBuys(s)) \in Int
  <2>1. /\ BuysOf(s) \in SUBSET Placed /\ SettledBuys(s) \in SUBSET BuysOf(s)
        /\ BuysOf(s) \in SUBSET Orders
    BY DEF BuysOf, SettledBuys, Placed
  <2>2. IsFiniteSet(BuysOf(s)) /\ IsFiniteSet(SettledBuys(s))
    BY <2>1, FS_Subset
  <2>3. SumFunctionOnSet(OrderShares, SettledBuys(s)) \in Int
    BY <1>1, <2>1, <2>2, SumIsInt
  <2>4. QED
    BY <2>1, <2>2, <2>3
<1>4. QED
  BY <1>1, <1>2, <1>3

(* An order that is placed is in no sum yet.                               *)
LEMMA HoldingAccept ==
  ASSUME TrackerInv, HoldingInv, NEW o \in Orders, L!Accept(o)
  PROVE  HoldingInv'
<1>1. PICK info \in L!OrderInfo : order[o] = NoOrder /\ order' = [order EXCEPT ![o] = info]
  BY DEF L!Accept
<1>2. UNCHANGED <<settled, positions>> /\ IsFiniteSet(Placed)
  BY DEF L!Accept, HoldingInv
<1>3. o \notin Placed /\ \A x \in Orders \ {o} : order'[x] = order[x]
  BY <1>1 DEF Placed
<1>4. IsFiniteSet(Placed')
  <2>1. Placed' \subseteq Placed \cup {o}
    BY <1>3 DEF Placed
  <2>2. QED
    BY <1>2, <2>1, FS_AddElement, FS_Subset
<1>5. ASSUME NEW s \in Symbols
      PROVE  SumFunctionOnSet(OrderShares', SettledBuys(s)')
               = SumFunctionOnSet(OrderShares, SettledBuys(s))
  <2>1. o \notin settled /\ settled \subseteq Orders
    BY <1>2, <1>3, HoldingTypes DEF Placed
  <2>2. SettledBuys(s)' = SettledBuys(s)
    BY <1>2, <1>3, <2>1 DEF SettledBuys, BuysOf
  <2>3. \A x \in SettledBuys(s) : OrderShares[x] \in Int /\ OrderShares[x] = OrderShares'[x]
    BY <1>2, <1>3, <2>1, HoldingTypes DEF SettledBuys, OrderShares
  <2>4. QED
    BY <1>2, <2>2, <2>3, HoldingTypes, SumSame
<1>6. ASSUME NEW s \in Symbols, Unsold(s)' PROVE Unsold(s)
  <2>1. o \notin settled /\ settled \subseteq Orders
    BY <1>2, <1>3, HoldingTypes DEF Placed
  <2>2. QED
    BY <1>2, <1>3, <1>6, <2>1 DEF Unsold
<1>7. QED
  BY <1>2, <1>4, <1>5, <1>6 DEF HoldingInv

(* A settled buy adds its shares to the position and to the sum; a sell    *)
(* leaves a position of 0, which no sum is below.                          *)
LEMMA HoldingSettle ==
  ASSUME TrackerInv, HoldingInv, NEW o \in Orders, L!Settle(o)
  PROVE  HoldingInv'
<1>1. /\ o \notin settled /\ settled' = settled \cup {o} /\ order' = order
      /\ positions' = L!AfterFill(positions, order[o])
      /\ order[o] \in L!OrderInfo /\ order[o] # NoOrder
  BY DEF L!Settle, L!OrderInfo, Sides
<1>2. Placed' = Placed /\ OrderShares' = OrderShares /\ \A s \in Symbols : BuysOf(s)' = BuysOf(s)
  BY <1>1 DEF Placed, OrderShares, BuysOf
<1>3. /\ IsFiniteSet(Placed) /\ positions \in [Symbols -> Nat]
      /\ \A x \in Orders : OrderShares[x] \in Nat
  BY HoldingTypes DEF HoldingInv
<1>4. ASSUME NEW s \in Symbols
      PROVE  /\ positions'[s] <= SumFunctionOnSet(OrderShares, SettledBuys(s)')
             /\ Unsold(s)' => positions'[s] = SumFunctionOnSet(OrderShares, SettledBuys(s)')
  <2> DEFINE before == SumFunctionOnSet(OrderShares, SettledBuys(s))
             after == SumFunctionOnSet(OrderShares, SettledBuys(s)')
  <2>1. /\ IsFiniteSet(SettledBuys(s)) /\ before \in Int /\ positions[s] <= before
        /\ SettledBuys(s) \subseteq Orders
        /\ Unsold(s) => positions[s] = before
    BY <1>3, HoldingTypes DEF HoldingInv
  <2>5. Unsold(s)' => Unsold(s)
    BY <1>1 DEF Unsold
  <2>2. CASE order[o].symbol = s /\ order[o].action = "buy"
    <3>1. o \notin SettledBuys(s) /\ SettledBuys(s)' = SettledBuys(s) \cup {o}
      BY <1>1, <1>2, <2>2 DEF SettledBuys, BuysOf
    <3>2. after = OrderShares[o] + before
      BY <1>3, <2>1, <3>1, SumAdd
    <3>3. positions'[s] = positions[s] + order[o].shares /\ OrderShares[o] = order[o].shares
      BY <1>1, <1>3, <2>2 DEF L!AfterFill, OrderShares
    <3> HIDE DEF before, after
    <3>4. QED
      BY <1>3, <2>5, <2>1, <3>2, <3>3 DEF after
  <2>3. CASE ~(order[o].symbol = s /\ order[o].action = "buy")
    <3>1. SettledBuys(s)' = SettledBuys(s)
      BY <1>1, <1>2, <2>3 DEF SettledBuys, BuysOf
    <3>2. \/ positions'[s] = 0 /\ ~Unsold(s)'
          \/ positions'[s] = positions[s]
      <4>1. CASE order[o].symbol = s
        BY <1>1, <1>3, <2>3, <4>1 DEF L!AfterFill, Unsold
      <4>2. CASE order[o].symbol # s
        BY <1>1, <1>3, <4>2 DEF L!AfterFill
      <4>3. QED
        BY <4>1, <4>2
    <3>3. 0 <= before
      BY <1>3, <2>1
    <3> HIDE DEF before
    <3>4. QED
      BY <2>5, <2>1, <3>1, <3>2, <3>3 DEF before
  <2>4. QED
    BY <2>2, <2>3
<1>5. QED
  BY <1>2, <1>3, <1>4 DEF HoldingInv

LEMMA HoldingNext == ASSUME TrackerInv, HoldingInv, [Next]_vars PROVE HoldingInv'
<1>1. CASE UNCHANGED <<order, settled, positions>>
  BY <1>1 DEF HoldingInv, Placed, OrderShares, SettledBuys, BuysOf, Unsold
<1>2. QED
  BY <1>1, LedgerStep, HoldingAccept, HoldingSettle DEF L!Next, L!ledgerVars

(* The settled buys are filled, and the broker dealt at least their shares.*)
LEMMA HoldingIsDealt == ASSUME TrackerInv, HoldingInv PROVE StoreNotOverstated
<1> SUFFICES ASSUME NEW s \in Symbols
             PROVE  positions[s] <= SumFunctionOnSet(DealtShares, BuysOf(s))
  BY DEF StoreNotOverstated
<1>1. /\ IsFiniteSet(BuysOf(s)) /\ IsFiniteSet(SettledBuys(s))
      /\ SettledBuys(s) \in SUBSET BuysOf(s) /\ BuysOf(s) \in SUBSET Orders
      /\ SumFunctionOnSet(OrderShares, SettledBuys(s)) \in Int
      /\ positions[s] \in Nat
      /\ \A o \in Orders : OrderShares[o] \in Nat
  BY HoldingTypes DEF HoldingInv
<1>2. \A o \in Orders : DealtShares[o] \in Nat
  BY DEF DealtShares, TrackerInv, TypeOK, BookEntry
<1>3. \A o \in SettledBuys(s) : OrderShares[o] <= DealtShares[o]
  BY <1>1 DEF SettledBuys, BuysOf, OrderShares, DealtShares, TrackerInv, SettledIsFilled,
              FilledWasDealt
<1>4. SumFunctionOnSet(OrderShares, SettledBuys(s)) <= SumFunctionOnSet(DealtShares, SettledBuys(s))
  BY <1>1, <1>2, <1>3, SumAtMost
<1>5. SumFunctionOnSet(DealtShares, SettledBuys(s)) <= SumFunctionOnSet(DealtShares, BuysOf(s))
  BY <1>1, <1>2, SumOfFewer
<1>6. /\ SumFunctionOnSet(DealtShares, SettledBuys(s)) \in Int
      /\ SumFunctionOnSet(DealtShares, BuysOf(s)) \in Int
  BY <1>1, <1>2, SumIsInt
<1>7. positions[s] <= SumFunctionOnSet(OrderShares, SettledBuys(s))
  BY DEF HoldingInv
<1>8. QED
  BY <1>1, <1>4, <1>5, <1>6, <1>7

(* The position store never shows more shares of a symbol than the broker  *)
(* dealt in buys of it, for every number of orders and faults, every broker*)
(* and every lot size: no partial fill, board lot, retry or crash makes a  *)
(* holding up (_check_pending's comparison, _mark_filled's open_position). *)
THEOREM StoreIsNotOverstated == Spec => []StoreNotOverstated
<1>1. TrackerInv /\ HoldingInv /\ [Next]_vars => HoldingInv'
  BY HoldingNext
<1>2. TrackerInv /\ HoldingInv => StoreNotOverstated
  BY HoldingIsDealt
<1>3. QED
  BY HoldingInit, <1>1, <1>2, TrackerInvariant, PTL DEF Spec

(* A filled order has moved its position, unless a fault or the await      *)
(* between _mark_filled's two writes is in the way.                        *)
FillsAreSettled ==
  faults = 0 =>
    \A o \in Orders : status[o] = "filled" => o \in settled \/ (pc = "apply" /\ doc = o)

LEMMA FillsSettledNext ==
  ASSUME TrackerInv, FillsAreSettled, [Next]_vars
  PROVE  FillsAreSettled'
<1> USE DEF FillsAreSettled, placing, store, tracker
<1>1. CASE Placing
  <2>1. TrackerInv
    OBVIOUS
  <2>2. QED
    BY <1>1 DEF Placing, Submit, LogOrder, LoseOrder, TrackerInv, TypeOK
<1>2. CASE World
  BY <1>2 DEF World, Deal, EndUnfilled, GrowOld
<1>3. CASE Tracking
  <2>1. CASE \/ ReadBatch \/ EndBatch \/ CheckOrder \/ CancelOrder
             \/ \E o \in Orders : NextDoc(o)
    BY <2>1 DEF ReadBatch, EndBatch, CheckOrder, CancelOrder, NextDoc
  <2>2. CASE MarkTimeout \/ MarkFailed \/ UpdateRetry \/ MarkFilled
    BY <2>2 DEF MarkTimeout, MarkFailed, UpdateRetry, MarkFilled, Mark, TrackerInv, TypeOK
  <2>3. CASE ApplyFill
    BY <2>3 DEF ApplyFill
  <2>4. QED
    BY <1>3, <2>1, <2>2, <2>3 DEF Tracking
<1>4. CASE DbFails \/ Crash
  <2>1. faults \in Nat /\ faults' = faults + 1
    BY <1>4 DEF DbFails, Crash, TrackerInv, TypeOK
  <2>2. QED
    BY <2>1
<1>5. CASE UNCHANGED vars
  BY <1>5 DEF vars
<1>6. QED
  BY <1>1, <1>2, <1>3, <1>4, <1>5 DEF Next

(* Then the filled orders of a symbol are its settled ones.                *)
LEMMA FilledAreSettled ==
  ASSUME TrackerInv, FillsAreSettled, faults = 0, pc # "apply", NEW s \in Symbols,
         \A o \in FilledOrders(s) : order[o].action = "buy"
  PROVE  Unsold(s) /\ SettledBuys(s) = FilledOrders(s)
<1>1. \A o \in Orders : o \in settled <=> status[o] = "filled"
  BY DEF TrackerInv, SettledIsFilled, FillsAreSettled
<1>2. settled \subseteq Orders /\ \A o \in settled : order[o] # NoOrder
  BY <1>1 DEF TrackerInv, TypeOK, Accepted
<1>3. QED
  BY <1>1, <1>2 DEF Unsold, SettledBuys, FilledOrders, BuysOf

(* Short of a fault, and except between the two writes of a fill, a symbol *)
(* of which only buys are filled is held with the shares of all of them:   *)
(* no batch, partial fill, time-out or retry loses or repeats a fill       *)
(* (_check_pending, _mark_filled, open_position), for every number of      *)
(* orders, every broker and every lot size.                                *)
THEOREM HoldingsAreComplete == Spec => []HoldingIsComplete
<1>1. Init => FillsAreSettled
  BY DEF Init, FillsAreSettled
<1>2. TrackerInv /\ HoldingInv /\ FillsAreSettled /\ [Next]_vars
        => HoldingInv' /\ FillsAreSettled'
  BY HoldingNext, FillsSettledNext
<1>3. TrackerInv /\ HoldingInv /\ FillsAreSettled => HoldingIsComplete
  BY FilledAreSettled DEF HoldingIsComplete, HoldingInv
<1>4. QED
  BY HoldingInit, <1>1, <1>2, <1>3, TrackerInvariant, PTL DEF Spec
=============================================================================
