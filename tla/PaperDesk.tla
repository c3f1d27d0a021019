------------------------------ MODULE PaperDesk ------------------------------
(***************************************************************************)
(* The paper account in MongoDB and the PaperBrokers that share it.  Every *)
(* process builds a broker of its own: it reads the cash once, keeps it in *)
(* memory and writes it back whole after each order.  In a single process  *)
(* trader and monitor share one broker; deployed apart they have two.      *)
(***************************************************************************)
EXTENDS Integers

CONSTANTS
  Layouts,        \* sets of processes that have a broker, one is deployed
  Buyers,         \* processes that buy; all sell
  StartingCash,   \* initial_cash
  OrderValues,    \* price * qty of an order; the runners give the broker no cost model
  NoAccount,      \* no document yet
  MaxMoney, MaxMishaps   \* bounds

Brokers == UNION Layouts

ASSUME DeskAssumption ==
  /\ StartingCash \in Nat /\ OrderValues \subseteq Nat
  /\ Buyers \subseteq Brokers
  /\ NoAccount \notin Int
  /\ MaxMoney \in Nat /\ MaxMishaps \in Nat

VARIABLES
  deployed,   \* the layout
  savedCash,  \* cash of the document paper_account
  desk,       \* desk[b]: the process does not run, has found no document, or trades
  money,      \* money[b]: _cash of its broker
  lots,       \* lots[b]: _positions of its broker, as orders bought since the last sale
  book,       \* what the executed orders leave of the starting cash
  writers,    \* processes that traded
  mishaps     \* failed reads and writes of the document

deskVars == <<deployed, savedCash, desk, money, lots, book, writers, mishaps>>

DeskTypeOK ==
  /\ deployed \in Layouts
  /\ savedCash \in Int \cup {NoAccount}
  /\ desk \in [Brokers -> {"down", "creating", "up"}]
  /\ money \in [Brokers -> Int]
  /\ lots \in [Brokers -> Nat]
  /\ book \in Int
  /\ writers \in SUBSET deployed
  /\ mishaps \in Nat

DeskInit ==
  /\ deployed \in Layouts
  /\ savedCash = NoAccount
  /\ desk = [b \in Brokers |-> "down"]
  /\ money = [b \in Brokers |-> StartingCash]
  /\ lots = [b \in Brokers |-> 0]
  /\ book = StartingCash
  /\ writers = {}
  /\ mishaps = 0

-----------------------------------------------------------------------------
(* A process starts: _load_cash.                                           *)

Reads(b, amount) ==
  /\ money' = [money EXCEPT ![b] = amount]
  /\ lots' = [lots EXCEPT ![b] = 0]
  /\ desk' = [desk EXCEPT ![b] = "up"]

FindAccount(b) ==
  /\ desk[b] = "down"
  /\ savedCash # NoAccount
  /\ Reads(b, savedCash)
  /\ UNCHANGED <<deployed, savedCash, book, writers, mishaps>>

FindNone(b) ==
  /\ desk[b] = "down"
  /\ savedCash = NoAccount
  /\ desk' = [desk EXCEPT ![b] = "creating"]
  /\ UNCHANGED <<deployed, savedCash, money, lots, book, writers, mishaps>>

(* Slip: $set, as _save_cash does.                                         *)
ResetAccount(b) ==
  /\ desk[b] = "creating"
  /\ savedCash' = StartingCash
  /\ Reads(b, StartingCash)
  /\ UNCHANGED <<deployed, book, writers, mishaps>>

(* $setOnInsert: another process may have created it, and traded, since.   *)
CreateAccount(b) ==
  /\ desk[b] = "creating"
  /\ savedCash' = IF savedCash = NoAccount THEN StartingCash ELSE savedCash
  /\ Reads(b, StartingCash)
  /\ UNCHANGED <<deployed, book, writers, mishaps>>

(* The database fails; the broker goes on with the starting cash.          *)
LoadCashFails(b) ==
  /\ desk[b] # "up"
  /\ mishaps < MaxMishaps
  /\ mishaps' = mishaps + 1
  /\ Reads(b, StartingCash)
  /\ UNCHANGED <<deployed, savedCash, book, writers>>

(* Memory is all a process loses.                                          *)
GoDown(b) ==
  /\ desk[b] # "down"
  /\ desk' = [desk EXCEPT ![b] = "down"]
  /\ UNCHANGED <<deployed, savedCash, money, lots, book, writers, mishaps>>

-----------------------------------------------------------------------------
(* PaperBroker.execute, one step: it does not await once it has a price.   *)

(* _save_cash; a failed write is logged and forgotten.                     *)
SaveCash(b) ==
  \/ savedCash' = money'[b] /\ UNCHANGED mishaps
  \/ mishaps < MaxMishaps /\ mishaps' = mishaps + 1 /\ UNCHANGED savedCash

Trade(b, amount) ==
  /\ desk[b] = "up"
  /\ money[b] + amount <= MaxMoney
  /\ money' = [money EXCEPT ![b] = @ + amount]
  /\ book' = book + amount
  /\ writers' = writers \cup {b}
  /\ SaveCash(b)
  /\ UNCHANGED <<deployed, desk>>

(* The trader asks for less than the cash it is told of.                   *)
BuyShares(b, value) ==
  /\ b \in Buyers
  /\ value < money[b]
  /\ Trade(b, -value)
  /\ lots' = [lots EXCEPT ![b] = @ + 1]

(* The size comes from the position store, not from the broker's positions.*)
SellShares(b, value) ==
  /\ Trade(b, value)
  /\ lots' = [lots EXCEPT ![b] = 0]

DeskStep(b) ==
  \/ FindAccount(b) \/ FindNone(b) \/ CreateAccount(b) \/ LoadCashFails(b) \/ GoDown(b)
  \/ \E value \in OrderValues : BuyShares(b, value) \/ SellShares(b, value)

DeskNext == \E b \in deployed : DeskStep(b)

DeskSpec == DeskInit /\ [][DeskNext]_deskVars

-----------------------------------------------------------------------------
OneWriter == \A b, c \in writers : b = c

(* While only one process trades and the database answers, the account is  *)
(* what the orders left of it, through restarts and whoever else starts,   *)
(* the broker that trades knows it, and it is never overdrawn.  With a     *)
(* second one that trades, each overwrites the cash of the other.          *)
(* (PaperBroker: "cash is persisted to MongoDB paper_account collection so *)
(* it survives restarts"; README: "Cash only".)                            *)
AccountKept ==
  mishaps = 0 /\ OneWriter =>
    /\ savedCash # NoAccount => savedCash = book
    /\ \A b \in writers : desk[b] = "up" => money[b] = book
    /\ book >= 0
=============================================================================
