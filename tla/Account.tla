------------------------------- MODULE Account -------------------------------
(***************************************************************************)
(* What a simulated account promises: cash only.  Shares are bought with   *)
(* cash the account has (the fee may still overdraw it), a sale gives up   *)
(* the whole position of a symbol, and cash moves by exactly the price of  *)
(* the shares and the fee; nothing else ever changes either.  How a trade  *)
(* is decided, and which price of a bar it is made at, is not visible here.*)
(***************************************************************************)
EXTENDS Integers

CONSTANTS
  Symbols,
  Quotes,         \* prices a share can trade at
  Opening,        \* cash the account is opened with
  BuyFee(_, _),   \* fee of buying at a price a number of shares
  SellFee(_, _)   \* fee of selling at a price a number of shares

VARIABLES
  funds,          \* cash
  stock           \* stock[s]: shares held

accountVars == <<funds, stock>>

Init ==
  /\ funds = Opening
  /\ stock = [s \in Symbols |-> 0]

(* The shares a step adds to the position of a symbol.                     *)
Added(s) == stock'[s] - stock[s]

Buy(s, price) ==
  /\ Added(s) > 0
  /\ Added(s) * price <= funds
  /\ funds' = funds - (Added(s) * price + BuyFee(price, Added(s)))
  /\ \A t \in Symbols \ {s} : stock'[t] = stock[t]

(* A sale at the end of a simulation may be booked without its fee.        *)
Sell(s, price) ==
  /\ stock[s] > 0
  /\ \E fee \in {0, SellFee(price, stock[s])} :
       funds' = funds + (stock[s] * price - fee)
  /\ stock' = [stock EXCEPT ![s] = 0]

Trade(s) == \E price \in Quotes : Buy(s, price) \/ Sell(s, price)

Next == \E s \in Symbols : stock'[s] # stock[s] /\ Trade(s)

Spec == Init /\ [][Next]_accountVars
=============================================================================
