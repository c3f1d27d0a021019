------------------------- MODULE KafkaEventBusProofs -------------------------
(***************************************************************************)
(* Theorems about KafkaEventBus for any number of records, batch size,     *)
(* process deaths and failed Kafka calls.                                  *)
(***************************************************************************)
EXTENDS KafkaEventBus, TLAPS

USE BusAssumption DEF D!Ids

LEMMA FetchToType ==
  ASSUME TypeOK, position < published
  PROVE  /\ FetchTo \in 0..MaxMessages
         /\ position < FetchTo /\ FetchTo <= published
BY DEF TypeOK, FetchTo

LEMMA InitInv == Init => CommitInv
BY DEF Init, CommitInv, Covered, TypeOK, Places

(* One more call of the handler covers one more record.                    *)
LEMMA CoveredGrows ==
  ASSUME TypeOK, next \in D!Ids, calls' = [calls EXCEPT ![next] = @ + 1]
  PROVE  /\ calls' \in [D!Ids -> Nat]
         /\ \A n \in Nat : Covered(n) => Covered(n)'
         /\ Covered(next) => \A n \in Nat : n = next + 1 => Covered(n)'
BY DEF TypeOK, Covered

LEMMA NextInv == CommitInv /\ [Next]_vars => CommitInv'
<1> SUFFICES ASSUME CommitInv, [Next]_vars PROVE CommitInv'
  OBVIOUS
<1> USE DEF CommitInv, TypeOK, Places, process
<1>1. CASE Publish
  BY <1>1 DEF Publish, Covered
<1>2. CASE Start
  BY <1>2 DEF Start, Covered
<1>3. CASE Join
  BY <1>3 DEF Join, Covered
<1>4. CASE Fetch
  BY <1>4, FetchToType DEF Fetch, Covered
<1>5. CASE Handle
  BY <1>5, CoveredGrows DEF Handle, Covered
<1>6. CASE Commit
  BY <1>6 DEF Commit, Covered
<1>7. CASE KafkaFails
  BY <1>7 DEF KafkaFails, Covered
<1>8. CASE Crash
  BY <1>8, CoveredGrows DEF Crash, Covered
<1>9. CASE UNCHANGED vars
  BY <1>9 DEF vars, Covered
<1>10. QED
  BY <1>1, <1>2, <1>3, <1>4, <1>5, <1>6, <1>7, <1>8, <1>9 DEF Next, Listen

(* Everything below the committed offset has been handed to the handler.   *)
THEOREM CommitInvariant == Spec => []CommitInv
<1>1. QED
  BY InitInv, NextInv, PTL DEF Spec

-----------------------------------------------------------------------------

LEMMA GapFreeStep ==
  ASSUME CommitInv, [Next]_vars
  PROVE  [\/ D!Publish
          \/ \E i \in D!Ids : /\ D!Call(i)
                              /\ \A j \in D!Ids : j < i => calls[j] > 0]_(D!deliveryVars)
<1> USE DEF CommitInv, TypeOK, D!deliveryVars, process
<1>1. ASSUME listener = "handling", calls' = [calls EXCEPT ![next] = @ + 1], UNCHANGED published
      PROVE  \E i \in D!Ids : /\ D!Call(i)
                              /\ \A j \in D!Ids : j < i => calls[j] > 0
  <2>1. next \in D!Ids
    BY <1>1
  <2>2. D!Call(next)
    BY <1>1 DEF D!Call
  <2>3. \A j \in D!Ids : j < next => calls[j] > 0
    BY <1>1 DEF Covered
  <2>4. QED
    BY <2>1, <2>2, <2>3
<1>2. CASE Publish
  BY <1>2 DEF Publish, D!Publish
<1>3. CASE Handle
  BY <1>1, <1>3 DEF Handle
<1>4. CASE Crash
  BY <1>1, <1>4 DEF Crash
<1>5. CASE Start \/ Join \/ Fetch \/ Commit \/ KafkaFails
  BY <1>5 DEF Start, Join, Fetch, Commit, KafkaFails
<1>6. CASE UNCHANGED vars
  BY <1>6 DEF vars
<1>7. QED
  BY <1>2, <1>3, <1>4, <1>5, <1>6 DEF Next, Listen

(* The bus never skips a record, whatever fails.                           *)
THEOREM ImplementsGapFree == Spec => NeverSkips
<1>1. Init => D!Init
  BY DEF Init, D!Init
<1>2. QED
  BY InitInv, NextInv, GapFreeStep, <1>1, PTL DEF Spec, NeverSkips, D!GapFreeSpec
=============================================================================
