------------------------- MODULE RedisStreamBusProofs -------------------------
(***************************************************************************)
(* Theorems about RedisStreamBus for any number of messages, batch size,   *)
(* process deaths and failed Redis calls.                                  *)
(***************************************************************************)
EXTENDS RedisStreamBus, TLAPS

USE BusAssumption DEF D!Ids

RedisInv == BatchInv /\ AckedWasHandled

LEMMA ReadToType ==
  ASSUME TypeOK, cursor <= published
  PROVE  /\ ReadTo \in 0..MaxMessages
         /\ cursor <= ReadTo /\ ReadTo <= published
         /\ cursor < published => cursor < ReadTo
BY DEF TypeOK, ReadTo

LEMMA InitInv == Init => RedisInv
<1> SUFFICES ASSUME Init PROVE RedisInv
  OBVIOUS
<1>1. group \in BOOLEAN /\ subscribed \in BOOLEAN
  BY Zenon DEF Init
<1>2. QED
  BY <1>1 DEF Init, RedisInv, BatchInv, AckedWasHandled, TypeOK, Places

LEMMA NextInv == RedisInv /\ [Next]_vars => RedisInv'
<1> SUFFICES ASSUME RedisInv, [Next]_vars PROVE RedisInv'
  OBVIOUS
<1> USE DEF RedisInv, BatchInv, AckedWasHandled, TypeOK, Places, redis, process
<1>0. group' \in BOOLEAN /\ subscribed' \in BOOLEAN
  BY Zenon DEF Next, Listen, vars, Publish, Start, Subscribe, EnsureGroup, Read, ReadNoGroup,
               Handle, Ack, RedisFails, Crash
<1>1. CASE Publish
  BY <1>1 DEF Publish
<1>2. CASE Start
  BY <1>2 DEF Start
<1>3. CASE Subscribe
  BY <1>3 DEF Subscribe
<1>4. CASE EnsureGroup
  BY <1>4 DEF EnsureGroup
<1>5. CASE Read
  <2>1. /\ cursor' \in 0..MaxMessages /\ cursor < cursor' /\ cursor' <= published
        /\ unacked' = unacked \cup (cursor + 1)..cursor'
        /\ next' = cursor + 1 /\ listener' = "handling"
        /\ UNCHANGED <<published, group, subscribed, calls, crashes, errors>>
    BY <1>5, ReadToType DEF Read
  <2>2. TypeOK'
    BY <2>1
  <2>3. BatchInv'
    BY <2>1, <2>2
  <2>4. AckedWasHandled'
    BY <2>1
  <2>5. QED
    BY <2>3, <2>4
<1>6. CASE ReadNoGroup
  BY <1>6 DEF ReadNoGroup
<1>7. CASE Handle
  BY <1>7 DEF Handle
<1>8. CASE Ack
  BY <1>8 DEF Ack
<1>9. CASE RedisFails
  <2>1. CASE listener = "polling"
    <3>1. /\ cursor' \in 0..MaxMessages /\ cursor <= cursor' /\ cursor' <= published
          /\ unacked' = unacked \cup (cursor + 1)..cursor'
      BY <1>9, <2>1, ReadToType DEF RedisFails
    <3>2. QED
      BY <1>9, <3>1 DEF RedisFails
  <2>2. CASE listener = "acking"
    <3>1. /\ unacked' \subseteq unacked
          /\ \A i \in D!Ids : i # next => (i \in unacked' <=> i \in unacked)
      BY <1>9, <2>2 DEF RedisFails
    <3>2. calls[next] > 0 /\ listener' = "dead" /\ errors' \in 0..MaxErrors
      BY <1>9, <2>2 DEF RedisFails
    <3>3. UNCHANGED <<published, group, cursor, subscribed, next, calls, crashes>>
      BY <1>9, <2>2 DEF RedisFails
    <3>4. QED
      BY <1>0, <3>1, <3>2, <3>3
  <2>3. QED
    BY <1>9, <2>1, <2>2 DEF RedisFails
<1>10. CASE Crash
  <2>1. CASE UNCHANGED calls
    BY <1>0, <1>10, <2>1 DEF Crash
  <2>2. CASE listener = "handling" /\ calls' = [calls EXCEPT ![next] = @ + 1]
    <3>1. /\ next \in D!Ids /\ next <= cursor
          /\ calls' \in [D!Ids -> Nat]
          /\ \A i \in D!Ids : i # next => calls'[i] = calls[i]
          /\ calls'[next] = 1
      BY <2>2
    <3>2. QED
      BY <1>0, <1>10, <3>1 DEF Crash
  <2>3. QED
    BY <1>10, <2>1, <2>2 DEF Crash
<1>11. CASE UNCHANGED vars
  BY <1>11 DEF vars
<1>12. QED
  BY <1>1, <1>2, <1>3, <1>4, <1>5, <1>6, <1>7, <1>8, <1>9, <1>10, <1>11 DEF Next, Listen

(* What Redis keeps and what the process has in hand agree, at every point *)
(* where the process can die or a reply get lost.                          *)
THEOREM BatchInvariant == Spec => []BatchInv
<1>1. RedisInv => BatchInv
  BY DEF RedisInv
<1>2. QED
  BY InitInv, NextInv, <1>1, PTL DEF Spec

(* No entry is acknowledged before the handler has seen it.                *)
THEOREM AckedEntriesWereHandled == Spec => []AckedWasHandled
<1>1. RedisInv => AckedWasHandled
  BY DEF RedisInv
<1>2. QED
  BY InitInv, NextInv, <1>1, PTL DEF Spec

-----------------------------------------------------------------------------

(* A handler call, completed or cut short by the death of the process.     *)
LEMMA OnceStep ==
  ASSUME RedisInv, [Next]_vars
  PROVE  [\/ D!Publish
          \/ \E i \in D!Ids : /\ D!Call(i)
                              /\ \A j \in D!Ids : j >= i => calls[j] = 0]_(D!deliveryVars)
<1> USE DEF RedisInv, BatchInv, TypeOK, D!deliveryVars, redis, process
<1>1. ASSUME listener = "handling", calls' = [calls EXCEPT ![next] = @ + 1], UNCHANGED published
      PROVE  \E i \in D!Ids : /\ D!Call(i)
                              /\ \A j \in D!Ids : j >= i => calls[j] = 0
  <2>1. next \in D!Ids
    BY <1>1
  <2>2. D!Call(next)
    BY <1>1 DEF D!Call
  <2>3. \A j \in D!Ids : j >= next => calls[j] = 0
    BY <1>1
  <2>4. QED
    BY <2>1, <2>2, <2>3
<1>2. CASE Publish
  BY <1>2 DEF Publish, D!Publish
<1>3. CASE Handle
  BY <1>1, <1>3 DEF Handle
<1>4. CASE Crash
  BY <1>1, <1>4 DEF Crash
<1>5. CASE Start \/ Subscribe \/ EnsureGroup \/ Read \/ ReadNoGroup \/ Ack \/ RedisFails
  BY <1>5 DEF Start, Subscribe, EnsureGroup, Read, ReadNoGroup, Ack, RedisFails
<1>6. CASE UNCHANGED vars
  BY <1>6 DEF vars
<1>7. QED
  BY <1>2, <1>3, <1>4, <1>5, <1>6 DEF Next, Listen

(* The bus delivers at most once and in order, whatever fails.             *)
THEOREM ImplementsOnce == Spec => DeliversOnce
<1>1. Init => D!Init
  BY DEF Init, D!Init
<1>2. QED
  BY InitInv, NextInv, OnceStep, <1>1, PTL DEF Spec, DeliversOnce, D!OnceSpec
=============================================================================
