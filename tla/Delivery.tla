------------------------------- MODULE Delivery -------------------------------
(***************************************************************************)
(* What an event bus can promise to one consumer group of one channel.     *)
(* Messages are numbered as they are published; calls[i] counts how often  *)
(* the group's handler was called with message i.                          *)
(*                                                                         *)
(* OnceSpec:    at most once each, in the order of publication.            *)
(* GapFreeSpec: no message before all its predecessors, repeats allowed.   *)
(***************************************************************************)
EXTENDS Naturals

CONSTANT MaxMessages     \* messages published in all

VARIABLES
  published,             \* messages published so far
  calls                  \* calls[i]: handler calls with message i

deliveryVars == <<published, calls>>

Ids == 1..MaxMessages

Init ==
  /\ published = 0
  /\ calls = [i \in Ids |-> 0]

Publish ==
  /\ published < MaxMessages
  /\ published' = published + 1
  /\ UNCHANGED calls

Call(i) ==
  /\ i <= published
  /\ calls' = [calls EXCEPT ![i] = @ + 1]
  /\ UNCHANGED published

OnceSpec ==
  Init /\ [][\/ Publish
             \/ \E i \in Ids : /\ Call(i)
                               /\ \A j \in Ids : j >= i => calls[j] = 0]_deliveryVars

GapFreeSpec ==
  Init /\ [][\/ Publish
             \/ \E i \in Ids : /\ Call(i)
                               /\ \A j \in Ids : j < i => calls[j] > 0]_deliveryVars
=============================================================================
