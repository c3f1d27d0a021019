---------------------------- MODULE KafkaEventBus ----------------------------
(***************************************************************************)
(* KafkaEventBus (src/common/event_bus.py): one topic of one partition,    *)
(* one consumer group, one process of that group.  The listener hands a    *)
(* whole batch to the handler and then commits its position; only the      *)
(* committed offset survives the process.                                  *)
(***************************************************************************)
EXTENDS Naturals

CONSTANTS
  MaxMessages,  \* messages published in all
  BatchSize,    \* max_records of getmany (50 in the code)
  MaxCrashes,   \* deaths of the consuming process
  MaxErrors     \* Kafka calls of the listener that raise

ASSUME BusAssumption ==
  /\ MaxMessages \in Nat
  /\ BatchSize \in Nat \ {0}
  /\ MaxCrashes \in Nat
  /\ MaxErrors \in Nat

VARIABLES
  published,    \* records of the topic
  committed,    \* the group's committed offset: records below it are done
  listener,     \* where _listen is
  position,     \* the consumer's position: last record fetched
  next,         \* the record of the batch next..position the listener is at
  calls,        \* history: handler calls per record
  crashes,
  errors

process == <<listener, position, next>>
vars    == <<published, committed, process, calls, crashes, errors>>

D == INSTANCE Delivery

-----------------------------------------------------------------------------

(* "down": no process; "starting": no consumer yet; "dead": the process    *)
(* runs, the listener task does not.                                       *)
Places == {"down", "starting", "polling", "handling", "committing", "dead"}

TypeOK ==
  /\ published \in 0..MaxMessages
  /\ committed \in 0..MaxMessages
  /\ listener \in Places
  /\ position \in 0..MaxMessages
  /\ next \in 1..(MaxMessages + 1)
  /\ calls \in [D!Ids -> Nat]
  /\ crashes \in 0..MaxCrashes
  /\ errors \in 0..MaxErrors

Init ==
  /\ published = 0
  /\ committed = 0
  /\ listener = "down"
  /\ position = 0
  /\ next = 1
  /\ calls = [i \in D!Ids |-> 0]
  /\ crashes = 0
  /\ errors = 0

-----------------------------------------------------------------------------

Publish ==
  /\ published < MaxMessages
  /\ published' = published + 1
  /\ UNCHANGED <<committed, process, calls, crashes, errors>>

Start ==
  /\ listener = "down"
  /\ listener' = "starting"
  /\ UNCHANGED <<published, committed, position, next, calls, crashes, errors>>

(* Slip: a new consumer starts at the end of the topic ("latest").         *)
JoinAtEnd ==
  /\ listener = "starting"
  /\ listener' = "polling"
  /\ position' = published
  /\ UNCHANGED <<published, committed, next, calls, crashes, errors>>

(* Once something is subscribed, the consumer is created and started: its  *)
(* position is the committed offset, the beginning if there is none.       *)
Join ==
  /\ listener = "starting"
  /\ listener' = "polling"
  /\ position' = committed
  /\ UNCHANGED <<published, committed, next, calls, crashes, errors>>

FetchTo == IF position + BatchSize < published THEN position + BatchSize ELSE published

(* Slip: offsets are committed as records are fetched (auto-commit).       *)
FetchAutoCommit ==
  /\ listener = "polling"
  /\ position < published
  /\ position' = FetchTo
  /\ committed' = FetchTo
  /\ next' = position + 1
  /\ listener' = "handling"
  /\ UNCHANGED <<published, calls, crashes, errors>>

(* getmany returns records; a time-out, or nothing, changes nothing.       *)
Fetch ==
  /\ listener = "polling"
  /\ position < published
  /\ position' = FetchTo
  /\ next' = position + 1
  /\ listener' = "handling"
  /\ UNCHANGED <<published, committed, calls, crashes, errors>>

(* The handler returns or raises; the commit follows the whole batch.      *)
Handle ==
  /\ listener = "handling"
  /\ calls' = [calls EXCEPT ![next] = @ + 1]
  /\ next' = next + 1
  /\ listener' = IF next = position THEN "committing" ELSE "handling"
  /\ UNCHANGED <<published, committed, position, crashes, errors>>

Commit ==
  /\ listener = "committing"
  /\ committed' = position
  /\ listener' = "polling"
  /\ UNCHANGED <<published, position, next, calls, crashes, errors>>

(* The consumer's start, getmany or commit raises: the listener task ends. *)
(* A commit may have taken effect before its reply was lost.               *)
KafkaFails ==
  /\ errors < MaxErrors
  /\ errors' = errors + 1
  /\ listener' = "dead"
  /\ \/ /\ listener \in {"starting", "polling"}
        /\ UNCHANGED committed
     \/ /\ listener = "committing"
        /\ committed' \in {committed, position}
  /\ UNCHANGED <<published, position, next, calls, crashes>>

(* The process dies, mid-handler included.                                 *)
Crash ==
  /\ listener # "down"
  /\ crashes < MaxCrashes
  /\ crashes' = crashes + 1
  /\ listener' = "down"
  /\ \/ UNCHANGED calls
     \/ /\ listener = "handling"
        /\ calls' = [calls EXCEPT ![next] = @ + 1]
  /\ UNCHANGED <<published, committed, position, next, errors>>

-----------------------------------------------------------------------------

Listen == Join \/ Fetch \/ Handle \/ Commit

Next == Publish \/ Start \/ Listen \/ KafkaFails \/ Crash

Spec == Init /\ [][Next]_vars

(* The process is restarted when it is down, and its listener loops.       *)
FairSpec ==
  /\ Spec
  /\ WF_vars(Start)
  /\ WF_vars(Listen)

-----------------------------------------------------------------------------
(* Properties.                                                             *)

(* Whatever lies below the committed offset, or below the record in hand,  *)
(* has been handed to the handler.                                         *)
Covered(n) == \A i \in D!Ids : i < n => calls[i] > 0

CommitInv ==
  /\ TypeOK
  /\ committed <= position
  /\ position <= published
  /\ Covered(committed + 1)
  /\ listener = "polling" => Covered(position + 1)
  /\ listener = "handling" => next <= position /\ Covered(next)
  /\ listener = "committing" => Covered(position + 1)

(* The group never skips a record, over any number of process lives, lost  *)
(* commits and failing handlers.  (_listen commits after the batch, and    *)
(* auto_offset_reset is "earliest".)                                       *)
NeverSkips == D!GapFreeSpec

(* Every published record reaches the handler, restarts included, unless   *)
(* an exception has ended the listener task.                               *)
HandledUnlessDead ==
  \A i \in D!Ids : i <= published ~> (calls[i] > 0 \/ listener = "dead")
=============================================================================
