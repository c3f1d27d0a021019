---------------------------- MODULE RedisStreamBus ----------------------------
(***************************************************************************)
(* RedisStreamBus (src/common/event_bus.py): one channel, one consumer     *)
(* group, one process of that group that may die and be started again.     *)
(* Publishers append to the stream at any time; the listener reads new     *)
(* entries only (">"), hands them to the handler one by one and            *)
(* acknowledges each.  The stream, the group's cursor and its list of      *)
(* unacknowledged entries live in Redis and survive the process.           *)
(***************************************************************************)
EXTENDS Naturals

CONSTANTS
  MaxMessages,  \* messages published in all
  BatchSize,    \* entries per xreadgroup (10 in the code)
  OldGroup,     \* whether the group exists from an earlier deployment: {TRUE}, {FALSE} or both
  MaxCrashes,   \* deaths of the consuming process
  MaxErrors     \* Redis calls of the listener that raise

ASSUME BusAssumption ==
  /\ MaxMessages \in Nat
  /\ BatchSize \in Nat \ {0}
  /\ OldGroup \subseteq BOOLEAN
  /\ MaxCrashes \in Nat
  /\ MaxErrors \in Nat

VARIABLES
  published,    \* entries of the stream
  group,        \* the consumer group exists
  cursor,       \* the group's last delivered entry
  unacked,      \* delivered entries not acknowledged (whoever read them)
  listener,     \* where _listen_streams is
  subscribed,   \* the channel is among the process's _subscribers
  next,         \* the entry of the batch next..cursor the listener is at
  calls,        \* history: handler calls per entry
  crashes,
  errors

redis   == <<published, group, cursor, unacked>>
process == <<listener, subscribed, next>>
vars    == <<redis, process, calls, crashes, errors>>

D == INSTANCE Delivery

-----------------------------------------------------------------------------

(* "down": no process; "dead": the process runs, the listener task does not*)
Places == {"down", "polling", "handling", "acking", "dead"}

TypeOK ==
  /\ published \in 0..MaxMessages
  /\ group \in BOOLEAN
  /\ cursor \in 0..MaxMessages
  /\ unacked \in SUBSET D!Ids
  /\ listener \in Places
  /\ subscribed \in BOOLEAN
  /\ next \in 1..(MaxMessages + 1)
  /\ calls \in [D!Ids -> Nat]
  /\ crashes \in 0..MaxCrashes
  /\ errors \in 0..MaxErrors

Init ==
  /\ published = 0
  /\ group \in OldGroup
  /\ cursor = 0
  /\ unacked = {}
  /\ listener = "down"
  /\ subscribed = FALSE
  /\ next = 1
  /\ calls = [i \in D!Ids |-> 0]
  /\ crashes = 0
  /\ errors = 0

-----------------------------------------------------------------------------

(* publish, by any process: XADD.                                          *)
Publish ==
  /\ published < MaxMessages
  /\ published' = published + 1
  /\ UNCHANGED <<group, cursor, unacked, process, calls, crashes, errors>>

(* bus.start: the runners start the bus before any component subscribes,   *)
(* so there is no group to ensure yet; the listener polls from now on.     *)
Start ==
  /\ listener = "down"
  /\ listener' = "polling"
  /\ UNCHANGED <<redis, subscribed, next, calls, crashes, errors>>

(* subscribe: the handler is appended first, ...                           *)
Subscribe ==
  /\ listener # "down"
  /\ ~subscribed
  /\ subscribed' = TRUE
  /\ UNCHANGED <<redis, listener, next, calls, crashes, errors>>

(* ... and the group ensured after an await.  It starts at id 0: entries   *)
(* published before it are delivered too.                                  *)
EnsureGroup ==
  /\ subscribed
  /\ ~group
  /\ group' = TRUE
  /\ UNCHANGED <<published, cursor, unacked, process, calls, crashes, errors>>

(* The last entry a read of at most BatchSize entries delivers.            *)
ReadTo == IF cursor + BatchSize < published THEN cursor + BatchSize ELSE published

(* Slip: the read starts over from the oldest unacknowledged entry.        *)
ReadAgain ==
  /\ listener = "polling"
  /\ subscribed
  /\ group
  /\ cursor < published
  /\ cursor' = ReadTo
  /\ unacked' = unacked \cup (cursor + 1)..ReadTo
  /\ next' = CHOOSE i \in unacked' : \A j \in unacked' : i <= j
  /\ listener' = "handling"
  /\ UNCHANGED <<published, group, subscribed, calls, crashes, errors>>

(* XREADGROUP with ">": entries never delivered to the group before.       *)
Read ==
  /\ listener = "polling"
  /\ subscribed
  /\ group
  /\ cursor < published
  /\ cursor' = ReadTo
  /\ unacked' = unacked \cup (cursor + 1)..ReadTo
  /\ next' = cursor + 1
  /\ listener' = "handling"
  /\ UNCHANGED <<published, group, subscribed, calls, crashes, errors>>

(* XREADGROUP on a group that does not exist raises NOGROUP; the exception *)
(* is not a CancelledError and ends the task.                              *)
ReadNoGroup ==
  /\ listener = "polling"
  /\ subscribed
  /\ ~group
  /\ listener' = "dead"
  /\ UNCHANGED <<redis, subscribed, next, calls, crashes, errors>>

(* The handler returns or raises: both lead to the acknowledgement.        *)
Handle ==
  /\ listener = "handling"
  /\ calls' = [calls EXCEPT ![next] = @ + 1]
  /\ listener' = "acking"
  /\ UNCHANGED <<redis, subscribed, next, crashes, errors>>

(* Slip: the first acknowledgement covers the whole batch.                 *)
AckBatch ==
  /\ listener = "acking"
  /\ unacked' = unacked \ next..cursor
  /\ next' = next + 1
  /\ listener' = IF next = cursor THEN "polling" ELSE "handling"
  /\ UNCHANGED <<published, group, cursor, subscribed, calls, crashes, errors>>

(* Slip: the rest of the batch is dropped after one acknowledgement.       *)
AckDropsRest ==
  /\ listener = "acking"
  /\ unacked' = unacked \ {next}
  /\ next' = next + 1
  /\ listener' = "polling"
  /\ UNCHANGED <<published, group, cursor, subscribed, calls, crashes, errors>>

Ack ==
  /\ listener = "acking"
  /\ unacked' = unacked \ {next}
  /\ next' = next + 1
  /\ listener' = IF next = cursor THEN "polling" ELSE "handling"
  /\ UNCHANGED <<published, group, cursor, subscribed, calls, crashes, errors>>

(* A read or an acknowledgement raises (Redis restarted, connection lost): *)
(* the listener task ends, the process does not notice.  The command may   *)
(* have taken effect before its reply was lost.                            *)
RedisFails ==
  /\ errors < MaxErrors
  /\ errors' = errors + 1
  /\ listener' = "dead"
  /\ \/ /\ listener = "polling"
        /\ subscribed
        /\ group
        /\ cursor' \in {cursor, ReadTo}
        /\ unacked' = unacked \cup (cursor + 1)..cursor'
     \/ /\ listener = "acking"
        /\ unacked' \in {unacked, unacked \ {next}}
        /\ UNCHANGED cursor
  /\ UNCHANGED <<published, group, subscribed, next, calls, crashes>>

(* The process dies, mid-handler included.  The next one is another        *)
(* consumer (the name holds id(self)): what this one had read stays        *)
(* unacknowledged under the old name.                                      *)
Crash ==
  /\ listener # "down"
  /\ crashes < MaxCrashes
  /\ crashes' = crashes + 1
  /\ listener' = "down"
  /\ subscribed' = FALSE
  /\ \/ UNCHANGED calls
     \/ /\ listener = "handling"
        /\ calls' = [calls EXCEPT ![next] = @ + 1]
  /\ UNCHANGED <<redis, next, errors>>

-----------------------------------------------------------------------------

Listen == Read \/ ReadNoGroup \/ Handle \/ Ack

Next == Publish \/ Start \/ Subscribe \/ EnsureGroup \/ Listen \/ RedisFails \/ Crash

Spec == Init /\ [][Next]_vars

(* The process is restarted when it is down (run.py, Docker), its start-up *)
(* goes on, and its listener loops.                                        *)
FairSpec ==
  /\ Spec
  /\ WF_vars(Start)
  /\ WF_vars(Subscribe)
  /\ WF_vars(EnsureGroup)
  /\ WF_vars(Listen)

-----------------------------------------------------------------------------
(* Properties.                                                             *)

(* The batch in hand is exactly the entries from next to the cursor, all   *)
(* unacknowledged, and nothing from the message in hand on was handled.    *)
BatchInv ==
  /\ TypeOK
  /\ cursor <= published
  /\ \A i \in D!Ids : i > cursor => calls[i] = 0 /\ i \notin unacked
  /\ listener \in {"handling", "acking"} =>
       /\ next <= cursor
       /\ next..cursor \subseteq unacked
       /\ \A i \in D!Ids : i > next => calls[i] = 0
  /\ listener = "handling" => calls[next] = 0
  /\ listener = "acking" => calls[next] > 0

(* Deliveries to a group, over any number of process lives and lost        *)
(* replies, are at most once each and in publication order: a second order *)
(* is never placed for the same [sentiment] message.  (xreadgroup with ">" *)
(* and xack in _listen_streams.)                                           *)
DeliversOnce == D!OnceSpec

(* An entry is acknowledged only after the handler has been called with it.*)
(* (The order of handler and xack in _listen_streams.)                     *)
AckedWasHandled ==
  \A i \in D!Ids : i <= cursor /\ i \notin unacked => calls[i] > 0

(* A published message reaches the handler.  ("Messages survive container  *)
(* restarts - consumers pick up where they left off.")                     *)
EveryMessageHandled ==
  \A i \in D!Ids : i <= published ~> calls[i] > 0

(* It does as long as the process lives and its listener task has not been *)
(* ended by an exception: the batches lose nothing on their own.           *)
HandledUnlessStopped ==
  \A i \in D!Ids : i <= published ~> (calls[i] > 0 \/ crashes > 0 \/ listener = "dead")
=============================================================================
