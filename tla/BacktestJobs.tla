----------------------------- MODULE BacktestJobs -----------------------------
(***************************************************************************)
(* The table of live back-test jobs of the API (src/api/server.py).  POST  *)
(* runs on the event loop, as the jobs do; a GET runs in a thread of the   *)
(* server's pool, so polls of one job or of several interleave with one    *)
(* another and with the jobs between any two accesses to the table.  Both  *)
(* first delete the finished jobs older than the time-to-live.             *)
(***************************************************************************)
EXTENDS Integers

CONSTANTS
  Jobs,
  Clients,      \* each polls one job until it gets a final answer
  Loop,         \* the event loop, as a caller of the clean-up
  NoJob

Callers == Clients \cup {Loop}

ASSUME JobsAssumption ==
  /\ Loop \notin Clients
  /\ NoJob \notin Jobs

VARIABLES
  table,        \* ids in _backtest_jobs
  status,       \* status[j] of the job's dict, "new" before there is one
  hasResult,    \* jobs whose dict has a result
  expired,      \* jobs created longer ago than _JOB_TTL_SEC
  at,           \* at[c]: where the caller is
  target,       \* target[c]: the job it is after
  seen,         \* seen[c]: jobs its iteration over the table has come to
  stale,        \* stale[c]: jobs it found stale and has not deleted yet
  resized,      \* callers under whose iteration the table has changed its size
  given         \* given[j]: how many clients got the result

jobVars  == <<table, status, hasResult, expired>>
callVars == <<at, target, seen, stale, resized>>
tableVars == <<jobVars, callVars, given>>

JobsTypeOK ==
  /\ table \in SUBSET Jobs
  /\ status \in [Jobs -> {"new", "running", "done", "error"}]
  /\ \A j \in table : status[j] # "new"
  /\ hasResult \in SUBSET Jobs
  /\ expired \in SUBSET Jobs
  /\ at \in [Callers -> {"idle", "collect", "drop", "take", "status", "satisfied"}]
  /\ target \in [Callers -> Jobs \cup {NoJob}]
  /\ seen \in [Callers -> SUBSET Jobs]
  /\ stale \in [Callers -> SUBSET Jobs]
  /\ resized \in SUBSET Callers
  /\ given \in [Jobs -> Nat]

JobsInit ==
  /\ table = {}
  /\ status = [j \in Jobs |-> "new"]
  /\ hasResult = {}
  /\ expired = {}
  /\ at = [c \in Callers |-> "idle"]
  /\ target = [c \in Callers |-> NoJob]
  /\ seen = [c \in Callers |-> {}]
  /\ stale = [c \in Callers |-> {}]
  /\ resized = {}
  /\ given = [j \in Jobs |-> 0]

-----------------------------------------------------------------------------
(* The body of a job, on the event loop like a POST: neither awaits between*)
(* two accesses to the table, so each waits for the other.                 *)

HalfDone == {j \in Jobs : status[j] = "done" /\ j \notin hasResult}
LoopFree == at[Loop] = "idle" /\ HalfDone = {}

BodyRuns(j) == LoopFree /\ status[j] = "running"

(* The status is set first, the result after it.                           *)
JobDone(j) ==
  /\ BodyRuns(j)
  /\ status' = [status EXCEPT ![j] = "done"]
  /\ UNCHANGED <<table, hasResult, expired, callVars, given>>

SetResult(j) ==
  /\ status[j] = "done"
  /\ j \notin hasResult
  /\ hasResult' = hasResult \cup {j}
  /\ UNCHANGED <<table, status, expired, callVars, given>>

JobFails(j) ==
  /\ BodyRuns(j)
  /\ status' = [status EXCEPT ![j] = "error"]
  /\ UNCHANGED <<table, hasResult, expired, callVars, given>>

(* The time-to-live counts from the creation of the job, not from its end. *)
Expire(j) ==
  /\ j \in table \ expired
  /\ expired' = expired \cup {j}
  /\ UNCHANGED <<table, status, hasResult, callVars, given>>

-----------------------------------------------------------------------------
(* _cleanup_stale_jobs.                                                    *)

Goto(c, there) == at' = [at EXCEPT ![c] = there]

(* An exception: the client gets a 500 and polls again.                    *)
Breaks(c) ==
  /\ Goto(c, "idle")
  /\ seen' = [seen EXCEPT ![c] = {}]
  /\ stale' = [stale EXCEPT ![c] = {}]
  /\ resized' = resized \ {c}
  /\ UNCHANGED <<jobVars, target, given>>

(* The table has one id more or less, also for those iterating over it.    *)
Resize(c, ids) ==
  /\ table' = ids
  /\ resized' = resized \cup {d \in Callers \ {c} : at[d] = "collect"}

(* uuid4: some id that was never used.                                     *)
Unused == {j \in Jobs : status[j] = "new"}

Call(c) ==
  /\ at[c] = "idle"
  /\ \/ /\ c = Loop
        /\ LoopFree
        /\ Unused # {}
        /\ target' = [target EXCEPT ![c] = CHOOSE j \in Unused : TRUE]
     \/ /\ c # Loop
        /\ target[c] = NoJob
        /\ \E j \in Jobs : status[j] # "new" /\ target' = [target EXCEPT ![c] = j]
     \/ c # Loop /\ target[c] # NoJob /\ UNCHANGED target
  /\ Goto(c, "collect")
  /\ UNCHANGED <<jobVars, seen, stale, resized, given>>

(* Slip: running jobs are cleaned up as well.                              *)
AnyStatus(j) == j \in expired

IsStale(j) == j \in expired /\ status[j] \in {"done", "error"}

(* The comprehension reads one job after the other.                        *)
Collect(c, j) ==
  /\ at[c] = "collect"
  /\ j \in table \ seen[c]
  /\ seen' = [seen EXCEPT ![c] = @ \cup {j}]
  /\ stale' = [stale EXCEPT ![c] = IF IsStale(j) THEN @ \cup {j} ELSE @]
  /\ UNCHANGED <<jobVars, at, target, resized, given>>

Collected(c) ==
  /\ at[c] = "collect"
  /\ table \subseteq seen[c]
  /\ Goto(c, "drop")
  /\ seen' = [seen EXCEPT ![c] = {}]
  /\ resized' = resized \ {c}
  /\ UNCHANGED <<jobVars, target, stale, given>>

(* "dictionary changed size during iteration"; or not, if it has its old   *)
(* size again.                                                             *)
CollectBreaks(c) ==
  /\ at[c] = "collect"
  /\ c \in resized
  /\ Breaks(c)

Drop(c, j) ==
  /\ at[c] = "drop"
  /\ j \in stale[c]
  /\ j \in table
  /\ Resize(c, table \ {j})
  /\ stale' = [stale EXCEPT ![c] = @ \ {j}]
  /\ UNCHANGED <<status, hasResult, expired, at, target, seen, given>>

(* Another caller has deleted it: KeyError.                                *)
DropBreaks(c, j) ==
  /\ at[c] = "drop"
  /\ j \in stale[c]
  /\ j \notin table
  /\ Breaks(c)

-----------------------------------------------------------------------------
(* start_live_backtest, get_live_backtest.                                 *)

CleanedUp(c) == at[c] = "drop" /\ stale[c] = {}

StartJob(j) ==
  /\ CleanedUp(Loop)
  /\ j = target[Loop]
  /\ Resize(Loop, table \cup {j})
  /\ status' = [status EXCEPT ![j] = "running"]
  /\ Goto(Loop, "idle")
  /\ UNCHANGED <<hasResult, expired, target, seen, stale, given>>

(* Slip: an unknown job is answered as one that is still running.          *)
UnknownRuns(c) ==
  /\ c # Loop
  /\ CleanedUp(c)
  /\ target[c] \notin table
  /\ Goto(c, "idle")
  /\ UNCHANGED <<jobVars, target, seen, stale, resized, given>>

NotFound(c) ==
  /\ c # Loop
  /\ CleanedUp(c)
  /\ target[c] \notin table
  /\ Goto(c, "satisfied")
  /\ UNCHANGED <<jobVars, target, seen, stale, resized, given>>

(* A job between its two last assignments has no result yet: KeyError.     *)
Lookup(c) ==
  /\ c # Loop
  /\ CleanedUp(c)
  /\ target[c] \in table
  /\ \/ status[target[c]] = "done" /\ target[c] \in hasResult /\ Goto(c, "take")
     \/ status[target[c]] = "done" /\ target[c] \notin hasResult /\ Goto(c, "idle")
     \/ status[target[c]] # "done" /\ Goto(c, "status")
  /\ UNCHANGED <<jobVars, target, seen, stale, resized, given>>

(* Slip: pop(job_id, None) in place of del.                                *)
TakeLeniently(c) ==
  /\ at[c] = "take"
  /\ Resize(c, table \ {target[c]})
  /\ given' = [given EXCEPT ![target[c]] = @ + 1]
  /\ Goto(c, "satisfied")
  /\ UNCHANGED <<status, hasResult, expired, target, seen, stale>>

TakeResult(c) ==
  /\ at[c] = "take"
  /\ target[c] \in table
  /\ Resize(c, table \ {target[c]})
  /\ given' = [given EXCEPT ![target[c]] = @ + 1]
  /\ Goto(c, "satisfied")
  /\ UNCHANGED <<status, hasResult, expired, target, seen, stale>>

TakeBreaks(c) ==
  /\ at[c] = "take"
  /\ target[c] \notin table
  /\ Breaks(c)

(* The status is read again for the answer: a job that is done by now is   *)
(* answered as done, without its result.                                   *)
AnswerStatus(c) ==
  /\ at[c] = "status"
  /\ Goto(c, IF status[target[c]] = "running" THEN "idle" ELSE "satisfied")
  /\ UNCHANGED <<jobVars, target, seen, stale, resized, given>>

Serve(c) ==
  \/ Collected(c) \/ CollectBreaks(c)
  \/ \E j \in Jobs : Collect(c, j) \/ Drop(c, j) \/ DropBreaks(c, j)
  \/ NotFound(c) \/ Lookup(c) \/ TakeResult(c) \/ TakeBreaks(c) \/ AnswerStatus(c)

Poll(c) == (target[c] # NoJob /\ Call(c)) \/ Serve(c)

LoopWork ==
  \/ Serve(Loop)
  \/ \E j \in Jobs : StartJob(j) \/ JobDone(j) \/ SetResult(j) \/ JobFails(j)

JobsNext ==
  \/ LoopWork
  \/ \E c \in Callers : Call(c)
  \/ \E c \in Clients : Serve(c)
  \/ \E j \in Jobs : Expire(j)

JobsSpec == JobsInit /\ [][JobsNext]_tableVars

(* The event loop and the pool's threads run, a job comes to its end, and  *)
(* a client polls again until it has a final answer.                       *)
JobsFairSpec ==
  JobsSpec /\ WF_tableVars(LoopWork) /\ \A c \in Clients : WF_tableVars(Poll(c))

-----------------------------------------------------------------------------
(* However many clients poll a job at once, at most one gets the result.   *)
(* (get_live_backtest: "del _backtest_jobs[job_id]".)                      *)
ResultHandedOutOnce == \A j \in Jobs : given[j] <= 1

(* A job is in the table until it is handed out, or finished and expired;  *)
(* a client that was told "done" without the result leaves it there.       *)
(* (get_live_backtest, _cleanup_stale_jobs.)                               *)
JobsWait ==
  \A j \in Jobs : (status[j] # "new" /\ j \notin table)
                    => given[j] = 1 \/ (j \in expired /\ status[j] # "running")

(* A client that polls gets a final answer, though the job fails, expires  *)
(* or is taken by another, and though its own polls may break.             *)
ClientIsAnswered ==
  \A c \in Clients : (target[c] # NoJob) ~> (at[c] = "satisfied")
=============================================================================
