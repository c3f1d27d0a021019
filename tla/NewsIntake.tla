------------------------------ MODULE NewsIntake ------------------------------
(***************************************************************************)
(* NewsWatcher (src/live/news_watcher.py) with its news sources: a poll    *)
(* fetches every source at once, each source skips the articles whose key  *)
(* it has in its bounded memory, the poller skips the urls recorded in the *)
(* news store if it has one, and what is left is published.  An article is *)
(* marked when it is fetched, long before it is published, so a time-out,  *)
(* a failing store, a failing bus or a crash in between can lose it.       *)
(*                                                                         *)
(* A source's coroutine runs without interruption from a response to its   *)
(* next request; a source that fetches in a thread (TwitterSource) runs on *)
(* after its time-out.                                                     *)
(***************************************************************************)
EXTENDS Integers, SequencesExt

CONSTANTS
  Sources,
  ThreadSources,\* sources that fetch in a thread of their own
  Feeds,
  FeedsOf,      \* FeedsOf[s]: the feeds, subreddits or accounts of a source, in order
  Articles,     \* an article is what one source makes of a story
  Carries,      \* Carries[f]: the articles a feed will ever post, in order
  Keys,
  Urls,
  None,         \* no key, no url
  Key,          \* Key[a]: what the source knows the article by
  Url,          \* Url[a]: what the news store knows it by
  MaxSeen,      \* MAX_SEEN
  MaxAttempts,  \* max_attempts of the retried request
  Stores,       \* whether the watcher has a news store: the runners' has none
  MaxFaults,    \* failures that lose or skip something
  MaxRestarts

ASSUME IntakeAssumption ==
  /\ ThreadSources \subseteq Sources
  /\ FeedsOf \in [Sources -> Seq(Feeds)]
  /\ Carries \in [Feeds -> Seq(Articles)]
  /\ None \notin Keys \cup Urls \cup Sources
  /\ Key \in [Articles -> Keys \cup {None}]
  /\ Url \in [Articles -> Urls \cup {None}]
  /\ {MaxSeen, MaxAttempts} \subseteq Nat \ {0}
  /\ Stores \subseteq BOOLEAN
  /\ {MaxFaults, MaxRestarts} \subseteq Nat

VARIABLES
  feed,         \* feed[f]: number of articles posted in the feed
  seen,         \* seen[s]: the source's _seen, oldest key first
  orphan,       \* sources whose thread runs on after a time-out
  fetch,        \* fetch[s]: how far the source's task is
  at,           \* at[s]: number of the feed the task fetches next
  tries,        \* tries[s]: failed attempts at that feed
  batch,        \* batch[s]: articles of the last response not looked at yet
  got,          \* got[s]: events of the task
  stored,       \* the watcher has a news store
  marked,       \* urls recorded in seen_urls
  pc,           \* what run() is doing
  turn,         \* the source whose events are being filtered, if any
  queue,        \* events of the cycle still to be published
  published,    \* articles published
  dropped,      \* articles lost by a failure after they were marked
  faults, restarts

memory == <<seen, orphan>>
tasks  == <<fetch, at, tries, batch, got>>
cycle  == <<pc, turn, queue>>
vars   == <<feed, memory, tasks, stored, marked, cycle, published, dropped, faults, restarts>>

-----------------------------------------------------------------------------
(* The bounded memory of a source.                                         *)

(* Slip: the newest keys are dropped when the memory is full.              *)
DropNewest(mem) ==
  IF Len(mem) < MaxSeen THEN mem ELSE SubSeq(mem, 1, Len(mem) - (MaxSeen \div 5 + 1))

(* Slip: nothing is ever forgotten.                                        *)
KeepAll(mem) == mem

(* At MAX_SEEN keys the fifth that is oldest, and one more, is forgotten.  *)
Evicted(mem) ==
  IF Len(mem) < MaxSeen THEN mem ELSE SubSeq(mem, MaxSeen \div 5 + 2, Len(mem))

Remember(mem, k) == IF k = None THEN mem ELSE Append(Evicted(mem), k)

(* _check_seen: an article without a key is always new.                    *)
Known(s, a) == Key[a] \in ToSet(seen[s])

-----------------------------------------------------------------------------

TypeOK ==
  /\ feed \in [Feeds -> Nat]
  /\ \A f \in Feeds : feed[f] <= Len(Carries[f])
  /\ seen \in [Sources -> Seq(Keys)]
  /\ \A s \in Sources : Len(seen[s]) <= MaxSeen
  /\ orphan \in SUBSET ThreadSources
  /\ fetch \in [Sources -> {"fetching", "done", "failed", "late"}]
  /\ at \in [Sources -> Nat \ {0}]
  /\ tries \in [Sources -> 0..(MaxAttempts - 1)]
  /\ batch \in [Sources -> Seq(Articles)]
  /\ got \in [Sources -> Seq(Articles)]
  /\ stored \in BOOLEAN
  /\ marked \in SUBSET Urls
  /\ pc \in {"sleeping", "polling", "filtering", "publishing", "dead"}
  /\ turn \in Sources \cup {None}
  /\ queue \in Seq(Articles)
  /\ published \in SUBSET Articles
  /\ dropped \in SUBSET Articles
  /\ faults \in 0..MaxFaults
  /\ restarts \in 0..MaxRestarts

Nothing == [s \in Sources |-> <<>>]

Init ==
  /\ feed = [f \in Feeds |-> 0]
  /\ seen = Nothing
  /\ orphan = {}
  /\ fetch = [s \in Sources |-> "done"]
  /\ at = [s \in Sources |-> 1]
  /\ tries = [s \in Sources |-> 0]
  /\ batch = Nothing
  /\ got = Nothing
  /\ stored \in Stores
  /\ marked = {}
  /\ pc = "sleeping"
  /\ turn = None
  /\ queue = <<>>
  /\ published = {}
  /\ dropped = {}
  /\ faults = 0
  /\ restarts = 0

Fault == faults < MaxFaults /\ faults' = faults + 1

(* The tasks of a poll are gone.                                           *)
NoTasks ==
  /\ fetch' = [s \in Sources |-> "done"]
  /\ at' = [s \in Sources |-> 1]
  /\ tries' = [s \in Sources |-> 0]

(* The world posts an article; a poll finds it as one posted just before,  *)
(* or misses it as one posted just after.                                  *)
Post(f) ==
  /\ pc = "sleeping"
  /\ feed[f] < Len(Carries[f])
  /\ feed' = [feed EXCEPT ![f] = @ + 1]
  /\ UNCHANGED <<memory, tasks, stored, marked, cycle, published, dropped, faults, restarts>>

-----------------------------------------------------------------------------
(* A poll: one task per source.                                            *)

StartPoll ==
  /\ pc = "sleeping"
  /\ pc' = "polling"
  /\ fetch' = [s \in Sources |-> "fetching"]
  /\ UNCHANGED <<feed, memory, at, tries, batch, got, stored, marked, turn, queue, published,
                 dropped, faults, restarts>>

Fetching(s) == pc = "polling" /\ fetch[s] = "fetching"

(* What a feed answers: its articles, the newest first.                    *)
Listed(f) == Reverse(SubSeq(Carries[f], 1, feed[f]))

(* The task awaits the answer of a feed.                                   *)
Requesting(s) == Fetching(s) /\ batch[s] = <<>> /\ at[s] <= Len(FeedsOf[s])

(* Slip: only the first article of the response is looked at.              *)
RespondFirst(s) ==
  /\ Requesting(s)
  /\ batch' = [batch EXCEPT ![s] = LET posts == Listed(FeedsOf[s][at[s]])
                                   IN  IF posts = <<>> THEN <<>> ELSE <<Head(posts)>>]
  /\ at' = [at EXCEPT ![s] = @ + 1]
  /\ tries' = [tries EXCEPT ![s] = 0]
  /\ UNCHANGED <<feed, memory, fetch, got, stored, marked, cycle, published, dropped,
                 faults, restarts>>

Respond(s) ==
  /\ Requesting(s)
  /\ batch' = [batch EXCEPT ![s] = Listed(FeedsOf[s][at[s]])]
  /\ at' = [at EXCEPT ![s] = @ + 1]
  /\ tries' = [tries EXCEPT ![s] = 0]
  /\ UNCHANGED <<feed, memory, fetch, got, stored, marked, cycle, published, dropped,
                 faults, restarts>>

(* A failed attempt is repeated after a delay; threads do not retry.       *)
TryFails(s) ==
  /\ Requesting(s)
  /\ s \notin ThreadSources
  /\ tries[s] + 1 < MaxAttempts
  /\ tries' = [tries EXCEPT ![s] = @ + 1]
  /\ UNCHANGED <<feed, memory, fetch, at, batch, got, stored, marked, cycle, published,
                 dropped, faults, restarts>>

(* The last attempt fails, or an error that is not retried: on to the next *)
(* feed, nothing is marked.                                                *)
FeedFails(s) ==
  /\ Requesting(s)
  /\ Fault
  /\ at' = [at EXCEPT ![s] = @ + 1]
  /\ tries' = [tries EXCEPT ![s] = 0]
  /\ UNCHANGED <<feed, memory, fetch, batch, got, stored, marked, cycle, published,
                 dropped, restarts>>

(* fetch_latest raises before its first request (Reddit's _authenticate).  *)
SourceFails(s) ==
  /\ Requesting(s)
  /\ at[s] = 1 /\ tries[s] = 0
  /\ Fault
  /\ fetch' = [fetch EXCEPT ![s] = "failed"]
  /\ UNCHANGED <<feed, memory, at, tries, batch, got, stored, marked, cycle, published,
                 dropped, restarts>>

TakeArticle(s) ==
  /\ Fetching(s)
  /\ batch[s] # <<>>
  /\ batch' = [batch EXCEPT ![s] = Tail(@)]
  /\ LET a == Head(batch[s])
     IN  IF Known(s, a) THEN UNCHANGED <<seen, got>>
         ELSE /\ seen' = [seen EXCEPT ![s] = Remember(@, Key[a])]
              /\ got' = [got EXCEPT ![s] = Append(@, a)]
  /\ UNCHANGED <<feed, orphan, fetch, at, tries, stored, marked, cycle, published,
                 dropped, faults, restarts>>

(* An article that is marked but cannot be made an event of (no timestamp, *)
(* no text) ends the response: its other articles stay unmarked.           *)
BreakOff(s) ==
  /\ Fetching(s)
  /\ Fault
  /\ batch[s] # <<>>
  /\ LET a == Head(batch[s])
     IN  /\ ~Known(s, a)
         /\ seen' = [seen EXCEPT ![s] = Remember(@, Key[a])]
         /\ dropped' = dropped \cup {a}
  /\ batch' = [batch EXCEPT ![s] = <<>>]
  /\ UNCHANGED <<feed, orphan, fetch, at, tries, got, stored, marked, cycle, published, restarts>>

FetchDone(s) ==
  /\ Fetching(s)
  /\ batch[s] = <<>>
  /\ at[s] > Len(FeedsOf[s])
  /\ fetch' = [fetch EXCEPT ![s] = "done"]
  /\ UNCHANGED <<feed, memory, at, tries, batch, got, stored, marked, cycle, published,
                 dropped, faults, restarts>>

(* After 30 s the tasks still running are cancelled and their events lost; *)
(* a cancelled task's thread goes on.                                      *)
Late == {s \in Sources : fetch[s] = "fetching"}

CutOff ==
  /\ pc = "polling"
  /\ Late # {}
  /\ \A s \in Late \ ThreadSources : batch[s] = <<>>
  /\ Fault
  /\ fetch' = [s \in Sources |-> IF s \in Late THEN "late" ELSE fetch[s]]
  /\ dropped' = dropped \cup UNION {ToSet(got[s]) : s \in Late}
  /\ got' = [s \in Sources |-> IF s \in Late THEN <<>> ELSE got[s]]
  /\ batch' = Nothing
  /\ orphan' = orphan \cup (Late \cap ThreadSources)
  /\ UNCHANGED <<feed, seen, at, tries, stored, marked, cycle, published, restarts>>

(* What such a thread still finds is marked and goes nowhere.              *)
OrphanMarks(s) ==
  /\ s \in orphan
  /\ \E i \in DOMAIN FeedsOf[s] : \E a \in ToSet(Listed(FeedsOf[s][i])) :
       /\ ~Known(s, a)
       /\ seen' = [seen EXCEPT ![s] = Remember(@, Key[a])]
       /\ dropped' = dropped \cup {a}
  /\ UNCHANGED <<feed, orphan, tasks, stored, marked, cycle, published, faults, restarts>>

OrphanEnds(s) ==
  /\ s \in orphan
  /\ orphan' = orphan \ {s}
  /\ UNCHANGED <<feed, seen, tasks, stored, marked, cycle, published, dropped, faults, restarts>>

EndPoll ==
  /\ pc = "polling"
  /\ Late = {}
  /\ pc' = "filtering"
  /\ NoTasks
  /\ UNCHANGED <<feed, memory, batch, got, stored, marked, turn, queue, published, dropped,
                 faults, restarts>>

-----------------------------------------------------------------------------
(* filter_unseen, one source after the other.                              *)

(* Slip: a url is recorded but the record is never looked up.              *)
NeverRecorded(a) == FALSE

(* Slip: an article without a url is taken for one that is recorded.       *)
NoUrlRecorded(a) == stored /\ (Url[a] = None \/ Url[a] \in marked)

Recorded(a) == stored /\ Url[a] \in marked

FilterNext(s) ==
  /\ pc = "filtering"
  /\ got[s] # <<>>
  /\ \A t \in Sources \ {s} : turn = t => got[t] = <<>>
  /\ turn' = s
  /\ got' = [got EXCEPT ![s] = Tail(@)]
  /\ LET a == Head(got[s])
     IN  \/ Recorded(a) /\ UNCHANGED <<queue, marked, faults>>
         \/ /\ ~Recorded(a)
            /\ queue' = Append(queue, a)
            /\ \/ /\ marked' = IF stored /\ Url[a] # None THEN marked \cup {Url[a]} ELSE marked
                  /\ UNCHANGED faults
               \/ stored /\ Url[a] # None /\ Fault /\ UNCHANGED marked
  /\ UNCHANGED <<feed, memory, fetch, at, tries, batch, stored, pc, published, dropped, restarts>>

(* is_seen raises: run() gives up the whole cycle.                         *)
StoreFails ==
  /\ pc = "filtering"
  /\ stored
  /\ \E s \in Sources : got[s] # <<>> /\ Url[Head(got[s])] # None
  /\ Fault
  /\ dropped' = dropped \cup ToSet(queue) \cup UNION {ToSet(got[s]) : s \in Sources}
  /\ got' = Nothing
  /\ queue' = <<>>
  /\ turn' = None
  /\ pc' = "sleeping"
  /\ UNCHANGED <<feed, memory, fetch, at, tries, batch, stored, marked, published, restarts>>

EndFilter ==
  /\ pc = "filtering"
  /\ got = Nothing
  /\ pc' = "publishing"
  /\ turn' = None
  /\ UNCHANGED <<feed, memory, tasks, stored, marked, queue, published, dropped,
                 faults, restarts>>

PublishNext ==
  /\ pc = "publishing"
  /\ queue # <<>>
  /\ published' = published \cup {Head(queue)}
  /\ queue' = Tail(queue)
  /\ UNCHANGED <<feed, memory, tasks, stored, marked, pc, turn, dropped, faults, restarts>>

(* publish raises out of run(): nothing polls any more, and nobody awaits  *)
(* the task to notice.                                                     *)
PublishFails ==
  /\ pc = "publishing"
  /\ queue # <<>>
  /\ Fault
  /\ dropped' = dropped \cup ToSet(queue)
  /\ queue' = <<>>
  /\ pc' = "dead"
  /\ UNCHANGED <<feed, memory, tasks, stored, marked, turn, published, restarts>>

EndPublish ==
  /\ pc = "publishing"
  /\ queue = <<>>
  /\ pc' = "sleeping"
  /\ UNCHANGED <<feed, memory, tasks, stored, marked, turn, queue, published, dropped,
                 faults, restarts>>

(* The process dies and is started again: only seen_urls is left.  What    *)
(* was recorded there and not published is lost.                           *)
Restart ==
  /\ restarts < MaxRestarts
  /\ restarts' = restarts + 1
  /\ seen' = Nothing
  /\ orphan' = {}
  /\ NoTasks
  /\ batch' = Nothing
  /\ got' = Nothing
  /\ dropped' = dropped \cup (IF stored THEN ToSet(queue) ELSE {})
  /\ queue' = <<>>
  /\ turn' = None
  /\ pc' = "sleeping"
  /\ UNCHANGED <<feed, stored, marked, published, faults>>

Work ==
  \/ StartPoll \/ EndPoll \/ EndFilter \/ PublishNext \/ EndPublish
  \/ \E s \in Sources : Respond(s) \/ TakeArticle(s) \/ FetchDone(s) \/ FilterNext(s)

Disturb ==
  \/ CutOff \/ StoreFails \/ PublishFails \/ Restart
  \/ \E f \in Feeds : Post(f)
  \/ \E s \in Sources : \/ TryFails(s) \/ FeedFails(s) \/ SourceFails(s) \/ BreakOff(s)
                        \/ OrphanMarks(s) \/ OrphanEnds(s)

Next == Work \/ Disturb

Spec == Init /\ [][Next]_vars

(* The watcher's loop goes on, and a source it waits for answers or fails. *)
FairSpec == Spec /\ WF_vars(Work)

-----------------------------------------------------------------------------
(* No article slips through between being marked and being published: a    *)
(* key in a source's memory, and a url recorded in the store, stands for   *)
(* an article that was published, is on its way, or was dropped by one of  *)
(* the failures above; a url not for one the filter skipped.               *)
(* (NewsSource._check_seen, _poll_concurrent, filter_unseen, run.)         *)
OnItsWay(a) == a \in ToSet(queue) \/ \E s \in Sources : a \in ToSet(got[s])

NothingSlips ==
  /\ \A s \in Sources : \A k \in ToSet(seen[s]) :
       \E a \in Articles : /\ Key[a] = k
                           /\ a \in published \/ OnItsWay(a) \/ a \in dropped \/ Url[a] \in marked
  /\ \A u \in marked :
       \E a \in Articles : /\ Url[a] = u
                           /\ a \in published \/ a \in ToSet(queue) \/ a \in dropped

(* With a news store no url is published twice, whichever sources carry it *)
(* and however often the watcher is restarted, while nothing fails.        *)
(* (README.md: "Deduplicates by URL using MongoDB seen_urls collection".)  *)
PublishedOnce ==
  [][(stored /\ faults = 0 /\ pc = "publishing" /\ queue # <<>> /\ queue' = Tail(queue))
       => LET a == Head(queue)
          IN  Url[a] # None => \A b \in published : Url[b] # Url[a]]_vars

(* A source forgets its oldest keys first, and only while it keeps about   *)
(* four fifths of MAX_SEEN newer ones: an article comes back as new only   *)
(* that many articles later.  (NewsSource._check_seen: "Evict oldest 20%") *)
ForgetsOldest ==
  [][\A s \in Sources : \A i \in 1..Len(seen[s]) :
       (seen[s][i] \notin ToSet(seen'[s]) /\ restarts' = restarts)
         => /\ Len(seen'[s]) >= MaxSeen - MaxSeen \div 5
            /\ \A j \in 1..i : seen[s][j] \notin ToSet(seen'[s])]_vars

(* An article in a feed is published, as itself or as one with the same    *)
(* key or a recorded url, unless a failure dropped it or ended the watcher.*)
Posted(a) == \E f \in Feeds : a \in ToSet(Listed(f))

Settled(a) ==
  \/ pc = "dead"
  \/ Url[a] \in marked
  \/ \E b \in Articles : (b = a \/ (Key[b] = Key[a] /\ Key[a] # None))
                          /\ (b \in published \/ b \in dropped)

NewsGetsOut == \A a \in Articles : Posted(a) ~> Settled(a)
=============================================================================
