--------------------------- MODULE NewsIntakeProofs ---------------------------
(***************************************************************************)
(* Theorems about NewsIntake for any sources, feeds, articles, keys and    *)
(* urls, any size of a source's memory and any number of failures and      *)
(* restarts.                                                               *)
(***************************************************************************)
EXTENDS NewsIntake, SequenceTheorems, TLAPS

LEMMA IntakeConstants ==
  /\ MaxSeen \in Nat /\ MaxSeen > 0 /\ MaxAttempts \in Nat /\ MaxAttempts > 0
  /\ MaxFaults \in Nat /\ MaxRestarts \in Nat
  /\ \A s \in Sources : FeedsOf[s] \in Seq(Feeds)
  /\ \A f \in Feeds : Carries[f] \in Seq(Articles)
  /\ \A a \in Articles : Key[a] \in Keys \cup {None} /\ Url[a] \in Urls \cup {None}
  /\ None \notin Keys /\ None \notin Urls /\ None \notin Sources
  /\ ThreadSources \subseteq Sources
  /\ Stores \subseteq BOOLEAN
BY IntakeAssumption

-----------------------------------------------------------------------------
(* Sequences and their elements.                                           *)

LEMMA ElementsOf == ASSUME NEW S, NEW q \in Seq(S)
                    PROVE  ToSet(q) \subseteq S /\ ToSet(q) = {q[i] : i \in 1..Len(q)}
BY LenProperties DEF ToSet

LEMMA InElements == ASSUME NEW S, NEW q \in Seq(S), NEW y
                    PROVE  y \in ToSet(q) <=> \E i \in 1..Len(q) : y = q[i]
BY ElementsOf

LEMMA NoElements == ToSet(<<>>) = {}
BY DEF ToSet

LEMMA ElementsOfAppend ==
  ASSUME NEW S, NEW q \in Seq(S), NEW x \in S
  PROVE  Append(q, x) \in Seq(S) /\ ToSet(Append(q, x)) = ToSet(q) \cup {x}
<1> DEFINE r == Append(q, x)
<1>1. /\ r \in Seq(S) /\ Len(q) \in Nat /\ Len(r) = Len(q) + 1
      /\ \A i \in 1..Len(q) : r[i] = q[i]
      /\ r[Len(q) + 1] = x
  BY AppendProperties, LenProperties
<1> HIDE DEF r
<1>2. ASSUME NEW y PROVE y \in ToSet(r) <=> y \in ToSet(q) \cup {x}
  <2>1. y \in ToSet(r) <=> \E i \in 1..(Len(q) + 1) : y = r[i]
    BY <1>1, InElements
  <2>2. y \in ToSet(q) <=> \E i \in 1..Len(q) : y = q[i]
    BY InElements
  <2>3. 1..(Len(q) + 1) = 1..Len(q) \cup {Len(q) + 1}
    BY <1>1
  <2>4. QED
    BY <1>1, <2>1, <2>2, <2>3
<1>3. QED
  BY <1>1, <1>2 DEF r

LEMMA ElementsOfTail ==
  ASSUME NEW S, NEW q \in Seq(S), q # <<>>
  PROVE  /\ Tail(q) \in Seq(S) /\ Head(q) \in S
         /\ ToSet(q) = ToSet(Tail(q)) \cup {Head(q)}
<1> DEFINE r == Tail(q)
<1>1. /\ r \in Seq(S) /\ Head(q) \in S /\ Head(q) = q[1]
      /\ Len(r) = Len(q) - 1 /\ Len(q) \in Nat /\ Len(q) > 0
      /\ \A i \in 1..Len(r) : r[i] = q[i + 1]
  BY HeadTailProperties, LenProperties, EmptySeq
<1> HIDE DEF r
<1>2. ASSUME NEW y PROVE y \in ToSet(q) <=> y \in ToSet(r) \cup {Head(q)}
  <2>1. y \in ToSet(q) <=> \E i \in 1..Len(q) : y = q[i]
    BY InElements
  <2>2. y \in ToSet(r) <=> \E i \in 1..(Len(q) - 1) : y = q[i + 1]
    BY <1>1, InElements
  <2>3. (\E i \in 1..Len(q) : y = q[i]) <=> y = q[1] \/ \E i \in 1..(Len(q) - 1) : y = q[i + 1]
    <3>1. ASSUME NEW i \in 1..Len(q), y = q[i], i # 1
          PROVE  \E k \in 1..(Len(q) - 1) : y = q[k + 1]
      <4>1. i - 1 \in 1..(Len(q) - 1) /\ y = q[(i - 1) + 1]
        BY <1>1, <3>1
      <4>2. QED
        BY <4>1
    <3>2. 1 \in 1..Len(q) /\ \A k \in 1..(Len(q) - 1) : k + 1 \in 1..Len(q)
      BY <1>1
    <3>3. QED
      BY <3>1, <3>2
  <2>4. QED
    BY <1>1, <2>1, <2>2, <2>3
<1>3. QED
  BY <1>1, <1>2 DEF r

(* What a feed answers is a sequence of articles.                          *)
LEMMA ListedType ==
  ASSUME NEW f \in Feeds, feed[f] \in Nat, feed[f] <= Len(Carries[f])
  PROVE  Listed(f) \in Seq(Articles)
<1> DEFINE q == SubSeq(Carries[f], 1, feed[f])
<1>1. Carries[f] \in Seq(Articles) /\ Len(Carries[f]) \in Nat
  BY IntakeConstants, LenProperties
<1>2. \A i \in 1..feed[f] : Carries[f][i] \in Articles
  BY <1>1, ElementOfSeq
<1>3. q \in Seq(Articles)
  BY <1>2, SubSeqProperties
<1>4. Len(q) \in Nat /\ \A i \in 1..Len(q) : q[i] \in Articles
  BY <1>3, LenProperties, ElementOfSeq
<1> HIDE DEF q
<1>5. Reverse(q) \in [1..Len(q) -> Articles]
  <2>1. \A i \in 1..Len(q) : (Len(q) - i) + 1 \in 1..Len(q)
    BY <1>4
  <2>2. QED
    BY <1>4, <2>1 DEF Reverse
<1>6. Reverse(q) \in Seq(Articles)
  BY <1>4, <1>5, SeqDef
<1>7. QED
  BY <1>6 DEF Listed, q

-----------------------------------------------------------------------------
(* The bounded memory.                                                     *)

Distinct(mem) == \A i, j \in 1..Len(mem) : mem[i] = mem[j] => i = j

LEMMA FifthFits == MaxSeen \div 5 \in Nat /\ MaxSeen \div 5 + 1 <= MaxSeen
BY IntakeConstants

LEMMA EvictedIs ==
  ASSUME NEW mem \in Seq(Keys), Len(mem) <= MaxSeen, Distinct(mem)
  PROVE  \E d \in 0..Len(mem) :
           /\ Evicted(mem) \in Seq(Keys)
           /\ Len(Evicted(mem)) = Len(mem) - d
           /\ Len(Evicted(mem)) < MaxSeen
           /\ d > 0 => Len(Evicted(mem)) + 1 >= MaxSeen - MaxSeen \div 5
           /\ \A i \in 1..(Len(mem) - d) : Evicted(mem)[i] = mem[i + d]
<1>1. Len(mem) \in Nat /\ \A i \in 1..Len(mem) : mem[i] \in Keys
  BY LenProperties, ElementOfSeq
<1>2. CASE Len(mem) < MaxSeen
  <2>1. Evicted(mem) = mem
    BY <1>2 DEF Evicted
  <2>2. 0 \in 0..Len(mem)
    BY <1>1
  <2>3. QED
    BY <1>1, <1>2, <2>1, <2>2
<1>3. CASE ~(Len(mem) < MaxSeen)
  <2> DEFINE d == MaxSeen \div 5 + 1
  <2>1. Len(mem) = MaxSeen /\ d \in 0..Len(mem) /\ d \in Nat /\ d > 0
    BY <1>1, <1>3, FifthFits, IntakeConstants
  <2>2. Evicted(mem) = SubSeq(mem, d + 1, Len(mem))
    <3>1. MaxSeen \div 5 + 2 = d + 1
      BY FifthFits
    <3>2. QED
      BY <1>3, <3>1 DEF Evicted
  <2>3. MaxSeen - d + 1 = MaxSeen - MaxSeen \div 5
    BY FifthFits, IntakeConstants
  <2> HIDE DEF d
  <2>4. \A i \in (d + 1)..Len(mem) : mem[i] \in Keys
    BY <1>1, <2>1
  <2>5. /\ Evicted(mem) \in Seq(Keys)
        /\ Len(Evicted(mem)) = IF d + 1 <= Len(mem) THEN Len(mem) - (d + 1) + 1 ELSE 0
        /\ \A i \in 1..(Len(mem) - (d + 1) + 1) : Evicted(mem)[i] = mem[(d + 1) + i - 1]
    BY <1>1, <2>1, <2>2, <2>4, SubSeqProperties
  <2>6. Len(Evicted(mem)) = Len(mem) - d
    BY <1>1, <2>1, <2>5
  <2>7. ASSUME NEW i \in 1..(Len(mem) - d) PROVE Evicted(mem)[i] = mem[i + d]
    <3>1. i \in 1..(Len(mem) - (d + 1) + 1) /\ (d + 1) + i - 1 = i + d
      BY <1>1, <2>1
    <3>2. Evicted(mem)[i] = mem[(d + 1) + i - 1]
      BY <2>5, <3>1
    <3>3. QED
      BY <3>1, <3>2
  <2>8. Len(Evicted(mem)) < MaxSeen /\ Len(Evicted(mem)) + 1 >= MaxSeen - MaxSeen \div 5
    BY <1>1, <2>1, <2>3, <2>6, FifthFits, IntakeConstants
  <2>9. Evicted(mem) \in Seq(Keys)
    BY <2>5
  <2>10. QED
    BY <2>1, <2>6, <2>7, <2>8, <2>9
<1>4. QED
  BY <1>2, <1>3

(* Remembering a new key keeps the memory in bounds and without duplicates;*)
(* what it forgets is a prefix, and only when enough newer keys stay.      *)
LEMMA RememberIs ==
  ASSUME NEW mem \in Seq(Keys), Len(mem) <= MaxSeen, Distinct(mem),
         NEW k \in Keys \cup {None}, k \notin ToSet(mem)
  PROVE  /\ Remember(mem, k) \in Seq(Keys)
         /\ Len(Remember(mem, k)) <= MaxSeen
         /\ Distinct(Remember(mem, k))
         /\ ToSet(Remember(mem, k)) \subseteq ToSet(mem) \cup ({k} \ {None})
         /\ \A i \in 1..Len(mem) : mem[i] \notin ToSet(Remember(mem, k)) =>
              /\ Len(Remember(mem, k)) >= MaxSeen - MaxSeen \div 5
              /\ \A j \in 1..i : mem[j] \notin ToSet(Remember(mem, k))
<1>1. Len(mem) \in Nat /\ ToSet(mem) = {mem[i] : i \in 1..Len(mem)}
  BY LenProperties, ElementsOf
<1>2. CASE k = None
  BY <1>1, <1>2 DEF Remember
<1>3. CASE k # None
  <2> DEFINE e == Evicted(mem)
             r == Append(e, k)
  <2>0. Remember(mem, k) = r
    BY <1>3 DEF Remember
  <2>1. PICK d \in 0..Len(mem) :
          /\ e \in Seq(Keys) /\ Len(e) = Len(mem) - d /\ Len(e) < MaxSeen
          /\ d > 0 => Len(e) + 1 >= MaxSeen - MaxSeen \div 5
          /\ \A i \in 1..(Len(mem) - d) : e[i] = mem[i + d]
    BY EvictedIs
  <2>2. k \in Keys
    BY <1>3
  <2> HIDE DEF e
  <2>3. /\ r \in Seq(Keys) /\ Len(r) = Len(e) + 1 /\ Len(e) \in Nat
        /\ \A i \in 1..Len(e) : r[i] = mem[i + d]
        /\ r[Len(e) + 1] = k
        /\ ToSet(r) = ToSet(e) \cup {k}
    <3>1. /\ r \in Seq(Keys) /\ Len(r) = Len(e) + 1 /\ Len(e) \in Nat
          /\ \A i \in 1..Len(e) : r[i] = e[i]
          /\ r[Len(e) + 1] = k
      BY <2>1, <2>2, AppendProperties, LenProperties
    <3>2. ToSet(r) = ToSet(e) \cup {k}
      BY <2>1, <2>2, ElementsOfAppend
    <3> HIDE DEF r
    <3>3. QED
      BY <2>1, <3>1, <3>2
  <2> HIDE DEF r
  <2>4. \A x : x \in ToSet(e) <=> \E i \in 1..(Len(mem) - d) : x = mem[i + d]
    <3>1. \A x : x \in ToSet(e) <=> \E i \in 1..Len(e) : x = e[i]
      BY <2>1, InElements
    <3>2. QED
      BY <2>1, <3>1
  <2>5. \A i \in 1..(Len(mem) - d) : i + d \in 1..Len(mem)
    BY <1>1, <2>1
  <2>6. ToSet(e) \subseteq ToSet(mem)
    BY <1>1, <2>4, <2>5
  <2>7. Distinct(r)
    <3>1. \A i \in 1..Len(e) : r[i] # k
      BY <1>1, <2>1, <2>3, <2>5
    <3>2. ASSUME NEW i \in 1..Len(e), NEW j \in 1..Len(e), r[i] = r[j] PROVE i = j
      <4>1. mem[i + d] = mem[j + d] /\ i + d \in 1..Len(mem) /\ j + d \in 1..Len(mem)
        BY <2>1, <2>3, <2>5, <3>2
      <4>2. i + d = j + d
        BY <4>1 DEF Distinct
      <4>3. QED
        BY <2>1, <2>3, <4>2
    <3>3. \A i \in 1..Len(r) : i \in 1..Len(e) \/ i = Len(e) + 1
      BY <2>3
    <3>4. QED
      BY <2>3, <3>1, <3>2, <3>3 DEF Distinct
  <2>8. ASSUME NEW i \in 1..Len(mem), mem[i] \notin ToSet(r)
        PROVE  /\ Len(r) >= MaxSeen - MaxSeen \div 5
               /\ \A j \in 1..i : mem[j] \notin ToSet(r)
    <3>1. i <= d
      <4>1. SUFFICES ASSUME i > d PROVE FALSE
        BY <2>1
      <4>2. i - d \in 1..(Len(mem) - d) /\ (i - d) + d = i
        BY <1>1, <2>1, <4>1
      <4>3. mem[i] \in ToSet(e)
        BY <2>4, <4>2
      <4>4. QED
        BY <2>3, <2>8, <4>3
    <3>2. ASSUME NEW j \in 1..i PROVE mem[j] \notin ToSet(r)
      <4>1. j \in 1..Len(mem) /\ j <= d
        BY <1>1, <3>1
      <4>2. mem[j] # k
        BY <1>1, <4>1
      <4>3. mem[j] \notin ToSet(e)
        BY <1>1, <2>1, <2>4, <2>5, <4>1 DEF Distinct
      <4>4. QED
        BY <2>3, <4>2, <4>3
    <3>3. QED
      BY <2>1, <2>3, <3>1, <3>2
  <2>9. Len(r) <= MaxSeen
    BY <2>1, <2>3, IntakeConstants
  <2>10. QED
    BY <1>3, <2>0, <2>3, <2>6, <2>7, <2>8, <2>9
<1>4. QED
  BY <1>2, <1>3

-----------------------------------------------------------------------------
(* Types, and memories without duplicates.                                 *)

MemoryInv == \A s \in Sources : Distinct(seen[s])

FetchInv ==
  /\ fetch \in [Sources -> {"fetching", "done", "failed", "late"}]
  /\ at \in [Sources -> Nat \ {0}]
  /\ tries \in [Sources -> 0..(MaxAttempts - 1)]

LEMMA NothingType == Nothing \in [Sources -> Seq(Articles)]
                     /\ \A s \in Sources : ToSet(Nothing[s]) = {}
BY EmptySeq, NoElements DEF Nothing

LEMMA NothingTypeKeys == /\ Nothing \in [Sources -> Seq(Keys)]
                         /\ \A s \in Sources : Nothing[s] = <<>> /\ Len(Nothing[s]) = 0
                         /\ \A s \in Sources : Distinct(Nothing[s])
BY EmptySeq DEF Nothing, Distinct

LEMMA NoTasksType == ASSUME NoTasks PROVE FetchInv'
BY IntakeConstants DEF NoTasks, FetchInv

LEMMA IntakeInit == Init => TypeOK /\ MemoryInv
<1> SUFFICES ASSUME Init PROVE TypeOK /\ MemoryInv
  OBVIOUS
<1>1. \A f \in Feeds : Len(Carries[f]) \in Nat
  BY IntakeConstants, LenProperties
<1>2. queue \in Seq(Articles)
  BY EmptySeq DEF Init
<1>3. seen \in [Sources -> Seq(Keys)] /\ \A s \in Sources : Len(seen[s]) <= MaxSeen
  BY NothingTypeKeys, IntakeConstants DEF Init
<1>4. MemoryInv
  BY NothingTypeKeys DEF Init, MemoryInv
<1>5. QED
  BY <1>1, <1>2, <1>3, <1>4, NothingType, IntakeConstants DEF Init, TypeOK

LEMMA FeedAnswers ==
  ASSUME TypeOK, NEW s \in Sources, NEW i \in 1..Len(FeedsOf[s])
  PROVE  Listed(FeedsOf[s][i]) \in Seq(Articles) /\ ToSet(Listed(FeedsOf[s][i])) \subseteq Articles
<1>1. FeedsOf[s][i] \in Feeds
  BY IntakeConstants, ElementOfSeq
<1>2. Listed(FeedsOf[s][i]) \in Seq(Articles)
  BY <1>1, ListedType DEF TypeOK
<1>3. QED
  BY <1>2, ElementsOf

(* A source marks an article it did not know.                              *)
LEMMA MarkingType ==
  ASSUME TypeOK, MemoryInv, NEW s \in Sources, NEW a \in Articles, ~Known(s, a),
         seen' = [seen EXCEPT ![s] = Remember(seen[s], Key[a])]
  PROVE  /\ seen' \in [Sources -> Seq(Keys)]
         /\ \A t \in Sources : Len(seen'[t]) <= MaxSeen
         /\ MemoryInv'
<1>1. /\ Remember(seen[s], Key[a]) \in Seq(Keys)
      /\ Len(Remember(seen[s], Key[a])) <= MaxSeen
      /\ Distinct(Remember(seen[s], Key[a]))
  BY RememberIs, IntakeConstants DEF TypeOK, MemoryInv, Known
<1>2. /\ seen'[s] = Remember(seen[s], Key[a])
      /\ \A t \in Sources \ {s} : seen'[t] = seen[t]
      /\ seen' \in [Sources -> Seq(Keys)]
  BY <1>1 DEF TypeOK
<1>3. QED
  BY <1>1, <1>2 DEF TypeOK, MemoryInv

LEMMA GotArticles ==
  ASSUME TypeOK
  PROVE  /\ \A s \in Sources : ToSet(got[s]) \subseteq Articles
         /\ \A s \in Sources : ToSet(batch[s]) \subseteq Articles
         /\ ToSet(queue) \subseteq Articles
BY ElementsOf DEF TypeOK

(* A step that touches no article.                                         *)
FeedInv ==
  /\ feed \in [Feeds -> Nat]
  /\ \A f \in Feeds : feed[f] <= Len(Carries[f])

Quiet == UNCHANGED <<seen, batch, got, stored, marked, queue, published, dropped, restarts>>

LEMMA QuietStep ==
  ASSUME TypeOK, MemoryInv, Quiet, FeedInv', FetchInv', orphan' \in SUBSET ThreadSources,
         pc' \in {"sleeping", "polling", "filtering", "publishing", "dead"},
         turn' \in Sources \cup {None}, faults' \in 0..MaxFaults
  PROVE  TypeOK' /\ MemoryInv'
BY DEF TypeOK, MemoryInv, Quiet, FeedInv, FetchInv

LEMMA FaultType == ASSUME TypeOK, Fault PROVE faults' \in 0..MaxFaults
BY IntakeConstants DEF TypeOK, Fault

(* The task goes on to its next feed.                                      *)
LEMMA NextFeedType ==
  ASSUME TypeOK, NEW s \in Sources,
         at' = [at EXCEPT ![s] = at[s] + 1], tries' = [tries EXCEPT ![s] = 0]
  PROVE  at' \in [Sources -> Nat \ {0}] /\ tries' \in [Sources -> 0..(MaxAttempts - 1)]
<1>1. at[s] + 1 \in Nat \ {0}
  BY DEF TypeOK
<1>2. 0 \in 0..(MaxAttempts - 1)
  BY IntakeConstants
<1>3. QED
  BY <1>1, <1>2 DEF TypeOK

LEMMA QuietTypes ==
  ASSUME TypeOK, MemoryInv,
         \/ \E f \in Feeds : Post(f)
         \/ StartPoll \/ EndPoll \/ EndFilter \/ EndPublish
         \/ \E s \in Sources : \/ TryFails(s) \/ FeedFails(s) \/ SourceFails(s)
                               \/ FetchDone(s) \/ OrphanEnds(s)
  PROVE  Quiet /\ TypeOK' /\ MemoryInv'
<1> USE DEF Quiet, memory, tasks, cycle
<1>0. FeedInv /\ FetchInv /\ orphan \in SUBSET ThreadSources /\ turn \in Sources \cup {None}
      /\ faults \in 0..MaxFaults
  BY DEF TypeOK, FeedInv, FetchInv
<1>1. ASSUME NEW f \in Feeds, Post(f) PROVE Quiet /\ TypeOK' /\ MemoryInv'
  <2>1. feed[f] \in Nat /\ Len(Carries[f]) \in Nat /\ feed[f] + 1 <= Len(Carries[f])
    BY <1>1, IntakeConstants, LenProperties DEF Post, TypeOK
  <2>2. FeedInv'
    BY <1>1, <2>1 DEF Post, FeedInv, TypeOK
  <2>3. QED
    BY <1>0, <1>1, <2>2, QuietStep DEF Post, FetchInv
<1>2. CASE StartPoll
  BY <1>0, <1>2, QuietStep DEF StartPoll, FetchInv, FeedInv
<1>3. CASE EndPoll
  BY <1>0, <1>3, NoTasksType, QuietStep DEF EndPoll, FeedInv
<1>4. CASE EndFilter
  BY <1>0, <1>4, QuietStep DEF EndFilter, FeedInv, FetchInv
<1>5. CASE EndPublish
  BY <1>0, <1>5, QuietStep DEF EndPublish, FeedInv, FetchInv
<1>6. ASSUME NEW s \in Sources, TryFails(s) PROVE Quiet /\ TypeOK' /\ MemoryInv'
  <2>1. tries[s] + 1 \in 0..(MaxAttempts - 1)
    BY <1>6, IntakeConstants DEF TryFails, TypeOK
  <2>2. FetchInv'
    BY <1>0, <1>6, <2>1 DEF TryFails, FetchInv
  <2>3. QED
    BY <1>0, <1>6, <2>2, QuietStep DEF TryFails, Requesting, Fetching, FeedInv
<1>7. ASSUME NEW s \in Sources, FeedFails(s) PROVE Quiet /\ TypeOK' /\ MemoryInv'
  <2>1. FetchInv' /\ faults' \in 0..MaxFaults
    BY <1>0, <1>7, NextFeedType, FaultType DEF FeedFails, FetchInv
  <2>2. QED
    BY <1>0, <1>7, <2>1, QuietStep DEF FeedFails, Requesting, Fetching, FeedInv
<1>8. ASSUME NEW s \in Sources, SourceFails(s) PROVE Quiet /\ TypeOK' /\ MemoryInv'
  <2>1. FetchInv' /\ faults' \in 0..MaxFaults
    BY <1>0, <1>8, FaultType DEF SourceFails, FetchInv
  <2>2. QED
    BY <1>0, <1>8, <2>1, QuietStep DEF SourceFails, Requesting, Fetching, FeedInv
<1>9. ASSUME NEW s \in Sources, FetchDone(s) PROVE Quiet /\ TypeOK' /\ MemoryInv'
  <2>1. FetchInv'
    BY <1>0, <1>9 DEF FetchDone, FetchInv
  <2>2. QED
    BY <1>0, <1>9, <2>1, QuietStep DEF FetchDone, Fetching, FeedInv
<1>10. ASSUME NEW s \in Sources, OrphanEnds(s) PROVE Quiet /\ TypeOK' /\ MemoryInv'
  <2>1. UNCHANGED pc /\ pc \in {"sleeping", "polling", "filtering", "publishing", "dead"}
    BY <1>10 DEF OrphanEnds, TypeOK
  <2>2. QED
    BY <1>0, <1>10, <2>1, QuietStep DEF OrphanEnds, FeedInv, FetchInv
<1>11. QED
  BY <1>1, <1>2, <1>3, <1>4, <1>5, <1>6, <1>7, <1>8, <1>9, <1>10

LEMMA SourceTypes ==
  ASSUME TypeOK, MemoryInv, NEW s \in Sources,
         Respond(s) \/ TakeArticle(s) \/ BreakOff(s) \/ OrphanMarks(s) \/ FilterNext(s)
  PROVE  TypeOK' /\ MemoryInv'
<1>1. CASE Respond(s)
  <2>1. at[s] \in 1..Len(FeedsOf[s])
    BY <1>1, IntakeConstants, LenProperties DEF Respond, Requesting, TypeOK
  <2>2. batch' \in [Sources -> Seq(Articles)]
    BY <1>1, <2>1, FeedAnswers DEF Respond, TypeOK
  <2>3. at' \in [Sources -> Nat \ {0}] /\ tries' \in [Sources -> 0..(MaxAttempts - 1)]
    BY <1>1, NextFeedType DEF Respond
  <2>4. QED
    BY <1>1, <2>2, <2>3 DEF Respond, TypeOK, MemoryInv, memory, cycle
<1>2. ASSUME batch[s] # <<>>
      PROVE  /\ Head(batch[s]) \in Articles
             /\ [batch EXCEPT ![s] = Tail(batch[s])] \in [Sources -> Seq(Articles)]
             /\ [batch EXCEPT ![s] = <<>>] \in [Sources -> Seq(Articles)]
  BY <1>2, ElementsOfTail, EmptySeq DEF TypeOK
<1>3. CASE TakeArticle(s)
  <2> DEFINE a == Head(batch[s])
  <2>1. a \in Articles /\ batch' \in [Sources -> Seq(Articles)]
    BY <1>2, <1>3 DEF TakeArticle
  <2>2. CASE Known(s, a)
    BY <1>3, <2>1, <2>2 DEF TakeArticle, TypeOK, MemoryInv, cycle
  <2>3. CASE ~Known(s, a)
    <3>1. seen' = [seen EXCEPT ![s] = Remember(seen[s], Key[a])]
          /\ got' = [got EXCEPT ![s] = Append(got[s], a)]
      BY <1>3, <2>3 DEF TakeArticle
    <3> HIDE DEF a
    <3>2. Append(got[s], a) \in Seq(Articles)
      BY <2>1, AppendProperties DEF TypeOK
    <3>3. got' \in [Sources -> Seq(Articles)]
      BY <3>1, <3>2 DEF TypeOK
    <3>4. QED
      BY <1>3, <2>1, <2>3, <3>1, <3>3, MarkingType DEF TakeArticle, TypeOK, cycle
  <2>4. QED
    BY <2>2, <2>3
<1>4. CASE BreakOff(s)
  <2> DEFINE a == Head(batch[s])
  <2>1. /\ a \in Articles /\ ~Known(s, a) /\ batch' \in [Sources -> Seq(Articles)]
        /\ seen' = [seen EXCEPT ![s] = Remember(seen[s], Key[a])]
        /\ dropped' = dropped \cup {a}
    BY <1>2, <1>4 DEF BreakOff
  <2> HIDE DEF a
  <2>2. faults' \in 0..MaxFaults
    BY <1>4, IntakeConstants DEF BreakOff, Fault, TypeOK
  <2>3. QED
    BY <1>4, <2>1, <2>2, MarkingType DEF BreakOff, TypeOK, cycle
<1>5. CASE OrphanMarks(s)
  <2>1. PICK i \in DOMAIN FeedsOf[s] : \E a \in ToSet(Listed(FeedsOf[s][i])) :
          /\ ~Known(s, a)
          /\ seen' = [seen EXCEPT ![s] = Remember(seen[s], Key[a])]
          /\ dropped' = dropped \cup {a}
    BY <1>5 DEF OrphanMarks
  <2>2. i \in 1..Len(FeedsOf[s])
    BY IntakeConstants, LenProperties
  <2>3. QED
    BY <1>5, <2>1, <2>2, FeedAnswers, MarkingType DEF OrphanMarks, TypeOK, tasks, cycle
<1>6. CASE FilterNext(s)
  <2> DEFINE a == Head(got[s])
  <2>1. a \in Articles /\ Tail(got[s]) \in Seq(Articles)
    BY <1>6, ElementsOfTail DEF FilterNext, TypeOK
  <2>2. got' \in [Sources -> Seq(Articles)]
    BY <1>6, <2>1 DEF FilterNext, TypeOK
  <2>3. \/ UNCHANGED <<queue, marked, faults>>
        \/ /\ queue' = Append(queue, a)
           /\ \/ /\ marked' \in {marked, marked \cup ({Url[a]} \ {None})}
                 /\ UNCHANGED faults
              \/ Fault /\ UNCHANGED marked
    BY <1>6 DEF FilterNext
  <2> HIDE DEF a
  <2>4. queue' \in Seq(Articles)
    <3>1. queue \in Seq(Articles)
      BY DEF TypeOK
    <3>2. Append(queue, a) \in Seq(Articles)
      BY <2>1, <3>1, AppendProperties
    <3>3. QED
      BY <2>3, <3>1, <3>2
  <2>5. marked' \in SUBSET Urls
    <3>1. Url[a] \in Urls \cup {None} /\ marked \in SUBSET Urls
      BY <2>1, IntakeConstants DEF TypeOK
    <3>2. marked' = marked \/ marked' = marked \cup ({Url[a]} \ {None})
      BY <2>3
    <3>3. QED
      BY <3>1, <3>2
  <2>6. faults' \in 0..MaxFaults
    BY <2>3, IntakeConstants DEF Fault, TypeOK
  <2>7. QED
    BY <1>6, <2>2, <2>4, <2>5, <2>6 DEF FilterNext, TypeOK, MemoryInv, memory
<1>7. QED
  BY <1>1, <1>3, <1>4, <1>5, <1>6

LEMMA WatcherTypes ==
  ASSUME TypeOK, MemoryInv,
         CutOff \/ StoreFails \/ PublishNext \/ PublishFails \/ Restart
  PROVE  TypeOK' /\ MemoryInv'
<1> USE IntakeConstants
<1>1. <<>> \in Seq(Articles)
  BY EmptySeq
<1>2. CASE CutOff
  <2>1. fetch' \in [Sources -> {"fetching", "done", "failed", "late"}]
    BY <1>2 DEF CutOff, TypeOK
  <2>2. got' \in [Sources -> Seq(Articles)] /\ batch' \in [Sources -> Seq(Articles)]
    BY <1>1, <1>2, NothingType DEF CutOff, TypeOK
  <2>3. dropped' \in SUBSET Articles
    <3>1. UNION {ToSet(got[s]) : s \in Late} \subseteq Articles
      BY GotArticles DEF Late
    <3>2. dropped' = dropped \cup UNION {ToSet(got[s]) : s \in Late}
      BY <1>2 DEF CutOff
    <3>3. QED
      BY <3>1, <3>2 DEF TypeOK
  <2>4. orphan' \in SUBSET ThreadSources /\ faults' \in 0..MaxFaults
    BY <1>2, FaultType DEF CutOff, TypeOK
  <2>5. QED
    BY <1>2, <2>1, <2>2, <2>3, <2>4 DEF CutOff, TypeOK, MemoryInv, cycle
<1>3. CASE StoreFails
  <2>1. dropped' = dropped \cup ToSet(queue) \cup UNION {ToSet(got[s]) : s \in Sources}
    BY <1>3 DEF StoreFails
  <2>2. dropped' \in SUBSET Articles
    <3>1. UNION {ToSet(got[s]) : s \in Sources} \subseteq Articles
      BY GotArticles
    <3>2. dropped \subseteq Articles /\ ToSet(queue) \subseteq Articles
      BY GotArticles DEF TypeOK
    <3>3. QED
      BY <2>1, <3>1, <3>2
  <2>3. QED
    BY <1>1, <1>3, <2>2, NothingType, FaultType DEF StoreFails, TypeOK, MemoryInv, memory
<1>4. CASE PublishNext \/ PublishFails
  <2>1. Head(queue) \in Articles /\ Tail(queue) \in Seq(Articles)
    BY <1>4, ElementsOfTail DEF PublishNext, PublishFails, TypeOK
  <2>2. CASE PublishNext
    BY <2>1, <2>2 DEF PublishNext, TypeOK, MemoryInv, memory, tasks
  <2>3. CASE PublishFails
    BY <1>1, <2>3, GotArticles, FaultType DEF PublishFails, TypeOK, MemoryInv, memory, tasks
  <2>4. QED
    BY <1>4, <2>2, <2>3
<1>5. CASE Restart
  <2>1. FetchInv'
    BY <1>5, NoTasksType DEF Restart
  <2>2. dropped' \in SUBSET Articles
    BY <1>5, GotArticles DEF Restart, TypeOK
  <2>3. seen' \in [Sources -> Seq(Keys)] /\ \A s \in Sources : Len(seen'[s]) <= MaxSeen
    BY <1>5, NothingTypeKeys DEF Restart
  <2>4. MemoryInv'
    BY <1>5, NothingTypeKeys DEF Restart, MemoryInv
  <2>5. restarts' \in 0..MaxRestarts
    BY <1>5 DEF Restart, TypeOK
  <2>6. QED
    BY <1>1, <1>5, <2>1, <2>2, <2>3, <2>4, <2>5, NothingType DEF Restart, FetchInv, TypeOK
<1>6. QED
  BY <1>2, <1>3, <1>4, <1>5

LEMMA IntakeNext == ASSUME TypeOK, MemoryInv, [Next]_vars PROVE TypeOK' /\ MemoryInv'
<1>1. CASE UNCHANGED vars
  BY <1>1 DEF vars, memory, tasks, cycle, TypeOK, MemoryInv
<1>2. QED
  BY <1>1, QuietTypes, SourceTypes, WatcherTypes DEF Next, Work, Disturb

LEMMA IntakeInductive == Spec => [](TypeOK /\ MemoryInv)
BY IntakeInit, IntakeNext, PTL DEF Spec

(* A source never keeps more than MAX_SEEN keys, and a thread that outlives*)
(* its time-out is one of a source that has threads                        *)
(* (NewsSource._check_seen, _poll_concurrent).                             *)
THEOREM TypesAreRight == Spec => []TypeOK
BY IntakeInductive, PTL

-----------------------------------------------------------------------------
(* What a source forgets.                                                  *)

LEMMA ForgettingStep ==
  ASSUME TypeOK, MemoryInv, [Next]_vars, NEW s \in Sources, NEW i \in 1..Len(seen[s]),
         seen[s][i] \notin ToSet(seen'[s]), restarts' = restarts
  PROVE  /\ Len(seen'[s]) >= MaxSeen - MaxSeen \div 5
         /\ \A j \in 1..i : seen[s][j] \notin ToSet(seen'[s])
<1>1. seen[s] \in Seq(Keys) /\ Len(seen[s]) <= MaxSeen /\ Distinct(seen[s])
  BY DEF TypeOK, MemoryInv
<1>2. seen[s][i] \in ToSet(seen[s])
  BY <1>1, InElements
<1>3. seen' # seen
  BY <1>2
<1>4. ASSUME NEW t \in Sources, NEW a \in Articles, ~Known(t, a),
             seen' = [seen EXCEPT ![t] = Remember(seen[t], Key[a])]
      PROVE  /\ Len(seen'[s]) >= MaxSeen - MaxSeen \div 5
             /\ \A j \in 1..i : seen[s][j] \notin ToSet(seen'[s])
  <2>1. t = s
    BY <1>2, <1>4 DEF TypeOK
  <2>2. seen'[s] = Remember(seen[s], Key[a])
    BY <1>4, <2>1 DEF TypeOK
  <2>3. Key[a] \in Keys \cup {None} /\ Key[a] \notin ToSet(seen[s])
    BY <1>4, <2>1, IntakeConstants DEF Known
  <2>4. QED
    BY <1>1, <2>2, <2>3, RememberIs
<1>5. \E t \in Sources : \E a \in Articles :
        ~Known(t, a) /\ seen' = [seen EXCEPT ![t] = Remember(seen[t], Key[a])]
  <2>1. PICK t \in Sources : TakeArticle(t) \/ BreakOff(t) \/ OrphanMarks(t)
    <3>1. ~Restart
      BY DEF Restart, TypeOK
    <3>2. ~UNCHANGED vars
      BY <1>3 DEF vars, memory
    <3>3. ~(CutOff \/ StoreFails \/ PublishFails \/ StartPoll \/ EndPoll \/ EndFilter
            \/ PublishNext \/ EndPublish)
      BY <1>3 DEF CutOff, StoreFails, PublishFails, StartPoll, EndPoll, EndFilter, PublishNext,
                  EndPublish, memory
    <3>4. ~\E f \in Feeds : Post(f)
      BY <1>3 DEF Post, memory
    <3>5. ~\E t \in Sources : \/ TryFails(t) \/ FeedFails(t) \/ SourceFails(t) \/ OrphanEnds(t)
                              \/ Respond(t) \/ FetchDone(t) \/ FilterNext(t)
      BY <1>3 DEF TryFails, FeedFails, SourceFails, OrphanEnds, Respond, FetchDone, FilterNext,
                  memory
    <3>6. QED
      BY <3>1, <3>2, <3>3, <3>4, <3>5 DEF Next, Work, Disturb
  <2>2. ASSUME batch[t] # <<>> PROVE Head(batch[t]) \in Articles
    BY <2>2, ElementsOfTail DEF TypeOK
  <2>3. CASE TakeArticle(t) \/ BreakOff(t)
    BY <1>3, <2>2, <2>3 DEF TakeArticle, BreakOff
  <2>4. CASE OrphanMarks(t)
    <3>1. PICK k \in DOMAIN FeedsOf[t] : \E a \in ToSet(Listed(FeedsOf[t][k])) :
            ~Known(t, a) /\ seen' = [seen EXCEPT ![t] = Remember(seen[t], Key[a])]
      BY <2>4 DEF OrphanMarks
    <3>2. k \in 1..Len(FeedsOf[t])
      BY IntakeConstants, LenProperties
    <3>3. QED
      BY <3>1, <3>2, FeedAnswers
  <2>5. QED
    BY <2>1, <2>3, <2>4
<1>6. QED
  BY <1>4, <1>5

(* For every size of the memory: the keys a source forgets are its oldest, *)
(* and it forgets them only while four fifths of MAX_SEEN newer ones stay  *)
(* (NewsSource._check_seen).                                               *)
THEOREM OldestIsForgotten == Spec => ForgetsOldest
<1> DEFINE Step == \A s \in Sources : \A i \in 1..Len(seen[s]) :
       (seen[s][i] \notin ToSet(seen'[s]) /\ restarts' = restarts)
         => /\ Len(seen'[s]) >= MaxSeen - MaxSeen \div 5
            /\ \A j \in 1..i : seen[s][j] \notin ToSet(seen'[s])
<1>1. TypeOK /\ MemoryInv /\ [Next]_vars => [Step]_vars
  BY ForgettingStep
<1>2. QED
  BY <1>1, IntakeInductive, PTL DEF Spec, ForgetsOldest

-----------------------------------------------------------------------------
(* No article slips through.  A step keeps every article accounted for and *)
(* marks only articles that are.                                           *)

Accounted(a) == a \in published \/ OnItsWay(a) \/ a \in dropped \/ Url[a] \in marked
Filtered(a) == a \in published \/ a \in ToSet(queue) \/ a \in dropped

StoreInv == ~stored => marked = {}

SlipInv == TypeOK /\ MemoryInv /\ StoreInv /\ NothingSlips

KeepsAccounts ==
  /\ \A a \in Articles : Accounted(a) => Accounted(a)'
  /\ \A a \in Articles : Filtered(a) => Filtered(a)'

MarksAccounted ==
  /\ \A s \in Sources : \A k \in ToSet(seen'[s]) :
       k \in ToSet(seen[s]) \/ \E a \in Articles : Key[a] = k /\ Accounted(a)'
  /\ \A u \in marked' : u \in marked \/ \E a \in Articles : Url[a] = u /\ Filtered(a)'

LEMMA SlipStep == ASSUME NothingSlips, KeepsAccounts, MarksAccounted PROVE NothingSlips'
BY DEF NothingSlips, KeepsAccounts, MarksAccounted, Accounted, Filtered

LEMMA StoreStep == ASSUME SlipInv, [Next]_vars PROVE StoreInv'
<1> USE DEF SlipInv, StoreInv
<1>1. ASSUME NEW s \in Sources, FilterNext(s) PROVE StoreInv'
  BY <1>1 DEF FilterNext
<1>2. CASE \E s \in Sources : Respond(s) \/ TakeArticle(s) \/ FetchDone(s) \/ TryFails(s)
           \/ FeedFails(s) \/ SourceFails(s) \/ BreakOff(s) \/ OrphanMarks(s) \/ OrphanEnds(s)
  BY <1>2 DEF Respond, TakeArticle, FetchDone, TryFails, FeedFails, SourceFails, BreakOff,
              OrphanMarks, OrphanEnds
<1>3. CASE StartPoll \/ EndPoll \/ EndFilter \/ PublishNext \/ EndPublish \/ CutOff
           \/ StoreFails \/ PublishFails \/ Restart \/ \E f \in Feeds : Post(f)
  BY <1>3 DEF StartPoll, EndPoll, EndFilter, PublishNext, EndPublish, CutOff, StoreFails,
              PublishFails, Restart, Post
<1>4. QED
  BY <1>1, <1>2, <1>3 DEF Next, Work, Disturb, vars

LEMMA QuietSlips == ASSUME Quiet PROVE KeepsAccounts /\ MarksAccounted
BY DEF Quiet, KeepsAccounts, MarksAccounted, Accounted, Filtered, OnItsWay

(* A source marks an article and has it, or a failure drops it.            *)
LEMMA MarkingSlips ==
  ASSUME TypeOK, MemoryInv, NEW s \in Sources, NEW a \in Articles, ~Known(s, a),
         seen' = [seen EXCEPT ![s] = Remember(seen[s], Key[a])],
         UNCHANGED <<queue, published, marked>>,
         dropped \subseteq dropped',
         \A b \in Articles : OnItsWay(b) => OnItsWay(b)',
         a \in dropped' \/ OnItsWay(a)'
  PROVE  KeepsAccounts /\ MarksAccounted
<1>1. ToSet(Remember(seen[s], Key[a])) \subseteq ToSet(seen[s]) \cup ({Key[a]} \ {None})
  BY RememberIs, IntakeConstants DEF TypeOK, MemoryInv, Known
<1>2. /\ seen'[s] = Remember(seen[s], Key[a])
      /\ \A t \in Sources \ {s} : seen'[t] = seen[t]
  BY DEF TypeOK
<1>3. Accounted(a)'
  BY DEF Accounted
<1>4. KeepsAccounts
  BY DEF KeepsAccounts, Accounted, Filtered
<1>5. MarksAccounted
  BY <1>1, <1>2, <1>3 DEF MarksAccounted
<1>6. QED
  BY <1>4, <1>5

LEMMA TakeSlips == ASSUME SlipInv, NEW s \in Sources, TakeArticle(s)
                   PROVE  KeepsAccounts /\ MarksAccounted
<1>1. PICK a \in Articles : a = Head(batch[s])
  BY ElementsOfTail DEF TakeArticle, SlipInv, TypeOK
<1>2. CASE Known(s, a)
  BY <1>1, <1>2 DEF TakeArticle, cycle, KeepsAccounts, MarksAccounted, Accounted, Filtered, OnItsWay
<1>3. CASE ~Known(s, a)
  <2>1. /\ seen' = [seen EXCEPT ![s] = Remember(seen[s], Key[a])]
        /\ got' = [got EXCEPT ![s] = Append(got[s], a)]
        /\ UNCHANGED <<queue, published, marked, dropped>>
    BY <1>1, <1>3 DEF TakeArticle, cycle
  <2>2. ToSet(Append(got[s], a)) = ToSet(got[s]) \cup {a}
    BY <1>1, ElementsOfAppend DEF SlipInv, TypeOK
  <2>3. /\ ToSet(got'[s]) = ToSet(got[s]) \cup {a}
        /\ \A t \in Sources \ {s} : got'[t] = got[t]
    BY <2>1, <2>2 DEF SlipInv, TypeOK
  <2>4. OnItsWay(a)' /\ \A b \in Articles : OnItsWay(b) => OnItsWay(b)'
    BY <2>1, <2>3 DEF OnItsWay
  <2>5. QED
    BY <1>1, <1>3, <2>1, <2>4, MarkingSlips DEF SlipInv
<1>4. QED
  BY <1>2, <1>3

LEMMA BreakSlips == ASSUME SlipInv, NEW s \in Sources, BreakOff(s)
                    PROVE  KeepsAccounts /\ MarksAccounted
<1> DEFINE a == Head(batch[s])
<1>1. a \in Articles
  BY ElementsOfTail DEF BreakOff, SlipInv, TypeOK
<1>2. /\ ~Known(s, a) /\ seen' = [seen EXCEPT ![s] = Remember(seen[s], Key[a])]
      /\ dropped' = dropped \cup {a} /\ UNCHANGED <<got, queue, published, marked>>
  BY DEF BreakOff, cycle
<1> HIDE DEF a
<1>3. \A b \in Articles : OnItsWay(b) => OnItsWay(b)'
  BY <1>2 DEF OnItsWay
<1>4. QED
  BY <1>1, <1>2, <1>3, MarkingSlips DEF SlipInv

LEMMA OrphanSlips == ASSUME SlipInv, NEW s \in Sources, OrphanMarks(s)
                     PROVE  KeepsAccounts /\ MarksAccounted
<1>1. PICK i \in DOMAIN FeedsOf[s] : \E a \in ToSet(Listed(FeedsOf[s][i])) :
        /\ ~Known(s, a)
        /\ seen' = [seen EXCEPT ![s] = Remember(seen[s], Key[a])]
        /\ dropped' = dropped \cup {a}
  BY DEF OrphanMarks
<1>2. i \in 1..Len(FeedsOf[s])
  BY IntakeConstants, LenProperties
<1>3. PICK a \in Articles :
        /\ ~Known(s, a)
        /\ seen' = [seen EXCEPT ![s] = Remember(seen[s], Key[a])]
        /\ dropped' = dropped \cup {a}
  BY <1>1, <1>2, FeedAnswers DEF SlipInv
<1>4. UNCHANGED <<got, queue, published, marked>>
  BY DEF OrphanMarks, tasks, cycle
<1>5. \A b \in Articles : OnItsWay(b) => OnItsWay(b)'
  BY <1>4 DEF OnItsWay
<1>6. QED
  BY <1>3, <1>4, <1>5, MarkingSlips DEF SlipInv

(* What leaves a source's events is queued, or its url is recorded.        *)
LEMMA FilterSlips == ASSUME SlipInv, NEW s \in Sources, FilterNext(s)
                     PROVE  KeepsAccounts /\ MarksAccounted
<1>1. PICK a \in Articles : a = Head(got[s]) /\ ToSet(got[s]) = ToSet(Tail(got[s])) \cup {a}
  BY ElementsOfTail DEF FilterNext, SlipInv, TypeOK
<1>2. /\ got'[s] = Tail(got[s]) /\ \A t \in Sources \ {s} : got'[t] = got[t]
      /\ UNCHANGED <<seen, published, dropped>>
  BY DEF FilterNext, SlipInv, TypeOK, memory
<1>3. \/ Url[a] \in marked /\ UNCHANGED <<queue, marked>>
      \/ /\ queue' = Append(queue, a)
         /\ marked' = marked \/ marked' = marked \cup {Url[a]}
  BY <1>1 DEF FilterNext, Recorded
<1>4. ToSet(Append(queue, a)) = ToSet(queue) \cup {a}
  BY <1>1, ElementsOfAppend DEF SlipInv, TypeOK
<1>5. /\ marked \subseteq marked' /\ ToSet(queue) \subseteq ToSet(queue')
      /\ a \in ToSet(queue') \/ Url[a] \in marked'
      /\ \A u \in marked' : u \in marked \/ (u = Url[a] /\ a \in ToSet(queue'))
  BY <1>3, <1>4
<1>6. \A b \in Articles : OnItsWay(b) => OnItsWay(b)' \/ b = a
  BY <1>1, <1>2, <1>5 DEF OnItsWay
<1>7. Accounted(a)'
  BY <1>5 DEF Accounted, OnItsWay
<1>8. KeepsAccounts
  BY <1>2, <1>5, <1>6, <1>7 DEF KeepsAccounts, Accounted, Filtered
<1>9. MarksAccounted
  BY <1>1, <1>2, <1>5 DEF MarksAccounted, Filtered
<1>10. QED
  BY <1>8, <1>9

(* The events a failure takes away are dropped.                            *)
LEMMA WatcherSlips ==
  ASSUME SlipInv, CutOff \/ StoreFails \/ PublishNext \/ PublishFails
  PROVE  KeepsAccounts /\ MarksAccounted
<1> USE DEF SlipInv, KeepsAccounts, MarksAccounted, Accounted, Filtered, OnItsWay
<1>1. CASE CutOff
  <2>1. \A s \in Sources : got'[s] = IF s \in Late THEN <<>> ELSE got[s]
    BY <1>1 DEF CutOff
  <2>2. dropped' = dropped \cup UNION {ToSet(got[s]) : s \in Late}
        /\ UNCHANGED <<seen, marked, queue, published>>
    BY <1>1 DEF CutOff, cycle
  <2>3. \A s \in Sources : \A b \in ToSet(got[s]) : b \in dropped' \/ b \in ToSet(got'[s])
    BY <2>1, <2>2
  <2>4. QED
    BY <2>2, <2>3
<1>2. CASE StoreFails
  <2>1. dropped' = dropped \cup ToSet(queue) \cup UNION {ToSet(got[s]) : s \in Sources}
        /\ UNCHANGED <<seen, marked, published>>
    BY <1>2 DEF StoreFails, memory
  <2>2. \A b : b \in ToSet(queue) => b \in dropped'
    BY <2>1
  <2>3. \A s \in Sources : \A b \in ToSet(got[s]) : b \in dropped'
    BY <2>1
  <2>4. dropped \subseteq dropped'
    BY <2>1
  <2>5. QED
    BY <2>1, <2>2, <2>3, <2>4
<1>3. CASE PublishNext
  <2>1. ToSet(queue) = ToSet(Tail(queue)) \cup {Head(queue)}
    BY <1>3, ElementsOfTail DEF PublishNext, TypeOK
  <2>2. QED
    BY <1>3, <2>1 DEF PublishNext, memory, tasks
<1>4. CASE PublishFails
  <2>1. /\ dropped' = dropped \cup ToSet(queue)
        /\ UNCHANGED <<seen, got, marked, published>>
    BY <1>4 DEF PublishFails, memory, tasks
  <2>2. QED
    BY <2>1
<1>5. QED
  BY <1>1, <1>2, <1>3, <1>4

(* A restart forgets the memories; of what is recorded nothing is lost     *)
(* unaccounted.                                                            *)
LEMMA RestartSlips == ASSUME SlipInv, Restart PROVE NothingSlips'
<1>1. \A s \in Sources : ToSet(seen'[s]) = {}
  BY NoElements DEF Restart, Nothing
<1>2. UNCHANGED <<stored, marked, published>>
  BY DEF Restart
<1>3. \A a \in Articles : stored /\ Filtered(a) => Filtered(a)'
  BY DEF Restart, Filtered
<1>4. CASE ~stored
  BY <1>1, <1>2, <1>4 DEF SlipInv, StoreInv, NothingSlips
<1>5. CASE stored
  BY <1>1, <1>2, <1>3, <1>5 DEF SlipInv, NothingSlips, Filtered
<1>6. QED
  BY <1>4, <1>5

LEMMA SlipNext == ASSUME SlipInv, [Next]_vars PROVE SlipInv'
<1>1. TypeOK' /\ MemoryInv' /\ StoreInv'
  BY IntakeNext, StoreStep DEF SlipInv
<1>2. ASSUME NEW s \in Sources, Respond(s) PROVE KeepsAccounts /\ MarksAccounted
  BY <1>2 DEF Respond, memory, cycle, KeepsAccounts, MarksAccounted, Accounted, Filtered, OnItsWay
<1>3. ASSUME UNCHANGED vars PROVE KeepsAccounts /\ MarksAccounted
  BY <1>3, QuietSlips DEF vars, memory, tasks, cycle, Quiet
<1>4. NothingSlips'
  BY <1>2, <1>3, QuietTypes, QuietSlips, TakeSlips, BreakSlips, OrphanSlips, FilterSlips,
     WatcherSlips, RestartSlips, SlipStep DEF Next, Work, Disturb, SlipInv
<1>5. QED
  BY <1>1, <1>4 DEF SlipInv

LEMMA SlipInit == Init => SlipInv
<1> SUFFICES ASSUME Init PROVE SlipInv
  OBVIOUS
<1>1. \A s \in Sources : ToSet(seen[s]) = {}
  BY NoElements DEF Init, Nothing
<1>2. QED
  BY <1>1, IntakeInit DEF Init, SlipInv, StoreInv, NothingSlips

LEMMA SlipInductive == Spec => []SlipInv
BY SlipInit, SlipNext, PTL DEF Spec

(* Whatever times out, fails or is restarted when, a key a source          *)
(* remembers and a url the store records stand for an article that was     *)
(* published, is on its way, or was dropped by a failure (_check_seen,     *)
(* _poll_concurrent, filter_unseen, run).                                  *)
THEOREM NoArticleSlips == Spec => []NothingSlips
BY SlipInductive, PTL DEF SlipInv

-----------------------------------------------------------------------------
(* No url is published twice while nothing fails: the urls queued and      *)
(* published are recorded, and no two queued articles share one.           *)

UrlsRecorded ==
  \A a \in published \cup ToSet(queue) : Url[a] # None => Url[a] \in marked

QueueIsNew ==
  /\ \A a \in ToSet(queue), b \in published : Url[a] # None => Url[b] # Url[a]
  /\ \A i, j \in 1..Len(queue) :
       Url[queue[i]] # None /\ Url[queue[i]] = Url[queue[j]] => i = j

OnceInv == (stored /\ faults = 0) => UrlsRecorded /\ QueueIsNew

LEMMA FaultFirst == ASSUME TypeOK, Fault PROVE faults' # 0
BY DEF TypeOK, Fault

LEMMA FilterOnce == ASSUME TypeOK, OnceInv, NEW s \in Sources, FilterNext(s) PROVE OnceInv'
<1> SUFFICES ASSUME stored', faults' = 0 PROVE (UrlsRecorded /\ QueueIsNew)'
  BY DEF OnceInv
<1>1. stored /\ faults = 0 /\ UNCHANGED published
  BY FaultFirst DEF FilterNext, TypeOK
<1>2. UrlsRecorded /\ QueueIsNew
  BY <1>1 DEF OnceInv
<1>3. PICK a \in Articles : a = Head(got[s])
  BY ElementsOfTail DEF FilterNext, TypeOK
<1>4. CASE UNCHANGED <<queue, marked>>
  BY <1>1, <1>2, <1>4 DEF UrlsRecorded, QueueIsNew
<1>5. CASE /\ Url[a] \notin marked
           /\ queue' = Append(queue, a)
           /\ marked' = IF Url[a] # None THEN marked \cup {Url[a]} ELSE marked
  <2>1. queue \in Seq(Articles)
    BY DEF TypeOK
  <2>2. ToSet(queue') = ToSet(queue) \cup {a}
    BY <1>5, <2>1, ElementsOfAppend
  <2>3. /\ Len(queue') = Len(queue) + 1 /\ Len(queue) \in Nat
        /\ \A i \in 1..Len(queue) : queue'[i] = queue[i]
        /\ queue'[Len(queue) + 1] = a
    BY <1>5, <2>1, AppendProperties, LenProperties
  <2>4. \A i \in 1..Len(queue) : queue[i] \in ToSet(queue)
    BY <2>1, InElements
  <2>5. UrlsRecorded'
    BY <1>1, <1>2, <1>5, <2>2 DEF UrlsRecorded
  <2>6. \A b \in published \cup ToSet(queue) : Url[a] # None => Url[b] # Url[a]
    BY <1>2, <1>5 DEF UrlsRecorded
  <2>7. \A i \in 1..Len(queue) : Url[queue[i]] # None => Url[queue[i]] # Url[a]
    BY <1>2, <1>5, <2>4 DEF UrlsRecorded
  <2>8. \A i \in 1..Len(queue') : i \in 1..Len(queue) \/ i = Len(queue) + 1
    BY <2>3
  <2>9. ASSUME NEW i \in 1..Len(queue'), NEW j \in 1..Len(queue'),
               Url[queue'[i]] # None, Url[queue'[i]] = Url[queue'[j]]
        PROVE  i = j
    BY <1>2, <2>3, <2>7, <2>8, <2>9 DEF QueueIsNew
  <2>10. \A b \in ToSet(queue'), c \in published' : Url[b] # None => Url[c] # Url[b]
    BY <1>1, <1>2, <2>2, <2>6 DEF QueueIsNew
  <2>11. QED
    BY <2>5, <2>9, <2>10 DEF QueueIsNew
<1>6. QED
  <2>1. ~Fault
    BY <1>1, FaultFirst
  <2>2. QED
    BY <1>1, <1>3, <1>4, <1>5, <2>1 DEF FilterNext, Recorded

LEMMA PublishOnce == ASSUME TypeOK, OnceInv, PublishNext PROVE OnceInv'
<1> SUFFICES ASSUME stored', faults' = 0 PROVE (UrlsRecorded /\ QueueIsNew)'
  BY DEF OnceInv
<1>1. stored /\ faults = 0 /\ UNCHANGED marked
  BY DEF PublishNext
<1>2. UrlsRecorded /\ QueueIsNew
  BY <1>1 DEF OnceInv
<1>3. queue \in Seq(Articles) /\ queue # <<>>
  BY DEF PublishNext, TypeOK
<1>4. PICK a \in Articles : a = Head(queue)
  BY <1>3, ElementsOfTail
<1>5. ToSet(queue) = ToSet(queue') \cup {a} /\ published' = published \cup {a}
  BY <1>3, <1>4, ElementsOfTail DEF PublishNext
<1>6. /\ queue' \in Seq(Articles) /\ Len(queue') = Len(queue) - 1 /\ Len(queue) \in Nat
      /\ a = queue[1] /\ \A i \in 1..Len(queue') : queue'[i] = queue[i + 1]
  BY <1>3, <1>4, HeadTailProperties, LenProperties, EmptySeq DEF PublishNext
<1>7. UrlsRecorded'
  BY <1>1, <1>2, <1>5 DEF UrlsRecorded
<1>8. \A i \in 1..Len(queue') : i + 1 \in 1..Len(queue) /\ i + 1 # 1 /\ 1 \in 1..Len(queue)
  BY <1>6
<1>9. \A i \in 1..Len(queue') : Url[queue'[i]] # None => Url[queue'[i]] # Url[a]
  BY <1>2, <1>6, <1>8 DEF QueueIsNew
<1>10. \A b \in ToSet(queue'), c \in published' : Url[b] # None => Url[c] # Url[b]
  <2>1. \A b \in ToSet(queue') : \E i \in 1..Len(queue') : b = queue'[i]
    BY <1>6, InElements
  <2>2. \A b \in ToSet(queue') : Url[b] # None => Url[b] # Url[a]
    BY <1>9, <2>1
  <2>3. QED
    BY <1>2, <1>5, <2>2 DEF QueueIsNew
<1>11. ASSUME NEW i \in 1..Len(queue'), NEW j \in 1..Len(queue'),
              Url[queue'[i]] # None, Url[queue'[i]] = Url[queue'[j]]
       PROVE  i = j
  <2>1. i + 1 = j + 1
    BY <1>2, <1>6, <1>8, <1>11 DEF QueueIsNew
  <2>2. QED
    BY <1>6, <2>1
<1>12. QED
  BY <1>7, <1>10, <1>11 DEF QueueIsNew

LEMMA EmptyQueueOnce ==
  ASSUME OnceInv, queue' = <<>>, UNCHANGED <<stored, faults, published, marked>>
  PROVE  OnceInv'
<1>1. ToSet(queue') = {} /\ Len(queue') = 0
  BY NoElements, EmptySeq
<1>2. QueueIsNew'
  BY <1>1 DEF QueueIsNew
<1>3. QED
  BY <1>1, <1>2 DEF OnceInv, UrlsRecorded

LEMMA OnceNext == ASSUME TypeOK, OnceInv, [Next]_vars PROVE OnceInv'
<1>1. ASSUME UNCHANGED <<queue, marked, published, stored>>, faults' = 0 => faults = 0 PROVE OnceInv'
  BY <1>1 DEF OnceInv, UrlsRecorded, QueueIsNew
<1>2. ASSUME Fault, UNCHANGED stored PROVE OnceInv'
  BY <1>2, FaultFirst DEF OnceInv
<1>3. CASE \E s \in Sources : Respond(s) \/ TakeArticle(s) \/ FetchDone(s) \/ TryFails(s)
           \/ FeedFails(s) \/ SourceFails(s) \/ BreakOff(s) \/ OrphanMarks(s) \/ OrphanEnds(s)
  BY <1>1, <1>2, <1>3 DEF Respond, TakeArticle, FetchDone, TryFails, FeedFails, SourceFails,
     BreakOff, OrphanMarks, OrphanEnds, cycle
<1>4. CASE StartPoll \/ EndPoll \/ EndFilter \/ EndPublish \/ \E f \in Feeds : Post(f)
  BY <1>1, <1>4 DEF StartPoll, EndPoll, EndFilter, EndPublish, Post, cycle
<1>5. CASE CutOff \/ StoreFails \/ PublishFails
  BY <1>2, <1>5 DEF CutOff, StoreFails, PublishFails
<1>6. CASE Restart
  BY <1>6, EmptyQueueOnce DEF Restart
<1>7. CASE UNCHANGED vars
  BY <1>1, <1>7 DEF vars, cycle
<1>8. QED
  BY <1>3, <1>4, <1>5, <1>6, <1>7, FilterOnce, PublishOnce DEF Next, Work, Disturb

LEMMA OnceInit == Init => OnceInv
<1> SUFFICES ASSUME Init PROVE OnceInv
  OBVIOUS
<1>1. ToSet(queue) = {} /\ Len(queue) = 0
  BY NoElements, EmptySeq DEF Init
<1>2. QED
  BY <1>1 DEF Init, OnceInv, UrlsRecorded, QueueIsNew

(* With a news store, and while nothing fails, no url is published twice,  *)
(* however many sources carry it and however often the watcher is started  *)
(* (news_poller.filter_unseen, news_store.mark_seen).                      *)
THEOREM NoUrlTwice == Spec => PublishedOnce
<1> DEFINE Step ==
       (stored /\ faults = 0 /\ pc = "publishing" /\ queue # <<>> /\ queue' = Tail(queue))
         => LET a == Head(queue)
            IN  Url[a] # None => \A b \in published : Url[b] # Url[a]
<1>1. TypeOK /\ OnceInv => Step
  <2> SUFFICES ASSUME TypeOK, OnceInv, stored, faults = 0, queue # <<>>
               PROVE  Url[Head(queue)] # None =>
                        \A b \in published : Url[b] # Url[Head(queue)]
    OBVIOUS
  <2>1. Head(queue) \in ToSet(queue)
    BY ElementsOfTail DEF TypeOK
  <2>2. QED
    BY <2>1 DEF OnceInv, QueueIsNew
<1>2. TypeOK /\ OnceInv /\ [Next]_vars => [Step]_vars
  BY <1>1
<1>3. Spec => [](TypeOK /\ OnceInv)
  <2>1. Spec => []TypeOK
    BY TypesAreRight
  <2>2. QED
    BY <2>1, OnceInit, OnceNext, PTL DEF Spec
<1>4. QED
  BY <1>2, <1>3, PTL DEF Spec, PublishedOnce
=============================================================================
