------------------------ MODULE BatchScheduler_proofs ------------------------
(***************************************************************************)
(* Proofs about BatchScheduler, for every batch, stages, resources, limits *)
(* and retry bound.                                                        *)
(***************************************************************************)
EXTENDS BatchScheduler, FiniteSetTheorems, SequenceTheorems, WellFoundedInduction, TLAPS

\* Earlier stages are recorded; of later ones nothing has happened.
StageOnly ==
  \A r \in Runs :
    /\ r \in Waiting \cup running \cup judging => StageOf[r] = stage
    /\ StageOf[r] < stage => r \in Recorded
    /\ StageOf[r] > stage => r \notin Recorded /\ attempt[r] = 1

\* What is over at each point of the coroutine.
Control ==
  /\ pc \in {"launch", "wait", "cancelRest", "cancelStage", "stageDone", "returned"} => judging = {}
  /\ pc \in {"cancelRest", "cancelStage", "stageDone", "returned"} => running = {}
  /\ pc \in {"stageDone", "returned"} => pending = <<>>
  /\ pc = "returned" => Later(stage) = {}
  /\ pc = "raised" => \A r \in running : outcome[r] # NoResult
  /\ \A r \in judging : outcome[r] # NoResult

\* A gate that is closed stays closed; behind an open one all is completed.
Gated ==
  /\ blocked =>
       /\ pc \in {"cancelStage", "stageDone", "returned", "unwind", "raised"}
       /\ running = {} /\ judging = {}
       /\ \A r \in StageRuns(stage) : results[r].status \in {"none", "cancelled"}
  /\ ~blocked /\ join \in {"all_success", "fail_fast"} =>
       \A q \in Runs : StageOf[q] < stage => results[q].status = "completed"

\* While the stage is executed its stop is known before it is acted upon.
StopKnown ==
  /\ pc \in {"launch", "wait", "judge"} /\ ~stop =>
       \A q \in StageRuns(stage) \cap Recorded : ~stop_reason(join, results[q])
  /\ pc = "judge" /\ ~roundStops =>
       ~stop /\ \A q \in judging : ~stop_reason(join, outcome[q])

\* Behind a run that is retried only retried runs wait.
RetriesLast ==
  \A i, j \in DOMAIN pending :
    i < j /\ attempt[pending[i]] > 1 => attempt[pending[j]] > 1

\* EveryRunInOnePlace, for the queue and for the runs of the stage.
Distinct ==
  \A i, j \in DOMAIN pending : pending[i] = pending[j] => i = j
OnePlace ==
  \A r \in StageRuns(stage) :
    /\ r \in Waiting \cup running \cup judging \cup Recorded
    /\ r \in Waiting => r \notin running \cup judging \cup Recorded
    /\ r \in running => r \notin judging \cup Recorded
    /\ r \in judging => r \notin Recorded

IInv ==
  /\ TypeOK /\ Distinct /\ OnePlace /\ SlotsHonoured /\ StagesInOrder
  /\ StageOnly /\ Control /\ Gated /\ StopKnown /\ RetriesLast

-----------------------------------------------------------------------------
(* What the operators return *)

LEMMA FirstIsLeast ==
  ASSUME NEW S, S \subseteq Nat, S # {}
  PROVE  First(S) \in S /\ \A t \in S : First(S) <= t
<1> DEFINE Below == {p \in Nat \X Nat : p[1] < p[2]}
<1>1. IsWellFoundedOn(Below, Nat)
  BY NatLessThanWellFounded, Zenon DEF OpToRel
<1>2. PICK x \in S : \A y \in S : ~(<<y, x>> \in Below)
  <2> HIDE DEF Below
  <2> QED BY <1>1, WFMin, Zenon
<1>3. \A y \in S : x <= y
  <2> SUFFICES ASSUME NEW y \in S PROVE x <= y
    OBVIOUS
  <2>1. x \in Nat /\ y \in Nat
    OBVIOUS
  <2>2. y < x => <<y, x>> \in Below
    BY <2>1
  <2> QED BY <1>2, <2>1, <2>2
<1>4. \E s \in S : \A t \in S : s <= t
  BY <1>3
<1> QED BY <1>4, Zenon DEF First

LEMMA StagesAreNumbers ==
  /\ Stages \subseteq Nat /\ Stages # {}
  /\ \A r \in Runs : StageOf[r] \in Stages
<1>1. StageOf \in [Runs -> Nat] /\ Runs # {}
  BY SchedulerAssumption
<1>2. \A r \in Runs : StageOf[r] \in Nat
  BY <1>1
<1> QED BY <1>1, <1>2, Zenon DEF Stages

LEMMA FiniteRuns ==
  ASSUME NEW S, S \subseteq Runs
  PROVE  IsFiniteSet(S) /\ Cardinality(S) \in Nat
BY SchedulerAssumption, FS_Subset, FS_CardinalityType

\* The queue of a stage has each of its runs once.
LEMMA QueueOfStage ==
  ASSUME NEW s \in Stages
  PROVE  /\ StageQueue(s) \in Seq(Runs)
         /\ \A i, j \in DOMAIN StageQueue(s) : StageQueue(s)[i] = StageQueue(s)[j] => i = j
         /\ \A r \in Runs : (\E i \in DOMAIN StageQueue(s) : StageQueue(s)[i] = r) <=> StageOf[r] = s
<1> DEFINE S == StageRuns(s)
           n == Cardinality(S)
           f == [r \in S |-> Rank(S, r)]
           upto(r) == {q \in S : q <= r}
<1>1. S \subseteq Runs /\ IsFiniteSet(S) /\ n \in Nat /\ S \subseteq Nat
  BY FiniteRuns, SchedulerAssumption DEF StageRuns
<1>2. \A r \in S : upto(r) \subseteq S /\ r \in upto(r)
  BY <1>1
<1>3. \A r \in S : Rank(S, r) \in 1..n
  <2> SUFFICES ASSUME NEW r \in S PROVE Cardinality(upto(r)) \in 1..n
    BY DEF Rank
  <2> HIDE DEF S
  <2>1. upto(r) \in SUBSET S /\ upto(r) # {}
    BY <1>2
  <2> HIDE DEF upto
  <2>2. IsFiniteSet(upto(r)) /\ Cardinality(upto(r)) <= n
    BY <1>1, <2>1, FS_Subset
  <2>3. Cardinality(upto(r)) \in Nat /\ Cardinality(upto(r)) # 0
    BY <2>1, <2>2, FS_CardinalityType, FS_EmptySet
  <2> QED BY <1>1, <2>2, <2>3
<1>4. \A r, q \in S : Rank(S, r) = Rank(S, q) => r = q
  <2>1. ASSUME NEW r \in S, NEW q \in S, r < q PROVE Rank(S, r) # Rank(S, q)
    <3> HIDE DEF S
    <3>0. r \in Nat /\ q \in Nat
      BY <1>1
    <3>a. ASSUME NEW x \in upto(r) PROVE x \in upto(q)
      <4>1. x \in S /\ x \in Nat /\ x <= r
        BY <1>1
      <4> QED BY <2>1, <3>0, <4>1
    <3>b. q \in upto(q) /\ q \notin upto(r)
      BY <2>1, <3>0
    <3>1. upto(r) \in SUBSET upto(q) /\ q \in upto(q) /\ q \notin upto(r)
      BY <3>a, <3>b
    <3>2. IsFiniteSet(upto(q))
      BY <1>1, <1>2, FS_Subset
    <3> HIDE DEF upto
    <3>3. Cardinality(upto(r)) # Cardinality(upto(q))
      BY <3>1, <3>2, FS_Subset
    <3> QED BY <3>3, Zenon DEF Rank, upto
  <2> QED BY <1>1, <2>1
<1>5. f \in Injection(S, 1..n)
  <2> HIDE DEF S, n
  <2> QED BY <1>3, <1>4 DEF Injection, IsInjective
<1>6. IsFiniteSet(1..n) /\ Cardinality(1..n) = n
  <2> HIDE DEF n
  <2> QED BY <1>1, FS_Interval
<1>7. f \in Surjection(S, 1..n)
  <2> HIDE DEF f, S
  <2> QED BY <1>1, <1>5, <1>6, FS_Injection
<1>8. \A i \in 1..n : \E r \in S : Rank(S, r) = i
  <2> HIDE DEF S, n
  <2> QED BY <1>7 DEF Surjection
<1> DEFINE pick(i) == CHOOSE r \in S : Rank(S, r) = i
<1>9. \A i \in 1..n : pick(i) \in S /\ Rank(S, pick(i)) = i
  <2> HIDE DEF S, n
  <2> QED BY <1>8, Zenon
<1>10. StageQueue(s) = [i \in 1..n |-> pick(i)]
  BY DEF StageQueue
<1> HIDE DEF pick, S, n
<1>11. StageQueue(s) \in [1..n -> Runs] /\ DOMAIN StageQueue(s) = 1..n
       /\ \A i \in 1..n : StageQueue(s)[i] = pick(i)
  BY <1>1, <1>9, <1>10
<1>12. StageQueue(s) \in Seq(Runs)
  BY <1>1, <1>11, SeqDef
<1>13. ASSUME NEW r \in Runs
       PROVE  (\E i \in 1..n : pick(i) = r) <=> r \in S
  <2>1. ASSUME r \in S PROVE \E i \in 1..n : pick(i) = r
    BY <1>3, <1>4, <1>9, <2>1
  <2> QED BY <1>9, <2>1
<1>14. \A r \in Runs : r \in S <=> StageOf[r] = s
  BY DEF S, StageRuns
<1> QED BY <1>9, <1>11, <1>12, <1>13, <1>14

LEMMA PopIs ==
  ASSUME pending \in Seq(Runs), NEW i \in DOMAIN pending
  PROVE  /\ Popped(i) \in Seq(Runs) /\ Len(Popped(i)) = Len(pending) - 1
         /\ \A j \in 1..(Len(pending) - 1) :
              Popped(i)[j] = IF j < i THEN pending[j] ELSE pending[j + 1]
<1> DEFINE S == Runs
           s == pending
<1> HIDE DEF S, s
<1>0. s \in Seq(S) /\ i \in 1..Len(s)
  BY LenProperties DEF S, s
<1> DEFINE a == SubSeq(s, 1, i - 1)
           b == SubSeq(s, i + 1, Len(s))
<1>1. Len(s) \in Nat /\ \A j \in 1..Len(s) : s[j] \in S
  BY <1>0, LenProperties, ElementOfSeq
<1>2. /\ a \in Seq(S) /\ Len(a) = i - 1
      /\ \A j \in 1..(i - 1) : a[j] = s[j]
  <2>1. \A j \in 1..(i - 1) : s[j] \in S
    BY <1>0, <1>1
  <2> QED BY <1>0, <1>1, <2>1, SubSeqProperties
<1>3. /\ b \in Seq(S) /\ Len(b) = Len(s) - i
      /\ \A j \in 1..(Len(s) - i) : b[j] = s[i + j]
  <2>1. \A j \in (i + 1)..Len(s) : s[j] \in S
    BY <1>0, <1>1
  <2> QED BY <1>0, <1>1, <2>1, SubSeqProperties
<1> HIDE DEF a, b
<1>4. /\ a \o b \in Seq(S) /\ Len(a \o b) = Len(s) - 1
      /\ \A j \in 1..(Len(s) - 1) : (a \o b)[j] = IF j <= i - 1 THEN a[j] ELSE b[j - (i - 1)]
  <2>1. /\ a \o b \in Seq(S) /\ Len(a \o b) = Len(a) + Len(b)
        /\ \A j \in 1..(Len(a) + Len(b)) :
             (a \o b)[j] = IF j <= Len(a) THEN a[j] ELSE b[j - Len(a)]
    BY <1>2, <1>3, ConcatProperties, Zenon
  <2>2. Len(a) + Len(b) = Len(s) - 1
    BY <1>0, <1>1, <1>2, <1>3
  <2> QED BY <1>2, <2>1, <2>2, Zenon
<1>5. \A j \in 1..(Len(s) - 1) : (a \o b)[j] = IF j < i THEN s[j] ELSE s[j + 1]
  <2> SUFFICES ASSUME NEW j \in 1..(Len(s) - 1)
               PROVE  (a \o b)[j] = IF j < i THEN s[j] ELSE s[j + 1]
    OBVIOUS
  <2>1. CASE j < i
    BY <1>0, <1>1, <1>2, <1>4, <2>1
  <2>2. CASE j >= i
    <3>1. j - (i - 1) \in 1..(Len(s) - i) /\ i + (j - (i - 1)) = j + 1
      BY <1>0, <1>1, <2>2
    <3>2. b[j - (i - 1)] = s[j + 1]
      BY <1>3, <3>1
    <3>3. ~(j <= i - 1) /\ ~(j < i)
      BY <1>0, <1>1, <2>2
    <3>4. (a \o b)[j] = b[j - (i - 1)]
      BY <1>4, <3>3, Zenon
    <3> QED BY <3>2, <3>3, <3>4, Zenon
  <2>3. i \in Nat /\ j \in Nat
    BY <1>0, <1>1
  <2>4. j < i \/ j >= i
    BY <2>3
  <2> QED BY <2>1, <2>2, <2>4, Zenon
<1> QED BY <1>4, <1>5 DEF a, b, S, s, Popped

-----------------------------------------------------------------------------
(* What the steps do to the queue, the counters and the stages *)

LEMMA QueueTyped ==
  ASSUME TypeOK
  PROVE  /\ Len(pending) \in Nat /\ DOMAIN pending = 1..Len(pending)
         /\ \A i \in DOMAIN pending : pending[i] \in Runs
         /\ Waiting \subseteq Runs /\ (pending = <<>> <=> Waiting = {})
<1>1. pending \in Seq(Runs)
  BY DEF TypeOK
<1>2. Len(pending) \in Nat /\ DOMAIN pending = 1..Len(pending)
  BY <1>1, LenProperties
<1>3. \A i \in DOMAIN pending : pending[i] \in Runs
  BY <1>1, <1>2, ElementOfSeq
<1>4. pending # <<>> => 1 \in DOMAIN pending
  BY <1>1, <1>2, EmptySeq
<1>5. pending = <<>> => DOMAIN pending = {}
  BY <1>2, EmptySeq
<1> QED BY <1>2, <1>3, <1>4, <1>5, Zenon DEF Waiting

\* One run leaves the queue, the others keep their order.
LEMMA Shortened ==
  ASSUME TypeOK, Distinct, RetriesLast, NEW i \in DOMAIN pending,
         pending' \in Seq(Runs), Len(pending') = Len(pending) - 1,
         \A j \in 1..(Len(pending) - 1) :
           pending'[j] = IF j < i THEN pending[j] ELSE pending[j + 1]
  PROVE  /\ Distinct' /\ Waiting' = Waiting \ {pending[i]}
         /\ attempt' = attempt => RetriesLast'
<1>1. Len(pending) \in Nat /\ DOMAIN pending = 1..Len(pending) /\ i \in 1..Len(pending)
  BY QueueTyped
<1>2. DOMAIN pending' = 1..(Len(pending) - 1)
  BY LenProperties
<1> DEFINE old(j) == IF j < i THEN j ELSE j + 1
<1>3. \A j \in DOMAIN pending' : old(j) \in DOMAIN pending \ {i} /\ pending'[j] = pending[old(j)]
  BY <1>1, <1>2
<1>4. \A j, k \in DOMAIN pending' : (old(j) = old(k) => j = k) /\ (j < k => old(j) < old(k))
  BY <1>1, <1>2
<1>5. \A k \in DOMAIN pending \ {i} : \E j \in DOMAIN pending' : old(j) = k
  <2> SUFFICES ASSUME NEW k \in DOMAIN pending \ {i} PROVE \E j \in DOMAIN pending' : old(j) = k
    OBVIOUS
  <2>1. CASE k < i
    BY <1>1, <1>2, <2>1
  <2>2. CASE k > i
    <3>1. k - 1 \in DOMAIN pending' /\ old(k - 1) = k
      BY <1>1, <1>2, <2>2
    <3> QED BY <3>1
  <2> QED BY <1>1, <2>1, <2>2
<1> HIDE DEF old
<1>6. Distinct'
  BY <1>3, <1>4 DEF Distinct
<1>7. Waiting' \subseteq Waiting \ {pending[i]}
  BY <1>3 DEF Distinct, Waiting
<1>8. Waiting \ {pending[i]} \subseteq Waiting'
  <2> SUFFICES ASSUME NEW r \in Waiting, r # pending[i] PROVE r \in Waiting'
    OBVIOUS
  <2>1. PICK k \in DOMAIN pending : pending[k] = r
    BY DEF Waiting
  <2>2. PICK j \in DOMAIN pending' : old(j) = k
    BY <1>5, <2>1
  <2> QED BY <1>3, <2>1, <2>2 DEF Waiting
<1>9. attempt' = attempt => RetriesLast'
  BY <1>3, <1>4 DEF RetriesLast
<1> QED BY <1>6, <1>7, <1>8, <1>9

LEMMA StartTakesSlot ==
  ASSUME TypeOK, SlotsHonoured, NEW r \in Runs \ running, CanLaunch, can_start(r),
         inUse' = [k \in Keys |-> IF k \in run_resource(r) THEN inUse[k] + 1 ELSE inUse[k]],
         running' = running \cup {r}
  PROVE  SlotsHonoured'
<1>1. IsFiniteSet(running) /\ Cardinality(running) \in Nat /\ Concurrency \in Nat
  BY FiniteRuns, SchedulerAssumption DEF TypeOK
<1>2. Cardinality(running') <= Concurrency
  <2>1. Cardinality(running') = Cardinality(running) + 1
    BY <1>1, FS_AddElement
  <2> QED BY <1>1, <2>1 DEF CanLaunch
<1>3. ASSUME NEW k \in Keys
      PROVE  inUse'[k] = Cardinality({q \in running' : k \in run_resource(q)}) /\ inUse'[k] <= Limit[k]
  <2> DEFINE users == {q \in running : k \in run_resource(q)}
             users1 == {q \in running' : k \in run_resource(q)}
  <2>1. inUse[k] = Cardinality(users) /\ inUse[k] <= Limit[k] /\ inUse[k] \in Nat /\ Limit[k] \in Nat
    BY <1>3, SchedulerAssumption DEF SlotsHonoured, TypeOK, Keys
  <2>2. IsFiniteSet(users) /\ r \notin users
    BY FiniteRuns DEF TypeOK
  <2>3. CASE k \in run_resource(r)
    <3>1. users1 = users \cup {r}
      BY <2>3
    <3> HIDE DEF users, users1
    <3>2. Cardinality(users1) = Cardinality(users) + 1
      BY <2>2, <3>1, FS_AddElement
    <3>3. inUse'[k] = inUse[k] + 1 /\ inUse[k] < Limit[k]
      BY <1>3, <2>3 DEF can_start
    <3> QED BY <2>1, <3>2, <3>3 DEF users1
  <2>4. CASE k \notin run_resource(r)
    <3>1. users1 = users
      BY <2>4
    <3>2. inUse'[k] = inUse[k]
      BY <1>3, <2>4
    <3> QED BY <2>1, <3>1, <3>2
  <2> QED BY <2>3, <2>4
<1> QED BY <1>2, <1>3, Zenon DEF SlotsHonoured

LEMMA CollectFreesSlots ==
  ASSUME TypeOK, SlotsHonoured, Collect
  PROVE  SlotsHonoured' /\ inUse' \in [Keys -> Nat]
<1> DEFINE done == {r \in running : outcome[r] # NoResult}
<1>1. running' = running \ done /\ IsFiniteSet(running) /\ done \subseteq running
  BY FiniteRuns DEF Collect, TypeOK
<1>2. Cardinality(running') <= Concurrency
  <2> HIDE DEF done
  <2>1. running' \in SUBSET running
    BY <1>1
  <2>2. Cardinality(running') <= Cardinality(running)
    BY <1>1, <2>1, FS_Subset
  <2>3. Cardinality(running) \in Nat /\ Cardinality(running') \in Nat /\ Concurrency \in Nat
    BY <1>1, <2>1, FiniteRuns, SchedulerAssumption DEF TypeOK
  <2> QED BY <2>2, <2>3 DEF SlotsHonoured
<1>3. ASSUME NEW k \in Keys
      PROVE  /\ inUse'[k] = Cardinality({q \in running' : k \in run_resource(q)})
             /\ inUse'[k] <= Limit[k] /\ inUse'[k] \in Nat
  <2> DEFINE users == {q \in running : k \in run_resource(q)}
             users1 == {q \in running' : k \in run_resource(q)}
             freed == {r \in done : k \in run_resource(r)}
  <2>1. inUse[k] = Cardinality(users) /\ inUse[k] <= Limit[k] /\ Limit[k] \in Nat
    BY <1>3, SchedulerAssumption DEF SlotsHonoured, Keys
  <2>2. users \subseteq Runs /\ users1 \subseteq Runs /\ users1 = users \ freed /\ users \cap freed = freed
    <3>1. running \subseteq Runs
      BY DEF TypeOK
    <3> HIDE DEF done
    <3>2. users \subseteq Runs /\ users1 \subseteq Runs
      BY <1>1, <3>1
    <3>3. users1 = users \ freed /\ users \cap freed = freed
      BY <1>1
    <3> QED BY <3>2, <3>3
  <2>3. inUse'[k] = IF Cardinality(freed) <= inUse[k] THEN inUse[k] - Cardinality(freed) ELSE 0
    BY <1>3 DEF Collect
  <2> HIDE DEF users, users1, freed
  <2>4. IsFiniteSet(users) /\ Cardinality(users1) \in Nat /\ Cardinality(users) \in Nat
    BY <2>2, FiniteRuns
  <2>5. Cardinality(users1) = Cardinality(users) - Cardinality(freed)
    <3>1. Cardinality(users \ freed) = Cardinality(users) - Cardinality(users \cap freed)
      BY <2>4, FS_Difference, Zenon
    <3> QED BY <2>2, <3>1, Zenon
  <2>6. Cardinality(freed) \in Nat
    BY <2>2, FiniteRuns
  <2>8. inUse'[k] = Cardinality(users1)
    BY <2>1, <2>3, <2>4, <2>5, <2>6
  <2> QED BY <2>1, <2>4, <2>5, <2>6, <2>8 DEF users1
<1>4. inUse' \in [Keys -> Nat]
  <2>1. inUse' = [k \in Keys |-> inUse'[k]]
    BY DEF Collect
  <2> QED BY <1>3, <2>1
<1> QED BY <1>2, <1>3, <1>4, Zenon DEF SlotsHonoured

LEMMA StartedIsReached ==
  ASSUME TypeOK, StageOnly, NEW r \in Runs, Started(r)
  PROVE  StageOf[r] <= stage /\ StageOf[r] \in Nat /\ stage \in Nat
<1>1. StageOf[r] \in Nat /\ stage \in Nat
  BY SchedulerAssumption, StagesAreNumbers DEF TypeOK
<1>2. CASE r \in running \cup judging
  BY <1>1, <1>2 DEF StageOnly
<1>3. CASE results[r].status \notin {"none", "cancelled"}
  <2>1. r \in Recorded
    BY <1>3 DEF Recorded, NoResult
  <2> QED BY <1>1, <2>1 DEF StageOnly
<1> QED BY <1>1, <1>2, <1>3 DEF Started

\* A step that starts nothing and records results of the stage only.
LEMMA OrderKept ==
  ASSUME TypeOK, StageOnly, StagesInOrder, join' = join,
         \A r \in Runs : Started(r)' => Started(r),
         \A q \in Runs : StageOf[q] # stage => results'[q] = results[q]
  PROVE  StagesInOrder'
<1> SUFFICES ASSUME NEW r \in Runs, NEW q \in Runs, Started(r)', StageOf[q] < StageOf[r]
             PROVE  /\ results'[q] # NoResult
                    /\ join' \in {"all_success", "fail_fast"} => results'[q].status = "completed"
  BY DEF StagesInOrder
<1>1. Started(r) /\ StageOf[q] \in Nat
  BY SchedulerAssumption
<1>2. StageOf[q] # stage
  BY <1>1, StartedIsReached
<1> QED BY <1>1, <1>2 DEF StagesInOrder

-----------------------------------------------------------------------------
(* Every step keeps the invariant *)

\* Where the runs are, and what was started before.
Places == Distinct /\ OnePlace /\ StageOnly /\ RetriesLast /\ StagesInOrder

LEMMA InitHolds == Init => IInv
<1> SUFFICES ASSUME Init PROVE IInv
  OBVIOUS
<1>1. stage \in Stages /\ \A t \in Stages : stage <= t
  BY StagesAreNumbers, FirstIsLeast DEF Init
<1>2. pending \in Seq(Runs) /\ Distinct /\ \A r \in Runs : r \in Waiting <=> StageOf[r] = stage
  BY <1>1, QueueOfStage DEF Init, Distinct, Waiting
<1>3. Recorded = {} /\ running = {} /\ judging = {}
  BY DEF Init, Recorded
<1>4. TypeOK
  <2>1. attempt \in [Runs -> 1..MaxAttempts] /\ join \in JoinStrategies
    BY SchedulerAssumption DEF Init
  <2>2. inUse \in [Keys -> Nat] /\ raising = "none" /\ pc = "launch"
    BY DEF Init
  <2>3. outcome \in [Runs -> Result \cup {NoResult}] /\ results \in [Runs -> Result \cup {NoResult}]
    BY DEF Init
  <2>4. ~blocked /\ ~roundStops /\ ~stop /\ {blocked, roundStops, stop} \subseteq BOOLEAN
    BY Zenon DEF Init
  <2> QED BY <1>1, <1>2, <1>3, <2>1, <2>2, <2>3, <2>4 DEF TypeOK
<1>5. OnePlace
  BY <1>2, <1>3 DEF OnePlace, StageRuns
<1>6. StageOnly
  <2>1. \A r \in Runs : StageOf[r] >= stage /\ StageOf[r] \in Nat /\ stage \in Nat /\ attempt[r] = 1
    BY <1>1, StagesAreNumbers DEF Init
  <2>2. Waiting \subseteq Runs
    BY <1>4, QueueTyped
  <2> QED BY <1>2, <1>3, <2>1 DEF StageOnly
<1>7. SlotsHonoured
  <2>1. Cardinality(running) = 0 /\ \A k \in Keys : {r \in running : k \in run_resource(r)} = {}
    BY <1>3, FS_EmptySet
  <2>2. \A k \in Keys : inUse[k] = 0 /\ Limit[k] \in Nat
    BY SchedulerAssumption DEF Init, Keys
  <2>3. \A k \in Keys : Cardinality({r \in running : k \in run_resource(r)}) = 0
    BY <2>1, FS_EmptySet, Zenon
  <2> QED BY <2>1, <2>2, <2>3, SchedulerAssumption DEF SlotsHonoured
<1>8. \A r \in Runs : ~Started(r) /\ results[r] = NoResult /\ attempt[r] = 1
  BY <1>3 DEF Init, Started, NoResult
<1>9. StagesInOrder
  BY <1>8 DEF StagesInOrder
<1>10. RetriesLast
  BY <1>4, <1>8, QueueTyped DEF RetriesLast
<1>11. Control /\ StopKnown
  BY <1>3 DEF Control, StopKnown, Init
<1>12. Gated
  BY <1>6, <1>3, <1>8 DEF Gated, Init, StageOnly
<1> QED BY <1>2, <1>4, <1>5, <1>6, <1>7, <1>9, <1>10, <1>11, <1>12 DEF IInv

LEMMA Quiet ==
  ASSUME IInv,
         UNCHANGED <<join, stage, blocked, pending, running, outcome, judging, roundStops, stop,
                     inUse, attempt, results>>,
         pc' \in {"wait", "cancelRest", "stageDone", "unwind", "returned", "raised"},
         raising' \in {"none", "error", "cancelled"}
  PROVE  (TypeOK /\ Places /\ SlotsHonoured)'
<1>1. TypeOK'
  BY DEF IInv, TypeOK
<1>2. Waiting' = Waiting /\ Recorded' = Recorded
  BY DEF Waiting, Recorded
<1>3. \A r \in Runs : Started(r)' <=> Started(r)
  BY DEF Started
<1>4. SlotsHonoured'
  BY DEF IInv, SlotsHonoured
<1>5. Distinct' /\ RetriesLast'
  BY DEF IInv, Distinct, RetriesLast
<1>6. OnePlace' /\ StageOnly'
  BY <1>2 DEF IInv, OnePlace, StageOnly
<1>7. StagesInOrder'
  BY <1>3, Zenon DEF IInv, StagesInOrder
<1> QED BY <1>1, <1>4, <1>5, <1>6, <1>7 DEF Places

LEMMA InterruptHolds ==
  ASSUME IInv, Unwind("error") \/ Unwind("cancelled")
  PROVE  IInv'
<1>1. (TypeOK /\ Places /\ SlotsHonoured)'
  BY Quiet DEF Unwind
<1>2. Control' /\ Gated' /\ StopKnown'
  BY DEF Unwind, IInv, Control, Gated, StopKnown
<1> QED BY <1>1, <1>2 DEF IInv, Places

LEMMA EndsHold ==
  ASSUME IInv, CancelledAll \/ Return \/ Unwound
  PROVE  IInv'
<1>1. (TypeOK /\ Places /\ SlotsHonoured)'
  BY Quiet DEF CancelledAll, Return, Unwound, IInv, TypeOK
<1>2. CASE CancelledAll
  BY <1>1, <1>2 DEF CancelledAll, IInv, Places, Control, Gated, StopKnown
<1>3. CASE Return
  BY <1>1, <1>3 DEF Return, IInv, Places, Control, Gated, StopKnown
<1>4. CASE Unwound
  BY <1>1, <1>4 DEF Unwound, IInv, Places, Control, Gated, StopKnown
<1> QED BY <1>2, <1>3, <1>4

\* With nothing running every resource is free, so nothing waits.
LEMMA WaitHolds ==
  ASSUME IInv, Wait
  PROVE  IInv'
<1>1. (TypeOK /\ Places /\ SlotsHonoured)'
  BY Quiet DEF Wait, IInv, TypeOK
<1>2. ~blocked /\ judging = {} /\ TypeOK /\ SlotsHonoured /\ pc = "launch"
  BY DEF Wait, IInv, Control, Gated
<1>3. ASSUME running = {}, ~stop PROVE pending = <<>>
  <2>1. Cardinality(running) < Concurrency
    BY <1>3, FS_EmptySet, SchedulerAssumption
  <2>2. \A k \in Keys : inUse[k] = 0
    <3> SUFFICES ASSUME NEW k \in Keys PROVE inUse[k] = 0
      OBVIOUS
    <3>1. {r \in running : k \in run_resource(r)} = {}
      BY <1>3
    <3>2. inUse[k] = Cardinality({r \in running : k \in run_resource(r)})
      BY <1>2 DEF SlotsHonoured
    <3> QED BY <3>1, <3>2, FS_EmptySet
  <2>3. \A k \in Keys : Limit[k] \in Nat \ {0}
    BY SchedulerAssumption DEF Keys
  <2>4. \A r \in Runs : can_start(r)
    BY <2>2, <2>3 DEF can_start, run_resource
  <2>5. ~\E i \in DOMAIN pending : can_start(pending[i])
    BY <1>3, <2>1 DEF Wait, CanLaunch
  <2>6. Waiting = {}
    BY <1>2, <2>4, <2>5, QueueTyped DEF Waiting
  <2> QED BY <1>2, <2>6, QueueTyped
<1>4. /\ pc' = IF running # {} THEN "wait" ELSE IF stop THEN "cancelRest" ELSE "stageDone"
      /\ UNCHANGED <<join, stage, blocked, pending, running, outcome, judging, roundStops, stop, results>>
  BY DEF Wait
<1>5. Control'
  BY <1>2, <1>3, <1>4 DEF Control
<1>6. Gated'
  BY <1>2, <1>4 DEF IInv, Gated
<1>7. StopKnown'
  <2>1. Recorded' = Recorded
    BY <1>4 DEF Recorded
  <2> QED BY <1>2, <1>4, <2>1 DEF IInv, StopKnown
<1> QED BY <1>1, <1>5, <1>6, <1>7 DEF IInv, Places

LEMMA StartNextHolds ==
  ASSUME IInv, StartNext
  PROVE  IInv'
<1> DEFINE able == {j \in DOMAIN pending : can_start(pending[j])}
<1>0. /\ TypeOK /\ Distinct /\ OnePlace /\ SlotsHonoured /\ StagesInOrder
      /\ StageOnly /\ Control /\ Gated /\ StopKnown /\ RetriesLast
  BY DEF IInv
<1>q. Len(pending) \in Nat /\ DOMAIN pending = 1..Len(pending) /\ pending \in Seq(Runs)
      /\ \A j \in DOMAIN pending : pending[j] \in Runs
  BY <1>0, QueueTyped DEF TypeOK
<1>1. PICK i \in DOMAIN pending : i = First(able) /\ can_start(pending[i])
  <2>1. able \subseteq Nat /\ able # {}
    BY <1>q DEF StartNext, CanLaunch
  <2>2. First(able) \in able
    BY <2>1, FirstIsLeast
  <2> QED BY <2>2
<1>2. PICK r \in Runs : r = pending[i]
  BY <1>q
<1>3. /\ pending' = Popped(i)
      /\ inUse' = [k \in Keys |-> IF k \in run_resource(r) THEN inUse[k] + 1 ELSE inUse[k]]
      /\ running' = running \cup {r}
      /\ outcome' = [outcome EXCEPT ![r] = NoResult]
      /\ pc = "launch" /\ CanLaunch
      /\ UNCHANGED <<join, pc, stage, blocked, judging, roundStops, stop, attempt, results, raising>>
  BY <1>1, <1>2 DEF StartNext
<1>4. r \in Waiting /\ StageOf[r] = stage /\ r \notin running /\ judging = {} /\ ~blocked /\ r \notin Recorded
  <2>1. r \in Waiting
    BY <1>2 DEF Waiting
  <2>2. StageOf[r] = stage
    BY <1>0, <2>1 DEF StageOnly
  <2> QED BY <1>0, <1>3, <2>1, <2>2 DEF OnePlace, StageRuns, Control, Gated
<1>5. /\ pending' \in Seq(Runs) /\ Len(pending') = Len(pending) - 1
      /\ \A j \in 1..(Len(pending) - 1) :
           pending'[j] = IF j < i THEN pending[j] ELSE pending[j + 1]
  BY <1>q, <1>3, PopIs
<1>6. Distinct' /\ Waiting' = Waiting \ {r} /\ RetriesLast'
  BY <1>0, <1>2, <1>3, <1>5, Shortened
<1>7. SlotsHonoured'
  BY <1>0, <1>1, <1>2, <1>3, <1>4, StartTakesSlot
<1>8. TypeOK'
  <2>1. inUse' \in [Keys -> Nat]
    BY <1>0, <1>3 DEF TypeOK
  <2> QED BY <1>0, <1>3, <1>5, <2>1 DEF TypeOK
<1>9. Recorded' = Recorded
  BY <1>3 DEF Recorded
<1>10. OnePlace' /\ StageOnly'
  BY <1>0, <1>3, <1>4, <1>6, <1>9 DEF OnePlace, StageOnly, StageRuns
<1>11. StagesInOrder'
  <2> SUFFICES ASSUME NEW x \in Runs, NEW q \in Runs, Started(x)', StageOf[q] < StageOf[x]
               PROVE  /\ results'[q] # NoResult
                      /\ join' \in {"all_success", "fail_fast"} => results'[q].status = "completed"
    BY DEF StagesInOrder
  <2>1. CASE x = r
    <3>1. q \in Recorded
      BY <1>0, <1>4, <2>1 DEF StageOnly
    <3> QED BY <1>0, <1>3, <1>4, <2>1, <3>1 DEF Recorded, Gated
  <2>2. CASE x # r
    <3>1. Started(x)
      BY <1>3, <2>2 DEF Started
    <3> QED BY <1>0, <1>3, <3>1 DEF StagesInOrder
  <2> QED BY <2>1, <2>2
<1>12. Control' /\ Gated' /\ StopKnown'
  BY <1>0, <1>3, <1>4, <1>9 DEF Control, Gated, StopKnown
<1> QED BY <1>6, <1>7, <1>8, <1>10, <1>11, <1>12 DEF IInv

LEMMA TaskFinishesHolds ==
  ASSUME IInv, NEW r \in Runs, NEW res \in Outcomes, TaskFinishes(r, res)
  PROVE  IInv'
<1>0. /\ TypeOK /\ Distinct /\ OnePlace /\ SlotsHonoured /\ StagesInOrder
      /\ StageOnly /\ Control /\ Gated /\ StopKnown /\ RetriesLast
  BY DEF IInv
<1>1. /\ pc \in {"wait", "judge", "unwind"} /\ r \in running
      /\ outcome' = [outcome EXCEPT ![r] = res]
      /\ UNCHANGED <<join, pc, stage, blocked, pending, running, judging, roundStops, stop, inUse,
                     attempt, results, raising>>
  BY DEF TaskFinishes
<1>2. res \in Result
  BY SchedulerAssumption DEF TerminalResults, Result, TerminalRun, RetryableRun, AbsorbingRun, ErrorClass
<1>3. r \notin judging
  BY <1>0, <1>1 DEF OnePlace, StageOnly, StageRuns
<1>4. TypeOK'
  BY <1>0, <1>1, <1>2 DEF TypeOK
<1>5. Waiting' = Waiting /\ Recorded' = Recorded /\ \A q \in Runs : Started(q)' <=> Started(q)
  BY <1>1 DEF Waiting, Recorded, Started
<1>6. SlotsHonoured' /\ Distinct' /\ RetriesLast'
  BY <1>0, <1>1 DEF SlotsHonoured, Distinct, RetriesLast
<1>7. OnePlace' /\ StageOnly'
  BY <1>0, <1>1, <1>5 DEF OnePlace, StageOnly
<1>8. StagesInOrder'
  BY <1>0, <1>1, <1>5, Zenon DEF StagesInOrder
<1>9. \A q \in judging : outcome'[q] = outcome[q] /\ q \in Runs
  BY <1>0, <1>1, <1>3 DEF TypeOK
<1>10. Control' /\ Gated' /\ StopKnown'
  BY <1>0, <1>1, <1>5, <1>9 DEF Control, Gated, StopKnown
<1> QED BY <1>4, <1>6, <1>7, <1>8, <1>10 DEF IInv

LEMMA CollectHolds ==
  ASSUME IInv, Collect
  PROVE  IInv'
<1> DEFINE done == {r \in running : outcome[r] # NoResult}
<1>0. /\ TypeOK /\ Distinct /\ OnePlace /\ SlotsHonoured /\ StagesInOrder
      /\ StageOnly /\ Control /\ Gated /\ StopKnown /\ RetriesLast
  BY DEF IInv
<1>1. /\ pc = "wait" /\ pc' = "judge" /\ running' = running \ done /\ judging' = done
      /\ roundStops' = (stop \/ \E r \in done : stop_reason(join, outcome[r]))
      /\ UNCHANGED <<join, stage, blocked, pending, outcome, stop, attempt, results, raising>>
  BY DEF Collect
<1>2. judging = {} /\ ~blocked
  BY <1>0, <1>1 DEF Control, Gated
<1>3. SlotsHonoured' /\ inUse' \in [Keys -> Nat]
  BY <1>0, CollectFreesSlots
<1>4. TypeOK'
  <2>1. roundStops' \in BOOLEAN
    BY <1>1, Zenon
  <2> QED BY <1>0, <1>1, <1>3, <2>1 DEF TypeOK
<1>5. Waiting' = Waiting /\ Recorded' = Recorded /\ \A q \in Runs : Started(q)' => Started(q)
  BY <1>1 DEF Waiting, Recorded, Started
<1>6. Distinct' /\ RetriesLast'
  BY <1>0, <1>1 DEF Distinct, RetriesLast
<1>7. OnePlace' /\ StageOnly'
  BY <1>0, <1>1, <1>2, <1>5 DEF OnePlace, StageOnly
<1>8. StagesInOrder'
  BY <1>0, <1>1, <1>5, OrderKept
<1>9. Control' /\ Gated'
  BY <1>0, <1>1, <1>2 DEF Control, Gated
<1>10. StopKnown'
  <2>1. ~roundStops' => ~stop' /\ \A q \in judging' : ~stop_reason(join', outcome'[q])
    BY <1>1, Zenon
  <2> QED BY <1>0, <1>1, <1>5, <2>1 DEF StopKnown
<1> QED BY <1>3, <1>4, <1>6, <1>7, <1>8, <1>9, <1>10 DEF IInv

LEMMA RecordHolds ==
  ASSUME IInv, NEW r \in judging, pc = "judge", Record(r)
  PROVE  IInv'
<1>0. /\ TypeOK /\ Distinct /\ OnePlace /\ SlotsHonoured /\ StagesInOrder
      /\ StageOnly /\ Control /\ Gated /\ StopKnown /\ RetriesLast
  BY DEF IInv
<1>1. /\ results' = [results EXCEPT ![r] = outcome[r]]
      /\ stop' = (stop \/ stop_reason(join, outcome[r]))
      /\ judging' = judging \ {r} /\ pc' = (IF judging = {r} THEN "launch" ELSE "judge")
      /\ UNCHANGED <<join, stage, blocked, pending, running, outcome, roundStops, inUse, attempt, raising>>
  BY DEF Record, Judged
<1>2. r \in Runs /\ StageOf[r] = stage /\ outcome[r] # NoResult /\ ~blocked
      /\ outcome[r] \in Result \cup {NoResult}
  BY <1>0 DEF TypeOK, StageOnly, Control, Gated
<1>3. TypeOK'
  <2>1. stop' \in BOOLEAN
    BY <1>1, Zenon
  <2> QED BY <1>0, <1>1, <1>2, <2>1 DEF TypeOK
<1>4. Waiting' = Waiting /\ Recorded' = Recorded \cup {r} /\ \A q \in Runs : Started(q)' => Started(q)
  BY <1>0, <1>1, <1>2 DEF Waiting, Recorded, Started, TypeOK
<1>5. SlotsHonoured' /\ Distinct' /\ RetriesLast'
  BY <1>0, <1>1 DEF SlotsHonoured, Distinct, RetriesLast
<1>o. OnePlace'
  BY <1>0, <1>1, <1>2, <1>4 DEF OnePlace, StageRuns
<1>6. OnePlace' /\ StageOnly'
  <2>1. stage \in Nat
    BY <1>0, StagesAreNumbers DEF TypeOK
  <2> QED BY <1>0, <1>1, <1>2, <1>4, <1>o, <2>1 DEF StageOnly
<1>7. StagesInOrder'
  <2>1. \A q \in Runs : StageOf[q] # stage => results'[q] = results[q]
    BY <1>0, <1>1, <1>2 DEF TypeOK
  <2> QED BY <1>0, <1>1, <1>4, <2>1, OrderKept
<1>8. Control'
  BY <1>0, <1>1 DEF Control
<1>9. Gated'
  <2>1. \A q \in Runs : StageOf[q] < stage => results'[q] = results[q]
    BY <1>0, <1>1, <1>2, StagesAreNumbers DEF TypeOK
  <2> QED BY <1>0, <1>1, <1>2, <2>1 DEF Gated
<1>10. StopKnown'
  <2>1. ASSUME ~stop', NEW q \in StageRuns(stage) \cap Recorded' PROVE ~stop_reason(join', results'[q])
    <3>1. ~stop /\ ~stop_reason(join, outcome[r])
      BY <1>1, <2>1
    <3>2. CASE q = r
      BY <1>0, <1>1, <1>2, <3>1, <3>2 DEF TypeOK
    <3>3. CASE q # r
      <4>1. results'[q] = results[q] /\ q \in StageRuns(stage) \cap Recorded
        BY <1>0, <1>1, <1>4, <2>1, <3>3 DEF TypeOK, StageRuns
      <4> QED BY <1>0, <1>1, <3>1, <4>1 DEF StopKnown
    <3> QED BY <3>2, <3>3
  <2>2. ASSUME ~roundStops PROVE ~stop' /\ \A q \in judging' : ~stop_reason(join', outcome'[q])
    BY <1>0, <1>1, <2>2 DEF StopKnown
  <2> QED BY <1>1, <2>1, <2>2 DEF StopKnown
<1> QED BY <1>3, <1>5, <1>6, <1>7, <1>8, <1>9, <1>10 DEF IInv

LEMMA RetryReopenedHolds ==
  ASSUME IInv, NEW r \in Runs, RetryReopened(r)
  PROVE  IInv'
<1>0. /\ TypeOK /\ Distinct /\ OnePlace /\ SlotsHonoured /\ StagesInOrder
      /\ StageOnly /\ Control /\ Gated /\ StopKnown /\ RetriesLast
  BY DEF IInv
<1>q. Len(pending) \in Nat /\ DOMAIN pending = 1..Len(pending) /\ pending \in Seq(Runs)
      /\ \A j \in DOMAIN pending : pending[j] \in Runs
  BY <1>0, QueueTyped DEF TypeOK
<1>1. /\ pc = "judge" /\ r \in judging /\ RetryDecided(r)
      /\ pending' = Append(pending, r) /\ attempt' = [attempt EXCEPT ![r] = @ + 1]
      /\ judging' = judging \ {r} /\ pc' = (IF judging = {r} THEN "launch" ELSE "judge")
      /\ UNCHANGED <<join, stage, blocked, running, outcome, roundStops, stop, inUse, results, raising>>
  BY DEF RetryReopened, Judged, Requeued, NextAttempt
<1>2. StageOf[r] = stage /\ ~blocked /\ r \notin Waiting /\ r \notin running /\ r \notin Recorded
  BY <1>0, <1>1 DEF StageOnly, Gated, OnePlace, StageRuns
<1>3. attempt[r] \in Nat /\ attempt[r] >= 1 /\ attempt[r] < MaxAttempts /\ MaxAttempts \in Nat
  BY <1>0, <1>1, SchedulerAssumption DEF TypeOK, RetryDecided, should_retry
<1>4. /\ pending' \in Seq(Runs) /\ Len(pending') = Len(pending) + 1
      /\ DOMAIN pending' = 1..(Len(pending) + 1)
      /\ \A j \in 1..Len(pending) : pending'[j] = pending[j]
      /\ pending'[Len(pending) + 1] = r
  BY <1>q, <1>1, AppendProperties
<1>5. TypeOK'
  <2>1. attempt' \in [Runs -> 1..MaxAttempts]
    BY <1>0, <1>1, <1>3 DEF TypeOK
  <2> QED BY <1>0, <1>1, <1>4, <2>1 DEF TypeOK
<1>6. \A j \in DOMAIN pending : pending[j] # r
  BY <1>2 DEF Waiting
<1>7. Distinct'
  <2> SUFFICES ASSUME NEW i \in DOMAIN pending', NEW j \in DOMAIN pending', pending'[i] = pending'[j]
               PROVE  i = j
    BY DEF Distinct
  <2>1. \A k \in DOMAIN pending' : k \in DOMAIN pending \/ k = Len(pending) + 1
    BY <1>q, <1>4
  <2> QED BY <1>0, <1>q, <1>4, <1>6, <2>1 DEF Distinct
<1>8. Waiting' = Waiting \cup {r}
  <2>1. Waiting' \subseteq Waiting \cup {r}
    BY <1>q, <1>4 DEF Waiting
  <2>2. Waiting \subseteq Waiting'
    BY <1>q, <1>4 DEF Waiting
  <2>3. r \in Waiting'
    BY <1>q, <1>4 DEF Waiting
  <2> QED BY <2>1, <2>2, <2>3
<1>9. RetriesLast'
  <2> SUFFICES ASSUME NEW i \in DOMAIN pending', NEW j \in DOMAIN pending',
                      i < j, attempt'[pending'[i]] > 1
               PROVE  attempt'[pending'[j]] > 1
    BY DEF RetriesLast
  <2>1. CASE j = Len(pending) + 1
    <3>1. attempt'[r] = attempt[r] + 1
      BY <1>0, <1>1 DEF TypeOK
    <3> QED BY <1>3, <1>4, <2>1, <3>1
  <2>2. CASE j # Len(pending) + 1
    <3>0. i \in 1..(Len(pending) + 1) /\ j \in 1..(Len(pending) + 1) /\ i < j
      BY <1>4
    <3>1. i \in DOMAIN pending /\ j \in DOMAIN pending
      BY <1>q, <2>2, <3>0
    <3>2. pending'[i] = pending[i] /\ pending'[j] = pending[j]
      BY <1>q, <1>4, <3>1
    <3>3. attempt'[pending[i]] = attempt[pending[i]] /\ attempt'[pending[j]] = attempt[pending[j]]
      BY <1>0, <1>q, <1>1, <1>6, <3>1 DEF TypeOK
    <3> QED BY <1>0, <3>1, <3>2, <3>3 DEF RetriesLast
  <2> QED BY <2>1, <2>2
<1>10. Recorded' = Recorded /\ \A q \in Runs : Started(q)' => Started(q)
  BY <1>1 DEF Recorded, Started
<1>11. OnePlace'
  BY <1>0, <1>1, <1>2, <1>8, <1>10 DEF OnePlace
<1>12. StageOnly'
  <2>1. \A q \in Runs : q # r => attempt'[q] = attempt[q]
    BY <1>0, <1>1 DEF TypeOK
  <2>2. ~(StageOf[r] > stage)
    BY <1>0, <1>2, StagesAreNumbers DEF TypeOK
  <2> QED BY <1>0, <1>1, <1>2, <1>8, <1>10, <2>1, <2>2 DEF StageOnly
<1>13. StagesInOrder'
  BY <1>0, <1>1, <1>10, OrderKept
<1>14. SlotsHonoured'
  BY <1>0, <1>1 DEF SlotsHonoured
<1>15. Control' /\ Gated' /\ StopKnown'
  BY <1>0, <1>1, <1>2, <1>10 DEF Control, Gated, StopKnown
<1> QED BY <1>5, <1>7, <1>9, <1>11, <1>12, <1>13, <1>14, <1>15 DEF IInv

LEMMA CancelNextHolds ==
  ASSUME IInv, CancelNext
  PROVE  IInv'
<1>0. /\ TypeOK /\ Distinct /\ OnePlace /\ SlotsHonoured /\ StagesInOrder
      /\ StageOnly /\ Control /\ Gated /\ StopKnown /\ RetriesLast
  BY DEF IInv
<1>q. Len(pending) \in Nat /\ DOMAIN pending = 1..Len(pending) /\ pending \in Seq(Runs) /\ pending # <<>>
  BY <1>0, QueueTyped DEF TypeOK, CancelNext
<1>1. 1 \in DOMAIN pending /\ Head(pending) = pending[1]
  BY <1>q, EmptySeq
<1>2. PICK r \in Runs : r = pending[1]
  BY <1>0, <1>1, QueueTyped
<1>3. /\ pc \in {"cancelRest", "cancelStage"}
      /\ results' = [results EXCEPT ![r] = Cancelled] /\ pending' = Tail(pending)
      /\ UNCHANGED <<join, pc, stage, blocked, running, outcome, judging, roundStops, stop, inUse,
                     attempt, raising>>
  BY <1>1, <1>2 DEF CancelNext
<1>4. /\ pending' \in Seq(Runs) /\ Len(pending') = Len(pending) - 1
      /\ \A j \in 1..(Len(pending) - 1) :
           pending'[j] = IF j < 1 THEN pending[j] ELSE pending[j + 1]
  <2>1. /\ pending' \in Seq(Runs) /\ Len(pending') = Len(pending) - 1
        /\ \A j \in 1..Len(pending') : pending'[j] = pending[j + 1]
    BY <1>q, <1>3, HeadTailProperties
  <2> QED BY <1>q, <2>1
<1>5. Distinct' /\ Waiting' = Waiting \ {r} /\ RetriesLast'
  BY <1>0, <1>1, <1>2, <1>3, <1>4, Shortened
<1>6. r \in Waiting /\ StageOf[r] = stage /\ running = {} /\ judging = {}
  <2>1. r \in Waiting
    BY <1>1, <1>2 DEF Waiting
  <2> QED BY <1>0, <1>3, <2>1 DEF StageOnly, Control
<1>7. Cancelled \in Result /\ Cancelled # NoResult /\ Cancelled.status = "cancelled"
  BY DEF Cancelled, Result, NoResult, TerminalRun, AbsorbingRun, ErrorClass
<1>8. TypeOK'
  BY <1>0, <1>3, <1>4, <1>7 DEF TypeOK
<1>9. /\ results'[r] = Cancelled /\ \A q \in Runs : q # r => results'[q] = results[q]
      /\ Recorded' = Recorded \cup {r}
  BY <1>0, <1>3, <1>7 DEF TypeOK, Recorded
<1>o. OnePlace'
  BY <1>0, <1>3, <1>5, <1>6, <1>9 DEF OnePlace, StageRuns
<1>10. OnePlace' /\ StageOnly'
  <2>1. stage \in Nat
    BY <1>0, StagesAreNumbers DEF TypeOK
  <2> QED BY <1>0, <1>3, <1>5, <1>6, <1>9, <1>o, <2>1 DEF StageOnly
<1>11. StagesInOrder'
  <2>1. \A q \in Runs : Started(q)' => Started(q)
    BY <1>3, <1>6, <1>7, <1>9 DEF Started
  <2> QED BY <1>0, <1>3, <1>6, <1>9, <2>1, OrderKept
<1>12. SlotsHonoured'
  BY <1>0, <1>3 DEF SlotsHonoured
<1>13. Control' /\ StopKnown'
  BY <1>0, <1>3, <1>6 DEF Control, StopKnown
<1>14. Gated'
  <2>0. stage \in Nat
    BY <1>0, StagesAreNumbers DEF TypeOK
  <2>1. \A q \in Runs : StageOf[q] < stage => results'[q] = results[q]
    BY <1>6, <1>9, <2>0
  <2>2. \A q \in StageRuns(stage) : q \in Runs
    BY DEF StageRuns
  <2> QED BY <1>0, <1>3, <1>6, <1>7, <1>9, <2>1, <2>2 DEF Gated
<1> QED BY <1>5, <1>8, <1>10, <1>11, <1>12, <1>13, <1>14 DEF IInv

LEMMA NextStageHolds ==
  ASSUME IInv, NextStage
  PROVE  IInv'
<1> DEFINE gated == blocked \/ stage_gate_blocks(join, {results[r] : r \in StageRuns(stage)})
<1>0. /\ TypeOK /\ Distinct /\ OnePlace /\ SlotsHonoured /\ StagesInOrder
      /\ StageOnly /\ Control /\ Gated /\ StopKnown /\ RetriesLast
  BY DEF IInv
<1>1. /\ pc = "stageDone" /\ Later(stage) # {} /\ stage' = First(Later(stage))
      /\ blocked' = gated /\ pending' = StageQueue(stage') /\ stop' = FALSE
      /\ pc' = IF gated THEN "cancelStage" ELSE "launch"
      /\ UNCHANGED <<join, running, outcome, judging, roundStops, inUse, attempt, results, raising>>
  BY DEF NextStage
<1>2. PICK t \in Stages : t = stage' /\ t > stage /\ \A u \in Later(stage) : t <= u
  <2>1. Later(stage) \subseteq Nat /\ Later(stage) \subseteq Stages
    BY StagesAreNumbers DEF Later
  <2>2. stage' \in Later(stage) /\ \A u \in Later(stage) : stage' <= u
    BY <1>1, <2>1, FirstIsLeast
  <2> QED BY <2>1, <2>2 DEF Later
<1>3. /\ pending' \in Seq(Runs) /\ Distinct'
      /\ \A r \in Runs : r \in Waiting' <=> StageOf[r] = t
  BY <1>1, <1>2, QueueOfStage DEF Distinct, Waiting
<1>4. running = {} /\ judging = {} /\ Waiting = {}
  BY <1>0, <1>1, QueueTyped DEF Control
<1>5. TypeOK'
  <2>1. blocked' \in BOOLEAN /\ stop' \in BOOLEAN
    BY <1>0, <1>1, Zenon DEF TypeOK, stage_gate_blocks
  <2> QED BY <1>0, <1>1, <1>2, <1>3, <2>1 DEF TypeOK
<1>6. Recorded' = Recorded /\ \A q \in Runs : Started(q)' <=> Started(q)
  BY <1>1 DEF Recorded, Started
<1>n. stage \in Nat /\ t \in Nat /\ \A r \in Runs : StageOf[r] \in Nat
  BY <1>0, StagesAreNumbers DEF TypeOK
<1>7. \A r \in Runs : StageOf[r] < t => StageOf[r] <= stage /\ r \in Recorded
  <2> SUFFICES ASSUME NEW r \in Runs, StageOf[r] < t PROVE StageOf[r] <= stage /\ r \in Recorded
    OBVIOUS
  <2>1. StageOf[r] <= stage
    BY <1>2, <1>n, StagesAreNumbers DEF Later
  <2>2. CASE StageOf[r] < stage
    BY <1>0, <2>1, <2>2 DEF StageOnly
  <2>3. CASE StageOf[r] = stage
    BY <1>0, <1>4, <2>1, <2>3 DEF OnePlace, StageRuns
  <2> QED BY <1>n, <2>1, <2>2, <2>3
<1>8. \A r \in Runs : StageOf[r] >= t => StageOf[r] > stage /\ r \notin Recorded /\ attempt[r] = 1
  BY <1>0, <1>2, <1>n DEF StageOnly
<1>9. OnePlace'
  BY <1>1, <1>2, <1>3, <1>4, <1>6, <1>8, <1>n DEF OnePlace, StageRuns
<1>10. StageOnly'
  BY <1>1, <1>2, <1>3, <1>4, <1>6, <1>7, <1>8, <1>n DEF StageOnly
<1>11. RetriesLast'
  <2>1. \A i \in DOMAIN pending' : pending'[i] \in Runs /\ pending'[i] \in Waiting'
    BY <1>3, LenProperties, ElementOfSeq DEF Waiting
  <2>2. \A r \in Runs : StageOf[r] = t => attempt'[r] = 1
    BY <1>1, <1>8, <1>n
  <2>3. \A i \in DOMAIN pending' : attempt'[pending'[i]] = 1
    BY <1>3, <2>1, <2>2
  <2> QED BY <2>3 DEF RetriesLast
<1>12. StagesInOrder'
  BY <1>0, <1>1, <1>6, Zenon DEF StagesInOrder
<1>13. SlotsHonoured'
  BY <1>0, <1>1 DEF SlotsHonoured
<1>14. Control'
  BY <1>1, <1>4 DEF Control
<1>15. Gated'
  <2>1. ASSUME blocked'
        PROVE  /\ pc' \in {"cancelStage", "stageDone", "returned", "unwind", "raised"}
               /\ running' = {} /\ judging' = {}
               /\ \A r \in StageRuns(stage)' : results'[r].status \in {"none", "cancelled"}
    <3>1. \A r \in Runs : StageOf[r] = t => results[r].status = "none"
      BY <1>8, <1>n DEF Recorded, NoResult
    <3> QED BY <1>1, <1>2, <1>4, <2>1, <3>1 DEF StageRuns
  <2>2. ASSUME ~blocked', join \in {"all_success", "fail_fast"}, NEW q \in Runs, StageOf[q] < t
        PROVE  results[q].status = "completed"
    <3>1. ~blocked /\ ~stage_gate_blocks(join, {results[r] : r \in StageRuns(stage)})
      BY <1>1, <2>2
    <3>2. CASE StageOf[q] < stage
      BY <1>0, <2>2, <3>1, <3>2 DEF Gated
    <3>3. CASE StageOf[q] = stage
      <4>1. results[q] \in {results[r] : r \in StageRuns(stage)}
        BY <3>3 DEF StageRuns
      <4> QED BY <2>2, <3>1, <4>1 DEF stage_gate_blocks
    <3> QED BY <1>7, <1>n, <2>2, <3>2, <3>3
  <2> QED BY <1>1, <1>2, <2>1, <2>2 DEF Gated
<1>16. StopKnown'
  <2>1. StageRuns(stage)' \cap Recorded' = {}
    BY <1>2, <1>6, <1>8, <1>n DEF StageRuns
  <2> QED BY <1>1, <2>1 DEF StopKnown
<1> QED BY <1>3, <1>5, <1>9, <1>10, <1>11, <1>12, <1>13, <1>14, <1>15, <1>16 DEF IInv

LEMMA Unmoved ==
  ASSUME IInv, UNCHANGED vars
  PROVE  IInv'
<1>1. UNCHANGED <<join, pc, stage, blocked, pending, running, outcome, judging, roundStops, stop,
                  inUse, attempt, results, raising>>
  BY DEF vars
<1>2. Waiting' = Waiting /\ Recorded' = Recorded /\ \A q \in Runs : Started(q)' <=> Started(q)
  BY <1>1 DEF Waiting, Recorded, Started
<1>3. TypeOK' /\ SlotsHonoured' /\ Distinct' /\ RetriesLast'
  BY <1>1 DEF IInv, TypeOK, SlotsHonoured, Distinct, RetriesLast
<1>4. OnePlace' /\ StageOnly'
  BY <1>1, <1>2 DEF IInv, OnePlace, StageOnly
<1>5. StagesInOrder'
  BY <1>1, <1>2, Zenon DEF IInv, StagesInOrder
<1>6. Control' /\ Gated' /\ StopKnown'
  BY <1>1, <1>2 DEF IInv, Control, Gated, StopKnown
<1> QED BY <1>3, <1>4, <1>5, <1>6 DEF IInv

LEMMA StepPreserves ==
  ASSUME IInv, [Next]_vars
  PROVE  IInv'
<1>1. CASE StartNext
  BY <1>1, StartNextHolds
<1>2. CASE Wait
  BY <1>2, WaitHolds
<1>3. CASE Collect
  BY <1>3, CollectHolds
<1>4. ASSUME NEW r \in Runs, RecordResult(r) \/ RetryRefused(r) PROVE IInv'
  BY <1>4, RecordHolds DEF RecordResult, RetryRefused
<1>5. ASSUME NEW r \in Runs, RetryReopened(r) PROVE IInv'
  BY <1>5, RetryReopenedHolds
<1>6. ASSUME NEW r \in Runs, RetryRaises(r) PROVE IInv'
  BY <1>6, InterruptHolds DEF RetryRaises
<1>7. CASE CancelNext
  BY <1>7, CancelNextHolds
<1>8. CASE CancelRaises \/ Interrupt
  BY <1>8, InterruptHolds DEF CancelRaises, Interrupt
<1>9. CASE CancelledAll \/ Return \/ Unwound
  BY <1>9, EndsHold
<1>10. CASE NextStage
  BY <1>10, NextStageHolds
<1>11. ASSUME NEW r \in Runs, Finishes(r) PROVE IInv'
  BY <1>11, TaskFinishesHolds DEF Finishes
<1>12. CASE UNCHANGED vars
  BY <1>12, Unmoved
<1> QED BY <1>1, <1>2, <1>3, <1>4, <1>5, <1>6, <1>7, <1>8, <1>9, <1>10, <1>11, <1>12
        DEF Next, SchedulerStep

LEMMA AlwaysIInv == Spec => []IInv
<1>1. Init => IInv
  BY InitHolds
<1>2. IInv /\ [Next]_vars => IInv'
  BY StepPreserves
<1> QED BY <1>1, <1>2, PTL DEF Spec

-----------------------------------------------------------------------------
(* What holds of every batch *)

\* The scheduler's and the executor's state keeps its type; in particular no
\* run is ever beyond RetryPolicy.max_attempts.
THEOREM SchedulerTyping == Spec => []TypeOK
<1>1. IInv => TypeOK
  BY DEF IInv
<1> QED BY <1>1, AlwaysIInv, PTL

\* Each run of the current stage is queued once, executing, being judged or
\* recorded, and in one of these places only (BatchScheduler.run).
THEOREM RunsInOnePlace == Spec => []EveryRunInOnePlace
<1>1. IInv => EveryRunInOnePlace
  BY DEF IInv, Distinct, OnePlace, EveryRunInOnePlace
<1> QED BY <1>1, AlwaysIInv, PTL

\* A batch that returns has a result for every run (StagedBatchExecutor.run),
\* whatever was stopped, retried, refused or gated on the way.
THEOREM ReturnsComplete == Spec => []ReturnsEveryResult
<1>1. IInv => ReturnsEveryResult
  <2> SUFFICES ASSUME IInv, pc = "returned", NEW r \in Runs PROVE r \in Recorded
    BY DEF ReturnsEveryResult, Recorded
  <2>1. /\ running = {} /\ judging = {} /\ Waiting = {} /\ Later(stage) = {} /\ TypeOK
    BY QueueTyped DEF IInv, Control
  <2>2. StageOf[r] \in Nat /\ stage \in Nat /\ ~(StageOf[r] > stage)
    BY <2>1, StagesAreNumbers DEF TypeOK, Later
  <2>3. CASE StageOf[r] = stage
    BY <2>1, <2>3 DEF IInv, OnePlace, StageRuns
  <2>4. CASE StageOf[r] < stage
    BY <2>4 DEF IInv, StageOnly
  <2> QED BY <2>2, <2>3, <2>4
<1> QED BY <1>1, AlwaysIInv, PTL

\* resource_in_use counts exactly the runs that hold each resource, no limit
\* and no concurrency is exceeded, whatever the limits are.
THEOREM SlotsAreHonoured == Spec => []SlotsHonoured
<1>1. IInv => SlotsHonoured
  BY DEF IInv
<1> QED BY <1>1, AlwaysIInv, PTL

\* A run starts only behind recorded stages, and under all_success and
\* fail_fast only behind completed ones (_stage_gate_blocks, blocked_by).
THEOREM StagesRunInOrder == Spec => []StagesInOrder
<1>1. IInv => StagesInOrder
  BY DEF IInv
<1> QED BY <1>1, AlwaysIInv, PTL

\* However the coroutine ends, no task it created is still executing
\* (_cancel_and_wait).
THEOREM NoTaskOutlives == Spec => []NoOrphanTask
<1>1. IInv => NoOrphanTask
  BY DEF IInv, Control, NoOrphanTask
<1> QED BY <1>1, AlwaysIInv, PTL

\* Only the launch loop starts a run, and only prepare_retry's success adds
\* an attempt.
LEMMA WhoChangesWhat ==
  ASSUME [Next]_vars
  PROVE  /\ StartNext \/ running' \subseteq running
         /\ (\E r \in Runs : RetryReopened(r)) \/ attempt' = attempt
<1>1. CASE UNCHANGED vars
  BY <1>1 DEF vars
<1>2. CASE SchedulerStep
  <2>1. CASE StartNext \/ Wait \/ Collect
    BY <2>1 DEF StartNext, Wait, Collect
  <2>2. CASE \E r \in Runs : RecordResult(r) \/ RetryReopened(r) \/ RetryRefused(r) \/ RetryRaises(r)
    BY <2>2 DEF RecordResult, RetryReopened, RetryRefused, RetryRaises, Record, Unwind
  <2>3. CASE CancelNext \/ CancelRaises \/ CancelledAll
    BY <2>3 DEF CancelNext, CancelRaises, CancelledAll, Unwind
  <2>4. CASE NextStage \/ Return \/ Unwound
    BY <2>4 DEF NextStage, Return, Unwound
  <2> QED BY <1>2, <2>1, <2>2, <2>3, <2>4 DEF SchedulerStep
<1>3. CASE Interrupt
  BY <1>3 DEF Interrupt, Unwind
<1>4. CASE \E r \in Runs : Finishes(r)
  BY <1>4 DEF Finishes, TaskFinishes
<1> QED BY <1>1, <1>2, <1>3, <1>4 DEF Next

\* The launch loop takes the first run whose resource has room, and a retried
\* run was queued at the back: it starts only when no run on its resource
\* still waits for a first attempt.
THEOREM RetriesAreFair == Spec => FairRetry
<1> DEFINE Fair == \A r \in running' \ running :
                     attempt[r] > 1 =>
                       \A i \in DOMAIN pending :
                         KeyOf[pending[i]] = KeyOf[r] => attempt[pending[i]] > 1
<1>1. ASSUME IInv, StartNext PROVE Fair
  <2> DEFINE able == {j \in DOMAIN pending : can_start(pending[j])}
  <2>0. DOMAIN pending \subseteq Nat
    BY <1>1, QueueTyped DEF IInv
  <2>1. able \subseteq Nat /\ able # {}
    BY <1>1, <2>0 DEF StartNext, CanLaunch
  <2>2. PICK n \in able : n = First(able) /\ \A j \in able : n <= j
    BY <2>1, FirstIsLeast
  <2>3. running' = running \cup {pending[n]}
    BY <1>1, <2>2 DEF StartNext
  <2> SUFFICES ASSUME attempt[pending[n]] > 1, NEW i \in DOMAIN pending,
                      KeyOf[pending[i]] = KeyOf[pending[n]]
               PROVE  attempt[pending[i]] > 1
    BY <2>3
  <2>4. i \in able
    BY <2>2 DEF can_start, run_resource
  <2>5. n = i \/ n < i
    BY <2>1, <2>2, <2>4
  <2> QED BY <1>1, <2>2, <2>5 DEF IInv, RetriesLast
<1>2. IInv /\ [Next]_vars => [Fair]_vars
  BY <1>1, WhoChangesWhat
<1> QED BY <1>2, AlwaysIInv, PTL DEF Spec, FairRetry

\* Once a result of the stage stops the batch, also one of the same round,
\* no run of the batch is reopened (stop_reason before should_retry).
THEOREM StoppingRetriesNothing == Spec => NoRetryOnceStopping
<1> DEFINE Settled == \A q \in StageRuns(stage) :
                        /\ results[q] # NoResult => ~stop_reason(join, results[q])
                        /\ q \in judging => ~stop_reason(join, outcome[q])
           Quieted == \A r \in Runs : attempt'[r] # attempt[r] => Settled
<1>1. ASSUME IInv, NEW r \in Runs, RetryReopened(r) PROVE Settled
  <2>1. pc = "judge" /\ ~roundStops
    BY <1>1 DEF RetryReopened, RetryDecided
  <2> QED BY <1>1, <2>1 DEF IInv, StopKnown, Recorded, StageRuns
<1>2. IInv /\ [Next]_vars => [Quieted]_vars
  BY <1>1, WhoChangesWhat
<1> QED BY <1>2, AlwaysIInv, PTL DEF Spec, NoRetryOnceStopping
=============================================================================
