-------------------- MODULE PreparedEnvironments_proofs --------------------
(***************************************************************************)
(* Proofs about PreparedEnvironments, for any keys, calls, processes and   *)
(* durations.  First the types: each step of a call, a build, a sweep and  *)
(* the environment keeps TypeOK.  A sweep takes its key from what it has   *)
(* to do, so its part of the invariant is needed there.                    *)
(***************************************************************************)
EXTENDS PreparedEnvironments, TLAPS

\* A leaf that names no prover is tried with SMT, then with Zenon.
USE SMTT(30), ZenonT(30)

\* A sweep that deletes holds the lock of the key it works on.
SweepsOwn ==
  \A p \in Processes : sweep[p].pc \in {"request", "remove", "failed"} =>
    /\ sweep[p].todo # {} /\ locks[Current(p)] = Sweeper(p)
    /\ record[Current(p)].state = "deleting"

(* A set of keys has a first one.                                          *)
LEMMA FirstIsIn ==
  ASSUME NEW S \in SUBSET Keys, S # {}
  PROVE  First(S) \in S
BY PreparedAssumption, Zenon DEF First

(* The operations of the store keep records well formed.                   *)
LEMMA StoreTypes ==
  ASSUME NEW r \in Record, NEW u \in Users, NEW lag \in 0..MaxLag
  PROVE  /\ Unexpired(r, lag) \in [Users -> NoLease..Lease]
         /\ acquire_usage(r, u) \in Record
         /\ renew_usage(r, u) \in Record
         /\ release_usage(r, u) \in Record
<1> USE PreparedAssumption
<1>1. \A l \in 0..MaxLag : Unexpired(r, l) \in [Users -> NoLease..Lease]
  BY DEF Unexpired, Record, NoLease
<1>2. 0 \in 0..MaxLag /\ Lease \in NoLease..Lease /\ NoLease \in NoLease..Lease
      /\ 0 \in 0..MaxAge /\ Unmarked \in Unmarked..MaxAge
  BY DEF NoLease, Unmarked
<1> QED BY <1>1, <1>2, ZenonT(30) DEF acquire_usage, renew_usage, release_usage, Record

LEMMA NewRecordType ==
  ASSUME NEW s \in {"none", "building", "ready", "failed", "deleting"},
         NEW i \in Images \cup {NoImage}
  PROVE  NewRecord(s, i) \in Record
<1> USE PreparedAssumption
<1>1. NoLeases \in [Users -> NoLease..Lease] /\ 0 \in 0..MaxAge /\ Unmarked \in Unmarked..MaxAge
  BY DEF NoLeases, NoLease, Unmarked
<1> QED BY Zenon, <1>1 DEF NewRecord, Record

LEMMA SweepTypes ==
  ASSUME NEW r \in Record, NEW lag \in 0..MaxLag
  PROVE  /\ mark(r, lag) \in Record
         /\ begin_delete(r, lag) \in Record
         /\ deletion_failed(r) \in Record
         /\ reconcile_stale_build(r, lag) \in Record
         /\ Older(r) \in Record
<1> USE PreparedAssumption
<1>1. /\ lag \in 0..MaxAge /\ lag \in Unmarked..MaxAge
      /\ NoLeases \in [Users -> NoLease..Lease]
      /\ Unexpired(r, lag) \in [Users -> NoLease..Lease]
  BY DEF NoLeases, NoLease, Unmarked, Unexpired, Record
<1>2. r.image \in Images \cup {NoImage} /\ r.age \in 0..MaxAge /\ r.marked \in Unmarked..MaxAge
      /\ r.leases \in [Users -> NoLease..Lease]
  BY Zenon DEF Record
<1>3. mark(r, lag) \in Record
  BY <1>1, <1>2, ZenonT(30) DEF mark, Record
<1>4. begin_delete(r, lag) \in Record
  BY Zenon, <1>1, <1>2, NewRecordType DEF begin_delete, Record
<1>5. deletion_failed(r) \in Record
  BY Zenon, <1>2, NewRecordType DEF deletion_failed
<1>6. reconcile_stale_build(r, lag) \in Record
  BY <1>1, <1>2, ZenonT(30) DEF reconcile_stale_build, Record
<1>7. Older(r) \in Record
  <2>1. Up(r.age, MaxAge) \in 0..MaxAge
    BY <1>2 DEF Up
  <2>2. (IF r.marked = Unmarked THEN r.marked ELSE Up(r.marked, MaxAge)) \in Unmarked..MaxAge
    BY <1>2 DEF Up, Unmarked
  <2>3. [u \in Users |-> IF r.leases[u] > NoLease THEN r.leases[u] - 1 ELSE r.leases[u]]
          \in [Users -> NoLease..Lease]
    BY <1>2 DEF NoLease
  <2> QED BY <2>1, <2>2, <2>3, ZenonT(30) DEF Older, Record
<1> QED BY Zenon, <1>3, <1>4, <1>5, <1>6, <1>7

-----------------------------------------------------------------------------
(* Types *)

LEMMA TypeInit == Init => TypeOK
<1> SUFFICES ASSUME Init PROVE TypeOK
  BY Zenon
<1> USE PreparedAssumption
<1>1. env \in Environment
  BY Zenon DEF Init
<1>2. \A k \in Keys : record[k] = NewRecord("none", NoImage)
  BY Zenon DEF Init
<1>3. record \in [Keys -> Record]
  BY Zenon, NewRecordType DEF Init
<1>4. user \in [Users -> Call]
  BY <1>1 DEF Init, Call, CallAt
<1>5. sweep \in [Processes -> Sweep] /\ build \in [Processes -> [Keys -> Task]]
  BY DEF Init, Sweep, NoSweep, Task, NoTask
<1> QED BY <1>1, <1>3, <1>4, <1>5 DEF Init, TypeOK

LEMMA EnvTypes ==
  ASSUME TypeOK
  PROVE  /\ env.images \subseteq Images /\ env.faults \in Nat
         /\ \A u \in Users : Home(u) \in Processes /\ Key(u) \in Keys
         /\ \A u \in Users : record[Key(u)] \in Record
         /\ \A k \in Keys : record[k].image \in Images \cup {NoImage}
BY Zenon DEF TypeOK, Home, Key, Record, Environment

LEMMA FaultType == TypeOK /\ Fault => env' \in Environment
<1> SUFFICES ASSUME TypeOK, Fault PROVE env' \in Environment
  BY Zenon
<1>1. ASSUME NEW e \in Environment, NEW n \in Nat
      PROVE  [e EXCEPT !.faults = n] \in Environment
  BY Zenon DEF Environment
<1>2. env \in Environment /\ env.faults + 1 \in Nat
  BY DEF TypeOK, Environment
<1> QED BY Zenon, <1>1, <1>2 DEF Fault

LEMMA StoreKeeps ==
  ASSUME record \in [Keys -> Record], NEW k \in Keys, NEW r \in Record, Store(k, r)
  PROVE  record' \in [Keys -> Record]
BY Zenon DEF Store

LEMMA CallTypes ==
  ASSUME NEW pc \in {"idle", "join", "wait", "acquire", "using", "ended"},
         NEW i \in Images \cup {NoImage}
  PROVE  CallAt(pc, i) \in Call /\ ServedWith(i) \in Call
BY PreparedAssumption DEF CallAt, ServedWith, Call

LEMMA TaskKeeps ==
  ASSUME build \in [Processes -> [Keys -> Task]], NEW p \in Processes, NEW k \in Keys, NEW t \in Task
  PROVE  [build EXCEPT ![p][k] = t] \in [Processes -> [Keys -> Task]]
<1>1. build[p] \in [Keys -> Task] /\ [build[p] EXCEPT ![k] = t] \in [Keys -> Task]
  BY Zenon
<1> QED BY Zenon, <1>1

LEMMA TaskAt ==
  ASSUME build \in [Processes -> [Keys -> Task]], NEW p \in Processes, NEW k \in Keys,
         NEW pc \in {"none", "lock", "request", "built", "broken", "stale"}
  PROVE  [build EXCEPT ![p][k].pc = pc] \in [Processes -> [Keys -> Task]]
<1>1. [build[p][k] EXCEPT !.pc = pc] \in Task
  BY DEF Task
<1>2. [build EXCEPT ![p][k].pc = pc] = [build EXCEPT ![p][k] = [build[p][k] EXCEPT !.pc = pc]]
  BY Zenon
<1> QED BY Zenon, <1>1, <1>2, TaskKeeps

(* The steps of a call of use keep the types.                              *)
LEMMA UserTypes ==
  ASSUME TypeOK, NEW u \in Users,
         \/ ensure_ready(u) \/ UserStep(u) \/ RenewUsage(u) \/ RenewalRaises(u) \/ CancelUse(u)
  PROVE  TypeOK'
<1> DEFINE k == Key(u)
           p == Home(u)
<1>1. /\ k \in Keys /\ p \in Processes /\ record[k] \in Record
      /\ record[k].image \in Images \cup {NoImage} /\ user[u] \in Call /\ build[p][k] \in Task
      /\ record \in [Keys -> Record] /\ user \in [Users -> Call] /\ since \in [Keys -> 0..Grace]
      /\ 0 \in 0..Grace /\ Lease \in 0..Lease
  <2>1. 0 \in 0..Grace /\ Lease \in 0..Lease
    BY PreparedAssumption
  <2> QED BY Zenon, <2>1, EnvTypes DEF TypeOK
<1>2. acquire_usage(record[k], u) \in Record /\ renew_usage(record[k], u) \in Record
      /\ release_usage(record[k], u) \in Record
  BY <1>1, StoreTypes, PreparedAssumption
<1> HIDE DEF k, p
<1>3. CASE ensure_ready(u)
  <2>1. ServedWith(record[k].image) \in Call /\ [user[u] EXCEPT !.pc = "join"] \in Call
    BY Zenon, <1>1, CallTypes DEF Call
  <2>2. user' \in [Users -> Call]
    BY Zenon, <1>1, <1>3, <2>1 DEF ensure_ready, k
  <2> QED BY Zenon, <1>3, <2>2 DEF ensure_ready, TypeOK
<1>4. CASE JoinBuild(u)
  <2>1. /\ ServedWith(build[p][k].image) \in Call /\ [user[u] EXCEPT !.pc = "wait"] \in Call
        /\ NoTask \in Task
    BY <1>1, CallTypes DEF Call, Task, NoTask
  <2>2. user' \in [Users -> Call]
    BY Zenon, <1>1, <1>4, <2>1 DEF JoinBuild, Goto, k, p
  <2>3. build' \in [Processes -> [Keys -> Task]]
    <3>1. build \in [Processes -> [Keys -> Task]]
      BY Zenon DEF TypeOK
    <3>2. \/ build' = build
          \/ build' = [build EXCEPT ![p][k].pc = "lock"]
          \/ build' = [build EXCEPT ![p][k] = NoTask]
      BY Zenon, <1>4 DEF JoinBuild, k, p
    <3>3. CASE build' = [build EXCEPT ![p][k].pc = "lock"]
      BY <1>1, <3>1, <3>3, TaskAt, ZenonT(30)
    <3>4. CASE build' = [build EXCEPT ![p][k] = NoTask]
      BY Zenon, <1>1, <2>1, <3>1, <3>4, TaskKeeps
    <3> QED BY Zenon, <3>1, <3>2, <3>3, <3>4
  <2> QED BY Zenon, <1>4, <2>2, <2>3 DEF JoinBuild, TypeOK
<1>5. CASE AcquireUsage(u)
  <2>1. record' \in [Keys -> Record]
    BY Zenon, <1>1, <1>2, <1>5, StoreKeeps DEF AcquireUsage, k
  <2>2. [user[u] EXCEPT !.pc = "using", !.left = Lease] \in Call /\ CallAt("ended", NoImage) \in Call
    BY <1>1, CallTypes, ZenonT(30) DEF Call
  <2>3. user' \in [Users -> Call]
    BY <1>1, <1>5, <2>2, ZenonT(30) DEF AcquireUsage, Ended
  <2>4. since' \in [Keys -> 0..Grace]
    BY Zenon, <1>1, <1>5 DEF AcquireUsage, k
  <2> QED BY Zenon, <1>5, <2>1, <2>3, <2>4 DEF AcquireUsage, TypeOK
<1>6. CASE LeaveUse(u)
  <2>1. record' \in [Keys -> Record]
    BY Zenon, <1>1, <1>2, <1>6, StoreKeeps DEF LeaveUse, k
  <2>2. user' \in [Users -> Call]
    BY Zenon, <1>1, <1>6, CallTypes DEF LeaveUse, Ended
  <2> QED BY Zenon, <1>6, <2>1, <2>2 DEF LeaveUse, TypeOK
<1>7. CASE RenewUsage(u)
  <2>1. record' \in [Keys -> Record]
    BY Zenon, <1>1, <1>2, <1>7, StoreKeeps DEF RenewUsage, k
  <2>2. [user[u] EXCEPT !.left = Lease] \in Call /\ [user[u] EXCEPT !.renewal = "off"] \in Call
    BY Zenon, <1>1 DEF Call
  <2>3. user' \in [Users -> Call]
    BY Zenon, <1>1, <1>7, <2>2 DEF RenewUsage
  <2> QED BY Zenon, <1>7, <2>1, <2>3 DEF RenewUsage, TypeOK
<1>8. CASE RenewalRaises(u)
  <2>1. [user[u] EXCEPT !.renewal = "raised"] \in Call
    BY Zenon, <1>1 DEF Call
  <2>2. user' \in [Users -> Call]
    BY Zenon, <1>1, <1>8, <2>1 DEF RenewalRaises
  <2> QED BY Zenon, <1>8, <2>2, FaultType DEF RenewalRaises, TypeOK
<1>9. CASE CancelUse(u)
  <2>1. record' \in [Keys -> Record]
    BY Zenon, <1>1, <1>2, <1>9, StoreKeeps DEF CancelUse, k
  <2>2. user' \in [Users -> Call]
    BY Zenon, <1>1, <1>9, CallTypes DEF CancelUse, Ended
  <2>3. since' \in [Keys -> 0..Grace]
    BY Zenon, <1>1, <1>9 DEF CancelUse, k
  <2> QED BY Zenon, <1>9, <2>1, <2>2, <2>3, FaultType DEF CancelUse, TypeOK
<1> QED BY Zenon, <1>3, <1>4, <1>5, <1>6, <1>7, <1>8, <1>9 DEF UserStep

(* The end of a build reaches its waiters and its task.                    *)
LEMMA FinishTypes ==
  ASSUME TypeOK, NEW p \in Processes, NEW k \in Keys, NEW i \in Images \cup {NoImage},
         Finish(p, k, i)
  PROVE  user' \in [Users -> Call] /\ build' \in [Processes -> [Keys -> Task]]
<1>1. ServedWith(i) \in Call /\ NoTask \in Task /\ [pc |-> "stale", image |-> i] \in Task
  BY Zenon, CallTypes DEF Task, NoTask
<1>2. user' \in [Users -> Call]
  BY Zenon, <1>1 DEF Finish, TypeOK
<1>3. build' \in [Processes -> [Keys -> Task]]
  BY Zenon, <1>1, TaskKeeps DEF Finish, TypeOK
<1> QED BY Zenon, <1>2, <1>3

LEMMA BuilderTypes ==
  ASSUME TypeOK, NEW k \in Keys
  PROVE  /\ \A i \in Images : Built(k, i) =>
              tag' \in [Keys -> Images \cup {NoImage}] /\ images' \in [Keys -> SUBSET Images]
         /\ Untagged(k) =>
              tag' \in [Keys -> Images \cup {NoImage}] /\ images' \in [Keys -> SUBSET Images]
<1>1. /\ tag \in [Keys -> Images \cup {NoImage}] /\ images \in [Keys -> SUBSET Images]
      /\ images[k] \in SUBSET Images
  BY Zenon DEF TypeOK
<1>2. ASSUME NEW i \in Images, Built(k, i)
      PROVE  tag' \in [Keys -> Images \cup {NoImage}] /\ images' \in [Keys -> SUBSET Images]
  BY Zenon, <1>1, <1>2 DEF Built
<1>3. ASSUME Untagged(k)
      PROVE  tag' \in [Keys -> Images \cup {NoImage}] /\ images' \in [Keys -> SUBSET Images]
  BY Zenon, <1>1, <1>3 DEF Untagged
<1> QED BY Zenon, <1>2, <1>3

(* The steps of a build keep the types.                                    *)
LEMMA BuildTypes ==
  ASSUME TypeOK, NEW p \in Processes, NEW k \in Keys, BuildStep(p, k) \/ BuildTimesOut(p, k)
  PROVE  TypeOK'
<1>1. /\ record[k] \in Record /\ record[k].image \in Images \cup {NoImage}
      /\ build[p][k] \in Task /\ build[p][k].image \in Images \cup {NoImage}
      /\ record \in [Keys -> Record] /\ build \in [Processes -> [Keys -> Task]]
      /\ since \in [Keys -> 0..Grace] /\ 0 \in 0..Grace /\ env.images \subseteq Images
      /\ Builder(p) \in Owner /\ locks \in [Keys -> Owner \cup {Free}]
  BY EnvTypes, PreparedAssumption DEF TypeOK, Task, Builder, Owner
<1>2. CASE StartBuild(p, k)
  <2>1. CASE record[k].state \in {"ready", "deleting"}
    <3>1. \E i \in Images \cup {NoImage} : Finish(p, k, i)
      BY Zenon, <1>1, <1>2, <2>1 DEF StartBuild
    <3> QED BY Zenon, <1>2, <2>1, <3>1, FinishTypes DEF StartBuild, TypeOK
  <2>2. CASE record[k].state \notin {"ready", "deleting"}
    <3>1. record' \in [Keys -> Record]
      BY Zenon, <1>1, <1>2, <2>2, NewRecordType, StoreKeeps DEF StartBuild
    <3>2. build' \in [Processes -> [Keys -> Task]]
      <4>1. build' = [build EXCEPT ![p][k].pc = "request"]
        BY Zenon, <1>2, <2>2 DEF StartBuild
      <4> QED BY <1>1, <4>1, TaskAt, ZenonT(30)
    <3>3. locks' \in [Keys -> Owner \cup {Free}]
      BY Zenon, <1>1, <1>2, <2>2 DEF StartBuild
    <3> QED BY Zenon, <1>2, <2>2, <3>1, <3>2, <3>3 DEF StartBuild, TypeOK
  <2> QED BY Zenon, <2>1, <2>2
<1>3. CASE BuildLockTimeout(p, k)
  BY Zenon, <1>3, FinishTypes DEF BuildLockTimeout, TypeOK
<1>4. CASE BuilderBuilds(p, k)
  <2>1. CASE \E i \in env.images :
               /\ Built(k, i)
               /\ build' = [build EXCEPT ![p][k] = [pc |-> "built", image |-> i]]
               /\ UNCHANGED env
    <3>1. PICK i \in env.images :
               /\ Built(k, i)
               /\ build' = [build EXCEPT ![p][k] = [pc |-> "built", image |-> i]]
               /\ UNCHANGED env
      BY <2>1, ZenonT(30)
    <3>2. i \in Images /\ [pc |-> "built", image |-> i] \in Task
      BY Zenon, <1>1 DEF Task
    <3>3. build' \in [Processes -> [Keys -> Task]]
      BY Zenon, <1>1, <3>1, <3>2, TaskKeeps
    <3> QED BY Zenon, <1>4, <3>1, <3>2, <3>3, BuilderTypes DEF BuilderBuilds, TypeOK
  <2>2. CASE Fault /\ Untagged(k) /\ build' = [build EXCEPT ![p][k].pc = "broken"]
    <3>1. build' \in [Processes -> [Keys -> Task]]
      BY <1>1, <2>2, TaskAt, ZenonT(30)
    <3> QED BY Zenon, <1>4, <2>2, <3>1, BuilderTypes, FaultType DEF BuilderBuilds, TypeOK
  <2> QED BY Zenon, <1>4, <2>1, <2>2 DEF BuilderBuilds
<1>5. CASE StoreBuild(p, k)
  <2>1. record' \in [Keys -> Record]
    BY Zenon, <1>1, <1>5, NewRecordType, StoreKeeps DEF StoreBuild
  <2>2. user' \in [Users -> Call] /\ build' \in [Processes -> [Keys -> Task]]
    BY Zenon, <1>1, <1>5, FinishTypes DEF StoreBuild
  <2>3. since' \in [Keys -> 0..Grace] /\ locks' \in [Keys -> Owner \cup {Free}]
    BY Zenon, <1>1, <1>5 DEF StoreBuild, Unlocked
  <2> QED BY Zenon, <1>5, <2>1, <2>2, <2>3 DEF StoreBuild, TypeOK
<1>6. CASE BuildTimesOut(p, k)
  <2>1. build' \in [Processes -> [Keys -> Task]]
    BY <1>1, <1>6, TaskAt, ZenonT(30) DEF BuildTimesOut
  <2>2. late' \subseteq Job
    BY <1>6 DEF BuildTimesOut, TypeOK, Job
  <2> QED BY Zenon, <1>6, <2>1, <2>2, FaultType DEF BuildTimesOut, TypeOK
<1> QED BY Zenon, <1>2, <1>3, <1>4, <1>5, <1>6 DEF BuildStep

(* The key a sweep works on.                                               *)
LEMMA SweepFacts ==
  ASSUME TypeOK, NEW p \in Processes
  PROVE  /\ sweep[p].lag \in 0..MaxLag /\ sweep[p].todo \in SUBSET Keys
         /\ sweep[p].todo # {} => Current(p) \in sweep[p].todo /\ Current(p) \in Keys
<1>1. sweep[p].lag \in 0..MaxLag /\ sweep[p].todo \in SUBSET Keys
  BY Zenon DEF TypeOK, Sweep
<1> QED BY Zenon, <1>1, FirstIsIn DEF Current

LEMMA PhaseTypes ==
  ASSUME TypeOK, NEW p \in Processes,
         NEW pc \in {"idle", "gc", "reconcile", "mark", "delete", "request", "remove", "failed"},
         NEW todo \in SUBSET Keys
  PROVE  /\ Phase(p, pc, todo) => sweep' \in [Processes -> Sweep]
         /\ Done(p) => sweep' \in [Processes -> Sweep]
<1>1. sweep \in [Processes -> Sweep] /\ sweep[p] \in Sweep
  BY Zenon DEF TypeOK
<1>2. [sweep[p] EXCEPT !.pc = pc, !.todo = todo] \in Sweep
  BY <1>1, ZenonT(30) DEF Sweep
<1>3. [sweep[p] EXCEPT !.pc = "delete", !.todo = @ \ {Current(p)}] \in Sweep
  BY <1>1, ZenonT(30) DEF Sweep
<1>4. Phase(p, pc, todo) => sweep' = [sweep EXCEPT ![p] = [sweep[p] EXCEPT !.pc = pc, !.todo = todo]]
  BY <1>1, ZenonT(30) DEF Phase
<1>5. Done(p) => sweep' = [sweep EXCEPT ![p] = [sweep[p] EXCEPT !.pc = "delete", !.todo = @ \ {Current(p)}]]
  BY <1>1, ZenonT(30) DEF Done
<1> QED BY Zenon, <1>1, <1>2, <1>3, <1>4, <1>5

(* The steps of a sweep keep the types.                                    *)
LEMMA SweepStepTypes ==
  ASSUME TypeOK, SweepsOwn, NEW p \in Processes, SweepStep(p)
  PROVE  TypeOK'
<1> DEFINE k == Current(p)
           lag == sweep[p].lag
<1>1. /\ lag \in 0..MaxLag /\ sweep[p].todo \in SUBSET Keys
      /\ sweep[p].todo # {} => k \in Keys
      /\ sweep[p].pc \in {"request", "remove", "failed"} => k \in Keys
  BY Zenon, SweepFacts DEF SweepsOwn
<1>2. /\ record \in [Keys -> Record] /\ locks \in [Keys -> Owner \cup {Free}]
      /\ Sweeper(p) \in Owner /\ NoSweep \in Sweep /\ sweep \in [Processes -> Sweep]
  BY PreparedAssumption DEF TypeOK, Sweeper, Owner, NoSweep, Sweep
<1>3. ASSUME k \in Keys
      PROVE  /\ mark(record[k], lag) \in Record /\ begin_delete(record[k], lag) \in Record
             /\ deletion_failed(record[k]) \in Record
             /\ reconcile_stale_build(record[k], lag) \in Record
             /\ NewRecord("none", NoImage) \in Record
             /\ record[k].image \in Images \cup {NoImage}
  BY <1>1, <1>2, <1>3, SweepTypes, NewRecordType, ZenonT(30) DEF Record
<1> HIDE DEF k, lag
<1>4. CASE StartSweep(p)
  BY Zenon, <1>4, PhaseTypes DEF StartSweep, TypeOK
<1>5. CASE LockSweep(p)
  <2>1. sweep' \in [Processes -> Sweep]
    BY Zenon, <1>5, PhaseTypes DEF LockSweep
  <2> QED BY Zenon, <1>5, <2>1 DEF LockSweep, TypeOK
<1>6. CASE ReconcileStaleBuild(p)
  <2>1. record' \in [Keys -> Record]
    BY Zenon, <1>1, <1>2, <1>3, <1>6, StoreKeeps DEF ReconcileStaleBuild, k, lag, Lag
  <2>2. sweep' \in [Processes -> Sweep]
    BY Zenon, <1>1, <1>6, PhaseTypes DEF ReconcileStaleBuild
  <2> QED BY Zenon, <1>6, <2>1, <2>2 DEF ReconcileStaleBuild, TypeOK
<1>7. CASE ListCandidates(p)
  <2>1. gc_candidates(Lag(p)) \in SUBSET Keys
    BY Zenon DEF gc_candidates, OverQuota, Ready
  <2> QED BY Zenon, <1>7, <2>1, PhaseTypes DEF ListCandidates, TypeOK
<1>8. CASE MarkCandidate(p)
  <2>1. record' \in [Keys -> Record]
    BY Zenon, <1>1, <1>2, <1>3, <1>8, StoreKeeps DEF MarkCandidate, k, lag, Lag
  <2>2. sweep' \in [Processes -> Sweep]
    BY Zenon, <1>1, <1>8, PhaseTypes DEF MarkCandidate
  <2> QED BY Zenon, <1>8, <2>1, <2>2 DEF MarkCandidate, TypeOK
<1>9. CASE ListDeletions(p)
  <2>1. sweep' \in [Processes -> Sweep]
    BY Zenon, <1>9, PhaseTypes DEF ListDeletions
  <2> QED BY Zenon, <1>9, <2>1 DEF ListDeletions, TypeOK
<1>10. CASE BeginDelete(p)
  <2>1. record' \in [Keys -> Record]
    BY Zenon, <1>1, <1>2, <1>3, <1>10, StoreKeeps DEF BeginDelete, k, lag, Lag
  <2>2. sweep' \in [Processes -> Sweep]
    BY Zenon, <1>1, <1>10, PhaseTypes DEF BeginDelete
  <2>3. locks' \in [Keys -> Owner \cup {Free}]
    BY Zenon, <1>2, <1>10 DEF BeginDelete
  <2> QED BY Zenon, <1>10, <2>1, <2>2, <2>3 DEF BeginDelete, TypeOK
<1>11. CASE BuilderDeletes(p)
  <2>1. k \in Keys /\ record[k].image \in Images \cup {NoImage}
    BY Zenon, <1>1, <1>3, <1>11 DEF BuilderDeletes
  <2>2. sweep' \in [Processes -> Sweep]
    <3>1. \E pc \in {"failed", "remove"} : Phase(p, pc, sweep[p].todo)
      BY Zenon, <1>11 DEF BuilderDeletes
    <3> QED BY Zenon, <1>1, <3>1, PhaseTypes
  <2>3. tag' \in [Keys -> Images \cup {NoImage}] /\ images' \in [Keys -> SUBSET Images]
    BY Zenon, <1>11, <2>1, BuilderTypes DEF BuilderDeletes, delete_environment, TypeOK, k
  <2>4. late' \subseteq Job
    BY <1>11, <2>1 DEF BuilderDeletes, TypeOK, Job, k
  <2>5. env' \in Environment
    BY Zenon, <1>11, FaultType DEF BuilderDeletes, TypeOK
  <2> QED BY Zenon, <1>11, <2>2, <2>3, <2>4, <2>5 DEF BuilderDeletes, TypeOK
<1>12. CASE DeleteRecord(p)
  <2>1. record' \in [Keys -> Record]
    BY Zenon, <1>1, <1>2, <1>3, <1>12, StoreKeeps DEF DeleteRecord, k
  <2>2. sweep' \in [Processes -> Sweep] /\ locks' \in [Keys -> Owner \cup {Free}]
    BY Zenon, <1>1, <1>2, <1>12, PhaseTypes DEF DeleteRecord, Unlocked
  <2> QED BY Zenon, <1>12, <2>1, <2>2 DEF DeleteRecord, TypeOK
<1>13. CASE DeletionFailed(p)
  <2>1. record' \in [Keys -> Record]
    BY Zenon, <1>1, <1>2, <1>3, <1>13, StoreKeeps DEF DeletionFailed, k
  <2>2. sweep' \in [Processes -> Sweep] /\ locks' \in [Keys -> Owner \cup {Free}]
    BY <1>1, <1>2, <1>13, PhaseTypes, ZenonT(30) DEF DeletionFailed, Unlocked
  <2> QED BY Zenon, <1>13, <2>1, <2>2 DEF DeletionFailed, TypeOK
<1>14. CASE EndSweep(p)
  BY Zenon, <1>2, <1>14 DEF EndSweep, TypeOK
<1>15. CASE SweepLockTimeout(p)
  BY Zenon, <1>2, <1>15 DEF SweepLockTimeout, TypeOK
<1> QED BY Zenon, <1>4, <1>5, <1>6, <1>7, <1>8, <1>9, <1>10, <1>11, <1>12, <1>13, <1>14, <1>15
        DEF SweepStep

LEMMA CrashTypes ==
  ASSUME TypeOK, SweepsOwn, NEW p \in Processes, Crash(p)
  PROVE  TypeOK'
<1>1. user' \in [Users -> Call]
  BY Zenon, CallTypes DEF Crash, TypeOK
<1>2. build' \in [Processes -> [Keys -> Task]] /\ sweep' \in [Processes -> Sweep]
  BY PreparedAssumption DEF Crash, TypeOK, Task, NoTask, Sweep, NoSweep
<1>3. locks' \in [Keys -> Owner \cup {Free}] /\ gcLock' \in Processes \cup {Free}
  BY Zenon DEF Crash, TypeOK
<1>4. late' \subseteq Job
  <2>1. Pending(p) \subseteq Job
    BY EnvTypes DEF Pending, Job
  <2> QED BY Zenon, <2>1 DEF Crash, TypeOK
<1> QED BY Zenon, <1>1, <1>2, <1>3, <1>4, FaultType DEF Crash, TypeOK

LEMMA LateTypes ==
  ASSUME TypeOK, NEW j \in late, LateJob(j)
  PROVE  TypeOK'
<1>1. j.key \in Keys /\ late' \subseteq Job /\ env.images \subseteq Images
  BY Zenon, EnvTypes DEF LateJob, TypeOK, Job
<1>2. \/ UNCHANGED <<tag, images>> \/ Untagged(j.key) \/ \E i \in Images : Built(j.key, i)
  BY Zenon, <1>1 DEF LateJob, build_environment, delete_environment
<1>3. tag' \in [Keys -> Images \cup {NoImage}] /\ images' \in [Keys -> SUBSET Images]
  BY Zenon, <1>1, <1>2, BuilderTypes DEF TypeOK
<1> QED BY Zenon, <1>1, <1>3 DEF LateJob, TypeOK

LEMMA TickTypes ==
  ASSUME TypeOK, Tick
  PROVE  TypeOK'
<1> USE PreparedAssumption
<1>1. record' \in [Keys -> Record]
  <2>1. 0 \in 0..MaxLag
    OBVIOUS
  <2> QED BY Zenon, <2>1, SweepTypes DEF Tick, TypeOK
<1>2. sweep' \in [Processes -> Sweep]
  <2>1. ASSUME NEW p \in Processes, sweep[p].pc # "idle"
        PROVE  [sweep[p] EXCEPT !.lag = @ + 1] \in Sweep
    <3>1. sweep[p] \in Sweep /\ sweep[p].lag \in 0..MaxLag /\ sweep[p].lag < MaxLag
      BY Zenon, <2>1 DEF Tick, TypeOK, Sweep
    <3>2. sweep[p].lag + 1 \in 0..MaxLag
      BY <3>1
    <3> QED BY Zenon, <3>1, <3>2 DEF Sweep
  <2> QED BY Zenon, <2>1 DEF Tick, TypeOK
<1>3. user' \in [Users -> Call]
  <2>1. ASSUME NEW u \in Users
        PROVE  [user[u] EXCEPT !.left = IF @ > 0 THEN @ - 1 ELSE 0] \in Call
    <3>1. user[u] \in Call /\ user[u].left \in 0..Lease
      BY Zenon DEF TypeOK, Call
    <3>2. (IF user[u].left > 0 THEN user[u].left - 1 ELSE 0) \in 0..Lease
      BY <3>1
    <3> QED BY Zenon, <3>1, <3>2 DEF Call
  <2> QED BY Zenon, <2>1 DEF Tick
<1>4. since' \in [Keys -> 0..Grace]
  BY DEF Tick, TypeOK, Up
<1> QED BY Zenon, <1>1, <1>2, <1>3, <1>4 DEF Tick, TypeOK

LEMMA TypeStep == TypeOK /\ SweepsOwn /\ [Next]_vars => TypeOK'
<1> SUFFICES ASSUME TypeOK, SweepsOwn, [Next]_vars PROVE TypeOK'
  BY Zenon
<1>1. CASE UNCHANGED vars
  BY Zenon, <1>1 DEF vars, TypeOK
<1>2. CASE Next
  BY Zenon, <1>2, UserTypes, BuildTypes, SweepStepTypes, CrashTypes, LateTypes, TickTypes DEF Next
<1> QED BY Zenon, <1>1, <1>2

-----------------------------------------------------------------------------
(* What the operations of the store do to the lease of a call v that runs. *)
LEMMA Protects ==
  ASSUME NEW r \in Record, NEW u \in Users, NEW v \in Users, NEW lag \in 0..MaxLag,
         r.state = "ready", r.leases[v] > 0
  PROVE  /\ acquire_usage(r, u).leases[v] >= r.leases[v]
         /\ renew_usage(r, u).leases[v] >= r.leases[v]
         /\ u # v => release_usage(r, u).leases[v] = r.leases[v]
         /\ mark(r, lag) = r
         /\ begin_delete(r, lag).state = "ready" /\ begin_delete(r, lag).leases[v] = r.leases[v]
         /\ Older(r).leases[v] = r.leases[v] - 1
<1> USE PreparedAssumption
<1>1. r.leases \in [Users -> NoLease..Lease] /\ r.leases[v] \in 1..Lease
  BY DEF Record, NoLease
<1>2. \A l \in 0..MaxLag : v \in active_leases(r, l) /\ Unexpired(r, l)[v] = r.leases[v]
  BY <1>1 DEF active_leases, Unexpired
<1>3. 0 \in 0..MaxLag /\ Unexpired(r, 0) \in [Users -> NoLease..Lease]
  BY StoreTypes
<1>4. acquire_usage(r, u).leases = [Unexpired(r, 0) EXCEPT ![u] = Lease]
      /\ renew_usage(r, u).leases = [Unexpired(r, 0) EXCEPT ![u] = Lease]
      /\ release_usage(r, u).leases = [Unexpired(r, 0) EXCEPT ![u] = NoLease]
  BY Zenon DEF acquire_usage, renew_usage, release_usage, Record
<1>5. acquire_usage(r, u).leases[v] >= r.leases[v] /\ renew_usage(r, u).leases[v] >= r.leases[v]
      /\ (u # v => release_usage(r, u).leases[v] = r.leases[v])
  BY <1>1, <1>2, <1>3, <1>4
<1>6. mark(r, lag) = r
  BY Zenon, <1>2 DEF mark
<1>7. begin_delete(r, lag).state = "ready" /\ begin_delete(r, lag).leases[v] = r.leases[v]
  <2>1. begin_delete(r, lag) = [r EXCEPT !.leases = Unexpired(r, lag)]
    BY Zenon, <1>2 DEF begin_delete, Deletable, Collectable
  <2> QED BY Zenon, <1>2, <2>1 DEF Record
<1>8. Older(r).leases[v] = r.leases[v] - 1
  <2>1. Older(r).leases = [w \in Users |-> IF r.leases[w] > NoLease THEN r.leases[w] - 1 ELSE r.leases[w]]
    BY Zenon DEF Older, Record
  <2> QED BY <1>1, <2>1 DEF NoLease
<1> QED BY Zenon, <1>5, <1>6, <1>7, <1>8

LEMMA StatesKept ==
  ASSUME NEW r \in Record, NEW u \in Users, NEW lag \in 0..MaxLag
  PROVE  /\ acquire_usage(r, u).state = r.state /\ acquire_usage(r, u).leases[u] = Lease
         /\ acquire_usage(r, u).marked = Unmarked
         /\ renew_usage(r, u).state = r.state /\ renew_usage(r, u).leases[u] = Lease
         /\ renew_usage(r, u).marked = r.marked
         /\ release_usage(r, u).state = r.state /\ release_usage(r, u).marked = r.marked
BY StoreTypes, PreparedAssumption, ZenonT(30) DEF acquire_usage, renew_usage, release_usage, Record, Unexpired

LEMMA SweptStates ==
  ASSUME NEW r \in Record, NEW lag \in 0..MaxLag
  PROVE  /\ mark(r, lag).state = r.state /\ mark(r, lag).marked \in {r.marked, lag}
         /\ Older(r).state = r.state
         /\ ~Deletable(r, lag) => begin_delete(r, lag).state = r.state
                                  /\ begin_delete(r, lag).marked = r.marked
         /\ Deletable(r, lag) => begin_delete(r, lag).state = "deleting"
         /\ r.state = "ready" => /\ reconcile_stale_build(r, lag) = r
                                 /\ Older(r).marked = IF r.marked = Unmarked THEN Unmarked
                                                      ELSE Up(r.marked, MaxAge)
         /\ r.state # "ready" => reconcile_stale_build(r, lag).state # "ready"
<1>1. mark(r, lag).state = r.state /\ mark(r, lag).marked \in {r.marked, lag}
  BY Zenon DEF mark, Record
<1>2. /\ Older(r).state = r.state
      /\ r.state = "ready" => Older(r).marked = IF r.marked = Unmarked THEN Unmarked
                                                ELSE Up(r.marked, MaxAge)
  BY Zenon DEF Older, Record
<1>3. /\ ~Deletable(r, lag) => begin_delete(r, lag).state = r.state
                               /\ begin_delete(r, lag).marked = r.marked
      /\ Deletable(r, lag) => begin_delete(r, lag).state = "deleting"
  BY Zenon DEF begin_delete, NewRecord, Record
<1>4. /\ r.state = "ready" => reconcile_stale_build(r, lag) = r
      /\ r.state # "ready" => reconcile_stale_build(r, lag).state # "ready"
  BY Zenon DEF reconcile_stale_build, Stale, Record
<1> QED BY Zenon, <1>1, <1>2, <1>3, <1>4

LEMMA Numbers ==
  ASSUME TypeOK
  PROVE  /\ \A v \in Users, k \in Keys : record[k].leases[v] \in Int
         /\ \A v \in Users : user[v].left \in Nat
<1>1. \A k \in Keys : record[k].leases \in [Users -> NoLease..Lease]
  BY Zenon DEF TypeOK, Record
<1>2. NoLease..Lease \subseteq Int
  BY PreparedAssumption DEF NoLease
<1>3. \A v \in Users : user[v].left \in 0..Lease
  BY Zenon DEF TypeOK, Call
<1> QED BY <1>1, <1>2, <1>3, PreparedAssumption

LEMMA KeysStay ==
  ASSUME TypeOK, Fault \/ UNCHANGED env
  PROVE  \A u \in Users : Key(u)' = Key(u)
BY Zenon DEF TypeOK, Fault, Key, Environment

(* What a step of a call does to the store and to its own lease.           *)
LEMMA UserEffects ==
  ASSUME TypeOK, NEW u \in Users,
         \/ ensure_ready(u) \/ UserStep(u) \/ RenewUsage(u) \/ RenewalRaises(u) \/ CancelUse(u)
  PROVE  /\ locks' = locks /\ sweep' = sweep /\ (Fault \/ UNCHANGED env)
         /\ \A v \in Users : v # u => user'[v] = user[v]
         /\ LET k == Key(u) IN
            \/ record' = record /\ since' = since /\ user'[u].left \in {0, user[u].left}
            \/ /\ Store(k, acquire_usage(record[k], u)) /\ record[k].state = "ready"
               /\ since' = [since EXCEPT ![k] = 0] /\ user'[u].left \in {0, Lease}
            \/ /\ Store(k, renew_usage(record[k], u)) /\ record[k].state = "ready"
               /\ since' = since /\ user'[u].left = Lease
            \/ Store(k, release_usage(record[k], u)) /\ since' = since /\ user'[u].left = 0
<1>1. user \in [Users -> Call] /\ user[u] \in Call
  BY Zenon DEF TypeOK
<1>2. CASE ensure_ready(u)
  BY Zenon, <1>1, <1>2 DEF ensure_ready, ServedWith, CallAt, Call
<1>3. CASE JoinBuild(u)
  BY <1>1, <1>3 DEF JoinBuild, ServedWith, CallAt, Call, Goto
<1>4. CASE AcquireUsage(u)
  BY <1>1, <1>4 DEF AcquireUsage, Ended, CallAt, Call
<1>5. CASE LeaveUse(u)
  BY Zenon, <1>1, <1>5 DEF LeaveUse, Ended, CallAt, Call
<1>6. CASE RenewUsage(u)
  BY <1>1, <1>6 DEF RenewUsage, Renewable, Call
<1>7. CASE RenewalRaises(u)
  BY Zenon, <1>1, <1>7 DEF RenewalRaises, Call
<1>8. CASE CancelUse(u)
  BY Zenon, <1>1, <1>8 DEF CancelUse, Ended, CallAt, Call
<1> QED BY Zenon, <1>2, <1>3, <1>4, <1>5, <1>6, <1>7, <1>8 DEF UserStep

LEMMA UserBuilds ==
  ASSUME TypeOK, NEW u \in Users,
         \/ ensure_ready(u) \/ UserStep(u) \/ RenewUsage(u) \/ RenewalRaises(u) \/ CancelUse(u)
  PROVE  \A q \in Processes, j \in Keys :
           build'[q][j].pc \in {"request", "built", "broken"} => build'[q][j] = build[q][j]
<1>1. CASE JoinBuild(u)
  <2> DEFINE p == Home(u)
             k == Key(u)
  <2>1. p \in Processes /\ k \in Keys /\ build \in [Processes -> [Keys -> Task]] /\ build[p][k] \in Task
    BY Zenon, EnvTypes DEF TypeOK
  <2>2. \/ build' = build
        \/ build' = [build EXCEPT ![p][k].pc = "lock"]
        \/ build' = [build EXCEPT ![p][k] = NoTask]
    BY Zenon, <1>1 DEF JoinBuild
  <2> HIDE DEF p, k
  <2>3. CASE build' = [build EXCEPT ![p][k].pc = "lock"]
    <3>1. [build[p][k] EXCEPT !.pc = "lock"].pc = "lock"
      BY Zenon, <2>1 DEF Task
    <3> QED BY Zenon, <2>1, <2>3, <3>1
  <2>4. CASE build' = [build EXCEPT ![p][k] = NoTask]
    BY Zenon, <2>1, <2>4 DEF NoTask
  <2> QED BY Zenon, <2>2, <2>3, <2>4
<1>2. CASE ~JoinBuild(u)
  BY Zenon, <1>2 DEF UserStep, ensure_ready, AcquireUsage, LeaveUse, RenewUsage, RenewalRaises, CancelUse
<1> QED BY Zenon, <1>1, <1>2

(* The end of a build: no call gains a lease, one task comes to rest.      *)
LEMMA FinishEffects ==
  ASSUME TypeOK, NEW p \in Processes, NEW k \in Keys, NEW i, Finish(p, k, i)
  PROVE  /\ \A v \in Users : user'[v].left \in {0, user[v].left}
         /\ build'[p][k].pc \in {"none", "stale"}
         /\ \A q \in Processes, j \in Keys : q # p \/ j # k => build'[q][j] = build[q][j]
<1>1. \A v \in Users : user'[v].left \in {0, user[v].left}
  BY Zenon DEF Finish, ServedWith, CallAt
<1>2. build \in [Processes -> [Keys -> Task]]
  BY Zenon DEF TypeOK
<1> DEFINE t == IF Waiters(p, k) # {} THEN NoTask ELSE [pc |-> "stale", image |-> i]
<1>3. build' = [build EXCEPT ![p][k] = t] /\ t.pc \in {"none", "stale"}
  BY Zenon DEF Finish, NoTask
<1> HIDE DEF t
<1> QED BY Zenon, <1>1, <1>2, <1>3

(* What a step of a build does.                                            *)
LEMMA BuildEffects ==
  ASSUME TypeOK, NEW p \in Processes, NEW k \in Keys, BuildStep(p, k) \/ BuildTimesOut(p, k)
  PROVE  /\ sweep' = sweep /\ (Fault \/ UNCHANGED env)
         /\ \A v \in Users : user'[v].left \in {0, user[v].left}
         /\ \A q \in Processes, j \in Keys : q # p \/ j # k => build'[q][j] = build[q][j]
         /\ \/ /\ UNCHANGED <<record, locks, since>>
               /\ build'[p][k].pc \in {"request", "built", "broken"} => build[p][k].pc = "request"
            \/ /\ locks[k] = Free /\ record[k].state \notin {"ready", "deleting"}
               /\ Store(k, NewRecord("building", NoImage))
               /\ locks' = [locks EXCEPT ![k] = Builder(p)] /\ since' = since
            \/ /\ build[p][k].pc \in {"built", "broken"} /\ build'[p][k].pc \in {"none", "stale"}
               /\ \E s \in {"failed", "ready"}, i \in Images \cup {NoImage} : Store(k, NewRecord(s, i))
               /\ since' = [since EXCEPT ![k] = 0] /\ Unlocked(k)
<1>1. build \in [Processes -> [Keys -> Task]] /\ build[p][k] \in Task
      /\ build[p][k].image \in Images \cup {NoImage} /\ user \in [Users -> Call]
  BY Zenon DEF TypeOK, Task
<1>2. CASE StartBuild(p, k)
  <2>1. CASE record[k].state \in {"ready", "deleting"}
    <3>1. UNCHANGED <<record, locks, env, sweep, since>> /\ \E i : Finish(p, k, i)
      BY Zenon, <1>2, <2>1 DEF StartBuild
    <3> QED BY Zenon, <3>1, FinishEffects
  <2>2. CASE record[k].state \notin {"ready", "deleting"}
    <3>1. build' = [build EXCEPT ![p][k].pc = "request"]
      BY Zenon, <1>2, <2>2 DEF StartBuild
    <3>2. \A q \in Processes, j \in Keys : q # p \/ j # k => build'[q][j] = build[q][j]
      BY Zenon, <1>1, <3>1
    <3> QED BY Zenon, <1>2, <2>2, <3>2 DEF StartBuild
  <2> QED BY Zenon, <2>1, <2>2
<1>3. CASE BuildLockTimeout(p, k)
  <2>1. UNCHANGED <<record, locks, env, sweep, since>> /\ Finish(p, k, NoImage)
    BY Zenon, <1>3 DEF BuildLockTimeout
  <2> QED BY Zenon, <2>1, FinishEffects
<1>4. CASE BuilderBuilds(p, k) \/ BuildTimesOut(p, k)
  <2>1. /\ UNCHANGED <<record, locks, sweep, since, user>> /\ (Fault \/ UNCHANGED env)
        /\ build[p][k].pc = "request"
        /\ \/ \E i \in env.images : build' = [build EXCEPT ![p][k] = [pc |-> "built", image |-> i]]
           \/ build' = [build EXCEPT ![p][k].pc = "broken"]
    BY Zenon, <1>4 DEF BuilderBuilds, BuildTimesOut
  <2>2. \A q \in Processes, j \in Keys : q # p \/ j # k => build'[q][j] = build[q][j]
    BY <1>1, <2>1
  <2> QED BY Zenon, <2>1, <2>2
<1>5. CASE StoreBuild(p, k)
  <2>1. /\ \E i \in Images \cup {NoImage} : Finish(p, k, i)
        /\ \E s \in {"failed", "ready"}, i \in Images \cup {NoImage} : Store(k, NewRecord(s, i))
        /\ build[p][k].pc \in {"built", "broken"}
        /\ since' = [since EXCEPT ![k] = 0] /\ Unlocked(k) /\ sweep' = sweep /\ UNCHANGED env
    BY Zenon, <1>1, <1>5 DEF StoreBuild
  <2> QED BY Zenon, <2>1, FinishEffects
<1> QED BY Zenon, <1>2, <1>3, <1>4, <1>5 DEF BuildStep

LEMMA NewRecordFields ==
  ASSUME NEW s, NEW i
  PROVE  NewRecord(s, i).state = s /\ NewRecord(s, i).marked = Unmarked
BY Zenon DEF NewRecord

(* What a step of a sweep does to the key it works on.                     *)
LEMMA SweepEffects ==
  ASSUME TypeOK, SweepsOwn, NEW p \in Processes, SweepStep(p)
  PROVE  LET k == Current(p)
             r == record[k]
             l == sweep[p].lag
         IN
         /\ UNCHANGED <<build, user, since>> /\ (Fault \/ UNCHANGED env)
         /\ \A q \in Processes : q # p => sweep'[q] = sweep[q]
         /\ \/ /\ UNCHANGED <<record, locks>>
               /\ sweep'[p].pc \in {"request", "remove", "failed"} =>
                    /\ sweep[p].pc \in {"request", "remove", "failed"}
                    /\ sweep'[p].todo = sweep[p].todo
            \/ /\ k \in Keys /\ locks[k] = Free /\ locks' = locks /\ sweep'[p].pc = "reconcile"
               /\ Store(k, reconcile_stale_build(r, l))
            \/ k \in Keys /\ locks' = locks /\ sweep'[p].pc = "mark" /\ Store(k, mark(r, l))
            \/ /\ k \in Keys /\ locks[k] = Free /\ Store(k, begin_delete(r, l))
               /\ ~Deletable(r, l) /\ locks' = locks /\ sweep'[p].pc = "delete"
            \/ /\ k \in Keys /\ locks[k] = Free /\ Store(k, begin_delete(r, l)) /\ Deletable(r, l)
               /\ locks' = [locks EXCEPT ![k] = Sweeper(p)] /\ sweep[p].todo # {}
               /\ sweep'[p].pc = "request" /\ sweep'[p].todo = sweep[p].todo
            \/ /\ k \in Keys /\ locks[k] = Sweeper(p) /\ r.state = "deleting"
               /\ \E s \in {"none", "deleting"}, i \in Images \cup {NoImage} : Store(k, NewRecord(s, i))
               /\ Unlocked(k) /\ sweep'[p].pc = "delete"
<1> DEFINE k == Current(p)
<1>1. /\ sweep \in [Processes -> Sweep] /\ sweep[p] \in Sweep
      /\ sweep[p].todo # {} => k \in Keys
      /\ sweep[p].pc \in {"request", "remove", "failed"} =>
           k \in Keys /\ locks[k] = Sweeper(p) /\ record[k].state = "deleting"
  BY Zenon, SweepFacts DEF TypeOK, SweepsOwn
<1>2. /\ k \in Keys => record[k].image \in Images \cup {NoImage}
      /\ NoImage \in Images \cup {NoImage}
  BY Zenon, EnvTypes
<1>3. ASSUME NEW pc, NEW todo, Phase(p, pc, todo)
      PROVE  /\ sweep'[p].pc = pc /\ sweep'[p].todo = todo
             /\ \A q \in Processes : q # p => sweep'[q] = sweep[q]
  BY Zenon, <1>1, <1>3 DEF Phase, Sweep
<1>4. ASSUME Done(p)
      PROVE  sweep'[p].pc = "delete" /\ \A q \in Processes : q # p => sweep'[q] = sweep[q]
  BY Zenon, <1>1, <1>4 DEF Done, Sweep
<1> HIDE DEF k
<1>5. CASE StartSweep(p) \/ LockSweep(p) \/ ListCandidates(p) \/ ListDeletions(p)
  BY <1>3, <1>5 DEF StartSweep, LockSweep, ListCandidates, ListDeletions
<1>6. CASE EndSweep(p) \/ SweepLockTimeout(p)
  <2>1. sweep' = [sweep EXCEPT ![p] = NoSweep] /\ UNCHANGED <<env, record, locks, build, user, since>>
    BY Zenon, <1>6 DEF EndSweep, SweepLockTimeout
  <2>2. sweep'[p].pc = "idle" /\ \A q \in Processes : q # p => sweep'[q] = sweep[q]
    BY Zenon, <1>1, <2>1 DEF NoSweep
  <2> QED BY Zenon, <2>1, <2>2
<1>7. CASE ReconcileStaleBuild(p)
  BY Zenon, <1>1, <1>3, <1>7 DEF ReconcileStaleBuild, k, Lag
<1>8. CASE MarkCandidate(p)
  BY Zenon, <1>1, <1>3, <1>8 DEF MarkCandidate, k, Lag
<1>9. CASE BeginDelete(p)
  BY Zenon, <1>1, <1>3, <1>4, <1>9 DEF BeginDelete, k, Lag
<1>10. CASE BuilderDeletes(p)
  <2>1. \E pc \in {"failed", "remove"} : Phase(p, pc, sweep[p].todo)
    BY Zenon, <1>10 DEF BuilderDeletes
  <2> QED BY Zenon, <1>3, <1>10, <2>1 DEF BuilderDeletes
<1>11. CASE DeleteRecord(p)
  BY Zenon, <1>1, <1>2, <1>4, <1>11 DEF DeleteRecord, k
<1>12. CASE DeletionFailed(p)
  BY Zenon, <1>1, <1>2, <1>4, <1>12 DEF DeletionFailed, deletion_failed, k
<1> QED BY <1>5, <1>6, <1>7, <1>8, <1>9, <1>10, <1>11, <1>12, ZenonT(30) DEF SweepStep

-----------------------------------------------------------------------------
(* A build that has written its record holds the lock of the key, like a   *)
(* sweep that deletes.  A lease counts in the store for at least as long   *)
(* as its holder believes.                                                 *)
BuildsOwn ==
  \A p \in Processes, k \in Keys : build[p][k].pc \in {"request", "built", "broken"} =>
    locks[k] = Builder(p) /\ record[k].state = "building"
LeasesLast ==
  \A u \in Users : user[u].left > 0 =>
    record[Key(u)].state = "ready" /\ user[u].left <= record[Key(u)].leases[u]

\* A mark is younger than the last lease, but for the lag of its sweep.
MarksFollow ==
  \A k \in Keys : record[k].state = "ready" /\ record[k].marked # Unmarked =>
    since[k] = Grace \/ record[k].marked <= since[k] + MaxLag

IInv == TypeOK /\ BuildsOwn /\ SweepsOwn /\ LeasesLast /\ MarksFollow

(* Calls outside W, whose leases a step does not shorten, keep them.       *)
LEMMA LeasesStay ==
  ASSUME TypeOK, TypeOK', LeasesLast, NEW W, \A u \in Users : Key(u)' = Key(u),
         \A v \in Users \ W : user'[v].left <= user[v].left,
         \A v \in Users \ W, k \in Keys : record[k].state = "ready" /\ record[k].leases[v] > 0 =>
           record'[k].state = "ready" /\ record'[k].leases[v] >= record[k].leases[v]
  PROVE  \A v \in Users \ W : user'[v].left > 0 =>
           record'[Key(v)'].state = "ready" /\ user'[v].left <= record'[Key(v)'].leases[v]
<1> SUFFICES ASSUME NEW v \in Users \ W, user'[v].left > 0
             PROVE  record'[Key(v)].state = "ready" /\ user'[v].left <= record'[Key(v)].leases[v]
  BY Zenon
<1>1. Key(v) \in Keys /\ record[Key(v)] \in Record
  BY Zenon, EnvTypes
<1>2. record' \in [Keys -> Record] /\ user' \in [Users -> Call] /\ user \in [Users -> Call]
  BY Zenon DEF TypeOK
<1>3. user'[v].left \in Int /\ user[v].left \in Int /\ record[Key(v)].leases[v] \in Int
      /\ record'[Key(v)].leases[v] \in Int
  <2>1. NoLease..Lease \subseteq Int /\ 0..Lease \subseteq Int
    BY PreparedAssumption DEF NoLease
  <2>2. user'[v].left \in 0..Lease /\ user[v].left \in 0..Lease
    BY Zenon, <1>2 DEF Call
  <2>3. record[Key(v)] \in Record /\ record'[Key(v)] \in Record
    BY Zenon, <1>1, <1>2
  <2>4. /\ record[Key(v)].leases \in [Users -> NoLease..Lease]
        /\ record'[Key(v)].leases \in [Users -> NoLease..Lease]
    BY Zenon, <2>3 DEF Record
  <2> QED BY Zenon, <2>1, <2>2, <2>4
<1>4. record[Key(v)].state = "ready" /\ user[v].left <= record[Key(v)].leases[v] /\ user[v].left > 0
  BY <1>3 DEF LeasesLast
<1> QED BY <1>1, <1>3, <1>4

(* A step of a call keeps the invariant.                                   *)
LEMMA UserInv ==
  ASSUME IInv, TypeOK', NEW u \in Users,
         \/ ensure_ready(u) \/ UserStep(u) \/ RenewUsage(u) \/ RenewalRaises(u) \/ CancelUse(u)
  PROVE  IInv'
<1> DEFINE k == Key(u)
<1>1. /\ TypeOK /\ BuildsOwn /\ SweepsOwn /\ LeasesLast /\ MarksFollow
      /\ k \in Keys /\ record[k] \in Record /\ record \in [Keys -> Record]
      /\ since \in [Keys -> 0..Grace] /\ 0 \in 0..MaxLag
  BY EnvTypes, PreparedAssumption DEF IInv, TypeOK
<1>2. \A v \in Users : Key(v)' = Key(v)
  BY Zenon, <1>1, UserEffects, KeysStay
<1>3. /\ locks' = locks /\ sweep' = sweep
      /\ \A v \in Users : v # u => user'[v] = user[v]
      /\ \/ record' = record /\ since' = since /\ user'[u].left \in {0, user[u].left}
         \/ /\ Store(k, acquire_usage(record[k], u)) /\ record[k].state = "ready"
            /\ since' = [since EXCEPT ![k] = 0] /\ user'[u].left \in {0, Lease}
         \/ /\ Store(k, renew_usage(record[k], u)) /\ record[k].state = "ready"
            /\ since' = since /\ user'[u].left = Lease
         \/ Store(k, release_usage(record[k], u)) /\ since' = since /\ user'[u].left = 0
  BY Zenon, <1>1, UserEffects
<1> HIDE DEF k
<1>4. \A j \in Keys : record'[j].state = record[j].state
  BY <1>1, <1>3, StatesKept DEF Store
<1>5. BuildsOwn' /\ SweepsOwn'
  <2>1. /\ \A q \in Processes, j \in Keys : build[q][j].pc \in {"request", "built", "broken"} =>
             locks'[j] = Builder(q) /\ record'[j].state = "building"
        /\ \A q \in Processes : sweep[q].pc \in {"request", "remove", "failed"} =>
             /\ sweep[q].todo # {} /\ locks'[Current(q)] = Sweeper(q)
             /\ record'[Current(q)].state = "deleting"
    <3>1. \A q \in Processes : sweep[q].todo # {} => Current(q) \in Keys
      BY Zenon, <1>1, SweepFacts
    <3> QED BY Zenon, <1>1, <1>3, <1>4, <3>1 DEF BuildsOwn, SweepsOwn
  <2>2. \A q \in Processes, j \in Keys :
           build'[q][j].pc \in {"request", "built", "broken"} => build'[q][j] = build[q][j]
    BY Zenon, <1>1, UserBuilds
  <2>3. BuildsOwn'
    BY <2>1, <2>2 DEF BuildsOwn, Builder
  <2>4. SweepsOwn'
    BY Zenon, <1>3, <2>1 DEF SweepsOwn, Sweeper, Current
  <2> QED BY Zenon, <2>3, <2>4
<1>6. LeasesLast'
  <2>1. \A v \in Users \ {u}, j \in Keys : record[j].state = "ready" /\ record[j].leases[v] > 0 =>
           record'[j].state = "ready" /\ record'[j].leases[v] >= record[j].leases[v]
    <3> SUFFICES ASSUME NEW v \in Users \ {u}, NEW j \in Keys,
                        record[j].state = "ready", record[j].leases[v] > 0
                 PROVE  record'[j].leases[v] >= record[j].leases[v]
      BY Zenon, <1>4
    <3>1. record[j].leases[v] \in Int
      BY <1>1, PreparedAssumption DEF Record, NoLease
    <3>2. CASE j # k \/ record' = record
      BY <1>1, <1>3, <3>1, <3>2 DEF Store
    <3>3. CASE j = k /\ record' # record
      <4>1. /\ acquire_usage(record[k], u).leases[v] >= record[k].leases[v]
            /\ renew_usage(record[k], u).leases[v] >= record[k].leases[v]
            /\ release_usage(record[k], u).leases[v] = record[k].leases[v]
        BY Zenon, <1>1, <3>3, Protects
      <4> QED BY <1>1, <1>3, <3>1, <3>3, <4>1 DEF Store
    <3> QED BY Zenon, <3>2, <3>3
  <2>2. \A v \in Users \ {u} : user'[v].left <= user[v].left
    BY <1>1, <1>3, PreparedAssumption DEF TypeOK, Call
  <2>3. \A v \in Users \ {u} : user'[v].left > 0 =>
          record'[Key(v)'].state = "ready" /\ user'[v].left <= record'[Key(v)'].leases[v]
    BY <1>1, <1>2, <2>1, <2>2, LeasesStay, ZenonT(30)
  <2>4. user'[u].left > 0 => record'[k].state = "ready" /\ user'[u].left <= record'[k].leases[u]
    <3>1. CASE record' = record /\ since' = since /\ user'[u].left \in {0, user[u].left}
      BY <1>1, <3>1 DEF LeasesLast, k
    <3>2. CASE Store(k, acquire_usage(record[k], u)) /\ record[k].state = "ready"
               /\ user'[u].left \in {0, Lease}
      BY <1>1, <3>2, StatesKept, PreparedAssumption DEF Store
    <3>3. CASE Store(k, renew_usage(record[k], u)) /\ record[k].state = "ready" /\ user'[u].left = Lease
      BY <1>1, <3>3, StatesKept, PreparedAssumption DEF Store
    <3>4. CASE user'[u].left = 0
      BY <3>4
    <3> QED BY Zenon, <1>3, <3>1, <3>2, <3>3, <3>4
  <2> QED BY Zenon, <1>2, <2>3, <2>4 DEF LeasesLast, k
<1>7. MarksFollow'
  <2> SUFFICES ASSUME NEW j \in Keys, record'[j].state = "ready", record'[j].marked # Unmarked
               PROVE  since'[j] = Grace \/ record'[j].marked <= since'[j] + MaxLag
    BY Zenon DEF MarksFollow
  <2>1. record'[j].marked = record[j].marked /\ since'[j] = since[j]
    BY <1>1, <1>3, StatesKept DEF Store
  <2> QED BY Zenon, <1>1, <1>4, <2>1 DEF MarksFollow
<1> QED BY Zenon, <1>5, <1>6, <1>7 DEF IInv

(* A step of a build keeps the invariant: it writes only a key whose lock  *)
(* is free or its own.                                                     *)
LEMMA BuildInv ==
  ASSUME IInv, TypeOK', NEW p \in Processes, NEW k \in Keys, BuildStep(p, k) \/ BuildTimesOut(p, k)
  PROVE  IInv'
<1> DEFINE Busy == {"request", "built", "broken"}
<1>1. /\ TypeOK /\ BuildsOwn /\ SweepsOwn /\ LeasesLast /\ MarksFollow
      /\ record \in [Keys -> Record] /\ locks \in [Keys -> Owner \cup {Free}]
      /\ since \in [Keys -> 0..Grace]
  BY Zenon DEF IInv, TypeOK
<1>2. /\ sweep' = sweep /\ (Fault \/ UNCHANGED env)
      /\ \A v \in Users : user'[v].left \in {0, user[v].left}
      /\ \A q \in Processes, j \in Keys : q # p \/ j # k => build'[q][j] = build[q][j]
      /\ \/ /\ UNCHANGED <<record, locks, since>>
            /\ build'[p][k].pc \in Busy => build[p][k].pc = "request"
         \/ /\ locks[k] = Free /\ record[k].state \notin {"ready", "deleting"}
            /\ Store(k, NewRecord("building", NoImage))
            /\ locks' = [locks EXCEPT ![k] = Builder(p)] /\ since' = since
         \/ /\ build[p][k].pc \in {"built", "broken"} /\ build'[p][k].pc \in {"none", "stale"}
            /\ \E s \in {"failed", "ready"}, i \in Images \cup {NoImage} : Store(k, NewRecord(s, i))
            /\ since' = [since EXCEPT ![k] = 0] /\ Unlocked(k)
  BY Zenon, <1>1, BuildEffects
<1>3. \A v \in Users : Key(v)' = Key(v)
  BY Zenon, <1>1, <1>2, KeysStay
<1>4. /\ \A q \in Processes : Builder(q) # Sweeper(p) /\ Builder(q) # Free /\ Sweeper(q) # Free
      /\ \A q \in Processes : Builder(p) # Sweeper(q) /\ (q # p => Builder(q) # Builder(p))
  BY PreparedAssumption DEF Builder, Sweeper, Owner
<1>5. \A q \in Processes : sweep[q].todo # {} => Current(q) \in Keys
  BY Zenon, <1>1, SweepFacts
<1>6. /\ \A j \in Keys : j # k => record'[j] = record[j] /\ locks'[j] = locks[j] /\ since'[j] = since[j]
      /\ record[k].state # "ready" \/ UNCHANGED <<record, locks, since>>
      /\ locks[k] \in {Free, Builder(p)} \/ UNCHANGED <<record, locks, since>>
  BY Zenon, <1>1, <1>2 DEF Store, Unlocked, BuildsOwn
<1>7. BuildsOwn'
  <2> SUFFICES ASSUME NEW q \in Processes, NEW j \in Keys, build'[q][j].pc \in Busy
               PROVE  locks'[j] = Builder(q) /\ record'[j].state = "building"
    BY Zenon DEF BuildsOwn, Builder
  <2>1. CASE q = p /\ j = k
    BY <1>1, <1>2, <2>1, NewRecordFields DEF Store, BuildsOwn
  <2>2. CASE q # p \/ j # k
    <3>1. locks[j] = Builder(q) /\ record[j].state = "building"
      BY Zenon, <1>1, <1>2, <2>2 DEF BuildsOwn
    <3> QED BY Zenon, <1>4, <1>6, <2>2, <3>1
  <2> QED BY Zenon, <2>1, <2>2
<1>8. SweepsOwn'
  BY <1>1, <1>2, <1>4, <1>5, <1>6 DEF SweepsOwn, Current, Sweeper
<1>9. LeasesLast'
  <2>1. \A v \in Users, j \in Keys : record[j].state = "ready" /\ record[j].leases[v] > 0 =>
           record'[j].state = "ready" /\ record'[j].leases[v] >= record[j].leases[v]
    BY <1>1, <1>6, Numbers
  <2>2. \A v \in Users : user'[v].left <= user[v].left
    BY <1>1, <1>2, Numbers
  <2>3. \A v \in Users \ {} : user'[v].left > 0 =>
          record'[Key(v)'].state = "ready" /\ user'[v].left <= record'[Key(v)'].leases[v]
    BY <1>1, <1>3, <2>1, <2>2, LeasesStay, ZenonT(30)
  <2> QED BY Zenon, <2>3 DEF LeasesLast
<1>10. MarksFollow'
  <2> SUFFICES ASSUME NEW j \in Keys, record'[j].state = "ready", record'[j].marked # Unmarked
               PROVE  since'[j] = Grace \/ record'[j].marked <= since'[j] + MaxLag
    BY Zenon DEF MarksFollow
  <2>1. record'[j] = record[j] /\ since'[j] = since[j]
    BY <1>1, <1>2, <1>6, NewRecordFields DEF Store
  <2> QED BY Zenon, <1>1, <2>1 DEF MarksFollow
<1> QED BY Zenon, <1>7, <1>8, <1>9, <1>10 DEF IInv

(* A step of a sweep keeps the invariant.                                  *)
LEMMA SweepInv ==
  ASSUME IInv, TypeOK', NEW p \in Processes, SweepStep(p)
  PROVE  IInv'
<1> DEFINE k == Current(p)
           r == record[k]
           l == sweep[p].lag
<1>1. /\ TypeOK /\ BuildsOwn /\ SweepsOwn /\ LeasesLast /\ MarksFollow
      /\ record \in [Keys -> Record] /\ locks \in [Keys -> Owner \cup {Free}]
      /\ since \in [Keys -> 0..Grace]
  BY Zenon DEF IInv, TypeOK
<1>2. /\ UNCHANGED <<build, user, since>> /\ (Fault \/ UNCHANGED env)
      /\ \A q \in Processes : q # p => sweep'[q] = sweep[q]
      /\ \/ /\ UNCHANGED <<record, locks>>
            /\ sweep'[p].pc \in {"request", "remove", "failed"} =>
                 /\ sweep[p].pc \in {"request", "remove", "failed"}
                 /\ sweep'[p].todo = sweep[p].todo
         \/ /\ k \in Keys /\ locks[k] = Free /\ locks' = locks /\ sweep'[p].pc = "reconcile"
            /\ Store(k, reconcile_stale_build(r, l))
         \/ k \in Keys /\ locks' = locks /\ sweep'[p].pc = "mark" /\ Store(k, mark(r, l))
         \/ /\ k \in Keys /\ locks[k] = Free /\ Store(k, begin_delete(r, l))
            /\ ~Deletable(r, l) /\ locks' = locks /\ sweep'[p].pc = "delete"
         \/ /\ k \in Keys /\ locks[k] = Free /\ Store(k, begin_delete(r, l)) /\ Deletable(r, l)
            /\ locks' = [locks EXCEPT ![k] = Sweeper(p)] /\ sweep[p].todo # {}
            /\ sweep'[p].pc = "request" /\ sweep'[p].todo = sweep[p].todo
         \/ /\ k \in Keys /\ locks[k] = Sweeper(p) /\ r.state = "deleting"
            /\ \E s \in {"none", "deleting"}, i \in Images \cup {NoImage} : Store(k, NewRecord(s, i))
            /\ Unlocked(k) /\ sweep'[p].pc = "delete"
  BY Zenon, <1>1, SweepEffects
<1>3. \A v \in Users : Key(v)' = Key(v)
  BY Zenon, <1>1, <1>2, KeysStay
<1>4. /\ l \in 0..MaxLag /\ (k \in Keys => r \in Record)
      /\ \A q \in Processes : sweep[q].todo # {} => Current(q) \in Keys
  BY Zenon, <1>1, SweepFacts
<1>5. /\ \A q \in Processes : Builder(q) # Sweeper(p) /\ Builder(q) # Free /\ Sweeper(q) # Free
      /\ \A q \in Processes : q # p => Sweeper(q) # Sweeper(p)
  BY PreparedAssumption DEF Builder, Sweeper, Owner
<1> HIDE DEF k, r, l
<1>6. \A j \in Keys : j # k => record'[j] = record[j] /\ locks'[j] = locks[j]
  BY Zenon, <1>1, <1>2 DEF Store, Unlocked
<1>6a. UNCHANGED <<user, since>>
  BY Zenon, <1>2
<1>6b. k \in Keys => \/ record'[k] \in {r, reconcile_stale_build(r, l), mark(r, l), begin_delete(r, l)}
                     \/ r.state = "deleting" /\ record'[k].state \in {"none", "deleting"}
  <2>1. \A t, i : NewRecord(t, i).state = t
    BY Zenon DEF NewRecord
  <2>2. \A x : k \in Keys /\ Store(k, x) => record'[k] = x
    BY Zenon, <1>1 DEF Store
  <2>3. UNCHANGED record => record'[k] = r
    BY Zenon DEF r
  <2>4. CASE r.state = "deleting" /\ \E t \in {"none", "deleting"}, i \in Images \cup {NoImage} :
                                        Store(k, NewRecord(t, i))
    BY <2>1, <2>2, <2>4
  <2>5. CASE \/ UNCHANGED record \/ Store(k, reconcile_stale_build(r, l)) \/ Store(k, mark(r, l))
             \/ Store(k, begin_delete(r, l))
    BY Zenon, <2>2, <2>3, <2>5
  <2> QED BY <1>2, <2>4, <2>5, ZenonT(30)
<1>7. locks[k] \notin {Free, Sweeper(p)} /\ k \in Keys =>
        locks'[k] = locks[k] /\ record'[k].state = record[k].state
  <2>1. k \in Keys => mark(r, l).state = r.state
    BY Zenon, <1>4, SweptStates
  <2> QED BY Zenon, <1>1, <1>2, <2>1 DEF Store, r
<1>8. BuildsOwn'
  <2> SUFFICES ASSUME NEW q \in Processes, NEW j \in Keys,
                      build[q][j].pc \in {"request", "built", "broken"}
               PROVE  locks'[j] = Builder(q) /\ record'[j].state = "building"
    BY Zenon, <1>2 DEF BuildsOwn, Builder
  <2>1. locks[j] = Builder(q) /\ record[j].state = "building"
    BY Zenon, <1>1 DEF BuildsOwn
  <2> QED BY Zenon, <1>5, <1>6, <1>7, <2>1
<1>9. SweepsOwn'
  <2> SUFFICES ASSUME NEW q \in Processes, sweep'[q].pc \in {"request", "remove", "failed"}
               PROVE  /\ sweep'[q].todo # {} /\ locks'[First(sweep'[q].todo)] = Sweeper(q)
                      /\ record'[First(sweep'[q].todo)].state = "deleting"
    BY Zenon DEF SweepsOwn, Current, Sweeper
  <2>1. CASE q # p
    <3>1. /\ sweep'[q] = sweep[q] /\ sweep[q].todo # {} /\ Current(q) \in Keys
          /\ locks[Current(q)] = Sweeper(q) /\ record[Current(q)].state = "deleting"
      BY Zenon, <1>1, <1>2, <1>4, <2>1 DEF SweepsOwn
    <3> QED BY Zenon, <1>5, <1>6, <1>7, <2>1, <3>1 DEF Current
  <2>2. CASE q = p
    <3>1. sweep'[p].todo = sweep[p].todo /\ sweep[p].todo # {}
      BY Zenon, <1>1, <1>2, <2>2 DEF SweepsOwn
    <3>2. CASE UNCHANGED <<record, locks>> /\ sweep[p].pc \in {"request", "remove", "failed"}
      BY Zenon, <1>1, <2>2, <3>1, <3>2 DEF SweepsOwn, Current
    <3>3. CASE /\ k \in Keys /\ Store(k, begin_delete(r, l)) /\ Deletable(r, l)
               /\ locks' = [locks EXCEPT ![k] = Sweeper(p)]
      <4>1. locks'[k] = Sweeper(p) /\ record'[k].state = "deleting"
        BY Zenon, <1>1, <1>4, <3>3, SweptStates DEF Store
      <4> QED BY Zenon, <2>2, <3>1, <4>1 DEF k, Current
    <3> QED BY Zenon, <1>2, <2>2, <3>2, <3>3
  <2> QED BY Zenon, <2>1, <2>2
<1>10. LeasesLast'
  <2>1. \A v \in Users, j \in Keys : record[j].state = "ready" /\ record[j].leases[v] > 0 =>
           record'[j].state = "ready" /\ record'[j].leases[v] >= record[j].leases[v]
    <3> SUFFICES ASSUME NEW v \in Users, NEW j \in Keys,
                        record[j].state = "ready", record[j].leases[v] > 0
                 PROVE  record'[j].state = "ready" /\ record'[j].leases[v] = record[j].leases[v]
      BY <1>1, Numbers
    <3>1. CASE j # k
      BY Zenon, <1>6, <3>1
    <3>2. CASE j = k
      <4>1. /\ mark(r, l) = r /\ reconcile_stale_build(r, l) = r
            /\ begin_delete(r, l).state = "ready" /\ begin_delete(r, l).leases[v] = r.leases[v]
        <5>1. r \in Record /\ r.state = "ready" /\ r.leases[v] > 0
          BY Zenon, <1>4, <3>2 DEF r
        <5>2. mark(r, l) = r /\ begin_delete(r, l).state = "ready" /\ begin_delete(r, l).leases[v] = r.leases[v]
          BY <1>4, <5>1, Protects, ZenonT(30)
        <5>3. reconcile_stale_build(r, l) = r
          BY <1>4, <5>1, SweptStates, ZenonT(30)
        <5> QED BY Zenon, <5>2, <5>3
      <4> QED BY Zenon, <1>6b, <3>2, <4>1 DEF r
    <3> QED BY Zenon, <3>1, <3>2
  <2>2. \A v \in Users : user'[v].left <= user[v].left
    BY <1>6a, <1>1, Numbers
  <2>3. \A v \in Users \ {} : user'[v].left > 0 =>
          record'[Key(v)'].state = "ready" /\ user'[v].left <= record'[Key(v)'].leases[v]
    BY <1>1, <1>3, <2>1, <2>2, LeasesStay, ZenonT(30)
  <2> QED BY Zenon, <2>3 DEF LeasesLast
<1>11. MarksFollow'
  <2> SUFFICES ASSUME NEW j \in Keys, record'[j].state = "ready", record'[j].marked # Unmarked
               PROVE  since[j] = Grace \/ record'[j].marked <= since[j] + MaxLag
    BY Zenon, <1>6a DEF MarksFollow
  <2>1. CASE j # k \/ record' = record
    BY Zenon, <1>1, <1>6, <2>1 DEF MarksFollow
  <2>2. CASE j = k /\ record' # record
    <3>1. record[k].state = "ready" /\ record'[k].marked \in {record[k].marked, l}
      <4>1. r \in Record
        BY Zenon, <1>4, <2>2
      <4>2. /\ mark(r, l).state = r.state /\ mark(r, l).marked \in {r.marked, l}
            /\ begin_delete(r, l).state = "ready" =>
                 r.state = "ready" /\ begin_delete(r, l).marked = r.marked
            /\ r.state = "ready" => reconcile_stale_build(r, l) = r
            /\ r.state # "ready" => reconcile_stale_build(r, l).state # "ready"
        BY Zenon, <1>4, <4>1, SweptStates
      <4> QED BY Zenon, <1>6b, <2>2, <4>2 DEF r
    <3>2. since[k] \in Nat /\ l <= since[k] + MaxLag
      BY <1>1, <1>4, <2>2, PreparedAssumption
    <3> QED BY Zenon, <1>1, <2>2, <3>1, <3>2 DEF MarksFollow
  <2> QED BY Zenon, <2>1, <2>2
<1> QED BY Zenon, <1>8, <1>9, <1>10, <1>11 DEF IInv

LEMMA CrashInv ==
  ASSUME IInv, TypeOK', NEW p \in Processes, Crash(p)
  PROVE  IInv'
<1>1. /\ TypeOK /\ BuildsOwn /\ SweepsOwn /\ LeasesLast /\ MarksFollow
      /\ locks \in [Keys -> Owner \cup {Free}]
      /\ build \in [Processes -> [Keys -> Task]] /\ sweep \in [Processes -> Sweep]
  BY Zenon DEF IInv, TypeOK
<1>2. \A v \in Users : Key(v)' = Key(v)
  BY Zenon, <1>1, KeysStay DEF Crash
<1>3. /\ \A q \in Processes : q # p => build'[q] = build[q] /\ sweep'[q] = sweep[q]
      /\ \A j \in Keys : build'[p][j].pc = "none"
      /\ sweep'[p].pc = "idle"
  BY Zenon, <1>1 DEF Crash, NoTask, NoSweep
<1>4. /\ \A j \in Keys : locks[j] \notin {Builder(p), Sweeper(p)} => locks'[j] = locks[j]
      /\ record' = record /\ since' = since
  BY Zenon DEF Crash
<1>5. \A q \in Processes : q # p =>
        {Builder(q), Sweeper(q)} \cap {Builder(p), Sweeper(p)} = {}
  BY DEF Builder, Sweeper
<1>6. BuildsOwn'
  BY <1>1, <1>3, <1>4, <1>5, ZenonT(30) DEF BuildsOwn, Builder
<1>7. SweepsOwn'
  <2> SUFFICES ASSUME NEW q \in Processes, sweep'[q].pc \in {"request", "remove", "failed"}
               PROVE  /\ sweep'[q].todo # {} /\ locks'[First(sweep'[q].todo)] = Sweeper(q)
                      /\ record'[First(sweep'[q].todo)].state = "deleting"
    BY Zenon DEF SweepsOwn, Current, Sweeper
  <2>1. q # p /\ sweep'[q] = sweep[q]
    BY Zenon, <1>3
  <2>2. /\ sweep[q].todo # {} /\ Current(q) \in Keys /\ locks[Current(q)] = Sweeper(q)
        /\ record[Current(q)].state = "deleting"
    BY Zenon, <1>1, <2>1, SweepFacts DEF SweepsOwn
  <2> QED BY <1>4, <1>5, <2>1, <2>2, ZenonT(30) DEF Current
<1>8. LeasesLast'
  <2>1. \A v \in Users : user'[v].left \in {0, user[v].left}
    BY Zenon DEF Crash, CallAt
  <2> QED BY <1>1, <1>2, <1>4, <2>1 DEF LeasesLast
<1>9. MarksFollow'
  BY Zenon, <1>1, <1>4 DEF MarksFollow
<1> QED BY Zenon, <1>6, <1>7, <1>8, <1>9 DEF IInv

LEMMA TickInv ==
  ASSUME IInv, TypeOK', Tick
  PROVE  IInv'
<1>1. /\ TypeOK /\ BuildsOwn /\ SweepsOwn /\ LeasesLast /\ MarksFollow
      /\ record \in [Keys -> Record] /\ sweep \in [Processes -> Sweep]
      /\ user \in [Users -> Call] /\ 0 \in 0..MaxLag
  BY PreparedAssumption DEF IInv, TypeOK
<1>2. \A v \in Users : Key(v)' = Key(v) /\ Key(v) \in Keys
  BY Zenon, <1>1, KeysStay, EnvTypes DEF Tick
<1>3. /\ \A j \in Keys : record'[j] = Older(record[j]) /\ record'[j].state = record[j].state
      /\ locks' = locks /\ build' = build
  BY Zenon, <1>1, SweptStates DEF Tick
<1>4. \A q \in Processes : sweep'[q].pc = sweep[q].pc /\ sweep'[q].todo = sweep[q].todo
  BY Zenon, <1>1 DEF Tick, Sweep
<1>5. BuildsOwn'
  BY Zenon, <1>1, <1>3 DEF BuildsOwn, Builder
<1>6. SweepsOwn'
  <2> SUFFICES ASSUME NEW q \in Processes, sweep[q].pc \in {"request", "remove", "failed"}
               PROVE  /\ sweep'[q].todo # {} /\ locks'[First(sweep'[q].todo)] = Sweeper(q)
                      /\ record'[First(sweep'[q].todo)].state = "deleting"
    BY Zenon, <1>4 DEF SweepsOwn, Current, Sweeper
  <2>1. /\ sweep[q].todo # {} /\ Current(q) \in Keys /\ locks[Current(q)] = Sweeper(q)
        /\ record[Current(q)].state = "deleting"
    BY Zenon, <1>1, SweepFacts DEF SweepsOwn
  <2> QED BY Zenon, <1>3, <1>4, <2>1 DEF Current
<1>7. LeasesLast'
  <2> SUFFICES ASSUME NEW v \in Users, user'[v].left > 0
               PROVE  /\ record'[Key(v)].state = "ready"
                      /\ user'[v].left <= record'[Key(v)].leases[v]
    BY Zenon, <1>2 DEF LeasesLast
  <2>1. user'[v].left = user[v].left - 1 /\ user[v].left > 0
    <3>1. user'[v].left = IF user[v].left > 0 THEN user[v].left - 1 ELSE 0
      BY Zenon, <1>1 DEF Tick, Call
    <3> QED BY <3>1
  <2>2. record[Key(v)].state = "ready" /\ user[v].left <= record[Key(v)].leases[v]
    BY Zenon, <1>1, <2>1 DEF LeasesLast
  <2>3. record[Key(v)].leases[v] \in Int /\ user[v].left \in Nat
    BY Zenon, <1>1, <1>2, Numbers
  <2>4. record'[Key(v)].leases[v] = record[Key(v)].leases[v] - 1
    <3>1. Key(v) \in Keys /\ record[Key(v)] \in Record /\ record[Key(v)].leases[v] > 0
      BY <1>1, <1>2, <2>1, <2>2, <2>3
    <3>2. Older(record[Key(v)]).leases[v] = record[Key(v)].leases[v] - 1
      BY <1>1, <2>2, <3>1, Protects, ZenonT(30)
    <3> QED BY Zenon, <1>3, <3>1, <3>2
  <2> QED BY <1>2, <1>3, <2>1, <2>2, <2>3, <2>4
<1>8. MarksFollow'
  <2> SUFFICES ASSUME NEW k \in Keys, record'[k].state = "ready", record'[k].marked # Unmarked
               PROVE  since'[k] = Grace \/ record'[k].marked <= since'[k] + MaxLag
    BY Zenon DEF MarksFollow
  <2>1. record[k].state = "ready" /\ since'[k] = Up(since[k], Grace)
    BY Zenon, <1>3 DEF Tick, Ready
  <2>2. record[k].marked # Unmarked /\ record'[k].marked = Up(record[k].marked, MaxAge)
    <3>1. record[k] \in Record
      BY Zenon, <1>1
    <3>2. Older(record[k]).marked = IF record[k].marked = Unmarked THEN Unmarked
                                    ELSE Up(record[k].marked, MaxAge)
      BY <1>1, <2>1, <3>1, SweptStates, ZenonT(30)
    <3> QED BY Zenon, <1>3, <3>2
  <2>3. since[k] \in 0..Grace /\ record[k].marked \in Unmarked..MaxAge
    BY Zenon, <1>1 DEF TypeOK, Record
  <2>4. since[k] = Grace \/ record[k].marked <= since[k] + MaxLag
    BY Zenon, <1>1, <2>1, <2>2 DEF MarksFollow
  <2> QED BY <2>1, <2>2, <2>3, <2>4, PreparedAssumption DEF Up, Unmarked
<1> QED BY Zenon, <1>5, <1>6, <1>7, <1>8 DEF IInv

LEMMA InvInit == Init => IInv
<1> SUFFICES ASSUME Init PROVE IInv
  BY Zenon
<1>1. TypeOK
  BY Zenon, TypeInit
<1>2. /\ \A p \in Processes, k \in Keys : build[p][k].pc = "none"
      /\ \A p \in Processes : sweep[p].pc = "idle"
      /\ \A k \in Keys : record[k].state = "none"
      /\ \A u \in Users : user[u].left = 0
  BY Zenon DEF Init, NoTask, NoSweep, NewRecord, CallAt
<1> QED BY <1>1, <1>2 DEF IInv, BuildsOwn, SweepsOwn, LeasesLast, MarksFollow

LEMMA InvStep == IInv /\ [Next]_vars => IInv'
<1> SUFFICES ASSUME IInv, [Next]_vars PROVE IInv'
  BY Zenon
<1>1. TypeOK'
  BY Zenon, TypeStep DEF IInv
<1>2. CASE UNCHANGED vars
  BY <1>1, <1>2 DEF vars, IInv, BuildsOwn, SweepsOwn, LeasesLast, MarksFollow, Key, Current,
                    Builder, Sweeper
<1>3. CASE \E j \in late : LateJob(j)
  BY <1>1, <1>3 DEF LateJob, IInv, BuildsOwn, SweepsOwn, LeasesLast, MarksFollow, Key, Current,
                    Builder, Sweeper
<1>4. CASE Next /\ ~(\E j \in late : LateJob(j))
  BY Zenon, <1>1, <1>4, UserInv, BuildInv, SweepInv, CrashInv, TickInv DEF Next
<1> QED BY Zenon, <1>2, <1>3, <1>4

LEMMA Invariance == Spec => []IInv
BY InvInit, InvStep, PTL DEF Spec

-----------------------------------------------------------------------------
(* The records, tasks, locks and sweeps keep their shapes: in particular no *)
(* lease outlives usage_lease_seconds and no sweep works on a foreign key.  *)
THEOREM Typing == Spec => []TypeOK
<1>1. IInv => TypeOK
  BY Zenon DEF IInv
<1> QED BY <1>1, Invariance, PTL

(* acquire_usage and renew_usage promise what no other operation of the     *)
(* store takes back: until the lease ends, the record is ready and holds    *)
(* it, for any number of sweeps with lagging clocks, crashes and builds.    *)
THEOREM LeasesHold == Spec => []LeaseStands
<1>1. IInv => LeaseStands
  <2> SUFFICES ASSUME IInv, NEW u \in Users, user[u].left > 0
               PROVE  record[Key(u)].state = "ready" /\ u \in active_leases(record[Key(u)], 0)
    BY Zenon DEF LeaseStands
  <2>1. record[Key(u)].leases[u] \in Int /\ user[u].left \in Nat
    BY Zenon, Numbers, EnvTypes DEF IInv
  <2>2. record[Key(u)].state = "ready" /\ user[u].left <= record[Key(u)].leases[u]
    BY Zenon DEF IInv, LeasesLast
  <2> QED BY <2>1, <2>2 DEF active_leases
<1> QED BY <1>1, Invariance, PTL

(* Under the build lock of the key _build and _delete_candidates find their *)
(* own record again at their second write.                                  *)
THEOREM OwnRecords == Spec => []WritersOwnTheRecord
<1>1. IInv => WritersOwnTheRecord
  BY Zenon DEF IInv, BuildsOwn, SweepsOwn, WritersOwnTheRecord
<1> QED BY <1>1, Invariance, PTL

(* mark and begin_delete together leave a ready environment alone for the   *)
(* grace period after its last lease, less what a sweep may last.           *)
THEOREM GraceHolds == Spec => GraceIsKept
<1> DEFINE A == \A k \in Keys : record[k].state = "ready" /\ record'[k].state = "deleting" =>
                  since[k] >= Grace - MaxLag
<1>1. IInv /\ [Next]_vars => [A]_vars
  <2> SUFFICES ASSUME IInv, Next, NEW k \in Keys, record[k].state = "ready",
                      record'[k].state = "deleting"
               PROVE  since[k] >= Grace - MaxLag
    BY Zenon
  <2>1. /\ TypeOK /\ SweepsOwn /\ MarksFollow /\ record \in [Keys -> Record]
        /\ since[k] \in 0..Grace /\ record[k].marked \in Unmarked..MaxAge
    BY Zenon DEF IInv, TypeOK, Record
  <2>1a. \A j \in Keys : \A x : Store(j, x) => record'[k] = IF j = k THEN x ELSE record[k]
    BY Zenon, <2>1 DEF Store
  <2>2. ASSUME NEW u \in Users,
               \/ ensure_ready(u) \/ UserStep(u) \/ RenewUsage(u) \/ RenewalRaises(u) \/ CancelUse(u)
        PROVE  FALSE
    <3>1. Key(u) \in Keys /\ record[Key(u)] \in Record /\ 0 \in 0..MaxLag
      BY <2>1, EnvTypes, PreparedAssumption
    <3>2. record' = record \/ \E x : Store(Key(u), x) /\ x.state = record[Key(u)].state
      <4>1. \/ record' = record \/ Store(Key(u), acquire_usage(record[Key(u)], u))
            \/ Store(Key(u), renew_usage(record[Key(u)], u))
            \/ Store(Key(u), release_usage(record[Key(u)], u))
        BY <2>1, <2>2, UserEffects, ZenonT(30)
      <4>2. /\ acquire_usage(record[Key(u)], u).state = record[Key(u)].state
            /\ renew_usage(record[Key(u)], u).state = record[Key(u)].state
            /\ release_usage(record[Key(u)], u).state = record[Key(u)].state
        BY <3>1, StatesKept, ZenonT(30)
      <4> QED BY <4>1, <4>2, ZenonT(30)
    <3> QED BY Zenon, <2>1a, <3>1, <3>2
  <2>3. ASSUME NEW p \in Processes, NEW j \in Keys, BuildStep(p, j) \/ BuildTimesOut(p, j)
        PROVE  FALSE
    <3>1. record' = record \/ \E x : Store(j, x) /\ x.state # "deleting"
      <4>1. record' = record \/ \E t \in {"building", "failed", "ready"} : \E i : Store(j, NewRecord(t, i))
        BY <2>1, <2>3, BuildEffects, ZenonT(30)
      <4>2. \A t \in {"building", "failed", "ready"} : \A i : NewRecord(t, i).state # "deleting"
        BY Zenon, NewRecordFields
      <4> QED BY <4>1, <4>2, ZenonT(30)
    <3> QED BY Zenon, <2>1a, <3>1
  <2>4. ASSUME NEW p \in Processes, SweepStep(p)
        PROVE  since[k] >= Grace - MaxLag
    <3>1. sweep[p].lag \in 0..MaxLag
      BY Zenon, <2>1, SweepFacts
    <3>2. k = Current(p) /\ Deletable(record[k], sweep[p].lag)
      <4>1. \/ record' = record
            \/ Store(Current(p), reconcile_stale_build(record[Current(p)], sweep[p].lag))
            \/ Store(Current(p), mark(record[Current(p)], sweep[p].lag))
            \/ Store(Current(p), begin_delete(record[Current(p)], sweep[p].lag))
            \/ record[Current(p)].state = "deleting" /\ \E r : Store(Current(p), r)
        BY <2>1, <2>4, SweepEffects, ZenonT(30)
      <4>2. record[k] \in Record
        BY Zenon, <2>1
      <4>3. /\ mark(record[k], sweep[p].lag).state = "ready"
            /\ reconcile_stale_build(record[k], sweep[p].lag).state = "ready"
            /\ ~Deletable(record[k], sweep[p].lag) => begin_delete(record[k], sweep[p].lag).state = "ready"
        BY Zenon, <3>1, <4>2, SweptStates
      <4> QED BY Zenon, <2>1, <4>1, <4>3 DEF Store
    <3>3. record[k].marked # Unmarked /\ record[k].marked - sweep[p].lag >= Grace
      BY Zenon, <3>2 DEF Deletable
    <3> QED BY <2>1, <3>1, <3>3, PreparedAssumption DEF MarksFollow, Unmarked
  <2>5. ASSUME NEW p \in Processes, Crash(p)
        PROVE  FALSE
    BY Zenon, <2>5 DEF Crash
  <2>6. ASSUME NEW j \in late, LateJob(j)
        PROVE  FALSE
    BY Zenon, <2>6 DEF LateJob
  <2>7. ASSUME Tick
        PROVE  FALSE
    <3>1. 0 \in 0..MaxLag
      BY PreparedAssumption
    <3> QED BY Zenon, <2>1, <2>7, <3>1, SweptStates DEF Tick
  <2> QED BY Zenon, <2>2, <2>3, <2>4, <2>5, <2>6, <2>7 DEF Next
<1>2. Spec => [][A]_vars
  BY <1>1, Invariance, PTL DEF Spec
<1> QED BY Zenon, <1>2 DEF GraceIsKept
=============================================================================
