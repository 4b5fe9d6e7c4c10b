----------------------- MODULE SnapshotRefresh_proofs -----------------------
(***************************************************************************)
(* Proofs about the refresh of the resource snapshot: SnapshotLeader, for  *)
(* any number of pools and providers and any expiry that is at least the   *)
(* deadline of a round, and ResourceSnapshot, for any resources and any    *)
(* thresholds.                                                             *)
(***************************************************************************)
EXTENDS ResourceSnapshot, SnapshotLeader, TLAPS

-----------------------------------------------------------------------------
(* Who refreshes: SnapshotLeader *)

(* A round that can still issue a command holds the lock, and the lock has *)
(* at least as long to live as the round's context.                        *)
RoundHoldsLock ==
  \A p \in Pools : pc[p] \in InRound /\ left[p] > 0 => lock = p /\ ttl >= left[p]

(* Nobody has written since such a round read the previous snapshot.       *)
RoundIsCurrent ==
  \A p \in Pools : pc[p] \in InRound \ {"load"} /\ left[p] > 0 => ~stale[p]

(* A leadership is renewed for a provider that is still to be counted.     *)
RenewHasProvider == \A p \in Pools : pc[p] = "renew" => todo[p] > 0

LeaderInv == LeaderTypeOK /\ RenewHasProvider /\ RoundHoldsLock /\ RoundIsCurrent

(* Every state the pools reach is well typed.                              *)
LEMMA LeaderTypePreserved == LeaderTypeOK /\ RenewHasProvider /\ [LeaderNext]_leaderVars => LeaderTypeOK'
<1> SUFFICES ASSUME LeaderTypeOK, RenewHasProvider, [LeaderNext]_leaderVars PROVE LeaderTypeOK'
  OBVIOUS
<1> USE LeaderAssumption
<1>1. CASE UNCHANGED leaderVars
  BY <1>1 DEF LeaderTypeOK, leaderVars
<1>2. CASE LeaderTick
  <2>1. /\ ttl' \in 0..TTL /\ lock' \in Pools \cup {None} /\ faults' \in Nat
    BY <1>2 DEF LeaderTypeOK, LeaderTick, Less
  <2>2. left' \in [Pools -> 0..Deadline] /\ wait' \in [Pools -> 0..Interval]
    BY <1>2 DEF LeaderTypeOK, LeaderTick, Less
  <2>3. fresh' \in BOOLEAN /\ UNCHANGED <<pc, todo, listed, stale, alive>>
    BY <1>2 DEF LeaderTick, round
  <2> QED BY <2>1, <2>2, <2>3 DEF LeaderTypeOK
<1>3. ASSUME NEW p \in Pools, Act(p) PROVE LeaderTypeOK'
  <2>1. CASE RunBackgroundRefreshOnce(p)
    BY <2>1 DEF LeaderTypeOK, RunBackgroundRefreshOnce, Goto, Steps, round
  <2>2. CASE BecomeLeader(p)
    BY <2>2 DEF LeaderTypeOK, BecomeLeader, AcquireLockNonblockingWithValue, Goto, Steps, InRound, round, timers
  <2>3. CASE NotLeader(p)
    BY <2>3 DEF LeaderTypeOK, NotLeader, Goto, Steps, round
  <2>4. CASE LoadPreviousSnapshots(p)
    BY <2>4 DEF LeaderTypeOK, LoadPreviousSnapshots, Goto, Steps, InRound, timers
  <2>5. CASE ProviderListed(p)
    BY <2>5 DEF LeaderTypeOK, ProviderListed, Goto, Steps, InRound, timers
  <2>6. CASE RenewRefreshLeadership(p)
    <3>1. todo[p] \in 0..Providers /\ todo[p] > 0
      BY <2>6 DEF LeaderTypeOK, RenewHasProvider, RenewRefreshLeadership
    <3> QED BY <2>6, <3>1 DEF LeaderTypeOK, RenewRefreshLeadership, Grantable, AcquireLockNonblockingWithValue,
             Goto, Steps, InRound, timers
  <2>7. CASE ProvidersDone(p)
    BY <2>7 DEF LeaderTypeOK, ProvidersDone, Goto, Steps, InRound, timers, round
  <2>8. CASE PersistTypeSnapshots(p)
    <3>1. stale' \in [Pools -> BOOLEAN] /\ fresh' \in BOOLEAN
      BY <2>8, Zenon DEF LeaderTypeOK, PersistTypeSnapshots, Write
    <3>2. pc' \in [Pools -> Steps] /\ left' \in [Pools -> 0..Deadline]
      BY <2>8 DEF LeaderTypeOK, PersistTypeSnapshots, Goto, Steps
    <3>3. UNCHANGED <<lock, ttl, wait, todo, listed, alive, faults>>
      BY <2>8 DEF PersistTypeSnapshots
    <3> QED BY <3>1, <3>2, <3>3 DEF LeaderTypeOK
  <2>9. CASE ContextOver(p)
    BY <2>9 DEF LeaderTypeOK, ContextOver, Goto, Steps, timers, round
  <2>10. CASE ReleaseRefreshLeadership(p)
    BY <2>10 DEF LeaderTypeOK, ReleaseRefreshLeadership, ReleaseLock, Goto, Steps, round
  <2> QED BY <1>3, <2>1, <2>2, <2>3, <2>4, <2>5, <2>6, <2>7, <2>8, <2>9, <2>10 DEF Act
<1>4. ASSUME NEW p \in Pools, Fault(p) PROVE LeaderTypeOK'
  <2>1. CASE ProviderFailed(p)
    BY <2>1 DEF LeaderTypeOK, ProviderFailed, timers
  <2>2. CASE CallFails(p)
    <3>1. stale' \in [Pools -> BOOLEAN] /\ fresh' \in BOOLEAN
      BY <2>2, Zenon DEF LeaderTypeOK, CallFails, Write
    <3>2. pc' \in [Pools -> Steps] /\ faults' \in Nat
      BY <2>2 DEF LeaderTypeOK, CallFails, Goto, Steps
    <3>3. UNCHANGED <<lock, ttl, left, wait, todo, listed, alive>>
      BY <2>2 DEF CallFails, timers
    <3> QED BY <3>1, <3>2, <3>3 DEF LeaderTypeOK
  <2>3. CASE Crash(p)
    BY <2>3 DEF LeaderTypeOK, Crash, Goto, Steps, round
  <2> QED BY <1>4, <2>1, <2>2, <2>3 DEF Fault
<1> QED BY <1>1, <1>2, <1>3, <1>4 DEF LeaderNext

(* The renewal of the leadership follows the answer of an uncounted        *)
(* provider.                                                               *)
LEMMA RenewPreserved == LeaderTypeOK /\ RenewHasProvider /\ [LeaderNext]_leaderVars => RenewHasProvider'
<1> SUFFICES ASSUME LeaderTypeOK, RenewHasProvider, [LeaderNext]_leaderVars PROVE RenewHasProvider'
  OBVIOUS
<1>1. CASE UNCHANGED leaderVars
  BY <1>1 DEF LeaderTypeOK, RenewHasProvider, leaderVars
<1>2. CASE LeaderTick
  BY <1>2 DEF LeaderTypeOK, RenewHasProvider, LeaderTick, round
<1>3. ASSUME NEW q \in Pools, Act(q) PROVE RenewHasProvider'
  <2>1. CASE RunBackgroundRefreshOnce(q)
    BY <2>1 DEF LeaderTypeOK, RenewHasProvider, RunBackgroundRefreshOnce, Goto, timers, round
  <2>2. CASE BecomeLeader(q)
    BY <2>2 DEF LeaderTypeOK, RenewHasProvider, BecomeLeader, Goto, timers, round
  <2>3. CASE NotLeader(q)
    BY <2>3 DEF LeaderTypeOK, RenewHasProvider, NotLeader, Goto, timers, round
  <2>4. CASE LoadPreviousSnapshots(q)
    BY <2>4 DEF LeaderTypeOK, RenewHasProvider, LoadPreviousSnapshots, Goto, timers, round
  <2>5. CASE ProviderListed(q)
    BY <2>5 DEF LeaderTypeOK, RenewHasProvider, ProviderListed, Goto, timers, round
  <2>6. CASE RenewRefreshLeadership(q)
    BY <2>6 DEF LeaderTypeOK, RenewHasProvider, RenewRefreshLeadership, Goto, timers, round
  <2>7. CASE ProvidersDone(q)
    BY <2>7 DEF LeaderTypeOK, RenewHasProvider, ProvidersDone, Goto, timers, round
  <2>8. CASE PersistTypeSnapshots(q)
    BY <2>8 DEF LeaderTypeOK, RenewHasProvider, PersistTypeSnapshots, Goto, timers, round
  <2>9. CASE ContextOver(q)
    BY <2>9 DEF LeaderTypeOK, RenewHasProvider, ContextOver, Goto, timers, round
  <2>10. CASE ReleaseRefreshLeadership(q)
    BY <2>10 DEF LeaderTypeOK, RenewHasProvider, ReleaseRefreshLeadership, Goto, timers, round
  <2> QED BY <1>3, <2>1, <2>2, <2>3, <2>4, <2>5, <2>6, <2>7, <2>8, <2>9, <2>10 DEF Act
<1>4. ASSUME NEW q \in Pools, Fault(q) PROVE RenewHasProvider'
  <2>1. CASE ProviderFailed(q)
    BY <2>1 DEF LeaderTypeOK, RenewHasProvider, ProviderFailed, Goto, timers, round
  <2>2. CASE CallFails(q)
    BY <2>2 DEF LeaderTypeOK, RenewHasProvider, CallFails, Goto, timers, round
  <2>3. CASE Crash(q)
    BY <2>3 DEF LeaderTypeOK, RenewHasProvider, Crash, Goto, timers, round
  <2> QED BY <1>4, <2>1, <2>2, <2>3 DEF Fault
<1> QED BY <1>1, <1>2, <1>3, <1>4 DEF LeaderNext

(* Only the holder of the lock takes a step of a round, only its own steps *)
(* or the passing of time change its lock, and a tick takes as much from   *)
(* the expiry as from the deadline.                                        *)
LEMMA LockPreserved == LeaderTypeOK /\ RoundHoldsLock /\ [LeaderNext]_leaderVars => RoundHoldsLock'
<1> SUFFICES ASSUME LeaderTypeOK, RoundHoldsLock, [LeaderNext]_leaderVars PROVE RoundHoldsLock'
  OBVIOUS
<1> USE LeaderAssumption
<1>1. CASE UNCHANGED leaderVars
  BY <1>1 DEF LeaderTypeOK, RoundHoldsLock, InRound, leaderVars
<1>2. CASE LeaderTick
  <2> SUFFICES ASSUME NEW p \in Pools, pc'[p] \in InRound, left'[p] > 0
               PROVE lock' = p /\ ttl' >= left'[p]
    BY DEF RoundHoldsLock
  <2>1. left[p] > 1 /\ left'[p] = left[p] - 1 /\ pc[p] \in InRound
    BY <1>2 DEF LeaderTypeOK, LeaderTick, Less
  <2>2. lock = p /\ ttl >= left[p] /\ ttl \in Nat /\ left[p] \in Nat
    BY <2>1 DEF RoundHoldsLock, LeaderTypeOK
  <2> QED BY <1>2, <2>1, <2>2 DEF LeaderTick, Less
<1>3. ASSUME NEW q \in Pools, Act(q) PROVE RoundHoldsLock'
  <2>1. CASE RunBackgroundRefreshOnce(q)
    BY <2>1 DEF LeaderTypeOK, RoundHoldsLock, InRound, RunBackgroundRefreshOnce, Goto, timers, round
  <2>2. CASE BecomeLeader(q)
    BY <2>2 DEF LeaderTypeOK, RoundHoldsLock, InRound, BecomeLeader, Goto, timers, round, AcquireLockNonblockingWithValue, Grantable
  <2>3. CASE NotLeader(q)
    BY <2>3 DEF LeaderTypeOK, RoundHoldsLock, InRound, NotLeader, Goto, timers, round
  <2>4. CASE LoadPreviousSnapshots(q)
    BY <2>4 DEF LeaderTypeOK, RoundHoldsLock, InRound, LoadPreviousSnapshots, Goto, timers, round
  <2>5. CASE ProviderListed(q)
    BY <2>5 DEF LeaderTypeOK, RoundHoldsLock, InRound, ProviderListed, Goto, timers, round
  <2>6. CASE RenewRefreshLeadership(q)
    BY <2>6 DEF LeaderTypeOK, RoundHoldsLock, InRound, RenewRefreshLeadership, Goto, timers, round, AcquireLockNonblockingWithValue, Grantable
  <2>7. CASE ProvidersDone(q)
    BY <2>7 DEF LeaderTypeOK, RoundHoldsLock, InRound, ProvidersDone, Goto, timers, round
  <2>8. CASE PersistTypeSnapshots(q)
    BY <2>8 DEF LeaderTypeOK, RoundHoldsLock, InRound, PersistTypeSnapshots, Goto, timers, round
  <2>9. CASE ContextOver(q)
    BY <2>9 DEF LeaderTypeOK, RoundHoldsLock, InRound, ContextOver, Goto, timers, round
  <2>10. CASE ReleaseRefreshLeadership(q)
    BY <2>10 DEF LeaderTypeOK, RoundHoldsLock, InRound, ReleaseRefreshLeadership, Goto, timers, round, ReleaseLock
  <2> QED BY <1>3, <2>1, <2>2, <2>3, <2>4, <2>5, <2>6, <2>7, <2>8, <2>9, <2>10 DEF Act
<1>4. ASSUME NEW q \in Pools, Fault(q) PROVE RoundHoldsLock'
  <2>1. CASE ProviderFailed(q)
    BY <2>1 DEF LeaderTypeOK, RoundHoldsLock, InRound, ProviderFailed, Goto, timers, round
  <2>2. CASE CallFails(q)
    BY <2>2 DEF LeaderTypeOK, RoundHoldsLock, InRound, CallFails, Goto, timers, round
  <2>3. CASE Crash(q)
    BY <2>3 DEF LeaderTypeOK, RoundHoldsLock, InRound, Crash, Goto, timers, round
  <2> QED BY <1>4, <2>1, <2>2, <2>3 DEF Fault
<1> QED BY <1>1, <1>2, <1>3, <1>4 DEF LeaderNext

(* A write makes other rounds out of date; the writer holds the lock, so   *)
(* no other round has time left.                                           *)
LEMMA CurrentPreserved ==
  LeaderTypeOK /\ RoundHoldsLock /\ RoundIsCurrent /\ [LeaderNext]_leaderVars => RoundIsCurrent'
<1> SUFFICES ASSUME LeaderTypeOK, RoundHoldsLock, RoundIsCurrent, [LeaderNext]_leaderVars PROVE RoundIsCurrent'
  OBVIOUS
<1> USE LeaderAssumption
<1>1. CASE UNCHANGED leaderVars
  BY <1>1 DEF LeaderTypeOK, RoundIsCurrent, RoundHoldsLock, InRound, leaderVars
<1>2. CASE LeaderTick
  BY <1>2 DEF LeaderTypeOK, RoundIsCurrent, InRound, LeaderTick, Less, round
<1>3. ASSUME NEW q \in Pools, Act(q) PROVE RoundIsCurrent'
  <2>1. CASE RunBackgroundRefreshOnce(q)
    BY <2>1 DEF LeaderTypeOK, RoundIsCurrent, RoundHoldsLock, InRound, RunBackgroundRefreshOnce, Goto, timers, round
  <2>2. CASE BecomeLeader(q)
    BY <2>2 DEF LeaderTypeOK, RoundIsCurrent, RoundHoldsLock, InRound, BecomeLeader, Goto, timers, round
  <2>3. CASE NotLeader(q)
    BY <2>3 DEF LeaderTypeOK, RoundIsCurrent, RoundHoldsLock, InRound, NotLeader, Goto, timers, round
  <2>4. CASE LoadPreviousSnapshots(q)
    BY <2>4 DEF LeaderTypeOK, RoundIsCurrent, RoundHoldsLock, InRound, LoadPreviousSnapshots, Goto, timers, round
  <2>5. CASE ProviderListed(q)
    BY <2>5 DEF LeaderTypeOK, RoundIsCurrent, RoundHoldsLock, InRound, ProviderListed, Goto, timers, round
  <2>6. CASE RenewRefreshLeadership(q)
    BY <2>6 DEF LeaderTypeOK, RoundIsCurrent, RoundHoldsLock, InRound, RenewRefreshLeadership, Goto, timers, round
  <2>7. CASE ProvidersDone(q)
    BY <2>7 DEF LeaderTypeOK, RoundIsCurrent, RoundHoldsLock, InRound, ProvidersDone, Goto, timers, round
  <2>8. CASE PersistTypeSnapshots(q)
    BY <2>8 DEF LeaderTypeOK, RoundIsCurrent, RoundHoldsLock, InRound, PersistTypeSnapshots, Goto, timers, round, Write
  <2>9. CASE ContextOver(q)
    BY <2>9 DEF LeaderTypeOK, RoundIsCurrent, RoundHoldsLock, InRound, ContextOver, Goto, timers, round
  <2>10. CASE ReleaseRefreshLeadership(q)
    BY <2>10 DEF LeaderTypeOK, RoundIsCurrent, RoundHoldsLock, InRound, ReleaseRefreshLeadership, Goto, timers, round
  <2> QED BY <1>3, <2>1, <2>2, <2>3, <2>4, <2>5, <2>6, <2>7, <2>8, <2>9, <2>10 DEF Act
<1>4. ASSUME NEW q \in Pools, Fault(q) PROVE RoundIsCurrent'
  <2>1. CASE ProviderFailed(q)
    BY <2>1 DEF LeaderTypeOK, RoundIsCurrent, RoundHoldsLock, InRound, ProviderFailed, Goto, timers, round
  <2>2. CASE CallFails(q)
    BY <2>2 DEF LeaderTypeOK, RoundIsCurrent, RoundHoldsLock, InRound, CallFails, Goto, timers, round, Write
  <2>3. CASE Crash(q)
    BY <2>3 DEF LeaderTypeOK, RoundIsCurrent, RoundHoldsLock, InRound, Crash, Goto, timers, round
  <2> QED BY <1>4, <2>1, <2>2, <2>3 DEF Fault
<1> QED BY <1>1, <1>2, <1>3, <1>4 DEF LeaderNext

(* The invariant holds in every state the pools reach.                     *)
THEOREM LeaderInvariance == LeaderSpec => []LeaderInv
<1>1. LeaderInit => LeaderInv
  <2> SUFFICES ASSUME LeaderInit PROVE LeaderInv
    OBVIOUS
  <2>1. listed \in [Pools -> BOOLEAN] /\ stale \in [Pools -> BOOLEAN] /\ fresh \in BOOLEAN
    BY Zenon DEF LeaderInit
  <2>2. LeaderTypeOK
    BY <2>1, LeaderAssumption DEF LeaderInit, LeaderTypeOK, Steps
  <2>3. RenewHasProvider /\ RoundHoldsLock /\ RoundIsCurrent
    BY DEF LeaderInit, RenewHasProvider, RoundHoldsLock, RoundIsCurrent, InRound
  <2> QED BY <2>2, <2>3 DEF LeaderInv
<1>2. LeaderInv /\ [LeaderNext]_leaderVars => LeaderInv'
  BY LeaderTypePreserved, RenewPreserved, LockPreserved, CurrentPreserved DEF LeaderInv
<1> QED BY <1>1, <1>2, PTL DEF LeaderSpec

(* For any expiry that is at least a round's deadline there is one leader  *)
(* at a time (pool.go refreshResources), although the lock expires by      *)
(* itself and is never checked when a snapshot is written.                 *)
THEOREM LeaderIsUnique == LeaderSpec => []OneLeader
<1>1. LeaderInv => OneLeader
  BY DEF LeaderInv, RoundHoldsLock, OneLeader
<1> QED BY <1>1, LeaderInvariance, PTL

(* For the same reason a refresh never overwrites a snapshot it has not    *)
(* read (pool.go persistTypeSnapshots).                                    *)
THEOREM RefreshNeverLost == LeaderSpec => []NoLostRefresh
<1>1. LeaderInv => NoLostRefresh
  BY DEF LeaderInv, RoundIsCurrent, NoLostRefresh, InRound
<1> QED BY <1>1, LeaderInvariance, PTL

-----------------------------------------------------------------------------
(* What a refresh stores: ResourceSnapshot *)

(* An available resource that carries no mark, or that the last stored     *)
(* listing names, was available in that listing.                           *)
AvailableIsListed ==
  \A r \in known :
    status[r] = "available" /\ (since[r] = NotMissing \/ r \in DOMAIN recorded)
      => Says(recorded, r, "available")

(* A hidden resource has been marked for long enough to be hidden again.   *)
HiddenIsOld == \A r \in known : status[r] = "unavailable" => since[r] >= HideAfter

(* A resource that does not count as observed is marked.                   *)
UnobservedIsMarked == \A r \in known : ~observed[r] => since[r] # NotMissing

IInv == TypeOK /\ AvailableIsListed /\ HiddenIsOld /\ UnobservedIsMarked

(* What a listing is.                                                      *)
LEMMA ListingFacts ==
  ASSUME NEW L \in Listings
  PROVE  DOMAIN L \subseteq Resources /\ \A r \in DOMAIN L : L[r] \in {"available", "unhealthy"}
BY DEF Listings

(* Ages stay within the horizon, and a threshold once reached stays so.    *)
LEMMA OlderFacts ==
  ASSUME NEW n \in NotMissing..Horizon
  PROVE  /\ Older(n) \in NotMissing..Horizon
         /\ Older(n) = NotMissing <=> n = NotMissing
         /\ n <= Older(n)
         /\ \A k \in NotMissing..Horizon : n <= k => Older(n) <= Older(k)
BY SnapshotAssumption DEF Older, NotMissing

(* The age a missing resource is given is a time, and not before its mark. *)
LEMMA MissingSinceFacts ==
  ASSUME TypeOK, NEW r \in Resources
  PROVE  /\ MissingSince(r) \in 0..Horizon
         /\ since[r] # NotMissing => MissingSince(r) = since[r]
BY DEF TypeOK, MissingSince, NotMissing

(* Folding a believed listing into the snapshot keeps it well typed, lists *)
(* what it shows as available, hides only old marks and marks what it does *)
(* not observe; and a resource it makes available was listed so, or was    *)
(* available before.                                                       *)
LEMMA BelievedStep ==
  ASSUME IInv, NEW L \in Listings, BuildNextSnapshotResources(L), recorded' = L
  PROVE  /\ known' \subseteq Resources /\ status' \in [Resources -> Statuses]
         /\ since' \in [Resources -> NotMissing..Horizon] /\ age' \in 0..Horizon
         /\ AvailableIsListed' /\ HiddenIsOld' /\ UnobservedIsMarked'
         /\ \A r \in known' : status'[r] = "available" =>
              IF r \in DOMAIN L THEN L[r] = "available" ELSE r \in known /\ status[r] = "available"
<1> USE SnapshotAssumption
<1>1. TypeOK /\ AvailableIsListed /\ HiddenIsOld /\ UnobservedIsMarked
  BY DEF IInv
<1>2. DOMAIN L \subseteq Resources /\ \A r \in DOMAIN L : L[r] \in {"available", "unhealthy"}
  BY ListingFacts
<1>3. known' \subseteq Resources /\ age' \in 0..Horizon
  BY <1>1, <1>2 DEF BuildNextSnapshotResources, TypeOK
<1>4. ASSUME NEW r \in Resources, r \in DOMAIN L
      PROVE  /\ since'[r] = FromCurrentSince(L, r) /\ status'[r] = FromCurrentStatus(L, r)
             /\ FromCurrentSince(L, r) \in NotMissing..Horizon
             /\ FromCurrentStatus(L, r) \in Statuses
             /\ status'[r] = "available" => L[r] = "available"
             /\ status'[r] = "unavailable" => since'[r] >= HideAfter
             /\ observed'[r]
  <2>1. since'[r] = FromCurrentSince(L, r) /\ status'[r] = FromCurrentStatus(L, r) /\ observed'[r]
    BY <1>4 DEF BuildNextSnapshotResources
  <2>2. FromCurrentSince(L, r) \in NotMissing..Horizon
    BY <1>1 DEF FromCurrentSince, TypeOK, NotMissing
  <2> QED BY <2>1, <2>2, <1>2, <1>4 DEF FromCurrentStatus, Statuses
<1>5. ASSUME NEW r \in Resources, r \notin DOMAIN L, r \in known
      PROVE  /\ since'[r] = MissingSince(r) /\ status'[r] = FromMissingStatus(r)
             /\ since'[r] \in 0..Horizon
             /\ FromMissingStatus(r) \in Statuses
             /\ status'[r] = "available" => status[r] = "available"
             /\ status'[r] = "unavailable" => since'[r] >= HideAfter
  <2>1. since'[r] = MissingSince(r) /\ status'[r] = FromMissingStatus(r)
    BY <1>5 DEF BuildNextSnapshotResources
  <2>2. MissingSince(r) \in 0..Horizon /\ (since[r] # NotMissing => MissingSince(r) = since[r])
    BY <1>1, MissingSinceFacts
  <2>3. status[r] \in Statuses /\ since[r] \in NotMissing..Horizon
    BY <1>1 DEF TypeOK
  <2>4. status[r] = "unavailable" => MissingSince(r) >= HideAfter
    BY <1>1, <1>5, <2>2, <2>3 DEF HiddenIsOld, NotMissing
  <2> QED BY <2>1, <2>2, <2>3, <2>4 DEF FromMissingStatus, Statuses
<1>6. ASSUME NEW r \in Resources, r \notin DOMAIN L, r \notin known
      PROVE  since'[r] = since[r] /\ status'[r] = status[r]
  BY <1>6 DEF BuildNextSnapshotResources
<1>7. status' \in [Resources -> Statuses] /\ since' \in [Resources -> NotMissing..Horizon]
  <2>1. status' = [r \in Resources |-> status'[r]] /\ since' = [r \in Resources |-> since'[r]]
    BY DEF BuildNextSnapshotResources
  <2>2. \A r \in Resources : status'[r] \in Statuses /\ since'[r] \in NotMissing..Horizon
    BY <1>1, <1>4, <1>5, <1>6 DEF TypeOK, NotMissing
  <2> QED BY <2>1, <2>2
<1>8. \A r \in known' : r \in DOMAIN L \/ (r \notin DOMAIN L /\ r \in known)
  BY DEF BuildNextSnapshotResources
<1>9. HiddenIsOld'
  BY <1>3, <1>4, <1>5, <1>8 DEF HiddenIsOld
<1>10. UnobservedIsMarked'
  BY <1>3, <1>4, <1>5, <1>8 DEF UnobservedIsMarked, NotMissing
<1>11. AvailableIsListed'
  BY <1>3, <1>4, <1>5, <1>8 DEF AvailableIsListed, Says, NotMissing
<1>12. \A r \in known' : status'[r] = "available" =>
         IF r \in DOMAIN L THEN L[r] = "available" ELSE r \in known /\ status[r] = "available"
  BY <1>3, <1>4, <1>5, <1>8
<1> QED BY <1>3, <1>7, <1>9, <1>10, <1>11, <1>12

(* Merging a listing whose shrink is delayed does the same, and adds       *)
(* nothing to the snapshot.                                                *)
LEMMA DelayedStep ==
  ASSUME IInv, NEW L \in Listings, DelaySnapshotShrink(L), recorded' = L
  PROVE  /\ known' \subseteq Resources /\ status' \in [Resources -> Statuses]
         /\ since' \in [Resources -> NotMissing..Horizon] /\ age' \in 0..Horizon
         /\ AvailableIsListed' /\ HiddenIsOld' /\ UnobservedIsMarked'
         /\ \A r \in known' : status'[r] = "available" =>
              IF r \in DOMAIN L THEN L[r] = "available" ELSE r \in known /\ status[r] = "available"
<1> USE SnapshotAssumption
<1>1. TypeOK /\ AvailableIsListed /\ HiddenIsOld /\ UnobservedIsMarked
  BY DEF IInv
<1>2. DOMAIN L \subseteq Resources /\ \A r \in DOMAIN L : L[r] \in {"available", "unhealthy"}
  BY ListingFacts
<1>3. known' = known /\ known \subseteq Resources /\ age' \in 0..Horizon
  BY <1>1 DEF DelaySnapshotShrink, TypeOK
<1>4. ASSUME NEW r \in known, r \in DOMAIN L
      PROVE  status'[r] = L[r] /\ since'[r] = NotMissing /\ observed'[r]
  BY <1>3, <1>4 DEF DelaySnapshotShrink
<1>5. ASSUME NEW r \in Resources, r \notin known \cap DOMAIN L
      PROVE  /\ status'[r] = status[r] /\ (observed'[r] <=> observed[r])
             /\ since'[r] = since[r] \/ since'[r] = 0
             /\ since[r] # NotMissing => since'[r] = since[r]
             /\ r \in known /\ observed[r] => since'[r] # NotMissing
  <2>1. status'[r] = status[r] /\ (observed'[r] <=> observed[r])
    BY <1>5 DEF DelaySnapshotShrink
  <2>2. since'[r] = IF r \in MissingObserved(L) /\ since[r] = NotMissing THEN 0 ELSE since[r]
    BY <1>5 DEF DelaySnapshotShrink
  <2>3. r \in known /\ observed[r] => r \in MissingObserved(L)
    BY <1>5 DEF MissingObserved
  <2> QED BY <2>1, <2>2, <2>3 DEF NotMissing
<1>6. status' \in [Resources -> Statuses] /\ since' \in [Resources -> NotMissing..Horizon]
  <2>1. status' = [r \in Resources |-> status'[r]] /\ since' = [r \in Resources |-> since'[r]]
    BY DEF DelaySnapshotShrink
  <2>2. ASSUME NEW r \in Resources PROVE status'[r] \in Statuses /\ since'[r] \in NotMissing..Horizon
    <3>1. status[r] \in Statuses /\ since[r] \in NotMissing..Horizon
      BY <1>1 DEF TypeOK
    <3>2. CASE r \in known \cap DOMAIN L
      BY <3>2, <1>2, <1>4 DEF Statuses, NotMissing
    <3>3. CASE r \notin known \cap DOMAIN L
      BY <3>1, <3>3, <1>5 DEF NotMissing
    <3> QED BY <3>2, <3>3
  <2> QED BY <2>1, <2>2
<1>7. HiddenIsOld'
  <2> SUFFICES ASSUME NEW r \in known, status'[r] = "unavailable" PROVE since'[r] >= HideAfter
    BY <1>3 DEF HiddenIsOld
  <2>1. r \notin DOMAIN L
    BY <1>2, <1>4
  <2>2. status[r] = "unavailable" /\ since[r] >= HideAfter /\ since[r] \in NotMissing..Horizon
    BY <2>1, <1>1, <1>3, <1>5 DEF HiddenIsOld, TypeOK
  <2> QED BY <2>1, <2>2, <1>3, <1>5 DEF NotMissing
<1>8. UnobservedIsMarked'
  <2> SUFFICES ASSUME NEW r \in known, ~observed'[r] PROVE since'[r] # NotMissing
    BY <1>3 DEF UnobservedIsMarked
  <2>1. r \notin DOMAIN L
    BY <1>4
  <2> QED BY <2>1, <1>1, <1>3, <1>5 DEF UnobservedIsMarked
<1>9. AvailableIsListed'
  <2> SUFFICES ASSUME NEW r \in known, status'[r] = "available",
                      since'[r] = NotMissing \/ r \in DOMAIN L
               PROVE  Says(L, r, "available")
    BY <1>3 DEF AvailableIsListed, Says
  <2>1. CASE r \in DOMAIN L
    BY <2>1, <1>4 DEF Says
  <2>2. CASE r \notin DOMAIN L
    BY <2>2, <1>1, <1>3, <1>5 DEF UnobservedIsMarked
  <2> QED BY <2>1, <2>2
<1>10. \A r \in known' : status'[r] = "available" =>
         IF r \in DOMAIN L THEN L[r] = "available" ELSE r \in known /\ status[r] = "available"
  BY <1>3, <1>4, <1>5
<1> QED BY <1>3, <1>6, <1>7, <1>8, <1>9, <1>10

(* Either way, a stored round keeps the snapshot in order.                 *)
LEMMA StoredRound ==
  ASSUME IInv, BuildAcceptedSnapshot(world), recorded' = world
  PROVE  /\ known' \subseteq Resources /\ status' \in [Resources -> Statuses]
         /\ since' \in [Resources -> NotMissing..Horizon] /\ age' \in 0..Horizon
         /\ AvailableIsListed' /\ HiddenIsOld' /\ UnobservedIsMarked'
         /\ \A r \in known' : status'[r] = "available" =>
              IF r \in DOMAIN recorded' THEN recorded'[r] = "available"
              ELSE r \in known /\ status[r] = "available"
<1>1. world \in Listings
  BY DEF IInv, TypeOK
<1>2. CASE Believed(world)
  BY <1>1, <1>2, BelievedStep DEF BuildAcceptedSnapshot
<1>3. CASE ~Believed(world)
  BY <1>1, <1>3, DelayedStep DEF BuildAcceptedSnapshot
<1> QED BY <1>2, <1>3

LEMMA ObservedType ==
  ASSUME TypeOK, BuildAcceptedSnapshot(world)
  PROVE  observed' \in [Resources -> BOOLEAN]
<1>1. CASE BuildNextSnapshotResources(world)
  <2>1. observed' = [r \in Resources |-> r \in DOMAIN world]
    BY <1>1 DEF BuildNextSnapshotResources
  <2>2. \A r \in Resources : (r \in DOMAIN world) \in BOOLEAN
    OBVIOUS
  <2> QED BY <2>1, <2>2, Zenon
<1>2. CASE DelaySnapshotShrink(world)
  BY <1>2, Zenon DEF DelaySnapshotShrink
<1> QED BY <1>1, <1>2 DEF BuildAcceptedSnapshot

(* The reconciliation of some leases keeps their marks well typed.         *)
LEMMA ReconcileType ==
  ASSUME TypeOK, NEW S, NEW entries \in SUBSET held, ReconcileLeaseProviderState(S, entries)
  PROVE  held' \subseteq Resources /\ missing' \in [Resources -> NotMissing..Horizon]
<1>1. held' \subseteq Resources
  BY DEF ReconcileLeaseProviderState, TypeOK
<1>2. missing' \in [Resources -> NotMissing..Horizon]
  BY SnapshotAssumption DEF ReconcileLeaseProviderState, TypeOK, NotMissing
<1> QED BY <1>1, <1>2

LEMMA NotedType ==
  ASSUME TypeOK, Noted(world)
  PROVE  bad' \in [Resources -> NotMissing..Horizon]
BY SnapshotAssumption DEF Noted, TypeOK, NotMissing

LEMMA EventType == ASSUME TypeOK, Event PROVE events' \in 0..MaxEvents
BY SnapshotAssumption DEF Event, TypeOK

(* Every step keeps the invariant.                                         *)
LEMMA StepPreserves == IInv /\ [Next]_vars => IInv'
<1> SUFFICES ASSUME IInv, [Next]_vars PROVE IInv'
  OBVIOUS
<1>t. TypeOK /\ AvailableIsListed /\ HiddenIsOld /\ UnobservedIsMarked
  BY DEF IInv
<1>1. CASE UNCHANGED vars
  BY <1>1, <1>t DEF vars, snapshot, leases, history, IInv, TypeOK, AvailableIsListed, HiddenIsOld,
                UnobservedIsMarked, Says
<1>2. ASSUME UNCHANGED <<known, status, observed, since, recorded>>
      PROVE  AvailableIsListed' /\ HiddenIsOld' /\ UnobservedIsMarked'
  BY <1>2, <1>t DEF AvailableIsListed, HiddenIsOld, UnobservedIsMarked, Says
<1>3. CASE RefreshResources
  <2>1. BuildAcceptedSnapshot(world) /\ recorded' = world /\ Noted(world)
        /\ ReconcileLeaseProviderState(AcceptedStatuses(world), held)
        /\ due' = FALSE /\ UNCHANGED <<world, events, cut>>
    BY <1>3 DEF RefreshResources
  <2>2. held' \subseteq Resources /\ missing' \in [Resources -> NotMissing..Horizon]
    BY <2>1, <1>t, ReconcileType
  <2> QED BY <2>1, <2>2, <1>t, StoredRound, ObservedType, NotedType DEF IInv, TypeOK
<1>4. CASE RefreshUnreconciled
  <2>1. BuildAcceptedSnapshot(world) /\ recorded' = world /\ Noted(world)
        /\ Event /\ due' = FALSE /\ cut' = TRUE /\ UNCHANGED world
    BY <1>4 DEF RefreshUnreconciled
  <2>2. held' \subseteq Resources /\ missing' \in [Resources -> NotMissing..Horizon]
    BY <1>4, <1>t, ReconcileType DEF RefreshUnreconciled
  <2> QED BY <2>1, <2>2, <1>t, StoredRound, ObservedType, NotedType, EventType DEF IInv, TypeOK
<1>5. CASE RefreshAborted
  BY <1>5, <1>t, <1>2, NotedType, EventType DEF RefreshAborted, snapshot, leases, IInv, TypeOK
<1>6. CASE ListResourcesFails
  BY <1>6, <1>t, <1>2, EventType DEF ListResourcesFails, snapshot, leases, IInv, TypeOK
<1>7. CASE ProviderChanges
  BY <1>7, <1>t, <1>2, EventType DEF ProviderChanges, snapshot, leases, history, IInv, TypeOK
<1>8. ASSUME NEW r \in Resources, AssignSandbox(r) \/ UnassignSandbox(r) PROVE IInv'
  <2>1. held' \subseteq Resources /\ missing' \in [Resources -> NotMissing..Horizon]
    BY <1>8, <1>t, SnapshotAssumption DEF AssignSandbox, UnassignSandbox, TypeOK, NotMissing
  <2> QED BY <1>8, <2>1, <1>t, <1>2 DEF AssignSandbox, UnassignSandbox, snapshot, history, IInv, TypeOK
<1>9. CASE Tick
  <2>1. /\ since' = [r \in Resources |-> Older(since[r])] /\ missing' = [r \in Resources |-> Older(missing[r])]
        /\ bad' = [r \in Resources |-> Older(bad[r])] /\ age' = Older(age) /\ due' = TRUE
        /\ UNCHANGED <<world, known, status, observed, held, recorded, cut>>
    BY <1>9 DEF Tick
  <2>2. /\ \A r \in Resources : since[r] \in NotMissing..Horizon
        /\ \A r \in Resources : missing[r] \in NotMissing..Horizon
        /\ \A r \in Resources : bad[r] \in NotMissing..Horizon
        /\ age \in 0..Horizon /\ known \subseteq Resources
    BY <1>t DEF TypeOK
  <2>3. /\ since' \in [Resources -> NotMissing..Horizon] /\ missing' \in [Resources -> NotMissing..Horizon]
        /\ bad' \in [Resources -> NotMissing..Horizon]
    BY <2>1, <2>2, OlderFacts
  <2>4. age' \in 0..Horizon
    BY <2>1, <2>2, SnapshotAssumption DEF Older, NotMissing
  <2>5. events' \in 0..MaxEvents
    BY <1>9, <1>t, EventType DEF Tick, TypeOK
  <2>6. TypeOK'
    BY <2>1, <2>3, <2>4, <2>5, <1>t DEF TypeOK
  <2>7. \A r \in known : /\ since'[r] \in Int /\ since[r] \in Int
                         /\ since'[r] = NotMissing <=> since[r] = NotMissing
                         /\ since[r] <= since'[r]
    BY <2>1, <2>2, OlderFacts, SnapshotAssumption DEF NotMissing
  <2>8. HiddenIsOld'
    BY <2>1, <2>7, <1>t, SnapshotAssumption DEF HiddenIsOld
  <2>9. UnobservedIsMarked' /\ AvailableIsListed'
    BY <2>1, <2>7, <1>t DEF UnobservedIsMarked, AvailableIsListed, Says
  <2> QED BY <2>6, <2>8, <2>9 DEF IInv
<1> QED BY <1>1, <1>3, <1>4, <1>5, <1>6, <1>7, <1>8, <1>9 DEF Next, Round

(* The invariant holds in every state the snapshot reaches.                *)
THEOREM Invariance == Spec => []IInv
<1>1. Init => IInv
  <2> SUFFICES ASSUME Init PROVE IInv
    OBVIOUS
  <2> USE SnapshotAssumption
  <2>1. EmptyListing \in Listings
    <3>1. EmptyListing \in [{} -> {"available", "unhealthy"}]
      BY DEF EmptyListing
    <3> QED BY <3>1 DEF Listings
  <2>2. observed \in [Resources -> BOOLEAN] /\ due \in BOOLEAN /\ cut \in BOOLEAN
    BY Zenon DEF Init
  <2>3. TypeOK
    BY <2>1, <2>2 DEF Init, TypeOK, Statuses, NotMissing
  <2>4. AvailableIsListed /\ HiddenIsOld /\ UnobservedIsMarked
    BY DEF Init, AvailableIsListed, HiddenIsOld, UnobservedIsMarked
  <2> QED BY <2>3, <2>4 DEF IInv
<1>2. IInv /\ [Next]_vars => IInv'
  BY StepPreserves
<1> QED BY <1>1, <1>2, PTL DEF Spec

(* For any resources and thresholds, whatever rounds fail or are cut, only *)
(* what the last stored listing had available is allocatable, and only     *)
(* while that listing is recent (service.go allocatableResources).         *)
THEOREM OnlyListedIsAllocatable == Spec => []AllocatableIsListed
<1>1. IInv => AllocatableIsListed
  <2> SUFFICES ASSUME IInv, NEW r \in Resources, Allocatable(r)
               PROVE  Says(recorded, r, "available") /\ age <= UnhealthyAfter
    BY DEF AllocatableIsListed
  <2>1. status[r] = "available" /\ age <= UnhealthyAfter
    BY SnapshotAssumption DEF IInv, TypeOK, Allocatable, Shown
  <2> QED BY <2>1 DEF IInv, AvailableIsListed, Allocatable
<1> QED BY <1>1, Invariance, PTL

(* For any resources and thresholds no step makes a resource available     *)
(* that the provider did not list as available: the step that turns        *)
(* unavailable into available is always undone, because what is hidden     *)
(* has been marked long enough (pool.go nextSnapshotResourceFromMissing).  *)
THEOREM NoResurrection == Spec => NothingResurrected
<1> DEFINE Keeps ==
      \A r \in Resources :
        r \in known' /\ status'[r] = "available" =>
          IF r \in DOMAIN recorded' THEN recorded'[r] = "available"
          ELSE r \in known /\ status[r] = "available"
<1>1. ASSUME IInv, [Next]_vars PROVE Keeps
  <2>1. ASSUME UNCHANGED <<known, status, recorded>> PROVE Keeps
    BY <2>1, <1>1 DEF IInv, AvailableIsListed, Says
  <2>2. CASE RefreshResources \/ RefreshUnreconciled
    <3>1. BuildAcceptedSnapshot(world) /\ recorded' = world
      BY <2>2 DEF RefreshResources, RefreshUnreconciled
    <3> QED BY <3>1, <1>1, StoredRound
  <2>3. CASE ~(RefreshResources \/ RefreshUnreconciled)
    BY <1>1, <2>1, <2>3 DEF Next, Round, RefreshAborted, ListResourcesFails, ProviderChanges, Tick,
       AssignSandbox, UnassignSandbox, snapshot, history, vars
  <2> QED BY <2>2, <2>3
<1>2. IInv /\ [Next]_vars => [Keeps]_vars
  BY <1>1
<1> QED BY <1>2, Invariance, PTL DEF Spec, NothingResurrected

(* A leased resource is in the snapshot, and as long as no round was cut   *)
(* the mark on its lease is no older than the first listing that did not   *)
(* have it available.                                                      *)
MarkIsNotEarly ==
  held \subseteq known /\ (~cut => \A r \in held : missing[r] <= bad[r])

(* A complete round keeps this: a listing that has the resource available  *)
(* clears the mark, whether or not the listing is believed.                *)
LEMMA RoundMarks ==
  ASSUME IInv, MarkIsNotEarly, RefreshResources
  PROVE  MarkIsNotEarly'
<1> USE SnapshotAssumption
<1>1. /\ BuildAcceptedSnapshot(world) /\ Noted(world)
      /\ ReconcileLeaseProviderState(AcceptedStatuses(world), held)
  BY DEF RefreshResources
<1>2. known \subseteq known' /\ held' \subseteq held
  BY <1>1 DEF BuildAcceptedSnapshot, BuildNextSnapshotResources, DelaySnapshotShrink, ReconcileLeaseProviderState
<1>3. ASSUME NEW r \in held', ~cut' PROVE missing'[r] <= bad'[r]
  <2>1. r \in held /\ r \in known /\ r \in Resources
    BY <1>2, <1>3 DEF MarkIsNotEarly, IInv, TypeOK
  <2>2. /\ missing[r] \in NotMissing..Horizon /\ bad[r] \in NotMissing..Horizon
        /\ missing[r] <= bad[r]
    BY <1>3, <2>1 DEF RefreshResources, MarkIsNotEarly, IInv, TypeOK
  <2>3. CASE Says(world, r, "available")
    <3>1. Says(AcceptedStatuses(world), r, "available")
      BY <2>3 DEF AcceptedStatuses, Says
    <3>2. missing'[r] = NotMissing
      BY <1>1, <2>1, <3>1 DEF ReconcileLeaseProviderState
    <3>3. bad'[r] = NotMissing
      BY <1>1, <2>1, <2>3 DEF Noted
    <3> QED BY <3>2, <3>3 DEF NotMissing
  <2>4. CASE ~Says(world, r, "available")
    <3>1. bad'[r] = IF bad[r] = NotMissing THEN 0 ELSE bad[r]
      BY <1>1, <2>1, <2>4 DEF Noted
    <3>2. missing'[r] \in {NotMissing, 0, missing[r]} /\ (missing'[r] = 0 => missing[r] \in {NotMissing, 0})
      BY <1>1, <2>1 DEF ReconcileLeaseProviderState, NotMissing
    <3> QED BY <2>2, <3>1, <3>2 DEF NotMissing
  <2> QED BY <2>3, <2>4
<1> QED BY <1>2, <1>3 DEF MarkIsNotEarly

LEMMA StepMarks ==
  ASSUME IInv, MarkIsNotEarly, [Next]_vars
  PROVE  MarkIsNotEarly'
<1> USE SnapshotAssumption
<1>1. CASE RefreshResources
  BY <1>1, RoundMarks
<1>2. CASE RefreshUnreconciled \/ RefreshAborted
  BY <1>2 DEF RefreshUnreconciled, RefreshAborted, BuildAcceptedSnapshot, BuildNextSnapshotResources,
     DelaySnapshotShrink, ReconcileLeaseProviderState, snapshot, leases, MarkIsNotEarly
<1>3. CASE ListResourcesFails \/ ProviderChanges \/ UNCHANGED vars
  BY <1>3 DEF ListResourcesFails, ProviderChanges, vars, snapshot, leases, history, MarkIsNotEarly
<1>4. ASSUME NEW r \in Resources, AssignSandbox(r) \/ UnassignSandbox(r) PROVE MarkIsNotEarly'
  <2>1. /\ missing' = [missing EXCEPT ![r] = NotMissing] /\ UNCHANGED <<known, bad, cut>>
        /\ held' \subseteq held \cup {r} /\ held' \subseteq known
    BY <1>4 DEF AssignSandbox, UnassignSandbox, Allocatable, snapshot, history, MarkIsNotEarly
  <2>2. missing \in [Resources -> NotMissing..Horizon] /\ bad \in [Resources -> NotMissing..Horizon]
    BY DEF IInv, TypeOK
  <2> QED BY <2>1, <2>2 DEF MarkIsNotEarly, NotMissing
<1>5. CASE Tick
  <2>1. /\ missing' = [r \in Resources |-> Older(missing[r])]
        /\ bad' = [r \in Resources |-> Older(bad[r])] /\ UNCHANGED <<known, held, cut>>
    BY <1>5 DEF Tick
  <2>2. \A r \in held : /\ r \in Resources /\ missing[r] \in NotMissing..Horizon
                        /\ bad[r] \in NotMissing..Horizon /\ (~cut => missing[r] <= bad[r])
    BY DEF IInv, TypeOK, MarkIsNotEarly
  <2> QED BY <2>1, <2>2, OlderFacts DEF MarkIsNotEarly
<1> QED BY <1>1, <1>2, <1>3, <1>4, <1>5 DEF Next, Round

(* For any resources and thresholds, as long as no round was cut between   *)
(* its writes, a round drops a lease only after no listing of the whole    *)
(* delay had the resource available (pool.go reconcileLeaseEntry).         *)
THEOREM LeaseNotDroppedEarly == Spec => LeaseDroppedLate
<1> DEFINE Late == \A r \in Resources : due /\ ~due' /\ ~cut' /\ r \in held \ held' => bad[r] >= DeleteAfter
<1>1. Init => MarkIsNotEarly
  BY DEF Init, MarkIsNotEarly
<1>2. IInv /\ MarkIsNotEarly /\ [Next]_vars => MarkIsNotEarly'
  BY StepMarks
<1>3. IInv /\ MarkIsNotEarly /\ [Next]_vars => [Late]_vars
  <2> SUFFICES ASSUME IInv, MarkIsNotEarly, Next,
                      NEW r \in Resources, due, ~due', ~cut', r \in held, r \notin held'
               PROVE  bad[r] >= DeleteAfter
    OBVIOUS
  <2>1. CASE RefreshResources
    <3>1. missing[r] >= DeleteAfter /\ missing[r] <= bad[r]
      BY <2>1 DEF RefreshResources, ReconcileLeaseProviderState, Expired, MarkIsNotEarly
    <3>2. missing[r] \in Int /\ bad[r] \in Int
      BY SnapshotAssumption DEF IInv, TypeOK, NotMissing
    <3> QED BY <3>1, <3>2, SnapshotAssumption
  <2>2. CASE ~RefreshResources
    BY <2>2 DEF Next, Round, RefreshUnreconciled, RefreshAborted, ListResourcesFails, ProviderChanges, Tick,
       AssignSandbox, UnassignSandbox, leases
  <2> QED BY <2>1, <2>2
<1>4. Spec => []MarkIsNotEarly
  BY <1>1, <1>2, Invariance, PTL DEF Spec
<1> QED BY <1>3, <1>4, Invariance, PTL DEF Spec, LeaseDroppedLate
=============================================================================
