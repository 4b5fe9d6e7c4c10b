-------------------------- MODULE ResourceSnapshot --------------------------
(***************************************************************************)
(* The shared snapshot of one provider's sandboxes.                        *)
(*                                                                         *)
(* The leader of SnapshotLeader lists the provider's resources every       *)
(* interval and folds the listing into the snapshot that every allocation  *)
(* reads.  A listing is not believed at once: a resource that disappears   *)
(* is kept until the same smaller listing was seen twice (a pending        *)
(* shrink), then kept through a grace period, then shown as unhealthy, then *)
(* hidden; its lease is dropped only much later.  A snapshot nobody        *)
(* refreshed degrades by itself when it is read.                           *)
(*                                                                         *)
(* One round is one step, as SnapshotLeader shows that rounds exclude each *)
(* other; a round that dies after it wrote the pending shrink and before   *)
(* it wrote the snapshot is a step of its own.  Times are ages in ticks of *)
(* one refresh interval, and stop growing at Horizon.                      *)
(***************************************************************************)
EXTENDS Integers, FiniteSets

CONSTANTS
  Resources,
  Confirmations,     \* shrinkConfirmations
  Window,            \* pendingShrinkWindow
  PendingTTL,        \* expiry of the pending-shrink key
  MarkAfter,         \* missingLeaseMarkAfter
  HideAfter,         \* missingLeaseHideAfter
  DeleteAfter,       \* missingLeaseDeleteAfter
  UnhealthyAfter,    \* snapshotUnhealthyAfter
  UnavailableAfter,  \* snapshotUnavailableAfter
  Horizon,           \* age at which all ages stop
  MaxEvents          \* bound on provider changes, failures and missed rounds

ASSUME SnapshotAssumption ==
  /\ Confirmations \in Nat /\ Window \in Nat /\ PendingTTL \in Nat
  /\ MarkAfter \in Nat /\ HideAfter \in Nat /\ DeleteAfter \in Nat
  /\ UnhealthyAfter \in Nat /\ UnavailableAfter \in Nat
  /\ Horizon \in Nat /\ MaxEvents \in Nat
  /\ 0 < MarkAfter /\ 0 < HideAfter /\ HideAfter <= Horizon
  /\ 0 < DeleteAfter /\ DeleteAfter <= Horizon
  /\ 0 < UnhealthyAfter /\ UnhealthyAfter < Horizon
  /\ UnhealthyAfter <= UnavailableAfter

NotMissing == -1        \* a nil time
NoPending == [attempts |-> 0]

Statuses == {"available", "unhealthy", "unavailable"}
(* What the provider says of a resource, normalizeProviderResourceStatus   *)
(* applied: available, or anything else.                                   *)
Listings == UNION {[S -> {"available", "unhealthy"}] : S \in SUBSET Resources}

VARIABLES
  world,     \* what the provider lists
  known,     \* the resources in the snapshot
  status,    \* Resource.Status
  observed,  \* LastSeenAt is the snapshot's RefreshedAt
  since,     \* age of Resource.MissingSinceAt
  age,       \* age of RefreshedAt
  pending,   \* the pending-shrink record
  held,      \* resources with a lease
  missing,   \* age of the lease's ProviderMissingSinceAt
  due,       \* a round is due in this tick
  events,    \* events so far
  recorded,  \* history: the listing of the last round that was stored
  bad,       \* history: age of the first listing that did not have a resource of
             \* the snapshot available
  cut        \* history: whether a round failed between its writes

snapshot == <<known, status, observed, since, age>>
leases == <<held, missing>>
history == <<recorded, bad, cut>>
vars == <<world, snapshot, pending, leases, due, events, history>>

EmptyListing == [r \in {} |-> "available"]

Init ==
  /\ world \in Listings
  /\ known = {}
  /\ status = [r \in Resources |-> "unavailable"]
  /\ observed = [r \in Resources |-> FALSE]
  /\ since = [r \in Resources |-> NotMissing]
  /\ age = 0
  /\ pending = NoPending
  /\ held = {}
  /\ missing = [r \in Resources |-> NotMissing]
  /\ due = TRUE
  /\ events = 0
  /\ recorded = EmptyListing
  /\ bad = [r \in Resources |-> NotMissing]
  /\ cut = FALSE

Event == events < MaxEvents /\ events' = events + 1

-----------------------------------------------------------------------------
(* Folding a listing into the snapshot.                                    *)

Says(listing, r, s) == r \in DOMAIN listing /\ listing[r] = s

(* missingObservedResourceIDs *)
MissingObserved(listing) == {r \in known : observed[r]} \ DOMAIN listing

(* snapshotObservedStatusMap, which is what snapshotObservedSignature      *)
(* renders: unavailable is just another way of not being available.        *)
ObservedStatuses ==
  [r \in {q \in known : observed[q]} |-> IF status[r] = "available" THEN "available" ELSE "unhealthy"]

(* nonAvailableSinceForMissingResource: an observed resource without a     *)
(* mark was last seen when the snapshot was written.                       *)
MissingSince(r) == IF since[r] # NotMissing THEN since[r] ELSE age

(* nextSnapshotResourceFromCurrent *)
FromCurrentSince(listing, r) ==
  IF listing[r] = "available" THEN NotMissing
  ELSE IF r \in known /\ since[r] # NotMissing THEN since[r] ELSE 0
FromCurrentStatus(listing, r) ==
  IF listing[r] = "available" THEN "available"
  ELSE IF FromCurrentSince(listing, r) >= HideAfter THEN "unavailable" ELSE "unhealthy"

(* nextSnapshotResourceFromMissing *)
FromMissingStatus(r) ==
  IF MissingSince(r) >= HideAfter THEN "unavailable"
  ELSE IF MissingSince(r) >= MarkAfter THEN "unhealthy"
  ELSE IF status[r] = "unavailable" THEN "available" ELSE status[r]

(* buildNextSnapshotResources: the listing is believed.                    *)
BuildNextSnapshotResources(listing) ==
  /\ known' = known \cup DOMAIN listing
  /\ status' = [r \in Resources |->
       IF r \in DOMAIN listing THEN FromCurrentStatus(listing, r)
       ELSE IF r \in known THEN FromMissingStatus(r) ELSE status[r]]
  /\ since' = [r \in Resources |->
       IF r \in DOMAIN listing THEN FromCurrentSince(listing, r)
       ELSE IF r \in known THEN MissingSince(r) ELSE since[r]]
  /\ observed' = [r \in Resources |-> r \in DOMAIN listing]
  /\ age' = 0

(* The missing ones are not marked.                                        *)
DelaySnapshotShrink_unmarked(listing) ==
  /\ status' = [r \in Resources |-> IF r \in known \cap DOMAIN listing THEN listing[r] ELSE status[r]]
  /\ observed' = [r \in Resources |-> observed[r] \/ r \in known \cap DOMAIN listing]
  /\ since' = [r \in Resources |-> IF r \in known \cap DOMAIN listing THEN NotMissing ELSE since[r]]
  /\ age' = 0
  /\ UNCHANGED known

(* cloneSnapshotWithRefreshedAt, mergeCurrentResourceState and             *)
(* markMissingSinceAt: the listing is merged into what is known, nothing   *)
(* is added, and the missing ones are marked and still count as observed.  *)
DelaySnapshotShrink(listing) ==
  /\ status' = [r \in Resources |-> IF r \in known \cap DOMAIN listing THEN listing[r] ELSE status[r]]
  /\ observed' = [r \in Resources |-> observed[r] \/ r \in known \cap DOMAIN listing]
  /\ since' = [r \in Resources |->
       IF r \in known \cap DOMAIN listing THEN NotMissing
       ELSE IF r \in MissingObserved(listing) /\ since[r] = NotMissing THEN 0 ELSE since[r]]
  /\ age' = 0
  /\ UNCHANGED known

(* The window is shorter than an interval.                                 *)
Attempts_short(listing) ==
  IF /\ pending # NoPending
     /\ pending.base = ObservedStatuses
     /\ pending.candidate = listing
     /\ pending.age < 1
  THEN pending.attempts + 1 ELSE 1

(* The times this shrink has now been seen in a row.                       *)
Attempts(listing) ==
  IF /\ pending # NoPending
     /\ pending.base = ObservedStatuses
     /\ pending.candidate = listing
     /\ pending.age <= Window
  THEN pending.attempts + 1 ELSE 1

Believed(listing) == MissingObserved(listing) = {} \/ Attempts(listing) >= Confirmations

UpdatePendingShrink(listing) ==
  pending' = IF Believed(listing) THEN NoPending
             ELSE [base |-> ObservedStatuses, candidate |-> listing,
                   attempts |-> Attempts(listing), age |-> 0]

(* buildAcceptedSnapshot *)
BuildAcceptedSnapshot(listing) ==
  IF Believed(listing) THEN BuildNextSnapshotResources(listing) ELSE DelaySnapshotShrink(listing)

(* The statuses handed to the lease reconciliation: a shrink that is       *)
(* delayed is not yet held against the leases.                             *)
AcceptedStatuses(listing) ==
  IF Believed(listing) THEN listing
  ELSE [r \in DOMAIN ObservedStatuses \cup DOMAIN listing |->
          IF r \in DOMAIN listing THEN listing[r] ELSE ObservedStatuses[r]]

(* A lease is dropped after its resource was missing this long.            *)
Expired(r) == missing[r] >= MarkAfter /\ missing[r] >= DeleteAfter

(* The mark of a lease whose resource is back stays.                       *)
ReconcileLeaseProviderState_unrestored(statuses, entries) ==
  LET live == {r \in entries : Says(statuses, r, "available")}
      gone == {r \in entries \ live : missing[r] # NotMissing /\ Expired(r)}
  IN /\ held' = held \ gone
     /\ missing' = [r \in Resources |->
          IF r \in gone THEN NotMissing
          ELSE IF r \in entries \ live /\ missing[r] = NotMissing THEN 0 ELSE missing[r]]

(* reconcileLeaseEntry for the leases in entries.                          *)
ReconcileLeaseProviderState(statuses, entries) ==
  LET live == {r \in entries : Says(statuses, r, "available")}
      gone == {r \in entries \ live : missing[r] # NotMissing /\ Expired(r)}
  IN /\ held' = held \ gone
     /\ missing' = [r \in Resources |->
          IF r \in live \cup gone THEN NotMissing
          ELSE IF r \in entries /\ missing[r] = NotMissing THEN 0 ELSE missing[r]]

-----------------------------------------------------------------------------
(* Rounds.                                                                 *)

Noted(listing) ==
  /\ bad' = [r \in Resources |->
       IF Says(listing, r, "available") THEN NotMissing
       ELSE IF bad[r] = NotMissing /\ r \in known \cup DOMAIN listing THEN 0 ELSE bad[r]]

(* A complete round of refreshResources.                                   *)
RefreshResources ==
  /\ due
  /\ due' = FALSE
  /\ UpdatePendingShrink(world)
  /\ BuildAcceptedSnapshot(world)
  /\ ReconcileLeaseProviderState(AcceptedStatuses(world), held)
  /\ recorded' = world
  /\ Noted(world)
  /\ UNCHANGED <<world, events, cut>>

(* The snapshot is written, and the reconciliation of the leases fails at  *)
(* one of them: the error is logged.                                       *)
RefreshUnreconciled ==
  /\ due
  /\ Event
  /\ due' = FALSE
  /\ cut' = TRUE
  /\ UpdatePendingShrink(world)
  /\ BuildAcceptedSnapshot(world)
  /\ \E entries \in SUBSET held :
       ReconcileLeaseProviderState(AcceptedStatuses(world), entries)
  /\ recorded' = world
  /\ Noted(world)
  /\ UNCHANGED world

(* The round fails between the pending shrink and the snapshot.            *)
RefreshAborted ==
  /\ due
  /\ Event
  /\ due' = FALSE
  /\ cut' = TRUE
  /\ UpdatePendingShrink(world)
  /\ Noted(world)
  /\ UNCHANGED <<world, snapshot, leases, recorded>>

(* ListResources fails: no shrink is pending any more.                     *)
ListResourcesFails ==
  /\ due
  /\ Event
  /\ due' = FALSE
  /\ pending' = NoPending
  /\ UNCHANGED <<world, snapshot, leases, recorded, bad, cut>>

-----------------------------------------------------------------------------
(* Readers: loadSnapshotResources with degradeResourcesForStaleSnapshot.   *)
Shown(r) ==
  IF age > UnavailableAfter THEN "unavailable"
  ELSE IF age > UnhealthyAfter /\ status[r] = "available" THEN "unhealthy"
  ELSE status[r]

(* allocatableResources *)
Allocatable(r) == r \in known /\ Shown(r) = "available" /\ since[r] = NotMissing

(* A lease is taken and given back; SandboxLeases has the details.         *)
AssignSandbox(r) ==
  /\ Allocatable(r) /\ r \notin held
  /\ held' = held \cup {r}
  /\ missing' = [missing EXCEPT ![r] = NotMissing]
  /\ UNCHANGED <<world, snapshot, pending, due, events, history>>

UnassignSandbox(r) ==
  /\ r \in held
  /\ held' = held \ {r}
  /\ missing' = [missing EXCEPT ![r] = NotMissing]
  /\ UNCHANGED <<world, snapshot, pending, due, events, history>>

(* The provider's resources come, go, fall ill and recover.                *)
ProviderChanges ==
  /\ Event
  /\ world' \in Listings \ {world}
  /\ UNCHANGED <<snapshot, pending, leases, due, history>>

(* One interval passes.  A round that was due and did not run is an event. *)
Older(n) == IF n = NotMissing THEN n ELSE IF n < Horizon THEN n + 1 ELSE n
Tick ==
  /\ IF due THEN Event ELSE UNCHANGED events
  /\ due' = TRUE
  /\ age' = Older(age)
  /\ since' = [r \in Resources |-> Older(since[r])]
  /\ missing' = [r \in Resources |-> Older(missing[r])]
  /\ bad' = [r \in Resources |-> Older(bad[r])]
  /\ pending' = IF pending = NoPending \/ pending.age >= PendingTTL - 1 THEN NoPending
                ELSE [pending EXCEPT !.age = pending.age + 1]
  /\ UNCHANGED <<world, known, status, observed, held, recorded, cut>>

Round == RefreshResources \/ RefreshUnreconciled \/ RefreshAborted \/ ListResourcesFails

Next ==
  \/ Round
  \/ ProviderChanges
  \/ Tick
  \/ \E r \in Resources : AssignSandbox(r) \/ UnassignSandbox(r)

Spec == Init /\ [][Next]_vars

(* The ticker fires and the round runs.                                    *)
FairSpec == Spec /\ WF_vars(Tick) /\ WF_vars(RefreshResources)

-----------------------------------------------------------------------------
TypeOK ==
  /\ world \in Listings /\ recorded \in Listings
  /\ known \subseteq Resources /\ held \subseteq Resources
  /\ status \in [Resources -> Statuses]
  /\ observed \in [Resources -> BOOLEAN]
  /\ since \in [Resources -> NotMissing..Horizon]
  /\ missing \in [Resources -> NotMissing..Horizon]
  /\ bad \in [Resources -> NotMissing..Horizon]
  /\ age \in 0..Horizon
  /\ due \in BOOLEAN /\ cut \in BOOLEAN
  /\ events \in 0..MaxEvents

(* A resource handed out for allocation was available in the last listing  *)
(* that was stored, and that listing is recent: neither a missing resource *)
(* in its grace period nor an old snapshot is allocated from               *)
(* (service.go allocatableResources, pool.go degradeResourcesForStale...). *)
AllocatableIsListed ==
  \A r \in Resources :
    Allocatable(r) => Says(recorded, r, "available") /\ age <= UnhealthyAfter

(* Nothing is resurrected: a round makes a resource available only because *)
(* the provider lists it as available; one that is missing can only keep   *)
(* being available (pool.go nextSnapshotResourceFromMissing, whose first   *)
(* step turns unavailable into available).                                 *)
NothingResurrected ==
  [][\A r \in Resources :
       r \in known' /\ status'[r] = "available" =>
         IF r \in DOMAIN recorded' THEN recorded'[r] = "available"
         ELSE r \in known /\ status[r] = "available"]_vars

(* As long as no round was cut, a round drops a lease only when no listing *)
(* since DeleteAfter had its resource available (pool.go                   *)
(* reconcileLeaseEntry).  After a cut round the lease may carry a mark that *)
(* an available listing should have cleared.                               *)
LeaseDroppedLate ==
  [][\A r \in Resources :
       due /\ ~due' /\ ~cut' /\ r \in held \ held' => bad[r] >= DeleteAfter]_vars

(* Once the provider settles, the snapshot agrees with it: what it lists   *)
(* as available is allocatable, and everything else is hidden.             *)
SnapshotConverges ==
  <>[](\A r \in Resources :
         IF Says(world, r, "available") THEN Allocatable(r)
         ELSE r \in known => status[r] = "unavailable")
=============================================================================
