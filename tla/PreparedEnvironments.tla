------------------------ MODULE PreparedEnvironments ------------------------
(***************************************************************************)
(* The prepared execution environments of skills.  A Core process keeps,   *)
(* under the content key of an environment, one record in a store on the   *)
(* host; the environment runner builds and deletes the image.  A call of   *)
(* `use` finds or builds the environment, leases it, runs in it and gives  *)
(* it back; the reaper of each process marks what is unused and deletes it *)
(* after a grace period.  Time is counted in ticks: a record keeps ages    *)
(* instead of instants, and a sweep, which reads the clock once, knows by  *)
(* how much its `now` lags behind.                                         *)
(***************************************************************************)
EXTENDS Integers, FiniteSets

CONSTANTS
  Keys,          \* content keys, numbers: the sweep goes through them in order
  Users,         \* the calls of `use`, each with its lease id
  Processes,     \* Core processes that share the store
  Images,        \* what a build may return
  Lease, BuildTTL, FailedTTL, Grace,   \* PreparedEnvironmentGCPolicy, in ticks
  MaxLag,        \* a sweep lasts at most so long
  MaxAge,        \* ages are counted up to here
  NoImage, Free,
  Environments   \* the scenarios Init chooses from

(* One scenario: the calls that are made, with their process and key, the   *)
(* processes with a reaper, those that may crash, idle_ttl and quota_bytes  *)
(* (in images, 0 for none), what a build may return (one image where builds *)
(* are reproducible), how many things may go wrong, and whether the builder *)
(* goes on with a request its client has given up.                          *)
Environment ==
  [users : SUBSET Users, home : [Users -> Processes], key : [Users -> Keys],
   reapers : SUBSET Processes, mortal : SUBSET Processes, idleTTL : Nat, quota : Nat,
   images : SUBSET Images, faults : Nat, maxFaults : Nat, late : BOOLEAN]

\* Who holds a build lock.
Owner == [role : {"build", "sweep"}, process : Processes]

ASSUME PreparedAssumption ==
  /\ Keys \subseteq Int /\ \A S \in SUBSET Keys : S # {} => \E k \in S : \A j \in S : k <= j
  /\ NoImage \notin Images /\ Free \notin Owner
  /\ {Lease, BuildTTL, FailedTTL, Grace, MaxLag, MaxAge} \subseteq Nat
  /\ Lease > 0
  /\ \A t \in {BuildTTL, FailedTTL, Grace} : t + MaxLag <= MaxAge
  /\ Environments \subseteq Environment /\ Environments # {}
  /\ \A e \in Environments : e.faults = 0

VARIABLES
  env,     \* the scenario, and how many things went wrong so far
  record,  \* the store
  tag,     \* the image the builder has under the tag of each key
  images,  \* the images of each key that exist
  locks,   \* who holds the build lock of each key
  gcLock,  \* the process whose sweep is under way
  build,   \* the manager's _inflight tasks
  user, sweep,
  late,    \* builder requests that nobody waits for
  since    \* history: ticks since a ready environment was last leased

vars == <<env, record, tag, images, locks, gcLock, build, user, sweep, late, since>>

Unmarked == -1
NoLease == -MaxLag
NoLeases == [u \in Users |-> NoLease]
(* age is that of last_used_at in a ready record and of updated_at in the   *)
(* others; leases holds the time to expires_at, which may have passed.      *)
Record == [state : {"none", "building", "ready", "failed", "deleting"},
           image : Images \cup {NoImage}, age : 0..MaxAge, marked : Unmarked..MaxAge,
           leases : [Users -> NoLease..Lease]]
NewRecord(state, image) ==
  [state |-> state, image |-> image, age |-> 0, marked |-> Unmarked, leases |-> NoLeases]

(* A finished task that nobody has fetched stays in _inflight as "stale".   *)
Task == [pc : {"none", "lock", "request", "built", "broken", "stale"},
         image : Images \cup {NoImage}]
NoTask == [pc |-> "none", image |-> NoImage]

(* left is history: the time a call knows it has until its lease ends.      *)
Call == [pc : {"idle", "join", "wait", "acquire", "using", "ended"},
         ref : Images \cup {NoImage}, renewal : {"on", "off", "raised"}, left : 0..Lease]
CallAt(pc, image) == [pc |-> pc, ref |-> image, renewal |-> "on", left |-> 0]
Sweep == [pc : {"idle", "gc", "reconcile", "mark", "delete", "request", "remove", "failed"},
          lag : 0..MaxLag, todo : SUBSET Keys]
NoSweep == [pc |-> "idle", lag |-> 0, todo |-> {}]
Job == [op : {"build", "delete"}, key : Keys, image : Images \cup {NoImage}]

Init ==
  /\ env \in Environments
  /\ record = [k \in Keys |-> NewRecord("none", NoImage)]
  /\ tag = [k \in Keys |-> NoImage]
  /\ images = [k \in Keys |-> {}]
  /\ locks = [k \in Keys |-> Free]
  /\ gcLock = Free
  /\ build = [p \in Processes |-> [k \in Keys |-> NoTask]]
  /\ user = [u \in Users |-> CallAt(IF u \in env.users THEN "idle" ELSE "ended", NoImage)]
  /\ sweep = [p \in Processes |-> NoSweep]
  /\ late = {}
  /\ since = [k \in Keys |-> 0]

Fault == env.faults < env.maxFaults /\ env' = [env EXCEPT !.faults = @ + 1]

-----------------------------------------------------------------------------
(* FilePreparedEnvironmentStore: each operation is atomic under the file    *)
(* lock.  lag is how far the caller's `now` is behind.                      *)

\* Mutated form: the lag is taken off the wrong side.
active_leases_early(r, lag) == {u \in Users : r.leases[u] > lag}
active_leases(r, lag) == {u \in Users : r.leases[u] + lag > 0}
Unexpired(r, lag) ==
  [u \in Users |-> IF u \in active_leases(r, lag) THEN r.leases[u] ELSE NoLease]

acquire_usage(r, u) ==
  [r EXCEPT !.leases = [Unexpired(r, 0) EXCEPT ![u] = Lease], !.age = 0, !.marked = Unmarked]

Renewable(r, u) == r.state = "ready" /\ u \in active_leases(r, 0)
renew_usage(r, u) == [r EXCEPT !.leases = [Unexpired(r, 0) EXCEPT ![u] = Lease]]

release_usage(r, u) ==
  IF r.state = "none" THEN r
  ELSE [r EXCEPT !.leases = [Unexpired(r, 0) EXCEPT ![u] = NoLease], !.age = 0]

mark(r, lag) ==
  IF r.state \in {"ready", "failed"} /\ active_leases(r, lag) = {} /\ r.marked = Unmarked
    THEN [r EXCEPT !.leases = NoLeases, !.marked = lag,
                   !.age = IF r.state = "failed" THEN lag ELSE @]
    ELSE r

\* Mutated form: a deletion that failed is not taken up again.
Collectable_once == {"ready", "failed"}
Collectable == {"ready", "failed", "deleting"}
Deletable(r, lag) ==
  /\ r.state \in Collectable /\ active_leases(r, lag) = {}
  /\ r.state = "deleting" \/ (r.marked # Unmarked /\ r.marked - lag >= Grace)
\* Of a record that is being deleted only the image matters.
begin_delete(r, lag) ==
  IF Deletable(r, lag) THEN NewRecord("deleting", r.image)
  ELSE IF r.state \in Collectable /\ active_leases(r, lag) # {}
    THEN [r EXCEPT !.leases = Unexpired(r, lag)]
    ELSE r

deletion_failed(r) == IF r.state = "none" THEN r ELSE NewRecord("deleting", r.image)

Stale(r, lag) == r.state = "building" /\ r.age - lag >= BuildTTL
reconcile_stale_build(r, lag) ==
  IF Stale(r, lag) THEN [r EXCEPT !.state = "failed", !.age = lag] ELSE r

Store(k, r) == record' = [record EXCEPT ![k] = r]

-----------------------------------------------------------------------------
(* The environment runner, with the local Docker backend *)

Built(k, i) ==
  /\ tag' = [tag EXCEPT ![k] = i]
  /\ images' = [images EXCEPT ![k] = @ \cup {i}]

\* docker image rm of the tag takes the image along.
Untagged(k) ==
  /\ tag' = [tag EXCEPT ![k] = NoImage]
  /\ images' = [images EXCEPT ![k] = @ \ {tag[k]}]

build_environment(k) == (\E i \in env.images : Built(k, i)) \/ Untagged(k)

\* _remove_local_image answers 409 for a tag that has another image.
Refused(k, image) == tag[k] # NoImage /\ image # NoImage /\ tag[k] # image
delete_environment(k, image) ==
  IF Refused(k, image) THEN UNCHANGED <<tag, images>> ELSE Untagged(k)

(* A request whose client is gone. *)
LateJob(j) ==
  /\ j \in late
  /\ late' = late \ {j}
  /\ IF j.op = "build" THEN build_environment(j.key) ELSE delete_environment(j.key, j.image)
  /\ UNCHANGED <<env, record, locks, gcLock, build, user, sweep, since>>

-----------------------------------------------------------------------------
(* ensure_ready and use *)

Home(u) == env.home[u]
Key(u) == env.key[u]
Goto(u, pc) == user' = [user EXCEPT ![u].pc = pc]
Ended(u) == user' = [user EXCEPT ![u] = CallAt("ended", NoImage)]
ServedWith(image) == CallAt(IF image = NoImage THEN "ended" ELSE "acquire", image)

(* A ready record is returned at once; its lease comes later. *)
ensure_ready(u) ==
  /\ user[u].pc = "idle"
  /\ LET r == record[Key(u)] IN
       user' = [user EXCEPT ![u] = IF r.state = "ready" THEN ServedWith(r.image)
                                                        ELSE [@ EXCEPT !.pc = "join"]]
  /\ UNCHANGED <<env, record, tag, images, locks, gcLock, build, sweep, late, since>>

(* Under _inflight_lock: create the build task, wait for the one there is,  *)
(* or take the result of a finished one.                                    *)
JoinBuild(u) ==
  /\ user[u].pc = "join"
  /\ LET p == Home(u)  k == Key(u)  t == build[p][k] IN
       CASE t.pc = "none" ->
              build' = [build EXCEPT ![p][k].pc = "lock"] /\ Goto(u, "wait")
         [] t.pc = "stale" ->
              /\ build' = [build EXCEPT ![p][k] = NoTask]
              /\ user' = [user EXCEPT ![u] = ServedWith(t.image)]
         [] OTHER -> Goto(u, "wait") /\ UNCHANGED build
  /\ UNCHANGED <<env, record, tag, images, locks, gcLock, sweep, late, since>>

AcquireUsage(u) ==
  /\ user[u].pc = "acquire"
  /\ LET k == Key(u) IN
       IF record[k].state = "ready"
         THEN /\ Store(k, acquire_usage(record[k], u))
              /\ since' = [since EXCEPT ![k] = 0]
              /\ user' = [user EXCEPT ![u].pc = "using", ![u].left = Lease]
         ELSE Ended(u) /\ UNCHANGED <<record, since>>
  /\ UNCHANGED <<env, tag, images, locks, gcLock, build, sweep, late>>

(* One round of _renew_usage; a lease that has lapsed ends the renewals. *)
RenewUsage(u) ==
  /\ user[u].pc = "using" /\ user[u].renewal = "on"
  /\ LET r == record[Key(u)] IN
       IF Renewable(r, u)
         THEN Store(Key(u), renew_usage(r, u)) /\ user' = [user EXCEPT ![u].left = Lease]
         ELSE user' = [user EXCEPT ![u].renewal = "off"] /\ UNCHANGED record
  /\ UNCHANGED <<env, tag, images, locks, gcLock, build, sweep, late, since>>

(* The store lock is not had in time: the renewal task ends with an error.  *)
RenewalRaises(u) ==
  /\ user[u].pc = "using" /\ user[u].renewal = "on"
  /\ Fault
  /\ user' = [user EXCEPT ![u].renewal = "raised"]
  /\ UNCHANGED <<record, tag, images, locks, gcLock, build, sweep, late, since>>

(* The finally of use: awaiting a renewal that raised skips the release. *)
LeaveUse(u) ==
  /\ user[u].pc = "using"
  /\ Ended(u)
  /\ IF user[u].renewal = "raised" THEN UNCHANGED record
     ELSE Store(Key(u), release_usage(record[Key(u)], u))
  /\ UNCHANGED <<env, tag, images, locks, gcLock, build, sweep, late, since>>

(* The run is cancelled: the build is shielded, and the thread that takes   *)
(* the lease goes on if it has started.                                     *)
CancelUse(u) ==
  /\ user[u].pc \in {"join", "wait", "acquire"}
  /\ Fault
  /\ Ended(u)
  /\ LET k == Key(u) IN
       \/ UNCHANGED <<record, since>>
       \/ /\ user[u].pc = "acquire" /\ record[k].state = "ready"
          /\ Store(k, acquire_usage(record[k], u))
          /\ since' = [since EXCEPT ![k] = 0]
  /\ UNCHANGED <<tag, images, locks, gcLock, build, sweep, late>>

-----------------------------------------------------------------------------
(* _build *)

Waiters(p, k) == {u \in env.users : Home(u) = p /\ Key(u) = k /\ user[u].pc = "wait"}

\* The task ends: its waiters have the result and one takes it out of _inflight.
Finish(p, k, image) ==
  /\ user' = [u \in Users |-> IF u \in Waiters(p, k) THEN ServedWith(image) ELSE user[u]]
  /\ build' = [build EXCEPT ![p][k] = IF Waiters(p, k) # {} THEN NoTask
                                      ELSE [pc |-> "stale", image |-> image]]

Builder(p) == [role |-> "build", process |-> p]
Sweeper(p) == [role |-> "sweep", process |-> p]
Unlocked(k) == locks' = [locks EXCEPT ![k] = Free]

\* Mutated form: the build lock is given back before the build.
StartBuild_unlocked(p, k) ==
  /\ build[p][k].pc = "lock" /\ locks[k] = Free
  /\ IF record[k].state \in {"ready", "deleting"}
       THEN Finish(p, k, IF record[k].state = "ready" THEN record[k].image ELSE NoImage)
            /\ UNCHANGED record
       ELSE /\ Store(k, NewRecord("building", NoImage))
            /\ build' = [build EXCEPT ![p][k].pc = "request"]
            /\ UNCHANGED user
  /\ UNCHANGED <<env, tag, images, locks, gcLock, sweep, late, since>>

StartBuild(p, k) ==
  /\ build[p][k].pc = "lock" /\ locks[k] = Free
  /\ IF record[k].state \in {"ready", "deleting"}
       THEN /\ Finish(p, k, IF record[k].state = "ready" THEN record[k].image ELSE NoImage)
            /\ UNCHANGED <<record, locks>>
       ELSE /\ Store(k, NewRecord("building", NoImage))
            /\ locks' = [locks EXCEPT ![k] = Builder(p)]
            /\ build' = [build EXCEPT ![p][k].pc = "request"]
            /\ UNCHANGED user
  /\ UNCHANGED <<env, tag, images, gcLock, sweep, late, since>>

\* portalocker gives up after its timeout.
BuildLockTimeout(p, k) ==
  /\ build[p][k].pc = "lock" /\ locks[k] # Free
  /\ Finish(p, k, NoImage)
  /\ UNCHANGED <<env, record, tag, images, locks, gcLock, sweep, late, since>>

(* builder.build answers with an image, or fails and cleans its tag up. *)
BuilderBuilds(p, k) ==
  /\ build[p][k].pc = "request"
  /\ \/ \E i \in env.images :
          /\ Built(k, i)
          /\ build' = [build EXCEPT ![p][k] = [pc |-> "built", image |-> i]]
          /\ UNCHANGED env
     \/ Fault /\ Untagged(k) /\ build' = [build EXCEPT ![p][k].pc = "broken"]
  /\ UNCHANGED <<record, locks, gcLock, user, sweep, late, since>>

(* The client gives up after 900 s, the builder only after 1800 s. *)
BuildTimesOut(p, k) ==
  /\ build[p][k].pc = "request" /\ env.late
  /\ Fault
  /\ late' = late \cup {[op |-> "build", key |-> k, image |-> NoImage]}
  /\ build' = [build EXCEPT ![p][k].pc = "broken"]
  /\ UNCHANGED <<record, tag, images, locks, gcLock, user, sweep, since>>

StoreBuild(p, k) ==
  /\ build[p][k].pc \in {"built", "broken"}
  /\ LET i == build[p][k].image IN
       /\ Store(k, NewRecord(IF i = NoImage THEN "failed" ELSE "ready", i))
       /\ Finish(p, k, i)
       /\ since' = [since EXCEPT ![k] = 0]
  /\ Unlocked(k)
  /\ UNCHANGED <<env, tag, images, gcLock, sweep, late>>

-----------------------------------------------------------------------------
(* run_gc_once *)

First(S) == CHOOSE k \in S : \A j \in S : k <= j
Lag(p) == sweep[p].lag
Current(p) == First(sweep[p].todo)
Phase(p, pc, todo) == sweep' = [sweep EXCEPT ![p].pc = pc, ![p].todo = todo]
Done(p) == sweep' = [sweep EXCEPT ![p].pc = "delete", ![p].todo = @ \ {Current(p)}]

Ready == {k \in Keys : record[k].state = "ready"}
UsedBefore(j, k) ==
  record[j].age > record[k].age \/ (record[j].age = record[k].age /\ j < k)
\* In the order of last use, what no lease protects goes until the rest fits.
OverQuota(lag) ==
  LET idle == {k \in Ready : active_leases(record[k], lag) = {}} IN
    {k \in idle : /\ env.quota > 0
                  /\ Cardinality(Ready) - Cardinality({j \in idle : UsedBefore(j, k)}) > env.quota}
gc_candidates(lag) ==
  {k \in Ready : record[k].age - lag >= env.idleTTL}
    \cup {k \in Keys : record[k].state = "failed" /\ record[k].age - lag >= FailedTTL}
    \cup OverQuota(lag)

(* The clock is read before the lock is had. *)
StartSweep(p) ==
  /\ p \in env.reapers /\ sweep[p].pc = "idle"
  /\ Phase(p, "gc", {})
  /\ UNCHANGED <<env, record, tag, images, locks, gcLock, build, user, late, since>>

LockSweep(p) ==
  /\ sweep[p].pc = "gc" /\ gcLock = Free
  /\ gcLock' = p
  /\ Phase(p, "reconcile", {k \in Keys : Stale(record[k], Lag(p))})
  /\ UNCHANGED <<env, record, tag, images, locks, build, user, late, since>>

ReconcileStaleBuild(p) ==
  /\ sweep[p].pc = "reconcile" /\ sweep[p].todo # {} /\ locks[Current(p)] = Free
  /\ Store(Current(p), reconcile_stale_build(record[Current(p)], Lag(p)))
  /\ Phase(p, "reconcile", sweep[p].todo \ {Current(p)})
  /\ UNCHANGED <<env, tag, images, locks, gcLock, build, user, late, since>>

ListCandidates(p) ==
  /\ sweep[p].pc = "reconcile" /\ sweep[p].todo = {}
  /\ Phase(p, "mark", gc_candidates(Lag(p)))
  /\ UNCHANGED <<env, record, tag, images, locks, gcLock, build, user, late, since>>

MarkCandidate(p) ==
  /\ sweep[p].pc = "mark" /\ sweep[p].todo # {}
  /\ Store(Current(p), mark(record[Current(p)], Lag(p)))
  /\ Phase(p, "mark", sweep[p].todo \ {Current(p)})
  /\ UNCHANGED <<env, tag, images, locks, gcLock, build, user, late, since>>

ListDeletions(p) ==
  /\ sweep[p].pc = "mark" /\ sweep[p].todo = {}
  /\ Phase(p, "delete", {k \in Keys : record[k].state \in Collectable})
  /\ UNCHANGED <<env, record, tag, images, locks, gcLock, build, user, late, since>>

BeginDelete(p) ==
  /\ sweep[p].pc = "delete" /\ sweep[p].todo # {} /\ locks[Current(p)] = Free
  /\ LET k == Current(p) IN
       /\ Store(k, begin_delete(record[k], Lag(p)))
       /\ IF Deletable(record[k], Lag(p))
            THEN /\ locks' = [locks EXCEPT ![k] = Sweeper(p)]
                 /\ Phase(p, "request", sweep[p].todo)
            ELSE Done(p) /\ UNCHANGED locks
  /\ UNCHANGED <<env, tag, images, gcLock, build, user, late, since>>

(* builder.delete succeeds, is refused, or fails with or without effect.    *)
BuilderDeletes(p) ==
  /\ sweep[p].pc = "request"
  /\ LET k == Current(p)  image == record[k].image IN
       \/ /\ delete_environment(k, image)
          /\ Phase(p, IF Refused(k, image) THEN "failed" ELSE "remove", sweep[p].todo)
          /\ UNCHANGED <<env, late>>
       \/ /\ Fault
          /\ Phase(p, "failed", sweep[p].todo)
          /\ \/ UNCHANGED <<tag, images, late>>
             \/ delete_environment(k, image) /\ UNCHANGED late
             \/ /\ env.late
                /\ late' = late \cup {[op |-> "delete", key |-> k, image |-> image]}
                /\ UNCHANGED <<tag, images>>
  /\ UNCHANGED <<record, locks, gcLock, build, user, since>>

DeleteRecord(p) ==
  /\ sweep[p].pc = "remove"
  /\ LET k == Current(p) IN
       IF record[k].state \in {"none", "deleting"}
         THEN Store(k, NewRecord("none", NoImage)) /\ Unlocked(k) /\ Done(p)
         ELSE Phase(p, "failed", sweep[p].todo) /\ UNCHANGED <<record, locks>>
  /\ UNCHANGED <<env, tag, images, gcLock, build, user, late, since>>

DeletionFailed(p) ==
  /\ sweep[p].pc = "failed"
  /\ Store(Current(p), deletion_failed(record[Current(p)]))
  /\ Unlocked(Current(p)) /\ Done(p)
  /\ UNCHANGED <<env, tag, images, gcLock, build, user, late, since>>

EndSweep(p) ==
  /\ sweep[p].pc = "delete" /\ sweep[p].todo = {}
  /\ sweep' = [sweep EXCEPT ![p] = NoSweep]
  /\ gcLock' = Free
  /\ UNCHANGED <<env, record, tag, images, locks, build, user, late, since>>

(* The reaper goes on with the next sweep. *)
SweepLockTimeout(p) ==
  /\ \/ sweep[p].pc = "gc" /\ gcLock # Free
     \/ sweep[p].pc \in {"reconcile", "delete"} /\ sweep[p].todo # {} /\ locks[Current(p)] # Free
  /\ sweep' = [sweep EXCEPT ![p] = NoSweep]
  /\ gcLock' = IF gcLock = p THEN Free ELSE gcLock
  /\ UNCHANGED <<env, record, tag, images, locks, build, user, late, since>>

-----------------------------------------------------------------------------
(* Processes and time *)

Pending(p) ==
  {[op |-> "build", key |-> k, image |-> NoImage] : k \in {k \in Keys : build[p][k].pc = "request"}}
    \cup {[op |-> "delete", key |-> k, image |-> record[k].image] :
            k \in {k \in Keys : sweep[p].pc = "request" /\ k = Current(p)}}

(* The process ends and starts again: the host frees its file locks. *)
Crash(p) ==
  /\ p \in env.mortal
  /\ Fault
  /\ user' = [u \in Users |-> IF Home(u) = p /\ user[u].pc # "idle"
                                THEN CallAt("ended", NoImage) ELSE user[u]]
  /\ build' = [build EXCEPT ![p] = [k \in Keys |-> NoTask]]
  /\ sweep' = [sweep EXCEPT ![p] = NoSweep]
  /\ locks' = [k \in Keys |-> IF locks[k] \in {Builder(p), Sweeper(p)} THEN Free ELSE locks[k]]
  /\ gcLock' = IF gcLock = p THEN Free ELSE gcLock
  /\ late' = IF env.late THEN late \cup Pending(p) ELSE late
  /\ UNCHANGED <<record, tag, images, since>>

Up(n, max) == IF n < max THEN n + 1 ELSE n
Older(r) ==
  IF r.state \in {"none", "deleting"} THEN r
  ELSE [r EXCEPT !.age = Up(@, MaxAge),
                 !.marked = IF @ = Unmarked THEN @ ELSE Up(@, MaxAge),
                 !.leases = [u \in Users |-> IF @[u] > NoLease THEN @[u] - 1 ELSE @[u]]]

Tick ==
  /\ \A p \in Processes : sweep[p].pc # "idle" => sweep[p].lag < MaxLag
  /\ record' = [k \in Keys |-> Older(record[k])]
  /\ sweep' = [p \in Processes |-> IF sweep[p].pc = "idle" THEN sweep[p]
                                   ELSE [sweep[p] EXCEPT !.lag = @ + 1]]
  /\ user' = [u \in Users |-> [user[u] EXCEPT !.left = IF @ > 0 THEN @ - 1 ELSE 0]]
  /\ since' = [k \in Keys |-> IF k \in Ready THEN Up(since[k], Grace) ELSE 0]
  /\ UNCHANGED <<env, tag, images, locks, gcLock, build, late>>

UserStep(u) == JoinBuild(u) \/ AcquireUsage(u) \/ LeaveUse(u)
BuildStep(p, k) ==
  StartBuild(p, k) \/ BuildLockTimeout(p, k) \/ BuilderBuilds(p, k) \/ StoreBuild(p, k)
SweepStep(p) ==
  \/ StartSweep(p) \/ LockSweep(p) \/ ReconcileStaleBuild(p) \/ ListCandidates(p)
  \/ MarkCandidate(p) \/ ListDeletions(p) \/ BeginDelete(p) \/ BuilderDeletes(p)
  \/ DeleteRecord(p) \/ DeletionFailed(p) \/ EndSweep(p) \/ SweepLockTimeout(p)

Next ==
  \/ \E u \in Users : \/ ensure_ready(u) \/ UserStep(u) \/ RenewUsage(u)
                      \/ RenewalRaises(u) \/ CancelUse(u)
  \/ \E p \in Processes, k \in Keys : BuildStep(p, k) \/ BuildTimesOut(p, k)
  \/ \E p \in Processes : SweepStep(p) \/ Crash(p)
  \/ \E j \in late : LateJob(j)
  \/ Tick

Spec == Init /\ [][Next]_vars

(* Whoever was called goes on, also the builder; the reapers never stop     *)
(* sweeping, and time passes.                                               *)
FairSpec ==
  /\ Spec
  /\ WF_vars(\E u \in Users : UserStep(u))
  /\ WF_vars(\E p \in Processes, k \in Keys : BuildStep(p, k))
  /\ \A p \in Processes : WF_vars(SweepStep(p))
  /\ WF_vars(\E j \in late : LateJob(j))
  /\ WF_vars(Tick)

-----------------------------------------------------------------------------
(* Properties *)

\* The shapes of the store's records, the tasks and the sweeps.
TypeOK ==
  /\ env \in Environment
  /\ record \in [Keys -> Record]
  /\ tag \in [Keys -> Images \cup {NoImage}] /\ images \in [Keys -> SUBSET Images]
  /\ locks \in [Keys -> Owner \cup {Free}] /\ gcLock \in Processes \cup {Free}
  /\ build \in [Processes -> [Keys -> Task]]
  /\ user \in [Users -> Call] /\ sweep \in [Processes -> Sweep]
  /\ late \subseteq Job /\ since \in [Keys -> 0..Grace]

\* As long as its lease runs a call of use is safe: the record is ready and
\* holds the lease.  No sweep, however old its clock, no build and no other
\* call takes either away.
LeaseStands ==
  \A u \in Users : user[u].left > 0 =>
    record[Key(u)].state = "ready" /\ u \in active_leases(record[Key(u)], 0)

\* Between its two writes a build finds the record it has written, and so
\* does a deletion: neither overwrites what somebody else stored meanwhile,
\* and delete_record never refuses.
WritersOwnTheRecord ==
  \A p \in Processes, k \in Keys :
    /\ build[p][k].pc \in {"request", "built", "broken"} => record[k].state = "building"
    /\ sweep[p].pc \in {"request", "remove", "failed"} /\ k = Current(p) =>
         record[k].state = "deleting"

\* From the last lease to the deletion at least the grace period passes,
\* less what a sweep may last: marks and deletions of sweeps whose clocks
\* lag do not add up to an earlier one.
GraceIsKept ==
  [][\A k \in Keys : record[k].state = "ready" /\ record'[k].state = "deleting" =>
       since[k] >= Grace - MaxLag]_vars

\* What nobody uses is reclaimed in the end, whatever state a crash, a
\* failed build or a failed deletion has left it in, and the ready images
\* come down to the quota.
Surplus ==
  \/ env.idleTTL + MaxLag <= MaxAge /\ \E k \in Keys : record[k].state # "none"
  \/ env.quota > 0 /\ Cardinality(Ready) > env.quota
Reclaimed == ~env.late /\ Surplus ~> ~Surplus
=============================================================================
