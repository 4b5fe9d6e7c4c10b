--------------------------- MODULE SnapshotLeader ---------------------------
(***************************************************************************)
(* Which backend refreshes the shared resource snapshot.                   *)
(*                                                                         *)
(* Every backend instance runs a sandbox pool with a background refresh.   *)
(* A round runs under a context deadline, takes the leader lock in Redis   *)
(* (a key with an expiry, holding the instance id), reads the previous     *)
(* snapshot, lists the resources of every provider, and writes the next    *)
(* snapshot with a plain SET.  Nothing but the lock keeps two rounds from  *)
(* overwriting each other, and the lock expires by itself.                 *)
(*                                                                         *)
(* Time is a countdown per timer: what is left of the lock's expiry, of a  *)
(* round's deadline and of the wait for a pool's next round.  What a       *)
(* snapshot contains is the subject of ResourceSnapshot.                   *)
(***************************************************************************)
EXTENDS Integers, FiniteSets

CONSTANTS
  Pools,       \* instance ids of the backends' pools
  Mortal,      \* the pools whose process may die
  None,        \* no pool
  TTL,         \* expiry of the leader lock, in ticks
  Deadline,    \* deadline of one refresh round, in ticks
  Interval,    \* ticks between two rounds of one pool
  Providers,   \* how many providers a round lists
  MaxFaults    \* bound on crashes, failures and ticks inside a round

(* The lock outlives the round it was taken for: both are 20 seconds, and  *)
(* the context is created before the lock is taken.                        *)
ASSUME LeaderAssumption ==
  /\ None \notin Pools
  /\ Mortal \subseteq Pools
  /\ TTL \in Nat /\ Deadline \in Nat /\ Interval \in Nat
  /\ Providers \in Nat /\ MaxFaults \in Nat
  /\ Deadline <= TTL

VARIABLES
  lock,      \* value of the leader key, None when it is absent
  ttl,       \* ticks until the key expires
  pc,        \* where each pool is in refreshResources
  left,      \* ticks until the deadline of each pool's round
  wait,      \* ticks until each pool's ticker fires
  todo,      \* providers the round has still to list
  listed,    \* whether some provider answered in this round
  stale,     \* whether another pool wrote a snapshot since this one read it
  fresh,     \* whether a snapshot was written since the last tick
  alive,     \* the pools whose process runs
  faults     \* faults so far

leaderVars == <<lock, ttl, pc, left, wait, todo, listed, stale, fresh, alive, faults>>
timers == <<left, wait>>
round == <<todo, listed, stale>>

InRound == {"load", "list", "renew", "persist"}
Steps == InRound \cup {"idle", "acquire", "release"}

LeaderInit ==
  /\ lock = None
  /\ ttl = 0
  /\ pc = [p \in Pools |-> "idle"]
  /\ left = [p \in Pools |-> 0]
  /\ wait = [p \in Pools |-> 0]
  /\ todo = [p \in Pools |-> 0]
  /\ listed = [p \in Pools |-> FALSE]
  /\ stale = [p \in Pools |-> FALSE]
  /\ fresh = FALSE
  /\ alive = Pools
  /\ faults = 0

Goto(p, step) == pc' = [pc EXCEPT ![p] = step]

(* The lock is given the interval of the rounds as its expiry, or none.    *)
AcquireLockNonblockingWithValue_interval(p) ==
  lock \in {None, p} /\ lock' = p /\ ttl' = Interval
AcquireLockNonblockingWithValue_noExpiry(p) ==
  lock \in {None, p} /\ lock' = p /\ ttl' = IF lock = None THEN 0 ELSE TTL

(* AcquireLockNonblockingWithValue: SETNX or, when the key already holds   *)
(* this instance's id, a renewed expiry.                                   *)
Grantable(p) == lock \in {None, p}
AcquireLockNonblockingWithValue(p) ==
  /\ Grantable(p)
  /\ lock' = p
  /\ ttl' = TTL

(* ReleaseLock deletes the key only while it holds this instance's id.     *)
ReleaseLock(p) ==
  /\ lock' = IF lock = p THEN None ELSE lock
  /\ ttl' = IF lock = p THEN 0 ELSE ttl

(* The ticker fires (or Start runs the first round): a fresh context.      *)
RunBackgroundRefreshOnce(p) ==
  /\ p \in alive
  /\ pc[p] = "idle" /\ wait[p] = 0
  /\ left' = [left EXCEPT ![p] = Deadline]
  /\ wait' = [wait EXCEPT ![p] = Interval]
  /\ Goto(p, "acquire")
  /\ UNCHANGED <<lock, ttl, round, fresh, alive, faults>>

(* The leader builds on the snapshot of its last round.                    *)
BecomeLeader_cached(p) ==
  /\ pc[p] = "acquire" /\ left[p] > 0
  /\ AcquireLockNonblockingWithValue(p)
  /\ todo' = [todo EXCEPT ![p] = Providers]
  /\ listed' = [listed EXCEPT ![p] = FALSE]
  /\ Goto(p, "list")
  /\ UNCHANGED <<timers, stale, fresh, alive, faults>>

(* tryAcquireRefreshLeadership; a pool that is not the leader, or whose    *)
(* context is over, ends the round without touching the lock.              *)
BecomeLeader(p) ==
  /\ pc[p] = "acquire" /\ left[p] > 0
  /\ AcquireLockNonblockingWithValue(p)
  /\ Goto(p, "load")
  /\ UNCHANGED <<timers, round, fresh, alive, faults>>

NotLeader(p) ==
  /\ pc[p] = "acquire"
  /\ left[p] = 0 \/ ~Grantable(p)
  /\ left' = [left EXCEPT ![p] = 0]
  /\ Goto(p, "idle")
  /\ UNCHANGED <<lock, ttl, wait, round, fresh, alive, faults>>

(* loadPreviousSnapshots: what this round builds on.                       *)
LoadPreviousSnapshots(p) ==
  /\ pc[p] = "load" /\ left[p] > 0
  /\ todo' = [todo EXCEPT ![p] = Providers]
  /\ listed' = [listed EXCEPT ![p] = FALSE]
  /\ stale' = [stale EXCEPT ![p] = FALSE]
  /\ Goto(p, "list")
  /\ UNCHANGED <<lock, ttl, timers, fresh, alive, faults>>

(* One provider answers ListResources: the leadership is renewed next.     *)
ProviderListed(p) ==
  /\ pc[p] = "list" /\ left[p] > 0 /\ todo[p] > 0
  /\ listed' = [listed EXCEPT ![p] = TRUE]
  /\ Goto(p, "renew")
  /\ UNCHANGED <<lock, ttl, timers, todo, stale, fresh, alive, faults>>

(* One provider fails: the round goes on to the next one.                  *)
ProviderFailed(p) ==
  /\ pc[p] = "list" /\ left[p] > 0 /\ todo[p] > 0
  /\ faults < MaxFaults
  /\ faults' = faults + 1
  /\ todo' = [todo EXCEPT ![p] = todo[p] - 1]
  /\ UNCHANGED <<lock, ttl, pc, timers, listed, stale, fresh, alive>>

(* renewRefreshLeadership; the round fails when another pool has the lock. *)
RenewRefreshLeadership(p) ==
  /\ pc[p] = "renew" /\ left[p] > 0
  /\ IF Grantable(p)
     THEN /\ AcquireLockNonblockingWithValue(p)
          /\ todo' = [todo EXCEPT ![p] = todo[p] - 1]
          /\ Goto(p, "list")
     ELSE Goto(p, "release") /\ UNCHANGED <<lock, ttl, todo>>
  /\ UNCHANGED <<timers, listed, stale, fresh, alive, faults>>

ProvidersDone(p) ==
  /\ pc[p] = "list" /\ left[p] > 0 /\ todo[p] = 0
  /\ Goto(p, "persist")
  /\ UNCHANGED <<lock, ttl, timers, round, fresh, alive, faults>>

(* The plain SET of every type's snapshot.                                 *)
Write(p) ==
  /\ stale' = [q \in Pools |-> q # p]
  /\ fresh' = TRUE

(* finalizeRefreshOutcome: the leadership is kept until it expires, unless *)
(* no provider answered.                                                   *)
KeepsLeadership(p) == listed[p]

PersistTypeSnapshots(p) ==
  /\ pc[p] = "persist" /\ left[p] > 0
  /\ Write(p)
  /\ IF KeepsLeadership(p)
     THEN Goto(p, "idle") /\ left' = [left EXCEPT ![p] = 0]
     ELSE Goto(p, "release") /\ UNCHANGED left
  /\ UNCHANGED <<lock, ttl, wait, todo, listed, alive, faults>>

(* A Redis call of the round fails: its context is over, or the call is    *)
(* lost - a lost SET may still have been carried out.                      *)
ContextOver(p) ==
  /\ pc[p] \in InRound /\ left[p] = 0
  /\ Goto(p, "release")
  /\ UNCHANGED <<lock, ttl, timers, round, fresh, alive, faults>>

CallFails(p) ==
  /\ pc[p] \in InRound /\ left[p] > 0
  /\ faults < MaxFaults
  /\ faults' = faults + 1
  /\ \/ UNCHANGED <<stale, fresh>>
     \/ pc[p] = "persist" /\ Write(p)
  /\ Goto(p, "release")
  /\ UNCHANGED <<lock, ttl, timers, todo, listed, alive>>

(* releaseRefreshLeadership runs on a context of its own; its failure is   *)
(* logged and the key is left to expire.                                   *)
ReleaseRefreshLeadership(p) ==
  /\ pc[p] = "release"
  /\ \/ ReleaseLock(p) /\ UNCHANGED faults
     \/ /\ faults < MaxFaults
        /\ faults' = faults + 1
        /\ UNCHANGED <<lock, ttl>>
  /\ left' = [left EXCEPT ![p] = 0]
  /\ Goto(p, "idle")
  /\ UNCHANGED <<wait, round, fresh, alive>>

(* The process dies; its lock stays until it expires.                      *)
Crash(p) ==
  /\ p \in alive \cap Mortal
  /\ faults < MaxFaults
  /\ faults' = faults + 1
  /\ alive' = alive \ {p}
  /\ Goto(p, "idle")
  /\ left' = [left EXCEPT ![p] = 0]
  /\ UNCHANGED <<lock, ttl, wait, round, fresh>>

(* Time passes.  A tick while some pool is in a round is a slow round, and *)
(* counts as a fault.                                                      *)
Less(n) == IF n > 0 THEN n - 1 ELSE 0
Busy == \E p \in Pools : pc[p] # "idle"
LeaderTick ==
  /\ Busy => faults < MaxFaults
  /\ faults' = IF Busy THEN faults + 1 ELSE faults
  /\ ttl' = Less(ttl)
  /\ lock' = IF ttl = 1 THEN None ELSE lock
  /\ left' = [p \in Pools |-> Less(left[p])]
  /\ wait' = [p \in Pools |-> Less(wait[p])]
  /\ fresh' = FALSE
  /\ UNCHANGED <<pc, round, alive>>

Act(p) ==
  \/ RunBackgroundRefreshOnce(p) \/ BecomeLeader(p) \/ NotLeader(p)
  \/ LoadPreviousSnapshots(p) \/ ProviderListed(p) \/ RenewRefreshLeadership(p)
  \/ ProvidersDone(p) \/ PersistTypeSnapshots(p) \/ ContextOver(p)
  \/ ReleaseRefreshLeadership(p)
Fault(p) == ProviderFailed(p) \/ CallFails(p) \/ Crash(p)

LeaderNext == LeaderTick \/ \E p \in Pools : Act(p) \/ Fault(p)

LeaderSpec == LeaderInit /\ [][LeaderNext]_leaderVars

(* Time goes on, and a pool that runs goes through its rounds.             *)
FairLeaderSpec == LeaderSpec /\ WF_leaderVars(LeaderTick) /\ \A p \in Pools : WF_leaderVars(Act(p))

-----------------------------------------------------------------------------
LeaderTypeOK ==
  /\ lock \in Pools \cup {None}
  /\ ttl \in 0..TTL
  /\ pc \in [Pools -> Steps]
  /\ left \in [Pools -> 0..Deadline]
  /\ wait \in [Pools -> 0..Interval]
  /\ todo \in [Pools -> 0..Providers]
  /\ listed \in [Pools -> BOOLEAN]
  /\ stale \in [Pools -> BOOLEAN]
  /\ fresh \in BOOLEAN
  /\ alive \subseteq Pools
  /\ faults \in Nat

(* No lost refresh: a pool about to write a snapshot has built it on the   *)
(* snapshot that is stored, although the write itself checks nothing       *)
(* (pool.go persistTypeSnapshots) and the lock expires by itself.          *)
NoLostRefresh ==
  \A p \in Pools : pc[p] = "persist" /\ left[p] > 0 => ~stale[p]

(* One leader: two pools are never both between taking the lock and        *)
(* writing with time left on their contexts, so the pending-shrink record  *)
(* and the snapshots have one writer at a time.                            *)
OneLeader ==
  \A p, q \in Pools :
    pc[p] \in InRound /\ left[p] > 0 /\ pc[q] \in InRound /\ left[q] > 0 => p = q

(* Failover: whatever crashed, failed or was slow, a snapshot is written   *)
(* again and again as long as one pool runs and the faults stop.           *)
RefreshRecurs == []<>fresh
=============================================================================
