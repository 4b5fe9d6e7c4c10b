---------------------------- MODULE RunSandboxes ----------------------------
(***************************************************************************)
(* Who holds which sandbox, seen from the core: the SandboxCoordinator and *)
(* the lease manager between a run and the lease table of the backend.     *)
(* Each batch has an owner process whose coroutines acquire a sandbox,     *)
(* record it in the run's row, use it and give it back; a user who cancels *)
(* a turn and the reconciler of a dead owner give back what the rows name. *)
(* lease[s] is the run whose application took s; the backend itself only   *)
(* knows that s is in use, so a release frees s whoever has it.            *)
(***************************************************************************)
EXTENDS RunRow, FiniteSets

CONSTANTS
  Sandboxes,
  Runs, Batches,
  BatchOf,          \* the batch of each run
  None,             \* no sandbox, no run
  ReleaseAttempts,  \* TASK_RUNTIME_SANDBOX_RELEASE_ATTEMPTS
  Environments      \* the scenarios Init chooses from

(* One scenario: the runs that exist, RetryPolicy.max_attempts,             *)
(* how many calls may fail for their caller, and the batches whose turn the *)
(* user may cancel, whose task may be cancelled and whose process may die.  *)
Environment ==
  [runs : SUBSET Runs, maxAttempts : Nat \ {0},
   lost : {0}, maxLost : Nat, cancellable : SUBSET Batches,
   interruptible : SUBSET Batches, mortal : SUBSET Batches]

ASSUME SandboxAssumption ==
  /\ None \notin Sandboxes \cup Runs /\ BatchOf \in [Runs -> Batches]
  /\ ReleaseAttempts \in Nat \ {0}
  /\ Environments \subseteq Environment /\ Environments # {}

VARIABLES
  env,     \* the scenario, and how many calls were lost so far
  lease,   \* the backend's lease table
  row,     \* the stored runs: status and sandbox columns
  own,     \* the coroutine of each run
  acq,     \* its acquire task: a thread that cancellation does not reach
  batch,   \* the owner of each batch
  user,    \* the cancellation of each batch's turn
  late     \* release and record calls in flight that nobody waits for

vars == <<env, lease, row, own, acq, batch, user, late>>

Row == [status : TaskStatus, sandbox : Sandboxes \cup {None}, released : BOOLEAN]
NewRow == [status |-> "queued", sandbox |-> None, released |-> FALSE]

\* end is the outcome to settle, "none" for a coroutine that was cancelled;
\* gave tells whether its release was given up.
Coroutine == [pc : {"start", "reserve", "acquire", "record", "ready", "claim", "run",
                    "settle", "release", "note", "over", "gone"},
              sb : Sandboxes \cup {None}, try : 0..ReleaseAttempts, attempt : 1..env.maxAttempts,
              end : TerminalRun \cup {"none"}, gave : BOOLEAN]
Fresh(n) == [pc |-> "start", sb |-> None, try |-> 0, attempt |-> n, end |-> "none", gave |-> FALSE]

Acquire == [st : {"none", "asking", "got", "rejected", "failed"}, sb : Sandboxes \cup {None},
            waiter : {"run", "cleanup", "nobody", "dead"}]
Idle == [st |-> "none", sb |-> None, waiter |-> "run"]

\* A process that works through the rows it listed.
At(pc) == [pc |-> pc, todo |-> {}, snap |-> <<>>, try |-> 0]

Of(b) == {r \in env.runs : BatchOf[r] = b}
Listed(b) == [r \in Of(b) |-> row[r]]
Free(s) == lease[s] = None
CallIsLost == env.lost < env.maxLost /\ env' = [env EXCEPT !.lost = @ + 1]
Marked(r) == user[BatchOf[r]].pc # "idle"

Init ==
  /\ env \in Environments
  /\ lease = [s \in Sandboxes |-> None]
  /\ row = [r \in Runs |-> NewRow]
  /\ own = [r \in Runs |-> IF r \in env.runs THEN Fresh(1)
                                             ELSE [Fresh(1) EXCEPT !.pc = "gone"]]
  /\ acq = [r \in Runs |-> Idle]
  /\ batch = [b \in Batches |-> At("running")]
  /\ user = [b \in Batches |-> At("idle")]
  /\ late = {}

-----------------------------------------------------------------------------
(* Calls *)

\* A release call that takes effect, or fails for its caller and takes effect
\* later or never.
ReleaseCall(s) == lease' = [lease EXCEPT ![s] = None] /\ UNCHANGED <<late, env>>
LoseRelease(s) ==
  /\ CallIsLost
  /\ late' \in {late, late \cup {[op |-> "release", sb |-> s, run |-> None]}}
  /\ UNCHANGED lease

Recorded(r, s) ==
  IF protectTerminalStatus(row[r].status, "queued")
    THEN [row EXCEPT ![r] = [status |-> "queued", sandbox |-> s, released |-> FALSE]]
    ELSE row
LoseRecord(r, s) == late' \in {late, late \cup {[op |-> "record", sb |-> s, run |-> r]}}

Land(q) ==
  /\ q \in late
  /\ late' = late \ {q}
  /\ IF q.op = "release"
       THEN lease' = [lease EXCEPT ![q.sb] = None] /\ UNCHANGED row
       ELSE row' = Recorded(q.run, q.sb) /\ UNCHANGED lease
  /\ UNCHANGED <<own, acq, batch, user, env>>

Goto(r, pc) == own' = [own EXCEPT ![r].pc = pc]
Ends(r, status) == own' = [own EXCEPT ![r].pc = "settle", ![r].end = status]

-----------------------------------------------------------------------------
(* acquire *)

Start(r) ==
  /\ own[r].pc = "start"
  /\ IF Marked(r) THEN Ends(r, "cancelled") ELSE Goto(r, "reserve")
  /\ UNCHANGED <<lease, row, acq, batch, user, late, env>>

\* reserve polls until a sandbox of the instance is idle or its deadline passes.
Reserve(r) ==
  /\ own[r].pc = "reserve"
  /\ \/ Marked(r) /\ Ends(r, "cancelled") /\ UNCHANGED acq
     \/ /\ ~Marked(r) /\ \E s \in Sandboxes : Free(s)
        /\ acq' = [acq EXCEPT ![r] = [st |-> "asking", sb |-> None, waiter |-> "run"]]
        /\ Goto(r, "acquire")
     \/ ~Marked(r) /\ (\A s \in Sandboxes : ~Free(s)) /\ Ends(r, "blocked") /\ UNCHANGED acq
  /\ UNCHANGED <<lease, row, batch, user, late, env>>

\* The thread applies; nothing idle until the deadline is a failure.  A lost
\* reply leaves the sandbox taken.  An unidentifiable one is handed back.
ApplySandbox(r) ==
  /\ acq[r].st = "asking"
  /\ \/ \E s \in Sandboxes : \E st \in {"got", "rejected"} :
          /\ Free(s)
          /\ lease' = [lease EXCEPT ![s] = r]
          /\ acq' = [acq EXCEPT ![r].st = st, ![r].sb = s]
          /\ UNCHANGED env
     \/ /\ \A s \in Sandboxes : ~Free(s)
        /\ acq' = [acq EXCEPT ![r].st = "failed"]
        /\ UNCHANGED <<lease, env>>
     \/ /\ CallIsLost
        /\ acq' = [acq EXCEPT ![r].st = "failed"]
        /\ lease' \in {lease} \cup {[lease EXCEPT ![s] = r] : s \in {t \in Sandboxes : Free(t)}}
  /\ UNCHANGED <<row, own, batch, user, late>>

HandBack(r) ==
  /\ acq[r].st = "rejected" /\ acq[r].waiter # "dead"
  /\ ReleaseCall(acq[r].sb) \/ LoseRelease(acq[r].sb)
  /\ acq' = [acq EXCEPT ![r].st = "failed", ![r].sb = None]
  /\ UNCHANGED <<row, own, batch, user>>

Acquired(r) ==
  /\ own[r].pc = "acquire" /\ acq[r].st \in {"got", "failed"}
  /\ acq' = [acq EXCEPT ![r] = Idle]
  /\ IF acq[r].st = "got" THEN own' = [own EXCEPT ![r].pc = "record", ![r].sb = acq[r].sb]
                          ELSE Ends(r, "failed")
  /\ UNCHANGED <<lease, row, batch, user, late, env>>

\* Mutated form: the user's cancellation drops the acquire task.
AcquireCancelled_dropped(r) ==
  /\ own[r].pc = "acquire" /\ acq[r].st \in {"asking", "rejected"} /\ Marked(r)
  /\ acq' = [acq EXCEPT ![r].waiter = "nobody"]
  /\ Ends(r, "cancelled")
  /\ UNCHANGED <<lease, row, batch, user, late, env>>

\* _release_acquired_sandbox_later: the acquire task goes on, with a cleanup
\* task that waits for its lease.
AcquireCancelled(r) ==
  /\ own[r].pc = "acquire" /\ acq[r].st \in {"asking", "rejected"} /\ Marked(r)
  /\ acq' = [acq EXCEPT ![r].waiter = "cleanup"]
  /\ Ends(r, "cancelled")
  /\ UNCHANGED <<lease, row, batch, user, late, env>>

CleanupLate(r) ==
  /\ acq[r].waiter = "cleanup" /\ acq[r].st \in {"got", "failed"}
  /\ acq' = [acq EXCEPT ![r] = Idle]
  /\ IF acq[r].st = "got" THEN ReleaseCall(acq[r].sb) \/ LoseRelease(acq[r].sb)
                          ELSE UNCHANGED <<lease, late, env>>
  /\ UNCHANGED <<row, own, batch, user>>

\* update_run with the sandbox the run has in memory; done again after the reset.
Record(r) ==
  /\ own[r].pc \in {"record", "ready"}
  /\ \/ /\ row' = Recorded(r, own[r].sb)
        /\ \/ Marked(r) /\ Ends(r, "cancelled")
           \/ ~Marked(r) /\ Goto(r, IF own[r].pc = "record" THEN "ready" ELSE "claim")
        /\ UNCHANGED <<late, env>>
     \/ /\ CallIsLost
        /\ LoseRecord(r, own[r].sb) /\ Ends(r, "failed") /\ UNCHANGED row
  /\ UNCHANGED <<lease, acq, batch, user>>

-----------------------------------------------------------------------------
(* execution *)

\* The executor starts by claiming the row; a row that was settled refuses.
Claim(r) ==
  /\ own[r].pc = "claim"
  /\ IF row[r].status = "queued" /\ ~Marked(r)
       THEN row' = [row EXCEPT ![r].status = "running"] /\ Goto(r, "run")
       ELSE Ends(r, IF Marked(r) THEN "cancelled" ELSE "failed") /\ UNCHANGED row
  /\ UNCHANGED <<lease, acq, batch, user, late, env>>

\* The work ends, in time or not; a cancelled plan ends it too.
Executed(r) ==
  /\ own[r].pc = "run"
  /\ \E e \in {"completed", "failed"} \cup (IF Marked(r) THEN {"cancelled"} ELSE {}) : Ends(r, e)
  /\ UNCHANGED <<lease, row, acq, batch, user, late, env>>

\* The outcome is persisted unless the row is settled or the calls fail.
Settle(r) ==
  /\ own[r].pc = "settle"
  /\ \/ /\ row' = [row EXCEPT ![r].status = IF @ \in ActiveRun THEN own[r].end ELSE @]
        /\ UNCHANGED env
     \/ CallIsLost /\ UNCHANGED row
  /\ Goto(r, "release")
  /\ UNCHANGED <<lease, acq, batch, user, late>>

\* The owning task is cancelled at one of its awaits.  A record that is being
\* written still lands; the acquire task is left to itself.
Interrupt(r) ==
  /\ BatchOf[r] \in env.interruptible
  /\ own[r].pc \in {"reserve", "acquire", "record", "ready", "claim", "run", "settle"}
  /\ own' = [own EXCEPT ![r].pc = "release", ![r].end = "none"]
  /\ acq' = IF own[r].pc = "acquire" THEN [acq EXCEPT ![r].waiter = "nobody"] ELSE acq
  /\ IF own[r].pc \in {"record", "ready"} THEN LoseRecord(r, own[r].sb) ELSE UNCHANGED late
  /\ UNCHANGED <<lease, row, batch, user, env>>

-----------------------------------------------------------------------------
(* release *)

Noted(r, released) == [row EXCEPT ![r].released = released]

\* release: as many tries as configured; gave says that all of them failed.
Release(r) ==
  LET o == own[r] IN
  /\ o.pc = "release"
  /\ \/ o.sb = None /\ Goto(r, "over") /\ UNCHANGED <<lease, late, env>>
     \/ o.sb # None /\ ReleaseCall(o.sb) /\ Goto(r, "note")
     \/ /\ o.sb # None /\ LoseRelease(o.sb)
        /\ own' = [own EXCEPT ![r] =
             IF o.try + 1 < ReleaseAttempts THEN [o EXCEPT !.try = @ + 1]
                                            ELSE [o EXCEPT !.pc = "note", !.gave = TRUE]]
  /\ UNCHANGED <<row, acq, batch, user>>

\* _set_run_sandbox_release_state reads the row again; a failure is swallowed.
Note(r) ==
  /\ own[r].pc = "note"
  /\ \/ row' = Noted(r, ~own[r].gave) /\ UNCHANGED env
     \/ CallIsLost /\ UNCHANGED row
  /\ Goto(r, "over")
  /\ UNCHANGED <<lease, acq, batch, user, late>>

\* prepare_retry: the row is reopened for the next attempt, without a sandbox.
Retry(r) ==
  /\ own[r].pc = "over" /\ own[r].end # "none" /\ batch[BatchOf[r]].pc = "running"
  /\ own[r].attempt < env.maxAttempts /\ row[r].status \in RetryableRun
  /\ row' = [row EXCEPT ![r] = NewRow]
  /\ own' = [own EXCEPT ![r] = Fresh(own[r].attempt + 1)]
  /\ UNCHANGED <<lease, acq, batch, user, late, env>>

-----------------------------------------------------------------------------
(* cleanup_batch, at the end of every batch *)

CancelRows(b) == [r \in Runs |-> IF BatchOf[r] = b /\ row[r].status \in ActiveRun
                                   THEN [row[r] EXCEPT !.status = "cancelled"] ELSE row[r]]

\* A cancelled task cancels the batch first.  The loop works on the rows it listed.
StartCleanup(b) ==
  /\ batch[b].pc = "running" /\ \A r \in Of(b) : own[r].pc = "over"
  /\ LET rows == IF \E r \in Of(b) : own[r].end = "none" THEN CancelRows(b) ELSE row IN
       /\ row' = rows
       /\ batch' = [batch EXCEPT ![b] = [At("cleanup") EXCEPT !.todo = Of(b), !.snap = [r \in Of(b) |-> rows[r]]]]
  /\ UNCHANGED <<lease, own, acq, user, late, env>>

NeedsCleanup(p) == p.sandbox # None /\ ~(p.released /\ p.status \in TerminalRun)

CleanupNext(b, r) == batch' = [batch EXCEPT ![b].todo = @ \ {r}, ![b].try = 0]

CleanupRun(b, r) ==
  LET p == batch[b].snap[r] IN
  /\ batch[b].pc = "cleanup" /\ r \in batch[b].todo
  /\ \/ ~NeedsCleanup(p) /\ CleanupNext(b, r) /\ UNCHANGED <<lease, row, late, env>>
     \/ NeedsCleanup(p) /\ ReleaseCall(p.sandbox) /\ row' = Noted(r, TRUE) /\ CleanupNext(b, r)
     \/ /\ NeedsCleanup(p) /\ LoseRelease(p.sandbox)
        /\ IF batch[b].try + 1 < ReleaseAttempts
             THEN batch' = [batch EXCEPT ![b].try = @ + 1] /\ UNCHANGED row
             ELSE CleanupNext(b, r) /\ row' = Noted(r, FALSE)
  /\ UNCHANGED <<own, acq, user>>

\* What is still open is finalized, and the batch is closed.
Close(b) ==
  /\ batch[b].pc = "cleanup" /\ batch[b].todo = {}
  /\ batch' = [batch EXCEPT ![b] = At("closed")]
  /\ row' = CancelRows(b)
  /\ UNCHANGED <<lease, own, acq, user, late, env>>

-----------------------------------------------------------------------------
(* cancel_turn: the user's process *)

CancelPlan(b) ==
  /\ b \in env.cancellable /\ user[b].pc = "idle" /\ batch[b].pc # "closed"
  /\ user' = [user EXCEPT ![b] = [At("marked") EXCEPT !.snap = Listed(b)]]
  /\ UNCHANGED <<lease, row, own, acq, batch, late, env>>

CancelBatch(b) ==
  /\ user[b].pc = "marked"
  /\ user' = [user EXCEPT ![b] = IF batch[b].pc = "closed" THEN At("done")
                                 ELSE [@ EXCEPT !.pc = "cancelled"]]
  /\ row' = IF batch[b].pc = "closed" THEN row ELSE CancelRows(b)
  /\ UNCHANGED <<lease, own, acq, batch, late, env>>

\* _merge_run_snapshots: the later row, with what only the earlier one knew.
Merged(before, after) ==
  [after EXCEPT !.sandbox  = IF @ = None THEN before.sandbox ELSE @,
                !.released = @ \/ before.released]

ListAgain(b) ==
  /\ user[b].pc = "cancelled"
  /\ user' = [user EXCEPT ![b] = [At("releasing") EXCEPT !.todo = Of(b),
                      !.snap = [r \in Of(b) |-> Merged(user[b].snap[r], row[r])]]]
  /\ UNCHANGED <<lease, row, own, acq, batch, late, env>>

\* release_many and release_stale: one try per run that was active.
ReleaseMany(b, r) ==
  LET p == user[b].snap[r] IN
  /\ user[b].pc = "releasing" /\ r \in user[b].todo
  /\ user' = [user EXCEPT ![b].todo = @ \ {r}]
  /\ IF p.status \in TerminalRun \ {"cancelled"} \/ p.sandbox = None \/ p.released
       THEN UNCHANGED <<lease, row, late, env>>
       ELSE \/ ReleaseCall(p.sandbox) /\ row' = Noted(r, TRUE)
            \/ LoseRelease(p.sandbox) /\ row' = Noted(r, FALSE)
  /\ UNCHANGED <<own, acq, batch>>

CancelEnds(b) ==
  /\ user[b].pc = "releasing" /\ user[b].todo = {}
  /\ user' = [user EXCEPT ![b] = At("done")]
  /\ UNCHANGED <<lease, row, own, acq, batch, late, env>>

-----------------------------------------------------------------------------
(* A crash of the owner, and the reconciler of its replacement *)

Crash(b) ==
  /\ b \in env.mortal /\ batch[b].pc \in {"running", "cleanup"}
  /\ batch' = [batch EXCEPT ![b] = At("dead")]
  /\ own' = [r \in Runs |-> IF BatchOf[r] = b THEN [Fresh(1) EXCEPT !.pc = "gone"] ELSE own[r]]
  /\ acq' = [r \in Runs |-> IF BatchOf[r] = b THEN [acq[r] EXCEPT !.waiter = "dead", !.sb = None,
                                                      !.st = IF @ = "asking" THEN @ ELSE "none"] ELSE acq[r]]
  /\ UNCHANGED <<lease, row, user, late, env>>

\* sweep_stale settles the rows of the silent batch; what it swept is released.
Sweep(b) ==
  /\ batch[b].pc = "dead"
  /\ row' = [r \in Runs |-> IF BatchOf[r] = b /\ row[r].status \in ActiveRun
                              THEN [row[r] EXCEPT !.status = SweptStatus(row[r])] ELSE row[r]]
  /\ batch' = [batch EXCEPT ![b].pc = "swept", ![b].todo = {r \in Of(b) : row[r].status \in ActiveRun}]
  /\ UNCHANGED <<lease, own, acq, user, late, env>>

\* Mutated form: the sandbox of a run that was never claimed is forgotten.
ReleaseSwept_claimedOnly(b, r) ==
  /\ batch[b].pc = "swept" /\ r \in batch[b].todo
  /\ batch' = [batch EXCEPT ![b].todo = @ \ {r}]
  /\ IF row[r].sandbox = None \/ row[r].status = "blocked"
       THEN UNCHANGED <<lease, row, late, env>>
       ELSE \/ ReleaseCall(row[r].sandbox) /\ row' = Noted(r, TRUE)
            \/ LoseRelease(row[r].sandbox) /\ row' = Noted(r, FALSE)
  /\ UNCHANGED <<own, acq, user>>

ReleaseSwept(b, r) ==
  /\ batch[b].pc = "swept" /\ r \in batch[b].todo
  /\ batch' = [batch EXCEPT ![b].todo = @ \ {r}]
  /\ IF row[r].sandbox = None
       THEN UNCHANGED <<lease, row, late, env>>
       ELSE \/ ReleaseCall(row[r].sandbox) /\ row' = Noted(r, TRUE)
            \/ LoseRelease(row[r].sandbox) /\ row' = Noted(r, FALSE)
  /\ UNCHANGED <<own, acq, user>>

-----------------------------------------------------------------------------
RunStep(r) ==
  \/ Start(r) \/ Reserve(r) \/ Acquired(r) \/ AcquireCancelled(r) \/ Record(r)
  \/ Claim(r) \/ Executed(r) \/ Settle(r) \/ Release(r) \/ Note(r)

Thread(r) == ApplySandbox(r) \/ HandBack(r) \/ CleanupLate(r)

Owner(b) == StartCleanup(b) \/ (\E r \in Runs : CleanupRun(b, r)) \/ Close(b)

User(b) == CancelBatch(b) \/ ListAgain(b) \/ (\E r \in Runs : ReleaseMany(b, r)) \/ CancelEnds(b)

Reconciler(b) == Sweep(b) \/ (\E r \in Runs : ReleaseSwept(b, r))

Next ==
  \/ \E r \in Runs : RunStep(r) \/ Thread(r) \/ Retry(r) \/ Interrupt(r)
  \/ \E b \in Batches : Owner(b) \/ CancelPlan(b) \/ User(b) \/ Crash(b) \/ Reconciler(b)
  \/ \E q \in late : Land(q)

Spec == Init /\ [][Next]_vars

Fairness ==
  /\ \A r \in Runs : WF_vars(RunStep(r)) /\ WF_vars(Thread(r))
  /\ \A b \in Batches : WF_vars(Owner(b)) /\ WF_vars(User(b)) /\ WF_vars(Reconciler(b))

FairSpec == Spec /\ Fairness

-----------------------------------------------------------------------------
TypeOK ==
  /\ lease \in [Sandboxes -> Runs \cup {None}]
  /\ row \in [Runs -> Row] /\ own \in [Runs -> Coroutine] /\ acq \in [Runs -> Acquire]
  /\ env.lost \in 0..env.maxLost

(* Every sandbox that was taken is given back, also when the user cancels   *)
(* the turn at any moment of the acquisition.  A cancelled task, a crash    *)
(* and a lost reply of the application may leave one behind.                *)
LeaseReturned ==
  \A s \in Sandboxes, r \in Runs :
    (/\ env.maxLost = 0 /\ env.interruptible = {} /\ env.mortal = {}
     /\ lease[s] = r) ~> (lease[s] # r)

(* What a dead owner had recorded for an unfinished run is given back by    *)
(* the reconciler of its replacement, or by the user's cancellation.        *)
CrashedIsReturned ==
  \A s \in Sandboxes, r \in Runs :
    (/\ env.maxLost = 0 /\ batch[BatchOf[r]].pc = "dead" /\ lease[s] = r
     /\ row[r].sandbox = s /\ row[r].status \in ActiveRun) ~> (lease[s] # r)

=============================================================================
