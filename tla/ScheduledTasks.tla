--------------------------- MODULE ScheduledTasks ---------------------------
(***************************************************************************)
(* One scheduled task of the backend, its rows in t_scheduled_task_run,    *)
(* and the workers that run it: every backend process polls the database,  *)
(* claims due occurrences, executes them under a lease that a heartbeat    *)
(* renews, and tells the task's creator about each run that ended.         *)
(*                                                                         *)
(* Time passes in ticks of one heartbeat interval.  A lease is the number  *)
(* of ticks it has left, notification_sent_at the number of ticks since it *)
(* was written (by says who wrote it, Nobody stands for the column's 0).   *)
(***************************************************************************)
EXTENDS Naturals, Sequences, FiniteSets

CONSTANTS Workers,      \* the backend processes
          Occurrences,  \* the instants of the schedule that are looked at
          LastInstant,  \* the instants after it are not told apart
          Lease,        \* runLeaseDuration in ticks
          ClaimLen,     \* notificationClaimDuration in ticks
          Nobody, Sent, \* notification_sent_at: never written; of a sent one
          Environments

ASSUME ScheduledAssumption ==
  /\ Lease \in Nat \ {0} /\ ClaimLen \in Nat \ {0}
  /\ LastInstant \in Nat /\ 0 \notin Occurrences
  /\ Occurrences \subseteq 1..LastInstant
  /\ Nobody # Sent
  /\ {Nobody, Sent} \cap (Workers \cup Occurrences) = {}
  /\ Workers \cap Occurrences = {}

Fault == {"crash", "db", "lost", "beat"}

Terminal == {"succeeded", "failed"}

\* What may happen in a behaviour: the processes and the instants of the
\* schedule there are, how chats end, at most `faults` faults of these kinds,
\* so many requests of the creator, what may take longer than a tick, and whether
\* an update may.
Environment == [workers : SUBSET Workers, schedule : SUBSET Occurrences,
                ends : SUBSET Terminal, faults : Nat, kinds : SUBSET Fault,
                edits : Nat, slow : SUBSET {"execute", "dispatch"}, lateEdit : BOOLEAN]

ASSUME EnvironmentAssumption == Environments \subseteq Environment

VARIABLES env, now, faults, edits,
          task,   \* the row of t_scheduled_task
          edit,   \* the creator's update in progress
          rows,   \* the rows of t_scheduled_task_run, by scheduled_for
          poll,   \* poll of each worker
          exec,   \* execute of each claimed run
          disp,   \* dispatchNotification, called by a poll or an execute
          told    \* the notifications the creator has, by run

vars == <<env, now, faults, edits, task, edit, rows, poll, exec, disp, told>>

Plan == {"unknown", "known"}
ActiveStatus == {"claimed", "running"}
Dispatchers == Workers \cup Occurrences
Beyond == LastInstant + 1
Instants == Occurrences \cup {Beyond}

\* The schedule's first instant after t.
After(t) ==
  LET later == {s \in env.schedule \cup {Beyond} : s > t}
  IN  CHOOSE s \in later : \A r \in later : s <= r

NoRow == [status |-> "none", err |-> "none", lease |-> 0, plan |-> "unknown",
          notif |-> FALSE, by |-> Nobody, age |-> 0]
NoPoll == [pc |-> "idle", todo |-> {}, at |-> 0, next |-> 0]
NoExec == [pc |-> "none", worker |-> Nobody, beats |-> FALSE, due |-> FALSE,
           status |-> "failed", plan |-> "unknown"]
NoDispatch == [pc |-> "idle", run |-> 0, plan |-> "unknown"]
NoEdit == [on |-> FALSE, enabled |-> FALSE, next |-> 0]

Row == [status : {"none"} \cup ActiveStatus \cup Terminal, err : {"none", "expired", "own"},
        lease : 0..Lease, plan : Plan, notif : BOOLEAN,
        by : Dispatchers \cup {Nobody, Sent}, age : 0..ClaimLen]
Polling == [pc : {"idle", "notify", "claim"}, todo : SUBSET [run : Occurrences, plan : Plan],
            at : Occurrences \cup {0}, next : Instants \cup {0}]
Executing == [pc : {"none", "start", "chat", "finish", "ended"},
              worker : Workers \cup {Nobody}, beats : BOOLEAN, due : BOOLEAN,
              status : Terminal, plan : Plan]
Dispatching == [pc : {"idle", "claim", "create", "read", "write", "release"},
                run : Occurrences \cup {0}, plan : Plan]

TypeOK ==
  /\ env \in Environments
  /\ now \in 0..LastInstant /\ faults \in Nat /\ edits \in Nat
  /\ task \in [live : BOOLEAN, enabled : BOOLEAN, next : Instants \cup {0},
               last : Occurrences \cup {0}]
  /\ edit \in [on : BOOLEAN, enabled : BOOLEAN, next : Instants \cup {0}]
  /\ rows \in [Occurrences -> Row]
  /\ poll \in [Workers -> Polling]
  /\ exec \in [Occurrences -> Executing]
  /\ disp \in [Dispatchers -> Dispatching]
  /\ told \in [Occurrences -> Seq(Plan)]

-----------------------------------------------------------------------------
(* The creator's requests.                                                  *)

NextRunAt(enabled) == IF enabled THEN After(now) ELSE 0

\* Create: validate, take the schedule's next instant, insert the row.
Create(enabled) ==
  task = [live |-> TRUE, enabled |-> enabled, next |-> NextRunAt(enabled), last |-> 0]

\* Update takes the schedule's next instant ...
UpdateValidates(enabled) ==
  /\ task.live /\ ~edit.on /\ edits < env.edits
  /\ edits' = edits + 1
  /\ edit' = [on |-> TRUE, enabled |-> enabled, next |-> NextRunAt(enabled)]
  /\ UNCHANGED <<env, now, faults, task, rows, poll, exec, disp, told>>

\* ... and writes it later, whatever the row holds by then.
UpdateForCreator ==
  /\ edit.on
  /\ edit' = NoEdit
  /\ task' = IF task.live
             THEN [task EXCEPT !.enabled = edit.enabled, !.next = edit.next] ELSE task
  /\ UNCHANGED <<env, now, faults, edits, rows, poll, exec, disp, told>>

DeleteForCreator ==
  /\ task.live /\ edits < env.edits
  /\ edits' = edits + 1
  /\ task' = [task EXCEPT !.live = FALSE]
  /\ UNCHANGED <<env, now, faults, edit, rows, poll, exec, disp, told>>

-----------------------------------------------------------------------------
(* dispatchNotification.                                                    *)

\* The condition of ListPendingNotifications and of ClaimNotification.
Pending(o) ==
  /\ rows[o].status \in Terminal
  /\ rows[o].by = Nobody \/ (rows[o].age = ClaimLen /\ ~rows[o].notif)

\* notification_sent_at is written.
SentAt(r, d) == [r EXCEPT !.by = d, !.age = 0]

Dispatch(o, plan) == [pc |-> "claim", run |-> o, plan |-> plan]

ClaimNotification(d) ==
  /\ disp[d].pc = "claim"
  /\ LET o == disp[d].run IN
       \/ /\ Pending(o)
          /\ rows' = [rows EXCEPT ![o] = SentAt(@, d)]
          /\ disp' = [disp EXCEPT ![d].pc = "create"]
       \/ /\ ~Pending(o)
          /\ disp' = [disp EXCEPT ![d] = NoDispatch]
          /\ UNCHANGED rows
  /\ UNCHANGED <<env, now, faults, edits, task, edit, poll, exec, told>>

CreateNotification(d) ==
  /\ disp[d].pc = "create"
  /\ told' = [told EXCEPT ![disp[d].run] = Append(@, disp[d].plan)]
  /\ disp' = [disp EXCEPT ![d].pc = "read"]
  /\ UNCHANGED <<env, now, faults, edits, task, edit, rows, poll, exec>>

\* Mutated form: extra_info is written back without the plan's status.
ReadExtraInfo_blank(d) ==
  /\ disp[d].pc = "read"
  /\ disp' = [disp EXCEPT ![d] = [@ EXCEPT !.pc = "write", !.plan = "unknown"]]
  /\ UNCHANGED <<env, now, faults, edits, task, edit, rows, poll, exec, told>>

\* MarkNotificationSent reads extra_info without a lock ...
ReadExtraInfo(d) ==
  /\ disp[d].pc = "read"
  /\ disp' = [disp EXCEPT ![d] = [@ EXCEPT !.pc = "write", !.plan = rows[disp[d].run].plan]]
  /\ UNCHANGED <<env, now, faults, edits, task, edit, rows, poll, exec, told>>

\* ... and writes the whole of it back.
MarkNotificationSent(d) ==
  /\ disp[d].pc = "write"
  /\ rows' = [rows EXCEPT ![disp[d].run] =
                 [SentAt(@, Sent) EXCEPT !.plan = disp[d].plan, !.notif = TRUE]]
  /\ disp' = [disp EXCEPT ![d] = NoDispatch]
  /\ UNCHANGED <<env, now, faults, edits, task, edit, poll, exec, told>>

ReleaseNotificationClaim(d) ==
  /\ disp[d].pc = "release"
  /\ rows' = IF rows[disp[d].run].by = d
             THEN [rows EXCEPT ![disp[d].run] = SentAt(@, Nobody)]
             ELSE rows
  /\ disp' = [disp EXCEPT ![d] = NoDispatch]
  /\ UNCHANGED <<env, now, faults, edits, task, edit, poll, exec, told>>

-----------------------------------------------------------------------------
(* Faults.                                                                  *)

Faulty(kind) ==
  /\ kind \in env.kinds /\ faults < env.faults
  /\ faults' = faults + 1

\* A call of dispatchNotification fails; only a failed creation has the claim
\* taken back.
DispatchFails(d) ==
  /\ Faulty("db")
  /\ disp[d].pc # "idle"
  /\ disp' = IF disp[d].pc = "create" THEN [disp EXCEPT ![d].pc = "release"]
             ELSE [disp EXCEPT ![d] = NoDispatch]
  /\ UNCHANGED <<env, now, edits, task, edit, rows, poll, exec, told>>

\* The call took effect and only its answer is lost.
DispatchAnswerLost(d) ==
  /\ Faulty("lost")
  /\ LET o == disp[d].run IN
       \/ /\ disp[d].pc = "claim" /\ Pending(o)
          /\ rows' = [rows EXCEPT ![o] = SentAt(@, d)]
          /\ disp' = [disp EXCEPT ![d] = NoDispatch]
          /\ UNCHANGED told
       \/ /\ disp[d].pc = "create"
          /\ told' = [told EXCEPT ![o] = Append(@, disp[d].plan)]
          /\ disp' = [disp EXCEPT ![d].pc = "release"]
          /\ UNCHANGED rows
  /\ UNCHANGED <<env, now, edits, task, edit, poll, exec>>

\* execute returns, and its heartbeat with it.
Ended(e) == [e EXCEPT !.pc = "ended", !.beats = FALSE, !.due = FALSE]

\* A process ends, by a crash or a shutdown that cancels every context, and
\* is started again.
Crash(w) ==
  /\ Faulty("crash")
  /\ LET mine == {o \in Occurrences : exec[o].worker = w} IN
       /\ exec' = [o \in Occurrences |->
                     IF o \in mine THEN Ended(exec[o]) ELSE exec[o]]
       /\ disp' = [d \in Dispatchers |-> IF d \in mine \cup {w} THEN NoDispatch ELSE disp[d]]
  /\ poll' = [poll EXCEPT ![w] = NoPoll]
  /\ UNCHANGED <<env, now, edits, task, edit, rows, told>>

-----------------------------------------------------------------------------
(* execute.                                                                 *)

\* MarkRunRunning looks at nothing but the run's id.  Once it has succeeded
\* the heartbeat starts.
MarkRunRunning(o) ==
  /\ exec[o].pc = "start"
  /\ rows' = [rows EXCEPT ![o].status = "running"]
  /\ exec' = [exec EXCEPT ![o] = [@ EXCEPT !.pc = "chat", !.beats = TRUE]]
  /\ UNCHANGED <<env, now, faults, edits, task, edit, poll, disp, told>>

\* What execute knows when it is about to finish the run: a failure may leave
\* the plan's status unknown.
Over(e, status) ==
  [e EXCEPT !.pc = "finish", !.status = status,
            !.plan = IF status = "succeeded" THEN "known" ELSE "unknown"]

\* Without an answer execute finishes the run as failed.
StartFails(o) ==
  /\ exec[o].pc = "start"
  /\ \/ Faulty("db") /\ UNCHANGED rows
     \/ Faulty("lost") /\ rows' = [rows EXCEPT ![o].status = "running"]
  /\ exec' = [exec EXCEPT ![o] = Over(@, "failed")]
  /\ UNCHANGED <<env, now, edits, task, edit, poll, disp, told>>

\* The headless chat returns with or without an error; the plan's status that
\* goes with it is what a notification tells.
RunHeadlessChat(o, status) ==
  /\ exec[o].pc = "chat" /\ status \in env.ends
  /\ exec' = [exec EXCEPT ![o] = Over(@, status)]
  /\ UNCHANGED <<env, now, faults, edits, task, edit, rows, poll, disp, told>>

\* FinishRun, too, looks at nothing but the id, and replaces extra_info.
Finished(r, e) ==
  [r EXCEPT !.status = e.status, !.plan = e.plan, !.notif = FALSE,
            !.err = IF e.status = "failed" THEN "own" ELSE "none"]

\* The notification follows; the heartbeat ends with execute.
FinishRun(o) ==
  /\ exec[o].pc = "finish"
  /\ rows' = [rows EXCEPT ![o] = Finished(@, exec[o])]
  /\ exec' = [exec EXCEPT ![o] = Ended(@)]
  /\ disp' = [disp EXCEPT ![o] = Dispatch(o, exec[o].plan)]
  /\ UNCHANGED <<env, now, faults, edits, task, edit, poll, told>>

FinishFails(o) ==
  /\ exec[o].pc = "finish"
  /\ \/ Faulty("db") /\ UNCHANGED rows
     \/ Faulty("lost") /\ rows' = [rows EXCEPT ![o] = Finished(@, exec[o])]
  /\ exec' = [exec EXCEPT ![o] = Ended(@)]
  /\ UNCHANGED <<env, now, edits, task, edit, poll, disp, told>>

\* Mutated form: the heartbeat looks for the status of a run not yet started.
HeartbeatRun_claimed(o) ==
  /\ exec[o].due
  /\ rows' = IF rows[o].status = "claimed"
             THEN [rows EXCEPT ![o].lease = Lease] ELSE rows
  /\ exec' = [exec EXCEPT ![o].due = FALSE]
  /\ UNCHANGED <<env, now, faults, edits, task, edit, poll, disp, told>>

\* HeartbeatRun renews the lease of a run that is still running.
HeartbeatRun(o) ==
  /\ exec[o].due
  /\ rows' = IF rows[o].status = "running"
             THEN [rows EXCEPT ![o].lease = Lease] ELSE rows
  /\ exec' = [exec EXCEPT ![o].due = FALSE]
  /\ UNCHANGED <<env, now, faults, edits, task, edit, poll, disp, told>>

HeartbeatFails(o) ==
  /\ Faulty("beat")
  /\ exec[o].due
  /\ exec' = [exec EXCEPT ![o].due = FALSE]
  /\ UNCHANGED <<env, now, edits, task, edit, rows, poll, disp, told>>

-----------------------------------------------------------------------------
(* poll.                                                                    *)

PendingRuns ==
  {[run |-> o, plan |-> rows[o].plan] : o \in {p \in Occurrences : Pending(p)}}

\* dispatchPendingNotifications lists what is pending ...
ListPendingNotifications(w) ==
  /\ poll[w].pc = "idle"
  /\ poll' = [poll EXCEPT ![w] = [NoPoll EXCEPT !.pc = "notify", !.todo = PendingRuns]]
  /\ UNCHANGED <<env, now, faults, edits, task, edit, rows, exec, disp, told>>

\* ... and dispatches one after the other.
DispatchNext(w) ==
  /\ poll[w].pc = "notify" /\ disp[w].pc = "idle"
  /\ \E r \in poll[w].todo :
       /\ poll' = [poll EXCEPT ![w].todo = @ \ {r}]
       /\ disp' = [disp EXCEPT ![w] = Dispatch(r.run, r.plan)]
  /\ UNCHANGED <<env, now, faults, edits, task, edit, rows, exec, told>>

\* The clock is read, the due task listed and the instant after it computed.
ListDue(w) ==
  /\ poll[w].pc = "notify" /\ disp[w].pc = "idle" /\ poll[w].todo = {}
  /\ poll' = [poll EXCEPT ![w] =
                IF task.live /\ task.enabled /\ task.next # 0 /\ task.next <= now
                THEN [NoPoll EXCEPT !.pc = "claim", !.at = task.next, !.next = After(now)]
                ELSE NoPoll]
  /\ UNCHANGED <<env, now, faults, edits, task, edit, rows, exec, disp, told>>

ListFails(w) ==
  /\ Faulty("db")
  /\ poll[w].pc = "idle" \/ (poll[w].pc = "notify" /\ poll[w].todo = {} /\ disp[w].pc = "idle")
  /\ poll' = [poll EXCEPT ![w].pc = IF @ = "idle" THEN "notify" ELSE "idle"]
  /\ UNCHANGED <<env, now, edits, task, edit, rows, exec, disp, told>>

Expired(o) == rows[o].status \in ActiveStatus /\ rows[o].lease = 0

\* Mutated forms: active runs are not looked at; no unique key.
Claimable_overlapping(w) ==
  /\ task.live /\ task.enabled /\ task.next = poll[w].at
  /\ rows[poll[w].at].status = "none"
Claimable_again(w) ==
  /\ \A o \in Occurrences : rows[o].status \in ActiveStatus => Expired(o)
  /\ task.live /\ task.enabled /\ task.next = poll[w].at

\* What the transaction of Claim needs to commit: no active run once the
\* expired ones are failed, the task still due at that instant, and no row
\* for it (the unique key); otherwise all of it is rolled back.
Claimable(w) ==
  /\ \A o \in Occurrences : rows[o].status \in ActiveStatus => Expired(o)
  /\ task.live /\ task.enabled /\ task.next = poll[w].at
  /\ rows[poll[w].at].status = "none"

Claimed(w) ==
  /\ task' = [task EXCEPT !.last = poll[w].at, !.next = poll[w].next]
  /\ rows' = [o \in Occurrences |->
                IF o = poll[w].at
                THEN [NoRow EXCEPT !.status = "claimed", !.lease = Lease]
                ELSE IF Expired(o)
                     THEN [rows[o] EXCEPT !.status = "failed", !.err = "expired"]
                     ELSE rows[o]]

Claim(w) ==
  /\ poll[w].pc = "claim"
  /\ \/ /\ Claimable(w) /\ Claimed(w)
        /\ exec' = [exec EXCEPT ![poll[w].at] = [NoExec EXCEPT !.pc = "start", !.worker = w]]
     \/ ~Claimable(w) /\ UNCHANGED <<task, rows, exec>>
  /\ poll' = [poll EXCEPT ![w] = NoPoll]
  /\ UNCHANGED <<env, now, faults, edits, edit, disp, told>>

\* The transaction fails, or commits and its answer is lost: then nobody
\* executes the run.
ClaimFails(w) ==
  /\ poll[w].pc = "claim"
  /\ \/ Faulty("db") /\ UNCHANGED <<task, rows>>
     \/ Faulty("lost") /\ Claimable(w) /\ Claimed(w)
  /\ poll' = [poll EXCEPT ![w] = NoPoll]
  /\ UNCHANGED <<env, now, edits, edit, exec, disp, told>>

-----------------------------------------------------------------------------
(* Time.                                                                    *)

\* Every call to the database or the notification service is answered within
\* a tick, and a heartbeat comes on time, except where the behaviour is slow.
Prompt ==
  /\ "execute" \in env.slow
     \/ \A o \in Occurrences : ~exec[o].due /\ exec[o].pc \notin {"start", "finish"}
  /\ "dispatch" \in env.slow \/ \A d \in Dispatchers : disp[d].pc = "idle"

Tick ==
  /\ Prompt
  /\ env.lateEdit \/ ~edit.on
  /\ now' = IF now < LastInstant THEN now + 1 ELSE now
  /\ rows' = [o \in Occurrences |->
                [rows[o] EXCEPT !.lease = IF @ = 0 THEN 0 ELSE @ - 1,
                                !.age = IF rows[o].by = Nobody \/ @ = ClaimLen THEN @ ELSE @ + 1]]
  /\ exec' = [o \in Occurrences |-> [exec[o] EXCEPT !.due = exec[o].beats]]
  /\ UNCHANGED <<env, faults, edits, task, edit, poll, disp, told>>

-----------------------------------------------------------------------------
Init ==
  /\ env \in Environments
  /\ now = 0 /\ faults = 0 /\ edits = 0
  /\ \E enabled \in BOOLEAN : Create(enabled)
  /\ edit = NoEdit
  /\ rows = [o \in Occurrences |-> NoRow]
  /\ poll = [w \in Workers |-> NoPoll]
  /\ exec = [o \in Occurrences |-> NoExec]
  /\ disp = [d \in Dispatchers |-> NoDispatch]
  /\ told = [o \in Occurrences |-> <<>>]

Poll(w) == \/ ListPendingNotifications(w) \/ DispatchNext(w) \/ ListDue(w) \/ Claim(w)

Execute(o) == \/ MarkRunRunning(o) \/ FinishRun(o)
              \/ \E status \in Terminal : RunHeadlessChat(o, status)

Notify(d) == \/ ClaimNotification(d) \/ CreateNotification(d) \/ ReadExtraInfo(d)
             \/ MarkNotificationSent(d) \/ ReleaseNotificationClaim(d)

Next ==
  \/ Tick
  \/ UpdateForCreator \/ DeleteForCreator
  \/ \E enabled \in BOOLEAN : UpdateValidates(enabled)
  \/ \E w \in env.workers : Poll(w) \/ ListFails(w) \/ ClaimFails(w) \/ Crash(w)
  \/ \E o \in Occurrences : \/ Execute(o) \/ HeartbeatRun(o)
                            \/ StartFails(o) \/ FinishFails(o) \/ HeartbeatFails(o)
  \/ \E d \in Dispatchers : Notify(d) \/ DispatchFails(d) \/ DispatchAnswerLost(d)

Spec == Init /\ [][Next]_vars

\* Time passes, some worker goes on polling (cron starts a poll every ten
\* seconds), goroutines run and chats end.
Fairness ==
  /\ WF_vars(Tick \/ \E o \in Occurrences : HeartbeatRun(o))
  /\ WF_vars(UpdateForCreator)
  /\ WF_vars(\E w \in env.workers : Poll(w))
  /\ WF_vars(\E o \in Occurrences : Execute(o))
  /\ WF_vars(\E d \in Dispatchers : Notify(d))

FairSpec == Spec /\ Fairness

-----------------------------------------------------------------------------
(* Properties.                                                              *)

Active(o) == rows[o].status \in ActiveStatus

\* Two runs of the task are active, or two workers busy with it, only when
\* one of them was declared dead: repository.go:210 refuses a claim while a
\* run is active, MarkRunRunning and FinishRun of a late worker look at
\* nothing.
OneAtATime ==
  \A o, p \in Occurrences :
    /\ o # p
    /\ Active(o) \/ exec[o].pc \in {"start", "chat"}
    /\ Active(p) \/ exec[p].pc \in {"start", "chat"}
    => "expired" \in {rows[o].err, rows[p].err}

\* A worker that is alive and whose calls are answered within a tick is not
\* declared dead before it has missed Lease - 1 heartbeats.
ExpiredWasSilent ==
  \A o \in Occurrences :
    rows[o].err = "expired" =>
      "execute" \in env.slow \/ faults >= Lease - 1 \/ env.kinds \cap {"crash", "lost", "db"} # {}

\* No occurrence is executed twice, even if an update of the creator writes
\* back an instant that was claimed meanwhile.
OccurrenceOnce ==
  [][\A o \in Occurrences :
       (exec'[o].pc = "start" /\ exec[o].pc # "start") =>
         (exec[o].pc = "none" /\ rows[o].status = "none")]_vars

\* What the creator was told last about a run is what its row says, for ever
\* after some moment.  (Not when a run that was declared dead finishes late: a
\* dispatch that has read the row before FinishRun may mark it afterwards.)
LastWord ==
  \A o \in Occurrences :
    (env.slow = {} /\ "beat" \notin env.kinds) =>
      <>[](rows[o].status \in Terminal =>
             told[o] # <<>> /\ told[o][Len(told[o])] = rows[o].plan)
=============================================================================
