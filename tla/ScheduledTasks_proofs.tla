------------------------ MODULE ScheduledTasks_proofs ------------------------
(***************************************************************************)
(* Proofs about ScheduledTasks, for any workers, schedule and durations.   *)
(***************************************************************************)
EXTENDS ScheduledTasks, WellFoundedInduction, TLAPS

\* A leaf is tried with SMT, then with Zenon, with time to spare.
USE SMTT(30), ZenonT(30)

\* A dispatch has a run, a claim an instant.
Aimed ==
  /\ \A d \in Dispatchers : disp[d].pc # "idle" => disp[d].run \in Occurrences
  /\ \A w \in Workers : poll[w].pc = "claim" => poll[w].at \in Occurrences

AtWork(o) == exec[o].pc \in {"start", "chat"}
Busy(o) == Active(o) \/ AtWork(o)

\* Who works has an active row, or was declared dead; who was started has a row.
Counted(o) ==
  /\ AtWork(o) => Active(o) \/ rows[o].err = "expired"
  /\ rows[o].status = "none" => exec[o].pc = "none" /\ exec[o].worker = Nobody

\* Nothing goes wrong but heartbeats.
Calm == "execute" \notin env.slow /\ env.kinds \cap {"crash", "lost", "db"} = {}

\* The ticks a lease has lost are lost heartbeats, but for one that is due.
Beating(o) ==
  /\ rows[o].err = "expired" => faults >= Lease - 1
  /\ Active(o) /\ rows[o].err # "expired" =>
       \/ /\ exec[o].pc = "start" /\ ~exec[o].beats /\ ~exec[o].due
          /\ rows[o].lease + faults >= Lease
       \/ /\ exec[o].pc \in {"chat", "finish"} /\ exec[o].beats
          /\ rows[o].status = "running"
          /\ rows[o].lease + faults + (IF exec[o].due THEN 1 ELSE 0) >= Lease

\* What is said of each run.
Steady(o) == Counted(o) /\ (Calm => Beating(o))

IInv == TypeOK /\ Aimed /\ OneAtATime /\ \A o \in Occurrences : Steady(o)

-----------------------------------------------------------------------------
(* The schedule has a first instant after any other.                        *)
LEMMA AfterIsInstant ==
  ASSUME env \in Environments, NEW t \in 0..LastInstant
  PROVE  After(t) \in Instants
<1> DEFINE later == {s \in env.schedule \cup {Beyond} : s > t}
           Below == {ss \in Nat \X Nat : ss[1] < ss[2]}
<1>1. env.schedule \subseteq Occurrences
  <2>1. env \in Environment
    BY EnvironmentAssumption
  <2> QED BY <2>1 DEF Environment
<1>2. later \subseteq Nat /\ Beyond \in later
  <2>1. Occurrences \subseteq Nat /\ LastInstant \in Nat
    BY ScheduledAssumption
  <2>2. Beyond \in Nat /\ Beyond > t
    BY <2>1 DEF Beyond
  <2>3. env.schedule \cup {Beyond} \subseteq Nat
    BY <1>1, <2>1, <2>2
  <2> QED BY <2>2, <2>3
<1>3. IsWellFoundedOn(Below, Nat)
  BY NatLessThanWellFounded, Zenon DEF OpToRel
<1>4. PICK x \in later : \A y \in later : ~(<<y, x>> \in Below)
  <2> HIDE DEF later, Below
  <2> QED BY <1>2, <1>3, WFMin, Zenon
<1>5. \A y \in later : x <= y
  <2> SUFFICES ASSUME NEW y \in later PROVE x <= y
    OBVIOUS
  <2>1. x \in Nat /\ y \in Nat
    BY <1>2
  <2>2. y < x => <<y, x>> \in Below
    BY <2>1
  <2>3. ~(y < x)
    BY <1>4, <2>2
  <2> QED BY <2>1, <2>3
<1>6. After(t) \in later
  <2> HIDE DEF later
  <2>1. After(t) = CHOOSE s \in later : \A r \in later : s <= r
    BY DEF After, later
  <2> QED BY <1>5, <2>1
<1> QED BY <1>1, <1>6 DEF Instants

LEMMA Shapes ==
  /\ NoRow \in Row /\ NoPoll \in Polling /\ NoExec \in Executing
  /\ NoDispatch \in Dispatching
  /\ \A o \in Occurrences, p \in Plan : Dispatch(o, p) \in Dispatching
  /\ Occurrences \subseteq Nat /\ Occurrences \subseteq Instants
  /\ 0 \in 0..Lease /\ Lease \in 0..Lease /\ 0 \in 0..ClaimLen
<1> USE ScheduledAssumption
<1>1. 0 \in 0..Lease /\ Lease \in 0..Lease /\ 0 \in 0..ClaimLen
  OBVIOUS
<1>2. NoRow \in Row
  BY <1>1 DEF NoRow, Row, Plan
<1>3. NoPoll \in Polling /\ NoExec \in Executing /\ NoDispatch \in Dispatching
  BY DEF NoPoll, Polling, NoExec, Executing, NoDispatch, Dispatching, Plan, Terminal
<1> QED BY <1>1, <1>2, <1>3 DEF Dispatch, Dispatching, Instants

-----------------------------------------------------------------------------
(* The shapes are kept.                                                     *)
LEMMA RowMoves ==
  ASSUME NEW r \in Row
  PROVE  /\ \A d \in Dispatchers \cup {Nobody, Sent} : SentAt(r, d) \in Row
         /\ \A p \in Plan : [SentAt(r, Sent) EXCEPT !.plan = p, !.notif = TRUE] \in Row
         /\ \A e \in Executing : Finished(r, e) \in Row
         /\ [r EXCEPT !.status = "running"] \in Row
         /\ [r EXCEPT !.status = "failed", !.err = "expired"] \in Row
         /\ [r EXCEPT !.lease = Lease] \in Row
<1> USE Shapes
<1>1. \A d \in Dispatchers \cup {Nobody, Sent} : SentAt(r, d) \in Row
  BY DEF SentAt, Row
<1>2. ASSUME NEW p \in Plan PROVE [SentAt(r, Sent) EXCEPT !.plan = p, !.notif = TRUE] \in Row
  BY <1>1 DEF Row
<1>3. ASSUME NEW e \in Executing PROVE Finished(r, e) \in Row
  BY DEF Finished, Row, Executing
<1>4. /\ [r EXCEPT !.status = "running"] \in Row
      /\ [r EXCEPT !.status = "failed", !.err = "expired"] \in Row
      /\ [r EXCEPT !.lease = Lease] \in Row
  BY DEF Row, ActiveStatus, Terminal
<1> QED BY <1>1, <1>2, <1>3, <1>4

LEMMA ExecMoves ==
  ASSUME NEW e \in Executing
  PROVE  /\ Ended(e) \in Executing
         /\ \A status \in Terminal : Over(e, status) \in Executing
         /\ [e EXCEPT !.pc = "chat", !.beats = TRUE] \in Executing
         /\ \A b \in BOOLEAN : [e EXCEPT !.due = b] \in Executing
         /\ \A w \in Workers : [NoExec EXCEPT !.pc = "start", !.worker = w] \in Executing
<1>1. Ended(e) \in Executing /\ [e EXCEPT !.pc = "chat", !.beats = TRUE] \in Executing
  BY DEF Ended, Executing
<1>2. ASSUME NEW status \in Terminal PROVE Over(e, status) \in Executing
  BY DEF Over, Executing, Plan
<1>3. \A b \in BOOLEAN : [e EXCEPT !.due = b] \in Executing
  BY DEF Executing
<1>4. \A w \in Workers : [NoExec EXCEPT !.pc = "start", !.worker = w] \in Executing
  BY DEF NoExec, Executing, Terminal, Plan
<1> QED BY <1>1, <1>2, <1>3, <1>4

LEMMA DispatchMoves ==
  ASSUME NEW x \in Dispatching
  PROVE  /\ \A pc \in {"create", "read", "release"} : [x EXCEPT !.pc = pc] \in Dispatching
         /\ \A p \in Plan : [x EXCEPT !.pc = "write", !.plan = p] \in Dispatching
BY DEF Dispatching

LEMMA FaultsCount ==
  ASSUME TypeOK, NEW kind, Faulty(kind)
  PROVE  faults' \in Nat /\ faults' = faults + 1
BY DEF TypeOK, Faulty

LEMMA RequestTypes ==
  ASSUME TypeOK, NEW enabled \in BOOLEAN,
         UpdateValidates(enabled) \/ UpdateForCreator \/ DeleteForCreator
  PROVE  TypeOK'
<1>1. NextRunAt(enabled) \in Instants \cup {0}
  BY AfterIsInstant DEF NextRunAt, TypeOK
<1>2. CASE UpdateValidates(enabled)
  BY <1>1, <1>2 DEF TypeOK, UpdateValidates
<1>3. CASE UpdateForCreator
  BY <1>3 DEF TypeOK, UpdateForCreator, NoEdit
<1>4. CASE DeleteForCreator
  <2>1. task' \in [live : BOOLEAN, enabled : BOOLEAN, next : Instants \cup {0},
                   last : Occurrences \cup {0}]
    BY <1>4 DEF TypeOK, DeleteForCreator
  <2>2. edits' \in Nat
    BY <1>4 DEF TypeOK, DeleteForCreator
  <2> QED BY <1>4, <2>1, <2>2 DEF TypeOK, DeleteForCreator
<1> QED BY <1>2, <1>3, <1>4

LEMMA NotifyTypes ==
  ASSUME TypeOK, Aimed, NEW d \in Dispatchers,
         Notify(d) \/ DispatchFails(d) \/ DispatchAnswerLost(d)
  PROVE  TypeOK'
<1> DEFINE o == disp[d].run
<1>1. /\ disp[d] \in Dispatching /\ disp[d].plan \in Plan
      /\ disp[d].pc # "idle" => o \in Occurrences
  BY DEF TypeOK, Aimed, Dispatching
<1>2. o \in Occurrences =>
        rows[o] \in Row /\ rows[o].plan \in Plan /\ told[o] \in Seq(Plan)
  BY DEF TypeOK, Row
<1>3. o \in Occurrences => Append(told[o], disp[d].plan) \in Seq(Plan)
  BY <1>1, <1>2
<1>4. NoDispatch \in Dispatching
  BY Shapes
<1>5. CASE ClaimNotification(d)
  <2>1. SentAt(rows[o], d) \in Row /\ [disp[d] EXCEPT !.pc = "create"] \in Dispatching
    BY <1>1, <1>2, <1>5, RowMoves, DispatchMoves DEF ClaimNotification
  <2>2. rows' \in [Occurrences -> Row] /\ disp' \in [Dispatchers -> Dispatching]
    <3>1. CASE Pending(o)
      <4>1. /\ rows' = [rows EXCEPT ![o] = SentAt(@, d)]
            /\ disp' = [disp EXCEPT ![d] = [@ EXCEPT !.pc = "create"]]
        BY <1>5, <3>1 DEF ClaimNotification
      <4>2. rows' \in [Occurrences -> Row]
        BY <2>1, <4>1 DEF TypeOK
      <4> QED BY <2>1, <4>1, <4>2 DEF TypeOK
    <3>2. CASE ~Pending(o)
      BY <1>4, <1>5, <3>2 DEF TypeOK, ClaimNotification
    <3> QED BY <3>1, <3>2
  <2> QED BY <1>5, <2>2 DEF TypeOK, ClaimNotification
<1>6. CASE CreateNotification(d)
  BY <1>1, <1>3, <1>6, DispatchMoves DEF TypeOK, CreateNotification
<1>7. CASE ReadExtraInfo(d)
  BY <1>1, <1>2, <1>7, DispatchMoves DEF TypeOK, ReadExtraInfo
<1>8. CASE MarkNotificationSent(d)
  BY <1>1, <1>2, <1>4, <1>8, RowMoves DEF TypeOK, MarkNotificationSent
<1>9. CASE ReleaseNotificationClaim(d)
  BY <1>1, <1>2, <1>4, <1>9, RowMoves DEF TypeOK, ReleaseNotificationClaim
<1>10. CASE DispatchFails(d)
  <2>1. [disp[d] EXCEPT !.pc = "release"] \in Dispatching
    BY <1>1, DispatchMoves
  <2>2. disp' \in [Dispatchers -> Dispatching]
    BY <1>4, <1>10, <2>1 DEF TypeOK, DispatchFails
  <2>3. faults' \in Nat
    BY <1>10, FaultsCount DEF DispatchFails
  <2> QED BY <1>10, <2>2, <2>3 DEF TypeOK, DispatchFails
<1>11. CASE DispatchAnswerLost(d)
  <2>0. faults' \in Nat
    BY <1>11, FaultsCount DEF DispatchAnswerLost
  <2>1. CASE disp[d].pc = "claim"
    <3>1. SentAt(rows[o], d) \in Row
      BY <1>1, <1>2, <2>1, RowMoves
    <3>2. /\ rows' = [rows EXCEPT ![o] = SentAt(rows[o], d)]
          /\ disp' = [disp EXCEPT ![d] = NoDispatch] /\ told' = told
      BY <1>11, <2>1 DEF DispatchAnswerLost
    <3>3. rows' \in [Occurrences -> Row]
      BY <3>1, <3>2 DEF TypeOK
    <3>4. disp' \in [Dispatchers -> Dispatching]
      BY <1>4, <3>2 DEF TypeOK
    <3> QED BY <1>11, <2>0, <3>2, <3>3, <3>4 DEF TypeOK, DispatchAnswerLost
  <2>2. CASE disp[d].pc = "create"
    <3>1. [disp[d] EXCEPT !.pc = "release"] \in Dispatching
      BY <1>1, DispatchMoves
    <3>2. /\ told' = [told EXCEPT ![o] = Append(@, disp[d].plan)]
          /\ disp' = [disp EXCEPT ![d] = [@ EXCEPT !.pc = "release"]]
      BY <1>11, <2>2 DEF DispatchAnswerLost
    <3>3. told' \in [Occurrences -> Seq(Plan)] /\ disp' \in [Dispatchers -> Dispatching]
      BY <1>1, <1>3, <2>2, <3>1, <3>2 DEF TypeOK
    <3> QED BY <1>11, <2>0, <2>2, <3>3 DEF TypeOK, DispatchAnswerLost
  <2> QED BY <1>11, <2>1, <2>2 DEF DispatchAnswerLost
<1> QED BY <1>5, <1>6, <1>7, <1>8, <1>9, <1>10, <1>11 DEF Notify

LEMMA ExecuteTypes ==
  ASSUME TypeOK, NEW o \in Occurrences,
         \/ Execute(o) \/ HeartbeatRun(o)
         \/ StartFails(o) \/ FinishFails(o) \/ HeartbeatFails(o)
  PROVE  TypeOK'
<1>1. /\ exec[o] \in Executing /\ exec[o].plan \in Plan
      /\ rows[o] \in Row /\ o \in Dispatchers /\ "failed" \in Terminal
  BY DEF TypeOK, Dispatchers, Executing, Terminal
<1>2. CASE MarkRunRunning(o)
  BY <1>1, <1>2, RowMoves, ExecMoves DEF TypeOK, MarkRunRunning
<1>3. CASE FinishRun(o)
  <2>1. Dispatch(o, exec[o].plan) \in Dispatching
    BY <1>1, Shapes
  <2> QED BY <1>1, <1>3, <2>1, RowMoves, ExecMoves DEF TypeOK, FinishRun
<1>4. ASSUME NEW status \in Terminal, RunHeadlessChat(o, status) PROVE TypeOK'
  BY <1>1, <1>4, ExecMoves DEF TypeOK, RunHeadlessChat
<1>5. CASE HeartbeatRun(o)
  BY <1>1, <1>5, RowMoves, ExecMoves DEF TypeOK, HeartbeatRun
<1>6. CASE StartFails(o)
  <2>1. /\ [rows[o] EXCEPT !.status = "running"] \in Row
        /\ Over(exec[o], "failed") \in Executing
    BY <1>1, RowMoves, ExecMoves
  <2>2. rows' \in [Occurrences -> Row] /\ exec' \in [Occurrences -> Executing]
    BY <1>6, <2>1 DEF TypeOK, StartFails
  <2>3. faults' \in Nat
    BY <1>6, FaultsCount DEF StartFails
  <2> QED BY <1>6, <2>2, <2>3 DEF TypeOK, StartFails
<1>7. CASE FinishFails(o)
  <2>1. /\ Finished(rows[o], exec[o]) \in Row
        /\ Ended(exec[o]) \in Executing
    BY <1>1, RowMoves, ExecMoves
  <2>2. rows' \in [Occurrences -> Row] /\ exec' \in [Occurrences -> Executing]
    BY <1>7, <2>1 DEF TypeOK, FinishFails
  <2>3. faults' \in Nat
    BY <1>7, FaultsCount DEF FinishFails
  <2> QED BY <1>7, <2>2, <2>3 DEF TypeOK, FinishFails
<1>8. CASE HeartbeatFails(o)
  <2>1. faults' \in Nat
    BY <1>8, FaultsCount DEF HeartbeatFails
  <2> QED BY <1>1, <1>8, <2>1, ExecMoves DEF TypeOK, HeartbeatFails
<1> QED BY <1>2, <1>3, <1>4, <1>5, <1>6, <1>7, <1>8 DEF Execute

LEMMA PollTypes ==
  ASSUME TypeOK, Aimed, NEW w \in Workers,
         Poll(w) \/ ListFails(w) \/ ClaimFails(w) \/ Crash(w)
  PROVE  TypeOK'
<1>1. poll[w] \in Polling /\ w \in Dispatchers /\ NoPoll \in Polling
  BY Shapes DEF TypeOK, Dispatchers
<1>2. CASE ListPendingNotifications(w)
  <2>1. PendingRuns \subseteq [run : Occurrences, plan : Plan]
    BY DEF TypeOK, PendingRuns, Row
  <2>2. [NoPoll EXCEPT !.pc = "notify", !.todo = PendingRuns] \in Polling
    BY <2>1 DEF NoPoll, Polling
  <2> QED BY <1>2, <2>2 DEF TypeOK, ListPendingNotifications
<1>3. CASE DispatchNext(w)
  <2>1. PICK r \in poll[w].todo :
          /\ poll' = [poll EXCEPT ![w].todo = @ \ {r}]
          /\ disp' = [disp EXCEPT ![w] = Dispatch(r.run, r.plan)]
    BY <1>3 DEF DispatchNext
  <2>2. poll' \in [Workers -> Polling]
    BY <1>1, <2>1 DEF TypeOK, Polling
  <2>3. r.run \in Occurrences /\ r.plan \in Plan
    BY <1>1 DEF Polling
  <2>4. Dispatch(r.run, r.plan) \in Dispatching
    BY <2>3, Shapes
  <2>5. disp' \in [Dispatchers -> Dispatching]
    BY <2>1, <2>4 DEF TypeOK
  <2> QED BY <1>3, <2>2, <2>5 DEF TypeOK, DispatchNext
<1>4. CASE ListDue(w)
  <2>1. After(now) \in Instants
    BY AfterIsInstant DEF TypeOK
  <2>2. task.next # 0 /\ task.next <= now => task.next \in Occurrences
    BY ScheduledAssumption DEF TypeOK, Instants, Beyond
  <2>3. task.next \in Occurrences =>
          [NoPoll EXCEPT !.pc = "claim", !.at = task.next, !.next = After(now)] \in Polling
    BY <2>1 DEF NoPoll, Polling
  <2> QED BY <1>1, <1>4, <2>2, <2>3 DEF TypeOK, ListDue
<1>5. CASE ListFails(w)
  <2>1. \A pc \in {"notify", "idle"} : [poll[w] EXCEPT !.pc = pc] \in Polling
    BY <1>1 DEF Polling
  <2>2. poll' \in [Workers -> Polling]
    BY <1>5, <2>1 DEF TypeOK, ListFails
  <2>3. faults' \in Nat
    BY <1>5, FaultsCount DEF ListFails
  <2> QED BY <1>5, <2>2, <2>3 DEF TypeOK, ListFails
<1>6. poll[w].pc = "claim" /\ Claimed(w) =>
        /\ task' \in [live : BOOLEAN, enabled : BOOLEAN, next : Instants \cup {0},
                     last : Occurrences \cup {0}]
        /\ rows' \in [Occurrences -> Row]
  <2> SUFFICES ASSUME poll[w].pc = "claim", Claimed(w)
               PROVE  /\ task' \in [live : BOOLEAN, enabled : BOOLEAN,
                                    next : Instants \cup {0}, last : Occurrences \cup {0}]
                      /\ rows' \in [Occurrences -> Row]
    OBVIOUS
  <2>1. poll[w].at \in Occurrences /\ poll[w].next \in Instants \cup {0}
    BY <1>1 DEF Aimed, Polling
  <2>2. [NoRow EXCEPT !.status = "claimed", !.lease = Lease] \in Row
    BY Shapes DEF Row, ActiveStatus
  <2>3. \A o \in Occurrences :
          rows[o] \in Row /\ [rows[o] EXCEPT !.status = "failed", !.err = "expired"] \in Row
    BY RowMoves DEF TypeOK
  <2>4. rows' \in [Occurrences -> Row]
    BY <2>2, <2>3 DEF Claimed
  <2>5. task' \in [live : BOOLEAN, enabled : BOOLEAN, next : Instants \cup {0},
                   last : Occurrences \cup {0}]
    BY <2>1 DEF TypeOK, Claimed
  <2> QED BY <2>4, <2>5
<1>7. CASE Claim(w)
  <2>1. [NoExec EXCEPT !.pc = "start", !.worker = w] \in Executing
    BY Shapes, ExecMoves
  <2>2. exec' \in [Occurrences -> Executing] /\ poll' \in [Workers -> Polling]
    <3>1. \/ exec' = [exec EXCEPT ![poll[w].at] = [NoExec EXCEPT !.pc = "start", !.worker = w]]
          \/ exec' = exec
      BY <1>7 DEF Claim
    <3>2. exec' \in [Occurrences -> Executing]
      BY <2>1, <3>1 DEF TypeOK
    <3> QED BY <1>1, <1>7, <3>2 DEF TypeOK, Claim
  <2>3. CASE Claimable(w)
    BY <1>6, <1>7, <2>2, <2>3 DEF TypeOK, Claim
  <2>4. CASE ~Claimable(w)
    BY <1>7, <2>2, <2>4 DEF TypeOK, Claim
  <2> QED BY <2>3, <2>4
<1>8. CASE ClaimFails(w)
  <2>1. faults' \in Nat
    BY <1>8, FaultsCount DEF ClaimFails
  <2>2. poll' \in [Workers -> Polling]
    BY <1>1, <1>8 DEF TypeOK, ClaimFails
  <2>3. CASE Claimed(w)
    BY <1>6, <1>8, <2>1, <2>2, <2>3 DEF TypeOK, ClaimFails
  <2>4. CASE UNCHANGED <<task, rows>>
    BY <1>8, <2>1, <2>2, <2>4 DEF TypeOK, ClaimFails
  <2> QED BY <1>8, <2>3, <2>4 DEF ClaimFails
<1>9. CASE Crash(w)
  <2>1. faults' \in Nat
    BY <1>9, FaultsCount DEF Crash
  <2>2. \A o \in Occurrences : Ended(exec[o]) \in Executing /\ exec[o] \in Executing
    BY ExecMoves DEF TypeOK
  <2>3. exec' \in [Occurrences -> Executing]
    BY <1>9, <2>2 DEF Crash
  <2>4. NoDispatch \in Dispatching /\ \A d \in Dispatchers : disp[d] \in Dispatching
    BY Shapes DEF TypeOK
  <2>5. disp' \in [Dispatchers -> Dispatching]
    BY <1>9, <2>4 DEF Crash
  <2>6. poll' \in [Workers -> Polling]
    BY <1>1, <1>9 DEF TypeOK, Crash
  <2> QED BY <1>9, <2>1, <2>3, <2>5, <2>6 DEF TypeOK, Crash
<1> QED BY <1>2, <1>3, <1>4, <1>5, <1>7, <1>8, <1>9 DEF Poll

LEMMA TickTypes ==
  ASSUME TypeOK, Tick
  PROVE  TypeOK'
<1>1. now' \in 0..LastInstant
  <2>1. now \in 0..LastInstant /\ LastInstant \in Nat
    BY ScheduledAssumption DEF TypeOK
  <2>2. now' = IF now < LastInstant THEN now + 1 ELSE now
    BY DEF Tick
  <2> QED BY <2>1, <2>2
<1>2. ASSUME NEW o \in Occurrences
      PROVE  /\ rows'[o] \in Row
             /\ exec'[o] \in Executing
  <2>1. rows[o] \in Row /\ exec[o] \in Executing
    BY DEF TypeOK
  <2>2. /\ (IF rows[o].lease = 0 THEN 0 ELSE rows[o].lease - 1) \in 0..Lease
        /\ (IF rows[o].by = Nobody \/ rows[o].age = ClaimLen
            THEN rows[o].age ELSE rows[o].age + 1) \in 0..ClaimLen
    BY <2>1, ScheduledAssumption DEF Row
  <2>3. rows'[o] \in Row
    BY <2>1, <2>2 DEF Tick, Row
  <2>4. exec'[o] \in Executing
    BY <2>1, ExecMoves DEF Tick, Executing
  <2> QED BY <2>3, <2>4
<1>3. rows' \in [Occurrences -> Row] /\ exec' \in [Occurrences -> Executing]
  BY <1>2 DEF Tick
<1> QED BY <1>1, <1>3 DEF TypeOK, Tick

LEMMA InitHolds ==
  Init => IInv
<1> SUFFICES ASSUME Init PROVE IInv
  OBVIOUS
<1>1. env \in Environments /\ now \in 0..LastInstant /\ faults \in Nat /\ edits \in Nat
  BY ScheduledAssumption DEF Init
<1>2. PICK enabled \in BOOLEAN : Create(enabled)
  BY DEF Init
<1>3. NextRunAt(enabled) \in Instants \cup {0}
  BY <1>1, AfterIsInstant DEF NextRunAt
<1>4. TypeOK
  BY <1>1, <1>2, <1>3, Shapes DEF Init, Create, TypeOK, NoEdit
<1>5. \A o \in Occurrences : ~Busy(o) /\ Steady(o)
  BY DEF Init, NoRow, NoExec, Busy, Active, ActiveStatus, AtWork, Steady, Counted, Beating
<1>6. OneAtATime
  BY <1>5 DEF OneAtATime, Busy, AtWork
<1>7. Aimed
  BY DEF Init, Aimed, NoDispatch, NoPoll
<1> QED BY <1>4, <1>5, <1>6, <1>7 DEF IInv

-----------------------------------------------------------------------------
(* Every dispatch has its run, every claim its instant.                     *)
LEMMA NotifyAims ==
  ASSUME TypeOK, Aimed, NEW d \in Dispatchers,
         Notify(d) \/ DispatchFails(d) \/ DispatchAnswerLost(d)
  PROVE  Aimed'
<1>1. poll' = poll
  BY DEF Notify, ClaimNotification, CreateNotification, ReadExtraInfo, MarkNotificationSent,
         ReleaseNotificationClaim, DispatchFails, DispatchAnswerLost
<1>2. disp[d].pc # "idle"
  BY DEF Notify, ClaimNotification, CreateNotification, ReadExtraInfo, MarkNotificationSent,
         ReleaseNotificationClaim, DispatchFails, DispatchAnswerLost
<1>3. /\ \A e \in Dispatchers : e # d => disp'[e] = disp[e]
      /\ disp'[d].pc = "idle" \/ disp'[d].run = disp[d].run
  <2>1. disp[d] \in Dispatching /\ disp \in [Dispatchers -> Dispatching]
    BY DEF TypeOK
  <2>2. CASE ClaimNotification(d)
    BY <2>1, <2>2 DEF ClaimNotification, NoDispatch, Dispatching
  <2>3. CASE CreateNotification(d)
    BY <2>1, <2>3 DEF CreateNotification, Dispatching
  <2>4. CASE ReadExtraInfo(d)
    BY <2>1, <2>4 DEF ReadExtraInfo, Dispatching
  <2>5. CASE MarkNotificationSent(d)
    BY <2>1, <2>5 DEF MarkNotificationSent, NoDispatch
  <2>6. CASE ReleaseNotificationClaim(d)
    BY <2>1, <2>6 DEF ReleaseNotificationClaim, NoDispatch
  <2>7. CASE DispatchFails(d)
    BY <2>1, <2>7 DEF DispatchFails, NoDispatch, Dispatching
  <2>8. CASE DispatchAnswerLost(d)
    BY <2>1, <2>8 DEF DispatchAnswerLost, NoDispatch, Dispatching
  <2> QED BY <2>2, <2>3, <2>4, <2>5, <2>6, <2>7, <2>8 DEF Notify
<1> QED BY <1>1, <1>2, <1>3 DEF Aimed

LEMMA OthersAim ==
  ASSUME TypeOK, Aimed,
         \/ Tick \/ UpdateForCreator \/ DeleteForCreator
         \/ \E enabled \in BOOLEAN : UpdateValidates(enabled)
         \/ \E o \in Occurrences : \/ Execute(o) \/ HeartbeatRun(o)
                                   \/ StartFails(o) \/ FinishFails(o) \/ HeartbeatFails(o)
  PROVE  Aimed'
<1>1. CASE \E o \in Occurrences : FinishRun(o)
  <2>1. PICK o \in Occurrences : FinishRun(o)
    BY <1>1
  <2>2. poll' = poll /\ disp' = [disp EXCEPT ![o] = Dispatch(o, exec[o].plan)]
    BY <2>1 DEF FinishRun
  <2> QED BY <2>2 DEF TypeOK, Aimed, Dispatch
<1>2. CASE poll' = poll /\ disp' = disp
  BY <1>2 DEF Aimed
<1> QED BY <1>1, <1>2
        DEF Tick, UpdateForCreator, DeleteForCreator, UpdateValidates, Execute, MarkRunRunning,
            RunHeadlessChat, HeartbeatRun, StartFails, FinishFails, HeartbeatFails

LEMMA PollAims ==
  ASSUME TypeOK, Aimed, NEW w \in Workers,
         Poll(w) \/ ListFails(w) \/ ClaimFails(w) \/ Crash(w)
  PROVE  Aimed'
<1>1. poll[w] \in Polling /\ poll \in [Workers -> Polling] /\ w \in Dispatchers
  BY DEF TypeOK, Dispatchers
<1>2. ASSUME disp' = disp, \A v \in Workers : v # w => poll'[v] = poll[v],
             poll'[w].pc = "claim" => poll'[w].at \in Occurrences
      PROVE  Aimed'
  BY <1>2 DEF Aimed
<1>3. CASE ListPendingNotifications(w)
  BY <1>1, <1>2, <1>3 DEF ListPendingNotifications, NoPoll
<1>4. CASE DispatchNext(w)
  <2>1. PICK r \in poll[w].todo :
          /\ poll' = [poll EXCEPT ![w].todo = @ \ {r}]
          /\ disp' = [disp EXCEPT ![w] = Dispatch(r.run, r.plan)]
    BY <1>4 DEF DispatchNext
  <2>2. r.run \in Occurrences
    BY <1>1 DEF Polling
  <2>3. \A d \in Dispatchers : disp'[d].pc # "idle" => disp'[d].run \in Occurrences
    BY <2>1, <2>2 DEF TypeOK, Aimed, Dispatch
  <2>4. poll'[w].pc = "notify" /\ \A v \in Workers : v # w => poll'[v] = poll[v]
    BY <1>1, <1>4, <2>1 DEF DispatchNext, Polling
  <2> QED BY <2>3, <2>4 DEF Aimed
<1>5. CASE ListDue(w)
  <2>1. task.next # 0 /\ task.next <= now => task.next \in Occurrences
    BY ScheduledAssumption DEF TypeOK, Instants, Beyond
  <2> QED BY <1>1, <1>2, <1>5, <2>1 DEF ListDue, NoPoll
<1>6. CASE ListFails(w)
  BY <1>1, <1>2, <1>6 DEF ListFails, Polling
<1>7. CASE Claim(w) \/ ClaimFails(w)
  BY <1>1, <1>2, <1>7 DEF Claim, ClaimFails, NoPoll
<1>8. CASE Crash(w)
  <2>1. \A d \in Dispatchers : disp'[d] = disp[d] \/ disp'[d].pc = "idle"
    BY <1>8 DEF Crash, NoDispatch
  <2>2. poll'[w].pc = "idle" /\ \A v \in Workers : v # w => poll'[v] = poll[v]
    BY <1>1, <1>8 DEF Crash, NoPoll
  <2> QED BY <2>1, <2>2 DEF Aimed
<1> QED BY <1>3, <1>4, <1>5, <1>6, <1>7, <1>8 DEF Poll

-----------------------------------------------------------------------------
(* One run at a time, and the heartbeats that were missed.                  *)

\* What the step leaves alone of a run.
Untouched(o) ==
  /\ exec'[o] = exec[o] /\ rows'[o].status = rows[o].status
  /\ rows'[o].err = rows[o].err /\ rows'[o].lease = rows[o].lease

\* The step keeps what is said of the run, and makes nobody busy with it.
Keeps(o) ==
  /\ Steady(o)'
  /\ Busy(o)' => Busy(o) /\ rows'[o].err = rows[o].err

LEMMA UntouchedKeeps ==
  ASSUME TypeOK, NEW o \in Occurrences, Steady(o), Untouched(o),
         env' = env, faults' = faults \/ faults' = faults + 1
  PROVE  Keeps(o)
<1>1. Active(o)' = Active(o) /\ AtWork(o)' = AtWork(o) /\ Calm' = Calm
  BY DEF Untouched, Active, AtWork, Calm
<1>2. Counted(o)'
  BY <1>1 DEF Steady, Counted, Untouched
<1>3. Calm => Beating(o)'
  <2> SUFFICES ASSUME Calm PROVE Beating(o)'
    OBVIOUS
  <2>1. Beating(o)
    BY DEF Steady
  <2>2. faults \in Nat /\ faults' \in Nat /\ faults' >= faults
    BY DEF TypeOK
  <2>3. rows[o].lease \in Nat /\ Lease \in Nat
    BY ScheduledAssumption DEF TypeOK, Row
  <2> QED BY <1>1, <2>1, <2>2, <2>3 DEF Beating, Untouched
<1> QED BY <1>1, <1>2, <1>3 DEF Keeps, Steady, Busy, Untouched

LEMMA KeptByAll ==
  ASSUME OneAtATime, \A o \in Occurrences : Keeps(o)
  PROVE  OneAtATime' /\ \A o \in Occurrences : Steady(o)'
<1>1. \A o \in Occurrences : Steady(o)'
  BY DEF Keeps
<1>2. ASSUME NEW o \in Occurrences, NEW p \in Occurrences, o # p, Busy(o)', Busy(p)'
      PROVE  "expired" \in {rows'[o].err, rows'[p].err}
  BY <1>2 DEF Keeps, OneAtATime, Busy, AtWork
<1> QED BY <1>1, <1>2 DEF OneAtATime, Busy, AtWork, Active

\* The actions that touch no run's status, lease or worker.
LEMMA RequestsAndNoticesKeep ==
  ASSUME TypeOK, TypeOK', Aimed, \A o \in Occurrences : Steady(o),
         \/ UpdateForCreator \/ DeleteForCreator
         \/ \E enabled \in BOOLEAN : UpdateValidates(enabled)
         \/ \E w \in Workers : \/ ListPendingNotifications(w) \/ DispatchNext(w)
                               \/ ListDue(w) \/ ListFails(w)
         \/ \E d \in Dispatchers : Notify(d) \/ DispatchFails(d) \/ DispatchAnswerLost(d)
  PROVE  \A o \in Occurrences : Keeps(o)
<1>1. env' = env /\ (faults' = faults \/ faults' = faults + 1) /\ exec' = exec
  BY DEF UpdateForCreator, DeleteForCreator, UpdateValidates, ListPendingNotifications,
         DispatchNext, ListDue, ListFails, Notify, ClaimNotification, CreateNotification,
         ReadExtraInfo, MarkNotificationSent, ReleaseNotificationClaim, DispatchFails,
         DispatchAnswerLost, Faulty
<1>2. ASSUME NEW o \in Occurrences
      PROVE  /\ rows'[o].status = rows[o].status /\ rows'[o].err = rows[o].err
             /\ rows'[o].lease = rows[o].lease
  <2>1. CASE rows' = rows
    BY <2>1
  <2>2. ASSUME NEW d \in Dispatchers, NEW by, NEW r \in Occurrences,
               rows' = [rows EXCEPT ![r] = SentAt(@, by)]
        PROVE  /\ rows'[o].status = rows[o].status /\ rows'[o].err = rows[o].err
               /\ rows'[o].lease = rows[o].lease
    BY <2>2 DEF TypeOK, SentAt, Row
  <2>3. ASSUME NEW d \in Dispatchers, ClaimNotification(d) \/ DispatchAnswerLost(d)
                                      \/ ReleaseNotificationClaim(d)
        PROVE  /\ rows'[o].status = rows[o].status /\ rows'[o].err = rows[o].err
               /\ rows'[o].lease = rows[o].lease
    <3>1. disp[d].run \in Occurrences
      BY <2>3 DEF Aimed, ClaimNotification, DispatchAnswerLost, ReleaseNotificationClaim
    <3>2. \/ rows' = rows
          \/ rows' = [rows EXCEPT ![disp[d].run] = SentAt(@, d)]
          \/ rows' = [rows EXCEPT ![disp[d].run] = SentAt(@, Nobody)]
      BY <2>3 DEF ClaimNotification, DispatchAnswerLost, ReleaseNotificationClaim
    <3> QED BY <2>1, <2>2, <3>1, <3>2
  <2>4. ASSUME NEW d \in Dispatchers, MarkNotificationSent(d)
        PROVE  /\ rows'[o].status = rows[o].status /\ rows'[o].err = rows[o].err
               /\ rows'[o].lease = rows[o].lease
    BY <2>4 DEF TypeOK, MarkNotificationSent, SentAt, Row
  <2> QED BY <2>1, <2>3, <2>4
          DEF UpdateForCreator, DeleteForCreator, UpdateValidates, ListPendingNotifications,
              DispatchNext, ListDue, ListFails, Notify, CreateNotification, ReadExtraInfo,
              DispatchFails
<1> QED BY <1>1, <1>2, UntouchedKeeps DEF Untouched

LEMMA ExecuteKeeps ==
  ASSUME TypeOK, TypeOK', \A p \in Occurrences : Steady(p), NEW o \in Occurrences,
         \/ Execute(o) \/ HeartbeatRun(o)
         \/ StartFails(o) \/ FinishFails(o) \/ HeartbeatFails(o)
  PROVE  \A p \in Occurrences : Keeps(p)
<1>1. /\ rows[o] \in Row /\ exec[o] \in Executing /\ faults \in Nat
      /\ Lease \in Nat /\ rows[o].lease \in Nat
      /\ rows \in [Occurrences -> Row] /\ exec \in [Occurrences -> Executing]
  BY ScheduledAssumption DEF TypeOK, Row
<1>2. Counted(o) /\ (Calm => Beating(o))
  BY DEF Steady
<1>3. env' = env /\ (faults' = faults \/ faults' = faults + 1) /\ Calm' = Calm
  BY DEF Execute, MarkRunRunning, RunHeadlessChat, FinishRun, HeartbeatRun, StartFails,
         FinishFails, HeartbeatFails, Faulty, Calm
<1>0. ASSUME Counted(o)', Calm => Beating(o)',
             Busy(o)' => Busy(o) /\ rows'[o].err = rows[o].err
      PROVE  Keeps(o)
  BY <1>0, <1>3, Zenon DEF Keeps, Steady
<1>4. ASSUME NEW p \in Occurrences, p # o PROVE Keeps(p)
  <2>1. rows'[p] = rows[p] /\ exec'[p] = exec[p]
    BY <1>1, <1>4 DEF Execute, MarkRunRunning, RunHeadlessChat, FinishRun, HeartbeatRun,
       StartFails, FinishFails, HeartbeatFails
  <2> QED BY <1>3, <2>1, UntouchedKeeps DEF Untouched
<1> SUFFICES Keeps(o)
  BY <1>4
<1>5. ~Calm \/ ~(StartFails(o) \/ FinishFails(o))
  BY DEF Calm, StartFails, FinishFails, Faulty
<1>6. CASE MarkRunRunning(o)
  <2>1. /\ rows'[o].status = "running" /\ rows'[o].err = rows[o].err
        /\ rows'[o].lease = rows[o].lease
        /\ exec[o].pc = "start" /\ exec'[o].pc = "chat" /\ exec'[o].beats
        /\ exec'[o].due = exec[o].due /\ faults' = faults
    BY <1>1, <1>6 DEF MarkRunRunning, Row, Executing
  <2>2. Counted(o)' /\ Busy(o)
    BY <2>1 DEF Counted, Busy, AtWork, Active, ActiveStatus
  <2>3. Calm => Beating(o)'
    BY <1>1, <1>2, <2>1 DEF Counted, Beating, AtWork, Active, ActiveStatus
  <2> QED BY <1>0, <2>1, <2>2, <2>3
<1>7. ASSUME NEW status \in Terminal, RunHeadlessChat(o, status) PROVE Keeps(o)
  <2>1. /\ rows' = rows /\ faults' = faults
        /\ exec[o].pc = "chat" /\ exec'[o].pc = "finish"
        /\ exec'[o].beats = exec[o].beats /\ exec'[o].due = exec[o].due
    BY <1>1, <1>7 DEF RunHeadlessChat, Over, Executing
  <2>2. Counted(o)' /\ Busy(o)
    BY <1>2, <2>1 DEF Counted, Busy, AtWork
  <2>3. Calm => Beating(o)'
    BY <1>2, <2>1 DEF Beating, Active
  <2> QED BY <1>0, <2>1, <2>2, <2>3
<1>8. CASE FinishRun(o) \/ FinishFails(o)
  <2>1. /\ exec[o].pc = "finish" /\ exec'[o].pc = "ended"
        /\ \/ rows'[o] = rows[o]
           \/ rows'[o].status \in Terminal /\ rows'[o].err # "expired"
    <3>1. Finished(rows[o], exec[o]).status \in Terminal
      BY <1>1 DEF Finished, Row, Executing
    <3>2. Finished(rows[o], exec[o]).err # "expired"
      BY <1>1 DEF Finished, Row
    <3>3. Ended(exec[o]).pc = "ended"
      BY <1>1 DEF Ended, Executing
    <3>4. exec[o].pc = "finish" /\ exec'[o] = Ended(exec[o])
      BY <1>1, <1>8 DEF FinishRun, FinishFails
    <3>5. rows'[o] = rows[o] \/ rows'[o] = Finished(rows[o], exec[o])
      BY <1>1, <1>8 DEF FinishRun, FinishFails
    <3> QED BY <3>1, <3>2, <3>3, <3>4, <3>5
  <2>2. Counted(o)' /\ ~AtWork(o)'
    BY <1>2, <2>1 DEF Counted, AtWork, Terminal
  <2>3. Active(o)' => Active(o) /\ rows'[o] = rows[o]
    BY <2>1 DEF Active, ActiveStatus, Terminal
  <2>4. FinishRun(o) => rows'[o].status \in Terminal /\ rows'[o].err # "expired"
    BY <1>1 DEF FinishRun, Finished, Row, Executing
  <2>5. FinishRun(o) => Beating(o)'
    BY <2>4 DEF Beating, Active, ActiveStatus, Terminal
  <2>6. Busy(o)' => Busy(o) /\ rows'[o].err = rows[o].err
    BY <2>2, <2>3 DEF Busy
  <2> QED BY <1>0, <1>5, <1>8, <2>2, <2>5, <2>6
<1>9. CASE StartFails(o)
  <2>1. /\ exec[o].pc = "start" /\ exec'[o].pc = "finish" /\ rows'[o].err = rows[o].err
        /\ rows'[o].status = rows[o].status \/ rows'[o].status = "running"
    BY <1>1, <1>9 DEF StartFails, Over, Row, Executing
  <2>2. Counted(o)' /\ Busy(o)
    BY <1>2, <2>1 DEF Counted, AtWork, Busy
  <2> QED BY <1>0, <1>5, <1>9, <2>1, <2>2
<1>10. CASE HeartbeatRun(o) \/ HeartbeatFails(o)
  <2>1. /\ exec[o].due /\ ~exec'[o].due
        /\ exec'[o].pc = exec[o].pc /\ exec'[o].beats = exec[o].beats
        /\ exec'[o].worker = exec[o].worker
        /\ rows'[o].status = rows[o].status /\ rows'[o].err = rows[o].err
    BY <1>1, <1>10 DEF HeartbeatRun, HeartbeatFails, Row, Executing
  <2>2. /\ HeartbeatRun(o) =>
             faults' = faults /\ (rows[o].status = "running" => rows'[o].lease = Lease)
        /\ HeartbeatFails(o) => faults' = faults + 1 /\ rows'[o].lease = rows[o].lease
    BY <1>1 DEF HeartbeatRun, HeartbeatFails, Faulty, Row
  <2>3. Counted(o)' /\ (Busy(o)' => Busy(o))
    BY <1>2, <2>1 DEF Counted, Busy, Active, AtWork
  <2>4. Calm => Beating(o)'
    BY <1>1, <1>2, <1>10, <2>1, <2>2 DEF Beating, Active
  <2> QED BY <1>0, <2>1, <2>3, <2>4
<1> QED BY <1>6, <1>7, <1>8, <1>9, <1>10 DEF Execute

LEMMA CrashKeeps ==
  ASSUME TypeOK, \A p \in Occurrences : Steady(p), NEW w \in Workers, Crash(w)
  PROVE  \A p \in Occurrences : Keeps(p)
<1> SUFFICES ASSUME NEW o \in Occurrences PROVE Keeps(o)
  OBVIOUS
<1>1. ~Calm /\ env' = env /\ rows' = rows
  BY DEF Crash, Faulty, Calm
<1>2. exec'[o] = exec[o] \/ (exec[o].worker = w /\ exec'[o].pc = "ended")
  <2>1. exec'[o] = exec[o] \/ (exec[o].worker = w /\ exec'[o] = Ended(exec[o]))
    BY DEF Crash
  <2>2. Ended(exec[o]).pc = "ended"
    BY DEF TypeOK, Ended, Executing
  <2> QED BY <2>1, <2>2
<1>3. Counted(o)'
  BY <1>1, <1>2, ScheduledAssumption DEF Steady, Counted, Active, AtWork
<1>4. Busy(o)' => Busy(o) /\ rows'[o].err = rows[o].err
  BY <1>1, <1>2 DEF Busy, Active, AtWork
<1>5. ~Calm'
  BY <1>1 DEF Calm
<1> QED BY <1>3, <1>4, <1>5 DEF Keeps, Steady

LEMMA TickKeeps ==
  ASSUME TypeOK, \A p \in Occurrences : Steady(p), Tick
  PROVE  \A p \in Occurrences : Keeps(p)
<1> SUFFICES ASSUME NEW o \in Occurrences PROVE Keeps(o)
  OBVIOUS
<1>1. /\ rows[o] \in Row /\ exec[o] \in Executing /\ faults \in Nat
      /\ Lease \in Nat /\ rows[o].lease \in Nat
  BY ScheduledAssumption DEF TypeOK, Row
<1>2. /\ rows'[o].status = rows[o].status /\ rows'[o].err = rows[o].err
      /\ rows'[o].lease = IF rows[o].lease = 0 THEN 0 ELSE rows[o].lease - 1
      /\ exec'[o].pc = exec[o].pc /\ exec'[o].beats = exec[o].beats
      /\ exec'[o].worker = exec[o].worker
      /\ exec'[o].due = exec[o].beats
  BY <1>1 DEF Tick, Row, Executing
<1>3. faults' = faults /\ env' = env /\ Calm' = Calm
  BY DEF Tick, Calm
<1>4. Calm => ~exec[o].due /\ exec[o].pc \notin {"start", "finish"}
  BY DEF Calm, Tick, Prompt
<1>5. Counted(o)' /\ (Busy(o)' => Busy(o))
  BY <1>2 DEF Steady, Counted, Busy, Active, AtWork
<1>6. Calm => Beating(o)'
  BY <1>1, <1>2, <1>3, <1>4 DEF Steady, Beating, Active
<1> QED BY <1>2, <1>3, <1>5, <1>6 DEF Keeps, Steady

\* A committed claim: the row is new, and whoever else was at work is declared
\* dead by it or was before.
LEMMA ClaimedKeeps ==
  ASSUME TypeOK, Aimed, \A p \in Occurrences : Steady(p), NEW w \in Workers,
         poll[w].pc = "claim", Claimable(w), Claimed(w),
         env' = env, faults' = faults \/ faults' = faults + 1,
         \/ exec' = [exec EXCEPT ![poll[w].at] = [NoExec EXCEPT !.pc = "start", !.worker = w]]
         \/ exec' = exec /\ ~Calm
  PROVE  OneAtATime' /\ \A p \in Occurrences : Steady(p)'
<1>1. PICK at \in Occurrences : at = poll[w].at /\ rows[at].status = "none"
  BY DEF Aimed, Claimable
<1>2. rows'[at].status = "claimed" /\ rows'[at].err = "none" /\ rows'[at].lease = Lease
  BY <1>1 DEF Claimed, NoRow
<1>9. \/ exec'[at].pc = "start" /\ ~exec'[at].beats /\ ~exec'[at].due
      \/ exec' = exec /\ ~Calm
  <2> DEFINE new == [NoExec EXCEPT !.pc = "start", !.worker = w]
  <2>1. new.pc = "start" /\ ~new.beats /\ ~new.due
    BY DEF NoExec
  <2>2. exec' = [exec EXCEPT ![at] = new] => exec'[at] = new
    <3> HIDE DEF new
    <3> QED BY <1>1 DEF TypeOK
  <2> QED BY <1>1, <2>1, <2>2
<1>3. Lease \in Nat /\ faults \in Nat /\ faults' \in Nat /\ faults' >= faults /\ Calm' = Calm
  BY ScheduledAssumption DEF TypeOK, Calm
<1>4. exec[at].pc = "none"
  BY <1>1 DEF Steady, Counted
<1>5. Steady(at)'
  <2>1. Counted(at)'
    BY <1>2, <1>4, <1>9 DEF Counted, AtWork, Active, ActiveStatus
  <2>2. Calm => Beating(at)'
    <3> SUFFICES ASSUME Calm PROVE Beating(at)'
      OBVIOUS
    <3>1. exec'[at].pc = "start" /\ ~exec'[at].beats /\ ~exec'[at].due
      BY <1>9
    <3>2. rows'[at].lease + faults' >= Lease
      BY <1>2, <1>3
    <3> QED BY <1>2, <3>1, <3>2 DEF Beating
  <2> QED BY <1>3, <2>1, <2>2, Zenon DEF Steady
<1>6. ASSUME NEW p \in Occurrences, p # at
      PROVE  Steady(p)' /\ (Busy(p)' => rows'[p].err = "expired")
  <2>1. exec'[p] = exec[p]
    BY <1>1, <1>6 DEF TypeOK
  <2>2. rows[p] \in Row /\ rows[p].lease \in Nat
    BY DEF TypeOK, Row
  <2>3. Counted(p) /\ (Calm => Beating(p))
    BY DEF Steady
  <2>4. CASE Expired(p)
    <3>1. rows'[p] = [rows[p] EXCEPT !.status = "failed", !.err = "expired"]
      BY <1>1, <1>6, <2>4 DEF Claimed
    <3>2. rows'[p].status = "failed" /\ rows'[p].err = "expired"
      BY <2>2, <3>1 DEF Row
    <3>3. Counted(p)'
      BY <3>2 DEF Counted
    <3>4. Calm => faults >= Lease - 1
      BY <1>3, <2>3, <2>4 DEF Beating, Expired, Active
    <3>5. Calm => Beating(p)'
      BY <1>3, <3>2, <3>4 DEF Beating, Active, ActiveStatus
    <3>6. Steady(p)'
      BY <1>3, <3>3, <3>5, Zenon DEF Steady
    <3> QED BY <3>2, <3>6
  <2>5. CASE ~Expired(p)
    <3>1. rows'[p] = rows[p]
      BY <1>1, <1>6, <2>5 DEF Claimed
    <3>2. ~Active(p)
      BY <2>5 DEF Claimable, Active
    <3>3. Keeps(p)
      BY <2>1, <3>1, UntouchedKeeps DEF Untouched
    <3>4. Busy(p)' => rows'[p].err = "expired"
      BY <2>1, <2>3, <3>1, <3>2 DEF Busy, Active, AtWork, Counted
    <3> QED BY <3>3, <3>4 DEF Keeps
  <2> QED BY <2>4, <2>5
<1>7. \A p \in Occurrences : Steady(p)'
  BY <1>5, <1>6
<1>8. OneAtATime'
  <2>1. ASSUME NEW o \in Occurrences, NEW p \in Occurrences, o # p, Busy(o)', Busy(p)'
        PROVE  "expired" \in {rows'[o].err, rows'[p].err}
    BY <1>6, <2>1
  <2> QED BY <2>1 DEF OneAtATime, Busy, AtWork, Active
<1> QED BY <1>7, <1>8

LEMMA StepKeeps ==
  ASSUME IInv, [Next]_vars
  PROVE  IInv'
<1> USE DEF IInv
<1>0. env.workers \subseteq Workers
  <2>1. env \in Environment
    BY EnvironmentAssumption DEF TypeOK
  <2> QED BY <2>1 DEF Environment
<1>1. CASE \/ UpdateForCreator \/ DeleteForCreator
           \/ \E enabled \in BOOLEAN : UpdateValidates(enabled)
  <2>1. TypeOK'
    BY <1>1, RequestTypes
  <2>2. Aimed'
    BY <1>1, OthersAim
  <2> QED BY <1>1, <2>1, <2>2, RequestsAndNoticesKeep, KeptByAll
<1>2. CASE Tick
  BY <1>2, TickTypes, OthersAim, TickKeeps, KeptByAll
<1>3. ASSUME NEW o \in Occurrences, \/ Execute(o) \/ HeartbeatRun(o)
                                    \/ StartFails(o) \/ FinishFails(o) \/ HeartbeatFails(o)
      PROVE  IInv'
  BY <1>3, ExecuteTypes, OthersAim, ExecuteKeeps, KeptByAll
<1>4. ASSUME NEW d \in Dispatchers, Notify(d) \/ DispatchFails(d) \/ DispatchAnswerLost(d)
      PROVE  IInv'
  BY <1>4, NotifyTypes, NotifyAims, RequestsAndNoticesKeep, KeptByAll
<1>5. ASSUME NEW w \in Workers, Poll(w) \/ ListFails(w) \/ ClaimFails(w) \/ Crash(w)
      PROVE  IInv'
  <2>1. TypeOK' /\ Aimed'
    BY <1>5, PollTypes, PollAims
  <2>2. CASE \/ ListPendingNotifications(w) \/ DispatchNext(w) \/ ListDue(w) \/ ListFails(w)
    BY <2>1, <2>2, RequestsAndNoticesKeep, KeptByAll
  <2>3. CASE Crash(w)
    BY <2>1, <2>3, CrashKeeps, KeptByAll
  <2>4. CASE rows' = rows /\ (Claim(w) \/ ClaimFails(w))
    <3>1. env' = env /\ (faults' = faults \/ faults' = faults + 1)
      BY <2>4 DEF Claim, ClaimFails, Faulty
    <3>2. CASE exec' = exec
      <4>1. \A o \in Occurrences : Keeps(o)
        BY <2>4, <3>1, <3>2, UntouchedKeeps DEF Untouched
      <4> QED BY <2>1, <4>1, KeptByAll
    <3>3. CASE Claim(w) /\ Claimable(w)
      BY <2>1, <3>1, <3>3, ClaimedKeeps DEF Claim
    <3> QED BY <2>4, <3>2, <3>3 DEF Claim, ClaimFails
  <2>5. CASE Claimable(w) /\ Claimed(w) /\ (Claim(w) \/ ClaimFails(w))
    <3>1. env' = env /\ (faults' = faults \/ faults' = faults + 1) /\ poll[w].pc = "claim"
      BY <2>5 DEF Claim, ClaimFails, Faulty
    <3>2. CASE Claim(w)
      BY <2>1, <2>5, <3>1, <3>2, ClaimedKeeps DEF Claim
    <3>3. CASE ClaimFails(w)
      <4>1. exec' = exec /\ ~Calm
        BY <3>3 DEF ClaimFails, Faulty, Calm
      <4> QED BY <2>1, <2>5, <3>1, <4>1, ClaimedKeeps
    <3> QED BY <2>5, <3>2, <3>3
  <2>6. Claim(w) \/ ClaimFails(w) => rows' = rows \/ (Claimable(w) /\ Claimed(w))
    BY DEF Claim, ClaimFails
  <2> QED BY <1>5, <2>2, <2>3, <2>4, <2>5, <2>6 DEF Poll
<1>6. CASE UNCHANGED vars
  <2>1. TypeOK' /\ Aimed'
    BY <1>6 DEF vars, TypeOK, Aimed
  <2>2. \A o \in Occurrences : Keeps(o)
    BY <1>6, UntouchedKeeps DEF vars, Untouched
  <2> QED BY <2>1, <2>2, KeptByAll
<1> QED BY <1>0, <1>1, <1>2, <1>3, <1>4, <1>5, <1>6 DEF Next

LEMMA Inductive == Spec => []IInv
BY InitHolds, StepKeeps, PTL DEF Spec

-----------------------------------------------------------------------------
(* The rows, the polls, the executions and the dispatches keep their shape, *)
(* whatever the workers, the schedule, the durations and the faults.        *)
THEOREM ScheduledTyping == Spec => []TypeOK
BY Inductive, PTL DEF IInv

(* Claim refuses an occurrence while a run of the task is active, so two    *)
(* workers are busy with the same task only when one of them was declared   *)
(* dead: for any number of workers and occurrences, any lease, and any      *)
(* crash, failed call, lost answer and update of the creator.               *)
THEOREM RunsDoNotOverlap == Spec => []OneAtATime
BY Inductive, PTL DEF IInv

(* A worker that is alive and whose calls are answered in time is declared  *)
(* dead only after Lease - 1 heartbeats were lost.                          *)
THEOREM LivingAreNotExpired == Spec => []ExpiredWasSilent
<1>1. IInv => ExpiredWasSilent
  BY DEF IInv, Steady, Beating, Calm, ExpiredWasSilent
<1> QED BY Inductive, <1>1, PTL

(* An occurrence is started once: when its row is inserted it had none, and *)
(* nobody executed it.                                                      *)
THEOREM OccurrencesRunOnce == Spec => OccurrenceOnce
<1>1. ASSUME IInv, [Next]_vars
      PROVE  [\A o \in Occurrences :
                (exec'[o].pc = "start" /\ exec[o].pc # "start") =>
                  (exec[o].pc = "none" /\ rows[o].status = "none")]_vars
  <2> SUFFICES ASSUME NEW o \in Occurrences, exec'[o].pc = "start", exec[o].pc # "start"
               PROVE  exec[o].pc = "none" /\ rows[o].status = "none"
    OBVIOUS
  <2>0. exec \in [Occurrences -> Executing] /\ exec[o] \in Executing
    BY <1>1 DEF IInv, TypeOK
  <2>1. ASSUME NEW w, Claim(w), Claimable(w), o = poll[w].at
        PROVE  exec[o].pc = "none" /\ rows[o].status = "none"
    BY <1>1, <2>1 DEF IInv, Steady, Counted, Claimable
  <2>2. \E w \in env.workers : Claim(w) /\ Claimable(w) /\ o = poll[w].at
    <3>1. exec' # exec
      OBVIOUS
    <3>2. ASSUME Tick PROVE FALSE
      <4>1. exec'[o] = [exec[o] EXCEPT !.due = exec[o].beats]
        BY <3>2 DEF Tick
      <4> QED BY <2>0, <4>1 DEF Executing
    <3>3. ASSUME NEW p \in Occurrences,
                 \/ Execute(p) \/ HeartbeatRun(p)
                 \/ StartFails(p) \/ FinishFails(p) \/ HeartbeatFails(p)
          PROVE  FALSE
      <4>1. p = o
        BY <2>0, <3>3 DEF Execute, MarkRunRunning, FinishRun, RunHeadlessChat, HeartbeatRun,
                          StartFails, FinishFails, HeartbeatFails
      <4>2. \/ exec'[o] = [exec[o] EXCEPT !.pc = "chat", !.beats = TRUE]
            \/ exec'[o] = Ended(exec[o])
            \/ \E status \in Terminal : exec'[o] = Over(exec[o], status)
            \/ exec'[o] = [exec[o] EXCEPT !.due = FALSE]
        BY <2>0, <3>3, <4>1 DEF Execute, MarkRunRunning, FinishRun, RunHeadlessChat,
               HeartbeatRun, StartFails, FinishFails, HeartbeatFails, Terminal
      <4> QED BY <2>0, <4>2 DEF Over, Ended, Executing
    <3>4. ASSUME NEW w, Crash(w) PROVE FALSE
      <4>1. exec'[o] = exec[o] \/ exec'[o] = Ended(exec[o])
        BY <3>4 DEF Crash
      <4> QED BY <2>0, <4>1 DEF Ended, Executing
    <3>5. PICK w \in env.workers : Poll(w) \/ ListFails(w) \/ ClaimFails(w)
      BY <1>1, <3>1, <3>2, <3>3, <3>4
         DEF Next, vars, UpdateForCreator, DeleteForCreator, UpdateValidates, Notify,
             ClaimNotification, CreateNotification, ReadExtraInfo, MarkNotificationSent,
             ReleaseNotificationClaim, DispatchFails, DispatchAnswerLost
    <3>6. Claim(w) /\ Claimable(w)
      BY <3>1, <3>5 DEF Poll, ListPendingNotifications, DispatchNext, ListDue, Claim,
                        ListFails, ClaimFails
    <3> QED BY <2>0, <3>6 DEF Claim
  <2> QED BY <2>1, <2>2
<1> QED BY Inductive, <1>1, PTL DEF Spec, OccurrenceOnce
=============================================================================
