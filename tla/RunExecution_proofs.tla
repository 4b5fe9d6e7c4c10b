------------------------ MODULE RunExecution_proofs ------------------------
(***************************************************************************)
(* Proofs about RunExecution, for any number of attempts, any results of   *)
(* the executions and any losses, sweeps, cancellations and crashes.       *)
(* That a completed result is stored rests on one fact: completed is the   *)
(* last status of a row, so whoever has seen it, or has had its commit     *)
(* confirmed, still knows it when it counts the run.  That an undisturbed  *)
(* run is settled when its batch is closed, and never runs under a token   *)
(* of an earlier attempt, rests on another: when it is retried, nothing    *)
(* that was read before is on its way.                                     *)
(***************************************************************************)
EXTENDS RunExecution, TLAPS

Results == TerminalResults \cup {NoResult}

(* A result belongs to the status of its row, and a completed row has one. *)
Stored ==
  /\ row \in Payload /\ result \in Results /\ issued \in Nat
  /\ result # NoResult => result.status = row.status
  /\ row.status = "completed" => result # NoResult

(* What somebody holds while the row is r: a copy of the row, a result, a  *)
(* call, and the records of the three processes.                           *)
Known(p, r) == p \in Payload /\ (p.status = "completed" => r.status = "completed")
Counted(res, r) == res \in Results /\ (res.status = "completed" => r.status = "completed")

CallFine(q, r) ==
  /\ q.op \in {"claim", "write", "cancel", "cancelBatch", "closeBatch", "update", "reopen"}
  /\ q.op = "write" => q.res \in TerminalResults
  /\ q.op = "update" => Known(q.p, r)
  /\ q.op = "reopen" => q.p \in Payload /\ q.p.status = "queued"

(* Where the owner has a result of its own, and where the scheduler has    *)
(* counted one.                                                            *)
Deciding == {"read", "claim", "write", "force", "cancelRun", "reread", "recheck",
             "outcome", "retryRead", "reopen", "record"}
Releasing == {"release", "releaseRead", "releaseWrite"}
Bound(o) == \/ o.pc \in Deciding
            \/ o.pc \in Releasing /\ o.phase \notin {"interrupted"} \cup CleanupPhase
Closing(o) == o.pc \in {"cleanup", "finalize"} \/ o.phase = "cleanup"
Working == {"prep", "stageWrite", "await", "cancelling"}

OwnFields == {"pc", "at", "mode", "phase", "me", "seen", "tok", "res", "leased", "sandboxed"}
OwnFine(o, r, rec) ==
  /\ DOMAIN o = OwnFields /\ o = [f \in OwnFields |-> o[f]]
  /\ o.me \in Payload /\ o.me.status = "queued"
  /\ Known(o.seen, r) /\ Counted(o.res, r)
  /\ Bound(o) => o.res # NoResult
  /\ Closing(o) => rec # NoResult
  /\ o.pc \in Working => o.phase = "body"

ExecFields == {"pc", "tok", "res"}
ExecFine(e, r) ==
  /\ DOMAIN e = ExecFields /\ e = [f \in ExecFields |-> e[f]]
  /\ e.res \in Results
  /\ e.pc \in {"write", "returned"} => e.res # NoResult
  /\ e.pc = "returned" => Counted(e.res, r)

OtherFine(x, r) == x.pc = "write" => Known(x.p, r)

IInv ==
  /\ Stored
  /\ \A q \in late : CallFine(q, row)
  /\ OwnFine(own, row, recorded) /\ ExecFine(exec, row) /\ OtherFine(other, row)
  /\ DOMAIN other = {"pc", "p"} /\ other = [f \in {"pc", "p"} |-> other[f]]
  /\ Counted(recorded, row)

-----------------------------------------------------------------------------
(* The store *)

\* Completed is the last status: no call, and no sweep, leaves it.
Lasting == row.status = "completed" => row'.status = "completed"

LEMMA ResultShape ==
  /\ \A res \in TerminalResults : res.status \in TerminalRun /\ res.err \in ErrorClass /\ res # NoResult
  /\ \A res \in Results : res # NoResult => res \in TerminalResults
  /\ \A res, s \in TerminalResults : res.status = "completed" /\ s.status = "completed" => res = s
  BY DEF TerminalResults, Results, NoResult, TerminalRun, RetryableRun, AbsorbingRun, ErrorClass

LEMMA PayloadFields ==
  \A p \in Payload : p.status \in TaskStatus /\ p.attempt \in Nat /\ p.token \in Nat /\ p.err \in ErrorClass
  BY DEF Payload

LEMMA PayloadEdits ==
  ASSUME NEW p \in Payload
  PROVE  /\ \A t \in Nat : ClaimedPayload(p, t) \in Payload /\ ClaimedPayload(p, t).status = "running"
         /\ \A res \in TerminalResults :
              CommittedPayload(p, res) \in Payload /\ CommittedPayload(p, res).status = res.status
         /\ p.status \in ActiveRun => CancelledPayload(p) \in Payload /\ CancelledPayload(p).status = "cancelled"
         /\ p.status \notin ActiveRun => CancelledPayload(p) = p
         /\ SweptPayload(p) \in Payload /\ SweptPayload(p).status = SweptStatus(p)
         /\ \A res \in TerminalResults :
              LET q == [p EXCEPT !.status = res.status, !.err = res.err]
              IN  q \in Payload /\ q.status = res.status
<1> USE DEF Payload, TaskStatus, ActiveRun, TerminalRun, RetryableRun, AbsorbingRun, ErrorClass, NoToken
<1>1. \A t \in Nat : ClaimedPayload(p, t) \in Payload /\ ClaimedPayload(p, t).status = "running"
  BY DEF ClaimedPayload
<1>2. \A res \in TerminalResults :
        CommittedPayload(p, res) \in Payload /\ CommittedPayload(p, res).status = res.status
  <2> TAKE res \in TerminalResults
  <2>1. res.status \in TerminalRun /\ res.err \in ErrorClass BY ResultShape
  <2> QED BY <2>1 DEF CommittedPayload
<1>3. /\ p.status \in ActiveRun => CancelledPayload(p) \in Payload /\ CancelledPayload(p).status = "cancelled"
      /\ p.status \notin ActiveRun => CancelledPayload(p) = p
  BY DEF CancelledPayload
<1>4. SweptPayload(p) \in Payload /\ SweptPayload(p).status = SweptStatus(p)
  BY DEF SweptPayload, SweptStatus
<1>5. \A res \in TerminalResults :
        LET q == [p EXCEPT !.status = res.status, !.err = res.err]
        IN  q \in Payload /\ q.status = res.status
  <2> TAKE res \in TerminalResults
  <2>1. res.status \in TerminalRun /\ res.err \in ErrorClass BY ResultShape
  <2> QED BY <2>1
<1> QED BY Zenon, <1>1, <1>2, <1>3, <1>4, <1>5

LEMMA ReopenEdit ==
  ASSUME NEW p \in Payload, NEW a \in Nat, NEW e \in ErrorClass
  PROVE  /\ [ReopenPayload(p) EXCEPT !.attempt = a, !.err = e] \in Payload
         /\ [ReopenPayload(p) EXCEPT !.attempt = a, !.err = e].status = "queued"
  BY DEF ReopenPayload, Payload, TaskStatus, ActiveRun, ErrorClass, NoToken

LEMMA Statuses ==
  /\ ActiveRun \subseteq TaskStatus /\ TerminalRun \subseteq TaskStatus /\ ActiveRun \cap TerminalRun = {}
  /\ "queued" \in ActiveRun /\ "running" \in ActiveRun
  /\ "completed" \in TerminalRun /\ "cancelled" \in TerminalRun /\ "failed" \in TerminalRun /\ "blocked" \in TerminalRun
  /\ "completed" \notin RetryableRun /\ RetryableRun \subseteq TerminalRun
  /\ "none" \in ErrorClass /\ "internal" \in ErrorClass
  /\ NoResult.status \notin TaskStatus
  BY DEF ActiveRun, TerminalRun, TaskStatus, RetryableRun, AbsorbingRun, ErrorClass, NoResult

LEMMA ActiveWithoutResult == ASSUME Stored PROVE row.status \in ActiveRun => result = NoResult
  BY ResultShape, Statuses DEF Stored

LEMMA ApplyStep ==
  ASSUME Stored, NEW q, CallFine(q, row), Accepts(q), Apply(q)
  PROVE  /\ Stored' /\ Lasting
         /\ q.op = "write" /\ q.res.status = "completed" => row'.status = "completed"
<1> USE Statuses, ResultShape, ActiveWithoutResult DEF Stored, Lasting
<1>1. CASE q.op = "claim"
  <2>1. row.status = "queued" /\ row' = ClaimedPayload(row, issued + 1) /\ result' = NoResult /\ issued' = issued + 1
    BY <1>1 DEF Accepts, Apply, ensureClaimable
  <2>2. row' \in Payload /\ row'.status = "running"
    <3>1. row \in Payload /\ issued + 1 \in Nat OBVIOUS
    <3> QED BY Zenon, <3>1, <2>1, PayloadEdits
  <2> QED BY <2>1, <2>2, <1>1 DEF Results
<1>2. CASE q.op = "write"
  <2>1. row.status = "running" /\ row' = CommittedPayload(row, q.res) /\ result' = q.res /\ issued' = issued
    BY <1>2 DEF Accepts, Apply, ensureToken
  <2>2. q.res \in TerminalResults BY <1>2 DEF CallFine
  <2>3. row' \in Payload /\ row'.status = q.res.status
    BY Zenon, <2>1, <2>2, PayloadEdits DEF Stored
  <2> QED BY <2>1, <2>2, <2>3, <1>2 DEF Results
<1>3. ASSUME row' = CancelledPayload(row) \/ row' = row, UNCHANGED <<result, issued>>, q.op # "write"
      PROVE  Stored' /\ Lasting
  <2>1. CASE row.status \in ActiveRun /\ row' = CancelledPayload(row)
    <3>1. row' \in Payload /\ row'.status = "cancelled"
      BY Zenon, <2>1, PayloadEdits DEF Stored
    <3> QED BY <3>1, <2>1, <1>3
  <2>2. CASE row' = row BY <2>2, <1>3
  <2> QED BY <2>1, <2>2, <1>3 DEF CancelledPayload
<1>4. CASE q.op \in {"cancel", "cancelBatch", "closeBatch"}
  BY <1>4, <1>3 DEF Apply
<1>5. CASE q.op = "update"
  <2>1. Known(q.p, row) BY <1>5 DEF CallFine
  <2>2. issued' = issued BY <1>5 DEF Apply
  <2>3. CASE protectTerminalStatus(row.status, q.p.status)
    <3>1. row' = q.p /\ result' = IF q.p.status \in ActiveRun THEN NoResult ELSE result
      BY <2>3, <1>5 DEF Apply, shouldClearResultForRunUpdate
    <3>2. q.p.status \in TaskStatus BY <2>1, PayloadFields DEF Known
    <3>3. CASE q.p.status \in ActiveRun
      <4>1. row.status \notin TerminalRun BY <2>3, <3>3 DEF protectTerminalStatus
      <4> QED BY <4>1, <3>1, <3>3, <2>1, <2>2, <1>5 DEF Known, Results
    <3>4. CASE q.p.status \in TerminalRun
      <4>1. row.status \in ActiveRun \/ row.status = q.p.status
        BY <2>3, <3>4, PayloadFields DEF protectTerminalStatus, TaskStatus
      <4> QED BY <4>1, <3>1, <3>4, <2>1, <2>2, <1>5 DEF Known
    <3> QED BY <3>2, <3>3, <3>4 DEF TaskStatus
  <2>4. CASE ~protectTerminalStatus(row.status, q.p.status)
    BY <2>4, <2>2, <1>5 DEF Apply
  <2> QED BY <2>3, <2>4
<1>6. CASE q.op = "reopen"
  <2>1. row.status \in RetryableRun BY <1>6 DEF Accepts, ensureReopenable
  <2>2. row' = q.p /\ result' = NoResult /\ issued' = issued BY <1>6 DEF Apply
  <2> QED BY <2>1, <2>2, <1>6 DEF CallFine, Results
<1> QED BY <1>1, <1>2, <1>4, <1>5, <1>6 DEF CallFine

\* What is held of a row is still right when the row has lasted.
LEMMA StillFine ==
  ASSUME NEW r, NEW s, r.status = "completed" => s.status = "completed"
  PROVE  /\ \A p : Known(p, r) => Known(p, s)
         /\ \A q : CallFine(q, r) => CallFine(q, s)
         /\ \A res : Counted(res, r) => Counted(res, s)
         /\ \A o, rec : OwnFine(o, r, rec) => OwnFine(o, s, rec)
         /\ \A e : ExecFine(e, r) => ExecFine(e, s)
         /\ \A x : OtherFine(x, r) => OtherFine(x, s)
<1>1. \A p : Known(p, r) => Known(p, s) BY DEF Known
<1>2. \A res : Counted(res, r) => Counted(res, s) BY DEF Counted
<1>3. \A q : CallFine(q, r) => CallFine(q, s) BY <1>1 DEF CallFine
<1>4. \A o, rec : OwnFine(o, r, rec) => OwnFine(o, s, rec) BY Zenon, <1>1, <1>2 DEF OwnFine
<1>5. \A e : ExecFine(e, r) => ExecFine(e, s) BY Zenon, <1>2 DEF ExecFine
<1>6. \A x : OtherFine(x, r) => OtherFine(x, s) BY Zenon, <1>1 DEF OtherFine
<1> QED BY Zenon, <1>1, <1>2, <1>3, <1>4, <1>5, <1>6

-----------------------------------------------------------------------------
(* Steps *)

\* The invariant after a step: the row lasts, and what is new was right of the
\* row before the step.
LEMMA Keeps ==
  ASSUME IInv, Stored', Lasting,
         \A q \in late' : CallFine(q, row),
         OwnFine(own', row, recorded), recorded' = recorded,
         ExecFine(exec', row'),
         OtherFine(other', row), DOMAIN other' = {"pc", "p"}, other' = [f \in {"pc", "p"} |-> other'[f]]
  PROVE  IInv'
<1>1. row.status = "completed" => row'.status = "completed" BY DEF Lasting
<1>2. \A q \in late' : CallFine(q, row') BY Zenon, <1>1, StillFine
<1>3. OwnFine(own', row', recorded') BY Zenon, <1>1, StillFine
<1>4. OtherFine(other', row') BY Zenon, <1>1, StillFine
<1>5. Counted(recorded', row') BY Zenon, <1>1, StillFine DEF IInv
<1> QED BY Zenon, <1>2, <1>3, <1>4, <1>5 DEF IInv

\* Only the owner moves.
LEMMA StoreStays ==
  ASSUME IInv, UNCHANGED <<row, result, issued>>
  PROVE  Stored' /\ Lasting /\ \A e : ExecFine(e, row) => ExecFine(e, row')
<1>1. Stored' /\ Lasting BY DEF IInv, Stored, Lasting
<1> QED BY Zenon, <1>1

LEMMA OwnerMoves ==
  ASSUME IInv, OwnFine(own', row, recorded),
         UNCHANGED <<row, result, issued, late, exec, recorded, other>>
  PROVE  IInv'
<1>1. Stored' /\ Lasting /\ ExecFine(exec', row') BY StoreStays DEF IInv
<1> QED BY Zenon, <1>1, Keeps DEF IInv

LEMMA StepKeeps ==
  ASSUME IInv, NEW n, Step(n), OwnFine(n, row, recorded)
  PROVE  IInv'
  BY OwnerMoves DEF Step

LEMMA ReadKeeps ==
  ASSUME IInv, NEW d, NEW l, Read(d, l), OwnFine(d, row, recorded), OwnFine(l, row, recorded)
  PROVE  IInv'
  BY OwnerMoves DEF Read

LEMMA CallKeeps ==
  ASSUME IInv, NEW q, NEW d, NEW s, NEW l, Call(q, d, s, l), CallFine(q, row),
         OwnFine(d, row, recorded), OwnFine(s, row, recorded), OwnFine(l, row, recorded)
  PROVE  IInv'
<1>1. UNCHANGED <<exec, recorded, other>> BY DEF Call
<1>2. CASE Accepts(q) /\ Apply(q) /\ own' = d /\ UNCHANGED late
  <2>1. Stored' /\ Lasting BY Zenon, <1>2, ApplyStep DEF IInv
  <2>2. ExecFine(exec', row') BY Zenon, <2>1, <1>1, StillFine DEF IInv, Lasting
  <2> QED BY Zenon, <2>1, <2>2, <1>1, <1>2, Keeps DEF IInv
<1>3. CASE own' = s /\ UNCHANGED <<row, result, issued, late>>
  BY <1>1, <1>3, OwnerMoves
<1>4. CASE own' = l /\ late' = late \cup {q} /\ UNCHANGED <<row, result, issued>>
  <2>1. Stored' /\ Lasting /\ ExecFine(exec', row') BY Zenon, <1>1, <1>4, StoreStays DEF IInv
  <2>2. \A k \in late' : CallFine(k, row) BY Zenon, <1>4 DEF IInv
  <2> QED BY Zenon, <2>1, <2>2, <1>1, <1>4, Keeps DEF IInv
<1> QED BY <1>2, <1>3, <1>4 DEF Call, store

\* The executor's calls.
LEMMA ExecCallKeeps ==
  ASSUME IInv, NEW q, NEW d, ExecCall(q, d), CallFine(q, row),
         Accepts(q) /\ Apply(q) => ExecFine(d, row')
  PROVE  IInv'
<1>1. UNCHANGED <<own, recorded, other>> BY DEF ExecCall
<1>2. CASE Accepts(q) /\ Apply(q) /\ exec' = d /\ UNCHANGED late
  <2>1. Stored' /\ Lasting BY Zenon, <1>2, ApplyStep DEF IInv
  <2> QED BY Zenon, <2>1, <1>1, <1>2, Keeps DEF IInv
<1>3. \A p \in {"stale", "error"} : ExecFine([exec EXCEPT !.pc = p], row)
  <2> TAKE p \in {"stale", "error"}
  <2> DEFINE e == [exec EXCEPT !.pc = p]
  <2>1. DOMAIN exec = ExecFields /\ exec.res \in Results BY DEF IInv, ExecFine
  <2>2. DOMAIN e = ExecFields /\ e = [f \in ExecFields |-> e[f]] /\ e.res = exec.res /\ e.pc = p
    BY <2>1 DEF ExecFields
  <2> HIDE DEF e
  <2>3. p \notin {"write", "returned"} OBVIOUS
  <2> QED BY <2>1, <2>2, <2>3 DEF ExecFine, e
<1>4. CASE /\ exec' = [exec EXCEPT !.pc = "stale"] \/ exec' = [exec EXCEPT !.pc = "error"]
           /\ UNCHANGED <<row, result, issued>>
           /\ late' = late \/ late' = late \cup {q}
  <2>1. ExecFine(exec', row) BY Zenon, <1>3, <1>4
  <2>2. Stored' /\ Lasting /\ ExecFine(exec', row') BY Zenon, <2>1, <1>4, StoreStays
  <2>3. \A k \in late' : CallFine(k, row) BY Zenon, <1>4 DEF IInv
  <2> QED BY Zenon, <2>2, <2>3, <1>1, <1>4, Keeps DEF IInv
<1> QED BY <1>2, <1>4 DEF ExecCall, store

\* The owner goes on without the executor and leaves calls behind.
LEMMA LeavingKeeps ==
  ASSUME IInv, OwnFine(own', row, recorded), exec' = Idle,
         \A q \in late' : CallFine(q, row),
         UNCHANGED <<row, result, issued, recorded, other>>
  PROVE  IInv'
<1>1. ExecFine(Idle, row)
  <2>1. /\ DOMAIN Idle = ExecFields /\ Idle = [f \in ExecFields |-> Idle[f]]
        /\ Idle.res = NoResult /\ Idle.pc = "idle"
    BY DEF Idle, ExecFields
  <2> QED BY <2>1 DEF ExecFine, Results
<1>2. Stored' /\ Lasting /\ ExecFine(exec', row') BY Zenon, <1>1, StoreStays
<1> QED BY Zenon, <1>2, Keeps DEF IInv

-----------------------------------------------------------------------------
(* Continuations of the owner *)

LEMMA ConstantResults ==
  ASSUME NEW r
  PROVE  /\ \A res \in {InternalFailure, CancelledByUser, NoCapacity, Unhealthy} \cup TimedOut :
              res \in TerminalResults /\ res # NoResult /\ Counted(res, r)
<1>1. \A res \in {InternalFailure, CancelledByUser, NoCapacity, Unhealthy} \cup TimedOut :
        res \in TerminalResults /\ res.status # "completed"
  BY DEF InternalFailure, CancelledByUser, NoCapacity, Unhealthy, TimedOut, TerminalResults, RetryableRun
<1> QED BY <1>1, ResultShape DEF Counted, Results

LEMMA Fits ==
  ASSUME OwnFine(own, row, recorded), row \in Payload, NEW n,
         DOMAIN n = OwnFields, n = [f \in OwnFields |-> n[f]],
         n.me = own.me, n.seen \in {own.seen, row, own.me}, Counted(n.res, row),
         Bound(n) => n.res # NoResult, Closing(n) => recorded # NoResult,
         n.pc \in Working => n.phase = "body"
  PROVE  OwnFine(n, row, recorded)
<1>1. own.me \in Payload /\ own.me.status = "queued" /\ Known(own.seen, row) BY DEF OwnFine
<1>2. Known(row, row) /\ Known(own.me, row) BY <1>1 DEF Known
<1> QED BY Zenon, <1>1, <1>2 DEF OwnFine

LEMMA AtFits ==
  ASSUME IInv, NEW p,
         p \in Deciding \cup Releasing => own.res # NoResult,
         p \in {"cleanup", "finalize"} => recorded # NoResult,
         p \in Working => own.phase = "body"
  PROVE  OwnFine(At(p), row, recorded)
<1> DEFINE n == At(p)
<1>1. DOMAIN own = OwnFields /\ Counted(own.res, row) /\ row \in Payload BY DEF IInv, Stored, OwnFine
<1>2. /\ DOMAIN n = OwnFields /\ n = [f \in OwnFields |-> n[f]]
      /\ n.pc = p /\ n.phase = own.phase /\ n.me = own.me /\ n.seen = own.seen /\ n.res = own.res
  BY <1>1 DEF OwnFields, At
<1> HIDE DEF n
<1>3. (Bound(n) => n.res # NoResult) /\ (Closing(n) => recorded # NoResult) /\ (n.pc \in Working => n.phase = "body")
  BY <1>2 DEF Bound, Closing, IInv, OwnFine
<1>4. OwnFine(n, row, recorded) BY Zenon, <1>1, <1>2, <1>3, Fits DEF IInv
<1> QED BY Zenon, <1>4 DEF n

\* The continuations of an exception.
LEMMA RaisedFits ==
  ASSUME IInv, own.phase = "body" \/ own.res # NoResult
  PROVE  OwnFine(Raised, row, recorded)
<1> DEFINE n == Raised
<1>1. DOMAIN own = OwnFields /\ Counted(own.res, row) /\ row \in Payload BY DEF IInv, Stored, OwnFine
<1>2. Counted(InternalFailure, row) /\ InternalFailure # NoResult BY Zenon, ConstantResults
<1>3. CASE own.phase = "body"
  <2>1. /\ DOMAIN n = OwnFields /\ n = [f \in OwnFields |-> n[f]]
        /\ n.pc = "read" /\ n.phase = "handler" /\ n.me = own.me /\ n.seen = own.seen /\ n.res = InternalFailure
    BY <1>1, <1>3 DEF OwnFields, Raised
  <2> HIDE DEF n
  <2>2. n.res # NoResult /\ ~Closing(n) /\ n.pc \notin Working
    BY <2>1, <1>2 DEF Closing, Releasing, Working
  <2>3. OwnFine(n, row, recorded) BY Zenon, <1>1, <1>2, <2>1, <2>2, Fits DEF IInv
  <2> QED BY Zenon, <2>3 DEF n
<1>4. CASE own.phase = "handler"
  <2>1. Raised = At("release") BY <1>4 DEF Raised
  <2>2. OwnFine(At("release"), row, recorded)
    BY <1>4, AtFits DEF Deciding, Releasing, Working
  <2> QED BY Zenon, <2>1, <2>2
<1>5. CASE own.phase = "outside"
  <2>1. /\ DOMAIN n = OwnFields /\ n = [f \in OwnFields |-> n[f]]
        /\ n.pc = "release" /\ n.phase = "outside" /\ n.me = own.me /\ n.seen = own.seen /\ n.res = InternalFailure
    BY <1>1, <1>5 DEF OwnFields, Raised
  <2> HIDE DEF n
  <2>2. n.res # NoResult /\ ~Closing(n) /\ n.pc \notin Working
    BY <2>1, <1>2 DEF Closing, Releasing, Working
  <2>3. OwnFine(n, row, recorded) BY Zenon, <1>1, <1>2, <2>1, <2>2, Fits DEF IInv
  <2> QED BY Zenon, <2>3 DEF n
<1>6. CASE own.phase \notin {"body", "handler", "outside"}
  <2>1. /\ DOMAIN n = OwnFields /\ n = [f \in OwnFields |-> n[f]]
        /\ n.pc = "abort" /\ n.phase = own.phase /\ n.me = own.me /\ n.seen = own.seen /\ n.res = own.res
    BY <1>1, <1>6 DEF OwnFields, Raised
  <2> HIDE DEF n
  <2>2. ~Bound(n) /\ (Closing(n) => Closing(own)) /\ n.pc \notin Working
    BY <2>1 DEF Bound, Deciding, Closing, Releasing, Working
  <2>3. OwnFine(n, row, recorded) BY Zenon, <1>1, <2>1, <2>2, Fits DEF IInv, OwnFine
  <2> QED BY Zenon, <2>3 DEF n
<1> QED BY Zenon, <1>3, <1>4, <1>5, <1>6


\* The owner goes on to settle the row with a result.
LEMMA SettlingFits ==
  ASSUME IInv, NEW n, DOMAIN n = OwnFields, n = [f \in OwnFields |-> n[f]],
         n.me = own.me, n.seen \in {own.seen, row, own.me}, Counted(n.res, row), n.res # NoResult,
         n.pc \in Deciding \cup {"release"}, n.phase = own.phase \/ n.phase # "cleanup"
  PROVE  OwnFine(n, row, recorded)
<1>1. (Closing(n) => Closing(own)) /\ n.pc \notin Working BY DEF Deciding, Closing, Working
<1> QED BY Zenon, <1>1, Fits DEF IInv, Stored, OwnFine

LEMMA MarkCancelledFits ==
  ASSUME IInv, NEW h \in {"queue", "outside", "body"}
  PROVE  OwnFine(MarkCancelled(h), row, recorded)
<1> DEFINE n == MarkCancelled(h)
<1>1. DOMAIN own = OwnFields BY DEF IInv, OwnFine
<1>2. Counted(CancelledByUser, row) /\ CancelledByUser # NoResult BY Zenon, ConstantResults
<1>3. /\ DOMAIN n = OwnFields /\ n = [f \in OwnFields |-> n[f]]
      /\ n.pc = "claim" /\ n.phase = h /\ n.me = own.me /\ n.seen = own.seen /\ n.res = CancelledByUser
  BY <1>1 DEF OwnFields, MarkCancelled
<1> HIDE DEF n
<1>4. n.pc \in Deciding \cup {"release"} /\ n.phase # "cleanup" BY <1>3 DEF Deciding
<1>5. OwnFine(n, row, recorded) BY Zenon, <1>2, <1>3, <1>4, SettlingFits
<1> QED BY Zenon, <1>5 DEF n

LEMMA SettleWithFits ==
  ASSUME IInv, NEW res \in {InternalFailure, NoCapacity, Unhealthy}
  PROVE  OwnFine(SettleWith(res), row, recorded)
<1> DEFINE n == SettleWith(res)
<1>1. DOMAIN own = OwnFields BY DEF IInv, OwnFine
<1>2. Counted(res, row) /\ res # NoResult BY Zenon, ConstantResults
<1>3. /\ DOMAIN n = OwnFields /\ n = [f \in OwnFields |-> n[f]]
      /\ n.pc = "claim" /\ n.phase = "outside" /\ n.me = own.me /\ n.seen = own.seen /\ n.res = res
  BY <1>1 DEF OwnFields, SettleWith
<1> HIDE DEF n
<1>4. n.pc \in Deciding \cup {"release"} /\ n.phase # "cleanup" BY <1>3 DEF Deciding
<1>5. OwnFine(n, row, recorded) BY Zenon, <1>2, <1>3, <1>4, SettlingFits
<1> QED BY Zenon, <1>5 DEF n

LEMMA PersistFits ==
  ASSUME IInv, NEW res, Counted(res, row), res # NoResult
  PROVE  /\ OwnFine(Persist(res), row, recorded)
         /\ OwnFine([own EXCEPT !.pc = "cancelRun", !.mode = "await", !.res = res], row, recorded)
<1>1. DOMAIN own = OwnFields BY DEF IInv, OwnFine
<1>2. OwnFine(Persist(res), row, recorded)
  <2> DEFINE n == Persist(res)
  <2>1. /\ DOMAIN n = OwnFields /\ n = [f \in OwnFields |-> n[f]]
        /\ n.pc = "read" /\ n.phase = own.phase /\ n.me = own.me /\ n.seen = own.seen /\ n.res = res
    BY <1>1 DEF OwnFields, Persist
  <2> HIDE DEF n
  <2>2. n.pc \in Deciding \cup {"release"} BY <2>1 DEF Deciding
  <2>3. OwnFine(n, row, recorded) BY Zenon, <2>1, <2>2, SettlingFits
  <2> QED BY Zenon, <2>3 DEF n
<1>3. OwnFine([own EXCEPT !.pc = "cancelRun", !.mode = "await", !.res = res], row, recorded)
  <2> DEFINE n == [own EXCEPT !.pc = "cancelRun", !.mode = "await", !.res = res]
  <2>1. /\ DOMAIN n = OwnFields /\ n = [f \in OwnFields |-> n[f]]
        /\ n.pc = "cancelRun" /\ n.phase = own.phase /\ n.me = own.me /\ n.seen = own.seen /\ n.res = res
    BY <1>1 DEF OwnFields
  <2> HIDE DEF n
  <2>2. n.pc \in Deciding \cup {"release"} BY <2>1 DEF Deciding
  <2>3. OwnFine(n, row, recorded) BY Zenon, <2>1, <2>2, SettlingFits
  <2> QED BY Zenon, <2>3 DEF n
<1> QED BY Zenon, <1>2, <1>3

\* persist_stranded_result is started with a row read now or with the run in
\* memory, by the timeout and by the finalization.
LEMMA StrandFits ==
  ASSUME IInv, NEW p \in {row, own.me}, NEW res, Counted(res, row), res # NoResult
  PROVE  /\ OwnFine(Strand(p, res), row, recorded)
         /\ OwnFine([Strand(p, res) EXCEPT !.phase = "finalize"], row, recorded)
<1>1. DOMAIN own = OwnFields BY DEF IInv, OwnFine
<1> DEFINE m == Strand(p, res)
           n == [m EXCEPT !.phase = "finalize"]
<1>2. /\ DOMAIN m = OwnFields /\ m = [f \in OwnFields |-> m[f]]
      /\ m.pc \in {"claim", "write", "force"} /\ m.phase = own.phase /\ m.me = own.me /\ m.seen = p /\ m.res = res
  BY <1>1 DEF OwnFields, Strand
<1> HIDE DEF m
<1>3. /\ DOMAIN n = OwnFields /\ n = [f \in OwnFields |-> n[f]]
      /\ n.pc \in {"claim", "write", "force"} /\ n.phase = "finalize" /\ n.me = own.me /\ n.seen = p /\ n.res = res
  BY <1>2 DEF OwnFields
<1> HIDE DEF n
<1>4. m.pc \in Deciding \cup {"release"} /\ n.pc \in Deciding \cup {"release"} /\ n.phase # "cleanup"
  BY <1>2, <1>3 DEF Deciding
<1>5. OwnFine(m, row, recorded) BY Zenon, <1>2, <1>4, SettlingFits
<1>6. OwnFine(n, row, recorded) BY Zenon, <1>3, <1>4, SettlingFits
<1> QED BY Zenon, <1>5, <1>6 DEF n, m

LEMMA AfterStrandFits ==
  ASSUME IInv, own.res # NoResult
  PROVE  OwnFine(AfterStrand, row, recorded)
<1>1. OwnFine(At("close"), row, recorded) BY AtFits DEF Deciding, Releasing, Working
<1>2. OwnFine(At("recheck"), row, recorded) BY AtFits DEF Deciding, Releasing, Working
<1> QED BY <1>1, <1>2 DEF AfterStrand

\* A row found settled gives the result that is counted.
LEMMA FoundFits ==
  ASSUME IInv, IsSettled, own.pc \in Deciding
  PROVE  OwnFine([own EXCEPT !.pc = "release", !.res = settled_result(own.res)], row, recorded)
<1> DEFINE res == settled_result(own.res)
           n == [own EXCEPT !.pc = "release", !.res = res]
<1>1. DOMAIN own = OwnFields /\ own.res \in Results BY DEF IInv, OwnFine, Counted
<1>2. res \in TerminalResults /\ res.status = row.status
  <2>1. CASE result # NoResult
    BY <2>1, ResultShape DEF IInv, Stored, settled_result
  <2>2. CASE result = NoResult
    <3>1. res = terminal_result_from_run(own.res) BY <2>2 DEF settled_result
    <3>2. row.status \in TerminalRun /\ row.err \in ErrorClass
      BY PayloadFields DEF IInv, Stored, IsSettled
    <3>3. own.res.status = row.status => own.res \in TerminalResults
      BY <1>1, <3>2, ResultShape, Statuses
    <3>4. row.status \in RetryableRun /\ own.res.status = row.status => own.res.err \in {"transient", "internal"}
      BY <3>3 DEF TerminalResults, RetryableRun
    <3> QED BY <3>1, <3>2, <3>4
            DEF terminal_result_from_run, TerminalResults, TerminalRun, AbsorbingRun, RetryableRun, ErrorClass
  <2> QED BY <2>1, <2>2
<1> HIDE DEF res
<1>3. Counted(res, row) /\ res # NoResult BY <1>2, ResultShape DEF Counted, Results
<1>4. /\ DOMAIN n = OwnFields /\ n = [f \in OwnFields |-> n[f]]
      /\ n.pc = "release" /\ n.phase = own.phase /\ n.me = own.me /\ n.seen = own.seen /\ n.res = res
  BY <1>1 DEF OwnFields
<1> HIDE DEF n
<1>5. n.pc \in Deciding \cup {"release"} BY <1>4
<1>6. OwnFine(n, row, recorded)
  BY Zenon, <1>3, <1>4, <1>5, SettlingFits
<1> QED BY Zenon, <1>6 DEF n, res


-----------------------------------------------------------------------------
(* The invariant is preserved, action by action. *)

\* The summary of a continuation that keeps the owner's result.
Same(n) == /\ DOMAIN n = OwnFields /\ n = [f \in OwnFields |-> n[f]]
           /\ n.me = own.me /\ n.seen \in {own.seen, row} /\ n.res = own.res

\* Outside Deciding and the releases a continuation is free.
LEMMA FreeFits ==
  ASSUME IInv, NEW n, Same(n), n.pc \notin Deciding \cup Releasing \cup {"cleanup", "finalize"},
         n.phase = own.phase \/ n.phase # "cleanup",
         n.pc \in Working => n.phase = "body"
  PROVE  OwnFine(n, row, recorded)
<1>1. ~Bound(n) /\ (Closing(n) => Closing(own)) BY DEF Bound, Closing
<1> QED BY Zenon, <1>1, Fits DEF IInv, Stored, OwnFine, Same

LEMMA PreparedFits ==
  ASSUME IInv, own.pc \in {"prep", "stageWrite"}
  PROVE  /\ OwnFine(Prepared, row, recorded)
         /\ OwnFine([Prepared EXCEPT !.leased = TRUE], row, recorded)
         /\ OwnFine([own EXCEPT !.pc = "stageWrite", !.seen = row], row, recorded)
<1>1. DOMAIN own = OwnFields /\ own.phase = "body" BY DEF IInv, OwnFine, Working
<1>2. ASSUME NEW n, Same(n), n.pc \in {"prep", "stageWrite"}, n.phase = "body"
      PROVE  OwnFine(n, row, recorded)
  <2>1. n.pc \notin Deciding \cup Releasing \cup {"cleanup", "finalize"}
    BY <1>2 DEF Deciding, Releasing
  <2> QED BY Zenon, <2>1, <1>1, <1>2, FreeFits
<1> DEFINE k == Prepared
           m == [k EXCEPT !.leased = TRUE]
           n == [own EXCEPT !.pc = "stageWrite", !.seen = row]
<1>3. Same(k) /\ k.pc = "prep" /\ k.phase = "body" BY <1>1 DEF Prepared, OwnFields, Same
<1>4. Same(n) /\ n.pc = "stageWrite" /\ n.phase = "body" BY <1>1 DEF OwnFields, Same
<1> HIDE DEF k
<1>5. Same(m) /\ m.pc = "prep" /\ m.phase = "body" BY <1>3 DEF OwnFields, Same
<1> HIDE DEF m, n
<1>6. OwnFine(k, row, recorded) /\ OwnFine(m, row, recorded) /\ OwnFine(n, row, recorded)
  BY <1>2, <1>3, <1>4, <1>5
<1> QED BY Zenon, <1>6 DEF k, m, n

LEMMA UpdateFine ==
  ASSUME NEW p, Known(p, row)
  PROVE  CallFine(UpdateCall(p), row)
  BY DEF CallFine, UpdateCall, Request

LEMMA PlainCallsFine ==
  /\ CallFine(ClaimCall, row) /\ CallFine(CancelCall, row)
  /\ CallFine(CancelBatchCall, row) /\ CallFine(CloseBatchCall, row)
  BY DEF CallFine, ClaimCall, CancelCall, CancelBatchCall, CloseBatchCall, Request

LEMMA StepPrepare == IInv /\ Prepare => IInv'
<1> SUFFICES ASSUME IInv, Prepare PROVE IInv' OBVIOUS
<1>0. DOMAIN own = OwnFields /\ Known(own.seen, row) /\ own.me \in Payload /\ own.me.status = "queued"
  BY DEF IInv, OwnFine
<1>1. CASE Execute
  <2> DEFINE n == [own EXCEPT !.pc = "enter", !.phase = "outside"]
  <2>1. Same(n) /\ n.pc = "enter" /\ n.phase = "outside" BY <1>0 DEF OwnFields, Same
  <2>2. Step(n) BY <1>1 DEF Execute
  <2> HIDE DEF n
  <2>3. n.pc \notin Deciding \cup Releasing \cup {"cleanup", "finalize"} /\ n.pc \notin Working /\ n.phase # "cleanup"
    BY <2>1 DEF Deciding, Releasing, Working
  <2>4. OwnFine(n, row, recorded) BY Zenon, <2>1, <2>3, FreeFits
  <2> QED BY Zenon, <2>2, <2>4, StepKeeps
<1>2. CASE CancelQueued
  BY Zenon, <1>2, MarkCancelledFits, StepKeeps DEF CancelQueued
<1>3. CASE Enter
  <2> DEFINE n == [own EXCEPT !.pc = "prep", !.at = 1, !.phase = "body"]
  <2>1. Same(n) /\ n.pc = "prep" /\ n.phase = "body" BY <1>0 DEF OwnFields, Same
  <2>2. Step(MarkCancelled("outside")) \/ Step(n) \/ Step(SettleWith(InternalFailure)) BY <1>3 DEF Enter
  <2> HIDE DEF n
  <2>3. n.pc \notin Deciding \cup Releasing \cup {"cleanup", "finalize"} /\ n.phase # "cleanup"
    BY <2>1 DEF Deciding, Releasing
  <2>4. OwnFine(n, row, recorded) BY Zenon, <2>1, <2>3, FreeFits
  <2> QED BY Zenon, <2>2, <2>4, MarkCancelledFits, SettleWithFits, StepKeeps
<1>4. CASE StageRead
  BY Zenon, <1>4, PreparedFits, ReadKeeps DEF StageRead, Preparing
<1>5. CASE StageWrite
  <2>1. CallFine(UpdateCall(own.seen), row) BY Zenon, <1>0, UpdateFine
  <2> QED BY Zenon, <2>1, <1>5, PreparedFits, CallKeeps DEF StageWrite
<1>6. CASE Check
  <2>1. own.pc = "prep" BY <1>6 DEF Check, Preparing
  <2>2. Step(MarkCancelled("outside")) \/ Step(MarkCancelled("body")) \/ Step(Prepared)
    BY <1>6 DEF Check
  <2> QED BY Zenon, <2>1, <2>2, PreparedFits, MarkCancelledFits, StepKeeps
<1>7. CASE Reserve
  <2>1. own.pc = "prep" BY <1>7 DEF Reserve, Preparing
  <2> QED BY Zenon, <2>1, <1>7, PreparedFits, MarkCancelledFits, SettleWithFits, StepKeeps DEF Reserve
<1>8. CASE Acquire
  <2>1. own.pc = "prep" BY <1>8 DEF Acquire, Preparing
  <2> QED BY Zenon, <2>1, <1>8, PreparedFits, MarkCancelledFits, SettleWithFits, StepKeeps DEF Acquire
<1>9. CASE Lease
  <2>1. own.pc = "prep" BY <1>9 DEF Lease, Preparing
  <2>2. own.phase = "body" BY <2>1 DEF IInv, OwnFine, Working
  <2>3. Known(own.me, row) BY <1>0 DEF Known
  <2>4. CallFine(UpdateCall(own.me), row) BY Zenon, <2>3, UpdateFine
  <2> QED BY Zenon, <2>1, <2>2, <2>4, <1>9, PreparedFits, RaisedFits, CallKeeps DEF Lease
<1>10. CASE StartExecutor
  <2> DEFINE e == [Idle EXCEPT !.pc = "claim"]
  <2>1. /\ own.pc = "prep" /\ own' = At("await") /\ exec' = e
        /\ UNCHANGED <<row, result, issued, late, recorded, other>>
    BY <1>10 DEF StartExecutor
  <2>2. own.phase = "body" BY <2>1 DEF IInv, OwnFine, Working
  <2>3. OwnFine(At("await"), row, recorded) BY <2>2, AtFits DEF Deciding, Releasing
  <2>4. /\ DOMAIN e = ExecFields /\ e = [f \in ExecFields |-> e[f]] /\ e.res = NoResult /\ e.pc = "claim"
    BY DEF Idle, ExecFields
  <2> HIDE DEF e
  <2>5. ExecFine(e, row) BY <2>4 DEF ExecFine, Results
  <2>6. Stored' /\ Lasting /\ ExecFine(exec', row') BY Zenon, <2>1, <2>5, StoreStays
  <2> QED BY Zenon, <2>1, <2>3, <2>6, Keeps DEF IInv
<1> QED BY Zenon, <1>1, <1>2, <1>3, <1>4, <1>5, <1>6, <1>7, <1>8, <1>9, <1>10 DEF Prepare


\* The calls an abandoned executor, and an interrupted owner, leave in flight.
LEMMA ExecPendingFine == ASSUME IInv PROVE \A q \in ExecPending : CallFine(q, row)
<1>1. CASE exec.pc = "claim" BY <1>1, PlainCallsFine DEF ExecPending
<1>2. CASE exec.pc = "write"
  <2>1. exec.res \in TerminalResults BY <1>2, ResultShape DEF IInv, ExecFine
  <2>2. CallFine(WriteCall(exec.tok, exec.res), row) BY <2>1 DEF CallFine, WriteCall, Request
  <2> QED BY <2>2, <1>2 DEF ExecPending
<1>3. CASE exec.pc \notin {"claim", "write"} BY <1>3 DEF ExecPending
<1> QED BY <1>1, <1>2, <1>3

LEMMA AbandonKeeps ==
  ASSUME IInv, NEW n, Abandon(n), OwnFine(n, row, recorded)
  PROVE  IInv'
<1>1. /\ own' = n /\ exec' = Idle /\ late' = late \cup ExecPending
      /\ UNCHANGED <<row, result, issued, recorded, other>>
  BY DEF Abandon
<1>2. \A q \in late' : CallFine(q, row) BY Zenon, <1>1, ExecPendingFine DEF IInv
<1> QED BY Zenon, <1>1, <1>2, LeavingKeeps

LEMMA StepAwait == IInv /\ (Await \/ ExecutionTimesOut) => IInv'
<1> SUFFICES ASSUME IInv, Await \/ ExecutionTimesOut PROVE IInv' OBVIOUS
<1>1. exec.pc = "returned" => Counted(exec.res, row) /\ exec.res # NoResult BY DEF IInv, ExecFine
<1>2. own.pc \in {"await", "cancelling"} => own.phase = "body" BY DEF IInv, OwnFine, Working
<1>3. CASE ExecutorDone
  BY Zenon, <1>1, <1>2, <1>3, PersistFits, RaisedFits, StepKeeps DEF ExecutorDone
<1>4. CASE CancelObserved
  <2>1. own.phase = "body" /\ Step(At("cancelling")) BY <1>2, <1>4 DEF CancelObserved
  <2>2. OwnFine(At("cancelling"), row, recorded) BY <2>1, AtFits DEF Deciding, Releasing
  <2> QED BY Zenon, <2>1, <2>2, StepKeeps
<1>5. CASE CancelExecutor
  <2> DEFINE wc(res) == [own EXCEPT !.pc = "cancelRun", !.mode = "await", !.res = res]
  <2>1. /\ own.phase = "body"
        /\ \/ exec.pc = "returned" /\ (Step(wc(exec.res)) \/ Step(Persist(exec.res)))
           \/ Step(wc(CancelledByUser))
           \/ Step(Raised)
           \/ Abandon(wc(CancelledByUser))
    BY <1>2, <1>5 DEF CancelExecutor
  <2>2. OwnFine(wc(CancelledByUser), row, recorded)
    BY Zenon, ConstantResults, PersistFits
  <2>3. exec.pc = "returned" => OwnFine(wc(exec.res), row, recorded) /\ OwnFine(Persist(exec.res), row, recorded)
    BY Zenon, <1>1, PersistFits
  <2>4. OwnFine(Raised, row, recorded) BY Zenon, <2>1, RaisedFits
  <2> HIDE DEF wc
  <2> QED BY Zenon, <2>1, <2>2, <2>3, <2>4, StepKeeps, AbandonKeeps
<1>6. CASE ExecutionTimesOut
  <2>1. PICK res \in TimedOut : Abandon(Persist(res)) BY <1>6 DEF ExecutionTimesOut
  <2>2. Counted(res, row) /\ res # NoResult BY Zenon, ConstantResults
  <2> QED BY Zenon, <2>1, <2>2, PersistFits, AbandonKeeps
<1> QED BY Zenon, <1>3, <1>4, <1>5, <1>6 DEF Await

LEMMA DecidingFacts ==
  ASSUME IInv, own.pc \in Deciding
  PROVE  /\ own.res \in TerminalResults /\ own.res # NoResult /\ Counted(own.res, row)
         /\ OwnFine(Raised, row, recorded) /\ OwnFine(AfterStrand, row, recorded)
         /\ \A p \in Deciding \cup {"release"} : OwnFine(At(p), row, recorded)
<1>1. own.res # NoResult /\ Counted(own.res, row) BY DEF IInv, OwnFine, Bound
<1>2. own.res \in TerminalResults BY <1>1, ResultShape DEF Counted
<1>3. ASSUME NEW p \in Deciding \cup {"release"} PROVE OwnFine(At(p), row, recorded)
  <2>1. p \notin {"cleanup", "finalize"} /\ p \notin Working BY DEF Deciding, Working
  <2> QED BY Zenon, <2>1, <1>1, AtFits
<1> QED BY Zenon, <1>1, <1>2, <1>3, RaisedFits, AfterStrandFits

LEMMA StepSettle == IInv /\ (Claim \/ Write \/ ForceUpdate \/ CancelRun) => IInv'
<1> SUFFICES ASSUME IInv, Claim \/ Write \/ ForceUpdate \/ CancelRun PROVE IInv' OBVIOUS
<1>1. own.pc \in Deciding BY DEF Claim, Write, ForceUpdate, CancelRun, Deciding
<1>2. DOMAIN own = OwnFields /\ Known(own.seen, row) BY DEF IInv, OwnFine
<1>3. /\ own.res \in TerminalResults /\ own.res # NoResult /\ Counted(own.res, row)
      /\ OwnFine(Raised, row, recorded) /\ OwnFine(AfterStrand, row, recorded)
      /\ \A p \in Deciding \cup {"release"} : OwnFine(At(p), row, recorded)
  BY Zenon, <1>1, DecidingFacts
<1>4. /\ OwnFine(At("cancelRun"), row, recorded) /\ OwnFine(At("reread"), row, recorded)
      /\ OwnFine(At("force"), row, recorded) /\ OwnFine(At("release"), row, recorded)
  BY <1>3 DEF Deciding
<1>5. CASE Claim
  <2> DEFINE d == [own EXCEPT !.pc = "write", !.tok = issued + 1]
             s == CASE own.mode = "mark"   -> At("cancelRun")
                    [] own.mode = "ensure" -> At("reread")
                    [] own.mode = "strand" -> AfterStrand
                    [] OTHER               -> Raised
             l == IF own.mode = "strand" THEN AfterStrand ELSE Raised
  <2>1. Call(ClaimCall, d, s, l) BY Zenon, <1>5 DEF Claim
  <2>2. /\ DOMAIN d = OwnFields /\ d = [f \in OwnFields |-> d[f]]
        /\ d.pc = "write" /\ d.phase = own.phase /\ d.me = own.me /\ d.seen = own.seen /\ d.res = own.res
    BY <1>2 DEF OwnFields
  <2>3. s \in {At("cancelRun"), At("reread"), AfterStrand, Raised} /\ l \in {AfterStrand, Raised}
    OBVIOUS
  <2> HIDE DEF d, s, l
  <2>4. d.pc \in Deciding \cup {"release"} BY <2>2 DEF Deciding
  <2>5. OwnFine(d, row, recorded) BY Zenon, <2>2, <2>4, <1>3, SettlingFits
  <2>6. OwnFine(s, row, recorded) /\ OwnFine(l, row, recorded) BY Zenon, <2>3, <1>3, <1>4
  <2> QED BY Zenon, <2>1, <2>5, <2>6, PlainCallsFine, CallKeeps
<1>6. CASE Write
  <2> DEFINE d == IF own.mode = "strand" THEN AfterStrand ELSE At("release")
             s == CASE own.mode = "mark"   -> At("cancelRun")
                    [] own.mode = "ensure" -> At("reread")
                    [] own.mode = "strand" -> IF own.seen.status = "queued" THEN AfterStrand ELSE At("force")
                    [] OTHER               -> Raised
             l == IF own.mode = "strand" /\ own.seen.status = "queued" THEN AfterStrand ELSE Raised
  <2>1. Call(WriteCall(own.tok, own.res), d, s, l) BY Zenon, <1>6 DEF Write
  <2>2. /\ d \in {AfterStrand, At("release")} /\ l \in {AfterStrand, Raised}
        /\ s \in {At("cancelRun"), At("reread"), AfterStrand, At("force"), Raised}
    OBVIOUS
  <2> HIDE DEF d, s, l
  <2>3. OwnFine(d, row, recorded) /\ OwnFine(s, row, recorded) /\ OwnFine(l, row, recorded)
    BY Zenon, <2>2, <1>3, <1>4
  <2>4. CallFine(WriteCall(own.tok, own.res), row) BY <1>3 DEF CallFine, WriteCall, Request
  <2> QED BY Zenon, <2>1, <2>3, <2>4, CallKeeps
<1>7. CASE ForceUpdate
  <2> DEFINE p == [own.seen EXCEPT !.status = own.res.status, !.err = own.res.err]
  <2>1. Call(UpdateCall(p), AfterStrand, AfterStrand, Raised) BY <1>7 DEF ForceUpdate
  <2>2. p \in Payload /\ p.status = own.res.status BY Zenon, <1>2, <1>3, PayloadEdits DEF Known
  <2> HIDE DEF p
  <2>3. Known(p, row) BY <2>2, <1>3 DEF Known, Counted
  <2> QED BY Zenon, <2>1, <2>3, <1>3, UpdateFine, CallKeeps
<1>8. CASE CancelRun
  <2> DEFINE m == [own EXCEPT !.pc = "read", !.mode = "cancelled"]
             n == IF own.mode = "await" THEN m ELSE At("release")
  <2>1. Call(CancelCall, n, n, n) BY <1>8 DEF CancelRun
  <2>2. /\ DOMAIN m = OwnFields /\ m = [f \in OwnFields |-> m[f]]
        /\ m.pc = "read" /\ m.phase = own.phase /\ m.me = own.me /\ m.seen = own.seen /\ m.res = own.res
    BY <1>2 DEF OwnFields
  <2>3. n \in {m, At("release")} OBVIOUS
  <2> HIDE DEF n, m
  <2>4. m.pc \in Deciding \cup {"release"} BY <2>2 DEF Deciding
  <2>5. OwnFine(m, row, recorded) BY Zenon, <2>2, <2>4, <1>3, SettlingFits
  <2>6. OwnFine(n, row, recorded) BY Zenon, <2>3, <2>5, <1>4
  <2> QED BY Zenon, <2>1, <2>6, PlainCallsFine, CallKeeps
<1> QED BY Zenon, <1>5, <1>6, <1>7, <1>8


LEMMA StepLook == IInv /\ (LookUp \/ LookAgain) => IInv'
<1> SUFFICES ASSUME IInv, LookUp \/ LookAgain PROVE IInv' OBVIOUS
<1> DEFINE found == [own EXCEPT !.pc = "release", !.res = settled_result(own.res)]
<1>1. own.pc \in Deciding BY DEF LookUp, LookAgain, Deciding
<1>2. /\ own.res # NoResult /\ Counted(own.res, row) /\ OwnFine(Raised, row, recorded)
      /\ \A p \in Deciding \cup {"release"} : OwnFine(At(p), row, recorded)
  BY Zenon, <1>1, DecidingFacts
<1>3. /\ OwnFine(At("claim"), row, recorded) /\ OwnFine(At("release"), row, recorded)
      /\ OwnFine(At("cancelRun"), row, recorded)
  BY <1>2 DEF Deciding
<1>4. IsSettled => OwnFine(found, row, recorded) BY Zenon, <1>1, FoundFits
<1>5. OwnFine(Strand(row, own.res), row, recorded) /\ OwnFine(Strand(own.me, own.res), row, recorded)
  BY Zenon, <1>2, StrandFits
<1>6. \/ Read(IF IsSettled THEN found ELSE At("claim"), Raised)
      \/ Read(IF result # NoResult THEN At("release") ELSE At("cancelRun"), At("cancelRun"))
      \/ Read(IF IsSettled THEN found ELSE Strand(row, own.res), Strand(own.me, own.res))
      \/ Read(IF IsSettled THEN found ELSE Raised, Raised)
      \/ Read(IF IsSettled THEN found ELSE At("release"), At("release"))
  BY Zenon DEF LookUp, LookAgain
<1> HIDE DEF found
<1>7. /\ OwnFine(IF IsSettled THEN found ELSE At("claim"), row, recorded)
      /\ OwnFine(IF result # NoResult THEN At("release") ELSE At("cancelRun"), row, recorded)
      /\ OwnFine(IF IsSettled THEN found ELSE Strand(row, own.res), row, recorded)
      /\ OwnFine(IF IsSettled THEN found ELSE Raised, row, recorded)
      /\ OwnFine(IF IsSettled THEN found ELSE At("release"), row, recorded)
  BY <1>2, <1>3, <1>4, <1>5
<1> QED BY Zenon, <1>2, <1>3, <1>5, <1>6, <1>7, ReadKeeps

\* The continuations of the release of the sandbox.
LEMMA ReleaseFits ==
  ASSUME IInv, own.pc \in Releasing
  PROVE  /\ OwnFine(AfterRelease, row, recorded)
         /\ \A a : OwnFine(ReleaseStage(a), row, recorded)
         /\ OwnFine([own EXCEPT !.pc = "releaseWrite", !.seen = row], row, recorded)
<1>1. DOMAIN own = OwnFields /\ Counted(own.res, row) /\ row \in Payload BY DEF IInv, OwnFine, Stored
<1>2. /\ own.phase \notin {"interrupted"} \cup CleanupPhase => own.res # NoResult
      /\ own.phase = "cleanup" => recorded # NoResult
  BY DEF IInv, OwnFine, Bound, Closing
<1>3. ASSUME NEW n, Same(n), n.pc \in Releasing, n.phase = own.phase
      PROVE  OwnFine(n, row, recorded)
  <2>1. (Bound(n) => n.res # NoResult) /\ (Closing(n) => recorded # NoResult) /\ n.pc \notin Working
    BY <1>2, <1>3 DEF Bound, Closing, Deciding, Releasing, Working, Same
  <2> QED BY Zenon, <2>1, <1>1, <1>3, Fits DEF IInv, Same
<1>4. ASSUME NEW a PROVE OwnFine(ReleaseStage(a), row, recorded)
  <2> DEFINE n == ReleaseStage(a)
  <2>1. Same(n) /\ n.pc = "releaseRead" /\ n.phase = own.phase BY <1>1 DEF OwnFields, Same, ReleaseStage
  <2> HIDE DEF n
  <2>2. OwnFine(n, row, recorded) BY <2>1, <1>3 DEF Releasing
  <2> QED BY Zenon, <2>2 DEF n
<1>5. OwnFine([own EXCEPT !.pc = "releaseWrite", !.seen = row], row, recorded)
  <2> DEFINE n == [own EXCEPT !.pc = "releaseWrite", !.seen = row]
  <2>1. Same(n) /\ n.pc = "releaseWrite" /\ n.phase = own.phase BY <1>1 DEF OwnFields, Same
  <2> HIDE DEF n
  <2>2. OwnFine(n, row, recorded) BY <2>1, <1>3 DEF Releasing
  <2> QED BY Zenon, <2>2 DEF n
<1>6. OwnFine(AfterRelease, row, recorded)
  <2> DEFINE p == CASE own.phase = "interrupted" -> "cancelBatch"
                    [] own.phase \in CleanupPhase -> AfterCleanup(own.phase)
                    [] OTHER                     -> "outcome"
             n == [At(p) EXCEPT !.leased = FALSE]
  <2>1. /\ own.phase = "interrupted" => p = "cancelBatch"
        /\ own.phase = "cleanup" => p = "finalize"
        /\ own.phase = "failCleanup" => p = "failBatch"
        /\ own.phase = "cancelCleanup" => p = "aborted"
        /\ own.phase \notin {"interrupted"} \cup CleanupPhase => p = "outcome"
    BY DEF CleanupPhase, AfterCleanup
  <2> HIDE DEF p
  <2>2. Same(n) /\ n.pc = p /\ n.phase = own.phase BY <1>1 DEF OwnFields, Same, At
  <2>3. AfterRelease = n BY Zenon DEF AfterRelease, p
  <2> HIDE DEF n
  <2>4. (Bound(n) => n.res # NoResult) /\ (Closing(n) => recorded # NoResult) /\ n.pc \notin Working
    BY <1>2, <2>1, <2>2 DEF Bound, Closing, Deciding, Releasing, Working, Same, CleanupPhase
  <2>5. OwnFine(n, row, recorded) BY Zenon, <2>2, <2>4, <1>1, Fits DEF IInv, Same
  <2> QED BY Zenon, <2>3, <2>5
<1> QED BY Zenon, <1>4, <1>5, <1>6

LEMMA StepRelease == IInv /\ Release => IInv'
<1> SUFFICES ASSUME IInv, Release PROVE IInv' OBVIOUS
<1>1. own.pc \in Releasing BY DEF Release, Releasing
<1>2. /\ OwnFine(AfterRelease, row, recorded)
      /\ \A a : OwnFine(ReleaseStage(a), row, recorded)
      /\ OwnFine([own EXCEPT !.pc = "releaseWrite", !.seen = row], row, recorded)
  BY Zenon, <1>1, ReleaseFits
<1>3. OwnFine(Released, row, recorded) /\ OwnFine(IF own.leased THEN ReleaseStage(1) ELSE AfterRelease, row, recorded)
  BY <1>2 DEF Released
<1>4. CallFine(UpdateCall(own.seen), row) BY Zenon, UpdateFine DEF IInv, OwnFine
<1>5. \/ Step(IF own.leased THEN ReleaseStage(1) ELSE AfterRelease) \/ Step(ReleaseStage(0))
      \/ Read([own EXCEPT !.pc = "releaseWrite", !.seen = row], Released)
      \/ Call(UpdateCall(own.seen), Released, Released, Released)
  BY Zenon DEF Release
<1> QED BY Zenon, <1>2, <1>3, <1>4, <1>5, StepKeeps, ReadKeeps, CallKeeps


\* A retry reopens the row with the payload it has just read.
LEMMA ReopenedFine ==
  ASSUME IInv, own.pc \in Deciding
  PROVE  /\ Reopened \in Payload /\ Reopened.status = "queued"
         /\ CallFine(ReopenCall(Reopened), row)
         /\ OwnFine([own EXCEPT !.pc = "queued", !.me = Reopened], row, recorded)
<1>1. /\ own.res \in TerminalResults /\ DOMAIN own = OwnFields /\ Known(own.seen, row)
      /\ own.me \in Payload /\ Counted(own.res, row)
  BY Zenon, DecidingFacts DEF IInv, OwnFine
<1>2. Reopened \in Payload /\ Reopened.status = "queued"
  <2>1. own.me.attempt + 1 \in Nat /\ own.res.err \in ErrorClass /\ own.seen \in Payload
    BY <1>1, PayloadFields, ResultShape DEF Known
  <2> DEFINE s == own.seen
             a == own.me.attempt + 1
             e == own.res.err
             q == [ReopenPayload(s) EXCEPT !.attempt = a, !.err = e]
  <2>2. Reopened = q BY Zenon DEF Reopened
  <2> HIDE DEF s, a, e
  <2>3. s \in Payload /\ a \in Nat /\ e \in ErrorClass BY Zenon, <2>1 DEF s, a, e
  <2>4. q \in Payload /\ q.status = "queued" BY Zenon, <2>3, ReopenEdit
  <2> QED BY Zenon, <2>2, <2>4
<1>3. CallFine(ReopenCall(Reopened), row)
  <2> DEFINE p == Reopened
  <2> HIDE DEF p
  <2>1. p \in Payload /\ p.status = "queued" => CallFine(ReopenCall(p), row) BY DEF CallFine, ReopenCall, Request
  <2> QED BY Zenon, <2>1, <1>2 DEF p
<1>4. OwnFine([own EXCEPT !.pc = "queued", !.me = Reopened], row, recorded)
  <2> DEFINE p == Reopened
             n == [own EXCEPT !.pc = "queued", !.me = p]
  <2>1. p \in Payload /\ p.status = "queued" BY <1>2
  <2> HIDE DEF p
  <2>2. /\ DOMAIN n = OwnFields /\ n = [f \in OwnFields |-> n[f]]
        /\ n.pc = "queued" /\ n.phase = own.phase /\ n.me = p /\ n.seen = own.seen /\ n.res = own.res
    BY <1>1 DEF OwnFields
  <2> HIDE DEF n
  <2>3. ~Bound(n) /\ (Closing(n) => Closing(own)) /\ n.pc \notin Working
    BY <2>2 DEF Bound, Closing, Deciding, Releasing, Working
  <2>4. OwnFine(n, row, recorded) BY Zenon, <1>1, <2>1, <2>2, <2>3 DEF OwnFine, IInv
  <2> QED BY Zenon, <2>4 DEF n, p
<1> QED BY Zenon, <1>2, <1>3, <1>4

LEMMA StepRetry == IInv /\ (Retry \/ RetryRead \/ Reopen \/ Record) => IInv'
<1> SUFFICES ASSUME IInv, Retry \/ RetryRead \/ Reopen \/ Record PROVE IInv' OBVIOUS
<1>1. own.pc \in Deciding BY DEF Retry, RetryRead, Reopen, Record, Deciding
<1>2. /\ own.res # NoResult /\ Counted(own.res, row) /\ DOMAIN own = OwnFields /\ row \in Payload
      /\ \A p \in Deciding \cup {"release"} : OwnFine(At(p), row, recorded)
  BY Zenon, <1>1, DecidingFacts DEF IInv, OwnFine, Stored
<1>3. OwnFine(At("retryRead"), row, recorded) /\ OwnFine(At("record"), row, recorded)
  BY <1>2 DEF Deciding
<1>4. CASE Retry BY Zenon, <1>3, <1>4, StepKeeps DEF Retry
<1>5. CASE RetryRead
  <2> DEFINE m == [own EXCEPT !.pc = "reopen", !.seen = row]
             n == [own EXCEPT !.pc = "abort", !.at = 1]
             d == IF RetryStillValid THEN m ELSE At("record")
  <2>1. Read(d, n) BY Zenon, <1>5 DEF RetryRead
  <2>2. Same(m) /\ m.pc = "reopen" /\ m.phase = own.phase BY <1>2 DEF OwnFields, Same
  <2>3. Same(n) /\ n.pc = "abort" /\ n.phase = own.phase BY <1>2 DEF OwnFields, Same
  <2>4. d \in {m, At("record")} OBVIOUS
  <2> HIDE DEF m, n, d
  <2>5. m.pc \in Deciding \cup {"release"} BY <2>2 DEF Deciding
  <2>6. OwnFine(m, row, recorded) BY Zenon, <2>2, <2>5, <1>2, SettlingFits DEF Same
  <2>7. n.pc \notin Deciding \cup Releasing \cup {"cleanup", "finalize"} /\ n.pc \notin Working
    BY <2>3 DEF Deciding, Releasing, Working
  <2>8. OwnFine(n, row, recorded) BY Zenon, <2>3, <2>7, FreeFits
  <2> QED BY Zenon, <2>1, <2>4, <2>6, <2>8, <1>3, ReadKeeps
<1>6. CASE Reopen
  BY Zenon, <1>1, <1>3, <1>6, ReopenedFine, CallKeeps DEF Reopen
<1>7. CASE Record
  <2> DEFINE n == At("cleanup")
  <2>1. /\ own' = n /\ recorded' = own.res
        /\ UNCHANGED <<row, result, issued, late, exec, other>>
    BY <1>7 DEF Record
  <2>2. Same(n) /\ n.pc = "cleanup" BY <1>2 DEF OwnFields, Same, At
  <2> HIDE DEF n
  <2>3. ~Bound(n) /\ n.pc \notin Working BY <2>2 DEF Bound, Deciding, Releasing, Working
  <2>4. OwnFine(n, row, own.res)
    BY Zenon, <2>2, <2>3, <1>2 DEF OwnFine, IInv, Same, Known
  <2>5. row' = row BY <2>1
  <2>6. Stored' BY <2>1 DEF IInv, Stored
  <2>7. \A q \in late' : CallFine(q, row') BY Zenon, <2>1, <2>5 DEF IInv
  <2>8. ExecFine(exec', row') /\ OtherFine(other', row') BY Zenon, <2>1, <2>5 DEF IInv
  <2>9. OwnFine(own', row', recorded') /\ Counted(recorded', row') BY Zenon, <2>1, <2>4, <2>5, <1>2
  <2>10. DOMAIN other' = {"pc", "p"} /\ other' = [f \in {"pc", "p"} |-> other'[f]] BY Zenon, <2>1 DEF IInv
  <2> QED BY Zenon, <2>6, <2>7, <2>8, <2>9, <2>10 DEF IInv
<1> QED BY Zenon, <1>4, <1>5, <1>6, <1>7

LEMMA StepClose ==
  IInv /\ (cleanup_batch \/ finalize_nonterminal_runs \/ CloseBatch \/ MarkBatchFailed \/ MarkBatchCancelled) => IInv'
<1> SUFFICES ASSUME IInv, cleanup_batch \/ finalize_nonterminal_runs \/ CloseBatch
                            \/ MarkBatchFailed \/ MarkBatchCancelled
             PROVE  IInv'
  OBVIOUS
<1>1. /\ DOMAIN own = OwnFields /\ Counted(own.res, row) /\ row \in Payload
      /\ Closing(own) => recorded # NoResult
  BY DEF IInv, OwnFine, Stored
<1>2. ASSUME NEW p \in {"close", "done", "aborted", "failCleanup", "abortCancel", "failBatch", "cancelCleanup"}
      PROVE  OwnFine(At(p), row, recorded)
  <2>1. p \notin Deciding \cup Releasing \cup Working \cup {"cleanup", "finalize"} BY DEF Deciding, Releasing, Working
  <2> QED BY Zenon, <2>1, AtFits
<1>3. CASE cleanup_batch
  <2> DEFINE k == ReleaseStage(1)
             n == [k EXCEPT !.leased = TRUE, !.phase = own.pc]
  <2>1. own.pc \in CleanupPhase /\ (Step(At(AfterCleanup(own.pc))) \/ Step(n)) BY <1>3 DEF cleanup_batch
  <2>2. own.pc = "cleanup" => recorded # NoResult BY <1>1 DEF Closing
  <2>3. OwnFine(At(AfterCleanup(own.pc)), row, recorded)
    <3>1. CASE own.pc = "cleanup"
      <4>1. AfterCleanup(own.pc) = "finalize" BY <3>1 DEF AfterCleanup
      <4>2. OwnFine(At("finalize"), row, recorded) BY <2>2, <3>1, AtFits DEF Deciding, Releasing, Working
      <4> QED BY Zenon, <4>1, <4>2
    <3>2. CASE own.pc # "cleanup"
      <4>1. AfterCleanup(own.pc) \in {"failBatch", "aborted"} BY <3>2 DEF AfterCleanup
      <4>2. OwnFine(At("failBatch"), row, recorded) /\ OwnFine(At("aborted"), row, recorded) BY <1>2
      <4> QED BY Zenon, <4>1, <4>2
    <3> QED BY <3>1, <3>2
  <2>4. Same(k) /\ k.pc = "releaseRead" BY <1>1 DEF OwnFields, Same, ReleaseStage
  <2> HIDE DEF k
  <2>5. Same(n) /\ n.pc = "releaseRead" /\ n.phase = own.pc BY <2>4 DEF OwnFields, Same
  <2> HIDE DEF n
  <2>6. ~Bound(n) /\ (Closing(n) => recorded # NoResult) /\ n.pc \notin Working
    BY <2>1, <2>2, <2>5 DEF Bound, Closing, Deciding, Working
  <2>7. OwnFine(n, row, recorded) BY Zenon, <2>5, <2>6, <1>1, Fits DEF IInv, Same
  <2> QED BY Zenon, <2>1, <2>3, <2>7, StepKeeps
<1>4. CASE finalize_nonterminal_runs
  <2>1. Counted(recorded, row) /\ recorded # NoResult
    BY <1>1, <1>4 DEF finalize_nonterminal_runs, Closing, IInv
  <2>2. OwnFine([Strand(row, recorded) EXCEPT !.phase = "finalize"], row, recorded) BY Zenon, <2>1, StrandFits
  <2>3. OwnFine(At("close"), row, recorded) BY <1>2
  <2> DEFINE n == [Strand(row, recorded) EXCEPT !.phase = "finalize"]
             d == IF IsSettled THEN At("close") ELSE n
  <2>4. Read(d, At("close")) BY Zenon, <1>4 DEF finalize_nonterminal_runs
  <2>5. d \in {At("close"), n} OBVIOUS
  <2> HIDE DEF d
  <2> QED BY Zenon, <2>2, <2>3, <2>4, <2>5, ReadKeeps
<1>5. CASE CloseBatch
  <2>1. OwnFine(At("done"), row, recorded) /\ OwnFine(At("aborted"), row, recorded) BY <1>2
  <2> QED BY Zenon, <1>5, <2>1, PlainCallsFine, CallKeeps DEF CloseBatch
<1>6. CASE MarkBatchFailed
  <2>1. /\ OwnFine(At("failCleanup"), row, recorded) /\ OwnFine(At("abortCancel"), row, recorded)
        /\ OwnFine(At("aborted"), row, recorded)
    BY <1>2
  <2>2. OwnFine(Again, row, recorded)
    <3> DEFINE n == [own EXCEPT !.pc = "abort", !.at = @ + 1]
    <3>1. Same(n) /\ n.pc = "abort" /\ n.phase = own.phase BY <1>1 DEF OwnFields, Same
    <3>2. Again \in {At("failCleanup"), n} BY DEF Again
    <3> HIDE DEF n
    <3>3. n.pc \notin Deciding \cup Releasing \cup {"cleanup", "finalize"} /\ n.pc \notin Working
      BY <3>1 DEF Deciding, Releasing, Working
    <3>4. OwnFine(n, row, recorded) BY Zenon, <3>1, <3>3, FreeFits
    <3> QED BY Zenon, <3>2, <3>4, <2>1
  <2> DEFINE p == IF IsSettled THEN "failCleanup" ELSE "abortCancel"
  <2>3. \/ Read(At(p), Again)
        \/ Call(CancelCall, At("failCleanup"), At("failCleanup"), Again)
        \/ Call(CloseBatchCall, At("aborted"), At("aborted"), At("aborted"))
    BY Zenon, <1>6 DEF MarkBatchFailed
  <2>4. p \in {"failCleanup", "abortCancel"} OBVIOUS
  <2> HIDE DEF p
  <2>5. OwnFine(At(p), row, recorded) BY Zenon, <2>1, <2>4
  <2> QED BY Zenon, <2>1, <2>2, <2>3, <2>5, PlainCallsFine, CallKeeps, ReadKeeps
<1>7. CASE MarkBatchCancelled
  <2>1. OwnFine(At("cancelCleanup"), row, recorded) BY <1>2
  <2> QED BY Zenon, <1>7, <2>1, PlainCallsFine, CallKeeps DEF MarkBatchCancelled
<1> QED BY Zenon, <1>3, <1>4, <1>5, <1>6, <1>7


LEMMA StepExecutor == IInv /\ Executor => IInv'
<1> SUFFICES ASSUME IInv, Executor PROVE IInv' OBVIOUS
<1>1. DOMAIN exec = ExecFields /\ exec.res \in Results BY DEF IInv, ExecFine
<1>2. CASE ExecClaim
  <2> DEFINE e == [exec EXCEPT !.pc = "work", !.tok = issued + 1]
  <2>1. ExecCall(ClaimCall, e) BY <1>2 DEF ExecClaim
  <2>2. DOMAIN e = ExecFields /\ e = [f \in ExecFields |-> e[f]] /\ e.res = exec.res /\ e.pc = "work"
    BY <1>1 DEF ExecFields
  <2> HIDE DEF e
  <2>3. ExecFine(e, row') BY <2>2, <1>1 DEF ExecFine
  <2> QED BY Zenon, <2>1, <2>3, PlainCallsFine, ExecCallKeeps
<1>3. ASSUME NEW res \in Outcomes, ExecWork(res) PROVE IInv'
  <2> DEFINE m == [exec EXCEPT !.pc = "write", !.res = res]
             n == [exec EXCEPT !.pc = "error"]
  <2>1. exec' \in {m, n} /\ UNCHANGED <<row, result, issued, late, own, recorded, other>>
    BY <1>3 DEF ExecWork
  <2>2. DOMAIN m = ExecFields /\ m = [f \in ExecFields |-> m[f]] /\ m.res = res /\ m.pc = "write"
    BY <1>1 DEF ExecFields
  <2>3. DOMAIN n = ExecFields /\ n = [f \in ExecFields |-> n[f]] /\ n.res = exec.res /\ n.pc = "error"
    BY <1>1 DEF ExecFields
  <2> HIDE DEF m, n
  <2>4. res \in Results /\ res # NoResult BY ExecutionAssumption, ResultShape DEF Results
  <2>5. ExecFine(m, row) BY <2>2, <2>4 DEF ExecFine
  <2>6. ExecFine(n, row) BY <2>3, <1>1 DEF ExecFine
  <2>7. ExecFine(exec', row) BY Zenon, <2>1, <2>5, <2>6
  <2>8. Stored' /\ Lasting /\ ExecFine(exec', row') BY Zenon, <2>1, <2>7, StoreStays
  <2> QED BY Zenon, <2>1, <2>8, Keeps DEF IInv
<1>4. CASE ExecWrite
  <2> DEFINE e == [exec EXCEPT !.pc = "returned"]
             q == WriteCall(exec.tok, exec.res)
  <2>1. exec.pc = "write" /\ ExecCall(q, e) BY <1>4 DEF ExecWrite
  <2>2. exec.res # NoResult /\ exec.res \in TerminalResults BY <2>1, ResultShape DEF IInv, ExecFine
  <2>3. CallFine(q, row) /\ q.op = "write" /\ q.res = exec.res BY <2>2 DEF CallFine, WriteCall, Request
  <2>4. DOMAIN e = ExecFields /\ e = [f \in ExecFields |-> e[f]] /\ e.res = exec.res /\ e.pc = "returned"
    BY <1>1 DEF ExecFields
  <2> HIDE DEF e, q
  <2>5. ASSUME Accepts(q), Apply(q) PROVE ExecFine(e, row')
    <3>1. exec.res.status = "completed" => row'.status = "completed"
      BY Zenon, <2>3, <2>5, ApplyStep DEF IInv
    <3> QED BY Zenon, <3>1, <2>2, <2>4, <1>1 DEF ExecFine, Counted
  <2> QED BY Zenon, <2>1, <2>3, <2>5, ExecCallKeeps
<1> QED BY Zenon, <1>2, <1>3, <1>4 DEF Executor

\* The other processes act on the row alone.
LEMMA OthersKeep ==
  ASSUME IInv, Stored', Lasting, UNCHANGED <<late, own, exec, recorded>>,
         OtherFine(other', row), DOMAIN other' = {"pc", "p"}, other' = [f \in {"pc", "p"} |-> other'[f]]
  PROVE  IInv'
<1>1. ExecFine(exec', row') BY Zenon, StillFine DEF IInv, Lasting
<1> QED BY Zenon, <1>1, Keeps DEF IInv

LEMMA OtherStartsFine ==
  ASSUME IInv, OtherStarts
  PROVE  OtherFine(other', row) /\ DOMAIN other' = {"pc", "p"} /\ other' = [f \in {"pc", "p"} |-> other'[f]]
<1> DEFINE n == [other EXCEPT !.pc = "read"]
<1>1. other' \in {n, other} BY DEF OtherStarts
<1>2. DOMAIN n = {"pc", "p"} /\ n = [f \in {"pc", "p"} |-> n[f]] /\ n.pc = "read" BY DEF IInv
<1> HIDE DEF n
<1>3. OtherFine(n, row) BY <1>2 DEF OtherFine
<1> QED BY Zenon, <1>1, <1>2, <1>3 DEF IInv

LEMMA StepOthers == IInv /\ Others => IInv'
<1> SUFFICES ASSUME IInv, Others PROVE IInv' OBVIOUS
<1>1. CASE CancelPlan
  <2>1. UNCHANGED <<row, result, issued, late, own, exec, recorded, other>> BY <1>1 DEF CancelPlan
  <2> QED BY Zenon, <2>1, OwnerMoves DEF IInv
<1>2. CASE cancel_turn
  <2>1. Apply(CancelBatchCall) /\ OtherStarts /\ UNCHANGED <<late, own, exec, recorded>> BY <1>2 DEF cancel_turn
  <2>2. Accepts(CancelBatchCall) BY DEF Accepts, CancelBatchCall, Request
  <2>3. Stored' /\ Lasting BY Zenon, <2>1, <2>2, PlainCallsFine, ApplyStep DEF IInv
  <2> QED BY Zenon, <2>1, <2>3, OtherStartsFine, OthersKeep
<1>3. CASE Sweep
  <2>1. /\ row.status \in ActiveRun /\ row' = SweptPayload(row) /\ result' = SweptResult(row) /\ issued' = issued
        /\ OtherStarts /\ UNCHANGED <<late, own, exec, recorded>>
    BY <1>3 DEF Sweep
  <2>2. row' \in Payload /\ row'.status = SweptStatus(row) BY Zenon, <2>1, PayloadEdits DEF IInv, Stored
  <2>3. result' \in TerminalResults /\ result'.status = SweptStatus(row) /\ SweptStatus(row) # "completed"
    BY <2>1 DEF SweptResult, SweptStatus, TerminalResults, RetryableRun
  <2>4. Stored' BY <2>1, <2>2, <2>3, ResultShape DEF IInv, Stored, Results
  <2>5. Lasting BY <2>1, Statuses DEF Lasting
  <2> QED BY Zenon, <2>1, <2>4, <2>5, OtherStartsFine, OthersKeep
<1>4. CASE release_stale
  <2>1. CASE other.pc = "read" /\ other' = [pc |-> "write", p |-> row]
             /\ UNCHANGED <<row, result, issued, late, own, exec, recorded>>
    <3> DEFINE n == [pc |-> "write", p |-> row]
    <3>1. DOMAIN n = {"pc", "p"} /\ n = [f \in {"pc", "p"} |-> n[f]] /\ n.p = row OBVIOUS
    <3> HIDE DEF n
    <3>2. OtherFine(n, row) BY <3>1 DEF OtherFine, Known, IInv, Stored
    <3>3. other' = n BY <2>1 DEF n
    <3>4. Stored' /\ Lasting BY Zenon, <2>1, StoreStays
    <3> QED BY Zenon, <3>1, <3>2, <3>3, <3>4, <2>1, OthersKeep
  <2>2. CASE other.pc = "write" /\ Apply(UpdateCall(other.p)) /\ other' = [pc |-> "idle", p |-> NoRun]
             /\ UNCHANGED <<late, own, exec, recorded>>
    <3>1. Known(other.p, row) BY <2>2 DEF IInv, OtherFine
    <3>2. Accepts(UpdateCall(other.p)) BY DEF Accepts, UpdateCall, Request
    <3>3. Stored' /\ Lasting BY Zenon, <2>2, <3>1, <3>2, UpdateFine, ApplyStep DEF IInv
    <3> DEFINE n == [pc |-> "idle", p |-> NoRun]
    <3>4. DOMAIN n = {"pc", "p"} /\ n = [f \in {"pc", "p"} |-> n[f]] /\ n.pc = "idle" OBVIOUS
    <3>5. other' = n BY <2>2
    <3> HIDE DEF n
    <3>6. OtherFine(n, row) BY <3>4 DEF OtherFine
    <3> QED BY Zenon, <3>3, <3>4, <3>5, <3>6, <2>2, OthersKeep
  <2> QED BY <2>1, <2>2, <1>4 DEF release_stale
<1> QED BY Zenon, <1>1, <1>2, <1>3, <1>4 DEF Others


LEMMA OwnPendingFine == ASSUME IInv PROVE \A q \in OwnPending : CallFine(q, row)
<1>1. /\ Known(own.seen, row) /\ own.me \in Payload /\ own.me.status = "queued"
      /\ Bound(own) => own.res # NoResult
      /\ own.res \in Results
  BY DEF IInv, OwnFine, Counted
<1>2. CASE own.pc = "claim" BY <1>2, PlainCallsFine DEF OwnPending, Preparing
<1>3. CASE own.pc = "write"
  <2>1. own.res \in TerminalResults BY <1>1, <1>3, ResultShape DEF Bound, Deciding
  <2>2. CallFine(WriteCall(own.tok, own.res), row) BY <2>1 DEF CallFine, WriteCall, Request
  <2> QED BY <2>2, <1>3 DEF OwnPending, Preparing
<1>4. CASE own.pc \in {"stageWrite", "releaseWrite"}
  <2>1. OwnPending = {UpdateCall(own.seen)} BY <1>4 DEF OwnPending, Preparing
  <2> QED BY Zenon, <2>1, <1>1, UpdateFine
<1>5. CASE Preparing("lease")
  <2>1. own.pc = "prep" BY <1>5 DEF Preparing
  <2>3. OwnPending = {UpdateCall(own.me)} BY <1>5, <2>1 DEF OwnPending
  <2>2. Known(own.me, row) BY <1>1 DEF Known
  <2> QED BY Zenon, <2>2, <2>3, UpdateFine
<1>6. CASE own.pc = "reopen"
  <2>1. OwnPending = {ReopenCall(Reopened)} BY <1>6 DEF OwnPending, Preparing
  <2>2. own.pc \in Deciding BY <1>6 DEF Deciding
  <2> QED BY Zenon, <2>1, <2>2, ReopenedFine
<1>7. CASE own.pc = "cancelRun"
  <2>1. OwnPending = {CancelCall} BY <1>7 DEF OwnPending, Preparing
  <2> QED BY Zenon, <2>1, PlainCallsFine
<1>8. CASE /\ own.pc \notin {"claim", "write", "stageWrite", "releaseWrite", "reopen", "cancelRun"}
           /\ ~Preparing("lease")
  <2>1. OwnPending = {} BY <1>8 DEF OwnPending
  <2> QED BY <2>1
<1> QED BY Zenon, <1>2, <1>3, <1>4, <1>5, <1>6, <1>7, <1>8

LEMMA LeavesKeeps ==
  ASSUME IInv, NEW n, Leaves(n), OwnFine(n, row, recorded)
  PROVE  IInv'
<1>1. /\ own' = n /\ exec' = Idle /\ late' = late \cup ExecPending \cup OwnPending
      /\ UNCHANGED <<row, result, issued, recorded, other>>
  BY DEF Leaves
<1>2. \A q \in late' : CallFine(q, row) BY Zenon, <1>1, ExecPendingFine, OwnPendingFine DEF IInv
<1> QED BY Zenon, <1>1, <1>2, LeavingKeeps

LEMMA StepLeave == IInv /\ (Interrupt \/ Crash) => IInv'
<1> SUFFICES ASSUME IInv, Interrupt \/ Crash PROVE IInv' OBVIOUS
<1>1. DOMAIN own = OwnFields /\ Counted(own.res, row) /\ row \in Payload BY DEF IInv, OwnFine, Stored
<1>2. OwnFine(At("aborted"), row, recorded) /\ OwnFine(At("crashed"), row, recorded)
  BY AtFits DEF Deciding, Releasing, Working
<1> DEFINE n == [own EXCEPT !.pc = "release", !.phase = "interrupted", !.leased = @ /\ own.phase # "cleanup"]
           d == IF own.pc = "close" THEN At("aborted") ELSE n
<1>3. Same(n) /\ n.pc = "release" /\ n.phase = "interrupted" BY <1>1 DEF OwnFields, Same
<1>4. Leaves(d) \/ Leaves(At("crashed")) BY Zenon DEF Interrupt, Crash
<1>5. d \in {At("aborted"), n} OBVIOUS
<1> HIDE DEF d, n
<1>6. ~Bound(n) /\ ~Closing(n) /\ n.pc \notin Working BY <1>3 DEF Bound, Closing, Deciding, Working
<1>7. OwnFine(n, row, recorded) BY Zenon, <1>1, <1>3, <1>6, Fits DEF IInv, Same
<1> QED BY Zenon, <1>2, <1>4, <1>5, <1>7, LeavesKeeps

LEMMA StepLand == IInv /\ (\E q \in late : Land(q)) => IInv'
<1> SUFFICES ASSUME IInv, NEW q \in late, Land(q) PROVE IInv' OBVIOUS
<1>1. /\ late' = late \ {q} /\ UNCHANGED <<own, exec, recorded, other>>
      /\ (Accepts(q) /\ Apply(q)) \/ UNCHANGED <<row, result, issued>>
  BY DEF Land, store
<1>2. CallFine(q, row) /\ \A k \in late' : CallFine(k, row) BY Zenon, <1>1 DEF IInv
<1>3. Stored' /\ Lasting BY Zenon, <1>1, <1>2, ApplyStep, StoreStays DEF IInv
<1>4. ExecFine(exec', row') BY Zenon, <1>1, <1>3, StillFine DEF IInv, Lasting
<1> QED BY Zenon, <1>1, <1>2, <1>3, <1>4, Keeps DEF IInv

LEMMA IInvInitially == Init => IInv
<1> SUFFICES ASSUME Init PROVE IInv OBVIOUS
<1>1. QueuedPayload \in Payload /\ QueuedPayload.status = "queued" /\ Known(QueuedPayload, row)
  BY DEF QueuedPayload, Payload, TaskStatus, ActiveRun, ErrorClass, NoToken, Known
<1>2. Stored BY <1>1 DEF Init, Stored, Results
<1>3. Counted(NoResult, row) BY DEF Counted, Results, NoResult
<1>4. /\ DOMAIN own = OwnFields /\ own = [f \in OwnFields |-> own[f]]
      /\ own.pc = "queued" /\ own.phase = "outside" /\ own.me = QueuedPayload /\ own.seen = QueuedPayload
      /\ own.res = NoResult
  BY DEF Init, OwnFields
<1>5. ~Bound(own) /\ ~Closing(own) /\ own.pc \notin Working
  BY <1>4 DEF Bound, Closing, Deciding, Releasing, Working
<1>6. OwnFine(own, row, recorded) BY Zenon, <1>1, <1>3, <1>4, <1>5 DEF OwnFine
<1>7. /\ DOMAIN Idle = ExecFields /\ Idle = [f \in ExecFields |-> Idle[f]]
      /\ Idle.res = NoResult /\ Idle.pc = "idle"
  BY DEF Idle, ExecFields
<1>8. ExecFine(exec, row) BY <1>7 DEF Init, ExecFine, Results
<1>9. OtherFine(other, row) /\ DOMAIN other = {"pc", "p"} /\ other = [f \in {"pc", "p"} |-> other[f]]
  BY DEF Init, OtherFine
<1> QED BY Zenon, <1>2, <1>3, <1>6, <1>8, <1>9 DEF Init, IInv

LEMMA ExecutionInvariant == Spec => []IInv
<1>1. ASSUME IInv, [Next]_vars PROVE IInv'
  <2>1. CASE UNCHANGED vars BY Zenon, <1>1, <2>1, OwnerMoves DEF vars, IInv
  <2>2. CASE Next
    BY Zenon, <1>1, <2>2, StepPrepare, StepAwait, StepSettle, StepLook, StepRelease, StepRetry, StepClose,
       StepExecutor, StepOthers, StepLeave, StepLand DEF Next, Owner, Settle, Finish
  <2> QED BY <1>1, <2>1, <2>2
<1> QED BY <1>1, IInvInitially, PTL DEF Spec

\* A run the scheduler counts as completed is stored as completed, with that
\* result: whatever calls are lost or land late, whoever sweeps or cancels, and
\* however many attempts a run has.
THEOREM CompletedRunsAreCommitted == Spec => []CompletedIsCommitted
<1>1. IInv => CompletedIsCommitted
  <2> SUFFICES ASSUME IInv, recorded.status = "completed"
               PROVE  row.status = "completed" /\ result = recorded
    BY DEF CompletedIsCommitted
  <2>1. row.status = "completed" /\ recorded \in Results BY DEF IInv, Counted
  <2>2. recorded \in TerminalResults BY <2>1, ResultShape, Statuses DEF TaskStatus
  <2>3. result \in TerminalResults /\ result.status = "completed" BY <2>1, ResultShape DEF IInv, Stored
  <2> QED BY <2>1, <2>2, <2>3, ResultShape
<1> QED BY <1>1, ExecutionInvariant, PTL

-----------------------------------------------------------------------------
(* Undisturbed runs.  While no call is lost and no sweep reclaims the run    *)
(* from its owner, only a retry takes a settled row back, and nothing that   *)
(* was read before the retry arrives after it: what is in flight then was    *)
(* left by an owner that is gone and retries no more, and another process    *)
(* has read an active row only of a run that is being cancelled, which is    *)
(* not retried.                                                              *)

\* The owner has been interrupted, has given the batch up, or has crashed.
GonePcs == {"abort", "abortCancel", "failCleanup", "failBatch", "cancelBatch", "cancelCleanup", "aborted", "crashed"}
GonePhases == {"interrupted", "failCleanup", "cancelCleanup"}
Gone(o) == o.pc \in GonePcs \/ o.phase \in GonePhases
Shape(o) == o.phase \in GonePhases => o.pc \in Releasing \cup GonePcs

\* The owner will mark the run cancelled, and: this attempt is the last one.
Marking(o, plan) ==
  \/ plan /\ o.pc \in {"queued", "enter"}
  \/ o.pc \in {"claim", "write", "cancelRun"} /\ o.mode = "mark"
Last(o, plan) ==
  \/ Marking(o, plan)
  \/ o.pc \in Releasing /\ (o.res.err # "transient" \/ o.phase = "cleanup")
  \/ o.pc = "outcome" /\ o.res.err # "transient"
  \/ o.pc \in {"write", "force"} /\ o.phase = "finalize"
  \/ o.pc \in {"record", "cleanup", "finalize", "close", "done"}

\* The attempt has been claimed or settled.
After(o) ==
  \/ o.pc = "write" /\ o.mode # "mark"
  \/ o.pc \in Releasing \cup {"force", "reread", "recheck", "outcome", "retryRead", "record", "cleanup", "finalize"}

OwnCalm(o, r) ==
  /\ After(o) => r.status # "queued"
  /\ o.pc = "releaseWrite" => o.seen.status # "queued"
  /\ o.pc \in {"reopen", "close", "done"} => r.status \in TerminalRun
  /\ o.phase = "finalize" => /\ o.pc \in {"write", "force", "close", "done"}
                             /\ o.pc = "write" => o.mode = "strand" /\ o.seen.status # "queued"
  /\ o.pc \in {"claim", "write", "cancelRun"} /\ o.mode = "mark" => o.res.err # "transient"

\* A copy of the row that would make it running again has a token of this
\* attempt, and no retry is in flight.
NoReopen(l) == \A q \in l : q.op # "reopen"
Young(p, f, l) == p.status = "running" => p.token > f /\ NoReopen(l)

LateCalm(l, o, r, f) ==
  /\ NoReopen(l) \/ (Gone(o) /\ r.status \in TerminalRun)
  /\ \A q, k \in l : q.op = "reopen" /\ k.op = "reopen" => q = k
  /\ \A q \in l : q.op = "update" => Gone(o) /\ Young(q.p, f, l)
Holding == {"stageWrite", "releaseWrite"}
OtherYoung(x, o, plan, f, l) ==
  x.pc = "write" => Young(x.p, f, l) /\ (x.p.status = "running" => Gone(o) \/ Last(o, plan))
OtherCalm(x, o, plan, r) ==
  x.pc = "read" \/ (x.pc = "write" /\ x.p.status \in ActiveRun)
    => plan /\ (r.status \in TerminalRun \/ Marking(o, plan))

Quiet ==
  /\ Shape(own)
  /\ row.status = "running" => row.token > fence
  /\ LateCalm(late, own, row, fence)
  /\ own.pc \in Holding => Young(own.seen, fence, late)
  /\ OtherYoung(other, own, planCancelled, fence, late)
  /\ ~Gone(own) => OwnCalm(own, row) /\ OtherCalm(other, own, planCancelled, row)

Counters ==
  /\ issued \in Nat /\ fence \in 0..issued /\ sweeps \in Nat
  /\ env \in [lost : Nat, maxLost : Nat, maxSweeps : Nat, cancels : BOOLEAN, interrupts : BOOLEAN, sandboxed : BOOLEAN]

JInv == Counters /\ (Undisturbed => Quiet)

-----------------------------------------------------------------------------

\* A store step that takes no settled row back and lets no old token run.
Settles == /\ row.status \in TerminalRun => row'.status \in TerminalRun
           /\ row'.status = "running" => row'.token > fence
           /\ fence' = fence

\* A step of the owner from o to n while the row goes from r to s.
Follows(o, n, r, s, plan) ==
  /\ Shape(n) /\ (Gone(o) => Gone(n))
  /\ n.pc \in Holding => n.seen = r \/ (o.pc = n.pc /\ n.seen = o.seen)
  /\ ~Gone(n) => /\ OwnCalm(n, s)
                 /\ Last(o, plan) => Last(n, plan)
                 /\ Marking(o, plan) => Marking(n, plan) \/ s.status \in TerminalRun

LEMMA RowYoung == ASSUME Quiet PROVE Young(row, fence, late)
<1>1. row.status = "running" => row.status \notin TerminalRun BY Statuses
<1> QED BY <1>1 DEF Quiet, LateCalm, Young

LEMMA Advance ==
  ASSUME Quiet, Settles, Follows(own, own', row, row', planCancelled),
         UNCHANGED <<other, planCancelled>>,
         \A q \in late' : q \in late \/ q.op \notin {"update", "reopen"}
  PROVE  Quiet'
<1>1. NoReopen(late) => NoReopen(late') BY Zenon DEF NoReopen
<1>1a. \A q \in late' : q.op \in {"update", "reopen"} => q \in late BY Zenon
<1>2. \A p : Young(p, fence, late) => Young(p, fence', late') BY Zenon, <1>1 DEF Young, Settles
<1>3. Gone(own) => Gone(own') BY Zenon DEF Follows
<1>4. LateCalm(late', own', row', fence')
  <2>1. NoReopen(late') \/ (Gone(own') /\ row'.status \in TerminalRun)
    BY Zenon, <1>1, <1>3 DEF Quiet, LateCalm, Settles
  <2>2. \A q, k \in late' : q.op = "reopen" /\ k.op = "reopen" => q = k
    BY <1>1a DEF Quiet, LateCalm
  <2>3. \A q \in late' : q.op = "update" => Gone(own') /\ Young(q.p, fence', late')
    <3> SUFFICES ASSUME NEW q \in late', q.op = "update" PROVE Gone(own') /\ Young(q.p, fence', late') OBVIOUS
    <3>1. q \in late BY <1>1a
    <3> QED BY Zenon, <3>1, <1>2, <1>3 DEF Quiet, LateCalm
  <2> QED BY Zenon, <2>1, <2>2, <2>3 DEF LateCalm
<1>5. own'.pc \in Holding => Young(own'.seen, fence', late')
  BY Zenon, <1>2, RowYoung DEF Follows, Quiet
<1>6. OtherYoung(other', own', planCancelled', fence', late')
  BY Zenon, <1>2, <1>3 DEF Quiet, OtherYoung, Follows
<1>7. ~Gone(own') => OtherCalm(other', own', planCancelled', row')
  BY Zenon, <1>3 DEF Quiet, OtherCalm, Follows, Settles
<1>8. Shape(own') /\ (~Gone(own') => OwnCalm(own', row')) BY Zenon DEF Follows
<1>9. row'.status = "running" => row'.token > fence' BY Zenon DEF Settles
<1> QED BY Zenon, <1>4, <1>5, <1>6, <1>7, <1>8, <1>9 DEF Quiet

(* Calls are lost, sweeps are made and tokens are issued one at a time. *)
Counting ==
  /\ env' = env \/ env' = [env EXCEPT !.lost = @ + 1]
  /\ sweeps' = sweeps \/ sweeps' = sweeps + 1
  /\ \/ issued' = issued /\ fence' = fence
     \/ issued' = issued + 1 /\ fence' = fence
     \/ issued' = issued /\ fence' = issued

LEMMA NextCounts == Next => Counting
<1> SUFFICES ASSUME Next PROVE Counting OBVIOUS
<1>1. \A q : Apply(q) => \/ issued' = issued /\ fence' = fence
                         \/ issued' = issued + 1 /\ fence' = fence
                         \/ issued' = issued /\ fence' = issued
  BY DEF Apply
<1>2. \A n : Step(n) \/ Abandon(n) \/ Leaves(n) => Counting BY DEF Step, Abandon, Leaves, Counting
<1>3. \A d, l : Read(d, l) => Counting BY DEF Read, Counting
<1>4. \A q, d, s, l : Call(q, d, s, l) => Counting
  BY Zenon, <1>1 DEF Call, Counting, store
<1>5. \A q, d : ExecCall(q, d) => Counting
  BY Zenon, <1>1 DEF ExecCall, Counting, store
<1>6. Prepare => Counting
  BY Zenon, <1>2, <1>3, <1>4
     DEF Prepare, Execute, CancelQueued, Enter, StageRead, StageWrite, Check, Reserve, Acquire, Lease, StartExecutor, Counting
<1>7. Await \/ ExecutionTimesOut \/ Interrupt \/ Crash => Counting
  BY Zenon, <1>2 DEF Await, ExecutorDone, CancelObserved, CancelExecutor, ExecutionTimesOut, Interrupt, Crash
<1>8. Settle => Counting
  BY Zenon, <1>2, <1>3, <1>4 DEF Settle, Claim, Write, ForceUpdate, CancelRun, LookUp, LookAgain, Release
<1>9. Finish => Counting
  BY Zenon, <1>2, <1>3, <1>4
     DEF Finish, Retry, RetryRead, Reopen, Record, cleanup_batch, finalize_nonterminal_runs, CloseBatch,
         MarkBatchFailed, MarkBatchCancelled, Counting
<1>10. Executor => Counting
  BY Zenon, <1>5 DEF Executor, ExecClaim, ExecWork, ExecWrite, Counting
<1>11. Others => Counting
  BY Zenon, <1>1 DEF Others, CancelPlan, cancel_turn, Sweep, release_stale, Counting
<1>12. (\E q \in late : Land(q)) => Counting BY Zenon, <1>1 DEF Land, store, Counting
<1> QED BY Zenon, <1>6, <1>7, <1>8, <1>9, <1>10, <1>11, <1>12 DEF Next, Owner

LEMMA StaysUndisturbed ==
  ASSUME Counters, Counting
  PROVE  Counters' /\ (Undisturbed' => Undisturbed /\ env' = env /\ sweeps' = sweeps)
<1>1. Counters' BY DEF Counters, Counting
<1> QED BY <1>1 DEF Counters, Undisturbed, Counting

\* What a call does to the row, other than a retry.
LEMMA ApplySettles ==
  ASSUME IInv, Counters, row.status = "running" => row.token > fence,
         NEW q, CallFine(q, row), Accepts(q), Apply(q), q.op # "reopen",
         q.op = "update" /\ q.p.status = "running" => q.p.token > fence
  PROVE  /\ Settles
         /\ (q.op = "update" => q.p.status # "queued") => (row.status # "queued" => row'.status # "queued")
         /\ q.op = "claim" => row'.status = "running"
         /\ q.op \in {"write", "cancel"} => row'.status \in TerminalRun
         /\ q.op = "update" /\ q.p.status \in TerminalRun => row'.status \in TerminalRun
<1> USE Statuses DEF Settles
<1>0. row \in Payload /\ row.status \in TaskStatus BY PayloadFields DEF IInv, Stored
<1>1. CASE q.op = "claim"
  <2>1. row.status = "queued" /\ row' = ClaimedPayload(row, issued + 1) /\ fence' = fence
    BY <1>1 DEF Accepts, Apply, ensureClaimable
  <2>2. row'.status = "running" /\ row'.token = issued + 1 BY <1>0, <2>1 DEF Payload, ClaimedPayload
  <2> QED BY <2>1, <2>2, <1>1 DEF Counters
<1>2. CASE q.op = "write"
  <2>1. row.status = "running" /\ row' = CommittedPayload(row, q.res) /\ fence' = fence
    BY <1>2 DEF Accepts, Apply, ensureToken
  <2>2. q.res \in TerminalResults BY <1>2 DEF CallFine
  <2>3. row'.status = q.res.status BY <1>0, <2>1 DEF Payload, CommittedPayload
  <2>4. q.res.status \in TerminalRun BY <2>2, ResultShape
  <2> QED BY <2>1, <2>3, <2>4, <1>2
<1>3. CASE q.op \in {"cancel", "cancelBatch", "closeBatch"}
  <2>1. (row' = CancelledPayload(row) \/ (row' = row /\ q.op # "cancel")) /\ fence' = fence BY <1>3 DEF Apply
  <2>2. CASE row.status \in ActiveRun /\ row' = CancelledPayload(row)
    <3>1. row'.status = "cancelled" BY Zenon, <2>2, <1>0, PayloadEdits
    <3> QED BY <3>1, <2>1, <2>2, <1>3
  <2>3. CASE row' = row /\ (row.status \in TerminalRun \/ q.op # "cancel") BY <2>1, <2>3, <1>3
  <2> QED BY <2>1, <2>2, <2>3, <1>0 DEF CancelledPayload, TaskStatus
<1>4. CASE q.op = "update"
  <2>1. q.p.status \in TaskStatus BY <1>4, PayloadFields DEF CallFine, Known
  <2>2. /\ row' = IF protectTerminalStatus(row.status, q.p.status) THEN q.p ELSE row
        /\ fence' = fence
    BY <1>4 DEF Apply
  <2> QED BY <2>1, <2>2, <1>0, <1>4 DEF protectTerminalStatus, TaskStatus
<1> QED BY <1>1, <1>2, <1>3, <1>4 DEF CallFine

\* The owner moves without the store, after a read, or after a call that is
\* answered.
LEMMA MoveQuiet ==
  ASSUME Quiet, Follows(own, own', row, row, planCancelled), UNCHANGED <<row, fence, late, other, planCancelled>>
  PROVE  Quiet'
<1>1. Settles /\ row' = row BY DEF Settles, Quiet
<1>2. \A q \in late' : q \in late \/ q.op \notin {"update", "reopen"} OBVIOUS
<1> QED BY Zenon, <1>1, <1>2, Advance

LEMMA StepQuiet ==
  ASSUME Quiet, NEW n, Step(n), Follows(own, n, row, row, planCancelled)
  PROVE  Quiet'
  BY MoveQuiet DEF Step

LEMMA ReadQuiet ==
  ASSUME Quiet, Counters, env' = env, NEW d, NEW l, Read(d, l), Follows(own, d, row, row, planCancelled)
  PROVE  Quiet'
<1>1. env # [env EXCEPT !.lost = @ + 1] BY DEF Counters
<1>2. own' = d /\ UNCHANGED <<row, fence, late, other, planCancelled>> BY <1>1 DEF Read
<1> QED BY <1>2, MoveQuiet

LEMMA CallQuiet ==
  ASSUME Quiet, Counters, env' = env, NEW q, NEW d, NEW s, NEW l, Call(q, d, s, l),
         Accepts(q) /\ Apply(q) => Settles /\ Follows(own, d, row, row', planCancelled),
         ~Accepts(q) => Follows(own, s, row, row, planCancelled)
  PROVE  Quiet'
<1>1. env # [env EXCEPT !.lost = @ + 1] BY DEF Counters
<1>2. /\ UNCHANGED <<late, other, planCancelled>>
      /\ \/ Accepts(q) /\ Apply(q) /\ own' = d
         \/ ~Accepts(q) /\ own' = s /\ UNCHANGED <<row, fence>>
  BY <1>1 DEF Call
<1>3. CASE Accepts(q) /\ Apply(q) /\ own' = d
  <2>1. Settles /\ Follows(own, own', row, row', planCancelled) BY <1>3
  <2>2. \A k \in late' : k \in late \/ k.op \notin {"update", "reopen"} BY <1>2
  <2> QED BY Zenon, <2>1, <2>2, <1>2, Advance
<1>4. CASE ~Accepts(q) /\ own' = s /\ UNCHANGED <<row, fence>>
  BY Zenon, <1>2, <1>4, MoveQuiet
<1> QED BY <1>2, <1>3, <1>4

-----------------------------------------------------------------------------
(* The owner's steps *)

Is(n, pc, phase, mode, seen, res) ==
  n.pc = pc /\ n.phase = phase /\ n.mode = mode /\ n.seen = seen /\ n.res = res

LEMMA Continuations ==
  ASSUME IInv
  PROVE  /\ \A p : Is(At(p), p, own.phase, own.mode, own.seen, own.res)
         /\ \A h : Is(MarkCancelled(h), "claim", h, "mark", own.seen, CancelledByUser)
         /\ \A res : Is(SettleWith(res), "claim", "outside", "settle", own.seen, res)
         /\ Is(Prepared, "prep", own.phase, own.mode, own.seen, own.res)
<1>1. DOMAIN own = OwnFields BY DEF IInv, OwnFine
<1> QED BY <1>1 DEF OwnFields, Is, At, MarkCancelled, SettleWith, Prepared

\* Where the owner is gone, and where nothing is known of the row, no retry is
\* decided and no cancellation is being marked.
LEMMA Present ==
  ASSUME Quiet, own.pc \notin GonePcs \cup Releasing
  PROVE  ~Gone(own) /\ OwnCalm(own, row)
  BY DEF Quiet, Shape, Gone

LEMMA MarkFollows ==
  ASSUME IInv, Quiet, own.pc \in {"queued", "enter", "prep"}, NEW h \in {"queue", "outside", "body"}
  PROVE  Follows(own, MarkCancelled(h), row, row, planCancelled)
<1> DEFINE n == MarkCancelled(h)
<1>1. Is(n, "claim", h, "mark", own.seen, CancelledByUser) BY Zenon, Continuations
<1>2. CancelledByUser.err # "transient" BY DEF CancelledByUser
<1>3. ~Gone(own) BY Present DEF GonePcs, Releasing
<1> HIDE DEF n
<1>4. Follows(own, n, row, row, planCancelled)
  BY <1>1, <1>2, <1>3 DEF Is, Follows, Shape, Gone, Last, Marking, After, OwnCalm, GonePcs, GonePhases, Releasing, Holding
<1> QED BY <1>4 DEF n

LEMMA SettleWithFollows ==
  ASSUME IInv, Quiet, own.pc \in {"enter", "prep"}, own.pc = "enter" => ~planCancelled, NEW res
  PROVE  Follows(own, SettleWith(res), row, row, planCancelled)
<1> DEFINE n == SettleWith(res)
<1>1. Is(n, "claim", "outside", "settle", own.seen, res) BY Zenon, Continuations
<1>3. ~Gone(own) BY Present DEF GonePcs, Releasing
<1> HIDE DEF n
<1>4. Follows(own, n, row, row, planCancelled)
  BY <1>1, <1>3 DEF Is, Follows, Shape, Gone, Last, Marking, After, OwnCalm, GonePcs, GonePhases, Releasing, Holding
<1> QED BY <1>4 DEF n

\* Places where nothing is known of the row and the attempt is not the last.
LEMMA WorkFollows ==
  ASSUME Quiet, own.pc \in {"enter", "prep", "stageWrite", "await", "cancelling", "read", "claim", "write", "reread"},
         own.pc = "enter" => ~planCancelled, own.pc \in {"claim", "write"} => own.mode # "mark",
         NEW n, NEW s, n.pc \in {"prep", "stageWrite", "await", "cancelling", "read", "claim", "cancelRun"},
         n.pc \in {"claim", "cancelRun"} => n.mode # "mark",
         n.pc = "stageWrite" => n.seen = row,
         n.phase \in {own.phase, "body", "handler"}, own.pc = "write" => own.phase # "finalize"
  PROVE  Follows(own, n, row, s, planCancelled)
<1>1. ~Gone(own) /\ OwnCalm(own, row) BY Present DEF GonePcs, Releasing
<1> QED BY <1>1 DEF Follows, Shape, Gone, Last, Marking, After, OwnCalm, GonePcs, GonePhases, Releasing, Holding

LEMMA QuietPrepare ==
  ASSUME IInv, Quiet, Counters, env' = env, Prepare
  PROVE  Quiet'
<1>0. /\ DOMAIN own = OwnFields /\ own.me \in Payload /\ own.me.status = "queued" /\ Known(own.seen, row)
      /\ row.status = "running" => row.token > fence
      /\ own.pc \in Working => own.phase = "body"
  BY DEF IInv, OwnFine, Quiet
<1>1. CASE Execute
  <2> DEFINE n == [own EXCEPT !.pc = "enter", !.phase = "outside"]
  <2>1. own.pc = "queued" /\ Step(n) /\ n.pc = "enter" /\ n.phase = "outside" BY <1>0, <1>1 DEF OwnFields, Execute
  <2>2. ~Gone(own) BY <2>1, Present DEF GonePcs, Releasing
  <2> HIDE DEF n
  <2>3. Follows(own, n, row, row, planCancelled)
    BY <2>1, <2>2 DEF Follows, Shape, Gone, Last, Marking, After, OwnCalm, GonePcs, GonePhases, Releasing, Holding
  <2> QED BY Zenon, <2>1, <2>3, StepQuiet
<1>2. CASE CancelQueued
  <2>1. own.pc \in {"queued", "enter", "prep"} /\ Step(MarkCancelled("queue")) BY <1>2 DEF CancelQueued
  <2> QED BY Zenon, <2>1, MarkFollows, StepQuiet
<1>3. CASE Enter
  <2> DEFINE n == [own EXCEPT !.pc = "prep", !.at = 1, !.phase = "body"]
  <2>1. n.pc = "prep" /\ n.phase = "body" BY <1>0 DEF OwnFields
  <2>2. /\ own.pc = "enter"
        /\ Step(MarkCancelled("outside")) \/ (~planCancelled /\ (Step(n) \/ Step(SettleWith(InternalFailure))))
    BY <1>3 DEF Enter
  <2> HIDE DEF n
  <2>3. ~planCancelled => Follows(own, n, row, row, planCancelled) BY <2>1, <2>2, WorkFollows
  <2>4. ~planCancelled => Follows(own, SettleWith(InternalFailure), row, row, planCancelled) BY <2>2, SettleWithFollows
  <2>5. Follows(own, MarkCancelled("outside"), row, row, planCancelled) BY <2>2, MarkFollows
  <2> QED BY Zenon, <2>2, <2>3, <2>4, <2>5, StepQuiet
<1>4. ASSUME own.pc \in {"prep", "stageWrite"}
      PROVE  /\ \A s : Follows(own, Prepared, row, s, planCancelled)
             /\ \A s : Follows(own, [Prepared EXCEPT !.leased = TRUE], row, s, planCancelled)
             /\ \A s : Follows(own, [own EXCEPT !.pc = "stageWrite", !.seen = row], row, s, planCancelled)
  <2> DEFINE k == Prepared
             m == [k EXCEPT !.leased = TRUE]
             n == [own EXCEPT !.pc = "stageWrite", !.seen = row]
  <2>1. DOMAIN k = OwnFields /\ k.pc = "prep" /\ k.phase = own.phase BY <1>0 DEF Prepared, OwnFields
  <2>2. n.pc = "stageWrite" /\ n.phase = own.phase /\ n.seen = row BY <1>0 DEF OwnFields
  <2> HIDE DEF k
  <2>3. m.pc = "prep" /\ m.phase = own.phase BY <2>1 DEF OwnFields
  <2> HIDE DEF m, n
  <2>4. \A s : Follows(own, k, row, s, planCancelled) BY <1>4, <2>1, WorkFollows
  <2>5. \A s : Follows(own, m, row, s, planCancelled) BY <1>4, <2>3, WorkFollows
  <2>6. \A s : Follows(own, n, row, s, planCancelled) BY <1>4, <2>2, WorkFollows
  <2> QED BY Zenon, <2>4, <2>5, <2>6 DEF k, m, n
<1>5. CASE StageRead
  <2>1. own.pc = "prep" BY <1>5 DEF StageRead, Preparing
  <2> QED BY Zenon, <2>1, <1>4, <1>5, ReadQuiet DEF StageRead
<1>6. CASE StageWrite
  <2> DEFINE q == UpdateCall(own.seen)
  <2>1. own.pc = "stageWrite" /\ Call(q, Prepared, Prepared, Prepared) BY <1>6 DEF StageWrite
  <2>2. own.seen.status = "running" => own.seen.token > fence BY <2>1 DEF Quiet, Holding, Young
  <2>3. CallFine(q, row) /\ q.op = "update" /\ q.p = own.seen BY <1>0, UpdateFine DEF UpdateCall, Request
  <2> HIDE DEF q
  <2>4. Accepts(q) /\ Apply(q) => Settles BY <2>2, <2>3, <1>0, ApplySettles
  <2> QED BY Zenon, <2>1, <2>4, <1>4, CallQuiet
<1>7. CASE Check \/ Reserve \/ Acquire
  <2>1. /\ own.pc = "prep"
        /\ \/ Step(Prepared) \/ Step([Prepared EXCEPT !.leased = TRUE])
           \/ \E h \in {"outside", "body"} : Step(MarkCancelled(h))
           \/ \E res \in {NoCapacity, Unhealthy} : Step(SettleWith(res))
    BY <1>7 DEF Check, Reserve, Acquire, Preparing
  <2>2. \A h \in {"outside", "body"} : Follows(own, MarkCancelled(h), row, row, planCancelled) BY <2>1, MarkFollows
  <2>3. \A res : Follows(own, SettleWith(res), row, row, planCancelled) BY <2>1, SettleWithFollows
  <2> QED BY Zenon, <2>1, <2>2, <2>3, <1>4, StepQuiet
<1>8. CASE Lease
  <2> DEFINE q == UpdateCall(own.me)
  <2>1. own.pc = "prep" /\ Call(q, Prepared, Prepared, Raised) BY <1>8 DEF Lease, Preparing
  <2>2. Known(own.me, row) BY <1>0 DEF Known
  <2>3. CallFine(q, row) /\ q.op = "update" /\ q.p = own.me BY <2>2, UpdateFine DEF UpdateCall, Request
  <2> HIDE DEF q
  <2>4. Accepts(q) /\ Apply(q) => Settles BY <2>3, <1>0, ApplySettles
  <2> QED BY Zenon, <2>1, <2>4, <1>4, CallQuiet
<1>9. CASE StartExecutor
  <2> DEFINE n == At("await")
  <2>1. own.pc = "prep" /\ own' = n /\ UNCHANGED <<row, fence, late, other, planCancelled>> BY <1>9 DEF StartExecutor
  <2>2. n.pc = "await" /\ n.phase = own.phase BY <1>0 DEF OwnFields, At
  <2> HIDE DEF n
  <2>3. Follows(own, n, row, row, planCancelled) BY <2>1, <2>2, WorkFollows
  <2> QED BY Zenon, <2>1, <2>3, MoveQuiet
<1> QED BY Zenon, <1>1, <1>2, <1>3, <1>5, <1>6, <1>7, <1>8, <1>9 DEF Prepare

LEMMA RaisedFollows ==
  ASSUME IInv, Quiet, own.pc \in {"await", "cancelling", "claim", "write", "reread"},
         own.pc \in {"claim", "write"} => own.mode # "mark", own.phase # "finalize",
         own.pc \in {"claim", "write", "reread"} => row.status # "queued"
  PROVE  Follows(own, Raised, row, row, planCancelled)
<1> DEFINE n == Raised
<1>1. DOMAIN own = OwnFields /\ (own.pc \in Working => own.phase = "body") BY DEF IInv, OwnFine
<1>2. \/ own.phase = "body" /\ n.pc = "read" /\ n.phase = "handler"
      \/ own.phase \in {"handler", "outside"} /\ n.pc = "release" /\ n.phase = own.phase
      \/ n.pc = "abort" /\ n.phase = own.phase
  <2>1. CASE own.phase = "body" BY <1>1, <2>1 DEF Raised, OwnFields
  <2>2. CASE own.phase = "handler" BY <1>1, <2>2 DEF Raised, OwnFields, At
  <2>3. CASE own.phase = "outside" BY <1>1, <2>3 DEF Raised, OwnFields
  <2>4. CASE own.phase \notin {"body", "handler", "outside"} BY <1>1, <2>4 DEF Raised, OwnFields
  <2> QED BY <2>1, <2>2, <2>3, <2>4
<1>3. ~Gone(own) /\ OwnCalm(own, row) BY Present DEF GonePcs, Releasing
<1> HIDE DEF n
<1>4. Follows(own, n, row, row, planCancelled)
  BY <1>1, <1>2, <1>3
     DEF Follows, Shape, Gone, Last, Marking, After, OwnCalm, GonePcs, GonePhases, Releasing, Holding, Working
<1> QED BY <1>4 DEF n

LEMMA QuietAwait ==
  ASSUME IInv, Quiet, Counters, Await \/ ExecutionTimesOut
  PROVE  Quiet'
<1> DEFINE wc(res) == [own EXCEPT !.pc = "cancelRun", !.mode = "await", !.res = res]
<1>1. DOMAIN own = OwnFields /\ (own.pc \in Working => own.phase = "body") BY DEF IInv, OwnFine
<1>0. own.pc \in {"await", "cancelling"}
  BY DEF Await, ExecutorDone, CancelObserved, CancelExecutor, ExecutionTimesOut
<1>2. \/ \E res : Step(Persist(res)) \/ Step(wc(res)) \/ Abandon(Persist(res)) \/ Abandon(wc(res))
      \/ Step(Raised) \/ Step(At("cancelling"))
  BY DEF Await, ExecutorDone, CancelObserved, CancelExecutor, ExecutionTimesOut
<1>3. ASSUME NEW res PROVE Follows(own, Persist(res), row, row, planCancelled)
  <2> DEFINE n == Persist(res)
  <2>1. n.pc = "read" /\ n.phase = own.phase BY <1>1 DEF OwnFields, Persist
  <2> HIDE DEF n
  <2>2. Follows(own, n, row, row, planCancelled) BY <1>0, <2>1, WorkFollows
  <2> QED BY <2>2 DEF n
<1>4. ASSUME NEW res PROVE Follows(own, wc(res), row, row, planCancelled)
  <2> DEFINE n == wc(res)
  <2>1. n.pc = "cancelRun" /\ n.phase = own.phase /\ n.mode = "await" BY <1>1 DEF OwnFields
  <2> HIDE DEF n
  <2>2. Follows(own, n, row, row, planCancelled) BY <1>0, <2>1, WorkFollows
  <2> QED BY <2>2 DEF n
<1>5. Follows(own, At("cancelling"), row, row, planCancelled)
  <2> DEFINE n == At("cancelling")
  <2>1. n.pc = "cancelling" /\ n.phase = own.phase BY <1>1 DEF OwnFields, At
  <2> HIDE DEF n
  <2>2. Follows(own, n, row, row, planCancelled) BY <1>0, <2>1, WorkFollows
  <2> QED BY <2>2 DEF n
<1>6. Follows(own, Raised, row, row, planCancelled) BY <1>0, <1>1, RaisedFollows DEF Working
<1> HIDE DEF wc
<1>7. ASSUME NEW n, Abandon(n), Follows(own, n, row, row, planCancelled) PROVE Quiet'
  <2>1. own' = n /\ late' = late \cup ExecPending /\ UNCHANGED <<row, fence, other, planCancelled>> BY <1>7 DEF Abandon
  <2>2. \A q \in ExecPending : q.op \notin {"update", "reopen"} BY DEF ExecPending, ClaimCall, WriteCall, Request
  <2>3. \A q \in late' : q \in late \/ q.op \notin {"update", "reopen"} BY Zenon, <2>1, <2>2
  <2>4. Settles /\ row' = row BY <2>1 DEF Settles, Quiet
  <2> QED BY Zenon, <1>7, <2>1, <2>3, <2>4, Advance
<1> QED BY Zenon, <1>2, <1>3, <1>4, <1>5, <1>6, <1>7, StepQuiet

\* The owner may go on at p with what it has, the row having become s.
Leads(p, s) == \A n : Is(n, p, own.phase, own.mode, own.seen, own.res) => Follows(own, n, row, s, planCancelled)

LEMMA AtFollows == ASSUME IInv PROVE \A p, s : Leads(p, s) => Follows(own, At(p), row, s, planCancelled)
  BY Zenon, Continuations DEF Leads

LEMMA QuietClaim ==
  ASSUME IInv, Quiet, Counters, env' = env, Claim
  PROVE  Quiet'
<1>1. own.pc = "claim" BY DEF Claim
<1>2. DOMAIN own = OwnFields /\ (row.status = "running" => row.token > fence) BY DEF IInv, OwnFine, Quiet
<1>3. ~Gone(own) /\ OwnCalm(own, row) /\ own.phase # "finalize"
  BY <1>1, Present DEF GonePcs, Releasing, OwnCalm
<1> DEFINE d == [own EXCEPT !.pc = "write", !.tok = issued + 1]
           s == CASE own.mode = "mark"   -> At("cancelRun")
                  [] own.mode = "ensure" -> At("reread")
                  [] own.mode = "strand" -> AfterStrand
                  [] OTHER               -> Raised
           l == IF own.mode = "strand" THEN AfterStrand ELSE Raised
<1>4. Call(ClaimCall, d, s, l) BY Zenon DEF Claim
<1>5. Is(d, "write", own.phase, own.mode, own.seen, own.res) BY <1>2 DEF OwnFields, Is
<1>6. \/ own.mode = "mark" /\ s = At("cancelRun")
      \/ own.mode = "ensure" /\ s = At("reread")
      \/ own.mode = "strand" /\ s = At("recheck")
      \/ own.mode \notin {"mark", "ensure", "strand"} /\ s = Raised
  <2>1. AfterStrand = At("recheck") BY <1>3 DEF AfterStrand
  <2>2. /\ own.mode = "mark" => s = At("cancelRun")
        /\ own.mode = "ensure" => s = At("reread")
        /\ own.mode = "strand" => s = AfterStrand
        /\ own.mode \notin {"mark", "ensure", "strand"} => s = Raised
    OBVIOUS
  <2> HIDE DEF s
  <2> QED BY <2>1, <2>2
<1> HIDE DEF d, s, l
<1>7. ASSUME Accepts(ClaimCall), Apply(ClaimCall) PROVE Settles /\ Follows(own, d, row, row', planCancelled)
  <2>1. ClaimCall.op = "claim" BY DEF ClaimCall, Request
  <2>2. Settles /\ row'.status = "running" BY <1>2, <1>7, <2>1, PlainCallsFine, ApplySettles
  <2> QED BY <1>1, <1>3, <1>5, <2>2
          DEF Is, Follows, Shape, Gone, Last, Marking, After, OwnCalm, GonePcs, GonePhases, Releasing, Holding
<1>8. ASSUME ~Accepts(ClaimCall) PROVE Follows(own, s, row, row, planCancelled)
  <2>1. row.status # "queued" BY <1>8 DEF Accepts, ClaimCall, Request, ensureClaimable
  <2>2. /\ own.mode = "mark" => Leads("cancelRun", row)
        /\ own.mode = "ensure" => Leads("reread", row)
        /\ own.mode = "strand" => Leads("recheck", row)
    BY <1>1, <1>3, <2>1
       DEF Leads, Is, Follows, Shape, Gone, Last, Marking, After, OwnCalm, GonePcs, GonePhases, Releasing, Holding
  <2>3. own.mode # "mark" => Follows(own, Raised, row, row, planCancelled) BY <1>1, <1>3, <2>1, RaisedFollows
  <2> QED BY <1>6, <2>2, <2>3, AtFollows
<1> QED BY Zenon, <1>4, <1>7, <1>8, CallQuiet

LEMMA QuietWrite ==
  ASSUME IInv, Quiet, Counters, env' = env, Write
  PROVE  Quiet'
<1>1. own.pc = "write" BY DEF Write
<1>2. own.res \in TerminalResults /\ (row.status = "running" => row.token > fence)
  BY <1>1, DecidingFacts DEF Deciding, Quiet
<1>3. ~Gone(own) /\ OwnCalm(own, row) BY <1>1, Present DEF GonePcs, Releasing
<1> DEFINE q == WriteCall(own.tok, own.res)
           d == IF own.mode = "strand" THEN AfterStrand ELSE At("release")
           s == CASE own.mode = "mark"   -> At("cancelRun")
                  [] own.mode = "ensure" -> At("reread")
                  [] own.mode = "strand" -> IF own.seen.status = "queued" THEN AfterStrand ELSE At("force")
                  [] OTHER               -> Raised
           l == IF own.mode = "strand" /\ own.seen.status = "queued" THEN AfterStrand ELSE Raised
<1>4. Call(q, d, s, l) BY Zenon DEF Write
<1>5. \/ own.mode = "strand" /\ own.phase = "finalize" /\ d = At("close")
      \/ own.mode = "strand" /\ own.phase # "finalize" /\ d = At("recheck")
      \/ own.mode # "strand" /\ d = At("release")
  BY DEF AfterStrand
<1>6. \/ own.mode = "mark" /\ s = At("cancelRun")
      \/ own.mode = "ensure" /\ s = At("reread")
      \/ own.mode = "strand" /\ own.seen.status = "queued" /\ s = At("recheck")
      \/ own.mode = "strand" /\ own.seen.status # "queued" /\ s = At("force")
      \/ own.mode \notin {"mark", "ensure", "strand"} /\ s = Raised
  <2>1. own.seen.status = "queued" => AfterStrand = At("recheck") BY <1>1, <1>3 DEF AfterStrand, OwnCalm
  <2>2. /\ own.mode = "mark" => s = At("cancelRun")
        /\ own.mode = "ensure" => s = At("reread")
        /\ own.mode = "strand" /\ own.seen.status = "queued" => s = AfterStrand
        /\ own.mode = "strand" /\ own.seen.status # "queued" => s = At("force")
        /\ own.mode \notin {"mark", "ensure", "strand"} => s = Raised
    OBVIOUS
  <2> HIDE DEF s
  <2> QED BY <2>1, <2>2
<1>7. CallFine(q, row) /\ q.op = "write" BY <1>2 DEF CallFine, WriteCall, Request
<1> HIDE DEF q, d, s, l
<1>8. ASSUME Accepts(q), Apply(q) PROVE Settles /\ Follows(own, d, row, row', planCancelled)
  <2>1. Settles /\ row'.status \in TerminalRun BY <1>2, <1>7, <1>8, ApplySettles
  <2>2. row'.status # "queued" BY <2>1, Statuses
  <2>3. /\ own.mode = "strand" /\ own.phase = "finalize" => Leads("close", row')
        /\ own.mode = "strand" /\ own.phase # "finalize" => Leads("recheck", row')
        /\ own.mode # "strand" => Leads("release", row')
    BY <1>1, <1>3, <2>1, <2>2
       DEF Leads, Is, Follows, Shape, Gone, Last, Marking, After, OwnCalm, GonePcs, GonePhases, Releasing, Holding
  <2> QED BY <1>5, <2>1, <2>3, AtFollows
<1>9. ASSUME ~Accepts(q) PROVE Follows(own, s, row, row, planCancelled)
  <2>1. own.mode # "mark" => row.status # "queued" BY <1>1, <1>3 DEF OwnCalm, After
  <2>2. /\ own.mode = "mark" => Leads("cancelRun", row)
        /\ own.mode = "ensure" => Leads("reread", row)
        /\ own.mode = "strand" /\ own.seen.status = "queued" => Leads("recheck", row)
        /\ own.mode = "strand" /\ own.seen.status # "queued" => Leads("force", row)
    BY <1>1, <1>3, <2>1
       DEF Leads, Is, Follows, Shape, Gone, Last, Marking, After, OwnCalm, GonePcs, GonePhases, Releasing, Holding
  <2>3. own.mode \notin {"mark", "strand"} => Follows(own, Raised, row, row, planCancelled)
    BY <1>1, <1>3, <2>1, RaisedFollows DEF OwnCalm
  <2> QED BY <1>6, <2>2, <2>3, AtFollows
<1> QED BY Zenon, <1>4, <1>8, <1>9, CallQuiet

LEMMA QuietForce ==
  ASSUME IInv, Quiet, Counters, env' = env, ForceUpdate \/ CancelRun
  PROVE  Quiet'
<1>1. own.pc \in {"force", "cancelRun"} BY DEF ForceUpdate, CancelRun
<1>2. /\ own.res \in TerminalResults /\ DOMAIN own = OwnFields /\ Known(own.seen, row) /\ Counted(own.res, row)
      /\ row.status = "running" => row.token > fence
  <2>1. own.pc \in Deciding BY <1>1 DEF Deciding
  <2> QED BY Zenon, <2>1, DecidingFacts DEF IInv, OwnFine, Quiet
<1>3. ~Gone(own) /\ OwnCalm(own, row) BY <1>1, Present DEF GonePcs, Releasing
<1>4. CASE ForceUpdate
  <2> DEFINE p == [own.seen EXCEPT !.status = own.res.status, !.err = own.res.err]
             q == UpdateCall(p)
  <2>1. own.pc = "force" /\ Call(q, AfterStrand, AfterStrand, Raised) BY <1>4 DEF ForceUpdate
  <2>2. p \in Payload /\ p.status = own.res.status BY Zenon, <1>2, PayloadEdits DEF Known
  <2> HIDE DEF p
  <2>3. Known(p, row) /\ p.status \in TerminalRun BY <2>2, <1>2, ResultShape DEF Known, Counted
  <2>4. CallFine(q, row) /\ q.op = "update" /\ q.p = p BY <2>3, UpdateFine DEF UpdateCall, Request
  <2>5. Accepts(q) BY <2>4 DEF Accepts
  <2> HIDE DEF q
  <2>6. ASSUME Apply(q) PROVE Settles /\ Follows(own, AfterStrand, row, row', planCancelled)
    <3>1. p.status # "running" BY <2>3, Statuses
    <3>2. Settles /\ row'.status \in TerminalRun BY <1>2, <2>3, <2>4, <2>5, <2>6, <3>1, ApplySettles
    <3>3. row'.status # "queued" BY <3>2, Statuses
    <3>4. /\ own.phase = "finalize" => Leads("close", row')
          /\ own.phase # "finalize" => Leads("recheck", row')
      BY <2>1, <1>3, <3>2, <3>3
         DEF Leads, Is, Follows, Shape, Gone, Last, Marking, After, OwnCalm, GonePcs, GonePhases, Releasing, Holding
    <3> QED BY <3>2, <3>4, AtFollows DEF AfterStrand
  <2> QED BY Zenon, <2>1, <2>5, <2>6, CallQuiet
<1>5. CASE CancelRun
  <2> DEFINE m == [own EXCEPT !.pc = "read", !.mode = "cancelled"]
             n == IF own.mode = "await" THEN m ELSE At("release")
  <2>1. own.pc = "cancelRun" /\ Call(CancelCall, n, n, n) BY <1>5 DEF CancelRun
  <2>2. m.pc = "read" /\ m.phase = own.phase BY <1>2 DEF OwnFields
  <2>3. (own.mode = "await" => n = m) /\ (own.mode # "await" => n = At("release")) OBVIOUS
  <2>4. Accepts(CancelCall) /\ CancelCall.op = "cancel" BY DEF Accepts, CancelCall, Request
  <2> HIDE DEF n, m
  <2>5. ASSUME Apply(CancelCall) PROVE Settles /\ Follows(own, n, row, row', planCancelled)
    <3>1. Settles /\ row'.status \in TerminalRun BY <1>2, <2>4, <2>5, PlainCallsFine, ApplySettles
    <3>2. row'.status # "queued" BY <3>1, Statuses
    <3>3. own.mode # "await" => Leads("release", row')
      BY <2>1, <1>3, <3>1, <3>2
         DEF Leads, Is, Follows, Shape, Gone, Last, Marking, After, OwnCalm, GonePcs, GonePhases, Releasing, Holding
    <3>4. own.mode = "await" => Follows(own, m, row, row', planCancelled)
      BY <2>1, <2>2, <1>3, <3>1, <3>2
         DEF Follows, Shape, Gone, Last, Marking, After, OwnCalm, GonePcs, GonePhases, Releasing, Holding
    <3> QED BY <2>3, <3>1, <3>3, <3>4, AtFollows
  <2> QED BY Zenon, <2>1, <2>4, <2>5, CallQuiet
<1> QED BY <1>4, <1>5

LEMMA QuietLook ==
  ASSUME IInv, Quiet, Counters, env' = env, LookUp \/ LookAgain
  PROVE  Quiet'
<1> DEFINE found == [own EXCEPT !.pc = "release", !.res = settled_result(own.res)]
           strand == Strand(row, own.res)
<1>1. own.pc \in {"read", "reread", "recheck"} BY DEF LookUp, LookAgain
<1>2. DOMAIN own = OwnFields /\ row.status \in TaskStatus BY PayloadFields DEF IInv, OwnFine, Stored
<1>3. ~Gone(own) /\ OwnCalm(own, row) /\ own.phase # "finalize"
  BY <1>1, Present DEF GonePcs, Releasing, OwnCalm
<1>4. IsSettled => Follows(own, found, row, row, planCancelled)
  <2>1. found.pc = "release" /\ found.phase = own.phase BY <1>2 DEF OwnFields
  <2>2. IsSettled => row.status # "queued" BY Statuses DEF IsSettled
  <2> HIDE DEF found
  <2> QED BY <1>1, <1>3, <2>1, <2>2
          DEF Follows, Shape, Gone, Last, Marking, After, OwnCalm, GonePcs, GonePhases, Releasing, Holding
<1>5. own.pc = "read" => Follows(own, strand, row, row, planCancelled)
  <2>1. /\ strand.phase = own.phase /\ strand.mode = "strand"
        /\ strand.pc \in {"claim", "write", "force"} /\ (strand.pc # "claim" => row.status # "queued")
    BY <1>2 DEF OwnFields, Strand
  <2> HIDE DEF strand
  <2> QED BY <1>1, <1>3, <2>1
          DEF Follows, Shape, Gone, Last, Marking, After, OwnCalm, GonePcs, GonePhases, Releasing, Holding
<1>6. /\ own.pc = "read" /\ own.mode = "ensure" => Leads("claim", row)
      /\ own.pc = "read" /\ own.mode = "cancelled" => Leads("cancelRun", row)
      /\ row.status # "queued" => Leads("release", row)
  BY <1>1, <1>3
     DEF Leads, Is, Follows, Shape, Gone, Last, Marking, After, OwnCalm, GonePcs, GonePhases, Releasing, Holding
<1>7. own.pc # "read" => row.status # "queued" BY <1>1, <1>3 DEF OwnCalm, After
<1>8. result # NoResult => row.status # "queued" BY ActiveWithoutResult, Statuses DEF IInv
<1>9. own.pc = "reread" => Follows(own, Raised, row, row, planCancelled) BY <1>3, <1>7, RaisedFollows
<1>10. PICK d, l : Read(d, l) /\
         \/ IsSettled /\ d = found
         \/ own.pc = "read" /\ own.mode = "ensure" /\ d = At("claim")
         \/ result # NoResult /\ d = At("release")
         \/ own.pc = "read" /\ own.mode = "cancelled" /\ d = At("cancelRun")
         \/ own.pc = "read" /\ d = strand
         \/ own.pc = "reread" /\ d = Raised
         \/ own.pc = "recheck" /\ d = At("release")
  BY Zenon DEF LookUp, LookAgain
<1> HIDE DEF found, strand
<1>11. Follows(own, d, row, row, planCancelled)
  BY <1>4, <1>5, <1>6, <1>7, <1>8, <1>9, <1>10, AtFollows
<1> QED BY Zenon, <1>10, <1>11, ReadQuiet

LEMMA ReleaseFollows ==
  ASSUME IInv, Quiet, own.pc \in Releasing, NEW s, ~Gone(own) => s.status # "queued"
  PROVE  /\ Follows(own, AfterRelease, row, s, planCancelled)
         /\ \A a : Follows(own, ReleaseStage(a), row, s, planCancelled)
         /\ s = row => Follows(own, [own EXCEPT !.pc = "releaseWrite", !.seen = row], row, s, planCancelled)
<1>1. DOMAIN own = OwnFields BY DEF IInv, OwnFine
<1>2. ~Gone(own) => OwnCalm(own, row) BY DEF Quiet
<1>3. Follows(own, AfterRelease, row, s, planCancelled)
  <2> DEFINE p == CASE own.phase = "interrupted" -> "cancelBatch"
                    [] own.phase \in CleanupPhase -> AfterCleanup(own.phase)
                    [] OTHER                     -> "outcome"
             n == [At(p) EXCEPT !.leased = FALSE]
  <2>1. /\ own.phase = "interrupted" => p = "cancelBatch"
        /\ own.phase = "cleanup" => p = "finalize"
        /\ own.phase = "failCleanup" => p = "failBatch"
        /\ own.phase = "cancelCleanup" => p = "aborted"
        /\ own.phase \notin {"interrupted"} \cup CleanupPhase => p = "outcome"
    BY DEF CleanupPhase, AfterCleanup
  <2> HIDE DEF p
  <2>2. n.pc = p /\ n.phase = own.phase /\ n.res = own.res BY <1>1 DEF OwnFields, At
  <2>3. AfterRelease = n BY Zenon DEF AfterRelease, p
  <2> HIDE DEF n
  <2>4. Follows(own, n, row, s, planCancelled)
    BY <1>2, <2>1, <2>2
       DEF Follows, Shape, Gone, Last, Marking, After, OwnCalm, GonePcs, GonePhases, Releasing, Holding, CleanupPhase
  <2> QED BY <2>3, <2>4
<1>4. ASSUME NEW a PROVE Follows(own, ReleaseStage(a), row, s, planCancelled)
  <2> DEFINE n == ReleaseStage(a)
  <2>1. n.pc = "releaseRead" /\ n.phase = own.phase /\ n.res = own.res BY <1>1 DEF OwnFields, ReleaseStage
  <2> HIDE DEF n
  <2>2. Follows(own, n, row, s, planCancelled)
    BY <1>2, <2>1 DEF Follows, Shape, Gone, Last, Marking, After, OwnCalm, GonePcs, GonePhases, Releasing, Holding
  <2> QED BY <2>2 DEF n
<1>5. ASSUME s = row PROVE Follows(own, [own EXCEPT !.pc = "releaseWrite", !.seen = row], row, s, planCancelled)
  <2> DEFINE n == [own EXCEPT !.pc = "releaseWrite", !.seen = row]
  <2>1. n.pc = "releaseWrite" /\ n.phase = own.phase /\ n.res = own.res /\ n.seen = row BY <1>1 DEF OwnFields
  <2> HIDE DEF n
  <2>2. Follows(own, n, row, s, planCancelled)
    BY <1>2, <1>5, <2>1 DEF Follows, Shape, Gone, Last, Marking, After, OwnCalm, GonePcs, GonePhases, Releasing, Holding
  <2> QED BY <2>2 DEF n
<1> QED BY Zenon, <1>3, <1>4, <1>5

LEMMA QuietRelease ==
  ASSUME IInv, Quiet, Counters, env' = env, Release
  PROVE  Quiet'
<1> DEFINE rw == [own EXCEPT !.pc = "releaseWrite", !.seen = row]
           first == IF own.leased THEN ReleaseStage(1) ELSE AfterRelease
<1>1. own.pc \in Releasing BY DEF Release, Releasing
<1>2. ~Gone(own) => row.status # "queued" BY <1>1 DEF Quiet, OwnCalm, After
<1>3. /\ Follows(own, AfterRelease, row, row, planCancelled) /\ Follows(own, rw, row, row, planCancelled)
      /\ \A a : Follows(own, ReleaseStage(a), row, row, planCancelled)
  BY Zenon, <1>1, <1>2, ReleaseFollows
<1>4. first \in {ReleaseStage(1), AfterRelease} OBVIOUS
<1>5. \/ Step(first) \/ Step(ReleaseStage(0)) \/ Read(rw, Released)
      \/ own.pc = "releaseWrite" /\ Call(UpdateCall(own.seen), Released, Released, Released)
  BY Zenon DEF Release
<1> HIDE DEF first, rw
<1>6. CASE Step(first) \/ Step(ReleaseStage(0)) BY Zenon, <1>3, <1>4, <1>6, StepQuiet
<1>7. CASE Read(rw, Released) BY Zenon, <1>3, <1>7, ReadQuiet
<1>8. CASE own.pc = "releaseWrite" /\ Call(UpdateCall(own.seen), Released, Released, Released)
  <2> DEFINE q == UpdateCall(own.seen)
  <2>1. /\ Known(own.seen, row) /\ (row.status = "running" => row.token > fence)
        /\ own.seen.status = "running" => own.seen.token > fence
        /\ ~Gone(own) => own.seen.status # "queued"
    BY <1>8 DEF IInv, OwnFine, Quiet, Holding, Young, OwnCalm
  <2>2. CallFine(q, row) /\ q.op = "update" /\ q.p = own.seen BY <2>1, UpdateFine DEF UpdateCall, Request
  <2>3. Accepts(q) BY <2>2 DEF Accepts
  <2> HIDE DEF q
  <2>4. ASSUME Apply(q) PROVE Settles /\ Follows(own, Released, row, row', planCancelled)
    <3>1. Settles /\ (~Gone(own) => row'.status # "queued") BY <1>2, <2>1, <2>2, <2>3, <2>4, ApplySettles
    <3>2. /\ Follows(own, AfterRelease, row, row', planCancelled)
          /\ \A a : Follows(own, ReleaseStage(a), row, row', planCancelled)
      BY Zenon, <1>1, <3>1, ReleaseFollows
    <3> QED BY <3>1, <3>2 DEF Released
  <2>5. Call(q, Released, Released, Released) BY <1>8 DEF q
  <2> QED BY Zenon, <2>3, <2>4, <2>5, CallQuiet
<1> QED BY Zenon, <1>5, <1>6, <1>7, <1>8

\* Only the retry takes a settled row back; nothing older is on its way then.
LEMMA QuietReopen ==
  ASSUME IInv, Quiet, Counters, env' = env, Reopen
  PROVE  Quiet'
<1> DEFINE q == ReopenCall(Reopened)
           n == [own EXCEPT !.pc = "queued", !.me = Reopened]
<1>1. own.pc = "reopen" /\ Call(q, n, At("record"), At("record")) BY DEF Reopen
<1>2. DOMAIN own = OwnFields BY DEF IInv, OwnFine
<1>3. n.pc = "queued" /\ n.phase = own.phase BY <1>2 DEF OwnFields
<1>4. Reopened.status = "queued" BY <1>1, ReopenedFine DEF Deciding
<1>5. q.op = "reopen" /\ q.p = Reopened BY DEF ReopenCall, Request
<1>6. ~Gone(own) /\ OwnCalm(own, row) BY <1>1, Present DEF GonePcs, Releasing
<1>7. row.status \in TerminalRun /\ row.status # "queued" BY <1>1, <1>6, Statuses DEF OwnCalm
<1> HIDE DEF q, n
<1>8. env # [env EXCEPT !.lost = @ + 1] BY DEF Counters
<1>9. /\ UNCHANGED <<late, other, planCancelled>>
      /\ \/ Apply(q) /\ own' = n
         \/ own' = At("record") /\ UNCHANGED <<row, fence>>
  BY <1>1, <1>8 DEF Call
<1>10. CASE own' = At("record") /\ UNCHANGED <<row, fence>>
  <2>1. Leads("record", row)
    BY <1>1, <1>6, <1>7
       DEF Leads, Is, Follows, Shape, Gone, Last, Marking, After, OwnCalm, GonePcs, GonePhases, Releasing, Holding
  <2> QED BY Zenon, <2>1, <1>9, <1>10, AtFollows, MoveQuiet
<1>11. CASE Apply(q) /\ own' = n
  <2>1. row' = Reopened /\ fence' = issued BY <1>5, <1>11 DEF Apply
  <2>2. row'.status = "queued" BY <1>4, <2>1
  <2>3. ~Gone(n) /\ Shape(n) /\ OwnCalm(n, row')
    BY <1>1, <1>3, <1>6 DEF Shape, Gone, After, OwnCalm, GonePcs, GonePhases, Releasing
  <2>4. NoReopen(late) /\ \A k \in late : k.op # "update" BY <1>6 DEF Quiet, LateCalm
  <2>5. LateCalm(late', own', row', fence') BY Zenon, <1>9, <2>4 DEF LateCalm, NoReopen
  <2>6. ~Last(own, planCancelled) /\ ~Marking(own, planCancelled) BY <1>1 DEF Last, Marking, Releasing
  <2>7. other.pc = "write" => other.p.status # "running" BY <1>6, <2>6 DEF Quiet, OtherYoung
  <2>8. OtherYoung(other', own', planCancelled', fence', late') BY Zenon, <1>9, <2>7 DEF OtherYoung, Young
  <2>9. OtherCalm(other', own', planCancelled', row')
    BY <1>3, <1>6, <1>9, <1>11 DEF Quiet, OtherCalm, Marking
  <2>10. own'.pc \notin Holding BY <1>3, <1>11 DEF Holding
  <2>11. own' = n BY <1>11
  <2>12. Shape(own') /\ OwnCalm(own', row') BY Zenon, <2>3, <2>11
  <2> QED BY <2>2, <2>5, <2>8, <2>9, <2>10, <2>12 DEF Quiet
<1> QED BY <1>9, <1>10, <1>11

LEMMA QuietRetry ==
  ASSUME IInv, Quiet, Counters, env' = env, Retry \/ RetryRead \/ Record
  PROVE  Quiet'
<1>1. own.pc \in {"outcome", "retryRead", "record"} BY DEF Retry, RetryRead, Record
<1>2. DOMAIN own = OwnFields BY DEF IInv, OwnFine
<1>3. ~Gone(own) /\ OwnCalm(own, row) /\ row.status # "queued"
  BY <1>1, Present DEF GonePcs, Releasing, OwnCalm, After
<1>4. CASE Retry
  <2>1. own.pc = "outcome" /\ own.res.err = "transient" /\ Step(At("retryRead")) BY <1>4 DEF Retry, should_retry
  <2>2. Leads("retryRead", row)
    BY <1>3, <2>1
       DEF Leads, Is, Follows, Shape, Gone, Last, Marking, After, OwnCalm, GonePcs, GonePhases, Releasing, Holding
  <2> QED BY Zenon, <2>1, <2>2, AtFollows, StepQuiet
<1>5. CASE RetryRead
  <2> DEFINE m == [own EXCEPT !.pc = "reopen", !.seen = row]
             d == IF RetryStillValid THEN m ELSE At("record")
             l == [own EXCEPT !.pc = "abort", !.at = 1]
  <2>1. own.pc = "retryRead" /\ Read(d, l) BY Zenon, <1>5 DEF RetryRead
  <2>2. m.pc = "reopen" /\ m.phase = own.phase BY <1>2 DEF OwnFields
  <2>3. (RetryStillValid => row.status \in TerminalRun) BY Statuses DEF RetryStillValid
  <2>4. (RetryStillValid /\ d = m) \/ d = At("record") OBVIOUS
  <2> HIDE DEF m, d, l
  <2>5. RetryStillValid => Follows(own, m, row, row, planCancelled)
    BY <1>3, <2>1, <2>2, <2>3
       DEF Follows, Shape, Gone, Last, Marking, After, OwnCalm, GonePcs, GonePhases, Releasing, Holding
  <2>6. Leads("record", row)
    BY <1>3, <2>1
       DEF Leads, Is, Follows, Shape, Gone, Last, Marking, After, OwnCalm, GonePcs, GonePhases, Releasing, Holding
  <2>7. Follows(own, d, row, row, planCancelled) BY Zenon, <2>4, <2>5, <2>6, AtFollows
  <2> QED BY Zenon, <2>1, <2>7, ReadQuiet
<1>6. CASE Record
  <2>1. own' = At("cleanup") /\ UNCHANGED <<row, fence, late, other, planCancelled>> BY <1>6 DEF Record
  <2>2. Leads("cleanup", row)
    BY <1>1, <1>3
       DEF Leads, Is, Follows, Shape, Gone, Last, Marking, After, OwnCalm, GonePcs, GonePhases, Releasing, Holding
  <2> QED BY Zenon, <2>1, <2>2, AtFollows, MoveQuiet
<1> QED BY <1>4, <1>5, <1>6

LEMMA QuietClose ==
  ASSUME IInv, Quiet, Counters, env' = env, cleanup_batch \/ finalize_nonterminal_runs \/ CloseBatch
  PROVE  Quiet'
<1>1. DOMAIN own = OwnFields /\ (~Gone(own) => OwnCalm(own, row)) BY DEF IInv, OwnFine, Quiet
<1>2. CASE cleanup_batch
  <2> DEFINE k == ReleaseStage(1)
             m == [k EXCEPT !.leased = TRUE, !.phase = own.pc]
  <2>1. own.pc \in CleanupPhase /\ (Step(At(AfterCleanup(own.pc))) \/ Step(m)) BY <1>2 DEF cleanup_batch
  <2>2. DOMAIN k = OwnFields /\ k.pc = "releaseRead" BY <1>1 DEF OwnFields, ReleaseStage
  <2> HIDE DEF k
  <2>3. m.pc = "releaseRead" /\ m.phase = own.pc BY <2>2 DEF OwnFields
  <2> HIDE DEF m
  <2>4. own.pc = "cleanup" => ~Gone(own) BY <2>1, Present DEF GonePcs, Releasing
  <2>5. Follows(own, m, row, row, planCancelled)
    BY <1>1, <2>1, <2>3, <2>4
       DEF Follows, Shape, Gone, Last, Marking, After, OwnCalm, GonePcs, GonePhases, Releasing, Holding, CleanupPhase
  <2>6. Leads(AfterCleanup(own.pc), row)
    <3>1. CASE own.pc = "cleanup"
      <4>1. AfterCleanup(own.pc) = "finalize" BY <3>1 DEF AfterCleanup
      <4>2. Leads("finalize", row)
        BY <1>1, <2>4, <3>1
           DEF Leads, Is, Follows, Shape, Gone, Last, Marking, After, OwnCalm, GonePcs, GonePhases, Releasing, Holding
      <4> QED BY <4>1, <4>2
    <3>2. CASE own.pc # "cleanup"
      <4>1. AfterCleanup(own.pc) \in {"failBatch", "aborted"} BY <3>2 DEF AfterCleanup
      <4>2. \A p \in {"failBatch", "aborted"} : Leads(p, row)
        BY DEF Leads, Is, Follows, Shape, Gone, GonePcs, Holding
      <4> QED BY <4>1, <4>2
    <3> QED BY <3>1, <3>2
  <2> QED BY Zenon, <2>1, <2>5, <2>6, AtFollows, StepQuiet
<1>3. CASE finalize_nonterminal_runs
  <2> DEFINE k == Strand(row, recorded)
             m == [k EXCEPT !.phase = "finalize"]
             d == IF IsSettled THEN At("close") ELSE m
  <2>1. own.pc = "finalize" /\ Read(d, At("close")) BY Zenon, <1>3 DEF finalize_nonterminal_runs
  <2>2. ~Gone(own) /\ row.status # "queued" BY <1>1, <2>1, Present DEF GonePcs, Releasing, OwnCalm, After
  <2>3. DOMAIN k = OwnFields /\ k.pc \in {"write", "force"} /\ k.mode = "strand" /\ k.seen = row
    BY <1>1, <2>2 DEF OwnFields, Strand
  <2> HIDE DEF k
  <2>4. m.pc \in {"write", "force"} /\ m.mode = "strand" /\ m.seen = row /\ m.phase = "finalize"
    BY <2>3 DEF OwnFields
  <2>5. (IsSettled /\ d = At("close")) \/ d = m OBVIOUS
  <2> HIDE DEF m, d
  <2>6. Follows(own, m, row, row, planCancelled)
    BY <2>1, <2>2, <2>4
       DEF Follows, Shape, Gone, Last, Marking, After, OwnCalm, GonePcs, GonePhases, Releasing, Holding
  <2>7. IsSettled => Leads("close", row)
    BY <1>1, <2>1, <2>2
       DEF Leads, Is, Follows, Shape, Gone, Last, Marking, After, OwnCalm, GonePcs, GonePhases, Releasing, Holding, IsSettled
  <2>8. Follows(own, d, row, row, planCancelled) BY Zenon, <2>5, <2>6, <2>7, AtFollows
  <2> QED BY Zenon, <2>1, <2>8, ReadQuiet
<1>4. CASE CloseBatch
  <2>1. own.pc = "close" /\ Call(CloseBatchCall, At("done"), At("done"), At("aborted")) BY <1>4 DEF CloseBatch
  <2>2. ~Gone(own) BY <2>1, Present DEF GonePcs, Releasing
  <2>3. Leads("done", row)
    BY <1>1, <2>1, <2>2
       DEF Leads, Is, Follows, Shape, Gone, Last, Marking, After, OwnCalm, GonePcs, GonePhases, Releasing, Holding
  <2>4. Accepts(CloseBatchCall) BY DEF Accepts, CloseBatchCall, Request
  <2>5. Apply(CloseBatchCall) => UNCHANGED <<row, fence>> BY DEF Apply, CloseBatchCall, Request
  <2>6. Apply(CloseBatchCall) => row' = row /\ Settles BY <2>5 DEF Settles, Quiet
  <2>7. Follows(own, At("done"), row, row, planCancelled) BY Zenon, <2>3, AtFollows
  <2> QED BY Zenon, <2>1, <2>4, <2>6, <2>7, CallQuiet
<1> QED BY <1>2, <1>3, <1>4

\* What the owner does once it has given up.
LEMMA QuietGone ==
  ASSUME IInv, Quiet, Counters, env' = env, MarkBatchFailed \/ MarkBatchCancelled
  PROVE  Quiet'
<1>1. DOMAIN own = OwnFields /\ (row.status = "running" => row.token > fence) BY DEF IInv, OwnFine, Quiet
<1>2. ASSUME NEW p \in {"failCleanup", "abortCancel", "aborted", "cancelCleanup"}, NEW s
      PROVE  Follows(own, At(p), row, s, planCancelled)
  <2>1. Leads(p, s) BY DEF Leads, Is, Follows, Shape, Gone, GonePcs, Holding
  <2> QED BY Zenon, <2>1, AtFollows
<1>3. Follows(own, Again, row, row, planCancelled)
  <2> DEFINE n == [own EXCEPT !.pc = "abort", !.at = @ + 1]
  <2>1. n.pc = "abort" BY <1>1 DEF OwnFields
  <2>2. Again \in {At("failCleanup"), n} BY DEF Again
  <2> HIDE DEF n
  <2>3. Follows(own, n, row, row, planCancelled) BY <2>1 DEF Follows, Shape, Gone, GonePcs, Holding
  <2> QED BY <1>2, <2>2, <2>3
<1>4. ASSUME NEW q \in {CancelCall, CancelBatchCall, CloseBatchCall}
      PROVE  Accepts(q) /\ (Apply(q) => Settles)
  <2>1. q.op \in {"cancel", "cancelBatch", "closeBatch"} /\ CallFine(q, row)
    BY PlainCallsFine DEF CancelCall, CancelBatchCall, CloseBatchCall, Request
  <2>2. Accepts(q) BY <2>1 DEF Accepts
  <2> QED BY <1>1, <2>1, <2>2, ApplySettles
<1>5. \/ \E p \in {"failCleanup", "abortCancel"} : Read(At(p), Again)
      \/ \E q \in {CancelCall, CancelBatchCall, CloseBatchCall}, p \in {"failCleanup", "aborted", "cancelCleanup"} :
           \E l : Call(q, At(p), At(p), l)
  BY DEF MarkBatchFailed, MarkBatchCancelled
<1>6. CASE \E p \in {"failCleanup", "abortCancel"} : Read(At(p), Again)
  <2>1. PICK p \in {"failCleanup", "abortCancel"} : Read(At(p), Again) BY <1>6
  <2>2. Follows(own, At(p), row, row, planCancelled) BY <1>2
  <2> QED BY Zenon, <2>1, <2>2, ReadQuiet
<1>7. ASSUME NEW q \in {CancelCall, CancelBatchCall, CloseBatchCall},
             NEW p \in {"failCleanup", "aborted", "cancelCleanup"}, NEW l, Call(q, At(p), At(p), l)
      PROVE  Quiet'
  <2>1. Follows(own, At(p), row, row', planCancelled) BY <1>2
  <2> QED BY Zenon, <1>4, <1>7, <2>1, CallQuiet
<1> QED BY Zenon, <1>5, <1>6, <1>7

-----------------------------------------------------------------------------
(* The executor, the other processes and the calls in flight *)

LEMMA SelfFollows ==
  ASSUME Quiet, Settles, ~Gone(own) /\ After(own) => row'.status # "queued"
  PROVE  Follows(own, own, row, row', planCancelled)
<1>1. Shape(own) /\ (~Gone(own) => OwnCalm(own, row)) BY DEF Quiet
<1>2. ~Gone(own) => OwnCalm(own, row') BY <1>1, Zenon DEF OwnCalm, Settles
<1> QED BY Zenon, <1>1, <1>2 DEF Follows

LEMMA QuietExecutor ==
  ASSUME IInv, Quiet, Counters, env' = env, Executor
  PROVE  Quiet'
<1>1. row.status = "running" => row.token > fence BY DEF Quiet
<1>2. ASSUME NEW q, NEW d, q.op \in {"claim", "write"}, CallFine(q, row), ExecCall(q, d) PROVE Quiet'
  <2>1. env # [env EXCEPT !.lost = @ + 1] BY DEF Counters
  <2>2. /\ UNCHANGED <<own, late, other, planCancelled>>
        /\ \/ Accepts(q) /\ Apply(q)
           \/ UNCHANGED <<row, fence>>
    BY <1>2, <2>1 DEF ExecCall
  <2>3. Settles /\ (row.status # "queued" => row'.status # "queued")
    <3>1. CASE Accepts(q) /\ Apply(q) BY <1>1, <1>2, <3>1, ApplySettles
    <3>2. CASE UNCHANGED <<row, fence>> BY <1>1, <3>2 DEF Settles
    <3> QED BY <2>2, <3>1, <3>2
  <2>4. ~Gone(own) /\ After(own) => row'.status # "queued" BY <2>3 DEF Quiet, OwnCalm
  <2>5. Follows(own, own', row, row', planCancelled) BY <2>2, <2>3, <2>4, SelfFollows
  <2>6. \A k \in late' : k \in late \/ k.op \notin {"update", "reopen"} BY <2>2
  <2> QED BY Zenon, <2>2, <2>3, <2>5, <2>6, Advance
<1>3. CASE ExecClaim
  <2>1. ClaimCall.op = "claim" /\ CallFine(ClaimCall, row) BY PlainCallsFine DEF ClaimCall, Request
  <2>2. PICK d : ExecCall(ClaimCall, d) BY <1>3 DEF ExecClaim
  <2> QED BY <1>2, <2>1, <2>2
<1>4. CASE ExecWrite
  <2> DEFINE q == WriteCall(exec.tok, exec.res)
  <2>1. exec.res \in TerminalResults BY <1>4, ResultShape DEF ExecWrite, IInv, ExecFine
  <2>2. q.op = "write" /\ CallFine(q, row) BY <2>1 DEF CallFine, WriteCall, Request
  <2>3. PICK d : ExecCall(q, d) BY <1>4 DEF ExecWrite
  <2> HIDE DEF q
  <2> QED BY <1>2, <2>2, <2>3
<1>5. ASSUME NEW res \in Outcomes, ExecWork(res) PROVE Quiet'
  <2>1. UNCHANGED <<row, fence, late, own, planCancelled, other>> BY <1>5 DEF ExecWork
  <2> QED BY Zenon, <2>1 DEF Quiet
<1> QED BY Zenon, <1>3, <1>4, <1>5 DEF Executor

\* Another process changes the row, or starts or ends its release of the sandbox.
LEMMA OtherQuiet ==
  ASSUME Quiet, Settles, UNCHANGED <<own, late>>, planCancelled => planCancelled',
         ~Gone(own) /\ After(own) => row'.status # "queued",
         OtherYoung(other', own, planCancelled', fence, late),
         ~Gone(own) => OtherCalm(other', own, planCancelled', row')
  PROVE  Quiet'
<1>1. Follows(own, own, row, row', planCancelled) BY SelfFollows
<1>2. LateCalm(late', own', row', fence') BY Zenon DEF Quiet, LateCalm, Settles
<1>3. own'.pc \in Holding => Young(own'.seen, fence', late') BY Zenon DEF Quiet, Settles
<1>4. Shape(own') /\ (~Gone(own') => OwnCalm(own', row')) BY Zenon, <1>1 DEF Follows
<1>5. OtherYoung(other', own', planCancelled', fence', late') BY Zenon DEF Settles
<1>6. row'.status = "running" => row'.token > fence' BY DEF Settles
<1> QED BY Zenon, <1>2, <1>3, <1>4, <1>5, <1>6 DEF Quiet

LEMMA QuietOthers ==
  ASSUME IInv, Quiet, Counters, env' = env, sweeps' = sweeps, Others
  PROVE  Quiet'
<1>1. /\ row.status = "running" => row.token > fence
      /\ row.status \in TaskStatus
      /\ ~Gone(own) => OwnCalm(own, row) /\ OtherCalm(other, own, planCancelled, row)
      /\ OtherYoung(other, own, planCancelled, fence, late)
  BY PayloadFields DEF Quiet, IInv, Stored
<1>2. CASE CancelPlan
  <2>1. /\ UNCHANGED <<row, fence, late, own, other>> /\ planCancelled' = TRUE /\ ~planCancelled
    BY <1>2 DEF CancelPlan
  <2>2. Settles BY <2>1, <1>1 DEF Settles
  <2>3. ~Gone(own) /\ After(own) => row'.status # "queued" BY <2>1, <1>1 DEF OwnCalm
  <2>4. OtherYoung(other', own, planCancelled', fence, late)
    BY <2>1, <1>1 DEF OtherYoung, Last, Marking
  <2>5. ~Gone(own) => OtherCalm(other', own, planCancelled', row')
    BY <2>1, <1>1 DEF OtherCalm
  <2> QED BY <2>1, <2>2, <2>3, <2>4, <2>5, OtherQuiet
<1>3. ASSUME OtherStarts, other.pc = "idle", row'.status \in TerminalRun, fence' = fence,
             UNCHANGED <<own, late, planCancelled>>, Gone(own) \/ planCancelled
      PROVE  Quiet'
  <2>1. other' = other \/ other' = [other EXCEPT !.pc = "read"] BY <1>3 DEF OtherStarts
  <2>2. other'.pc # "write" BY <2>1, <1>3 DEF IInv
  <2>3. row'.status # "queued" /\ row'.status # "running" BY <1>3, Statuses
  <2>4. Settles BY <2>3, <1>3 DEF Settles
  <2>5. OtherYoung(other', own, planCancelled', fence, late) BY <2>2 DEF OtherYoung
  <2>6. ~Gone(own) => OtherCalm(other', own, planCancelled', row') BY <1>3 DEF OtherCalm
  <2> QED BY <1>3, <2>3, <2>4, <2>5, <2>6, OtherQuiet
<1>4. CASE cancel_turn
  <2>1. /\ planCancelled /\ open /\ other.pc = "idle" /\ OtherStarts /\ Apply(CancelBatchCall)
        /\ UNCHANGED <<own, late, planCancelled>>
    BY <1>4 DEF cancel_turn
  <2>2. row' = CancelledPayload(row) /\ fence' = fence BY <2>1 DEF Apply, CancelBatchCall, Request
  <2>3. row'.status \in TerminalRun
    <3>1. CASE row.status \in ActiveRun
      <4>1. row'.status = "cancelled" BY Zenon, <2>2, <3>1, PayloadEdits DEF IInv, Stored
      <4> QED BY <4>1, Statuses
    <3>2. CASE row.status \notin ActiveRun BY <2>2, <3>2, <1>1 DEF CancelledPayload, TaskStatus
    <3> QED BY <3>1, <3>2
  <2> QED BY <1>3, <2>1, <2>2, <2>3
<1>5. CASE Sweep
  <2>1. /\ row.status \in ActiveRun /\ Finished /\ other.pc = "idle" /\ row' = SweptPayload(row) /\ fence' = fence
        /\ OtherStarts /\ UNCHANGED <<own, late, planCancelled>>
    BY <1>5 DEF Sweep, Counters
  <2>2. Gone(own)
    <3>1. own.pc # "done" \/ Gone(own) BY <1>1, <2>1, Statuses DEF OwnCalm
    <3> QED BY <2>1, <3>1 DEF Finished, Gone, GonePcs
  <2>3. row'.status = SweptStatus(row) BY Zenon, <2>1, PayloadEdits DEF IInv, Stored
  <2>4. row'.status \in TerminalRun BY <2>3, Statuses DEF SweptStatus
  <2> QED BY <1>3, <2>1, <2>2, <2>4
<1>6. CASE other.pc = "read" /\ other' = [pc |-> "write", p |-> row] /\ UNCHANGED <<row, fence, late, own, planCancelled>>
  <2>1. Settles BY <1>1, <1>6 DEF Settles
  <2>2. other'.pc = "write" /\ other'.p = row BY <1>6
  <2>3. ~Gone(own) => planCancelled /\ (row.status \in TerminalRun \/ Marking(own, planCancelled))
    BY <1>1, <1>6 DEF OtherCalm
  <2>4. OtherYoung(other', own, planCancelled', fence, late)
    <3>1. row.status = "running" => Gone(own) \/ Last(own, planCancelled) BY <2>3, Statuses DEF Last
    <3> QED BY <1>6, <2>2, <3>1, RowYoung DEF OtherYoung
  <2>5. ~Gone(own) => OtherCalm(other', own, planCancelled', row') BY <1>6, <2>3 DEF OtherCalm
  <2>6. ~Gone(own) /\ After(own) => row'.status # "queued" BY <1>1, <1>6 DEF OwnCalm
  <2> QED BY <1>6, <2>1, <2>4, <2>5, <2>6, OtherQuiet
<1>7. CASE other.pc = "write" /\ Apply(UpdateCall(other.p)) /\ other' = [pc |-> "idle", p |-> NoRun]
           /\ UNCHANGED <<late, own, planCancelled>>
  <2> DEFINE q == UpdateCall(other.p)
  <2>1. Known(other.p, row) /\ (other.p.status = "running" => other.p.token > fence)
    BY <1>1, <1>7 DEF IInv, OtherFine, OtherYoung, Young
  <2>2. CallFine(q, row) /\ q.op = "update" /\ q.p = other.p BY <2>1, UpdateFine DEF UpdateCall, Request
  <2>3. Accepts(q) BY <2>2 DEF Accepts
  <2>4. Apply(q) BY <1>7
  <2> HIDE DEF q
  <2>5. Settles /\ (other.p.status # "queued" => (row.status # "queued" => row'.status # "queued"))
    BY <1>1, <2>1, <2>2, <2>3, <2>4, ApplySettles
  <2>6. ~Gone(own) /\ After(own) => row'.status # "queued"
    <3>1. other.p.status = "queued" /\ ~Gone(own) => row.status \in TerminalRun \/ Marking(own, planCancelled)
      BY <1>1, <1>7, Statuses DEF OtherCalm
    <3>2. ~(After(own) /\ Marking(own, planCancelled)) BY DEF After, Marking, Releasing
    <3>3. row.status \in TerminalRun => row'.status # "queued" BY <2>5, Statuses DEF Settles
    <3> QED BY <1>1, <2>5, <3>1, <3>2, <3>3 DEF OwnCalm
  <2>7. other'.pc = "idle" BY <1>7
  <2>8. OtherYoung(other', own, planCancelled', fence, late) /\ OtherCalm(other', own, planCancelled', row')
    BY <2>7 DEF OtherYoung, OtherCalm
  <2> QED BY <1>7, <2>5, <2>6, <2>8, OtherQuiet
<1> QED BY <1>2, <1>4, <1>5, <1>6, <1>7 DEF Others, release_stale

\* The owner is interrupted or crashes, and leaves its call in flight.
LEMMA QuietLeave ==
  ASSUME IInv, Quiet, Interrupt \/ Crash
  PROVE  Quiet'
<1> DEFINE n == [own EXCEPT !.pc = "release", !.phase = "interrupted", !.leased = @ /\ own.phase # "cleanup"]
           d == IF own.pc = "close" THEN At("aborted") ELSE n
<1>1. DOMAIN own = OwnFields BY DEF IInv, OwnFine
<1>2. Leaves(d) \/ Leaves(At("crashed")) BY Zenon DEF Interrupt, Crash
<1>3. Gone(own') /\ Shape(own') /\ own'.pc \notin Holding
  <2>1. n.pc = "release" /\ n.phase = "interrupted" BY <1>1 DEF OwnFields
  <2>2. Is(At("aborted"), "aborted", own.phase, own.mode, own.seen, own.res) BY Zenon, Continuations
  <2>3. Is(At("crashed"), "crashed", own.phase, own.mode, own.seen, own.res) BY Zenon, Continuations
  <2>4. d \in {n, At("aborted")} OBVIOUS
  <2> HIDE DEF n, d
  <2>5. own' \in {n, At("aborted"), At("crashed")} BY <1>2, <2>4 DEF Leaves
  <2> QED BY <2>1, <2>2, <2>3, <2>5 DEF Is, Gone, Shape, GonePcs, GonePhases, Releasing, Holding
<1> HIDE DEF n, d
<1>4. late' = late \cup ExecPending \cup OwnPending /\ UNCHANGED <<row, fence, planCancelled, other>>
  BY <1>2 DEF Leaves
<1>5. \A q \in ExecPending : q.op \notin {"update", "reopen"} BY DEF ExecPending, ClaimCall, WriteCall, Request
<1>6. /\ row.status = "running" => row.token > fence
      /\ LateCalm(late, own, row, fence) /\ OtherYoung(other, own, planCancelled, fence, late)
      /\ own.pc \in Holding => Young(own.seen, fence, late)
  BY DEF Quiet
<1>7. CASE own.pc = "reopen"
  <2>1. ~Gone(own) /\ row.status \in TerminalRun BY <1>7, Present DEF GonePcs, Releasing, OwnCalm
  <2>2. OwnPending = {ReopenCall(Reopened)} BY <1>7 DEF OwnPending, Preparing
  <2>3. \A q \in late : q.op \notin {"update", "reopen"} BY <1>6, <2>1 DEF LateCalm, NoReopen
  <2>4. ReopenCall(Reopened).op = "reopen" BY DEF ReopenCall, Request
  <2>5. \A q \in late' : q.op # "update" /\ (q.op = "reopen" => q = ReopenCall(Reopened))
    BY Zenon, <1>4, <1>5, <2>2, <2>3, <2>4
  <2>6. LateCalm(late', own', row', fence') BY <1>3, <1>4, <2>1, <2>5 DEF LateCalm
  <2>7. ~Last(own, planCancelled) BY <1>7 DEF Last, Marking, Releasing
  <2>8. OtherYoung(other', own', planCancelled', fence', late')
    BY <1>4, <1>6, <2>1, <2>7 DEF OtherYoung, Young
  <2> QED BY <1>3, <1>4, <1>6, <2>6, <2>8 DEF Quiet
<1>8. CASE own.pc # "reopen"
  <2>1. \A q \in OwnPending : q.op # "reopen" /\ (q.op = "update" => Young(q.p, fence, late))
    <3>1. CASE own.pc \in Holding
      <4>1. OwnPending = {UpdateCall(own.seen)} BY <3>1 DEF OwnPending, Preparing, Holding
      <4>2. UpdateCall(own.seen).op = "update" /\ UpdateCall(own.seen).p = own.seen BY DEF UpdateCall, Request
      <4> QED BY <1>6, <3>1, <4>1, <4>2
    <3>2. CASE own.pc \notin Holding
      <4>1. \A q \in OwnPending : q.op \in {"claim", "write", "cancel"} \/ (q.op = "update" /\ q.p = own.me)
        BY <1>8, <3>2 DEF OwnPending, Holding, ClaimCall, WriteCall, CancelCall, UpdateCall, Request
      <4>2. own.me.status = "queued" BY DEF IInv, OwnFine
      <4> QED BY <4>1, <4>2 DEF Young
    <3> QED BY <3>1, <3>2
  <2>2. NoReopen(late) => NoReopen(late') BY Zenon, <1>4, <1>5, <2>1 DEF NoReopen
  <2>3. \A p : Young(p, fence, late) => Young(p, fence', late') BY Zenon, <1>4, <2>2 DEF Young
  <2>4. \A q \in late' : /\ q.op = "reopen" => q \in late
                         /\ q.op = "update" => q \in late \/ Young(q.p, fence, late)
    BY Zenon, <1>4, <1>5, <2>1
  <2>5. LateCalm(late', own', row', fence')
    <3>1. NoReopen(late') \/ (Gone(own') /\ row'.status \in TerminalRun)
      BY Zenon, <1>3, <1>4, <1>6, <2>2 DEF LateCalm
    <3>2. \A q, k \in late' : q.op = "reopen" /\ k.op = "reopen" => q = k BY Zenon, <1>6, <2>4 DEF LateCalm
    <3>3. \A q \in late' : q.op = "update" => Gone(own') /\ Young(q.p, fence', late')
      BY Zenon, <1>3, <1>6, <2>3, <2>4 DEF LateCalm
    <3> QED BY Zenon, <3>1, <3>2, <3>3 DEF LateCalm
  <2>6. OtherYoung(other', own', planCancelled', fence', late') BY Zenon, <1>3, <1>4, <1>6, <2>3 DEF OtherYoung
  <2> QED BY <1>3, <1>4, <1>6, <2>5, <2>6 DEF Quiet
<1> QED BY <1>7, <1>8

\* A call in flight takes effect.  A retry among them lands with no older
\* running copy of the row left.
LEMMA QuietLand ==
  ASSUME IInv, Quiet, Counters, NEW q \in late, Land(q)
  PROVE  Quiet'
<1>1. /\ late' = late \ {q} /\ UNCHANGED <<own, planCancelled, other>>
      /\ (Accepts(q) /\ Apply(q)) \/ UNCHANGED <<row, fence>>
  BY DEF Land, store
<1>2. /\ row.status = "running" => row.token > fence
      /\ LateCalm(late, own, row, fence) /\ OtherYoung(other, own, planCancelled, fence, late)
      /\ own.pc \in Holding => Young(own.seen, fence, late)
      /\ ~Gone(own) => OwnCalm(own, row)
      /\ CallFine(q, row)
  BY DEF Quiet, IInv
<1>3. CASE q.op = "reopen" /\ Accepts(q) /\ Apply(q)
  <2>1. ~NoReopen(late) BY <1>3 DEF NoReopen
  <2>2. Gone(own) BY <1>2, <2>1 DEF LateCalm
  <2>3. \A p : Young(p, fence, late) => p.status # "running" BY <2>1 DEF Young
  <2>4. row'.status = "queued" BY <1>2, <1>3 DEF Apply, CallFine
  <2>5. \A k \in late' : k \in late /\ k.op # "reopen" BY Zenon, <1>1, <1>2, <1>3 DEF LateCalm
  <2>6. LateCalm(late', own', row', fence')
    <3>1. NoReopen(late') BY Zenon, <2>5 DEF NoReopen
    <3>2. \A k \in late' : k.op = "update" => Gone(own') /\ Young(k.p, fence', late')
      BY Zenon, <1>1, <1>2, <2>2, <2>3, <2>5 DEF LateCalm, Young
    <3> QED BY Zenon, <3>1, <3>2, <2>5 DEF LateCalm
  <2>7. own'.pc \in Holding => Young(own'.seen, fence', late') BY Zenon, <1>1, <1>2, <2>3 DEF Young
  <2>8. OtherYoung(other', own', planCancelled', fence', late') BY Zenon, <1>1, <1>2, <2>2, <2>3 DEF OtherYoung, Young
  <2>9. Gone(own') /\ Shape(own') BY Zenon, <1>1, <2>2 DEF Quiet
  <2> QED BY <2>4, <2>6, <2>7, <2>8, <2>9 DEF Quiet
<1>4. CASE q.op # "reopen" \/ UNCHANGED <<row, fence>>
  <2>1. q.op = "update" => Gone(own) /\ (q.p.status = "running" => q.p.token > fence) BY <1>2 DEF LateCalm, Young
  <2>2. Settles /\ (q.op # "update" => (row.status # "queued" => row'.status # "queued"))
    <3>1. CASE Accepts(q) /\ Apply(q) /\ q.op # "reopen" BY <1>2, <2>1, <3>1, ApplySettles
    <3>2. CASE UNCHANGED <<row, fence>> BY <1>2, <3>2 DEF Settles
    <3> QED BY <1>1, <1>4, <3>1, <3>2
  <2>3. ~Gone(own) /\ After(own) => row'.status # "queued" BY <1>2, <2>1, <2>2 DEF OwnCalm
  <2>4. Follows(own, own', row, row', planCancelled) BY <1>1, <2>2, <2>3, SelfFollows
  <2>5. \A k \in late' : k \in late \/ k.op \notin {"update", "reopen"} BY <1>1
  <2> QED BY Zenon, <1>1, <2>2, <2>4, <2>5, Advance
<1> QED BY <1>1, <1>3, <1>4

LEMMA QuietInitially == Init => JInv
<1> SUFFICES ASSUME Init PROVE JInv OBVIOUS
<1>1. Counters BY ExecutionAssumption DEF Init, Counters
<1>2. own.pc = "queued" /\ own.phase = "outside" /\ row.status = "queued" /\ other.pc = "idle" /\ late = {}
  BY DEF Init, QueuedPayload
<1>3. Shape(own) /\ OwnCalm(own, row) /\ own.pc \notin Holding
  BY <1>2 DEF Shape, OwnCalm, After, GonePhases, Releasing, Holding
<1>4. LateCalm(late, own, row, fence) BY <1>2 DEF LateCalm, NoReopen
<1>5. OtherYoung(other, own, planCancelled, fence, late) /\ OtherCalm(other, own, planCancelled, row)
  BY <1>2 DEF OtherYoung, OtherCalm
<1> QED BY <1>1, <1>2, <1>3, <1>4, <1>5 DEF JInv, Quiet

LEMMA UndisturbedInvariant == Spec => []JInv
<1>1. ASSUME IInv, JInv, [Next]_vars PROVE JInv'
  <2>1. CASE UNCHANGED vars BY <1>1, <2>1 DEF vars, JInv, Counters, Undisturbed, Quiet
  <2>2. CASE Next
    <3>1. Counters' /\ (Undisturbed' => Undisturbed /\ env' = env /\ sweeps' = sweeps)
      BY Zenon, <1>1, <2>2, NextCounts, StaysUndisturbed DEF JInv
    <3>2. ASSUME Undisturbed' PROVE Quiet'
      <4>1. Quiet /\ Counters /\ env' = env /\ sweeps' = sweeps BY Zenon, <1>1, <3>1, <3>2 DEF JInv
      <4> QED BY Zenon, <1>1, <2>2, <4>1, QuietPrepare, QuietAwait, QuietClaim, QuietWrite, QuietForce, QuietLook,
                 QuietRelease, QuietReopen, QuietRetry, QuietClose, QuietGone, QuietExecutor, QuietOthers,
                 QuietLeave, QuietLand DEF Next, Owner, Settle, Finish
    <3> QED BY Zenon, <3>1, <3>2 DEF JInv
  <2> QED BY <1>1, <2>1, <2>2
<1> QED BY <1>1, QuietInitially, ExecutionInvariant, PTL DEF Spec

\* When the submitter has closed the batch of an undisturbed run, the run is
\* settled: whatever timeouts, cancellations, retries and calls of abandoned
\* executors it went through.
THEOREM ClosedBatchesAreSettled == Spec => []DoneIsSettled
<1>1. JInv => DoneIsSettled
  BY DEF JInv, Quiet, DoneIsSettled, IsSettled, OwnCalm, Gone, Shape, GonePcs, GonePhases, Releasing
<1> QED BY <1>1, UndisturbedInvariant, PTL

\* While no call is lost and no sweep takes the run from its live owner, a row
\* is running only under a token claimed for its current attempt, however many
\* attempts a run has: neither calls nor rows read before a retry bring an old
\* worker back.
THEOREM UndisturbedTokens == Spec => [](Undisturbed => (row.status = "running" => row.token > fence))
<1>1. JInv => (Undisturbed => (row.status = "running" => row.token > fence)) BY DEF JInv, Quiet
<1> QED BY <1>1, UndisturbedInvariant, PTL
=============================================================================
