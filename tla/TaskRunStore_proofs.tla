------------------------ MODULE TaskRunStore_proofs ------------------------
(***************************************************************************)
(* Proofs about the task-runtime store, for any set of runs and clients    *)
(* and any number of attempts and claims, and about the heartbeat that     *)
(* keeps its batches from being swept (BatchHeartbeat), for every          *)
(* interval, deadline, stale window and bound.                             *)
(***************************************************************************)
EXTENDS TaskRunStore, BatchHeartbeat, TLAPS

\* Every edit of a payload that an RPC makes yields a payload.
LEMMA PayloadEdits ==
  ASSUME NEW p \in Payload
  PROVE  /\ \A t \in Nat : ClaimedPayload(p, t) \in Payload
         /\ \A res \in Result : /\ CommittedPayload(p, res) \in Payload
                                /\ [p EXCEPT !.status = res.status, !.err = res.err] \in Payload
         /\ ReopenPayload(p) \in Payload
         /\ CancelledPayload(p) \in Payload
         /\ SweptPayload(p) \in Payload
         /\ SweptResult(p) \in Result
<1> USE DEF Payload, Result, TaskStatus, TerminalRun, ActiveRun, RetryableRun,
            AbsorbingRun, ErrorClass, NoToken
<1>1. \A t \in Nat : ClaimedPayload(p, t) \in Payload
  BY DEF ClaimedPayload
<1>2. ASSUME NEW res \in Result
      PROVE  /\ CommittedPayload(p, res) \in Payload
             /\ [p EXCEPT !.status = res.status, !.err = res.err] \in Payload
  BY DEF CommittedPayload
<1>3. ReopenPayload(p) \in Payload
  <2> DEFINE n == p.attempt + 1
  <2>1. n \in Nat
    OBVIOUS
  <2> HIDE DEF n
  <2>2. [p EXCEPT !.status = "queued", !.attempt = n, !.token = NoToken] \in Payload
    BY <2>1
  <2> QED BY <2>2 DEF ReopenPayload, n
<1>4. CancelledPayload(p) \in Payload
  BY DEF CancelledPayload
<1>5. SweptPayload(p) \in Payload
  BY DEF SweptPayload, SweptStatus
<1>6. SweptResult(p) \in Result
  BY DEF SweptResult, SweptStatus
<1> QED BY <1>1, <1>2, <1>3, <1>4, <1>5, <1>6

\* A row in some status of the state machine exists, and holds a payload.
LEMMA RowExists ==
  ASSUME NEW p \in Payload \cup {NoRun}, p.status \in TaskStatus \/ p # NoRun
  PROVE  p \in Payload
  BY DEF NoRun, TaskStatus, ActiveRun, TerminalRun, RetryableRun, AbsorbingRun

LEMMA ResultsTyped == TerminalResults \subseteq Result
  BY DEF TerminalResults, Result, TerminalRun, RetryableRun, AbsorbingRun, ErrorClass

LEMMA QueuedTyped == QueuedPayload \in Payload
  BY DEF QueuedPayload, Payload, TaskStatus, ActiveRun, ErrorClass, NoToken

\* The type invariant is preserved by every RPC.
LEMMA TypeStep == TypeOK /\ [Next]_vars => TypeOK'
<1> SUFFICES ASSUME TypeOK, [Next]_vars PROVE TypeOK'
  OBVIOUS
<1> USE DEF TypeOK
<1>1. CASE CreateBatch
  BY <1>1 DEF CreateBatch, Batch, BatchStatus, ActiveBatch
<1>2. ASSUME NEW s \in TerminalBatch, UpdateBatch(s) PROVE TypeOK'
  BY <1>2 DEF UpdateBatch, Batch, BatchStatus, NoBatch
<1>3. CASE HeartbeatBatch
  BY <1>3 DEF HeartbeatBatch, Batch, NoBatch, ActiveBatch
<1>4. CASE LivenessExpires
  BY <1>4 DEF LivenessExpires, Batch, NoBatch
<1>5. CASE CancelBatch
  <2>1. batch' \in Batch
    BY <1>5 DEF CancelBatch, Batch, NoBatch, BatchStatus, ActiveBatch, TerminalBatch,
                TerminalRun, AbsorbingRun
  <2>2. \A r \in Runs : CancelledPayload(run[r]) \in Payload \cup {NoRun}
    <3> SUFFICES ASSUME NEW r \in Runs
                 PROVE  CancelledPayload(run[r]) \in Payload \cup {NoRun}
      OBVIOUS
    <3>1. CASE run[r] \in Payload
      BY <3>1, PayloadEdits
    <3>2. CASE run[r] = NoRun
      BY <3>2 DEF CancelledPayload, NoRun, ActiveRun
    <3> QED BY <3>1, <3>2
  <2> QED BY <1>5, <2>1, <2>2 DEF CancelBatch
<1>6. CASE SweepStaleRuns
  <2>1. \A r \in Runs : run[r].status \in ActiveRun =>
          SweptPayload(run[r]) \in Payload /\ SweptResult(run[r]) \in Result
    <3> SUFFICES ASSUME NEW r \in Runs, run[r].status \in ActiveRun
                 PROVE  SweptPayload(run[r]) \in Payload /\ SweptResult(run[r]) \in Result
      OBVIOUS
    <3>1. run[r] \in Payload
      BY RowExists DEF TaskStatus
    <3> QED BY <3>1, PayloadEdits
  <2> QED BY <1>6, <2>1 DEF SweepStaleRuns
<1>7. ASSUME NEW r \in Runs, ClaimRun(r) PROVE TypeOK'
  <2>1. run[r] \in Payload
    BY <1>7, RowExists DEF ClaimRun, ensureClaimable, TaskStatus, ActiveRun
  <2>2. issued + 1 \in Nat
    OBVIOUS
  <2>3. ClaimedPayload(run[r], issued + 1) \in Payload
    BY <2>1, <2>2, PayloadEdits
  <2> QED BY <1>7, <2>2, <2>3 DEF ClaimRun
<1>8. ASSUME NEW r \in Runs, NEW t \in 1..issued, NEW res \in TerminalResults,
             WriteResult(r, t, res)
      PROVE  TypeOK'
  <2>1. run[r] \in Payload /\ res \in Result
    BY <1>8, RowExists, ResultsTyped DEF WriteResult, ensureToken, TaskStatus, ActiveRun
  <2>2. CommittedPayload(run[r], res) \in Payload
    BY <2>1, PayloadEdits
  <2> QED BY <1>8, <2>1, <2>2 DEF WriteResult
<1>9. ASSUME NEW r \in Runs, CancelRun(r) PROVE TypeOK'
  <2>1. run[r] \in Payload
    BY <1>9, RowExists DEF CancelRun, TaskStatus
  <2>2. CancelledPayload(run[r]) \in Payload
    BY <2>1, PayloadEdits
  <2> QED BY <1>9, <2>2 DEF CancelRun
<1>10. ASSUME NEW r \in Runs, NEW c \in Clients, CreateRun(c, r) PROVE TypeOK'
  BY <1>10, QueuedTyped DEF CreateRun
<1>11. ASSUME NEW r \in Runs, NEW c \in Clients, GetRun(c, r) PROVE TypeOK'
  BY <1>11 DEF GetRun
<1>12. ASSUME NEW r \in Runs, NEW c \in Clients, UpdateRunFromView(c, r) PROVE TypeOK'
  BY <1>12 DEF UpdateRunFromView, UpdateRun
<1>13. ASSUME NEW r \in Runs, NEW c \in Clients, NEW res \in TerminalResults,
              ForceUpdateStranded(c, r, res)
       PROVE  TypeOK'
  <2>1. view[c][r] \in Payload /\ res \in Result
    BY <1>13, RowExists, ResultsTyped DEF ForceUpdateStranded, TaskStatus, ActiveRun
  <2>2. [view[c][r] EXCEPT !.status = res.status, !.err = res.err] \in Payload
    BY <2>1, PayloadEdits
  <2> QED BY <1>13, <2>2 DEF ForceUpdateStranded, UpdateRun
<1>14. ASSUME NEW r \in Runs, NEW c \in Clients, ReopenRunForRetry(c, r) PROVE TypeOK'
  <2>1. view[c][r] \in Payload
    BY <1>14, RowExists DEF ReopenRunForRetry, TaskStatus, TerminalRun
  <2>2. ReopenPayload(view[c][r]) \in Payload
    BY <2>1, PayloadEdits
  <2> QED BY <1>14, <2>2 DEF ReopenRunForRetry
<1>15. CASE UNCHANGED vars
  BY <1>15 DEF vars
<1> QED
  BY <1>1, <1>2, <1>3, <1>4, <1>5, <1>6, <1>7, <1>8, <1>9, <1>10, <1>11, <1>12,
     <1>13, <1>14, <1>15 DEF Next

\* The store keeps well-formed rows, results and snapshots (the columns the
\* DAL projects from the payloads it is sent).
THEOREM TypeCorrect == Spec => []TypeOK
<1>1. Init => TypeOK
  BY DEF Init, TypeOK
<1> QED BY <1>1, TypeStep, PTL DEF Spec
-----------------------------------------------------------------------------
(* Results and settled statuses *)

RowInv == TypeOK /\ ResultMatchesStatus

\* All a step can do to one row and its result: nothing, insert the row, move
\* an active row, rewrite a settled row in its status, or reopen it.
RowStep(r) ==
  \/ run'[r] = run[r] /\ result'[r] = result[r]
  \/ run[r] = NoRun /\ run'[r].status = "queued" /\ result'[r] = result[r]
  \/ /\ run[r].status \in ActiveRun
     /\ \/ run'[r].status \in TaskStatus /\ result'[r] = NoResult
        \/ run'[r].status \in TerminalRun /\ result'[r].status = run'[r].status
  \/ /\ run[r].status \in TerminalRun
     /\ run'[r].status = run[r].status
     /\ result'[r] = result[r]
  \/ SettledStatusLeft(r) /\ result'[r] = NoResult

\* An active row has no result yet.
LEMMA ActiveHasNoResult ==
  ASSUME RowInv, NEW r \in Runs, run[r].status \notin TerminalRun
  PROVE  result[r] = NoResult
  BY DEF RowInv, TypeOK, ResultMatchesStatus, Result, NoResult, TerminalRun

\* UpdateRun alone: what it can do to the row it addresses.
LEMMA UpdateRunStep ==
  ASSUME RowInv, NEW r \in Runs, NEW p \in Payload, UpdateRun(r, p)
  PROVE  \A q \in Runs : RowStep(q)
<1> SUFFICES ASSUME NEW q \in Runs PROVE RowStep(q)
  OBVIOUS
<1>1. CASE q # r
  BY <1>1 DEF UpdateRun, RowStep, RowInv, TypeOK
<1>2. CASE q = r
  <2>1. run'[r] = p /\ run[r] \in Payload
    BY RowExists DEF UpdateRun, RowInv, TypeOK
  <2>2. p.status \in TaskStatus /\ run[r].status \in TaskStatus
    BY <2>1 DEF Payload
  <2>3. CASE p.status \in ActiveRun
    <3>1. run[r].status \in ActiveRun /\ result'[r] = NoResult
      BY <2>2, <2>3 DEF UpdateRun, protectTerminalStatus, shouldClearResultForRunUpdate,
            TaskStatus, TerminalRun, ActiveRun, RetryableRun, AbsorbingRun, RowInv, TypeOK
    <3> QED BY <1>2, <2>1, <2>2, <3>1 DEF RowStep
  <2>4. CASE p.status \in TerminalRun
    <3>1. result'[r] = result[r]
      BY <2>4 DEF UpdateRun, shouldClearResultForRunUpdate, TerminalRun, ActiveRun,
                  RetryableRun, AbsorbingRun
    <3>2. run[r].status \in ActiveRun \/ run[r].status = p.status
      BY <2>2, <2>4 DEF UpdateRun, protectTerminalStatus, TaskStatus
    <3>3. CASE run[r].status \in ActiveRun
      <4>1. result[r] = NoResult
        BY <3>3, ActiveHasNoResult DEF ActiveRun, TerminalRun, RetryableRun, AbsorbingRun
      <4> QED BY <1>2, <2>1, <2>2, <3>1, <3>3, <4>1 DEF RowStep
    <3>4. CASE run[r].status = p.status
      BY <1>2, <2>1, <2>4, <3>1, <3>4 DEF RowStep
    <3> QED BY <3>2, <3>3, <3>4
  <2> QED BY <2>2, <2>3, <2>4 DEF TaskStatus
<1> QED BY <1>1, <1>2

LEMMA RowStepLemma == RowInv /\ [Next]_vars => \A r \in Runs : RowStep(r)
<1> SUFFICES ASSUME RowInv, [Next]_vars PROVE \A q \in Runs : RowStep(q)
  OBVIOUS
<1> USE DEF RowInv, TypeOK
<1>1. CASE CreateBatch \/ HeartbeatBatch \/ LivenessExpires
           \/ (\E s \in TerminalBatch : UpdateBatch(s)) \/ UNCHANGED vars
  BY <1>1 DEF CreateBatch, HeartbeatBatch, LivenessExpires, UpdateBatch, vars, RowStep
<1>2. CASE CancelBatch
  <2> SUFFICES ASSUME NEW q \in Runs PROVE RowStep(q)
    OBVIOUS
  <2>1. CASE run[q].status \in ActiveRun
    <3>1. run[q] \in Payload /\ result[q] = NoResult
      BY <2>1, RowExists, ActiveHasNoResult
         DEF TaskStatus, ActiveRun, TerminalRun, RetryableRun, AbsorbingRun
    <3>2. run'[q].status = "cancelled" /\ result'[q] = NoResult
      BY <1>2, <2>1, <3>1 DEF CancelBatch, CancelledPayload, Payload
    <3> QED BY <2>1, <3>2 DEF RowStep, TaskStatus, TerminalRun, AbsorbingRun
  <2>2. CASE run[q].status \notin ActiveRun
    BY <1>2, <2>2 DEF CancelBatch, CancelledPayload, RowStep
  <2> QED BY <2>1, <2>2
<1>3. CASE SweepStaleRuns
  <2> SUFFICES ASSUME NEW q \in Runs PROVE RowStep(q)
    OBVIOUS
  <2>1. CASE run[q].status \in ActiveRun
    <3>1. run[q] \in Payload
      BY <2>1, RowExists DEF TaskStatus
    <3>2. run'[q] = SweptPayload(run[q]) /\ result'[q] = SweptResult(run[q])
      BY <1>3, <2>1 DEF SweepStaleRuns
    <3>3. run'[q].status = SweptStatus(run[q]) /\ result'[q].status = SweptStatus(run[q])
      BY <3>1, <3>2 DEF SweptPayload, SweptResult, Payload
    <3> QED BY <2>1, <3>3 DEF RowStep, SweptStatus, TerminalRun, RetryableRun
  <2>2. CASE run[q].status \notin ActiveRun
    BY <1>3, <2>2 DEF SweepStaleRuns, RowStep
  <2> QED BY <2>1, <2>2
<1>4. ASSUME NEW r \in Runs, ClaimRun(r) PROVE \A q \in Runs : RowStep(q)
  <2> SUFFICES ASSUME NEW q \in Runs PROVE RowStep(q)
    OBVIOUS
  <2>1. run[r] \in Payload
    BY <1>4, RowExists DEF ClaimRun, ensureClaimable, TaskStatus, ActiveRun
  <2>2. run'[r].status = "running" /\ result'[r] = NoResult
    BY <1>4, <2>1 DEF ClaimRun, ClaimedPayload, Payload
  <2> QED BY <1>4, <2>2 DEF ClaimRun, ensureClaimable, RowStep, ActiveRun, TaskStatus
<1>5. ASSUME NEW r \in Runs, NEW t \in 1..issued, NEW res \in TerminalResults,
             WriteResult(r, t, res)
      PROVE  \A q \in Runs : RowStep(q)
  <2> SUFFICES ASSUME NEW q \in Runs PROVE RowStep(q)
    OBVIOUS
  <2>1. run[r] \in Payload /\ res.status \in TerminalRun
    BY <1>5, RowExists, ResultsTyped DEF WriteResult, ensureToken, TaskStatus, ActiveRun, Result
  <2>2. run'[r].status = res.status /\ result'[r] = res
    BY <1>5, <2>1 DEF WriteResult, CommittedPayload, Payload
  <2> QED BY <1>5, <2>1, <2>2 DEF WriteResult, ensureToken, RowStep, ActiveRun
<1>6. ASSUME NEW r \in Runs, CancelRun(r) PROVE \A q \in Runs : RowStep(q)
  <2> SUFFICES ASSUME NEW q \in Runs PROVE RowStep(q)
    OBVIOUS
  <2>1. run[r] \in Payload /\ result[r] = NoResult
    BY <1>6, RowExists, ActiveHasNoResult
       DEF CancelRun, TaskStatus, ActiveRun, TerminalRun, RetryableRun, AbsorbingRun
  <2>2. run'[r].status = "cancelled"
    BY <1>6, <2>1 DEF CancelRun, CancelledPayload, Payload
  <2> QED BY <1>6, <2>1, <2>2 DEF CancelRun, RowStep, TaskStatus, TerminalRun, AbsorbingRun
<1>7. ASSUME NEW r \in Runs, NEW c \in Clients, CreateRun(c, r) PROVE \A q \in Runs : RowStep(q)
  BY <1>7 DEF CreateRun, QueuedPayload, RowStep
<1>8. ASSUME NEW r \in Runs, NEW c \in Clients, GetRun(c, r) PROVE \A q \in Runs : RowStep(q)
  BY <1>8 DEF GetRun, RowStep
<1>9. ASSUME NEW r \in Runs, NEW c \in Clients, UpdateRunFromView(c, r)
      PROVE  \A q \in Runs : RowStep(q)
  <2>1. view[c][r] \in Payload
    BY <1>9, RowExists DEF UpdateRunFromView
  <2> QED BY <1>9, <2>1, UpdateRunStep DEF UpdateRunFromView
<1>10. ASSUME NEW r \in Runs, NEW c \in Clients, NEW res \in TerminalResults,
              ForceUpdateStranded(c, r, res)
       PROVE  \A q \in Runs : RowStep(q)
  <2>1. view[c][r] \in Payload /\ res \in Result
    BY <1>10, RowExists, ResultsTyped DEF ForceUpdateStranded, TaskStatus, ActiveRun
  <2>2. [view[c][r] EXCEPT !.status = res.status, !.err = res.err] \in Payload
    BY <2>1, PayloadEdits
  <2> QED BY <1>10, <2>2, UpdateRunStep DEF ForceUpdateStranded
<1>11. ASSUME NEW r \in Runs, NEW c \in Clients, ReopenRunForRetry(c, r)
       PROVE  \A q \in Runs : RowStep(q)
  <2> SUFFICES ASSUME NEW q \in Runs PROVE RowStep(q)
    OBVIOUS
  <2>1. view[c][r] \in Payload
    BY <1>11, RowExists DEF ReopenRunForRetry, TaskStatus, TerminalRun
  <2>2. run'[r] = ReopenPayload(view[c][r]) /\ result'[r] = NoResult
    BY <1>11 DEF ReopenRunForRetry
  <2>3. SettledStatusLeft(r)
    BY <1>11, <2>1, <2>2 DEF ReopenRunForRetry, ensureReopenable, ReopenPayload, Payload,
                             SettledStatusLeft
  <2> QED BY <1>11, <2>2, <2>3 DEF ReopenRunForRetry, RowStep
<1> QED
  BY <1>1, <1>2, <1>3, <1>4, <1>5, <1>6, <1>7, <1>8, <1>9, <1>10, <1>11 DEF Next

LEMMA ResultStep == RowInv /\ [Next]_vars => ResultMatchesStatus'
<1> SUFFICES ASSUME RowInv, [Next]_vars, NEW r \in Runs, result'[r] # NoResult
             PROVE  result'[r].status = run'[r].status
  BY DEF ResultMatchesStatus
<1>1. RowStep(r)
  BY RowStepLemma
<1>2. CASE run[r] = NoRun /\ run'[r].status = "queued" /\ result'[r] = result[r]
  BY <1>2, ActiveHasNoResult DEF NoRun, TerminalRun, RetryableRun, AbsorbingRun
<1> QED BY <1>1, <1>2 DEF RowStep, RowInv, ResultMatchesStatus

LEMMA RowInvariant == Spec => []RowInv
<1>1. Init => RowInv
  BY DEF Init, RowInv, TypeOK, ResultMatchesStatus
<1>2. RowInv /\ [Next]_vars => RowInv'
  BY TypeStep, ResultStep DEF RowInv
<1> QED BY <1>1, <1>2, PTL DEF Spec

\* A stored result always belongs to the status its row is in (the result_json
\* column against the status column, over every order of RPCs).
THEOREM ResultsMatch == Spec => []ResultMatchesStatus
<1>1. RowInv => ResultMatchesStatus
  BY DEF RowInv
<1> QED BY <1>1, RowInvariant, PTL

\* Only a retry reopen takes a run out of a settled status (UpdateRun's status
\* guard, ClaimRun's and ReopenRunForRetry's preconditions).
THEOREM SettledRunsStay == Spec => OnlyReopenLeavesTerminal
<1>1. RowInv /\ [Next]_vars =>
        [\A r \in Runs : run[r].status \in TerminalRun =>
           run'[r].status = run[r].status \/ SettledStatusLeft(r)]_vars
  <2> SUFFICES ASSUME RowInv, [Next]_vars, NEW r \in Runs, run[r].status \in TerminalRun
               PROVE  run'[r].status = run[r].status \/ SettledStatusLeft(r)
    OBVIOUS
  <2>1. RowStep(r)
    BY RowStepLemma
  <2> QED BY <2>1 DEF RowStep, NoRun, TerminalRun, RetryableRun, AbsorbingRun, ActiveRun
<1> QED BY <1>1, RowInvariant, PTL DEF Spec, OnlyReopenLeavesTerminal

\* A committed result survives everything but the reopen of its run.
THEOREM CommittedResultsStay == Spec => CommittedResultKept
<1>1. RowInv /\ [Next]_vars =>
        [\A r \in Runs : result[r] # NoResult =>
           result'[r] = result[r] \/ (result'[r] = NoResult /\ SettledStatusLeft(r))]_vars
  <2> SUFFICES ASSUME RowInv, [Next]_vars, NEW r \in Runs, result[r] # NoResult
               PROVE  result'[r] = result[r] \/ (result'[r] = NoResult /\ SettledStatusLeft(r))
    OBVIOUS
  <2>1. RowStep(r)
    BY RowStepLemma
  <2>2. run[r].status \in TerminalRun
    BY ActiveHasNoResult
  <2> QED BY <2>1, <2>2 DEF RowStep, TerminalRun, RetryableRun, AbsorbingRun, ActiveRun
<1> QED BY <1>1, RowInvariant, PTL DEF Spec, CommittedResultKept
-----------------------------------------------------------------------------
(* Fencing tokens *)

\* Tokens in rows and snapshots of a run come from its earlier rows and
\* snapshots, or from a claim of that run.
TokenStep ==
  \/ issued' = issued /\ \A r \in Runs : TokensOf(r)' \subseteq TokensOf(r)
  \/ /\ issued' = issued + 1
     /\ \E q \in Runs :
          /\ TokensOf(q)' \subseteq TokensOf(q) \cup {issued + 1}
          /\ \A r \in Runs \ {q} : TokensOf(r)' \subseteq TokensOf(r)

LEMMA TokenStepLemma == TypeOK /\ [Next]_vars => TokenStep
<1> SUFFICES ASSUME TypeOK, [Next]_vars PROVE TokenStep
  OBVIOUS
<1> USE DEF TypeOK, TokensOf
<1>1. CASE CreateBatch \/ HeartbeatBatch \/ LivenessExpires
           \/ (\E s \in TerminalBatch : UpdateBatch(s)) \/ UNCHANGED vars
  BY <1>1 DEF CreateBatch, HeartbeatBatch, LivenessExpires, UpdateBatch, vars, TokenStep
<1>2. CASE CancelBatch
  <2>1. ASSUME NEW r \in Runs PROVE run'[r].token \in {run[r].token, NoToken}
    <3>1. CASE run[r].status \in ActiveRun
      <4>1. run[r] \in Payload /\ run'[r] = CancelledPayload(run[r])
        BY <1>2, <3>1, RowExists DEF CancelBatch, TaskStatus
      <4> QED BY <3>1, <4>1 DEF CancelledPayload, Payload
    <3>2. CASE run[r].status \notin ActiveRun
      BY <1>2, <3>2 DEF CancelBatch, CancelledPayload
    <3> QED BY <3>1, <3>2
  <2> QED BY <1>2, <2>1 DEF CancelBatch, TokenStep
<1>3. CASE SweepStaleRuns
  <2>1. ASSUME NEW r \in Runs PROVE run'[r].token \in {run[r].token, NoToken}
    <3>1. CASE run[r].status \in ActiveRun
      <4>1. run[r] \in Payload /\ run'[r] = SweptPayload(run[r])
        BY <1>3, <3>1, RowExists DEF SweepStaleRuns, TaskStatus
      <4> QED BY <4>1 DEF SweptPayload, Payload
    <3>2. CASE run[r].status \notin ActiveRun
      BY <1>3, <3>2 DEF SweepStaleRuns
    <3> QED BY <3>1, <3>2
  <2> QED BY <1>3, <2>1 DEF SweepStaleRuns, TokenStep
<1>4. ASSUME NEW q \in Runs, ClaimRun(q) PROVE TokenStep
  <2>1. run[q] \in Payload
    BY <1>4, RowExists DEF ClaimRun, ensureClaimable, TaskStatus, ActiveRun
  <2>2. run'[q].token = issued + 1 /\ \A r \in Runs \ {q} : run'[r] = run[r]
    BY <1>4, <2>1 DEF ClaimRun, ClaimedPayload, Payload
  <2> QED BY <1>4, <2>2 DEF ClaimRun, TokenStep
<1>5. ASSUME NEW q \in Runs, NEW t \in 1..issued, NEW res \in TerminalResults,
             WriteResult(q, t, res)
      PROVE  TokenStep
  <2>1. run[q] \in Payload
    BY <1>5, RowExists DEF WriteResult, ensureToken, TaskStatus, ActiveRun
  <2>2. run'[q].token = NoToken /\ \A r \in Runs \ {q} : run'[r] = run[r]
    BY <1>5, <2>1 DEF WriteResult, CommittedPayload, Payload
  <2> QED BY <1>5, <2>2 DEF WriteResult, TokenStep
<1>6. ASSUME NEW q \in Runs, CancelRun(q) PROVE TokenStep
  <2>1. run[q] \in Payload
    BY <1>6, RowExists DEF CancelRun, TaskStatus
  <2>2. run'[q].token = NoToken /\ \A r \in Runs \ {q} : run'[r] = run[r]
    BY <1>6, <2>1 DEF CancelRun, CancelledPayload, Payload
  <2> QED BY <1>6, <2>2 DEF CancelRun, TokenStep
<1>7. ASSUME NEW q \in Runs, NEW c \in Clients, CreateRun(c, q) PROVE TokenStep
  BY <1>7 DEF CreateRun, QueuedPayload, TokenStep
<1>8. ASSUME NEW q \in Runs, NEW c \in Clients, GetRun(c, q) PROVE TokenStep
  BY <1>8 DEF GetRun, TokenStep
<1>9. ASSUME NEW q \in Runs, NEW c \in Clients, UpdateRunFromView(c, q) PROVE TokenStep
  BY <1>9 DEF UpdateRunFromView, UpdateRun, TokenStep
<1>10. ASSUME NEW q \in Runs, NEW c \in Clients, NEW res \in TerminalResults,
              ForceUpdateStranded(c, q, res)
       PROVE  TokenStep
  <2>1. view[c][q] \in Payload
    BY <1>10, RowExists DEF ForceUpdateStranded, TaskStatus, ActiveRun
  <2>2. run'[q].token = view[c][q].token /\ \A r \in Runs \ {q} : run'[r] = run[r]
    BY <1>10, <2>1 DEF ForceUpdateStranded, UpdateRun, Payload
  <2> QED BY <1>10, <2>2 DEF ForceUpdateStranded, UpdateRun, TokenStep
<1>11. ASSUME NEW q \in Runs, NEW c \in Clients, ReopenRunForRetry(c, q) PROVE TokenStep
  <2>1. view[c][q] \in Payload
    BY <1>11, RowExists DEF ReopenRunForRetry, TaskStatus, TerminalRun
  <2>2. ReopenPayload(view[c][q]).token = NoToken
    BY <2>1 DEF ReopenPayload, Payload
  <2> QED BY <1>11, <2>2 DEF ReopenRunForRetry, TokenStep
<1> QED
  BY <1>1, <1>2, <1>3, <1>4, <1>5, <1>6, <1>7, <1>8, <1>9, <1>10, <1>11 DEF Next

\* A fencing token names one run for ever (ensureToken compares the presented
\* token with the row's fencing_token column and nothing else).
THEOREM TokensNameOneRun == Spec => []TokenNamesOneRun
<1>1. Init => TokenNamesOneRun
  BY DEF Init, TokenNamesOneRun, TokensOf, NoRun
<1>2. TypeOK /\ TokenNamesOneRun /\ [Next]_vars => TokenNamesOneRun'
  <2> SUFFICES ASSUME TypeOK, TokenNamesOneRun, [Next]_vars PROVE TokenNamesOneRun'
    OBVIOUS
  <2>1. TokenStep
    BY TokenStepLemma
  <2>2. CASE issued' = issued /\ \A r \in Runs : TokensOf(r)' \subseteq TokensOf(r)
    BY <2>2 DEF TokenNamesOneRun
  <2>3. ASSUME issued' = issued + 1, NEW q \in Runs,
               TokensOf(q)' \subseteq TokensOf(q) \cup {issued + 1},
               \A r \in Runs \ {q} : TokensOf(r)' \subseteq TokensOf(r)
        PROVE  TokenNamesOneRun'
    <3>1. \A r \in Runs : issued + 1 \notin TokensOf(r)
      BY DEF TokenNamesOneRun, TypeOK
    <3>2. \A r \in Runs : TokensOf(r)' \subseteq 1..issued'
      BY <2>3 DEF TokenNamesOneRun, TypeOK
    <3>3. \A r, p \in Runs : r # p => TokensOf(r)' \cap TokensOf(p)' = {}
      BY <2>3, <3>1 DEF TokenNamesOneRun
    <3> QED BY <3>2, <3>3 DEF TokenNamesOneRun
  <2> QED BY <2>1, <2>2, <2>3 DEF TokenStep
<1> QED BY <1>1, <1>2, TypeCorrect, PTL DEF Spec

-----------------------------------------------------------------------------
(* The batch, and the ledger *)

\* No RPC changes the status of a terminal batch (UpdateBatch, HeartbeatBatch
\* and CancelBatch all look at the stored status first).
THEOREM TerminalBatchStays == Spec => TerminalBatchFrozen
<1>1. TypeOK /\ [Next]_vars =>
        [batch.status \in TerminalBatch => batch'.status = batch.status]_vars
  <2> SUFFICES ASSUME TypeOK, [Next]_vars, batch.status \in TerminalBatch
               PROVE  batch'.status = batch.status
    OBVIOUS
  <2> USE DEF TerminalBatch, TerminalRun, RetryableRun, AbsorbingRun, ActiveBatch
  <2>1. CASE CreateBatch \/ HeartbeatBatch \/ CancelBatch
             \/ (\E s \in TerminalBatch : UpdateBatch(s))
    BY <2>1 DEF CreateBatch, NoBatch, HeartbeatBatch, CancelBatch, UpdateBatch,
                batchUpdateDecision
  <2>2. CASE LivenessExpires
    BY <2>2 DEF LivenessExpires, TypeOK, Batch, NoBatch
  <2>3. CASE SweepStaleRuns \/ UNCHANGED vars
    BY <2>3 DEF SweepStaleRuns, vars
  <2>4. ASSUME NEW r \in Runs,
               ClaimRun(r) \/ CancelRun(r)
               \/ (\E t \in 1..issued, res \in TerminalResults : WriteResult(r, t, res))
        PROVE  batch' = batch
    BY <2>4 DEF ClaimRun, WriteResult, CancelRun
  <2>5. ASSUME NEW r \in Runs, NEW c \in Clients,
               CreateRun(c, r) \/ GetRun(c, r) \/ UpdateRunFromView(c, r)
               \/ ReopenRunForRetry(c, r)
               \/ (\E res \in TerminalResults : ForceUpdateStranded(c, r, res))
        PROVE  batch' = batch
    BY <2>5 DEF CreateRun, GetRun, UpdateRunFromView, ForceUpdateStranded, UpdateRun,
                ReopenRunForRetry
  <2> QED BY <2>1, <2>2, <2>3, <2>4, <2>5 DEF Next
<1> QED BY <1>1, TypeCorrect, PTL DEF Spec, TerminalBatchFrozen

\* The ledger's statuses are the store's.
LEMMA LedgerSets ==
  /\ Ledger!RetryableRun = RetryableRun
  /\ Ledger!TerminalRun = TerminalRun
  /\ Ledger!TerminalBatch = TerminalBatch
  BY DEF Ledger!RetryableRun, Ledger!TerminalRun, Ledger!TerminalBatch, Ledger!AbsorbingRun,
         RetryableRun, TerminalRun, TerminalBatch, AbsorbingRun

LedgerStep == Ledger!Next \/ UNCHANGED <<Outcome, Verdict>>

\* A step that touches one row and not the batch status is a ledger step.
LEMMA OneRowStep ==
  ASSUME RowInv, NEW q \in Runs, RowStep(q), Verdict' = Verdict,
         \A r \in Runs \ {q} : run'[r] = run[r]
  PROVE  LedgerStep
<1> DEFINE out(p) == IF p.status \in ActiveRun THEN "open" ELSE p.status
<1> USE DEF LedgerStep
<1>1. \A r \in Runs : Outcome[r] = out(run[r]) /\ Outcome'[r] = out(run'[r])
  BY DEF Outcome
<1>2. \A v : v = out(run'[q]) => Outcome' = [Outcome EXCEPT ![q] = v]
  BY DEF Outcome
<1>3. CASE out(run'[q]) = out(run[q])
  BY <1>3 DEF Outcome
<1>4. CASE run[q] = NoRun /\ run'[q].status = "queued"
  <2>1. Outcome[q] = "none" /\ Outcome' = [Outcome EXCEPT ![q] = "open"]
    BY <1>1, <1>2, <1>4 DEF NoRun, ActiveRun
  <2> QED BY <2>1 DEF Ledger!Next, Ledger!Open
<1>5. CASE SettledStatusLeft(q)
  <2>1. Outcome[q] \in RetryableRun /\ Outcome' = [Outcome EXCEPT ![q] = "open"]
    BY <1>1, <1>2, <1>5 DEF SettledStatusLeft, ActiveRun, RetryableRun
  <2> QED BY <2>1, LedgerSets DEF Ledger!Next, Ledger!Reopen
<1>6. CASE run[q].status \in ActiveRun /\ run'[q].status \in TerminalRun
  <2> DEFINE decided == [r \in Runs |-> run'[q].status]
  <2>1. decided \in [Runs -> TerminalRun]
    BY <1>6
  <2>2. {q} \in SUBSET Runs /\ {q} \subseteq Ledger!OpenRuns
    BY <1>1, <1>6 DEF Ledger!OpenRuns
  <2>3. out(run'[q]) = decided[q]
    BY <1>6 DEF ActiveRun, TerminalRun, RetryableRun, AbsorbingRun
  <2>4. Outcome' = [r \in Runs |-> IF r \in {q} THEN decided[r] ELSE Outcome[r]]
    BY <1>2, <2>3 DEF Outcome
  <2>5. Ledger!Settle({q}, decided)
    BY <2>2, <2>4 DEF Ledger!Settle
  <2> QED BY <2>1, <2>2, <2>5, LedgerSets DEF Ledger!Next
<1> QED
  BY <1>3, <1>4, <1>5, <1>6 DEF RowStep, TaskStatus

\* A step that changes only the batch row, to a verdict it may still take.
LEMMA BatchStep ==
  ASSUME Outcome' = Outcome,
         Verdict' = Verdict \/ (Verdict = "open" /\ Verdict' \in TerminalBatch)
  PROVE  LedgerStep
  BY LedgerSets DEF LedgerStep, Ledger!Next, Ledger!Close

LEMMA LedgerStepLemma == RowInv /\ [Next]_vars => LedgerStep
<1> SUFFICES ASSUME RowInv, [Next]_vars PROVE LedgerStep
  OBVIOUS
<1> USE DEF RowInv
<1>1. CASE CreateBatch \/ HeartbeatBatch \/ LivenessExpires
           \/ (\E s \in TerminalBatch : UpdateBatch(s)) \/ UNCHANGED vars
  <2>1. Outcome' = Outcome
    BY <1>1 DEF CreateBatch, HeartbeatBatch, LivenessExpires, UpdateBatch, vars, Outcome
  <2>2. CASE \E s \in TerminalBatch : UpdateBatch(s)
    BY <2>1, <2>2, BatchStep
       DEF UpdateBatch, batchUpdateDecision, Verdict, TypeOK, Batch, NoBatch
  <2>3. CASE CreateBatch
    <3>1. Verdict' = Verdict
      BY <2>3 DEF CreateBatch, Verdict, NoBatch, TerminalBatch, TerminalRun,
                  RetryableRun, AbsorbingRun
    <3> QED BY <2>1, <3>1, BatchStep
  <2>4. CASE HeartbeatBatch \/ LivenessExpires \/ UNCHANGED vars
    <3>1. batch'.status = batch.status
      BY <2>4 DEF HeartbeatBatch, LivenessExpires, vars, TypeOK, Batch, NoBatch
    <3>2. Verdict' = Verdict
      BY <3>1 DEF Verdict
    <3> QED BY <2>1, <3>2, BatchStep
  <2> QED BY <1>1, <2>2, <2>3, <2>4
<1>2. CASE CancelBatch
  <2>1. Verdict = "open" /\ Verdict' = "cancelled"
    BY <1>2 DEF CancelBatch, Verdict, TypeOK, Batch, NoBatch, ActiveBatch, TerminalBatch,
                TerminalRun, RetryableRun, AbsorbingRun
  <2>2. ASSUME NEW r \in Runs
        PROVE  Outcome'[r] = IF r \in Ledger!OpenRuns THEN "cancelled" ELSE Outcome[r]
    <3>1. CASE run[r].status \in ActiveRun
      <4>1. run[r] \in Payload /\ run'[r] = CancelledPayload(run[r])
        BY <1>2, <3>1, RowExists DEF CancelBatch, TaskStatus, TypeOK
      <4>2. run'[r].status = "cancelled"
        BY <3>1, <4>1 DEF CancelledPayload, Payload
      <4> QED BY <3>1, <4>2 DEF Outcome, Ledger!OpenRuns, ActiveRun
    <3>2. CASE run[r].status \notin ActiveRun
      <4>1. run'[r] = run[r]
        BY <1>2, <3>2 DEF CancelBatch, CancelledPayload
      <4>2. run[r].status # "open"
        BY DEF TypeOK, Payload, NoRun, TaskStatus, ActiveRun, TerminalRun, RetryableRun,
               AbsorbingRun
      <4> QED BY <3>2, <4>1, <4>2 DEF Outcome, Ledger!OpenRuns
    <3> QED BY <3>1, <3>2
  <2>3. Outcome' = [r \in Runs |-> IF r \in Ledger!OpenRuns THEN "cancelled" ELSE Outcome[r]]
    BY <2>2 DEF Outcome
  <2> QED BY <2>1, <2>3 DEF LedgerStep, Ledger!Next, Ledger!CancelAll
<1>3. CASE SweepStaleRuns
  <2> DEFINE S == {r \in Runs : run[r].status \in ActiveRun}
             decided == [r \in Runs |-> SweptStatus(run[r])]
  <2>1. S \in SUBSET Runs /\ S \subseteq Ledger!OpenRuns /\ decided \in [Runs -> TerminalRun]
    BY DEF Ledger!OpenRuns, Outcome, SweptStatus, TerminalRun, RetryableRun
  <2>2. ASSUME NEW r \in Runs
        PROVE  Outcome'[r] = IF r \in S THEN decided[r] ELSE Outcome[r]
    <3>1. CASE r \in S
      <4>1. run[r] \in Payload /\ run'[r] = SweptPayload(run[r])
        BY <1>3, <3>1, RowExists DEF SweepStaleRuns, TaskStatus, TypeOK
      <4>2. run'[r].status = SweptStatus(run[r])
        BY <4>1 DEF SweptPayload, Payload
      <4> QED BY <3>1, <4>2 DEF Outcome, SweptStatus, ActiveRun
    <3>2. CASE r \notin S
      BY <1>3, <3>2 DEF SweepStaleRuns, Outcome
    <3> QED BY <3>1, <3>2
  <2>3. Outcome' = [r \in Runs |-> IF r \in S THEN decided[r] ELSE Outcome[r]]
    BY <2>2 DEF Outcome
  <2>4. Verdict' = Verdict
    BY <1>3 DEF SweepStaleRuns, Verdict
  <2>5. Ledger!Settle(S, decided)
    BY <2>1, <2>3, <2>4 DEF Ledger!Settle
  <2> QED BY <2>1, <2>5, LedgerSets DEF LedgerStep, Ledger!Next
<1>4. ASSUME NEW q \in Runs,
             ClaimRun(q) \/ CancelRun(q)
             \/ (\E t \in 1..issued, res \in TerminalResults : WriteResult(q, t, res))
      PROVE  LedgerStep
  <2>1. Verdict' = Verdict /\ \A r \in Runs \ {q} : run'[r] = run[r]
    BY <1>4 DEF ClaimRun, CancelRun, WriteResult, Verdict, TypeOK
  <2> QED BY <2>1, RowStepLemma, OneRowStep
<1>5. ASSUME NEW q \in Runs, NEW c \in Clients,
             CreateRun(c, q) \/ GetRun(c, q) \/ UpdateRunFromView(c, q)
             \/ ReopenRunForRetry(c, q)
             \/ (\E res \in TerminalResults : ForceUpdateStranded(c, q, res))
      PROVE  LedgerStep
  <2>1. Verdict' = Verdict /\ \A r \in Runs \ {q} : run'[r] = run[r]
    BY <1>5 DEF CreateRun, GetRun, UpdateRunFromView, ForceUpdateStranded, UpdateRun,
                ReopenRunForRetry, Verdict, TypeOK
  <2> QED BY <2>1, RowStepLemma, OneRowStep
<1> QED BY <1>1, <1>2, <1>3, <1>4, <1>5 DEF Next

\* The store implements the ledger of outcomes, whatever calls reach it.
THEOREM StoreImplementsLedger == Spec => ImplementsLedger
<1>1. Init => Ledger!Init
  BY DEF Init, Ledger!Init, Outcome, Verdict, NoRun, NoBatch, ActiveRun, TerminalBatch,
         TerminalRun, RetryableRun, AbsorbingRun
<1>2. RowInv /\ [Next]_vars => [Ledger!Next]_(Ledger!lvars)
  BY LedgerStepLemma DEF LedgerStep, Ledger!lvars
<1> QED BY <1>1, <1>2, RowInvariant, PTL DEF Spec, ImplementsLedger, Ledger!Spec

-----------------------------------------------------------------------------
(* The liveness of a batch: BatchHeartbeat *)

\* The beater runs exactly while the owner executes, except for a call that
\* outlives it, and what the batch's age is made of while it runs.
Explained ==
  /\ owner = "creating" => age <= MaxCreate /\ failures = 0 /\ beat = "stopped"
  /\ owner = "executing" => beat # "stopped" /\ failures < abort_after_failures
  /\ owner # "executing" => beat # "sleep"
  /\ owner = "executing" /\ beat = "sleep" => age <= Base + failures * Period + timer
  /\ owner = "executing" /\ beat = "call" => age <= Base + failures * Period + Interval + timer

\* Of a batch that was orphaned when the replacement started, only a call sent
\* before the start can refresh the liveness.
OrphanAges ==
  /\ orphaned => owner = "dead" /\ standby # "none"
  /\ orphaned /\ standby = "waiting" => age + RpcDeadline >= since
  /\ orphaned /\ standby = "waiting" /\ beat = "call" => timer >= since
  /\ DelayedPassRecovers

HeartbeatInv == HeartbeatTypeOK /\ Explained /\ OrphanAges

\* The derived constants are numbers, and the base covers what it is for.
LEMMA Derived ==
  /\ abort_after_failures \in Nat /\ abort_after_failures >= 1
  /\ startup_reconcile_delay \in Nat /\ startup_reconcile_delay = StaleAfter + Interval
  /\ Period \in Nat /\ Period = Interval + RpcDeadline
  /\ Base \in Nat /\ Base >= MaxCreate /\ Base >= RpcDeadline
BY HeartbeatAssumption DEF abort_after_failures, startup_reconcile_delay, Period, Base

\* One more failure explains one more period.
LEMMA OneMore == ASSUME NEW n \in Nat PROVE (n + 1) * Period = n * Period + Period /\ n * Period \in Nat
BY Derived

LEMMA HeartbeatInvInitially == HeartbeatInit => HeartbeatInv
<1> SUFFICES ASSUME HeartbeatInit PROVE HeartbeatInv
  OBVIOUS
<1>1. HeartbeatTypeOK
  <2>1. orphaned \in BOOLEAN /\ swept \in BOOLEAN
    BY Zenon DEF HeartbeatInit
  <2>2. failures \in 0..abort_after_failures /\ age \in 0..MaxAge /\ since \in 0..startup_reconcile_delay
    BY HeartbeatAssumption, Derived DEF HeartbeatInit
  <2> QED BY <2>1, <2>2 DEF HeartbeatInit, HeartbeatTypeOK
<1>2. Explained
  BY HeartbeatAssumption DEF HeartbeatInit, Explained
<1>3. OrphanAges
  BY DEF HeartbeatInit, OrphanAges, DelayedPassRecovers
<1> QED BY <1>1, <1>2, <1>3 DEF HeartbeatInv

\* Every step keeps the clocks within their bounds.
LEMMA StepHeartbeatTypeOK == HeartbeatInv /\ [HeartbeatNext]_heartbeatVars => HeartbeatTypeOK'
<1> SUFFICES ASSUME HeartbeatInv, [HeartbeatNext]_heartbeatVars PROVE HeartbeatTypeOK'
  OBVIOUS
<1> USE HeartbeatAssumption, Derived
<1>1. CASE Tick
  BY <1>1 DEF HeartbeatInv, HeartbeatTypeOK, Tick, NothingDue
<1>2. CASE BeatFails
  <2>1. failures < abort_after_failures
    BY <1>2 DEF HeartbeatInv, Explained, BeatFails
  <2> QED BY <1>2, <2>1 DEF HeartbeatInv, HeartbeatTypeOK, BeatFails
<1>3. CASE ReplacementStarts \/ DelayedPass
  <2>1. orphaned' \in BOOLEAN /\ swept' \in BOOLEAN
    BY <1>3, Zenon DEF HeartbeatInv, HeartbeatTypeOK, ReplacementStarts, DelayedPass, Reclaimed
  <2>2. since' \in 0..startup_reconcile_delay
    BY <1>3 DEF HeartbeatInv, HeartbeatTypeOK, ReplacementStarts, DelayedPass
  <2> QED BY <1>3, <2>1, <2>2 DEF HeartbeatInv, HeartbeatTypeOK, ReplacementStarts, DelayedPass
<1>4. CASE StartBeating \/ Beat \/ HeartbeatLands \/ BeatSucceeds \/ StopBeating \/ Close \/ Crash \/ CallEnds
  BY <1>4 DEF HeartbeatInv, HeartbeatTypeOK, StartBeating, Beat, HeartbeatLands, BeatSucceeds, StopBeating, Close, Crash, CallEnds
<1>5. CASE UNCHANGED heartbeatVars
  BY <1>5 DEF HeartbeatInv, HeartbeatTypeOK, heartbeatVars
<1> QED BY <1>1, <1>2, <1>3, <1>4, <1>5 DEF HeartbeatNext

\* The age of an executing owner's batch stays explained: a tick adds to the
\* beater's timer what it adds to the age, and a failure turns a full timer into
\* one more period.
LEMMA StepExplained == HeartbeatInv /\ [HeartbeatNext]_heartbeatVars => Explained'
<1> SUFFICES ASSUME HeartbeatInv, [HeartbeatNext]_heartbeatVars PROVE Explained'
  OBVIOUS
<1> USE HeartbeatAssumption, Derived
<1>f. failures \in Nat /\ failures * Period \in Nat
      /\ (failures + 1) * Period = failures * Period + Interval + RpcDeadline
  BY OneMore DEF HeartbeatInv, HeartbeatTypeOK
<1>1. CASE Tick
  <2>1. failures' * Period = failures * Period
    BY <1>1 DEF Tick
  <2> QED BY <1>1, <1>f, <2>1 DEF HeartbeatInv, HeartbeatTypeOK, Explained, Tick, NothingDue
<1>2. CASE BeatFails
  <2>1. failures' * Period = failures * Period + Interval + RpcDeadline
    BY <1>2, <1>f DEF BeatFails
  <2>2. age <= Base + failures * Period + Interval + RpcDeadline
    BY <1>2, <1>f DEF HeartbeatInv, HeartbeatTypeOK, Explained, BeatFails
  <2> QED BY <1>2, <1>f, <2>1, <2>2 DEF HeartbeatInv, HeartbeatTypeOK, Explained, BeatFails
<1>3. CASE BeatSucceeds
  <2>1. failures' * Period = 0
    BY <1>3 DEF BeatSucceeds
  <2> QED BY <1>3, <2>1 DEF HeartbeatInv, HeartbeatTypeOK, Explained, BeatSucceeds
<1>4. CASE StartBeating
  <2>1. failures' * Period = 0
    BY <1>4 DEF StartBeating, HeartbeatInv, Explained
  <2> QED BY <1>4, <2>1 DEF HeartbeatInv, HeartbeatTypeOK, Explained, StartBeating
<1>5. CASE Beat \/ HeartbeatLands \/ StopBeating \/ Close \/ Crash \/ CallEnds \/ ReplacementStarts \/ DelayedPass
  <2>1. failures' * Period = failures * Period
    BY <1>5 DEF Beat, HeartbeatLands, StopBeating, Close, Crash, CallEnds, ReplacementStarts, DelayedPass
  <2> QED BY <1>5, <1>f, <2>1 DEF HeartbeatInv, HeartbeatTypeOK, Explained, Beat, HeartbeatLands, StopBeating, Close, Crash,
             CallEnds, ReplacementStarts, DelayedPass
<1>6. CASE UNCHANGED heartbeatVars
  <2>1. failures' * Period = failures * Period
    BY <1>6 DEF heartbeatVars
  <2> QED BY <1>6, <2>1 DEF HeartbeatInv, Explained, heartbeatVars
<1> QED BY <1>1, <1>2, <1>3, <1>4, <1>5, <1>6 DEF HeartbeatNext

\* An orphaned batch ages with the replacement's clock, at most one deadline
\* behind it.
LEMMA StepOrphanAges == HeartbeatInv /\ [HeartbeatNext]_heartbeatVars => OrphanAges'
<1> SUFFICES ASSUME HeartbeatInv, [HeartbeatNext]_heartbeatVars PROVE OrphanAges'
  OBVIOUS
<1> USE HeartbeatAssumption, Derived
<1>1. CASE Tick
  BY <1>1 DEF HeartbeatInv, HeartbeatTypeOK, OrphanAges, DelayedPassRecovers, Tick, Explained
<1>2. CASE HeartbeatLands
  BY <1>2 DEF HeartbeatInv, HeartbeatTypeOK, OrphanAges, DelayedPassRecovers, HeartbeatLands
<1>3. CASE ReplacementStarts
  BY <1>3 DEF HeartbeatInv, HeartbeatTypeOK, OrphanAges, DelayedPassRecovers, ReplacementStarts, Explained
<1>4. CASE DelayedPass
  <2>1. ASSUME orphaned, RpcDeadline < Interval PROVE Reclaimed
    BY <1>4, <2>1 DEF HeartbeatInv, HeartbeatTypeOK, OrphanAges, DelayedPass, Reclaimed, Stale
  <2> QED BY <1>4, <2>1 DEF HeartbeatInv, OrphanAges, DelayedPassRecovers, DelayedPass
<1>5. CASE StartBeating \/ Beat \/ BeatSucceeds \/ BeatFails \/ StopBeating \/ Close
  BY <1>5 DEF HeartbeatInv, OrphanAges, DelayedPassRecovers, StartBeating, Beat, BeatSucceeds, BeatFails, StopBeating, Close
<1>6. CASE Crash \/ CallEnds
  BY <1>6 DEF HeartbeatInv, OrphanAges, DelayedPassRecovers, Crash, CallEnds
<1>7. CASE UNCHANGED heartbeatVars
  BY <1>7 DEF HeartbeatInv, OrphanAges, DelayedPassRecovers, heartbeatVars
<1> QED BY <1>1, <1>2, <1>3, <1>4, <1>5, <1>6, <1>7 DEF HeartbeatNext

LEMMA HeartbeatInvariance == HeartbeatSpec => []HeartbeatInv
<1>1. HeartbeatInv /\ [HeartbeatNext]_heartbeatVars => HeartbeatInv'
  BY StepHeartbeatTypeOK, StepExplained, StepOrphanAges DEF HeartbeatInv
<1> QED BY HeartbeatInvInitially, <1>1, PTL DEF HeartbeatSpec

\* The heartbeat's clocks keep within their bounds, and no failure beyond the
\* abort threshold is ever counted, for every configuration.
THEOREM HeartbeatTypes == HeartbeatSpec => []HeartbeatTypeOK
<1>1. HeartbeatInv => HeartbeatTypeOK
  BY DEF HeartbeatInv
<1> QED BY HeartbeatInvariance, <1>1, PTL

\* For every interval, deadline and stale window, the silence of a batch whose
\* owner executes is bounded by its consecutive heartbeat failures.
THEOREM SilenceIsExplained == HeartbeatSpec => []SilenceExplained
<1>1. HeartbeatInv => SilenceExplained
  <2> SUFFICES ASSUME HeartbeatInv, owner = "executing" PROVE age <= Silence(failures)
    BY DEF SilenceExplained
  <2>1. failures \in Nat
    BY Derived DEF HeartbeatInv, HeartbeatTypeOK
  <2>2. (failures + 1) * Period = failures * Period + Period /\ failures * Period \in Nat
    BY <2>1, OneMore
  <2>3. age <= Base + (failures * Period + Period)
    BY <2>2, HeartbeatAssumption, Derived DEF HeartbeatInv, HeartbeatTypeOK, Explained
  <2> QED BY <2>2, <2>3 DEF Silence
<1> QED BY HeartbeatInvariance, <1>1, PTL

\* A replacement process reclaims, by the end of its second pass, every batch
\* whose owner was dead when it started, whenever calls end within an interval.
THEOREM SecondPassRecovers == HeartbeatSpec => []DelayedPassRecovers
<1>1. HeartbeatInv => DelayedPassRecovers
  BY DEF HeartbeatInv, OrphanAges
<1> QED BY HeartbeatInvariance, <1>1, PTL
=============================================================================
