----------------------- MODULE BatchLifecycle_proofs -----------------------
(***************************************************************************)
(* Proofs about BatchLifecycle, for any number of submissions and tasks,   *)
(* any join strategy and any lost calls, interrupts, cancellations,        *)
(* reopens and crashes.  They rest on two facts about the batch row: it is *)
(* created once, with the token of a submission that then owns it or has   *)
(* given up, and a terminal status is its last.                            *)
(***************************************************************************)
EXTENDS BatchLifecycle, TLAPS

Row(b) == b = NoBatch \/ b \in [status : BatchStatus, token : Submitters]

(* What a step may do to a row that exists, or does not yet.               *)
Later(b, c) ==
  /\ b = NoBatch => c = NoBatch
  /\ b # NoBatch => /\ c # NoBatch /\ c.token = b.token
                    /\ b.status \in TerminalBatch => c.status = b.status

EnvFields == {"n", "print", "retries", "lost", "maxLost", "interrupts", "cancels", "crashes"}
EnvKept == env'.print = env.print /\ env'.interrupts = env.interrupts /\ DOMAIN env' = EnvFields

(* Before create_batch, and after one that may still land.                 *)
Before == {"find", "project", "plan", "create"}
Unsure == {"abandon", "raised", "crashed"}
Waiting(q, all) ==
  /\ q.op \in {"createBatch", "createRun", "updateBatch", "cancelBatch", "cancelRun"}
  /\ q.op = "createBatch" => q.by \in Submitters /\ all[q.by].pc \in Unsure
  /\ q.op = "updateBatch" => q.st \in TerminalBatch

Fields == {"pc", "status", "made", "known", "prov", "listed", "seen", "answer"}

(* What submission s, in state q, knows of the row b.                      *)
Fine(s, q, b, e) ==
  /\ DOMAIN q = Fields
  /\ q.pc \in Owning => b # NoBatch /\ b.token = s
  /\ q.pc \in Before \cup Observing /\ b # NoBatch => b.token # s
  /\ q.pc \in Observing \cup {"returned"} => b # NoBatch /\ e.print[s] = e.print[b.token]
  /\ q.pc \in Observing /\ q.status \in TerminalBatch => q.status = b.status
  /\ q.pc \in {"tally", "close"} => q.status \in TerminalBatch
  /\ q.pc = "sync" => b.status \in TerminalBatch /\ q.status = b.status /\ q.answer = b.status
  /\ q.pc = "failShow" /\ q.status # "failed" => b.status \in TerminalBatch /\ q.status = b.status
  /\ q.pc \in {"tidy", "returned"} =>
       \/ b.status \in TerminalBatch /\ q.answer = b.status
       \/ q.answer = "blocked" /\ b.token # s
  /\ q.pc \in {"cancel", "reload", "cancelShow"} => e.interrupts

Shown(c, b, e) ==
  /\ DOMAIN c = Submitters
  /\ b = NoBatch => \A s \in Submitters : c[s] # "successful"
  /\ ~e.interrupts /\ b # NoBatch /\ c[b.token] = "successful" => b.status = "completed"

LInv ==
  /\ Row(batch) /\ DOMAIN env = EnvFields
  /\ \A q \in late : Waiting(q, sub)
  /\ DOMAIN sub = Submitters /\ \A s \in Submitters : Fine(s, sub[s], batch, env)
  /\ Shown(call, batch, env)
  /\ user = "show" => batch.status \in TerminalBatch
  /\ rec \in {"idle", "swept"} \cup TerminalBatch /\ (rec # "idle" => batch # NoBatch)

-----------------------------------------------------------------------------
(* The row *)

LEMMA Statuses ==
  /\ ActiveBatch \cap TerminalBatch = {} /\ BatchStatus = ActiveBatch \cup TerminalBatch
  /\ NoBatch.status \notin BatchStatus /\ "running" \in ActiveBatch
  /\ {"completed", "failed", "cancelled", "blocked"} \subseteq TerminalBatch
  BY DEF ActiveBatch, TerminalBatch, BatchStatus, TerminalRun, RetryableRun, AbsorbingRun, NoBatch

LEMMA RowFacts ==
  ASSUME NEW b, Row(b)
  PROVE  /\ b # NoBatch => b.status \in BatchStatus /\ b.token \in Submitters /\ DOMAIN b = {"status", "token"}
         /\ b.status \in BatchStatus => b # NoBatch
  BY Statuses DEF Row

\* Every batch_status is a terminal one.
LEMMA AggregateIsTerminal == \A join, statuses : batch_status(join, statuses) \in TerminalBatch
  BY DEF batch_status, TerminalBatch, TerminalRun, RetryableRun, AbsorbingRun

\* No call but create_batch makes a row, and none changes a terminal one.
LEMMA ApplyKeeps ==
  ASSUME Row(batch), NEW q, Apply(q), q.op # "createBatch", q.op = "updateBatch" => q.st \in TerminalBatch
  PROVE  Row(batch') /\ Later(batch, batch')
<1> USE Statuses
<1>1. CASE batch' = batch BY <1>1 DEF Later
<1>2. ASSUME NEW st \in TerminalBatch, BatchActive, batch' = [batch EXCEPT !.status = st]
      PROVE  Row(batch') /\ Later(batch, batch')
  <2>1. batch # NoBatch /\ batch \in [status : BatchStatus, token : Submitters]
    BY <1>2, RowFacts DEF BatchActive, Row
  <2>2. /\ batch' \in [status : BatchStatus, token : Submitters]
        /\ batch'.status = st /\ batch'.token = batch.token
    BY <2>1, <1>2
  <2>3. batch' # NoBatch /\ batch.status \notin TerminalBatch BY <2>2, <1>2 DEF BatchActive
  <2> QED BY <2>1, <2>2, <2>3 DEF Row, Later
<1>3. batch' = batch \/ \E st \in TerminalBatch : BatchActive /\ batch' = [batch EXCEPT !.status = st]
  <2>1. CASE q.op = "updateBatch" BY <2>1 DEF Apply
  <2>2. CASE q.op = "cancelBatch" BY <2>2 DEF Apply
  <2>3. CASE q.op \notin {"updateBatch", "cancelBatch"} BY <2>3 DEF Apply
  <2> QED BY <2>1, <2>2, <2>3
<1> QED BY <1>1, <1>2, <1>3

\* What a submission knows is still right of a later row.
LEMMA StillFine ==
  ASSUME NEW b, NEW c, Row(b), Row(c), Later(b, c), NEW e, NEW f, f.print = e.print, f.interrupts = e.interrupts
  PROVE  /\ \A s, q : Fine(s, q, b, e) => Fine(s, q, c, f)
         /\ \A k : Shown(k, b, e) => Shown(k, c, f)
<1>1. \A s, q : Fine(s, q, b, e) => Fine(s, q, c, f)
  <2> SUFFICES ASSUME NEW s, NEW q, Fine(s, q, b, e) PROVE Fine(s, q, c, f) OBVIOUS
  <2>1. CASE b = NoBatch
    <3>1. c = b BY <2>1 DEF Later
    <3> QED BY Zenon, <3>1 DEF Fine
  <2>2. CASE b # NoBatch
    <3>1. c # NoBatch /\ c.token = b.token /\ (b.status \in TerminalBatch => c.status = b.status) BY <2>2 DEF Later
    <3>2. q.pc \in Observing /\ q.status \in TerminalBatch => q.status = c.status BY Zenon, <3>1 DEF Fine
    <3> QED BY Zenon, <2>2, <3>1, <3>2 DEF Fine
  <2> QED BY <2>1, <2>2
<1>2. \A k : Shown(k, b, e) => Shown(k, c, f)
  <2> SUFFICES ASSUME NEW k, Shown(k, b, e) PROVE Shown(k, c, f) OBVIOUS
  <2>1. CASE b = NoBatch
    <3>1. c = b BY <2>1 DEF Later
    <3> QED BY Zenon, <3>1 DEF Shown
  <2>2. CASE b # NoBatch
    <3>1. c # NoBatch /\ c.token = b.token /\ (b.status \in TerminalBatch => c.status = b.status) BY <2>2 DEF Later
    <3>2. "completed" \in TerminalBatch BY Statuses
    <3> QED BY Zenon, <2>2, <3>1, <3>2 DEF Shown
  <2> QED BY <2>1, <2>2
<1> QED BY Zenon, <1>1, <1>2

\* The environment but for the count of lost calls is fixed.
LEMMA EnvStays ==
  ASSUME LInv, UNCHANGED env \/ CallIsLost
  PROVE  EnvKept
  BY DEF LInv, EnvKept, CallIsLost, EnvFields

-----------------------------------------------------------------------------
(* Steps *)

\* A submission moves, while the row stays or grows later.
LEMMA Moves ==
  ASSUME LInv, NEW s \in Submitters, NEW l, Goto(s, l), EnvKept,
         Row(batch'), Later(batch, batch'), Fine(s, l, batch', env),
         sub[s].pc \in Unsure => l.pc \in Unsure,
         \A q \in late' : q \in late \/ Waiting(q, sub'),
         Shown(call', batch', env), UNCHANGED <<user, rec>>
  PROVE  LInv'
<1>1. DOMAIN sub' = Submitters /\ sub'[s] = l /\ \A t \in Submitters \ {s} : sub'[t] = sub[t]
  BY DEF Goto, LInv
<1>2. env'.print = env.print /\ env'.interrupts = env.interrupts /\ DOMAIN env' = EnvFields BY DEF EnvKept
<1>3. \A k, c : Fine(k, c, batch', env) => Fine(k, c, batch', env')
  BY Zenon, <1>2 DEF Fine
<1>4. \A t \in Submitters : Fine(t, sub'[t], batch', env')
  <2> TAKE t \in Submitters
  <2>1. CASE t = s BY Zenon, <2>1, <1>1, <1>3
  <2>2. CASE t # s
    <3>1. sub'[t] = sub[t] /\ Fine(t, sub[t], batch, env) BY Zenon, <2>2, <1>1 DEF LInv
    <3>2. Row(batch) BY DEF LInv
    <3> QED BY Zenon, <3>1, <3>2, <1>2, StillFine
  <2> QED BY <2>1, <2>2
<1>5. \A q \in late' : Waiting(q, sub')
  <2> TAKE q \in late'
  <2>1. CASE Waiting(q, sub') BY <2>1
  <2>2. CASE q \in late
    <3>1. Waiting(q, sub) BY <2>2 DEF LInv
    <3>2. q.op = "createBatch" => q.by \in Submitters /\ sub'[q.by].pc \in Unsure
      BY Zenon, <3>1, <1>1 DEF Waiting
    <3> QED BY Zenon, <3>1, <3>2 DEF Waiting
  <2> QED BY <2>1, <2>2
<1>6. Shown(call', batch', env') BY Zenon, <1>2 DEF Shown
<1>7. user' = "show" => batch'.status \in TerminalBatch
  <2>1. user = "show" => batch.status \in TerminalBatch BY DEF LInv
  <2>2. batch.status \in TerminalBatch => batch # NoBatch BY Statuses
  <2> QED BY Zenon, <2>1, <2>2 DEF Later
<1>8. rec' \in {"idle", "swept"} \cup TerminalBatch /\ (rec' # "idle" => batch' # NoBatch)
  BY Zenon DEF LInv, Later
<1> QED BY Zenon, <1>1, <1>2, <1>4, <1>5, <1>6, <1>7, <1>8 DEF LInv

\* A submission moves and the row stays.
LEMMA MovesAlone ==
  ASSUME LInv, NEW s \in Submitters, NEW l, Goto(s, l), UNCHANGED env \/ CallIsLost,
         batch' = batch, Fine(s, l, batch, env), sub[s].pc \in Unsure => l.pc \in Unsure,
         \A q \in late' : q \in late \/ Waiting(q, sub'),
         Shown(call', batch, env), UNCHANGED <<user, rec>>
  PROVE  LInv'
<1>1. EnvKept BY EnvStays
<1>2. Row(batch') /\ Later(batch, batch') BY DEF LInv, Later
<1>3. Fine(s, l, batch', env) /\ Shown(call', batch', env) BY Zenon
<1> QED BY Zenon, <1>1, <1>2, <1>3, Moves

\* The step of a submission that only reads.
LEMMA ReadKeeps ==
  ASSUME LInv, NEW s \in Submitters, NEW l, Goto(s, l), UNCHANGED env \/ CallIsLost,
         Fine(s, l, batch, env), sub[s].pc \in Unsure => l.pc \in Unsure,
         UNCHANGED <<batch, call, late, user, rec>>
  PROVE  LInv'
<1>1. Shown(call', batch, env) BY Zenon DEF LInv
<1> QED BY Zenon, <1>1, MovesAlone

\* The step of a submission whose call fails, or which is interrupted.
LEMMA LeaveKeeps ==
  ASSUME LInv, NEW s \in Submitters, NEW l, NEW k, Lose(s, k, l) \/ Interrupt(s, k, l),
         Fine(s, l, batch, env), sub[s].pc \in Unsure => l.pc \in Unsure,
         \A q \in k : Waiting(q, sub'), UNCHANGED <<user, rec>>
  PROVE  LInv'
<1>1. /\ Goto(s, l) /\ late' = late \cup k /\ batch' = batch /\ call' = call
      /\ UNCHANGED env \/ CallIsLost
  BY DEF Lose, Interrupt
<1>2. Shown(call', batch, env) BY Zenon, <1>1 DEF LInv
<1>3. \A q \in late' : q \in late \/ Waiting(q, sub') BY Zenon, <1>1
<1> QED BY Zenon, <1>1, <1>2, <1>3, MovesAlone

\* The step of a submission whose call takes effect.
LEMMA ApplyMoves ==
  ASSUME LInv, NEW s \in Submitters, NEW l, NEW q, Apply(q), q.op # "createBatch",
         q.op = "updateBatch" => q.st \in TerminalBatch,
         Goto(s, l), Fine(s, l, batch', env), sub[s].pc \in Unsure => l.pc \in Unsure,
         UNCHANGED <<call, late, env, user, rec>>
  PROVE  LInv'
<1>1. Row(batch') /\ Later(batch, batch') BY Zenon, ApplyKeeps DEF LInv
<1>2. EnvKept BY EnvStays
<1>3. Shown(call', batch', env) BY Zenon, <1>1, StillFine DEF LInv
<1> QED BY Zenon, <1>1, <1>2, <1>3, Moves

\* The row, or the plan, changes and no submission moves.
LEMMA RowKeeps ==
  ASSUME LInv, EnvKept, Row(batch'), Later(batch, batch'), Shown(call', batch', env), UNCHANGED sub,
         \A q \in late' : q \in late \/ Waiting(q, sub),
         user' = "show" => batch'.status \in TerminalBatch,
         rec' \in {"idle", "swept"} \cup TerminalBatch, rec' # "idle" => batch' # NoBatch
  PROVE  LInv'
<1>1. env'.print = env.print /\ env'.interrupts = env.interrupts /\ DOMAIN env' = EnvFields BY DEF EnvKept
<1>2. \A s \in Submitters : Fine(s, sub[s], batch', env')
  BY Zenon, <1>1, StillFine DEF LInv
<1>3. Shown(call', batch', env') BY Zenon, <1>1 DEF Shown
<1>4. \A q \in late' : Waiting(q, sub) BY Zenon DEF LInv
<1>5. sub' = sub OBVIOUS
<1> QED BY Zenon, <1>1, <1>2, <1>3, <1>4, <1>5 DEF LInv

\* The creation of the row, by a submission or by its late call.
LEMMA CreationKeeps ==
  ASSUME LInv, batch = NoBatch, NEW t \in Submitters, batch' = [status |-> "running", token |-> t],
         DOMAIN sub' = Submitters, \A s \in Submitters \ {t} : sub'[s] = sub[s],
         sub[t].pc \in Unsure \cup {"create"}, DOMAIN sub'[t] = Fields,
         sub[t].pc = "create" => sub'[t].pc = "runs",
         sub[t].pc \in Unsure => sub'[t].pc \in Unsure,
         late' \subseteq late, UNCHANGED <<call, env, user, rec>>
  PROVE  LInv'
<1>1. batch' \in [status : BatchStatus, token : Submitters] /\ batch' # NoBatch /\ batch'.token = t
  BY Statuses DEF NoBatch
<1>2. \A s \in Submitters : Fine(s, sub'[s], batch', env)
  <2> TAKE s \in Submitters
  <2>1. CASE s = t
    <3> DEFINE q == sub'[t]
    <3>1. DOMAIN q = Fields /\ q.pc \in Unsure \cup {"runs"} OBVIOUS
    <3> HIDE DEF q
    <3>2. /\ q.pc \notin Before \cup Observing \cup {"returned", "tally", "close", "sync", "failShow",
                                                     "tidy", "cancel", "reload", "cancelShow"}
      BY <3>1 DEF Unsure, Before, Observing
    <3>3. Fine(t, q, batch', env) BY Zenon, <3>1, <3>2, <1>1 DEF Fine
    <3> QED BY Zenon, <3>3, <2>1 DEF q
  <2>2. CASE s # t
    <3>1. sub'[s] = sub[s] /\ Fine(s, sub[s], NoBatch, env) BY Zenon, <2>2 DEF LInv
    <3> DEFINE q == sub[s]
    <3> HIDE DEF q
    <3>2. Fine(s, q, NoBatch, env) BY Zenon, <3>1 DEF q
    <3>3. q.pc \notin Owning \cup Observing \cup {"returned"} BY <3>2 DEF Fine
    <3>4. q.pc \notin {"tally", "close", "sync", "failShow", "tidy", "cancel", "reload", "cancelShow"}
      BY <3>3 DEF Owning, Observing
    <3>5. Fine(s, q, batch', env) BY Zenon, <3>2, <3>3, <3>4, <1>1, <2>2 DEF Fine
    <3> QED BY Zenon, <3>1, <3>5 DEF q
  <2> QED BY <2>1, <2>2
<1>3. \A q \in late' : Waiting(q, sub')
  <2> TAKE q \in late'
  <2>1. Waiting(q, sub) BY Zenon DEF LInv
  <2>2. q.op = "createBatch" => q.by \in Submitters /\ sub'[q.by].pc \in Unsure
    BY Zenon, <2>1 DEF Waiting
  <2> QED BY Zenon, <2>1, <2>2 DEF Waiting
<1>4. Shown(call', batch', env)
  <2>1. DOMAIN call = Submitters /\ \A s \in Submitters : call[s] # "successful" BY Zenon DEF LInv, Shown
  <2>2. call' = call OBVIOUS
  <2> QED BY Zenon, <2>1, <2>2, <1>1 DEF Shown
<1>5. user' # "show"
  BY Statuses DEF LInv, NoBatch
<1>6. rec' \in {"idle", "swept"} \cup TerminalBatch /\ env' = env BY DEF LInv
<1> QED BY Zenon, <1>1, <1>2, <1>3, <1>4, <1>5, <1>6 DEF LInv, Row

-----------------------------------------------------------------------------
(* Where a submission goes *)

LEMMA ToFacts ==
  ASSUME LInv, NEW s \in Submitters, NEW w
  PROVE  /\ DOMAIN To(s, w) = Fields /\ To(s, w).pc = w
         /\ To(s, w).status = sub[s].status /\ To(s, w).answer = sub[s].answer
<1>1. DOMAIN sub[s] = Fields BY DEF LInv, Fine
<1> QED BY <1>1 DEF To, Fields

\* A submission that has given up knows nothing.
LEMMA UnsureFits ==
  ASSUME NEW s, NEW q, NEW b, NEW e, DOMAIN q = Fields, q.pc \in Unsure
  PROVE  Fine(s, q, b, e)
<1>1. q.pc \notin Owning \cup Before \cup Observing \cup
         {"returned", "tally", "close", "sync", "failShow", "tidy", "cancel", "reload", "cancelShow"}
  BY DEF Unsure, Owning, Before, Observing
<1> QED BY Zenon, <1>1 DEF Fine

LEMMA BeforeFits ==
  ASSUME LInv, NEW s \in Submitters, sub[s].pc \in Before, NEW q, DOMAIN q = Fields, q.pc \in Before
  PROVE  Fine(s, q, batch, env)
<1>1. q.pc \notin Owning \cup Observing \cup
         {"returned", "tally", "close", "sync", "failShow", "tidy", "cancel", "reload", "cancelShow"}
  BY DEF Owning, Before, Observing
<1>2. Fine(s, sub[s], batch, env) BY DEF LInv
<1>3. batch # NoBatch => batch.token # s BY <1>2 DEF Fine
<1> QED BY Zenon, <1>1, <1>3 DEF Fine

LEMMA OwningFits ==
  ASSUME LInv, NEW s \in Submitters, sub[s].pc \in Owning, NEW q, DOMAIN q = Fields,
         q.pc \in {"runs", "exec", "fail", "failUpdate", "tally", "close", "cancel", "reload", "cancelShow"},
         q.pc \in {"tally", "close"} => q.status \in TerminalBatch,
         q.pc \in {"cancel", "reload", "cancelShow"} => env.interrupts,
         NEW b, Row(b), Later(batch, b)
  PROVE  Fine(s, q, b, env)
<1>1. q.pc \notin Before \cup Observing \cup {"returned", "sync", "failShow", "tidy"}
  BY DEF Before, Observing
<1>2. Fine(s, sub[s], batch, env) BY DEF LInv
<1>3. b # NoBatch /\ b.token = s BY <1>2 DEF Fine, Later
<1> QED BY Zenon, <1>1, <1>3 DEF Fine

LEMMA ObservingFits ==
  ASSUME LInv, NEW s \in Submitters, sub[s].pc \in Observing, NEW q, DOMAIN q = Fields,
         q.pc \in {"load", "watch", "verdict", "drop"}, q.status = sub[s].status \/ q.status = batch.status
  PROVE  Fine(s, q, batch, env)
<1>1. q.pc \in Observing /\ q.pc \notin Before \cup Owning \cup
         {"returned", "tally", "close", "sync", "failShow", "tidy", "cancel", "reload", "cancelShow"}
  BY DEF Before, Observing, Owning
<1>2. Fine(s, sub[s], batch, env) BY DEF LInv
<1>3. /\ batch # NoBatch /\ batch.token # s /\ env.print[s] = env.print[batch.token]
      /\ sub[s].status \in TerminalBatch => sub[s].status = batch.status
  BY Zenon, <1>2 DEF Fine
<1>4. q.status \in TerminalBatch => q.status = batch.status BY Zenon, <1>3
<1> QED BY Zenon, <1>1, <1>3, <1>4 DEF Fine

\* A submission gives up because a call failed or its task was cancelled.
LEMMA GivesUp ==
  ASSUME LInv, NEW s \in Submitters, NEW w \in Unsure, NEW k,
         Lose(s, k, To(s, w)) \/ Interrupt(s, k, To(s, w)),
         \A q \in k : Waiting(q, sub'), UNCHANGED <<user, rec>>
  PROVE  LInv'
<1>1. DOMAIN To(s, w) = Fields /\ To(s, w).pc = w BY ToFacts
<1>2. Fine(s, To(s, w), batch, env) BY Zenon, <1>1, UnsureFits
<1> DEFINE l == To(s, w)
<1> HIDE DEF l
<1>3. Lose(s, k, l) \/ Interrupt(s, k, l) BY Zenon DEF l
<1>4. Fine(s, l, batch, env) /\ l.pc \in Unsure BY Zenon, <1>1, <1>2 DEF l
<1> QED BY Zenon, <1>3, <1>4, LeaveKeeps

\* The same when no call was under way, or one.
LEMMA GivesUpAlone ==
  ASSUME LInv, NEW s \in Submitters, NEW w \in Unsure,
         Lose(s, {}, To(s, w)) \/ Interrupt(s, {}, To(s, w)), UNCHANGED <<user, rec>>
  PROVE  LInv'
<1> DEFINE k == {}
<1>1. \A q \in k : Waiting(q, sub') OBVIOUS
<1>2. Lose(s, k, To(s, w)) \/ Interrupt(s, k, To(s, w)) BY DEF k
<1> HIDE DEF k
<1> QED BY Zenon, <1>1, <1>2, GivesUp

LEMMA GivesUpCalling ==
  ASSUME LInv, NEW s \in Submitters, NEW w \in Unsure, NEW q, Waiting(q, sub'),
         Lose(s, {q}, To(s, w)) \/ Interrupt(s, {q}, To(s, w)), UNCHANGED <<user, rec>>
  PROVE  LInv'
<1> DEFINE k == {q}
<1>1. \A c \in k : Waiting(c, sub') BY Zenon
<1>2. Lose(s, k, To(s, w)) \/ Interrupt(s, k, To(s, w)) BY DEF k
<1> HIDE DEF k
<1> QED BY Zenon, <1>1, <1>2, GivesUp

LEMMA LeavesAlone ==
  ASSUME LInv, NEW s \in Submitters, NEW l, Lose(s, {}, l) \/ Interrupt(s, {}, l),
         Fine(s, l, batch, env), sub[s].pc \notin Unsure, UNCHANGED <<user, rec>>
  PROVE  LInv'
<1> DEFINE k == {}
<1>1. \A q \in k : Waiting(q, sub') OBVIOUS
<1>2. Lose(s, k, l) \/ Interrupt(s, k, l) BY DEF k
<1> HIDE DEF k
<1> QED BY Zenon, <1>1, <1>2, LeaveKeeps

LEMMA LeavesCalling ==
  ASSUME LInv, NEW s \in Submitters, NEW l, NEW q, Waiting(q, sub'), Lose(s, {q}, l) \/ Interrupt(s, {q}, l),
         Fine(s, l, batch, env), sub[s].pc \notin Unsure, UNCHANGED <<user, rec>>
  PROVE  LInv'
<1> DEFINE k == {q}
<1>1. \A c \in k : Waiting(c, sub') BY Zenon
<1>2. Lose(s, k, l) \/ Interrupt(s, k, l) BY DEF k
<1> HIDE DEF k
<1> QED BY Zenon, <1>1, <1>2, LeaveKeeps

LEMMA RaisedFits ==
  ASSUME LInv, NEW s \in Submitters, NEW w \in Unsure
  PROVE  Fine(s, To(s, w), batch, env) /\ To(s, w).pc \in Unsure
<1>1. DOMAIN To(s, w) = Fields /\ To(s, w).pc = w BY ToFacts
<1> QED BY Zenon, <1>1, UnsureFits

\* A submission that only edits its bookkeeping knows what it knew.
LEMMA SamePlace ==
  ASSUME LInv, NEW s \in Submitters, NEW q, DOMAIN q = Fields,
         q.pc = sub[s].pc, q.status = sub[s].status, q.answer = sub[s].answer
  PROVE  Fine(s, q, batch, env)
<1>1. Fine(s, sub[s], batch, env) BY DEF LInv
<1> QED BY Zenon, <1>1 DEF Fine

\* The plan may show success for a batch that is stored as completed, and
\* anything else for any batch.
LEMMA Paints ==
  ASSUME NEW k, NEW b, NEW e, Shown(k, b, e), NEW c \in Submitters, NEW st,
         st = "successful" => b # NoBatch /\ (~e.interrupts /\ c = b.token => b.status = "completed")
  PROVE  Shown([k EXCEPT ![c] = st], b, e)
<1> DEFINE m == [k EXCEPT ![c] = st]
<1>1. DOMAIN k = Submitters BY DEF Shown
<1>2. DOMAIN m = Submitters /\ m[c] = st /\ \A t \in Submitters \ {c} : m[t] = k[t] BY <1>1
<1> HIDE DEF m
<1>3. ASSUME b = NoBatch, NEW t \in Submitters PROVE m[t] # "successful"
  BY Zenon, <1>2, <1>3 DEF Shown
<1>4. ASSUME ~e.interrupts, b # NoBatch, m[b.token] = "successful" PROVE b.status = "completed"
  <2>1. b.token = c \/ b.token \in Submitters \ {c} \/ b.token \notin Submitters OBVIOUS
  <2>2. CASE b.token = c BY Zenon, <1>2, <1>4, <2>2
  <2>3. CASE b.token \in Submitters \ {c} BY Zenon, <1>2, <1>4, <2>3 DEF Shown
  <2>4. CASE b.token \notin Submitters
    <3>1. m = [k EXCEPT ![c] = st] BY DEF m
    <3>2. k[b.token] = "successful" BY <3>1, <1>4, <2>4, <1>1
    <3> QED BY Zenon, <1>4, <3>2 DEF Shown
  <2> QED BY <2>1, <2>2, <2>3, <2>4
<1>5. Shown(m, b, e) BY Zenon, <1>2, <1>3, <1>4 DEF Shown
<1> QED BY Zenon, <1>5 DEF m

LEMMA Colours == \A x : tool_call_status_for_batch(x) = "successful" => x = "completed"
  BY DEF tool_call_status_for_batch

LEMMA ShowFits ==
  ASSUME LInv, NEW c \in Submitters, NEW x, Show(c, tool_call_status_for_batch(x)),
         x = "completed" => batch # NoBatch /\ (~env.interrupts /\ c = batch.token => batch.status = "completed")
  PROVE  Shown(call', batch, env) /\ (UNCHANGED env \/ CallIsLost)
<1>1. Shown(call, batch, env) BY DEF LInv
<1>2. CASE call' = [call EXCEPT ![c] = tool_call_status_for_batch(x)] /\ UNCHANGED env
  <2>1. Shown([call EXCEPT ![c] = tool_call_status_for_batch(x)], batch, env) BY Zenon, <1>1, Colours, Paints
  <2> QED BY Zenon, <1>2, <2>1
<1>3. CASE CallIsLost /\ UNCHANGED call BY Zenon, <1>1, <1>3
<1> QED BY Zenon, <1>2, <1>3 DEF Show

-----------------------------------------------------------------------------
(* The submission's steps *)

LEMMA StepFind ==
  ASSUME LInv, NEW s \in Submitters, _find_existing_submission_batch(s)
  PROVE  LInv'
<1>1. sub[s].pc = "find" /\ UNCHANGED <<user, rec>> BY DEF _find_existing_submission_batch, At, others
<1>2. sub[s].pc \in Before /\ sub[s].pc \notin Unsure BY <1>1 DEF Before, Unsure
<1>3. CASE Lose(s, {}, To(s, "raised")) \/ Interrupt(s, {}, To(s, "raised"))
  <2>1. "raised" \in Unsure BY DEF Unsure
  <2> QED BY Zenon, <1>1, <1>3, <2>1, GivesUpAlone
<1>4. CASE /\ Goto(s, IF batch = NoBatch THEN To(s, "project")
                      ELSE IF ~SameFingerprint(s) THEN To(s, "raised")
                      ELSE [To(s, "load") EXCEPT !.status = batch.status])
           /\ UNCHANGED <<batch, run, call, late, env>>
  <2> DEFINE m == [To(s, "load") EXCEPT !.status = batch.status]
             l == IF batch = NoBatch THEN To(s, "project")
                  ELSE IF ~SameFingerprint(s) THEN To(s, "raised") ELSE m
  <2>1. Goto(s, l) /\ UNCHANGED <<batch, call, late, env>> BY Zenon, <1>4
  <2>2. DOMAIN To(s, "load") = Fields /\ To(s, "load").pc = "load" BY ToFacts
  <2>3. DOMAIN m = Fields /\ m.pc = "load" /\ m.status = batch.status BY <2>2 DEF Fields
  <2>4. l \in {To(s, "project"), To(s, "raised")} \/ (l = m /\ batch # NoBatch /\ SameFingerprint(s)) OBVIOUS
  <2> HIDE DEF l, m
  <2>5. Fine(s, To(s, "project"), batch, env)
    <3>1. DOMAIN To(s, "project") = Fields /\ To(s, "project").pc = "project" BY ToFacts
    <3>2. To(s, "project").pc \in Before BY <3>1 DEF Before
    <3> QED BY Zenon, <3>1, <3>2, <1>2, BeforeFits
  <2>6. Fine(s, To(s, "raised"), batch, env)
    <3>1. DOMAIN To(s, "raised") = Fields /\ To(s, "raised").pc = "raised" BY ToFacts
    <3>2. To(s, "raised").pc \in Unsure BY <3>1 DEF Unsure
    <3> QED BY Zenon, <3>1, <3>2, UnsureFits
  <2>7. ASSUME batch # NoBatch, SameFingerprint(s) PROVE Fine(s, m, batch, env)
    <3>1. m.pc \in Observing /\ m.pc \notin Before \cup Owning \cup
            {"returned", "tally", "close", "sync", "failShow", "tidy", "cancel", "reload", "cancelShow"}
      BY <2>3 DEF Before, Observing, Owning
    <3>2. batch.token # s BY Zenon, <1>2, <2>7 DEF LInv, Fine
    <3> QED BY Zenon, <3>1, <3>2, <2>3, <2>7 DEF Fine, SameFingerprint
  <2>8. Fine(s, l, batch, env) BY Zenon, <2>4, <2>5, <2>6, <2>7
  <2> QED BY Zenon, <2>1, <2>8, <1>1, <1>2, ReadKeeps
<1> QED BY Zenon, <1>3, <1>4 DEF _find_existing_submission_batch

LEMMA StepProject ==
  ASSUME LInv, NEW s \in Submitters, _create_batch_projection(s)
  PROVE  LInv'
<1>1. sub[s].pc = "project" /\ UNCHANGED <<batch, late, user, rec>> BY DEF _create_batch_projection, At, others
<1>2. sub[s].pc \in Before /\ sub[s].pc \notin Unsure BY <1>1 DEF Before, Unsure
<1>3. \A q \in late' : q \in late \/ Waiting(q, sub') BY Zenon, <1>1
<1>4. Shown(call, batch, env) BY DEF LInv
<1>5. \A c \in {"none", "running"} : Shown([call EXCEPT ![s] = c], batch, env)
  <2> TAKE c \in {"none", "running"}
  <2>1. c # "successful" OBVIOUS
  <2> QED BY Zenon, <1>4, <2>1, Paints
<1>6. CASE /\ call' = [call EXCEPT ![s] = "running"]
           /\ Goto(s, [To(s, "plan") EXCEPT !.known = TRUE])
           /\ UNCHANGED env
  <2> DEFINE l == [To(s, "plan") EXCEPT !.known = TRUE]
  <2>1. DOMAIN l = Fields /\ l.pc = "plan" BY ToFacts DEF Fields
  <2>2. Goto(s, l) BY Zenon, <1>6
  <2> HIDE DEF l
  <2>3. l.pc \in Before BY <2>1 DEF Before
  <2>4. Fine(s, l, batch, env) BY Zenon, <2>1, <2>3, <1>2, BeforeFits
  <2>5. Shown(call', batch, env)
    <3>1. Shown([call EXCEPT ![s] = "running"], batch, env) BY <1>5
    <3> QED BY Zenon, <3>1, <1>6
  <2>6. UNCHANGED env \/ CallIsLost BY Zenon, <1>6
  <2> QED BY Zenon, <2>2, <2>4, <2>5, <2>6, <1>1, <1>2, <1>3, MovesAlone
<1>7. CASE /\ \/ CallIsLost
              \/ env.interrupts /\ UNCHANGED env
           /\ \E c \in {"none", "running"} : call' = [call EXCEPT ![s] = c]
           /\ Goto(s, To(s, "raised"))
  <2>1. "raised" \in Unsure BY DEF Unsure
  <2> DEFINE l == To(s, "raised")
  <2>2. Fine(s, l, batch, env) BY Zenon, <2>1, RaisedFits
  <2>3. Goto(s, l) BY Zenon, <1>7
  <2> HIDE DEF l
  <2>4. Shown(call', batch, env) BY Zenon, <1>5, <1>7
  <2>5. UNCHANGED env \/ CallIsLost BY Zenon, <1>7
  <2> QED BY Zenon, <2>2, <2>3, <2>4, <2>5, <1>1, <1>2, <1>3, MovesAlone
<1> QED BY Zenon, <1>6, <1>7 DEF _create_batch_projection

LEMMA StepPlan ==
  ASSUME LInv, NEW s \in Submitters, plan(s)
  PROVE  LInv'
<1>1. sub[s].pc = "plan" /\ UNCHANGED <<user, rec>> BY DEF plan, At, others
<1>2. sub[s].pc \in Before /\ sub[s].pc \notin Unsure BY <1>1 DEF Before, Unsure
<1>3. {"raised", "abandon"} \subseteq Unsure BY DEF Unsure
<1>4. CASE Goto(s, To(s, "create")) /\ UNCHANGED <<batch, run, call, late, env>>
  <2> DEFINE l == To(s, "create")
  <2>1. DOMAIN l = Fields /\ l.pc = "create" BY Zenon, ToFacts
  <2>2. Goto(s, l) /\ UNCHANGED <<batch, call, late, env>> BY Zenon, <1>4
  <2> HIDE DEF l
  <2>3. l.pc \in Before BY <2>1 DEF Before
  <2>4. Fine(s, l, batch, env) BY Zenon, <2>1, <2>3, <1>2, BeforeFits
  <2> QED BY Zenon, <2>2, <2>4, <1>1, <1>2, ReadKeeps
<1>5. CASE /\ CallIsLost
           /\ call' = [call EXCEPT ![s] = "failed"]
           /\ Goto(s, To(s, "raised"))
           /\ UNCHANGED <<batch, run, late>>
  <2> DEFINE l == To(s, "raised")
  <2>1. Fine(s, l, batch, env) BY Zenon, <1>3, RaisedFits
  <2>2. Goto(s, l) /\ UNCHANGED <<batch, late>> BY Zenon, <1>5
  <2> HIDE DEF l
  <2>3. Shown(call', batch, env)
    <3>1. Shown(call, batch, env) BY DEF LInv
    <3>2. "failed" # "successful" OBVIOUS
    <3>3. Shown([call EXCEPT ![s] = "failed"], batch, env) BY Zenon, <3>1, <3>2, Paints
    <3> QED BY Zenon, <3>3, <1>5
  <2>4. \A q \in late' : q \in late \/ Waiting(q, sub') BY Zenon, <2>2
  <2>5. UNCHANGED env \/ CallIsLost BY Zenon, <1>5
  <2> QED BY Zenon, <2>1, <2>2, <2>3, <2>4, <2>5, <1>1, <1>2, MovesAlone
<1>6. CASE Interrupt(s, {}, To(s, "abandon"))
  <2>1. "abandon" \in Unsure BY <1>3
  <2> QED BY Zenon, <1>1, <1>6, <2>1, GivesUpAlone
<1> QED BY Zenon, <1>4, <1>5, <1>6 DEF plan

LEMMA StepMaterialize ==
  ASSUME LInv, NEW s \in Submitters, materialize_batch(s)
  PROVE  LInv'
<1>1. sub[s].pc = "create" /\ UNCHANGED <<user, rec>> BY DEF materialize_batch, At
<1>2. sub[s].pc \in Before /\ sub[s].pc \notin Unsure BY <1>1 DEF Before, Unsure
<1>3. "abandon" \in Unsure BY DEF Unsure
<1>4. DOMAIN sub = Submitters BY DEF LInv
<1>5. CASE /\ Apply(CreateBatchCall(s))
           /\ Goto(s, CASE batch = NoBatch ->
                             [To(s, "runs") EXCEPT !.status = "running"]
                        [] batch # NoBatch /\ SameFingerprint(s) ->
                             [To(s, "load") EXCEPT !.status = batch.status, !.prov = TRUE]
                        [] OTHER -> To(s, "abandon"))
           /\ UNCHANGED <<call, late, env>>
  <2>1. batch' = IF batch = NoBatch THEN [status |-> "running", token |-> s] ELSE batch
    BY <1>5 DEF Apply, CreateBatchCall, Request
  <2> DEFINE m == [To(s, "runs") EXCEPT !.status = "running"]
             l == [To(s, "load") EXCEPT !.status = batch.status, !.prov = TRUE]
             a == To(s, "abandon")
  <2>2. DOMAIN m = Fields /\ m.pc = "runs" BY ToFacts DEF Fields
  <2>3. DOMAIN l = Fields /\ l.pc = "load" /\ l.status = batch.status BY ToFacts DEF Fields
  <2>4. Fine(s, a, batch, env) /\ a.pc \in Unsure BY Zenon, <1>3, RaisedFits
  <2>5. Goto(s, CASE batch = NoBatch -> m [] batch # NoBatch /\ SameFingerprint(s) -> l [] OTHER -> a)
        /\ UNCHANGED <<call, late, env>>
    BY Zenon, <1>5
  <2> HIDE DEF m, l, a
  <2>6. CASE batch = NoBatch
    <3>1. sub' = [sub EXCEPT ![s] = m] BY <2>5, <2>6 DEF Goto
    <3>2. DOMAIN sub' = Submitters /\ sub'[s] = m /\ \A t \in Submitters \ {s} : sub'[t] = sub[t] BY <3>1, <1>4
    <3>3. batch' = [status |-> "running", token |-> s] BY <2>1, <2>6
    <3>4. DOMAIN sub'[s] = Fields /\ sub'[s].pc = "runs" BY Zenon, <3>2, <2>2
    <3>5. late' \subseteq late /\ sub[s].pc \in Unsure \cup {"create"} BY Zenon, <2>5, <1>1
    <3> QED BY Zenon, <3>2, <3>3, <3>4, <3>5, <1>1, <1>2, <2>5, <2>6, CreationKeeps
  <2>7. CASE batch # NoBatch /\ SameFingerprint(s)
    <3>1. Goto(s, l) /\ batch' = batch BY <2>1, <2>5, <2>7
    <3>2. l.pc \in Observing /\ l.pc \notin Before \cup Owning \cup
            {"returned", "tally", "close", "sync", "failShow", "tidy", "cancel", "reload", "cancelShow"}
      BY <2>3 DEF Before, Observing, Owning
    <3>3. batch.token # s BY Zenon, <1>2, <2>7 DEF LInv, Fine
    <3>4. Fine(s, l, batch, env) BY Zenon, <3>2, <3>3, <2>3, <2>7 DEF Fine, SameFingerprint
    <3> QED BY Zenon, <3>1, <3>4, <1>1, <1>2, <2>5, ReadKeeps
  <2>8. CASE batch # NoBatch /\ ~SameFingerprint(s)
    <3>1. Goto(s, a) /\ batch' = batch BY <2>1, <2>5, <2>8
    <3> QED BY Zenon, <3>1, <2>4, <1>1, <1>2, <2>5, ReadKeeps
  <2> QED BY <2>6, <2>7, <2>8
<1>6. CASE \/ Lose(s, {CreateBatchCall(s)}, To(s, "abandon"))
           \/ Interrupt(s, {CreateBatchCall(s)}, To(s, "abandon"))
  <2>1. sub' = [sub EXCEPT ![s] = To(s, "abandon")] BY <1>6 DEF Lose, Interrupt, Goto
  <2>2. sub'[s].pc = "abandon" BY <2>1, <1>4, ToFacts
  <2>3. Waiting(CreateBatchCall(s), sub') BY <2>2, <1>3 DEF Waiting, CreateBatchCall, Request
  <2> DEFINE q == CreateBatchCall(s)
  <2> HIDE DEF q
  <2>4. Waiting(q, sub') /\ (Lose(s, {q}, To(s, "abandon")) \/ Interrupt(s, {q}, To(s, "abandon")))
    BY Zenon, <1>6, <2>3 DEF q
  <2> QED BY Zenon, <2>4, <1>1, <1>3, GivesUpCalling
<1> QED BY Zenon, <1>5, <1>6 DEF materialize_batch

LEMMA StepAbandon ==
  ASSUME LInv, NEW s \in Submitters, AbandonProjection(s)
  PROVE  LInv'
<1>1. /\ UNCHANGED <<batch, late, user, rec>> /\ Show(s, tool_call_status_for_batch("cancelled"))
      /\ Goto(s, To(s, "raised"))
  BY DEF AbandonProjection, others
<1>2. "raised" \in Unsure /\ "cancelled" # "completed" BY DEF Unsure
<1>3. Shown(call', batch, env) /\ (UNCHANGED env \/ CallIsLost) BY Zenon, <1>1, <1>2, ShowFits
<1> DEFINE l == To(s, "raised")
<1>4. Fine(s, l, batch, env) /\ l.pc \in Unsure /\ Goto(s, l) BY Zenon, <1>1, <1>2, RaisedFits
<1> HIDE DEF l
<1>5. \A q \in late' : q \in late \/ Waiting(q, sub') BY Zenon, <1>1
<1> QED BY Zenon, <1>1, <1>3, <1>4, <1>5, MovesAlone

LEMMA OwnerStays ==
  ASSUME LInv, NEW s \in Submitters, sub[s].pc \in Owning,
         NEW w \in {"runs", "exec", "fail", "failUpdate"}
  PROVE  Fine(s, To(s, w), batch, env)
<1> DEFINE l == To(s, w)
<1>1. DOMAIN l = Fields /\ l.pc = w BY Zenon, ToFacts
<1> HIDE DEF l
<1>2. /\ l.pc \in {"runs", "exec", "fail", "failUpdate", "tally", "close", "cancel", "reload", "cancelShow"}
      /\ l.pc \notin {"tally", "close", "cancel", "reload", "cancelShow"}
  BY <1>1
<1>3. Row(batch) /\ Later(batch, batch) BY DEF LInv, Later
<1>4. Fine(s, l, batch, env) BY Zenon, <1>1, <1>2, <1>3, OwningFits
<1> QED BY Zenon, <1>4 DEF l

LEMMA OwnerInterrupted ==
  ASSUME LInv, NEW s \in Submitters, sub[s].pc \in Owning, env.interrupts, NEW q, DOMAIN q = Fields,
         q.pc \in {"cancel", "reload", "cancelShow"}, NEW b, Row(b), Later(batch, b)
  PROVE  Fine(s, q, b, env)
<1>1. /\ q.pc \in {"runs", "exec", "fail", "failUpdate", "tally", "close", "cancel", "reload", "cancelShow"}
      /\ q.pc \notin {"tally", "close"}
  OBVIOUS
<1> QED BY Zenon, <1>1, OwningFits

LEMMA StepRuns ==
  ASSUME LInv, NEW s \in Submitters, create_runs(s)
  PROVE  LInv'
<1>1. sub[s].pc = "runs" /\ UNCHANGED <<user, rec>> BY DEF create_runs, At, others
<1>2. sub[s].pc \in Owning /\ sub[s].pc \notin Unsure BY <1>1 DEF Owning, Unsure
<1>3. Row(batch) /\ Later(batch, batch) BY DEF LInv, Later
<1> DEFINE i == sub[s].made + 1
           c == CreateRunCall(s, i)
<1>4. Waiting(c, sub') BY DEF Waiting, CreateRunCall, Request
<1>5. CASE /\ Apply(c)
           /\ Goto(s, [sub[s] EXCEPT !.made = i])
           /\ UNCHANGED <<call, late, env>>
  <2> DEFINE l == [sub[s] EXCEPT !.made = i]
  <2>1. DOMAIN sub[s] = Fields BY DEF LInv, Fine
  <2>2. DOMAIN l = Fields /\ l.pc = sub[s].pc /\ l.status = sub[s].status /\ l.answer = sub[s].answer
    BY <2>1 DEF Fields
  <2>3. Goto(s, l) /\ UNCHANGED <<call, late, env>> BY Zenon, <1>5
  <2>4. batch' = batch BY <1>5 DEF Apply, CreateRunCall, Request
  <2> HIDE DEF l
  <2>5. Fine(s, l, batch, env) BY Zenon, <2>2, SamePlace
  <2> QED BY Zenon, <2>3, <2>4, <2>5, <1>1, <1>2, ReadKeeps
<1>6. CASE Goto(s, To(s, "exec")) /\ UNCHANGED <<batch, run, call, late, env>>
  <2> DEFINE l == To(s, "exec")
  <2>1. "exec" \in {"runs", "exec", "fail", "failUpdate"} OBVIOUS
  <2>2. Fine(s, l, batch, env) BY Zenon, <2>1, <1>2, OwnerStays
  <2>3. Goto(s, l) /\ UNCHANGED <<batch, call, late, env>> BY Zenon, <1>6
  <2> HIDE DEF l
  <2> QED BY Zenon, <2>2, <2>3, <1>1, <1>2, ReadKeeps
<1>7. ASSUME NEW q \in {{}, {c}}, Lose(s, q, To(s, "fail")) \/ Interrupt(s, q, To(s, "cancel"))
      PROVE  LInv'
  <2>1. \A k \in q : Waiting(k, sub') BY Zenon, <1>4, <1>7
  <2>2. CASE Lose(s, q, To(s, "fail"))
    <3> DEFINE l == To(s, "fail")
    <3>1. "fail" \in {"runs", "exec", "fail", "failUpdate"} OBVIOUS
    <3>2. Fine(s, l, batch, env) BY Zenon, <3>1, <1>2, OwnerStays
    <3>3. Lose(s, q, l) BY Zenon, <2>2
    <3> HIDE DEF l, c
    <3> QED BY Zenon, <3>2, <3>3, <1>1, <1>2, <2>1, LeaveKeeps
  <2>3. CASE Interrupt(s, q, To(s, "cancel"))
    <3> DEFINE l == To(s, "cancel")
    <3>1. DOMAIN l = Fields /\ l.pc = "cancel" BY Zenon, ToFacts
    <3>2. env.interrupts BY <2>3 DEF Interrupt
    <3>3. Interrupt(s, q, l) BY Zenon, <2>3
    <3> HIDE DEF l, c
    <3>4. l.pc \in {"cancel", "reload", "cancelShow"} BY <3>1
    <3>5. Fine(s, l, batch, env) BY Zenon, <3>1, <3>2, <3>4, <1>2, <1>3, OwnerInterrupted
    <3> QED BY Zenon, <3>3, <3>5, <1>1, <1>2, <2>1, LeaveKeeps
  <2> QED BY Zenon, <1>7, <2>2, <2>3
<1>8. \/ /\ Apply(c)
         /\ Goto(s, [sub[s] EXCEPT !.made = i])
         /\ UNCHANGED <<call, late, env>>
      \/ Goto(s, To(s, "exec")) /\ UNCHANGED <<batch, run, call, late, env>>
      \/ \E q \in {{}, {c}} : Lose(s, q, To(s, "fail")) \/ Interrupt(s, q, To(s, "cancel"))
  BY Zenon DEF create_runs
<1> QED BY Zenon, <1>5, <1>6, <1>7, <1>8

LEMMA StepExecution ==
  ASSUME LInv, NEW s \in Submitters, ExecutionEnds(s)
  PROVE  LInv'
<1>1. sub[s].pc = "exec" /\ UNCHANGED <<user, rec>> BY DEF ExecutionEnds, At, others
<1>2. sub[s].pc \in Owning /\ sub[s].pc \notin Unsure BY <1>1 DEF Owning, Unsure
<1>3. Row(batch) /\ Later(batch, batch) BY DEF LInv, Later
<1>4. CASE /\ Goto(s, [To(s, "tally") EXCEPT !.status = batch_status(Join, {run[i] : i \in Tasks})])
           /\ UNCHANGED <<batch, run, call, late, env>>
  <2> DEFINE x == batch_status(Join, {run[i] : i \in Tasks})
             l == [To(s, "tally") EXCEPT !.status = x]
  <2>1. x \in TerminalBatch BY Zenon, AggregateIsTerminal
  <2>2. Goto(s, l) /\ UNCHANGED <<batch, call, late, env>> BY Zenon, <1>4
  <2> HIDE DEF x
  <2>3. DOMAIN l = Fields /\ l.pc = "tally" /\ l.status = x BY ToFacts DEF Fields
  <2> HIDE DEF l
  <2>4. /\ l.pc \in {"runs", "exec", "fail", "failUpdate", "tally", "close", "cancel", "reload", "cancelShow"}
        /\ l.pc \notin {"cancel", "reload", "cancelShow"} /\ l.status \in TerminalBatch
    BY <2>1, <2>3
  <2>5. Fine(s, l, batch, env) BY Zenon, <2>3, <2>4, <1>2, <1>3, OwningFits
  <2> QED BY Zenon, <2>2, <2>5, <1>1, <1>2, ReadKeeps
<1>5. CASE Lose(s, {}, To(s, "fail"))
  <2> DEFINE l == To(s, "fail")
  <2>1. "fail" \in {"runs", "exec", "fail", "failUpdate"} OBVIOUS
  <2>2. Fine(s, l, batch, env) BY Zenon, <2>1, <1>2, OwnerStays
  <2>3. Lose(s, {}, l) BY Zenon, <1>5
  <2> HIDE DEF l
  <2> QED BY Zenon, <2>2, <2>3, <1>1, <1>2, LeavesAlone
<1>6. CASE Interrupt(s, {}, To(s, "cancel"))
  <2> DEFINE l == To(s, "cancel")
  <2>1. DOMAIN l = Fields /\ l.pc = "cancel" BY Zenon, ToFacts
  <2>2. env.interrupts /\ Interrupt(s, {}, l) BY <1>6 DEF Interrupt
  <2> HIDE DEF l
  <2>3. l.pc \in {"cancel", "reload", "cancelShow"} BY <2>1
  <2>4. Fine(s, l, batch, env) BY Zenon, <2>1, <2>2, <2>3, <1>2, <1>3, OwnerInterrupted
  <2> QED BY Zenon, <2>2, <2>4, <1>1, <1>2, LeavesAlone
<1> QED BY Zenon, <1>4, <1>5, <1>6 DEF ExecutionEnds

\* A closing call leaves the row settled.
LEMMA Closes ==
  ASSUME LInv, batch # NoBatch, NEW q, Apply(q), q.op \in {"updateBatch", "cancelBatch"},
         q.op = "updateBatch" => q.st \in TerminalBatch
  PROVE  batch'.status \in TerminalBatch /\ Row(batch') /\ Later(batch, batch')
<1>1. Row(batch) /\ q.op # "createBatch" BY DEF LInv
<1>2. Row(batch') /\ Later(batch, batch') BY Zenon, <1>1, ApplyKeeps
<1>3. batch.status \in BatchStatus /\ DOMAIN batch = {"status", "token"} BY <1>1, RowFacts
<1>4. CASE ~BatchActive
  <2>1. batch' = batch BY <1>4 DEF Apply
  <2>2. batch.status \in TerminalBatch BY <1>3, <1>4, Statuses DEF BatchActive
  <2> QED BY Zenon, <2>1, <2>2, <1>2
<1>5. CASE BatchActive
  <2>1. PICK st \in TerminalBatch : batch' = [batch EXCEPT !.status = st]
    <3>1. CASE q.op = "updateBatch" BY <3>1, <1>5 DEF Apply
    <3>2. CASE q.op = "cancelBatch"
      <4>1. batch' = [batch EXCEPT !.status = "cancelled"] BY <3>2, <1>5 DEF Apply
      <4> QED BY <4>1, Statuses
    <3> QED BY <3>1, <3>2
  <2>2. batch'.status = st BY <2>1, <1>3
  <2> QED BY <2>1, <2>2, <1>2
<1> QED BY <1>4, <1>5

LEMMA IdleKeeps ==
  ASSUME LInv, UNCHANGED <<batch, call, late, sub, user, rec, env>>
  PROVE  LInv'
<1>1. EnvKept BY EnvStays
<1>2. Row(batch') /\ Later(batch, batch') BY DEF LInv, Later
<1>3. /\ Shown(call', batch', env) /\ \A q \in late' : q \in late \/ Waiting(q, sub)
      /\ user' = "show" => batch'.status \in TerminalBatch
      /\ rec' \in {"idle", "swept"} \cup TerminalBatch /\ (rec' # "idle" => batch' # NoBatch)
  BY Zenon DEF LInv
<1> QED BY Zenon, <1>1, <1>2, <1>3, RowKeeps

LEMMA StepTally ==
  ASSUME LInv, NEW s \in Submitters, ListFinalRuns(s)
  PROVE  LInv'
<1>1. sub[s].pc = "tally" /\ UNCHANGED <<user, rec>> BY DEF ListFinalRuns, At, others
<1>2. sub[s].pc \in Owning /\ sub[s].pc \notin Unsure BY <1>1 DEF Owning, Unsure
<1>3. Row(batch) /\ Later(batch, batch) BY DEF LInv, Later
<1>4. CASE Goto(s, To(s, "close")) /\ UNCHANGED <<batch, run, call, late, env>>
  <2> DEFINE l == To(s, "close")
  <2>1. DOMAIN l = Fields /\ l.pc = "close" /\ l.status = sub[s].status BY Zenon, ToFacts
  <2>2. Goto(s, l) /\ UNCHANGED <<batch, call, late, env>> BY Zenon, <1>4
  <2> HIDE DEF l
  <2>3. sub[s].status \in TerminalBatch BY <1>1 DEF LInv, Fine
  <2>4. /\ l.pc \in {"runs", "exec", "fail", "failUpdate", "tally", "close", "cancel", "reload", "cancelShow"}
        /\ l.pc \notin {"cancel", "reload", "cancelShow"} /\ l.status \in TerminalBatch
    BY <2>1, <2>3
  <2>5. Fine(s, l, batch, env) BY Zenon, <2>1, <2>4, <1>2, <1>3, OwningFits
  <2> QED BY Zenon, <2>2, <2>5, <1>1, <1>2, ReadKeeps
<1>5. CASE Lose(s, {}, To(s, "raised"))
  <2>1. "raised" \in Unsure BY DEF Unsure
  <2> QED BY Zenon, <1>1, <1>5, <2>1, GivesUpAlone
<1>6. CASE Interrupt(s, {}, To(s, "cancelShow"))
  <2> DEFINE l == To(s, "cancelShow")
  <2>1. DOMAIN l = Fields /\ l.pc = "cancelShow" BY Zenon, ToFacts
  <2>2. env.interrupts /\ Interrupt(s, {}, l) BY <1>6 DEF Interrupt
  <2> HIDE DEF l
  <2>3. l.pc \in {"cancel", "reload", "cancelShow"} BY <2>1
  <2>4. Fine(s, l, batch, env) BY Zenon, <2>1, <2>2, <2>3, <1>2, <1>3, OwnerInterrupted
  <2> QED BY Zenon, <2>2, <2>4, <1>1, <1>2, LeavesAlone
<1> QED BY Zenon, <1>4, <1>5, <1>6 DEF ListFinalRuns

LEMMA StepClose ==
  ASSUME LInv, NEW s \in Submitters, CloseBatch(s)
  PROVE  LInv'
<1>1. sub[s].pc = "close" /\ UNCHANGED <<user, rec>> BY DEF CloseBatch, At, others
<1>2. sub[s].pc \in Owning /\ sub[s].pc \notin Unsure BY <1>1 DEF Owning, Unsure
<1>3. Row(batch) /\ Later(batch, batch) BY DEF LInv, Later
<1> DEFINE c == UpdateBatchCall(s, sub[s].status)
<1>4. sub[s].status \in TerminalBatch /\ batch # NoBatch /\ batch.token = s BY <1>1, <1>2 DEF LInv, Fine
<1>5. c.op = "updateBatch" /\ c.st \in TerminalBatch BY <1>4 DEF UpdateBatchCall, Request
<1>6. Waiting(c, sub') BY <1>5 DEF Waiting
<1>7. /\ \/ /\ Apply(c)
            /\ Goto(s, [To(s, "sync") EXCEPT !.status = batch'.status, !.answer = batch'.status])
            /\ UNCHANGED <<call, late, env>>
         \/ Lose(s, {c}, To(s, "raised"))
         \/ Interrupt(s, {c}, To(s, "cancelShow"))
  BY Zenon DEF CloseBatch
<1> HIDE DEF c
<1>8. CASE /\ Apply(c)
           /\ Goto(s, [To(s, "sync") EXCEPT !.status = batch'.status, !.answer = batch'.status])
           /\ UNCHANGED <<call, late, env>>
  <2> DEFINE b == batch'
             l == [To(s, "sync") EXCEPT !.status = b.status, !.answer = b.status]
  <2>1. c.op \in {"updateBatch", "cancelBatch"} /\ c.op # "createBatch" BY <1>5
  <2>2. b.status \in TerminalBatch /\ Row(b) /\ Later(batch, b) BY Zenon, <1>4, <1>5, <1>8, <2>1, Closes
  <2>3. Goto(s, l) /\ UNCHANGED <<call, late, env>> BY Zenon, <1>8
  <2>4. b # NoBatch /\ b.token = s BY <2>2, <1>4 DEF Later
  <2>5. DOMAIN l = Fields /\ l.pc = "sync" /\ l.status = b.status /\ l.answer = b.status BY ToFacts DEF Fields
  <2> HIDE DEF l
  <2>6. l.pc \notin Before \cup Observing \cup {"returned", "tally", "close", "failShow", "tidy", "cancel", "reload", "cancelShow"}
    BY <2>5 DEF Before, Observing
  <2>7. Fine(s, l, b, env) BY Zenon, <2>2, <2>4, <2>5, <2>6 DEF Fine
  <2>8. EnvKept /\ Shown(call', b, env)
    <3>1. EnvKept BY Zenon, <2>3, EnvStays
    <3>2. Shown(call', b, env) BY Zenon, <2>2, <2>3, <1>3, StillFine DEF LInv
    <3> QED BY <3>1, <3>2
  <2>9. \A q \in late' : q \in late \/ Waiting(q, sub') BY Zenon, <2>3
  <2> QED BY Zenon, <2>2, <2>3, <2>7, <2>8, <2>9, <1>1, <1>2, Moves
<1>9. CASE Lose(s, {c}, To(s, "raised"))
  <2>1. "raised" \in Unsure BY DEF Unsure
  <2> QED BY Zenon, <1>1, <1>6, <1>9, <2>1, GivesUpCalling
<1>10. CASE Interrupt(s, {c}, To(s, "cancelShow"))
  <2> DEFINE l == To(s, "cancelShow")
  <2>1. DOMAIN l = Fields /\ l.pc = "cancelShow" BY Zenon, ToFacts
  <2>2. env.interrupts /\ Interrupt(s, {c}, l) BY <1>10 DEF Interrupt
  <2> HIDE DEF l
  <2>3. l.pc \in {"cancel", "reload", "cancelShow"} BY <2>1
  <2>4. Fine(s, l, batch, env) BY Zenon, <2>1, <2>2, <2>3, <1>2, <1>3, OwnerInterrupted
  <2> QED BY Zenon, <2>2, <2>4, <1>1, <1>2, <1>6, LeavesCalling
<1> QED BY Zenon, <1>7, <1>8, <1>9, <1>10

LEMMA StepSync ==
  ASSUME LInv, NEW s \in Submitters, SyncProjection(s)
  PROVE  LInv'
<1>1. sub[s].pc = "sync" /\ UNCHANGED <<user, rec>> BY DEF SyncProjection, At, others
<1>2. sub[s].pc \in Owning /\ sub[s].pc \notin Unsure BY <1>1 DEF Owning, Unsure
<1>3. Row(batch) /\ Later(batch, batch) BY DEF LInv, Later
<1>4. /\ batch # NoBatch /\ batch.token = s /\ batch.status \in TerminalBatch
      /\ sub[s].status = batch.status /\ sub[s].answer = batch.status
  BY <1>1, <1>2 DEF LInv, Fine
<1>5. CASE /\ Show(s, tool_call_status_for_batch(sub[s].status))
           /\ Goto(s, To(s, "returned"))
           /\ UNCHANGED <<batch, run, late>>
  <2> DEFINE l == To(s, "returned")
  <2>1. DOMAIN l = Fields /\ l.pc = "returned" /\ l.answer = sub[s].answer BY Zenon, ToFacts
  <2>2. Goto(s, l) /\ UNCHANGED <<batch, late>> BY Zenon, <1>5
  <2> HIDE DEF l
  <2>3. Shown(call', batch, env) /\ (UNCHANGED env \/ CallIsLost) BY Zenon, <1>4, <1>5, ShowFits
  <2>4. l.pc \notin Owning \cup Before \cup Observing \cup
          {"tally", "close", "sync", "failShow", "tidy", "cancel", "reload", "cancelShow"}
    BY <2>1 DEF Owning, Before, Observing
  <2>5. Fine(s, l, batch, env) BY Zenon, <1>4, <2>1, <2>4 DEF Fine
  <2>6. \A q \in late' : q \in late \/ Waiting(q, sub') BY Zenon, <2>2
  <2> QED BY Zenon, <1>1, <1>2, <2>2, <2>3, <2>5, <2>6, MovesAlone
<1>6. CASE Interrupt(s, {}, [To(s, "cancelShow") EXCEPT !.answer = "none"])
  <2> DEFINE l == [To(s, "cancelShow") EXCEPT !.answer = "none"]
  <2>1. DOMAIN l = Fields /\ l.pc = "cancelShow" BY ToFacts DEF Fields
  <2>2. env.interrupts /\ Interrupt(s, {}, l) BY <1>6 DEF Interrupt
  <2> HIDE DEF l
  <2>3. l.pc \in {"cancel", "reload", "cancelShow"} BY <2>1
  <2>4. Fine(s, l, batch, env) BY Zenon, <2>1, <2>2, <2>3, <1>2, <1>3, OwnerInterrupted
  <2> QED BY Zenon, <2>2, <2>4, <1>1, <1>2, LeavesAlone
<1> QED BY Zenon, <1>5, <1>6 DEF SyncProjection

LEMMA StepCancelRuns ==
  ASSUME LInv, NEW s \in Submitters, CancelActiveRuns(s)
  PROVE  LInv'
<1>1. sub[s].pc = "fail" /\ UNCHANGED <<user, rec>> BY DEF CancelActiveRuns, At, others
<1>2. sub[s].pc \in Owning /\ sub[s].pc \notin Unsure BY <1>1 DEF Owning, Unsure
<1> DEFINE l == To(s, "failUpdate")
<1>3. "failUpdate" \in {"runs", "exec", "fail", "failUpdate"} /\ "raised" \in Unsure BY DEF Unsure
<1>4. Fine(s, l, batch, env) BY Zenon, <1>2, <1>3, OwnerStays
<1>5. ASSUME NEW i \in Tasks, Apply(CancelRunCall(s, i)), UNCHANGED <<call, late, sub, env>>
      PROVE  LInv'
  <2>1. batch' = batch BY <1>5 DEF Apply, CancelRunCall, Request
  <2> QED BY Zenon, <1>1, <1>5, <2>1, IdleKeeps
<1>6. CASE Goto(s, l) /\ UNCHANGED <<batch, run, call, late, env>>
  <2> HIDE DEF l
  <2> QED BY Zenon, <1>1, <1>2, <1>4, <1>6, ReadKeeps
<1>7. ASSUME NEW i \in Tasks,
             \/ Lose(s, {CancelRunCall(s, i)}, l)
             \/ Interrupt(s, {CancelRunCall(s, i)}, To(s, "raised"))
      PROVE  LInv'
  <2> DEFINE c == CancelRunCall(s, i)
  <2>1. Waiting(c, sub') BY DEF Waiting, CancelRunCall, Request
  <2>2. Lose(s, {c}, l) \/ Interrupt(s, {c}, To(s, "raised")) BY Zenon, <1>7
  <2> HIDE DEF l, c
  <2>3. CASE Lose(s, {c}, l) BY Zenon, <1>1, <1>2, <1>4, <2>1, <2>3, LeavesCalling
  <2>4. CASE Interrupt(s, {c}, To(s, "raised")) BY Zenon, <1>1, <1>3, <2>1, <2>4, GivesUpCalling
  <2> QED BY Zenon, <2>2, <2>3, <2>4
<1>8. \/ \E i \in Tasks : Apply(CancelRunCall(s, i)) /\ UNCHANGED <<call, late, sub, env>>
      \/ Goto(s, l) /\ UNCHANGED <<batch, run, call, late, env>>
      \/ \E i \in Tasks : \/ Lose(s, {CancelRunCall(s, i)}, l)
                          \/ Interrupt(s, {CancelRunCall(s, i)}, To(s, "raised"))
  BY Zenon DEF CancelActiveRuns
<1> HIDE DEF l
<1> QED BY Zenon, <1>5, <1>6, <1>7, <1>8

LEMMA StepMarkFailed ==
  ASSUME LInv, NEW s \in Submitters, _mark_batch_failed(s)
  PROVE  LInv'
<1>1. sub[s].pc = "failUpdate" /\ UNCHANGED <<user, rec>> BY DEF _mark_batch_failed, At, others
<1>2. sub[s].pc \in Owning /\ sub[s].pc \notin Unsure BY <1>1 DEF Owning, Unsure
<1>3. Row(batch) /\ batch # NoBatch /\ batch.token = s BY <1>2 DEF LInv, Fine
<1> DEFINE c == UpdateBatchCall(s, "failed")
<1>4. c.op = "updateBatch" /\ c.st \in TerminalBatch BY Statuses DEF UpdateBatchCall, Request
<1>5. Waiting(c, sub') BY <1>4 DEF Waiting
<1>6. /\ \/ /\ Apply(c)
            /\ Goto(s, [To(s, "failShow") EXCEPT !.status = batch'.status])
            /\ UNCHANGED <<call, late, env>>
         \/ Lose(s, {c}, [To(s, "failShow") EXCEPT !.status = "failed"])
         \/ Interrupt(s, {c}, To(s, "raised"))
  BY Zenon DEF _mark_batch_failed
<1> HIDE DEF c
<1>7. ASSUME NEW q, DOMAIN q = Fields, q.pc = "failShow", NEW b, b # NoBatch, b.token = s,
             q.status = "failed" \/ (b.status \in TerminalBatch /\ q.status = b.status)
      PROVE  Fine(s, q, b, env)
  <2>1. q.pc \notin Before \cup Observing \cup {"returned", "tally", "close", "sync", "tidy", "cancel", "reload", "cancelShow"}
    BY <1>7 DEF Before, Observing
  <2> QED BY Zenon, <2>1, <1>7 DEF Fine
<1>8. CASE /\ Apply(c)
           /\ Goto(s, [To(s, "failShow") EXCEPT !.status = batch'.status])
           /\ UNCHANGED <<call, late, env>>
  <2> DEFINE b == batch'
             l == [To(s, "failShow") EXCEPT !.status = b.status]
  <2>1. c.op \in {"updateBatch", "cancelBatch"} BY <1>4
  <2>2. b.status \in TerminalBatch /\ Row(b) /\ Later(batch, b) BY Zenon, <1>3, <1>4, <1>8, <2>1, Closes
  <2>3. Goto(s, l) /\ UNCHANGED <<call, late, env>> BY Zenon, <1>8
  <2>4. b # NoBatch /\ b.token = s BY <2>2, <1>3 DEF Later
  <2>5. DOMAIN l = Fields /\ l.pc = "failShow" /\ l.status = b.status BY ToFacts DEF Fields
  <2> HIDE DEF l
  <2>6. Fine(s, l, b, env) BY Zenon, <2>2, <2>4, <2>5, <1>7
  <2>7. EnvKept BY Zenon, <2>3, EnvStays
  <2>8. Shown(call', b, env) BY Zenon, <2>2, <2>3, <1>3, StillFine DEF LInv
  <2>9. \A q \in late' : q \in late \/ Waiting(q, sub') BY Zenon, <2>3
  <2> QED BY Zenon, <2>2, <2>3, <2>6, <2>7, <2>8, <2>9, <1>1, <1>2, Moves
<1>9. CASE Lose(s, {c}, [To(s, "failShow") EXCEPT !.status = "failed"])
  <2> DEFINE l == [To(s, "failShow") EXCEPT !.status = "failed"]
  <2>1. DOMAIN l = Fields /\ l.pc = "failShow" /\ l.status = "failed" BY ToFacts DEF Fields
  <2>2. Lose(s, {c}, l) BY Zenon, <1>9
  <2> HIDE DEF l
  <2>3. Fine(s, l, batch, env) BY Zenon, <2>1, <1>3, <1>7
  <2> QED BY Zenon, <1>1, <1>2, <1>5, <2>2, <2>3, LeavesCalling
<1>10. CASE Interrupt(s, {c}, To(s, "raised"))
  <2>1. "raised" \in Unsure BY DEF Unsure
  <2> QED BY Zenon, <1>1, <1>5, <1>10, <2>1, GivesUpCalling
<1> QED BY Zenon, <1>6, <1>8, <1>9, <1>10

LEMMA StepMarkCancelled ==
  ASSUME LInv, NEW s \in Submitters, _mark_batch_cancelled(s)
  PROVE  LInv'
<1>1. sub[s].pc = "cancel" /\ UNCHANGED <<user, rec>> BY DEF _mark_batch_cancelled, At, others
<1>2. sub[s].pc \in Owning /\ sub[s].pc \notin Unsure BY <1>1 DEF Owning, Unsure
<1>3. /\ Row(batch) /\ batch # NoBatch /\ Later(batch, batch) /\ env.interrupts
  BY <1>1, <1>2 DEF LInv, Fine, Later
<1> DEFINE c == CancelBatchCall(s)
           l == [To(s, "reload") EXCEPT !.status = "cancelled"]
<1>4. c.op = "cancelBatch" BY DEF CancelBatchCall, Request
<1>5. Waiting(c, sub') BY <1>4 DEF Waiting
<1>6. DOMAIN l = Fields /\ l.pc = "reload" BY ToFacts DEF Fields
<1>7. /\ \/ Apply(c) /\ Goto(s, l) /\ UNCHANGED <<call, late, env>>
         \/ Lose(s, {c}, l)
         \/ Interrupt(s, {c}, To(s, "raised"))
  BY Zenon DEF _mark_batch_cancelled
<1> HIDE DEF c, l
<1>8. l.pc \in {"cancel", "reload", "cancelShow"} BY <1>6
<1>9. CASE Apply(c) /\ Goto(s, l) /\ UNCHANGED <<call, late, env>>
  <2>1. c.op \in {"updateBatch", "cancelBatch"} /\ c.op # "updateBatch" /\ c.op # "createBatch" BY <1>4
  <2>2. Row(batch') /\ Later(batch, batch') BY Zenon, <1>3, <1>9, <2>1, Closes
  <2>3. Fine(s, l, batch', env) BY Zenon, <1>2, <1>3, <1>6, <1>8, <2>2, OwnerInterrupted
  <2> QED BY Zenon, <1>1, <1>2, <1>9, <2>1, <2>3, ApplyMoves
<1>10. CASE Lose(s, {c}, l)
  <2>1. Fine(s, l, batch, env) BY Zenon, <1>2, <1>3, <1>6, <1>8, OwnerInterrupted
  <2> QED BY Zenon, <1>1, <1>2, <1>5, <1>10, <2>1, LeavesCalling
<1>11. CASE Interrupt(s, {c}, To(s, "raised"))
  <2>1. "raised" \in Unsure BY DEF Unsure
  <2> QED BY Zenon, <1>1, <1>5, <1>11, <2>1, GivesUpCalling
<1> QED BY Zenon, <1>7, <1>9, <1>10, <1>11

LEMMA StepReload ==
  ASSUME LInv, NEW s \in Submitters, ReloadCancelled(s)
  PROVE  LInv'
<1>1. sub[s].pc = "reload" /\ UNCHANGED <<user, rec>> BY DEF ReloadCancelled, At, others
<1>2. sub[s].pc \in Owning /\ sub[s].pc \notin Unsure BY <1>1 DEF Owning, Unsure
<1>3. Row(batch) /\ Later(batch, batch) /\ env.interrupts BY <1>1 DEF LInv, Fine, Later
<1>4. ASSUME NEW l, DOMAIN l = Fields, l.pc = "cancelShow" PROVE Fine(s, l, batch, env)
  <2>1. l.pc \in {"cancel", "reload", "cancelShow"} BY <1>4
  <2> QED BY Zenon, <1>2, <1>3, <1>4, <2>1, OwnerInterrupted
<1>5. CASE /\ Goto(s, [To(s, "cancelShow") EXCEPT !.status = batch.status])
           /\ UNCHANGED <<batch, run, call, late, env>>
  <2> DEFINE l == [To(s, "cancelShow") EXCEPT !.status = batch.status]
  <2>1. DOMAIN l = Fields /\ l.pc = "cancelShow" BY ToFacts DEF Fields
  <2>2. Goto(s, l) /\ UNCHANGED <<batch, call, late, env>> BY Zenon, <1>5
  <2> HIDE DEF l
  <2>3. Fine(s, l, batch, env) BY Zenon, <1>4, <2>1
  <2> QED BY Zenon, <1>1, <1>2, <2>2, <2>3, ReadKeeps
<1>6. CASE Lose(s, {}, To(s, "cancelShow"))
  <2> DEFINE l == To(s, "cancelShow")
  <2>1. DOMAIN l = Fields /\ l.pc = "cancelShow" BY Zenon, ToFacts
  <2>2. Lose(s, {}, l) BY Zenon, <1>6
  <2> HIDE DEF l
  <2>3. Fine(s, l, batch, env) BY Zenon, <1>4, <2>1
  <2> QED BY Zenon, <1>1, <1>2, <2>2, <2>3, LeavesAlone
<1>7. CASE Interrupt(s, {}, To(s, "raised"))
  <2>1. "raised" \in Unsure BY DEF Unsure
  <2> QED BY Zenon, <1>1, <1>7, <2>1, GivesUpAlone
<1> QED BY Zenon, <1>5, <1>6, <1>7 DEF ReloadCancelled

\* The last step of a submission that raises: only the plan may change.
LEMMA Raises ==
  ASSUME LInv, NEW s \in Submitters, Goto(s, To(s, "raised")), UNCHANGED env \/ CallIsLost,
         Shown(call', batch, env), UNCHANGED <<batch, late, user, rec>>
  PROVE  LInv'
<1> DEFINE l == To(s, "raised")
<1>1. "raised" \in Unsure BY DEF Unsure
<1>2. Fine(s, l, batch, env) /\ l.pc \in Unsure /\ Goto(s, l) BY Zenon, <1>1, RaisedFits
<1> HIDE DEF l
<1>3. \A q \in late' : q \in late \/ Waiting(q, sub') BY Zenon
<1> QED BY Zenon, <1>2, <1>3, MovesAlone

LEMMA StepSettle ==
  ASSUME LInv, NEW s \in Submitters, SettleProjection(s)
  PROVE  LInv'
<1>1. /\ sub[s].pc \in {"failShow", "cancelShow"} /\ UNCHANGED <<batch, late, user, rec>>
      /\ Goto(s, To(s, "raised"))
  BY DEF SettleProjection, others
<1>2. sub[s].pc \in Owning BY <1>1 DEF Owning
<1>3. Fine(s, sub[s], batch, env) BY DEF LInv
<1>4. sub[s].status = "completed" =>
        batch # NoBatch /\ (~env.interrupts /\ s = batch.token => batch.status = "completed")
  <2>1. "completed" # "failed" OBVIOUS
  <2>2. CASE sub[s].pc = "failShow" BY Zenon, <1>2, <1>3, <2>1, <2>2 DEF Fine
  <2>3. CASE sub[s].pc = "cancelShow"
    <3>1. sub[s].pc \in {"cancel", "reload", "cancelShow"} BY <2>3
    <3> QED BY Zenon, <1>2, <1>3, <3>1 DEF Fine
  <2> QED BY <1>1, <2>2, <2>3
<1>5. Shown(call', batch, env) /\ (UNCHANGED env \/ CallIsLost)
  <2>1. CASE Show(s, tool_call_status_for_batch(sub[s].status)) BY Zenon, <1>4, <2>1, ShowFits
  <2>2. CASE env.interrupts /\ UNCHANGED <<call, env>>
    <3>1. Shown(call, batch, env) BY DEF LInv
    <3> QED BY Zenon, <2>2, <3>1
  <2> QED BY Zenon, <2>1, <2>2 DEF SettleProjection
<1> QED BY Zenon, <1>1, <1>5, Raises

-----------------------------------------------------------------------------
(* A duplicate's steps *)

LEMMA ObserverGoes ==
  ASSUME LInv, NEW s \in Submitters, sub[s].pc \in Observing, NEW w \in {"load", "watch", "verdict", "drop"}
  PROVE  Fine(s, To(s, w), batch, env)
<1> DEFINE l == To(s, w)
<1>1. DOMAIN l = Fields /\ l.pc = w /\ l.status = sub[s].status BY Zenon, ToFacts
<1> HIDE DEF l
<1>2. Fine(s, l, batch, env) BY Zenon, <1>1, ObservingFits
<1> QED BY Zenon, <1>2 DEF l

LEMMA ObserverDrops ==
  ASSUME LInv, NEW s \in Submitters, sub[s].pc \in Observing,
         Lose(s, {}, To(s, "drop")) \/ Interrupt(s, {}, To(s, "drop")), UNCHANGED <<user, rec>>
  PROVE  LInv'
<1> DEFINE l == To(s, "drop")
<1>1. "drop" \in {"load", "watch", "verdict", "drop"} OBVIOUS
<1>2. Fine(s, l, batch, env) BY Zenon, <1>1, ObserverGoes
<1>3. Lose(s, {}, l) \/ Interrupt(s, {}, l) BY Zenon
<1>4. sub[s].pc \notin Unsure BY DEF Observing, Unsure
<1> HIDE DEF l
<1> QED BY Zenon, <1>2, <1>3, <1>4, LeavesAlone

LEMMA StepLoad ==
  ASSUME LInv, NEW s \in Submitters, load_existing_batch_runs(s)
  PROVE  LInv'
<1>1. sub[s].pc = "load" /\ UNCHANGED <<user, rec>> BY DEF load_existing_batch_runs, At, others
<1>2. sub[s].pc \in Observing /\ sub[s].pc \notin Unsure BY <1>1 DEF Observing, Unsure
<1>3. {"watch", "drop"} \subseteq {"load", "watch", "verdict", "drop"} OBVIOUS
<1>4. Fine(s, To(s, "watch"), batch, env) BY <1>2, <1>3, ObserverGoes
<1>5. Fine(s, To(s, "drop"), batch, env) BY <1>2, <1>3, ObserverGoes
<1>6. Shown(call, batch, env) BY DEF LInv
<1>7. CASE /\ call' = [call EXCEPT ![s] = "gone"]
           /\ Goto(s, [To(s, "watch") EXCEPT !.prov = FALSE])
           /\ UNCHANGED env /\ UNCHANGED <<batch, run, late>>
  <2> DEFINE l == [To(s, "watch") EXCEPT !.prov = FALSE]
  <2>1. DOMAIN l = Fields /\ l.pc = "watch" /\ l.status = sub[s].status BY ToFacts DEF Fields
  <2>2. Goto(s, l) /\ UNCHANGED <<batch, late, env>> BY Zenon, <1>7
  <2> HIDE DEF l
  <2>3. l.pc \in {"load", "watch", "verdict", "drop"} BY <2>1
  <2>4. Fine(s, l, batch, env) BY Zenon, <1>2, <2>1, <2>3, ObservingFits
  <2>5. "gone" # "successful" OBVIOUS
  <2>6. Shown([call EXCEPT ![s] = "gone"], batch, env) BY Zenon, <1>6, <2>5, Paints
  <2>7. Shown(call', batch, env) BY Zenon, <1>7, <2>6
  <2>8. \A q \in late' : q \in late \/ Waiting(q, sub') BY Zenon, <2>2
  <2> QED BY Zenon, <1>1, <1>2, <2>2, <2>4, <2>7, <2>8, MovesAlone
<1>8. CASE /\ UNCHANGED env \/ CallIsLost
           /\ Goto(s, To(s, "watch")) /\ UNCHANGED <<batch, call, late>>
  <2> DEFINE l == To(s, "watch")
  <2>1. Goto(s, l) /\ Fine(s, l, batch, env) BY Zenon, <1>4, <1>8
  <2> HIDE DEF l
  <2> QED BY Zenon, <1>1, <1>2, <1>8, <2>1, ReadKeeps
<1>9. CASE Goto(s, To(s, "drop")) /\ UNCHANGED <<batch, run, call, late, env>>
  <2> DEFINE l == To(s, "drop")
  <2>1. Goto(s, l) /\ Fine(s, l, batch, env) BY Zenon, <1>5, <1>9
  <2> HIDE DEF l
  <2> QED BY Zenon, <1>1, <1>2, <1>9, <2>1, ReadKeeps
<1>10. CASE Lose(s, {}, To(s, "drop")) \/ Interrupt(s, {}, To(s, "drop"))
  BY Zenon, <1>1, <1>2, <1>10, ObserverDrops
<1> QED BY Zenon, <1>7, <1>8, <1>9, <1>10 DEF load_existing_batch_runs

LEMMA StepPollRuns ==
  ASSUME LInv, NEW s \in Submitters, PollRuns(s)
  PROVE  LInv'
<1> DEFINE k == {i \in Pending(s) : Settled(i)}
           l == [sub[s] EXCEPT !.listed = k]
<1>1. sub[s].pc = "watch" /\ Goto(s, l) /\ UNCHANGED <<batch, call, late, env, user, rec>>
  BY Zenon DEF PollRuns, At, others
<1>2. DOMAIN sub[s] = Fields BY DEF LInv, Fine
<1> HIDE DEF k
<1>3. DOMAIN l = Fields /\ l.pc = sub[s].pc /\ l.status = sub[s].status /\ l.answer = sub[s].answer
  BY <1>2 DEF Fields
<1> HIDE DEF l
<1>4. Fine(s, l, batch, env) BY Zenon, <1>3, SamePlace
<1>5. sub[s].pc \notin Unsure BY <1>1 DEF Unsure
<1> QED BY Zenon, <1>1, <1>4, <1>5, ReadKeeps

LEMMA StepReadDetail ==
  ASSUME LInv, NEW s \in Submitters, NEW i \in Tasks, ReadDetail(s, i)
  PROVE  LInv'
<1> DEFINE l == [sub[s] EXCEPT !.listed = @ \ {i}, !.seen[i] = run[i]]
           m == [sub[s] EXCEPT !.listed = @ \ {i}]
<1>1. sub[s].pc = "watch" /\ UNCHANGED <<user, rec>> BY DEF ReadDetail, At, others
<1>2. DOMAIN sub[s] = Fields BY DEF LInv, Fine
<1>3. (Goto(s, l) /\ UNCHANGED <<batch, call, late, env>>) \/ Lose(s, {}, m) BY Zenon DEF ReadDetail
<1>4. DOMAIN l = Fields /\ l.pc = sub[s].pc /\ l.status = sub[s].status /\ l.answer = sub[s].answer
  BY <1>2 DEF Fields
<1>5. DOMAIN m = Fields /\ m.pc = sub[s].pc /\ m.status = sub[s].status /\ m.answer = sub[s].answer
  BY <1>2 DEF Fields
<1> HIDE DEF l, m
<1>6. Fine(s, l, batch, env) /\ Fine(s, m, batch, env) BY Zenon, <1>4, <1>5, SamePlace
<1>7. sub[s].pc \notin Unsure BY <1>1 DEF Unsure
<1>8. CASE Goto(s, l) /\ UNCHANGED <<batch, call, late, env>> BY Zenon, <1>1, <1>6, <1>7, <1>8, ReadKeeps
<1>9. CASE Lose(s, {}, m) BY Zenon, <1>1, <1>6, <1>7, <1>9, LeavesAlone
<1> QED BY Zenon, <1>3, <1>8, <1>9

LEMMA StepPollBatch ==
  ASSUME LInv, NEW s \in Submitters, PollBatch(s)
  PROVE  LInv'
<1>1. sub[s].pc = "watch" /\ UNCHANGED <<user, rec>> BY DEF PollBatch, At, others
<1>2. sub[s].pc \in Observing /\ sub[s].pc \notin Unsure BY <1>1 DEF Observing, Unsure
<1> DEFINE l == [To(s, "verdict") EXCEPT !.status = batch.status]
           m == To(s, "verdict")
<1>3. "verdict" \in {"load", "watch", "verdict", "drop"} OBVIOUS
<1>4. Fine(s, m, batch, env) BY <1>2, <1>3, ObserverGoes
<1>5. DOMAIN l = Fields /\ l.pc = "verdict" /\ l.status = batch.status BY ToFacts DEF Fields
<1>6. \/ Goto(s, IF Pending(s) = {} THEN l ELSE m) /\ UNCHANGED <<batch, call, late, env>>
      \/ Lose(s, {}, m)
      \/ Interrupt(s, {}, To(s, "drop"))
  BY Zenon DEF PollBatch
<1> HIDE DEF l, m
<1>7. Fine(s, l, batch, env) BY Zenon, <1>2, <1>3, <1>5, ObservingFits
<1>8. CASE Goto(s, IF Pending(s) = {} THEN l ELSE m) /\ UNCHANGED <<batch, call, late, env>>
  <2>1. Goto(s, l) \/ Goto(s, m) BY Zenon, <1>8
  <2> QED BY Zenon, <1>1, <1>2, <1>4, <1>7, <1>8, <2>1, ReadKeeps
<1>9. CASE Lose(s, {}, m) BY Zenon, <1>1, <1>2, <1>4, <1>9, LeavesAlone
<1>10. CASE Interrupt(s, {}, To(s, "drop")) BY Zenon, <1>1, <1>2, <1>10, ObserverDrops
<1> QED BY Zenon, <1>6, <1>8, <1>9, <1>10

LEMMA StepShowVerdict ==
  ASSUME LInv, NEW s \in Submitters, ShowVerdict(s)
  PROVE  LInv'
<1>1. sub[s].pc = "verdict" /\ UNCHANGED <<user, rec>> BY DEF ShowVerdict, At, others
<1>2. sub[s].pc \in Observing /\ sub[s].pc \notin Unsure BY <1>1 DEF Observing, Unsure
<1>3. /\ batch # NoBatch /\ batch.token # s /\ env.print[s] = env.print[batch.token]
      /\ sub[s].status \in TerminalBatch => sub[s].status = batch.status
  BY Zenon, <1>2 DEF LInv, Fine
<1>4. batch.token \in Submitters BY <1>3, RowFacts DEF LInv
<1>5. Shown(call, batch, env) BY DEF LInv
<1> DEFINE v == Verdict(s)
           l == [To(s, "tidy") EXCEPT !.answer = v]
           painted == [call EXCEPT ![batch.token] = tool_call_status_for_batch(v)]
<1>6. (v = sub[s].status /\ sub[s].status \in TerminalBatch) \/ v = "blocked" BY Zenon DEF Verdict
<1>7. \/ /\ call' = painted \/ call' = call
         /\ Goto(s, l) /\ UNCHANGED <<batch, late, env>>
      \/ Lose(s, {}, To(s, "drop")) \/ Interrupt(s, {}, To(s, "drop"))
  BY Zenon DEF ShowVerdict
<1> HIDE DEF v
<1>8. DOMAIN l = Fields /\ l.pc = "tidy" /\ l.status = sub[s].status /\ l.answer = v BY ToFacts DEF Fields
<1>9. Shown(painted, batch, env)
  <2>1. "blocked" # "completed" OBVIOUS
  <2>2. v = "completed" => batch.status = "completed" BY Zenon, <1>3, <1>6, <2>1
  <2> QED BY Zenon, <1>3, <1>4, <1>5, <2>2, Colours, Paints
<1> HIDE DEF l, painted
<1>10. Fine(s, l, batch, env)
  <2>1. l.pc \in Observing /\ l.pc \notin Owning \cup Before \cup
          {"returned", "tally", "close", "sync", "failShow", "cancel", "reload", "cancelShow"}
    BY <1>8 DEF Owning, Before, Observing
  <2>2. \/ batch.status \in TerminalBatch /\ l.answer = batch.status
        \/ l.answer = "blocked"
    BY Zenon, <1>3, <1>6, <1>8
  <2> QED BY Zenon, <1>3, <1>8, <2>1, <2>2 DEF Fine
<1>11. CASE /\ call' = painted \/ call' = call
            /\ Goto(s, l) /\ UNCHANGED <<batch, late, env>>
  <2>1. Shown(call', batch, env) BY Zenon, <1>5, <1>9, <1>11
  <2>2. \A q \in late' : q \in late \/ Waiting(q, sub') BY Zenon, <1>11
  <2> QED BY Zenon, <1>1, <1>2, <1>10, <1>11, <2>1, <2>2, MovesAlone
<1>12. CASE Lose(s, {}, To(s, "drop")) \/ Interrupt(s, {}, To(s, "drop"))
  BY Zenon, <1>1, <1>2, <1>12, ObserverDrops
<1> QED BY Zenon, <1>7, <1>11, <1>12

LEMMA StepTidy ==
  ASSUME LInv, NEW s \in Submitters, Tidy(s)
  PROVE  LInv'
<1>1. sub[s].pc = "tidy" /\ UNCHANGED <<user, rec>> BY DEF Tidy, At, others
<1>2. /\ sub[s].pc \in Observing /\ sub[s].pc \notin Unsure
      /\ sub[s].pc \in {"tidy", "returned"}
  BY <1>1 DEF Observing, Unsure
<1>3. /\ batch # NoBatch /\ batch.token # s /\ env.print[s] = env.print[batch.token]
      /\ \/ batch.status \in TerminalBatch /\ sub[s].answer = batch.status
         \/ sub[s].answer = "blocked" /\ batch.token # s
  BY Zenon, <1>2 DEF LInv, Fine
<1>4. Shown(call, batch, env) BY DEF LInv
<1> DEFINE l == To(s, "returned")
           m == [To(s, "drop") EXCEPT !.answer = "none"]
           x == tool_call_status_for_batch(sub[s].answer)
<1>5. DOMAIN l = Fields /\ l.pc = "returned" /\ l.answer = sub[s].answer BY Zenon, ToFacts
<1>6. DOMAIN m = Fields /\ m.pc = "drop" /\ m.status = sub[s].status BY ToFacts DEF Fields
<1>7. \/ /\ \/ call' = [call EXCEPT ![s] = "gone"] /\ UNCHANGED env
            \/ CallIsLost /\ call' = [call EXCEPT ![s] = x]
            \/ UNCHANGED <<call, env>>
         /\ Goto(s, l) /\ UNCHANGED <<batch, late>>
      \/ Lose(s, {}, m) \/ Interrupt(s, {}, m)
  BY Zenon DEF Tidy
<1>8. Shown([call EXCEPT ![s] = x], batch, env) BY Zenon, <1>3, <1>4, Paints
<1>9. Shown([call EXCEPT ![s] = "gone"], batch, env) BY Zenon, <1>3, <1>4, Paints
<1> HIDE DEF l, m, x
<1>10. CASE /\ \/ call' = [call EXCEPT ![s] = "gone"] /\ UNCHANGED env
               \/ CallIsLost /\ call' = [call EXCEPT ![s] = x]
               \/ UNCHANGED <<call, env>>
            /\ Goto(s, l) /\ UNCHANGED <<batch, late>>
  <2>1. Shown(call', batch, env) /\ (UNCHANGED env \/ CallIsLost) BY Zenon, <1>4, <1>8, <1>9, <1>10
  <2>2. \A q \in late' : q \in late \/ Waiting(q, sub') BY Zenon, <1>10
  <2>3. l.pc \notin Owning \cup Before \cup Observing \cup
          {"tally", "close", "sync", "failShow", "cancel", "reload", "cancelShow"}
    BY <1>5 DEF Owning, Before, Observing
  <2>4. Fine(s, l, batch, env) BY Zenon, <1>3, <1>5, <2>3 DEF Fine
  <2> QED BY Zenon, <1>1, <1>2, <1>10, <2>1, <2>2, <2>4, MovesAlone
<1>11. CASE Lose(s, {}, m) \/ Interrupt(s, {}, m)
  <2>1. m.pc \in {"load", "watch", "verdict", "drop"} BY <1>6
  <2>2. Fine(s, m, batch, env) BY Zenon, <1>2, <1>6, <2>1, ObservingFits
  <2> QED BY Zenon, <1>1, <1>2, <1>11, <2>2, LeavesAlone
<1> QED BY Zenon, <1>7, <1>10, <1>11

LEMMA StepDrop ==
  ASSUME LInv, NEW s \in Submitters, Drop(s)
  PROVE  LInv'
<1>1. /\ UNCHANGED <<batch, late, user, rec>> /\ Goto(s, To(s, "raised"))
      /\ \/ call' = [call EXCEPT ![s] = "gone"] /\ UNCHANGED env
         \/ CallIsLost /\ call' = [call EXCEPT ![s] = "failed"]
         \/ UNCHANGED <<call, env>>
  BY Zenon DEF Drop, others
<1>2. Shown(call, batch, env) /\ "gone" # "successful" /\ "failed" # "successful" BY DEF LInv
<1>3. /\ Shown([call EXCEPT ![s] = "gone"], batch, env)
      /\ Shown([call EXCEPT ![s] = "failed"], batch, env)
  BY Zenon, <1>2, Paints
<1>4. Shown(call', batch, env) /\ (UNCHANGED env \/ CallIsLost) BY Zenon, <1>1, <1>2, <1>3
<1> QED BY Zenon, <1>1, <1>4, Raises

-----------------------------------------------------------------------------
(* The steps of the others *)

LEMMA StepRun ==
  ASSUME LInv, NEW s, NEW i, NEW st, RunStep(s, i, st)
  PROVE  LInv'
<1>1. UNCHANGED <<batch, call, late, sub, user, rec, env>> BY DEF RunStep
<1> QED BY Zenon, <1>1, IdleKeeps

\* The rows change by a call of a process that is no submission, or by a late
\* one; the plan does not.
LEMMA AppliedByOthers ==
  ASSUME LInv, NEW q, Apply(q), q.op # "createBatch", q.op = "updateBatch" => q.st \in TerminalBatch,
         late' \subseteq late, UNCHANGED <<call, sub, env, user, rec>>
  PROVE  LInv'
<1>1. Row(batch) BY DEF LInv
<1>2. Row(batch') /\ Later(batch, batch') BY Zenon, <1>1, ApplyKeeps
<1>3. EnvKept BY EnvStays
<1>4. Shown(call', batch', env) BY Zenon, <1>1, <1>2, StillFine DEF LInv
<1>5. \A c \in late' : c \in late \/ Waiting(c, sub) BY Zenon
<1>6. user' = "show" => batch'.status \in TerminalBatch
  <2>1. user = "show" => batch.status \in TerminalBatch BY DEF LInv
  <2>2. batch.status \in TerminalBatch => batch # NoBatch BY Statuses
  <2> QED BY Zenon, <1>2, <2>1, <2>2 DEF Later
<1>7. rec' \in {"idle", "swept"} \cup TerminalBatch /\ (rec' # "idle" => batch' # NoBatch)
  BY Zenon, <1>2 DEF LInv, Later
<1> QED BY Zenon, <1>2, <1>3, <1>4, <1>5, <1>6, <1>7, RowKeeps

\* The plan, the lost calls and the late ones change; the row does not.
LEMMA ShownByOthers ==
  ASSUME LInv, UNCHANGED env \/ CallIsLost, Shown(call', batch, env),
         \A q \in late' : q \in late \/ Waiting(q, sub), UNCHANGED <<batch, sub>>,
         user' # "show" \/ UNCHANGED user,
         rec' \in {"idle", "swept"} \cup TerminalBatch, rec' # "idle" => batch # NoBatch
  PROVE  LInv'
<1>1. EnvKept BY EnvStays
<1>2. Row(batch') /\ Later(batch, batch') BY DEF LInv, Later
<1>3. /\ Shown(call', batch', env)
      /\ user' = "show" => batch'.status \in TerminalBatch
      /\ rec' # "idle" => batch' # NoBatch
  BY Zenon DEF LInv
<1>4. UNCHANGED sub BY Zenon
<1> QED BY Zenon, <1>1, <1>2, <1>3, <1>4, RowKeeps

LEMMA StepConverge ==
  ASSUME LInv, NEW s \in Submitters, _cancel_owned_batch_when_visible(s)
  PROVE  LInv'
<1> DEFINE c == CancelBatchCall(s)
<1>1. UNCHANGED <<sub, user, rec>> BY DEF _cancel_owned_batch_when_visible
<1>2. c.op = "cancelBatch" BY DEF CancelBatchCall, Request
<1>3. Waiting(c, sub) BY <1>2 DEF Waiting
<1>4. \/ Apply(c) /\ UNCHANGED <<call, late, env>>
      \/ CallIsLost /\ late' = late \cup {c} /\ UNCHANGED <<batch, call>>
      \/ Show(s, "gone") /\ UNCHANGED <<batch, late>>
  BY Zenon DEF _cancel_owned_batch_when_visible
<1> HIDE DEF c
<1>5. Shown(call, batch, env) /\ rec \in {"idle", "swept"} \cup TerminalBatch /\ (rec # "idle" => batch # NoBatch)
  BY DEF LInv
<1>6. CASE Apply(c) /\ UNCHANGED <<call, late, env>>
  <2>1. c.op # "createBatch" /\ c.op # "updateBatch" /\ late' \subseteq late BY <1>2, <1>6
  <2> QED BY Zenon, <1>1, <1>6, <2>1, AppliedByOthers
<1>7. CASE CallIsLost /\ late' = late \cup {c} /\ UNCHANGED <<batch, call>>
  <2>1. \A q \in late' : q \in late \/ Waiting(q, sub) BY Zenon, <1>3, <1>7
  <2>2. Shown(call', batch, env) BY Zenon, <1>5, <1>7
  <2> QED BY Zenon, <1>1, <1>5, <1>7, <2>1, <2>2, ShownByOthers
<1>8. CASE Show(s, "gone") /\ UNCHANGED <<batch, late>>
  <2>1. "gone" # "successful" OBVIOUS
  <2>2. Shown([call EXCEPT ![s] = "gone"], batch, env) BY Zenon, <1>5, <2>1, Paints
  <2>3. Shown(call', batch, env) /\ (UNCHANGED env \/ CallIsLost) BY Zenon, <1>5, <1>8, <2>2 DEF Show
  <2>4. \A q \in late' : q \in late \/ Waiting(q, sub) BY Zenon, <1>8
  <2> QED BY Zenon, <1>1, <1>5, <1>8, <2>3, <2>4, ShownByOthers
<1> QED BY Zenon, <1>4, <1>6, <1>7, <1>8

LEMMA StepCrash ==
  ASSUME LInv, NEW s \in Submitters, Crash(s)
  PROVE  LInv'
<1> DEFINE l == [To(s, "crashed") EXCEPT !.answer = "none"]
<1>1. Goto(s, l) /\ UNCHANGED <<batch, call, late, user, rec, env>> BY Zenon DEF Crash
<1>2. DOMAIN l = Fields /\ l.pc = "crashed" BY ToFacts DEF Fields
<1> HIDE DEF l
<1>3. l.pc \in Unsure BY <1>2 DEF Unsure
<1>4. Fine(s, l, batch, env) BY Zenon, <1>2, <1>3, UnsureFits
<1> QED BY Zenon, <1>1, <1>3, <1>4, ReadKeeps

LEMMA StepLand ==
  ASSUME LInv, NEW q \in late, Land(q)
  PROVE  LInv'
<1>1. late' \subseteq late /\ UNCHANGED <<call, sub, env, user, rec>> /\ (Apply(q) \/ UNCHANGED batch)
  BY DEF Land, store
<1>2. Waiting(q, sub) BY DEF LInv
<1>3. CASE UNCHANGED batch
  <2>1. Shown(call', batch, env) /\ (\A c \in late' : c \in late \/ Waiting(c, sub)) BY Zenon, <1>1 DEF LInv
  <2>2. rec' \in {"idle", "swept"} \cup TerminalBatch /\ (rec' # "idle" => batch # NoBatch) BY Zenon, <1>1 DEF LInv
  <2> QED BY Zenon, <1>1, <1>3, <2>1, <2>2, ShownByOthers
<1>4. CASE Apply(q) /\ q.op # "createBatch"
  <2>1. q.op = "updateBatch" => q.st \in TerminalBatch BY <1>2 DEF Waiting
  <2> QED BY Zenon, <1>1, <1>4, <2>1, AppliedByOthers
<1>5. CASE Apply(q) /\ q.op = "createBatch" /\ batch' # batch
  <2>1. q.by \in Submitters /\ sub[q.by].pc \in Unsure BY <1>2, <1>5 DEF Waiting
  <2>2. batch = NoBatch /\ batch' = [status |-> "running", token |-> q.by] BY <1>5 DEF Apply
  <2>3. sub[q.by].pc # "create" /\ sub[q.by].pc \in Unsure \cup {"create"} BY <2>1 DEF Unsure
  <2>4. sub' = sub /\ DOMAIN sub = Submitters /\ DOMAIN sub[q.by] = Fields
    BY Zenon, <1>1, <2>1 DEF LInv, Fine
  <2> DEFINE t == q.by
  <2>5. /\ t \in Submitters /\ batch' = [status |-> "running", token |-> t]
        /\ sub[t].pc # "create" /\ sub[t].pc \in Unsure \cup {"create"} /\ sub[t].pc \in Unsure
        /\ DOMAIN sub' = Submitters /\ DOMAIN sub'[t] = Fields /\ sub'[t].pc \in Unsure
        /\ \A s \in Submitters \ {t} : sub'[s] = sub[s]
    BY Zenon, <2>1, <2>2, <2>3, <2>4
  <2> HIDE DEF t
  <2> QED BY Zenon, <1>1, <2>2, <2>5, CreationKeeps
<1> QED BY Zenon, <1>1, <1>3, <1>4, <1>5

LEMMA StepCancelTurn ==
  ASSUME LInv, CancelTurn
  PROVE  LInv'
<1> DEFINE c == CancelBatchCall(Nobody)
<1>1. Apply(c) /\ BatchActive /\ UNCHANGED <<call, late, sub, rec, env>> BY Zenon DEF CancelTurn
<1>2. c.op = "cancelBatch" BY DEF CancelBatchCall, Request
<1> HIDE DEF c
<1>3. c.op \in {"updateBatch", "cancelBatch"} /\ c.op # "updateBatch" BY <1>2
<1>4. Row(batch) /\ batch # NoBatch BY <1>1, Statuses, RowFacts DEF LInv, BatchActive
<1>5. batch'.status \in TerminalBatch /\ Row(batch') /\ Later(batch, batch')
  BY Zenon, <1>1, <1>3, <1>4, Closes
<1>6. EnvKept /\ UNCHANGED sub
  <2>1. UNCHANGED env \/ CallIsLost BY Zenon, <1>1
  <2> QED BY Zenon, <1>1, <2>1, EnvStays
<1>7. Shown(call', batch', env) BY Zenon, <1>1, <1>4, <1>5, StillFine DEF LInv
<1>8. \A q \in late' : q \in late \/ Waiting(q, sub) BY Zenon, <1>1
<1>9. rec' \in {"idle", "swept"} \cup TerminalBatch /\ (rec' # "idle" => batch' # NoBatch)
  BY Zenon, <1>1, <1>4, <1>5 DEF LInv, Later
<1> QED BY Zenon, <1>5, <1>6, <1>7, <1>8, <1>9, RowKeeps

LEMMA StepShowCancelled ==
  ASSUME LInv, ShowCancelled
  PROVE  LInv'
<1>1. /\ user = "show" /\ Show(batch.token, tool_call_status_for_batch(batch.status))
      /\ user' = "done" /\ UNCHANGED <<batch, late, sub, rec>>
  BY Zenon DEF ShowCancelled
<1>2. batch # NoBatch /\ batch.token \in Submitters
  <2>1. batch.status \in TerminalBatch /\ Row(batch) BY <1>1 DEF LInv
  <2> QED BY <2>1, Statuses, RowFacts
<1>3. Shown(call', batch, env) /\ (UNCHANGED env \/ CallIsLost) BY Zenon, <1>1, <1>2, ShowFits
<1>4. /\ rec' \in {"idle", "swept"} \cup TerminalBatch /\ (rec' # "idle" => batch # NoBatch)
      /\ \A q \in late' : q \in late \/ Waiting(q, sub)
  BY Zenon, <1>1, <1>2 DEF LInv
<1>5. user' # "show" BY <1>1
<1> QED BY Zenon, <1>1, <1>3, <1>4, <1>5, ShownByOthers

LEMMA StepSweep ==
  ASSUME LInv, SweepStaleRuns
  PROVE  LInv'
<1>1. /\ Silent /\ rec' = "swept" /\ UNCHANGED <<batch, call, late, sub, user, env>>
  BY Zenon DEF SweepStaleRuns
<1>2. batch # NoBatch BY <1>1 DEF Silent
<1>3. /\ Shown(call', batch, env) /\ (\A q \in late' : q \in late \/ Waiting(q, sub))
      /\ rec' \in {"idle", "swept"} \cup TerminalBatch
  BY Zenon, <1>1 DEF LInv
<1> QED BY Zenon, <1>1, <1>2, <1>3, ShownByOthers

\* What the reconciler publishes is the status of the row as it is then.
LEMMA PublishFits ==
  ASSUME LInv, batch # NoBatch, NEW b, Row(b), Later(batch, b), Publish(b.status)
  PROVE  Shown(call', b, env) /\ (UNCHANGED env \/ CallIsLost)
<1>1. Row(batch) /\ Shown(call, batch, env) BY DEF LInv
<1>2. Shown(call, b, env) BY Zenon, <1>1, StillFine
<1>3. batch.token \in Submitters /\ b # NoBatch BY <1>1, RowFacts DEF Later
<1>4. Shown([call EXCEPT ![batch.token] = tool_call_status_for_batch(b.status)], b, env)
  BY Zenon, <1>2, <1>3, Colours, Paints
<1> QED BY Zenon, <1>2, <1>4 DEF Publish, Show

LEMMA StepFinalize ==
  ASSUME LInv, _finalize_stale_batch
  PROVE  LInv'
<1>1. /\ rec = "swept" /\ UNCHANGED <<batch, late, sub, user>>
      /\ UNCHANGED <<call, env>> \/ Publish(batch.status)
  BY Zenon DEF _finalize_stale_batch
<1>2. rec' \in {"idle", "swept"} \cup TerminalBatch
  <2>1. rec' = "idle" \/ \E k : rec' = batch_status(Join, k) BY Zenon DEF _finalize_stale_batch
  <2> QED BY Zenon, <2>1, AggregateIsTerminal
<1>3. Row(batch) /\ Later(batch, batch) /\ batch # NoBatch BY <1>1 DEF LInv, Later
<1>4. Shown(call', batch, env) /\ (UNCHANGED env \/ CallIsLost)
  <2>1. Shown(call, batch, env) BY DEF LInv
  <2> QED BY Zenon, <1>1, <1>3, <2>1, PublishFits
<1>5. \A q \in late' : q \in late \/ Waiting(q, sub) BY Zenon, <1>1
<1> QED BY Zenon, <1>1, <1>2, <1>3, <1>4, <1>5, ShownByOthers

LEMMA StepFinalizeUpdate ==
  ASSUME LInv, FinalizeUpdate
  PROVE  LInv'
<1> DEFINE c == UpdateBatchCall(Nobody, rec)
           b == batch'
<1>1. /\ rec \in TerminalBatch /\ rec' = "idle" /\ Apply(c) /\ Publish(b.status)
      /\ UNCHANGED <<late, sub, user>>
  BY Zenon DEF FinalizeUpdate
<1>2. c.op = "updateBatch" /\ c.st \in TerminalBatch BY <1>1 DEF UpdateBatchCall, Request
<1> HIDE DEF c
<1>3. c.op \in {"updateBatch", "cancelBatch"} BY <1>2
<1>4. Row(batch) /\ batch # NoBatch
  <2>1. "idle" \notin TerminalBatch BY DEF TerminalBatch, TerminalRun, RetryableRun, AbsorbingRun
  <2> QED BY Zenon, <1>1, <2>1 DEF LInv
<1>5. b.status \in TerminalBatch /\ Row(b) /\ Later(batch, b) BY Zenon, <1>1, <1>2, <1>3, <1>4, Closes
<1>6. Shown(call', b, env) /\ (UNCHANGED env \/ CallIsLost) BY Zenon, <1>1, <1>4, <1>5, PublishFits
<1>7. EnvKept BY Zenon, <1>6, EnvStays
<1>8. \A q \in late' : q \in late \/ Waiting(q, sub) BY Zenon, <1>1
<1>9. rec' \in {"idle", "swept"} \cup TerminalBatch /\ ~(rec' # "idle") /\ UNCHANGED sub BY Zenon, <1>1
<1> QED BY Zenon, <1>5, <1>6, <1>7, <1>8, <1>9, RowKeeps

-----------------------------------------------------------------------------
(* The lifecycle *)

LEMMA SubmissionKeeps ==
  ASSUME LInv, NEW s \in Submitters, Submission(s)
  PROVE  LInv'
<1>1. CASE \/ _find_existing_submission_batch(s) \/ _create_batch_projection(s) \/ plan(s)
           \/ materialize_batch(s) \/ AbandonProjection(s) \/ create_runs(s)
  BY Zenon, <1>1, StepFind, StepProject, StepPlan, StepMaterialize, StepAbandon, StepRuns
<1>2. CASE \/ \E i \in Tasks, st \in TaskStatus : RunStep(s, i, st)
           \/ ExecutionEnds(s) \/ ListFinalRuns(s) \/ CloseBatch(s) \/ SyncProjection(s)
  BY Zenon, <1>2, StepRun, StepExecution, StepTally, StepClose, StepSync
<1>3. CASE \/ CancelActiveRuns(s) \/ _mark_batch_failed(s) \/ _mark_batch_cancelled(s)
           \/ ReloadCancelled(s) \/ SettleProjection(s)
  BY Zenon, <1>3, StepCancelRuns, StepMarkFailed, StepMarkCancelled, StepReload, StepSettle
<1>4. CASE \/ load_existing_batch_runs(s) \/ PollRuns(s) \/ \E i \in Tasks : ReadDetail(s, i)
           \/ PollBatch(s) \/ ShowVerdict(s) \/ Tidy(s) \/ Drop(s)
  BY Zenon, <1>4, StepLoad, StepPollRuns, StepReadDetail, StepPollBatch, StepShowVerdict, StepTidy, StepDrop
<1> QED BY Zenon, <1>1, <1>2, <1>3, <1>4 DEF Submission

LEMMA LInvInit == Init => LInv
<1> SUFFICES ASSUME Init PROVE LInv OBVIOUS
<1>1. /\ batch = NoBatch /\ late = {} /\ sub = [s \in Submitters |-> NewSubmission]
      /\ call = [s \in Submitters |-> "none"] /\ user = "idle" /\ rec = "idle"
  BY DEF Init
<1>2. env \in Environment BY LifecycleAssumption DEF Init
<1>3. DOMAIN env = EnvFields BY <1>2 DEF Environment, EnvFields
<1>4. \A s \in Submitters : Fine(s, sub[s], batch, env)
  <2> TAKE s \in Submitters
  <2> DEFINE q == sub[s]
  <2>1. DOMAIN q = Fields /\ q.pc = "find" BY <1>1 DEF NewSubmission, Fields
  <2> HIDE DEF q
  <2>2. q.pc \notin Owning \cup Observing \cup
          {"returned", "tally", "close", "sync", "failShow", "tidy", "cancel", "reload", "cancelShow"}
    BY <2>1 DEF Owning, Observing
  <2>3. Fine(s, q, batch, env) BY Zenon, <1>1, <2>1, <2>2 DEF Fine
  <2> QED BY Zenon, <2>3 DEF q
<1>5. Shown(call, batch, env) BY <1>1 DEF Shown
<1> QED BY <1>1, <1>3, <1>4, <1>5 DEF LInv, Row

LEMMA LInvNext == LInv /\ [Next]_vars => LInv'
<1> SUFFICES ASSUME LInv, [Next]_vars PROVE LInv' OBVIOUS
<1>1. CASE UNCHANGED vars
  <2>1. UNCHANGED <<batch, call, late, sub, user, rec, env>> BY <1>1 DEF vars
  <2> QED BY Zenon, <2>1, IdleKeeps
<1>2. ASSUME NEW s \in Submitters, Convergence(s) PROVE LInv'
  <2>1. CASE ConvergeTimeout(s)
    <3>1. UNCHANGED <<batch, call, late, sub, user, rec, env>> BY <2>1 DEF ConvergeTimeout
    <3> QED BY Zenon, <3>1, IdleKeeps
  <2> QED BY Zenon, <1>2, <2>1, StepConverge DEF Convergence
<1>3. CASE Recovery BY Zenon, <1>3, StepSweep, StepFinalize, StepFinalizeUpdate DEF Recovery
<1> QED BY Zenon, <1>1, <1>2, <1>3, SubmissionKeeps, StepCrash, StepLand, StepCancelTurn, StepShowCancelled DEF Next

\* Every reachable state of the lifecycle satisfies LInv.
THEOREM LifecycleIsConsistent == Spec => []LInv
  BY LInvInit, LInvNext, PTL DEF Spec

\* At any time at most the submission whose token create_batch stored acts as
\* the owner: it alone creates the runs, executes, closes or cancels.
THEOREM OneOwnerAlways == Spec => []OneOwner
<1>1. LInv => OneOwner BY Zenon DEF LInv, Fine, OneOwner
<1> QED BY LifecycleIsConsistent, <1>1, PTL

\* Whoever answers, the owner from update_batch's row or a duplicate from the
\* row it observed, answers with the final status of a batch of its own content.
THEOREM AnswersAreStored == Spec => []AnswersAsStored
<1>1. LInv => AnswersAsStored
  <2> SUFFICES ASSUME LInv, NEW s \in Submitters, sub[s].pc = "returned"
               PROVE  /\ SameFingerprint(s)
                      /\ \/ sub[s].answer = batch.status
                         \/ sub[s].answer = "blocked" /\ batch.token # s
    BY Zenon DEF AnswersAsStored, At
  <2>1. Fine(s, sub[s], batch, env) BY DEF LInv
  <2>2. sub[s].pc \in Observing \cup {"returned"} /\ sub[s].pc \in {"tidy", "returned"} OBVIOUS
  <2> QED BY Zenon, <2>1, <2>2 DEF Fine, SameFingerprint
<1> QED BY LifecycleIsConsistent, <1>1, PTL

\* As long as no submission's task is cancelled, the plan shows success only
\* for a batch that is stored as completed.
THEOREM SuccessIsStored == Spec => []SuccessShownIsStored
<1>1. LInv => SuccessShownIsStored BY Zenon DEF LInv, Shown, SuccessShownIsStored
<1> QED BY LifecycleIsConsistent, <1>1, PTL
=============================================================================
