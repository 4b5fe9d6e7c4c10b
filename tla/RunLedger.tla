----------------------------- MODULE RunLedger -----------------------------
(***************************************************************************)
(* What the task runtime relies on the run store for, with tokens,         *)
(* attempts, snapshots and clocks left out: a ledger of outcomes.  A run   *)
(* is absent, open or settled.  Settling decides an open run once; a       *)
(* success or a cancellation is final, any other outcome may be reopened   *)
(* for a retry.  The batch gets one verdict, and a cancellation of the     *)
(* batch settles every run that is open at that moment.                    *)
(***************************************************************************)
EXTENDS RunRow

CONSTANT Runs

VARIABLES outcome, verdict

lvars == <<outcome, verdict>>

Init ==
  /\ outcome = [r \in Runs |-> "none"]
  /\ verdict = "open"

Open(r) ==
  /\ outcome[r] = "none"
  /\ outcome' = [outcome EXCEPT ![r] = "open"]
  /\ UNCHANGED verdict

OpenRuns == {r \in Runs : outcome[r] = "open"}

\* Some open runs are decided together: one worker commit, or one sweep.
Settle(S, decided) ==
  /\ S \subseteq OpenRuns
  /\ outcome' = [r \in Runs |-> IF r \in S THEN decided[r] ELSE outcome[r]]
  /\ UNCHANGED verdict

Reopen(r) ==
  /\ outcome[r] \in RetryableRun
  /\ outcome' = [outcome EXCEPT ![r] = "open"]
  /\ UNCHANGED verdict

Close(v) ==
  /\ verdict = "open"
  /\ verdict' = v
  /\ UNCHANGED outcome

CancelAll ==
  /\ verdict = "open"
  /\ verdict' = "cancelled"
  /\ outcome' = [r \in Runs |-> IF r \in OpenRuns THEN "cancelled" ELSE outcome[r]]

Next ==
  \/ \E r \in Runs : Open(r) \/ Reopen(r)
  \/ \E S \in SUBSET Runs, decided \in [Runs -> TerminalRun] : Settle(S, decided)
  \/ \E v \in TerminalBatch : Close(v)
  \/ CancelAll

Spec == Init /\ [][Next]_lvars
=============================================================================
