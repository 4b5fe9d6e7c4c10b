--------------------------- MODULE MCRunSandboxes ---------------------------
(* Two batches of one run each compete for a sandbox: what one batch leaves *)
(* behind, the other meets.                                                 *)
EXTENDS RunSandboxes, TLC

CONSTANTS r1, r2, b1, b2

MCBatchOf == [r \in Runs |-> IF r = r1 THEN b1 ELSE b2]

Env(runs, attempts, maxLost, cancellable, interruptible, mortal) ==
  [runs |-> runs, maxAttempts |-> attempts, lost |-> 0, maxLost |-> maxLost,
   cancellable |-> cancellable, interruptible |-> interruptible, mortal |-> mortal]

(* Attempts that may be retried; the owner of the first batch may die.      *)
Competition == {Env(Runs, 2, 0, {}, {}, {b1})}

(* The user cancels a turn: against another batch, and with a retry.        *)
Cancellation == {Env(Runs, 1, 0, {b1}, {}, {}),
                 Env({r1}, 2, 0, {b1}, {}, {})}

(* An owner dies, with the user cancelling its turn before or after.        *)
Crashes == {Env(Runs, 1, 0, {b1}, {}, {b1}),
            Env(Runs, 1, 0, {}, {b1, b2}, {b1})}

(* Two calls are lost.                                                      *)
LostCalls == {Env(Runs, 1, 2, {}, {}, {})}

MCEnvironments == Competition \cup Cancellation \cup Crashes \cup LostCalls
=============================================================================
