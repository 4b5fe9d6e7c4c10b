------------------------- MODULE MCBatchLifecycle -------------------------
EXTENDS BatchLifecycle, TLC

CONSTANTS s1, s2

Same  == [s \in Submitters |-> 1]
Mixed == [s \in Submitters |-> IF s = s1 THEN 1 ELSE 2]

Env(n, print, reopens, maxLost, interrupts, cancels, crashes) ==
  [n |-> n, print |-> print, retries |-> reopens, lost |-> 0, maxLost |-> maxLost,
   interrupts |-> interrupts, cancels |-> cancels, crashes |-> crashes]

(* Every adversity with every other: lost calls, crashes, the user's        *)
(* cancellation, cancelled tasks, reopened runs; submissions of the same    *)
(* and of different content; batches of one and two tasks.                  *)
MCEnvironments ==
  {Env(1, Same,  0, 2, FALSE, FALSE, FALSE),
   Env(1, Same,  1, 1, FALSE, FALSE, FALSE),
   Env(1, Same,  0, 1, FALSE, TRUE,  FALSE),
   Env(1, Same,  0, 1, FALSE, FALSE, TRUE),
   Env(2, Same,  0, 0, FALSE, FALSE, TRUE),
   Env(1, Mixed, 1, 0, TRUE,  TRUE,  FALSE),
   Env(1, Same,  0, 0, FALSE, TRUE,  TRUE)}
=============================================================================
