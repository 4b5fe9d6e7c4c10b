-------------------------- MODULE MCScheduledTasks --------------------------
(* Instances of ScheduledTasks for TLC: two workers, two occurrences one    *)
(* tick apart, a lease of two ticks.                                        *)
EXTENDS ScheduledTasks

CONSTANTS w1, w2

TwoWorkers == {w1, w2}
TwoOccurrences == {1, 2}

Base == [workers |-> {w1}, schedule |-> {1, 2}, ends |-> {"succeeded"}, faults |-> 0,
         kinds |-> {}, edits |-> 0, slow |-> {}, lateEdit |-> FALSE]

\* Two workers poll the same table.
Rivals == [Base EXCEPT !.workers = {w1, w2}, !.schedule = {1}, !.ends = Terminal]
\* The worker dies and is started again, twice; answers are lost.
Crashes == [Base EXCEPT !.faults = 2, !.kinds = {"crash"}]
Losses == [Base EXCEPT !.faults = 1, !.kinds = {"crash", "lost"}]
\* Calls fail.
Refusals == [Base EXCEPT !.faults = 2, !.kinds = {"db"}]
\* Heartbeats are lost.
Silence == [Base EXCEPT !.faults = 2, !.kinds = {"beat"}]
\* A worker executes, or dispatches, at any pace.
SlowRuns == [Base EXCEPT !.slow = {"execute"}]
SlowNotices == [Base EXCEPT !.slow = {"dispatch"}, !.workers = {w1, w2}, !.schedule = {1}]
\* The creator changes and deletes the task; one update takes long.
Edits == [Base EXCEPT !.edits = 2]
LateEdits == [Base EXCEPT !.edits = 1, !.lateEdit = TRUE]

Scenarios == {Rivals, Crashes, Losses, Refusals, Silence, SlowRuns, SlowNotices,
              Edits, LateEdits}
=============================================================================
