--------------------------- MODULE MCTaskRunStore ---------------------------
(* Small instances of the task-runtime store. *)
EXTENDS TaskRunStore, TLC

Symmetry == Permutations(Runs) \cup Permutations(Clients)
=============================================================================
