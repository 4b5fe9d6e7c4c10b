-------------------------- MODULE MCBatchHeartbeat --------------------------
(***************************************************************************)
(* Model checking of BatchHeartbeat with the default configuration in      *)
(* ticks of ten seconds: beats every 30 s, calls of at most 20 s, a stale  *)
(* window of 180 s.                                                        *)
(***************************************************************************)
EXTENDS BatchHeartbeat
=============================================================================
