------------------------- MODULE MCResourceSnapshot -------------------------
(* Instances of ResourceSnapshot.  A tick is the refresh interval of 15    *)
(* seconds: the window of 35 seconds is 2 ticks, marking after 30 seconds  *)
(* 2, hiding after a minute 4, the degradation of a snapshot 4 and 8.      *)
(* Leases are dropped after 6 ticks instead of a day.                      *)
EXTENDS ResourceSnapshot
=============================================================================
