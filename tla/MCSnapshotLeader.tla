-------------------------- MODULE MCSnapshotLeader --------------------------
(* Instances of SnapshotLeader.  A tick is five seconds: expiry and        *)
(* deadline of 20 seconds are 4, the interval of 15 seconds is 3.          *)
EXTENDS SnapshotLeader, TLC
=============================================================================
