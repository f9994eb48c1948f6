----------------------------- MODULE MCGnssPps -----------------------------
(* Instances of GnssPps for TLC: tasks read channel 1, the handler 0. *)
EXTENDS GnssPps
CONSTANTS imu, battery, handler
MCChannel == [r \in {imu, battery, handler} |-> IF r = handler THEN 0 ELSE 1]
=============================================================================
