---------------------------- MODULE MCSpeedTest ----------------------------
(* Instances of SpeedTest for TLC. *)
EXTENDS SpeedTest, TLC
=============================================================================
