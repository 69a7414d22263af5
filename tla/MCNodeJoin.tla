----------------------------- MODULE MCNodeJoin -----------------------------
(* Instances of NodeJoin for TLC. *)
EXTENDS NodeJoin, TLC
=============================================================================
