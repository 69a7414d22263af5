---------------------------- MODULE MCTlsRenewal ----------------------------
(* Instances of TlsRenewal for TLC. *)
EXTENDS TlsRenewal, TLC
=============================================================================
