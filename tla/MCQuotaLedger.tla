--------------------------- MODULE MCQuotaLedger ---------------------------
(* Instances of QuotaLedger for TLC: which test each grant belongs to. *)
EXTENDS QuotaLedger, TLC

CONSTANTS g1, g2, t1, t2

\* One grant names its test, the other has none and counts under its nonce.
OneWithoutTest == (g1 :> t1) @@ (g2 :> NoTest)
=============================================================================
