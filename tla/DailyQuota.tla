----------------------------- MODULE DailyQuota -----------------------------
(***************************************************************************)
(* What an agent promises about traffic, without the ledger that keeps it: *)
(* over one UTC day, and over every restart of the agent within that day,  *)
(* no more than Limit bytes are admitted.  QuotaLedger implements it.      *)
(***************************************************************************)
EXTENDS Naturals

CONSTANTS Limit,        \* daily_quota_bytes of the agent's configuration, a natural number
          LastDay       \* bound: the UTC days are 1..LastDay

VARIABLES today,        \* the UTC day on the wall clock
          admitted      \* bytes admitted and charged to each day

vars == <<today, admitted>>

Days == 1..LastDay

Init ==
    /\ today = 1
    /\ admitted = [d \in Days |-> 0]

\* A request of n bytes is admitted.  It is charged to the day on which its
\* reservation was made: the clock may pass midnight before it is served.
Admit(d, n) ==
    /\ d <= today
    /\ admitted[d] + n <= Limit
    /\ admitted' = [admitted EXCEPT ![d] = @ + n]
    /\ UNCHANGED today

Midnight ==
    /\ today < LastDay
    /\ today' = today + 1
    /\ UNCHANGED admitted

Next ==
    \/ \E d \in Days, n \in 0..Limit : Admit(d, n)
    \/ Midnight

Spec == Init /\ [][Next]_vars
=============================================================================
