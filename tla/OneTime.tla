------------------------------ MODULE OneTime ------------------------------
(***************************************************************************)
(* What the server promises of a secret that is good once, an invite or a  *)
(* join token (ConsumeOneTime of internal/store/store.go and its two       *)
(* callers): it is given for one product at most, which it keeps; once it  *)
(* was taken, or its time was over, it never comes back, also if nothing   *)
(* came of it; and a product comes of one secret.  SessionStore and        *)
(* NodeJoin implement it.                                                  *)
(***************************************************************************)
EXTENDS Naturals

CONSTANTS Secrets,      \* invites, or join tokens
          Products,     \* sessions, or identity keys
          Nothing       \* no product

VARIABLES fate,         \* unissued, open, taken, exchanged or lost
          product       \* what it was exchanged for

vars == <<fate, product>>

Init ==
    /\ fate = [c \in Secrets |-> "unissued"]
    /\ product = [c \in Secrets |-> Nothing]

Becomes(c, f) == fate' = [fate EXCEPT ![c] = f]

Issue(c) ==
    /\ fate[c] = "unissued" /\ Becomes(c, "open")
    /\ UNCHANGED product

\* The time of some is over.
Lapse(S) ==
    /\ \A c \in S : fate[c] = "open"
    /\ fate' = [c \in Secrets |-> IF c \in S THEN "lost" ELSE fate[c]]
    /\ UNCHANGED product

\* A request that presents it is the one that goes on.
Take(c) ==
    /\ fate[c] = "open" /\ Becomes(c, "taken")
    /\ UNCHANGED product

Exchange(c, p) ==
    /\ fate[c] = "taken" /\ Becomes(c, "exchanged")
    /\ \A d \in Secrets : product[d] # p
    /\ product' = [product EXCEPT ![c] = p]

\* That request fails.
Abandon(c) ==
    /\ fate[c] = "taken" /\ Becomes(c, "lost")
    /\ UNCHANGED product

Next ==
    \/ \E c \in Secrets :
          \/ Issue(c) \/ Take(c) \/ Abandon(c)
          \/ \E p \in Products : Exchange(c, p)
    \/ \E S \in SUBSET Secrets : Lapse(S)

Spec == Init /\ [][Next]_vars
=============================================================================
