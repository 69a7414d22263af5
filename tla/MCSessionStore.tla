--------------------------- MODULE MCSessionStore ---------------------------
(* Instances of SessionStore for TLC. *)
EXTENDS SessionStore, TLC

Symmetry == Permutations(Sessions) \cup Permutations(Tests) \cup Permutations(Requests)
=============================================================================
