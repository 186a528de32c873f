----------------------------- MODULE MCSessions -----------------------------
(* Instances of Sessions for TLC: interchangeable tokens and names.        *)
EXTENDS Sessions, TLC

Symmetry == Permutations(Token) \cup Permutations(Name)

\* One client at a time connects, reconnects and leaves, and one name at a time
\* is in the liveness window; the others are known by the names they bound.
OneConnected ==
    /\ Cardinality({t \in Token : stream[t] \/ stale[t] > 0}) <= 1
    /\ Cardinality(registry) <= 1
=============================================================================
