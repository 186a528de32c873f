----------------------------- MODULE MCMailbox -----------------------------
(* Instances of Mailbox for TLC: interchangeable tokens and names.         *)
EXTENDS Mailbox

Symmetry == Permutations(Token) \cup Permutations(Name)

\* Clients that bind their names with /listen.
BoundByListen == registry = {}

\* For liveness: one client at a time connects, reconnects and leaves.  No step
\* that fairness is asked of is cut off by this.
OneConnected ==
    /\ BoundByListen
    /\ Cardinality({t \in Token : stream[t] \/ stale[t] > 0}) <= 1
=============================================================================
