---------------------------- MODULE MCGovernance ----------------------------
(* Instances of Governance for TLC: interchangeable tokens, names, slots.  *)
EXTENDS Governance, TLC

Symmetry == Permutations(Token) \cup Permutations(Name)

\* Participants bind their names with /listen.  That leaves the liveness
\* registry, which no claim and no transfer reads, out of the state space.
BoundByListen == registry = {}
=============================================================================
