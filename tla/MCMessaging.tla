---------------------------- MODULE MCMessaging ----------------------------
(* Instances of Messaging for TLC: interchangeable tokens, names and slots.*)
EXTENDS Messaging, TLC

Symmetry == Permutations(Token) \cup Permutations(Name) \cup Permutations(HoldSlot)

OneWay    == [direction |-> "a_to_b", mediation |-> "notify", max |-> 1, opens |-> TRUE]
Strict    == [direction |-> "b_to_a", mediation |-> "bypass", max |-> 1, opens |-> FALSE]
Inspected == [direction |-> "symmetric", mediation |-> "inspect", max |-> 1, opens |-> TRUE]

TermsMC == {OneWay, Strict, Inspected}

\* Grants are the governor's; nobody is blocked.
ByGovernor ==
    /\ asking = {}
    /\ \A r \in RequestSlot : requests[r] = None
    /\ \A p \in Token \X Name : denials[p] = "none"

TwoNames(g) == g.nameA # None /\ g.nameB # None /\ g.nameA # g.nameB

Made == {i \in GrantId : grants[i] # None}

Open == {p \in Name \X Name : windows[p] > 0}

\* One grant of any kind with its expiry; then another one, between
\* two names, while no window is open, and after the first is gone or beside it
\* if one is directed and the other is inspected.  One window at a time.
Detailed ==
    /\ ByGovernor
    /\ Cardinality(Open) <= 1
    /\ grantCount > 0 /\ resolving # None =>
          /\ TwoNames(resolving)
          /\ \A i \in Made : TwoNames(grants[i]) /\ ~grants[i].expired
          /\ Open = {}
    /\ grantCount > 1 =>
          /\ \A i \in Made : ~grants[i].expired
          /\ Cardinality(Made) > 1 => {grants[i].terms : i \in Made} = {OneWay, Inspected}
=============================================================================
