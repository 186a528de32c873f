--------------------------- MODULE MCAttachments ---------------------------
(* Instances of Attachments for TLC.                                       *)
EXTENDS Attachments, TLC

Symmetry == Permutations(Token) \cup Permutations(Name) \cup Permutations(File)

Plain == {DefaultTerms}

Sent   == {f \in File : uploads[f] # None}
Used   == {t \in Token : status[t] # "unminted"}
Lost   == {t \in Token : status[t] \in {"revoked", "removed"}}

TwoParties(g) == g.nameA # None /\ g.nameB # None /\ g.nameA # g.nameB

\* Files go back and forth under one grant between two names, which the governor
\* has made before and may revoke or lose with a party; no other messages.
\* Two files at a time only as long as nobody has left and nobody downloads.
OnlyFiles ==
    /\ asking = {}
    /\ \A r \in RequestSlot : requests[r] = None
    /\ \A p \in Token \X Name : denials[p] = "none"
    /\ \A p \in Name \X Name : windows[p] = 0
    /\ \A h \in HoldSlot : holds[h] = None
    /\ Cardinality(fetching) <= 1
    /\ Cardinality(Lost) <= 1
    /\ resolving # None => TwoParties(resolving) /\ Lost = {}
    /\ \A i \in GrantId : grants[i] # None => TwoParties(grants[i]) /\ ~grants[i].expired
    /\ Sent # {} => resolving = None
    /\ Sent # {} /\ governor = None => \A i \in GrantId : grants[i] = None
    /\ Cardinality(Sent) = 2 => Cardinality(Used) = 2 /\ fetching = {} /\ Lost = {} /\ heard = {}
=============================================================================
