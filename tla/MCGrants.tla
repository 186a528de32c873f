----------------------------- MODULE MCGrants -----------------------------
(* Instances of Grants for TLC: interchangeable tokens and names.          *)
EXTENDS Grants, TLC

Symmetry == Permutations(Token) \cup Permutations(Name)

\* What the governor asks for does not matter to how a grant comes and goes.
TermsMC == {DefaultTerms}

Blocks == {p \in Token \X Name : denials[p] # "none"}

Used == {t \in Token : status[t] # "unminted"}

Lost == {t \in Token : status[t] \in {"revoked", "removed"}}

Direct == {i \in GrantId : grants[i] # None /\ grants[i].direct}

\* A grant is made by request, or by the governor between two names while
\* nothing is requested; a block comes and goes before, while nobody has left.
\* One token of three is given up.  One client asks at a time, and of two
\* only if there is a block or has been a grant.
OneAtATime ==
    /\ Cardinality(Lost) <= 1
    /\ Cardinality(asking) <= 1
    /\ asking # {} => resolving = None /\ Direct = {}
    /\ asking # {} /\ (grantCount > 0 \/ Blocks # {}) => Cardinality(Used) = 2 /\ Lost = {}
    /\ grantCount > 0 /\ (\E r \in RequestSlot : Pending(r)) => Cardinality(Used) = 2
    /\ Cardinality(Blocks) <= 1
    /\ Blocks # {} => Lost = {}
    /\ grantCount > 0 \/ resolving # None => Blocks = {}
    /\ resolving # None => None \notin {resolving.nameA, resolving.nameB} /\ resolving.a # resolving.b
    /\ resolving # None \/ Direct # {} => \A r \in RequestSlot : ~Pending(r)
=============================================================================
