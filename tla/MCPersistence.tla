--------------------------- MODULE MCPersistence ---------------------------
(* Instances of Persistence for TLC.                                       *)
EXTENDS Persistence, TLC

Symmetry == Permutations(Token) \cup Permutations(Name) \cup Permutations(Writer)

DirectTerms == {DefaultTerms}

Used   == {t \in Token : status[t] # "unminted"}
Lost   == {t \in Token : status[t] \in {"revoked", "removed"}}
Made   == {i \in GrantId : grants[i] # None}
Asked  == {r \in RequestSlot : Pending(r)}
Blocks == {p \in Token \X Name : denials[p] # "none" \/ denialRows[p] # "none"}
Traces == {i \in GrantId : grants[i] # None \/ grantRows[i] # None}
Busy   == Cardinality(Made) + Cardinality(Asked) + IF resolving = None THEN 0 ELSE 1

OneWriter == \A v, w \in Writer : Writing(v) /\ Writing(w) => v = w

\* Names and tokens come and go, two handlers at a time.
OnlyNames ==
    /\ asking = {} /\ Busy = 0 /\ grantCount = 0 /\ Traces = {} /\ Blocks = {}
    /\ doubled => ~torn /\ OneWriter /\ ~overlapped
    /\ (OneWriter /\ ~overlapped) \/ (Cardinality(Used) <= 2 /\ Lost = {})

\* Two participants exchange a grant at a time, one handler at a time.
OneGrant ==
    /\ OneWriter /\ ~overlapped /\ ~torn /\ ~doubled
    /\ Blocks = {}
    /\ Cardinality(Used) <= 2 /\ Cardinality(Lost) <= 1
    /\ asking # {} => /\ Cardinality(asking) = 1 /\ resolving = None /\ Quiet
                      /\ Traces = {} /\ grantCount = 0
                      /\ Cardinality(Used) = 2 /\ Lost = {}
    /\ Busy <= 1 /\ Cardinality(Traces) <= 1
    /\ Busy > 0 => \A t \in Used : tokenToName[t] # None
    /\ Traces # {} => Asked = {}
    /\ Lost # {} => Busy = 0
    /\ resolving # None =>
          resolving.a # resolving.b /\ resolving.nameA # None /\ resolving.nameB # None
    /\ \A i \in Made : grants[i].a # grants[i].b
    /\ \A r \in Asked : requests[r].fromId # requests[r].toId

\* One of two participants is blocked, one handler at a time.
OneBlock ==
    /\ OneWriter /\ ~overlapped /\ ~torn
    /\ asking = {} /\ Busy = 0 /\ grantCount = 0 /\ Traces = {}
    /\ Cardinality(Used) <= 2 /\ Cardinality(Lost) <= 1
    /\ Cardinality(Blocks) <= 1

Apart == OnlyNames \/ OneGrant \/ OneBlock
=============================================================================
