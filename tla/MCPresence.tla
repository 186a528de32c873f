---------------------------- MODULE MCPresence ----------------------------
(* Instances of Presence for TLC: somebody who watches, and somebody who   *)
(* comes and goes.                                                         *)
EXTENDS Presence, TLC

CONSTANTS watcher, a    \* a token, and its name

ASSUME WatcherAssumption == watcher \in Token /\ a \in Name

Symmetry == Permutations(Token \ {watcher}) \cup Permutations(Timer)

Others == Token \ {watcher}

\* The watcher is the only one that wants to be told, and does not reconnect
\* while its old stream is open.
Watcher ==
    /\ tokenToName[watcher] \in {None, a}
    /\ stale[watcher] = 0 /\ sseCount[watcher] <= 1
    /\ \A t \in Others : ~presencePush[t] /\ tokenToName[t] # a
    /\ grantsInForce \subseteq {g \in Pact : g.a = watcher}
    /\ denied \subseteq {watcher} \X (Name \ {a})
    /\ registry \subseteq Name \ {a}

\* It is related to the other in one way at a time, by a grant only once both
\* have settled in; nobody is blocked while a timer runs.
Watched ==
    /\ Watcher
    /\ Cardinality(grantsInForce) + Cardinality(rooms) <= 1
    /\ denied # {} \/ registry # {} => Cardinality(denied) + Cardinality(registry) = 1 /\ rooms = {}
    /\ everGranted = [t \in Token |-> FALSE]
    /\ denied # {} => \A k \in Timer : tasks[k] = None
    /\ Cardinality({t \in Others : status[t] \in {"admitted", "live", "revoked"}}) <= 1
    /\ \A t \in Others : status[t] = "admitted" =>
          /\ tasks = [k \in Timer |-> None] /\ grantsInForce = {} /\ rooms = {} /\ denied = {}
          /\ \A u \in Others \ {t} : status[u] = "unminted"
=============================================================================
