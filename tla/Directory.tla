----------------------------- MODULE Directory -----------------------------
(***************************************************************************)
(* What the session handlers of the hub promise to the rest of it: who     *)
(* speaks for which name.                                                  *)
(*                                                                         *)
(* This is module Sessions without streams, liveness entries and ages.     *)
(* Sessions implements it (SessionsProofs); the grant handlers are         *)
(* composed with it, since it is all they read.                            *)
(*                                                                         *)
(* The name stored with a token is the one it speaks for, and no handler   *)
(* can tell them apart, in every hub that began empty (ReadsWhereItSpeaks).*)
(* The handlers are written out for the others as well: a hub that loaded  *)
(* two tokens of one name may leave a token with a name it has lost.       *)
(***************************************************************************)
EXTENDS Naturals, FiniteSets

CONSTANTS Token,      \* credentials the random generator can draw, each once
          Name,       \* participant names
          None        \* "no name", "no token"

ASSUME DirectoryAssumption == None \notin Token /\ None \notin Name

VARIABLES status,        \* life of a token
          ownName,       \* the name stored with a token that is not revoked
          tokenToName,   \* the name a token speaks for
          nameToToken,   \* the token that holds a name
          agents,        \* name -> identity messages are routed to
          identities,    \* the permanent roster
          governor       \* the name that carries the governor flag

directoryVars == <<status, ownName, tokenToName, nameToToken, agents, identities, governor>>

DirectoryTypeOK ==
    /\ status \in [Token -> {"unminted", "live", "revoked", "removed"}]
    /\ ownName \in [Token -> Name \cup {None}]
    /\ tokenToName \in [Token -> Name \cup {None}]
    /\ nameToToken \in [Name -> Token \cup {None}]
    /\ agents \in [Name -> Token \cup {None}]
    /\ identities \in SUBSET Name
    /\ governor \in Name \cup {None}

DirectoryInit ==
    /\ status = [t \in Token |-> "unminted"]
    /\ ownName = [t \in Token |-> None]
    /\ tokenToName = [t \in Token |-> None]
    /\ nameToToken = [n \in Name |-> None]
    /\ agents = [n \in Name |-> None]
    /\ identities = {}
    /\ governor = None

Live(t)  == status[t] = "live"
Known(t) == status[t] \in {"live", "revoked"}

IsGovernor(t) ==
    /\ Live(t)
    /\ tokenToName[t] # None
    /\ tokenToName[t] = governor

-----------------------------------------------------------------------------
\* POST /register
Mint(t) ==
    /\ status[t] = "unminted"
    /\ status' = [status EXCEPT ![t] = "live"]
    /\ UNCHANGED <<ownName, tokenToName, nameToToken, agents, identities, governor>>

\* POST /listen gives a token the name stored with it back, if nobody holds it.
HasLostName(t) == ownName[t] # None /\ nameToToken[ownName[t]] = None
LostName(t)    == IF HasLostName(t) THEN ownName[t] ELSE None

\* t becomes the holder of the names ns; whoever is routed to under the names
\* given back stays so.
BecomeHolder(t, ns, givenBack) ==
    /\ nameToToken' = [m \in Name |-> IF m \in ns THEN t ELSE nameToToken[m]]
    /\ agents' = [m \in Name |-> IF m \in ns /\ (m # givenBack \/ agents[m] = None)
                                  THEN t ELSE agents[m]]

\* t takes the name n, which nobody has registered; m, or None, is given back.
BindAfter(t, n, m) ==
    /\ Live(t)
    /\ n \notin identities
    /\ identities' = identities \cup {n}
    /\ BecomeHolder(t, {m, n}, m)
    /\ tokenToName' = [tokenToName EXCEPT ![t] = n]
    /\ ownName' = [ownName EXCEPT ![t] = n]
    /\ UNCHANGED <<status, governor>>

\* POST /listen with a name
BindListening(t, n) ==
    /\ nameToToken[n] = None
    /\ n # LostName(t)
    /\ BindAfter(t, n, LostName(t))

\* POST /announce
BindAnnounced(t, n) ==
    /\ nameToToken[n] # None => ~Known(nameToToken[n])
    /\ BindAfter(t, n, None)

Bind(t, n) == BindListening(t, n) \/ BindAnnounced(t, n)

\* POST /listen that binds no name.
GiveBack(t) ==
    /\ Live(t)
    /\ HasLostName(t)
    /\ BecomeHolder(t, {ownName[t]}, ownName[t])
    /\ tokenToName' = [tokenToName EXCEPT ![t] = ownName[t]]
    /\ UNCHANGED <<status, ownName, identities, governor>>

\* DELETE /listen: the name is nobody's, and stays registered.
Unbind(t) ==
    LET n == tokenToName[t] IN
    /\ Live(t)
    /\ n # None \/ ownName[t] # None
    /\ ownName' = [ownName EXCEPT ![t] = None]
    /\ tokenToName' = [tokenToName EXCEPT ![t] = None]
    /\ nameToToken' = [m \in Name |-> IF m = n THEN None ELSE nameToToken[m]]
    /\ agents' = [m \in Name |-> IF m = n THEN None ELSE agents[m]]
    /\ UNCHANGED <<status, identities, governor>>

\* POST /register with a name: the governor moves it to a fresh token and the
\* old one is forgotten.
Rebind(g, n, t) ==
    LET old == nameToToken[n] IN
    /\ IsGovernor(g)
    /\ n \in identities
    /\ status[t] = "unminted"
    /\ status' = [u \in Token |-> IF u = t THEN "live" ELSE IF u = old THEN "removed" ELSE status[u]]
    /\ ownName' = [u \in Token |-> IF u = t THEN n ELSE IF u = old THEN None ELSE ownName[u]]
    /\ tokenToName' = [u \in Token |-> IF u = t THEN n ELSE IF u = old THEN None ELSE tokenToName[u]]
    /\ nameToToken' = [nameToToken EXCEPT ![n] = t]
    /\ agents' = [agents EXCEPT ![n] = t]
    /\ UNCHANGED <<identities, governor>>

\* A name left behind by a forgotten token loses its holder.
Release(n) ==
    /\ nameToToken[n] # None
    /\ ~Known(nameToToken[n])
    /\ nameToToken' = [nameToToken EXCEPT ![n] = None]
    /\ UNCHANGED <<status, ownName, tokenToName, agents, identities, governor>>

\* DELETE /participants/{n} by the governor g: everybody loses the name, and its
\* holder the token.
RevokeByName(g, n) ==
    /\ IsGovernor(g)
    /\ status' = [u \in Token |-> IF u = nameToToken[n] /\ Known(u) THEN "revoked" ELSE status[u]]
    /\ ownName' = [u \in Token |-> IF u = nameToToken[n] /\ Known(u) THEN None ELSE ownName[u]]
    /\ tokenToName' = [u \in Token |-> IF tokenToName[u] = n THEN None ELSE tokenToName[u]]
    /\ nameToToken' = [nameToToken EXCEPT ![n] = None]
    /\ agents' = [agents EXCEPT ![n] = None]
    /\ identities' = identities \ {n}
    /\ governor' = IF governor = n THEN None ELSE governor

\* DELETE /identity
DeleteSelf(t) ==
    LET n == tokenToName[t] IN
    /\ Live(t)
    /\ status' = [status EXCEPT ![t] = "revoked"]
    /\ ownName' = [ownName EXCEPT ![t] = None]
    /\ tokenToName' = [tokenToName EXCEPT ![t] = None]
    /\ nameToToken' = [m \in Name |-> IF m = n THEN None ELSE nameToToken[m]]
    /\ agents' = [m \in Name |-> IF m = n THEN None ELSE agents[m]]
    /\ identities' = identities \ {n}
    /\ governor' = IF n # None /\ governor = n THEN None ELSE governor

\* gc_tokens: only a token without a registered name.  (Its age, and what else
\* may exempt it, are left out.)
Collect(t) ==
    LET n == ownName[t] IN
    /\ Live(t)
    /\ n \notin identities
    /\ status' = [status EXCEPT ![t] = "removed"]
    /\ ownName' = [ownName EXCEPT ![t] = None]
    /\ tokenToName' = [u \in Token |-> IF u = t /\ n # None THEN None ELSE tokenToName[u]]
    /\ nameToToken' = [m \in Name |-> IF m = n THEN None ELSE nameToToken[m]]
    /\ agents' = [m \in Name |-> IF m = n THEN None ELSE agents[m]]
    /\ UNCHANGED <<identities, governor>>

\* A claim, an election, a transfer; and the operator's reset.
Appoint(t) ==
    /\ tokenToName[t] # None
    /\ governor' = tokenToName[t]
    /\ UNCHANGED <<status, ownName, tokenToName, nameToToken, agents, identities>>

ResetGovernor ==
    /\ governor # None
    /\ governor' = None
    /\ UNCHANGED <<status, ownName, tokenToName, nameToToken, agents, identities>>

-----------------------------------------------------------------------------
\* Steps after which every participant is still registered.
KeepingStep ==
    \/ \E t \in Token : Mint(t) \/ Unbind(t) \/ Collect(t) \/ Appoint(t)
    \/ \E t \in Token, n \in Name : Bind(t, n)
    \/ \E g, t \in Token, n \in Name : Rebind(g, n, t)
    \/ \E n \in Name : Release(n)
    \/ ResetGovernor

\* GiveBack is no part of KeepingStep: it finds no lost name where that is used.
DirectoryNext ==
    \/ KeepingStep
    \/ \E t \in Token : GiveBack(t)
    \/ \E t \in Token : DeleteSelf(t)
    \/ \E g \in Token, n \in Name : RevokeByName(g, n)

DirectorySpec == DirectoryInit /\ [][DirectoryNext]_directoryVars

-----------------------------------------------------------------------------
(* What is always so in a hub that has not loaded two tokens of one name.   *)

\* The name stored with a token, unless it is revoked, is the one it speaks for.
ReadsWhereItSpeaks == \A t \in Token : ownName[t] = IF Live(t) THEN tokenToName[t] ELSE None

\* Who speaks for a name holds it, is known to the hub and is registered.
SpeakersHold ==
    \A t \in Token : tokenToName[t] # None =>
        /\ Known(t)
        /\ tokenToName[t] \in identities
        /\ nameToToken[tokenToName[t]] = t

\* Messages are routed to registered names only.
RoutedAreRegistered == \A n \in Name : agents[n] # None => n \in identities

DirectoryInv == DirectoryTypeOK /\ ReadsWhereItSpeaks /\ SpeakersHold /\ RoutedAreRegistered
=============================================================================
