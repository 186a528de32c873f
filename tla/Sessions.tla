------------------------------ MODULE Sessions ------------------------------
(***************************************************************************)
(* Credentials, names and SSE streams of the simple-im hub                 *)
(* (src/src/delivery.rs, HubInner).                                        *)
(*                                                                         *)
(* A client registers and obtains a token, opens an event stream with it   *)
(* (POST /listen), binds a name to it (in the same call or with            *)
(* POST /announce), and may later unsubscribe (DELETE /listen) or delete   *)
(* itself (DELETE /identity).  The participant that holds the governor     *)
(* flag issues tokens, rebinds a name to a fresh token and deletes other   *)
(* participants.  Every Hub method runs under one mutex, so each is one    *)
(* action; what happens between two requests (a stream noticed closed      *)
(* late, a check made before the lock was taken again) is interleaved.     *)
(*                                                                         *)
(* Time is left out: whatever depends on an age (token GC, the liveness    *)
(* window of the registry) may happen at any moment it is not excluded by  *)
(* the rest of the state.  gc_tokens runs at the head of open_listen and   *)
(* announce; it is a step of its own here, which is what a request that is *)
(* refused right after the collection amounts to.                          *)
(***************************************************************************)
EXTENDS Naturals, FiniteSets

CONSTANTS Token,      \* credentials the random generator can draw, each once
          Name,       \* participant names
          None,       \* "no name", "no token"
          MaxStale    \* bound on replaced streams of one token not yet dropped

ASSUME SessionsAssumption ==
    /\ None \notin Token
    /\ None \notin Name
    /\ MaxStale \in Nat

VARIABLES
    status,        \* life of a token, see Status
    stName,        \* ListenTokenState.name
    everListened,  \* ListenTokenState.ever_listened
    everGranted,   \* ListenTokenState.ever_granted
    tokenToName,   \* HubInner.token_to_name: the name a token speaks for
    nameToToken,   \* HubInner.name_to_token: the token that holds a name
    agents,        \* HubInner.agents: name -> identity messages are routed to
    identities,    \* HubInner.identities: the permanent roster
    registry,      \* names inside the liveness window of the Registry
    governor,      \* TrustChain.governor
    sseCount,      \* HubInner.sse_connections
    stream,        \* does the receiver behind the token's sse_sender exist?
    stale          \* streams whose sender is gone and that have not yet ended

tokenVars   == <<status, stName, everListened, everGranted>>
bindingVars == <<tokenToName, nameToToken, agents, identities>>
streamVars  == <<sseCount, stream, stale>>
sessionVars == <<tokenVars, bindingVars, registry, governor, streamVars>>

\* "admitted": handle_register has seen that there is no governor and has not
\* yet called register_participant.
Status == {"unminted", "admitted", "live", "revoked", "removed"}

SessionsTypeOK ==
    /\ status \in [Token -> Status]
    /\ stName \in [Token -> Name \cup {None}]
    /\ everListened \in [Token -> BOOLEAN]
    /\ everGranted \in [Token -> BOOLEAN]
    /\ tokenToName \in [Token -> Name \cup {None}]
    /\ nameToToken \in [Name -> Token \cup {None}]
    /\ agents \in [Name -> Token \cup {None}]
    /\ identities \in SUBSET Name
    /\ registry \in SUBSET Name
    /\ governor \in Name \cup {None}
    /\ sseCount \in [Token -> Nat]
    /\ stream \in [Token -> BOOLEAN]
    /\ stale \in [Token -> Nat]

SessionsInit ==
    /\ status = [t \in Token |-> "unminted"]
    /\ stName = [t \in Token |-> None]
    /\ everListened = [t \in Token |-> FALSE]
    /\ everGranted = [t \in Token |-> FALSE]
    /\ tokenToName = [t \in Token |-> None]
    /\ nameToToken = [n \in Name |-> None]
    /\ agents = [n \in Name |-> None]
    /\ identities = {}
    /\ registry = {}
    /\ governor = None
    /\ sseCount = [t \in Token |-> 0]
    /\ stream = [t \in Token |-> FALSE]
    /\ stale = [t \in Token |-> 0]

-----------------------------------------------------------------------------
(* State predicates of the handlers.                                       *)

Live(t)  == status[t] = "live"
Known(t) == status[t] \in {"live", "revoked"}

IsSseAlive(t) == sseCount[t] > 0

\* Is t the bearer of the current governor?
ValidateGovernorToken(t) ==
    /\ Live(t)
    /\ tokenToName[t] # None
    /\ tokenToName[t] = governor

\* Streams of t that the HTTP layer has not dropped yet.
OpenStreams(t) == stale[t] + IF stream[t] THEN 1 ELSE 0

-----------------------------------------------------------------------------
(* Effects shared by several handlers.                                     *)

\* The sender of t is dropped or replaced: its stream, if it has one, has
\* nothing more to deliver and ends when the HTTP layer next polls it.
DropSender(t) ==
    /\ stream[t] => stale[t] < MaxStale
    /\ stream' = [stream EXCEPT ![t] = FALSE]
    /\ stale' = [stale EXCEPT ![t] = OpenStreams(t)]

\* (defect) The name is not stored with the token.
BindNameUnstored(t, n) ==
    /\ identities' = identities \cup {n}
    /\ nameToToken' = [nameToToken EXCEPT ![n] = t]
    /\ tokenToName' = [tokenToName EXCEPT ![t] = n]
    /\ agents' = [agents EXCEPT ![n] = t]
    /\ UNCHANGED stName

\* (defect) The name does not enter the permanent roster.
BindNameUnregistered(t, n) ==
    /\ nameToToken' = [nameToToken EXCEPT ![n] = t]
    /\ tokenToName' = [tokenToName EXCEPT ![t] = n]
    /\ agents' = [agents EXCEPT ![n] = t]
    /\ stName' = [stName EXCEPT ![t] = n]
    /\ UNCHANGED identities

\* The name n is bound to t.
BindName(t, n) ==
    /\ identities' = identities \cup {n}
    /\ nameToToken' = [nameToToken EXCEPT ![n] = t]
    /\ tokenToName' = [tokenToName EXCEPT ![t] = n]
    /\ agents' = [agents EXCEPT ![n] = t]
    /\ stName' = [stName EXCEPT ![t] = n]

\* (defect) The governor pointer is not cleared.
ForgetIdentityKeepingFlag(n) ==
    /\ identities' = identities \ {n}
    /\ UNCHANGED governor

\* The identity n is deleted, and with it the flag if it is the governor.
ForgetIdentity(n) ==
    /\ identities' = identities \ {n}
    /\ governor' = IF governor = n THEN None ELSE governor

-----------------------------------------------------------------------------
(* POST /register                                                          *)

\* Without a governor registration is open.  The handler looks for a governor
\* in one locked section ...
AdmitRegistration(t) ==
    /\ status[t] = "unminted"
    /\ governor = None
    /\ status' = [status EXCEPT ![t] = "admitted"]
    /\ UNCHANGED <<stName, everListened, everGranted, bindingVars, registry,
                   governor, streamVars>>

\* ... and mints in another: a governor may have been installed in between.
RegisterParticipant(t) ==
    /\ status[t] = "admitted"
    /\ status' = [status EXCEPT ![t] = "live"]
    /\ UNCHANGED <<stName, everListened, everGranted, bindingVars, registry,
                   governor, streamVars>>

\* The governor g asks for a token without a name.
IssueParticipantToken(g, t) ==
    /\ ValidateGovernorToken(g)
    /\ status[t] = "unminted"
    /\ status' = [status EXCEPT ![t] = "live"]
    /\ UNCHANGED <<stName, everListened, everGranted, bindingVars, registry,
                   governor, streamVars>>

\* The governor g moves the registered name n from its present holder to the
\* fresh token t.  The holder is forgotten altogether, under whatever other
\* name it may also be known.
RebindName(g, n, t) ==
    LET old == nameToToken[n] IN
    /\ ValidateGovernorToken(g)
    /\ n \in identities
    /\ status[t] = "unminted"
    /\ registry' = registry \ {n}
    /\ nameToToken' = [nameToToken EXCEPT ![n] = t]
    /\ agents' = [agents EXCEPT ![n] = t]
    /\ IF old = None
       THEN /\ status' = [status EXCEPT ![t] = "live"]
            /\ tokenToName' = [tokenToName EXCEPT ![t] = n]
            /\ stName' = [stName EXCEPT ![t] = n]
            /\ everGranted' = [everGranted EXCEPT ![t] = TRUE]
            /\ UNCHANGED <<everListened, streamVars>>
       ELSE /\ status' = [status EXCEPT ![old] = "removed", ![t] = "live"]
            /\ tokenToName' = [tokenToName EXCEPT ![old] = None, ![t] = n]
            /\ stName' = [stName EXCEPT ![old] = None, ![t] = n]
            /\ everGranted' = [everGranted EXCEPT ![old] = FALSE, ![t] = TRUE]
            /\ everListened' = [everListened EXCEPT ![old] = FALSE]
            /\ sseCount' = [sseCount EXCEPT ![old] = 0]
            /\ DropSender(old)
    /\ UNCHANGED <<identities, governor>>

-----------------------------------------------------------------------------
(* POST /listen                                                            *)

\* Step 1 of open_listen: a token whose stored name has lost its entry gets
\* the entry back.
StoredNameLost(t) == stName[t] # None /\ nameToToken[stName[t]] = None

\* The maps as open_listen sees them once that repair is done.
RepairedNames(t) ==
    IF StoredNameLost(t) THEN [nameToToken EXCEPT ![stName[t]] = t] ELSE nameToToken
RepairedTokens(t) ==
    IF StoredNameLost(t) THEN [tokenToName EXCEPT ![t] = stName[t]] ELSE tokenToName
RepairedAgents(t) ==
    IF StoredNameLost(t) /\ agents[stName[t]] = None
    THEN [agents EXCEPT ![stName[t]] = t] ELSE agents

\* (defect) Only a participant seen recently keeps its name.
ListenMayBindOffline(t, n) == n \notin registry

\* (defect) An orphaned name is free.
ListenMayBindOrphan(t, n) ==
    /\ RepairedNames(t)[n] = None
    /\ n \notin registry

\* May open_listen bind n to t?  (A name t already holds is left as it is.)
ListenMayBind(t, n) ==
    /\ RepairedNames(t)[n] = None
    /\ n \notin registry
    /\ n \notin identities

\* want is the name in the request body, or None.
OpenListen(t, want, force) ==
    /\ Live(t)
    /\ IsSseAlive(t) => force
    /\ stream[t] => stale[t] < MaxStale
    /\ stale' = [stale EXCEPT ![t] = OpenStreams(t)]   \* the old stream is superseded
    /\ stream' = [stream EXCEPT ![t] = TRUE]
    /\ sseCount' = [sseCount EXCEPT ![t] = @ + 1]
    /\ everListened' = [everListened EXCEPT ![t] = TRUE]
    /\ IF want # None /\ ListenMayBind(t, want)
       THEN /\ identities' = identities \cup {want}
            /\ nameToToken' = [RepairedNames(t) EXCEPT ![want] = t]
            /\ tokenToName' = [RepairedTokens(t) EXCEPT ![t] = want]
            /\ agents' = [RepairedAgents(t) EXCEPT ![want] = t]
            /\ stName' = [stName EXCEPT ![t] = want]
       ELSE /\ nameToToken' = RepairedNames(t)
            /\ tokenToName' = RepairedTokens(t)
            /\ agents' = RepairedAgents(t)
            /\ UNCHANGED <<identities, stName>>
    /\ UNCHANGED <<status, everGranted, registry, governor>>

\* (defect) The count wraps below zero.
CloseListenUnderflow(t) ==
    /\ sseCount' = [sseCount EXCEPT ![t] = @ - 1]
    /\ UNCHANGED <<tokenVars, bindingVars, registry, governor>>

\* (defect) The end of a stream is not counted.
CloseListenUncounted(t) == UNCHANGED <<sseCount, tokenVars, bindingVars, registry, governor>>

\* The HTTP layer drops a stream of t: the drop guard calls close_listen.
CloseListen(t) ==
    /\ sseCount' = [sseCount EXCEPT ![t] = IF @ > 0 THEN @ - 1 ELSE 0]
    /\ UNCHANGED <<tokenVars, bindingVars, registry, governor>>

\* The client disconnects.
DropCurrentStream(t) ==
    /\ stream[t]
    /\ stream' = [stream EXCEPT ![t] = FALSE]
    /\ CloseListen(t)
    /\ UNCHANGED stale

\* A superseded, cancelled or revoked stream ends, some time later.
DropStaleStream(t) ==
    /\ stale[t] > 0
    /\ stale' = [stale EXCEPT ![t] = @ - 1]
    /\ CloseListen(t)
    /\ UNCHANGED stream

\* DELETE /listen
CancelListen(t) ==
    LET n == tokenToName[t] IN
    /\ Live(t)
    /\ IsSseAlive(t)
    /\ sseCount' = [sseCount EXCEPT ![t] = 0]
    /\ tokenToName' = [tokenToName EXCEPT ![t] = None]
    /\ IF n = None
       THEN UNCHANGED <<nameToToken, agents>>
       ELSE /\ nameToToken' = [nameToToken EXCEPT ![n] = None]
            /\ agents' = [agents EXCEPT ![n] = None]
    /\ registry' = registry \ {n}
    /\ stName' = [stName EXCEPT ![t] = None]
    /\ DropSender(t)
    /\ UNCHANGED <<status, everListened, everGranted, identities, governor>>

-----------------------------------------------------------------------------
(* POST /announce                                                          *)

\* t already holds n: the liveness entry is refreshed and nothing else.
ReAnnounce(t, n) ==
    /\ Live(t)
    /\ nameToToken[n] = t
    /\ registry' = registry \cup {n}
    /\ UNCHANGED <<tokenVars, bindingVars, governor, streamVars>>

\* n is free.
AnnounceNew(t, n) ==
    /\ Live(t)
    /\ nameToToken[n] # t
    /\ nameToToken[n] # None => ~Known(nameToToken[n])
    /\ n \notin registry
    /\ n \notin identities
    /\ BindName(t, n)
    /\ registry' = registry \cup {n}
    /\ UNCHANGED <<status, everListened, everGranted, governor, streamVars>>

\* n is held by a forgotten token and still registered: the entry is removed
\* and the caller is refused all the same.
AnnounceDangling(t, n) ==
    /\ Live(t)
    /\ nameToToken[n] \notin {t, None}
    /\ ~Known(nameToToken[n])
    /\ n \in registry \/ n \in identities
    /\ nameToToken' = [nameToToken EXCEPT ![n] = None]
    /\ UNCHANGED <<tokenVars, tokenToName, agents, identities, registry,
                   governor, streamVars>>

\* (defect) A lapsed name is struck off the roster.
RegistryLapseForgets(n) ==
    /\ n \in registry
    /\ registry' = registry \ {n}
    /\ identities' = identities \ {n}
    /\ UNCHANGED <<tokenVars, tokenToName, nameToToken, agents, governor, streamVars>>

\* The liveness window of n passes without a re-announcement.
RegistryLapse(n) ==
    /\ n \in registry
    /\ registry' = registry \ {n}
    /\ UNCHANGED <<tokenVars, bindingVars, governor, streamVars>>

-----------------------------------------------------------------------------
(* Deletion and garbage collection.                                        *)

\* DELETE /participants/{n} by the governor g.
RevokeByName(g, n) ==
    LET h == nameToToken[n] IN
    /\ ValidateGovernorToken(g)
    /\ registry' = registry \ {n}
    /\ agents' = [agents EXCEPT ![n] = None]
    /\ tokenToName' = [t \in Token |-> IF tokenToName[t] = n THEN None ELSE tokenToName[t]]
    /\ nameToToken' = [nameToToken EXCEPT ![n] = None]
    /\ IF h # None /\ Known(h)
       THEN status' = [status EXCEPT ![h] = "revoked"] /\ DropSender(h)
       ELSE UNCHANGED <<status, stream, stale>>
    /\ ForgetIdentity(n)
    /\ UNCHANGED <<stName, everListened, everGranted, sseCount>>

\* DELETE /identity
DeleteSelf(t) ==
    LET n == tokenToName[t] IN
    /\ Live(t)
    /\ registry' = registry \ {n}
    /\ IF n = None
       THEN UNCHANGED <<nameToToken, agents, identities, governor>>
       ELSE /\ nameToToken' = [nameToToken EXCEPT ![n] = None]
            /\ agents' = [agents EXCEPT ![n] = None]
            /\ ForgetIdentity(n)
    /\ tokenToName' = [tokenToName EXCEPT ![t] = None]
    /\ status' = [status EXCEPT ![t] = "revoked"]
    /\ DropSender(t)
    /\ UNCHANGED <<stName, everListened, everGranted, sseCount>>

\* (defect) A registered name does not protect its token.
GcExemptListenedOnly(t) == everListened[t] /\ (everGranted[t] \/ stName[t] # None)

\* What exempts a token from collection however long it has been idle.
GcExempt(t) ==
    \/ stName[t] \in identities
    \/ everListened[t] /\ (everGranted[t] \/ stName[t] # None)

GcToken(t) ==
    LET n == stName[t] IN
    /\ Live(t)
    /\ ~GcExempt(t)
    /\ status' = [status EXCEPT ![t] = "removed"]
    /\ stName' = [stName EXCEPT ![t] = None]
    /\ everListened' = [everListened EXCEPT ![t] = FALSE]
    /\ everGranted' = [everGranted EXCEPT ![t] = FALSE]
    /\ sseCount' = [sseCount EXCEPT ![t] = 0]
    /\ DropSender(t)
    /\ IF n = None
       THEN UNCHANGED <<tokenToName, nameToToken, agents>>
       ELSE /\ tokenToName' = [tokenToName EXCEPT ![t] = None]
            /\ nameToToken' = [nameToToken EXCEPT ![n] = None]
            /\ agents' = [agents EXCEPT ![n] = None]
    /\ UNCHANGED <<identities, registry, governor>>

-----------------------------------------------------------------------------
(* What the grant and governance handlers do to this state.                *)

\* A grant is approved on a request that t made or received, under whatever
\* name it had then: t outlives its idle time.  (The mark of a revoked token is
\* never read.)
MarkGranted(t) ==
    /\ Live(t)
    /\ stName[t] # None \/ everListened[t]
    /\ everGranted' = [everGranted EXCEPT ![t] = TRUE]
    /\ UNCHANGED <<status, stName, everListened, bindingVars, registry,
                   governor, streamVars>>

\* A claim, an election or a transfer succeeds for the participant that t
\* speaks for.  Module Governance says when.
BecomeGovernor(t) ==
    /\ tokenToName[t] # None
    /\ governor' = tokenToName[t]
    /\ UNCHANGED <<tokenVars, bindingVars, registry, streamVars>>

\* POST /admin/governor/reset
AdminResetGovernor ==
    /\ governor # None
    /\ governor' = None
    /\ UNCHANGED <<tokenVars, bindingVars, registry, streamVars>>

-----------------------------------------------------------------------------
\* Every step but the appointment of a governor.
SessionStep ==
    \/ \E t \in Token :
          \/ AdmitRegistration(t)
          \/ RegisterParticipant(t)
          \/ \E want \in Name \cup {None}, force \in BOOLEAN : OpenListen(t, want, force)
          \/ DropCurrentStream(t)
          \/ DropStaleStream(t)
          \/ CancelListen(t)
          \/ DeleteSelf(t)
          \/ GcToken(t)
          \/ MarkGranted(t)
    \/ \E t \in Token, n \in Name :
          \/ ReAnnounce(t, n)
          \/ AnnounceNew(t, n)
          \/ AnnounceDangling(t, n)
          \/ RevokeByName(t, n)
    \/ \E g, t \in Token : IssueParticipantToken(g, t)
    \/ \E g, t \in Token, n \in Name : RebindName(g, n, t)
    \/ \E n \in Name : RegistryLapse(n)

SessionsNext ==
    \/ SessionStep
    \/ \E t \in Token : BecomeGovernor(t)
    \/ AdminResetGovernor

\* Dropped streams are noticed: a stream without a sender yields its end, and
\* hyper drops the body of a finished response.
SessionsFairness == \A t \in Token : WF_sessionVars(DropStaleStream(t))

SessionsSpec == SessionsInit /\ [][SessionsNext]_sessionVars

-----------------------------------------------------------------------------
(* What the other components see of this one is module Directory: a token  *)
(* about to be minted does not exist yet, and streams do not matter.       *)

directoryStatus == [t \in Token |-> IF status[t] = "admitted" THEN "unminted" ELSE status[t]]

\* The name of a revoked token is never read.
directoryOwnName == [t \in Token |-> IF Live(t) THEN stName[t] ELSE None]

D == INSTANCE Directory WITH status <- directoryStatus, ownName <- directoryOwnName

\* Whatever the clients do with their streams, and whenever tokens and liveness
\* entries age out, names move only as the directory allows.
ImplementsDirectory == D!DirectorySpec

-----------------------------------------------------------------------------
(* Correctness.  A run starts from an empty hub; restarts are not part of  *)
(* this module.                                                            *)

\* One voice per name: if a token speaks for a name (token_to_name, which
\* send() and every authorisation check read), that name is held by this very
\* token (name_to_token, which delivery and the takeover guards read), routed
\* to it (agents) and registered.  So two tokens never speak for one name,
\* whatever order of announcing under several names, unsubscribing, rebinding
\* and deleting led here.
OneVoicePerName ==
    \A t \in Token : tokenToName[t] # None =>
        /\ nameToToken[tokenToName[t]] = t
        /\ agents[tokenToName[t]] = t
        /\ tokenToName[t] \in identities

\* The name stored with a live token (read by dequeue) is the name it speaks
\* for (read by send): a participant reads the mailbox of the name it sends as.
ReadsWhereItSpeaks ==
    \A t \in Token : Live(t) => stName[t] = tokenToName[t]

\* Every name that is held, routed or shown online is on the roster, so the
\* orphan guards of announce and open_listen cover it; and a holder is also
\* the one messages are routed to.
HeldNamesRegistered ==
    \A n \in Name :
        /\ nameToToken[n] # None => agents[n] = nameToToken[n]
        /\ agents[n] # None \/ n \in registry => n \in identities

\* No phantom governor: the governor pointer never survives the deletion of
\* the identity it names, by itself or by the governor.
NoPhantomGovernor == governor # None => governor \in identities

\* The connection count never exceeds the streams that exist, so a client
\* whose streams have all ended is never refused with ActiveSubscription.
NoPhantomConnection == \A t \in Token : sseCount[t] <= OpenStreams(t)

\* A token that is not (or no longer) in listen_tokens speaks for nobody and
\* counts no connection.
ForgottenTokensAreSilent ==
    \A t \in Token : ~Known(t) => tokenToName[t] = None /\ sseCount[t] = 0

\* FG-1, BLOCKER-3, BLOCKER-4: as long as a name is registered, held or
\* orphaned, the only step that gives it to another token is a rebind by the
\* bearer of the governor, and that token is a fresh one.
TakesOverByRebindOnly ==
    \A n \in identities : nameToToken'[n] \notin {nameToToken[n], None} =>
        /\ \E g \in Token : ValidateGovernorToken(g)
        /\ status[nameToToken'[n]] = "unminted"
        /\ status'[nameToToken'[n]] = "live"
NoTakeover == [][TakesOverByRebindOnly]_sessionVars

\* An identity leaves the roster only when the token that speaks for it or the
\* governor's says so: not by garbage collection, unsubscribing or rebinding.
\* And then no token speaks for it and nothing is routed to it any more.
ForgetsByDeletionOnly ==
    \A n \in identities : n \notin identities' =>
        /\ \E t \in Token : Live(t) /\ (tokenToName[t] = n \/ ValidateGovernorToken(t))
        /\ \A t \in Token : tokenToName'[t] # n
        /\ nameToToken'[n] = None
        /\ agents'[n] = None
        /\ governor' # n
OnlyDeletionForgets == [][ForgetsByDeletionOnly]_sessionVars

\* A token is dropped from listen_tokens while it speaks for a name only by a
\* governor's rebind: garbage collection takes no bound token and no name.
CollectsUnboundOnly ==
    \A t \in Token : status[t] # "removed" /\ status'[t] = "removed" =>
        \/ tokenToName[t] = None /\ bindingVars' = bindingVars
        \/ \E g \in Token : ValidateGovernorToken(g)
GcSparesBoundTokens == [][CollectsUnboundOnly]_sessionVars

\* Once its last stream is gone a client can subscribe again without force:
\* the count left behind by superseded or cancelled streams drains.
ReopenEventuallyAllowed ==
    \A t \in Token : ~stream[t] ~> (stream[t] \/ ~IsSseAlive(t))

\* A token that has not been handed out yet is bound to nothing.
FreshTokensUnbound ==
    \A t \in Token : status[t] \in {"unminted", "admitted"} =>
        /\ stName[t] = None
        /\ \A n \in Name : nameToToken[n] # t

\* The inductive invariant of SessionsProofs.
SessionsInv ==
    /\ SessionsTypeOK
    /\ OneVoicePerName
    /\ ReadsWhereItSpeaks
    /\ HeldNamesRegistered
    /\ NoPhantomGovernor
    /\ NoPhantomConnection
    /\ ForgottenTokensAreSilent
    /\ FreshTokensUnbound

-----------------------------------------------------------------------------
(* What the documentation says and the code does not do.                   *)

\* "Active SSE connection count per token": a live stream is counted.
LiveStreamIsCounted ==
    \A t \in Token : Live(t) /\ stream[t] => IsSseAlive(t)
=============================================================================
