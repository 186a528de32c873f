------------------------------ MODULE Presence ------------------------------
(***************************************************************************)
(* Who is told that a participant went away, and when                      *)
(* (settle timers of src/src/delivery.rs, rooms of src/src/rooms.rs).      *)
(*                                                                         *)
(* Whatever ends the presence of a participant starts a settle timer, if   *)
(* any peer is to be told: the peers are looked up at that moment, and     *)
(* told "offline" when the settle window has passed.  A return within the  *)
(* window cancels the timer.  A peer is a listener that asked for presence *)
(* events and has a grant or shares a room with the participant, and is    *)
(* not blocked.                                                            *)
(*                                                                         *)
(* The module adds timers, rooms and the outcome of the grant handlers     *)
(* (grants in force, blocks) to the steps of module Sessions.  A member    *)
(* whose time in a room is up is as good as removed: every reader prunes   *)
(* first.  "online" events, which leave no state behind, are left out.     *)
(***************************************************************************)
EXTENDS Sessions

CONSTANTS Timer,    \* settle tasks there is room for
          Room      \* rooms there can be at a time

ASSUME PresenceAssumption == None \notin Timer

VARIABLES
    presencePush,   \* ListenTokenState.presence_push
    tasks,          \* the spawned settle tasks that have not ended
    settleTasks,    \* HubInner.settle_tasks: the task that still counts for a name
    rooms,          \* RoomStore: the rooms that exist
    members,        \* who is in which room
    grantsInForce,  \* TrustChain.grants that have not run out
    denied,         \* HubInner.denial_blocks in force
    named           \* history: the name that came with the current stream of a token

timerVars    == <<tasks, settleTasks>>
roomVars     == <<rooms, members>>
reachVars    == <<roomVars, grantsInForce, denied>>
presenceVars == <<sessionVars, presencePush, timerVars, reachVars, named>>

Task  == [name : Name, senders : SUBSET Token, due : BOOLEAN]
Pact  == [a : Token, b : Token, nameA : Name, nameB : Name]

PresenceTypeOK ==
    /\ presencePush \in [Token -> BOOLEAN]
    /\ tasks \in [Timer -> Task \cup {None}]
    /\ settleTasks \in [Name -> Timer \cup {None}]
    /\ rooms \in SUBSET Room
    /\ members \in SUBSET (rooms \X Name)
    /\ grantsInForce \in SUBSET Pact
    /\ denied \in SUBSET (Token \X Name)
    /\ named \in [Token -> Name \cup {None}]
    /\ \A k \in Timer : tasks[k] # None => tasks[k].senders # {}

PresenceInit ==
    /\ SessionsInit
    /\ presencePush = [t \in Token |-> FALSE]
    /\ tasks = [k \in Timer |-> None]
    /\ settleTasks = [n \in Name |-> None]
    /\ rooms = {}
    /\ members = {}
    /\ grantsInForce = {}
    /\ denied = {}
    /\ named = [t \in Token |-> None]

-----------------------------------------------------------------------------
(* grant_peer_presence_senders                                             *)

SharesRoom(m, n) == \E r \in rooms : <<r, m>> \in members /\ <<r, n>> \in members

\* The other party of a grant: the holder of its name, else the token it was
\* made for, as long as the hub knows that token.
Party(name, token) ==
    IF nameToToken[name] # None THEN {nameToToken[name]}
    ELSE IF Known(token) THEN {token} ELSE {}

\* (token the block is looked up for, token that is told)
GrantPeers(n) ==
    LET asA == {g \in grantsInForce : g.nameA = n \/ g.a = agents[n]}
        asB == {g \in grantsInForce : g.nameB = n \/ g.b = agents[n]} \ asA
    IN  UNION ({Party(g.nameB, g.b) : g \in {h \in asA : <<h.b, n>> \notin denied}}
                 \cup {Party(g.nameA, g.a) : g \in {h \in asB : <<h.a, n>> \notin denied}})

RoomPeers(n) ==
    {t \in Token : /\ \E m \in Name \ {n} : nameToToken[m] = t /\ SharesRoom(n, m)
                   /\ <<t, n>> \notin denied}

\* Those of them that listen, given which tokens have an open stream.
PresenceSenders(n, open) ==
    {t \in GrantPeers(n) \cup RoomPeers(n) : Known(t) /\ presencePush[t] /\ open[t]}

-----------------------------------------------------------------------------
(* Settle timers.                                                          *)

StartTimer(n, senders) ==
    \E k \in Timer :
        /\ tasks[k] = None
        /\ tasks' = [tasks EXCEPT ![k] = [name |-> n, senders |-> senders, due |-> FALSE]]
        /\ settleTasks' = [settleTasks EXCEPT ![n] = k]

\* (defect) There is a timer also when nobody is to be told.
BeginSettleOfflineAlways(n, open) == StartTimer(n, PresenceSenders(n, open))

\* begin_settle_offline and spawn_settle_task.  An earlier timer of the name no
\* longer counts, unless there is nobody to tell.
BeginSettleOffline(n, open) ==
    IF PresenceSenders(n, open) = {}
    THEN UNCHANGED timerVars
    ELSE StartTimer(n, PresenceSenders(n, open))

BeginSettleIf(starts, n, open) ==
    IF starts THEN BeginSettleOffline(n, open) ELSE UNCHANGED timerVars

\* cancel_settle_online
CancelSettleOnline(n) ==
    /\ settleTasks' = [settleTasks EXCEPT ![n] = None]
    /\ UNCHANGED tasks

Cancelled(k) == settleTasks[tasks[k].name] # k

\* The settle window passes.
TimerDue(k) ==
    /\ tasks[k] # None
    /\ ~tasks[k].due
    /\ tasks' = [tasks EXCEPT ![k].due = TRUE]
    /\ UNCHANGED <<sessionVars, presencePush, settleTasks, reachVars, named>>

\* The task ends: it has told its peers, or was cancelled first.  One that is
\* both due and cancelled may still tell them.
TimerEnds(k) ==
    /\ tasks[k] # None
    /\ tasks[k].due \/ Cancelled(k)
    /\ tasks' = [tasks EXCEPT ![k] = None]
    /\ settleTasks' = [n \in Name |-> IF settleTasks[n] = k THEN None ELSE settleTasks[n]]
    /\ UNCHANGED <<sessionVars, presencePush, reachVars, named>>

-----------------------------------------------------------------------------
(* The session handlers, with their timers.                                *)

\* t has opened a stream under its name, or under none, or under somebody else's.
RememberNamed(t, want) ==
    named' = [named EXCEPT ![t] = IF want # None /\ nameToToken'[want] = t THEN want ELSE None]

\* What came with a stream is forgotten when that stream ends or is cut off,
\* whatever the count says.
ForgetEnded == named' = [u \in Token |-> IF stream'[u] THEN named[u] ELSE None]

\* (defect) Only a name bound afresh cancels the timer.
ListenPresentOnlyFresh(t, want, force, push) ==
    /\ OpenListen(t, want, force)
    /\ presencePush' = [presencePush EXCEPT ![t] = push]
    /\ IF want # None /\ ListenMayBind(t, want)
       THEN CancelSettleOnline(want) ELSE UNCHANGED timerVars
    /\ RememberNamed(t, want)
    /\ UNCHANGED reachVars

\* POST /listen.  Only a name in the request that is, or becomes, the token's
\* own cancels a timer.
ListenPresent(t, want, force, push) ==
    /\ OpenListen(t, want, force)
    /\ presencePush' = [presencePush EXCEPT ![t] = push]
    /\ IF want # None /\ nameToToken'[want] = t
       THEN CancelSettleOnline(want) ELSE UNCHANGED timerVars
    /\ RememberNamed(t, want)
    /\ UNCHANGED reachVars

\* (defect) Only the end of the newest stream is taken for an absence.
CloseStreamNewest(t) ==
    /\ DropCurrentStream(t) \/ DropStaleStream(t)
    /\ BeginSettleIf(status[t] # "revoked" /\ sseCount[t] <= 1 /\ tokenToName[t] # None /\ stream[t],
                     tokenToName[t], stream')
    /\ UNCHANGED <<presencePush, reachVars>>
    /\ ForgetEnded

\* close_listen: the last counted stream of a token that still has its name.
CloseStream(t) ==
    /\ DropCurrentStream(t) \/ DropStaleStream(t)
    /\ BeginSettleIf(status[t] # "revoked" /\ sseCount[t] <= 1 /\ tokenToName[t] # None,
                     tokenToName[t], stream')
    /\ UNCHANGED <<presencePush, reachVars>>
    /\ ForgetEnded

\* DELETE /listen
Unsubscribe(t) ==
    /\ CancelListen(t)
    /\ BeginSettleIf(tokenToName[t] # None, tokenToName[t], stream)
    /\ UNCHANGED <<presencePush, reachVars>>
    /\ ForgetEnded

\* POST /announce
Announce(t, n) ==
    /\ ReAnnounce(t, n) \/ AnnounceNew(t, n)
    /\ CancelSettleOnline(n)
    /\ UNCHANGED <<presencePush, reachVars>>
    /\ ForgetEnded

\* The grants and blocks of a deleted participant go; its rooms keep it.
PurgeParticipant(n, identity) ==
    /\ grantsInForce' = {g \in grantsInForce : n \notin {g.nameA, g.nameB}}
    /\ denied' = {p \in denied : p[2] # n /\ p[1] # identity}
    /\ UNCHANGED roomVars

\* DELETE /identity
DeleteIdentity(t) ==
    LET n == tokenToName[t] IN
    /\ DeleteSelf(t)
    /\ BeginSettleIf(n # None, n, stream)
    /\ IF n = None THEN UNCHANGED reachVars ELSE PurgeParticipant(n, t)
    /\ UNCHANGED presencePush
    /\ ForgetEnded

\* DELETE /participants/{n}
DeleteParticipant(g, n) ==
    /\ RevokeByName(g, n)
    /\ BeginSettleOffline(n, stream)
    /\ PurgeParticipant(n, nameToToken[n])
    /\ UNCHANGED presencePush
    /\ ForgetEnded

\* gc_tokens: peers are told of a name that had a grant.
CollectToken(t) ==
    /\ GcToken(t)
    /\ BeginSettleIf(stName[t] # None /\ everGranted[t], stName[t], stream')
    /\ presencePush' = [presencePush EXCEPT ![t] = FALSE]
    /\ UNCHANGED reachVars
    /\ ForgetEnded

\* POST /register with a name: no peer is told, and no timer is cancelled.
Rebind(g, n, t) ==
    /\ RebindName(g, n, t)
    /\ presencePush' = [u \in Token |-> presencePush[u] /\ u # nameToToken[n]]
    /\ UNCHANGED <<timerVars, reachVars>>
    /\ ForgetEnded

\* The handlers that have nothing to do with presence.
OtherSessionStep ==
    /\ \/ \E t \in Token : AdmitRegistration(t) \/ RegisterParticipant(t) \/ MarkGranted(t)
                             \/ BecomeGovernor(t)
       \/ \E g, t \in Token : IssueParticipantToken(g, t)
       \/ \E t \in Token, n \in Name : AnnounceDangling(t, n)
       \/ \E n \in Name : RegistryLapse(n)
       \/ AdminResetGovernor
    /\ UNCHANGED <<presencePush, timerVars, reachVars, named>>

-----------------------------------------------------------------------------
(* Rooms: POST /room/create, /room/{r}/join and /room/{r}/leave.           *)

Member(r, n) == <<r, n>> \in members

\* Who asks; the handlers refuse a request without a name.
RoomAuth(t) == IF Live(t) THEN stName[t] ELSE None

CreateRoom(t, r) ==
    /\ RoomAuth(t) # None
    /\ r \notin rooms
    /\ rooms' = rooms \cup {r}
    /\ UNCHANGED members

JoinRoom(t, r) ==
    /\ RoomAuth(t) # None
    /\ r \in rooms
    /\ members' = members \cup {<<r, RoomAuth(t)>>}
    /\ UNCHANGED rooms

\* Idempotent; a room that is empty afterwards is removed, also one that nobody
\* has joined yet.
LeaveRoom(t, r) ==
    LET left == members \ {<<r, RoomAuth(t)>>} IN
    /\ RoomAuth(t) # None
    /\ members' = left
    /\ rooms' = IF \E n \in Name : <<r, n>> \in left THEN rooms ELSE rooms \ {r}

\* The time of n in r is up.  The room stays until somebody leaves it.
MembershipLapses(r, n) ==
    /\ Member(r, n)
    /\ members' = members \ {<<r, n>>}
    /\ UNCHANGED rooms

RoomStep ==
    /\ \E r \in Room :
          \/ \E t \in Token : CreateRoom(t, r) \/ JoinRoom(t, r) \/ LeaveRoom(t, r)
          \/ \E n \in Name : MembershipLapses(r, n)
    /\ UNCHANGED <<sessionVars, presencePush, timerVars, grantsInForce, denied, named>>

-----------------------------------------------------------------------------
(* What the grant handlers come to (module Grants).                        *)

GrantMade(t, u) ==
    /\ tokenToName[t] # None /\ tokenToName[u] # None /\ t # u
    /\ grantsInForce' = grantsInForce \cup
          {[a |-> t, b |-> u, nameA |-> tokenToName[t], nameB |-> tokenToName[u]]}
    /\ UNCHANGED denied

GrantGone(g) ==
    /\ g \in grantsInForce
    /\ grantsInForce' = grantsInForce \ {g}
    /\ UNCHANGED denied

Blocked(t, n) ==
    /\ status[t] # "unminted"
    /\ denied' = denied \cup {<<t, n>>}
    /\ UNCHANGED grantsInForce

Unblocked(t, n) ==
    /\ <<t, n>> \in denied
    /\ denied' = denied \ {<<t, n>>}
    /\ UNCHANGED grantsInForce

GrantStep ==
    /\ \/ \E t, u \in Token : GrantMade(t, u)
       \/ \E g \in grantsInForce : GrantGone(g)
       \/ \E t \in Token, n \in Name : Blocked(t, n) \/ Unblocked(t, n)
    /\ UNCHANGED <<sessionVars, presencePush, timerVars, roomVars, named>>

-----------------------------------------------------------------------------
PresenceNext ==
    \/ \E t \in Token, want \in Name \cup {None}, force, push \in BOOLEAN :
          ListenPresent(t, want, force, push)
    \/ \E t \in Token : CloseStream(t) \/ Unsubscribe(t) \/ DeleteIdentity(t) \/ CollectToken(t)
    \/ \E t \in Token, n \in Name : Announce(t, n) \/ DeleteParticipant(t, n)
    \/ \E g, t \in Token, n \in Name : Rebind(g, n, t)
    \/ OtherSessionStep
    \/ \E k \in Timer : TimerDue(k) \/ TimerEnds(k)
    \/ RoomStep
    \/ GrantStep

PresenceSpec == PresenceInit /\ [][PresenceNext]_presenceVars

-----------------------------------------------------------------------------
(* Correctness.                                                            *)

\* A timer that still counts when it comes to it: its peers will be told.
WillTell(n) == {t \in Token : settleTasks[n] # None /\ t \in tasks[settleTasks[n]].senders}

\* A participant that listens under its name is not about to be reported gone,
\* however its earlier streams ended and in whatever order the hub noticed, as
\* long as the hub counts a connection of it.  (open_listen, close_listen,
\* cancel_settle_online.  The late end of a stream that was cancelled takes the
\* count away from the stream that came after, and starts a timer for a client
\* that is connected: see ConnectedAreNotMissed.)
NamedReturnCancels ==
    \A t \in Token : named[t] # None /\ nameToToken[named[t]] = t /\ sseCount[t] > 0 =>
        WillTell(named[t]) = {}

\* Nobody's absence goes unnoticed: on whichever way the connected holder of a
\* name loses its last stream or its name, but for a rebind, a timer runs
\* afterwards for every peer that was to be told.  (close_listen, cancel_listen,
\* delete_self, revoke_by_name: each begins the timer before it takes apart what
\* the peers are found by.)  Holds for participants that keep to one name: a
\* token that announced another name before can be revoked under that one.
KeepsTo(t, n) == \A m \in Name : nameToToken[m] = t => m = n

Connected(t, n) ==
    Live(t) /\ tokenToName[t] = n /\ nameToToken[n] = t /\ sseCount[t] > 0

AbsencesAreTimed ==
    \A t \in Token, n \in Name :
        /\ Connected(t, n) /\ KeepsTo(t, n)
        /\ ~Connected(t, n)' /\ tokenToName'[t] \in {n, None} /\ nameToToken'[n] \in {t, None}
        => PresenceSenders(n, stream) \ {t} \subseteq WillTell(n)'
EveryAbsenceIsTimed == [][AbsencesAreTimed]_presenceVars

\* A name came with a stream that is open.
NamedAreConnected == \A t \in Token : named[t] # None => stream[t]

\* No timer of that name counts as long as the token has it and is counted.
NamedAreSettled ==
    \A t \in Token : named[t] # None /\ nameToToken[named[t]] = t /\ sseCount[t] > 0 =>
        settleTasks[named[t]] = None

\* What the proofs carry along, besides the invariant of Sessions.
PresenceInv == PresenceTypeOK /\ NamedAreConnected /\ NamedAreSettled

-----------------------------------------------------------------------------
(* What the repository says, and the code does not do.                     *)

\* skills/participant/SKILL.md: a reconnect within the settle window cancels the
\* timer.
ReconnectCancels ==
    \A k \in Timer, t \in Token :
        tasks[k] # None /\ ~tasks[k].due /\ ~Cancelled(k) => ~Connected(t, tasks[k].name)

\* src/src/delivery.rs, close_listen: a timer starts when the last connection has
\* dropped.  (The count is not the connection.)
ConnectedAreNotMissed ==
    \A t \in Token : named[t] # None /\ nameToToken[named[t]] = t => WillTell(named[t]) = {}
=============================================================================
