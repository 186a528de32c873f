--------------------------- MODULE PresenceProofs ---------------------------
(***************************************************************************)
(* Proofs about module Presence, for any sets of tokens, names, timers and *)
(* rooms.                                                                  *)
(*                                                                         *)
(* Timers and rooms leave the sessions alone, so Presence implements       *)
(* Sessions and SessionsInv holds here too.  A timer starts for a name     *)
(* only in a step after which no counted token that gave the name has it:  *)
(* either its count is gone or the name is.  A name goes to a token that   *)
(* gave it, and a token is counted again, only in steps that cancel the    *)
(* timer or forget what the token called itself.  That is NamedAreSettled. *)
(***************************************************************************)
EXTENDS Presence, SessionsProofs, TLAPS

(* Every step is one of Sessions or leaves the sessions alone.             *)
LEMMA PresenceStepSimulates ==
    ASSUME [PresenceNext]_presenceVars
    PROVE  [SessionsNext]_sessionVars
<1>1. ASSUME NEW t \in Token, NEW want \in Name \cup {None}, NEW force \in BOOLEAN,
             NEW push \in BOOLEAN, ListenPresent(t, want, force, push)
      PROVE  SessionsNext
  BY <1>1 DEF ListenPresent, SessionsNext, SessionStep
<1>2. ASSUME NEW t \in Token,
             CloseStream(t) \/ Unsubscribe(t) \/ DeleteIdentity(t) \/ CollectToken(t)
      PROVE  SessionsNext
  BY <1>2 DEF CloseStream, Unsubscribe, DeleteIdentity, CollectToken, SessionsNext, SessionStep
<1>3. ASSUME NEW t \in Token, NEW n \in Name, Announce(t, n) \/ DeleteParticipant(t, n)
      PROVE  SessionsNext
  BY <1>3 DEF Announce, DeleteParticipant, SessionsNext, SessionStep
<1>4. ASSUME NEW g \in Token, NEW t \in Token, NEW n \in Name, Rebind(g, n, t)
      PROVE  SessionsNext
  BY <1>4 DEF Rebind, SessionsNext, SessionStep
<1>5. CASE OtherSessionStep
  BY <1>5 DEF OtherSessionStep, SessionsNext, SessionStep
<1>6. CASE (\E k \in Timer : TimerDue(k) \/ TimerEnds(k)) \/ RoomStep \/ GrantStep
  BY <1>6 DEF TimerDue, TimerEnds, RoomStep, GrantStep
<1>7. CASE UNCHANGED presenceVars
  BY <1>7 DEF presenceVars
<1> QED
  BY <1>1, <1>2, <1>3, <1>4, <1>5, <1>6, <1>7 DEF PresenceNext

(* Presence only adds to the sessions.                                     *)
THEOREM PresenceImplementsSessions == PresenceSpec => SessionsSpec
BY PresenceStepSimulates, PTL DEF PresenceSpec, PresenceInit, SessionsSpec

-----------------------------------------------------------------------------
TimersTypeOK ==
    /\ tasks \in [Timer -> Task \cup {None}]
    /\ settleTasks \in [Name -> Timer \cup {None}]
    /\ \A k \in Timer : tasks[k] # None => tasks[k].senders # {}

(* Only tokens are told.                                                   *)
LEMMA SendersAreTokens ==
    ASSUME SessionsTypeOK, grantsInForce \in SUBSET Pact, NEW n, NEW open
    PROVE  PresenceSenders(n, open) \subseteq Token
<1>1. \A name \in Name, t \in Token : Party(name, t) \subseteq Token
  BY DEF Party, SessionsTypeOK
<1>2. GrantPeers(n) \subseteq Token
  <2>1. \A g \in grantsInForce :
           Party(g.nameA, g.a) \subseteq Token /\ Party(g.nameB, g.b) \subseteq Token
    BY <1>1 DEF Pact
  <2> QED
    BY <2>1 DEF GrantPeers
<1> QED
  BY <1>2 DEF PresenceSenders, RoomPeers

(* begin_settle_offline leaves a timer for whoever is to be told, and does *)
(* not touch another name's.                                               *)
LEMMA SettleStarts ==
    ASSUME SessionsTypeOK, PresenceTypeOK, NEW n \in Name, NEW open, BeginSettleOffline(n, open)
    PROVE  /\ TimersTypeOK'
           /\ \A m \in Name \ {n} : settleTasks'[m] = settleTasks[m]
           /\ PresenceSenders(n, open) \subseteq WillTell(n)'
<1>0. TimersTypeOK
  BY DEF PresenceTypeOK, TimersTypeOK
<1>1. CASE PresenceSenders(n, open) = {}
  BY <1>0, <1>1 DEF BeginSettleOffline, TimersTypeOK, timerVars
<1>2. CASE PresenceSenders(n, open) # {}
  <2> DEFINE S == PresenceSenders(n, open)
             task == [name |-> n, senders |-> S, due |-> FALSE]
  <2>0. S \in SUBSET Token
    BY SendersAreTokens DEF PresenceTypeOK
  <2> HIDE DEF S
  <2>1. PICK k \in Timer : /\ tasks' = [tasks EXCEPT ![k] = task]
                           /\ settleTasks' = [settleTasks EXCEPT ![n] = k]
    BY <1>2 DEF BeginSettleOffline, StartTimer, S
  <2>2. task \in Task /\ task.senders = S /\ S # {}
    BY <1>2, <2>0 DEF Task, S
  <2>3. tasks'[k].senders = S /\ settleTasks'[n] = k /\ k # None
    BY <1>0, <2>1, <2>2, PresenceAssumption DEF TimersTypeOK
  <2>4. TimersTypeOK'
    <3> HIDE DEF task
    <3> QED
      BY <1>0, <2>1, <2>2 DEF TimersTypeOK
  <2>5. S \subseteq WillTell(n)'
    BY <2>0, <2>3 DEF WillTell
  <2>6. \A m \in Name \ {n} : settleTasks'[m] = settleTasks[m]
    BY <1>0, <2>1 DEF TimersTypeOK
  <2> QED
    BY <2>4, <2>5, <2>6 DEF S
<1> QED
  BY <1>1, <1>2

(* The same when a timer may or may not be due.                            *)
LEMMA SettleMayStart ==
    ASSUME SessionsTypeOK, PresenceTypeOK, NEW starts \in BOOLEAN, NEW n, starts => n \in Name, NEW open,
           BeginSettleIf(starts, n, open)
    PROVE  /\ TimersTypeOK'
           /\ \A m \in Name : ~starts \/ m # n => settleTasks'[m] = settleTasks[m]
BY SettleStarts DEF BeginSettleIf, timerVars, PresenceTypeOK, TimersTypeOK

(* Where nobody listens, a name that is remembered is an old one.          *)
LEMMA NamedFrame ==
    ASSUME SessionsTypeOK', PresenceTypeOK, ForgetEnded
    PROVE  /\ named' \in [Token -> Name \cup {None}]
           /\ NamedAreConnected'
           /\ \A u \in Token : named'[u] # None => named'[u] = named[u]
BY DEF ForgetEnded, PresenceTypeOK, SessionsTypeOK, NamedAreConnected

-----------------------------------------------------------------------------
(* Type correctness.                                                       *)
ReachTypeOK ==
    /\ rooms \in SUBSET Room
    /\ members \in SUBSET (rooms \X Name)
    /\ grantsInForce \in SUBSET Pact
    /\ denied \in SUBSET (Token \X Name)

LEMMA TypeParts ==
    /\ PresenceTypeOK <=> /\ presencePush \in [Token -> BOOLEAN]
                          /\ TimersTypeOK
                          /\ ReachTypeOK
                          /\ named \in [Token -> Name \cup {None}]
    /\ PresenceTypeOK' <=> /\ presencePush' \in [Token -> BOOLEAN]
                           /\ TimersTypeOK'
                           /\ ReachTypeOK'
                           /\ named' \in [Token -> Name \cup {None}]
BY DEF PresenceTypeOK, TimersTypeOK, ReachTypeOK

(* A step that starts a timer only for a name nobody has after it, or that *)
(* its connected holder has lost, and gives no name to anybody.            *)
LEMMA AbsenceKeepsInv ==
    ASSUME SessionsInv, SessionsInv', PresenceInv,
           presencePush' \in [Token -> BOOLEAN], ReachTypeOK',
           ForgetEnded,
           \A u \in Token : sseCount'[u] > 0 => sseCount[u] > 0,
           NEW starts \in BOOLEAN, NEW n, starts => n \in Name, NEW open,
           BeginSettleIf(starts, n, open),
           starts => nameToToken'[n] = None \/ sseCount'[nameToToken'[n]] = 0,
           \A m \in Name : nameToToken'[m] \in {nameToToken[m], None}
    PROVE  PresenceInv'
<1> USE SessionsAssumption DEF PresenceInv
<1>1. SessionsTypeOK /\ SessionsTypeOK'
  BY DEF SessionsInv
<1>2. /\ named' \in [Token -> Name \cup {None}]
      /\ NamedAreConnected'
      /\ \A u \in Token : named'[u] # None => named'[u] = named[u]
  BY <1>1, NamedFrame
<1>3. /\ TimersTypeOK'
      /\ \A m \in Name : ~starts \/ m # n => settleTasks'[m] = settleTasks[m]
  BY <1>1, SettleMayStart
<1>4. PresenceTypeOK'
  BY <1>2, <1>3, TypeParts
<1>5. NamedAreSettled'
  <2> SUFFICES ASSUME NEW u \in Token, named'[u] # None, nameToToken'[named'[u]] = u,
                      sseCount'[u] > 0
               PROVE  settleTasks'[named'[u]] = None
    BY DEF NamedAreSettled
  <2>1. named'[u] = named[u] /\ named[u] \in Name /\ sseCount[u] > 0
    BY <1>2
  <2>2. nameToToken[named[u]] = u /\ settleTasks[named[u]] = None
    BY <2>1 DEF NamedAreSettled
  <2>3. ~(starts /\ named[u] = n)
    BY <2>1
  <2> QED
    BY <1>3, <2>1, <2>2, <2>3
<1> QED
  BY <1>2, <1>4, <1>5

(* A step that cancels the timer of the only name it gives to anybody, or  *)
(* that anybody gives.                                                     *)
LEMMA ReturnKeepsInv ==
    ASSUME SessionsInv, SessionsInv', PresenceInv,
           presencePush' \in [Token -> BOOLEAN], ReachTypeOK',
           named' \in [Token -> Name \cup {None}], NamedAreConnected',
           NEW n \in Name \cup {None},
           \A u \in Token : named'[u] \notin {n, None} =>
               named'[u] = named[u] /\ sseCount'[u] = sseCount[u],
           IF n # None THEN CancelSettleOnline(n) ELSE UNCHANGED timerVars,
           \A m \in Name : m # n => nameToToken'[m] \in {nameToToken[m], None}
    PROVE  PresenceInv'
<1> USE SessionsAssumption DEF PresenceInv
<1>1. SessionsTypeOK /\ SessionsTypeOK'
  BY DEF SessionsInv
<1>3. /\ TimersTypeOK'
      /\ n # None => settleTasks'[n] = None
      /\ \A m \in Name : m # n => settleTasks'[m] = settleTasks[m]
  BY TypeParts DEF CancelSettleOnline, TimersTypeOK, timerVars
<1>4. PresenceTypeOK'
  BY <1>3, TypeParts
<1>5. NamedAreSettled'
  <2> SUFFICES ASSUME NEW u \in Token, named'[u] # None, nameToToken'[named'[u]] = u,
                      named'[u] # n, sseCount'[u] > 0
               PROVE  settleTasks'[named'[u]] = None
    BY <1>3 DEF NamedAreSettled
  <2>1. named'[u] = named[u] /\ sseCount[u] > 0
    OBVIOUS
  <2>2. named[u] \in Name /\ nameToToken[named[u]] = u
    BY <2>1
  <2>3. settleTasks[named[u]] = None
    BY <2>1, <2>2 DEF NamedAreSettled
  <2> QED
    BY <1>3, <2>1, <2>2, <2>3
<1> QED
  BY <1>4, <1>5

-----------------------------------------------------------------------------
(* Deleting a participant takes grants and blocks away.                    *)
LEMMA PurgeTyped ==
    ASSUME ReachTypeOK, NEW n, NEW identity, PurgeParticipant(n, identity)
    PROVE  ReachTypeOK'
BY DEF ReachTypeOK, PurgeParticipant, roomVars

(* The handlers of Sessions, with their timers.                            *)
LEMMA ListenKeepsInv ==
    ASSUME SessionsInv, SessionsInv', PresenceInv,
           NEW t \in Token, NEW want \in Name \cup {None}, NEW force \in BOOLEAN,
           NEW push \in BOOLEAN, ListenPresent(t, want, force, push)
    PROVE  PresenceInv'
<1> DEFINE n == IF want # None /\ nameToToken'[want] = t THEN want ELSE None
<1>1. OpenListen(t, want, force) /\ Live(t)
  BY DEF ListenPresent, OpenListen
<1>2. RepairedNames(t) = nameToToken
  BY <1>1, NoStoredNameLost DEF RepairedNames
<1>3. \A m \in Name : m # n => nameToToken'[m] \in {nameToToken[m], None}
  BY <1>1, <1>2, SessionsAssumption DEF OpenListen, SessionsInv, SessionsTypeOK
<1>4. presencePush' \in [Token -> BOOLEAN] /\ ReachTypeOK'
  BY DEF ListenPresent, PresenceInv, PresenceTypeOK, ReachTypeOK, reachVars, roomVars
<1>5. IF n # None THEN CancelSettleOnline(n) ELSE UNCHANGED timerVars
  BY DEF ListenPresent
<1>6. named' = [named EXCEPT ![t] = n]
  BY DEF ListenPresent, RememberNamed
<1>7. n \in Name \cup {None}
  OBVIOUS
<1> HIDE DEF n
<1>8. /\ named' \in [Token -> Name \cup {None}]
      /\ NamedAreConnected'
  BY <1>1, <1>6, <1>7
     DEF OpenListen, NamedAreConnected, PresenceInv, PresenceTypeOK, SessionsInv, SessionsTypeOK
<1>9. \A u \in Token : named'[u] \notin {n, None} =>
          named'[u] = named[u] /\ sseCount'[u] = sseCount[u]
  BY <1>1, <1>6 DEF OpenListen, PresenceInv, PresenceTypeOK, SessionsInv, SessionsTypeOK
<1> QED
  BY <1>3, <1>4, <1>5, <1>7, <1>8, <1>9, ReturnKeepsInv

LEMMA CloseKeepsInv ==
    ASSUME SessionsInv, SessionsInv', PresenceInv, NEW t \in Token, CloseStream(t)
    PROVE  PresenceInv'
<1> DEFINE n == tokenToName[t]
           starts == status[t] # "revoked" /\ sseCount[t] <= 1 /\ n # None
<1>1. starts \in BOOLEAN /\ (starts => n \in Name)
  BY DEF SessionsInv, SessionsTypeOK
<1>2. nameToToken' = nameToToken /\ sseCount' = [sseCount EXCEPT ![t] = IF @ > 0 THEN @ - 1 ELSE 0]
  BY DEF CloseStream, DropCurrentStream, DropStaleStream, CloseListen, bindingVars
<1>3. starts => nameToToken'[n] = None \/ sseCount'[nameToToken'[n]] = 0
  BY <1>2 DEF SessionsInv, SessionsTypeOK, OneVoicePerName
<1>4. \A m \in Name : nameToToken'[m] \in {nameToToken[m], None}
  BY <1>2
<1>5. presencePush' \in [Token -> BOOLEAN] /\ ReachTypeOK'
  BY DEF CloseStream, PresenceInv, PresenceTypeOK, ReachTypeOK, reachVars, roomVars
<1>6. BeginSettleIf(starts, n, stream') /\ ForgetEnded
  BY DEF CloseStream
<1>7. \A u \in Token : sseCount'[u] > 0 => sseCount[u] > 0
  BY <1>2 DEF SessionsInv, SessionsTypeOK
<1> HIDE DEF starts, n
<1> QED
  BY <1>1, <1>3, <1>4, <1>5, <1>6, <1>7, AbsenceKeepsInv

LEMMA UnsubscribeKeepsInv ==
    ASSUME SessionsInv, SessionsInv', PresenceInv, NEW t \in Token, Unsubscribe(t)
    PROVE  PresenceInv'
<1> DEFINE n == tokenToName[t]
           starts == n # None
<1>1. starts \in BOOLEAN /\ (starts => n \in Name)
  BY DEF SessionsInv, SessionsTypeOK
<1>2. /\ starts => nameToToken'[n] = None
      /\ \A m \in Name : nameToToken'[m] \in {nameToToken[m], None}
  BY <1>1 DEF Unsubscribe, CancelListen, SessionsInv, SessionsTypeOK
<1>3. presencePush' \in [Token -> BOOLEAN] /\ ReachTypeOK'
  BY DEF Unsubscribe, PresenceInv, PresenceTypeOK, ReachTypeOK, reachVars, roomVars
<1>4. BeginSettleIf(starts, n, stream) /\ ForgetEnded
  BY DEF Unsubscribe
<1>5. \A u \in Token : sseCount'[u] > 0 => sseCount[u] > 0
  BY DEF Unsubscribe, CancelListen, SessionsInv, SessionsTypeOK
<1> HIDE DEF starts, n
<1> QED
  BY <1>1, <1>2, <1>3, <1>4, <1>5, AbsenceKeepsInv

LEMMA DeleteIdentityKeepsInv ==
    ASSUME SessionsInv, SessionsInv', PresenceInv, NEW t \in Token, DeleteIdentity(t)
    PROVE  PresenceInv'
<1> DEFINE n == tokenToName[t]
           starts == n # None
<1>1. starts \in BOOLEAN /\ (starts => n \in Name)
  BY DEF SessionsInv, SessionsTypeOK
<1>2. /\ starts => nameToToken'[n] = None
      /\ \A m \in Name : nameToToken'[m] \in {nameToToken[m], None}
  BY <1>1 DEF DeleteIdentity, DeleteSelf, SessionsInv, SessionsTypeOK
<1>3. presencePush' \in [Token -> BOOLEAN] /\ ReachTypeOK'
  BY PurgeTyped
     DEF DeleteIdentity, PresenceInv, PresenceTypeOK, ReachTypeOK, reachVars, roomVars
<1>4. BeginSettleIf(starts, n, stream) /\ ForgetEnded
  BY DEF DeleteIdentity
<1>5. \A u \in Token : sseCount'[u] > 0 => sseCount[u] > 0
  BY DEF DeleteIdentity, DeleteSelf, streamVars, SessionsInv, SessionsTypeOK
<1> HIDE DEF starts, n
<1> QED
  BY <1>1, <1>2, <1>3, <1>4, <1>5, AbsenceKeepsInv

LEMMA DeleteParticipantKeepsInv ==
    ASSUME SessionsInv, SessionsInv', PresenceInv, NEW g \in Token, NEW n \in Name,
           DeleteParticipant(g, n)
    PROVE  PresenceInv'
<1>1. /\ nameToToken'[n] = None
      /\ \A m \in Name : nameToToken'[m] \in {nameToToken[m], None}
  BY DEF DeleteParticipant, RevokeByName, SessionsInv, SessionsTypeOK
<1>2. presencePush' \in [Token -> BOOLEAN] /\ ReachTypeOK'
  BY PurgeTyped DEF DeleteParticipant, PresenceInv, PresenceTypeOK, ReachTypeOK
<1>3. BeginSettleIf(TRUE, n, stream) /\ ForgetEnded
  BY DEF DeleteParticipant, BeginSettleIf
<1>4. sseCount' = sseCount
  BY DEF DeleteParticipant, RevokeByName
<1> QED
  BY <1>1, <1>2, <1>3, <1>4, AbsenceKeepsInv

LEMMA CollectKeepsInv ==
    ASSUME SessionsInv, SessionsInv', PresenceInv, NEW t \in Token, CollectToken(t)
    PROVE  PresenceInv'
<1> DEFINE n == stName[t]
           starts == n # None /\ everGranted[t]
<1>1. starts \in BOOLEAN /\ (starts => n \in Name)
  BY DEF SessionsInv, SessionsTypeOK
<1>2. /\ starts => nameToToken'[n] = None
      /\ \A m \in Name : nameToToken'[m] \in {nameToToken[m], None}
  BY <1>1 DEF CollectToken, GcToken, SessionsInv, SessionsTypeOK
<1>3. presencePush' \in [Token -> BOOLEAN] /\ ReachTypeOK'
  BY DEF CollectToken, PresenceInv, PresenceTypeOK, ReachTypeOK, reachVars, roomVars
<1>4. BeginSettleIf(starts, n, stream') /\ ForgetEnded
  BY DEF CollectToken
<1>5. \A u \in Token : sseCount'[u] > 0 => sseCount[u] > 0
  BY DEF CollectToken, GcToken, SessionsInv, SessionsTypeOK
<1> HIDE DEF starts, n
<1> QED
  BY <1>1, <1>2, <1>3, <1>4, <1>5, AbsenceKeepsInv

LEMMA AnnounceKeepsInv ==
    ASSUME SessionsInv, SessionsInv', PresenceInv, NEW t \in Token, NEW n \in Name,
           Announce(t, n)
    PROVE  PresenceInv'
<1>1. \A m \in Name : m # n => nameToToken'[m] \in {nameToToken[m], None}
  BY DEF Announce, ReAnnounce, AnnounceNew, BindName, bindingVars, SessionsInv, SessionsTypeOK
<1>2. presencePush' \in [Token -> BOOLEAN] /\ ReachTypeOK'
  BY DEF Announce, PresenceInv, PresenceTypeOK, ReachTypeOK, reachVars, roomVars
<1>3. n # None /\ CancelSettleOnline(n) /\ ForgetEnded
  BY SessionsAssumption DEF Announce
<1>4. sseCount' = sseCount
  BY DEF Announce, ReAnnounce, AnnounceNew, streamVars
<1>5. /\ named' \in [Token -> Name \cup {None}]
      /\ NamedAreConnected'
      /\ \A u \in Token : named'[u] # None => named'[u] = named[u]
  BY <1>3, NamedFrame DEF SessionsInv, PresenceInv
<1> QED
  BY <1>1, <1>2, <1>3, <1>4, <1>5, ReturnKeepsInv

(* The token a name is moved to is not counted yet.                        *)
LEMMA RebindPresenceKeepsInv ==
    ASSUME SessionsInv, SessionsInv', PresenceInv, NEW g \in Token, NEW n \in Name,
           NEW t \in Token, Rebind(g, n, t)
    PROVE  PresenceInv'
<1> USE SessionsAssumption DEF PresenceInv
<1>1. SessionsTypeOK /\ SessionsTypeOK' /\ presencePush \in [Token -> BOOLEAN]
  BY DEF SessionsInv, PresenceTypeOK
<1>2. /\ named' \in [Token -> Name \cup {None}]
      /\ NamedAreConnected'
      /\ \A u \in Token : named'[u] # None => named'[u] = named[u]
  BY <1>1, NamedFrame DEF Rebind
<1>3. presencePush' \in [Token -> BOOLEAN]
  BY <1>1 DEF Rebind
<1>4. PresenceTypeOK'
  BY <1>2, <1>3, TypeParts
     DEF Rebind, ReachTypeOK, TimersTypeOK, reachVars, roomVars, timerVars
<1>5. /\ sseCount[t] = 0
      /\ \A u \in Token : sseCount'[u] > 0 => sseCount[u] > 0
  <2>1. sseCount[t] = 0
    BY DEF Rebind, RebindName, SessionsInv, ForgottenTokensAreSilent, Known
  <2>2. \A u \in Token : sseCount'[u] > 0 => sseCount[u] > 0
    BY <1>1 DEF Rebind, RebindName, streamVars, SessionsTypeOK
  <2> QED
    BY <2>1, <2>2
<1>6. nameToToken' = [nameToToken EXCEPT ![n] = t] /\ settleTasks' = settleTasks
  BY DEF Rebind, RebindName, timerVars
<1>7. NamedAreSettled'
  <2> SUFFICES ASSUME NEW u \in Token, named'[u] # None, nameToToken'[named'[u]] = u,
                      sseCount'[u] > 0
               PROVE  settleTasks'[named'[u]] = None
    BY DEF NamedAreSettled
  <2>1. named'[u] = named[u] /\ named[u] \in Name /\ sseCount[u] > 0 /\ u # t
    BY <1>2, <1>5
  <2>2. nameToToken[named[u]] = u
    BY <1>1, <1>6, <2>1 DEF SessionsTypeOK
  <2> QED
    BY <1>6, <2>1, <2>2 DEF NamedAreSettled
<1> QED
  BY <1>2, <1>4, <1>7

(* Steps that concern timers, rooms or grants only, or names only.         *)
LEMMA OtherKeepsInv ==
    ASSUME SessionsInv, PresenceInv,
           \/ OtherSessionStep
           \/ \E k \in Timer : TimerDue(k) \/ TimerEnds(k)
           \/ RoomStep
           \/ GrantStep
           \/ UNCHANGED presenceVars
    PROVE  PresenceInv'
<1> USE SessionsAssumption DEF PresenceInv
<1>0. SessionsTypeOK /\ TimersTypeOK /\ ReachTypeOK
  BY TypeParts DEF SessionsInv
<1> DEFINE Frame == UNCHANGED <<presencePush, stream, sseCount, named>>
<1>1. ASSUME Frame, UNCHANGED <<timerVars, reachVars>>,
             \A m \in Name : nameToToken'[m] \in {nameToToken[m], None}
      PROVE  PresenceInv'
  BY <1>1 DEF PresenceTypeOK, NamedAreConnected, NamedAreSettled, timerVars, reachVars, roomVars
<1>2. CASE OtherSessionStep
  <2>1. Frame /\ UNCHANGED <<timerVars, reachVars>>
    BY <1>2 DEF OtherSessionStep, AdmitRegistration, RegisterParticipant, MarkGranted,
                BecomeGovernor, IssueParticipantToken, AnnounceDangling, RegistryLapse,
                AdminResetGovernor, streamVars
  <2>2. \A m \in Name : nameToToken'[m] \in {nameToToken[m], None}
    BY <1>0, <1>2
       DEF OtherSessionStep, AdmitRegistration, RegisterParticipant, MarkGranted,
           BecomeGovernor, IssueParticipantToken, AnnounceDangling, RegistryLapse,
           AdminResetGovernor, bindingVars, SessionsTypeOK
  <2> QED
    BY <1>1, <2>1, <2>2
<1>3. ASSUME NEW k \in Timer, TimerDue(k) \/ TimerEnds(k)
      PROVE  PresenceInv'
  <2>1. Frame /\ UNCHANGED <<nameToToken, reachVars>>
    BY <1>3 DEF TimerDue, TimerEnds, sessionVars, bindingVars, streamVars
  <2>2. TimersTypeOK' /\ \A n \in Name : settleTasks'[n] \in {settleTasks[n], None}
    <3>1. CASE TimerDue(k)
      <4> DEFINE task == [tasks[k] EXCEPT !.due = TRUE]
      <4>1. tasks[k] \in Task /\ tasks[k].senders # {}
        BY <1>0, <3>1 DEF TimerDue, TimersTypeOK
      <4>2. task \in Task /\ task.senders # {}
        BY <4>1 DEF Task
      <4>3. tasks' = [tasks EXCEPT ![k] = task] /\ settleTasks' = settleTasks
        BY <3>1 DEF TimerDue
      <4> HIDE DEF task
      <4> QED
        BY <1>0, <4>2, <4>3 DEF TimersTypeOK
    <3>2. CASE TimerEnds(k)
      BY <1>0, <3>2 DEF TimerEnds, TimersTypeOK
    <3> QED
      BY <1>3, <3>1, <3>2
  <2>3. PresenceTypeOK'
    BY <1>0, <2>1, <2>2, TypeParts DEF PresenceTypeOK, ReachTypeOK, reachVars, roomVars
  <2>4. NamedAreConnected' /\ NamedAreSettled'
    BY <2>1, <2>2 DEF NamedAreConnected, NamedAreSettled, PresenceTypeOK
  <2> QED
    BY <2>3, <2>4
<1>4. CASE RoomStep \/ GrantStep
  <2>1. Frame /\ UNCHANGED <<nameToToken, timerVars>>
    BY <1>4 DEF RoomStep, GrantStep, sessionVars, bindingVars, streamVars
  <2>2. ReachTypeOK'
    <3>1. CASE RoomStep
      <4>1. \A t \in Token : RoomAuth(t) \in Name \cup {None}
        BY <1>0 DEF RoomAuth, SessionsTypeOK
      <4>2. UNCHANGED <<grantsInForce, denied>>
        BY <3>1 DEF RoomStep
      <4> DEFINE Typed == rooms' \in SUBSET Room /\ members' \in SUBSET (rooms' \X Name)
      <4>3. ASSUME NEW t \in Token, NEW r \in Room, CreateRoom(t, r) \/ JoinRoom(t, r)
            PROVE  Typed
        BY <1>0, <4>1, <4>3 DEF CreateRoom, JoinRoom, ReachTypeOK
      <4>4. ASSUME NEW t \in Token, NEW r \in Room, LeaveRoom(t, r)
            PROVE  Typed
        <5>1. rooms' \in SUBSET Room /\ members' \subseteq members
          BY <1>0, <4>4 DEF LeaveRoom, ReachTypeOK
        <5>2. ASSUME NEW p \in members'
              PROVE  p \in rooms' \X Name
          <6>1. p \in rooms \X Name /\ p = <<p[1], p[2]>>
            BY <1>0, <5>1, <5>2 DEF ReachTypeOK
          <6>2. p[1] \in rooms'
            BY <4>4, <5>2, <6>1 DEF LeaveRoom
          <6> QED
            BY <6>1, <6>2
        <5> QED
          BY <5>1, <5>2
      <4>5. ASSUME NEW n \in Name, NEW r \in Room, MembershipLapses(r, n)
            PROVE  Typed
        BY <1>0, <4>5 DEF MembershipLapses, ReachTypeOK
      <4> HIDE DEF Typed
      <4>6. Typed
        BY <3>1, <4>3, <4>4, <4>5 DEF RoomStep
      <4> QED
        BY <1>0, <4>2, <4>6 DEF ReachTypeOK, Typed
    <3>2. CASE GrantStep
      <4>1. UNCHANGED roomVars
        BY <3>2 DEF GrantStep
      <4>2. ASSUME NEW t \in Token, NEW u \in Token, GrantMade(t, u)
            PROVE  grantsInForce' \in SUBSET Pact /\ denied' = denied
        <5>1. [a |-> t, b |-> u, nameA |-> tokenToName[t], nameB |-> tokenToName[u]] \in Pact
          BY <1>0, <4>2 DEF GrantMade, SessionsTypeOK, Pact
        <5> QED
          BY <1>0, <4>2, <5>1 DEF GrantMade, ReachTypeOK
      <4>3. ASSUME NEW g \in grantsInForce, GrantGone(g)
            PROVE  grantsInForce' \in SUBSET Pact /\ denied' = denied
        BY <1>0, <4>3 DEF GrantGone, ReachTypeOK
      <4>4. ASSUME NEW t \in Token, NEW n \in Name, Blocked(t, n) \/ Unblocked(t, n)
            PROVE  denied' \in SUBSET (Token \X Name) /\ grantsInForce' = grantsInForce
        BY <1>0, <4>4 DEF Blocked, Unblocked, ReachTypeOK
      <4> QED
        BY <1>0, <3>2, <4>1, <4>2, <4>3, <4>4 DEF GrantStep, ReachTypeOK, roomVars
    <3> QED
      BY <1>4, <3>1, <3>2
  <2>3. PresenceTypeOK'
    BY <1>0, <2>1, <2>2, TypeParts DEF PresenceTypeOK, TimersTypeOK, timerVars
  <2>4. NamedAreConnected' /\ NamedAreSettled'
    BY <2>1 DEF NamedAreConnected, NamedAreSettled, timerVars
  <2> QED
    BY <2>3, <2>4
<1>5. CASE UNCHANGED presenceVars
  BY <1>1, <1>5 DEF presenceVars, sessionVars, bindingVars, streamVars
<1> QED
  BY <1>2, <1>3, <1>4, <1>5

(* The initial state.                                                      *)
LEMMA PresenceInitInv == PresenceInit => PresenceInv
BY DEF PresenceInit, PresenceInv, PresenceTypeOK, NamedAreConnected, NamedAreSettled

(* No name of a connected token that gave it has a timer that counts.      *)
THEOREM PresenceInvariant == PresenceSpec => [](SessionsInv /\ PresenceInv)
<1>1. ASSUME SessionsInv, PresenceInv, [PresenceNext]_presenceVars
      PROVE  SessionsInv' /\ PresenceInv'
  <2>1. SessionsInv'
    BY <1>1, PresenceStepSimulates, SessionsNextKeepsInv
  <2>2. PresenceInv'
    BY <1>1, <2>1, ListenKeepsInv, CloseKeepsInv, UnsubscribeKeepsInv, DeleteIdentityKeepsInv,
       DeleteParticipantKeepsInv, CollectKeepsInv, AnnounceKeepsInv, RebindPresenceKeepsInv,
       OtherKeepsInv DEF PresenceNext
  <2> QED
    BY <2>1, <2>2
<1>2. PresenceInit => SessionsInv /\ PresenceInv
  BY PresenceInitInv, SessionsInitInv DEF PresenceInit
<1> QED
  BY <1>1, <1>2, PTL DEF PresenceSpec

(* Every state is well typed.                                              *)
THEOREM PresenceTyped == PresenceSpec => []PresenceTypeOK
BY PresenceInvariant, PTL DEF PresenceInv

(* Whoever listens under its name is not about to be reported gone,        *)
(* however its earlier streams ended.                                      *)
THEOREM NamedReturnCancelsHolds == PresenceSpec => []NamedReturnCancels
<1>1. PresenceInv => NamedReturnCancels
  BY DEF PresenceInv, NamedAreSettled, NamedReturnCancels, WillTell
<1> QED
  BY <1>1, PresenceInvariant, PTL

-----------------------------------------------------------------------------
(* Steps that leave a participant connected that keeps to its name, unless *)
(* they give it another one or its name to somebody else.                  *)
LEMMA StaysConnected ==
    ASSUME SessionsInv, SessionsInv', [PresenceNext]_presenceVars,
           NEW t \in Token, NEW n \in Name, Connected(t, n), KeepsTo(t, n),
           tokenToName'[t] \in {n, None}, nameToToken'[n] \in {t, None},
           ~CloseStream(t), ~Unsubscribe(t), ~DeleteIdentity(t),
           ~\E g \in Token : DeleteParticipant(g, n)
    PROVE  Connected(t, n)'
<1> USE SessionsAssumption DEF SessionsInv, SessionsTypeOK, Connected, Live, OneVoicePerName,
                                ReadsWhereItSpeaks
<1>1. ASSUME NEW u \in Token, NEW want \in Name \cup {None}, NEW force \in BOOLEAN,
             NEW push \in BOOLEAN, ListenPresent(u, want, force, push)
      PROVE  Connected(t, n)'
  <2>1. OpenListen(u, want, force)
    BY <1>1 DEF ListenPresent
  <2>2. RepairedNames(u) = nameToToken /\ RepairedTokens(u) = tokenToName
    BY <2>1, NoStoredNameLost DEF OpenListen, RepairedNames, RepairedTokens
  <2>3. nameToToken'[n] = t /\ tokenToName'[t] = n
    BY <2>1, <2>2 DEF OpenListen
  <2>4. status' = status /\ sseCount'[t] > 0
    BY <2>1 DEF OpenListen
  <2> QED
    BY <2>3, <2>4
<1>2. ASSUME NEW u \in Token, u # t, CloseStream(u)
      PROVE  Connected(t, n)'
  BY <1>2 DEF CloseStream, DropCurrentStream, DropStaleStream, CloseListen, tokenVars, bindingVars
<1>3. ASSUME NEW u \in Token, u # t, Unsubscribe(u)
      PROVE  Connected(t, n)'
  BY <1>3 DEF Unsubscribe, CancelListen
<1>4. ASSUME NEW u \in Token, u # t, DeleteIdentity(u)
      PROVE  Connected(t, n)'
  BY <1>4 DEF DeleteIdentity, DeleteSelf
<1>5. ASSUME NEW u \in Token, CollectToken(u)
      PROVE  Connected(t, n)'
  <2>1. u # t
    BY <1>5 DEF CollectToken, GcToken, GcExempt
  <2> QED
    BY <1>5, <2>1 DEF CollectToken, GcToken
<1>6. ASSUME NEW u \in Token, NEW m \in Name, Announce(u, m)
      PROVE  Connected(t, n)'
  BY <1>6 DEF Announce, ReAnnounce, AnnounceNew, BindName, tokenVars, bindingVars, streamVars
<1>7. ASSUME NEW g \in Token, NEW m \in Name, m # n, DeleteParticipant(g, m)
      PROVE  Connected(t, n)'
  <2>1. nameToToken[m] # t
    BY <1>7 DEF KeepsTo
  <2> QED
    BY <1>7, <2>1 DEF DeleteParticipant, RevokeByName
<1>8. ASSUME NEW g \in Token, NEW u \in Token, NEW m \in Name, Rebind(g, m, u)
      PROVE  Connected(t, n)'
  <2>1. m # n /\ u # t
    BY <1>8 DEF Rebind, RebindName
  <2>2. nameToToken[m] # t
    BY <2>1 DEF KeepsTo
  <2> QED
    BY <1>8, <2>1, <2>2 DEF Rebind, RebindName, streamVars
<1>9. CASE OtherSessionStep
  BY <1>9 DEF OtherSessionStep, AdmitRegistration, RegisterParticipant, MarkGranted,
              BecomeGovernor, IssueParticipantToken, AnnounceDangling, RegistryLapse,
              AdminResetGovernor, tokenVars, bindingVars, streamVars
<1>10. CASE UNCHANGED sessionVars
  BY <1>10 DEF sessionVars, tokenVars, bindingVars, streamVars
<1> QED
  BY <1>1, <1>2, <1>3, <1>4, <1>5, <1>6, <1>7, <1>8, <1>9, <1>10
     DEF PresenceNext, TimerDue, TimerEnds, RoomStep, GrantStep, presenceVars

(* Each handler that takes a participant's last stream or its name starts  *)
(* a timer for whoever is to be told, before it takes apart what they are  *)
(* found by.                                                               *)
THEOREM EveryAbsenceIsTimedHolds == PresenceSpec => EveryAbsenceIsTimed
<1>1. ASSUME SessionsInv, SessionsInv', PresenceInv, [PresenceNext]_presenceVars
      PROVE  AbsencesAreTimed
  <2> SUFFICES ASSUME NEW t \in Token, NEW n \in Name, Connected(t, n), KeepsTo(t, n),
                      ~Connected(t, n)', tokenToName'[t] \in {n, None},
                      nameToToken'[n] \in {t, None}
               PROVE  PresenceSenders(n, stream) \ {t} \subseteq WillTell(n)'
    BY DEF AbsencesAreTimed
  <2>0. SessionsTypeOK /\ PresenceTypeOK
    BY <1>1 DEF SessionsInv, PresenceInv
  <2>1. CASE CloseStream(t)
    <3>1. sseCount[t] <= 1
      BY <2>0, <2>1
         DEF CloseStream, DropCurrentStream, DropStaleStream, CloseListen, Connected, Live,
             tokenVars, bindingVars, SessionsTypeOK
    <3>2. BeginSettleOffline(n, stream')
      BY <2>1, <3>1, SessionsAssumption DEF CloseStream, BeginSettleIf, Connected, Live
    <3>3. PresenceSenders(n, stream') \subseteq WillTell(n)'
      BY <2>0, <3>2, SettleStarts
    <3>4. \A u \in Token \ {t} : stream'[u] = stream[u]
      BY <2>0, <2>1 DEF CloseStream, DropCurrentStream, DropStaleStream, SessionsTypeOK
    <3>5. PresenceSenders(n, stream) \ {t} \subseteq PresenceSenders(n, stream')
      <4>1. PresenceSenders(n, stream) \subseteq Token
        BY <2>0, SendersAreTokens DEF PresenceTypeOK
      <4> QED
        BY <3>4, <4>1 DEF PresenceSenders
    <3> QED
      BY <3>3, <3>5
  <2>2. CASE Unsubscribe(t) \/ DeleteIdentity(t) \/ \E g \in Token : DeleteParticipant(g, n)
    <3>1. BeginSettleOffline(n, stream)
      BY <2>2, SessionsAssumption
         DEF Unsubscribe, DeleteIdentity, DeleteParticipant, BeginSettleIf, Connected
    <3> QED
      BY <2>0, <3>1, SettleStarts
  <2> QED
    BY <1>1, <2>1, <2>2, StaysConnected
<1>2. ASSUME SessionsInv, SessionsInv', PresenceInv, [PresenceNext]_presenceVars
      PROVE  [AbsencesAreTimed]_presenceVars
  BY <1>1, <1>2
<1> QED
  BY <1>2, PresenceInvariant, PTL DEF PresenceSpec, EveryAbsenceIsTimed
=============================================================================
