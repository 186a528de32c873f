--------------------------- MODULE SessionsProofs ---------------------------
(***************************************************************************)
(* Proofs about module Sessions, for any sets of tokens and names and any  *)
(* bound on stale streams.                                                 *)
(*                                                                         *)
(* OneVoicePerName alone is not inductive: that announce and open_listen   *)
(* bind only names nobody speaks for follows from HeldNamesRegistered, and *)
(* that a freshly minted token speaks for nobody from FreshTokensUnbound   *)
(* and ForgottenTokensAreSilent.  All of it is carried in SessionsInv.     *)
(***************************************************************************)
EXTENDS Sessions, TLAPS

(* The empty hub satisfies the invariant.                                  *)
LEMMA SessionsInitInv == SessionsInit => SessionsInv
BY SessionsAssumption
   DEF SessionsInit, SessionsInv, SessionsTypeOK, OneVoicePerName, ReadsWhereItSpeaks, HeldNamesRegistered,
       NoPhantomGovernor, NoPhantomConnection, ForgottenTokensAreSilent, FreshTokensUnbound, Status, Live, Known, OpenStreams

(* Dropping a sender keeps the stream bookkeeping well typed.              *)
LEMMA DropSenderTyped ==
    ASSUME SessionsTypeOK, NEW t \in Token, DropSender(t)
    PROVE  stream' \in [Token -> BOOLEAN] /\ stale' \in [Token -> Nat]
BY DEF SessionsTypeOK, DropSender, OpenStreams

(* A rebind touches two tokens, the one that is forgotten and the one that *)
(* is minted: they differ because a held name is never held by an unminted *)
(* token.                                                                  *)
LEMMA RebindKeepsInv ==
    ASSUME SessionsInv, NEW g \in Token, NEW t \in Token, NEW n \in Name,
           RebindName(g, n, t)
    PROVE  SessionsInv'
<1> USE SessionsAssumption DEF SessionsInv
<1> DEFINE old == nameToToken[n]
<1>1. old # t
  BY DEF RebindName, FreshTokensUnbound
<1>2. SessionsTypeOK'
  <2>1. status' \in [Token -> Status]
    BY DEF RebindName, SessionsTypeOK, Status
  <2>2. /\ stName' \in [Token -> Name \cup {None}]
        /\ tokenToName' \in [Token -> Name \cup {None}]
        /\ nameToToken' \in [Name -> Token \cup {None}]
        /\ agents' \in [Name -> Token \cup {None}]
    BY DEF RebindName, SessionsTypeOK
  <2>3. /\ everListened' \in [Token -> BOOLEAN]
        /\ everGranted' \in [Token -> BOOLEAN]
        /\ stream' \in [Token -> BOOLEAN]
    BY DEF RebindName, DropSender, SessionsTypeOK, streamVars
  <2>4. /\ sseCount' \in [Token -> Nat]
        /\ stale' \in [Token -> Nat]
    BY DEF RebindName, DropSender, OpenStreams, SessionsTypeOK, streamVars
  <2> QED
    BY <2>1, <2>2, <2>3, <2>4 DEF RebindName, SessionsTypeOK
<1>3. OneVoicePerName' /\ ReadsWhereItSpeaks'
  BY <1>1 DEF RebindName, SessionsTypeOK, OneVoicePerName, ReadsWhereItSpeaks, Live
<1>4. HeldNamesRegistered' /\ NoPhantomGovernor'
  BY <1>1 DEF RebindName, SessionsTypeOK, HeldNamesRegistered, NoPhantomGovernor
<1>5. NoPhantomConnection'
  BY <1>1 DEF RebindName, DropSender, OpenStreams, SessionsTypeOK, NoPhantomConnection,
              streamVars
<1>6. ForgottenTokensAreSilent'
  BY <1>1 DEF RebindName, SessionsTypeOK, ForgottenTokensAreSilent, Known, streamVars
<1>7. FreshTokensUnbound'
  BY <1>1 DEF RebindName, SessionsTypeOK, FreshTokensUnbound
<1> QED
  BY <1>2, <1>3, <1>4, <1>5, <1>6, <1>7

(* Deleting a name silences whoever spoke for it.                          *)
LEMMA RevokeKeepsInv ==
    ASSUME SessionsInv, NEW g \in Token, NEW n \in Name, RevokeByName(g, n)
    PROVE  SessionsInv'
<1> USE SessionsAssumption DEF SessionsInv
<1>1. SessionsTypeOK'
  <2>1. status' \in [Token -> Status]
    BY DEF RevokeByName, ForgetIdentity, SessionsTypeOK, Status
  <2>2. /\ tokenToName' \in [Token -> Name \cup {None}]
        /\ nameToToken' \in [Name -> Token \cup {None}]
        /\ agents' \in [Name -> Token \cup {None}]
        /\ governor' \in Name \cup {None}
    BY DEF RevokeByName, ForgetIdentity, SessionsTypeOK
  <2>3. /\ stream' \in [Token -> BOOLEAN]
        /\ stale' \in [Token -> Nat]
    <3>1. CASE nameToToken[n] # None /\ Known(nameToToken[n])
      <4>1. nameToToken[n] \in Token /\ DropSender(nameToToken[n])
        BY <3>1 DEF RevokeByName, ForgetIdentity, SessionsTypeOK
      <4> QED
        BY <4>1, DropSenderTyped
    <3>2. CASE ~(nameToToken[n] # None /\ Known(nameToToken[n]))
      BY <3>2 DEF RevokeByName, ForgetIdentity, SessionsTypeOK
    <3> QED
      BY <3>1, <3>2
  <2> QED
    BY <2>1, <2>2, <2>3 DEF RevokeByName, ForgetIdentity, SessionsTypeOK
<1>2. OneVoicePerName' /\ ReadsWhereItSpeaks'
  BY DEF RevokeByName, ForgetIdentity, SessionsTypeOK, OneVoicePerName, ReadsWhereItSpeaks, Live, Known,
         ForgottenTokensAreSilent
<1>3. HeldNamesRegistered' /\ NoPhantomGovernor'
  BY DEF RevokeByName, ForgetIdentity, SessionsTypeOK, HeldNamesRegistered, NoPhantomGovernor
<1>4. NoPhantomConnection'
  BY DEF RevokeByName, ForgetIdentity, DropSender, OpenStreams, SessionsTypeOK, NoPhantomConnection
<1>5. ForgottenTokensAreSilent'
  BY DEF RevokeByName, ForgetIdentity, SessionsTypeOK, ForgottenTokensAreSilent, Known
<1>6. FreshTokensUnbound'
  BY DEF RevokeByName, ForgetIdentity, SessionsTypeOK, FreshTokensUnbound, Known
<1> QED
  BY <1>1, <1>2, <1>3, <1>4, <1>5, <1>6

(* Every step of the session handlers preserves the invariant.             *)
LEMMA SessionStepKeepsInv ==
    ASSUME SessionsInv, SessionStep
    PROVE  SessionsInv'
<1> USE SessionsAssumption
    DEF SessionsInv, SessionsTypeOK, OneVoicePerName, ReadsWhereItSpeaks, HeldNamesRegistered,
        NoPhantomGovernor, NoPhantomConnection, ForgottenTokensAreSilent, FreshTokensUnbound, Live, Known, OpenStreams
<1>1. ASSUME NEW t \in Token, AdmitRegistration(t)
      PROVE  SessionsInv'
  BY <1>1 DEF AdmitRegistration, Status, bindingVars, streamVars
<1>2. ASSUME NEW t \in Token, RegisterParticipant(t)
      PROVE  SessionsInv'
  BY <1>2 DEF RegisterParticipant, Status, bindingVars, streamVars
<1>3. ASSUME NEW t \in Token, NEW want \in Name \cup {None}, NEW force \in BOOLEAN,
             OpenListen(t, want, force)
      PROVE  SessionsInv'
  <2>1. /\ RepairedNames(t) \in [Name -> Token \cup {None}]
        /\ RepairedTokens(t) \in [Token -> Name \cup {None}]
        /\ RepairedAgents(t) \in [Name -> Token \cup {None}]
    BY DEF RepairedNames, RepairedTokens, RepairedAgents, StoredNameLost
  <2>2. SessionsTypeOK'
    <3> DEFINE Maps == /\ tokenToName' \in [Token -> Name \cup {None}]
                       /\ stName' \in [Token -> Name \cup {None}]
                       /\ nameToToken' \in [Name -> Token \cup {None}]
                       /\ agents' \in [Name -> Token \cup {None}]
                       /\ identities' \in SUBSET Name
    <3>1. ASSUME want # None, ListenMayBind(t, want) PROVE Maps
      <4>1. /\ nameToToken' = [RepairedNames(t) EXCEPT ![want] = t]
            /\ tokenToName' = [RepairedTokens(t) EXCEPT ![t] = want]
            /\ agents' = [RepairedAgents(t) EXCEPT ![want] = t]
            /\ stName' = [stName EXCEPT ![t] = want]
            /\ identities' = identities \cup {want}
        BY <1>3, <3>1 DEF OpenListen
      <4> QED
        BY <2>1, <3>1, <4>1
    <3>2. ASSUME ~(want # None /\ ListenMayBind(t, want)) PROVE Maps
      <4>1. /\ nameToToken' = RepairedNames(t)
            /\ tokenToName' = RepairedTokens(t)
            /\ agents' = RepairedAgents(t)
            /\ UNCHANGED <<identities, stName>>
        BY <1>3, <3>2 DEF OpenListen
      <4> QED
        BY <2>1, <4>1
    <3>3. OpenStreams(t) \in Nat
      BY DEF OpenStreams
    <3>4. Maps
      BY <3>1, <3>2
    <3>5. /\ stale' = [stale EXCEPT ![t] = OpenStreams(t)]
          /\ stream' = [stream EXCEPT ![t] = TRUE]
          /\ sseCount' = [sseCount EXCEPT ![t] = @ + 1]
          /\ everListened' = [everListened EXCEPT ![t] = TRUE]
          /\ UNCHANGED <<status, everGranted, registry, governor>>
      BY <1>3 DEF OpenListen
    <3> QED
      BY <3>3, <3>4, <3>5
  <2> USE DEF OpenListen, RepairedNames, RepairedTokens, RepairedAgents, StoredNameLost, ListenMayBind
  <2>3. CASE want # None /\ ListenMayBind(t, want)
    <3>1. OneVoicePerName' /\ ReadsWhereItSpeaks'
      BY <1>3, <2>3
    <3>2. HeldNamesRegistered' /\ NoPhantomGovernor'
      BY <1>3, <2>3
    <3> QED
      BY <1>3, <2>2, <2>3, <3>1, <3>2
  <2>4. CASE ~(want # None /\ ListenMayBind(t, want))
    <3>1. OneVoicePerName' /\ ReadsWhereItSpeaks'
      BY <1>3, <2>4
    <3>2. HeldNamesRegistered' /\ NoPhantomGovernor'
      BY <1>3, <2>4
    <3> QED
      BY <1>3, <2>2, <2>4, <3>1, <3>2
  <2> QED
    BY <2>3, <2>4
<1>4. ASSUME NEW t \in Token, DropCurrentStream(t)
      PROVE  SessionsInv'
  BY <1>4 DEF DropCurrentStream, CloseListen, tokenVars, bindingVars
<1>5. ASSUME NEW t \in Token, DropStaleStream(t)
      PROVE  SessionsInv'
  BY <1>5 DEF DropStaleStream, CloseListen, tokenVars, bindingVars
<1>6. ASSUME NEW t \in Token, CancelListen(t)
      PROVE  SessionsInv'
  BY <1>6 DEF CancelListen, DropSender
<1>7. ASSUME NEW t \in Token, DeleteSelf(t)
      PROVE  SessionsInv'
  BY <1>7 DEF DeleteSelf, ForgetIdentity, DropSender, Status
<1>8. ASSUME NEW t \in Token, GcToken(t)
      PROVE  SessionsInv'
  BY <1>8 DEF GcToken, DropSender, GcExempt, Status
<1>9. ASSUME NEW t \in Token, NEW n \in Name, ReAnnounce(t, n)
      PROVE  SessionsInv'
  BY <1>9 DEF ReAnnounce, tokenVars, bindingVars, streamVars
<1>10. ASSUME NEW t \in Token, NEW n \in Name, AnnounceNew(t, n)
      PROVE  SessionsInv'
  BY <1>10 DEF AnnounceNew, BindName, streamVars
<1>11. ASSUME NEW t \in Token, NEW n \in Name, AnnounceDangling(t, n)
      PROVE  SessionsInv'
  BY <1>11 DEF AnnounceDangling, tokenVars, streamVars
<1>12. ASSUME NEW t \in Token, NEW n \in Name, RevokeByName(t, n)
      PROVE  SessionsInv'
  BY <1>12, RevokeKeepsInv
<1>13. ASSUME NEW g \in Token, NEW t \in Token, IssueParticipantToken(g, t)
      PROVE  SessionsInv'
  BY <1>13 DEF IssueParticipantToken, Status, bindingVars, streamVars
<1>14. ASSUME NEW g \in Token, NEW t \in Token, NEW n \in Name, RebindName(g, n, t)
      PROVE  SessionsInv'
  BY <1>14, RebindKeepsInv
<1>15. ASSUME NEW n \in Name, RegistryLapse(n)
      PROVE  SessionsInv'
  BY <1>15 DEF RegistryLapse, tokenVars, bindingVars, streamVars
<1>16. ASSUME NEW t \in Token, MarkGranted(t)
      PROVE  SessionsInv'
  BY <1>16 DEF MarkGranted, bindingVars, streamVars
<1> HIDE DEF SessionsInv
<1> QED
  BY <1>1, <1>2, <1>3, <1>4, <1>5, <1>6, <1>7, <1>8, <1>9, <1>10, <1>11, <1>12, <1>13, <1>14, <1>15, <1>16
     DEF SessionStep

(* So does the appointment of a governor, because whoever speaks for a     *)
(* name is registered under it.                                            *)
LEMMA SessionsNextKeepsInv ==
    ASSUME SessionsInv, [SessionsNext]_sessionVars
    PROVE  SessionsInv'
<1> USE SessionsAssumption
    DEF SessionsInv, SessionsTypeOK, OneVoicePerName, ReadsWhereItSpeaks, HeldNamesRegistered,
        NoPhantomGovernor, NoPhantomConnection, ForgottenTokensAreSilent, FreshTokensUnbound, Live, Known, OpenStreams
<1>1. CASE SessionStep
  BY <1>1, SessionStepKeepsInv
<1>2. ASSUME NEW t \in Token, BecomeGovernor(t)
      PROVE  SessionsInv'
  BY <1>2 DEF BecomeGovernor, tokenVars, bindingVars, streamVars
<1>3. CASE AdminResetGovernor
  BY <1>3 DEF AdminResetGovernor, tokenVars, bindingVars, streamVars
<1>4. CASE UNCHANGED sessionVars
  BY <1>4 DEF sessionVars, tokenVars, bindingVars, streamVars
<1> HIDE DEF SessionsInv
<1> QED
  BY <1>1, <1>2, <1>3, <1>4 DEF SessionsNext

(* The inductive invariant holds in every reachable state of the hub.      *)
THEOREM SessionsInvariant == SessionsSpec => []SessionsInv
<1>1. SessionsInv /\ [SessionsNext]_sessionVars => SessionsInv'
  BY SessionsNextKeepsInv
<1> QED
  BY <1>1, SessionsInitInv, PTL DEF SessionsSpec

(* Type correctness of the session state.                                  *)
THEOREM SessionsTyped == SessionsSpec => []SessionsTypeOK
<1>1. SessionsInv => SessionsTypeOK
  BY DEF SessionsInv
<1> QED
  BY <1>1, SessionsInvariant, PTL

(* Two tokens never speak for one name, and the name a token speaks for is *)
(* held by it, routed to it and registered.                                *)
THEOREM OneVoicePerNameHolds == SessionsSpec => []OneVoicePerName
<1>1. SessionsInv => OneVoicePerName
  BY DEF SessionsInv
<1> QED
  BY <1>1, SessionsInvariant, PTL

(* A participant reads the mailbox of the name it sends as.                *)
THEOREM ReadsWhereItSpeaksHolds == SessionsSpec => []ReadsWhereItSpeaks
<1>1. SessionsInv => ReadsWhereItSpeaks
  BY DEF SessionsInv
<1> QED
  BY <1>1, SessionsInvariant, PTL

(* What is held is routed to its holder, and what is held, routed or shown *)
(* online is registered.                                                   *)
THEOREM HeldNamesRegisteredHolds == SessionsSpec => []HeldNamesRegistered
<1>1. SessionsInv => HeldNamesRegistered
  BY DEF SessionsInv
<1> QED
  BY <1>1, SessionsInvariant, PTL

(* The governor pointer always names a registered identity.                *)
THEOREM NoPhantomGovernorHolds == SessionsSpec => []NoPhantomGovernor
<1>1. SessionsInv => NoPhantomGovernor
  BY DEF SessionsInv
<1> QED
  BY <1>1, SessionsInvariant, PTL

(* The connection count of a token never exceeds its open streams.         *)
THEOREM NoPhantomConnectionHolds == SessionsSpec => []NoPhantomConnection
<1>1. SessionsInv => NoPhantomConnection
  BY DEF SessionsInv
<1> QED
  BY <1>1, SessionsInvariant, PTL

-----------------------------------------------------------------------------
(* Steps that leave every name where it is.                                *)
QuietStep ==
    \/ \E t \in Token : \/ AdmitRegistration(t)
                        \/ RegisterParticipant(t)
                        \/ DropCurrentStream(t)
                        \/ DropStaleStream(t)
                        \/ BecomeGovernor(t)
                        \/ MarkGranted(t)
    \/ \E g, t \in Token : IssueParticipantToken(g, t)
    \/ \E t \in Token, n \in Name : ReAnnounce(t, n)
    \/ \E n \in Name : RegistryLapse(n)
    \/ AdminResetGovernor

(* They change no binding and forget no token.                             *)
LEMMA QuietStepFrame ==
    ASSUME SessionsTypeOK, QuietStep
    PROVE  /\ nameToToken' = nameToToken
           /\ identities' = identities
           /\ \A t \in Token : status'[t] = "removed" => status[t] = "removed"
<1> USE DEF SessionsTypeOK
<1>1. ASSUME NEW t \in Token,
             \/ AdmitRegistration(t)
             \/ RegisterParticipant(t)
             \/ \E g \in Token : IssueParticipantToken(g, t)
      PROVE  /\ UNCHANGED <<nameToToken, identities>>
             /\ \A u \in Token : status'[u] = "removed" => status[u] = "removed"
  BY <1>1 DEF AdmitRegistration, RegisterParticipant, IssueParticipantToken, bindingVars
<1>2. ASSUME \/ \E t \in Token : \/ DropCurrentStream(t)
                                 \/ DropStaleStream(t)
                                 \/ BecomeGovernor(t)
                                 \/ MarkGranted(t)
             \/ \E t \in Token, n \in Name : ReAnnounce(t, n)
             \/ \E n \in Name : RegistryLapse(n)
             \/ AdminResetGovernor
      PROVE  UNCHANGED <<nameToToken, identities, status>>
  BY <1>2 DEF DropCurrentStream, DropStaleStream, CloseListen, BecomeGovernor, ReAnnounce,
              RegistryLapse, MarkGranted, AdminResetGovernor, bindingVars, tokenVars
<1> HIDE DEF SessionsTypeOK
<1> QED
  BY <1>1, <1>2 DEF QuietStep

(* The steps that do move names, and the quiet ones, are all there are.    *)
LEMMA StepKinds ==
    ASSUME SessionsNext
    PROVE  \/ QuietStep
           \/ \E t \in Token, want \in Name \cup {None}, force \in BOOLEAN :
                 OpenListen(t, want, force)
           \/ \E t \in Token : CancelListen(t) \/ DeleteSelf(t) \/ GcToken(t)
           \/ \E t \in Token, n \in Name :
                 AnnounceNew(t, n) \/ AnnounceDangling(t, n) \/ RevokeByName(t, n)
           \/ \E g, t \in Token, n \in Name : RebindName(g, n, t)
BY DEF SessionsNext, SessionStep, QuietStep

(* From an empty hub, open_listen never finds a stored name whose entry is *)
(* missing: its repair branch is not needed until a restart.               *)
LEMMA NoStoredNameLost ==
    ASSUME SessionsInv, NEW t \in Token, Live(t)
    PROVE  ~StoredNameLost(t)
BY SessionsAssumption
   DEF SessionsInv, SessionsTypeOK, OneVoicePerName, ReadsWhereItSpeaks, StoredNameLost

(* A registered name changes hands only by a governor's rebind: the guards *)
(* of announce and of open_listen are both sufficient.                     *)
THEOREM NoTakeoverHolds == SessionsSpec => NoTakeover
<1>1. ASSUME SessionsInv, SessionsNext
      PROVE  TakesOverByRebindOnly
  <2> SUFFICES ASSUME NEW n \in identities,
                      nameToToken'[n] # nameToToken[n], nameToToken'[n] # None
               PROVE  /\ \E g \in Token : ValidateGovernorToken(g)
                      /\ status[nameToToken'[n]] = "unminted"
                      /\ status'[nameToToken'[n]] = "live"
    BY DEF TakesOverByRebindOnly
  <2>1. SessionsTypeOK /\ n \in Name
    BY <1>1 DEF SessionsInv, SessionsTypeOK
  <2>2. ~QuietStep
    BY <2>1, QuietStepFrame
  <2>3. ASSUME NEW t \in Token, NEW want \in Name \cup {None}, NEW force \in BOOLEAN,
               OpenListen(t, want, force)
        PROVE  FALSE
    <3>1. ~StoredNameLost(t)
      BY <1>1, <2>3, NoStoredNameLost DEF OpenListen
    <3> QED
      BY <2>1, <2>3, <3>1 DEF OpenListen, RepairedNames, ListenMayBind, SessionsTypeOK
  <2>4. ASSUME NEW t \in Token, CancelListen(t) \/ DeleteSelf(t) \/ GcToken(t)
        PROVE  FALSE
    BY <2>1, <2>4 DEF CancelListen, DeleteSelf, ForgetIdentity, GcToken, SessionsTypeOK
  <2>5. ASSUME NEW t \in Token, NEW m \in Name,
               AnnounceNew(t, m) \/ AnnounceDangling(t, m) \/ RevokeByName(t, m)
        PROVE  FALSE
    BY <2>1, <2>5 DEF AnnounceNew, BindName, AnnounceDangling, RevokeByName, ForgetIdentity, SessionsTypeOK
  <2>6. ASSUME NEW g \in Token, NEW t \in Token, NEW m \in Name, RebindName(g, m, t)
        PROVE  /\ ValidateGovernorToken(g)
               /\ status[nameToToken'[n]] = "unminted"
               /\ status'[nameToToken'[n]] = "live"
    <3>1. nameToToken'[n] = t
      BY <2>1, <2>6 DEF RebindName, SessionsTypeOK
    <3>2. status[t] = "unminted" /\ status'[t] = "live"
      BY <1>1, <2>1, <2>6 DEF RebindName, SessionsTypeOK
    <3> QED
      BY <2>6, <3>1, <3>2 DEF RebindName
  <2> QED
    BY <1>1, <2>2, <2>3, <2>4, <2>5, <2>6, StepKinds
<1> QED
  BY <1>1, SessionsInvariant, PTL DEF SessionsSpec, NoTakeover

(* An identity is forgotten only by its own or the governor's deletion,    *)
(* and then no map of the hub mentions it any more.                        *)
THEOREM OnlyDeletionForgetsHolds == SessionsSpec => OnlyDeletionForgets
<1>1. ASSUME SessionsInv, SessionsNext
      PROVE  ForgetsByDeletionOnly
  <2> SUFFICES ASSUME NEW n \in identities, n \notin identities'
               PROVE  /\ \E t \in Token : /\ Live(t)
                                          /\ tokenToName[t] = n \/ ValidateGovernorToken(t)
                      /\ \A t \in Token : tokenToName'[t] # n
                      /\ nameToToken'[n] = None
                      /\ agents'[n] = None
                      /\ governor' # n
    BY DEF ForgetsByDeletionOnly
  <2>1. SessionsTypeOK /\ OneVoicePerName /\ n \in Name /\ n # None
    BY <1>1, SessionsAssumption DEF SessionsInv, SessionsTypeOK
  <2>2. ~QuietStep
    BY <2>1, QuietStepFrame
  <2>3. ASSUME NEW t \in Token, NEW want \in Name \cup {None}, NEW force \in BOOLEAN,
               OpenListen(t, want, force)
        PROVE  FALSE
    BY <2>3 DEF OpenListen
  <2>4. ASSUME NEW t \in Token, CancelListen(t) \/ GcToken(t)
        PROVE  FALSE
    BY <2>4 DEF CancelListen, GcToken
  <2>5. ASSUME NEW t \in Token, NEW m \in Name, AnnounceNew(t, m) \/ AnnounceDangling(t, m)
        PROVE  FALSE
    BY <2>5 DEF AnnounceNew, BindName, AnnounceDangling
  <2>6. ASSUME NEW g \in Token, NEW t \in Token, NEW m \in Name, RebindName(g, m, t)
        PROVE  FALSE
    BY <2>6 DEF RebindName
  <2>7. ASSUME NEW t \in Token, DeleteSelf(t)
        PROVE  /\ Live(t) /\ tokenToName[t] = n
               /\ \A u \in Token : tokenToName'[u] # n
               /\ nameToToken'[n] = None /\ agents'[n] = None /\ governor' # n
    <3>1. Live(t) /\ tokenToName[t] = n
      BY <2>1, <2>7 DEF DeleteSelf, ForgetIdentity
    <3>2. nameToToken'[n] = None /\ agents'[n] = None /\ governor' # n
      BY <2>1, <2>7, <3>1 DEF DeleteSelf, ForgetIdentity, SessionsTypeOK
    <3>3. \A u \in Token : tokenToName'[u] # n
      BY <2>1, <2>7, <3>1 DEF DeleteSelf, ForgetIdentity, SessionsTypeOK, OneVoicePerName
    <3> QED
      BY <3>1, <3>2, <3>3
  <2>8. ASSUME NEW g \in Token, NEW m \in Name, RevokeByName(g, m)
        PROVE  /\ Live(g) /\ ValidateGovernorToken(g)
               /\ \A u \in Token : tokenToName'[u] # n
               /\ nameToToken'[n] = None /\ agents'[n] = None /\ governor' # n
    <3>1. m = n
      BY <2>8 DEF RevokeByName, ForgetIdentity
    <3>2. nameToToken'[n] = None /\ agents'[n] = None
      BY <2>1, <2>8, <3>1 DEF RevokeByName, ForgetIdentity, SessionsTypeOK
    <3>3. governor' # n /\ \A u \in Token : tokenToName'[u] # n
      BY <2>1, <2>8, <3>1 DEF RevokeByName, ForgetIdentity
    <3> QED
      BY <2>8, <3>2, <3>3 DEF RevokeByName, ForgetIdentity, ValidateGovernorToken
  <2> QED
    BY <1>1, <2>2, <2>3, <2>4, <2>5, <2>6, <2>7, <2>8, StepKinds
<1> QED
  BY <1>1, SessionsInvariant, PTL DEF SessionsSpec, OnlyDeletionForgets

(* A token that speaks for somebody is forgotten only by a governor's      *)
(* rebind: garbage collection takes no bound token, and no name.           *)
THEOREM GcSparesBoundTokensHolds == SessionsSpec => GcSparesBoundTokens
<1>1. ASSUME SessionsInv, SessionsNext
      PROVE  CollectsUnboundOnly
  <2> SUFFICES ASSUME NEW t \in Token, status[t] # "removed", status'[t] = "removed"
               PROVE  \/ tokenToName[t] = None /\ bindingVars' = bindingVars
                      \/ \E g \in Token : ValidateGovernorToken(g)
    BY DEF CollectsUnboundOnly
  <2>1. SessionsTypeOK
    BY <1>1 DEF SessionsInv
  <2>2. ~QuietStep
    BY <2>1, QuietStepFrame
  <2>3. ASSUME NEW u \in Token, NEW want \in Name \cup {None}, NEW force \in BOOLEAN,
               OpenListen(u, want, force)
        PROVE  FALSE
    BY <2>3 DEF OpenListen
  <2>4. ASSUME NEW u \in Token, CancelListen(u) \/ DeleteSelf(u)
        PROVE  FALSE
    BY <2>1, <2>4 DEF CancelListen, DeleteSelf, ForgetIdentity, SessionsTypeOK
  <2>5. ASSUME NEW u \in Token, NEW m \in Name, AnnounceNew(u, m) \/ AnnounceDangling(u, m)
        PROVE  FALSE
    BY <2>5 DEF AnnounceNew, AnnounceDangling, tokenVars
  <2>6. ASSUME NEW g \in Token, NEW m \in Name, RevokeByName(g, m)
        PROVE  ValidateGovernorToken(g)
    BY <2>6 DEF RevokeByName, ForgetIdentity
  <2>7. ASSUME NEW g \in Token, NEW u \in Token, NEW m \in Name, RebindName(g, m, u)
        PROVE  ValidateGovernorToken(g)
    BY <2>7 DEF RebindName
  <2>8. ASSUME NEW u \in Token, GcToken(u)
        PROVE  tokenToName[t] = None /\ bindingVars' = bindingVars
    <3>1. u = t /\ Live(t)
      BY <2>1, <2>8 DEF GcToken, SessionsTypeOK, Live
    <3>2. tokenToName[t] = None /\ stName[t] = None
      BY <1>1, <2>8, <3>1
         DEF GcToken, GcExempt, SessionsInv, OneVoicePerName, ReadsWhereItSpeaks
    <3> QED
      BY <2>8, <3>1, <3>2 DEF GcToken, bindingVars
  <2> QED
    BY <1>1, <2>2, <2>3, <2>4, <2>5, <2>6, <2>7, <2>8, StepKinds
<1> QED
  BY <1>1, SessionsInvariant, PTL DEF SessionsSpec, GcSparesBoundTokens
-----------------------------------------------------------------------------
(* The directory that the grant handlers read.                             *)

LEMMA DirectoryInitial == SessionsInit => D!DirectoryInit
BY DEF SessionsInit, D!DirectoryInit, directoryStatus, directoryOwnName, Live

(* Steps the directory does not see.                                       *)
LEMMA InvisibleSteps ==
    ASSUME SessionsInv, NEW t \in Token,
           \/ AdmitRegistration(t) \/ DropCurrentStream(t) \/ DropStaleStream(t) \/ MarkGranted(t)
           \/ \E n \in Name : ReAnnounce(t, n)
    PROVE  UNCHANGED D!directoryVars
BY DEF AdmitRegistration, DropCurrentStream, DropStaleStream, CloseListen, MarkGranted, ReAnnounce,
       bindingVars, tokenVars, streamVars, D!directoryVars, directoryStatus, directoryOwnName, Live,
       SessionsInv, SessionsTypeOK

(* A token is handed out.                                                  *)
LEMMA MintSteps ==
    ASSUME SessionsInv, NEW t \in Token,
           RegisterParticipant(t) \/ \E g \in Token : IssueParticipantToken(g, t)
    PROVE  D!Mint(t)
<1>1. directoryOwnName' = directoryOwnName
  BY DEF RegisterParticipant, IssueParticipantToken, directoryOwnName, Live,
         SessionsInv, SessionsTypeOK, FreshTokensUnbound
<1> QED
  BY <1>1 DEF RegisterParticipant, IssueParticipantToken, bindingVars, streamVars, D!Mint,
              directoryStatus, SessionsInv, SessionsTypeOK

(* No token of a hub that began empty has a name to be given back.         *)
LEMMA NothingLost ==
    ASSUME SessionsInv, NEW t \in Token, Live(t)
    PROVE  D!LostName(t) = None
BY NoStoredNameLost DEF D!LostName, D!HasLostName, directoryOwnName, StoredNameLost

(* A name is bound.                                                        *)
LEMMA BindSteps ==
    ASSUME SessionsInv, NEW t \in Token
    PROVE  /\ \A n \in Name : AnnounceNew(t, n) => D!Bind(t, n)
           /\ \A want \in Name \cup {None}, force \in BOOLEAN :
                 OpenListen(t, want, force) =>
                     (want \in Name /\ D!Bind(t, want)) \/ UNCHANGED D!directoryVars
<1> USE SessionsAssumption DEF SessionsInv, SessionsTypeOK
<1>1. ASSUME NEW n \in Name, Live(t), n \notin identities, BindName(t, n),
             UNCHANGED <<status, governor>>
      PROVE  D!BindAfter(t, n, None)
  <2>1. /\ nameToToken' = [m \in Name |-> IF m \in {None, n} THEN t ELSE nameToToken[m]]
        /\ agents' = [m \in Name |-> IF m \in {None, n} /\ (m # None \/ agents[m] = None)
                                      THEN t ELSE agents[m]]
    <3>1. /\ nameToToken' = [m \in Name |-> IF m = n THEN t ELSE nameToToken[m]]
          /\ agents' = [m \in Name |-> IF m = n THEN t ELSE agents[m]]
      BY <1>1 DEF BindName
    <3>2. \A m \in Name : m # None /\ (m \in {None, n} <=> m = n)
      OBVIOUS
    <3> QED
      BY <3>1, <3>2
  <2>2. /\ D!Live(t)
        /\ directoryStatus' = directoryStatus
        /\ directoryOwnName' = [directoryOwnName EXCEPT ![t] = n]
    BY <1>1 DEF BindName, D!Live, Live, directoryStatus, directoryOwnName
  <2> QED
    BY <1>1, <2>1, <2>2 DEF BindName, D!BindAfter, D!BecomeHolder
<1>2. ASSUME NEW n \in Name, AnnounceNew(t, n)
      PROVE  D!Bind(t, n)
  <2>1. D!BindAfter(t, n, None)
    BY <1>1, <1>2 DEF AnnounceNew
  <2>2. nameToToken[n] # None => ~D!Known(nameToToken[n])
    BY <1>2 DEF AnnounceNew, Known, D!Known, directoryStatus
  <2> QED
    BY <2>1, <2>2 DEF D!Bind, D!BindAnnounced
<1>3. ASSUME NEW want \in Name \cup {None}, NEW force \in BOOLEAN, OpenListen(t, want, force)
      PROVE  (want \in Name /\ D!Bind(t, want)) \/ UNCHANGED D!directoryVars
  <2>1. Live(t) /\ ~StoredNameLost(t)
    BY <1>3, NoStoredNameLost DEF OpenListen
  <2>2. CASE want # None /\ ListenMayBind(t, want)
    <3>1. want \in Name /\ want \notin identities /\ nameToToken[want] = None
      BY <2>1, <2>2 DEF ListenMayBind, RepairedNames
    <3>2. BindName(t, want) /\ UNCHANGED <<status, governor>>
      BY <1>3, <2>1, <2>2 DEF OpenListen, BindName, RepairedNames, RepairedTokens, RepairedAgents
    <3>3. D!BindAfter(t, want, None)
      BY <1>1, <2>1, <3>1, <3>2
    <3> QED
      BY <2>1, <3>1, <3>3, NothingLost DEF D!Bind, D!BindListening
  <2>3. CASE ~(want # None /\ ListenMayBind(t, want))
    BY <1>3, <2>1, <2>3 DEF OpenListen, RepairedNames, RepairedTokens, RepairedAgents, Live,
                            D!directoryVars, directoryStatus, directoryOwnName
  <2> QED
    BY <2>2, <2>3
<1> QED
  BY <1>2, <1>3

(* A name is unbound, or nothing the directory knows of is.                *)
LEMMA UnbindStep ==
    ASSUME SessionsInv, NEW t \in Token, CancelListen(t)
    PROVE  D!Unbind(t) \/ UNCHANGED D!directoryVars
<1> USE DEF SessionsInv, SessionsTypeOK
<1>1. CASE tokenToName[t] = None
  <2>1. stName[t] = None
    BY <1>1 DEF CancelListen, ReadsWhereItSpeaks
  <2> QED
    BY <1>1, <2>1 DEF CancelListen, D!directoryVars, directoryStatus, directoryOwnName, Live
<1>2. CASE tokenToName[t] # None
  <2>1. directoryOwnName' = [directoryOwnName EXCEPT ![t] = None]
    BY DEF CancelListen, Live, directoryOwnName
  <2> QED
    BY <1>2, <2>1 DEF CancelListen, D!Unbind, D!Live, Live, directoryStatus
<1> QED
  BY <1>1, <1>2

(* A governor's rebind.                                                    *)
LEMMA RebindStep ==
    ASSUME SessionsInv, NEW g \in Token, NEW t \in Token, NEW n \in Name, RebindName(g, n, t)
    PROVE  D!Rebind(g, n, t)
<1> USE DEF SessionsInv, SessionsTypeOK
<1> DEFINE old == nameToToken[n]
<1>1. /\ D!IsGovernor(g) /\ n \in identities /\ directoryStatus[t] = "unminted"
      /\ nameToToken' = [nameToToken EXCEPT ![n] = t] /\ agents' = [agents EXCEPT ![n] = t]
      /\ UNCHANGED <<identities, governor>>
  BY DEF RebindName, ValidateGovernorToken, Live, D!IsGovernor, D!Live, directoryStatus
<1>2. /\ directoryStatus' = [u \in Token |-> IF u = t THEN "live"
                                ELSE IF u = old THEN "removed" ELSE directoryStatus[u]]
      /\ tokenToName' = [u \in Token |-> IF u = t THEN n ELSE IF u = old THEN None ELSE tokenToName[u]]
  <2>1. old # t
    BY DEF RebindName, FreshTokensUnbound
  <2>2. CASE old = None
    BY <2>2, SessionsAssumption DEF RebindName, directoryStatus
  <2>3. CASE old # None
    BY <2>1, <2>3 DEF RebindName, directoryStatus
  <2> QED
    BY <2>2, <2>3
<1>3. directoryOwnName' = [u \in Token |-> IF u = t THEN n ELSE IF u = old THEN None
                                           ELSE directoryOwnName[u]]
  <2>1. CASE old = None
    BY <2>1, SessionsAssumption DEF RebindName, directoryOwnName, Live
  <2>2. CASE old # None
    BY <2>2 DEF RebindName, directoryOwnName, Live, FreshTokensUnbound
  <2> QED
    BY <2>1, <2>2
<1> QED
  BY <1>1, <1>2, <1>3 DEF D!Rebind

(* Deletions.                                                              *)
LEMMA DeleteSteps ==
    ASSUME SessionsInv, NEW t \in Token
    PROVE  /\ DeleteSelf(t) => D!DeleteSelf(t)
           /\ \A n \in Name : RevokeByName(t, n) => D!RevokeByName(t, n)
<1> USE DEF SessionsInv, SessionsTypeOK
<1>1. ASSUME DeleteSelf(t) PROVE D!DeleteSelf(t)
  <2>1. CASE tokenToName[t] = None
    <3>1. UNCHANGED <<nameToToken, agents, identities, governor>>
      BY <1>1, <2>1 DEF DeleteSelf
    <3>2. /\ identities = identities \ {None}
          /\ \A m \in Name : m # None
      BY SessionsAssumption
    <3>3. /\ nameToToken = [m \in Name |-> IF m = None THEN None ELSE nameToToken[m]]
          /\ agents = [m \in Name |-> IF m = None THEN None ELSE agents[m]]
      BY <3>2
    <3>4. /\ D!Live(t)
          /\ directoryStatus' = [directoryStatus EXCEPT ![t] = "revoked"]
          /\ directoryOwnName' = [directoryOwnName EXCEPT ![t] = None]
          /\ tokenToName' = [tokenToName EXCEPT ![t] = None]
      BY <1>1 DEF DeleteSelf, Live, D!Live, directoryStatus, directoryOwnName
    <3> QED
      BY <2>1, <3>1, <3>2, <3>3, <3>4 DEF D!DeleteSelf
  <2>2. CASE tokenToName[t] # None
    <3>1. directoryOwnName' = [directoryOwnName EXCEPT ![t] = None]
      BY <1>1 DEF DeleteSelf, Live, directoryOwnName
    <3> QED
      BY <1>1, <2>2, <3>1
         DEF DeleteSelf, ForgetIdentity, Live, D!DeleteSelf, D!Live, directoryStatus
  <2> QED
    BY <2>1, <2>2
<1>2. ASSUME NEW n \in Name, RevokeByName(t, n) PROVE D!RevokeByName(t, n)
  <2> DEFINE h == nameToToken[n]
  <2>1. /\ D!IsGovernor(t)
        /\ tokenToName' = [u \in Token |-> IF tokenToName[u] = n THEN None ELSE tokenToName[u]]
        /\ nameToToken' = [nameToToken EXCEPT ![n] = None]
        /\ agents' = [agents EXCEPT ![n] = None]
        /\ identities' = identities \ {n}
        /\ governor' = IF governor = n THEN None ELSE governor
    BY <1>2 DEF RevokeByName, ForgetIdentity, ValidateGovernorToken, Live, D!IsGovernor, D!Live,
                directoryStatus
  <2>2. directoryStatus' = [u \in Token |-> IF u = h /\ D!Known(u) THEN "revoked"
                                             ELSE directoryStatus[u]]
    <3>1. CASE h # None /\ Known(h)
      BY <1>2, <3>1 DEF RevokeByName, Known, D!Known, directoryStatus
    <3>2. CASE ~(h # None /\ Known(h))
      BY <1>2, <3>2, SessionsAssumption DEF RevokeByName, Known, D!Known, directoryStatus
    <3> QED
      BY <3>1, <3>2
  <2>3. directoryOwnName' = [u \in Token |-> IF u = h /\ D!Known(u) THEN None
                                              ELSE directoryOwnName[u]]
    <3>1. CASE h # None /\ Known(h)
      BY <1>2, <3>1 DEF RevokeByName, Known, Live, D!Known, directoryStatus, directoryOwnName
    <3>2. CASE ~(h # None /\ Known(h))
      BY <1>2, <3>2, SessionsAssumption
         DEF RevokeByName, Known, Live, D!Known, directoryStatus, directoryOwnName
    <3> QED
      BY <3>1, <3>2
  <2> QED
    BY <2>1, <2>2, <2>3 DEF D!RevokeByName
<1> QED
  BY <1>1, <1>2

(* The rest: collection, a dangling entry, the governor flag.              *)
LEMMA OtherDirectorySteps ==
    ASSUME SessionsInv
    PROVE  /\ \A t \in Token : GcToken(t) => D!Collect(t)
           /\ \A t \in Token : BecomeGovernor(t) => D!Appoint(t)
           /\ \A t \in Token, n \in Name : AnnounceDangling(t, n) => D!Release(n)
           /\ AdminResetGovernor => D!ResetGovernor
<1> USE DEF SessionsInv, SessionsTypeOK
<1>1. ASSUME NEW t \in Token, GcToken(t) PROVE D!Collect(t)
  <2>1. stName[t] = None /\ tokenToName[t] = None
    BY <1>1 DEF GcToken, GcExempt, Live, ReadsWhereItSpeaks, OneVoicePerName
  <2>2. /\ directoryOwnName[t] = None
        /\ directoryOwnName' = [directoryOwnName EXCEPT ![t] = None]
        /\ directoryStatus' = [directoryStatus EXCEPT ![t] = "removed"]
        /\ D!Live(t)
    BY <1>1, <2>1 DEF GcToken, Live, D!Live, directoryStatus, directoryOwnName
  <2>3. UNCHANGED <<tokenToName, nameToToken, agents, identities, governor>>
    BY <1>1, <2>1 DEF GcToken
  <2>4. None \notin identities /\ \A m \in Name : m # None
    BY SessionsAssumption
  <2> QED
    BY <2>2, <2>3, <2>4 DEF D!Collect
<1>2. ASSUME NEW t \in Token, BecomeGovernor(t) PROVE D!Appoint(t)
  BY <1>2 DEF BecomeGovernor, bindingVars, tokenVars, Live, D!Appoint, directoryStatus,
              directoryOwnName
<1>3. ASSUME NEW t \in Token, NEW n \in Name, AnnounceDangling(t, n) PROVE D!Release(n)
  BY <1>3 DEF AnnounceDangling, tokenVars, Known, Live, D!Release, D!Known, directoryStatus,
              directoryOwnName
<1>4. ASSUME AdminResetGovernor PROVE D!ResetGovernor
  BY <1>4 DEF AdminResetGovernor, bindingVars, tokenVars, Live, D!ResetGovernor, directoryStatus,
              directoryOwnName
<1> QED
  BY <1>1, <1>2, <1>3, <1>4

(* Every step of the sessions is a step of the directory or invisible.     *)
LEMMA DirectoryStep ==
    ASSUME SessionsInv, [SessionsNext]_sessionVars
    PROVE  [D!DirectoryNext]_(D!directoryVars)
<1>1. CASE UNCHANGED sessionVars
  BY <1>1 DEF sessionVars, tokenVars, bindingVars, Live, D!directoryVars, directoryStatus,
              directoryOwnName
<1>2. CASE SessionsNext
  <2>1. ASSUME NEW t \in Token,
               \/ AdmitRegistration(t) \/ DropCurrentStream(t) \/ DropStaleStream(t) \/ MarkGranted(t)
               \/ \E n \in Name : ReAnnounce(t, n)
        PROVE  UNCHANGED D!directoryVars
    BY <2>1, InvisibleSteps
  <2>2. ASSUME NEW n \in Name, RegistryLapse(n)
        PROVE  UNCHANGED D!directoryVars
    BY <2>2 DEF RegistryLapse, bindingVars, tokenVars, Live, D!directoryVars, directoryStatus,
                directoryOwnName
  <2>3. ASSUME NEW t \in Token,
               RegisterParticipant(t) \/ \E g \in Token : IssueParticipantToken(g, t)
        PROVE  D!DirectoryNext
    BY <2>3, MintSteps DEF D!DirectoryNext, D!KeepingStep
  <2>4. ASSUME NEW t \in Token, NEW want \in Name \cup {None}, NEW force \in BOOLEAN,
               OpenListen(t, want, force)
        PROVE  D!DirectoryNext \/ UNCHANGED D!directoryVars
    BY <2>4, BindSteps DEF D!DirectoryNext, D!KeepingStep
  <2>5. ASSUME NEW t \in Token, NEW n \in Name,
               AnnounceNew(t, n) \/ AnnounceDangling(t, n) \/ RevokeByName(t, n)
        PROVE  D!DirectoryNext
    BY <2>5, BindSteps, OtherDirectorySteps, DeleteSteps DEF D!DirectoryNext, D!KeepingStep
  <2>6. ASSUME NEW t \in Token, CancelListen(t)
        PROVE  D!DirectoryNext \/ UNCHANGED D!directoryVars
    BY <2>6, UnbindStep DEF D!DirectoryNext, D!KeepingStep
  <2>7. ASSUME NEW t \in Token, DeleteSelf(t) \/ GcToken(t) \/ BecomeGovernor(t)
        PROVE  D!DirectoryNext
    BY <2>7, OtherDirectorySteps, DeleteSteps DEF D!DirectoryNext, D!KeepingStep
  <2>8. ASSUME NEW g \in Token, NEW t \in Token, NEW n \in Name, RebindName(g, n, t)
        PROVE  D!DirectoryNext
    BY <2>8, RebindStep DEF D!DirectoryNext, D!KeepingStep
  <2>9. ASSUME AdminResetGovernor
        PROVE  D!DirectoryNext
    BY <2>9, OtherDirectorySteps DEF D!DirectoryNext, D!KeepingStep
  <2> QED
    BY <1>2, <2>1, <2>2, <2>3, <2>4, <2>5, <2>6, <2>7, <2>8, <2>9 DEF SessionsNext, SessionStep
<1> QED
  BY <1>1, <1>2

(* Refinement: names move only as the directory allows.                    *)
THEOREM SessionsImplementDirectory == SessionsSpec => ImplementsDirectory
<1>1. SessionsInv /\ [SessionsNext]_sessionVars => [D!DirectoryNext]_(D!directoryVars)
  BY DirectoryStep
<1> QED
  BY <1>1, DirectoryInitial, SessionsInvariant, PTL
     DEF SessionsSpec, ImplementsDirectory, D!DirectorySpec
=============================================================================
