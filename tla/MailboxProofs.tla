--------------------------- MODULE MailboxProofs ---------------------------
(***************************************************************************)
(* Proofs about Mailbox, for any number of tokens, names and threads and   *)
(* any bounds.                                                             *)
(*                                                                         *)
(* The interlock cannot be stuck because the flag is only ever set         *)
(* together with a notify event (or marked, for a grant event, by muted),  *)
(* and whatever removes the event either                                   *)
(* ends the stream or starts another, which begins armed.  One step does   *)
(* not fit: a dequeue without a name clears nothing.  So the invariant     *)
(* also says that a client without a name is armed, and that a token is    *)
(* armed when it is handed out.                                            *)
(*                                                                         *)
(* A name with a kick pending has mail, since whatever empties a queue     *)
(* clears the kick or takes the name along (KickInv); only its reader or   *)
(* its deletion empties one.  That an idle client has nothing to read      *)
(* rests on the interlock, and on mail waiting for registered names only:  *)
(* it is proved where clients read every thread and nothing arrives late,  *)
(* without which it is false.                                              *)
(***************************************************************************)
EXTENDS Mailbox, SessionsProofs, WellFoundedInduction, SequenceTheorems, TLAPS

\* The typed part of the state the interlock depends on.
ChannelTypeOK ==
    /\ suppressed \in [Token -> BOOLEAN]
    /\ muted \in [Token -> BOOLEAN]
    /\ sending \in [Token -> Nat]
    /\ notices \in [Token -> Nat]
    /\ reading \in [Token -> BOOLEAN]

\* A client without a name, and any other, is armed.
UnnamedArmed ==
    \A t \in Token : Live(t) /\ stream[t] /\ stName[t] = None /\ HoldsOneName(t) => ~suppressed[t]

\* A token that has not been handed out yet is armed.
FreshTokensArmed ==
    \A t \in Token : status[t] \in {"unminted", "admitted"} => ~suppressed[t]

Armed == ChannelTypeOK /\ InterlockNeverStuck /\ UnnamedArmed /\ FreshTokensArmed

MailInv == SessionsInv /\ Armed

(* The initial state.                                                      *)
LEMMA MailboxInitInv == MailboxInit => MailInv
<1> SUFFICES ASSUME MailboxInit PROVE MailInv
  OBVIOUS
<1>1. SessionsInv
  BY SessionsInitInv DEF MailboxInit
<1>2. Armed
  BY DEF MailboxInit, Armed, ChannelTypeOK, InterlockNeverStuck, UnnamedArmed, FreshTokensArmed
<1> QED
  BY <1>1, <1>2 DEF MailInv

(* Whatever happens to mailboxes is a step of Sessions or leaves the       *)
(* sessions alone.                                                         *)
LEMMA MailboxStepSimulates ==
    ASSUME [MailboxNext]_vars
    PROVE  [SessionsNext]_sessionVars
<1>1. CASE MailStep
  <2>1. UNCHANGED sessionVars
    BY <1>1 DEF MailStep, Enqueue, EnqueueLate, EnqueueGrantEvent, NoGrantHint, SendNotice, ReceiveNotice,
                DequeueUnnamed, Dequeue, DrainQueue
  <2> QED
    BY <2>1
<1>2. ASSUME NEW t \in Token, NEW want \in Name \cup {None}, NEW force \in BOOLEAN,
             MailOpenListen(t, want, force)
      PROVE  SessionsNext
  BY <1>2 DEF MailOpenListen, SessionsNext, SessionStep
<1>3. ASSUME NEW t \in Token, MailStreamEnds(t) \/ MailDeleteSelf(t) \/ MailGcToken(t)
      PROVE  SessionsNext
  BY <1>3 DEF MailStreamEnds, MailDeleteSelf, MailGcToken, SessionsNext, SessionStep
<1>4. ASSUME NEW g \in Token, NEW n \in Name, MailRevokeByName(g, n)
      PROVE  SessionsNext
  BY <1>4 DEF MailRevokeByName, SessionsNext, SessionStep
<1>5. ASSUME NEW g \in Token, NEW t \in Token, NEW n \in Name, MailRebindName(g, n, t)
      PROVE  SessionsNext
  BY <1>5 DEF MailRebindName, SessionsNext, SessionStep
<1>6. CASE OtherSessionStep
  BY <1>6 DEF OtherSessionStep, SessionsNext, SessionStep
<1>7. CASE UNCHANGED vars
  BY <1>7 DEF vars
<1> QED
  BY <1>1, <1>2, <1>3, <1>4, <1>5, <1>6, <1>7 DEF MailboxNext

(* A message that arrives suppresses the holder of the name only together  *)
(* with an event for its stream.                                           *)
LEMMA TakeNotifyArmed ==
    ASSUME MailInv, NEW n \in Name, TakeNotify(n),
           UNCHANGED <<sessionVars, notices, reading, muted>>
    PROVE  Armed'
<1> USE DEF MailInv, Armed, SessionsInv, SessionsTypeOK, ChannelTypeOK, sessionVars, tokenVars,
            bindingVars, streamVars, Live, Known, HoldsOneName, WillRead
<1> DEFINE h == nameToToken[n]
<1>1. CASE Wakes(n)
  <2>0. h \in Token /\ Known(h)
    BY <1>1 DEF Wakes
  <2>1. ChannelTypeOK'
    <3>1. suppressed' = [suppressed EXCEPT ![h] = TRUE]
      BY <1>1 DEF TakeNotify
    <3>2. sending' = [sending EXCEPT ![h] = IF stream[h] THEN @ + 1 ELSE @]
      BY <1>1 DEF TakeNotify
    <3>3. /\ suppressed' \in [Token -> BOOLEAN]
          /\ muted' \in [Token -> BOOLEAN]
          /\ reading' \in [Token -> BOOLEAN]
      BY <3>1
    <3>4. sending' \in [Token -> Nat] /\ notices' \in [Token -> Nat]
      BY <2>0, <3>2
    <3> QED
      BY <3>3, <3>4
  <2>2. InterlockNeverStuck'
    BY <1>1, <2>0 DEF TakeNotify, InterlockNeverStuck
  <2>3. UnnamedArmed' /\ FreshTokensArmed'
    BY <1>1, <2>0, SessionsAssumption DEF TakeNotify, UnnamedArmed, FreshTokensArmed
  <2> QED
    BY <2>1, <2>2, <2>3
<1>2. CASE ~Wakes(n)
  BY <1>2 DEF TakeNotify, InterlockNeverStuck, UnnamedArmed, FreshTokensArmed
<1> QED
  BY <1>1, <1>2

(* A grant event suppresses the holder of the name, and marks it.          *)
LEMMA GrantEventArmed ==
    ASSUME MailInv, NEW n \in Name, EnqueueGrantEvent(n)
    PROVE  Armed'
<1> USE DEF MailInv, Armed, SessionsInv, SessionsTypeOK, ChannelTypeOK, sessionVars, tokenVars,
            bindingVars, streamVars, Live, Known, HoldsOneName, WillRead
<1> DEFINE h == nameToToken[n]
<1>1. CASE Wakes(n)
  <2>0. h \in Token /\ Known(h)
    BY <1>1 DEF Wakes
  <2>1. /\ suppressed' = [suppressed EXCEPT ![h] = TRUE]
        /\ muted' = [muted EXCEPT ![h] = TRUE]
        /\ UNCHANGED <<sessionVars, sending, notices, reading>>
    BY <1>1 DEF EnqueueGrantEvent
  <2>2. ChannelTypeOK'
    BY <2>1
  <2>3. InterlockNeverStuck'
    BY <2>0, <2>1 DEF InterlockNeverStuck
  <2>4. UnnamedArmed' /\ FreshTokensArmed'
    BY <2>0, <2>1, SessionsAssumption DEF UnnamedArmed, FreshTokensArmed
  <2> QED
    BY <2>2, <2>3, <2>4
<1>2. CASE ~Wakes(n)
  BY <1>2 DEF EnqueueGrantEvent, InterlockNeverStuck, UnnamedArmed, FreshTokensArmed
<1> QED
  BY <1>1, <1>2

(* Arrivals, notices and reads.                                            *)
LEMMA MailStepArmed ==
    ASSUME MailInv, MailStep
    PROVE  Armed'
<1>1. ASSUME NEW n \in Name, NEW m \in Message, Enqueue(n, m)
      PROVE  Armed'
  BY <1>1, TakeNotifyArmed DEF Enqueue
<1>2. ASSUME NEW n \in Name, EnqueueLate(n)
      PROVE  Armed'
  BY <1>2, TakeNotifyArmed DEF EnqueueLate
<1>3. ASSUME NEW t \in Token, NoGrantHint(t)
      PROVE  Armed'
  <2>1. tokenToName[t] \in Name
    BY <1>3 DEF NoGrantHint, MailInv, SessionsInv, SessionsTypeOK
  <2> QED
    BY <1>3, <2>1, TakeNotifyArmed DEF NoGrantHint
<1> USE DEF MailInv, Armed, SessionsInv, SessionsTypeOK, ChannelTypeOK, InterlockNeverStuck,
            UnnamedArmed, FreshTokensArmed, sessionVars, tokenVars, bindingVars, streamVars,
            Live, Known, HoldsOneName, WillRead
<1>4. ASSUME NEW t \in Token, SendNotice(t)
      PROVE  Armed'
  BY <1>4 DEF SendNotice
<1>5. ASSUME NEW t \in Token, ReceiveNotice(t)
      PROVE  Armed'
  BY <1>5 DEF ReceiveNotice
<1>6. ASSUME NEW t \in Token, DequeueUnnamed(t)
      PROVE  Armed'
  BY <1>6 DEF DequeueUnnamed
<1>7. ASSUME NEW t \in Token, NEW th \in Message, Dequeue(t, th)
      PROVE  Armed'
  <2> DEFINE more == Remaining(queue[stName[t]], th) > 0
  <2>1. /\ suppressed' = [suppressed EXCEPT ![t] = FALSE]
        /\ muted' = [muted EXCEPT ![t] = FALSE]
        /\ reading' = [reading EXCEPT ![t] = more]
        /\ UNCHANGED <<sessionVars, sending, notices>>
    BY <1>7 DEF Dequeue, Rearm
  <2>2. more \in BOOLEAN
    OBVIOUS
  <2> HIDE DEF more
  <2> QED
    BY <2>1, <2>2
<1>8. ASSUME NEW t \in Token, NEW th \in Message, DrainQueue(t, th)
      PROVE  Armed'
  BY <1>8 DEF DrainQueue, Rearm
<1>9. ASSUME NEW n \in Name, EnqueueGrantEvent(n)
      PROVE  Armed'
  BY <1>9, GrantEventArmed
<1> HIDE DEF MailInv, Armed
<1> QED
  BY <1>1, <1>2, <1>3, <1>4, <1>5, <1>6, <1>7, <1>8, <1>9 DEF MailStep

(* A channel that is lost goes with its stream.                            *)
LEMMA LoseChannelTyped ==
    ASSUME ChannelTypeOK, NEW t \in Token, LoseChannel(t)
    PROVE  /\ sending' \in [Token -> Nat] /\ notices' \in [Token -> Nat]
           /\ reading' \in [Token -> BOOLEAN]
           /\ \A u \in Token \ {t} : /\ sending'[u] = sending[u]
                                     /\ notices'[u] = notices[u]
                                     /\ reading'[u] = reading[u]
BY DEF ChannelTypeOK, LoseChannel

(* A new stream starts armed or notified.                                  *)
LEMMA OpenListenArmed ==
    ASSUME MailInv, NEW t \in Token, NEW want \in Name \cup {None}, NEW force \in BOOLEAN,
           MailOpenListen(t, want, force)
    PROVE  Armed'
<1>1. ~StoredNameLost(t)
  BY NoStoredNameLost DEF MailInv, MailOpenListen, OpenListen
<1>2. PICK waiting \in BOOLEAN :
        /\ waiting => stName'[t] # None
        /\ suppressed' = [suppressed EXCEPT ![t] = waiting]
        /\ muted' = [muted EXCEPT ![t] = FALSE]
        /\ sending' = [sending EXCEPT ![t] = 0]
        /\ notices' = [notices EXCEPT ![t] = IF waiting THEN 1 ELSE 0]
        /\ reading' = [reading EXCEPT ![t] = FALSE]
  BY DEF MailOpenListen, MailWaiting
<1>3. ChannelTypeOK'
  BY <1>2 DEF MailInv, Armed, ChannelTypeOK
<1>4. /\ UNCHANGED status
      /\ \A u \in Token \ {t} : stream'[u] = stream[u] /\ stName'[u] = stName[u]
      /\ \A n \in Name : nameToToken'[n] \in {t, nameToToken[n]}
      /\ \A n \in Name : nameToToken'[n] # nameToToken[n] => nameToToken[n] = None
  BY <1>1 DEF MailOpenListen, OpenListen, ListenMayBind, RepairedNames, MailInv, SessionsInv,
              SessionsTypeOK
<1>5. \A u \in Token \ {t} : HoldsOneName(u)' => HoldsOneName(u)
  BY <1>4, SessionsAssumption DEF HoldsOneName
<1>6. ASSUME NEW u \in Token \ {t}
      PROVE  /\ Live(u)' = Live(u) /\ stream'[u] = stream[u] /\ stName'[u] = stName[u]
             /\ suppressed'[u] = suppressed[u] /\ muted'[u] = muted[u]
             /\ WillRead(u)' = WillRead(u)
  BY <1>2, <1>4 DEF Live, WillRead, MailInv, Armed, ChannelTypeOK
<1>7. WillRead(t)' \/ ~suppressed'[t]
  BY <1>2 DEF WillRead, MailInv, Armed, ChannelTypeOK
<1>8. InterlockNeverStuck'
  BY <1>5, <1>6, <1>7 DEF InterlockNeverStuck, MailInv, Armed
<1>9. stName'[t] = None => ~suppressed'[t]
  BY <1>2 DEF MailInv, Armed, ChannelTypeOK
<1>10. UnnamedArmed'
  BY <1>5, <1>6, <1>9 DEF UnnamedArmed, MailInv, Armed
<1>11. Live(t)'
  BY <1>4 DEF MailOpenListen, OpenListen, Live
<1>12. FreshTokensArmed'
  BY <1>4, <1>6, <1>11 DEF FreshTokensArmed, MailInv, Armed, Live
<1> QED
  BY <1>3, <1>8, <1>10, <1>12 DEF Armed

(* What a step may do to a token so that the invariant carries over: leave *)
(* it as it is, arm it, or end its stream or its life.                     *)
Spared(u) ==
    /\ status'[u] = status[u] /\ stream'[u] = stream[u] /\ stName'[u] = stName[u]
    /\ sseCount'[u] > 0 => sseCount[u] > 0
    /\ suppressed'[u] = suppressed[u] /\ muted'[u] = muted[u]
    /\ sending'[u] = sending[u] /\ notices'[u] = notices[u] /\ reading'[u] = reading[u]
    /\ \A n \in Name : nameToToken[n] = u => nameToToken'[n] = u

Ended(u) == status'[u] \in {"live", "revoked", "removed"} /\ (status'[u] = "live" => ~stream'[u])

LEMMA ArmedFrame ==
    ASSUME MailInv, ChannelTypeOK',
           \A u \in Token : Spared(u) \/ Ended(u) \/ ~suppressed'[u]
    PROVE  Armed'
<1>1. ASSUME NEW u \in Token, Spared(u), HoldsOneName(u)'
      PROVE  HoldsOneName(u)
  BY <1>1 DEF Spared, HoldsOneName
<1>2. ASSUME NEW u \in Token, Spared(u)
      PROVE  (Live(u)' <=> Live(u)) /\ (WillRead(u)' <=> WillRead(u))
  BY <1>2 DEF Spared, Live, WillRead
<1>3. InterlockNeverStuck'
  <2> SUFFICES ASSUME NEW u \in Token, Live(u)', stream'[u], suppressed'[u], ~muted'[u],
                      HoldsOneName(u)'
               PROVE  WillRead(u)'
    BY DEF InterlockNeverStuck
  <2>1. Spared(u)
    BY DEF Ended, Live
  <2> QED
    BY <2>1, <1>1, <1>2 DEF Spared, InterlockNeverStuck, MailInv, Armed
<1>4. UnnamedArmed'
  <2> SUFFICES ASSUME NEW u \in Token, Live(u)', stream'[u], stName'[u] = None,
                      HoldsOneName(u)', suppressed'[u]
               PROVE  FALSE
    BY DEF UnnamedArmed
  <2>1. Spared(u)
    BY DEF Ended, Live
  <2> QED
    BY <2>1, <1>1, <1>2 DEF Spared, UnnamedArmed, MailInv, Armed
<1>5. FreshTokensArmed'
  BY DEF Spared, Ended, FreshTokensArmed, MailInv, Armed
<1> QED
  BY <1>3, <1>4, <1>5 DEF Armed

(* A disconnect and an unsubscription end the stream.                      *)
LEMMA StreamEndsSpares ==
    ASSUME MailInv, NEW t \in Token, MailStreamEnds(t)
    PROVE  \A u \in Token \ {t} : Spared(u)
<1> USE DEF MailInv, Armed, SessionsInv, SessionsTypeOK
<1>1. CASE DropCurrentStream(t)
  BY <1>1, LoseChannelTyped
     DEF Spared, DropCurrentStream, CloseListen, tokenVars, bindingVars, MailStreamEnds
<1>2. CASE CancelListen(t)
  <2>1. \A n \in Name : nameToToken'[n] # nameToToken[n] => nameToToken[n] = t
    BY <1>2 DEF CancelListen, OneVoicePerName
  <2> QED
    BY <1>2, <2>1, LoseChannelTyped DEF Spared, CancelListen, DropSender, MailStreamEnds
<1> QED
  BY <1>1, <1>2 DEF MailStreamEnds

LEMMA StreamEndsArmed ==
    ASSUME MailInv, NEW t \in Token, MailStreamEnds(t)
    PROVE  Armed'
<1> USE DEF MailInv, Armed, SessionsInv, SessionsTypeOK
<1>1. ChannelTypeOK'
  BY LoseChannelTyped DEF MailStreamEnds, ChannelTypeOK
<1>2. Ended(t) \/ ~suppressed'[t]
  <2>1. CASE DropCurrentStream(t)
    <3>1. Live(t) \/ Known(t) \/ ~suppressed[t] \/ status[t] = "removed"
      BY DEF Live, Known, Status, FreshTokensArmed
    <3> QED
      BY <2>1, <3>1 DEF Ended, DropCurrentStream, CloseListen, tokenVars, MailStreamEnds, Live, Known
  <2>2. CASE CancelListen(t)
    BY <2>2 DEF Ended, CancelListen, DropSender, Live
  <2> QED
    BY <2>1, <2>2 DEF MailStreamEnds
<1> QED
  BY <1>1, <1>2, StreamEndsSpares, ArmedFrame

(* Deletion by the participant itself.                                     *)
LEMMA DeleteSelfSpares ==
    ASSUME MailInv, NEW t \in Token, MailDeleteSelf(t)
    PROVE  Ended(t) /\ \A u \in Token \ {t} : Spared(u)
<1> USE DEF MailInv, Armed, SessionsInv, SessionsTypeOK
<1>1. Ended(t)
  BY DEF Ended, MailDeleteSelf, DeleteSelf, ForgetIdentity
<1>2. \A n \in Name : nameToToken'[n] # nameToToken[n] => nameToToken[n] = t
  BY DEF MailDeleteSelf, DeleteSelf, ForgetIdentity, OneVoicePerName
<1>3. \A u \in Token \ {t} : Spared(u)
  BY <1>2, LoseChannelTyped DEF Spared, MailDeleteSelf, DeleteSelf, ForgetIdentity, DropSender
<1> QED
  BY <1>1, <1>3

LEMMA DeleteSelfArmed ==
    ASSUME MailInv, NEW t \in Token, MailDeleteSelf(t)
    PROVE  Armed'
<1>1. ChannelTypeOK'
  BY LoseChannelTyped DEF MailDeleteSelf, ChannelTypeOK, MailInv, Armed
<1> QED
  BY <1>1, DeleteSelfSpares, ArmedFrame

(* Garbage collection.                                                     *)
LEMMA GcTokenSpares ==
    ASSUME MailInv, NEW t \in Token, MailGcToken(t)
    PROVE  Ended(t) /\ \A u \in Token \ {t} : Spared(u)
<1> USE DEF MailInv, Armed, SessionsInv, SessionsTypeOK
<1>1. Ended(t)
  BY DEF Ended, MailGcToken, GcToken
<1>2. \A n \in Name : nameToToken'[n] # nameToToken[n] => nameToToken[n] = t
  BY DEF MailGcToken, GcToken, OneVoicePerName, ReadsWhereItSpeaks
<1>3. \A u \in Token \ {t} : Spared(u)
  BY <1>2, LoseChannelTyped DEF Spared, MailGcToken, Rearm, GcToken, DropSender, ChannelTypeOK
<1> QED
  BY <1>1, <1>3

LEMMA GcTokenArmed ==
    ASSUME MailInv, NEW t \in Token, MailGcToken(t)
    PROVE  Armed'
<1>1. ChannelTypeOK'
  BY LoseChannelTyped DEF MailGcToken, Rearm, ChannelTypeOK, MailInv, Armed
<1> QED
  BY <1>1, GcTokenSpares, ArmedFrame

(* Deletion by the governor.                                               *)
LEMMA RevokeSpares ==
    ASSUME MailInv, NEW g \in Token, NEW n \in Name, MailRevokeByName(g, n)
    PROVE  /\ \A u \in Token : u # nameToToken[n] => Spared(u)
           /\ \A u \in Token : u = nameToToken[n] => status'[u] # "live"
           /\ \A u \in Token : u = nameToToken[n] => Ended(u) \/ ~ suppressed'[u]
           /\ ChannelTypeOK'
<1> USE DEF MailInv, Armed, SessionsInv, SessionsTypeOK
<1> DEFINE h == nameToToken[n]
<1>1. \A m \in Name : nameToToken'[m] # nameToToken[m] => nameToToken[m] = h
  BY DEF MailRevokeByName, RevokeByName, ForgetIdentity
<1>2. CASE h # None /\ Known(h)
  <2>1. h \in Token
    BY <1>2
  <2>2. LoseChannel(h) /\ UNCHANGED <<suppressed, muted>>
    BY <1>2 DEF MailRevokeByName
  <2>3. ChannelTypeOK'
    BY <2>1, <2>2, LoseChannelTyped DEF ChannelTypeOK
  <2>4. Ended(h) /\ status'[h] # "live"
    BY <1>2, <2>1 DEF Ended, Live, MailRevokeByName, RevokeByName, ForgetIdentity
  <2>5. \A u \in Token \ {h} : Spared(u)
    BY <1>1, <1>2, <2>1, <2>2, LoseChannelTyped DEF Spared, MailRevokeByName, RevokeByName, ForgetIdentity, DropSender
  <2> QED
    BY <2>3, <2>4, <2>5
<1>3. CASE ~(h # None /\ Known(h))
  <2>1. ChannelTypeOK'
    BY <1>3 DEF MailRevokeByName, ChannelTypeOK
  <2>2. ASSUME NEW u \in Token, u = h
        PROVE  status'[u] # "live" /\ (Ended(u) \/ ~ suppressed'[u])
    <3>1. status'[u] = status[u] /\ suppressed'[u] = suppressed[u]
      BY <1>3 DEF MailRevokeByName, RevokeByName, ForgetIdentity
    <3>2. u # None
      BY SessionsAssumption
    <3>3. status[u] \in {"unminted", "admitted", "removed"}
      BY <1>3, <2>2, <3>2 DEF Known, Status
    <3> QED
      BY <3>1, <3>3 DEF Ended, Live, FreshTokensArmed
  <2>3. ASSUME NEW u \in Token, u # h
        PROVE  Spared(u)
    BY <1>1, <1>3, <2>3 DEF Spared, MailRevokeByName, RevokeByName, ForgetIdentity
  <2> QED
    BY <2>1, <2>2, <2>3
<1> QED
  BY <1>2, <1>3

LEMMA RevokeArmed ==
    ASSUME MailInv, NEW g \in Token, NEW n \in Name, MailRevokeByName(g, n)
    PROVE  Armed'
BY RevokeSpares, ArmedFrame

(* A rebind: the old holder is gone, the new token is fresh.               *)
LEMMA RebindSpares ==
    ASSUME MailInv, NEW g \in Token, NEW t \in Token, NEW n \in Name, MailRebindName(g, n, t)
    PROVE  /\ ChannelTypeOK'
           /\ \A u \in Token \ {t, nameToToken[n]} : Spared(u)
           /\ \A u \in {t, nameToToken[n]} \ {None} : ~ suppressed'[u] /\ sseCount'[u] = 0
<1> USE DEF MailInv, Armed, SessionsInv, SessionsTypeOK
<1> DEFINE old == nameToToken[n]
<1>1. old # t /\ ~suppressed[t]
  BY DEF MailRebindName, RebindName, FreshTokensUnbound, FreshTokensArmed
<1>2. \A m \in Name : nameToToken'[m] # nameToToken[m] => nameToToken[m] = old
  BY DEF MailRebindName, RebindName
<1>3. CASE old = None
  <2>1. ChannelTypeOK'
    BY <1>3 DEF MailRebindName, ChannelTypeOK
  <2>2. ~suppressed'[t]
    BY <1>1, <1>3 DEF MailRebindName
  <2>3. \A u \in Token \ {t} : Spared(u)
    BY <1>2, <1>3, SessionsAssumption DEF Spared, MailRebindName, RebindName, streamVars
  <2>4. sseCount'[t] = 0
    BY <1>3 DEF MailRebindName, RebindName, streamVars, ForgottenTokensAreSilent, Known
  <2> QED
    BY <1>3, <2>1, <2>2, <2>3, <2>4
<1>4. CASE old # None
  <2>1. old \in Token
    BY <1>4
  <2>2. /\ LoseChannel(old)
        /\ suppressed' = [suppressed EXCEPT ![old] = FALSE]
        /\ muted' = [muted EXCEPT ![old] = FALSE]
    BY <1>4 DEF MailRebindName, Rearm
  <2>3. ChannelTypeOK'
    BY <2>1, <2>2, LoseChannelTyped DEF ChannelTypeOK
  <2>4. ~suppressed'[t] /\ ~suppressed'[old]
    BY <1>1, <2>1, <2>2 DEF ChannelTypeOK
  <2>5. \A u \in Token \ {t, old} : Spared(u)
    <3> SUFFICES ASSUME NEW u \in Token, u # t, u # old
                 PROVE  Spared(u)
      OBVIOUS
    <3>1. status'[u] = status[u] /\ stName'[u] = stName[u]
      BY <1>4, <2>1 DEF MailRebindName, RebindName
    <3>2. stream'[u] = stream[u]
      BY <1>4, <2>1 DEF MailRebindName, RebindName, DropSender
    <3>3. suppressed'[u] = suppressed[u] /\ muted'[u] = muted[u]
      BY <2>2 DEF ChannelTypeOK
    <3>4. sending'[u] = sending[u] /\ notices'[u] = notices[u] /\ reading'[u] = reading[u]
      BY <2>1, <2>2, LoseChannelTyped
    <3>5. \A m \in Name : nameToToken[m] = u => nameToToken'[m] = u
      BY <1>2
    <3>6. sseCount'[u] = sseCount[u]
      BY <1>4, <2>1 DEF MailRebindName, RebindName
    <3> QED
      BY <3>1, <3>2, <3>3, <3>4, <3>5, <3>6 DEF Spared
  <2>6. sseCount'[t] = 0 /\ sseCount'[old] = 0
    BY <1>1, <1>4, <2>1
       DEF MailRebindName, RebindName, ForgottenTokensAreSilent, Known
  <2> QED
    BY <2>3, <2>4, <2>5, <2>6
<1> QED
  BY <1>3, <1>4

LEMMA RebindArmed ==
    ASSUME MailInv, NEW g \in Token, NEW t \in Token, NEW n \in Name, MailRebindName(g, n, t)
    PROVE  Armed'
BY RebindSpares, SessionsAssumption, ArmedFrame

(* The session steps that leave mailboxes alone.                           *)
\* A token that is not live or counts no stream, and that is armed or ended.
Away(u) ==
    /\ Ended(u) \/ ~suppressed'[u]
    /\ status'[u] # "live" \/ sseCount'[u] = 0

LEMMA OtherStepSpares ==
    ASSUME MailInv, OtherSessionStep, UNCHANGED mailVars,
           ~ \E t \in Token, n \in Name : AnnounceNew(t, n)
    PROVE  \A u \in Token : Spared(u) \/ Away(u)
<1> USE DEF MailInv, Armed, SessionsInv, SessionsTypeOK
<1>2. ASSUME NEW t \in Token, NEW u \in Token,
             AdmitRegistration(t) \/ RegisterParticipant(t) \/ (\E g \in Token : IssueParticipantToken(g, t))
      PROVE  Spared(u) \/ Away(u)
  <2>1. CASE u = t
    BY <1>2, <2>1 DEF Away, mailVars, AdmitRegistration, RegisterParticipant, IssueParticipantToken,
                      FreshTokensArmed, ForgottenTokensAreSilent, Known, bindingVars, streamVars
  <2>2. CASE u # t
    BY <1>2, <2>2 DEF Spared, mailVars, AdmitRegistration, RegisterParticipant, IssueParticipantToken,
                      bindingVars, streamVars
  <2> QED
    BY <2>1, <2>2
<1>3. ASSUME NEW t \in Token, NEW u \in Token,
             DropStaleStream(t) \/ BecomeGovernor(t) \/ MarkGranted(t)
      PROVE  Spared(u)
  BY <1>3 DEF Spared, mailVars, DropStaleStream, CloseListen, BecomeGovernor, MarkGranted, tokenVars,
              bindingVars, streamVars
<1>4. ASSUME NEW t \in Token, NEW n \in Name, NEW u \in Token, ReAnnounce(t, n)
      PROVE  Spared(u)
  BY <1>4 DEF Spared, mailVars, ReAnnounce, tokenVars, bindingVars, streamVars
<1>5. ASSUME NEW n \in Name, NEW u \in Token, RegistryLapse(n)
      PROVE  Spared(u)
  BY <1>5 DEF Spared, mailVars, RegistryLapse, tokenVars, bindingVars, streamVars
<1>6. ASSUME NEW u \in Token, AdminResetGovernor
      PROVE  Spared(u)
  BY <1>6 DEF Spared, mailVars, AdminResetGovernor, tokenVars, bindingVars, streamVars
<1>7. ASSUME NEW t \in Token, NEW n \in Name, NEW u \in Token, AnnounceDangling(t, n)
      PROVE  Spared(u) \/ Away(u)
  <2>1. CASE u = nameToToken[n]
    BY <1>7, <2>1 DEF Away, Ended, mailVars, AnnounceDangling, tokenVars, Known, Status, FreshTokensArmed
  <2>2. CASE u # nameToToken[n]
    BY <1>7, <2>2 DEF Spared, mailVars, AnnounceDangling, tokenVars, streamVars
  <2> QED
    BY <2>1, <2>2
<1> HIDE DEF MailInv
<1> QED
  BY <1>2, <1>3, <1>4, <1>5, <1>6, <1>7 DEF OtherSessionStep

(* A name is announced: its new holder keeps to one name only if it had    *)
(* none before.                                                            *)
LEMMA AnnounceNewSpares ==
    ASSUME MailInv, NEW t \in Token, NEW n \in Name, AnnounceNew(t, n), UNCHANGED mailVars
    PROVE  \A u \in Token \ {t} : Spared(u) \/ Away(u)
<1> USE DEF MailInv, Armed, SessionsInv, SessionsTypeOK
<1> SUFFICES ASSUME NEW u \in Token \ {t}
             PROVE  Spared(u) \/ Away(u)
  OBVIOUS
<1>1. nameToToken[n] # None => ~Known(nameToToken[n])
  BY DEF AnnounceNew
<1>2. CASE u = nameToToken[n]
  BY <1>1, <1>2, SessionsAssumption
     DEF Away, Ended, mailVars, AnnounceNew, Known, Status, FreshTokensArmed
<1>3. CASE u # nameToToken[n]
  BY <1>3 DEF Spared, mailVars, AnnounceNew, BindName, streamVars
<1> QED
  BY <1>2, <1>3

LEMMA AnnounceNewArmed ==
    ASSUME MailInv, NEW t \in Token, NEW n \in Name, AnnounceNew(t, n), UNCHANGED mailVars
    PROVE  Armed'
<1> USE DEF MailInv, Armed, SessionsInv, SessionsTypeOK
<1>0. ChannelTypeOK'
  BY DEF ChannelTypeOK, mailVars
<1>2. ASSUME NEW u \in Token \ {t}
      PROVE  Spared(u) \/ Ended(u) \/ ~suppressed'[u]
  BY AnnounceNewSpares DEF Away
<1>3. /\ status'[t] = status[t] /\ Live(t) /\ stream'[t] = stream[t] /\ stName'[t] = n
      /\ suppressed'[t] = suppressed[t] /\ muted'[t] = muted[t] /\ (WillRead(t)' <=> WillRead(t))
      /\ nameToToken' = [nameToToken EXCEPT ![n] = t]
  BY DEF mailVars, AnnounceNew, BindName, streamVars, WillRead
<1>4. HoldsOneName(t)' => HoldsOneName(t)
  BY <1>3 DEF HoldsOneName, AnnounceNew
<1>5. ASSUME NEW u \in Token \ {t}, Live(u)', stream'[u], suppressed'[u]
      PROVE  Spared(u)
  BY <1>2, <1>5 DEF Ended, Live
<1>6. ASSUME NEW u \in Token \ {t}, Spared(u)
      PROVE  /\ Live(u)' <=> Live(u)
             /\ WillRead(u)' <=> WillRead(u)
             /\ HoldsOneName(u)' => HoldsOneName(u)
  BY <1>6 DEF Spared, Live, WillRead, HoldsOneName
<1>7. InterlockNeverStuck'
  <2> SUFFICES ASSUME NEW u \in Token, Live(u)', stream'[u], suppressed'[u], ~muted'[u],
                    HoldsOneName(u)'
               PROVE  WillRead(u)'
    BY DEF InterlockNeverStuck
  <2>1. CASE u = t
    BY <1>3, <1>4, <2>1 DEF InterlockNeverStuck
  <2>2. CASE u # t
    BY <1>5, <1>6, <2>2 DEF InterlockNeverStuck, Spared
  <2> QED
    BY <2>1, <2>2
<1>8. UnnamedArmed'
  <2> SUFFICES ASSUME NEW u \in Token, Live(u)', stream'[u], stName'[u] = None,
                      HoldsOneName(u)', suppressed'[u]
               PROVE  FALSE
    BY DEF UnnamedArmed
  <2>1. u # t
    BY <1>3, SessionsAssumption
  <2> QED
    BY <1>5, <1>6, <2>1 DEF UnnamedArmed, Spared
<1>9. FreshTokensArmed'
  BY <1>3 DEF AnnounceNew, mailVars, FreshTokensArmed
<1> QED
  BY <1>0, <1>7, <1>8, <1>9

LEMMA OtherStepArmed ==
    ASSUME MailInv, OtherSessionStep, UNCHANGED mailVars
    PROVE  Armed'
<1>1. ChannelTypeOK'
  BY DEF ChannelTypeOK, mailVars, MailInv, Armed
<1>2. CASE \E t \in Token, n \in Name : AnnounceNew(t, n)
  BY <1>2, AnnounceNewArmed
<1>3. CASE ~ \E t \in Token, n \in Name : AnnounceNew(t, n)
  BY <1>1, <1>3, OtherStepSpares, ArmedFrame DEF Away
<1> QED
  BY <1>2, <1>3

(* The invariant is inductive.                                             *)
LEMMA MailboxNextKeepsInv ==
    ASSUME MailInv, [MailboxNext]_vars
    PROVE  MailInv'
<1>1. SessionsInv'
  BY MailboxStepSimulates, SessionsNextKeepsInv DEF MailInv
<1>2. CASE UNCHANGED vars
  BY <1>1, <1>2 DEF vars, sessionVars, tokenVars, bindingVars, streamVars, mailVars, MailInv, Armed,
                    ChannelTypeOK, InterlockNeverStuck, UnnamedArmed, FreshTokensArmed, Live,
                    HoldsOneName, WillRead
<1>3. CASE MailboxNext
  <2>1. Armed'
    BY <1>3, MailStepArmed, OpenListenArmed, StreamEndsArmed, DeleteSelfArmed, GcTokenArmed,
       RevokeArmed, RebindArmed, OtherStepArmed DEF MailboxNext
  <2> QED
    BY <1>1, <2>1 DEF MailInv
<1> QED
  BY <1>2, <1>3

(* The invariant holds in every reachable state.                           *)
THEOREM MailInvariant == MailboxSpec => []MailInv
<1>1. MailInv /\ [MailboxNext]_vars => MailInv'
  BY MailboxNextKeepsInv
<1> QED
  BY <1>1, MailboxInitInv, PTL DEF MailboxSpec

(* The notify interlock of a client that keeps to one name never sticks.   *)
THEOREM InterlockNeverStuckHolds == MailboxSpec => []InterlockNeverStuck
<1>1. MailInv => InterlockNeverStuck
  BY DEF MailInv, Armed
<1> QED
  BY <1>1, MailInvariant, PTL

(* Refinement: the hub with mailboxes implements the session specification. *)
THEOREM MailboxImplementsSessions == MailboxSpec => SessionsSpec
<1>1. MailboxInit => SessionsInit
  BY DEF MailboxInit
<1>2. [MailboxNext]_vars => [SessionsNext]_sessionVars
  BY MailboxStepSimulates
<1> QED
  BY <1>1, <1>2, PTL DEF MailboxSpec, SessionsSpec
-----------------------------------------------------------------------------
(* What a dequeue takes and leaves.                                        *)

(* A position found in a sequence is the least one that fits: the natural  *)
(* numbers are well-founded.                                               *)
LEMMA LessThanIsWellFounded ==
    \E R : IsWellFoundedOn(R, Nat) /\ \A x, y \in Nat : <<x, y>> \in R <=> x < y
<1> DEFINE R == {ss \in Nat \X Nat : ss[1] < ss[2]}
<1>1. IsWellFoundedOn(R, Nat)
  BY NatLessThanWellFounded, Zenon DEF OpToRel
<1>2. \A x, y \in Nat : <<x, y>> \in R <=> x < y
  OBVIOUS
<1> HIDE DEF R
<1> QED
  BY <1>1, <1>2

LEMMA LeastIndex ==
    ASSUME NEW S \in SUBSET Nat, S # {}
    PROVE  Min(S) \in S
<1>1. PICK R : IsWellFoundedOn(R, Nat) /\ \A x, y \in Nat : <<x, y>> \in R <=> x < y
  BY LessThanIsWellFounded
<1>2. S \subseteq Nat /\ IsWellFoundedOn(R, Nat)
  BY <1>1
<1>3. \E x \in S : \A y \in S : ~ (<<y, x>> \in R)
  BY <1>2, WFMin, Zenon
<1>4. PICK least \in S : \A y \in S : ~ (<<y, least>> \in R)
  BY <1>3
<1>5. ASSUME NEW y \in S PROVE least =< y
  <2>1. least \in Nat /\ y \in Nat
    OBVIOUS
  <2>2. <<y, least>> \in R <=> y < least
    BY <1>1, <2>1
  <2>3. ~ (y < least)
    BY <1>4, <2>2
  <2> QED
    BY <2>1, <2>3
<1>6. \E x \in S : \A y \in S : x =< y
  BY <1>4, <1>5
<1> QED
  BY <1>6, Zenon DEF Min

LEMMA NextForIsIndex ==
    ASSUME NEW q \in Seq(Message), NEW th
    PROVE  NextFor(q, th) \in 0..Len(q)
<1>1. CASE th = None
  BY <1>1 DEF NextFor
<1>2. CASE th # None
  <2> DEFINE I == {i \in 1..Len(q) : q[i] = th}
  <2>1. NextFor(q, th) = IF I # {} THEN Min(I) ELSE 0
    BY <1>2 DEF NextFor, SelectInSeq
  <2>2. Len(q) \in Nat /\ I \in SUBSET Nat
    OBVIOUS
  <2>3. I # {} => Min(I) \in I
    BY <2>2, LeastIndex, Zenon
  <2> QED
    BY <2>1, <2>2, <2>3
<1> QED
  BY <1>1, <1>2

(* What is left is the mailbox without one message, or all of it; and      *)
(* remaining = 0 says that nothing is left, unless nothing was taken.      *)
LEMMA RestProperties ==
    ASSUME NEW q \in Seq(Message), NEW th
    PROVE  /\ Rest(q, th) \in Seq(Message)
           /\ NextFor(q, th) = 0 => Rest(q, th) = q
           /\ NextFor(q, th) # 0 => Len(Rest(q, th)) = Len(q) - 1
           /\ Remaining(q, th) = IF NextFor(q, th) = 0 THEN 0 ELSE Len(Rest(q, th))
<1> DEFINE i == NextFor(q, th)
<1>1. i \in 0..Len(q) /\ Len(q) \in Nat
  BY NextForIsIndex
<1>2. CASE i = 0
  BY <1>2 DEF Rest, Remaining
<1>3. CASE i # 0
  <2> DEFINE a == SubSeq(q, 1, i - 1)
             b == SubSeq(q, i + 1, Len(q))
  <2>1. i \in 1..Len(q)
    BY <1>1, <1>3
  <2>2. Rest(q, th) = a \o b
    BY <1>3 DEF Rest, RemoveAt
  <2> HIDE DEF i
  <2>3. a \in Seq(Message) /\ Len(a) = i - 1
    <3>1. \A k \in 1..(i - 1) : q[k] \in Message
      BY <1>1, <2>1
    <3> QED
      BY <1>1, <2>1, <3>1, SubSeqProperties
  <2>4. b \in Seq(Message) /\ Len(b) = Len(q) - i
    <3>1. \A k \in (i + 1)..Len(q) : q[k] \in Message
      BY <1>1, <2>1
    <3> QED
      BY <1>1, <2>1, <3>1, SubSeqProperties
  <2> HIDE DEF a, b
  <2>5. a \o b \in Seq(Message) /\ Len(a \o b) = Len(q) - 1
    BY <1>1, <2>1, <2>3, <2>4, ConcatProperties
  <2> QED
    BY <1>3, <2>2, <2>5 DEF Remaining, i
<1> QED
  BY <1>2, <1>3

-----------------------------------------------------------------------------
(* What a step does to the mailboxes: nothing, one arrival (for a          *)
(* registered name, unless a handler is late), one read by the token that  *)
(* speaks for the name, or one name's mail is discarded, by that token or  *)
(* with the name.                                                          *)
MailArrives(n) ==
    /\ n \in identities \/ LateMail
    /\ sessionVars' = sessionVars
    /\ \E m \in Message : Push(n, m)
    /\ kick' \in {kick, kick \cup {n}}

MailIsRead(t, th) ==
    /\ Live(t)
    /\ stName[t] \in Name
    /\ sessionVars' = sessionVars
    /\ queue' = [queue EXCEPT ![stName[t]] = Rest(@, th)]
    /\ kick' = KickAfter(stName[t], queue[stName[t]], th)

MailIsDiscarded(n) ==
    /\ DiscardMail(n)
    /\ \/ n \notin identities'
       \/ sessionVars' = sessionVars /\ \E t \in Token : Live(t) /\ tokenToName[t] = n

MailChange ==
    \/ UNCHANGED <<queue, kick>>
    \/ \E n \in Name : MailArrives(n) \/ MailIsDiscarded(n)
    \/ \E t \in Token, th \in Message : MailIsRead(t, th)

LEMMA StepsChangeMail ==
    ASSUME MailInv, [MailboxNext]_vars
    PROVE  MailChange
<1> USE DEF MailInv, SessionsInv, SessionsTypeOK
<1>1. ASSUME NEW n \in Name, NEW m \in Message, Enqueue(n, m)
      PROVE  MailArrives(n)
  BY <1>1 DEF MailArrives, Enqueue, HeldNamesRegistered
<1>2. ASSUME NEW n \in Name, EnqueueLate(n) \/ EnqueueGrantEvent(n)
      PROVE  MailArrives(n)
  BY <1>2 DEF MailArrives, EnqueueLate, EnqueueGrantEvent, Message, HeldNamesRegistered
<1>3. ASSUME NEW t \in Token, NoGrantHint(t)
      PROVE  tokenToName[t] \in Name /\ MailArrives(tokenToName[t])
  BY <1>3 DEF MailArrives, NoGrantHint, Message, OneVoicePerName
<1>4. ASSUME NEW t \in Token, SendNotice(t) \/ ReceiveNotice(t) \/ DequeueUnnamed(t)
      PROVE  UNCHANGED <<queue, kick>>
  BY <1>4 DEF SendNotice, ReceiveNotice, DequeueUnnamed
<1>5. ASSUME NEW t \in Token, NEW th \in Message, Dequeue(t, th)
      PROVE  MailIsRead(t, th)
  BY <1>5 DEF MailIsRead, Dequeue
<1>6. ASSUME NEW t \in Token, NEW th \in Message, DrainQueue(t, th)
      PROVE  stName[t] \in Name /\ MailIsDiscarded(stName[t])
  BY <1>6 DEF MailIsDiscarded, DiscardMail, DrainQueue, ReadsWhereItSpeaks
<1>7. ASSUME NEW t \in Token, NEW want \in Name \cup {None}, NEW force \in BOOLEAN,
             MailOpenListen(t, want, force)
      PROVE  UNCHANGED <<queue, kick>>
  BY <1>7 DEF MailOpenListen
<1>8. ASSUME NEW t \in Token, MailStreamEnds(t)
      PROVE  UNCHANGED <<queue, kick>>
  BY <1>8 DEF MailStreamEnds
<1>9. ASSUME NEW t \in Token, MailDeleteSelf(t)
      PROVE  UNCHANGED <<queue, kick>> \/ \E n \in Name : MailIsDiscarded(n)
  <2>1. tokenToName[t] # None => tokenToName[t] \notin identities'
    BY <1>9 DEF MailDeleteSelf, DeleteSelf, ForgetIdentity
  <2> QED
    BY <1>9, <2>1 DEF MailIsDiscarded, MailDeleteSelf
<1>10. ASSUME NEW t \in Token, MailGcToken(t)
       PROVE  UNCHANGED <<queue, kick>> \/ \E n \in Name : MailIsDiscarded(n)
  <2>1. stName[t] \notin identities'
    BY <1>10 DEF MailGcToken, GcToken, GcExempt
  <2> QED
    BY <1>10, <2>1 DEF MailIsDiscarded, MailGcToken
<1>11. ASSUME NEW g \in Token, NEW n \in Name, MailRevokeByName(g, n)
       PROVE  MailIsDiscarded(n)
  BY <1>11 DEF MailIsDiscarded, MailRevokeByName, RevokeByName, ForgetIdentity
<1>12. ASSUME NEW g \in Token, NEW t \in Token, NEW n \in Name, MailRebindName(g, n, t)
       PROVE  UNCHANGED <<queue, kick>>
  BY <1>12 DEF MailRebindName
<1>13. CASE UNCHANGED mailVars
  BY <1>13 DEF mailVars, MailChange
<1>14. CASE UNCHANGED vars
  BY <1>13, <1>14 DEF vars
<1> HIDE DEF MailInv
<1>15. CASE MailStep
  BY <1>1, <1>2, <1>3, <1>4, <1>5, <1>6, <1>15 DEF MailStep, MailChange
<1> QED
  BY <1>7, <1>8, <1>9, <1>10, <1>11, <1>12, <1>13, <1>14, <1>15 DEF MailboxNext, MailChange

QueueTypeOK ==
    /\ queue \in [Name -> Seq(Message)]
    /\ kick \in SUBSET Name
    /\ departed \in SUBSET Name

(* Mailboxes and kicks change together.                                    *)
LEMMA MailChangeKeepsKicks ==
    ASSUME queue \in [Name -> Seq(Message)], kick \in SUBSET Name, KickedNamesHaveMail, MailChange
    PROVE  queue' \in [Name -> Seq(Message)] /\ kick' \in SUBSET Name /\ KickedNamesHaveMail'
<1>1. CASE UNCHANGED <<queue, kick>>
  BY <1>1 DEF KickedNamesHaveMail
<1>2. ASSUME NEW n \in Name, MailArrives(n)
      PROVE  queue' \in [Name -> Seq(Message)] /\ kick' \in SUBSET Name /\ KickedNamesHaveMail'
  <2>1. PICK m \in Message : queue' = [queue EXCEPT ![n] = Append(queue[n], m)]
    BY <1>2 DEF MailArrives, Push
  <2>2. Append(queue[n], m) \in Seq(Message) /\ Append(queue[n], m) # <<>>
    BY AppendProperties
  <2> QED
    BY <1>2, <2>1, <2>2 DEF MailArrives, KickedNamesHaveMail
<1>3. ASSUME NEW n \in Name, MailIsDiscarded(n)
      PROVE  queue' \in [Name -> Seq(Message)] /\ kick' \in SUBSET Name /\ KickedNamesHaveMail'
  BY <1>3 DEF MailIsDiscarded, DiscardMail, KickedNamesHaveMail
<1>4. ASSUME NEW t \in Token, NEW th \in Message, MailIsRead(t, th)
      PROVE  queue' \in [Name -> Seq(Message)] /\ kick' \in SUBSET Name /\ KickedNamesHaveMail'
  <2> DEFINE n == stName[t]
             rest == Rest(queue[n], th)
  <2>1. n \in Name /\ queue' = [queue EXCEPT ![n] = rest] /\ kick' = KickAfter(n, queue[n], th)
    BY <1>4 DEF MailIsRead
  <2>2. rest \in Seq(Message) /\ (NextFor(queue[n], th) = 0 => rest = queue[n])
    BY <2>1, RestProperties
  <2>3. kick' \in SUBSET Name
    BY <2>1 DEF KickAfter
  <2>4. rest = <<>> => n \notin kick'
    BY <2>1, <2>2 DEF KickAfter, KickedNamesHaveMail
  <2>5. kick' \subseteq kick
    BY <2>1 DEF KickAfter
  <2> HIDE DEF n, rest
  <2> QED
    BY <2>1, <2>2, <2>3, <2>4, <2>5 DEF KickedNamesHaveMail
<1> QED
  BY <1>1, <1>2, <1>3, <1>4 DEF MailChange

(* The history of departed names holds names only.                         *)
LEMMA DepartedTyped ==
    ASSUME departed \in SUBSET Name, [MailboxNext]_vars
    PROVE  departed' \in SUBSET Name
<1>1. CASE UNCHANGED departed
  BY <1>1
<1>2. CASE NoteDeparted
  BY <1>2 DEF NoteDeparted
<1>3. MailStep => UNCHANGED departed
  BY DEF MailStep, Enqueue, EnqueueLate, EnqueueGrantEvent, NoGrantHint, SendNotice, ReceiveNotice,
         DequeueUnnamed, Dequeue, DrainQueue
<1>4. ASSUME NEW t \in Token, MailStreamEnds(t) \/ MailDeleteSelf(t) \/ MailGcToken(t)
      PROVE  NoteDeparted
  BY <1>4 DEF MailStreamEnds, MailDeleteSelf, MailGcToken
<1>5. ASSUME NEW g \in Token, NEW n \in Name, MailRevokeByName(g, n)
      PROVE  NoteDeparted
  BY <1>5 DEF MailRevokeByName
<1>6. ASSUME NEW g \in Token, NEW t \in Token, NEW n \in Name, MailRebindName(g, n, t)
      PROVE  UNCHANGED departed
  BY <1>6 DEF MailRebindName
<1>7. ASSUME NEW t \in Token, NEW want \in Name \cup {None}, NEW force \in BOOLEAN,
             MailOpenListen(t, want, force)
      PROVE  UNCHANGED departed
  BY <1>7 DEF MailOpenListen
<1>8. UNCHANGED mailVars \/ UNCHANGED vars => UNCHANGED departed
  BY DEF mailVars, vars
<1> QED
  BY <1>1, <1>2, <1>3, <1>4, <1>5, <1>6, <1>7, <1>8 DEF MailboxNext

KickInv == MailInv /\ QueueTypeOK /\ KickedNamesHaveMail

LEMMA KickInvInit == MailboxInit => KickInv
BY MailboxInitInv DEF MailboxInit, KickInv, QueueTypeOK, KickedNamesHaveMail

LEMMA KickInvNext ==
    ASSUME KickInv, [MailboxNext]_vars
    PROVE  KickInv'
<1>1. MailInv'
  BY MailboxNextKeepsInv DEF KickInv
<1>2. MailChange
  BY StepsChangeMail DEF KickInv
<1> QED
  BY <1>1, <1>2, MailChangeKeepsKicks, DepartedTyped DEF KickInv, QueueTypeOK

(* Mailboxes are sequences of messages and no kick points at an empty one. *)
THEOREM KickInvariant == MailboxSpec => []KickInv
<1>1. KickInv /\ [MailboxNext]_vars => KickInv'
  BY KickInvNext
<1> QED
  BY <1>1, KickInvInit, PTL DEF MailboxSpec

(* The state of the mailboxes and channels keeps its types.                *)
THEOREM MailboxTypeCorrect == MailboxSpec => []MailboxTypeOK
<1>1. KickInv => MailboxTypeOK
  BY DEF KickInv, QueueTypeOK, MailInv, SessionsInv, Armed, ChannelTypeOK, MailboxTypeOK
<1> QED
  BY <1>1, KickInvariant, PTL

(* A kick is never an empty promise: the name has mail.                    *)
THEOREM KickedNamesHaveMailHolds == MailboxSpec => []KickedNamesHaveMail
<1>1. KickInv => KickedNamesHaveMail
  BY DEF KickInv
<1> QED
  BY <1>1, KickInvariant, PTL

(* Mail is lost only to the reader that speaks for its name, or with the   *)
(* name: supersession, unsubscribing, collection and rebinding lose none.  *)
LEMMA MailLostToReaderOnly ==
    ASSUME KickInv, [MailboxNext]_vars
    PROVE  LosesToReaderOnly
<1> USE DEF KickInv, QueueTypeOK, MailInv, SessionsInv, SessionsTypeOK
<1>1. MailChange
  BY StepsChangeMail
<1>2. CASE UNCHANGED <<queue, kick>>
  BY <1>2 DEF LosesToReaderOnly
<1>3. ASSUME NEW n \in Name, MailArrives(n)
      PROVE  LosesToReaderOnly
  <2>1. PICK m \in Message : queue' = [queue EXCEPT ![n] = Append(queue[n], m)]
    BY <1>3 DEF MailArrives, Push
  <2>2. Len(Append(queue[n], m)) = Len(queue[n]) + 1 /\ Len(queue[n]) \in Nat
    BY AppendProperties, LenProperties
  <2>3. \A k \in Name : ~ (Len(queue'[k]) < Len(queue[k]))
    <3> TAKE k \in Name
    <3>1. Len(queue[k]) \in Nat
      BY LenProperties
    <3> QED
      BY <2>1, <2>2, <3>1
  <2> QED
    BY <2>3 DEF LosesToReaderOnly
<1>4. ASSUME NEW n \in Name, MailIsDiscarded(n)
      PROVE  LosesToReaderOnly
  BY <1>4 DEF MailIsDiscarded, DiscardMail, LosesToReaderOnly
<1>5. ASSUME NEW t \in Token, NEW th \in Message, MailIsRead(t, th)
      PROVE  LosesToReaderOnly
  <2>1. tokenToName[t] = stName[t]
    BY <1>5 DEF MailIsRead, ReadsWhereItSpeaks
  <2>2. \A k \in Name : k # stName[t] => queue'[k] = queue[k]
    BY <1>5 DEF MailIsRead
  <2> QED
    BY <1>5, <2>1, <2>2 DEF MailIsRead, LosesToReaderOnly
<1> QED
  BY <1>1, <1>2, <1>3, <1>4, <1>5 DEF MailChange

(* A mailbox loses messages only to a read under its name, or with the     *)
(* name: no handler that ends or moves a session empties one (dequeue,     *)
(* drain_queue, the purges of the deletions).                              *)
THEOREM MailOutlivesSessionsHolds == MailboxSpec => MailOutlivesSessions
<1>1. KickInv /\ [MailboxNext]_vars => [LosesToReaderOnly]_vars
  BY MailLostToReaderOnly
<1> QED
  BY <1>1, KickInvariant, PTL DEF MailboxSpec, MailOutlivesSessions

-----------------------------------------------------------------------------
(* Mail never waits unannounced.  A name that is bound anew must start     *)
(* with an empty mailbox: mail waits for registered names only.            *)
UnregisteredHaveNoMail == \A n \in Name : n \notin identities => queue[n] = <<>>

(* A name that leaves the roster takes its mail along.                     *)
LEMMA DeletedNamesLoseMail ==
    ASSUME KickInv, [MailboxNext]_vars, NEW n \in identities, n \notin identities'
    PROVE  queue'[n] = <<>>
<1> USE DEF KickInv, QueueTypeOK, MailInv, SessionsInv, SessionsTypeOK
<1>1. ASSUME NEW t \in Token, MailDeleteSelf(t)
      PROVE  queue'[n] = <<>>
  BY <1>1 DEF MailDeleteSelf, DeleteSelf, ForgetIdentity, DiscardMail
<1>2. ASSUME NEW g \in Token, NEW k \in Name, MailRevokeByName(g, k)
      PROVE  queue'[n] = <<>>
  BY <1>2 DEF MailRevokeByName, RevokeByName, ForgetIdentity, DiscardMail
<1>3. ~ (UNCHANGED sessionVars)
  BY DEF sessionVars, bindingVars
<1>4. CASE MailStep
  BY <1>3, <1>4 DEF MailStep, Enqueue, EnqueueLate, EnqueueGrantEvent, NoGrantHint, SendNotice,
                    ReceiveNotice, DequeueUnnamed, Dequeue, DrainQueue
<1>5. ASSUME NEW t \in Token, NEW want \in Name \cup {None}, NEW force \in BOOLEAN,
             MailOpenListen(t, want, force)
      PROVE  FALSE
  BY <1>5 DEF MailOpenListen, OpenListen
<1>6. ASSUME NEW t \in Token, MailStreamEnds(t) \/ MailGcToken(t)
      PROVE  FALSE
  BY <1>6 DEF MailStreamEnds, DropCurrentStream, CloseListen, CancelListen, MailGcToken, GcToken,
              bindingVars
<1>7. ASSUME NEW g \in Token, NEW t \in Token, NEW k \in Name, MailRebindName(g, k, t)
      PROVE  FALSE
  BY <1>7 DEF MailRebindName, RebindName
<1>8. ~ OtherSessionStep
  BY DEF OtherSessionStep, AdmitRegistration, RegisterParticipant, DropStaleStream, CloseListen,
         BecomeGovernor, MarkGranted, ReAnnounce, AnnounceNew, BindName, AnnounceDangling,
         IssueParticipantToken, RegistryLapse, AdminResetGovernor, bindingVars
<1>9. ~ (UNCHANGED vars)
  BY <1>3 DEF vars
<1> HIDE DEF KickInv
<1> QED
  BY <1>1, <1>2, <1>4, <1>5, <1>6, <1>7, <1>8, <1>9 DEF MailboxNext

LEMMA UnregisteredStayEmpty ==
    ASSUME ~LateMail, KickInv, UnregisteredHaveNoMail, [MailboxNext]_vars
    PROVE  UnregisteredHaveNoMail'
<1> SUFFICES ASSUME NEW n \in Name, n \notin identities'
             PROVE  queue'[n] = <<>>
  BY DEF UnregisteredHaveNoMail
<1>1. CASE n \in identities
  BY <1>1, DeletedNamesLoseMail
<1>2. CASE n \notin identities
  <2> USE DEF KickInv, QueueTypeOK, MailInv
  <2>1. queue[n] = <<>>
    BY <1>2 DEF UnregisteredHaveNoMail
  <2>2. MailChange
    BY StepsChangeMail
  <2>3. ASSUME NEW k \in Name, MailArrives(k)
        PROVE  queue'[n] = queue[n]
    BY <1>2, <2>3 DEF MailArrives, Push
  <2>4. ASSUME NEW k \in Name, MailIsDiscarded(k)
        PROVE  queue'[n] \in {queue[n], <<>>}
    BY <2>4 DEF MailIsDiscarded, DiscardMail
  <2>5. ASSUME NEW t \in Token, NEW th \in Message, MailIsRead(t, th)
        PROVE  queue'[n] = queue[n]
    <3> DEFINE none == <<>>
    <3>1. none \in Seq(Message) /\ Len(none) = 0
      BY EmptySeq
    <3> HIDE DEF none
    <3>2. NextFor(none, th) = 0
      <4>1. NextFor(none, th) \in 0..Len(none)
        BY <3>1, NextForIsIndex
      <4> QED
        BY <3>1, <4>1
    <3>3. Rest(none, th) = none
      BY <3>1, <3>2, RestProperties
    <3> QED
      BY <2>1, <2>5, <3>3 DEF MailIsRead, none
  <2> QED
    BY <2>1, <2>2, <2>3, <2>4, <2>5 DEF MailChange
<1> QED
  BY <1>1, <1>2

(* A client that has no reason to look at its mailbox.                     *)
Idle(t) ==
    /\ Live(t) /\ stName[t] # None /\ HoldsOneName(t)
    /\ stream[t] /\ IsSseAlive(t)
    /\ ~muted[t] /\ ~WillRead(t)

(* It had none before either, under the same name, and no mail has come.   *)
WasIdle(t) ==
    /\ Idle(t)
    /\ stName'[t] = stName[t]
    /\ queue'[stName[t]] \in {queue[stName[t]], <<>>}

IdleInv == KickInv /\ UnregisteredHaveNoMail /\ IdleMeansRead

LEMMA IdleFrame ==
    ASSUME IdleMeansRead,
           \A u \in Token : Idle(u)' => WasIdle(u) \/ queue'[stName'[u]] = <<>>
    PROVE  IdleMeansRead'
BY DEF IdleMeansRead, Idle, WasIdle

(* A live token with a name holds it.                                      *)
LEMMA SpeakerHolds ==
    ASSUME SessionsInv, NEW u \in Token, Live(u), stName[u] # None
    PROVE  stName[u] \in Name /\ nameToToken[stName[u]] = u
BY DEF SessionsInv, SessionsTypeOK, ReadsWhereItSpeaks, OneVoicePerName

(* Mail for a name reaches a holder that is armed with a wake-up, and one  *)
(* that is suppressed is about to read or muted: the interlock is not      *)
(* stuck.                                                                  *)
LEMMA ArrivalIdle ==
    ASSUME KickInv, IdleMeansRead, NEW n \in Name, NEW m \in Message, Push(n, m), TakeNotify(n),
           UNCHANGED <<sessionVars, notices, reading, muted>>
    PROVE  IdleMeansRead'
<1> USE DEF KickInv, QueueTypeOK, MailInv, SessionsInv, SessionsTypeOK, Armed, ChannelTypeOK
<1> SUFFICES ASSUME NEW u \in Token, Idle(u)'
             PROVE  WasIdle(u)
  BY IdleFrame
<1>1. /\ Live(u) /\ stName[u] \in Name /\ HoldsOneName(u) /\ stream[u] /\ IsSseAlive(u) /\ ~muted[u]
      /\ stName'[u] = stName[u]
  BY DEF Idle, Live, HoldsOneName, IsSseAlive, sessionVars, tokenVars, bindingVars, streamVars
<1>2. nameToToken[stName[u]] = u
  BY <1>1, SpeakerHolds, SessionsAssumption
<1>3. ~ WillRead(u)
  <2>1. sending'[u] = 0 /\ ~ (notices[u] > 0) /\ ~ reading[u]
    <3>1. sending' \in [Token -> Nat]
      <4>1. CASE Wakes(n)
        <5>1. nameToToken[n] \in Token
          BY <4>1 DEF Wakes
        <5>2. sending' = [sending EXCEPT ![nameToToken[n]] =
                              IF stream[nameToToken[n]] THEN @ + 1 ELSE @]
          BY <4>1 DEF TakeNotify
        <5> HIDE DEF KickInv
        <5>3. sending \in [Token -> Nat]
          BY DEF KickInv
        <5> QED
          BY <5>1, <5>2, <5>3
      <4>2. CASE ~ Wakes(n)
        BY <4>2 DEF TakeNotify
      <4> QED
        BY <4>1, <4>2
    <3> QED
      BY <3>1 DEF Idle, WillRead
  <2>2. sending'[u] \in {sending[u], sending[u] + 1}
    BY DEF TakeNotify
  <2> QED
    BY <2>1, <2>2 DEF WillRead
<1>4. ~ suppressed[u]
  BY <1>1, <1>3 DEF InterlockNeverStuck
<1>5. stName[u] # n
  <2> SUFFICES ASSUME stName[u] = n PROVE FALSE
    OBVIOUS
  <2>1. Wakes(n)
    BY <1>1, <1>2, <1>4, SessionsAssumption DEF Wakes, Live, Known
  <2>2. sending'[u] = sending[u] + 1
    BY <1>1, <1>2, <2>1 DEF TakeNotify
  <2> QED
    BY <2>2 DEF Idle, WillRead
<1> QED
  BY <1>1, <1>3, <1>5 DEF WasIdle, Idle, Push

LEMMA GrantEventIdle ==
    ASSUME KickInv, IdleMeansRead, NEW n \in Name, EnqueueGrantEvent(n)
    PROVE  IdleMeansRead'
<1> USE DEF KickInv, QueueTypeOK, MailInv, SessionsInv, SessionsTypeOK, Armed, ChannelTypeOK,
            EnqueueGrantEvent
<1> SUFFICES ASSUME NEW u \in Token, Idle(u)'
             PROVE  WasIdle(u)
  BY IdleFrame
<1>1. /\ Live(u) /\ stName[u] \in Name /\ HoldsOneName(u) /\ stream[u] /\ IsSseAlive(u)
      /\ stName'[u] = stName[u]
  BY DEF Idle, Live, HoldsOneName, IsSseAlive, sessionVars, tokenVars, bindingVars, streamVars
<1>2. nameToToken[stName[u]] = u
  BY <1>1, SpeakerHolds, SessionsAssumption
<1>3. ~ WillRead(u) /\ ~ muted[u]
  BY DEF Idle, WillRead
<1>4. ~ suppressed[u]
  BY <1>1, <1>3 DEF InterlockNeverStuck
<1>5. stName[u] # n
  <2> SUFFICES ASSUME stName[u] = n PROVE FALSE
    OBVIOUS
  <2>1. Wakes(n)
    BY <1>1, <1>2, <1>4, SessionsAssumption DEF Wakes, Live, Known
  <2>2. muted'[u]
    BY <1>1, <1>2, <2>1
  <2> QED
    BY <2>2 DEF Idle
<1> QED
  BY <1>1, <1>3, <1>5 DEF WasIdle, Idle, Push

(* An unfiltered dequeue that reports remaining = 0 leaves nothing.        *)
LEMMA DequeueIdle ==
    ASSUME KickInv, IdleMeansRead, NEW t \in Token, Dequeue(t, None)
    PROVE  IdleMeansRead'
<1> USE DEF KickInv, QueueTypeOK, MailInv, SessionsInv, SessionsTypeOK, Armed, ChannelTypeOK
<1> DEFINE n == stName[t]
           rest == Rest(queue[n], None)
<1>1. /\ n \in Name /\ Live(t)
      /\ queue' = [queue EXCEPT ![n] = rest]
      /\ reading' = [reading EXCEPT ![t] = Remaining(queue[n], None) > 0]
      /\ muted' = [muted EXCEPT ![t] = FALSE]
      /\ UNCHANGED <<sessionVars, sending, notices>>
  BY DEF Dequeue, Rearm
<1>2. ASSUME ~ (Remaining(queue[n], None) > 0)
      PROVE  rest = <<>>
  <2>1. queue[n] \in Seq(Message) /\ Len(queue[n]) \in Nat
    BY <1>1, LenProperties
  <2>2. CASE queue[n] = <<>>
    BY <2>1, <2>2, RestProperties DEF NextFor
  <2>3. CASE queue[n] # <<>>
    <3>1. NextFor(queue[n], None) = 1
      BY <2>3 DEF NextFor
    <3>2. rest \in Seq(Message) /\ Remaining(queue[n], None) = Len(rest)
      BY <2>1, <3>1, RestProperties
    <3> HIDE DEF rest
    <3>3. Len(rest) = 0
      BY <1>2, <3>2, LenProperties
    <3> QED
      BY <3>2, <3>3, EmptySeq
  <2> QED
    BY <2>2, <2>3
<1> HIDE DEF rest
<1> SUFFICES ASSUME NEW u \in Token, Idle(u)'
             PROVE  WasIdle(u) \/ queue'[stName'[u]] = <<>>
  BY IdleFrame
<1>3. /\ Live(u) /\ stName[u] \in Name /\ HoldsOneName(u) /\ stream[u] /\ IsSseAlive(u)
      /\ stName'[u] = stName[u]
  BY <1>1 DEF Idle, Live, HoldsOneName, IsSseAlive, sessionVars, tokenVars, bindingVars, streamVars
<1>4. CASE u = t
  <2>1. ~ reading'[t]
    BY <1>4 DEF Idle, WillRead
  <2>2. rest = <<>>
    BY <1>1, <1>2, <2>1
  <2> QED
    BY <1>1, <1>3, <1>4, <2>2
<1>5. CASE u # t
  <2>1. Live(u) /\ stName[u] # None /\ Live(t) /\ stName[t] # None
    BY <1>1, <1>3, SessionsAssumption
  <2>2. nameToToken[stName[u]] = u /\ nameToToken[stName[t]] = t
    BY <2>1, SpeakerHolds
  <2>3. stName[u] # n
    BY <1>5, <2>2
  <2>4. ~ muted[u] /\ ~ WillRead(u)
    BY <1>1, <1>5 DEF Idle, WillRead
  <2> QED
    BY <1>1, <1>3, <2>3, <2>4 DEF WasIdle, Idle
<1> QED
  BY <1>4, <1>5

(* A step that keeps a token's stream, name and channel keeps it idle, and *)
(* brings no mail.                                                         *)
LEMMA SparedIdle ==
    ASSUME MailInv, NEW u \in Token, Spared(u),
           UNCHANGED queue \/ (\E n \in Name : DiscardMail(n)), queue \in [Name -> Seq(Message)],
           Idle(u)'
    PROVE  WasIdle(u)
<1>1. Idle(u)
  BY DEF Spared, Idle, Live, IsSseAlive, WillRead, HoldsOneName
<1>2. stName[u] \in Name
  BY <1>1 DEF Idle, MailInv, SessionsInv, SessionsTypeOK
<1> QED
  BY <1>1, <1>2 DEF WasIdle, Spared, DiscardMail

\* A token that cannot be idle now: it is gone or has no counted stream.
Absent(u) == ~ Live(u)' \/ ~ stream'[u] \/ ~ IsSseAlive(u)' \/ stName'[u] = None

LEMMA AbsentFrame ==
    ASSUME KickInv, IdleMeansRead, UNCHANGED queue \/ (\E n \in Name : DiscardMail(n)),
           \A u \in Token : Absent(u) \/ Spared(u)
    PROVE  IdleMeansRead'
<1> SUFFICES ASSUME NEW u \in Token, Idle(u)'
             PROVE  WasIdle(u)
  BY IdleFrame
<1>1. ~ Absent(u)
  BY DEF Absent, Idle, Live, IsSseAlive
<1> QED
  BY <1>1, SparedIdle DEF KickInv, QueueTypeOK

(* Notices, and reads that find no name or empty the mailbox.              *)
LEMMA ReadStepsIdle ==
    ASSUME KickInv, IdleMeansRead, NEW t \in Token,
           SendNotice(t) \/ ReceiveNotice(t) \/ DequeueUnnamed(t) \/ DrainQueue(t, None)
    PROVE  IdleMeansRead'
<1> USE DEF KickInv, QueueTypeOK, MailInv, SessionsInv, SessionsTypeOK, Armed, ChannelTypeOK
<1> SUFFICES ASSUME NEW u \in Token, Idle(u)'
             PROVE  WasIdle(u) \/ queue'[stName'[u]] = <<>>
  BY IdleFrame
<1>0. UNCHANGED sessionVars
  BY DEF SendNotice, ReceiveNotice, DequeueUnnamed, DrainQueue
<1>1. /\ Live(u) /\ stName[u] \in Name /\ HoldsOneName(u) /\ stream[u] /\ IsSseAlive(u)
      /\ stName'[u] = stName[u]
  BY <1>0 DEF Idle, Live, HoldsOneName, IsSseAlive, sessionVars, tokenVars, bindingVars, streamVars
<1>2. stName[u] # None
  BY <1>1, SessionsAssumption
<1>3. CASE SendNotice(t)
  BY <1>1, <1>2, <1>3 DEF SendNotice, WasIdle, Idle, WillRead
<1>4. CASE ReceiveNotice(t)
  BY <1>1, <1>2, <1>4 DEF ReceiveNotice, WasIdle, Idle, WillRead
<1>5. CASE DequeueUnnamed(t)
  BY <1>1, <1>2, <1>5 DEF DequeueUnnamed, WasIdle, Idle, WillRead
<1>6. CASE DrainQueue(t, None)
  BY <1>1, <1>2, <1>6 DEF DrainQueue, Rearm, WasIdle, Idle, WillRead
<1> QED
  BY <1>3, <1>4, <1>5, <1>6

(* A new stream starts with a notify if mail waits.                        *)
LEMMA OpenListenIdle ==
    ASSUME KickInv, IdleMeansRead, NEW t \in Token, NEW want \in Name \cup {None}, NEW force \in BOOLEAN,
           MailOpenListen(t, want, force)
    PROVE  IdleMeansRead'
<1> SUFFICES ASSUME NEW u \in Token, Idle(u)'
             PROVE  WasIdle(u) \/ queue'[stName'[u]] = <<>>
  BY IdleFrame
<1>1. ~StoredNameLost(t)
  BY NoStoredNameLost DEF KickInv, MailInv, MailOpenListen, OpenListen
<1>2. CASE u = t
  <2>1. ~ (notices'[t] > 0)
    BY <1>2 DEF Idle, WillRead
  <2>2. ~ MailWaiting(t)
    BY <2>1 DEF MailOpenListen, KickInv, MailInv, Armed, ChannelTypeOK
  <2> QED
    BY <1>2, <2>2 DEF MailWaiting, MailOpenListen, Idle
<1>3. CASE u # t
  <2>1. /\ UNCHANGED status
        /\ stream'[u] = stream[u] /\ stName'[u] = stName[u] /\ sseCount'[u] = sseCount[u]
        /\ \A n \in Name : nameToToken'[n] # nameToToken[n] => nameToToken[n] = None
    BY <1>1, <1>3 DEF MailOpenListen, OpenListen, ListenMayBind, RepairedNames, KickInv, MailInv, SessionsInv,
                      SessionsTypeOK
  <2>2. HoldsOneName(u)
    BY <2>1, SessionsAssumption DEF HoldsOneName, Idle
  <2>3. /\ muted'[u] = muted[u] /\ sending'[u] = sending[u] /\ notices'[u] = notices[u]
        /\ reading'[u] = reading[u] /\ queue' = queue
    BY <1>3 DEF MailOpenListen, KickInv, MailInv, Armed, ChannelTypeOK
  <2> QED
    BY <2>1, <2>2, <2>3 DEF WasIdle, Idle, Live, IsSseAlive, WillRead
<1> QED
  BY <1>2, <1>3

(* A name is announced: a client with mail to read has a name already, and *)
(* the new name has no mail.                                               *)
LEMMA AnnounceNewIdle ==
    ASSUME KickInv, UnregisteredHaveNoMail, IdleMeansRead, NEW t \in Token, NEW n \in Name,
           AnnounceNew(t, n), UNCHANGED mailVars
    PROVE  IdleMeansRead'
<1> SUFFICES ASSUME NEW u \in Token, Idle(u)'
             PROVE  WasIdle(u) \/ queue'[stName'[u]] = <<>>
  BY IdleFrame
<1>1. CASE u = t
  <2>1. stName'[t] = n /\ n \notin identities /\ queue' = queue
    BY DEF AnnounceNew, BindName, mailVars, KickInv, MailInv, SessionsInv, SessionsTypeOK
  <2> QED
    BY <1>1, <2>1 DEF UnregisteredHaveNoMail
<1>2. CASE u # t
  <2>1. ~ Away(u)
    BY DEF Away, Idle, Live, IsSseAlive
  <2>2. Spared(u)
    BY <1>2, <2>1, AnnounceNewSpares DEF KickInv
  <2> QED
    BY <2>2, SparedIdle DEF KickInv, QueueTypeOK, mailVars
<1> QED
  BY <1>1, <1>2

(* The other session handlers: whoever they touch has no counted stream.   *)
LEMMA SessionStepIdle ==
    ASSUME KickInv, UnregisteredHaveNoMail, IdleMeansRead,
           \/ \E t \in Token : MailStreamEnds(t) \/ MailDeleteSelf(t) \/ MailGcToken(t)
           \/ \E g \in Token, n \in Name : MailRevokeByName(g, n)
           \/ \E g, t \in Token, n \in Name : MailRebindName(g, n, t)
           \/ OtherSessionStep /\ UNCHANGED mailVars
    PROVE  IdleMeansRead'
<1> USE DEF KickInv
<1>1. ASSUME NEW t \in Token, MailStreamEnds(t)
      PROVE  IdleMeansRead'
  <2>1. Absent(t)
    BY <1>1 DEF Absent, MailStreamEnds, DropCurrentStream, CancelListen, MailInv, SessionsInv,
                SessionsTypeOK
  <2>2. UNCHANGED queue
    BY <1>1 DEF MailStreamEnds
  <2> QED
    BY <1>1, <2>1, <2>2, StreamEndsSpares, AbsentFrame
<1>2. ASSUME NEW t \in Token, MailDeleteSelf(t)
      PROVE  IdleMeansRead'
  <2>1. Absent(t)
    BY <1>2 DEF Absent, Live, MailDeleteSelf, DeleteSelf, MailInv, SessionsInv, SessionsTypeOK
  <2>2. UNCHANGED queue \/ \E n \in Name : DiscardMail(n)
    BY <1>2 DEF MailDeleteSelf, MailInv, SessionsInv, SessionsTypeOK
  <2> QED
    BY <1>2, <2>1, <2>2, DeleteSelfSpares, AbsentFrame
<1>3. ASSUME NEW t \in Token, MailGcToken(t)
      PROVE  IdleMeansRead'
  <2>1. Absent(t)
    BY <1>3 DEF Absent, Live, MailGcToken, GcToken, MailInv, SessionsInv, SessionsTypeOK
  <2>2. UNCHANGED queue \/ \E n \in Name : DiscardMail(n)
    BY <1>3 DEF MailGcToken, MailInv, SessionsInv, SessionsTypeOK
  <2> QED
    BY <1>3, <2>1, <2>2, GcTokenSpares, AbsentFrame
<1>4. ASSUME NEW g \in Token, NEW n \in Name, MailRevokeByName(g, n)
      PROVE  IdleMeansRead'
  <2>1. \A u \in Token : Absent(u) \/ Spared(u)
    BY <1>4, RevokeSpares DEF Absent, Live
  <2>2. DiscardMail(n)
    BY <1>4 DEF MailRevokeByName
  <2> QED
    BY <2>1, <2>2, AbsentFrame
<1>5. ASSUME NEW g \in Token, NEW t \in Token, NEW n \in Name, MailRebindName(g, n, t)
      PROVE  IdleMeansRead'
  <2>1. \A u \in Token : Absent(u) \/ Spared(u)
    BY <1>5, RebindSpares, SessionsAssumption DEF Absent, IsSseAlive
  <2>2. UNCHANGED queue
    BY <1>5 DEF MailRebindName
  <2> QED
    BY <2>1, <2>2, AbsentFrame
<1>6. CASE OtherSessionStep /\ UNCHANGED mailVars
  <2>1. CASE \E t \in Token, n \in Name : AnnounceNew(t, n)
    BY <1>6, <2>1, AnnounceNewIdle
  <2>2. CASE ~ \E t \in Token, n \in Name : AnnounceNew(t, n)
    <3>1. \A u \in Token : Absent(u) \/ Spared(u)
      BY <1>6, <2>2, OtherStepSpares DEF Absent, Away, Live, IsSseAlive
    <3>2. UNCHANGED queue
      BY <1>6 DEF mailVars
    <3> QED
      BY <3>1, <3>2, AbsentFrame
  <2> QED
    BY <2>1, <2>2
<1> HIDE DEF KickInv
<1> QED
  BY <1>1, <1>2, <1>3, <1>4, <1>5, <1>6

LEMMA IdleInvInductive ==
    ASSUME Thread = {}, ~LateMail, IdleInv, [MailboxNext]_vars
    PROVE  IdleInv'
<1> USE DEF IdleInv
<1>0. Message = {None}
  BY DEF Message
<1>1. KickInv'
  BY KickInvNext
<1>2. UnregisteredHaveNoMail'
  BY UnregisteredStayEmpty
<1>3. ASSUME UNCHANGED vars
      PROVE  IdleMeansRead'
  BY <1>3 DEF vars, sessionVars, tokenVars, bindingVars, streamVars, mailVars, IdleMeansRead, Live,
              HoldsOneName, IsSseAlive, WillRead
<1>4. ASSUME MailStep
      PROVE  IdleMeansRead'
  <2>1. ASSUME NEW n \in Name, NEW m \in Message, Enqueue(n, m)
        PROVE  IdleMeansRead'
    BY <2>1, ArrivalIdle DEF Enqueue
  <2>2. ASSUME NEW n \in Name, EnqueueGrantEvent(n)
        PROVE  IdleMeansRead'
    BY <2>2, GrantEventIdle
  <2>3. ASSUME NEW t \in Token, NoGrantHint(t)
        PROVE  IdleMeansRead'
    <3>1. tokenToName[t] \in Name
      BY <2>3 DEF NoGrantHint, KickInv, MailInv, SessionsInv, SessionsTypeOK
    <3> QED
      BY <1>0, <2>3, <3>1, ArrivalIdle DEF NoGrantHint
  <2>4. ASSUME NEW t \in Token, NEW th \in Message, Dequeue(t, th)
        PROVE  IdleMeansRead'
    BY <1>0, <2>4, DequeueIdle
  <2>5. \A n \in Name : ~ EnqueueLate(n)
    BY DEF EnqueueLate
  <2>6. ASSUME NEW t \in Token, NEW th \in Message, DrainQueue(t, th)
        PROVE  IdleMeansRead'
    BY <1>0, <2>6, ReadStepsIdle
  <2>7. ASSUME NEW t \in Token, SendNotice(t) \/ ReceiveNotice(t) \/ DequeueUnnamed(t)
        PROVE  IdleMeansRead'
    BY <2>7, ReadStepsIdle
  <2> QED
    BY <1>4, <2>1, <2>2, <2>3, <2>4, <2>5, <2>6, <2>7 DEF MailStep
<1>5. ASSUME NEW t \in Token, NEW want \in Name \cup {None}, NEW force \in BOOLEAN,
             MailOpenListen(t, want, force)
      PROVE  IdleMeansRead'
  BY <1>5, OpenListenIdle
<1>6. ASSUME MailboxNext
      PROVE  IdleMeansRead'
  BY <1>4, <1>5, <1>6, SessionStepIdle DEF MailboxNext
<1> QED
  BY <1>1, <1>2, <1>3, <1>6

(* Mail never waits unannounced, for clients that do not filter and hubs   *)
(* whose handlers are not late: a client that keeps to one name and has no *)
(* reason to dequeue has nothing to dequeue.                               *)
THEOREM IdleMeansReadHolds ==
    ASSUME Thread = {}, ~LateMail
    PROVE  MailboxSpec => []IdleMeansRead
<1>1. MailboxInit => IdleInv
  <2> SUFFICES ASSUME MailboxInit PROVE IdleInv
    OBVIOUS
  <2>1. KickInv
    BY KickInvInit
  <2> QED
    BY <2>1 DEF MailboxInit, IdleInv, UnregisteredHaveNoMail, SessionsInit, IdleMeansRead
<1>2. IdleInv /\ [MailboxNext]_vars => IdleInv'
  BY IdleInvInductive
<1>3. IdleInv => IdleMeansRead
  BY DEF IdleInv
<1> QED
  BY <1>1, <1>2, <1>3, PTL DEF MailboxSpec
=============================================================================
