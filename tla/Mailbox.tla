------------------------------ MODULE Mailbox ------------------------------
(***************************************************************************)
(* Mailboxes and wake-ups of the simple-im hub (src/src/delivery.rs).      *)
(*                                                                         *)
(* Messages wait in a queue per name.  The holder of the name is woken by  *)
(* a notify event on its stream, once: the token's notify_suppressed flag  *)
(* keeps further arrivals silent until the client dequeues or reconnects.  *)
(* The event itself is sent after the hub's mutex is released, on a clone  *)
(* of the stream's sender taken under the mutex.                           *)
(*                                                                         *)
(* The module composes this with the session handlers of module Sessions.  *)
(* The client is the one the participant skill describes: it dequeues on   *)
(* every notify and goes on while the answer says that messages remain; it *)
(* forgets what it was doing when its stream ends.  A message is reduced   *)
(* to its thread.  Which sends are permitted is not decided here.          *)
(*                                                                         *)
(* announce and open_listen also queue a role reminder when the name they  *)
(* bind for the first time is the governor's.  The governor is always      *)
(* registered (NoPhantomGovernor) and these paths bind only unregistered   *)
(* names, so that never happens and is left out.                           *)
(***************************************************************************)
EXTENDS Sessions, SequencesExt

CONSTANTS Thread,      \* thread ids messages carry and clients filter by
          LateMail,    \* may a handler queue something for a deleted name?
          MaxQueue,    \* bound on the messages of one mailbox
          MaxNotice    \* bound on the notify events under way to one stream

ASSUME MailboxAssumption ==
    /\ None \notin Thread
    /\ LateMail \in BOOLEAN
    /\ MaxQueue \in Nat
    /\ MaxNotice \in Nat \ {0}

VARIABLES queue,       \* HubInner.message_queues
          kick,        \* HubInner.kick_pending
          suppressed,  \* ListenTokenState.notify_suppressed
          sending,     \* notify events taken, not yet sent on the current stream
          notices,     \* notify events in the channel of the current stream
          reading,     \* is the client between a notify and its last dequeue?
          muted,       \* history: was the token's wake-up spent on another event?
          departed     \* history: names that have been routed and then not

mailVars == <<queue, kick, suppressed, sending, notices, reading, muted, departed>>
vars     == <<sessionVars, mailVars>>

Message == Thread \cup {None}

MailboxTypeOK ==
    /\ SessionsTypeOK
    /\ queue \in [Name -> Seq(Message)]
    /\ kick \in SUBSET Name
    /\ suppressed \in [Token -> BOOLEAN]
    /\ sending \in [Token -> Nat]
    /\ notices \in [Token -> Nat]
    /\ reading \in [Token -> BOOLEAN]
    /\ muted \in [Token -> BOOLEAN]
    /\ departed \in SUBSET Name

MailboxInit ==
    /\ SessionsInit
    /\ queue = [n \in Name |-> <<>>]
    /\ kick = {}
    /\ suppressed = [t \in Token |-> FALSE]
    /\ sending = [t \in Token |-> 0]
    /\ notices = [t \in Token |-> 0]
    /\ reading = [t \in Token |-> FALSE]
    /\ muted = [t \in Token |-> FALSE]
    /\ departed = {}

-----------------------------------------------------------------------------
(* Arrivals.                                                               *)

\* t can be woken again.
Rearm(t) ==
    /\ suppressed' = [suppressed EXCEPT ![t] = FALSE]
    /\ muted' = [muted EXCEPT ![t] = FALSE]

\* The holder of n is to be woken, unless it has been and has not reacted, or
\* is not connected.
Wakes(n) ==
    LET h == nameToToken[n] IN h # None /\ Known(h) /\ IsSseAlive(h) /\ ~suppressed[h]

\* take_notify.  The flag is set whether or not the event gets through.
TakeNotify(n) ==
    LET h == nameToToken[n] IN
    IF Wakes(n)
    THEN /\ suppressed' = [suppressed EXCEPT ![h] = TRUE]
         /\ stream[h] => sending[h] + notices[h] < MaxNotice
         /\ sending' = [sending EXCEPT ![h] = IF stream[h] THEN @ + 1 ELSE @]
    ELSE UNCHANGED <<suppressed, sending>>

Push(n, m) ==
    /\ Len(queue[n]) < MaxQueue
    /\ queue' = [queue EXCEPT ![n] = Append(@, m)]

\* The tail of every handler that queues a message for a routed name.
Enqueue(n, m) ==
    /\ agents[n] # None
    /\ Push(n, m)
    /\ kick' = kick \cup {n}
    /\ TakeNotify(n)
    /\ UNCHANGED <<sessionVars, notices, reading, muted, departed>>

\* Handlers that do not look again whether the name is still routed: an
\* attachment whose recipient went away while the blob was being stored, a
\* claim answered after its candidate left.
EnqueueLate(n) ==
    /\ LateMail
    /\ agents[n] = None
    /\ n \in departed
    /\ Push(n, None)
    /\ kick' = kick \cup {n}
    /\ TakeNotify(n)
    /\ UNCHANGED <<sessionVars, notices, reading, muted, departed>>

\* The grant_request and grant_established messages of request_grant and
\* approve_grant_request: take_notify is called, and its sender then carries an
\* identity_persisted event, on which no client dequeues.  Approval does not look
\* whether the name is routed.
EnqueueGrantEvent(n) ==
    LET h == nameToToken[n] IN
    /\ agents[n] # None \/ (LateMail /\ n \in departed)
    /\ Push(n, None)
    /\ kick' = kick \cup {n}
    /\ IF Wakes(n)
       THEN /\ suppressed' = [suppressed EXCEPT ![h] = TRUE]
            /\ muted' = [muted EXCEPT ![h] = TRUE]
       ELSE UNCHANGED <<suppressed, muted>>
    /\ UNCHANGED <<sessionVars, sending, notices, reading, departed>>

\* send() without a grant: a hint goes to the sender's own mailbox.
NoGrantHint(t) ==
    /\ Live(t)
    /\ tokenToName[t] # None
    /\ Push(tokenToName[t], None)
    /\ TakeNotify(tokenToName[t])
    /\ UNCHANGED <<sessionVars, kick, notices, reading, muted, departed>>

\* The notify event is sent, the lock long released.
SendNotice(t) ==
    /\ sending[t] > 0
    /\ sending' = [sending EXCEPT ![t] = @ - 1]
    /\ notices' = [notices EXCEPT ![t] = @ + 1]
    /\ UNCHANGED <<sessionVars, queue, kick, suppressed, reading, muted, departed>>

\* The client reads it.
ReceiveNotice(t) ==
    /\ notices[t] > 0
    /\ notices' = [notices EXCEPT ![t] = @ - 1]
    /\ reading' = [reading EXCEPT ![t] = TRUE]
    /\ UNCHANGED <<sessionVars, queue, kick, suppressed, sending, muted, departed>>

-----------------------------------------------------------------------------
(* POST /messages/queue/pop                                                *)

\* Position of the message a dequeue takes, 0 if there is none.
NextFor(q, th) ==
    IF th # None THEN SelectInSeq(q, LAMBDA m : m = th)
    ELSE IF q = <<>> THEN 0 ELSE 1

\* What is left of the mailbox, and what the answer calls remaining.
Rest(q, th)      == IF NextFor(q, th) = 0 THEN q ELSE RemoveAt(q, NextFor(q, th))
Remaining(q, th) == IF NextFor(q, th) = 0 THEN 0 ELSE Len(q) - 1

\* (defect) The mailbox is looked at before the message is taken.
KickAfterLate(n, q, th) == IF q = <<>> THEN kick \ {n} ELSE kick

\* kick_pending goes when the mailbox has been emptied; a filtered dequeue
\* that takes nothing does not look.
KickAfter(n, q, th) ==
    IF Rest(q, th) = <<>> /\ (th = None \/ NextFor(q, th) # 0) THEN kick \ {n} ELSE kick

\* (defect) The interlock is not re-armed.
DequeueNoRearm(t, th) ==
    LET n == stName[t]
        q == queue[n]
    IN  /\ Live(t)
        /\ n # None
        /\ queue' = [queue EXCEPT ![n] = Rest(q, th)]
        /\ kick' = KickAfter(n, q, th)
        /\ reading' = [reading EXCEPT ![t] = Remaining(q, th) > 0]
        /\ UNCHANGED <<sessionVars, suppressed, sending, notices, muted, departed>>

Dequeue(t, th) ==
    LET n == stName[t]
        q == queue[n]
    IN  /\ Live(t)
        /\ n # None
        /\ Rearm(t)
        /\ queue' = [queue EXCEPT ![n] = Rest(q, th)]
        /\ kick' = KickAfter(n, q, th)
        /\ reading' = [reading EXCEPT ![t] = Remaining(q, th) > 0]
        /\ UNCHANGED <<sessionVars, sending, notices, departed>>

\* Without a name there is nothing to read, and nothing is re-armed.
DequeueUnnamed(t) ==
    /\ Live(t)
    /\ stName[t] = None
    /\ reading' = [reading EXCEPT ![t] = FALSE]
    /\ UNCHANGED <<sessionVars, queue, kick, suppressed, sending, notices, muted, departed>>

\* DELETE /messages/queue.  What does not match the filter is gone as well.
DrainQueue(t, th) ==
    /\ Live(t)
    /\ stName[t] # None
    /\ Rearm(t)
    /\ queue' = [queue EXCEPT ![stName[t]] = <<>>]
    /\ kick' = kick \ {stName[t]}
    /\ reading' = [reading EXCEPT ![t] = FALSE]
    /\ UNCHANGED <<sessionVars, sending, notices, departed>>

-----------------------------------------------------------------------------
(* Session handlers.                                                       *)

\* The channel of t's stream is gone with everything in it or on its way.  (The
\* client may still find a notify among the bytes that reached it, and dequeue;
\* it may dequeue at any time anyway.)
LoseChannel(t) ==
    /\ sending' = [sending EXCEPT ![t] = 0]
    /\ notices' = [notices EXCEPT ![t] = 0]
    /\ reading' = [reading EXCEPT ![t] = FALSE]

DiscardMail(n) ==
    /\ queue' = [queue EXCEPT ![n] = <<>>]
    /\ kick' = kick \ {n}

\* Names a step takes off the routing table (history, for EnqueueLate).
NoteDeparted ==
    departed' = departed \cup {n \in Name : LateMail /\ agents[n] # None /\ agents'[n] = None}

\* (defect) Mail that came while the client was away is not looked for.
NobodyWaits(t) == FALSE

\* Is there mail for the name t has been left with by open_listen?
MailWaiting(t) == stName'[t] # None /\ queue[stName'[t]] # <<>>

\* SIM-1: a new stream starts armed, or with a catch-up notify if mail waits.
MailOpenListen(t, want, force) ==
    /\ OpenListen(t, want, force)
    /\ suppressed' = [suppressed EXCEPT ![t] = MailWaiting(t)]
    /\ muted' = [muted EXCEPT ![t] = FALSE]
    /\ sending' = [sending EXCEPT ![t] = 0]
    /\ notices' = [notices EXCEPT ![t] = IF MailWaiting(t) THEN 1 ELSE 0]
    /\ reading' = [reading EXCEPT ![t] = FALSE]
    /\ UNCHANGED <<queue, kick, departed>>

\* A disconnect, or DELETE /listen: the mail stays.
MailStreamEnds(t) ==
    /\ DropCurrentStream(t) \/ CancelListen(t)
    /\ LoseChannel(t)
    /\ NoteDeparted
    /\ UNCHANGED <<queue, kick, suppressed, muted>>

MailRevokeByName(g, n) ==
    LET h == nameToToken[n] IN
    /\ RevokeByName(g, n)
    /\ DiscardMail(n)
    /\ IF h # None /\ Known(h) THEN LoseChannel(h) ELSE UNCHANGED <<sending, notices, reading>>
    /\ NoteDeparted
    /\ UNCHANGED <<suppressed, muted>>

MailDeleteSelf(t) ==
    /\ DeleteSelf(t)
    /\ IF tokenToName[t] # None THEN DiscardMail(tokenToName[t]) ELSE UNCHANGED <<queue, kick>>
    /\ LoseChannel(t)
    /\ NoteDeparted
    /\ UNCHANGED <<suppressed, muted>>

MailGcToken(t) ==
    /\ GcToken(t)
    /\ IF stName[t] # None THEN DiscardMail(stName[t]) ELSE UNCHANGED <<queue, kick>>
    /\ LoseChannel(t)
    /\ NoteDeparted
    /\ Rearm(t)

\* The mail stays for the new holder.
MailRebindName(g, n, t) ==
    LET old == nameToToken[n] IN
    /\ RebindName(g, n, t)
    /\ IF old = None
       THEN UNCHANGED <<suppressed, muted, sending, notices, reading>>
       ELSE LoseChannel(old) /\ Rearm(old)
    /\ UNCHANGED <<queue, kick, departed>>

\* Session steps that leave mailboxes and channels alone.
OtherSessionStep ==
    \/ \E t \in Token : \/ AdmitRegistration(t)
                        \/ RegisterParticipant(t)
                        \/ DropStaleStream(t)
                        \/ BecomeGovernor(t)
                        \/ MarkGranted(t)
    \/ \E t \in Token, n \in Name : \/ ReAnnounce(t, n)
                                    \/ AnnounceNew(t, n)
                                    \/ AnnounceDangling(t, n)
    \/ \E g, t \in Token : IssueParticipantToken(g, t)
    \/ \E n \in Name : RegistryLapse(n)
    \/ AdminResetGovernor

-----------------------------------------------------------------------------
MailStep ==
    \/ \E n \in Name, m \in Message : Enqueue(n, m)
    \/ \E n \in Name : EnqueueLate(n) \/ EnqueueGrantEvent(n)
    \/ \E t \in Token :
          \/ NoGrantHint(t)
          \/ SendNotice(t)
          \/ ReceiveNotice(t)
          \/ DequeueUnnamed(t)
          \/ \E th \in Message : Dequeue(t, th) \/ DrainQueue(t, th)

MailboxNext ==
    \/ MailStep
    \/ \E t \in Token :
          \/ \E want \in Name \cup {None}, force \in BOOLEAN : MailOpenListen(t, want, force)
          \/ MailStreamEnds(t)
          \/ MailDeleteSelf(t)
          \/ MailGcToken(t)
    \/ \E g \in Token, n \in Name : MailRevokeByName(g, n)
    \/ \E g, t \in Token, n \in Name : MailRebindName(g, n, t)
    \/ OtherSessionStep /\ UNCHANGED mailVars

MailboxSpec == MailboxInit /\ [][MailboxNext]_vars

\* A client that has been notified goes on dequeuing, without a filter.
ClientReads(t) ==
    /\ reading[t]
    /\ Dequeue(t, None) \/ DequeueUnnamed(t)

\* The thread that released the lock runs on.  The client follows the protocol:
\* it may disconnect and reconnect at any time, but one that is notified again
\* and again does get to reading its stream and its mailbox.
MailboxFairness ==
    \A t \in Token : /\ WF_vars(SendNotice(t))
                     /\ SF_vars(ReceiveNotice(t))
                     /\ SF_vars(ClientReads(t))

FairMailboxSpec == MailboxSpec /\ SessionsFairness /\ MailboxFairness
-----------------------------------------------------------------------------
(* Correctness.                                                            *)

\* Is a client that looks at its stream, or goes on with what it is doing,
\* going to dequeue?
WillRead(t) == sending[t] > 0 \/ notices[t] > 0 \/ reading[t]

\* Is the mailbox t reads the only one it is woken for?  (A token that announces
\* a second name keeps holding the first.)
HoldsOneName(t) == \A n \in Name : nameToToken[n] = t => stName[t] = n

\* SIM-1: the interlock never sticks.  While a client that keeps to one name has
\* a stream, its wake-ups are suppressed only if one is under way or being acted
\* on, whatever was superseded, cancelled, rebound or lost on the way here; or if
\* it was spent on a grant event (see ArrivalsAreNotified).
InterlockNeverStuck ==
    \A t \in Token :
        Live(t) /\ stream[t] /\ suppressed[t] /\ ~muted[t] /\ HoldsOneName(t) => WillRead(t)

\* Mail never waits unannounced: a named client with a counted stream that has
\* seen remaining = 0, and since then neither a notify nor a grant event, has an
\* empty mailbox.  Holds for clients that keep to one name and do not filter
\* (Thread = {}), and names that are not written to after their deletion
\* (LateMail = FALSE).  (take_notify, dequeue, open_listen's catch-up notify)
IdleMeansRead ==
    \A t \in Token :
        /\ Live(t) /\ stName[t] # None /\ HoldsOneName(t)
        /\ stream[t] /\ IsSseAlive(t)
        /\ ~muted[t] /\ ~WillRead(t)
        => queue[stName[t]] = <<>>

\* A kick is never an empty promise: a name in kick_pending (kick_pending_for)
\* has mail, through filtered reads, drains, deletions and late arrivals.
\* (The converse fails: the hint of a refused send is queued without a kick.)
KickedNamesHaveMail == \A n \in kick : queue[n] # <<>>

\* Mail outlives sessions: a mailbox loses messages only to a read by the token
\* that speaks for its name, or with the deletion of that name; supersession,
\* unsubscribing, collection and rebinding lose none.
LosesToReaderOnly ==
    \A n \in Name : Len(queue'[n]) < Len(queue[n]) =>
        \/ /\ sessionVars' = sessionVars
           /\ \E t \in Token : Live(t) /\ tokenToName[t] = n
        \/ n \notin identities'
MailOutlivesSessions == [][LosesToReaderOnly]_vars

\* A suppressed client that keeps to one name is eventually re-armed, unless it
\* goes away or its wake-up was spent on a grant event.
WakeupsAreAnswered ==
    \A t \in Token : suppressed[t] /\ stream[t] /\ Live(t) ~>
        ~suppressed[t] \/ muted[t] \/ ~stream[t] \/ ~Live(t) \/ ~HoldsOneName(t)

-----------------------------------------------------------------------------
(* What the documentation says and the code does not do.                   *)

\* "NOTIFY fires (queue empty -> non-empty transition)": a client that keeps to
\* one name and has mail it does not know of is not left suppressed.
ArrivalsAreNotified ==
    \A t \in Token :
        /\ Live(t) /\ stream[t] /\ HoldsOneName(t)
        /\ stName[t] # None /\ queue[stName[t]] # <<>> /\ suppressed[t]
        => WillRead(t)
=============================================================================
