---------------------------- MODULE Attachments ----------------------------
(***************************************************************************)
(* Files: POST /attachments and GET /attachments/{id}                      *)
(* (attach and fetch_attachment of src/src/delivery.rs, the attachments    *)
(* table of src/src/persistence.rs).                                       *)
(*                                                                         *)
(* An upload looks for a grant under the hub's lock, stores the file       *)
(* without it, and puts a notice with the file's number into the           *)
(* recipient's mailbox under the lock again, whatever has become of        *)
(* sender, recipient and grant meanwhile.  A download notes under the lock *)
(* who asks, and reads the table without it.                               *)
(*                                                                         *)
(* The module adds files and their notices to module Messaging; the other  *)
(* mail of a mailbox is module Mailbox.  A file's time may be up at any    *)
(* moment; it is deleted only when the next upload or download sweeps.     *)
(***************************************************************************)
EXTENDS Messaging

CONSTANT File    \* numbers of uploads, each used once (att-<random>)

VARIABLES
    uploads,    \* who sends which file to whom, from the grant check on
    phase,      \* how far the upload of a file has come
    blobs,      \* the rows of table attachments
    lapsed,     \* the files whose expires_at has passed
    inbox,      \* the notices in the mailboxes: (name, file)
    heard,      \* the notices that have been read: (token, file)
    fetching    \* downloads that have yet to read the table: token, its name, file

fileVars        == <<uploads, phase, blobs, lapsed, inbox, heard, fetching>>
attachmentsVars == <<allVars, fileVars>>

Upload == [from : Token, to : Name]

AttachmentsTypeOK ==
    /\ MessagingTypeOK
    /\ uploads \in [File -> Upload \cup {None}]
    /\ phase \in [File -> {"unused", "checked", "stored", "told", "failed"}]
    /\ blobs \subseteq {f \in File : phase[f] \in {"stored", "told"}}
    /\ lapsed \subseteq {f \in File : phase[f] \in {"stored", "told"}}
    /\ inbox \subseteq Name \X File
    /\ heard \subseteq Token \X File
    /\ fetching \subseteq Token \X (Name \cup {None}) \X File
    /\ \A f \in File : phase[f] # "unused" => uploads[f] \in Upload

AttachmentsInit ==
    /\ MessagingInit
    /\ uploads = [f \in File |-> None]
    /\ phase = [f \in File |-> "unused"]
    /\ blobs = {}
    /\ lapsed = {}
    /\ inbox = {}
    /\ heard = {}
    /\ fetching = {}

-----------------------------------------------------------------------------
(* POST /attachments                                                       *)

\* Looks for a grant as send does, but not for a block; nothing is charged to
\* the grant and nothing is held for its governor.
AttachStart(t, n, f) ==
    /\ Live(t)
    /\ tokenToName[t] # None
    /\ agents[n] # None
    /\ Usable(t, n) # {}
    /\ phase[f] = "unused"
    /\ phase' = [phase EXCEPT ![f] = "checked"]
    /\ uploads' = [uploads EXCEPT ![f] = [from |-> t, to |-> n]]
    /\ UNCHANGED <<allVars, blobs, lapsed, inbox, heard, fetching>>

\* gc_expired_attachments
Swept == blobs \ lapsed

\* (defect) The recipient is told first.
StoreBlobTold(f) ==
    /\ phase[f] = "checked"
    /\ inbox' = inbox \cup {<<uploads[f].to, f>>}
    /\ \/ phase' = [phase EXCEPT ![f] = "stored"] /\ blobs' = Swept \cup {f}
       \/ phase' = [phase EXCEPT ![f] = "failed"] /\ blobs' = Swept
    /\ UNCHANGED <<allVars, uploads, lapsed, heard, fetching>>

\* (defect) An upload that has failed leaves its row behind.
StoreBlobAnyway(f) ==
    /\ phase[f] = "checked"
    /\ \E outcome \in {"stored", "failed"} : phase' = [phase EXCEPT ![f] = outcome]
    /\ blobs' = Swept \cup {f}
    /\ UNCHANGED <<allVars, uploads, lapsed, inbox, heard, fetching>>

\* Sweeps, and inserts the file, which may fail.
StoreBlob(f) ==
    /\ phase[f] = "checked"
    /\ \/ phase' = [phase EXCEPT ![f] = "stored"] /\ blobs' = Swept \cup {f}
       \/ phase' = [phase EXCEPT ![f] = "failed"] /\ blobs' = Swept
    /\ UNCHANGED <<allVars, uploads, lapsed, inbox, heard, fetching>>

TellRecipient(f) ==
    /\ phase[f] = "stored"
    /\ phase' = [phase EXCEPT ![f] = "told"]
    /\ inbox' = inbox \cup {<<uploads[f].to, f>>}
    /\ UNCHANGED <<allVars, uploads, blobs, lapsed, heard, fetching>>

FileLapses(f) ==
    /\ phase[f] \in {"stored", "told"}
    /\ f \notin lapsed
    /\ lapsed' = lapsed \cup {f}
    /\ UNCHANGED <<allVars, uploads, phase, blobs, inbox, heard, fetching>>

-----------------------------------------------------------------------------
(* The recipient.                                                          *)

\* dequeue
ReadNotice(t, f) ==
    /\ Live(t)
    /\ tokenToName[t] # None
    /\ <<tokenToName[t], f>> \in inbox
    /\ inbox' = inbox \ {<<tokenToName[t], f>>}
    /\ heard' = heard \cup {<<t, f>>}
    /\ UNCHANGED <<allVars, uploads, phase, blobs, lapsed, fetching>>

\* (defect) Who has been told of a file may have it for good.
MayFetchEver(t, name, f) == t = uploads[f].from \/ name = uploads[f].to \/ <<t, f>> \in heard

\* The sender's token, or whoever spoke for the recipient's name.
MayFetch(t, name, f) == t = uploads[f].from \/ name = uploads[f].to

\* GET /attachments/{f}, under the lock ...
FetchStart(t, f) ==
    /\ Live(t)
    /\ uploads[f] # None
    /\ fetching' = fetching \cup {<<t, tokenToName[t], f>>}
    /\ UNCHANGED <<allVars, uploads, phase, blobs, lapsed, inbox, heard>>

\* ... and after it.  The answer is the file if it is still there and allowed.
Answers(d) == d[3] \in Swept /\ MayFetch(d[1], d[2], d[3])

FetchEnds(d) ==
    /\ d \in fetching
    /\ fetching' = fetching \ {d}
    /\ blobs' = Swept
    /\ UNCHANGED <<allVars, uploads, phase, lapsed, inbox, heard>>

-----------------------------------------------------------------------------
(* The mail of a deleted name goes with it.  A notice that came too late to *)
(* a name nobody has goes with the last token that had it.                  *)

DiscardNotices(names) == inbox' = {p \in inbox : p[1] \notin names}

DeletionWithMail ==
    /\ \/ \E t \in Token : DeleteIdentity(t) /\ DiscardNotices({tokenToName[t]})
       \/ \E g \in Token, n \in Name : DeleteParticipant(g, n) /\ DiscardNotices({n})
    /\ UNCHANGED <<messagingVars, uploads, phase, blobs, lapsed, heard, fetching>>

CollectionWithMail ==
    /\ \E t \in Token, n \in Name \ identities :
          Collect(t) /\ DiscardNotices({n})
    /\ UNCHANGED <<grantVars, messagingVars, uploads, phase, blobs, lapsed, heard, fetching>>

OtherStep ==
    /\ \/ MessagingStep
       \/ GrantStep /\ UNCHANGED messagingVars
       \/ KeepingStep /\ UNCHANGED <<grantVars, messagingVars>>
    /\ UNCHANGED fileVars

AttachmentsNext ==
    \/ \E t \in Token, f \in File :
          \/ \E n \in Name : AttachStart(t, n, f)
          \/ ReadNotice(t, f)
          \/ FetchStart(t, f)
    \/ \E f \in File : StoreBlob(f) \/ TellRecipient(f) \/ FileLapses(f)
    \/ \E d \in fetching : FetchEnds(d)
    \/ DeletionWithMail
    \/ CollectionWithMail
    \/ OtherStep

AttachmentsSpec == AttachmentsInit /\ [][AttachmentsNext]_attachmentsVars

-----------------------------------------------------------------------------
(* Correctness.                                                            *)

\* Would a request of t for f be answered with the file?
CanFetch(t, f) == Live(t) /\ Answers(<<t, tokenToName[t], f>>)

\* Nobody is told of a file it cannot have: who speaks for a name can fetch every
\* file with a notice in its mailbox, and every file it, or an earlier token of
\* the name, has read a notice of, until the file's time is up.  Whatever has
\* happened to the sender, the grant and the name while the file was stored and
\* since (attach stores before it queues; fetch_attachment goes by the name).
ToldCanFetch ==
    \A t \in Token, f \in File :
        /\ Live(t) /\ tokenToName[t] # None /\ f \notin lapsed
        /\ \/ <<tokenToName[t], f>> \in inbox
           \/ uploads[f] # None /\ uploads[f].to = tokenToName[t] /\ \E u \in Token : <<u, f>> \in heard
        => CanFetch(t, f)

\* Besides its sender, one token at a time passes the check for a file: a rebind
\* takes it from the old token when it gives it to the new one (fetch_attachment,
\* issue_participant_token).  This is about requests made now.  A download whose
\* caller was noted before the rebind (fetching) is still answered after it, so
\* the old token may have the file in its hands a moment longer.
OneReaderPerFile ==
    \A t, u \in Token, f \in File :
        CanFetch(t, f) /\ CanFetch(u, f) => t = u \/ uploads[f].from \in {t, u}

\* A file is in the table from the time it is stored until its time is up, and a
\* notice is about a file that was sent to the name.
ToldFilesAreStored ==
    /\ \A f \in File : phase[f] \in {"stored", "told"} => f \in blobs \cup lapsed
    /\ \A p \in inbox : phase[p[2]] = "told" /\ uploads[p[2]].to = p[1]
    /\ \A p \in heard : phase[p[2]] = "told"

\* What the proofs carry along, besides the invariants of Messaging.
AttachmentsInv == AttachmentsTypeOK /\ ToldFilesAreStored
=============================================================================
