------------------------- MODULE AttachmentsProofs -------------------------
(***************************************************************************)
(* Proofs about module Attachments, for any sets of tokens, names, files   *)
(* and slots, any terms and any bounds.                                    *)
(*                                                                         *)
(* Uploads and downloads leave what Messaging has alone, so Attachments    *)
(* implements Messaging and what holds there holds here.  What is left to  *)
(* show is about the order in which an upload stores and tells             *)
(* (ToldFilesAreStored); none of it rests on what becomes of the parties.  *)
(***************************************************************************)
EXTENDS Attachments, MessagingProofs

(* A file neither grants, revokes or rebinds anything, nor counts as a     *)
(* message.                                                                *)
THEOREM AttachmentsImplementMessaging == AttachmentsSpec => MessagingSpec
<1>1. AttachmentsInit => MessagingInit
  BY DEF AttachmentsInit
<1>2. ASSUME [AttachmentsNext]_attachmentsVars
      PROVE  [MessagingNext]_allVars
  <2>1. CASE DeletionWithMail
    BY <2>1 DEF DeletionWithMail, MessagingNext, GrantsNext, DeletionStep, messagingVars
  <2>2. CASE CollectionWithMail
    BY <2>2 DEF CollectionWithMail, MessagingNext, GrantsNext, KeepingStep, messagingVars
  <2>3. CASE OtherStep
    BY <2>3 DEF OtherStep, MessagingNext, GrantsNext
  <2>4. CASE UNCHANGED allVars
    BY <2>4
  <2>5. CASE UNCHANGED attachmentsVars
    BY <2>5 DEF attachmentsVars
  <2> QED
    BY <1>2, <2>1, <2>2, <2>3, <2>4, <2>5
       DEF AttachmentsNext, AttachStart, StoreBlob, TellRecipient, FileLapses, ReadNotice,
           FetchStart, FetchEnds
<1> QED
  BY <1>1, <1>2, PTL DEF AttachmentsSpec, MessagingSpec

-----------------------------------------------------------------------------
(* Nothing was sent yet.                                                   *)
LEMMA AttachmentsInitInv == AttachmentsInit => AttachmentsInv
BY MessagingInitInv
   DEF AttachmentsInit, AttachmentsInv, AttachmentsTypeOK, ToldFilesAreStored, MessagingInv

(* Deletions and collections take notices away and leave the files.        *)
LEMMA DiscardingKeepsFiles ==
    ASSUME AttachmentsInv, MessagingTypeOK', NEW names, DiscardNotices(names),
           UNCHANGED <<uploads, phase, blobs, lapsed, heard, fetching>>
    PROVE  AttachmentsInv'
BY DEF DiscardNotices, AttachmentsInv, AttachmentsTypeOK, ToldFilesAreStored

(* A file goes from its grant check to its notice in this order only.      *)
LEMMA UploadKeepsInv ==
    ASSUME AttachmentsInv, MessagingTypeOK', NEW f \in File,
           \/ \E t \in Token, n \in Name : AttachStart(t, n, f)
           \/ StoreBlob(f)
           \/ TellRecipient(f)
           \/ FileLapses(f)
    PROVE  AttachmentsInv'
<1> USE DEF AttachmentsInv, AttachmentsTypeOK, ToldFilesAreStored
<1>1. CASE \E t \in Token, n \in Name : AttachStart(t, n, f)
  BY <1>1 DEF AttachStart, Upload
<1>2. CASE StoreBlob(f)
  BY <1>2 DEF StoreBlob, Swept
<1>3. CASE TellRecipient(f)
  BY <1>3 DEF TellRecipient, Upload
<1>4. CASE FileLapses(f)
  BY <1>4 DEF FileLapses
<1> QED
  BY <1>1, <1>2, <1>3, <1>4

(* Reading a notice and fetching a file change no file that is in force.   *)
LEMMA DownloadKeepsInv ==
    ASSUME AttachmentsInv, MessagingTypeOK',
           \/ \E t \in Token, f \in File : ReadNotice(t, f) \/ FetchStart(t, f)
           \/ \E d \in fetching : FetchEnds(d)
    PROVE  AttachmentsInv'
<1> USE DEF AttachmentsInv, AttachmentsTypeOK, ToldFilesAreStored
<1>1. ASSUME NEW t \in Token, NEW f \in File, ReadNotice(t, f)
      PROVE  AttachmentsInv'
  BY <1>1 DEF ReadNotice
<1>2. ASSUME NEW t \in Token, NEW f \in File, FetchStart(t, f), DirectoryTypeOK
      PROVE  AttachmentsInv'
  BY <1>2 DEF FetchStart, DirectoryTypeOK
<1>3. ASSUME NEW d \in fetching, FetchEnds(d)
      PROVE  AttachmentsInv'
  BY <1>3 DEF FetchEnds, Swept
<1>4. DirectoryTypeOK
  BY DEF MessagingTypeOK, GrantsTypeOK
<1> QED
  BY <1>1, <1>2, <1>3, <1>4

(* Every file somebody was told of is stored until its time is up.         *)
THEOREM AttachmentsInvariant == AttachmentsSpec => []AttachmentsInv
<1>1. ASSUME AttachmentsInv, MessagingTypeOK', [AttachmentsNext]_attachmentsVars
      PROVE  AttachmentsInv'
  <2>1. CASE DeletionWithMail
    BY <1>1, <2>1, DiscardingKeepsFiles DEF DeletionWithMail
  <2>2. CASE CollectionWithMail
    BY <1>1, <2>2, DiscardingKeepsFiles DEF CollectionWithMail
  <2>3. CASE UNCHANGED fileVars
    BY <1>1, <2>3 DEF fileVars, AttachmentsInv, AttachmentsTypeOK, ToldFilesAreStored
  <2> QED
    BY <1>1, <2>1, <2>2, <2>3, UploadKeepsInv, DownloadKeepsInv
       DEF AttachmentsNext, OtherStep, attachmentsVars
<1> QED
  BY <1>1, AttachmentsInitInv, AttachmentsImplementMessaging, MessagingTyped, PTL
     DEF AttachmentsSpec

(* Every state is well typed.                                              *)
THEOREM AttachmentsTyped == AttachmentsSpec => []AttachmentsTypeOK
BY AttachmentsInvariant, PTL DEF AttachmentsInv

(* Who is told of a file can fetch it until its time is up, whatever has   *)
(* happened to the grant, the sender and the name since it was checked.    *)
THEOREM ToldCanFetchHolds == AttachmentsSpec => []ToldCanFetch
<1>1. AttachmentsInv => ToldCanFetch
  BY DEF AttachmentsInv, AttachmentsTypeOK, ToldFilesAreStored, ToldCanFetch, CanFetch,
         Answers, Swept, MayFetch
<1> QED
  BY <1>1, AttachmentsInvariant, PTL

(* Besides its sender, one token at a time can have a file: no two tokens  *)
(* speak for the name it was sent to.                                      *)
THEOREM OneReaderPerFileHolds == AttachmentsSpec => []OneReaderPerFile
<1>1. ASSUME AttachmentsInv, GrantsInv
      PROVE  OneReaderPerFile
  <2> SUFFICES ASSUME NEW t \in Token, NEW u \in Token, NEW f \in File,
                      CanFetch(t, f), CanFetch(u, f), uploads[f].from \notin {t, u}
               PROVE  t = u
    BY DEF OneReaderPerFile
  <2>1. uploads[f] \in Upload
    BY <1>1 DEF CanFetch, Answers, Swept, AttachmentsInv, AttachmentsTypeOK
  <2>2. tokenToName[t] = uploads[f].to /\ tokenToName[u] = uploads[f].to
    BY DEF CanFetch, Answers, MayFetch
  <2>3. uploads[f].to # None
    BY <2>1, DirectoryAssumption DEF Upload
  <2> QED
    BY <1>1, <2>2, <2>3 DEF GrantsInv, DirectoryInv, SpeakersHold
<1> QED
  BY <1>1, AttachmentsInvariant, AttachmentsImplementMessaging, MessagingImplementsGrants,
     GrantsInvariant, PTL
=============================================================================
