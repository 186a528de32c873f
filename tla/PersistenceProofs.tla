------------------------- MODULE PersistenceProofs -------------------------
(***************************************************************************)
(* Proofs about module Persistence, for any number of tokens, names,       *)
(* grants and writing handlers, and any number of restarts.                *)
(*                                                                         *)
(* A handler that stores what it does takes a step of module Grants, so    *)
(* only a restart can bring the hub into a state that Grants does not      *)
(* reach.  It does: a crash between two statements may leave a grant       *)
(* whose parties are gone, and tables with two tokens of one name leave a  *)
(* hub with two voices for it (doubled), where not even the directory's    *)
(* invariant holds, and a lost name may be given back (HubStep).  What     *)
(* survives every restart is HubInv: types and the numbering of grants     *)
(* always, the directory's invariant and a registered governor unless two  *)
(* tokens of one name were loaded.  For the numbering, what is on disk or  *)
(* about to be written must be numbered too (NumberedStatement), and the   *)
(* count that a restart takes from the loaded grants must be their highest *)
(* number (LoadedCountIsMax).                                              *)
(*                                                                         *)
(* That what was answered is durable, and that parties survive a restart,  *)
(* needs the rows and the statements that are due compared with the hub    *)
(* (RowsAgree), which is kept as long as no two handlers write at the same *)
(* time and no name has two voices, and sound holders: a name is only      *)
(* moved from, or bound over, a token whose row is written again           *)
(* (DurableInv).  A restart between two requests then loses nothing        *)
(* (RestartLosesNothing), but for who holds a name of which it finds a     *)
(* second token.                                                           *)
(***************************************************************************)
EXTENDS Persistence, GrantsProofs, WellFoundedInduction, SequenceTheorems

-----------------------------------------------------------------------------
(* POST /listen gives a lost name back: no step of module Grants, where    *)
(* none is ever lost.                                                      *)
LostNameReturns == (\E t \in Token : GiveBack(t)) /\ UNCHANGED grantVars

HubStep == [GrantsNext]_vars \/ LostNameReturns

(* A handler that writes takes a step of module Grants when it has the     *)
(* lock, and none afterwards.                                              *)
LEMMA HandlersTakeHubSteps ==
    ASSUME [PersistenceNext]_persistenceVars, ~Restart
    PROVE  HubStep
<1> USE DEF vars, grantVars, GrantsNext
<1>1. ASSUME UnstoredStep PROVE GrantsNext \/ LostNameReturns
  BY <1>1 DEF UnstoredStep, GrantStep, KeepingStep, LostNameReturns
<1>2. ASSUME NEW w \in Writer, StoredStep(w) PROVE [GrantsNext]_vars
  <2> USE DEF GrantStep, KeepingStep, DeletionStep
  <2>1. CASE ResetAndStore(w)
    BY <2>1 DEF ResetAndStore, ResetGovernor, directoryVars
  <2>2. ASSUME NEW t \in Token, DeleteIdentityAndStore(w, t) PROVE GrantsNext
    BY <2>2 DEF DeleteIdentityAndStore
  <2>3. ASSUME NEW t \in Token, AppointAndStore(w, t) PROVE GrantsNext
    BY <2>3 DEF AppointAndStore
  <2>4. ASSUME NEW t \in Token, NEW n \in Name,
               BindAndStore(w, t, n) \/ DeleteParticipantAndStore(w, t, n)
        PROVE  GrantsNext
    BY <2>4 DEF BindAndStore, DeleteParticipantAndStore
  <2>5. ASSUME NEW t \in Token, NEW n \in Name, NEW u \in Token, RebindAndStore(w, t, n, u)
        PROVE  GrantsNext
    BY <2>5 DEF RebindAndStore
  <2>6. ASSUME NEW t \in Token, NEW r \in RequestSlot, EstablishAndStore(w, t, r)
        PROVE  GrantsNext
    BY <2>6 DEF EstablishAndStore
  <2>7. ASSUME NEW t \in Token, NEW r \in RequestSlot, NEW kind \in {"timed", "permanent"},
               DenyAndStore(w, t, r, kind)
        PROVE  GrantsNext
    BY <2>7 DEF DenyAndStore
  <2>8. ASSUME NEW t \in Token, NEW i \in GrantId, RevokeGrantAndStore(w, t, i)
        PROVE  GrantsNext
    BY <2>8 DEF RevokeGrantAndStore
  <2>9. ASSUME NEW t \in Token, NEW u \in Token, NEW n \in Name, UnblockAndStore(w, t, u, n)
        PROVE  GrantsNext
    BY <2>9 DEF UnblockAndStore
  <2>10. ASSUME NEW t \in Token, NEW u \in Token, NEW n \in Name,
                NEW kind \in {"timed", "permanent"}, BlockAndStore(w, t, u, n, kind)
         PROVE  GrantsNext
    BY <2>10 DEF BlockAndStore
  <2>11. ASSUME NEW terms \in Terms, ApproveAndStore(w, terms) PROVE GrantsNext
    BY <2>11 DEF ApproveAndStore
  <2> HIDE DEF GrantsNext
  <2> QED
    BY <1>2, <2>1, <2>2, <2>3, <2>4, <2>5, <2>6, <2>7, <2>8, <2>9, <2>10, <2>11
       DEF StoredStep
<1>3. ASSUME NEW w \in Writer, WriteStep(w) PROVE UNCHANGED vars
  BY <1>3 DEF WriteStep
<1>4. ASSUME NEW i \in GrantId, GrantAndRowLapse(i) PROVE GrantsNext
  BY <1>4 DEF GrantAndRowLapse, GrantStep
<1>5. ASSUME NEW t \in Token, NEW n \in Name, DenialAndRowLapse(t, n) PROVE GrantsNext
  BY <1>5 DEF DenialAndRowLapse, GrantStep
<1>6. ASSUME UNCHANGED persistenceVars PROVE UNCHANGED vars
  BY <1>6 DEF persistenceVars
<1> HIDE DEF GrantsNext, LostNameReturns
<1> QED
  BY <1>1, <1>2, <1>3, <1>4, <1>5, <1>6 DEF PersistenceNext, HubStep

(* Only a restart forgets that writes were torn, or that a name had two    *)
(* voices.                                                                 *)
LEMMA HistoryIsKept ==
    ASSUME [PersistenceNext]_persistenceVars, ~Restart
    PROVE  UNCHANGED <<torn, doubled>>
<1>1. ASSUME NEW w \in Writer, StoredStep(w) PROVE UNCHANGED <<torn, doubled>>
  <2>1. ASSUME NEW batches, Store(w, batches) PROVE UNCHANGED <<torn, doubled>>
    BY <2>1 DEF Store
  <2> QED
    BY <1>1, <2>1
       DEF StoredStep, ResetAndStore, DeleteIdentityAndStore, AppointAndStore, BindAndStore,
           DeleteParticipantAndStore, RebindAndStore, EstablishAndStore, DenyAndStore,
           RevokeGrantAndStore, UnblockAndStore, BlockAndStore, ApproveAndStore
<1>2. ASSUME NEW w \in Writer, WriteStep(w) PROVE UNCHANGED <<torn, doubled>>
  BY <1>2 DEF WriteStep
<1>3. ASSUME NEW i \in GrantId, GrantAndRowLapse(i) PROVE UNCHANGED <<torn, doubled>>
  BY <1>3 DEF GrantAndRowLapse
<1>4. ASSUME NEW t \in Token, NEW n \in Name, DenialAndRowLapse(t, n)
      PROVE  UNCHANGED <<torn, doubled>>
  BY <1>4 DEF DenialAndRowLapse
<1>5. ASSUME UNCHANGED storeVars PROVE UNCHANGED <<torn, doubled>>
  BY <1>5 DEF storeVars
<1> QED
  BY <1>1, <1>2, <1>3, <1>4, <1>5 DEF PersistenceNext, persistenceVars

-----------------------------------------------------------------------------
(* The grant handlers keep their types, and count the grants they make,    *)
(* whoever the parties of requests and grants are by now.                  *)
LEMMA GrantStepKeepsTypes ==
    ASSUME HubInv, GrantStep
    PROVE  /\ UNCHANGED directoryVars
           /\ GrantsTypeOK'
           /\ GrantsAreNumbered'
           /\ grantCount <= grantCount'
<1> USE GrantsAssumption, DirectoryAssumption
<1> DEFINE Kept == /\ UNCHANGED directoryVars
                   /\ GrantsTypeOK'
                   /\ GrantsAreNumbered'
                   /\ grantCount <= grantCount'
<1>0. GrantsTypeOK /\ DirectoryTypeOK /\ GrantsAreNumbered
  BY DEF HubInv, GrantsTypeOK
<1>1. ASSUME NEW r \in RequestSlot, NEW q \in Request \cup {None},
             requests' = [requests EXCEPT ![r] = q],
             UNCHANGED <<directoryVars, asking, grants, grantCount, denials, resolving>>
      PROVE  Kept
  BY <1>0, <1>1 DEF GrantsTypeOK, DirectoryTypeOK, directoryVars, GrantsAreNumbered
<1>2. ASSUME NEW g \in Grant, AddGrant(g), NEW q \in [RequestSlot -> Request \cup {None}],
             requests' = q, resolving' \in Resolution \cup {None},
             UNCHANGED <<directoryVars, asking, denials>>
      PROVE  Kept
  <2>1. /\ grants' \in [GrantId -> Grant \cup {None}]
        /\ grantCount' \in 0..MaxGrants
        /\ GrantsAreNumbered'
        /\ grantCount <= grantCount'
    BY <1>0, <1>2 DEF AddGrant, GrantsTypeOK, GrantsAreNumbered, GrantId
  <2> QED
    BY <1>0, <1>2, <2>1 DEF GrantsTypeOK, DirectoryTypeOK, directoryVars
<1>3. ASSUME NEW i \in GrantId, grants[i] # None, NEW g \in Grant \cup {None},
             grants' = [grants EXCEPT ![i] = g],
             UNCHANGED <<directoryVars, asking, requests, grantCount, denials, resolving>>
      PROVE  Kept
  BY <1>0, <1>3 DEF GrantsTypeOK, DirectoryTypeOK, directoryVars, GrantsAreNumbered
<1>4. ASSUME NEW p \in Token \X Name, NEW kind \in {"none", "timed", "permanent"},
             denials' = [denials EXCEPT ![p] = kind],
             requests' \in [RequestSlot -> Request \cup {None}],
             UNCHANGED <<directoryVars, asking, grants, grantCount, resolving>>
      PROVE  Kept
  BY <1>0, <1>4 DEF GrantsTypeOK, DirectoryTypeOK, directoryVars, GrantsAreNumbered
<1> USE <1>0 DEF GrantsTypeOK, DirectoryTypeOK, Pending
<1> HIDE DEF Kept
<1>5. ASSUME NEW t \in Token, NEW n \in Name, NEW r \in RequestSlot,
             RequestGrant(t, n, r) \/ RequestAgain(t, n, r) \/ Resubmit(t, n, r)
      PROVE  Kept
  <2>1. CASE RequestGrant(t, n, r)
    <3> DEFINE q == [fromName |-> FromName(t), toName |-> n, fromId |-> t,
                     toId |-> agents[n], stage |-> InitialStage,
                     approver |-> InitialApprover, expired |-> FALSE]
    <3>1. q \in Request
      BY <2>1 DEF RequestGrant, MayRequest, Request, FromName, InitialStage, InitialApprover
    <3> QED
      BY <1>1, <2>1, <3>1 DEF RequestGrant
  <2>2. CASE RequestAgain(t, n, r)
    <3> DEFINE q == [requests[r] EXCEPT !.stage = InitialStage,
                                        !.approver = InitialApprover, !.expired = FALSE]
    <3>1. requests[r] \in Request
      BY <2>2 DEF RequestAgain, IsFor
    <3>2. q \in Request /\ requests' = [requests EXCEPT ![r] = q]
      BY <2>2, <3>1 DEF RequestAgain, Request, InitialStage, InitialApprover
    <3> QED
      BY <1>1, <2>2, <3>2 DEF RequestAgain
  <2>3. CASE Resubmit(t, n, r)
    <3> DEFINE q == [requests[r] EXCEPT !.stage = "governor", !.expired = FALSE]
    <3>1. requests[r] \in Request
      BY <2>3 DEF Resubmit
    <3>2. q \in Request
      BY <2>3, <3>1 DEF Resubmit, Request
    <3>3. requests' = [requests EXCEPT ![r] = q]
      BY <2>3, <3>1 DEF Resubmit
    <3> QED
      BY <1>1, <2>3, <3>2, <3>3 DEF Resubmit
  <2> QED
    BY <1>5, <2>1, <2>2, <2>3
<1>6. ASSUME NEW r \in RequestSlot,
             RequestTimesOut(r) \/ \E t \in Token : GovernorApproves(t, r) \/ HoldGrantRequest(t, r)
      PROVE  Kept
  <2>1. CASE RequestTimesOut(r)
    <3> DEFINE q == [requests[r] EXCEPT !.expired = TRUE]
    <3>1. requests[r] \in Request
      BY <2>1 DEF RequestTimesOut
    <3>2. q \in Request
      BY <2>1, <3>1 DEF RequestTimesOut, Request
    <3>3. requests' = [requests EXCEPT ![r] = q]
      BY <2>1, <3>1 DEF RequestTimesOut
    <3> QED
      BY <1>1, <2>1, <3>2, <3>3 DEF RequestTimesOut
  <2>2. ASSUME NEW t \in Token, GovernorApproves(t, r) PROVE Kept
    <3> DEFINE q == [requests[r] EXCEPT !.stage = "recipient", !.approver = tokenToName[t],
                                        !.expired = FALSE]
    <3>1. requests[r] \in Request
      BY <2>2 DEF GovernorApproves
    <3>2. q \in Request
      BY <2>2, <3>1 DEF GovernorApproves, IsGovernor, Request
    <3>3. requests' = [requests EXCEPT ![r] = q]
      BY <2>2, <3>1 DEF GovernorApproves
    <3> QED
      BY <1>1, <2>2, <3>2, <3>3 DEF GovernorApproves
  <2>3. ASSUME NEW t \in Token, HoldGrantRequest(t, r) PROVE Kept
    <3> DEFINE q == [requests[r] EXCEPT !.stage = "governor"]
    <3>1. requests[r] \in Request
      BY <2>3 DEF HoldGrantRequest
    <3>2. q \in Request
      BY <2>3, <3>1 DEF HoldGrantRequest, Request
    <3>3. requests' = [requests EXCEPT ![r] = q]
      BY <2>3, <3>1 DEF HoldGrantRequest
    <3> QED
      BY <1>1, <2>3, <3>2, <3>3 DEF HoldGrantRequest
  <2> QED
    BY <1>6, <2>1, <2>2, <2>3
<1>7. ASSUME NEW t \in Token, NEW r \in RequestSlot, Establish(t, r) PROVE Kept
  <2> DEFINE q == requests[r]
             g == [a |-> q.fromId, b |-> q.toId, nameA |-> q.fromName, nameB |-> q.toName,
                   by |-> q.approver, terms |-> DefaultTerms, expired |-> FALSE,
                   direct |-> FALSE]
  <2>1. g \in Grant
    BY <1>7 DEF Establish, Request, Grant, DefaultTerms, TermsType
  <2>2. [requests EXCEPT ![r] = None] \in [RequestSlot -> Request \cup {None}]
    OBVIOUS
  <2> QED
    BY <1>2, <1>7, <2>1, <2>2 DEF Establish
<1>8. ASSUME NEW terms \in Terms, ApproveGrant(terms) PROVE Kept
  <2> DEFINE g == [a |-> resolving.a, b |-> resolving.b, nameA |-> resolving.nameA,
                   nameB |-> resolving.nameB, by |-> resolving.by, terms |-> terms,
                   expired |-> FALSE, direct |-> TRUE]
  <2>1. g \in Grant
    BY <1>8 DEF ApproveGrant, Resolution, Grant
  <2> QED
    BY <1>2, <1>8, <2>1 DEF ApproveGrant
<1>9. ASSUME NEW g \in Token, NEW a \in Token, NEW b \in Token, ResolveParties(g, a, b)
      PROVE  Kept
  <2>1. resolving' \in Resolution
    BY <1>9 DEF ResolveParties, IsGovernor, Resolution
  <2> QED
    BY <1>9, <2>1 DEF ResolveParties, Kept, directoryVars, GrantsAreNumbered
<1>10. ASSUME NEW i \in GrantId, GrantLapses(i) \/ \E g \in Token : RevokeGrant(g, i)
       PROVE  Kept
  <2>1. CASE GrantLapses(i)
    <3> DEFINE g == [grants[i] EXCEPT !.expired = TRUE]
    <3>1. grants[i] \in Grant
      BY <2>1 DEF GrantLapses
    <3>2. g \in Grant
      BY <3>1 DEF Grant
    <3>3. grants' = [grants EXCEPT ![i] = g]
      BY <2>1, <3>1 DEF GrantLapses
    <3> QED
      BY <1>3, <2>1, <3>2, <3>3 DEF GrantLapses
  <2> QED
    BY <1>3, <1>10, <2>1 DEF RevokeGrant
<1>11. ASSUME NEW t \in Token, NEW r \in RequestSlot, NEW kind \in {"timed", "permanent"},
              DenyGrantRequest(t, r, kind)
       PROVE  Kept
  <2>1. <<requests[r].fromId, requests[r].toName>> \in Token \X Name
    BY <1>11 DEF DenyGrantRequest, Request
  <2> QED
    BY <1>4, <1>11, <2>1 DEF DenyGrantRequest
<1>12. ASSUME NEW t \in Token, NEW n \in Name,
              \/ DenialLapses(t, n)
              \/ \E g \in Token : UnblockGrant(g, t, n)
              \/ \E g \in Token, kind \in {"timed", "permanent"} : BlockDirect(g, t, n, kind)
       PROVE  Kept
  <2>1. <<t, n>> \in Token \X Name
    OBVIOUS
  <2>2. CASE DenialLapses(t, n)
    BY <1>4, <2>1, <2>2 DEF DenialLapses
  <2>3. ASSUME NEW g \in Token, UnblockGrant(g, t, n) PROVE Kept
    BY <1>4, <2>1, <2>3 DEF UnblockGrant
  <2>4. ASSUME NEW g \in Token, NEW kind \in {"timed", "permanent"}, BlockDirect(g, t, n, kind)
        PROVE  Kept
    BY <1>4, <2>1, <2>4 DEF BlockDirect
  <2> QED
    BY <1>12, <2>2, <2>3, <2>4
<1>13. ASSUME NEW t \in Token, AskGrant(t) \/ AskEnds(t) PROVE Kept
  <2>1. /\ UNCHANGED <<directoryVars, requests, grants, grantCount, denials, resolving>>
        /\ asking' \subseteq Token
    BY <1>13 DEF AskGrant, AskEnds
  <2> QED
    BY <2>1 DEF Kept, directoryVars, GrantsAreNumbered
<1> HIDE <1>0 DEF GrantsTypeOK, DirectoryTypeOK
<1>14. Kept
  BY <1>13, <1>5, <1>6, <1>7, <1>8, <1>9, <1>10, <1>11, <1>12 DEF GrantStep
<1> QED
  BY <1>14 DEF Kept

(* So do all handlers, in any hub: types are kept, and counted numbers stay *)
(* counted.                                                                *)
LEMMA HubStepKeepsTypes ==
    ASSUME HubInv, HubStep
    PROVE  GrantsTypeOK' /\ GrantsAreNumbered' /\ grantCount <= grantCount'
<1> USE GrantsAssumption, DirectoryAssumption
<1> DEFINE Kept == GrantsTypeOK' /\ GrantsAreNumbered' /\ grantCount <= grantCount'
<1>0. GrantsTypeOK /\ DirectoryTypeOK /\ GrantsAreNumbered
  BY DEF HubInv, GrantsTypeOK
<1>1. ASSUME GrantStep PROVE Kept
  BY <1>1, GrantStepKeepsTypes
<1>2. ASSUME DirectoryTypeOK', UNCHANGED grantVars PROVE Kept
  BY <1>0, <1>2 DEF grantVars, GrantsTypeOK, GrantsAreNumbered
<1>3. ASSUME DirectoryTypeOK', NEW n \in Name, NEW identity, Purge(n, identity) PROVE Kept
  BY <1>0, <1>3 DEF Purge, PurgeRequests, PurgeGrants, PurgeDenials, GrantsTypeOK,
                    GrantsAreNumbered
<1>4. ASSUME DirectoryNext PROVE DirectoryTypeOK'
  BY <1>0, <1>4, DirectoryStepKeepsTypes
<1> HIDE DEF Kept
<1>5. ASSUME NEW g \in Token, NEW n \in Name, DeleteParticipant(g, n) PROVE Kept
  BY <1>3, <1>4, <1>5 DEF DeleteParticipant, DirectoryNext
<1>6. ASSUME NEW t \in Token, DeleteIdentity(t) PROVE Kept
  <2>1. DirectoryTypeOK'
    BY <1>4, <1>6 DEF DeleteIdentity, DirectoryNext
  <2>2. tokenToName[t] # None => tokenToName[t] \in Name
    BY <1>0 DEF DirectoryTypeOK
  <2> QED
    BY <1>2, <1>3, <1>6, <2>1, <2>2 DEF DeleteIdentity
<1>7. ASSUME UNCHANGED vars PROVE Kept
  <2>1. DirectoryTypeOK'
    BY <1>0, <1>7 DEF vars, directoryVars, DirectoryTypeOK
  <2> QED
    BY <1>2, <1>7, <2>1 DEF vars
<1>8. ASSUME KeepingStep, UNCHANGED grantVars PROVE Kept
  BY <1>2, <1>4, <1>8 DEF DirectoryNext
<1>9. ASSUME LostNameReturns PROVE Kept
  BY <1>2, <1>4, <1>9 DEF LostNameReturns, DirectoryNext
<1>10. Kept
  BY <1>1, <1>5, <1>6, <1>7, <1>8, <1>9 DEF HubStep, GrantsNext, DeletionStep
<1> QED
  BY <1>10 DEF Kept

(* A hub that has not loaded two tokens of one name takes the steps of     *)
(* module Grants only, and keeps a sound directory and a registered        *)
(* governor.                                                               *)
LEMMA SoundHubTakesGrantsSteps ==
    ASSUME HubInv, ~doubled, HubStep
    PROVE  [GrantsNext]_vars
BY NothingGivenBack DEF HubInv, HubStep, LostNameReturns

LEMMA SoundHubStaysSound ==
    ASSUME HubInv, ~doubled, HubStep
    PROVE  DirectoryInv' /\ (governor' # None => governor' \in identities')
<1> DEFINE Sound == DirectoryInv' /\ (governor' # None => governor' \in identities')
<1> USE DirectoryAssumption
<1>0. DirectoryInv /\ (governor # None => governor \in identities)
  BY DEF HubInv, GovernorIsRegistered
<1>1. ASSUME UNCHANGED directoryVars PROVE Sound
  BY <1>0, <1>1, DirectoryUntouched DEF directoryVars
<1>2. ASSUME GrantStep PROVE Sound
  BY <1>1, <1>2, GrantStepKeepsTypes
<1>3. ASSUME NEW g \in Token, NEW n \in Name, RevokeByName(g, n) PROVE Sound
  <2>1. DirectoryInv' /\ identities' = identities \ {n}
    BY <1>0, <1>3, RevokeByNameKeepsInv
  <2> QED
    BY <1>0, <1>3, <2>1 DEF RevokeByName
<1>4. ASSUME NEW t \in Token, DeleteSelf(t) PROVE Sound
  <2>1. DirectoryInv' /\ identities' = identities \ {tokenToName[t]}
    BY <1>0, <1>4, DeleteSelfKeepsInv
  <2> QED
    BY <1>0, <1>4, <2>1 DEF DeleteSelf, DirectoryInv, DirectoryTypeOK
<1>5. ASSUME KeepingStep PROVE Sound
  <2>1. DirectoryInv' /\ identities \subseteq identities'
    BY <1>0, <1>5, KeepingStepKeepsInv
  <2>2. UNCHANGED governor \/ ResetGovernor \/ \E t \in Token : Appoint(t)
    BY <1>5 DEF KeepingStep, Mint, Unbind, Collect, Bind, BindListening, BindAnnounced,
                BindAfter, Rebind, Release
  <2> QED
    BY <1>0, <2>1, <2>2 DEF ResetGovernor, Appoint, DirectoryInv, SpeakersHold
<1>6. ASSUME UNCHANGED vars PROVE Sound
  BY <1>1, <1>6 DEF vars
<1> HIDE DEF Sound
<1>7. ASSUME DeletionStep PROVE Sound
  BY <1>3, <1>4, <1>7 DEF DeletionStep, DeleteParticipant, DeleteIdentity
<1>8. Sound
  BY <1>2, <1>5, <1>6, <1>7, SoundHubTakesGrantsSteps DEF GrantsNext
<1> QED
  BY <1>8 DEF Sound

LEMMA HubStepKeepsHub ==
    ASSUME HubInv, HubStep, doubled' = doubled
    PROVE  HubInv' /\ grantCount <= grantCount'
BY HubStepKeepsTypes, SoundHubStaysSound DEF HubInv, GovernorIsRegistered

-----------------------------------------------------------------------------
(* Every set of grant numbers has a highest: the numbers are bounded, and  *)
(* the natural numbers are well-founded.                                   *)
LEMMA LessIsWellFounded ==
    \E R : IsWellFoundedOn(R, Nat) /\ \A x, y \in Nat : <<x, y>> \in R <=> x < y
<1> DEFINE R == {ss \in Nat \X Nat : ss[1] < ss[2]}
<1>1. IsWellFoundedOn(R, Nat)
  BY NatLessThanWellFounded, Zenon DEF OpToRel
<1>2. \A x, y \in Nat : <<x, y>> \in R <=> x < y
  OBVIOUS
<1> HIDE DEF R
<1> QED
  BY <1>1, <1>2

LEMMA LeastNumber ==
    ASSUME NEW S \in SUBSET Nat, S # {}
    PROVE  \E x \in S : \A y \in S : x <= y
<1>1. PICK R : IsWellFoundedOn(R, Nat) /\ \A x, y \in Nat : <<x, y>> \in R <=> x < y
  BY LessIsWellFounded
<1>2. S \subseteq Nat /\ IsWellFoundedOn(R, Nat)
  BY <1>1
<1>3. \E x \in S : \A y \in S : ~ (<<y, x>> \in R)
  BY <1>2, WFMin, Zenon
<1>4. PICK x \in S : \A y \in S : ~ (<<y, x>> \in R)
  BY <1>3
<1>5. ASSUME NEW y \in S PROVE x <= y
  <2>1. x \in Nat /\ y \in Nat
    OBVIOUS
  <2>2. <<y, x>> \in R <=> y < x
    BY <1>1, <2>1
  <2>3. ~ (y < x)
    BY <1>4, <2>2
  <2> QED
    BY <2>1, <2>3
<1> QED
  BY <1>5

LEMMA GreatestNumber ==
    ASSUME NEW m \in Nat, NEW S \in SUBSET (0..m), S # {}
    PROVE  \E c \in S : \A i \in S : i <= c
<1> DEFINE D == {d \in Nat : m - d \in S}
<1>1. PICK s \in S : TRUE
  OBVIOUS
<1>2. m - s \in D
  BY <1>1
<1>3. PICK d \in D : \A e \in D : d <= e
  BY <1>2, LeastNumber
<1>4. \A i \in S : m - i \in D
  OBVIOUS
<1> QED
  BY <1>3, <1>4

(* load_from_store: the counter is the highest number that is loaded.      *)
LEMMA LoadedCountIsMax ==
    /\ LoadedCount \in 0..MaxGrants
    /\ \A i \in GrantId : LoadedGrants[i] # None => i <= LoadedCount
<1> DEFINE used == {i \in GrantId : LoadedGrants[i] # None}
<1>1. used \cup {0} \in SUBSET (0..MaxGrants) /\ MaxGrants \in Nat
  BY GrantsAssumption DEF GrantId
<1>2. \E c \in used \cup {0} : \A i \in used \cup {0} : i <= c
  BY <1>1, GreatestNumber
<1>3. \E c \in used \cup {0} : \A i \in used : i <= c
  BY <1>2
<1>4. LoadedCount \in used \cup {0} /\ \A i \in used : i <= LoadedCount
  BY <1>3, Zenon DEF LoadedCount
<1> QED
  BY <1>1, <1>4

(* Every token that is loaded speaks for a registered name that somebody   *)
(* holds, and whoever holds a name was loaded with it: itself, if no other *)
(* token of the name is in the tables.                                     *)
LEMMA LoadedHoldersAreRead ==
    ASSUME TablesTypeOK, Restart
    PROVE  /\ nameToToken' \in [Name -> Token \cup {None}]
           /\ \A n \in Name : nameToToken'[n] # None =>
                 nameToToken'[n] \in Token /\ MigratedTokens[nameToToken'[n]] = n
           /\ \A t \in Token : MigratedTokens[t] # None =>
                 /\ MigratedTokens[t] \in Name
                 /\ MigratedTokens[t] \in identityRows
                 /\ OneRowPerName => nameToToken'[MigratedTokens[t]] = t
<1> USE DirectoryAssumption
<1> DEFINE tokens == [n \in Name |-> {t \in Token : MigratedTokens[t] = n}]
<1>1. /\ nameToToken' \in [Name -> Token \cup {None}]
      /\ \A n \in Name : nameToToken'[n] \in IF tokens[n] = {} THEN {None} ELSE tokens[n]
  BY DEF Restart, LoadedHolders
<1>2. \A n \in Name : tokens[n] = {t \in Token : MigratedTokens[t] = n}
  OBVIOUS
<1> HIDE DEF tokens
<1>3. ASSUME NEW n \in Name, nameToToken'[n] # None
      PROVE  nameToToken'[n] \in Token /\ MigratedTokens[nameToToken'[n]] = n
  BY <1>1, <1>2, <1>3
<1>4. ASSUME NEW t \in Token, MigratedTokens[t] # None
      PROVE  /\ MigratedTokens[t] \in Name
             /\ MigratedTokens[t] \in identityRows
             /\ OneRowPerName => nameToToken'[MigratedTokens[t]] = t
  <2>1. MigratedTokens[t] = tokenRows[t] /\ tokenRows[t] \in identityRows
    BY <1>4 DEF MigratedTokens
  <2>2. MigratedTokens[t] \in Name
    BY <2>1 DEF TablesTypeOK
  <2>3. ASSUME OneRowPerName PROVE nameToToken'[MigratedTokens[t]] = t
    <3>1. \A u \in Token : MigratedTokens[u] = MigratedTokens[t] => u = t
      BY <1>4, <2>1, <2>3 DEF MigratedTokens, OneRowPerName
    <3> DEFINE n == MigratedTokens[t]
    <3>2. t \in tokens[n]
      BY <1>2, <2>2
    <3>3. nameToToken'[n] \in tokens[n]
      BY <1>1, <2>2, <3>2
    <3> QED
      BY <1>2, <2>2, <3>1, <3>3
  <2> QED
    BY <2>1, <2>2, <2>3
<1> QED
  BY <1>1, <1>3, <1>4

(* Loading the tables gives a registered governor and counted grants,      *)
(* wherever the writes were cut short, and a sound directory, unless they  *)
(* have two tokens of one name.                                            *)
LEMMA RestartRestoresHub ==
    ASSUME TablesTypeOK, HubInv, Restart
    PROVE  HubInv'
<1> USE GrantsAssumption, DirectoryAssumption DEF TablesTypeOK, Restart
<1>0. status \in [Token -> {"unminted", "live", "revoked", "removed"}]
  BY DEF HubInv, GrantsTypeOK, DirectoryTypeOK
<1>1. MigratedTokens \in [Token -> Name \cup {None}]
  BY DEF MigratedTokens
<1>2. /\ nameToToken' \in [Name -> Token \cup {None}]
      /\ \A n \in Name : nameToToken'[n] # None =>
            nameToToken'[n] \in Token /\ MigratedTokens[nameToToken'[n]] = n
      /\ \A t \in Token : MigratedTokens[t] # None =>
            /\ MigratedTokens[t] \in Name
            /\ MigratedTokens[t] \in identityRows
            /\ OneRowPerName => nameToToken'[MigratedTokens[t]] = t
  BY LoadedHoldersAreRead
<1>3. DirectoryTypeOK'
  BY <1>0, <1>1, <1>2 DEF DirectoryTypeOK, LoadedGovernor
<1>4. ReadsWhereItSpeaks'
  BY <1>1 DEF ReadsWhereItSpeaks, Live
<1>5. OneRowPerName => SpeakersHold'
  BY <1>1, <1>2 DEF SpeakersHold, Known
<1>6. RoutedAreRegistered'
  BY <1>2 DEF RoutedAreRegistered
<1>7. GovernorIsRegistered'
  BY DEF GovernorIsRegistered, LoadedGovernor
<1>8. LoadedGrants \in [GrantId -> Grant \cup {None}]
  BY DEF LoadedGrants
<1>9. GrantsTypeOK'
  BY <1>3, <1>8, LoadedCountIsMax DEF GrantsTypeOK, DirectoryTypeOK
<1>10. GrantsAreNumbered'
  BY LoadedCountIsMax DEF GrantsAreNumbered
<1>11. ~doubled' => DirectoryInv'
  BY <1>3, <1>4, <1>5, <1>6 DEF DirectoryInv
<1> QED
  BY <1>7, <1>9, <1>10, <1>11 DEF HubInv

-----------------------------------------------------------------------------
(* What the statements of a handler are about.                             *)
LEMMA StatementKinds ==
    ASSUME NEW s \in Statement
    PROVE  /\ s.table = "tokens" => s.key \in Token /\ s.value \in Name \cup {None}
           /\ s.table = "identities" => s.key \in Name /\ s.value \in BOOLEAN
           /\ s.table = "governor" => s.value \in Name \cup {None}
           /\ s.table = "grants" => s.key \in GrantId /\ s.value \in Grant \cup {None}
           /\ s.table = "denial_blocks" =>
                 s.key \in Token \X Name /\ s.value \in {"none", "timed", "permanent"}
BY DEF Statement

LEMMA RowsAreNumbered ==
    /\ \A t \in Token, n \in Name \cup {None} : TokenRow(t, n) \in NumberedStatement'
    /\ \A n \in Name, in \in BOOLEAN : IdentityRow(n, in) \in NumberedStatement'
    /\ \A n \in Name \cup {None} : GovernorRow(n) \in NumberedStatement'
    /\ \A i \in GrantId : GrantRow(i, None) \in NumberedStatement'
    /\ \A i \in GrantId, g \in Grant : i <= grantCount' => GrantRow(i, g) \in NumberedStatement'
    /\ \A p \in Token \X Name, kind \in {"none", "timed", "permanent"} :
          DenialRow(p, kind) \in NumberedStatement'
<1> USE DEF NumberedStatement, Statement
<1>1. \A t \in Token, n \in Name \cup {None} : TokenRow(t, n) \in NumberedStatement'
  BY DEF TokenRow
<1>2. \A n \in Name, in \in BOOLEAN : IdentityRow(n, in) \in NumberedStatement'
  BY DEF IdentityRow
<1>3. \A n \in Name \cup {None} : GovernorRow(n) \in NumberedStatement'
  BY DEF GovernorRow
<1>4. \A i \in GrantId : GrantRow(i, None) \in NumberedStatement'
  BY DEF GrantRow
<1>5. \A i \in GrantId, g \in Grant : i <= grantCount' => GrantRow(i, g) \in NumberedStatement'
  BY DEF GrantRow
<1>6. \A p \in Token \X Name, kind \in {"none", "timed", "permanent"} :
          DenialRow(p, kind) \in NumberedStatement'
  BY DEF DenialRow
<1> QED
  BY <1>1, <1>2, <1>3, <1>4, <1>5, <1>6

(* What was numbered stays so while the count does not fall.               *)
LEMMA NumberedStaysNumbered ==
    ASSUME HubInv, HubInv', grantCount <= grantCount'
    PROVE  /\ NumberedStatement \subseteq NumberedStatement'
           /\ Seq(SUBSET NumberedStatement) \subseteq Seq(SUBSET NumberedStatement')
<1>1. grantCount \in Nat /\ grantCount' \in Nat
  BY GrantsAssumption DEF HubInv, GrantsTypeOK
<1>2. ASSUME NEW s \in NumberedStatement PROVE s \in NumberedStatement'
  <2>1. s.table = "grants" => s.key \in Nat
    BY StatementKinds, GrantsAssumption DEF NumberedStatement, GrantId
  <2> QED
    BY <1>1, <2>1 DEF NumberedStatement
<1>3. \A q \in Seq(SUBSET NumberedStatement) : q \in Seq(SUBSET NumberedStatement')
  BY <1>2, SeqMonotonic
<1> QED
  BY <1>2, <1>3

LEMMA BatchIsSeq ==
    ASSUME NEW T, NEW S \in SUBSET T
    PROVE  Batch(S) \in Seq(SUBSET T)
<1>1. <<>> \in Seq(SUBSET T)
  OBVIOUS
<1>2. <<S>> \in Seq(SUBSET T)
  OBVIOUS
<1> QED
  BY <1>1, <1>2 DEF Batch

LEMMA PairIsSeq ==
    ASSUME NEW X, NEW A \in X, NEW B \in X
    PROVE  <<A, B>> \in Seq(X)
OBVIOUS

LEMMA ConcatIsSeq ==
    ASSUME NEW T, NEW p \in Seq(SUBSET T), NEW q \in Seq(SUBSET T)
    PROVE  p \o q \in Seq(SUBSET T)
BY ConcatProperties

(* A handler that has numbered what it stores may start to write.          *)
LEMMA StoreKeepsInv ==
    ASSUME PersistenceInv, HubInv', grantCount <= grantCount', NEW w \in Writer,
           NEW batches \in Seq(SUBSET NumberedStatement'), Store(w, batches)
    PROVE  PersistenceInv'
<1>1. writes' \in [Writer -> Seq(SUBSET NumberedStatement')]
  <2>1. \A v \in Writer : writes[v] \in Seq(SUBSET NumberedStatement')
    BY NumberedStaysNumbered DEF PersistenceInv
  <2>2. writes' = [writes EXCEPT ![w] = batches] /\ DOMAIN writes = Writer
    BY DEF Store, PersistenceInv
  <2> HIDE DEF NumberedStatement
  <2> QED
    BY <2>1, <2>2
<1>2. GrantRowsAreNumbered'
  BY GrantsAssumption
     DEF Store, tables, PersistenceInv, GrantRowsAreNumbered, HubInv, GrantsTypeOK, GrantId
<1>3. TablesTypeOK'
  BY DEF Store, tables, PersistenceInv, TablesTypeOK
<1>4. overlapped' \in BOOLEAN /\ torn' \in BOOLEAN /\ doubled' \in BOOLEAN
  BY DEF Store, PersistenceInv, Quiet
<1> QED
  BY <1>1, <1>2, <1>3, <1>4 DEF PersistenceInv

(* What a handler writes is numbered: nothing but the two approvals stores *)
(* a grant, under the number that AddGrant has just counted.               *)
LEMMA StoredStepKeepsInv ==
    ASSUME PersistenceInv, HubInv', grantCount <= grantCount', NEW w \in Writer, StoredStep(w)
    PROVE  PersistenceInv'
<1> DEFINE N == NumberedStatement'
           Batches == Seq(SUBSET N)
<1>0. /\ DirectoryTypeOK /\ GrantsTypeOK /\ DirectoryTypeOK' /\ GrantsTypeOK'
      /\ MaxGrants \in Nat /\ None \notin Token /\ None \notin Name
  BY GrantsAssumption, DirectoryAssumption DEF PersistenceInv, HubInv, GrantsTypeOK
<1>1. ASSUME NEW S \in SUBSET N PROVE Batch(S) \in Batches /\ <<S>> \in Batches
  <2>1. Batch(S) \in Batches
    BY BatchIsSeq
  <2> HIDE DEF N
  <2>2. <<S>> \in Seq(SUBSET N)
    OBVIOUS
  <2> QED
    BY <2>1, <2>2
<1>2. ASSUME NEW p \in Batches, NEW q \in Batches PROVE p \o q \in Batches
  BY ConcatIsSeq
<1>3. ASSUME NEW batches \in Batches, Store(w, batches) PROVE PersistenceInv'
  BY <1>3, StoreKeepsInv
<1> DEFINE Tokens     == \A t \in Token, n \in Name \cup {None} : TokenRow(t, n) \in N
           Identities == \A n \in Name, in \in BOOLEAN : IdentityRow(n, in) \in N
           Governors  == \A n \in Name \cup {None} : GovernorRow(n) \in N
           Removed    == \A i \in GrantId : GrantRow(i, None) \in N
           Made       == \A i \in GrantId, g \in Grant : i <= grantCount' => GrantRow(i, g) \in N
           Blocks     == \A p \in Token \X Name, kind \in {"none", "timed", "permanent"} :
                            DenialRow(p, kind) \in N
<1>4. Tokens /\ Identities /\ Governors /\ Removed /\ Made /\ Blocks
  BY RowsAreNumbered
<1> HIDE DEF N, Batches
<1>5. ASSUME NEW b PROVE ForgottenRows(b) \in Batches
  <2>1. Batch(IF b THEN {GovernorRow(None)} ELSE {}) \in Batches
    BY <1>1, <1>4
  <2>2. Batch({GrantRow(i, None) : i \in {j \in GrantId : grants[j] # None /\ grants'[j] = None}})
          \in Batches
    BY <1>1, <1>4
  <2>3. Batch({DenialRow(p, "none") :
                 p \in {q \in Token \X Name : denials[q] # "none" /\ denials'[q] = "none"}})
          \in Batches
    <3>1. {DenialRow(p, "none") :
             p \in {q \in Token \X Name : denials[q] # "none" /\ denials'[q] = "none"}}
            \in SUBSET N
      BY <1>4
    <3> QED
      BY <1>1, <3>1
  <2> QED
    BY <1>2, <2>1, <2>2, <2>3 DEF ForgottenRows
<1>6. ASSUME NEW n PROVE HolderRow(n) \in Batches
  <2>1. (IF n \notin Name \/ nameToToken[n] = None THEN {} ELSE {TokenRow(nameToToken[n], n)})
          \in SUBSET N
    BY <1>0, <1>4 DEF DirectoryTypeOK
  <2> QED
    BY <1>1, <2>1 DEF HolderRow
<1>7. ASSUME NEW g, AddGrant(g)
      PROVE  <<{GrantRow(grantCount', grants'[grantCount'])}>> \in Batches
  <2>1. grantCount' \in GrantId
    BY <1>0, <1>7 DEF AddGrant, GrantsTypeOK, GrantId
  <2>2. grants'[grantCount'] \in Grant \cup {None} /\ grantCount' <= grantCount'
    BY <1>0, <2>1 DEF GrantsTypeOK, GrantId
  <2>3. GrantRow(grantCount', grants'[grantCount']) \in N
    BY <1>4, <2>1, <2>2
  <2> QED
    BY <1>1, <2>3
<1>8. CASE ResetAndStore(w)
  <2>1. <<{GovernorRow(None)}>> \in Batches
    BY <1>1, <1>4
  <2> QED
    BY <1>3, <1>8, <2>1 DEF ResetAndStore
<1>9. ASSUME NEW t \in Token, DeleteIdentityAndStore(w, t) PROVE PersistenceInv'
  <2> DEFINE n == tokenToName[t]
  <2>1. n \in Name \cup {None}
    BY <1>0 DEF DirectoryTypeOK
  <2>2. <<{TokenRow(t, None)}>> \in Batches
    BY <1>1, <1>4
  <2>3. Batch(IF n = None THEN {} ELSE {IdentityRow(n, FALSE)}) \in Batches
    BY <1>1, <1>4, <2>1
  <2>4. ForgottenRows(n # None /\ n = governor) \in Batches
    BY <1>5
  <2> QED
    BY <1>2, <1>3, <1>9, <2>2, <2>3, <2>4 DEF DeleteIdentityAndStore
<1>10. ASSUME NEW t \in Token, NEW n \in Name, DeleteParticipantAndStore(w, t, n)
       PROVE  PersistenceInv'
  <2>1. <<{IdentityRow(n, FALSE)}>> \in Batches
    BY <1>1, <1>4
  <2>2. ForgottenRows(n = governor) \in Batches
    BY <1>5
  <2> QED
    BY <1>2, <1>3, <1>10, <2>1, <2>2 DEF DeleteParticipantAndStore
<1>11. ASSUME NEW t \in Token, AppointAndStore(w, t) PROVE PersistenceInv'
  <2>1. GovernorRow(tokenToName[t]) \in N
    BY <1>0, <1>4 DEF DirectoryTypeOK
  <2>2. <<{GovernorRow(tokenToName[t])}>> \in Batches
    BY <1>1, <2>1
  <2> QED
    BY <1>3, <1>11, <2>2 DEF AppointAndStore
<1>12. ASSUME NEW t \in Token, NEW n \in Name PROVE <<{IdentityRow(n, TRUE)}, {TokenRow(t, n)}>> \in Batches
  <2>1. {IdentityRow(n, TRUE)} \in SUBSET N /\ {TokenRow(t, n)} \in SUBSET N
    BY <1>4
  <2> QED
    BY <2>1, PairIsSeq DEF Batches
<1>13. ASSUME NEW t \in Token, NEW n \in Name, BindAndStore(w, t, n) PROVE PersistenceInv'
  BY <1>3, <1>12, <1>13 DEF BindAndStore
<1>14. ASSUME NEW g \in Token, NEW n \in Name, NEW t \in Token, RebindAndStore(w, g, n, t)
       PROVE  PersistenceInv'
  <2> DEFINE old == nameToToken[n]
  <2>1. (IF old = None THEN {} ELSE {TokenRow(old, None)}) \in SUBSET N
    BY <1>0, <1>4 DEF DirectoryTypeOK
  <2>2. Batch(IF old = None THEN {} ELSE {TokenRow(old, None)}) \in Batches
    BY <1>1, <2>1
  <2> QED
    BY <1>2, <1>3, <1>12, <1>14, <2>2 DEF RebindAndStore
<1>15. ASSUME NEW t \in Token, NEW r \in RequestSlot, EstablishAndStore(w, t, r)
       PROVE  PersistenceInv'
  <2>1. <<{GrantRow(grantCount', grants'[grantCount'])}>> \in Batches
    BY <1>7, <1>15 DEF EstablishAndStore, Establish
  <2> QED
    BY <1>2, <1>3, <1>6, <1>15, <2>1 DEF EstablishAndStore
<1>16. ASSUME NEW terms \in Terms, ApproveAndStore(w, terms) PROVE PersistenceInv'
  BY <1>3, <1>7, <1>16 DEF ApproveAndStore, ApproveGrant
<1>17. ASSUME NEW t \in Token, NEW i \in GrantId, RevokeGrantAndStore(w, t, i)
       PROVE  PersistenceInv'
  <2>1. <<{GrantRow(i, None)}>> \in Batches
    BY <1>1, <1>4
  <2> QED
    BY <1>3, <1>17, <2>1 DEF RevokeGrantAndStore
<1>18. ASSUME NEW p \in Token \X Name, NEW kind \in {"none", "timed", "permanent"}
       PROVE  <<{DenialRow(p, kind)}>> \in Batches
  BY <1>1, <1>4
<1>19. ASSUME NEW t \in Token, NEW r \in RequestSlot, NEW kind \in {"timed", "permanent"},
              DenyAndStore(w, t, r, kind)
       PROVE  PersistenceInv'
  <2>1. <<requests[r].fromId, requests[r].toName>> \in Token \X Name
    BY <1>0, <1>19 DEF DenyAndStore, DenyGrantRequest, Pending, GrantsTypeOK, Request
  <2> QED
    BY <1>3, <1>18, <1>19, <2>1 DEF DenyAndStore
<1>20. ASSUME NEW g \in Token, NEW t \in Token, NEW n \in Name, NEW kind \in {"timed", "permanent"},
              BlockAndStore(w, g, t, n, kind)
       PROVE  PersistenceInv'
  BY <1>3, <1>18, <1>20 DEF BlockAndStore
<1>21. ASSUME NEW g \in Token, NEW t \in Token, NEW n \in Name, UnblockAndStore(w, g, t, n)
       PROVE  PersistenceInv'
  BY <1>3, <1>18, <1>21 DEF UnblockAndStore
<1> QED
  BY <1>8, <1>9, <1>10, <1>11, <1>13, <1>14, <1>15, <1>16, <1>17, <1>19, <1>20, <1>21
     DEF StoredStep

(* A committed statement leaves the rows typed and numbered.               *)
LEMMA WriteStepKeepsInv ==
    ASSUME PersistenceInv, NEW w \in Writer, WriteStep(w)
    PROVE  PersistenceInv'
<1>0. /\ TablesTypeOK /\ GrantRowsAreNumbered
      /\ writes \in [Writer -> Seq(SUBSET NumberedStatement)] /\ writes[w] # <<>>
  BY DEF PersistenceInv, WriteStep, Writing
<1>1. HubInv' /\ grantCount' = grantCount
  <2>1. UNCHANGED vars /\ UNCHANGED doubled
    BY DEF WriteStep
  <2> QED
    BY <2>1, HubStepKeepsHub DEF PersistenceInv, vars, grantVars, HubStep
<1>2. NumberedStatement' = NumberedStatement
  BY <1>1 DEF NumberedStatement
<1>3. Head(writes[w]) \in SUBSET NumberedStatement /\ Tail(writes[w]) \in Seq(SUBSET NumberedStatement)
  <2> HIDE DEF NumberedStatement
  <2>1. writes[w] \in Seq(SUBSET NumberedStatement)
    BY <1>0
  <2> QED
    BY <1>0, <2>1, HeadTailProperties
<1>4. PICK s \in Head(writes[w]) :
          /\ tokenRows' = IF s.table = "tokens"
                          THEN [tokenRows EXCEPT ![s.key] = s.value] ELSE tokenRows
          /\ identityRows' = IF s.table # "identities" THEN identityRows
                             ELSE IF s.value THEN identityRows \cup {s.key}
                             ELSE identityRows \ {s.key}
          /\ governorRow' = IF s.table = "governor" THEN s.value ELSE governorRow
          /\ grantRows' = IF s.table = "grants"
                          THEN [grantRows EXCEPT ![s.key] = s.value] ELSE grantRows
          /\ denialRows' = IF s.table = "denial_blocks"
                           THEN [denialRows EXCEPT ![s.key] = s.value] ELSE denialRows
          /\ writes' = [writes EXCEPT ![w] = Batch(Head(@) \ {s}) \o Tail(@)]
  BY DEF WriteStep
<1>5. s \in Statement /\ s \in NumberedStatement
  BY <1>3 DEF NumberedStatement
<1>6. TablesTypeOK'
  BY <1>0, <1>4, <1>5, StatementKinds DEF TablesTypeOK
<1>7. GrantRowsAreNumbered'
  <2>1. CASE s.table = "grants"
    <3>1. s.key \in GrantId /\ (s.value # None => s.key <= grantCount)
      BY <1>5, <2>1, StatementKinds DEF NumberedStatement
    <3>2. grantRows' = [grantRows EXCEPT ![s.key] = s.value]
      BY <1>4, <2>1
    <3> QED
      BY <1>0, <1>1, <3>1, <3>2 DEF GrantRowsAreNumbered, TablesTypeOK
  <2>2. CASE s.table # "grants"
    BY <1>0, <1>1, <1>4, <2>2 DEF GrantRowsAreNumbered
  <2> QED
    BY <2>1, <2>2
<1>8. writes' \in [Writer -> Seq(SUBSET NumberedStatement')]
  <2> DEFINE rest == Batch(Head(writes[w]) \ {s}) \o Tail(writes[w])
  <2>1. rest \in Seq(SUBSET NumberedStatement)
    BY <1>3, BatchIsSeq, ConcatIsSeq
  <2>2. writes' = [writes EXCEPT ![w] = rest]
    BY <1>4
  <2> HIDE DEF rest, NumberedStatement
  <2> QED
    BY <1>0, <1>2, <2>1, <2>2
<1> QED
  BY <1>1, <1>6, <1>7, <1>8 DEF PersistenceInv, WriteStep

(* A handler that stores nothing, and the passing of time.                 *)
LEMMA OtherStepsKeepInv ==
    ASSUME PersistenceInv, HubInv', grantCount <= grantCount',
           \/ UNCHANGED storeVars
           \/ \E i \in GrantId : GrantAndRowLapse(i)
           \/ \E t \in Token, n \in Name : DenialAndRowLapse(t, n)
    PROVE  PersistenceInv'
<1>0. /\ TablesTypeOK /\ GrantRowsAreNumbered
      /\ overlapped \in BOOLEAN /\ torn \in BOOLEAN /\ doubled \in BOOLEAN
  BY DEF PersistenceInv
<1>1. grantCount \in Nat /\ grantCount' \in Nat /\ GrantId \subseteq Nat
  BY GrantsAssumption DEF PersistenceInv, HubInv, GrantsTypeOK, GrantId
<1>2. UNCHANGED <<writes, overlapped, torn, doubled>>
  BY DEF storeVars, GrantAndRowLapse, DenialAndRowLapse
<1>3. writes' \in [Writer -> Seq(SUBSET NumberedStatement')]
  <2>1. writes \in [Writer -> Seq(SUBSET NumberedStatement)]
    BY DEF PersistenceInv
  <2>2. Seq(SUBSET NumberedStatement) \subseteq Seq(SUBSET NumberedStatement')
    BY NumberedStaysNumbered DEF PersistenceInv
  <2> HIDE DEF NumberedStatement
  <2> QED
    BY <1>2, <2>1, <2>2
<1>4. TablesTypeOK' /\ GrantRowsAreNumbered'
  <2>1. CASE UNCHANGED storeVars
    BY <1>0, <1>1, <2>1 DEF storeVars, tables, TablesTypeOK, GrantRowsAreNumbered
  <2>2. ASSUME NEW i \in GrantId, GrantAndRowLapse(i) PROVE TablesTypeOK' /\ GrantRowsAreNumbered'
    <3>0. UNCHANGED <<tokenRows, identityRows, governorRow, denialRows>>
      BY <2>2 DEF GrantAndRowLapse
    <3>1. CASE UNCHANGED grantRows
      BY <1>0, <1>1, <3>0, <3>1 DEF TablesTypeOK, GrantRowsAreNumbered
    <3>2. CASE grantRows[i] # None /\ grantRows' = [grantRows EXCEPT ![i].expired = TRUE]
      <4> DEFINE g == [grantRows[i] EXCEPT !.expired = TRUE]
      <4>1. grantRows[i] \in Grant
        BY <1>0, <3>2 DEF TablesTypeOK
      <4>2. g \in Grant /\ g.expired
        BY <4>1 DEF Grant
      <4>3. grantRows' = [grantRows EXCEPT ![i] = g]
        BY <3>2
      <4> QED
        BY <1>0, <1>1, <3>0, <3>2, <4>2, <4>3 DEF TablesTypeOK, GrantRowsAreNumbered
    <3> QED
      BY <2>2, <3>1, <3>2 DEF GrantAndRowLapse
  <2>3. ASSUME NEW t \in Token, NEW n \in Name, DenialAndRowLapse(t, n)
        PROVE  TablesTypeOK' /\ GrantRowsAreNumbered'
    BY <1>0, <1>1, <2>3 DEF DenialAndRowLapse, TablesTypeOK, GrantRowsAreNumbered
  <2> QED
    BY <2>1, <2>2, <2>3
<1> QED
  BY <1>0, <1>2, <1>3, <1>4 DEF PersistenceInv

(* A restart forgets the writes and keeps the rows.                        *)
LEMMA RestartKeepsInv ==
    ASSUME PersistenceInv, Restart
    PROVE  PersistenceInv'
<1>0. /\ TablesTypeOK /\ HubInv
      /\ overlapped \in BOOLEAN /\ torn \in BOOLEAN /\ doubled \in BOOLEAN
  BY DEF PersistenceInv
<1>1. HubInv'
  BY <1>0, RestartRestoresHub
<1>2. TablesTypeOK'
  <2>1. MigratedTokens \in [Token -> Name \cup {None}]
    BY <1>0 DEF MigratedTokens, TablesTypeOK
  <2> QED
    BY <1>0, <2>1 DEF TablesTypeOK, Restart
<1>3. GrantRowsAreNumbered'
  BY LoadedCountIsMax DEF GrantRowsAreNumbered, Restart, LoadedGrants
<1>4. writes' \in [Writer -> Seq(SUBSET NumberedStatement')]
  BY EmptySeq DEF Restart
<1>5. overlapped' \in BOOLEAN /\ torn' \in BOOLEAN /\ doubled' \in BOOLEAN
  BY <1>0 DEF Restart, Quiet
<1> QED
  BY <1>1, <1>2, <1>3, <1>4, <1>5 DEF PersistenceInv

-----------------------------------------------------------------------------
(* In every state, after any number of crashes and restarts from whatever  *)
(* tables they left, the hub is one that HubInv describes: its directory   *)
(* is sound unless two tokens of one name were loaded, and it is well      *)
(* typed and its grants are counted in any case (every handler of          *)
(* src/src/delivery.rs, new_with_persisted_state).                         *)
THEOREM PersistenceInvariant == PersistenceSpec => []PersistenceInv
<1>1. PersistenceInit => PersistenceInv
  <2> SUFFICES ASSUME PersistenceInit PROVE PersistenceInv
    OBVIOUS
  <2>1. GrantsInv /\ GovernorIsRegistered
    BY GrantsInitInv DEF PersistenceInit, GrantsInit, DirectoryInit, GovernorIsRegistered
  <2>2. TablesTypeOK
    BY DEF PersistenceInit, TablesTypeOK
  <2>3. writes \in [Writer -> Seq(SUBSET NumberedStatement)]
    BY EmptySeq DEF PersistenceInit
  <2> QED
    BY <2>1, <2>2, <2>3
       DEF PersistenceInit, PersistenceInv, HubInv, GrantsInv, GrantRowsAreNumbered
<1>2. PersistenceInv /\ [PersistenceNext]_persistenceVars => PersistenceInv'
  <2> SUFFICES ASSUME PersistenceInv, [PersistenceNext]_persistenceVars PROVE PersistenceInv'
    OBVIOUS
  <2>1. CASE Restart
    BY <2>1, RestartKeepsInv
  <2>2. CASE ~Restart
    <3>1. HubStep /\ doubled' = doubled
      BY <2>2, HandlersTakeHubSteps, HistoryIsKept
    <3>2. HubInv' /\ grantCount <= grantCount'
      BY <3>1, HubStepKeepsHub DEF PersistenceInv
    <3>3. ASSUME NEW w \in Writer, StoredStep(w) \/ WriteStep(w) PROVE PersistenceInv'
      BY <3>2, <3>3, StoredStepKeepsInv, WriteStepKeepsInv
    <3>4. CASE \/ UNCHANGED storeVars
               \/ \E i \in GrantId : GrantAndRowLapse(i)
               \/ \E t \in Token, n \in Name : DenialAndRowLapse(t, n)
      BY <3>2, <3>4, OtherStepsKeepInv
    <3> QED
      BY <2>2, <3>3, <3>4 DEF PersistenceNext, persistenceVars
  <2> QED
    BY <2>1, <2>2
<1> QED
  BY <1>1, <1>2, PTL DEF PersistenceSpec

(* A statement that is numbered is a statement, so the types hold.         *)
THEOREM PersistenceTyped == PersistenceSpec => []PersistenceTypeOK
<1>1. PersistenceInv => PersistenceTypeOK
  <2> SUFFICES ASSUME PersistenceInv PROVE PersistenceTypeOK
    OBVIOUS
  <2>1. writes \in [Writer -> Seq(SUBSET NumberedStatement)]
    BY DEF PersistenceInv
  <2>2. NumberedStatement \subseteq Statement
    BY DEF NumberedStatement
  <2>3. \A q \in Seq(SUBSET NumberedStatement) : q \in Seq(SUBSET Statement)
    BY <2>2, SeqMonotonic
  <2>4. writes \in [Writer -> Seq(SUBSET Statement)]
    <3> HIDE DEF Statement, NumberedStatement
    <3> QED
      BY <2>1, <2>3
  <2> QED
    BY <2>4 DEF PersistenceInv, PersistenceTypeOK, HubInv
<1> QED
  BY <1>1, PersistenceInvariant, PTL

(* No crash leaves the hub with a governor that is not registered, unless  *)
(* it has loaded two tokens of one name (new_with_persisted_state,         *)
(* set_governor, the deletions).                                           *)
THEOREM GovernorIsRegisteredHolds == PersistenceSpec => []GovernorIsRegistered
<1>1. PersistenceInv => GovernorIsRegistered
  BY DEF PersistenceInv, HubInv
<1> QED
  BY <1>1, PersistenceInvariant, PTL

(* No crash gives anybody a name that is not registered, or a name that    *)
(* another token answers for, but one that leaves two tokens of one name   *)
(* in the tables (TokenStore::migrate, new_with_persisted_state).          *)
THEOREM SpeakersAreSoundHolds == PersistenceSpec => []SpeakersAreSound
<1>1. PersistenceInv => SpeakersAreSound
  BY DEF PersistenceInv, HubInv, DirectoryInv, SpeakersAreSound
<1> QED
  BY <1>1, PersistenceInvariant, PTL

(* Restarted as often as one likes, the counter never hands out the number *)
(* of a grant that is on disk and in force (load_from_store, next_id).     *)
THEOREM GrantRowsAreNumberedHolds == PersistenceSpec => []GrantRowsAreNumbered
<1>1. PersistenceInv => GrantRowsAreNumbered
  BY DEF PersistenceInv
<1> QED
  BY <1>1, PersistenceInvariant, PTL

-----------------------------------------------------------------------------
(* Rows and hub.  Between a change and the last statement that stores it   *)
(* the tables are behind, so agreement cannot be asked of them alone: a    *)
(* row may be wrong as long as a statement about it is due, and every      *)
(* statement that is due is right (RowsAgree).  A second handler that      *)
(* starts to write breaks this, since its statements may be committed      *)
(* before older ones about the same rows; overlapped records that.         *)

(* Everything in a sequence of sets.                                       *)
Listed(q) == UNION {q[k] : k \in DOMAIN q}

(* The statements that some handler has still to commit.                   *)
Due == UNION {Listed(writes[w]) : w \in Writer}

(* What the tables say, as the statements that would say it again.         *)
Stored ==
    {s \in Statement :
        /\ s.table = "tokens" => s.value = tokenRows[s.key]
        /\ s.table = "identities" => (s.value <=> s.key \in identityRows)
        /\ s.table = "governor" => s.value = governorRow
        /\ s.table = "grants" => s.value = grantRows[s.key]
        /\ s.table = "denial_blocks" => s.value = denialRows[s.key]}

SameRow(d, s) == d.table = s.table /\ d.key = s.key

SameParties(g, h) == g.nameA = h.nameA /\ g.nameB = h.nameB /\ g.direct = h.direct

TokenAgrees(t, v) ==
    Live(t) /\ tokenToName[t] # None => v # None /\ nameToToken[v] = t

GrantAgrees(i, v) ==
    IF grants[i] = None THEN v = None \/ v.expired
    ELSE /\ v # None
         /\ SameParties(v, grants[i])
         /\ ~grants[i].expired => v = grants[i]

(* The statement s does not contradict the hub.                            *)
Agrees(s) ==
    /\ s.table = "tokens" => TokenAgrees(s.key, s.value)
    /\ s.table = "identities" => (s.value <=> s.key \in identities)
    /\ s.table = "governor" => (governor # None => s.value = governor)
    /\ s.table = "grants" => GrantAgrees(s.key, s.value)
    /\ s.table = "denial_blocks" => s.value = denials[s.key]

(* What is still to be written agrees with the hub, and what is stored     *)
(* agrees with it or is about to be overwritten.                           *)
RowsAgree ==
    /\ \A s \in Due : Agrees(s)
    /\ \A s \in Stored : Agrees(s) \/ \E d \in Due : SameRow(d, s)

(* The holder of a name was minted, and the name is registered.            *)
HoldersAreSound ==
    \A n \in Name : nameToToken[n] # None =>
        /\ n \in identities
        /\ status[nameToToken[n]] # "unminted"

DurableInv ==
    /\ PersistenceInv
    /\ ~doubled => HoldersAreSound
    /\ ~doubled /\ ~overlapped => RowsAgree
    /\ ~doubled /\ ~torn => NothingOutlivesItsParties /\ RecipientStageHasApprover

-----------------------------------------------------------------------------
(* Members of sequences of sets, put together and taken apart.             *)
LEMMA ListedMember ==
    ASSUME NEW X, NEW q \in Seq(X), NEW e
    PROVE  e \in Listed(q) <=> \E k \in 1 .. Len(q) : e \in q[k]
<1>1. DOMAIN q = 1 .. Len(q)
  OBVIOUS
<1> QED
  BY <1>1, Zenon DEF Listed

LEMMA ListedConcat ==
    ASSUME NEW X, NEW p \in Seq(X), NEW q \in Seq(X)
    PROVE  Listed(p \o q) = Listed(p) \cup Listed(q)
<1> DEFINE r == p \o q
<1>1. /\ r \in Seq(X)
      /\ Len(r) = Len(p) + Len(q)
      /\ \A i \in 1 .. Len(p) + Len(q) : r[i] = IF i <= Len(p) THEN p[i] ELSE q[i - Len(p)]
  BY ConcatProperties
<1>2. Len(p) \in Nat /\ Len(q) \in Nat
  OBVIOUS
<1> HIDE DEF r
<1>3. ASSUME NEW e PROVE e \in Listed(r) <=> e \in Listed(p) \/ e \in Listed(q)
  <2>1. ASSUME e \in Listed(r) PROVE e \in Listed(p) \/ e \in Listed(q)
    <3>1. PICK k \in 1 .. Len(r) : e \in r[k]
      BY <1>1, <2>1, ListedMember
    <3>2. CASE k <= Len(p)
      <4>1. k \in 1 .. Len(p) /\ e \in p[k]
        BY <1>1, <1>2, <3>1, <3>2
      <4> QED
        BY <4>1, ListedMember
    <3>3. CASE ~ (k <= Len(p))
      <4>1. k - Len(p) \in 1 .. Len(q) /\ e \in q[k - Len(p)]
        BY <1>1, <1>2, <3>1, <3>3
      <4> QED
        BY <4>1, ListedMember
    <3> QED
      BY <3>2, <3>3
  <2>2. ASSUME e \in Listed(p) PROVE e \in Listed(r)
    <3>1. PICK k \in 1 .. Len(p) : e \in p[k]
      BY <2>2, ListedMember
    <3>2. k \in 1 .. Len(r) /\ e \in r[k]
      BY <1>1, <1>2, <3>1
    <3> QED
      BY <1>1, <3>2, ListedMember
  <2>3. ASSUME e \in Listed(q) PROVE e \in Listed(r)
    <3>1. PICK k \in 1 .. Len(q) : e \in q[k]
      BY <2>3, ListedMember
    <3>2. PICK j \in 1 .. Len(r) : j = k + Len(p)
      BY <1>1, <1>2, <3>1
    <3>3. r[j] = q[k]
      <4>1. j \in 1 .. Len(p) + Len(q) /\ ~ (j <= Len(p)) /\ j - Len(p) = k
        BY <1>1, <1>2, <3>1, <3>2
      <4> QED
        BY <1>1, <4>1
    <3> QED
      BY <1>1, <3>1, <3>3, ListedMember
  <2> QED
    BY <2>1, <2>2, <2>3
<1>4. Listed(r) = Listed(p) \cup Listed(q)
  BY <1>3
<1> QED
  BY <1>4 DEF r

LEMMA ListedOne ==
    ASSUME NEW S
    PROVE  Listed(<<S>>) = S /\ Listed(Batch(S)) = S
<1>1. Listed(<<S>>) = S
  BY DEF Listed
<1>2. Listed(<<>>) = {}
  BY DEF Listed
<1> QED
  BY <1>1, <1>2 DEF Batch

LEMMA ListedTwo ==
    ASSUME NEW A, NEW B
    PROVE  Listed(<<A, B>>) = A \cup B
BY DEF Listed

(* The first set of a sequence and the others.                             *)
LEMMA ListedHeadTail ==
    ASSUME NEW X, NEW q \in Seq(X), q # <<>>
    PROVE  Listed(q) = Head(q) \cup Listed(Tail(q))
<1>1. Tail(q) \in Seq(X) /\ Len(Tail(q)) = Len(q) - 1
  BY HeadTailProperties
<1>2. \A i \in 1 .. Len(Tail(q)) : Tail(q)[i] = q[i + 1]
  BY HeadTailProperties
<1>3. Len(q) \in Nat /\ Len(q) >= 1 /\ Head(q) = q[1]
  OBVIOUS
<1> DEFINE r == Tail(q)
<1> HIDE DEF r
<1>4. ASSUME NEW e PROVE e \in Listed(q) <=> e \in q[1] \/ e \in Listed(r)
  <2>1. ASSUME e \in Listed(q), e \notin q[1] PROVE e \in Listed(r)
    <3>1. PICK k \in 1 .. Len(q) : e \in q[k]
      BY <2>1, ListedMember
    <3>2. k - 1 \in 1 .. Len(r) /\ r[k - 1] = q[k]
      BY <1>1, <1>2, <1>3, <2>1, <3>1 DEF r
    <3> QED
      BY <1>1, <3>1, <3>2, ListedMember DEF r
  <2>2. ASSUME e \in Listed(r) PROVE e \in Listed(q)
    <3>1. PICK k \in 1 .. Len(r) : e \in r[k]
      BY <1>1, <2>2, ListedMember DEF r
    <3>2. k + 1 \in 1 .. Len(q) /\ r[k] = q[k + 1]
      BY <1>1, <1>2, <1>3, <3>1 DEF r
    <3> QED
      BY <3>1, <3>2, ListedMember
  <2>3. ASSUME e \in q[1] PROVE e \in Listed(q)
    BY <1>3, <2>3, ListedMember
  <2> QED
    BY <2>1, <2>2, <2>3
<1> QED
  BY <1>3, <1>4 DEF r

(* What the statements of a handler with several batches are.              *)
LEMMA ListedRebind ==
    ASSUME NEW A, NEW B, NEW C
    PROVE  Listed(Batch(A) \o <<B, C>>) = A \cup B \cup C
<1> DEFINE X == SUBSET (A \cup B \cup C)
           q == <<B, C>>
<1>1. A \in X /\ B \in X /\ C \in X
  OBVIOUS
<1>2. Batch(A) \in Seq(X)
  BY <1>1, BatchIsSeq
<1> HIDE DEF X
<1>3. q \in Seq(X)
  BY <1>1
<1>4. Listed(q) = B \cup C
  BY ListedTwo
<1>5. Listed(Batch(A)) = A
  BY ListedOne
<1> HIDE DEF q
<1>6. Listed(Batch(A) \o q) = Listed(Batch(A)) \cup Listed(q)
  BY <1>2, <1>3, ListedConcat
<1>7. Listed(Batch(A) \o q) = A \cup B \cup C
  BY <1>4, <1>5, <1>6
<1> QED
  BY <1>7 DEF q

LEMMA ListedThree ==
    ASSUME NEW A, NEW B, NEW C
    PROVE  Listed(<<A>> \o Batch(B) \o Batch(C)) = A \cup B \cup C
<1> DEFINE X == SUBSET (A \cup B \cup C)
           a == <<A>>
           p == a \o Batch(B)
<1>1. A \in X /\ B \in X /\ C \in X
  OBVIOUS
<1>2. Batch(B) \in Seq(X) /\ Batch(C) \in Seq(X)
  BY <1>1, BatchIsSeq
<1> HIDE DEF X
<1>3. a \in Seq(X)
  BY <1>1
<1>4. Listed(a) = A
  BY ListedOne
<1>5. Listed(Batch(B)) = B
  BY ListedOne
<1>6. Listed(Batch(C)) = C
  BY ListedOne
<1> HIDE DEF a
<1>7. p \in Seq(X)
  BY <1>2, <1>3, ConcatProperties
<1>8. Listed(p) = Listed(a) \cup Listed(Batch(B))
  BY <1>2, <1>3, ListedConcat
<1> HIDE DEF p
<1>9. Listed(p \o Batch(C)) = Listed(p) \cup Listed(Batch(C))
  BY <1>2, <1>7, ListedConcat
<1>10. Listed(p \o Batch(C)) = A \cup B \cup C
  BY <1>4, <1>5, <1>6, <1>8, <1>9
<1> QED
  BY <1>10 DEF p, a

LEMMA ListedForgotten ==
    ASSUME NEW C, NEW D, NEW E, NEW X,
           Batch(C) \in Seq(X), Batch(D) \in Seq(X), Batch(E) \in Seq(X)
    PROVE  /\ Batch(C) \o Batch(D) \o Batch(E) \in Seq(X)
           /\ Listed(Batch(C) \o Batch(D) \o Batch(E)) = C \cup D \cup E
<1> DEFINE p == Batch(C) \o Batch(D)
<1>1. p \in Seq(X)
  BY ConcatProperties
<1>2. Listed(p) = Listed(Batch(C)) \cup Listed(Batch(D))
  BY ListedConcat
<1> HIDE DEF p
<1>3. Listed(p \o Batch(E)) = Listed(p) \cup Listed(Batch(E))
  BY <1>1, ListedConcat
<1>4. p \o Batch(E) \in Seq(X)
  BY <1>1, ConcatProperties
<1>5. Listed(p \o Batch(E)) = C \cup D \cup E
  BY <1>2, <1>3, ListedOne
<1> QED
  BY <1>4, <1>5 DEF p

LEMMA ListedFour ==
    ASSUME NEW A, NEW C, NEW D, NEW E
    PROVE  Listed(<<A>> \o (Batch(C) \o Batch(D) \o Batch(E))) = A \cup C \cup D \cup E
<1> DEFINE X == SUBSET (A \cup C \cup D \cup E)
           a == <<A>>
           q == Batch(C) \o Batch(D) \o Batch(E)
<1>1. A \in X /\ C \in X /\ D \in X /\ E \in X
  OBVIOUS
<1>2. Batch(C) \in Seq(X) /\ Batch(D) \in Seq(X) /\ Batch(E) \in Seq(X)
  BY <1>1, BatchIsSeq
<1> HIDE DEF X
<1>3. a \in Seq(X)
  BY <1>1
<1>4. Listed(a) = A
  BY ListedOne
<1>5. q \in Seq(X) /\ Listed(q) = C \cup D \cup E
  BY <1>2, ListedForgotten
<1> HIDE DEF a, q
<1>6. Listed(a \o q) = Listed(a) \cup Listed(q)
  BY <1>3, <1>5, ListedConcat
<1>7. Listed(a \o q) = A \cup C \cup D \cup E
  BY <1>4, <1>5, <1>6
<1> QED
  BY <1>7 DEF a, q

LEMMA ListedFive ==
    ASSUME NEW A, NEW B, NEW C, NEW D, NEW E
    PROVE  Listed(<<A>> \o Batch(B) \o (Batch(C) \o Batch(D) \o Batch(E)))
             = A \cup B \cup C \cup D \cup E
<1> DEFINE X == SUBSET (A \cup B \cup C \cup D \cup E)
           a == <<A>>
           p == a \o Batch(B)
           q == Batch(C) \o Batch(D) \o Batch(E)
<1>1. A \in X /\ B \in X /\ C \in X /\ D \in X /\ E \in X
  OBVIOUS
<1>2. Batch(B) \in Seq(X) /\ Batch(C) \in Seq(X) /\ Batch(D) \in Seq(X) /\ Batch(E) \in Seq(X)
  BY <1>1, BatchIsSeq
<1> HIDE DEF X
<1>3. a \in Seq(X)
  BY <1>1
<1>4. Listed(a) = A
  BY ListedOne
<1>5. Listed(Batch(B)) = B
  BY ListedOne
<1>6. q \in Seq(X) /\ Listed(q) = C \cup D \cup E
  BY <1>2, ListedForgotten
<1> HIDE DEF a
<1>7. p \in Seq(X)
  BY <1>2, <1>3, ConcatProperties
<1>8. Listed(p) = Listed(a) \cup Listed(Batch(B))
  BY <1>2, <1>3, ListedConcat
<1> HIDE DEF p, q
<1>9. Listed(p \o q) = Listed(p) \cup Listed(q)
  BY <1>6, <1>7, ListedConcat
<1>10. Listed(p \o q) = A \cup B \cup C \cup D \cup E
  BY <1>4, <1>5, <1>6, <1>8, <1>9
<1> QED
  BY <1>10 DEF p, a, q

-----------------------------------------------------------------------------
(* Agreement, and how the store's own steps keep it.                       *)
(* What is due are statements.                                             *)
LEMMA DueAreStatements ==
    ASSUME PersistenceInv
    PROVE  /\ \A w \in Writer : writes[w] \in Seq(SUBSET Statement)
           /\ Due \subseteq Statement
<1>1. ASSUME NEW w \in Writer
      PROVE  writes[w] \in Seq(SUBSET Statement) /\ Listed(writes[w]) \subseteq Statement
  <2>1. writes[w] \in Seq(SUBSET NumberedStatement)
    BY DEF PersistenceInv
  <2>2. NumberedStatement \subseteq Statement
    BY DEF NumberedStatement
  <2>3. writes[w] \in Seq(SUBSET Statement)
    BY <2>1, <2>2, SeqMonotonic
  <2> HIDE DEF Statement
  <2>4. ASSUME NEW d \in Listed(writes[w]) PROVE d \in Statement
    <3>1. PICK k \in 1 .. Len(writes[w]) : d \in writes[w][k]
      BY <2>3, ListedMember
    <3> QED
      BY <2>3, <3>1
  <2> QED
    BY <2>3, <2>4
<1> QED
  BY <1>1 DEF Due

(* What agrees depends on the hub alone.                                   *)
LEMMA AgreesWithHub ==
    ASSUME NEW s, UNCHANGED <<directoryVars, grants, denials>>
    PROVE  Agrees(s)' = Agrees(s)
BY DEF directoryVars, Agrees, TokenAgrees, GrantAgrees, Live

(* A handler that starts to write while nobody else does.                  *)
LEMMA StoreKeepsAgreement ==
    ASSUME PersistenceInv, ~overlapped => RowsAgree, NEW w \in Writer, NEW batches,
           Store(w, batches),
           \A d \in Listed(batches) : Agrees(d)',
           \A s \in Statement :
              Agrees(s) => Agrees(s)' \/ \E d \in Listed(batches) : SameRow(d, s)
    PROVE  ~overlapped' => RowsAgree'
<1> SUFFICES ASSUME ~overlapped' PROVE RowsAgree'
  OBVIOUS
<1>1. ~overlapped /\ Quiet /\ writes' = [writes EXCEPT ![w] = batches]
  BY DEF Store, PersistenceInv
<1>2. Listed(<<>>) = {}
  BY DEF Listed
<1>3. Due = {}
  BY <1>1, <1>2 DEF Due, Quiet, Writing
<1>4. Due' = Listed(batches)
  <2>1. \A v \in Writer : writes'[v] = IF v = w THEN batches ELSE <<>>
    BY <1>1 DEF Quiet, Writing, PersistenceInv
  <2>2. \A v \in Writer : Listed(writes'[v]) = IF v = w THEN Listed(batches) ELSE {}
    BY <1>2, <2>1
  <2> QED
    BY <2>2 DEF Due
<1>5. Stored' = Stored
  BY DEF Store, tables, Stored
<1>6. \A s \in Stored : s \in Statement /\ Agrees(s)
  BY <1>1, <1>3 DEF RowsAgree, Stored
<1>7. (\A s \in Due : Agrees(s))'
  BY <1>4
<1>8. (\A s \in Stored : Agrees(s) \/ \E d \in Due : SameRow(d, s))'
  BY <1>4, <1>5, <1>6
<1> QED
  BY <1>7, <1>8 DEF RowsAgree

(* One statement is committed: what it overwrites need not agree any more. *)
LEMMA WriteStepKeepsAgreement ==
    ASSUME PersistenceInv, RowsAgree, NEW w \in Writer, WriteStep(w)
    PROVE  RowsAgree'
<1>0. /\ writes \in [Writer -> Seq(SUBSET NumberedStatement)] /\ writes[w] # <<>>
      /\ TablesTypeOK
  BY DEF PersistenceInv, WriteStep, Writing
<1>1. PICK d \in Head(writes[w]) :
          /\ tokenRows' = IF d.table = "tokens"
                          THEN [tokenRows EXCEPT ![d.key] = d.value] ELSE tokenRows
          /\ identityRows' = IF d.table # "identities" THEN identityRows
                             ELSE IF d.value THEN identityRows \cup {d.key}
                             ELSE identityRows \ {d.key}
          /\ governorRow' = IF d.table = "governor" THEN d.value ELSE governorRow
          /\ grantRows' = IF d.table = "grants"
                          THEN [grantRows EXCEPT ![d.key] = d.value] ELSE grantRows
          /\ denialRows' = IF d.table = "denial_blocks"
                           THEN [denialRows EXCEPT ![d.key] = d.value] ELSE denialRows
          /\ writes' = [writes EXCEPT ![w] = Batch(Head(@) \ {d}) \o Tail(@)]
  BY DEF WriteStep
<1> DEFINE h == Head(writes[w])
           r == Tail(writes[w])
<1>2. /\ h \in SUBSET Statement
      /\ r \in Seq(SUBSET Statement)
      /\ Listed(writes[w]) = h \cup Listed(r)
  BY <1>0, DueAreStatements, HeadTailProperties, ListedHeadTail
<1>3. Listed(Batch(h \ {d}) \o r) = (h \ {d}) \cup Listed(r)
  <2>1. Batch(h \ {d}) \in Seq(SUBSET Statement)
    BY <1>2, BatchIsSeq
  <2> DEFINE b == Batch(h \ {d})
             X == SUBSET Statement
  <2>2. r \in Seq(X) /\ b \in Seq(X)
    BY <1>2, <2>1
  <2>3. Listed(b) = h \ {d}
    BY ListedOne
  <2> HIDE DEF b, r, X
  <2>4. Listed(b \o r) = Listed(b) \cup Listed(r)
    BY <2>2, ListedConcat
  <2> QED
    BY <2>3, <2>4 DEF b
<1>4. d \in Statement /\ d \in Due
  BY <1>1, <1>2 DEF Due
<1>5. /\ Listed(writes'[w]) = (h \ {d}) \cup Listed(r)
      /\ \A v \in Writer \ {w} : writes'[v] = writes[v]
  BY <1>0, <1>1, <1>3
<1> HIDE DEF h, r
<1>6. Due' \subseteq Due /\ Due \subseteq Due' \cup {d}
  BY <1>2, <1>5 DEF Due
<1>7. \A s : Agrees(s)' = Agrees(s)
  <2>1. UNCHANGED <<directoryVars, grants, denials>>
    BY DEF WriteStep, vars, grantVars
  <2> QED
    BY <2>1, AgreesWithHub
<1>8. ASSUME NEW s \in Stored'
      PROVE  Agrees(s) \/ \E e \in Due' : SameRow(e, s)
  <2>0. s \in Statement
    BY <1>8 DEF Stored
  <2>1. CASE SameRow(d, s)
    <3>1. Agrees(d)
      BY <1>4 DEF RowsAgree
    <3>2. s.table = d.table /\ s.key = d.key
      BY <2>1 DEF SameRow
    <3>3. CASE s.table = "identities"
      <4>1. s.value <=> d.value
        BY <1>0, <1>1, <1>4, <1>8, <3>2, <3>3, StatementKinds DEF TablesTypeOK, Stored
      <4> QED
        BY <3>1, <3>2, <3>3, <4>1 DEF Agrees
    <3>4. CASE s.table # "identities"
      <4>1. s.value = d.value
        BY <1>0, <1>1, <1>4, <1>8, <2>0, <3>2, <3>4, StatementKinds
           DEF TablesTypeOK, Stored, Statement
      <4> QED
        BY <3>1, <3>2, <3>4, <4>1 DEF Agrees
    <3> QED
      BY <3>3, <3>4
  <2>2. CASE ~SameRow(d, s)
    <3>0. d.table = s.table => d.key # s.key
      BY <2>2 DEF SameRow
    <3>1. s \in Stored
      <4> USE <1>0, <1>1, <1>4, <1>8, <2>0, <3>0, StatementKinds DEF TablesTypeOK, Stored
      <4>1. s.table = "tokens" => s.value = tokenRows[s.key]
        OBVIOUS
      <4>2. s.table = "identities" => (s.value <=> s.key \in identityRows)
        OBVIOUS
      <4>3. s.table = "governor" => s.value = governorRow
        BY DEF Statement
      <4>4. s.table = "grants" => s.value = grantRows[s.key]
        OBVIOUS
      <4>5. s.table = "denial_blocks" => s.value = denialRows[s.key]
        OBVIOUS
      <4> HIDE <1>0, <1>1, <1>4, <1>8, <2>0, <3>0, StatementKinds
      <4> QED
        BY <2>0, <4>1, <4>2, <4>3, <4>4, <4>5
    <3>2. Agrees(s) \/ \E e \in Due : SameRow(e, s)
      BY <3>1 DEF RowsAgree
    <3> QED
      BY <1>6, <2>2, <3>2
  <2> QED
    BY <2>1, <2>2
<1>9. (\A s \in Due : Agrees(s))'
  BY <1>6, <1>7 DEF RowsAgree
<1>10. (\A s \in Stored : Agrees(s) \/ \E e \in Due : SameRow(e, s))'
  BY <1>7, <1>8 DEF SameRow
<1> QED
  BY <1>9, <1>10 DEF RowsAgree
-----------------------------------------------------------------------------
(* Every handler that writes stores what it has changed, and what it       *)
(* stores is what it has made of the hub.                                  *)
Covers(D) ==
    /\ \A d \in D : Agrees(d)'
    /\ \A s \in Statement : Agrees(s) => Agrees(s)' \/ \E d \in D : SameRow(d, s)

(* The sets of rows a deletion writes at last.                             *)
FlagRows(b)  == IF b THEN {GovernorRow(None)} ELSE {}
GoneGrants   == {GrantRow(i, None) : i \in {j \in GrantId : grants[j] # None /\ grants'[j] = None}}
LiftedBlocks == {DenialRow(p, "none") :
                   p \in {q \in Token \X Name : denials[q] # "none" /\ denials'[q] = "none"}}

(* A statement names its table, its row and the value.                     *)
LEMMA RowsOf ==
    /\ \A t, n : TokenRow(t, n).table = "tokens" /\ TokenRow(t, n).key = t /\ TokenRow(t, n).value = n
    /\ \A n : /\ GovernorRow(n).table = "governor" /\ GovernorRow(n).key = None
              /\ GovernorRow(n).value = n
    /\ \A i, g : GrantRow(i, g).table = "grants" /\ GrantRow(i, g).key = i /\ GrantRow(i, g).value = g
    /\ \A p, k : /\ DenialRow(p, k).table = "denial_blocks" /\ DenialRow(p, k).key = p
                 /\ DenialRow(p, k).value = k
BY DEF TokenRow, GovernorRow, GrantRow, DenialRow

(* POST /listen with a new name, POST /announce                            *)
LEMMA BindCovers ==
    ASSUME HubInv, ~doubled, HoldersAreSound, NEW t \in Token, NEW n \in Name, Bind(t, n),
           UNCHANGED grantVars
    PROVE  Covers({IdentityRow(n, TRUE)} \cup {TokenRow(t, n)})
<1> DEFINE D == {IdentityRow(n, TRUE)} \cup {TokenRow(t, n)}
<1> USE DirectoryAssumption
<1> DEFINE Bound == /\ identities' = identities \cup {n}
                    /\ nameToToken' = [nameToToken EXCEPT ![n] = t]
                    /\ tokenToName' = [tokenToName EXCEPT ![t] = n]
                    /\ UNCHANGED <<status, governor>>
<1>b. n \notin identities /\ Bound
  BY BindIsPlain DEF HubInv
<1>0. DirectoryTypeOK /\ UNCHANGED <<grants, denials, governor>>
  BY <1>b DEF HubInv, DirectoryInv, grantVars
<1>1. ASSUME NEW d \in D PROVE Agrees(d)'
  <2>1. CASE d = IdentityRow(n, TRUE)
    BY <2>1, <1>0, <1>b DEF IdentityRow, Agrees, DirectoryTypeOK
  <2>2. CASE d = TokenRow(t, n)
    BY <2>2, <1>0, <1>b, RowsOf DEF Agrees, TokenAgrees, DirectoryTypeOK
  <2> QED
    BY <2>1, <2>2
<1>2. ASSUME NEW s \in Statement, Agrees(s), \A d \in D : ~SameRow(d, s) PROVE Agrees(s)'
  <2>0. (s.table = "identities" => s.key # n) /\ (s.table = "tokens" => s.key # t)
    <3>1. IdentityRow(n, TRUE) \in D /\ TokenRow(t, n) \in D
      OBVIOUS
    <3> HIDE DEF D
    <3> QED
      BY <1>2, <3>1 DEF SameRow, IdentityRow, TokenRow
  <2>1. s.table = "tokens" => TokenAgrees(s.key, s.value)'
    BY <1>0, <1>b, <1>2, <2>0, StatementKinds
       DEF Agrees, TokenAgrees, DirectoryTypeOK, HoldersAreSound, Live
  <2>2. s.table = "identities" => (s.value <=> s.key \in identities')
    BY <1>b, <1>2, <2>0 DEF Agrees
  <2> QED
    BY <1>0, <1>2, <2>1, <2>2 DEF Agrees, GrantAgrees
<1> HIDE DEF D
<1>3. Covers(D)
  BY <1>1, <1>2 DEF Covers
<1> QED
  BY <1>3 DEF D

(* POST /register with a name                                              *)
LEMMA RebindCovers ==
    ASSUME HubInv, ~doubled, HoldersAreSound, NEW g \in Token, NEW n \in Name, NEW t \in Token,
           Rebind(g, n, t), UNCHANGED grantVars
    PROVE  Covers((IF nameToToken[n] = None THEN {} ELSE {TokenRow(nameToToken[n], None)})
                    \cup {IdentityRow(n, TRUE)} \cup {TokenRow(t, n)})
<1> DEFINE old == nameToToken[n]
           D == (IF old = None THEN {} ELSE {TokenRow(old, None)})
                  \cup {IdentityRow(n, TRUE)} \cup {TokenRow(t, n)}
<1> USE DirectoryAssumption
<1>0. DirectoryTypeOK /\ UNCHANGED <<grants, denials, governor, identities>>
  BY DEF HubInv, DirectoryInv, Rebind, grantVars
<1>00. old # t
  BY DEF Rebind, HoldersAreSound
<1>1. ASSUME NEW d \in D PROVE Agrees(d)'
  <2>1. CASE d = IdentityRow(n, TRUE)
    BY <2>1, <1>0 DEF IdentityRow, Agrees, Rebind
  <2>2. CASE d = TokenRow(t, n)
    BY <2>2, <1>0, RowsOf DEF Agrees, TokenAgrees, Rebind, DirectoryTypeOK
  <2>3. CASE old # None /\ d = TokenRow(old, None)
    <3>1. d.table = "tokens" /\ d.key = old /\ old \in Token
      BY <2>3, <1>0, RowsOf DEF DirectoryTypeOK
    <3>2. tokenToName'[old] = None
      BY <1>00, <3>1 DEF Rebind
    <3> HIDE DEF old
    <3> QED
      BY <3>1, <3>2 DEF Agrees, TokenAgrees
  <2> QED
    BY <2>1, <2>2, <2>3
<1>2. ASSUME NEW s \in Statement, Agrees(s), \A d \in D : ~SameRow(d, s) PROVE Agrees(s)'
  <2>0. s.table = "tokens" => s.key # t /\ s.key # old
    <3>1. TokenRow(t, n) \in D /\ (old # None => TokenRow(old, None) \in D)
      OBVIOUS
    <3> HIDE DEF D, old
    <3>2. s.table = "tokens" => s.key # t
      BY <1>2, <3>1, RowsOf DEF SameRow
    <3>3. s.table = "tokens" /\ old # None => s.key # old
      BY <1>2, <3>1, RowsOf DEF SameRow
    <3> QED
      BY <3>2, <3>3, StatementKinds
  <2>1. s.table = "tokens" => TokenAgrees(s.key, s.value)'
    BY <1>0, <1>2, <2>0, StatementKinds
       DEF Agrees, TokenAgrees, Rebind, DirectoryTypeOK, Live
  <2> QED
    BY <1>0, <1>2, <2>1 DEF Agrees, GrantAgrees
<1> HIDE DEF D
<1>3. Covers(D)
  BY <1>1, <1>2 DEF Covers
<1> QED
  BY <1>3 DEF D

(* What both deletions do to grants and blocks, and to the flag.           *)
LEMMA PurgeCovers ==
    ASSUME HubInv, NEW b \in BOOLEAN,
           governor' = IF b THEN None ELSE governor,
           \A i \in GrantId : grants'[i] \in {None, grants[i]},
           \A p \in Token \X Name : denials'[p] \in {"none", denials[p]},
           NEW D, FlagRows(b) \cup GoneGrants \cup LiftedBlocks \subseteq D
    PROVE  /\ \A d \in FlagRows(b) \cup GoneGrants \cup LiftedBlocks : Agrees(d)'
           /\ \A s \in Statement : Agrees(s) /\ (\A d \in D : ~SameRow(d, s)) =>
                 /\ s.table = "governor" => (governor' # None => s.value = governor')
                 /\ s.table = "grants" => GrantAgrees(s.key, s.value)'
                 /\ s.table = "denial_blocks" => s.value = denials'[s.key]
<1>1. ASSUME NEW d \in FlagRows(b) PROVE Agrees(d)'
  BY <1>1, RowsOf DEF FlagRows, Agrees
<1>2. ASSUME NEW d \in GoneGrants PROVE Agrees(d)'
  BY <1>2, RowsOf DEF GoneGrants, Agrees, GrantAgrees
<1>3. ASSUME NEW d \in LiftedBlocks PROVE Agrees(d)'
  BY <1>3, RowsOf DEF LiftedBlocks, Agrees
<1>4. ASSUME NEW s \in Statement, Agrees(s), \A d \in D : ~SameRow(d, s)
      PROVE  /\ s.table = "governor" => (governor' # None => s.value = governor')
             /\ s.table = "grants" => GrantAgrees(s.key, s.value)'
             /\ s.table = "denial_blocks" => s.value = denials'[s.key]
  <2>1. s.table = "governor" => (governor' # None => s.value = governor')
    BY <1>4 DEF Agrees
  <2>2. ASSUME s.table = "grants" PROVE GrantAgrees(s.key, s.value)'
    <3>1. s.key \in GrantId
      BY <2>2, StatementKinds
    <3>2. grants[s.key] # None /\ grants'[s.key] = None => GrantRow(s.key, None) \in D
      BY <3>1 DEF GoneGrants
    <3>3. GrantRow(s.key, None) \notin D
      BY <1>4, <2>2, RowsOf DEF SameRow
    <3>4. grants'[s.key] = grants[s.key]
      BY <3>1, <3>2, <3>3
    <3> QED
      BY <1>4, <2>2, <3>4 DEF Agrees, GrantAgrees
  <2>3. ASSUME s.table = "denial_blocks" PROVE s.value = denials'[s.key]
    <3>1. s.key \in Token \X Name
      BY <2>3, StatementKinds
    <3>2. denials[s.key] # "none" /\ denials'[s.key] = "none" => DenialRow(s.key, "none") \in D
      BY <3>1 DEF LiftedBlocks
    <3>3. DenialRow(s.key, "none") \notin D
      BY <1>4, <2>3, RowsOf DEF SameRow
    <3>4. denials'[s.key] = denials[s.key]
      BY <3>1, <3>2, <3>3
    <3> QED
      BY <1>4, <2>3, <3>4 DEF Agrees
  <2> QED
    BY <2>1, <2>2, <2>3
<1> QED
  BY <1>1, <1>2, <1>3, <1>4

(* DELETE /identity                                                        *)
LEMMA DeleteIdentityCovers ==
    ASSUME HubInv, ~doubled, NEW t \in Token, DeleteIdentity(t)
    PROVE  LET n == tokenToName[t] IN
           Covers({TokenRow(t, None)}
                    \cup (IF n = None THEN {} ELSE {IdentityRow(n, FALSE)})
                    \cup FlagRows(n # None /\ n = governor) \cup GoneGrants \cup LiftedBlocks)
<1> DEFINE n == tokenToName[t]
           b == n # None /\ n = governor
           D == {TokenRow(t, None)} \cup (IF n = None THEN {} ELSE {IdentityRow(n, FALSE)})
                  \cup FlagRows(b) \cup GoneGrants \cup LiftedBlocks
<1> USE DirectoryAssumption
<1>0. DirectoryTypeOK /\ SpeakersHold /\ n \in Name \cup {None} /\ b \in BOOLEAN
  BY DEF HubInv, DirectoryInv, DirectoryTypeOK
<1>1. governor' = IF b THEN None ELSE governor
  BY DEF DeleteIdentity, DeleteSelf
<1>2. /\ \A i \in GrantId : grants'[i] \in {None, grants[i]}
      /\ \A p \in Token \X Name : denials'[p] \in {"none", denials[p]}
  BY DEF DeleteIdentity, Purge, PurgeGrants, PurgeDenials, grantVars
<1> HIDE DEF b
<1>3. /\ \A d \in FlagRows(b) \cup GoneGrants \cup LiftedBlocks : Agrees(d)'
      /\ \A s \in Statement : Agrees(s) /\ (\A d \in D : ~SameRow(d, s)) =>
             /\ s.table = "governor" => (governor' # None => s.value = governor')
             /\ s.table = "grants" => GrantAgrees(s.key, s.value)'
             /\ s.table = "denial_blocks" => s.value = denials'[s.key]
  <2>1. FlagRows(b) \cup GoneGrants \cup LiftedBlocks \subseteq D
    OBVIOUS
  <2> HIDE DEF D
  <2> QED
    BY <1>0, <1>1, <1>2, <2>1, PurgeCovers
<1>4. Agrees(TokenRow(t, None))'
  BY <1>0, RowsOf DEF DeleteIdentity, DeleteSelf, Agrees, TokenAgrees, Live, DirectoryTypeOK
<1>5. ASSUME NEW d, d = IdentityRow(n, FALSE) PROVE Agrees(d)'
  <2>1. d.table = "identities" /\ d.value = FALSE /\ d.key = n
    BY <1>5 DEF IdentityRow
  <2>2. n \notin identities'
    BY DEF DeleteIdentity, DeleteSelf
  <2> HIDE DEF n
  <2> QED
    BY <2>1, <2>2 DEF Agrees
<1>6. \A d \in D : Agrees(d)'
  <2> DEFINE P == FlagRows(b) \cup GoneGrants \cup LiftedBlocks
  <2>1. \A d \in D : d = TokenRow(t, None) \/ d = IdentityRow(n, FALSE) \/ d \in P
    OBVIOUS
  <2>2. \A d \in P : Agrees(d)'
    BY <1>3
  <2> HIDE DEF D, P, n
  <2> QED
    BY <1>4, <1>5, <2>1, <2>2
<1>7. ASSUME NEW s \in Statement, Agrees(s), \A d \in D : ~SameRow(d, s) PROVE Agrees(s)'
  <2>0. (s.table = "tokens" => s.key # t) /\ (s.table = "identities" /\ n # None => s.key # n)
    <3>1. TokenRow(t, None) \in D /\ (n # None => IdentityRow(n, FALSE) \in D)
      OBVIOUS
    <3> HIDE DEF D, n
    <3> QED
      BY <1>7, <3>1 DEF SameRow, IdentityRow, TokenRow
  <2>1. s.table = "tokens" => TokenAgrees(s.key, s.value)'
    BY <1>0, <1>7, <2>0, StatementKinds
       DEF DeleteIdentity, DeleteSelf, Agrees, TokenAgrees, Live, DirectoryTypeOK, SpeakersHold
  <2>2. s.table = "identities" => (s.value <=> s.key \in identities')
    BY <1>0, <1>7, <2>0, StatementKinds DEF DeleteIdentity, DeleteSelf, Agrees
  <2> QED
    BY <1>3, <1>7, <2>1, <2>2 DEF Agrees
<1> HIDE DEF D
<1>8. Covers(D)
  BY <1>6, <1>7 DEF Covers
<1> QED
  BY <1>8 DEF D, b

(* DELETE /participants/{n}: who was known by the name is revoked, so that *)
(* its row, which stays, is nobody's.                                      *)
LEMMA DeleteParticipantCovers ==
    ASSUME HubInv, ~doubled, NEW g \in Token, NEW n \in Name, DeleteParticipant(g, n)
    PROVE  Covers({IdentityRow(n, FALSE)}
                    \cup FlagRows(n = governor) \cup GoneGrants \cup LiftedBlocks)
<1> DEFINE b == n = governor
           D == {IdentityRow(n, FALSE)} \cup FlagRows(b) \cup GoneGrants \cup LiftedBlocks
<1> USE DirectoryAssumption
<1>0. DirectoryTypeOK /\ b \in BOOLEAN
  BY DEF HubInv, DirectoryInv, DirectoryTypeOK
<1>1. governor' = IF b THEN None ELSE governor
  BY DEF DeleteParticipant, RevokeByName
<1>2. /\ \A i \in GrantId : grants'[i] \in {None, grants[i]}
      /\ \A p \in Token \X Name : denials'[p] \in {"none", denials[p]}
  BY DEF DeleteParticipant, Purge, PurgeGrants, PurgeDenials
<1> HIDE DEF b
<1>3. /\ \A d \in FlagRows(b) \cup GoneGrants \cup LiftedBlocks : Agrees(d)'
      /\ \A s \in Statement : Agrees(s) /\ (\A d \in D : ~SameRow(d, s)) =>
             /\ s.table = "governor" => (governor' # None => s.value = governor')
             /\ s.table = "grants" => GrantAgrees(s.key, s.value)'
             /\ s.table = "denial_blocks" => s.value = denials'[s.key]
  <2>1. FlagRows(b) \cup GoneGrants \cup LiftedBlocks \subseteq D
    OBVIOUS
  <2> HIDE DEF D
  <2> QED
    BY <1>0, <1>1, <1>2, <2>1, PurgeCovers
<1>4. Agrees(IdentityRow(n, FALSE))'
  BY <1>0 DEF IdentityRow, DeleteParticipant, RevokeByName, Agrees
<1>5. \A d \in D : Agrees(d)'
  BY <1>3, <1>4
<1>6. ASSUME NEW s \in Statement, Agrees(s), \A d \in D : ~SameRow(d, s) PROVE Agrees(s)'
  <2>0. s.table = "identities" => s.key # n
    <3>1. IdentityRow(n, FALSE) \in D
      OBVIOUS
    <3> HIDE DEF D
    <3> QED
      BY <1>6, <3>1 DEF SameRow, IdentityRow
  <2>1. s.table = "tokens" => TokenAgrees(s.key, s.value)'
    BY <1>0, <1>6, StatementKinds
       DEF DeleteParticipant, RevokeByName, Agrees, TokenAgrees, Live, Known, DirectoryTypeOK
  <2>2. s.table = "identities" => (s.value <=> s.key \in identities')
    BY <1>6, <2>0 DEF DeleteParticipant, RevokeByName, Agrees
  <2> QED
    BY <1>3, <1>6, <2>1, <2>2 DEF Agrees
<1> HIDE DEF D
<1>7. Covers(D)
  BY <1>5, <1>6 DEF Covers
<1> QED
  BY <1>7 DEF D, b

(* A claim, an election, a transfer, a reset                               *)
LEMMA GovernorCovers ==
    ASSUME NEW n, governor' = n,
           UNCHANGED <<status, tokenToName, nameToToken, identities, grants, denials>>
    PROVE  Covers({GovernorRow(n)})
<1>1. ASSUME NEW d \in {GovernorRow(n)} PROVE Agrees(d)'
  BY <1>1, RowsOf DEF Agrees
<1>2. ASSUME NEW s \in Statement, Agrees(s), \A d \in {GovernorRow(n)} : ~SameRow(d, s)
      PROVE  Agrees(s)'
  <2>1. s.table = "governor" => s.key = None
    BY DEF Statement
  <2>2. s.table # "governor"
    BY <1>2, <2>1, RowsOf DEF SameRow
  <2> QED
    BY <1>2, <2>2 DEF Agrees, TokenAgrees, GrantAgrees, Live
<1> QED
  BY <1>1, <1>2 DEF Covers

(* The two approvals; the first stores the tokens of the parties as well.  *)
LEMMA ApprovalCovers ==
    ASSUME HubInv, NEW g, AddGrant(g), UNCHANGED <<directoryVars, denials>>, NEW T,
           \A d \in T : \E n \in Name : d = TokenRow(nameToToken[n], n)
    PROVE  Covers({GrantRow(grantCount', grants'[grantCount'])} \cup T)
<1> DEFINE made == GrantRow(grantCount', grants'[grantCount'])
           D == {made} \cup T
<1> USE GrantsAssumption, DirectoryAssumption
<1>0. grantCount' = grantCount + 1 /\ grants \in [GrantId -> Grant \cup {None}]
  BY DEF AddGrant, HubInv, GrantsTypeOK
<1>1. ASSUME NEW d \in D PROVE Agrees(d)'
  <2>1. CASE d = made
    <3>1. d.table = "grants" /\ d.key = grantCount' /\ d.value = grants'[grantCount']
      BY <2>1, RowsOf
    <3> QED
      BY <3>1 DEF Agrees, GrantAgrees, SameParties
  <2>2. CASE d \in T
    <3>1. PICK n \in Name : d = TokenRow(nameToToken[n], n)
      BY <2>2
    <3>2. d.table = "tokens" /\ d.key = nameToToken[n] /\ d.value = n
      BY <3>1, RowsOf
    <3> QED
      BY <3>2 DEF Agrees, TokenAgrees, directoryVars
  <2> QED
    BY <2>1, <2>2
<1>2. ASSUME NEW s \in Statement, Agrees(s), \A d \in D : ~SameRow(d, s) PROVE Agrees(s)'
  <2>1. s.table = "grants" => s.key # grantCount + 1
    <3>1. made \in D
      OBVIOUS
    <3>2. made.table = "grants" /\ made.key = grantCount'
      BY RowsOf
    <3> HIDE DEF D, made
    <3> QED
      BY <1>0, <1>2, <3>1, <3>2 DEF SameRow
  <2>2. s.table = "grants" => s.key \in GrantId /\ grants'[s.key] = grants[s.key]
    BY <1>0, <2>1, StatementKinds DEF AddGrant
  <2> QED
    BY <1>2, <2>2 DEF Agrees, TokenAgrees, GrantAgrees, Live, directoryVars
<1> HIDE DEF D
<1>3. Covers(D)
  BY <1>1, <1>2 DEF Covers
<1> QED
  BY <1>3 DEF D, made

(* DELETE /grants/{i}                                                      *)
LEMMA RevokeGrantCovers ==
    ASSUME HubInv, NEW i \in GrantId, grants' = [grants EXCEPT ![i] = None],
           UNCHANGED <<directoryVars, denials>>
    PROVE  Covers({GrantRow(i, None)})
<1>0. grants \in [GrantId -> Grant \cup {None}]
  BY DEF HubInv, GrantsTypeOK
<1>1. ASSUME NEW d \in {GrantRow(i, None)} PROVE Agrees(d)'
  BY <1>0, <1>1, RowsOf DEF Agrees, GrantAgrees
<1>2. ASSUME NEW s \in Statement, Agrees(s), \A d \in {GrantRow(i, None)} : ~SameRow(d, s)
      PROVE  Agrees(s)'
  <2>1. s.table = "grants" => s.key # i
    BY <1>2, RowsOf DEF SameRow
  <2>2. s.table = "grants" => s.key \in GrantId /\ grants'[s.key] = grants[s.key]
    BY <1>0, <2>1, StatementKinds
  <2> QED
    BY <1>2, <2>2 DEF Agrees, TokenAgrees, GrantAgrees, Live, directoryVars
<1> QED
  BY <1>1, <1>2 DEF Covers

(* A denied request, POST /grants/block, POST /grants/unblock              *)
LEMMA DenialCovers ==
    ASSUME HubInv, NEW p \in Token \X Name, NEW kind, denials' = [denials EXCEPT ![p] = kind],
           UNCHANGED <<directoryVars, grants>>
    PROVE  Covers({DenialRow(p, kind)})
<1>0. DOMAIN denials = Token \X Name
  BY DEF HubInv, GrantsTypeOK
<1>1. ASSUME NEW d \in {DenialRow(p, kind)} PROVE Agrees(d)'
  BY <1>0, <1>1, RowsOf DEF Agrees
<1>2. ASSUME NEW s \in Statement, Agrees(s), \A d \in {DenialRow(p, kind)} : ~SameRow(d, s)
      PROVE  Agrees(s)'
  <2>1. s.table = "denial_blocks" => s.key # p
    BY <1>2, RowsOf DEF SameRow
  <2>2. s.table = "denial_blocks" => s.key \in Token \X Name /\ denials'[s.key] = denials[s.key]
    BY <1>0, <2>1, StatementKinds
  <2> QED
    BY <1>2, <2>2 DEF Agrees, TokenAgrees, GrantAgrees, Live, directoryVars
<1> QED
  BY <1>1, <1>2 DEF Covers

(* So a handler that starts to write while nobody else does leaves rows    *)
(* and statements that agree.                                              *)
LEMMA StoredStepKeepsAgreement ==
    ASSUME PersistenceInv, ~doubled, HoldersAreSound, ~overlapped => RowsAgree,
           NEW w \in Writer, StoredStep(w)
    PROVE  ~overlapped' => RowsAgree'
<1> DEFINE Goal == ~overlapped' => RowsAgree'
<1> USE DirectoryAssumption
<1>0. HubInv /\ GrantsTypeOK /\ DirectoryTypeOK
  BY DEF PersistenceInv, HubInv, DirectoryInv
<1>1. ASSUME NEW batches, Store(w, batches), Covers(Listed(batches)) PROVE Goal
  BY <1>1, StoreKeepsAgreement DEF Covers
<1>2. ASSUME NEW S, Store(w, <<S>>), Covers(S) PROVE Goal
  BY <1>1, <1>2, ListedOne
<1> HIDE DEF Goal
<1>3. ASSUME ResetAndStore(w) PROVE Goal
  <2>1. Covers({GovernorRow(None)})
    BY <1>3, GovernorCovers DEF ResetAndStore, grantVars
  <2> QED
    BY <1>2, <1>3, <2>1 DEF ResetAndStore
<1>4. ASSUME NEW t \in Token, AppointAndStore(w, t) PROVE Goal
  <2>1. Covers({GovernorRow(tokenToName[t])})
    BY <1>4, GovernorCovers DEF AppointAndStore, Appoint, grantVars
  <2> QED
    BY <1>2, <1>4, <2>1 DEF AppointAndStore
<1>5. ASSUME NEW t \in Token, NEW n \in Name, BindAndStore(w, t, n) PROVE Goal
  <2>1. Covers({IdentityRow(n, TRUE)} \cup {TokenRow(t, n)})
    BY <1>0, <1>5, BindCovers DEF BindAndStore
  <2>2. Listed(<<{IdentityRow(n, TRUE)}, {TokenRow(t, n)}>>)
          = {IdentityRow(n, TRUE)} \cup {TokenRow(t, n)}
    BY ListedTwo
  <2>3. Covers(Listed(<<{IdentityRow(n, TRUE)}, {TokenRow(t, n)}>>))
    BY <2>1, <2>2
  <2> QED
    BY <1>1, <1>5, <2>3 DEF BindAndStore
<1>6. ASSUME NEW g \in Token, NEW n \in Name, NEW t \in Token, RebindAndStore(w, g, n, t)
      PROVE  Goal
  <2> DEFINE A == IF nameToToken[n] = None THEN {} ELSE {TokenRow(nameToToken[n], None)}
             B == {IdentityRow(n, TRUE)}
             C == {TokenRow(t, n)}
  <2>1. Covers(A \cup B \cup C)
    BY <1>0, <1>6, RebindCovers DEF RebindAndStore
  <2>2. Store(w, Batch(A) \o <<B, C>>)
    BY <1>6 DEF RebindAndStore
  <2> HIDE DEF A, B, C
  <2>3. Listed(Batch(A) \o <<B, C>>) = A \cup B \cup C
    BY ListedRebind
  <2> QED
    BY <1>1, <2>1, <2>2, <2>3
<1>7. ASSUME NEW t \in Token, DeleteIdentityAndStore(w, t) PROVE Goal
  <2> DEFINE n == tokenToName[t]
             A == {TokenRow(t, None)}
             B == IF n = None THEN {} ELSE {IdentityRow(n, FALSE)}
             C == FlagRows(n # None /\ n = governor)
  <2>1. Covers(A \cup B \cup C \cup GoneGrants \cup LiftedBlocks)
    BY <1>0, <1>7, DeleteIdentityCovers DEF DeleteIdentityAndStore
  <2>2. Store(w, <<A>> \o Batch(B) \o (Batch(C) \o Batch(GoneGrants) \o Batch(LiftedBlocks)))
    BY <1>7 DEF DeleteIdentityAndStore, ForgottenRows, FlagRows, GoneGrants, LiftedBlocks
  <2> HIDE DEF A, B, C
  <2>3. Listed(<<A>> \o Batch(B) \o (Batch(C) \o Batch(GoneGrants) \o Batch(LiftedBlocks)))
          = A \cup B \cup C \cup GoneGrants \cup LiftedBlocks
    BY ListedFive
  <2> QED
    BY <1>1, <2>1, <2>2, <2>3
<1>8. ASSUME NEW g \in Token, NEW n \in Name, DeleteParticipantAndStore(w, g, n) PROVE Goal
  <2> DEFINE A == {IdentityRow(n, FALSE)}
             C == FlagRows(n = governor)
  <2>1. Covers(A \cup C \cup GoneGrants \cup LiftedBlocks)
    BY <1>0, <1>8, DeleteParticipantCovers DEF DeleteParticipantAndStore
  <2>2. Store(w, <<A>> \o (Batch(C) \o Batch(GoneGrants) \o Batch(LiftedBlocks)))
    BY <1>8 DEF DeleteParticipantAndStore, ForgottenRows, FlagRows, GoneGrants, LiftedBlocks
  <2> HIDE DEF A, C
  <2>3. Listed(<<A>> \o (Batch(C) \o Batch(GoneGrants) \o Batch(LiftedBlocks)))
          = A \cup C \cup GoneGrants \cup LiftedBlocks
    BY ListedFour
  <2> QED
    BY <1>1, <2>1, <2>2, <2>3
<1>9. ASSUME NEW t \in Token, NEW r \in RequestSlot, EstablishAndStore(w, t, r) PROVE Goal
  <2> DEFINE a == requests[r].fromName
             b == requests[r].toName
             A == {GrantRow(grantCount', grants'[grantCount'])}
             B == IF a \notin Name \/ nameToToken[a] = None THEN {} ELSE {TokenRow(nameToToken[a], a)}
             C == IF b \notin Name \/ nameToToken[b] = None THEN {} ELSE {TokenRow(nameToToken[b], b)}
  <2>2. \A d \in B \cup C : \E n \in Name : d = TokenRow(nameToToken[n], n)
    OBVIOUS
  <2>3. Store(w, <<A>> \o Batch(B) \o Batch(C))
    BY <1>9 DEF EstablishAndStore, HolderRow
  <2> HIDE DEF B, C
  <2>4. Covers(A \cup (B \cup C))
    BY <1>0, <1>9, <2>2, ApprovalCovers DEF EstablishAndStore, Establish
  <2> HIDE DEF A
  <2>5. Listed(<<A>> \o Batch(B) \o Batch(C)) = A \cup B \cup C
    BY ListedThree
  <2>6. A \cup B \cup C = A \cup (B \cup C)
    OBVIOUS
  <2> QED
    BY <1>1, <2>3, <2>4, <2>5, <2>6
<1>10. ASSUME NEW terms \in Terms, ApproveAndStore(w, terms) PROVE Goal
  <2> DEFINE A == {GrantRow(grantCount', grants'[grantCount'])}
             none == {}
  <2>1. \A d \in none : \E n \in Name : d = TokenRow(nameToToken[n], n)
    OBVIOUS
  <2> HIDE DEF none
  <2>2. Covers(A \cup none)
    BY <1>0, <1>10, <2>1, ApprovalCovers DEF ApproveAndStore, ApproveGrant
  <2>3. A \cup none = A
    BY DEF none
  <2>4. Store(w, <<A>>)
    BY <1>10 DEF ApproveAndStore
  <2> HIDE DEF A
  <2> QED
    BY <1>2, <2>2, <2>3, <2>4
<1>11. ASSUME NEW g \in Token, NEW i \in GrantId, RevokeGrantAndStore(w, g, i) PROVE Goal
  <2>1. Covers({GrantRow(i, None)})
    BY <1>0, <1>11, RevokeGrantCovers DEF RevokeGrantAndStore, RevokeGrant
  <2> QED
    BY <1>2, <1>11, <2>1 DEF RevokeGrantAndStore
<1>12. ASSUME NEW p \in Token \X Name, NEW kind, denials' = [denials EXCEPT ![p] = kind],
              UNCHANGED <<directoryVars, grants>>, Store(w, <<{DenialRow(p, kind)}>>)
       PROVE  Goal
  BY <1>0, <1>2, <1>12, DenialCovers
<1>13. ASSUME NEW t \in Token, NEW r \in RequestSlot, NEW kind \in {"timed", "permanent"},
              DenyAndStore(w, t, r, kind)
       PROVE  Goal
  <2>1. <<requests[r].fromId, requests[r].toName>> \in Token \X Name
    BY <1>0, <1>13 DEF DenyAndStore, DenyGrantRequest, Pending, GrantsTypeOK, Request
  <2> QED
    BY <1>12, <1>13, <2>1 DEF DenyAndStore, DenyGrantRequest
<1>14. ASSUME NEW g \in Token, NEW t \in Token, NEW n \in Name, NEW kind \in {"timed", "permanent"},
              BlockAndStore(w, g, t, n, kind)
       PROVE  Goal
  <2>1. <<t, n>> \in Token \X Name
    OBVIOUS
  <2> QED
    BY <1>12, <1>14, <2>1 DEF BlockAndStore, BlockDirect
<1>15. ASSUME NEW g \in Token, NEW t \in Token, NEW n \in Name, UnblockAndStore(w, g, t, n)
       PROVE  Goal
  <2>1. <<t, n>> \in Token \X Name
    OBVIOUS
  <2> QED
    BY <1>12, <1>15, <2>1 DEF UnblockAndStore, UnblockGrant
<1>16. Goal
  BY <1>3, <1>4, <1>5, <1>6, <1>7, <1>8, <1>9, <1>10, <1>11, <1>13, <1>14, <1>15 DEF StoredStep
<1> QED
  BY <1>16 DEF Goal

-----------------------------------------------------------------------------
(* The steps that store nothing.                                           *)
LEMMA UnstoredStepKeepsAgreement ==
    ASSUME PersistenceInv, ~doubled, RowsAgree, UnstoredStep, UNCHANGED storeVars
    PROVE  RowsAgree'
<1> USE DirectoryAssumption
<1>0. DirectoryTypeOK /\ SpeakersHold /\ ReadsWhereItSpeaks
  BY DEF PersistenceInv, HubInv, DirectoryInv
<1>1. ASSUME NEW s \in Statement, Agrees(s) PROVE Agrees(s)'
  <2> DEFINE Goal == Agrees(s)'
  <2>0. /\ s.table = "tokens" => s.key \in Token /\ s.value \in Name \cup {None}
        /\ s.table = "tokens" => TokenAgrees(s.key, s.value)
    BY <1>1, StatementKinds DEF Agrees
  <2>1. ASSUME UNCHANGED <<identities, governor, grants, denials>>,
               \A t \in Token, v \in Name \cup {None} : TokenAgrees(t, v) => TokenAgrees(t, v)'
        PROVE  Goal
    BY <1>1, <2>0, <2>1 DEF Agrees, GrantAgrees
  <2>2. ASSUME UNCHANGED <<directoryVars, grants, denials>> PROVE Goal
    BY <1>1, <2>2, AgreesWithHub
  <2> HIDE DEF Goal
  <2>3. ASSUME NEW t \in Token, Mint(t), UNCHANGED grantVars PROVE Goal
    BY <1>0, <2>1, <2>3
       DEF Mint, grantVars, TokenAgrees, Live, Known, SpeakersHold, DirectoryTypeOK
  <2>4. ASSUME NEW t \in Token, Unbind(t), UNCHANGED grantVars PROVE Goal
    BY <1>0, <2>1, <2>4
       DEF Unbind, grantVars, TokenAgrees, Live, SpeakersHold, DirectoryTypeOK
  <2>5. ASSUME NEW t \in Token, Collect(t), UNCHANGED grantVars PROVE Goal
    BY <1>0, <2>1, <2>5
       DEF Collect, grantVars, TokenAgrees, Live, SpeakersHold, ReadsWhereItSpeaks, DirectoryTypeOK
  <2>6. ASSUME NEW n \in Name, Release(n), UNCHANGED grantVars PROVE Goal
    BY <1>0, <2>1, <2>6 DEF Release, grantVars, TokenAgrees, Live, Known, DirectoryTypeOK
  <2>7. ASSUME NEW t \in Token, NEW n \in Name, NEW r \in RequestSlot,
               RequestGrant(t, n, r) \/ RequestAgain(t, n, r) \/ Resubmit(t, n, r)
        PROVE  Goal
    BY <2>2, <2>7 DEF RequestGrant, RequestAgain, Resubmit
  <2>8. ASSUME NEW t \in Token, NEW r \in RequestSlot,
               GovernorApproves(t, r) \/ HoldGrantRequest(t, r)
        PROVE  Goal
    BY <2>2, <2>8 DEF GovernorApproves, HoldGrantRequest
  <2>9. ASSUME NEW r \in RequestSlot, RequestTimesOut(r) PROVE Goal
    BY <2>2, <2>9 DEF RequestTimesOut
  <2>10. ASSUME NEW g \in Token, NEW a \in Token, NEW b \in Token, ResolveParties(g, a, b)
         PROVE  Goal
    BY <2>2, <2>10 DEF ResolveParties
  <2>12. ASSUME NEW t \in Token, AskGrant(t) \/ AskEnds(t) PROVE Goal
    BY <2>2, <2>12 DEF AskGrant, AskEnds
  <2>13. ASSUME NEW t \in Token PROVE ~GiveBack(t)
    BY NothingGivenBack DEF PersistenceInv, HubInv
  <2>11. Goal
    BY <2>3, <2>4, <2>5, <2>6, <2>7, <2>8, <2>9, <2>10, <2>12, <2>13 DEF UnstoredStep
  <2> QED
    BY <2>11 DEF Goal
<1>2. Due' = Due /\ Stored' = Stored
  BY DEF storeVars, tables, Due, Stored
<1>3. Due \subseteq Statement /\ Stored \subseteq Statement
  BY DueAreStatements DEF Stored
<1> HIDE DEF Statement
<1>4. (\A s \in Due : Agrees(s))'
  BY <1>1, <1>2, <1>3 DEF RowsAgree
<1>5. (\A s \in Stored : Agrees(s) \/ \E d \in Due : SameRow(d, s))'
  BY <1>1, <1>2, <1>3 DEF RowsAgree, SameRow
<1> QED
  BY <1>4, <1>5 DEF RowsAgree

(* Nothing about the row is still to be written.                           *)
LEMMA NotToBeWritten ==
    ASSUME PersistenceInv, NEW table, NEW key, ~ToBeWritten(table, key), NEW d \in Due
    PROVE  ~ (d.table = table /\ d.key = key)
<1>1. PICK w \in Writer : d \in Listed(writes[w])
  BY DEF Due
<1> QED
  BY <1>1 DEF Listed, ToBeWritten

(* Of an expiry that passes, hub and row learn together; or the row is not *)
(* one that expires, and says what the grant was.                          *)
LEMMA GrantLapseKeepsAgreement ==
    ASSUME PersistenceInv, RowsAgree, NEW i \in GrantId, GrantAndRowLapse(i)
    PROVE  RowsAgree'
<1> USE GrantsAssumption
<1>0. /\ grants \in [GrantId -> Grant \cup {None}] /\ grantRows \in [GrantId -> Grant \cup {None}]
      /\ grants[i] # None /\ ~grants[i].expired
  BY DEF PersistenceInv, HubInv, GrantsTypeOK, TablesTypeOK, GrantAndRowLapse, GrantLapses
<1>1. \A d \in Due : ~ (d.table = "grants" /\ d.key = i)
  BY NotToBeWritten DEF GrantAndRowLapse
<1>2. /\ Due' = Due
      /\ UNCHANGED <<directoryVars, denials, tokenRows, identityRows, governorRow, denialRows>>
  BY DEF GrantAndRowLapse, GrantLapses, Due
<1>3. grants[i] \in Grant
  BY <1>0
<1>4. /\ \A j \in GrantId \ {i} : grants'[j] = grants[j]
      /\ grants'[i] = [grants[i] EXCEPT !.expired = TRUE]
      /\ \A j \in GrantId \ {i} : grantRows'[j] = grantRows[j]
      /\ grantRows'[i] = IF grantRows[i] # None /\ grantRows[i].direct
                         THEN [grantRows[i] EXCEPT !.expired = TRUE] ELSE grantRows[i]
  BY <1>0 DEF GrantAndRowLapse, GrantLapses
<1>5. ASSUME NEW s \in Statement, Agrees(s), ~ (s.table = "grants" /\ s.key = i) PROVE Agrees(s)'
  <2>1. s.table = "grants" => GrantAgrees(s.key, s.value)'
    <3>1. s.table = "grants" => s.key \in GrantId \ {i}
      BY <1>5, StatementKinds
    <3> QED
      BY <1>4, <1>5, <3>1 DEF Agrees, GrantAgrees
  <2> QED
    BY <1>2, <1>5, <2>1 DEF Agrees, TokenAgrees, Live, directoryVars
<1>6. GrantAgrees(i, grantRows[i])
  <2> DEFINE s == GrantRow(i, grantRows[i])
  <2>1. s.table = "grants" /\ s.key = i /\ s.value = grantRows[i]
    BY RowsOf
  <2>2. s \in Stored
    BY <1>0, <2>1 DEF Stored, Statement, GrantRow
  <2> HIDE DEF s
  <2>3. Agrees(s)
    BY <1>1, <2>1, <2>2 DEF RowsAgree, SameRow
  <2> QED
    BY <2>1, <2>3 DEF Agrees
<1>7. grantRows[i] = grants[i]
  BY <1>0, <1>6 DEF GrantAgrees
<1>8. ASSUME NEW s, s.table = "grants", s.key = i, s.value = grantRows'[i] PROVE Agrees(s)'
  <2> DEFINE g == grants[i]
             h == [g EXCEPT !.expired = TRUE]
  <2>1. /\ h # None /\ h.expired
        /\ h.nameA = g.nameA /\ h.nameB = g.nameB /\ h.direct = g.direct
    <3>1. h \in Grant
      BY <1>3 DEF Grant
    <3>2. h # None
      BY <3>1, GrantAssumption
    <3>3. /\ h.expired
          /\ h.nameA = g.nameA /\ h.nameB = g.nameB /\ h.direct = g.direct
      BY <1>3 DEF Grant
    <3> QED
      BY <3>2, <3>3
  <2>2. g # None /\ grants'[i] = h /\ (s.value = g \/ s.value = h)
    BY <1>0, <1>4, <1>7, <1>8
  <2> HIDE DEF g, h
  <2> QED
    BY <1>8, <2>1, <2>2 DEF Agrees, GrantAgrees, SameParties
<1>9. ASSUME NEW s \in Stored' PROVE Agrees(s)' \/ \E d \in Due' : SameRow(d, s)
  <2>0. s \in Statement
    BY <1>9 DEF Stored
  <2>1. CASE s.table = "grants" /\ s.key = i
    BY <1>8, <1>9, <2>1 DEF Stored
  <2>2. CASE ~ (s.table = "grants" /\ s.key = i)
    <3>1. s.table = "grants" => grantRows'[s.key] = grantRows[s.key]
      BY <1>4, <2>0, <2>2, StatementKinds
    <3>2. s \in Stored
      BY <1>2, <1>9, <2>0, <3>1 DEF Stored
    <3> QED
      BY <1>2, <1>5, <2>0, <2>2, <3>2 DEF RowsAgree
  <2> QED
    BY <2>1, <2>2
<1>10. Due \subseteq Statement
  BY DueAreStatements
<1> HIDE DEF Statement
<1>11. (\A s \in Due : Agrees(s))'
  BY <1>1, <1>2, <1>5, <1>10 DEF RowsAgree
<1>12. (\A s \in Stored : Agrees(s) \/ \E d \in Due : SameRow(d, s))'
  BY <1>9 DEF SameRow
<1> QED
  BY <1>11, <1>12 DEF RowsAgree

(* The same for a block.                                                   *)
LEMMA DenialLapseKeepsAgreement ==
    ASSUME PersistenceInv, RowsAgree, NEW t \in Token, NEW n \in Name, DenialAndRowLapse(t, n)
    PROVE  RowsAgree'
<1> DEFINE p == <<t, n>>
<1>0. /\ denials \in [Token \X Name -> {"none", "timed", "permanent"}]
      /\ denialRows \in [Token \X Name -> {"none", "timed", "permanent"}]
      /\ p \in Token \X Name
  BY DEF PersistenceInv, HubInv, GrantsTypeOK, TablesTypeOK
<1>1. \A d \in Due : ~ (d.table = "denial_blocks" /\ d.key = p)
  BY NotToBeWritten DEF DenialAndRowLapse
<1>2. /\ Due' = Due
      /\ UNCHANGED <<directoryVars, grants, tokenRows, identityRows, governorRow, grantRows>>
      /\ denials' = [denials EXCEPT ![p] = "none"]
      /\ denialRows' = [denialRows EXCEPT ![p] = "none"]
  BY DEF DenialAndRowLapse, DenialLapses, Due
<1> HIDE DEF p
<1>3. /\ denials'[p] = "none" /\ denialRows'[p] = "none"
      /\ \A q \in (Token \X Name) \ {p} : denials'[q] = denials[q] /\ denialRows'[q] = denialRows[q]
  BY <1>0, <1>2
<1>4. ASSUME NEW s \in Statement, Agrees(s), ~ (s.table = "denial_blocks" /\ s.key = p)
      PROVE  Agrees(s)'
  <2>1. s.table = "denial_blocks" => s.key \in (Token \X Name) \ {p}
    BY <1>4, StatementKinds
  <2> QED
    BY <1>2, <1>3, <1>4, <2>1 DEF Agrees, TokenAgrees, GrantAgrees, Live, directoryVars
<1>5. ASSUME NEW s \in Stored' PROVE Agrees(s)' \/ \E d \in Due' : SameRow(d, s)
  <2>0. s \in Statement
    BY <1>5 DEF Stored
  <2>1. CASE s.table = "denial_blocks" /\ s.key = p
    <3>1. s.value = "none"
      BY <1>3, <1>5, <2>1 DEF Stored
    <3> QED
      BY <1>3, <2>1, <3>1 DEF Agrees
  <2>2. CASE ~ (s.table = "denial_blocks" /\ s.key = p)
    <3>1. s.table = "denial_blocks" => denialRows'[s.key] = denialRows[s.key]
      BY <1>3, <2>0, <2>2, StatementKinds
    <3>2. s \in Stored
      BY <1>2, <1>5, <2>0, <3>1 DEF Stored
    <3> QED
      BY <1>2, <1>4, <2>0, <2>2, <3>2 DEF RowsAgree
  <2> QED
    BY <2>1, <2>2
<1>6. Due \subseteq Statement
  BY DueAreStatements
<1> HIDE DEF Statement
<1>7. (\A s \in Due : Agrees(s))'
  BY <1>1, <1>2, <1>4, <1>6 DEF RowsAgree
<1>8. (\A s \in Stored : Agrees(s) \/ \E d \in Due : SameRow(d, s))'
  BY <1>5 DEF SameRow
<1> QED
  BY <1>7, <1>8 DEF RowsAgree

-----------------------------------------------------------------------------
(* Holders, the parties of requests and grants, and the restart.           *)

(* Nothing between restarts gives a name to a token nobody has drawn, or a *)
(* holder to a name that is not registered.                                *)
LEMMA HoldersStaySound ==
    ASSUME HubInv, ~doubled, HoldersAreSound, [GrantsNext]_vars
    PROVE  HoldersAreSound'
<1> USE DirectoryAssumption DEF DirectoryTypeOK, HoldersAreSound
<1>0. DirectoryInv /\ DirectoryTypeOK /\ SpeakersHold /\ ReadsWhereItSpeaks
  BY DEF HubInv, DirectoryInv
<1> DEFINE Goal == HoldersAreSound'
<1>1. ASSUME UNCHANGED directoryVars PROVE Goal
  BY <1>1 DEF directoryVars
<1>2. CASE GrantStep
  BY <1>1, <1>2, GrantStepKeepsTypes
<1>3. ASSUME NEW t \in Token, DeleteSelf(t) PROVE Goal
  BY <1>0, <1>3 DEF DeleteSelf
<1>4. ASSUME NEW g \in Token, NEW n \in Name, RevokeByName(g, n) PROVE Goal
  BY <1>0, <1>4 DEF RevokeByName
<1>5. ASSUME KeepingStep PROVE Goal
  <2>1. ASSUME NEW t \in Token, Mint(t) PROVE Goal
    BY <1>0, <2>1 DEF Mint
  <2>2. ASSUME NEW t \in Token, Unbind(t) PROVE Goal
    BY <1>0, <2>2 DEF Unbind
  <2>3. ASSUME NEW t \in Token, Collect(t) PROVE Goal
    BY <1>0, <2>3 DEF Collect, SpeakersHold, ReadsWhereItSpeaks, Live
  <2>4. ASSUME NEW t \in Token, Appoint(t) PROVE Goal
    BY <2>4 DEF Appoint
  <2>5. ASSUME NEW t \in Token, NEW n \in Name, Bind(t, n) PROVE Goal
    BY <1>0, <2>5, BindIsPlain DEF Live
  <2>6. ASSUME NEW g \in Token, NEW t \in Token, NEW n \in Name, Rebind(g, n, t) PROVE Goal
    BY <1>0, <2>6 DEF Rebind
  <2>7. ASSUME NEW n \in Name, Release(n) PROVE Goal
    BY <1>0, <2>7 DEF Release
  <2>8. ASSUME ResetGovernor PROVE Goal
    BY <2>8 DEF ResetGovernor
  <2> HIDE DEF Goal
  <2> QED
    BY <1>5, <2>1, <2>2, <2>3, <2>4, <2>5, <2>6, <2>7, <2>8 DEF KeepingStep
<1>6. CASE UNCHANGED vars
  BY <1>1, <1>6 DEF vars
<1>7. CASE DeletionStep
  BY <1>3, <1>4, <1>7 DEF DeletionStep, DeleteIdentity, DeleteParticipant
<1> QED
  BY <1>2, <1>5, <1>6, <1>7 DEF GrantsNext

(* While no restart has found writes cut short, the hub is one that module *)
(* Grants reaches.                                                         *)
LEMMA PartiesStay ==
    ASSUME HubInv, ~doubled, NothingOutlivesItsParties, RecipientStageHasApprover,
           [GrantsNext]_vars
    PROVE  NothingOutlivesItsParties' /\ RecipientStageHasApprover'
<1>0. GrantsInv
  BY DEF HubInv, GrantsInv
<1>1. CASE GrantStep
  BY <1>0, <1>1, GrantStepKeepsInv DEF GrantsInv
<1>2. CASE DeletionStep
  BY <1>0, <1>2, DeletionStepKeepsInv DEF GrantsInv
<1>3. CASE KeepingStep /\ UNCHANGED grantVars
  <2>1. DirectoryInv' /\ identities \subseteq identities'
    BY <1>0, <1>3, KeepingStepKeepsInv DEF GrantsInv
  <2> QED
    BY <1>0, <1>3, <2>1, RosterKeepsRest DEF GrantsInv
<1>4. CASE UNCHANGED vars
  BY <1>4 DEF vars, directoryVars, grantVars, NothingOutlivesItsParties,
              RecipientStageHasApprover, Pending
<1> QED
  BY <1>1, <1>2, <1>3, <1>4 DEF GrantsNext

(* With nothing left to write, every row agrees with the hub.              *)
LEMMA QuietRowsAgree ==
    ASSUME PersistenceInv, RowsAgree, Quiet
    PROVE  \A s \in Stored : Agrees(s)
<1>1. Listed(<<>>) = {}
  BY DEF Listed
<1>2. Due = {}
  BY <1>1 DEF Due, Quiet, Writing
<1> QED
  BY <1>2 DEF RowsAgree

(* The rows, table by table.                                               *)
LEMMA AgreeingTables ==
    ASSUME TablesTypeOK, \A s \in Stored : Agrees(s)
    PROVE  /\ \A t \in Token : TokenAgrees(t, tokenRows[t])
           /\ \A n \in Name : n \in identityRows <=> n \in identities
           /\ governor # None => governorRow = governor
           /\ \A i \in GrantId : GrantAgrees(i, grantRows[i])
           /\ \A p \in Token \X Name : denialRows[p] = denials[p]
<1> USE DEF TablesTypeOK, Statement
<1>1. ASSUME NEW t \in Token PROVE TokenAgrees(t, tokenRows[t])
  <2>1. TokenRow(t, tokenRows[t]) \in Stored
    BY DEF Stored, TokenRow
  <2> QED
    BY <2>1, RowsOf DEF Agrees
<1>2. ASSUME NEW n \in Name PROVE n \in identityRows <=> n \in identities
  <2>1. CASE n \in identityRows
    <3>1. IdentityRow(n, TRUE) \in Stored
      BY <2>1 DEF Stored, IdentityRow
    <3> QED
      BY <2>1, <3>1 DEF Agrees, IdentityRow
  <2>2. CASE n \notin identityRows
    <3>1. IdentityRow(n, FALSE) \in Stored
      BY <2>2 DEF Stored, IdentityRow
    <3> QED
      BY <2>2, <3>1 DEF Agrees, IdentityRow
  <2> QED
    BY <2>1, <2>2
<1>3. governor # None => governorRow = governor
  <2>1. GovernorRow(governorRow) \in Stored
    BY DEF Stored, GovernorRow
  <2> QED
    BY <2>1, RowsOf DEF Agrees
<1>4. ASSUME NEW i \in GrantId PROVE GrantAgrees(i, grantRows[i])
  <2>1. GrantRow(i, grantRows[i]) \in Stored
    BY DEF Stored, GrantRow
  <2> QED
    BY <2>1, RowsOf DEF Agrees
<1>5. ASSUME NEW p \in Token \X Name PROVE denialRows[p] = denials[p]
  <2>1. DenialRow(p, denialRows[p]) \in Stored
    BY DEF Stored, DenialRow
  <2> QED
    BY <2>1, RowsOf DEF Agrees
<1> QED
  BY <1>1, <1>2, <1>3, <1>4, <1>5

(* What is loaded agrees with the tables it is loaded from, unless a name  *)
(* has two tokens there.                                                   *)
LEMMA RestartAgrees ==
    ASSUME PersistenceInv, Restart, OneRowPerName
    PROVE  RowsAgree'
<1> USE DirectoryAssumption, GrantsAssumption DEF TablesTypeOK
<1>0. TablesTypeOK /\ writes' = [w \in Writer |-> <<>>]
  BY DEF PersistenceInv, Restart
<1>1. Due' = {}
  <2>1. Listed(<<>>) = {}
    BY DEF Listed
  <2>2. \A w \in Writer : writes'[w] = <<>>
    BY <1>0
  <2> QED
    BY <2>1, <2>2 DEF Due
<1>2. ASSUME NEW t \in Token, MigratedTokens[t] # None
      PROVE  nameToToken'[MigratedTokens[t]] = t
  BY <1>0, <1>2, LoadedHoldersAreRead
<1>3. ASSUME NEW s \in Stored' PROVE Agrees(s)'
  <2>0. s \in Statement
    BY <1>3 DEF Stored
  <2>1. s.table = "tokens" => TokenAgrees(s.key, s.value)'
    <3>1. s.table = "tokens" => s.key \in Token /\ s.value = tokenRows'[s.key]
      BY <1>3, <2>0, StatementKinds DEF Stored
    <3> QED
      BY <1>2, <3>1 DEF TokenAgrees, Restart
  <2>2. s.table = "identities" => (s.value <=> s.key \in identities')
    BY <1>3 DEF Stored, Restart
  <2>3. s.table = "governor" => (governor' # None => s.value = governor')
    BY <1>3 DEF Stored, Restart, LoadedGovernor
  <2>4. s.table = "grants" => GrantAgrees(s.key, s.value)'
    <3>1. s.table = "grants" => s.key \in GrantId /\ s.value = grantRows[s.key]
      BY <1>3, <2>0, StatementKinds DEF Stored, Restart
    <3> QED
      BY <3>1 DEF GrantAgrees, SameParties, Restart, LoadedGrants
  <2>5. s.table = "denial_blocks" => s.value = denials'[s.key]
    BY <1>3 DEF Stored, Restart
  <2> QED
    BY <2>1, <2>2, <2>3, <2>4, <2>5 DEF Agrees
<1>4. (\A s \in Due : Agrees(s))'
  BY <1>1
<1>5. (\A s \in Stored : Agrees(s) \/ \E d \in Due : SameRow(d, s))'
  BY <1>3
<1> QED
  BY <1>4, <1>5 DEF RowsAgree

(* A restart that finds no writes half done brings back no grant whose     *)
(* parties are gone: the rows agree with the hub that has ended.           *)
LEMMA RestartKeepsParties ==
    ASSUME PersistenceInv, Restart, ~torn',
           ~doubled /\ ~overlapped => RowsAgree,
           ~doubled /\ ~torn => NothingOutlivesItsParties /\ RecipientStageHasApprover
    PROVE  NothingOutlivesItsParties' /\ RecipientStageHasApprover'
<1>1. ~torn /\ ~overlapped /\ ~doubled /\ Quiet
  BY DEF Restart
<1>2. TablesTypeOK /\ identities \subseteq Name
  BY DEF PersistenceInv, HubInv, GrantsTypeOK, DirectoryTypeOK
<1>3. /\ \A n \in Name : n \in identityRows <=> n \in identities
      /\ \A i \in GrantId : GrantAgrees(i, grantRows[i])
  BY <1>1, <1>2, QuietRowsAgree, AgreeingTables
<1>4. \A r \in RequestSlot : requests'[r] = None
  BY DEF Restart
<1>5. ASSUME NEW i \in GrantId, grants'[i] # None, ~grants'[i].direct
      PROVE  {grants'[i].nameA, grants'[i].nameB} \ {Unnamed} \subseteq identities'
  <2>1. grants'[i] = grantRows[i] /\ grantRows[i] # None /\ ~grantRows[i].expired
    BY <1>5 DEF Restart, LoadedGrants
  <2>2. grants[i] # None /\ SameParties(grantRows[i], grants[i])
    BY <1>3, <2>1 DEF GrantAgrees
  <2>3. {grants[i].nameA, grants[i].nameB} \ {Unnamed} \subseteq identities
    BY <1>1, <1>5, <2>1, <2>2 DEF SameParties, NothingOutlivesItsParties
  <2>4. identities' = identityRows
    BY DEF Restart
  <2> QED
    BY <1>2, <1>3, <2>1, <2>2, <2>3, <2>4 DEF SameParties
<1> QED
  BY <1>4, <1>5 DEF NothingOutlivesItsParties, RecipientStageHasApprover, Pending

(* Holders are loaded for registered names only.                           *)
LEMMA RestartKeepsHolders ==
    ASSUME PersistenceInv, Restart
    PROVE  HoldersAreSound'
<1> USE DirectoryAssumption
<1>1. ASSUME NEW n \in Name, nameToToken'[n] # None
      PROVE  n \in identities' /\ status'[nameToToken'[n]] # "unminted"
  <2>1. nameToToken'[n] \in Token /\ MigratedTokens[nameToToken'[n]] = n
    BY <1>1, LoadedHoldersAreRead DEF PersistenceInv
  <2>2. n \in identityRows
    BY <2>1 DEF MigratedTokens
  <2> QED
    BY <2>1, <2>2 DEF Restart
<1> QED
  BY <1>1 DEF HoldersAreSound

-----------------------------------------------------------------------------
(* In every state, unless two handlers wrote at the same time or two tokens *)
(* of one name were loaded, a row agrees with the hub or is about to be    *)
(* overwritten by a statement that does (the db_write calls of             *)
(* src/src/delivery.rs, load_from_store).                                  *)
THEOREM DurableInvariant == PersistenceSpec => []DurableInv
<1>1. PersistenceInit /\ PersistenceInv => DurableInv
  <2> SUFFICES ASSUME PersistenceInit, PersistenceInv PROVE DurableInv
    OBVIOUS
  <2> USE DEF PersistenceInit, GrantsInit, DirectoryInit
  <2>1. HoldersAreSound
    BY DEF HoldersAreSound
  <2>2. NothingOutlivesItsParties /\ RecipientStageHasApprover
    BY GrantsInitInv DEF GrantsInv
  <2>3. RowsAgree
    <3>1. Listed(<<>>) = {}
      BY DEF Listed
    <3>2. Due = {}
      BY <3>1 DEF Due
    <3>3. ASSUME NEW s \in Stored PROVE Agrees(s)
      <4>1. s \in Statement
        BY <3>3 DEF Stored
      <4> QED
        BY <3>3, <4>1, StatementKinds DEF Stored, Agrees, TokenAgrees, GrantAgrees, Live
    <3> QED
      BY <3>2, <3>3 DEF RowsAgree
  <2> QED
    BY <2>1, <2>2, <2>3 DEF DurableInv
<1>2. DurableInv /\ [PersistenceNext]_persistenceVars /\ PersistenceInv' => DurableInv'
  <2> SUFFICES ASSUME DurableInv, [PersistenceNext]_persistenceVars, PersistenceInv'
               PROVE  DurableInv'
    OBVIOUS
  <2>0. /\ PersistenceInv /\ HubInv
        /\ ~doubled => HoldersAreSound
        /\ ~doubled /\ ~overlapped => RowsAgree
        /\ ~doubled /\ ~torn => NothingOutlivesItsParties /\ RecipientStageHasApprover
    BY DEF DurableInv, PersistenceInv
  <2>1. CASE Restart
    <3>1. HoldersAreSound'
      BY <2>0, <2>1, RestartKeepsHolders
    <3>2. ~doubled' => RowsAgree'
      <4>1. ~doubled' => OneRowPerName
        BY <2>1 DEF Restart
      <4> QED
        BY <2>0, <2>1, <4>1, RestartAgrees
    <3>3. ~torn' => NothingOutlivesItsParties' /\ RecipientStageHasApprover'
      BY <2>0, <2>1, RestartKeepsParties
    <3> QED
      BY <3>1, <3>2, <3>3 DEF DurableInv
  <2>2. CASE ~Restart /\ doubled
    <3>1. doubled'
      BY <2>2, HistoryIsKept
    <3> QED
      BY <3>1 DEF DurableInv
  <2>3. CASE ~Restart /\ ~doubled
    <3>1. [GrantsNext]_vars
      BY <2>0, <2>3, HandlersTakeHubSteps, SoundHubTakesGrantsSteps
    <3>2. HoldersAreSound'
      BY <2>0, <2>3, <3>1, HoldersStaySound
    <3>3. ~torn' => NothingOutlivesItsParties' /\ RecipientStageHasApprover'
      <4>1. torn' = torn
        BY <2>3, HistoryIsKept
      <4> QED
        BY <2>0, <2>3, <3>1, <4>1, PartiesStay
    <3>4. ~overlapped' => RowsAgree'
      <4> DEFINE Goal == ~overlapped' => RowsAgree'
      <4>1. ASSUME UnstoredStep, UNCHANGED storeVars PROVE Goal
        BY <2>0, <2>3, <4>1, UnstoredStepKeepsAgreement DEF storeVars
      <4>2. ASSUME NEW w \in Writer, StoredStep(w) PROVE Goal
        BY <2>0, <2>3, <4>2, StoredStepKeepsAgreement
      <4>3. ASSUME NEW w \in Writer, WriteStep(w) PROVE Goal
        <5>1. overlapped' = overlapped
          BY <4>3 DEF WriteStep
        <5> QED
          BY <2>0, <2>3, <4>3, <5>1, WriteStepKeepsAgreement
      <4>4. ASSUME NEW i \in GrantId, GrantAndRowLapse(i) PROVE Goal
        <5>1. overlapped' = overlapped
          BY <4>4 DEF GrantAndRowLapse
        <5> QED
          BY <2>0, <2>3, <4>4, <5>1, GrantLapseKeepsAgreement
      <4>5. ASSUME NEW t \in Token, NEW n \in Name, DenialAndRowLapse(t, n) PROVE Goal
        <5>1. overlapped' = overlapped
          BY <4>5 DEF DenialAndRowLapse
        <5> QED
          BY <2>0, <2>3, <4>5, <5>1, DenialLapseKeepsAgreement
      <4>6. ASSUME UNCHANGED persistenceVars PROVE Goal
        <5>1. /\ UNCHANGED <<directoryVars, grants, denials>>
              /\ UNCHANGED <<tables, writes, overlapped>>
          BY <4>6 DEF persistenceVars, storeVars, vars, grantVars
        <5>2. \A s : Agrees(s)' = Agrees(s)
          BY <5>1, AgreesWithHub
        <5>3. Due' = Due /\ Stored' = Stored
          BY <5>1 DEF Due, Stored, tables
        <5> QED
          BY <2>0, <2>3, <5>1, <5>2, <5>3 DEF RowsAgree, SameRow
      <4> HIDE DEF Goal
      <4>7. Goal
        BY <2>3, <4>1, <4>2, <4>3, <4>4, <4>5, <4>6 DEF PersistenceNext
      <4> QED
        BY <4>7 DEF Goal
    <3> QED
      BY <3>2, <3>3, <3>4 DEF DurableInv
  <2> QED
    BY <2>1, <2>2, <2>3
<1> QED
  BY <1>1, <1>2, PersistenceInvariant, PTL DEF PersistenceSpec

(* What a handler has answered is on disk, for every table and through     *)
(* every restart, unless two handlers wrote at the same time or two tokens *)
(* of one name were loaded (the db_write calls, new_with_persisted_state). *)
THEOREM AnsweredIsDurableHolds == PersistenceSpec => []AnsweredIsDurable
<1>1. DurableInv => AnsweredIsDurable
  <2> SUFFICES ASSUME DurableInv, Quiet, ~overlapped, ~doubled PROVE
        /\ identityRows = identities
        /\ denialRows = denials
        /\ governor # None => governorRow = governor
        /\ \A t \in Token : Live(t) /\ tokenToName[t] # None =>
              tokenRows[t] # None /\ nameToToken[tokenRows[t]] = t
        /\ \A i \in GrantId :
              IF grants[i] = None THEN grantRows[i] = None \/ grantRows[i].expired
              ELSE grantRows[i] # None /\ (~grants[i].expired => grantRows[i] = grants[i])
    BY DEF AnsweredIsDurable
  <2>1. PersistenceInv /\ TablesTypeOK /\ GrantsTypeOK /\ DirectoryTypeOK
    BY DEF DurableInv, PersistenceInv, HubInv, GrantsTypeOK
  <2>2. \A s \in Stored : Agrees(s)
    BY QuietRowsAgree DEF DurableInv
  <2>3. /\ \A t \in Token : TokenAgrees(t, tokenRows[t])
        /\ \A n \in Name : n \in identityRows <=> n \in identities
        /\ governor # None => governorRow = governor
        /\ \A i \in GrantId : GrantAgrees(i, grantRows[i])
        /\ \A p \in Token \X Name : denialRows[p] = denials[p]
    BY <2>1, <2>2, AgreeingTables
  <2>4. identityRows = identities
    BY <2>1, <2>3 DEF TablesTypeOK, DirectoryTypeOK
  <2>5. denialRows = denials
    BY <2>1, <2>3 DEF TablesTypeOK, GrantsTypeOK
  <2> QED
    BY <2>3, <2>4, <2>5 DEF TokenAgrees, GrantAgrees
<1> QED
  BY <1>1, DurableInvariant, PTL

(* As long as no restart has found writes half done or mixed up, or what a *)
(* hub with two tokens of one name has written, no grant comes back whose  *)
(* parties are gone (purge_grants_for and the writes of the deletions,     *)
(* load_from_store).                                                       *)
THEOREM PartiesSurviveRestartHolds == PersistenceSpec => []PartiesSurviveRestart
<1>1. DurableInv => PartiesSurviveRestart
  BY DEF DurableInv, PartiesSurviveRestart
<1> QED
  BY <1>1, DurableInvariant, PTL

-----------------------------------------------------------------------------
(* Storing does not change what a handler does to the hub: whatever        *)
(* happens between two restarts is a step of Grants, and what is proved of *)
(* the steps of Grants holds of it; but in a hub that has loaded two       *)
(* tokens of one name POST /listen may give one of them a name back        *)
(* (db_write, called after the lock; open_listen).                         *)
THEOREM OnlyRestartsAreNew ==
    PersistenceSpec => [][GrantsNext \/ Restart \/ (doubled /\ LostNameReturns)]_vars
<1>1. PersistenceInv /\ [PersistenceNext]_persistenceVars
        => [GrantsNext \/ Restart \/ (doubled /\ LostNameReturns)]_vars
  BY HandlersTakeHubSteps, SoundHubTakesGrantsSteps DEF PersistenceInv, HubStep
<1> QED
  BY <1>1, PersistenceInvariant, PTL DEF PersistenceSpec

(* The hub after a step is the one from before, as far as anybody was      *)
(* answered: roster, blocks and governor, the grants that have not run     *)
(* out, and for every token that speaks for a name, a name it held, which  *)
(* it holds unless the tables have another token for it.  No grant comes   *)
(* back that was not there.                                                *)
NothingIsLost ==
    /\ identities' = identities
    /\ denials' = denials
    /\ governor # None => governor' = governor
    /\ \A t \in Token : Live(t) /\ tokenToName[t] # None =>
          /\ status'[t] = "live"
          /\ tokenToName'[t] # None
          /\ nameToToken[tokenToName'[t]] = t
          /\ OneRowPerName => nameToToken'[tokenToName'[t]] = t
    /\ \A i \in GrantId : grants[i] # None /\ ~grants[i].expired => grants'[i] = grants[i]
    /\ \A i \in GrantId : grants'[i] # None =>
          grants[i] # None /\ SameParties(grants'[i], grants[i])

RestartLosesNothing ==
    [][Restart /\ Quiet /\ ~overlapped /\ ~doubled => NothingIsLost]_persistenceVars

LEMMA QuietRestartLosesNothing ==
    ASSUME DurableInv, Restart, Quiet, ~overlapped, ~doubled
    PROVE  NothingIsLost
<1> USE DirectoryAssumption
<1>0. /\ PersistenceInv /\ HoldersAreSound /\ RowsAgree
      /\ TablesTypeOK /\ GrantsTypeOK /\ DirectoryTypeOK /\ GovernorIsRegistered
  BY DEF DurableInv, PersistenceInv, HubInv, DirectoryInv
<1>1. /\ \A t \in Token : TokenAgrees(t, tokenRows[t])
      /\ \A n \in Name : n \in identityRows <=> n \in identities
      /\ governor # None => governorRow = governor
      /\ \A i \in GrantId : GrantAgrees(i, grantRows[i])
      /\ \A p \in Token \X Name : denialRows[p] = denials[p]
  <2>1. \A s \in Stored : Agrees(s)
    BY <1>0, QuietRowsAgree
  <2> QED
    BY <1>0, <2>1, AgreeingTables
<1>2. identityRows = identities
  BY <1>0, <1>1 DEF TablesTypeOK, DirectoryTypeOK
<1>3. identities' = identities
  BY <1>2 DEF Restart
<1>4. denials' = denials
  <2>1. denialRows = denials
    BY <1>0, <1>1 DEF TablesTypeOK, GrantsTypeOK
  <2> QED
    BY <2>1 DEF Restart
<1>5. governor # None => governor' = governor
  BY <1>0, <1>1, <1>2 DEF Restart, LoadedGovernor, GovernorIsRegistered
<1>6. ASSUME NEW t \in Token, Live(t), tokenToName[t] # None
      PROVE  /\ status'[t] = "live"
             /\ tokenToName'[t] # None
             /\ nameToToken[tokenToName'[t]] = t
             /\ OneRowPerName => nameToToken'[tokenToName'[t]] = t
  <2>1. tokenRows[t] \in Name /\ nameToToken[tokenRows[t]] = t
    BY <1>0, <1>1, <1>6 DEF TokenAgrees, TablesTypeOK
  <2>2. tokenRows[t] \in identityRows
    BY <1>0, <1>2, <2>1 DEF HoldersAreSound
  <2>3. MigratedTokens[t] = tokenRows[t]
    BY <2>2 DEF MigratedTokens
  <2>4. OneRowPerName => nameToToken'[MigratedTokens[t]] = t
    BY <1>0, <2>1, <2>3, LoadedHoldersAreRead
  <2>5. /\ status'[t] = IF MigratedTokens[t] # None THEN "live"
                        ELSE IF status[t] = "unminted" THEN "unminted" ELSE "removed"
        /\ tokenToName'[t] = MigratedTokens[t]
    BY <2>1 DEF Restart
  <2> QED
    BY <2>1, <2>3, <2>4, <2>5
<1>7. \A i \in GrantId :
         grants'[i] = IF grantRows[i] # None /\ ~grantRows[i].expired THEN grantRows[i] ELSE None
  BY DEF Restart, LoadedGrants
<1>8. ASSUME NEW i \in GrantId, grants[i] # None, ~grants[i].expired
      PROVE  grants'[i] = grants[i]
  BY <1>1, <1>7, <1>8 DEF GrantAgrees
<1>9. ASSUME NEW i \in GrantId, grants'[i] # None
      PROVE  grants[i] # None /\ SameParties(grants'[i], grants[i])
  BY <1>1, <1>7, <1>9 DEF GrantAgrees
<1> QED
  BY <1>3, <1>4, <1>5, <1>6, <1>8, <1>9 DEF NothingIsLost

(* A restart between requests, wherever it falls, of a hub in which no two *)
(* handlers wrote at once and no two tokens of one name were loaded,       *)
(* changes nothing anybody was told; only the holder of a name that has    *)
(* two tokens in the tables may be the other one afterwards                *)
(* (new_with_persisted_state, load_from_store).                            *)
THEOREM RestartLosesNothingHolds == PersistenceSpec => RestartLosesNothing
<1>1. DurableInv /\ [PersistenceNext]_persistenceVars
        => [Restart /\ Quiet /\ ~overlapped /\ ~doubled => NothingIsLost]_persistenceVars
  BY QuietRestartLosesNothing
<1> QED
  BY <1>1, DurableInvariant, PTL DEF PersistenceSpec, RestartLosesNothing
=============================================================================
