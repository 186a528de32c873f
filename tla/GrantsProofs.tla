---------------------------- MODULE GrantsProofs ----------------------------
(***************************************************************************)
(* Proofs about module Grants, for any sets of tokens, names and requests, *)
(* any number of grants and any terms.                                     *)
(*                                                                         *)
(* That nothing outlives its parties needs two facts about the directory,  *)
(* carried in DirectoryInv: who asks speaks for a registered name, or by   *)
(* now for none (SpeakersHold), and who is asked is routed to and so       *)
(* registered (RoutedAreRegistered).  With the numbering of grants the     *)
(* same invariant gives what may happen to a grant from its approval to    *)
(* its end (GrantsLiveRightly).                                            *)
(***************************************************************************)
EXTENDS Grants, TLAPS

(* An empty hub.                                                           *)
LEMMA DirectoryInitInv == DirectoryInit => DirectoryInv
BY DEF DirectoryInit, DirectoryInv, DirectoryTypeOK, ReadsWhereItSpeaks, SpeakersHold,
       RoutedAreRegistered, Live

(* The types of the directory are kept in any hub, also in one that has    *)
(* loaded two tokens of one name.                                          *)
LEMMA DirectoryStepKeepsTypes ==
    ASSUME DirectoryTypeOK, DirectoryNext
    PROVE  DirectoryTypeOK'
<1> USE DirectoryAssumption DEF DirectoryTypeOK
<1>1. ASSUME NEW t \in Token, Mint(t) \/ Appoint(t) PROVE DirectoryTypeOK'
  BY <1>1 DEF Mint, Appoint
<1>2. ASSUME NEW t \in Token, Unbind(t) \/ Collect(t) PROVE DirectoryTypeOK'
  BY <1>2 DEF Unbind, Collect
<1>3. ASSUME NEW t \in Token, NEW n \in Name, NEW m, BindAfter(t, n, m) PROVE DirectoryTypeOK'
  BY <1>3 DEF BindAfter, BecomeHolder
<1>4. ASSUME NEW t \in Token, GiveBack(t) PROVE DirectoryTypeOK'
  BY <1>4 DEF GiveBack, BecomeHolder
<1>5. ASSUME NEW g \in Token, NEW t \in Token, NEW n \in Name, Rebind(g, n, t)
      PROVE  DirectoryTypeOK'
  BY <1>5 DEF Rebind
<1>6. ASSUME NEW n \in Name, Release(n) PROVE DirectoryTypeOK'
  BY <1>6 DEF Release
<1>7. ASSUME ResetGovernor PROVE DirectoryTypeOK'
  BY <1>7 DEF ResetGovernor
<1>8. ASSUME NEW g \in Token, NEW n \in Name, RevokeByName(g, n) PROVE DirectoryTypeOK'
  BY <1>8 DEF RevokeByName
<1>9. ASSUME NEW t \in Token, DeleteSelf(t) PROVE DirectoryTypeOK'
  BY <1>9 DEF DeleteSelf
<1> HIDE DEF DirectoryTypeOK
<1>10. ASSUME NEW t \in Token, NEW n \in Name, Bind(t, n) PROVE DirectoryTypeOK'
  BY <1>3, <1>10 DEF Bind, BindListening, BindAnnounced
<1> QED
  BY <1>1, <1>2, <1>4, <1>5, <1>6, <1>7, <1>8, <1>9, <1>10 DEF DirectoryNext, KeepingStep

(* No token has lost the name stored with it, so POST /listen gives none   *)
(* back, and a name is bound the same way by it and by POST /announce.     *)
LEMMA NothingLost ==
    ASSUME DirectoryInv, NEW t \in Token
    PROVE  LostName(t) = None
BY DirectoryAssumption
   DEF LostName, HasLostName, DirectoryInv, ReadsWhereItSpeaks, SpeakersHold

LEMMA NothingGivenBack ==
    ASSUME DirectoryInv, NEW t \in Token
    PROVE  ~GiveBack(t)
BY DirectoryAssumption
   DEF GiveBack, HasLostName, DirectoryInv, ReadsWhereItSpeaks, SpeakersHold

LEMMA BindIsPlain ==
    ASSUME DirectoryInv, NEW t \in Token, NEW n \in Name, Bind(t, n)
    PROVE  /\ Live(t)
           /\ n \notin identities
           /\ nameToToken[n] # None => ~Known(nameToToken[n])
           /\ identities' = identities \cup {n}
           /\ nameToToken' = [nameToToken EXCEPT ![n] = t]
           /\ agents' = [agents EXCEPT ![n] = t]
           /\ tokenToName' = [tokenToName EXCEPT ![t] = n]
           /\ ownName' = [ownName EXCEPT ![t] = n]
           /\ UNCHANGED <<status, governor>>
<1>1. BindAfter(t, n, None) /\ (nameToToken[n] # None => ~Known(nameToToken[n]))
  BY NothingLost DEF Bind, BindListening, BindAnnounced
<1>2. \A m \in Name : m \in {None, n} <=> m = n
  BY DirectoryAssumption
<1>3. nameToToken' = [m \in Name |-> IF m = n THEN t ELSE nameToToken[m]]
  BY <1>1, <1>2 DEF BindAfter, BecomeHolder
<1>4. agents' = [m \in Name |-> IF m = n THEN t ELSE agents[m]]
  BY <1>1, <1>2, DirectoryAssumption DEF BindAfter, BecomeHolder
<1>5. nameToToken' = [nameToToken EXCEPT ![n] = t] /\ agents' = [agents EXCEPT ![n] = t]
  BY <1>3, <1>4 DEF DirectoryInv, DirectoryTypeOK
<1> QED
  BY <1>1, <1>5 DEF BindAfter

(* No step of the directory routes to, or lets anybody speak for, a name   *)
(* that is not registered.                                                 *)
LEMMA KeepingStepKeepsInv ==
    ASSUME DirectoryInv, KeepingStep
    PROVE  DirectoryInv' /\ identities \subseteq identities'
<1> USE DirectoryAssumption
    DEF DirectoryInv, DirectoryTypeOK, ReadsWhereItSpeaks, SpeakersHold, RoutedAreRegistered,
        Live, Known
<1> DEFINE Kept == DirectoryInv' /\ identities \subseteq identities'
<1>1. ASSUME NEW t \in Token, Mint(t) PROVE Kept
  BY <1>1 DEF Mint
<1>2. ASSUME NEW t \in Token, Unbind(t) PROVE Kept
  BY <1>2 DEF Unbind
<1>3. ASSUME NEW t \in Token, Collect(t) PROVE Kept
  BY <1>3 DEF Collect
<1>4. ASSUME NEW t \in Token, Appoint(t) PROVE Kept
  BY <1>4 DEF Appoint
<1>5. ASSUME NEW t \in Token, NEW n \in Name, Bind(t, n) PROVE Kept
  BY <1>5, BindIsPlain
<1>6. ASSUME NEW g \in Token, NEW t \in Token, NEW n \in Name, Rebind(g, n, t) PROVE Kept
  BY <1>6 DEF Rebind, IsGovernor
<1>7. ASSUME NEW n \in Name, Release(n) PROVE Kept
  BY <1>7 DEF Release
<1>8. ASSUME ResetGovernor PROVE Kept
  BY <1>8 DEF ResetGovernor
<1> QED
  BY <1>1, <1>2, <1>3, <1>4, <1>5, <1>6, <1>7, <1>8 DEF KeepingStep

(* A deletion takes exactly one name off the roster.                       *)
LEMMA RevokeByNameKeepsInv ==
    ASSUME DirectoryInv, NEW g \in Token, NEW n \in Name, RevokeByName(g, n)
    PROVE  DirectoryInv' /\ identities' = identities \ {n}
BY DirectoryAssumption
   DEF RevokeByName, IsGovernor, DirectoryInv, DirectoryTypeOK, ReadsWhereItSpeaks,
       SpeakersHold, RoutedAreRegistered, Live, Known

LEMMA DeleteSelfKeepsInv ==
    ASSUME DirectoryInv, NEW t \in Token, DeleteSelf(t)
    PROVE  DirectoryInv' /\ identities' = identities \ {tokenToName[t]}
BY DirectoryAssumption
   DEF DeleteSelf, DirectoryInv, DirectoryTypeOK, ReadsWhereItSpeaks, SpeakersHold,
       RoutedAreRegistered, Live, Known

-----------------------------------------------------------------------------
(* No request, no grant.                                                   *)
LEMMA GrantsInitInv == GrantsInit => GrantsInv
BY DirectoryInitInv, GrantsAssumption
   DEF GrantsInit, GrantsInv, DirectoryInv, GrantsTypeOK, NothingOutlivesItsParties,
       RecipientStageHasApprover, GrantsAreNumbered, GrantId, Pending

(* A new grant between parties that are registered, or made directly.      *)
LEMMA AddGrantKeepsInv ==
    ASSUME GrantsInv, NEW g \in Grant, AddGrant(g), UNCHANGED directoryVars,
           g.direct \/ {g.nameA, g.nameB} \ {Unnamed} \subseteq identities
    PROVE  /\ grants' \in [GrantId -> Grant \cup {None}]
           /\ grantCount' \in 0..MaxGrants
           /\ GrantsAreNumbered'
           /\ \A i \in GrantId : grants'[i] # None /\ ~grants'[i].direct =>
                 {grants'[i].nameA, grants'[i].nameB} \ {Unnamed} \subseteq identities'
<1> USE GrantsAssumption DEF GrantsInv, GrantsTypeOK, GrantId, AddGrant
<1>1. grantCount + 1 \in GrantId /\ grantCount \in Nat
  OBVIOUS
<1>2. /\ grants' \in [GrantId -> Grant \cup {None}]
      /\ grantCount' \in 0..MaxGrants
  BY <1>1
<1>3. GrantsAreNumbered'
  BY <1>1 DEF GrantsAreNumbered
<1>4. ASSUME NEW i \in GrantId, grants'[i] # None, ~grants'[i].direct
      PROVE  {grants'[i].nameA, grants'[i].nameB} \ {Unnamed} \subseteq identities'
  <2>1. CASE i = grantCount + 1
    BY <1>1, <1>4, <2>1 DEF directoryVars
  <2>2. CASE i # grantCount + 1
    BY <1>1, <1>4, <2>2 DEF directoryVars, NothingOutlivesItsParties
  <2> QED
    BY <2>1, <2>2
<1> QED
  BY <1>2, <1>3, <1>4

(* The directory's part of the invariant is untouched by the grant handlers. *)
LEMMA DirectoryUntouched ==
    ASSUME DirectoryInv, UNCHANGED directoryVars
    PROVE  DirectoryInv'
BY DEF DirectoryInv, DirectoryTypeOK, ReadsWhereItSpeaks, SpeakersHold, RoutedAreRegistered,
       directoryVars, Live, Known

(* A handler that has let go of the lock, or has answered, changes nothing. *)
LEMMA AskingKeepsRest ==
    ASSUME GrantsInv, NEW t \in Token, AskGrant(t) \/ AskEnds(t)
    PROVE  /\ UNCHANGED <<directoryVars, grants, grantCount>>
           /\ GrantsTypeOK'
           /\ NothingOutlivesItsParties'
           /\ RecipientStageHasApprover'
           /\ GrantsAreNumbered'
<1>1. UNCHANGED <<directoryVars, requests, grants, grantCount, denials, resolving>>
  BY DEF AskGrant, AskEnds
<1>2. asking' \subseteq Token
  BY DEF AskGrant, AskEnds, GrantsInv, GrantsTypeOK
<1> QED
  BY <1>1, <1>2
     DEF GrantsInv, directoryVars, GrantsTypeOK, DirectoryTypeOK, NothingOutlivesItsParties,
         RecipientStageHasApprover, GrantsAreNumbered, Pending

(* What a request may become: it keeps its parties, and has an approver    *)
(* when it waits for the recipient.                                        *)
LEMMA RequestKeepsRest ==
    ASSUME GrantsInv, NEW r \in RequestSlot, NEW q \in Request,
           requests' = [requests EXCEPT ![r] = q],
           {q.fromName, q.toName} \ {Unnamed} \subseteq identities,
           q.stage = "recipient" => q.approver # None,
           UNCHANGED <<directoryVars, asking, grants, grantCount, denials, resolving>>
    PROVE  /\ UNCHANGED directoryVars
           /\ GrantsTypeOK'
           /\ NothingOutlivesItsParties'
           /\ RecipientStageHasApprover'
           /\ GrantsAreNumbered'
BY DEF GrantsInv, directoryVars, GrantsTypeOK, DirectoryTypeOK, NothingOutlivesItsParties,
       RecipientStageHasApprover, GrantsAreNumbered, Pending

(* A pending request is a request between registered names.                *)
LEMMA PendingRequest ==
    ASSUME GrantsInv, NEW r \in RequestSlot, Pending(r)
    PROVE  /\ requests[r] \in Request
           /\ {requests[r].fromName, requests[r].toName} \ {Unnamed} \subseteq identities
           /\ requests[r].stage = "recipient" => requests[r].approver # None
BY DEF GrantsInv, GrantsTypeOK, NothingOutlivesItsParties, RecipientStageHasApprover, Pending

(* Asking, approving, refusing, revoking and blocking preserve the         *)
(* invariant.                                                              *)
LEMMA GrantStepKeepsInv ==
    ASSUME GrantsInv, GrantStep
    PROVE  GrantsInv'
<1> USE GrantsAssumption, DirectoryAssumption DEF GrantsInv
<1> DEFINE Rest == /\ GrantsTypeOK'
                   /\ NothingOutlivesItsParties'
                   /\ RecipientStageHasApprover'
                   /\ GrantsAreNumbered'
           Kept == UNCHANGED directoryVars /\ Rest
<1>0. ASSUME NEW t \in Token, AskGrant(t) \/ AskEnds(t) PROVE Kept
  BY <1>0, AskingKeepsRest
<1>1. ASSUME NEW t \in Token, NEW n \in Name, NEW r \in RequestSlot, RequestGrant(t, n, r)
      PROVE  Kept
  <2> DEFINE q == [fromName |-> FromName(t), toName |-> n, fromId |-> t, toId |-> agents[n],
                   stage |-> InitialStage, approver |-> InitialApprover, expired |-> FALSE]
  <2>1. /\ q \in Request
        /\ {q.fromName, q.toName} \ {Unnamed} \subseteq identities
        /\ q.stage = "recipient" => q.approver # None
    BY <1>1 DEF RequestGrant, MayRequest, DirectoryInv, DirectoryTypeOK, SpeakersHold,
                RoutedAreRegistered, Request, FromName, InitialStage, InitialApprover
  <2> QED
    BY <1>1, <2>1, RequestKeepsRest DEF RequestGrant
<1>2. ASSUME NEW t \in Token, NEW n \in Name, NEW r \in RequestSlot, RequestAgain(t, n, r)
      PROVE  Kept
  <2> DEFINE old == requests[r]
             q == [old EXCEPT !.stage = InitialStage, !.approver = InitialApprover, !.expired = FALSE]
  <2>1. /\ old \in Request
        /\ {old.fromName, old.toName} \ {Unnamed} \subseteq identities
        /\ old.stage = "recipient" => old.approver # None
    BY <1>2, PendingRequest DEF RequestAgain, IsFor
  <2>2. /\ q \in Request
        /\ {q.fromName, q.toName} \ {Unnamed} \subseteq identities
        /\ q.stage = "recipient" => q.approver # None
    BY <1>2, <2>1 DEF RequestAgain, Request, InitialStage, InitialApprover
  <2>3. requests' = [requests EXCEPT ![r] = q]
    BY <1>2, <2>1 DEF RequestAgain, GrantsTypeOK, Request
  <2> QED
    BY <1>2, <2>2, <2>3, RequestKeepsRest DEF RequestAgain
<1>3. ASSUME NEW t \in Token, NEW n \in Name, NEW r \in RequestSlot, Resubmit(t, n, r)
      PROVE  Kept
  <2> DEFINE old == requests[r]
             q == [old EXCEPT !.stage = "governor", !.expired = FALSE]
  <2>1. /\ old \in Request
        /\ {old.fromName, old.toName} \ {Unnamed} \subseteq identities
        /\ old.stage = "recipient" => old.approver # None
    BY <1>3, PendingRequest DEF Resubmit
  <2>2. /\ q \in Request
        /\ {q.fromName, q.toName} \ {Unnamed} \subseteq identities
        /\ q.stage = "recipient" => q.approver # None
    BY <1>3, <2>1 DEF Resubmit, Request
  <2>3. requests' = [requests EXCEPT ![r] = q]
    BY <1>3, <2>1 DEF Resubmit, GrantsTypeOK, Request
  <2> QED
    BY <1>3, <2>2, <2>3, RequestKeepsRest DEF Resubmit
<1>4. ASSUME NEW t \in Token, NEW r \in RequestSlot, GovernorApproves(t, r)
      PROVE  Kept
  <2> DEFINE old == requests[r]
             q == [old EXCEPT !.stage = "recipient", !.approver = tokenToName[t], !.expired = FALSE]
  <2>1. /\ old \in Request
        /\ {old.fromName, old.toName} \ {Unnamed} \subseteq identities
        /\ old.stage = "recipient" => old.approver # None
    BY <1>4, PendingRequest DEF GovernorApproves
  <2>2. /\ q \in Request
        /\ {q.fromName, q.toName} \ {Unnamed} \subseteq identities
        /\ q.stage = "recipient" => q.approver # None
    BY <1>4, <2>1 DEF GovernorApproves, Request, IsGovernor, DirectoryInv, DirectoryTypeOK
  <2>3. requests' = [requests EXCEPT ![r] = q]
    BY <1>4, <2>1 DEF GovernorApproves, GrantsTypeOK, Request
  <2> QED
    BY <1>4, <2>2, <2>3, RequestKeepsRest DEF GovernorApproves
<1>5. ASSUME NEW t \in Token, NEW r \in RequestSlot, Establish(t, r)
      PROVE  Kept
  <2> DEFINE q == requests[r]
             g == [a |-> q.fromId, b |-> q.toId, nameA |-> q.fromName, nameB |-> q.toName,
                   by |-> q.approver, terms |-> DefaultTerms, expired |-> FALSE,
                   direct |-> FALSE]
  <2>1. q \in Request /\ q.approver # None /\ {q.fromName, q.toName} \ {Unnamed} \subseteq identities
    BY <1>5 DEF Establish, Pending, GrantsTypeOK, NothingOutlivesItsParties
  <2>2. DefaultTerms \in TermsType
    BY DEF DefaultTerms, TermsType
  <2>3. g \in Grant /\ {g.nameA, g.nameB} \ {Unnamed} \subseteq identities
    BY <2>1, <2>2 DEF Request, Grant
  <2>4. AddGrant(g) /\ UNCHANGED directoryVars
    BY <1>5 DEF Establish
  <2>5. /\ grants' \in [GrantId -> Grant \cup {None}]
        /\ grantCount' \in 0..MaxGrants
        /\ GrantsAreNumbered'
        /\ \A i \in GrantId : grants'[i] # None /\ ~grants'[i].direct =>
              {grants'[i].nameA, grants'[i].nameB} \ {Unnamed} \subseteq identities'
    BY <2>3, <2>4, AddGrantKeepsInv
  <2> QED
    BY <1>5, <2>4, <2>5
       DEF Establish, directoryVars, GrantsTypeOK, DirectoryTypeOK, NothingOutlivesItsParties,
           RecipientStageHasApprover, Pending
<1>6. ASSUME NEW t \in Token, NEW r \in RequestSlot, NEW kind \in {"timed", "permanent"},
             DenyGrantRequest(t, r, kind)
      PROVE  Kept
  BY <1>6 DEF DenyGrantRequest, directoryVars, GrantsTypeOK,
              DirectoryTypeOK, Request, NothingOutlivesItsParties, RecipientStageHasApprover,
              GrantsAreNumbered, Pending
<1>7. ASSUME NEW t \in Token, NEW r \in RequestSlot, HoldGrantRequest(t, r)
      PROVE  Kept
  <2> DEFINE old == requests[r]
             q == [old EXCEPT !.stage = "governor"]
  <2>1. /\ old \in Request
        /\ {old.fromName, old.toName} \ {Unnamed} \subseteq identities
        /\ old.stage = "recipient" => old.approver # None
    BY <1>7, PendingRequest DEF HoldGrantRequest
  <2>2. /\ q \in Request
        /\ {q.fromName, q.toName} \ {Unnamed} \subseteq identities
        /\ q.stage = "recipient" => q.approver # None
    BY <1>7, <2>1 DEF HoldGrantRequest, Request
  <2>3. requests' = [requests EXCEPT ![r] = q]
    BY <1>7, <2>1 DEF HoldGrantRequest, GrantsTypeOK, Request
  <2> QED
    BY <1>7, <2>2, <2>3, RequestKeepsRest DEF HoldGrantRequest
<1>8. ASSUME NEW r \in RequestSlot, RequestTimesOut(r)
      PROVE  Kept
  <2> DEFINE old == requests[r]
             q == [old EXCEPT !.expired = TRUE]
  <2>1. /\ old \in Request
        /\ {old.fromName, old.toName} \ {Unnamed} \subseteq identities
        /\ old.stage = "recipient" => old.approver # None
    BY <1>8, PendingRequest DEF RequestTimesOut
  <2>2. /\ q \in Request
        /\ {q.fromName, q.toName} \ {Unnamed} \subseteq identities
        /\ q.stage = "recipient" => q.approver # None
    BY <1>8, <2>1 DEF RequestTimesOut, Request
  <2>3. requests' = [requests EXCEPT ![r] = q]
    BY <1>8, <2>1 DEF RequestTimesOut, GrantsTypeOK, Request
  <2> QED
    BY <1>8, <2>2, <2>3, RequestKeepsRest DEF RequestTimesOut
<1>9. ASSUME NEW g \in Token, NEW a \in Token, NEW b \in Token, ResolveParties(g, a, b)
      PROVE  Kept
  BY <1>9 DEF ResolveParties, IsGovernor, Resolution, directoryVars, GrantsTypeOK,
              DirectoryTypeOK, NothingOutlivesItsParties, RecipientStageHasApprover,
              GrantsAreNumbered, Pending
<1>10. ASSUME NEW terms \in Terms, ApproveGrant(terms)
       PROVE  Kept
  <2> DEFINE g == [a |-> resolving.a, b |-> resolving.b, nameA |-> resolving.nameA,
                   nameB |-> resolving.nameB, by |-> resolving.by, terms |-> terms,
                   expired |-> FALSE, direct |-> TRUE]
  <2>1. g \in Grant /\ g.direct
    BY <1>10 DEF ApproveGrant, GrantsTypeOK, Resolution, Grant
  <2>2. AddGrant(g) /\ UNCHANGED directoryVars
    BY <1>10 DEF ApproveGrant
  <2>3. /\ grants' \in [GrantId -> Grant \cup {None}]
        /\ grantCount' \in 0..MaxGrants
        /\ GrantsAreNumbered'
        /\ \A i \in GrantId : grants'[i] # None /\ ~grants'[i].direct =>
              {grants'[i].nameA, grants'[i].nameB} \ {Unnamed} \subseteq identities'
    BY <2>1, <2>2, AddGrantKeepsInv
  <2> QED
    BY <1>10, <2>2, <2>3
       DEF ApproveGrant, directoryVars, GrantsTypeOK, DirectoryTypeOK, NothingOutlivesItsParties,
           RecipientStageHasApprover, Pending
<1>11. ASSUME NEW i \in GrantId, GrantLapses(i)
       PROVE  Kept
  <2> DEFINE g == [grants[i] EXCEPT !.expired = TRUE]
  <2>1. grants[i] \in Grant /\ grants[i] # None
    BY <1>11 DEF GrantLapses, GrantsTypeOK
  <2>2. g \in Grant /\ g.direct = grants[i].direct /\ g.nameA = grants[i].nameA
                    /\ g.nameB = grants[i].nameB
    BY <2>1 DEF Grant
  <2>3. grants' = [grants EXCEPT ![i] = g]
    BY <1>11, <2>1 DEF GrantLapses, GrantsTypeOK, Grant
  <2> QED
    BY <1>11, <2>1, <2>2, <2>3
       DEF GrantLapses, directoryVars, GrantsTypeOK, DirectoryTypeOK, NothingOutlivesItsParties,
           RecipientStageHasApprover, GrantsAreNumbered, Pending
<1>12. ASSUME NEW g \in Token, NEW i \in GrantId, RevokeGrant(g, i)
       PROVE  Kept
  BY <1>12 DEF RevokeGrant, directoryVars, GrantsTypeOK,
               DirectoryTypeOK, NothingOutlivesItsParties, RecipientStageHasApprover,
               GrantsAreNumbered, Pending
<1>13. ASSUME NEW t \in Token, NEW n \in Name,
              \/ DenialLapses(t, n)
              \/ \E g \in Token : UnblockGrant(g, t, n)
              \/ \E g \in Token, kind \in {"timed", "permanent"} : BlockDirect(g, t, n, kind)
       PROVE  Kept
  <2>1. UNCHANGED <<directoryVars, asking, requests, grants, grantCount, resolving>>
    BY <1>13 DEF DenialLapses, UnblockGrant, BlockDirect
  <2>2. denials' \in [Token \X Name -> {"none", "timed", "permanent"}]
    <3>1. PICK k \in {"none", "timed", "permanent"} : denials' = [denials EXCEPT ![<<t, n>>] = k]
      BY <1>13 DEF DenialLapses, UnblockGrant, BlockDirect
    <3> QED
      BY <3>1 DEF GrantsTypeOK
  <2> QED
    BY <2>1, <2>2
       DEF directoryVars, GrantsTypeOK, DirectoryTypeOK, NothingOutlivesItsParties,
           RecipientStageHasApprover, GrantsAreNumbered, Pending
<1>14. Kept
  BY <1>0, <1>1, <1>2, <1>3, <1>4, <1>5, <1>6, <1>7, <1>8, <1>9, <1>10, <1>11, <1>12, <1>13
     DEF GrantStep
<1> QED
  BY <1>14, DirectoryUntouched

(* What a grant handler may do to grants; the directory it leaves alone.   *)
GrantsTouched ==
    \/ UNCHANGED <<grants, grantCount>>
    \/ \E t \in Token, r \in RequestSlot : Establish(t, r)
    \/ \E terms \in Terms : ApproveGrant(terms)
    \/ \E i \in GrantId : GrantLapses(i) \/ \E g \in Token : RevokeGrant(g, i)

LEMMA GrantStepTouches ==
    ASSUME GrantStep
    PROVE  GrantsTouched /\ UNCHANGED directoryVars
<1> DEFINE Kept == GrantsTouched /\ UNCHANGED directoryVars
<1>0. ASSUME NEW t \in Token, AskGrant(t) \/ AskEnds(t) PROVE Kept
  BY <1>0 DEF AskGrant, AskEnds, GrantsTouched
<1>1. ASSUME NEW t \in Token, NEW r \in RequestSlot, NEW n \in Name,
             RequestGrant(t, n, r) \/ RequestAgain(t, n, r) \/ Resubmit(t, n, r)
      PROVE  Kept
  BY <1>1 DEF RequestGrant, RequestAgain, Resubmit, GrantsTouched
<1>2. ASSUME NEW t \in Token, NEW r \in RequestSlot,
             GovernorApproves(t, r) \/ HoldGrantRequest(t, r)
      PROVE  Kept
  BY <1>2 DEF GovernorApproves, HoldGrantRequest, GrantsTouched
<1>3. ASSUME NEW t \in Token, NEW r \in RequestSlot, Establish(t, r)
      PROVE  Kept
  <2>1. UNCHANGED directoryVars
    BY <1>3 DEF Establish
  <2> QED
    BY <1>3, <2>1 DEF GrantsTouched
<1>4. ASSUME NEW t \in Token, NEW r \in RequestSlot, NEW kind \in {"timed", "permanent"},
             DenyGrantRequest(t, r, kind)
      PROVE  Kept
  BY <1>4 DEF DenyGrantRequest, GrantsTouched
<1>5. ASSUME NEW r \in RequestSlot, RequestTimesOut(r) PROVE Kept
  BY <1>5 DEF RequestTimesOut, GrantsTouched
<1>6. ASSUME NEW g \in Token, NEW a \in Token, NEW b \in Token, ResolveParties(g, a, b)
      PROVE  Kept
  BY <1>6 DEF ResolveParties, GrantsTouched
<1>7. ASSUME NEW terms \in Terms, ApproveGrant(terms) PROVE Kept
  <2>1. UNCHANGED directoryVars
    BY <1>7 DEF ApproveGrant
  <2> QED
    BY <1>7, <2>1 DEF GrantsTouched
<1>8. ASSUME NEW i \in GrantId, GrantLapses(i) PROVE Kept
  <2>1. UNCHANGED directoryVars
    BY <1>8 DEF GrantLapses
  <2> QED
    BY <1>8, <2>1 DEF GrantsTouched
<1>9. ASSUME NEW i \in GrantId, NEW g \in Token, RevokeGrant(g, i) PROVE Kept
  <2>1. UNCHANGED directoryVars
    BY <1>9 DEF RevokeGrant
  <2> QED
    BY <1>9, <2>1 DEF GrantsTouched
<1>10. ASSUME NEW t \in Token, NEW n \in Name,
              \/ DenialLapses(t, n)
              \/ \E g \in Token : UnblockGrant(g, t, n)
              \/ \E g \in Token, kind \in {"timed", "permanent"} : BlockDirect(g, t, n, kind)
       PROVE  Kept
  BY <1>10 DEF DenialLapses, UnblockGrant, BlockDirect, GrantsTouched
<1> HIDE DEF Kept
<1>11. Kept
  BY <1>0, <1>1, <1>2, <1>3, <1>4, <1>5, <1>6, <1>7, <1>8, <1>9, <1>10 DEF GrantStep
<1> QED
  BY <1>11 DEF Kept

(* Whoever goes takes requests and grants along.                           *)
LEMMA PurgeKeepsRest ==
    ASSUME GrantsInv, DirectoryInv', NEW n \in Name, NEW identity,
           identities' = identities \ {n}, Purge(n, identity)
    PROVE  GrantsInv'
<1> USE GrantsAssumption, DirectoryAssumption DEF GrantsInv
<1>1. GrantsTypeOK'
  BY DEF Purge, PurgeRequests, PurgeGrants, PurgeDenials, GrantsTypeOK, DirectoryInv
<1>2. NothingOutlivesItsParties'
  BY DEF Purge, PurgeRequests, PurgeGrants, GrantsTypeOK, NothingOutlivesItsParties, Pending
<1>3. RecipientStageHasApprover' /\ GrantsAreNumbered'
  BY DEF Purge, PurgeRequests, PurgeGrants, GrantsTypeOK, RecipientStageHasApprover,
         GrantsAreNumbered, Pending
<1> QED
  BY <1>1, <1>2, <1>3

(* As long as nobody leaves the roster, the directory may do as it likes.  *)
LEMMA RosterKeepsRest ==
    ASSUME GrantsInv, DirectoryInv', identities \subseteq identities', UNCHANGED grantVars
    PROVE  GrantsInv'
BY DEF GrantsInv, GrantsTypeOK, DirectoryInv, NothingOutlivesItsParties,
       RecipientStageHasApprover, GrantsAreNumbered, grantVars, Pending

LEMMA DeletionStepKeepsInv ==
    ASSUME GrantsInv, DeletionStep
    PROVE  GrantsInv'
<1> USE DirectoryAssumption
<1>0. DirectoryInv
  BY DEF GrantsInv
<1>1. ASSUME NEW g \in Token, NEW n \in Name, DeleteParticipant(g, n)
      PROVE  GrantsInv'
  <2>1. DirectoryInv' /\ identities' = identities \ {n}
    BY <1>0, <1>1, RevokeByNameKeepsInv DEF DeleteParticipant
  <2> QED
    BY <1>1, <2>1, PurgeKeepsRest DEF DeleteParticipant
<1>2. ASSUME NEW t \in Token, DeleteIdentity(t)
      PROVE  GrantsInv'
  <2>1. DirectoryInv' /\ identities' = identities \ {tokenToName[t]}
    BY <1>0, <1>2, DeleteSelfKeepsInv DEF DeleteIdentity
  <2>2. CASE tokenToName[t] # None
    <3>1. tokenToName[t] \in Name
      BY <1>0, <2>2 DEF DirectoryInv, DirectoryTypeOK
    <3> QED
      BY <1>2, <2>1, <2>2, <3>1, PurgeKeepsRest DEF DeleteIdentity
  <2>3. CASE tokenToName[t] = None
    <3>1. identities \subseteq identities'
      BY <1>0, <2>1, <2>3 DEF DirectoryInv, DirectoryTypeOK
    <3> QED
      BY <1>2, <2>1, <2>3, <3>1, RosterKeepsRest DEF DeleteIdentity
  <2> QED
    BY <2>2, <2>3
<1> QED
  BY <1>1, <1>2 DEF DeletionStep

(* GrantsInv is inductive, so it always holds.                             *)
THEOREM GrantsInvariant == GrantsSpec => []GrantsInv
<1>1. ASSUME GrantsInv, [GrantsNext]_vars
      PROVE  GrantsInv'
  <2>1. CASE GrantStep
    BY <1>1, <2>1, GrantStepKeepsInv
  <2>2. CASE DeletionStep
    BY <1>1, <2>2, DeletionStepKeepsInv
  <2>3. CASE KeepingStep /\ UNCHANGED grantVars
    <3>1. DirectoryInv' /\ identities \subseteq identities'
      BY <1>1, <2>3, KeepingStepKeepsInv DEF GrantsInv
    <3> QED
      BY <1>1, <2>3, <3>1, RosterKeepsRest
  <2>4. CASE UNCHANGED vars
    <3>1. DirectoryInv' /\ identities \subseteq identities'
      BY <1>1, <2>4, DirectoryUntouched DEF GrantsInv, vars, directoryVars
    <3> QED
      BY <1>1, <2>4, <3>1, RosterKeepsRest DEF vars
  <2> QED
    BY <1>1, <2>1, <2>2, <2>3, <2>4 DEF GrantsNext
<1> QED
  BY <1>1, GrantsInitInv, PTL DEF GrantsSpec

(* Every state is well typed.                                              *)
THEOREM GrantsTyped == GrantsSpec => []GrantsTypeOK
BY GrantsInvariant, PTL DEF GrantsInv

(* Requests and the grants made through them name registered participants, *)
(* or nobody: self_delete_identity and revoke_by_name leave none behind,   *)
(* and a sender that gave up its name while it asked does not get a        *)
(* request under it (request_grant).                                       *)
THEOREM NothingOutlivesItsPartiesHolds == GrantsSpec => []NothingOutlivesItsParties
BY GrantsInvariant, PTL DEF GrantsInv

(* approve_grant_request never meets a recipient stage without an approver. *)
THEOREM RecipientStageHasApproverHolds == GrantsSpec => []RecipientStageHasApprover
BY GrantsInvariant, PTL DEF GrantsInv

(* The number of a grant that is gone is never used again.                 *)
THEOREM GoneGrantsStayGoneHolds == GrantsSpec => GoneGrantsStayGone
<1> DEFINE Gone == \A i \in GrantId : i <= grantCount /\ grants[i] = None => grants'[i] = None
<1>1. ASSUME GrantsInv, [GrantsNext]_vars
      PROVE  [Gone]_vars
  <2> USE GrantsAssumption DEF GrantsInv, GrantsTypeOK, GrantId
  <2>1. CASE GrantStep
    <3>1. ASSUME NEW g, AddGrant(g)
          PROVE  Gone
      BY <1>1, <3>1 DEF AddGrant
    <3>2. ASSUME NEW i \in GrantId, grants[i] # None, NEW g,
                 grants' = [grants EXCEPT ![i] = g]
          PROVE  Gone
      BY <1>1, <3>2
    <3>3. ASSUME grants' = grants
          PROVE  Gone
      BY <3>3
    <3>4. ASSUME NEW t \in Token, NEW r \in RequestSlot, Establish(t, r)
          PROVE  Gone
      BY <3>1, <3>4 DEF Establish
    <3>5. ASSUME NEW terms \in Terms, ApproveGrant(terms)
          PROVE  Gone
      BY <3>1, <3>5 DEF ApproveGrant
    <3>6. ASSUME NEW i \in GrantId, GrantLapses(i) \/ \E g \in Token : RevokeGrant(g, i)
          PROVE  Gone
      <4>1. grants[i] # None /\ \E g : grants' = [grants EXCEPT ![i] = g]
        BY <3>6 DEF GrantLapses, RevokeGrant
      <4> QED
        BY <3>2, <4>1
    <3> HIDE DEF Gone
    <3> QED
      BY <2>1, <3>3, <3>4, <3>5, <3>6, GrantStepTouches DEF GrantsTouched
  <2>2. CASE DeletionStep
    BY <2>2 DEF DeletionStep, DeleteParticipant, DeleteIdentity, Purge, PurgeGrants, grantVars
  <2>3. CASE KeepingStep /\ UNCHANGED grantVars
    BY <2>3 DEF grantVars
  <2>4. CASE UNCHANGED vars
    BY <2>4
  <2> QED
    BY <1>1, <2>1, <2>2, <2>3, <2>4 DEF GrantsNext
<1> QED
  BY <1>1, GrantsInvariant, PTL DEF GrantsSpec, GoneGrantsStayGone

-----------------------------------------------------------------------------
(* The directory is as its own module has it, whatever is done to grants:  *)
(* a deletion takes them along but is the same deletion.                   *)
THEOREM GrantsImplementDirectory == GrantsSpec => DirectorySpec
<1>1. GrantsInit => DirectoryInit
  BY DEF GrantsInit
<1>2. [GrantsNext]_vars => [DirectoryNext]_directoryVars
  <2> SUFFICES ASSUME [GrantsNext]_vars PROVE [DirectoryNext]_directoryVars
    OBVIOUS
  <2>1. CASE GrantStep
    BY <2>1, GrantStepTouches
  <2>2. CASE DeletionStep
    BY <2>2 DEF DeletionStep, DeleteParticipant, DeleteIdentity, DirectoryNext
  <2>3. CASE KeepingStep
    BY <2>3 DEF DirectoryNext
  <2>4. CASE UNCHANGED vars
    BY <2>4 DEF vars
  <2> QED
    BY <2>1, <2>2, <2>3, <2>4 DEF GrantsNext
<1> QED
  BY <1>1, <1>2, PTL DEF GrantsSpec, DirectorySpec

-----------------------------------------------------------------------------
(* The life of a grant.                                                    *)

LapsedGrant(g) == [g EXCEPT !.expired = TRUE]

KeepsItsTerms(i) ==
    grants[i] # None /\ grants'[i] # None => grants'[i] \in {grants[i], LapsedGrant(grants[i])}

\* What the governor has resolved, or what a request that somebody approved says.
Foreseen(g) ==
    IF g.direct
    THEN /\ resolving # None
         /\ resolving = [by |-> g.by, a |-> g.a, b |-> g.b, nameA |-> g.nameA, nameB |-> g.nameB]
    ELSE \E r \in RequestSlot :
            /\ Pending(r)
            /\ requests'[r] = None
            /\ requests[r].stage = "recipient"
            /\ requests[r].approver # None
            /\ g.by = requests[r].approver
            /\ g.a = requests[r].fromId   /\ g.nameA = requests[r].fromName
            /\ g.b = requests[r].toId     /\ g.nameB = requests[r].toName

IsApproved(i) ==
    grants[i] = None /\ grants'[i] # None =>
        /\ i = grantCount + 1
        /\ ~grants'[i].expired
        /\ Foreseen(grants'[i])

EndsForCause(i) ==
    grants[i] # None /\ grants'[i] = None =>
        \/ \E g \in Token : RevokeGrant(g, i)
        \/ \E n \in {grants[i].nameA, grants[i].nameB} : n \in Name /\ n \notin identities'

LivesRightly == \A i \in GrantId : KeepsItsTerms(i) /\ IsApproved(i) /\ EndsForCause(i)

(* What a grant says stays what was agreed, and its expiry is final.  A new *)
(* one is what the governor has resolved, or what a request says that was  *)
(* approved and is gone with it: no request makes two grants.  One that    *)
(* ends was revoked by a governor or had a party that is not registered    *)
(* (approve_grant_req, create_consent_grant, remove_grant, purge_grants_for). *)
GrantsLiveRightly == [][LivesRightly]_vars

(* Every handler, one by one.                                              *)
LEMMA StepsLetGrantsLiveRightly ==
    ASSUME GrantsInv, [GrantsNext]_vars
    PROVE  [LivesRightly]_vars
<1> USE GrantsAssumption, DirectoryAssumption
<1>0. GrantsTypeOK /\ DirectoryTypeOK /\ GrantsAreNumbered
  BY DEF GrantsInv, DirectoryInv
<1>1. ASSUME grants' = grants PROVE LivesRightly
  BY <1>1 DEF LivesRightly, KeepsItsTerms, IsApproved, EndsForCause
<1>2. ASSUME NEW g \in Grant, AddGrant(g), ~g.expired, Foreseen(g) PROVE LivesRightly
  <2>1. grantCount + 1 \in GrantId
    BY <1>0, <1>2 DEF AddGrant, GrantsTypeOK, GrantId
  <2>2. grants' = [grants EXCEPT ![grantCount + 1] = g]
    BY <1>2 DEF AddGrant
  <2>3. grants[grantCount + 1] = None
    BY <1>0, <2>1 DEF GrantsAreNumbered, GrantsTypeOK
  <2>4. grants \in [GrantId -> Grant \cup {None}]
    BY <1>0 DEF GrantsTypeOK
  <2>5. grants'[grantCount + 1] = g /\ \A i \in GrantId \ {grantCount + 1} : grants'[i] = grants[i]
    BY <2>1, <2>2, <2>4
  <2> HIDE DEF Foreseen
  <2>6. ASSUME NEW i \in GrantId, i = grantCount + 1
        PROVE  KeepsItsTerms(i) /\ IsApproved(i) /\ EndsForCause(i)
    <3>1. grants[i] = None /\ grants'[i] = g
      BY <2>3, <2>5, <2>6
    <3>2. KeepsItsTerms(i)
      BY <3>1 DEF KeepsItsTerms
    <3>3. IsApproved(i)
      BY <1>2, <2>6, <3>1 DEF IsApproved
    <3>4. EndsForCause(i)
      BY <3>1 DEF EndsForCause
    <3> QED
      BY <3>2, <3>3, <3>4
  <2>7. ASSUME NEW i \in GrantId, i # grantCount + 1
        PROVE  KeepsItsTerms(i) /\ IsApproved(i) /\ EndsForCause(i)
    BY <2>5, <2>7 DEF KeepsItsTerms, IsApproved, EndsForCause
  <2> QED
    BY <2>6, <2>7 DEF LivesRightly
<1>3. CASE GrantStep
  <2>1. ASSUME NEW t \in Token, NEW r \in RequestSlot, Establish(t, r) PROVE LivesRightly
    <3> DEFINE q == requests[r]
               g == [a |-> q.fromId, b |-> q.toId, nameA |-> q.fromName, nameB |-> q.toName,
                     by |-> q.approver, terms |-> DefaultTerms, expired |-> FALSE,
                     direct |-> FALSE]
    <3>1. q \in Request /\ q.approver # None /\ q.stage = "recipient"
      BY <1>0, <2>1 DEF Establish, Pending, GrantsTypeOK
    <3>2. DefaultTerms \in TermsType
      BY DEF DefaultTerms, TermsType
    <3>3. g \in Grant
      BY <3>1, <3>2 DEF Request, Grant
    <3>4. AddGrant(g) /\ Pending(r) /\ requests'[r] = None
      BY <1>0, <2>1 DEF Establish, GrantsTypeOK
    <3>5. Foreseen(g)
      BY <3>1, <3>4 DEF Foreseen
    <3>6. ~g.expired
      OBVIOUS
    <3> QED
      BY <1>2, <3>3, <3>4, <3>5, <3>6
  <2>2. ASSUME NEW terms \in Terms, ApproveGrant(terms) PROVE LivesRightly
    <3> DEFINE g == [a |-> resolving.a, b |-> resolving.b, nameA |-> resolving.nameA,
                     nameB |-> resolving.nameB, by |-> resolving.by, terms |-> terms,
                     expired |-> FALSE, direct |-> TRUE]
    <3>1. resolving \in Resolution /\ resolving # None
      BY <1>0, <2>2 DEF ApproveGrant, GrantsTypeOK
    <3>2. terms \in TermsType
      OBVIOUS
    <3>3. g \in Grant
      BY <3>1, <3>2 DEF Resolution, Grant
    <3>4. AddGrant(g)
      BY <2>2 DEF ApproveGrant
    <3>5. Foreseen(g)
      BY <3>1 DEF Foreseen, Resolution
    <3>6. ~g.expired
      OBVIOUS
    <3> QED
      BY <1>2, <3>3, <3>4, <3>5, <3>6
  <2>3. ASSUME NEW i \in GrantId, GrantLapses(i) PROVE LivesRightly
    <3>1. grants' = [grants EXCEPT ![i] = LapsedGrant(grants[i])] /\ grants[i] # None
      BY <2>3 DEF GrantLapses, LapsedGrant
    <3>2. grants'[i] = LapsedGrant(grants[i]) /\ \A j \in GrantId : j # i => grants'[j] = grants[j]
      BY <1>0, <3>1 DEF GrantsTypeOK
    <3>3. grants[i] \in Grant
      BY <1>0, <3>1 DEF GrantsTypeOK
    <3>4. LapsedGrant(grants[i]) \in Grant
      BY <3>3 DEF LapsedGrant, Grant
    <3> HIDE DEF LapsedGrant
    <3>5. \A j \in GrantId : KeepsItsTerms(j)
      BY <3>2 DEF KeepsItsTerms
    <3>6. \A j \in GrantId : IsApproved(j)
      BY <3>1, <3>2 DEF IsApproved
    <3>7. \A j \in GrantId : EndsForCause(j)
      BY <3>2, <3>4, GrantAssumption DEF EndsForCause
    <3> QED
      BY <3>5, <3>6, <3>7 DEF LivesRightly
  <2>4. ASSUME NEW g \in Token, NEW i \in GrantId, RevokeGrant(g, i) PROVE LivesRightly
    <3>1. grants' = [grants EXCEPT ![i] = None]
      BY <2>4 DEF RevokeGrant
    <3>2. \A j \in GrantId : j # i => grants'[j] = grants[j]
      BY <3>1
    <3>3. grants'[i] = None
      BY <1>0, <3>1 DEF GrantsTypeOK
    <3>4. EndsForCause(i)
      BY <2>4 DEF EndsForCause
    <3> QED
      BY <3>2, <3>3, <3>4 DEF LivesRightly, KeepsItsTerms, IsApproved, EndsForCause
  <2> QED
    BY <1>1, <1>3, <2>1, <2>2, <2>3, <2>4, GrantStepTouches DEF GrantsTouched
<1>4. ASSUME NEW n \in Name, PurgeGrants(n), n \notin identities' PROVE LivesRightly
  BY <1>0, <1>4 DEF PurgeGrants, LivesRightly, KeepsItsTerms, IsApproved, EndsForCause
<1>5. CASE DeletionStep
  <2>1. ASSUME NEW g \in Token, NEW n \in Name, DeleteParticipant(g, n) PROVE LivesRightly
    BY <1>4, <2>1 DEF DeleteParticipant, RevokeByName, Purge
  <2>2. ASSUME NEW t \in Token, DeleteIdentity(t) PROVE LivesRightly
    <3>1. CASE tokenToName[t] # None
      <4>1. tokenToName[t] \in Name
        BY <1>0, <3>1 DEF DirectoryTypeOK
      <4>2. PurgeGrants(tokenToName[t]) /\ tokenToName[t] \notin identities'
        BY <2>2, <3>1 DEF DeleteIdentity, DeleteSelf, Purge
      <4> QED
        BY <1>4, <4>1, <4>2
    <3>2. CASE tokenToName[t] = None
      BY <1>1, <2>2, <3>2 DEF DeleteIdentity, grantVars
    <3> QED
      BY <3>1, <3>2
  <2> QED
    BY <1>5, <2>1, <2>2 DEF DeletionStep
<1>6. CASE KeepingStep /\ UNCHANGED grantVars
  BY <1>1, <1>6 DEF grantVars
<1> QED
  BY <1>3, <1>5, <1>6 DEF GrantsNext

(* For any participants, requests and grants: terms are kept, grants are   *)
(* approved, and none is lost without a cause.                             *)
THEOREM GrantsLiveRightlyHolds == GrantsSpec => GrantsLiveRightly
<1>1. GrantsInv /\ [GrantsNext]_vars => [LivesRightly]_vars
  BY StepsLetGrantsLiveRightly
<1> QED
  BY <1>1, GrantsInvariant, PTL DEF GrantsSpec, GrantsLiveRightly
=============================================================================
