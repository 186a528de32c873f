-------------------------- MODULE GovernanceProofs --------------------------
(***************************************************************************)
(* Proofs about Governance, for any number of tokens, names and pending    *)
(* claims and transfers.                                                   *)
(*                                                                         *)
(* Every step of Governance is a step of Sessions or leaves its state      *)
(* alone, so the inductive invariant of Sessions carries over; what a      *)
(* claim needs on top is that it is well typed, that its voters are not    *)
(* all through, and, for an election, that the candidate is none of them.  *)
(***************************************************************************)
EXTENDS Governance, SessionsProofs, TLAPS

GovernanceInv ==
    /\ SessionsInv
    /\ GovernanceTypeOK
    /\ VotesAreForTheClaimant

(* The initial state.                                                      *)
LEMMA GovernanceInitInv == GovernanceInit => GovernanceInv
BY SessionsInitInv
   DEF GovernanceInit, GovernanceInv, GovernanceTypeOK, VotesAreForTheClaimant, SessionsInv

(* A claim that is filed is a claim.                                       *)
LEMMA FileClaimKeeps ==
    ASSUME GovernanceInv, NEW c \in ClaimSlot, NEW t \in Token,
           NEW kind \in {"election", "transfer"}, NEW required \in SUBSET Name,
           tokenToName[t] # None, required # {},
           kind = "election" => tokenToName[t] \notin required,
           FileClaim(c, t, kind, required)
    PROVE  /\ pendingClaims' \in [ClaimSlot -> Claim \cup {None}]
           /\ VotesAreForTheClaimant'
<1> DEFINE new == [token |-> t, name |-> tokenToName[t], kind |-> kind,
                   required |-> required, approved |-> {}]
<1>1. tokenToName[t] \in Name
  BY DEF GovernanceInv, SessionsInv, SessionsTypeOK
<1>2. new \in Claim
  BY <1>1 DEF Claim
<1>3. pendingClaims \in [ClaimSlot -> Claim \cup {None}]
  BY DEF GovernanceInv, GovernanceTypeOK
<1>4. pendingClaims' = [pendingClaims EXCEPT ![c] = new]
  BY DEF FileClaim
<1>5. VotesAreForTheClaimant'
  BY <1>3, <1>4 DEF GovernanceInv, VotesAreForTheClaimant
<1> QED
  BY <1>2, <1>3, <1>4, <1>5

(* Removing a claim disturbs nothing.                                      *)
LEMMA RemoveClaimKeeps ==
    ASSUME GovernanceInv, NEW c \in ClaimSlot,
           pendingClaims' = [pendingClaims EXCEPT ![c] = None]
    PROVE  /\ pendingClaims' \in [ClaimSlot -> Claim \cup {None}]
           /\ VotesAreForTheClaimant'
BY DEF GovernanceInv, GovernanceTypeOK, VotesAreForTheClaimant

(* A vote that leaves others outstanding.                                  *)
LEMMA ApproveWaitingKeeps ==
    ASSUME GovernanceInv, NEW t \in Token, NEW c \in ClaimSlot, ApproveWaiting(t, c)
    PROVE  /\ pendingClaims' \in [ClaimSlot -> Claim \cup {None}]
           /\ VotesAreForTheClaimant'
<1> DEFINE old == pendingClaims[c]
           new == [old EXCEPT !.approved = WithVote(t, c)]
<1>1. pendingClaims \in [ClaimSlot -> Claim \cup {None}]
  BY DEF GovernanceInv, GovernanceTypeOK
<1>2. old # None /\ old \in Claim
  BY <1>1 DEF ApproveWaiting, MayVote
<1>3. WithVote(t, c) \subseteq old.required /\ WithVote(t, c) # old.required
  BY <1>2 DEF ApproveWaiting, MayVote, WithVote, GovernanceInv, VotesAreForTheClaimant
<1>4. /\ new \in Claim
      /\ new.approved = WithVote(t, c) /\ new.required = old.required
      /\ new.name = old.name /\ new.kind = old.kind
  BY <1>2, <1>3 DEF Claim
<1>5. pendingClaims' = [pendingClaims EXCEPT ![c] = new]
  BY DEF ApproveWaiting
<1>6. pendingClaims' \in [ClaimSlot -> Claim \cup {None}]
  BY <1>1, <1>4, <1>5
<1>7. ASSUME NEW d \in ClaimSlot, pendingClaims'[d] # None
      PROVE  /\ pendingClaims'[d].approved \subseteq pendingClaims'[d].required
             /\ pendingClaims'[d].approved # pendingClaims'[d].required
             /\ pendingClaims'[d].kind = "election" =>
                   pendingClaims'[d].name \notin pendingClaims'[d].required
  <2>1. CASE d = c
    <3>1. pendingClaims'[d] = new
      BY <1>1, <1>5, <2>1
    <3> QED
      BY <1>2, <1>3, <1>4, <3>1 DEF GovernanceInv, VotesAreForTheClaimant
  <2>2. CASE d # c
    <3>1. pendingClaims'[d] = pendingClaims[d]
      BY <1>1, <1>5, <2>2
    <3> QED
      BY <1>7, <3>1 DEF GovernanceInv, VotesAreForTheClaimant
  <2> QED
    BY <2>1, <2>2
<1> QED
  BY <1>6, <1>7 DEF VotesAreForTheClaimant

(* The token behind a claim that is decided in its favour speaks for the   *)
(* name the claim was filed under.                                         *)
LEMMA ElectedSpeaks ==
    ASSUME GovernanceInv, NEW t \in Token, NEW c \in ClaimSlot, ApproveEstablishes(t, c)
    PROVE  /\ pendingClaims[c].token \in Token
           /\ pendingClaims[c].name \in Name
           /\ tokenToName[pendingClaims[c].token] = pendingClaims[c].name
           /\ BecomeGovernor(pendingClaims[c].token)
<1>1. pendingClaims[c] \in Claim
  BY DEF GovernanceInv, GovernanceTypeOK, ApproveEstablishes, MayVote
<1>2. pendingClaims[c].token \in Token /\ pendingClaims[c].name \in Name
  BY <1>1 DEF Claim
<1> QED
  BY <1>2, SessionsAssumption DEF ApproveEstablishes, CandidateStillLive, BecomeGovernor

(* Step simulation: whatever the governance handlers do to the session     *)
(* state is the appointment of a participant some token speaks for, the    *)
(* operator's reset, or nothing.                                           *)
LEMMA GovernanceStepSimulates ==
    ASSUME GovernanceInv, [GovernanceNext]_allVars
    PROVE  [SessionsNext]_sessionVars
<1> USE DEF sessionVars
<1>1. ASSUME NEW t \in Token, ClaimGranted(t)
      PROVE  SessionsNext
  BY <1>1 DEF ClaimGranted, SessionsNext
<1>2. ASSUME NEW t \in Token, NEW c \in ClaimSlot,
             ClaimTransfer(c, t) \/ ClaimElection(c, t)
      PROVE  UNCHANGED sessionVars
  BY <1>2 DEF ClaimTransfer, ClaimElection, FileClaim
<1>3. ASSUME NEW t \in Token, NEW c \in ClaimSlot,
             RejectClaim(t, c) \/ ApproveWaiting(t, c) \/ ApproveTooLate(t, c) \/ ClaimExpires(c)
      PROVE  UNCHANGED sessionVars
  BY <1>3 DEF RejectClaim, ApproveWaiting, ApproveTooLate, ClaimExpires
<1>4. ASSUME NEW t \in Token, NEW c \in ClaimSlot, ApproveEstablishes(t, c)
      PROVE  SessionsNext
  BY <1>4, ElectedSpeaks DEF SessionsNext
<1>5. ASSUME NEW x \in TransferSlot, NEW t \in Token, NEW to \in Name \cup {None},
             TransferGovernor(x, t, to) \/ AcceptStaleTransfer(t, x)
      PROVE  UNCHANGED sessionVars
  BY <1>5 DEF TransferGovernor, AcceptStaleTransfer
<1>6. ASSUME NEW x \in TransferSlot, NEW t \in Token, AcceptGovernorTransfer(t, x)
      PROVE  SessionsNext
  <2>1. BecomeGovernor(t)
    BY <1>6 DEF AcceptGovernorTransfer, Presents, BecomeGovernor
  <2> QED
    BY <2>1 DEF SessionsNext
<1>7. CASE ResetGovernor
  BY <1>7 DEF ResetGovernor, SessionsNext, AdminResetGovernor
<1>8. CASE SessionStep
  BY <1>8 DEF SessionsNext
<1>9. CASE UNCHANGED allVars
  BY <1>9 DEF allVars
<1>10. ASSUME NEW c \in ClaimSlot, ClaimExpires(c)
       PROVE  UNCHANGED sessionVars
  BY <1>10 DEF ClaimExpires
<1> QED
  BY <1>1, <1>2, <1>3, <1>4, <1>5, <1>6, <1>7, <1>8, <1>9, <1>10
     DEF GovernanceNext, GovernanceStep

(* The governance part of the invariant is preserved.                      *)
LEMMA GovernanceNextKeepsInv ==
    ASSUME GovernanceInv, [GovernanceNext]_allVars
    PROVE  GovernanceInv'
<1>1. SessionsInv'
  BY GovernanceStepSimulates, SessionsNextKeepsInv DEF GovernanceInv
<1>2. SessionsTypeOK'
  BY <1>1 DEF SessionsInv
<1>3. pendingClaims \in [ClaimSlot -> Claim \cup {None}] /\ VotesAreForTheClaimant
  BY DEF GovernanceInv, GovernanceTypeOK
<1>4. pendingTransfers \in [TransferSlot -> Transfer \cup {None}]
  BY DEF GovernanceInv, GovernanceTypeOK
<1>5. SessionsTypeOK
  BY DEF GovernanceInv, SessionsInv
<1> DEFINE ClaimsKept == /\ pendingClaims' \in [ClaimSlot -> Claim \cup {None}]
                         /\ VotesAreForTheClaimant'
           TransfersKept == pendingTransfers' \in [TransferSlot -> Transfer \cup {None}]
<1>6. UNCHANGED pendingClaims => ClaimsKept
  BY <1>3 DEF VotesAreForTheClaimant
<1>7. UNCHANGED pendingTransfers => TransfersKept
  BY <1>4
<1> HIDE DEF ClaimsKept, TransfersKept
<1>8. ASSUME NEW t \in Token, ClaimGranted(t)
      PROVE  ClaimsKept /\ TransfersKept
  BY <1>6, <1>7, <1>8 DEF ClaimGranted, govVars
<1>9. ASSUME NEW t \in Token, NEW c \in ClaimSlot, ClaimTransfer(c, t)
      PROVE  ClaimsKept /\ TransfersKept
  <2>1. {governor} \in SUBSET Name
    BY <1>5, <1>9 DEF SessionsTypeOK, ClaimTransfer
  <2> QED
    BY <1>7, <1>9, <2>1, FileClaimKeeps DEF ClaimTransfer, FileClaim, ClaimsKept
<1>10. ASSUME NEW t \in Token, NEW c \in ClaimSlot, ClaimElection(c, t)
       PROVE  ClaimsKept /\ TransfersKept
  <2>1. Voters(tokenToName[t]) \in SUBSET Name /\ tokenToName[t] \notin Voters(tokenToName[t])
    BY DEF Voters
  <2> QED
    BY <1>7, <1>10, <2>1, FileClaimKeeps DEF ClaimElection, FileClaim, ClaimsKept
<1>11. ASSUME NEW t \in Token, NEW c \in ClaimSlot,
              RejectClaim(t, c) \/ ApproveTooLate(t, c) \/ ApproveEstablishes(t, c) \/ ClaimExpires(c)
       PROVE  ClaimsKept /\ TransfersKept
  BY <1>7, <1>11, RemoveClaimKeeps
     DEF RejectClaim, ApproveTooLate, ApproveEstablishes, ClaimExpires, ClaimsKept
<1>12. ASSUME NEW t \in Token, NEW c \in ClaimSlot, ApproveWaiting(t, c)
       PROVE  ClaimsKept /\ TransfersKept
  BY <1>7, <1>12, ApproveWaitingKeeps DEF ApproveWaiting, ClaimsKept
<1>13. ASSUME NEW x \in TransferSlot, NEW g \in Token, NEW to \in Name \cup {None},
              TransferGovernor(x, g, to)
       PROVE  ClaimsKept /\ TransfersKept
  <2>1. [from |-> tokenToName[g], to |-> to] \in Transfer
    BY <1>5, <1>13 DEF SessionsTypeOK, TransferGovernor, ValidateGovernorToken, Transfer
  <2> QED
    BY <1>4, <1>6, <1>13, <2>1 DEF TransferGovernor, TransfersKept
<1>14. ASSUME NEW x \in TransferSlot, NEW t \in Token,
              AcceptGovernorTransfer(t, x) \/ AcceptStaleTransfer(t, x)
       PROVE  ClaimsKept /\ TransfersKept
  BY <1>4, <1>6, <1>14 DEF AcceptGovernorTransfer, AcceptStaleTransfer, TransfersKept
<1>15. CASE ResetGovernor
  <2>1. ClaimsKept /\ TransfersKept
    BY <1>4, <1>6, <1>15 DEF ResetGovernor, TransfersKept
  <2> QED
    BY <1>1, <1>2, <2>1 DEF GovernanceInv, GovernanceTypeOK, ClaimsKept, TransfersKept
<1>16. CASE UNCHANGED govVars
  <2>1. ClaimsKept /\ TransfersKept
    BY <1>6, <1>7, <1>16 DEF govVars
  <2> QED
    BY <1>1, <1>2, <2>1 DEF GovernanceInv, GovernanceTypeOK, ClaimsKept, TransfersKept
<1>17. ASSUME NEW c \in ClaimSlot, ClaimExpires(c)
       PROVE  ClaimsKept /\ TransfersKept
  BY <1>7, <1>17, RemoveClaimKeeps DEF ClaimExpires, ClaimsKept
<1>18. ClaimsKept /\ TransfersKept => GovernanceInv'
  BY <1>1, <1>2 DEF GovernanceInv, GovernanceTypeOK, ClaimsKept, TransfersKept
<1> QED
  BY <1>8, <1>9, <1>10, <1>11, <1>12, <1>13, <1>14, <1>15, <1>16, <1>17, <1>18
     DEF GovernanceNext, GovernanceStep, allVars

(* The invariant holds in every reachable state.                           *)
THEOREM GovernanceInvariant == GovernanceSpec => []GovernanceInv
<1>1. GovernanceInv /\ [GovernanceNext]_allVars => GovernanceInv'
  BY GovernanceNextKeepsInv
<1> QED
  BY <1>1, GovernanceInitInv, PTL DEF GovernanceSpec

(* Type correctness, pending claims and transfers included.                *)
THEOREM GovernanceTyped == GovernanceSpec => []GovernanceTypeOK
<1>1. GovernanceInv => GovernanceTypeOK
  BY DEF GovernanceInv
<1> QED
  BY <1>1, GovernanceInvariant, PTL

(* Votes come from those asked, are never all in while the claim is still  *)
(* pending, and a candidate is not asked about its own election.           *)
THEOREM VotesAreForTheClaimantHolds == GovernanceSpec => []VotesAreForTheClaimant
<1>1. GovernanceInv => VotesAreForTheClaimant
  BY DEF GovernanceInv
<1> QED
  BY <1>1, GovernanceInvariant, PTL

(* Refinement: the hub with its claims, elections and transfers implements *)
(* the session specification, which only says that the flag goes to a name *)
(* some token speaks for.                                                  *)
THEOREM GovernanceImplementsSessions == GovernanceSpec => SessionsSpec
<1>1. GovernanceInit => SessionsInit
  BY DEF GovernanceInit
<1>2. GovernanceInv /\ [GovernanceNext]_allVars => [SessionsNext]_sessionVars
  BY GovernanceStepSimulates
<1> QED
  BY <1>1, <1>2, GovernanceInvariant, PTL DEF GovernanceSpec, SessionsSpec

(* A session step installs nobody.                                         *)
LEMMA SessionStepInstallsNobody ==
    ASSUME SessionStep
    PROVE  governor' \in {None, governor}
BY DEF SessionStep, AdmitRegistration, RegisterParticipant, OpenListen, DropCurrentStream,
       DropStaleStream, CloseListen, CancelListen, DeleteSelf, ForgetIdentity, GcToken, ReAnnounce, AnnounceNew,
       AnnounceDangling, RevokeByName, IssueParticipantToken, RebindName, RegistryLapse, MarkGranted

(* Whoever becomes governor is registered and some token speaks for it.    *)
THEOREM NoDanglingInstallationHolds == GovernanceSpec => NoDanglingInstallation
<1>1. ASSUME GovernanceInv, [GovernanceNext]_allVars
      PROVE  [InstalledGovernorIsHeld]_allVars
  <2> SUFFICES ASSUME GovernanceNext, governor' # None, governor' # governor
               PROVE  /\ governor' \in identities
                      /\ \E t \in Token : tokenToName[t] = governor'
    BY <1>1 DEF InstalledGovernorIsHeld
  <2>1. ASSUME NEW t \in Token, BecomeGovernor(t)
        PROVE  governor' \in identities /\ tokenToName[t] = governor'
    BY <1>1, <2>1 DEF BecomeGovernor, GovernanceInv, SessionsInv, OneVoicePerName
  <2>2. ~SessionStep
    BY SessionStepInstallsNobody
  <2>3. [SessionsNext]_sessionVars
    BY <1>1, GovernanceStepSimulates
  <2>4. \E t \in Token : BecomeGovernor(t)
    BY <2>2, <2>3 DEF SessionsNext, AdminResetGovernor, sessionVars
  <2> QED
    BY <2>1, <2>4
<1> QED
  BY <1>1, GovernanceInvariant, PTL DEF GovernanceSpec, NoDanglingInstallation

(* A claim installs the token that filed it, and that token still holds    *)
(* the name it was filed under.                                            *)
THEOREM OnlyClaimantIsElectedHolds == GovernanceSpec => OnlyClaimantIsElected
<1>1. ASSUME GovernanceInv, [GovernanceNext]_allVars
      PROVE  [ElectedIsTheClaimant]_allVars
  <2> SUFFICES ASSUME GovernanceNext, NEW c \in ClaimSlot, pendingClaims[c] # None,
                      pendingClaims'[c] = None, governor' # None, governor' # governor
               PROVE  /\ governor' = pendingClaims[c].name
                      /\ tokenToName[pendingClaims[c].token] = governor'
                      /\ nameToToken[governor'] = pendingClaims[c].token
    BY <1>1 DEF ElectedIsTheClaimant
  <2>1. pendingClaims \in [ClaimSlot -> Claim \cup {None}]
    BY <1>1 DEF GovernanceInv, GovernanceTypeOK
  <2>2. ~SessionStep
    BY SessionStepInstallsNobody
  <2>3. \E t \in Token, d \in ClaimSlot : ApproveEstablishes(t, d)
    BY <2>2 DEF GovernanceNext, GovernanceStep, ClaimGranted, ClaimTransfer, ClaimElection, FileClaim,
         RejectClaim, ApproveWaiting, ApproveTooLate, ClaimExpires, TransferGovernor,
         AcceptGovernorTransfer, AcceptStaleTransfer, ResetGovernor, sessionVars, govVars
  <2>4. PICK t \in Token, d \in ClaimSlot : ApproveEstablishes(t, d)
    BY <2>3
  <2>5. d = c
    BY <2>1, <2>4 DEF ApproveEstablishes
  <2>6. governor' = pendingClaims[c].name
    BY <2>4, <2>5 DEF ApproveEstablishes
  <2>7. pendingClaims[c].token \in Token /\ tokenToName[pendingClaims[c].token] = governor'
    BY <1>1, <2>4, <2>5, <2>6, ElectedSpeaks
  <2> QED
    BY <1>1, <2>6, <2>7 DEF GovernanceInv, SessionsInv, OneVoicePerName
<1> QED
  BY <1>1, GovernanceInvariant, PTL DEF GovernanceSpec, OnlyClaimantIsElected
=============================================================================
