------------------------------ MODULE Grants ------------------------------
(***************************************************************************)
(* Grants: how participants obtain, refuse and lose the right to message   *)
(* each other (src/src/delivery.rs and the grant list of src/src/trust.rs).*)
(*                                                                         *)
(* A participant asks for a grant; with a governor the governor and then   *)
(* the recipient approve, without one the recipient alone.  Either may     *)
(* deny, which also blocks the pair, or hold the request for more          *)
(* information.  The governor may also approve, block and unblock pairs    *)
(* directly and revoke grants.                                             *)
(*                                                                         *)
(* A request and a grant record both the names of the parties and their    *)
(* identities, which are the tokens they had at the time.  The module      *)
(* composes the handlers with the directory of names and credentials; a    *)
(* deletion there takes the requests, grants and blocks of the name along. *)
(*                                                                         *)
(* Time is left out: a request, a grant or a block with an expiry may run  *)
(* out at any moment.  What POST /grants/request looks at before it calls  *)
(* request_grant (a name; a shared room or an existing grant) it looks at  *)
(* in locked sections of their own; the shared room or grant is left out:  *)
(* rooms may be shared by anybody.                                         *)
(***************************************************************************)
EXTENDS Directory

CONSTANTS RequestSlot,   \* connection requests there is room for
          MaxGrants,     \* bound on the grants ever made
          Terms,         \* what the governor may ask for in a direct approval
          Consent,       \* the provenance "recipient-consent"
          Unnamed,       \* "", which a request records for a sender without a name
          Unlimited      \* no max_messages

\* opens: opens_reply_window; max: max_messages.
TermsType == [direction : {"symmetric", "a_to_b", "b_to_a"},
              mediation : {"bypass", "notify", "inspect"},
              max       : Nat \cup {Unlimited},
              opens     : BOOLEAN]

\* What a grant made through a request says.
DefaultTerms == [direction |-> "symmetric", mediation |-> "bypass",
                 max |-> Unlimited, opens |-> TRUE]

ASSUME GrantsAssumption ==
    /\ MaxGrants \in Nat
    /\ Terms \subseteq TermsType
    /\ Unlimited \notin Nat
    /\ Consent \notin Name \cup {None}
    /\ Unnamed \notin Name \cup {None, Consent}

VARIABLES asking,       \* who has a request, or several, past the check for a name
          requests,     \* HubInner.connection_requests
          grants,       \* TrustChain.grants, by number; numbers are never reused
          grantCount,   \* TrustChain.counter
          denials,      \* HubInner.denial_blocks: (identity, name) -> kind of block
          resolving     \* a direct approval between its two locked sections

grantVars == <<asking, requests, grants, grantCount, denials, resolving>>
vars      == <<directoryVars, grantVars>>

Request == [fromName : Name \cup {Unnamed}, toName : Name, fromId : Token, toId : Token,
            stage : {"governor", "recipient"}, approver : Name \cup {None, Consent},
            expired : BOOLEAN]

\* direct is history: was the grant made by POST /grants/approve?
Grant == [a : Token, b : Token,
          nameA : Name \cup {None, Unnamed}, nameB : Name \cup {None},
          by : Name \cup {Consent}, terms : TermsType, expired : BOOLEAN, direct : BOOLEAN]

\* A grant that is not there is not mistaken for one.
ASSUME GrantAssumption == None \notin Grant

Resolution == [by : Name, a : Token, b : Token,
               nameA : Name \cup {None}, nameB : Name \cup {None}]

GrantId == 1..MaxGrants

GrantsTypeOK ==
    /\ DirectoryTypeOK
    /\ asking \subseteq Token
    /\ requests \in [RequestSlot -> Request \cup {None}]
    /\ grants \in [GrantId -> Grant \cup {None}]
    /\ grantCount \in 0..MaxGrants
    /\ denials \in [Token \X Name -> {"none", "timed", "permanent"}]
    /\ resolving \in Resolution \cup {None}

GrantsInit ==
    /\ DirectoryInit
    /\ asking = {}
    /\ requests = [r \in RequestSlot |-> None]
    /\ grants = [i \in GrantId |-> None]
    /\ grantCount = 0
    /\ denials = [p \in Token \X Name |-> "none"]
    /\ resolving = None

Pending(r) == requests[r] # None

Blocked(t, n) == denials[<<t, n>>] # "none"

-----------------------------------------------------------------------------
(* POST /grants/request                                                    *)

\* Without a governor the request goes straight to the recipient.
InitialStage    == IF governor = None THEN "recipient" ELSE "governor"
InitialApprover == IF governor = None THEN Consent ELSE None

\* handle_grant_request sees that t speaks for a name, and lets go of the lock.
AskGrant(t) ==
    /\ Live(t)
    /\ ownName[t] # None
    /\ asking' = asking \cup {t}
    /\ UNCHANGED <<directoryVars, requests, grants, grantCount, denials, resolving>>

\* The last such request of t has been answered or refused.
AskEnds(t) ==
    /\ t \in asking
    /\ asking' = asking \ {t}
    /\ UNCHANGED <<directoryVars, requests, grants, grantCount, denials, resolving>>

\* May t, whose request got that far, ask for n?
MayRequest(t, n) ==
    /\ t \in asking
    /\ Live(t)
    /\ ~Blocked(t, n)
    /\ agents[n] # None

\* The name t speaks for by now.
FromName(t) == IF tokenToName[t] = None THEN Unnamed ELSE tokenToName[t]

IsFor(r, from, to) == Pending(r) /\ requests[r].fromName = from /\ requests[r].toName = to

RequestGrant(t, n, r) ==
    /\ MayRequest(t, n)
    /\ \A q \in RequestSlot : ~IsFor(q, FromName(t), n)
    /\ ~Pending(r)
    /\ requests' = [requests EXCEPT ![r] =
           [fromName |-> FromName(t), toName |-> n, fromId |-> t, toId |-> agents[n],
            stage |-> InitialStage, approver |-> InitialApprover, expired |-> FALSE]]
    /\ UNCHANGED <<directoryVars, asking, grants, grantCount, denials, resolving>>

\* (defect) The approver of the earlier round is kept.
RequestAgainSameApprover(t, n, r) ==
    /\ MayRequest(t, n)
    /\ IsFor(r, FromName(t), n)
    /\ requests[r].expired
    /\ requests' = [requests EXCEPT ![r].stage = InitialStage, ![r].expired = FALSE]
    /\ UNCHANGED <<directoryVars, asking, grants, grantCount, denials, resolving>>

\* The earlier request has run out: it starts again, with the identities it had.
RequestAgain(t, n, r) ==
    /\ MayRequest(t, n)
    /\ IsFor(r, FromName(t), n)
    /\ requests[r].expired
    /\ requests' = [requests EXCEPT ![r].stage = InitialStage,
                                    ![r].approver = InitialApprover,
                                    ![r].expired = FALSE]
    /\ UNCHANGED <<directoryVars, asking, grants, grantCount, denials, resolving>>

\* With the request_id of an earlier request of this sender, or of anybody when
\* neither had a name: it goes back to the governor, whether there is one or not.
Resubmit(t, n, r) ==
    /\ MayRequest(t, n)
    /\ Pending(r)
    /\ requests[r].fromName = FromName(t)
    /\ requests' = [requests EXCEPT ![r].stage = "governor", ![r].expired = FALSE]
    /\ UNCHANGED <<directoryVars, asking, grants, grantCount, denials, resolving>>

\* Half an hour passes.  Nothing looks at it but the next request.
RequestTimesOut(r) ==
    /\ Pending(r)
    /\ ~requests[r].expired
    /\ requests' = [requests EXCEPT ![r].expired = TRUE]
    /\ UNCHANGED <<directoryVars, asking, grants, grantCount, denials, resolving>>

-----------------------------------------------------------------------------
(* PATCH /grants/requests/{r}                                              *)

\* The governor, or the token the request was addressed to.  That the latter
\* may have been revoked, or have lost the name, is not looked at.
MayAnswer(t, r) == IsGovernor(t) \/ (Known(t) /\ t = requests[r].toId)

\* (defect) The governor's token is recorded where its name belongs.
GovernorApprovesByToken(t, r) ==
    /\ Pending(r)
    /\ requests[r].stage = "governor"
    /\ IsGovernor(t)
    /\ requests' = [requests EXCEPT ![r].stage = "recipient", ![r].approver = t,
                                    ![r].expired = FALSE]
    /\ UNCHANGED <<directoryVars, asking, grants, grantCount, denials, resolving>>

GovernorApproves(t, r) ==
    /\ Pending(r)
    /\ requests[r].stage = "governor"
    /\ IsGovernor(t)
    /\ requests' = [requests EXCEPT ![r].stage = "recipient",
                                    ![r].approver = tokenToName[t],
                                    ![r].expired = FALSE]
    /\ UNCHANGED <<directoryVars, asking, grants, grantCount, denials, resolving>>

\* (defect) The number is that of the first gap in the list.
AddGrantInGap(g) ==
    /\ grantCount < MaxGrants
    /\ grantCount' = grantCount + 1
    /\ \E i \in GrantId :
          /\ grants[i] = None
          /\ \A j \in GrantId : j < i => grants[j] # None
          /\ grants' = [grants EXCEPT ![i] = g]

\* TrustChain::approve_grant_req and create_consent_grant
AddGrant(g) ==
    /\ grantCount < MaxGrants
    /\ grantCount' = grantCount + 1
    /\ grants' = [grants EXCEPT ![grantCount + 1] = g]

Establish(t, r) ==
    LET q == requests[r] IN
    /\ Pending(r)
    /\ q.stage = "recipient"
    /\ MayAnswer(t, r)
    /\ q.approver # None
    /\ AddGrant([a |-> q.fromId, b |-> q.toId, nameA |-> q.fromName, nameB |-> q.toName,
                 by |-> q.approver, terms |-> DefaultTerms, expired |-> FALSE,
                 direct |-> FALSE])
    /\ requests' = [requests EXCEPT ![r] = None]
    /\ UNCHANGED <<directoryVars, asking, denials, resolving>>

DenyGrantRequest(t, r, kind) ==
    /\ Pending(r)
    /\ MayAnswer(t, r)
    /\ denials' = [denials EXCEPT ![<<requests[r].fromId, requests[r].toName>>] = kind]
    /\ requests' = [requests EXCEPT ![r] = None]
    /\ UNCHANGED <<directoryVars, asking, grants, grantCount, resolving>>

HoldGrantRequest(t, r) ==
    /\ Pending(r)
    /\ MayAnswer(t, r)
    /\ requests' = [requests EXCEPT ![r].stage = "governor"]
    /\ UNCHANGED <<directoryVars, asking, grants, grantCount, denials, resolving>>

-----------------------------------------------------------------------------
(* The governor's own decisions.                                           *)

\* POST /grants/approve resolves the names of two identities in one locked
\* section ...
ResolveParties(g, a, b) ==
    /\ IsGovernor(g)
    /\ resolving = None
    /\ resolving' = [by |-> tokenToName[g], a |-> a, b |-> b,
                     nameA |-> tokenToName[a], nameB |-> tokenToName[b]]
    /\ UNCHANGED <<directoryVars, asking, requests, grants, grantCount, denials>>

\* ... and makes the grant in another.
ApproveGrant(terms) ==
    /\ resolving # None
    /\ AddGrant([a |-> resolving.a, b |-> resolving.b, nameA |-> resolving.nameA,
                 nameB |-> resolving.nameB, by |-> resolving.by, terms |-> terms,
                 expired |-> FALSE, direct |-> TRUE])
    /\ resolving' = None
    /\ UNCHANGED <<directoryVars, asking, requests, denials>>

\* DELETE /grants/{i}
RevokeGrant(g, i) ==
    /\ IsGovernor(g)
    /\ grants[i] # None
    /\ grants' = [grants EXCEPT ![i] = None]
    /\ UNCHANGED <<directoryVars, asking, requests, grantCount, denials, resolving>>

\* POST /grants/block, POST /grants/unblock
BlockDirect(g, t, n, kind) ==
    /\ IsGovernor(g)
    /\ status[t] # "unminted"
    /\ denials' = [denials EXCEPT ![<<t, n>>] = kind]
    /\ UNCHANGED <<directoryVars, asking, requests, grants, grantCount, resolving>>

UnblockGrant(g, t, n) ==
    /\ IsGovernor(g)
    /\ Blocked(t, n)
    /\ denials' = [denials EXCEPT ![<<t, n>>] = "none"]
    /\ UNCHANGED <<directoryVars, asking, requests, grants, grantCount, resolving>>

\* An expiry passes.  An expired grant stays in the list.
GrantLapses(i) ==
    /\ grants[i] # None
    /\ ~grants[i].expired
    /\ grants' = [grants EXCEPT ![i].expired = TRUE]
    /\ UNCHANGED <<directoryVars, asking, requests, grantCount, denials, resolving>>

DenialLapses(t, n) ==
    /\ denials[<<t, n>>] = "timed"
    /\ denials' = [denials EXCEPT ![<<t, n>>] = "none"]
    /\ UNCHANGED <<directoryVars, asking, requests, grants, grantCount, resolving>>

-----------------------------------------------------------------------------
(* Deletions.                                                              *)

\* (defect) Only the requests made by the participant go.
PurgeRequestsFrom(n) ==
    requests' = [r \in RequestSlot |->
        IF Pending(r) /\ n = requests[r].fromName THEN None ELSE requests[r]]

PurgeRequests(n) ==
    requests' = [r \in RequestSlot |->
        IF Pending(r) /\ n \in {requests[r].fromName, requests[r].toName}
        THEN None ELSE requests[r]]

\* purge_grants_for
PurgeGrants(n) ==
    grants' = [i \in GrantId |->
        IF grants[i] # None /\ n \in {grants[i].nameA, grants[i].nameB}
        THEN None ELSE grants[i]]

\* purge_denial_blocks_for
PurgeDenials(n, identity) ==
    denials' = [p \in Token \X Name |->
        IF p[2] = n \/ p[1] = identity THEN "none" ELSE denials[p]]

\* Everything that refers to the participant n with the given identity.
Purge(n, identity) ==
    /\ PurgeRequests(n)
    /\ PurgeGrants(n)
    /\ PurgeDenials(n, identity)
    /\ UNCHANGED <<asking, grantCount, resolving>>

DeleteParticipant(g, n) ==
    /\ RevokeByName(g, n)
    /\ Purge(n, nameToToken[n])

DeleteIdentity(t) ==
    /\ DeleteSelf(t)
    /\ IF tokenToName[t] # None THEN Purge(tokenToName[t], t) ELSE UNCHANGED grantVars

-----------------------------------------------------------------------------
GrantStep ==
    \/ \E t \in Token : AskGrant(t) \/ AskEnds(t)
    \/ \E t \in Token, r \in RequestSlot :
          \/ \E n \in Name : RequestGrant(t, n, r) \/ RequestAgain(t, n, r) \/ Resubmit(t, n, r)
          \/ GovernorApproves(t, r)
          \/ Establish(t, r)
          \/ \E kind \in {"timed", "permanent"} : DenyGrantRequest(t, r, kind)
          \/ HoldGrantRequest(t, r)
    \/ \E r \in RequestSlot : RequestTimesOut(r)
    \/ \E g, a, b \in Token : ResolveParties(g, a, b)
    \/ \E terms \in Terms : ApproveGrant(terms)
    \/ \E i \in GrantId : GrantLapses(i) \/ \E g \in Token : RevokeGrant(g, i)
    \/ \E t \in Token, n \in Name :
          \/ DenialLapses(t, n)
          \/ \E g \in Token : UnblockGrant(g, t, n)
          \/ \E g \in Token, kind \in {"timed", "permanent"} : BlockDirect(g, t, n, kind)

DeletionStep ==
    \/ \E t \in Token : DeleteIdentity(t)
    \/ \E g \in Token, n \in Name : DeleteParticipant(g, n)

GrantsNext ==
    \/ GrantStep
    \/ DeletionStep
    \/ KeepingStep /\ UNCHANGED grantVars

GrantsSpec == GrantsInit /\ [][GrantsNext]_vars

-----------------------------------------------------------------------------
(* What the code promises.                                                 *)

\* Nothing outlives a participant: the parties of a pending request, and of a
\* grant made through one, are registered names; or the sender had no name, when
\* it gave up its name behind the handler's back, and then the name recorded is
\* "", which nobody has, and not the one given up.  (self_delete_identity and
\* revoke_by_name purge by name; request_grant resolves names when it is called,
\* not when the handler checks, and approve_grant_request much later uses what
\* it recorded.)
NothingOutlivesItsParties ==
    /\ \A r \in RequestSlot : Pending(r) =>
          {requests[r].fromName, requests[r].toName} \ {Unnamed} \subseteq identities
    /\ \A i \in GrantId : grants[i] # None /\ ~grants[i].direct =>
          {grants[i].nameA, grants[i].nameB} \ {Unnamed} \subseteq identities

\* Whatever became of the governor meanwhile, a request that waits for its
\* recipient records who approved it before, so the recipient's approval is
\* never answered with BAD_REQUEST (approve_grant_request, ok_or on
\* approving_governor).
RecipientStageHasApprover ==
    \A r \in RequestSlot : Pending(r) /\ requests[r].stage = "recipient" =>
        requests[r].approver # None

\* Numbers of grants are not handed out again: a grant that was revoked, or
\* purged with one of its parties, does not come back, with other parties or
\* the same (next_id, remove_grant, purge_grants_for).
GoneGrantsStayGone ==
    [][\A i \in GrantId : i <= grantCount /\ grants[i] = None => grants'[i] = None]_vars

\* The number of a grant was counted.
GrantsAreNumbered == \A i \in GrantId : grants[i] # None => i <= grantCount

\* What the proofs carry along.
GrantsInv ==
    /\ DirectoryInv
    /\ GrantsTypeOK
    /\ NothingOutlivesItsParties
    /\ RecipientStageHasApprover
    /\ GrantsAreNumbered

-----------------------------------------------------------------------------
(* What the repository says, and the code does not do.                     *)

\* src/src/trust.rs: deletion purges every grant of the deleted participant,
\* the ones the governor makes directly too.
DirectGrantsNameTheLiving ==
    \A i \in GrantId : grants[i] # None =>
        {grants[i].nameA, grants[i].nameB} \subseteq identities \cup {None, Unnamed}

\* src/src/http.rs, handle_grant_request: who has no name cannot request a grant.
RequestsAreNamed ==
    \A r \in RequestSlot : Pending(r) => requests[r].fromName # Unnamed
=============================================================================
