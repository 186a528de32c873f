----------------------------- MODULE Governance -----------------------------
(***************************************************************************)
(* How the governor flag moves: claims (granted at once, by election or by *)
(* the present governor), one-time transfer tokens, and the operator's     *)
(* reset (src/src/delivery.rs and the TrustChain of src/src/trust.rs).     *)
(*                                                                         *)
(* The module composes these handlers with the session handlers of module  *)
(* Sessions, whose state they read: who speaks for which name, which       *)
(* tokens are revoked, who has a stream.  Sessions leaves the appointment  *)
(* of a governor open (BecomeGovernor); this module says when it happens   *)
(* and implements that specification.                                      *)
(***************************************************************************)
EXTENDS Sessions

CONSTANTS ClaimSlot,      \* pending claims there is room for
          TransferSlot    \* pending transfer tokens there is room for

VARIABLES pendingClaims,     \* HubInner.pending_claims
          pendingTransfers   \* TrustChain.pending_transfers

govVars == <<pendingClaims, pendingTransfers>>
allVars == <<sessionVars, govVars>>

Claim == [token : Token, name : Name, kind : {"election", "transfer"},
          required : SUBSET Name, approved : SUBSET Name]

\* to = None: whoever presents the token may accept.
Transfer == [from : Name, to : Name \cup {None}]

GovernanceTypeOK ==
    /\ SessionsTypeOK
    /\ pendingClaims \in [ClaimSlot -> Claim \cup {None}]
    /\ pendingTransfers \in [TransferSlot -> Transfer \cup {None}]

GovernanceInit ==
    /\ SessionsInit
    /\ pendingClaims = [c \in ClaimSlot |-> None]
    /\ pendingTransfers = [x \in TransferSlot |-> None]

-----------------------------------------------------------------------------
(* POST /governors/claim                                                   *)

\* The other participants that are routed to and have a stream.
Voters(candidate) ==
    {n \in Name : /\ n # candidate
                  /\ agents[n] # None
                  /\ nameToToken[n] # None
                  /\ IsSseAlive(nameToToken[n])}

FileClaim(c, t, kind, required) ==
    /\ pendingClaims[c] = None
    /\ pendingClaims' = [pendingClaims EXCEPT ![c] =
           [token |-> t, name |-> tokenToName[t], kind |-> kind,
            required |-> required, approved |-> {}]]
    /\ UNCHANGED <<sessionVars, pendingTransfers>>

\* (defect) The claimant need not speak for a name.
ClaimTransferUnnamed(c, t) ==
    /\ governor # None
    /\ FileClaim(c, t, "transfer", {governor})

\* There is a governor, who will be asked.  Whether t has been revoked is not
\* looked at; it only has to speak for a name.
ClaimTransfer(c, t) ==
    /\ tokenToName[t] # None
    /\ governor # None
    /\ FileClaim(c, t, "transfer", {governor})

\* There is none, and others are connected: all of them will be asked.
ClaimElection(c, t) ==
    /\ tokenToName[t] # None
    /\ governor = None
    /\ Voters(tokenToName[t]) # {}
    /\ FileClaim(c, t, "election", Voters(tokenToName[t]))

\* There is none, and nobody to ask.
ClaimGranted(t) ==
    /\ governor = None
    /\ tokenToName[t] # None
    /\ Voters(tokenToName[t]) = {}
    /\ BecomeGovernor(t)
    /\ UNCHANGED govVars

-----------------------------------------------------------------------------
(* POST /governors/elections/{c}                                           *)

\* (defect) Any participant's vote counts.
MayVoteAnyone(t, c) ==
    /\ pendingClaims[c] # None
    /\ tokenToName[t] # None

\* May t vote on claim c?
MayVote(t, c) ==
    /\ pendingClaims[c] # None
    /\ tokenToName[t] \in pendingClaims[c].required
    /\ pendingClaims[c].kind = "transfer" => tokenToName[t] = governor

\* (defect) The candidate is not looked at again; only its name is.
CandidateAssumedLive(c) == TRUE
CandidateNameStillHeld(c) == nameToToken[pendingClaims[c].name] # None

CandidateStillLive(c) ==
    /\ Live(pendingClaims[c].token)
    /\ tokenToName[pendingClaims[c].token] = pendingClaims[c].name

WithVote(t, c) == pendingClaims[c].approved \cup {tokenToName[t]}

RejectClaim(t, c) ==
    /\ MayVote(t, c)
    /\ pendingClaims' = [pendingClaims EXCEPT ![c] = None]
    /\ UNCHANGED <<sessionVars, pendingTransfers>>

\* A vote that leaves others outstanding.
ApproveWaiting(t, c) ==
    /\ MayVote(t, c)
    /\ ~(pendingClaims[c].required \subseteq WithVote(t, c))
    /\ pendingClaims' = [pendingClaims EXCEPT ![c].approved = WithVote(t, c)]
    /\ UNCHANGED <<sessionVars, pendingTransfers>>

\* The last vote: the flag is set on the candidate if it is still there.
\* That a governor may have been installed meanwhile is not looked at.
ApproveEstablishes(t, c) ==
    /\ MayVote(t, c)
    /\ pendingClaims[c].required \subseteq WithVote(t, c)
    /\ CandidateStillLive(c)
    /\ governor' = pendingClaims[c].name
    /\ pendingClaims' = [pendingClaims EXCEPT ![c] = None]
    /\ UNCHANGED <<tokenVars, bindingVars, registry, streamVars, pendingTransfers>>

\* The last vote comes too late for the candidate.
ApproveTooLate(t, c) ==
    /\ MayVote(t, c)
    /\ pendingClaims[c].required \subseteq WithVote(t, c)
    /\ ~CandidateStillLive(c)
    /\ pendingClaims' = [pendingClaims EXCEPT ![c] = None]
    /\ UNCHANGED <<sessionVars, pendingTransfers>>

\* Somebody answers a claim after its half hour.
ClaimExpires(c) ==
    /\ pendingClaims[c] # None
    /\ pendingClaims' = [pendingClaims EXCEPT ![c] = None]
    /\ UNCHANGED <<sessionVars, pendingTransfers>>

-----------------------------------------------------------------------------
(* Transfer tokens and the operator's reset.                               *)

\* POST /governors/transfer
TransferGovernor(x, g, to) ==
    /\ ValidateGovernorToken(g)
    /\ pendingTransfers[x] = None
    /\ pendingTransfers' = [pendingTransfers EXCEPT ![x] =
           [from |-> tokenToName[g], to |-> to]]
    /\ UNCHANGED <<sessionVars, pendingClaims>>

\* The bearer t presents the transfer token x and x is meant for it.  (The
\* handler turns the governor's own bearer away in an earlier locked section;
\* by the time of this one t may have become governor.)
Presents(t, x) ==
    /\ Live(t)
    /\ tokenToName[t] # None
    /\ pendingTransfers[x] # None
    /\ pendingTransfers[x].to \in {None, tokenToName[t]}

\* POST /governors/accept-transfer
AcceptGovernorTransfer(t, x) ==
    /\ Presents(t, x)
    /\ pendingTransfers[x].from = governor
    /\ governor' = tokenToName[t]
    /\ pendingTransfers' = [pendingTransfers EXCEPT ![x] = None]
    /\ UNCHANGED <<tokenVars, bindingVars, registry, streamVars, pendingClaims>>

\* The issuer has lost the flag: the token is void.
AcceptStaleTransfer(t, x) ==
    /\ Presents(t, x)
    /\ pendingTransfers[x].from # governor
    /\ pendingTransfers' = [pendingTransfers EXCEPT ![x] = None]
    /\ UNCHANGED <<sessionVars, pendingClaims>>

\* POST /admin/governor/reset
ResetGovernor ==
    /\ governor' = None
    /\ pendingTransfers' = [x \in TransferSlot |-> None]
    /\ UNCHANGED <<tokenVars, bindingVars, registry, streamVars, pendingClaims>>

-----------------------------------------------------------------------------
GovernanceStep ==
    \/ \E t \in Token : ClaimGranted(t)
    \/ \E t \in Token, c \in ClaimSlot :
          \/ ClaimTransfer(c, t)
          \/ ClaimElection(c, t)
          \/ RejectClaim(t, c)
          \/ ApproveWaiting(t, c)
          \/ ApproveEstablishes(t, c)
          \/ ApproveTooLate(t, c)
    \/ \E c \in ClaimSlot : ClaimExpires(c)
    \/ \E x \in TransferSlot, g \in Token, to \in Name \cup {None} : TransferGovernor(x, g, to)
    \/ \E t \in Token, x \in TransferSlot :
          AcceptGovernorTransfer(t, x) \/ AcceptStaleTransfer(t, x)
    \/ ResetGovernor

GovernanceNext ==
    \/ GovernanceStep
    \/ SessionStep /\ UNCHANGED govVars

GovernanceSpec == GovernanceInit /\ [][GovernanceNext]_allVars

-----------------------------------------------------------------------------
(* Correctness.                                                            *)

\* The flag is never put on a name nobody answers for: whoever becomes
\* governor, by whichever path and however long the claim or the transfer
\* token has been pending, is a registered name some token speaks for.  (A
\* candidate that deleted itself, or lost its name to a rebind, while its
\* election was running is not installed.)
InstalledGovernorIsHeld ==
    governor' \notin {None, governor} =>
        /\ governor' \in identities
        /\ \E t \in Token : tokenToName[t] = governor'
NoDanglingInstallation == [][InstalledGovernorIsHeld]_allVars

\* A claim installs the very token that filed it: if the candidate's name
\* passed to another token meanwhile, that token does not inherit the votes.
\* And the voters of a claim were all asked at its start: nobody's vote counts
\* twice or for somebody else.
VotesAreForTheClaimant ==
    \A c \in ClaimSlot : pendingClaims[c] # None =>
        /\ pendingClaims[c].approved \subseteq pendingClaims[c].required
        /\ pendingClaims[c].approved # pendingClaims[c].required
        /\ pendingClaims[c].kind = "election" =>
              pendingClaims[c].name \notin pendingClaims[c].required
ElectedIsTheClaimant ==
    \A c \in ClaimSlot :
        pendingClaims[c] # None /\ pendingClaims'[c] = None
            /\ governor' \notin {None, governor} =>
        /\ governor' = pendingClaims[c].name
        /\ tokenToName[pendingClaims[c].token] = governor'
        /\ nameToToken[governor'] = pendingClaims[c].token
OnlyClaimantIsElected == [][ElectedIsTheClaimant]_allVars

-----------------------------------------------------------------------------
(* What the documentation says and the code does not do.                   *)

\* "A governor already exists: the current governor must approve": a governor
\* is replaced only through a transfer it issued or a claim put to it.
ReplacedGovernorWasAsked ==
    governor # None /\ governor' \notin {None, governor} =>
        \/ \E x \in TransferSlot : pendingTransfers[x] # None /\ pendingTransfers[x].from = governor
        \/ \E c \in ClaimSlot : pendingClaims[c] # None /\ governor \in pendingClaims[c].required
GovernorApprovesSuccessor == [][ReplacedGovernorWasAsked]_allVars
=============================================================================
