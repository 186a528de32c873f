----------------------------- MODULE Messaging -----------------------------
(***************************************************************************)
(* Messaging: which messages the hub accepts for which recipient           *)
(* (send and resolve_mediation of src/src/delivery.rs, the grant lookup of *)
(* src/src/trust.rs).                                                      *)
(*                                                                         *)
(* A message goes out under the best usable grant that covers sender and   *)
(* recipient.  A bypass or notify grant delivers at once and may open a    *)
(* reply window for the recipient; an inspect grant holds the message for  *)
(* the governor who made the grant.  Without a usable grant, an open reply *)
(* window carries one message, and opens one for the way back.             *)
(*                                                                         *)
(* Windows and holds are kept by name.  The queue a delivered message goes *)
(* to is module Mailbox; here a delivery is its effect on budgets and      *)
(* windows.  Time is left out: a window or a hold may run out at any       *)
(* moment.                                                                 *)
(***************************************************************************)
EXTENDS Grants

CONSTANTS HoldSlot,     \* messages that can be held at a time
          MaxWindows,   \* bound on the windows of one direction of a pair
          MaxUses       \* bound on the messages counted against one grant

ASSUME MessagingAssumption == MaxWindows \in Nat /\ MaxUses \in Nat

VARIABLES used,        \* Grant.messages_used
          windows,     \* HubInner.reply_windows: <<who may reply, to whom>> -> how many
          holds,       \* HubInner.mediation_holds
          introduced   \* history: <<from, to>> delivered under a grant that opens windows

messagingVars == <<used, windows, holds, introduced>>
allVars       == <<vars, messagingVars>>

Hold == [from : Name, to : Name, grant : GrantId]

MessagingTypeOK ==
    /\ GrantsTypeOK
    /\ used \in [GrantId -> Nat]
    /\ windows \in [Name \X Name -> Nat]
    /\ holds \in [HoldSlot -> Hold \cup {None}]
    /\ introduced \in SUBSET (Name \X Name)

MessagingInit ==
    /\ GrantsInit
    /\ used = [i \in GrantId |-> 0]
    /\ windows = [p \in Name \X Name |-> 0]
    /\ holds = [h \in HoldSlot |-> None]
    /\ introduced = {}

-----------------------------------------------------------------------------
(* check_grant_directed_with_names                                         *)

\* Do the ends a and b of a grant match sender x and recipient y?
Permits(direction, a, b, x, y) ==
    \/ direction # "b_to_a" /\ a = x /\ b = y
    \/ direction # "a_to_b" /\ a = y /\ b = x

\* By name when the grant has both names, else by the identities of the time.
Covers(i, t, n) ==
    LET g == grants[i] IN
    IF g.nameA # None /\ g.nameB # None
    THEN Permits(g.terms.direction, g.nameA, g.nameB, tokenToName[t], n)
    ELSE Permits(g.terms.direction, g.a, g.b, t, agents[n])

\* (defect) One message too many.
ExhaustedLate(i) == grants[i].terms.max # Unlimited /\ used[i] > grants[i].terms.max

Exhausted(i) == grants[i].terms.max # Unlimited /\ used[i] >= grants[i].terms.max

Usable(t, n) ==
    {i \in GrantId : grants[i] # None /\ Covers(i, t, n) /\ ~grants[i].expired /\ ~Exhausted(i)}

\* A directed grant before a symmetric one, then the oldest.
Better(i, j) ==
    LET directed(k) == grants[k].terms.direction # "symmetric" IN
    \/ directed(i) /\ ~directed(j)
    \/ directed(i) = directed(j) /\ i <= j

BestGrant(i, t, n) == i \in Usable(t, n) /\ \A j \in Usable(t, n) : Better(i, j)

-----------------------------------------------------------------------------
(* POST /messages/send                                                     *)

MaySend(t, n) ==
    /\ Live(t)
    /\ tokenToName[t] # None
    /\ ~Blocked(t, n)
    /\ agents[n] # None

\* consume_grant_message: only a grant with a budget counts.
Consume(i) ==
    /\ used[i] < MaxUses
    /\ used' = [used EXCEPT ![i] = IF grants[i].terms.max = Unlimited THEN @ ELSE @ + 1]

\* Delivered under grant i: to may answer from once.
OpenWindow(i, from, to) ==
    IF grants[i].terms.opens
    THEN /\ windows[<<to, from>>] < MaxWindows
         /\ windows' = [windows EXCEPT ![<<to, from>>] = @ + 1]
         /\ introduced' = introduced \cup {<<from, to>>}
    ELSE UNCHANGED <<windows, introduced>>

SendByGrant(t, n, i) ==
    /\ MaySend(t, n)
    /\ BestGrant(i, t, n)
    /\ grants[i].terms.mediation # "inspect"
    /\ Consume(i)
    /\ OpenWindow(i, tokenToName[t], n)
    /\ UNCHANGED <<vars, holds>>

\* Held only while the governor who made the grant still is the governor.
SendHeld(t, n, h, i) ==
    /\ MaySend(t, n)
    /\ BestGrant(i, t, n)
    /\ grants[i].terms.mediation = "inspect"
    /\ grants[i].by = governor
    /\ holds[h] = None
    /\ holds' = [holds EXCEPT ![h] = [from |-> tokenToName[t], to |-> n, grant |-> i]]
    /\ UNCHANGED <<vars, used, windows, introduced>>

\* (defect) Whoever once had a message from n may answer, again and again.
SendReplyAnyway(t, n) ==
    LET from == tokenToName[t] IN
    /\ MaySend(t, n)
    /\ Usable(t, n) = {}
    /\ windows[<<n, from>>] < MaxWindows
    /\ windows' = [windows EXCEPT ![<<from, n>>] = @ - 1, ![<<n, from>>] = @ + 1]
    /\ UNCHANGED <<vars, used, holds, introduced>>

\* (defect) The window is looked up the wrong way round and nothing is used up.
SendReplyUncounted(t, n) ==
    LET from == tokenToName[t] IN
    /\ MaySend(t, n)
    /\ Usable(t, n) = {}
    /\ windows[<<n, from>>] < MaxWindows
    /\ windows' = [windows EXCEPT ![<<n, from>>] = @ + 1]
    /\ UNCHANGED <<vars, used, holds, introduced>>

SendReply(t, n) ==
    LET from == tokenToName[t] IN
    /\ MaySend(t, n)
    /\ Usable(t, n) = {}
    /\ windows[<<from, n>>] > 0
    /\ windows[<<n, from>>] < MaxWindows
    /\ windows' = [windows EXCEPT ![<<from, n>>] = @ - 1, ![<<n, from>>] = @ + 1]
    /\ UNCHANGED <<vars, used, holds, introduced>>

-----------------------------------------------------------------------------
(* POST /governors/mediate by the governor g.                              *)

\* A grant that was revoked or purged meanwhile takes its held messages along.
MayResolve(g, h) ==
    /\ IsGovernor(g)
    /\ holds[h] # None
    /\ grants[holds[h].grant] # None
    /\ tokenToName[g] = grants[holds[h].grant].by

\* Approved, perhaps modified.  The budget is charged even when the recipient
\* is no longer routed to and nothing is delivered.
DeliverHeld(g, h) ==
    LET m == holds[h] IN
    /\ MayResolve(g, h)
    /\ Consume(m.grant)
    /\ IF agents[m.to] # None
       THEN OpenWindow(m.grant, m.from, m.to)
       ELSE UNCHANGED <<windows, introduced>>
    /\ holds' = [holds EXCEPT ![h] = None]
    /\ UNCHANGED vars

BlockHeld(g, h) ==
    /\ MayResolve(g, h)
    /\ holds' = [holds EXCEPT ![h] = None]
    /\ UNCHANGED <<vars, used, windows, introduced>>

HoldExpires(h) ==
    /\ holds[h] # None
    /\ holds' = [holds EXCEPT ![h] = None]
    /\ UNCHANGED <<vars, used, windows, introduced>>

WindowExpires(p) ==
    /\ windows[p] > 0
    /\ windows' = [windows EXCEPT ![p] = @ - 1]
    /\ UNCHANGED <<vars, used, holds, introduced>>

-----------------------------------------------------------------------------
MessagingStep ==
    \/ \E t \in Token, n \in Name :
          \/ SendReply(t, n)
          \/ \E i \in GrantId : SendByGrant(t, n, i) \/ \E h \in HoldSlot : SendHeld(t, n, h, i)
    \/ \E g \in Token, h \in HoldSlot : DeliverHeld(g, h) \/ BlockHeld(g, h)
    \/ \E h \in HoldSlot : HoldExpires(h)
    \/ \E p \in Name \X Name : WindowExpires(p)

MessagingNext ==
    \/ MessagingStep
    \/ GrantsNext /\ UNCHANGED messagingVars

MessagingSpec == MessagingInit /\ [][MessagingNext]_allVars
-----------------------------------------------------------------------------
(* What the code promises.                                                 *)

\* However sends interleave, a grant that delivers at once carries no more
\* messages than its max_messages (check_grant_directed_with_names and
\* consume_grant_message under one lock).  Inspected grants are left out: there
\* send checks the budget and resolve_mediation charges it, and messages held in
\* between are released beyond it.
BudgetIsKept ==
    \A i \in GrantId :
        /\ grants[i] # None
        /\ grants[i].terms.max # Unlimited
        /\ grants[i].terms.mediation # "inspect"
        => used[i] <= grants[i].terms.max

\* Nobody writes to a stranger: a reply window, and so a message no grant
\* covers, exists only between two names of which one has written to the other
\* under a grant that opens windows, however long they went back and forth.
\* (send, resolve_mediation; a directed grant that opens no window leaves the
\* other side silent.)
NoColdContact ==
    \A p \in Name \X Name : windows[p] > 0 =>
        p \in introduced \/ <<p[2], p[1]>> \in introduced

\* What the governor releases was sent under the grant it is charged to: the
\* grant is still an inspect grant, made by a governor, between those two
\* names (send records the grant's number, resolve_mediation looks it up).
HeldMailMatchesItsGrant ==
    \A h \in HoldSlot : holds[h] # None =>
        LET g == grants[holds[h].grant] IN
        /\ holds[h].grant <= grantCount
        /\ g # None =>
              /\ g.terms.mediation = "inspect"
              /\ g.by # Consent
              /\ g.nameA # None /\ g.nameB # None =>
                    Permits(g.terms.direction, g.nameA, g.nameB, holds[h].from, holds[h].to)

\* Nothing is counted against a grant before it is made.
CountedGrantsExist == \A i \in GrantId : i > grantCount => used[i] = 0

\* What the proofs carry along, besides GrantsInv.
MessagingInv ==
    /\ MessagingTypeOK
    /\ BudgetIsKept
    /\ NoColdContact
    /\ HeldMailMatchesItsGrant
    /\ CountedGrantsExist
=============================================================================
