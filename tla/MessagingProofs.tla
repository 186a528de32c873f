-------------------------- MODULE MessagingProofs --------------------------
(***************************************************************************)
(* Proofs about module Messaging, for any sets of tokens, names and slots, *)
(* any terms and any bounds.                                               *)
(*                                                                         *)
(* The steps of Messaging leave the directory and the grants alone, so     *)
(* Messaging implements Grants and GrantsInv holds here too.  What is left *)
(* to show is that the grants' own steps do not disturb MessagingInv: a    *)
(* grant keeps its terms for life, and a new one starts with nothing       *)
(* counted against it (CountedGrantsExist).                                *)
(***************************************************************************)
EXTENDS Messaging, GrantsProofs

(* Sending never grants, revokes or rebinds anything.                      *)
THEOREM MessagingImplementsGrants == MessagingSpec => GrantsSpec
<1>1. MessagingInit => GrantsInit
  BY DEF MessagingInit
<1>2. ASSUME [MessagingNext]_allVars
      PROVE  [GrantsNext]_vars
  <2>1. CASE MessagingStep
    BY <2>1 DEF MessagingStep, SendByGrant, SendReply, SendHeld, DeliverHeld, BlockHeld,
                HoldExpires, WindowExpires
  <2>2. CASE GrantsNext
    BY <2>2
  <2>3. CASE UNCHANGED allVars
    BY <2>3 DEF allVars
  <2> QED
    BY <1>2, <2>1, <2>2, <2>3 DEF MessagingNext
<1> QED
  BY <1>1, <1>2, PTL DEF MessagingSpec, GrantsSpec

-----------------------------------------------------------------------------
(* A grant keeps its parties and terms until it is gone, and is counted.   *)
LEMMA GrantsKeepTheirTerms ==
    ASSUME GrantsInv, [GrantsNext]_vars
    PROVE  /\ grantCount' \in Nat /\ grantCount <= grantCount'
           /\ \A i \in GrantId : i <= grantCount /\ grants'[i] # None =>
                 /\ grants[i] # None
                 /\ grants'[i].terms = grants[i].terms
                 /\ grants'[i].by = grants[i].by
                 /\ grants'[i].nameA = grants[i].nameA
                 /\ grants'[i].nameB = grants[i].nameB
<1> USE GrantsAssumption DEF GrantsInv, GrantsTypeOK, GrantId
<1> DEFINE Kept == /\ grantCount' \in Nat /\ grantCount <= grantCount'
                   /\ \A i \in GrantId : i <= grantCount /\ grants'[i] # None =>
                         /\ grants[i] # None
                         /\ grants'[i].terms = grants[i].terms
                         /\ grants'[i].by = grants[i].by
                         /\ grants'[i].nameA = grants[i].nameA
                         /\ grants'[i].nameB = grants[i].nameB
<1>1. ASSUME NEW g, AddGrant(g)
      PROVE  Kept
  BY <1>1 DEF AddGrant
<1>2. ASSUME UNCHANGED <<grants, grantCount>>
      PROVE  Kept
  BY <1>2
<1>3. ASSUME NEW g \in Token, NEW i \in GrantId, RevokeGrant(g, i)
      PROVE  Kept
  BY <1>3 DEF RevokeGrant
<1>4. ASSUME NEW i \in GrantId, GrantLapses(i)
      PROVE  Kept
  <2> DEFINE g == [grants[i] EXCEPT !.expired = TRUE]
  <2>1. grants[i] \in Grant /\ grants[i] # None
    BY <1>4 DEF GrantLapses
  <2>2. /\ g.terms = grants[i].terms
        /\ g.by = grants[i].by
        /\ g.nameA = grants[i].nameA
        /\ g.nameB = grants[i].nameB
    BY <2>1 DEF Grant
  <2>3. grants' = [grants EXCEPT ![i] = g] /\ grantCount' = grantCount
    BY <1>4 DEF GrantLapses
  <2> HIDE DEF g
  <2> QED
    BY <2>1, <2>2, <2>3
<1>5. CASE GrantStep
  <2>1. CASE \E t \in Token, r \in RequestSlot : Establish(t, r)
    BY <1>1, <2>1 DEF Establish
  <2>2. CASE \E terms \in Terms : ApproveGrant(terms)
    BY <1>1, <2>2 DEF ApproveGrant
  <2>3. CASE \E i \in GrantId : GrantLapses(i) \/ \E g \in Token : RevokeGrant(g, i)
    BY <1>3, <1>4, <2>3
  <2>4. CASE UNCHANGED <<grants, grantCount>>
    BY <1>2, <2>4
  <2> HIDE DEF Kept
  <2> QED
    BY <1>5, <2>1, <2>2, <2>3, <2>4, GrantStepTouches DEF GrantsTouched
<1>6. CASE DeletionStep
  BY <1>6 DEF DeletionStep, DeleteParticipant, DeleteIdentity, Purge, PurgeGrants, grantVars
<1>7. CASE KeepingStep /\ UNCHANGED grantVars
  BY <1>2, <1>7 DEF grantVars
<1>8. CASE UNCHANGED vars
  BY <1>2, <1>8 DEF vars, grantVars
<1> QED
  BY <1>5, <1>6, <1>7, <1>8 DEF GrantsNext

(* Nothing was sent yet.                                                   *)
LEMMA MessagingInitInv == MessagingInit => MessagingInv
BY GrantsInitInv, GrantsAssumption, MessagingAssumption
   DEF MessagingInit, MessagingInv, MessagingTypeOK, GrantsInv, GrantsInit, BudgetIsKept,
       NoColdContact, HeldMailMatchesItsGrant, CountedGrantsExist, GrantId

(* The steps of the grants leave what was sent as it is.                   *)
LEMMA GrantsNextKeepsMessaging ==
    ASSUME MessagingInv, GrantsInv, GrantsInv', [GrantsNext]_vars, UNCHANGED messagingVars
    PROVE  MessagingInv'
<1> USE GrantsAssumption DEF MessagingInv, MessagingTypeOK, messagingVars, GrantId
<1>0. grantCount \in Nat /\ GrantsTypeOK' /\ GrantsTypeOK
  BY DEF GrantsInv, GrantsTypeOK
<1>1. MessagingTypeOK'
  BY <1>0
<1>2. CountedGrantsExist'
  BY <1>0, GrantsKeepTheirTerms DEF CountedGrantsExist
<1>3. BudgetIsKept'
  <2> SUFFICES ASSUME NEW i \in GrantId, grants'[i] # None,
                      grants'[i].terms.max # Unlimited, grants'[i].terms.mediation # "inspect"
               PROVE  used[i] <= grants'[i].terms.max
    BY DEF BudgetIsKept
  <2>1. CASE i <= grantCount
    BY <1>0, <2>1, GrantsKeepTheirTerms DEF BudgetIsKept
  <2>2. CASE i > grantCount
    <3>1. used[i] = 0
      BY <2>2 DEF CountedGrantsExist
    <3>2. grants'[i].terms.max \in Nat
      BY <1>0 DEF GrantsTypeOK, Grant, TermsType
    <3> QED
      BY <3>1, <3>2
  <2> QED
    BY <1>0, <2>1, <2>2
<1>4. NoColdContact'
  BY DEF NoColdContact
<1>5. HeldMailMatchesItsGrant'
  <2> SUFFICES ASSUME NEW h \in HoldSlot, holds[h] # None
               PROVE  LET g == grants'[holds[h].grant] IN
                      /\ holds[h].grant <= grantCount'
                      /\ g # None =>
                            /\ g.terms.mediation = "inspect"
                            /\ g.by # Consent
                            /\ g.nameA # None /\ g.nameB # None =>
                                  Permits(g.terms.direction, g.nameA, g.nameB,
                                          holds[h].from, holds[h].to)
    BY DEF HeldMailMatchesItsGrant, Permits
  <2>1. holds[h].grant \in GrantId /\ holds[h].grant <= grantCount
    BY DEF Hold, HeldMailMatchesItsGrant
  <2> DEFINE k == holds[h].grant
  <2>2. /\ k <= grantCount'
        /\ grants'[k] # None =>
              /\ grants[k] # None
              /\ grants'[k].terms = grants[k].terms
              /\ grants'[k].by = grants[k].by
              /\ grants'[k].nameA = grants[k].nameA
              /\ grants'[k].nameB = grants[k].nameB
    <3>1. k \in GrantId /\ k \in Nat
      BY <2>1
    <3> HIDE DEF k
    <3> QED
      BY <1>0, <2>1, <3>1, GrantsKeepTheirTerms DEF k
  <2> QED
    BY <2>1, <2>2 DEF HeldMailMatchesItsGrant
<1> QED
  BY <1>1, <1>2, <1>3, <1>4, <1>5

-----------------------------------------------------------------------------
(* Counting one message against grant i.                                   *)
LEMMA ConsumeKeepsCounts ==
    ASSUME MessagingInv, GrantsInv, NEW i \in GrantId, grants[i] # None, Consume(i),
           UNCHANGED vars,
           grants[i].terms.mediation = "inspect" \/ ~Exhausted(i)
    PROVE  used' \in [GrantId -> Nat] /\ BudgetIsKept' /\ CountedGrantsExist'
<1> USE GrantsAssumption, MessagingAssumption
    DEF MessagingInv, MessagingTypeOK, GrantsInv, GrantsTypeOK, GrantId, Consume, vars, grantVars
<1>1. used' \in [GrantId -> Nat]
  OBVIOUS
<1>2. i <= grantCount
  BY DEF GrantsAreNumbered
<1>3. CountedGrantsExist'
  BY <1>2 DEF CountedGrantsExist
<1>4. grants[i].terms.max \in Nat \cup {Unlimited}
  BY DEF Grant, TermsType
<1>5. BudgetIsKept'
  BY <1>4 DEF BudgetIsKept, Exhausted
<1> QED
  BY <1>1, <1>3, <1>5

(* Opening a window after a delivery introduces the two.                   *)
LEMMA OpenWindowKeepsContact ==
    ASSUME MessagingInv, NEW i \in GrantId, NEW from \in Name, NEW to \in Name,
           OpenWindow(i, from, to)
    PROVE  /\ windows' \in [Name \X Name -> Nat]
           /\ introduced' \in SUBSET (Name \X Name)
           /\ NoColdContact'
<1> USE DEF MessagingInv, MessagingTypeOK, OpenWindow
<1>1. windows' \in [Name \X Name -> Nat] /\ introduced' \in SUBSET (Name \X Name)
  OBVIOUS
<1>2. NoColdContact'
  <2> SUFFICES ASSUME NEW p \in Name \X Name, windows'[p] > 0
               PROVE  p \in introduced' \/ <<p[2], p[1]>> \in introduced'
    BY DEF NoColdContact
  <2>1. introduced \subseteq introduced'
    OBVIOUS
  <2>2. CASE windows[p] > 0
    BY <2>1, <2>2 DEF NoColdContact
  <2>3. CASE ~(windows[p] > 0)
    <3>1. p = <<to, from>> /\ <<from, to>> \in introduced'
      BY <2>3
    <3> QED
      BY <3>1
  <2> QED
    BY <2>2, <2>3
<1> QED
  BY <1>1, <1>2

(* Every message, held message and window preserves MessagingInv.          *)
LEMMA MessagingStepKeepsInv ==
    ASSUME MessagingInv, GrantsInv, MessagingStep
    PROVE  MessagingInv'
<1> USE GrantsAssumption, DirectoryAssumption, MessagingAssumption
<1>0. /\ MessagingTypeOK /\ BudgetIsKept /\ NoColdContact /\ HeldMailMatchesItsGrant
      /\ CountedGrantsExist /\ GrantsTypeOK /\ DirectoryTypeOK
  BY DEF MessagingInv, GrantsInv, GrantsTypeOK
<1> DEFINE Typed == /\ used' \in [GrantId -> Nat]
                    /\ windows' \in [Name \X Name -> Nat]
                    /\ holds' \in [HoldSlot -> Hold \cup {None}]
                    /\ introduced' \in SUBSET (Name \X Name)
           Kept == /\ UNCHANGED vars /\ Typed /\ BudgetIsKept' /\ NoColdContact'
                   /\ HeldMailMatchesItsGrant' /\ CountedGrantsExist'
<1>1. ASSUME NEW t \in Token, NEW n \in Name, NEW i \in GrantId, SendByGrant(t, n, i)
      PROVE  Kept
  <2>1. tokenToName[t] \in Name
    BY <1>0, <1>1 DEF SendByGrant, MaySend, DirectoryTypeOK
  <2>2. grants[i] # None /\ ~Exhausted(i)
    BY <1>1 DEF SendByGrant, BestGrant, Usable
  <2>3. used' \in [GrantId -> Nat] /\ BudgetIsKept' /\ CountedGrantsExist'
    BY <1>1, <2>2, ConsumeKeepsCounts DEF SendByGrant
  <2>4. /\ windows' \in [Name \X Name -> Nat]
        /\ introduced' \in SUBSET (Name \X Name)
        /\ NoColdContact'
    BY <1>1, <2>1, OpenWindowKeepsContact DEF SendByGrant
  <2> QED
    BY <1>0, <1>1, <2>3, <2>4
       DEF SendByGrant, MessagingTypeOK, HeldMailMatchesItsGrant, Permits, vars, grantVars
<1>2. ASSUME NEW t \in Token, NEW n \in Name, SendReply(t, n)
      PROVE  Kept
  <2> DEFINE from == tokenToName[t]
  <2>1. from \in Name
    BY <1>0, <1>2 DEF SendReply, MaySend, DirectoryTypeOK
  <2>2. windows' \in [Name \X Name -> Nat]
    BY <1>0, <1>2, <2>1 DEF SendReply, MessagingTypeOK
  <2>3. <<from, n>> \in introduced \/ <<n, from>> \in introduced
    BY <1>0, <1>2, <2>1 DEF SendReply, NoColdContact
  <2>4. \A p \in Name \X Name : windows'[p] > 0 => windows[p] > 0 \/ p = <<n, from>>
    BY <1>0, <1>2, <2>1 DEF SendReply, MessagingTypeOK
  <2>5. NoColdContact'
    BY <1>0, <1>2, <2>3, <2>4 DEF SendReply, NoColdContact
  <2> QED
    BY <1>0, <1>2, <2>2, <2>5
       DEF SendReply, MessagingTypeOK, BudgetIsKept, HeldMailMatchesItsGrant, Permits,
           CountedGrantsExist, vars, grantVars
<1>3. ASSUME NEW t \in Token, NEW n \in Name, NEW i \in GrantId, NEW h \in HoldSlot,
             SendHeld(t, n, h, i)
      PROVE  Kept
  <2> DEFINE m == [from |-> tokenToName[t], to |-> n, grant |-> i]
  <2>1. m \in Hold
    BY <1>0, <1>3 DEF SendHeld, MaySend, DirectoryTypeOK, Hold
  <2>2. grants[i] # None /\ Covers(i, t, n)
    BY <1>3 DEF SendHeld, BestGrant, Usable
  <2>3. i <= grantCount
    BY <2>2 DEF GrantsInv, GrantsAreNumbered
  <2>4. grants[i].by # Consent
    BY <1>0, <1>3 DEF SendHeld, DirectoryTypeOK
  <2>5. holds' = [holds EXCEPT ![h] = m] /\ UNCHANGED vars
    BY <1>3 DEF SendHeld
  <2>6. HeldMailMatchesItsGrant'
    <3> SUFFICES ASSUME NEW k \in HoldSlot, holds'[k] # None
                 PROVE  LET g == grants[holds'[k].grant] IN
                        /\ holds'[k].grant <= grantCount
                        /\ g # None =>
                              /\ g.terms.mediation = "inspect"
                              /\ g.by # Consent
                              /\ g.nameA # None /\ g.nameB # None =>
                                    Permits(g.terms.direction, g.nameA, g.nameB,
                                            holds'[k].from, holds'[k].to)
      BY <2>5 DEF HeldMailMatchesItsGrant, Permits, vars, grantVars
    <3>1. CASE k = h
      BY <1>0, <1>3, <2>2, <2>3, <2>4, <2>5, <3>1 DEF SendHeld, Covers, MessagingTypeOK
    <3>2. CASE k # h
      BY <1>0, <2>5, <3>2 DEF HeldMailMatchesItsGrant, MessagingTypeOK
    <3> QED
      BY <3>1, <3>2
  <2> QED
    BY <1>0, <1>3, <2>1, <2>5, <2>6
       DEF SendHeld, MessagingTypeOK, BudgetIsKept, NoColdContact, CountedGrantsExist, vars,
           grantVars
<1>4. ASSUME NEW g \in Token, NEW h \in HoldSlot, DeliverHeld(g, h)
      PROVE  Kept
  <2> DEFINE m == holds[h]
  <2>1. m \in Hold /\ grants[m.grant] # None
    BY <1>0, <1>4 DEF DeliverHeld, MayResolve, MessagingTypeOK
  <2>2. m.from \in Name /\ m.to \in Name /\ m.grant \in GrantId
    BY <2>1 DEF Hold
  <2>3. grants[m.grant].terms.mediation = "inspect"
    BY <1>0, <1>4, <2>1 DEF DeliverHeld, MayResolve, HeldMailMatchesItsGrant
  <2>4. used' \in [GrantId -> Nat] /\ BudgetIsKept' /\ CountedGrantsExist'
    BY <1>4, <2>1, <2>2, <2>3, ConsumeKeepsCounts DEF DeliverHeld
  <2>5. /\ windows' \in [Name \X Name -> Nat]
        /\ introduced' \in SUBSET (Name \X Name)
        /\ NoColdContact'
    <3>1. CASE agents[m.to] # None
      BY <1>4, <2>2, <3>1, OpenWindowKeepsContact DEF DeliverHeld
    <3>2. CASE agents[m.to] = None
      BY <1>0, <1>4, <3>2 DEF DeliverHeld, MessagingTypeOK, NoColdContact
    <3> QED
      BY <3>1, <3>2
  <2> QED
    BY <1>0, <1>4, <2>4, <2>5
       DEF DeliverHeld, MessagingTypeOK, HeldMailMatchesItsGrant, Permits, vars, grantVars
<1>5. ASSUME NEW g \in Token, NEW h \in HoldSlot, BlockHeld(g, h)
      PROVE  Kept
  BY <1>0, <1>5
     DEF BlockHeld, MessagingTypeOK, BudgetIsKept, NoColdContact,
         HeldMailMatchesItsGrant, Permits, CountedGrantsExist, vars, grantVars
<1>6. ASSUME NEW h \in HoldSlot, HoldExpires(h)
      PROVE  Kept
  BY <1>0, <1>6
     DEF HoldExpires, MessagingTypeOK, BudgetIsKept, NoColdContact,
         HeldMailMatchesItsGrant, Permits, CountedGrantsExist, vars, grantVars
<1>7. ASSUME NEW p \in Name \X Name, WindowExpires(p)
      PROVE  Kept
  BY <1>0, <1>7
     DEF WindowExpires, MessagingTypeOK, BudgetIsKept, NoColdContact,
         HeldMailMatchesItsGrant, Permits, CountedGrantsExist, vars, grantVars
<1>8. Kept
  <2> HIDE DEF Kept
  <2> QED
    BY <1>1, <1>2, <1>3, <1>4, <1>5, <1>6, <1>7 DEF MessagingStep
<1>9. GrantsTypeOK'
  BY <1>0, <1>8
     DEF GrantsTypeOK, DirectoryTypeOK, vars, grantVars, directoryVars
<1> QED
  BY <1>8, <1>9 DEF MessagingInv, MessagingTypeOK

(* MessagingInv is inductive once GrantsInv is known, so it always holds.  *)
THEOREM MessagingInvariant == MessagingSpec => []MessagingInv
<1>1. MessagingSpec => []GrantsInv
  BY MessagingImplementsGrants, GrantsInvariant, PTL
<1>2. ASSUME MessagingInv, GrantsInv, GrantsInv', [MessagingNext]_allVars
      PROVE  MessagingInv'
  <2>1. CASE MessagingStep
    BY <1>2, <2>1, MessagingStepKeepsInv
  <2>2. CASE GrantsNext /\ UNCHANGED messagingVars
    BY <1>2, <2>2, GrantsNextKeepsMessaging
  <2>3. CASE UNCHANGED allVars
    BY <1>2, <2>3, GrantsNextKeepsMessaging DEF allVars
  <2> QED
    BY <1>2, <2>1, <2>2, <2>3 DEF MessagingNext
<1> QED
  BY <1>1, <1>2, MessagingInitInv, PTL DEF MessagingSpec

(* Every state is well typed.                                              *)
THEOREM MessagingTyped == MessagingSpec => []MessagingTypeOK
BY MessagingInvariant, PTL DEF MessagingInv

(* max_messages bounds what a bypass or notify grant carries.              *)
THEOREM BudgetIsKeptHolds == MessagingSpec => []BudgetIsKept
BY MessagingInvariant, PTL DEF MessagingInv

(* Without a grant, only names that were introduced under one exchange     *)
(* messages.                                                               *)
THEOREM NoColdContactHolds == MessagingSpec => []NoColdContact
BY MessagingInvariant, PTL DEF MessagingInv

(* A held message is released under the inspect grant it was sent under.   *)
THEOREM HeldMailMatchesItsGrantHolds == MessagingSpec => []HeldMailMatchesItsGrant
BY MessagingInvariant, PTL DEF MessagingInv
=============================================================================
