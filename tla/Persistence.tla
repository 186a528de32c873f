---------------------------- MODULE Persistence ----------------------------
(***************************************************************************)
(* What the hub keeps on disk, and what it is after a restart              *)
(* (src/src/persistence.rs, new_with_persisted_state and the db_write      *)
(* calls of src/src/delivery.rs, load_from_store of src/src/trust.rs).     *)
(*                                                                         *)
(* Every handler changes the hub under its lock, releases it, and then     *)
(* writes to SQLite one statement after the other, each committed on its   *)
(* own, before it answers.  So other handlers run, and write, between the  *)
(* change and the last statement, and the process may end anywhere in      *)
(* between.  A restart forgets the hub, repairs the tables and loads them. *)
(* The tables may then hold two tokens of one name (run restart_voices):   *)
(* both are loaded, and the hub goes on with two voices for the name until *)
(* it is loaded from other tables.                                         *)
(*                                                                         *)
(* The module adds the tables and the unfinished writes to module Grants.  *)
(* An expiry does not pass between a change and the statement that stores  *)
(* it.  A failed statement is logged and skipped by the code; it is not    *)
(* modelled, and neither are the usage counters of grants.                 *)
(***************************************************************************)
EXTENDS Grants, Sequences

CONSTANT Writer    \* handlers that may be writing at the same time

VARIABLES
    tokenRows,      \* table tokens: the identity column, None: no row
    identityRows,   \* table identities
    governorRow,    \* the one row of table governor
    grantRows,      \* table grants
    denialRows,     \* table denial_blocks
    writes,         \* what each handler has still to write, set after set
    overlapped,     \* history: did two handlers write at the same time?
    torn,           \* history: did a restart find writes cut short or mixed up,
                    \* or written by a hub with two tokens of one name?
    doubled         \* history: did the last restart find two tokens of one name?

tables          == <<tokenRows, identityRows, governorRow, grantRows, denialRows>>
storeVars       == <<tables, writes, overlapped, torn, doubled>>
persistenceVars == <<vars, storeVars>>

\* A statement sets one row; None, FALSE and "none" delete it.
Statement ==
    [table : {"tokens"}, key : Token, value : Name \cup {None}]
      \cup [table : {"identities"}, key : Name, value : BOOLEAN]
      \cup [table : {"governor"}, key : {None}, value : Name \cup {None}]
      \cup [table : {"grants"}, key : GrantId, value : Grant \cup {None}]
      \cup [table : {"denial_blocks"}, key : Token \X Name,
            value : {"none", "timed", "permanent"}]

TokenRow(t, n)     == [table |-> "tokens", key |-> t, value |-> n]
IdentityRow(n, in) == [table |-> "identities", key |-> n, value |-> in]
GovernorRow(n)     == [table |-> "governor", key |-> None, value |-> n]
GrantRow(i, g)     == [table |-> "grants", key |-> i, value |-> g]
DenialRow(p, kind) == [table |-> "denial_blocks", key |-> p, value |-> kind]

TablesTypeOK ==
    /\ tokenRows \in [Token -> Name \cup {None}]
    /\ identityRows \in SUBSET Name
    /\ governorRow \in Name \cup {None}
    /\ grantRows \in [GrantId -> Grant \cup {None}]
    /\ denialRows \in [Token \X Name -> {"none", "timed", "permanent"}]

PersistenceTypeOK ==
    /\ GrantsTypeOK
    /\ TablesTypeOK
    /\ writes \in [Writer -> Seq(SUBSET Statement)]
    /\ overlapped \in BOOLEAN
    /\ torn \in BOOLEAN
    /\ doubled \in BOOLEAN

PersistenceInit ==
    /\ GrantsInit
    /\ tokenRows = [t \in Token |-> None]
    /\ identityRows = {}
    /\ governorRow = None
    /\ grantRows = [i \in GrantId |-> None]
    /\ denialRows = [p \in Token \X Name |-> "none"]
    /\ writes = [w \in Writer |-> <<>>]
    /\ overlapped = FALSE
    /\ torn = FALSE
    /\ doubled = FALSE

Writing(w) == writes[w] # <<>>
Quiet      == \A w \in Writer : ~Writing(w)

-----------------------------------------------------------------------------
(* db_write                                                                *)

\* A set of statements in no particular order, left out when there are none.
Batch(S) == IF S = {} THEN <<>> ELSE <<S>>

\* The handler w has released the lock and starts to write.
Store(w, batches) ==
    /\ ~Writing(w)
    /\ writes' = [writes EXCEPT ![w] = batches]
    /\ overlapped' = (overlapped \/ ~Quiet)
    /\ UNCHANGED <<tables, torn, doubled>>

\* One statement of w is committed.
WriteStep(w) ==
    /\ Writing(w)
    /\ \E s \in Head(writes[w]) :
          /\ tokenRows' = IF s.table = "tokens"
                          THEN [tokenRows EXCEPT ![s.key] = s.value] ELSE tokenRows
          /\ identityRows' = IF s.table # "identities" THEN identityRows
                             ELSE IF s.value THEN identityRows \cup {s.key}
                             ELSE identityRows \ {s.key}
          /\ governorRow' = IF s.table = "governor" THEN s.value ELSE governorRow
          /\ grantRows' = IF s.table = "grants"
                          THEN [grantRows EXCEPT ![s.key] = s.value] ELSE grantRows
          /\ denialRows' = IF s.table = "denial_blocks"
                           THEN [denialRows EXCEPT ![s.key] = s.value] ELSE denialRows
          /\ writes' = [writes EXCEPT ![w] = Batch(Head(@) \ {s}) \o Tail(@)]
    /\ UNCHANGED <<vars, overlapped, torn, doubled>>

\* Is a statement about this row of this table still to come?
ToBeWritten(table, key) ==
    \E w \in Writer : \E k \in DOMAIN writes[w] : \E s \in writes[w][k] :
        s.table = table /\ s.key = key

-----------------------------------------------------------------------------
(* The handlers that write.                                                *)

\* POST /listen with a new name, POST /announce
BindAndStore(w, t, n) ==
    /\ Bind(t, n)
    /\ Store(w, <<{IdentityRow(n, TRUE)}, {TokenRow(t, n)}>>)
    /\ UNCHANGED grantVars

\* POST /register with a name
RebindAndStore(w, g, n, t) ==
    LET old == nameToToken[n] IN
    /\ Rebind(g, n, t)
    /\ Store(w, Batch(IF old = None THEN {} ELSE {TokenRow(old, None)})
                  \o <<{IdentityRow(n, TRUE)}, {TokenRow(t, n)}>>)
    /\ UNCHANGED grantVars

\* (defect) The blocks are lifted in the hub only.
ForgottenRowsButBlocks(wasGovernor) ==
    Batch(IF wasGovernor THEN {GovernorRow(None)} ELSE {})
      \o Batch({GrantRow(i, None) : i \in {j \in GrantId : grants[j] # None /\ grants'[j] = None}})

\* (defect) The grants are dropped in the hub only.
ForgottenRowsButGrants(wasGovernor) ==
    Batch(IF wasGovernor THEN {GovernorRow(None)} ELSE {})
      \o Batch({DenialRow(p, "none") :
                  p \in {q \in Token \X Name : denials[q] # "none" /\ denials'[q] = "none"}})

\* What both deletions write once the identity is gone: the flag, the grants
\* and the blocks that went with it.
ForgottenRows(wasGovernor) ==
    Batch(IF wasGovernor THEN {GovernorRow(None)} ELSE {})
      \o Batch({GrantRow(i, None) : i \in {j \in GrantId : grants[j] # None /\ grants'[j] = None}})
      \o Batch({DenialRow(p, "none") :
                  p \in {q \in Token \X Name : denials[q] # "none" /\ denials'[q] = "none"}})

\* DELETE /identity: the row of the token goes first.
DeleteIdentityAndStore(w, t) ==
    LET n == tokenToName[t] IN
    /\ DeleteIdentity(t)
    /\ Store(w, <<{TokenRow(t, None)}>>
                  \o Batch(IF n = None THEN {} ELSE {IdentityRow(n, FALSE)})
                  \o ForgottenRows(n # None /\ n = governor))

\* DELETE /participants/{n}: the row of the token stays.
DeleteParticipantAndStore(w, g, n) ==
    /\ DeleteParticipant(g, n)
    /\ Store(w, <<{IdentityRow(n, FALSE)}>> \o ForgottenRows(n = governor))

\* (defect) The credential is stored where the name belongs.
AppointAndStoreBearer(w, t) ==
    /\ Appoint(t)
    /\ Store(w, <<{GovernorRow(t)}>>)
    /\ UNCHANGED grantVars

\* A claim, an election, a transfer
AppointAndStore(w, t) ==
    /\ Appoint(t)
    /\ Store(w, <<{GovernorRow(tokenToName[t])}>>)
    /\ UNCHANGED grantVars

\* POST /admin/governor/reset clears the row whether the hub has a governor or not.
ResetAndStore(w) ==
    /\ governor' = None
    /\ Store(w, <<{GovernorRow(None)}>>)
    /\ UNCHANGED <<status, ownName, tokenToName, nameToToken, agents, identities, grantVars>>

\* The token behind a name is stored again with every grant made on a request.
\* Behind "" there is none.
HolderRow(n) ==
    Batch(IF n \notin Name \/ nameToToken[n] = None THEN {} ELSE {TokenRow(nameToToken[n], n)})

EstablishAndStore(w, t, r) ==
    /\ Establish(t, r)
    /\ Store(w, <<{GrantRow(grantCount', grants'[grantCount'])}>>
                  \o HolderRow(requests[r].fromName) \o HolderRow(requests[r].toName))

ApproveAndStore(w, terms) ==
    /\ ApproveGrant(terms)
    /\ Store(w, <<{GrantRow(grantCount', grants'[grantCount'])}>>)

RevokeGrantAndStore(w, g, i) ==
    /\ RevokeGrant(g, i)
    /\ Store(w, <<{GrantRow(i, None)}>>)

DenyAndStore(w, t, r, kind) ==
    /\ DenyGrantRequest(t, r, kind)
    /\ Store(w, <<{DenialRow(<<requests[r].fromId, requests[r].toName>>, kind)}>>)

BlockAndStore(w, g, t, n, kind) ==
    /\ BlockDirect(g, t, n, kind)
    /\ Store(w, <<{DenialRow(<<t, n>>, kind)}>>)

UnblockAndStore(w, g, t, n) ==
    /\ UnblockGrant(g, t, n)
    /\ Store(w, <<{DenialRow(<<t, n>>, "none")}>>)

-----------------------------------------------------------------------------
(* Time passes for the rows as well.                                       *)

\* approve_grant_req stores the expiry, approve_grant_request does not.
GrantAndRowLapse(i) ==
    /\ ~ToBeWritten("grants", i)
    /\ GrantLapses(i)
    /\ grantRows' = IF grantRows[i] # None /\ grantRows[i].direct
                    THEN [grantRows EXCEPT ![i].expired = TRUE] ELSE grantRows
    /\ UNCHANGED <<tokenRows, identityRows, governorRow, denialRows, writes, overlapped, torn, doubled>>

\* A row past its expiry is loaded and blocks nobody.
DenialAndRowLapse(t, n) ==
    /\ ~ToBeWritten("denial_blocks", <<t, n>>)
    /\ DenialLapses(t, n)
    /\ denialRows' = [denialRows EXCEPT ![<<t, n>>] = "none"]
    /\ UNCHANGED <<tokenRows, identityRows, governorRow, grantRows, writes, overlapped, torn, doubled>>

-----------------------------------------------------------------------------
(* Restart                                                                 *)

\* (defect) The tokens of unregistered names are kept.
MigratedTokensAll == tokenRows

\* TokenStore::migrate deletes the tokens of names that are not registered.
MigratedTokens ==
    [t \in Token |-> IF tokenRows[t] \in identityRows THEN tokenRows[t] ELSE None]

\* (defect) The row is taken at its word.
LoadedGovernorUnchecked == governorRow

\* A governor that is not registered is not loaded; its row stays.
LoadedGovernor == IF governorRow \in identityRows THEN governorRow ELSE None

LoadedGrants ==
    [i \in GrantId |-> IF grantRows[i] # None /\ ~grantRows[i].expired THEN grantRows[i] ELSE None]

\* (defect) The next number is taken from how many grants there are.
LoadedCountByLength == Cardinality({i \in GrantId : LoadedGrants[i] # None})

\* The highest number among them.
LoadedCount ==
    LET used == {i \in GrantId : LoadedGrants[i] # None}
    IN  CHOOSE c \in used \cup {0} : \A i \in used : i <= c

\* Who may end up as the holder of each name: of several tokens loaded for it the
\* one read last, and the rows are read in no particular order.
LoadedHolders ==
    LET tokens == [n \in Name |-> {t \in Token : MigratedTokens[t] = n}]
    IN  {holder \in [Name -> Token \cup {None}] :
            \A n \in Name : holder[n] \in IF tokens[n] = {} THEN {None} ELSE tokens[n]}

\* No two tokens that will be loaded share a name.
OneRowPerName ==
    \A t, u \in Token : tokenRows[t] = tokenRows[u] /\ tokenRows[t] \in identityRows => t = u

\* The process ends, at any point of any handler, and starts again.
Restart ==
    /\ tokenRows' = MigratedTokens
    /\ status' = [t \in Token |-> IF MigratedTokens[t] # None THEN "live"
                                  ELSE IF status[t] = "unminted" THEN "unminted"
                                  ELSE "removed"]
    /\ ownName' = MigratedTokens
    /\ tokenToName' = MigratedTokens
    /\ nameToToken' \in LoadedHolders
    /\ agents' = nameToToken'
    /\ identities' = identityRows
    /\ governor' = LoadedGovernor
    /\ asking' = {}
    /\ grants' = LoadedGrants
    /\ grantCount' = LoadedCount
    /\ denials' = denialRows
    /\ requests' = [r \in RequestSlot |-> None]
    /\ resolving' = None
    /\ writes' = [w \in Writer |-> <<>>]
    /\ torn' = (torn \/ overlapped \/ doubled \/ ~Quiet)
    /\ overlapped' = FALSE
    /\ doubled' = ~OneRowPerName
    /\ UNCHANGED <<identityRows, governorRow, grantRows, denialRows>>

-----------------------------------------------------------------------------
\* Handlers that leave the store alone.
UnstoredStep ==
    \/ \E t \in Token : (Mint(t) \/ GiveBack(t) \/ Unbind(t) \/ Collect(t)) /\ UNCHANGED grantVars
    \/ \E n \in Name : Release(n) /\ UNCHANGED grantVars
    \/ \E t \in Token : AskGrant(t) \/ AskEnds(t)
    \/ \E t \in Token, r \in RequestSlot :
          \/ \E n \in Name : RequestGrant(t, n, r) \/ RequestAgain(t, n, r) \/ Resubmit(t, n, r)
          \/ GovernorApproves(t, r)
          \/ HoldGrantRequest(t, r)
    \/ \E r \in RequestSlot : RequestTimesOut(r)
    \/ \E g, a, b \in Token : ResolveParties(g, a, b)

StoredStep(w) ==
    \/ ResetAndStore(w)
    \/ \E t \in Token :
          \/ DeleteIdentityAndStore(w, t)
          \/ AppointAndStore(w, t)
          \/ \E n \in Name : BindAndStore(w, t, n) \/ DeleteParticipantAndStore(w, t, n)
          \/ \E n \in Name, u \in Token : RebindAndStore(w, t, n, u)
          \/ \E r \in RequestSlot :
                \/ EstablishAndStore(w, t, r)
                \/ \E kind \in {"timed", "permanent"} : DenyAndStore(w, t, r, kind)
          \/ \E i \in GrantId : RevokeGrantAndStore(w, t, i)
          \/ \E u \in Token, n \in Name :
                \/ UnblockAndStore(w, t, u, n)
                \/ \E kind \in {"timed", "permanent"} : BlockAndStore(w, t, u, n, kind)
    \/ \E terms \in Terms : ApproveAndStore(w, terms)

PersistenceNext ==
    \/ UnstoredStep /\ UNCHANGED storeVars
    \/ \E w \in Writer : StoredStep(w) \/ WriteStep(w)
    \/ \E i \in GrantId : GrantAndRowLapse(i)
    \/ \E t \in Token, n \in Name : DenialAndRowLapse(t, n)
    \/ Restart

PersistenceSpec == PersistenceInit /\ [][PersistenceNext]_persistenceVars

-----------------------------------------------------------------------------
(* Correctness.                                                            *)

\* One voice per name, also in a hub that was restarted, wherever the process
\* ended and however the handlers' writes were mixed up: who speaks for a name
\* holds it and is registered.  Except in a hub that has loaded two tokens of one
\* name (new_with_persisted_state; the deletions against what they write).
SpeakersAreSound == ~doubled => SpeakersHold

\* Wherever a crash falls, and however often, the hub never has a governor that
\* is not registered: everybody would be refused, and whoever registered the
\* name next would govern (new_with_persisted_state against the writes of
\* delete_self, revoke_by_name and set_governor).  In a hub that has loaded two
\* tokens of one name the second may outlive the name, and claim.
GovernorIsRegistered == ~doubled /\ governor # None => governor \in identities

\* What has been answered is not lost.  Unless two handlers wrote at the same
\* time, or two tokens of one name were loaded, the tables agree with the hub
\* whenever nobody writes: the same names registered, the same blocks, the same
\* grants but for the expired; the governor can be found, and so can the token of
\* every participant.
AnsweredIsDurable ==
    Quiet /\ ~overlapped /\ ~doubled =>
        /\ identityRows = identities
        /\ denialRows = denials
        /\ governor # None => governorRow = governor
        /\ \A t \in Token : Live(t) /\ tokenToName[t] # None =>
              tokenRows[t] # None /\ nameToToken[tokenRows[t]] = t
        /\ \A i \in GrantId :
              IF grants[i] = None THEN grantRows[i] = None \/ grantRows[i].expired
              ELSE grantRows[i] # None /\ (~grants[i].expired => grantRows[i] = grants[i])

\* The counter is set from the grants that are loaded.  It never falls behind a
\* grant that is on disk and in force, which upsert_grant would replace when it
\* stores the next one (load_from_store, next_id).
GrantRowsAreNumbered ==
    \A i \in GrantId : grantRows[i] # None /\ ~grantRows[i].expired => i <= grantCount

\* A restart that finds no writes half done or mixed up, nor what a hub with two
\* tokens of one name has written, brings back no grant of a participant that is
\* gone, so nobody who registers its name inherits one.
PartiesSurviveRestart == ~torn /\ ~doubled => NothingOutlivesItsParties

\* What a restart restores of the hub, besides its type.
HubInv ==
    /\ ~doubled => DirectoryInv
    /\ GrantsTypeOK
    /\ GovernorIsRegistered
    /\ GrantsAreNumbered

\* A statement that stores a grant whose number has been counted, or another.
NumberedStatement ==
    {s \in Statement : s.table = "grants" /\ s.value # None => s.key <= grantCount}

\* What the proofs carry along.
PersistenceInv ==
    /\ HubInv
    /\ TablesTypeOK
    /\ GrantRowsAreNumbered
    /\ writes \in [Writer -> Seq(SUBSET NumberedStatement)]
    /\ overlapped \in BOOLEAN
    /\ torn \in BOOLEAN
    /\ doubled \in BOOLEAN

-----------------------------------------------------------------------------
(* What a comment says, and the code does not do.                          *)

\* new_with_persisted_state: two stored tokens do not share a name.
StoredNamesAreApart == Quiet /\ ~torn => OneRowPerName
=============================================================================
