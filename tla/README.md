# simple-im: specifications, model checking and proofs

simple-im is a hub that lets agents message each other over HTTP. Participants
register, open one event stream each, bind a name, ask each other for grants and
then exchange messages; one participant may carry the governor flag, which
authorises it to issue and rebind tokens, approve, block and revoke grants,
inspect messages and delete participants. Almost all of the behaviour is in
`src/src/delivery.rs` (`DeliveryHub`, one mutex around `HubInner`), with the
governor pointer and the grants in `src/src/trust.rs`.

This directory holds TLA+ modules translated from that code, TLC models of them,
and TLAPS proofs for every value of the constants. Paths below are relative to
the directory that holds `src/`; the Rust sources are `src/src/*.rs`.

Contents: [Components](#components) · [Modules](#modules) ·
[Abstractions](#abstractions) · [Runs](#runs) · [Fairness](#fairness) ·
[Proofs](#proofs) · [Disagreements found](#disagreements-found) ·
[Not modelled](#not-modelled) · [Plan](#plan) · [Running](#running)

## Components

| Component | State | Operations | What is hard | What makes it correct |
|---|---|---|---|---|
| **Sessions** (`delivery.rs`, stream guard in `http.rs`) | `listen_tokens`, `token_to_name`, `name_to_token`, `agents`, `identities`, `sse_connections`, `sse_sender` | `register_participant`, `issue_participant_token` (also rebind), `open_listen`, `close_listen`, `cancel_listen`, `announce`, `delete_self`, `revoke_by_name`, `gc_tokens` | Four maps say who has a name. Streams end late, on another thread, after the client has moved on. Collection runs inside other requests. | One voice per name; names change hands only by rebind; a client reads where it speaks; counts match streams |
| **Governance** (`delivery.rs`, `trust.rs`) | `pending_claims`, `pending_transfers`, `governor_identity` | claim, vote, transfer, accept, reset | Claims and transfer tokens stay pending while participants come, go and are rebound | Nobody is installed that no token speaks for; votes are for the claimant only |
| **Mailboxes** (`delivery.rs`, `http.rs`) | `message_queues`, `kick_pending`, `notify_suppressed` | the queueing tail of every handler, `take_notify`, `dequeue`, `drain_queue`, catch-up in `open_listen` | The suppression flag is set under the lock and the event sent after it, on a channel that may be gone | No lost wake-up; mail lost only to its reader or with its name |
| **Grants** (`delivery.rs`, `trust.rs`) | `connection_requests`, `grants`, `counter`, `denial_blocks` | request, approve (two stages), deny, hold, resubmit, direct approval, revoke, block, unblock, purge | A request outlives governors, rebinding and its own expiry; direct approval takes the lock twice | Nothing refers to a deleted participant; what was approved can be completed; numbers are not reused |
| **Messaging** (`delivery.rs`, `trust.rs`) | `messages_used`, `reply_windows`, `mediation_holds` | `send`, `resolve_mediation`, `prune_expired` | Budgets at their limit; held messages released long after the check; windows that breed windows | Budgets are kept; no contact without an introduction; held mail is charged to its grant |
| **Attachments** (`delivery.rs`, `persistence.rs`) | table `attachments`, notices in the mailboxes | `attach`, `fetch_attachment`, `gc_expired_attachments` | The grant is checked under the lock, the file stored without it, the recipient told under it again; a download notes its caller under the lock and reads without it | Who is told of a file can fetch it; a rebind takes the file from the old token, but for a download under way |
| **Persistence** (`persistence.rs`, `delivery.rs`, `main.rs`) | five tables | `db_write` after each handler, `new_with_persisted_state`, `load_from_store` | Statements are committed one by one, after the lock, by several handlers at a time; the process may end between any two | What was answered is stored; the hub that is loaded hands out unused numbers and, unless two tokens of one name were loaded, has a registered governor and one voice per name |
| **Presence** (`delivery.rs`) | `settle_tasks`, `presence_push` | `begin_settle_offline`, `spawn_settle_task`, `cancel_settle_online`, `grant_peer_presence_senders` | The peers are looked up when the timer starts, while a handler takes apart what they are found by; timers race reconnections | Every absence is timed for whoever is to be told; no timer counts for a name whose holder listens under it and is counted |
| **Rooms** (`rooms.rs`, `delivery.rs`) | rooms and members by name, with a TTL | create, join, leave, lapse | Membership is by name and outlives the participant | (in Presence, which reads them) |
| **Registry** (`registry.rs`) | liveness entries | register, lapse, force-deregister | Lapse at any moment | in Sessions |
| **HTTP layer** (`http.rs`, `error.rs`) | none of its own | routing, parsing, status codes | Check-then-act over two locks in `handle_register` and `handle_grant_request` | in the modules of the handlers |
| **Start-up** (`main.rs`) | none of its own | opening and loading the store, reaping | A restart at any moment | in Persistence and Sessions |
| **listen.sh client** (`src/skills/participant`) | none in the hub | dequeue on notify until nothing remains | It and the interlock wait for each other | in Mailbox |

Components interact only through `HubInner` under its mutex, through the channels
to the streams (written under or after the lock), through the governor's event
broadcast, through the settle tasks, and through database writes made after the
lock is released. `PROJECT.json` lists under "hazards" what of this is hard to
test, each at its line.

## Modules

    Directory ──< Grants ──< Messaging ──< Attachments
        ^           └──────< Persistence
        │ (refinement, proved and checked)
    Sessions ──< Governance
        ├──────< Mailbox
        └──────< Presence

`──<` is EXTENDS. A composed module contains the handlers of the one below it:
its next-state relation has every step of that module too, with what the step
does to the new state added (a deletion purges mail, requests, grants and
blocks; a reconnection re-arms the interlock and cancels a settle timer).

* **Sessions** has one variable per map of `HubInner` listed above. `status[t]`
  is the life of a token: not drawn yet, admitted (between the two locked
  sections of `handle_register`), in `listen_tokens`, there with `revoked` set,
  or removed from it. `stream[t]` says whether the receiver of the token's
  current `sse_sender` still exists, `stale[t]` how many older streams the HTTP
  layer has not dropped yet; each drop calls `close_listen`. Every handler is one
  action, since it runs under the mutex. `announce` is three actions, one for
  each way it changes state. Refusals that change nothing are stuttering.
* **Directory** is the abstract specification of Sessions: who speaks for which
  name, who is on the roster, who is governor. It has no streams, no liveness
  entries and no ages. It is what the grant handlers read, so Grants is composed
  with it and not with the whole of Sessions. `ownName[t]` is the name stored
  with a token (`ListenTokenState.name`), `tokenToName[t]` the one it speaks for.
  In a hub that began empty they agree; a hub that has loaded two tokens of one
  name can part them, and the handlers are written for that too (`GiveBack` is
  the repair in `open_listen`, `RevokeByName` takes the name from everybody and
  the token from its holder only).
* **Governance** adds pending claims and transfer tokens to Sessions and says
  when `BecomeGovernor`, which Sessions leaves open, happens.
* **Mailbox** adds queues, the interlock and the client of the participant skill
  (external code, modelled from `src/skills/participant/listen.sh` and its
  SKILL.md): it dequeues on every notify until told that nothing remains.
  `sending` counts events taken under the lock and not sent yet. `muted` and
  `departed` are history variables: a wake-up spent on a grant event, and names
  that were routed once.
* **Grants** adds connection requests, grants by number, denial blocks and the
  pending half of a direct approval to Directory. `expired` flags stand for
  deadlines that have passed. `direct` is history. `POST /grants/request` takes
  the lock twice: `AskGrant` is the handler's check that the caller has a name,
  which puts the token into `asking`, and `RequestGrant`, `RequestAgain` or
  `Resubmit` is `request_grant`, which looks the name up again and records
  `Unnamed` (the empty string) for a caller that has none by then.
* **Messaging** adds budgets, reply windows (counted per direction of a pair of
  names) and mediation holds to Grants. `introduced` is history.
* **Attachments** adds files and their notices to Messaging. An upload is three
  steps: `AttachStart` (grant check, under the lock), `StoreBlob` (sweep and
  insert, which may fail), `TellRecipient` (under the lock again). A download is
  two, `FetchStart` and `FetchEnds`.
* **Persistence** adds to Grants the tables and, for each handler that is
  writing (`Writer`), the statements it has not committed yet: a sequence of
  sets, because the order within some loops is that of a hash map. `Restart` has
  no guard: whatever the tables hold, it repairs them as `TokenStore::migrate`
  does and loads the hub from them; of several tokens stored for one name each
  speaks for it, and any may be the holder. Three history variables:
  `overlapped` (two handlers have been writing at the same time since the
  start), `doubled` (the last restart loaded two tokens of one name) and `torn`
  (some restart found writes cut short or mixed up, or those of a doubled hub).
* **Presence** adds settle tasks, rooms and the `presence_push` flag to Sessions.
  Of grants and blocks it has only what `grant_peer_presence_senders` reads: the
  pairs in force, made and ended by steps that stand for the handlers of Grants.
  `named` is history: the name a client gave when it opened the stream it has.
  It is forgotten when that stream ends or is superseded, whatever the count
  says.

`PROJECT.json` maps every definition to the lines it translates. Operators whose
comment begins with `(defect)` are wrong variants of the definition after them;
no specification uses them. Each property is shown to fail when the variant
`PROJECT.json` pairs with it takes the definition's place, so that no property
holds for a reason that has nothing to do with the code.

## Abstractions

* **Time.** No clocks: whatever depends on an age (token collection, liveness,
  request, grant, block, claim, window and hold expiry) may happen whenever the
  rest of the state does not exclude it. Safety properties therefore hold for
  every setting of the timeouts. Collection, which the code runs at the head of
  `open_listen` and `announce`, is a step of its own: a request that is refused
  right after the collection has exactly that effect.
* **Tokens** are drawn at random and never twice; a removed token is not drawn
  again. (The code draws from about 10^12 values and checks those in use.)
* **Messages** are their thread; payloads, reasons, ids, event wording and the
  governor's broadcast are left out. A grant's terms are direction, mediation,
  budget and whether it opens reply windows.
* **send** is split: Messaging decides whether and under what a message is
  accepted, Mailbox what a queued message does to its recipient; Mailbox accepts
  any message for a routed name, which covers every outcome of Messaging.
* **The gate of `POST /grants/request`** (a shared room or an existing grant) is
  open in Grants; it is checked in locked sections of its own, between the check
  for a name and the request. `asking` does not count: a token in it may make
  any number of requests until they are all answered (`AskEnds`).
* **The empty name.** Names are not empty: that a client announces `""` is left
  out, so `Unnamed` is registered by nobody. What a request or a grant of a
  nameless party does to mailboxes and presence is not in Mailbox and Presence.
* A direct approval may be under way for one pair at a time.
* **Storing.** A statement sets one row to a value the handler has fixed before
  it released the lock. An expiry does not pass between a change and the
  statement that stores it. A grant made on request is stored without its expiry
  (`delivery.rs` 3065), so its row never lapses, while the grant does.
* **Two tokens of one name.** A store with two tokens for one name comes about
  without any crash (run `restart_voices`). `Restart` loads it, and the hub goes
  on from there in the model as in the code, until it is restarted from another
  store. What such a hub does is listed under
  [Disagreements found](#disagreements-found); the properties that it breaks say
  so in their statements (`~doubled`).
* **Timers.** A settle task that is cancelled after its window has passed may
  still tell its peers, as in the code, where the two race for the lock.
* **Files** are numbers; of the other mail of a mailbox Attachments has nothing.
* Role reminders that `announce` and `open_listen` would queue for a governor
  binding its name are unreachable (the governor is registered, and these paths
  bind only unregistered names) and left out. `install_governor`, `issue_token`,
  `revoke_token`, `sse_open` and `sse_close` have no route and are left out.

Bounds, each a constant or a named constraint:

| Bound | Meaning |
|---|---|
| `MaxStale` | replaced streams of one token not yet dropped |
| `MaxQueue`, `MaxNotice` | messages of one mailbox, notify events under way to one stream |
| `ClaimSlot`, `TransferSlot`, `RequestSlot`, `HoldSlot` | pending claims, transfer tokens, requests, held messages at a time |
| `MaxGrants` | grants ever made |
| `MaxWindows`, `MaxUses` | open windows of one direction, messages counted against one grant |
| `File`, `Writer`, `Timer`, `Room` | uploads ever made, handlers writing at a time, settle tasks at a time, rooms at a time |
| `OneConnected` (MCSessions) | one client at a time has a stream, current or stale; one name at a time is in the liveness registry |
| `OneConnected` (MCMailbox, for liveness) | names are bound by `/listen`, one client at a time has a stream; no step that fairness is asked of is cut off |
| `BoundByListen` (MCGovernance) | names are bound by `/listen`, so the liveness registry, which governance does not read, stays empty |
| `OneAtATime` (MCGrants) | a grant comes from a request, or from the governor between two names while nothing is requested; one client asks at a time, and while there is a block or has been a grant only between two tokens; at most one block, while all tokens are there and before a grant is made; one of the three tokens is given up |
| `Detailed` (MCMessaging) | grants come from the governor and nobody is blocked; one window at a time; expiry, and grants of a nameless party or of a party with itself, while there is one grant; a second one after the first is gone, or beside it when one is directed and the other inspected |
| `OnlyFiles` (MCAttachments) | one grant by the governor between two names, no other messages; two files at a time while both participants are there and nobody reads or downloads |
| `Apart` (MCPersistence) | one of three: names and tokens come and go (`OnlyNames`: overlapping writes between two tokens, one handler at a time with three or in a doubled hub); two participants exchange one grant at a time, one handler at a time (`OneGrant`); or one of two is blocked (`OneBlock`). A doubled hub is followed while no grant is made; what it does with grants is left to the proofs |
| `Watched` (MCPresence) | one participant, the watcher, wants to be told, stays and is related to the other by one grant or one room at a time; nobody is blocked while a timer runs; one other token at a time, and what happens after a rebind or to a token marked as granted is left to the proofs |

A constraint cuts off what does not matter to the properties of its run and keeps
what does: each run reaches, and each property is shown to depend on, the steps
the variants in `PROJECT.json` change.
The proofs have none of the constraints and hold for every value of the constants.

## Runs

Deadlock is not checked anywhere: clients may stop calling, tokens and grant
numbers run out, and the hub then rightly stands still.

| Run | Model | Checks |
|---|---|---|
| `sessions` | 3 tokens, 2 names, 1 stale stream | all of Sessions' invariants and action properties, and that Sessions implements Directory. Three tokens are a governor, a holder and a contender; two names let one token announce both; a stale stream lets a late close meet a new stream. |
| `governance` | 2 tokens, 2 names, 1 claim, 1 transfer token | installed governors are held names, also by a claim or a transfer begun under another governor |
| `election` | 3 tokens, 3 names, 1 claim | two voters and a claimant: who may vote, who is installed |
| `mailbox` | 2 tokens, 1 name, 1 thread, 2 messages, 2 notices, late arrivals | the interlock, the kick flags, and what mail is lost to |
| `mailbox_live` | 2 tokens, 1 name, 1 stale stream, 2 messages, no filtering, no late arrivals | no lost wake-up for a client whose stream is counted; a suppressed client is re-armed; a client whose streams have ended is admitted again without force. With filtering clients or mail for deleted names `IdleMeansRead` is false: a filtered dequeue that matches nothing says that nothing remains, and mail for a deleted name waits for whoever takes the name next. |
| `grants` | 3 tokens, 2 names, 1 request, 1 grant | requests through both stages, blocks and resubmissions while governors change, parties are rebound and deleted, and senders give up their name between the check and the request |
| `messaging` | 2 tokens, 2 names, 2 grants of three kinds of terms, 1 hold | budgets and the choice between grants; directed grants with and without windows; grants revoked and made anew while a message is held |
| `attachments` | 3 tokens, 2 names, 1 grant, 2 files | uploads and downloads between deletions, rebinds, collections and revocations; a failed upload beside one that succeeds |
| `persistence` | 3 tokens, 2 names, 2 grant numbers, 2 writers | a restart between any two statements of any handler, any number of times, from stores with two tokens of one name too |
| `presence` | 3 tokens, 2 names, 2 timers, 1 room, 1 stale stream | streams, names and tokens of a watched participant in every order; an old timer beside a new one |
| `sessions_count`, `restart_voices` | as above, smaller | expect a violation, see [Disagreements found](#disagreements-found) |

### Properties

* *Sessions.* `OneVoicePerName`: a token that speaks for a name holds it, is
  routed to and is registered, so no two tokens speak for one name.
  `ReadsWhereItSpeaks`: `send` and `dequeue` agree on a client's name, though
  they read different maps. `HeldNamesRegistered`: the orphan guards cover every
  held, routed or online name. `NoPhantomGovernor`, `NoPhantomConnection`.
  `NoTakeover`: a registered name changes hands only by a governor's rebind.
  `OnlyDeletionForgets`, `ReopenEventuallyAllowed`.
* *Governance.* `NoDanglingInstallation`, `VotesAreForTheClaimant`,
  `OnlyClaimantIsElected`: the re-check of the candidate at the last vote is
  what these rest on.
* *Mailbox.* `InterlockNeverStuck`, `IdleMeansRead`, `KickedNamesHaveMail`,
  `MailOutlivesSessions`, `WakeupsAreAnswered`. The first, second and last are
  about clients that keep to one name: a token that announces a second name goes
  on being woken for the first, whose mailbox it can no longer read.
  `IdleMeansRead` is about clients whose stream is counted: one whose count a
  late close took away (run `sessions_count`) counts as offline and is not woken.
* *Grants.* `NothingOutlivesItsParties`: the parties of a request, and of a grant
  made through one, are registered, or the sender gave up its name behind the
  handler's back and is recorded as `Unnamed`, never under the name it gave up.
  `RecipientStageHasApprover`.
* *Messaging.* `BudgetIsKept`, for grants that deliver at once: of an inspected
  grant the budget is checked when a message is sent and charged when it is
  released, and there the code does pass it. `NoColdContact`,
  `HeldMailMatchesItsGrant`, `GoneGrantsStayGone`.
* *Attachments.* `ToldCanFetch`: every notice, read or not, can be followed up by
  whoever speaks for the name, until the file's time is up.
  `OneReaderPerFile`: besides the sender, one token at a time passes the check. A
  download whose caller was noted before a rebind is still answered after it;
  the property does not look at downloads under way.
* *Persistence.* `SpeakersAreSound` (`SpeakersHold` of Directory) and
  `GovernorIsRegistered`: one voice per name and a registered governor, however
  the writes before the restart were cut short or mixed up, as long as the
  restart did not find two tokens of one name.
  `GrantRowsAreNumbered`, without exception: no number of a stored grant that is
  in force is given out again. `AnsweredIsDurable`: while no two handlers have
  written at once in a hub that is not doubled, tables and hub agree whenever
  nobody writes. `PartiesSurviveRestart`: after restarts that found nothing half
  done and no doubled hub's writes, no grant is of a participant that is gone; a
  crash in the middle of a deletion does leave such grants.
* *Presence.* `EveryAbsenceIsTimed`: however a connected holder loses its last
  stream or its name, a timer runs for every peer that was to be told; four
  handlers must look the peers up before they take the name apart. For a
  participant that keeps to one name.
  `NamedReturnCancels`: nobody is about to be reported gone who listens under its
  name and is counted, whichever of its older streams ends when. A client that
  is connected and not counted is not covered: the late close that took its
  count starts a timer for it (`ConnectedAreNotMissed`, below).

## Fairness

* `SessionsFairness`: a stream without a sender is dropped eventually. Its
  receiver yields the end of the stream, and hyper drops the body of a finished
  response; nothing in the code can hold it back.
* `MailboxFairness`: weak for `SendNotice`, code that runs on after the lock is
  released; strong for the client's reading and dequeuing. The client may
  disconnect and reconnect at any moment, which disables these, so weak fairness
  would say nothing about it; the assumption is that a client that is notified
  again and again does not disconnect each time before reading. It is an
  assumption about `listen.sh`, not about the hub.

## Proofs

Eight modules hold the proofs; each extends the module it is about.

* **SessionsProofs**. The inductive invariant `SessionsInv` is the type
  invariant with the five state properties and two more: a token not in
  `listen_tokens` speaks for nobody and counts no stream
  (`ForgottenTokensAreSilent`), and a token not handed out is bound to nothing
  (`FreshTokensUnbound`). `OneVoicePerName` is not inductive alone: a bind must
  not overwrite a name that another token speaks for, which follows from the
  guards only because such a name is registered. There is one lemma per action.
  From the invariant follow the state theorems, the action properties
  `NoTakeover`, `OnlyDeletionForgets` and `GcSparesBoundTokens`, and
  `SessionsImplementDirectory`, where every Sessions step is shown to be a
  Directory step or to leave it alone.
* **GovernanceProofs**. `GovernanceImplementsSessions` shows that every way of
  becoming governor is a `BecomeGovernor` step, so that `SessionsInv` holds of
  the composition; `NoDanglingInstallation` and `OnlyClaimantIsElected` follow
  from it, the latter with the type of pending claims.
* **MailboxProofs**. `InterlockNeverStuck` for any number of clients, names,
  threads and bounds. The strengthening says, for every suppressed token with a
  stream, that a notify is being sent, in the channel or being acted on, or that
  the token was notified for another of its names, or muted. It uses
  `SessionsInv` (who holds which name). `KickInv` adds the types of the queues
  and `KickedNamesHaveMail`, which is inductive with them: each step is shown to
  make one of four changes to the mail (`MailChange`: none, an arrival, a queue
  discarded, a message read), and each of them keeps it;
  `MailOutlivesSessions` follows from the same four. `IdleMeansRead` is proved for clients that do not
  filter (`Thread = {}`) and hubs where no mail arrives late (`~LateMail`), the
  setting in which it is checked and without which it is false. It needs the
  interlock, and that mail waits for registered names only
  (`UnregisteredHaveNoMail`): otherwise a new holder would find mail of which
  nobody told it.
* **GrantsProofs**. `GrantsInv` adds to the grant properties what they need from
  Directory: who speaks for a name is registered, and routed names are
  registered. `request_grant` takes its parties from exactly those, or has none
  to take. Since the handlers of Grants are composed with a Directory that may
  take a lost name back, `BindIsPlain` and `NothingGivenBack` show first that
  there is no lost name where `ReadsWhereItSpeaks` holds.
  `GrantsLiveRightly`, an action property, follows a grant from approval to end:
  a new grant is what the governor has resolved or what an approved request
  says, and the request is gone with it; what a grant says stays; it ends by a
  revocation or with a party that is not registered. `GrantsImplementDirectory`
  shows that deletions that purge grants are Directory's deletions.
* **MessagingProofs**. `MessagingImplementsGrants` gives `GrantsInv`; with
  numbers never reused, the budget, window and hold invariants are inductive
  once it is known that nothing is counted against grants not yet made.
* **AttachmentsProofs**. `AttachmentsImplementMessaging` gives the invariants of
  Messaging and Grants. `ToldCanFetch` needs that a file somebody was told of has
  been stored and stays until it lapses (`ToldFilesAreStored`), and nothing about
  the parties; `OneReaderPerFile` also that no two tokens speak for one name.
* **PersistenceProofs**. `HubInv` is what a restart brings back of the hub: its
  type, grants numbered up to the counter and, unless it is doubled, one holder
  per name and a registered governor. `Restart` establishes it from the types of
  the tables alone, so it holds whatever was written in whatever order. A handler
  preserves it because it is a step of Grants, or, in a doubled hub, of the same
  handlers without what the directory's invariant rules out (`HubStep`); such a
  step keeps types and numbers whatever the directory is like
  (`HubStepKeepsTypes`), and it is a step of Grants in a hub that is not doubled
  (`SoundHubTakesGrantsSteps`). For `GrantRowsAreNumbered` every unfinished
  statement must store a grant with a counted number (`NumberedStatement`), and
  the counter that is loaded is the highest number loaded (`LoadedCountIsMax`,
  which takes a greatest element of a finite set of numbers).

  Durability compares the tables with the hub while writes are under way.
  `RowsAgree` reads a table as the statements that would write it again
  (`Stored`) and the unfinished writes as a set (`Due`): every statement that is
  due agrees with the hub, and so does every row, unless a statement about the
  same row is due. Committing a statement keeps this, in whatever order the
  batch is written (`WriteStepKeepsAgreement`). A handler keeps it when the
  batches it stores agree with the new hub and cover every row its change makes
  wrong; there is one `...Covers` lemma per handler. Three more facts go with it
  in `DurableInv`: it is claimed only while no two handlers have written at once
  (`overlapped`), for a later handler's statement may be committed before an
  earlier one's about the same row, and in a hub that is not doubled, where the
  row of a name's second token contradicts the hub from the start; holders of names are registered and minted
  (`HoldersAreSound`), so a token that is drawn has no row to contradict it; and
  while no restart has met unfinished writes (`torn`), the grants in the hub
  have registered parties. From it follow `AnsweredIsDurable`,
  `PartiesSurviveRestart` and, as an action property, `RestartLosesNothing`: a
  restart between requests, of a hub that is not doubled, keeps roster, blocks,
  governor and grants in force, and brings no grant back; every token that speaks
  still speaks for a name it held, and goes on holding it if the tables have one
  token of each name. Otherwise the restart may take the name's other row: a row
  that a governor's deletion leaves behind (run `restart_voices`) gives its token
  a voice again once the name is registered anew, and the holder may be either.
* **PresenceProofs**. `PresenceImplementsSessions` gives `SessionsInv`.
  `NamedReturnCancels` is not inductive alone: a timer must not start for a name
  some counted token has given and has (`NamedAreSettled`), which holds because
  every start of a timer goes with a count that reaches 0 or with the loss of
  the name, and because a name is remembered for an open stream only
  (`NamedAreConnected`), so that a count comes back only with a new stream,
  whose handler cancels the timer or forgets the name. `EveryAbsenceIsTimed` has one case per way of leaving; `StaysConnected`
  shows that no other step takes anybody's connection.

The only assumptions are the ASSUMEs of the modules: `None` is neither a token
nor a name, a thread, a timer or a grant, `Consent` and `Unlimited` are distinct
from names and numbers, bounds are natural numbers; and, for `IdleMeansRead`
alone, the two hypotheses named above.

Only model-checked: the liveness properties `WakeupsAreAnswered` and
`ReopenEventuallyAllowed` (fairness and ENABLED are beyond TLAPS' backends), and
the disagreements, which are false. Every invariant and action property that a
passing run checks is stated by a theorem. No module declares a RECURSIVE
operator.

## Disagreements found

Places where the code departs from what a document, a comment or the participant
skill says. Two are runs that expect a violation of what is said;
`PROJECT.json` quotes the line.

| Run | What is said | What happens |
|---|---|---|
| `sessions_count` | `sse_connections` counts active streams | cancel, listen again, then the cancelled stream's guard closes: the new stream is not counted |
| `restart_voices` | two stored tokens of one name should not happen | deletion by the governor leaves the token's row; who registers the name next adds another, and a restart loads both |

Six more are stated as definitions that no run of this directory checks; added
to the configuration as a PROPERTY or INVARIANT, TLC finds each violated.

| Definition | Add to | What is said | What happens |
|---|---|---|---|
| `GovernorApprovesSuccessor` | MCElection | the current governor must approve a successor | an election from before its installation replaces it |
| `ArrivalsAreNotified` | MCMailbox | notify on arrival | a grant request's wake-up is an event no client dequeues on, and suppresses the next notify |
| `DirectGrantsNameTheLiving` | MCGrants | deletion purges every grant | not one approved across the deletion |
| `ReconnectCancels` | MCPresence | participant SKILL.md:422: a reconnect within the settle window cancels the timer | not one that gives no name |
| `ConnectedAreNotMissed` | MCPresence | `delivery.rs` 3905: a timer starts when the last connection has dropped | the late close of a cancelled stream finds a count of one, that of the stream opened since, and starts a timer for a client that is connected under its name |
| `RequestsAreNamed` | MCGrants | `http.rs` 992: who has no name must announce one before requesting a grant | not one that gives its name up between the handler's check and `request_grant` (2672): the request, and the grant if it is approved, are of `""` |

A hub that has loaded two tokens of one name (run `restart_voices`) departs from
more of what is said. Without their `~doubled`, TLC finds violated what
`SpeakersAreSound`, `GovernorIsRegistered` and `AnsweredIsDurable` state:

* both tokens speak for the name, and one of them holds it; an answered
  registration is displaced when the other row is read last (954);
* when one of them deletes the identity, the other still speaks for a name that
  is not registered any more (2390), can file a claim and become a governor who
  is not registered;
* it can also obtain a grant in that name, whose row brings a grant of an absent
  party back at the next restart, without any write cut short (read off
  `RequestGrant` and `Establish`; the run follows doubled hubs without grants).

The others can be read off a single action of the model, which takes the step as
the code does; no definition states the opposite.

| Where (`src/src/delivery.rs` unless named) | What is said | What happens |
|---|---|---|
| 3744, 4112 | participant SKILL.md:449: reconnect with the same name any time after `DELETE /listen` | the name is taken, by nobody; only a governor's rebind gives it back (`CancelListen`, `ListenMayBind`) |
| 4058 | participant SKILL.md:100: 204, the name is bound | announcing an earlier name again is answered 204 and changes nothing (`ReAnnounce`) |
| 1166 | governor SKILL.md:244: a revoked token is refused everywhere | one that also announced another name files a claim (`ClaimElection`) |
| 1893 | 3379: kick pending iff something is queued | the no-grant hint sets none (`NoGrantHint`) |
| 4379 | 4355: drains one thread | drops the others (`DrainQueue`) |
| `http.rs` 864 | participant SKILL.md:391: remaining 0 means stop | also answered when the filter matched nothing (`Remaining`) |
| 4221 | 4209: dequeue re-arms before returning | not for a client that gave up its name (`DequeueUnnamed`) |
| 2950 | `trust.rs` 241: no consent grants with a governor present | approval follows what was recorded at request time (`Establish`) |
| 3112 | participant SKILL.md:293: the recipient waits for the governor | it may deny or hold before (`DenyGrantRequest`, `HoldGrantRequest`) |
| 2719, 3344 | participant SKILL.md:223: without a governor the recipient decides | a resubmitted or held request waits for a governor (`Resubmit`, `HoldGrantRequest`) |
| 2838 | README:269: requests expire after 30 minutes | approval does not look (`GovernorApproves`, `Establish`) |
| 1656 | governor SKILL.md:178: a permanent block of a pair | is by token; a rebound name is free of it |
| 2151 | PRD-v0.2:134: budget checked and charged without a gap | a hold is the gap: two held messages pass a budget of one (`DeliverHeld`) |
| 341 | PRD-v0.2:122: windows end with a party's liveness | only with their age (`WindowExpires`) |
| 1825 | governor SKILL.md:192: revoked pairs get `NO_GRANT` | not while a window is open, and each use opens another (`SendReply`) |
| 1955 | 1937: attachments gated exactly like messages | blocks and mediation are not looked at (`AttachStart`) |
| 2269 | participant SKILL.md:142: an event when a grant peer went offline | not those of its current name when it is revoked under an older one (`DeleteParticipant`, `CloseStream`) |
| 3065 | a requested grant has an expiry | its row has none: after a restart it is unlimited (`GrantAndRowLapse`) |
| 989 | 978: a dangling governor is dropped at load | its row stays, and the restart after somebody has registered the name appoints it (`LoadedGovernor`) |
| `rooms.rs` 139 | leaving a room | by someone who never joined removes an empty room (`LeaveRoom`) |
| 2091, `rooms.rs` | deletion removes a participant | its files and memberships stay, for whoever registers the name (`MayFetch`, `SharesRoom`) |

## Not modelled

* *Persistence.* Statements that fail (the code logs and goes on), the counters of
  use of a grant on disk, and the one-time migrations of older schemas. Sessions,
  Governance, Mailbox, Messaging, Attachments and Presence start from an empty
  hub: what they claim of a restarted one rests on `SpeakersAreSound`, and is not
  claimed of one that has loaded two tokens of one name.
* *Presence.* "online" events and `GET /presence` with its scopes: they read and
  leave nothing behind.
* *Grant requests.* The room gate of `POST /grants/request` (`http.rs` 1000 to 1012).
* *Elsewhere.* The concurrent-use alert, the startup event, message ids and long
  polling (`msg_id_watch`), listing calls: they change no state the properties are
  about. Sizes, types and names of files. Routing, parsing and status codes, the
  environment and the socket: pure I/O.

## Plan

Done: Sessions, Directory, Governance, Mailbox, Grants, Messaging, Attachments,
Persistence and Presence with rooms, with the runs and theorems above. Left, in
this order:

1. The room gate of `POST /grants/request`: rooms composed with Grants, and what a
   request means whose room is gone before the request is stored.
2. Failed statements: which handlers leave hub and tables apart for good.
3. Messaging and Mailbox as one specification of `send` refining both.

## Running

    tlc -workers 2 -config MCSessions.cfg MCSessions
    tlapm SessionsProofs.tla

`PROJECT.json` pairs each configuration with its module. The passing runs take
from twenty seconds to about a minute and a half each on two cores.
