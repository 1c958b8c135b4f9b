# lqxp: TLA+ models, model checking and proofs

lqxp is a chat server written in Rust (`src/rust`). Browsers talk to it over a
WebSocket (rooms, messages, calls, moderation) and over HTTP (accounts, gates
against abuse, an anonymous dead drop); accounts and room records live in SQL, all
else in RAM. At start it fetches and builds its web client from a git repository.

This directory holds a model of each part that keeps state and makes decisions, the
TLC runs that check the models on small instances, and proofs, checked by TLAPS, of
the most important invariants for every value of the constants.

- [Inventory](#inventory): the parts of the system, their state and what is hard about them
- [How the models are made](#how-the-models-are-made)
- [The modules, part by part](#the-modules-part-by-part): state and actions against the code,
  runs and bounds, properties, proofs
- [Disagreements between code and documents](#disagreements-between-code-and-documents)
- [What is proved and what is only checked](#what-is-proved-and-what-is-only-checked)
- [What is not modelled](#what-is-not-modelled) and [the plan](#plan)

Run a check with `tlc -config MCRooms.cfg MCRoomModeration`, a proof with
`tlapm RoomModerationProofs.tla`. `PROJECT.json` lists the runs, the source lines of
every definition, the mutants (a plausible bug for each property, which the property
catches) and the hazards the properties are aimed at.

## Inventory

| Part | State | Operations | What is hard | What makes it correct | Module |
|---|---|---|---|---|---|
| Community rooms and moderation (`websocket/protocol.rs`, room table of `core/database.rs`) | one SQL row per room: owner, roles, bans, timeouts, permissions, flags, member list; the sessions in the room | role, ban, unban, kick, timeout, unmute, transfer, lock, permissions, description, title, icon, delete, create, join, leave, disconnect | every handler reads the whole row, checks its copy, and writes all columns back without a lock; a failing SELECT looks like a missing row | one owner, staff limits, ownership moves by transfer, a ban expels | `RoomModeration` |
| Room history, reactions, polls, link previews | `room_messages`, poll tallies, preview tasks | send, edit, delete, react, vote, preview, leave with deletion, rename | checks and effects under different locks; background fetches that outlive edits; usernames that change hands | history is the latest messages, previews fit the text, deletion is final, authorship follows the account, one vote each | `RoomHistory` |
| Phantom dead drop (`services/phantom.rs`) | queues of envelopes per slot | deposit, poll, background sweep | three limits that meet in one deposit; expiry looked at in queue order only | limits hold, at most once, in order, everything leaves in the end | `DeadDrop`, `BlindMailbox` |
| Anonymous gates (`core/rln.rs`, `vdf.rs`, `pqc.rs`, `cap.rs`, `server/routes.rs`) | RAM stores of used nullifiers, used puzzles, unused keys and tokens | challenge, redeem, register, login, recover, deposit | four gates with different life times, old time stamps, pruning, restarts, retries | each ticket, key and token is spent once, for its own scope, and no two tokens are paid for with the same; a punctual client is not refused | `AbuseGate` |
| Calls and room call access | `is_voice_chat`, `call_room`, `status`, `rooms` of each session; `calls_enabled` of the room's record, the override set, the buckets of the join limiter | join or leave a call by two operations, settings, identify, signal, close and open a room's calls | eviction of the account's other sessions; checks after effects; rules read in steps before the effect | one call per account, no invisible caller, joins counted per account, the room's rules hold | `VoiceCalls` |
| Accounts and sessions (`core/database.rs`, `services/auth.rs`, `services/admin.rs`) | tables `users` and `sessions`; the sockets with the time of their last check | register, login, recover, logout, delete, purge, ban, disable; identify, revalidate | several statements per request without a transaction, dropped anywhere; sockets that rely on a check made minutes ago | a bar takes effect in bounded time, revocation reaches sockets, a reset ends sessions | `Accounts` |
| Account data (`services/user.rs`, `auth.rs`, `admin.rs`, profile cache of `protocol.rs`, `core/database.rs`) | name, profile, picture files, badges, social blob, prekey, block tags; copies in sessions and in the public profile cache | look-up, settings, upload, identify, rename, badges, register, delete, purge, blob, prekey, blocks, paged listing | copies that outlive what they copy; compare and write, count and insert in separate statements; files removed by one request and named by another | the cache is stale for its life time only, stored pictures exist, the limit on blocks is overrun by races only, a browse shows each account once | `AccountData`, `UserListing` |
| Cloud sync relay (ops 60, 62, 63) | account and client id of each session, its outgoing queue of 512 messages | identify, settings, relay, directory, connect, disconnect | recipients are collected under the lock and sent to after it; queues that are full | a device that fetched the directory knows its siblings, frames arrive in order, each once | `CloudSync` |
| Web client preparation (`web/repository.rs`, `startup.rs`) | a git checkout with dependencies and a build | 15 stages, one recovery | every command may fail or be killed half-way; failures are told apart by stage and text | what is served is the revision resolved, only failures at the stages that work on the checkout throw it away, the server comes up unless the remains are of two kinds | `WebDeploy` |

The parts interact as follows. `Accounts` decides whether a socket may act at all;
its ban removes sockets as `disconnect_player` of the other modules does.
`AbuseGate` stands in front of register, login, recover and deposit: a request it
lets through becomes a request of `Accounts` or a `Deposit` of `DeadDrop`.
`RoomModeration` decides who may speak, which `RoomHistory` has as the set
`silenced`; leaving, kicking and disconnecting end calls, which `VoiceCalls` has as
its own actions of the same names. The data that `AccountData` keeps belong to the
accounts of `Accounts`; its deletions and purges are the same requests seen from the
data's side. `CloudSync` has the identification and the end of a session once more,
for what other devices are told. The parts share the session map under one lock
and no other state, so each module has the session fields its own decisions use.

Further parts, all small or without decisions of their own: the rate limiter's other
buckets, presence broadcasts, activity catalogue, Privacy Pass, link preview fetcher,
image formats, downloads page, statistics, feature flags, configuration. See [What is not modelled](#what-is-not-modelled).

## How the models are made

- **A step is what the code does without giving way.** In handlers of the
  WebSocket protocol and of HTTP routes that is the code between two `await`s or
  one critical section of a lock; each SQL statement is a step. Other handlers come
  between. A session's own messages are served one after the other
  (`websocket/mod.rs` awaits `process_message`).
- **Requests come from small sets**, with a budget (`MaxRequests`) or one identity
  per request. Every request a client can make is allowed in any order.
- **What can only refuse before anything was changed is left out** where no property
  depends on it (rate limits, wrong passwords, name checks): the model has then more
  behaviours than the code, which is sound for the properties checked.
- **Scenarios.** Where every kind of request together is too much for one run, the
  constant `Scenarios` lists which kinds meet, with how many requests and how much
  time. `WithinScenario` is a guard on the arrival of requests and on the clock only;
  everything else of the model is the same in all scenarios.
- **Failing SQL statements** are transitions: a failing read looks like a missing
  row in `RoomModeration` and `RoomHistory` because `room_record` maps it to one.
- **History variables** and fields (`overwrote`, `sentence`, `ballots`, `stamps`,
  `passed`, `lag`, `torn`, `cause`, `since`, `marred`, `due`, `misled`, ...) record what a property has to compare with; no action
  depends on them.
- Definitions named `X_...` with the comment "Mutant:" are the plausible bugs listed
  in `PROJECT.json`; nothing uses them.
- **Type invariants.** Every module has one. Those of `RoomModeration`, `RoomHistory`,
  `DeadDrop`, `VoiceCalls` and `WebDeploy` are proved; the runs are spent on the other properties
  where a type invariant would add nothing to them.

## The modules, part by part

### RoomModeration

State: `row` is the room's SQL row (`kind = "none"`: no row), `online` and `inRoom`
the sessions, `job` the handler each session is in with its stage, target and the
copy `snap` it has read. `Request`/`Load` are the common beginning of the
moderation handlers (session, membership, SELECT); one action per handler checks
`snap` and changes it; `Store` writes it back, after which `ban_member`,
`kick_member` and the others go on to remove sessions and to `sync_room_record`
(`SyncNames`, `SyncLoad`, `SyncStore`), a second read-modify-write. `join_game`
enters first, then looks up the ban and undoes itself. `user_id` is the account of each
session: `identify_player` (op 2) may replace it at any time between two requests.

Runs (three users: owner, sub-administrator, plain user who is also a server
administrator; one session each; limits of one moderator and one
sub-administrator):

- `rooms`: three requests out of all eighteen, with one failing statement in a
  request of the staff. Three requests are what the interesting cases take: two
  handlers with the same stale copy and one that profits from it.
- `room_ban_lost`: a violation, see below. Its staff is the owner alone, so that the
  write-back that loses the ban is the one of a join (`sync_room_record`) and not a
  second moderation handler's.

`OwnerIsSoleAdministrator` and `StaffWithinLimits` hold without exception.
`OwnershipMovesByTransfer` and `BanExpels` are stated up to the
write-back of an outdated copy (`overwrote`): the code has that lost update, and the
run `room_ban_lost` shows what it does; the other properties say that nothing *else*
goes wrong. `BanExpels` has a second exception, which is also the code's: a session that
is in the room and identifies anew with the token of a banned account keeps
`PlayerSession.rooms`, and nothing looks up the ban (`protocol.rs:245`). The history
variable `slipped` marks the sessions that got in this way until they join again or
change their account once more; every other path is covered.

Proof (`RoomModerationProofs`). The two invariants about the row are not inductive:
a handler may write back any copy it holds. `RecordInv` therefore says that the row
**and the copy of every handler in flight** are sound records; then writing any of
them at any time is harmless, and each handler has to be shown only to turn a sound
copy into a sound copy (`RoleChangeOK`, `TransferOK`, `FieldChangeOK`). From it
follow `TypeCorrect`, `OwnershipSound` and `LimitsRespected` for any users, sessions,
requests and faults.

`BansExpel` and `OwnershipMoves` compare the row with what it was, so they also need to
know what a handler has changed on the copy it holds: `HeldOK` relates the copy to the
record it was read from (`base`). Only a ban adds a name to the banned, and only its
target; only the owner's transfer changes the owner. As long as no UPSERT overwrites a
concurrent one, the row is that record, and what is true of the copy is true of the step.

### RoomHistory

State: `history` (messages with author, name, body, version, edit time, reactions,
preview), `tallies` (polls), `tasks` (link previews being fetched), the names of
accounts and of their sessions, the bit `silenced`, the clock in milliseconds.
Sending, editing, reacting, voting and asking for a preview are a check, further
checks, and the effect, as in the code; `FetchPreview` ends any task at any time.
Renaming is two steps (the column, then the sessions), and a released name can be
taken by the other account.

Run `history`: two accounts, one with two sessions, three names, four requests, a
history of two messages (so that the cap is reached), three milliseconds, failing
reads. A bug in the order of edits and previews takes a send, two edits and a fetch;
one in voting two sessions of one account; the run has both. The sessions of the
first account are interchangeable (symmetry).

`PreviewIsCurrent` exempts two edits within one millisecond: `edited_at` is the
version the code compares, and it cannot tell them apart. `SilencedStaySilent` is
about requests that begin after the sanction, and only while the record can be read
(a failing read is taken for an open room).

Proof (`RoomHistoryProofs`). All six properties hold for any accounts, sessions,
messages and requests. `Base` has the types, the bound and the order of the ids (they
are consecutive and end with the last one given out), which is `HistoryIsLatest` as an
inductive invariant. With unique ids every step is one of four changes of the history: a
message is stored, one is replaced in its place, some are erased in their places, all
are dropped (`Traced`); that gives the two action properties `DeletedStaysBlank` and
`OnlyAuthorEdits`. Each other property has an invariant of its own on top: `StampsOK`
(every text and every preview task goes back to a recorded edit, so two of them with one
`edited_at` are one text or two edits of one millisecond), `MutedOK` (a request marked at
its beginning does not reach its store while the sanction stands), `VotesOK` (the tally
of a message is the count of the acknowledged ballots for it).

### DeadDrop, BlindMailbox

`store` is the set of envelopes with their deposit number, which gives the order
within a slot; `Deposit` (with the refusal by the byte budget), `poll` (claims the
front of each wanted slot), `sweep_expired`, `Restart` and `Tick` are the actions.
`BlindMailbox` is what the part promises: what is sent is delivered at most once, in
order within a slot, or lost. `ImplementsMailbox` is the refinement, with the
envelopes stored as the pending ones.

Run `dead_drop`: two slots, two per slot, three in all, five bytes, sizes 1 and 2,
five deposits, time to live 2: all three limits are reached, alone and together.

Fairness: `WF(sweep_expired)` because `services/phantom.rs` spawns the sweep on an
interval for the life of the process; `WF(Tick)` because time passes. Nothing is assumed of
clients. Under it `EnvelopesExpire` holds.

Proof (`DeadDropProofs`): `IInv` adds to the types and the two limits that the store
is finite and ids are unique; `LimitsKept`, `ClaimsInOrder` and `Refinement` hold for
all slots, sizes and limits, and so do the types (`TypeCorrect`). `BytesFit` is
about a sum over a set (`MapThenSumSet`), which a fold defines by a function that picks one
entry after the other. `CountExists` and `CountsAgree` show that every finite set has
such a function and that they agree, `BytesAre` that any entry can be counted first;
`BytesGrow` and `BytesShrink` are what the steps need. These are inductions on the
number of entries, carried out on sets of numbers (`Induct`, from the
well-foundedness of `<` on `Nat`).

### AbuseGate

A challenge has a quota ticket, a delay puzzle, a KEM key and a CAPTCHA scope. A
request is a list of gates (`todo`) that it passes one after the other; each gate is
one action under its store's mutex, with a time stamp up to `LockWait` old, since
the code reads the clock before it takes the mutex. A request may name parts of
different challenges. `Restart` empties the stores and changes the secrets. A store
over its cap is pruned.

A redemption names one challenge (`v`: its puzzle, and the scope of its token), but
nothing in `redeem_cap_challenge` (`cap.rs:131-194`) says that the ticket (`c`) or the
key that the ciphertext names (`q`) are of that challenge: the signature it checks
binds the key id in the challenge's body, not the one in the ciphertext. So the model
takes the three independently, as it does for registrations, logins and recoveries.

Run `gates`, in four scenarios: three requests that redeem one challenge and use its
token, over a restart and four instants, so that every life time ends; the same with
deposits and two scopes, without the restart; two redemptions that combine the parts of
two challenges, up to the last instant of the first; two registrations or logins that
do. Three requests are a use, its retry and one with another scope. The cap of the stores is 0, so that pruning always happens.

`GrantsPaidOnce` says of any two tokens that they were paid for with different tickets
(per scope), different keys and different puzzles, and that a token opens one gate. Its
exception is in the code: `verify_vdf` refuses a puzzle when `now > expires_at`
(`vdf.rs:257`), `verify_and_consume_vdf` counts a used one while `expires > now`
(`vdf.rs:240`), so at the instant `expires_at` a used puzzle passes again. With the
ticket and the key of another challenge that buys a second token; the run reaches this.

`PunctualRedeemed` says of a redemption with the parts of one challenge within which
span the gates do not cut each other short: the epochs of the quota ticket, which end
before the three minutes of the challenge.

Proof (`AbuseGateProofs`). `TicketSpentOnce`: `NullifierOnce` is not inductive; one
has to know that a nullifier that was spent is still stored while its ticket can be
accepted. `GInv` says so (`PastOK`), with what is known of challenges (`IssuedOK`)
and of requests in flight (`TodoOK`). It needs the assumption
`NullifierTtl >= (Back + 1) * Window + LockWait`: in the code 180 s against
5 * 15 s, so a request may wait 105 s for the mutex.

`KeyUsedOnce` holds for any life times. The stores of keys and of tokens forget what was
used, so it is not inductive: `KInv` adds that what was used is out of its store and was
issued, hence cannot come back (`StoresOK`, `UsedOK`). `GrantedOnce` rests on it, on
`NullifierOnce` and on `OInv`: what a request has paid follows from how much of its plan
is left (`PlansPaid`), whoever minted has paid at all three gates (`MintsPaid`), and a
puzzle that was used is in its store until its last instant, so nobody passes with it
before (`PuzzlesOK`).

`PunctualAreRedeemed` needs the reverse: what a store holds against a challenge is
somebody's doing. `PInv` says that an entry in the store of nullifiers or puzzles, or a
key that is gone before its time, goes back to a request that presented this part and is
past its gate, which a request still at the gate is not (`SpendersOK`, `NoGateTwice`). It
assumes `ChallengeTtl >= (Back + 1) * Window` (`PartsAssumption`): in the code 180 s
against 75 s. Without it a key pruned at the very millisecond it expires would be
refused within the ticket's epochs.

### VoiceCalls

State: the fields of `PlayerSession` named above, the rooms whose record closes calls
(`closed`), `overrides`, the limiter's join buckets (`joins`) and for each session the
handler with its stage. `update_voice_chat` (op 98) reads the account and its call
(`VoiceRequest`), counts a join (`rate_limit_hit`), reads the room's record
(`CheckAccess`) and the override set (`CheckOverride`), each a step of its own, then
puts the account's other sessions out and announces them afterwards.
`update_call_media_state` (op 110) refuses instead, and looks at neither the limit nor
the room's rules. `set_calls_enabled` and `set_call_access` are the staff's requests;
lost updates of the room's record are the subject of `RoomModeration` and are left out.

`identify_player` takes the account, the status and `isVoiceChat` from the client, all
of them anew each time: the flag is checked against nothing. The history variable
`claimed` has the sessions that are in a call by that word alone; a session leaves it
with its call, or when one of its own joins is granted.

Runs: `calls` (two accounts, three sessions, two
rooms, one of them with a manager, a limit of one join, three requests) and
`calls_evict` (a violation, see below). Three requests are a join, a request that
crosses it and one that changes what it relied on.

- `OneCallPerAccount` and `CallsAreVisible` are what the two joins establish and every
  other request keeps, whatever account a session changes to. Both except the sessions
  in `claimed`: a client that identifies with `isVoiceChat` set has a second or an
  invisible session in the call (`protocol.rs:224-268`), and while it has, op 110 is
  refused to the account's other sessions.

- `JoinsAreLimited`: a join by op 98 is counted in the account's bucket, whichever tab
  makes it. The one exception is in the code: a session that was in a call when its
  request began, and that another tab put out meanwhile, comes back uncounted, so two
  tabs that put each other out in turn are never limited.
- `AccessHeld`: an op 98 that names a room gets a session, from no call or from another
  one, into the call of that room only, and only if the account was allowed to at some
  moment while the request was served; a record that cannot be read counts as an open
  room. It says nothing of an op 98 *without* `gameId`: the code checks it against no
  room (`protocol.rs:1924`), leaves `call_room` empty (2023-2032), and
  `is_call_in_room` (`presence.rs:182-191`) counts such a session as in the call of every room
  it is in, so a plain member is relayed the signals of a room whose calls
  are closed. The model has these requests and what they lead to. Op 110 asks no room's
  rules either. No document says which of the two the server means, so there is no
  finding.

Proof (`VoiceCallsProofs`): types, `OneCall` and `VisibleCalls` for any number of sessions
and rooms and whatever clients identify with, with the exception of `claimed`: each
step either takes sessions out of calls, or brings one in after it has put out, or
found absent, all others of the account. The inductive invariants of `JoinsCounted` and
`RoomRulesHold` follow a request from its first read:
`CountedInv` says that a request that is free of the limit is one whose session is
still in its call or has been put out since, `AccessInv` that a request whose room is
open to its account has the right noted, and that none that names a room reaches the
write section without it. The work is in the lemmas on what a step does to the handlers of *other*
sessions (`AfterVoice`, `AfterOpening`, `OpeningGrants`).

### Accounts

Tables `account` and `row` (sessions), the sockets `sock` with the time `stamp` of
their last check, the message `ws` a socket is being served, and the requests `job`.
A request is the list of its statements; it can be dropped before any of them
(`Drop`: the client hangs up and axum drops the future, or a statement fails).
`Identify`, `IdentifyOwner`, `identify_player` are the two lookups and the write of
op 2; `ServeFresh`, `RecheckBegins`, `revalidate_session`, `RecheckGone` a message
with and without a new check.

Run `accounts`: one account with up to three sessions, one socket, two requests of
any of eleven kinds, three instants with a check that lives two. Two requests give
every race of two operations on one account; accounts do not share rows.

- `BarTakesEffect`: a socket is served for less than `Every + Delay` after its
  account was barred, whatever was dropped. Exempt are sockets served although their
  check failed: `revalidate_session` lets a message pass when the database does not
  answer.
- `RevocationReachesSockets` exempts requests that were dropped or are still at
  work, `purge_accounts` (which disconnects nobody), a logout whose token has no
  account in good standing, and sockets identified from what was read before the
  request; `BarTakesEffect` bounds what they can do.
- `ResetEndsSessions` exempts a login that compared the old password before the
  reset and inserts its session after it.

Proof (`AccountsProofs`), for any accounts, tokens, sockets, requests and waits.
`BarTakesEffect` speaks of the last message served; the inductive invariant
`AInv` says of every socket that its stamp is at most `Delay` younger than the bar of
its account (`CheckedBefore`), of an identification under way that it found its account
in good standing no later than the bar and `Delay` ago at most (`SeenAt`), and of a
check under way that the socket still acts for the account it asks about. What requests
do to sessions and sockets plays no part: the bound holds if every disconnection is lost.

`RevocationsReach` and `ResetsEnd` are about what requests do, statement by statement.
`WorkOK` says that the statements a request has left are the rest of one of the plans
the code has (`ResetSteps`, `LogoutSteps`, `DeleteSteps`, `RemoveSteps`, `PurgeSteps`,
`BarSteps`). `SocketsCovered` follows from where each of them stands: a socket whose
session is gone or whose account is barred is one that a request still owes its
disconnection (`Owing`), or is excused as the property says (`Excused`). `ClaimsOK`
(a token is generated for one account) and `OldSessionsEnd` (a session opened before a
reset is among those the reset has still to delete) give `ResetsEnd`.

### AccountData, UserListing

State: the row of each account (`row`: name, picture, the rest of the profile as one
value, badges, version and writer of the social blob, time of the last rename), the
upload directory `files`, `prekeys`, `blocks`, the profile held by each session
(`sess`), the public profile `cache` and the requests `job`. A file is named after the
request that stored it. One action per statement, file operation or critical section:
`LookInCache`, `ReadPublic`, `FillCache` are a look-up of `request_public_profiles`,
which reads the clock once, before all of them; `StoreFile`, `ShowInSessions`,
`RemoveOld`, `PersistProfile`, `Invalidate` an upload; `CompareVersion` and
`StoreBlob` are `put_social_blob`; `CountTags` and `InsertTag` `add_block_tag`.
`Abandon` ends a request between two steps. `UserListing` has the pages of
`list_users_page` as operators: keyset pagination with one row fetched in advance and
rows that do not decode skipped.

Abstracted: the banner (handled as the avatar is), the text fields of a profile (one
value), filters of the listing (conditions on single rows), one hint per block update.

Run `account_data`: two accounts with three sessions, one row that does not decode,
one account that registers, three requests in eight scenarios: look-ups with every
change that concerns the cache, profile requests with each other, the blob, prekeys
and blocks, the listing with registrations, renames and deletions. Pages of one row,
a limit of one block, a cache that is always pruned and lives one instant reach all
limits.

- `StaleWithinTtl`: what a look-up takes from the cache was true less than the cache's
  life time before it was asked, whatever crosses.
- `OwnIdCurrent`: under its own id an account is never found with an old name or
  badges once the change is done. Exceptions, all in the code: a look-up that read the
  account before the change and stores it after the invalidation, `purge_accounts`,
  which invalidates nothing, and a request abandoned between its statements.
- `PicturesExist`: the picture of a stored profile is in the upload directory as long
  as requests on one profile do not overlap. Overlapping ones can leave a profile with
  a picture that is gone: an upload removes the file the account had when it asked.
- `BlocksBounded` says how far the check of the limit can go wrong: by a tag too many for
  each further session. The other check-then-act pair, the version of the social blob,
  has no property: see the disagreements.
- `ListedOnce`: an account that is there throughout a browse is on exactly one page.

Proof (`AccountDataProofs`), of all five properties, for any accounts, sessions and
requests, any limit, life time and page size. The common invariant `Base` gives the
types and says which stage of which request remembers what (`Plans`, `Fit`). None of
the properties is inductive; each has an invariant of its own on top of `Base`:

- `NotShownForLong`: `AgedOK` says of an entry that no longer shows the account as it is
  that it expires within `Ttl` of the last change (`since`), and of a look-up about
  to store such a copy that it was asked no later than that change.
- `TagsBounded`: `BlocksOK` counts, with the tags, the insertions under way that have been
  counted already; `SoleOK` (a session serves one request at a time) bounds them by
  the account's sessions.
- `FoundUnderItsId`: `CurrentOK` says of an entry under the account's own id that it
  agrees with the row or a request has still to invalidate it (`PendingIn`), and of a
  look-up that nothing overtook that its copy is the row.
- `PicturesStay`: `OwnersOK` says which file names a row, a session or a request can
  hold, so that an upload removes no other account's file and its own is new; `Pictured`
  says where the file in use is named while the one upload is at work.
- `EachListedOnce`: `ListedOK` says that a steady account has been shown once if its
  place is behind the cursor and not at all otherwise. `PageCuts` is the fact about
  `UserListing` it needs: a page holds exactly the well-formed rows between the cursor
  and the next one. It rests on the order being total (`Ordered`), on the first `n` of a
  finite set being a beginning of it (`FirstComesFirst`, `FewAreAll`, `LastOne`) and
  on ranks being as many as elements (`Ranks`), by the well-foundedness of `<` on `Nat`.

### CloudSync

State: `player` (account and client id of each session), its outgoing `queue`, the
handler at work and the end of a session as tasks with the recipients still to send to
(`Collect` under the lock, one `SendTo` per recipient after it), and what the devices
have learnt (`known`, `fetched`). The devices are external and follow the client
contract of `explain/09-qxcloudsync.md`; frames are opaque; the platform is left out
but for the event that it changed.

Run `mesh`: three connections, two accounts, two client ids, queues of two messages,
up to four messages and one ended session, in four scenarios (presence with a
disconnect, with settings, with the relay, relay with a disconnect). Two sessions that
know each other take two identifications; a third makes the directory and the joins
race, and a queue of two overflows.

- `KnowsMesh`: when nothing is under way, a device that has fetched the directory knows
  every sibling it can address. Exceptions, all in the code: a queue that overflowed, a
  session that identified again as another account with its old id (only new ids are
  announced), and a device that reconnected under its id before the leave of its old
  session was sent.
- `FramesInSequence`: frames of one session reach another in order, each once, none
  passed over but for a full queue.

Proof (`SyncAndDeployProofs`), of both properties and the types, for any devices,
accounts, ids and messages and any limit of sessions and queue. `Base` says what a task
can be at each stage (`Proper`), that only who has identified sends or is sent to, and
that who has not has nothing queued. Neither property is inductive:

- `MeshKnown`: `KnowsMesh` speaks of rest only. `MeshOK` says at every moment where the
  knowledge of a sibling's id is: a join or directory that holds it is in a task
  (`Coming`), or is queued with nothing behind it that takes the id away (`Lined`), or
  has been taken (`Kept`), or the device is about to know that it has no directory
  (`Unfetched`). Collecting the recipients, sending and taking a message move it on.
  A leave can take an id away wrongly only where the exception records it (`misled`),
  the answer that a frame found nobody only together with the directory.
- `FramesOrdered`: `FramesOK` says that a frame is due exactly while it is queued or
  being sent, that a queue holds the frames of each session in their order, and that the
  frame being sent is later than all those queued. A session sends one frame at a time,
  which is why no handler can overtake itself.

### WebDeploy

`disk` is what is at the checkout's path: nothing, a file, a directory, or a clone
with the revisions it knows, has checked out, has dependencies for and has built, and
possibly damage, known by the stage that trips over it, or `lock`, the damage that
`git fetch` reports with one of the texts of `is_stale_git_lock`. `enclosed` says that
the path lies inside another repository's work tree, as it does when `QXP_ROOT` is a
checkout of the server (README quick start, `pm2.config.cjs`, `update.sh`): in a plain
directory git then takes that repository, every git stage succeeds, and no build appears
in the directory. `Succeed` is a stage that
works, `ResolveRevision` and `VerifyOutput` the two with a decision, `Trip` one
that fails on damage, `FailAnyway` one that fails without: the tool cannot be started,
one of the three storage texts, the network, the client's sources, or `other`, which is
every nonzero exit that says nothing `run` knows (git killed, a quota, an I/O error, an
owner that git refuses). At the stages of `LocalStages` the code takes `other` for a
corrupt checkout, as the model does.
`remove_checkout` the recovery before the single second attempt. `Crash` leaves the
disk in any of the states the command at work can leave.

Run `deploy`: any initial state of the path, three faults, three revisions. Three
faults are a crash in the first attempt, one in the second and a failure after.

Fairness: `WF(Work)`, the process goes on; `WF(Restart)`, because
`docker-compose.yml` has `restart: unless-stopped`. Faults are finite in number. `Heals`
then says that the server comes up and stays up, or that the path stays `Stuck`: with
damage that shows in `git fetch` without a lock's text or when the revision is resolved
(a lock left by a killed `git remote set-head`, missing objects), or as a plain directory
inside another repository. No start gets over these, because their failures have the
kinds External, Source and Output; see the disagreements.

`OnlyLocalFailuresRemove` does not say that a checkout which is thrown away was damaged:
the code cannot tell. It says which failures can lead to the removal, and that the second
attempt of a start never does.

Proof (second part of `SyncAndDeployProofs`; the names `DeployInit`, `DeploySpec` and so on
let it extend both modules, which share no state): the types, `ServedIsResolved` and
`RemovedForLocalFailure`. `ServesItsRevision` speaks of the last stage only; the inductive
invariant `Established` says, stage by stage, what the stages before have made sure of:
there is a repository, or a directory without contents of its own, from `SetOrigin` on,
the repository knows the wanted revision after `Fetch`, the tree is at the resolved revision after
`Checkout`, no older build is left after `Clean`, the dependencies are those of the
tree after `BunInstall`. A failure, a crash or the recovery leads back to stages that
rely on nothing, and the recovery begins in the first attempt only. For
`OnlyLocalFailuresRemove`, `Removal` says that the recovery follows a failure that is
`Local`, and that a clone is made only where nothing is.

## Disagreements between code and documents

Each is a run that TLC ends with a counterexample, and a finding in `PROJECT.json`.

- `room_ban_lost`: a join ends in `sync_room_record`, which writes back a record it
  read earlier. In the run the owner's ban is stored between the read and the write of
  another member's join, is gone, and the banned user's join is accepted; `explain/04-message-transport.md:90` says such joins are rejected.
- `history_erase`: leaving with "delete my messages" selects messages by username.
  An account that has taken over a released name erases what its former holder wrote;
  the comment on `is_message_author` says authorship is decided on the account id.
- `calls_evict`: `update_voice_chat` puts the account's other session out of its
  call before the checks that may refuse the request; on refusal nothing is
  announced, against the comment at `protocol.rs:2076`.

Met while modelling, in the models, and not the subject of a run:

- `explain/05-phantom-protocol.md:224-226` says of the social blob "strict
  last-write-wins: the version must be strictly greater than the current version,
  otherwise the server returns `409`". `put_social_blob` (`database.rs:1302-1329`)
  reads the version in one statement and writes in another: of two devices that both
  read version 1, the one that stores 3 first is overwritten by the other's 2, and both
  are answered 200 (`CompareVersion` and `StoreBlob` of `AccountData`).
- `docs/docker-deployment.md:80` says "Local checkout corruption is recloned once."
  Damage that git reports at `git fetch` without a lock's text, or at `git remote
  set-head` and `git rev-parse` (`repository.rs:243-309`), has the kinds External and
  Source and ends every later start; inside another git repository a plain directory
  passes for a checkout (`repository.rs:194-204`) and ends every start for its missing
  output. These are the states `Stuck` of `WebDeploy`, the exceptions of `Heals`.
- The same file's "Network/authentication, permissions/storage, missing Git/Bun, ...
  stop the container" is so for the three storage texts of `run`
  (`repository.rs:424-432`) only: a quota or an I/O error at a stage of `LocalStages` is
  taken for corruption and removes the checkout (`Causes`, `Kind`).

## What is proved and what is only checked

| Property | TLC | TLAPS |
|---|---|---|
| room types, `OwnerIsSoleAdministrator`, `StaffWithinLimits` | rooms | `TypeCorrect`, `OwnershipSound`, `LimitsRespected` |
| `OwnershipMovesByTransfer`, `BanExpels` | rooms | `OwnershipMoves`, `BansExpel` |
| `HistoryIsLatest`, `DeletedStaysBlank`, `OnlyAuthorEdits` | history | `LatestKept`, `DeletionFinal`, `AuthorsEdit` |
| `PreviewIsCurrent`, `SilencedStaySilent`, `OneVotePerAccount` | history | `PreviewsCurrent`, `SilenceKept`, `VotesCountedOnce` |
| dead drop types, `EnvelopesBounded`, `ClaimsFreshInOrder`, `ImplementsMailbox` | dead_drop | `TypeCorrect`, `LimitsKept`, `ClaimsInOrder`, `Refinement` |
| `BytesBounded` | dead_drop | `BytesFit` |
| `EnvelopesExpire` | dead_drop | |
| `NullifierOnce` | gates | `TicketSpentOnce` |
| `KeyOnce`, `GrantsPaidOnce` | gates | `KeyUsedOnce`, `GrantedOnce` |
| `PunctualRedeemed` | gates | `PunctualAreRedeemed` |
| call types (proved only), `OneCallPerAccount`, `CallsAreVisible`, `JoinsAreLimited`, `AccessHeld` | calls | `TypeCorrect`, `OneCall`, `VisibleCalls`, `JoinsCounted`, `RoomRulesHold` |
| `BarTakesEffect` | accounts | `BarsTakeEffect` |
| `RevocationReachesSockets`, `ResetEndsSessions` | accounts | `RevocationsReach`, `ResetsEnd` |
| `StaleWithinTtl`, `OwnIdCurrent`, `PicturesExist` | account_data | `NotShownForLong`, `FoundUnderItsId`, `PicturesStay` |
| `BlocksBounded`, `ListedOnce` | account_data | `TagsBounded`, `EachListedOnce` |
| `KnowsMesh`, `FramesInSequence`, cloud sync types (proved only) | mesh | `MeshKnown`, `FramesOrdered`, `SyncTypeCorrect` |
| types of `WebDeploy`, `ServesItsRevision`, `OnlyLocalFailuresRemove` | deploy | `DeployTypeCorrect`, `ServedIsResolved`, `RemovedForLocalFailure` |
| `Heals` | deploy | |

Liveness (`EnvelopesExpire`, `Heals`) is out of the prover's reach and stays with TLC. The proofs assume
the named assumptions of the modules (`ModelAssumption`, `StaffAssumption`,
`HistoryAssumption`, `DeadDropAssumption`, `GateAssumption`, `PartsAssumption`,
`NoneAssumption`, `CallAssumption`, `AccountsAssumption`, `DataAssumption`, `KindsAssumption`,
`SyncAssumption`, `WebDeployAssumption`), which TLC evaluates in every run. `NoneAssumption` and `KindsAssumption`
say that the model value `None` is no record and no kind of request, as no value the
code stores is absent. `DataAssumption` asks for finitely many sessions and at least
one profile text. Every safety property of the passing runs is proved.

## What is not modelled

- Cryptography, hashing, string checks: abstracted to what they decide.
- The broadcasts a handler sends at its end, except where a property is about them
  (`VoiceCalls`), and everything a client shows.
- Rate limiter: fixed windows under one mutex; only the bucket of call joins is
  modelled, the others refuse requests before anything is changed. Twice a limit
  passes around the end of a window, and `explain/07` gives other numbers than the
  code.
- `change_username` compares the time of the last change and writes in two statements;
  the model has it, and no property is about it.
- Reactions on deleted messages, the history of a room deleted while a message is in
  flight, the call room kept across a kick: modelled where they touch a property's
  state, but no document or test says what should happen.
- Activity catalogue, Privacy Pass (a stub that always refuses), image formats and
  message attachments, downloads page, statistics, settings, configuration: I/O or
  single-statement writes.
- The fan-out of presence and profile changes to the members of rooms: messages that
  no decision of the server depends on.

## Plan

In the order of importance; what is done comes first.

1. Done: the models of rooms, history, dead drop with its abstract mailbox, gates, calls
   with the rules of rooms, accounts, account data with the user listing, cloud sync
   relay, web client preparation; the proofs of every safety property of the runs
   `rooms`, `history`, `dead_drop` (with its refinement), `gates`, `calls`, `accounts`,
   `account_data`, `mesh` and `deploy`.
2. Proofs next: those that the models of items 3 and 4 will owe, above all the
   refinement of item 4.
3. Models next: activity catalogue with its refresh; Privacy Pass nonces; the order in
   which handlers take the locks of `AppState`.
4. An abstract specification of a moderated room (a record that each request changes
   atomically) that `RoomModeration` implements up to lost updates.
