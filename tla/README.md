# Verification of The Bit and Bond

TLA+ models of the server of The Bit and Bond (a guild game for a family: quests and habits
are rewarded with xp and coins, coins buy items in the guild's shop), model-checked with TLC,
and theorems about them proved with TLAPS. Sources are cited relative to the repository;
`S/` stands for `apps/server/src/`.

## The system

A Flutter client (`apps/client_flutter`) talks to one Rust server (`apps/server`, Axum on
tokio) over HTTP and a WebSocket. The server keeps almost everything in PostgreSQL, through
SeaORM at the default isolation level READ COMMITTED; a few things live in its memory.
Every request is one tokio task. Requests of one guild meet only in the database, in the
in-memory maps below, and in the presence hub.

| component | source | state | operations | what makes it hard |
|---|---|---|---|---|
| guild shop | `S/api/shop.rs` | `guild_items`, `hunters.coins`, `hunter_inventories`, purchase rows of `hunter_reward_ledger` | create, update, deactivate item; buy | idempotency keys, row locks, unique-index race, price read outside the transaction |
| inventory | `S/api/inventory.rs` | `hunter_inventories`, a system row in `chat_messages` | use | row lock taken in the other order than a purchase; notice after the commit |
| quests and rewards | `S/api/quests.rs` | `quests`, `quest_proof_media`, `hunters.xp/coins/level`, reward rows of the ledger | create, submit, upload proof, review | unlocked read, then write by primary key; absolute totals; cycles and streaks by calendar day |
| hunters | `S/api/hunters.rs` | `hunters` | create, reset PIN, stats | PINs checked, then inserted; stats sum the ledger, balances are stored |
| social, guild invites | `S/api/social.rs` | `friend_requests`, `friend_links`, `guild_invites`, `hunters.guild_id` | request, answer, link, invite, join | check-then-insert, crossing requests, answers from two devices |
| chat | `S/api/chat.rs` | `chat_messages` | send, history | retries deduplicated by `client_message_id` |
| media | `S/api/media.rs` | files, `media_assets`, `media_once_deliveries` | upload, send once, open, fetch, export | a view-once picture is opened in three unlocked steps; file and row are not one transaction |
| direct messages | `S/api/direct_messages.rs` | messages, device keys, read markers, capabilities | send, register and revoke keys, read | dedupe, key revoked while in use, markers |
| accounts | `S/auth.rs`, `S/auth_throttle.rs`, `S/jwt.rs`, `S/extractors.rs` | `users`, `guilds`, failed attempts (memory) | register, log in, Firebase log in | several unique columns, retry with a new id, throttle in two critical sections |
| realtime | `S/realtime_ticket.rs`, `S/api/realtime.rs`, `S/presence.rs` | tickets, poses and broadcast channels (memory), Redis | issue, consume, subscribe, publish, prune | snapshot against events, slow receivers, reconnects, several nodes |
| client | `apps/client_flutter/lib/state`, `lib/core` | session, messages, keys, socket | every call above | lost answers, optimistic messages, reconnects |

What makes each correct:

- **shop and inventory**: a key is charged at most once; coins, inventory, ledger and chat
  agree; a hunter never spends coins twice; every request is answered.
- **quests**: a pending quest is rewarded once or not at all; a completed quest has been
  paid; a habit counts once per cycle and its streak counts consecutive cycles.
- **ledger**: it explains every balance.
- **social**: links are symmetric and come from an accepted request; a hunter ends up in the
  guild whose invite was accepted last.
- **media**: a view-once picture is seen once; no delivery without its file.
- **direct messages and chat**: a message sent twice is stored once; nothing new is
  encrypted to a revoked key; read markers do not move backwards.
- **accounts**: one account for each email, tag and player id; a lock is not passed early.
- **realtime**: a ticket admits one socket; a session sees every pose from its snapshot on;
  a reconnecting hunter is not removed by the old session.

The hazards behind these are listed one by one, at their lines, in `PROJECT.json`.

## Modules

| module | models | uses |
|---|---|---|
| `Settlement` | shop, inventory, quest submission and review, the ledger, and the members of a guild: the handlers statement by statement | `GuildShop` |
| `GuildShop` | what buying and using promise, each in one step | |
| `Handlers` | the life of a request handler: begun, continued, answered, dropped | |
| `Habits` | habits over days and weeks: cycles, streaks, completions, and reviews that race | `Handlers` |
| `Friends` | friend links and friend requests, with the locks of their unique indexes | `Handlers` |
| `Guilds` | accounts, guilds, owner hunters, PINs, guild invites | `Handlers` |
| `Media` | images: files and rows, view-once deliveries, exports, proofs | `Handlers` |
| `Messages` | direct messages, device keys, conversation capability, read markers, chat, histories | `Handlers` |
| `Tickets` | the tickets that open realtime sockets | |
| `Presence` | the presence hub of several nodes, its channels, Redis, and sockets opened with tickets | `Tickets` |
| `Throttle` | the login throttle | |
| `Schema` | every migration up and down, and what every entity expects | |
| `Server` | processes that migrate, serve, stop and start over one database; logins behind the throttle | `Schema`, `Throttle`, `Handlers` |
| `MC...` | constants of each module for TLC | |
| `..._proofs` | theorems, for all values of the constants | |

Operators whose comment begins with `mutant` are plausible faults of the code, one for each
property; put in place of the definition they vary, they make that property fail. They are
not part of the specification.

### Settlement

*State.* `hunters`, `members`, `items`, `quests`, `cycleDone`, `inventory`, `purchases`,
`rewarded`, `messages` are the committed rows of the tables of the same names; `ledgerTotal`
is the sum `hunter_stats` computes; `notices` is what the presence hub was given. Each
handler slot has a program counter `pc`, the request `req` it serves, and `seen`: values it
has read, or has written and not committed. `overwritten` is a history variable: the hunters
whose row a review wrote from a read that was no longer current. `left` bounds the requests.

*Steps.* A step is one SQL statement, or several that no other request can tell apart
because they touch only rows this request has locked. The row locks of PostgreSQL are not a
variable; they follow from where a handler is (`HoldsHunter`, `HoldsStock`, `HoldsQuest`),
and `WaitsFor` says which statement needs which row. A lock is held to the end of the
transaction. Three of these waits are easy to miss in the source:

- `buy_item` takes `FOR UPDATE` on the hunter's row (`S/api/shop.rs:342`), and the chat
  message of a use has a foreign key to that row, so inserting it waits for the purchase;
- a use holds the inventory row while it waits, a purchase upserts that row while it holds
  the hunter: the two can deadlock, and PostgreSQL aborts one (`DeadlockAbort`);
- two approvals of one quest are serialised by the UPDATE of the quest
  (`S/api/quests.rs:475`), which is after the check of its status.

| action | code |
|---|---|
| `BeginBuy` `BuyFind` `BuyRefuse` `BuyLock` `BuyUpsert` `BuyInsert` `BuyDuplicate` `BuyLookup` | `buy_item` and its helpers |
| `BeginUse` `UseLock` `UseCommit` `UsePublish` | `use_inventory_item` |
| `BeginSubmit` `SubmitUpdate` | `submit_quest` |
| `BeginReview` `ReviewReject` `ReviewTakeQuest` `ReviewReadHunter` `ReviewPay` | `review_quest` |
| `CreateQuest` `CreateShopItem` `UpdateShopItem` `DeactivateShopItem` | the handlers of these names; a single write |
| `LeaveGuild` | `respond_guild_invite`, seen from the guild that is left |
| `DeadlockAbort` | PostgreSQL (external) |
| `Drop` | the client disconnects or the server stops (external): the future is dropped, an open transaction rolled back |

A request that its first read refuses changes nothing and is left out. The initial balance
stands for rewards of quests paid earlier; a new hunter has none.

*Properties.* `LockedReadsHold` is the reason why buying is right: between the lock and the
commit neither a review nor another purchase moves the coins, although a review takes no
lock when it reads. `InventoryBalanced` and `LedgerBalanced` relate tables that different
handlers write. That a key is charged once is the unique index on (hunter, key), which
`BuyInsert` takes as given; what can go wrong is what surrounds it, the work undone when the
index refuses a row, the row that a replay looks for, and the answer a second copy gets
(`InventoryBalanced`, `ReplayRecordPresent`, `RetriesAreReplayed`). `LedgerBalanced` states exactly when a balance may leave the
ledger: after a review that wrote over a commit it had not seen, and in no other way.
`CompletionIsPaid` says that no failure in the middle of a review completes an unpaid quest.
`ImplementsShop` is refinement: with all their interleavings, `buy_item` and
`use_inventory_item` are the atomic `Buy` and `Use` of `GuildShop`, at one price each.
`PurchaseNeedsMember` is about a hunter who moves to another guild while buying.

### Handlers

`task[s].at` names the next statement of the handler in slot `s`; the other fields are its
request and what it has read, so that it acts later on a row that may have changed since.
`Begin` stands for the first reads, `Continue` and `Answer` for the statements after it,
`Once` for a request of one statement, `Abandon` for a future that hyper drops. `left` bounds
the requests. All modules below but `Presence` are built on it.

### Habits

*State.* `habit` is the `quests` row of each habit, `today` the date of the clock, `paid` the
days of its approvals. *Steps.* `submit_quest` reads the row, then takes the date;
`review_quest` takes the date, then reads the row; both write by primary key later
(`SubmitWrite`, `RejectWrite`, `ApproveWrite`). `Tick` is midnight, between any two steps. The
UPDATE of an approval and the COMMIT are one step, because a transaction that fails leaves
nothing and the rewards are in `Settlement`.

`Anchor`, `PreviousAnchor` and `NextStreak` are `cadence_anchor`, `previous_cadence_anchor` and
`next_habit_streak`. `StreakIsRun` compares what reviews count on step by step with a reference
definition: the longest run of consecutive days or weeks, by division, in the set of all
approvals. `PaidOncePerCycle` is about a check that is made when a habit is submitted and never
repeated. Both speak of habits that no handler has written from a stale read (`disturbed`);
`CountsOrdered` holds of all.

### Friends

*State.* `links` and the status of each ordered pair's `requests` row. *Steps.* A friendship is
two INSERTs in one transaction: `add_friend` inserts both (`InsertLink`), an accepted request
looks for each link right before it inserts it (`EnsureLink`). An INSERT waits for another
transaction that has inserted the same row (`WaitsFor`); two hunters who add each other at once
insert in opposite orders and deadlock, and PostgreSQL aborts one. `AnswerMatchesLinks` and
`AnswersStand` relate the request to the links it should have made, through overlapping answers
and crossing requests.

### Guilds

*State.* `users`, `guilds` (named by their owner: `owner_id` is unique), the `hunter` rows and the
`invite` rows. *Steps.* Registration is one transaction. A login with an e-mail address looks for
the user, the guild and the owner hunter and makes what is missing, each a statement of its own
(`LoginUser` to `OwnerUpdate`, `HunterInsert`). `CreateInsert` and `ResetWrite` follow a check of
the PIN; `InviteMove` moves a hunter to the guild of an invite. `MastersOwnTheirGuild` names the
one way in which a guild gets a master of another account (a login that read the hunter before an
invite moved it), `InvitesExplainMoves` says that nobody changes guild without an invite.

A PIN that the program picks is any that was free when it looked, and "9999" when all 10,000 were
taken (`Available`, `LastPin`): the code then hands out a PIN that some hunter has, and `crowded`
records to whom. `PinsDistinct` says that two hunters of a guild have equal PINs only in two ways:
one was written after a check that the other's write overtook (`pinRace`), or one was given
`LastPin` for want of another and has it still. A PIN that a person chooses is refused when in use
(`BeginCreate`, `BeginReset`).

### Media

*State.* `files` on disk, `assets` (of which the rows of `quest_proof_media` are those of mode
"proof"), `deliveries` and `exports` as rows, the `guild` of each hunter, `served` and `seenBy` as
history. *Steps.* No handler uses a transaction: `UploadVault`, `SendOnce` and `UploadProof` write
the file, then `InsertAsset`, `InsertDelivery`, `InsertProof` the rows. `BeginOpen` reads the
delivery, `OpenWrite` stores a token; `BeginFetch` reads it with the token, `FetchWrite` consumes
it, `FetchServe` sends the bytes. `Drop` cuts a handler off between any two. `ViewedOnce` holds
except for `contested` deliveries: an open or a fetch that had read the delivery unconsumed
writes it after another fetch. `NoViewAfterExpiry` bounds how late a view may start, since
`get_once_media_content` looks only at the expiry of the token.

Three routes serve images and each has a check of its own: the token route, the route of assets
(`ReadAsset`: owner, both ends of a delivery, and friends for the vault) and the route of proofs
(`ReadProof`: every hunter of the guild the proof was uploaded in). `ChangeGuild` is the effect of an
accepted invite on the hunter's row; images keep the guild they were uploaded in. `OnlyEntitledSee`
is about all three: who has received an image, and in which guild when asking. The claims, the row
and the file are read in one step there: an answer that was under way when the hunter moved is not
told from one before the move, and neither rows nor files that have a row are ever removed.

### Messages

*State.* `rows` of the three message tables, device keys, the capability of the conversation,
read markers. *Steps.* A plain or chat message is one INSERT with its unique index; an encrypted
one is the look-up of two device keys, the INSERT, and SELECT and write of the capability. A mark
reads two tables, then the marker, then writes it. `walk` is a client that reads a history page by
page with `before_ms`. Time is in half milliseconds, because `sent_at_ms` and `before_ms` drop what
the database keeps. `SendsOnce`, `PagesComplete`, `MarkedIsRead`, `MarkerForward` and
`SentToActiveKeys` each say what is promised and name the overlap in which it is not kept.

### Tickets and Presence

*State.* For each node its tickets, the pose of each hunter, and what Redis has for it; for each
session its socket, the pose its task is publishing, the events its broadcast channel keeps, and
what its client shows. *Steps.* `publish_event` and `subscribe` run under the hub's write lock and
are one step each; a pose is published on the node and then to Redis (`PublishLocal`,
`PublishRedis`); `Deliver` hands on an event; the channel drops its oldest event when full;
`Reconnect` loses what Redis had for a node, `Restart` everything in its memory. `ViewFollowsNode` is
what the client sees against what its node knows; `missed` is what an overflow of the channel has
overwritten and no later event has repaired. `NoGhostAtHome` and `PosesStayKnown` are the two sides of
`remove_session`: it removes every pose of the session that ends, and no pose of another, in
particular not of the session with which the same hunter has reconnected.

### Throttle, Schema and Server

`Throttle` counts failed logins of each account in the memory of a node; each operation is one
critical section. Times are instants of which `Second` make one second, since a remaining lock is
rounded down. `Schema` writes each migration as a sequence of statements on a catalogue of tables,
columns, indexes, foreign keys and types, and the rewriting of rows (`BackfillOwner`, `HashPins`) as
functions of the hunters; a statement that PostgreSQL would refuse makes the migration fail.
`Server` starts processes over the database an earlier release left (`Deployed`): `StartMigrating`
reads the list of applied migrations, `FinishMigrating` runs what was pending and commits, so two
processes may run the same ones; a process may be stopped, an operator migrates up, and down while
no process migrates. Logins go `BeginLogin` (look at the throttle), then success or failure is
recorded in a second critical section. `HistoryExplainsSchema` compares the database with
`SchemaAt[k]`, built from nothing. `Executed` is the migrator's loop over the migrations, up in the
order of the list and down against it, over those that are due; `RunAll` runs the statements of one.
`MigrationsAssumption` records what the fixed scripts do to the catalogue, for the proofs.

## Runs

| run | instance | shows |
|---|---|---|
| `settlement` | 1 hunter, 1 item at 2 prices, a chore and a habit, 2 keys, 3 slots, 4 requests, drops | all safety properties and the refinement |
| `settlement_liveness` | 2 hunters, one of them the master, both may leave; an assigned quest; 2 slots, 4 requests, no drops, `FairSpec` | every request ends, every committed use is announced, no purchase outlives membership |
| `habits` | 1 habit, daily or weekly, eleven days with two Mondays, 2 slots, 7 requests | streaks against their reference, one payment for a cycle |
| `friends` | 2 hunters, 3 slots, 5 requests, drops, fairness | links are mutual, requests agree with them, handlers end |
| `guilds` | 2 accounts, 3 hunters, 2 PINs, 2 invites, 2 slots, 6 requests, drops | masters, PINs and moves |
| `media` | 2 images, 3 hunters of whom two are no friends, 2 guilds, one hunter who moves between them, 3 tokens, 2 slots, 5 requests, 4 instants | files and rows, view-once, exports, who sees what |
| `messages` | 2 hunters, 2 messages, 2 client ids, 2 slots, 4 requests, pages of 1 | dedupe, paging, markers, keys |
| `presence` | 2 nodes, 2 hunters, 2 tickets, 2 sockets, 3 moves, a channel of 1, 2 instants | tickets, snapshot and events, what a node keeps and forgets, order |
| `server` | 2 processes, 2 guilds, an account, 3 starts or commands, 3 logins, 4 instants | schema, what is served, locks |
| `settlement_ledger` | 1 hunter, 2 slots, 3 requests | **violated**: `BalanceIsLedger` |
| `settlement_review` | 1 hunter, 2 slots, 3 requests | **violated**: `RewardsPendingQuest` |
| `settlement_retry` | 1 hunter with coins for one purchase, 1 key, 2 slots, 3 requests | **violated**: `RetriesAreReplayed` |

*Bounds.* Three slots are enough for two handlers to race while a third changes what they
have read; every property relates at most two transactions and a row. Four requests allow a
purchase, its retry, a use and a review, or a submission and three reviews. `StartCoins` 4
against prices 2 and 3 makes the second purchase succeed or fail by the order of the others.
`MaxI32` 119 with rewards of 60 xp makes the second reward overflow unless it is computed
from a stale read. Slots and keys are interchangeable, which the first run uses as symmetry.

In the other runs two handlers overlap (three in `friends`, so that a third meets two that wait
for each other), and the number of requests is what the longest story needs: a submission and a
review for each of three completions of a habit; a registration, an invite, its answer and a login
that overlaps it; an upload, two opens and two fetches. Eleven days hold two Mondays, so that a
week is done, the next done or missed, and a streak starts again. The friends of `media` are not
transitive, because the route of an asset asks for friendship; the third hunter starts in another
guild than the two, and `Movers` bounds who changes guild. Two PINs for the three hunters of `guilds`
let a guild use them all up. A channel of one event overflows
with the second of three moves. `server` starts from an empty database or one at version 7, whose
member has no owner role and whose PIN is stored as typed until version 8, and rolls back 1 or 17
versions at once. Pairs of hunters are independent in `Friends` and `Messages`, habits in
`Habits`, so one is enough; the theorems of `Friends` and `Habits` hold for any number, and a
conversation has two.

*Deadlock* is not checked, because the system is quiet once the bounds are used up; that no request
is stuck is `EveryRequestAnswered` of `Settlement` and of `Friends`, the two modules in which
handlers wait for each other.

*Fairness.* Weak fairness of each handler's next statement: tokio polls a ready task, and
PostgreSQL grants a lock once it is free. Weak fairness of `DeadlockAbort`: PostgreSQL looks
for deadlocks after `deadlock_timeout`. There is none for new requests, for the master or for
`LeaveGuild`. Weak fairness is enough because the lock of a row is held by one transaction and
requests are bounded; starvation by an endless stream of requests is not covered. `Friends` assumes
the same of `Run`: statements that may run do, and of two handlers that wait for each other one is
aborted. No other module states liveness: their handlers never wait except for an invite's row,
whose holder has one statement left, and a node owes its clients nothing when Redis fails.

### What the code does otherwise than its documents say

- `BalanceIsLedger`: `docs/architecture.md` calls the ledger the source of truth and the
  stored totals a snapshot. `review_quest` reads the hunter without a lock and writes
  absolute totals. A review that has read 4 coins, a purchase for 2, and the review's write
  of 4 + 3 leave a balance of 7 where the ledger sums to 5.
- `RewardsPendingQuest`: "quest must be pending_review before review" is checked on an
  unlocked read; the UPDATE that follows is by primary key. Two overlapping reviews both pass,
  and the approval pays a quest that the other has rejected, or paid.
- `RetriesAreReplayed`: the test `buy_item_is_idempotent_by_key` sends a purchase twice and has the
  second replayed, and `buy_item` has a path for copies that overlap: the unique index refuses the
  second ledger row and the first is looked up. A copy that has found no purchase, waits for the
  hunter's row, and then finds too few coins left by the first copy does not get that far: it is
  answered "coins not enough". Nothing is charged twice, but a client that sees only this answer
  takes the purchase for refused.

## Proofs

Eight modules hold theorems, one for each specification. Every safety property of the passing runs
is proved: the invariants, the action properties and the refinement.
They assume what the modules assume of their constants (`HandlersAssumption`,
`SettlementAssumption`, `HabitsAssumption`, `GuildsAssumption`, `MediaAssumption`,
`MessagesAssumption`, `TicketsAssumption`, `PresenceAssumption`, `ThrottleAssumption`,
`ServerAssumption`, and in `NoRowAssumption` and `NoneAssumption` that the value for "no row" is
not a row and the one for "no pose" not a pose): sets and numbers of the right kind, without a
bound on their size. So the theorems hold for any number of hunters, rows, nodes and requests in
flight. `ThrottleAssumption` also has that a count is remembered at least as long as the longest
lock, as it is in `auth_throttle.rs` (30 minutes and 10).

`MigrationsAssumption` of `Schema` is of another kind. It mentions no constant and no variable: it
states what the 21 migrations, which are a constant of the program, do to the catalogue when each is
run once on the schema before it. TLC runs them all whenever it checks `Server`, so nothing of it is
left open; what remains to be proved, and is, is that this is what becomes of
every database, whatever processes, operators and registrations do to it between the migrations.

| module | theorem | establishes | run property |
|---|---|---|---|
| `Settlement_proofs` | `TypeCorrect` | coins and xp stay in their i32 columns; each slot holds a request its next statement can serve | |
| | `LocksAreSound` | what was read under a lock still holds at the commit (and, in `RowLocksExclusive`, a row has one lock holder) | `LockedReadsHold` |
| | `ReplayFindsRecord` | a loser of the race for a key finds what it replays | `ReplayRecordPresent` |
| | `InventoryAddsUp` | owned and used is bought | `InventoryBalanced` |
| | `LedgerExplainsBalance`, `CoinsHaveLedgerRows` | when, and with what row, a balance moves | `LedgerBalanced`, `LedgerExplainsCoins` |
| | `CompletedQuestsArePaid` | a review writes all of its effects or none | `CompletionIsPaid` |
| | `PurchasesAreOfMembers` | nobody buys in a guild left behind | `PurchaseNeedsMember` |
| | `SettlementImplementsShop` | `Settlement` implements `GuildShop` | `ImplementsShop` |
| `Habits_proofs` | `HabitsTypes` | rows have their types | |
| | `CountsStayOrdered`, `OnePaymentPerCycle`, `StreaksAreRuns` | counters stay in order; one reward for a day or week; the streak is the run its reference definition finds | `CountsOrdered`, `PaidOncePerCycle`, `StreakIsRun` |
| `Friends_proofs` | `FriendsTypes` | links and requests have their types | |
| | `FriendshipsAreMutual`, `AnswersExplainLinks`, `AnswersAreFinal` | links come in pairs, requests agree with them, an answer is never taken back | `LinksSymmetric`, `AnswerMatchesLinks`, `AnswersStand` |
| `Guilds_proofs` | `MastersAreOwners`, `PinsDiffer`, `MovesAreInvited` | who is master, when PINs are equal, who moves | `MastersOwnTheirGuild`, `PinsDistinct`, `InvitesExplainMoves` |
| `Media_proofs` | `UploadsAddUp`, `ExportsAreMarked` | rows and files, lists and marks | `UploadsAccounted`, `ExportsMarked` |
| | `ImagesReachEntitled`, `ViewsAreTimely`, `OneView` | who is served what, when, how often | `OnlyEntitledSee`, `NoViewAfterExpiry`, `ViewedOnce` |
| `Messages_proofs` | `SendsAreStoredOnce`, `EncryptedReachesActiveKeys` | dedupe and keys | `SendsOnce`, `SentToActiveKeys` |
| | `MarksSettle`, `MarkersMoveForward` | read markers | `MarkedIsRead`, `MarkerForward` |
| | `WalksAreComplete` | histories page by page | `PagesComplete` |
| `Presence_proofs` | `TicketsAdmitOnce`, `NoGhosts` | sockets and tickets, what a closed socket leaves | `TicketAdmitsOnce`, `NoGhostAtHome` |
| | `PosesKeepOrder`, `PosesAreKept`, `ViewsFollow` | order of poses, when a node forgets one, what a client shows | `PosesMoveForward`, `PosesStayKnown`, `ViewFollowsNode` |
| `Server_proofs` | `HistoryIsKept` | the applied migrations explain the schema | `HistoryExplainsSchema` |
| | `WhatIsServedIsThere` | a current process finds columns, keys, owners' hunters and hashed PINs | `ServesWhatItNeeds` |
| | `FailuresAreCounted`, `LocksHold` | what a map knows of the failures; no login falls into a lock | `LocksAreServed` |

### Settlement: types, locks, money

1. *Types.* `TypeOK` is not inductive: `review_quest` adds the reward with `checked_add` in one
   statement and writes the sum in a later one. `RewardFits` carries the outcome of that check
   to the write; `TypeInv == TypeOK /\ RewardFits` is inductive (`TypeStep`).
2. *Locks.* `RowLocksExclusive` and `LockedReadsHold` are inductive together, relative to
   `TypeInv`: a statement that writes a row waits for its lock, so a row that another request
   has locked does not change (`ExclusiveStep`, `ReadsStep`, `LockStep`). The conjunction
   `SafeInv` of both layers is what everything else rests on.
3. *Money and goods.* `WhoWrites` shows that only the commits of a purchase, a use and an
   approved review touch coins, goods and ledger. `PurchaseCommits`, `UseCommits` and
   `RewardCommits` say what each writes, in terms of the rows found at that moment: this is
   where `LockedReadsHold` is needed, since `buy_item` writes a balance computed two statements
   earlier. Each conservation law is then inductive relative to `SafeInv`. Counting purchases
   uses the finite-set theorems: the new row is not among the old ones, because its key is not.
   Membership needs one more invariant, `BuyersAreMembers`: who holds the hunter's row since the
   second membership check is still a member.

The refinement maps `coins` and `inventory` of `GuildShop` to the stored balance and quantity.
The purchase's commit is `Buy` (`PurchaseIsBuy`), the use's commit is `Use` (`UseIsUse`), the
commit of an approved review is `Settle`, and every other statement stutters.

### The other modules

No handler there holds what it has read under a lock, so the invariants say what a *stale* read
still guarantees.

- *Habits.* `ClockInv`: nobody is ahead of the clock. `CountInv`: the counters are in order in the
  rows that handlers hold, too. `DueInv`: a submission that is written is of a cycle after the last
  completion, and remains so as days pass; this carries the check of `submit_quest` over to the
  approval. `PaidInv`: the cycles of the approvals go up. `StreakInv` says what a streak is as a
  run of cycles; `NextStreakByCycle` reduces the comparison of anchors to one of cycle numbers,
  `NextStreakIsRun` is the step from one run to the next, and `RunIsFound` connects it with the
  `CHOOSE` of the reference.
- *Friends.* `FirstLinkThere`: a handler that is left with its second link has found or written
  the first, so that a commit completes the pair. `LinksExplained` and `AcceptedLinked`: every link
  goes back to an answer or an add, and an accepted request has its link.
- *Guilds.* Rows refer to rows that exist (`TypeInv`). `HunterChange` lists the four ways in which a
  `hunters` row changes (created, made master, given a PIN, moved); each property is then a case
  analysis over them, and `MasterInv` adds what a login in flight knows of the account it makes
  master.
- *Media.* One layer for each property: what an upload has written so far, which handler still
  accounts for a row, who may be served, how old a token may be, and that a delivery is at most one
  of served, being served, or armed (`View`).
- *Messages.* `SendInv`: a client id has one row in a table, and a send past its INSERT finds it.
  `KeyInv`: keys a send has looked up are active unless it was overtaken. `MarkInv` names the set of
  rows a mark has read: its size is what the mark has counted and none of them is newer than where
  the marker goes; if the size is that of all rows, it is all rows. `WalkInv`: what a walk has not
  seen is before its cursor or shares a millisecond with another message; `PageLeavesTheRest` shows
  that a page of the newest rows keeps it so.
- *Presence.* Types; tickets (a ticket is in memory or has opened its socket); origins (whose session
  a pose is, at its node, in Redis and in a channel); order (a session's poses are numbered, and what
  is under way is not newer than what was sent); queues (after the events its channel still holds, a
  client shows what its node shows).

### Server: locks, schema, rows

1. *Locks.* `ThrottleInv` says what a node's map knows: as long as the last failure counted for an
   account is not to be forgotten, the map has an entry for it whose number is at least the length of
   the run of failures, whichever looks at the map have cleaned it in between, and whose lock ends no
   sooner than that run calls for. A login that is let through has read `BlockedSeconds` as zero,
   which leaves at most the part of a second that the code rounds away.
2. *Schema.* `SchemaInv` is the inductive invariant: for some `k` the database is `Consistent` at
   `k` (the first `k` migrations are applied, the catalogue is `SchemaAt[k]`, the rows are as below),
   a process that is migrating has found a prefix no longer than `k`, and a current process means
   that `k` is the last version. A process that overlapped with another therefore finds a migration
   applied that it holds for pending, and fails at its row in `seaql_migrations` (`MigratesAgain`);
   otherwise its run and an operator's go through consistent databases one migration at a time
   (`MigratesUp`, `RollsBack`, from `UpOne` and `DownOne`). `ScriptAlike` is why one run from nothing
   speaks for every database: a statement's effect on the catalogue does not depend on the rows.
   `FoldRuns` and `FoldExecutes` turn the folds, of a script's statements and of the migrator's
   migrations, into sequences of databases that can be reasoned about one by one.
3. *Rows.* `Rows(d, k)`: from version 5 on every guild has one owner's hunter, before it none has,
   and from version 8 on every PIN is a hash. `ScriptsAre` says which migrations create, drop and
   rewrite what, read off the scripts. `UpRows` and `DownRows` go through the migrations: those
   before the fifth only create, the fifth gives each guild its owner's hunter (`BackfillsAll`, by
   way of one guild, `BackfillsOne`), those after it keep roles and owners (`KeepsOwnedRows`), and
   undoing the fifth takes all owners away (`DropOwners`), so that bringing it back gives each guild
   one again. A registration is refused before version 5, since `HunterEntity` names columns that are
   not there (`TablesAre`), and adds a guild with its one owner after it (`RegistersOwner`).

### Only model-checked

Liveness (`EveryRequestAnswered` of `Settlement` and `Friends`, `EveryUseAnnounced`), which needs
fairness and ENABLED, out of the prover's reach. What each migration's script does to the schema
before it (`MigrationsAssumption`): a finite evaluation of fixed data, which TLC does in full and
for which a prover would have to expand each of some two hundred statements.

## Not modelled

- *Client.* Widgets and rendering keep nothing the server relies on. The state and network code
  reconnects, shows messages before they are stored and sends them again; the server modules take
  that in as requests that are repeated, overlap or are dropped at any statement, which includes
  all that the client does. The shop of the client draws a new idempotency key for every tap, so
  that a retry after a lost answer is a second purchase: no property of the server can hold here.
- *Voice tokens* are signed from the caller's claims; nothing is kept. *Telemetry* is validated,
  inserted and never read back; its table is in `Schema`. `update_social_profile` overwrites a motto.
- *Libraries*: token signing, password hashing, Firebase certificates, key agreement and ciphers.
- *Coordinates, texts, captions, file types*: no property tells them apart.
- *Known and not covered by a property.* Migration 4 makes a user's `hunter_tag` of six hexadecimal digits
  of its id, and two users may get the same, which its unique index refuses. A rollback of
  migration 8 leaves PINs hashed, and the release before it compares them as typed. Migration 5 down and up
  leaves a former owner a plain member. An accepted invite may replace a PIN without the hunter
  being told the new one. The recipient of a one-time image may fetch its asset by id. A view is
  consumed before the bytes are sent, so that a connection lost in between loses the picture.
- An operator who rolls back while a process migrates: both would be run by hand at the same time.

## Plan

What the plan of the inventory named is modelled. Left, in the order of what it would add:

1. the client's reconnect and its optimistic messages as modules of their own, composed with
   `Presence` and `Messages`;
2. telemetry and the profile, whose handlers are single statements.
