# Formal model of the GTD app's synchronisation, calendar and background work

The application is a Getting-Things-Done organiser that works offline. Every
device keeps a full copy of its accounts' data in IndexedDB, queues what the
user writes, and exchanges operations with one server over HTTP. The server
carries on from there by itself: it keeps a Google calendar and the items on it
in step, delivers webhooks, writes briefs of long items, and moves entities
between accounts. None of this runs in a transaction. What can go wrong is a
matter of the order in which handlers, pushes, sweeps and devices get to the
same row, and of what is left when one of them stops half way. This directory
models it in TLA+.

| Module | What it is | Proofs |
|---|---|---|
| `CursorOrder` | positions of operations and cursors, their order | in OpLogSafety |
| `ReplicatedLog` | what delivery of a log promises, without saying how | - |
| `OpLog`, `OpLogInvariant` | delivery of the log: which device gets which operation | `OpLogSafety`, `OpLogRefinement` |
| `EntitySync`, `EntityInvariant` | one entity: queue, push, last-write-wins, replay | `EntitySyncProofs` |
| `OwnerMove`, `MoveInvariant` | one entity moves from account to account | `OwnerMoveProofs` |
| `WebhookDelivery` | the webhook worker | `WebhookDeliveryProofs` |
| `BriefSweep` | which items still need a brief | `BriefSweepProofs` |
| `CalendarChannel`, `ChannelInvariant` | how changes of a Google calendar reach the server | `CalendarChannelProofs` |
| `CalendarItem`, `ItemInvariant` | one item and its Google event, changed from both sides | `CalendarItemProofs` |

`MC*.tla` and `MC*_*.cfg` instantiate them for TLC; `PROJECT.json` lists the
runs, the mutants, the map to the source, findings, hazards and theorems.

Paths below are relative to `src/`; `sync.ts` without a directory is
`api-server/src/routes/sync.ts`.

To check a run: `tlc -workers 2 -config MCOpLog_processes.cfg MCOpLog.tla`; to
check the proofs: `tlapm <Module>.tla` for each module of the last column.


## 1. Inventory

### Components

| Component | State | Operations | Correct when |
|---|---|---|---|
| **Operation identities** `lib/opIdentity.ts` | per process `lastIssuedMs`, `sameMsSeq` | `allocateOpIdentity` | no identity twice, none below one issued before by the process |
| **Operation log, delivery** `routes/sync.ts`, `dataAccess/operationsDAO.ts` | `operations` collection, ordered by `(ts, _id)` | pull with cursor, bootstrap | no device skips an operation |
| **Device rows and purge** `deviceSyncStateDAO.ts`, `purgeFloor.ts`, `staleDevices.ts`, `routes/devices.ts`, `routes/maintenance.ts` | `deviceSyncState` rows: acknowledged cursor per device | acknowledge, register, reap, remove, purge below the slowest | a registered device never needs what was purged |
| **Apply pipeline** `lib/applyOperation.ts`, `lib/applyEntityOp.ts` | entity collections, log, `notApplied` marks | batch and single apply, last-write-wins, quarantine | server row and every replica agree on the last write |
| **Sync queue and push** (client) `db/syncHelpers.ts`, `db/unconfirmedDeletes.ts` | `syncOperations`, `pushAttemptedOpIds`, unconfirmed deletes | queue and collapse, push in batches, acknowledge, replay, bootstrap apply | nothing queued is lost; nothing deleted comes back |
| **Device cursor, requests** (client) `db/deviceId.ts`, `api/syncClient.ts` | `syncCursors` row per account | read, advance, HTTP | never ahead of what was applied |
| **Local mutations** (client) `db/itemMutations.ts` and its siblings | entity stores | create, edit, delete | row and queue say the same |
| **Public API writes** `routes/v1/*.ts`, MCP tools | none of their own | apply, then log | as the apply pipeline |
| **Sign-out** (client) `db/accountHelpers.ts`, `db/evaporateUser.ts` | - | wipe rows and cursor | replies under way do not bring them back |
| **Sync orchestration** (client) `db/multiUserSync.ts`, `syncRecovery.ts`, `backgroundSync.ts`, `dispatchOpFlush.ts`, `crossContextLock.ts` | session gate, flush lock and marker, recovery lock | which account syncs when, in which context | one flush at a time; a task runs under its own session |
| **Owner move** `lib/ownerMove.ts`, `reassignEntity.ts`, `entityMovesDAO.ts`, `itemBriefCascade.ts` | move receipts | receipt, owner flip, two log legs, heal | the entity ends with one owner on every device, and nobody hears of one never moved to them |
| **Webhook delivery** `lib/webhookDeliveryWorker.ts`, `webhookDeliveriesDAO.ts`, `webhookSubscriptionsDAO.ts`, `routes/webhooks.ts` | deliveries, subscriptions | enqueue, claim, deliver, back off, abandon, disable | every event is delivered or abandoned, by one worker at a time, and not too often |
| **Change fan-out** `lib/notifyChange.ts`, `sseConnections.ts`, `webPush.ts` | open streams | SSE, web push | hints only: a lost one delays a pull |
| **Google Calendar sync** `routes/calendar.ts`, `lib/calendarSyncLock.ts`, `calendarSyncConfigsDAO.ts`, `calendarProviders/GoogleCalendarProvider.ts` | sync configs (channel, expiry, sync token), coalescing states, a mutex per calendar | notification, sync, renewal, hourly sweep, switch; import of an event, backfill and repairs of "Sync now" | every change at Google is imported once, and no channel is left behind |
| **Calendar push-back** `lib/calendarPushback.ts`, `calendarLinkCarryForward.ts`, `itemCarryForward.ts`, `applyEntityOp.ts` | the link and the push anchors on the item, `gcalCreationInFlight` | hydrate, push (create, update, remove), stamp, follow up, mark a failure | item and event agree once everything is answered |
| **Item briefs** `lib/brief/*`, `lib/itemBriefs.ts`, `itemsDAO.ts`, `routes/v1/items.ts` | `briefStale` marks, brief rows, batch and its requests | select, generate, author, remove; submit and harvest a batch | an item that needs a brief is never lost sight of; nothing written by hand is replaced |
| **Sync-issues panel** `routes/syncIssues.ts` | operations marked `syncFailed` | list, retry, dismiss | a retry does what the operation would have done |
| **Routines, account deletion and export, authentication, MCP server, user interface** | see `PROJECT.json` | | |


### How they interact

A gesture writes an entity store and appends an operation to `syncOperations`
(`queueSyncOp`). A flush sends the queue in batches to `POST /sync/push`. The
server validates, gives every operation a position `(ts, _id)` from
`allocateOpIdentity`, inserts it into the log and applies it to the entity
collection in parallel (`Promise.all`, `applyOperation.ts:281-297`, `461-462`),
then notifies the other devices. The public API, MCP, routines and calendar
sync enter the same pipeline. A device that hears of a change, comes back
online, or is loaded calls `GET /sync/pull?since=cursor`, replays what it gets
and stores the cursor that came with it; the next pull acknowledges this
cursor, the server records it in the device's row, and a purge deletes the log
below the slowest row. A device without a cursor bootstraps instead: a full
snapshot and a cursor. A device whose row is gone is refused with 409 and must
bootstrap again.

After an operation was applied, `notifyChange` tells the other devices, queues
webhooks and pushes the change to Google, without waiting for any of them. The
push reads rows that further operations are replacing, and writes back what it
learned from Google: the link to the event, and the time of the push. A
notification from Google starts a sync, which reads the same rows and tells by
that time which changes were the app's own. Every write of an item also marks
it for the brief sweep, which reads items and briefs in pages, decides, and
writes minutes or hours later.

### What is hard

* **Allocation before commit.** An operation has its position before its insert
  is visible; a cursor advertised in between must not pass it. The server
  holds every cursor back by `CURSOR_HOLDBACK_SECONDS` and re-delivers the
  window.
* **The purge reads rows that move.** Rows are read, reaped, re-registered and
  lowered by re-bootstraps while a floor is computed and applied.
* **Crashes and losses anywhere**: a request, its answer, a tab that closes
  between two awaits, a service worker pulling beside a tab.
* **Re-delivery without versions.** Replayed operations meet a queue that is
  ahead of them, and rows that are gone, for which last-write-wins has nothing
  to compare.
* **Two writers of one row** on the server: read, compare, write is not one
  database operation.
* **Pushes that outlive their operation.** An insert at Google takes seconds;
  the item is edited, completed, trashed or deleted meanwhile, the answer may be
  lost, and the row may be stamped over what a device has just sent.
* **Echoes.** The app's own changes come back from Google and must be told apart
  from those of a person, by a stamp that may itself be late or lost.
* **Rows read once and used for long**: the config of a calendar through a whole
  loop of syncs, a page of items through a sweep, a snapshot through a batch.
* **Two logs for one entity**: the halves of an owner move reach a device by
  two pulls, in either order, beside its own edits.
* **Ticks that overlap** and claim from one queue of deliveries; a write that
  throws after the subscriber has answered; a claim nobody is left to release.

`PROJECT.json` lists each of these at its line under "hazards", with the
properties that would catch it going wrong or the reason why none does yet.


## 2. The modules and the code

### CursorOrder

A position is `<<ms, seq, tie>>`: an operation's `ts`, its number within the
millisecond, and the process that issued it in place of the random suffix of
its id. `Boundary(t)` is the cursor of a plain timestamp, below every operation
of that millisecond; `Epoch` is the cursor of a device that has none. `After`
is `isCursorAfter`, lexicographic order.

### OpLog: delivery

An operation is nothing but its position. Who has been handed which operation
(`delivered`) is the history the properties are about.

| In the model | In the code |
|---|---|
| `alloc`, `NextIdentity`, `Allocate` | `opIdentity.ts:50-66`; every path that stamps an operation |
| `inserting`/`CommitToLog`, `applying`/`CommitToEntities` | the two writes under way of `applyOperation.ts:281-297`, `461-462`; either may land first |
| `row` | `lastSyncedTs`, `lastSyncedId` of the device's `deviceSyncState` |
| `cursor` | `syncCursors`, shared by all contexts of a device |
| `req[c].phase` | one handler or client function split at its awaits |
| `PullCheck`, `PullRead`, `PullRecord` / `PullRefused`, `PullApply` | the guard (`sync.ts:429-433`), `findOpsAfter`, the boundary and `recordPullCursorOnExistingRow`, then `doPull` on the client |
| `BootBegin`, `BootRead`, `BootRegister`, `BootApply` | cursor first, entity reads, row upsert (`sync.ts:231-296`), then `bootstrapFromServerUnguarded` |
| `PullLost`, `BootLost` | reply lost, or context dead before it applied it |
| `DropRow` | removal by the user, and `deleteStaleDevices` |
| `ReadFloor`, `Purge` | `purgeOldOperations`: rows read, floor computed, then `deleteOlderThan` |
| `Wipe` | `wipeUserData`, replies under way dropped by `isRemovedFromDevice` |
| `Skew`, `Walls` | server processes whose clocks are up to `Skew` behind |
| `Tick` | time, bounded by how long a commit (`MaxLag`), a scan (`MaxRead`), a bootstrap (`MaxServe`) and its reply (`MaxReply`) take |

The holdback is a bet that commits are faster than it. The model says which:
`MaxRead + MaxLag <= Holdback` and `MaxServe + MaxLag <= Holdback`. The scan
counts because the boundary is computed after the scan returned (`sync.ts:451`);
a clock behind counts as part of the lag (`Skew <= MaxLag`).

`BootLost` happens only to a device without a cursor, and `PullCheck` only to
one with a cursor, unless the constant `Anomalies` says otherwise: with either
anomaly the code does skip operations (findings 1 and 3 below).

Properties:

* `NoSkippedOperation`: whatever lies at or below a device's cursor has been
  handed to the device.
* `AckedIsDelivered`: whatever lies at or below a device's row has been handed
  to it. The purge relies on this.
* `NoPurgeGap`: whatever is committed above a registered device's cursor is
  still in the log, or with the device.
* `CatchesUp` (liveness): a device that keeps syncing holds, again and again,
  everything committed.
* `TypeOK`, and `IInv`, the inductive invariant of the proofs.
* `ImplementsReplicatedLog`: the whole protocol, clocks, requests, purge and
  all, implements `ReplicatedLog`, below.

The first three speak of a device that has a cursor and for which no bootstrap
reply is under way: between `BootRegister` and `BootApply` the server's row is
deliberately ahead of the device.

### ReplicatedLog: what delivery promises

Three variables and no protocol: the operations a reader may come across, what
each replica holds, and how far it claims to have got. `Publish` adds operations
above every cursor; `Advance`, `StartOver` and `Leave` change one replica, which
must hold every visible operation up to its cursor. OpLog implements it with

* `visible` := every operation issued of which the log or the entities have the
  effect (`Visible`);
* `replica` := what was handed to a device (`delivered`);
* `cursor` := the device's cursor.

So a cursor handed out by the server is an upper bound of what may still appear,
whatever the timing: that is the holdback's whole purpose, said without a clock.

### EntitySync: what the operations say

One entity, its server row, the log, and on every device its row, the queue and
the marks around it. A snapshot is the pair of its `updatedTs` and the number
of the write it comes from: two different writes may carry the same stamp.

| In the model | In the code |
|---|---|
| `Create`, `Edit`, `QueueDelete`, `RemoveRow` | `itemMutations.ts` with `queueSyncOp` and `queueDeleteThenRemove` (`syncHelpers.ts:124-196`): an edit merges into a pending create, a delete collapses what no push has carried |
| `tried`, `awaiting` | `pushAttemptedOpIds`, `unconfirmedDeletes`: both in memory of a context |
| `Send`, `Acknowledge`, `LosePush` | `pushBatch`, `deleteSentOps`, a failed or timed-out request |
| `Insert`, `ReadRow`, `WriteRow`, `Answer` | `applyAndPublishOperations`: insert the batch, per operation `applyEntitySnapshotOp` as a read and a write, then mark `notApplied` and reply |
| `ApiBegin`, `ApiLog` | `/v1` handlers: applied first, logged after |
| `PullFetch`, `PullBegin`, `PullNext`, `PullEnd` | `doPull`, `applyPulledOps`: fetch, read queued deletes once, one transaction per operation, then the cursor |
| `Reload` | the context dies: IndexedDB survives, memory does not; a request on the server goes on without a listener |

Delivery is reduced to what OpLog establishes: a pull returns the log from the
recorded cursor on, and the cursor it leaves is held back by any number of
operations up to `Redelivery`, which the next pull brings again. A cursor never
moves back.

Properties:

* `Converged`: a device that has pushed everything and been through the whole
  log holds the server's row, or none with it.
* `NoResurrection`: what the user deleted on a device does not come back before
  a delete of the entity has been replayed there.
* `NoWriteDropped`: an operation leaves the queue only by another write of the
  user or once the server has logged it.

`Converged` is false of the code as it stands in seven races, each of which
alone violates it. The constant `Races` names which may happen, so that the
passing runs show that nothing *else* breaks it:

| Race | What happens | Status |
|---|---|---|
| `recreated` | a create whose answer was lost is pushed again after a delete of the entity was logged, in a batch that ends in no delete | finding 4 |
| `parallelWrites` | two writes of the entity overlap on the server | finding 5 |
| `deathMidDelete` | a context dies between dropping an unsent create and removing its row | excluded: nothing was queued, so no delete comes back and the row stays; the comment at `syncHelpers.ts:190-191` thinks of the other case only |
| `unmarkedPull` | a pull reads an update after its insert and before its `notApplied` mark | excluded: the mark is written after the insert (`applyOperation.ts:461-475`), a second write of its own |
| `slowClock` | a write is stamped below one made before it, after both were seen | excluded: last-write-wins by client clocks |
| `staleEdit` | an edit is saved from a copy read before the row went | excluded: the update is quarantined, the device keeps its row |
| `forgottenPush` | a context dies while a push of its create is unanswered; its successor collapses the create | excluded, admitted by the comment at `syncHelpers.ts:377-388` |

To see any of them, put its name into `Races` of `MCEntitySync_device.cfg`
(`parallelWrites`: as it is; `recreated`: with both devices, no API, 2 writes,
`MaxLog` 4 and `MaxLosses` 2).

### OwnerMove: one entity, two accounts

| In the model | In the code |
|---|---|
| `row`, `brief`, `receipts` | the entity's one document with its `user`, the brief's, `entityMoves` |
| `log`, `cursor` | the operations of each account in order, and how many a device has applied; how delivery gets them there is OpLog's subject |
| `Request`, `Find`, `Receipt`, `Flip` | `POST /sync/reassign` under its mutex: `findByOwnerAndId`, the receipt, `replaceByOwner`, which fails if another write took the row |
| `DeleteLeg`, `CreateLeg`, `Cascade` | the two log entries of `applyAndPublishOwnerMove`, then `cascadeItemBriefRemoval` |
| `Resolve`, `DeleteAgain`, `CreateAgain` | a retry: `resolveAlreadyMoved` behind the receipt gate, `republishOwnerMoveOps` |
| `Crash` | the process stops between any two of these |
| `Edit`, `Delete`, `PushRead`, `PushWrite`, `PushDelete` | a device's own changes; last-write-wins in two steps, by identity alone |
| `PullDelete`, `PullPut`, `PullHeld` | `applyEntityOp` on the device, for each account's log at its own pace |
| `GenerateBegin`, `GenerateEnd` | a brief is read under an account and written some time later |

Properties:

* `Converged`: once every flip has been announced and every device has heard
  everything, each shows the entity where the server has it, and only there.
* `NothingForged`: no account's log ever speaks of an entity that was not its
  own or moved to it. The receipt gate exists for this.
* `BriefFollows`: no brief stays behind in the account the entity has left.

| Race | What happens | Breaks |
|---|---|---|
| `targetFirst` | a device applies the target's log first, holding an edit of its own that is newer than the move: the create loses by age, the delete then takes the row | `Converged`, finding 9 |
| `parallelEdit` | an edit's read-check-replace overlaps the flip | `BriefFollows` |
| `unconfirmedDelete` | an entry of the other account arrives while a device waits for the echo of its delete | `Converged` |
| `deleteBesideLegs` | the entity is deleted between the flip and the legs, which then announce it | `Converged` |
| `deleteBesidePush` | a delete is applied between the read and the write of another device's edit: the write puts the entity back, at a version below what the other account's log has told; a device that comes to that log late keeps what it says there | `Converged` |
| `briefMeanwhile` | a brief is being written for the old account across the flip | `BriefFollows` |

### WebhookDelivery: the other queue

| In the model | In the code |
|---|---|
| `row` | a `webhookDeliveries` row: attempts, due (`nextAttemptTs` has passed), `claimed`, `deliveredTs`, `abandonedTs` |
| `sub` | a `webhookSubscriptions` row: live until deleted, `failureCount`, `disabledTs` |
| `Match`, `Enqueue` | `enqueueWebhookDeliveries`: active subscriptions found, then a row inserted for each |
| `BecomeDue` | the backoff of `RETRY_DELAYS_MS` passes |
| `StartTick`, `Claim`, `EndClaims` | `runWorkerTick` calls `claimDueDeliveries`, which claims row by row up to `CLAIMS_PER_TICK` |
| `jobs`, a job's `phase` | `deliverOne` and what follows it, split at its awaits |
| `Lookup`, `Post` | the subscription is looked up; the request with its answer, refusal or timeout |
| `Proceed` (`Write`, `Following`) | `markDelivered`, `recordSuccess`, `recordRetry`, the two writes of `recordFailure`, one after the other |
| `WriteError` | one of these throws, having taken effect or not: inside the `try` it is taken for a failed request, a second time it ends the job |
| `ClaimError`, `LookupError` | the tick or the job fails: its claims are forgotten |
| `Restart` | the process stops; what it claimed stays claimed |
| `DeleteSubscription` | `DELETE /v1/webhooks/:id` |

`posts` and `accepted` are history. A tick is any that may be under way at the
same time, in one process (`setInterval` does not wait) or in several.

Properties:

* `ExclusiveClaim`: two ticks never work on one delivery.
* `PostsBounded`: no delivery is posted more often than `MAX_DELIVERY_ATTEMPTS`.
* `RepeatsBounded`: a delivery that was accepted is accepted again only for a
  write of the worker that failed, once for each.
* `DisabledEarned`: a subscription is disabled for that many deliveries
  abandoned, less those that a failed write made count twice.
* `SettlesUnlessOrphaned` (liveness): every delivery ends delivered or
  abandoned, unless a fault left its claim without a worker.
* `Settles`: the same without the exception, which the module's comment
  promises and the code does not keep (finding 10).

### BriefSweep: which items still need a brief

| In the model | In the code |
|---|---|
| `item` | what the sweep asks of an item: content (title, notes and their hash in one), open or closed, `briefStale` |
| `brief`, `lock` | the `itemBriefs` row with the content it was made from and its origin; `withBriefWriteLock`, in memory |
| `Edit` | every write of an item marks it, by the overrides of `ItemsDAO` |
| `ReadPage`, `ReadMine`, `ReadTarget` | the scheduled sweep's page, a review's own pass, generation on demand or after an edit: the item is read first |
| `Judge`, `ClearBatch` | `classifyPage` with the brief rows read after; what is no target is settled, guarded by the content judged |
| `Acquire`, `ReadRow`, `Upsert`, `Settle` | `decideBriefWrite` under the lock, the item and then the row read again; the write; the guarded clearing of the mark |
| `AuthorBegin`, `AuthorLock`, `Mark` | a brief written by hand through the API |
| `RemoveBegin`, `Remove`, `DeviceBriefs` | removal through the API; briefs written or removed by a device's operations, without the lock |
| `HarvestBegin` to `DropRequests`, `SubmitBegin` to `StoreBatch`, `Expire` | the batch at the model's provider: harvest first, then select and submit; batch upstream, request rows and batch row are three writes |
| `Fail`, `SweepFails`, `Restart` | one generation, the sweep or the process fails, at any step |

Properties:

* `NotForgotten`: an item that needs a brief is marked, or whoever took its
  brief away is about to mark it. A false "settled" would be for ever.
* `AuthoredKept`: nothing generated replaces what somebody wrote, unless asked.
* `BatchHasRequests`: a batch on record has its requests on record.
* `Drains` (liveness): every mark is settled, again and again.

| Race | What happens | Breaks |
|---|---|---|
| `editorClear` | the item editor removes a brief: a delete of the row that marks nothing | `NotForgotten`, finding 7 |
| `unlockedClear` | `clearBrief` of the API takes no lock and meets a writer | `NotForgotten` |
| `deathMidClear` | the process stops between that removal and its mark | `NotForgotten` |
| `judgedDuringWrite` | an item is judged on one content while a brief of another is written | `NotForgotten` |
| `unlockedEdit` | a device's brief is applied between a writer's read of the row and its write | `AuthoredKept` |

### CalendarChannel: how changes reach the server

| In the model | In the code |
|---|---|
| `google`, `live`, `age`, `notices` | external: the changes made, the channels Google notifies, how near each is to its expiration, notifications on their way |
| `row` | the sync config: enabled, channel, sync token (the changes it covers) |
| `state` | `channelStates`, in memory: idle, running, queued |
| `lock` | `withSyncLock`, keyed by the channel the *job's own copy* of the config has |
| `Receive`, `Finish` | `tryStartWebhookSync`, `finishWebhookSync`: one loop per channel, once more if a delivery came meanwhile |
| `Sync`, `RenewAll`, `Toggle` | "Sync now", the hourly sweep, the user's switch |
| `Enqueue`, `List`, `ListGone`, `Import`, `StoreToken` | one sync under the lock; a token answered with 410 is dropped |
| `Renew`, `Stop`, `Watch`, `SaveChannel`, `ClearChannel`, `Reread` | `renewWebhookIfExpired`, `setupWatch`, `teardownWatch`, and the sweep's catch-up with the row taken afresh |
| `Fail`, `Restart` | a sync throws; the process stops |

Properties:

* `TokenHonest`: the stored token never covers what was not imported.
* `ExclusiveSync`: two syncs of a calendar never overlap, whatever the channel
  that names the lock was when each of them began.
* `NothingMissed`: a change that is not imported is being fetched, notified, or
  owed by the next sweep. Changes made while a sync failed, or while the
  calendar was off, are *excused*: the code waits for the next notification.
* `NoOrphan`: Google notifies no channel but the row's.
* `OffIsOff`: a calendar switched off has no channel once that is done.
* `CaughtUp` (liveness): every change is imported, under `Sync` again and again.

| Race | What happens | Breaks |
|---|---|---|
| `gap` | a change, or the delivery of its notice, falls between the stop of the old channel and the watch of the new one, and nothing has lapsed | `NothingMissed`, finding 6 |
| `rerun` (with `gap`) | a delivery during a renewal makes the loop run again with the config it began with | `NoOrphan`, `ExclusiveSync`, finding 8 |
| `meeting` | two jobs meet over a channel that is due | `ExclusiveSync`, `NothingMissed`, `NoOrphan`, `OffIsOff` |
| `switching` | the switch is used while a job is under way | `ExclusiveSync`, `NoOrphan`, `OffIsOff` |
| `failedRenewal` | stopping or watching fails, or the process stops in a renewal | `NothingMissed`, `NoOrphan`, `OffIsOff` |

### CalendarItem: one item and its event

A content is a number that stands for title, time and notes together; `Versions`
are Google's `updated` times, which the app stores as the time of its last push
(`lastPushedToGCalTs`) and of its last import (`lastSyncedFromGCalTs`). A status
of `off` is any of `CALENDAR_DETACH_STATUSES`.

| In the model | In the code |
|---|---|
| `row`, `event` | the item document with its link and the two stamps; external: the event, its tick, its version, and who changed it last |
| `op`, `anchor` | the operation of a device under way, and what the devices know of the last push |
| `job` | one `maybePushToGCal`, split at its awaits; `slot` is `gcalCreationInFlight` |
| `Create`, `Change`, `Delete` | gestures: an item is put on the calendar, completed, edited, taken off, trashed, reopened, removed |
| `Hydrate` | the row is read for what the device lacks: link and stamps (`hydrateItemCarryForwards`), the event to remove (`hydrateDetachOne`, `hydrateDeleteSnapshots`) |
| `Apply`, `Push`, `FirstStep` | last-write-wins and `replaceById`; `handleItemPush` |
| `Check`, `Answer` of an insert, `Stamp`, `FollowUp`, `Unlink` | `pushItemToGCalWithContext`: the slot and the row, the insert under an id made of the item's (409 relinks), the stamp, and `pushStateReachedDuringCreate` |
| `Answer` of a write or a removal, `Mark` | `pushExistingItemToGCal`, `stampItemLastPushed` without an operation |
| `Fail`, `Crash` | a call fails, or only its answer is lost; the server restarts with the pushes unawaited |
| `ImportRead`, `ImportWrite` | `upsertCalendarItem`: row read, own echo skipped, then trashed, revived, merged, relinked by title or made a second item |
| `Backfill`, `Repush`, `RepairDone` | what "Sync now" pushes after it has imported |
| `Retry`, `Dismiss` | the sync-issues panel |

Properties:

* `InStep`: once every push is answered, every change at Google imported and
  every issue dealt with, item and event say the same; after a failure, what
  "Sync now" would still push makes it so.
* `NoTwin`: an import never takes an item's own event for a stranger's.
* `OwnWritesStayOut`: an import changes an item only to what Google's user typed.
* `LinkKept`: an item that stays on the calendar keeps its link.
* `OnlyGoogleOutdates`: a change made on a device loses only to a person's.
* `DetachRemoves`: an item taken off the calendar has no event there, as
  `docs/PUBLIC_API.md:419` says. Violated in the code: finding 2.

With all of `Races` excluded these hold; each race alone breaks what stands
beside it (3 gestures, 1 change at Google, 2 faults):

| Race | What happens | Breaks |
|---|---|---|
| `revived` | a done item leaves the calendar, whose event nobody removes | `DetachRemoves`, `InStep`, `NoTwin` |
| `staleAnchor` | an operation brings an older time of the last push than the row has, or none | `InStep` |
| `linkErased` | an operation overtakes the link's stamp after its last read | `InStep`, `NoTwin`, `OwnWritesStayOut`, `LinkKept` |
| `lateEdit` | a change made before the link's stamp arrives after it, and loses | `OnlyGoogleOutdates` |
| `crossing` | a sync reads while a push or an operation is at work | `InStep`, `NoTwin`, `OwnWritesStayOut`, `LinkKept` |
| `parallelPushes` | two operations' pushes run at once, the older answered last | `InStep`, `OwnWritesStayOut` |
| `deletedDuringCreate` | the item is deleted before its event is linked; the README of the server names this one | `InStep`, `NoTwin` |
| `unseenLoss` | a push is lost of which no sweep finds a trace: a removal, or what follows a create | `InStep`, `NoTwin` |
| `lostTwice` | a push is lost after the answer of an earlier one was lost: a sync takes that one's echo for a person's change | `OwnWritesStayOut` |
| `staleRetry` | an issue is retried after the item has moved on, with the snapshot of then | `InStep`, `NoTwin`, `OwnWritesStayOut` |
| `sameId` | an item goes on the calendar again, under the id of its deleted event | `InStep` |

### Abstractions worth knowing

* EntitySync's `cursor` is an index, and `CaughtUp` means the end of the log.
  The real cursor stays `Holdback` behind it; a real device has replayed as
  much when the window has passed.
* A batch is logged in one step before it is applied. In the code both run in
  parallel; while the writes of the entity do not overlap nobody sees the
  difference, for positions are allocated first and the row is read by writers
  only.
* One context per device in EntitySync. Two contexts over one queue need the
  flush lock, which is not modelled.
* No expiry: the two minutes of an unconfirmed delete never pass.
* Left out of the pipeline: validation errors, duplicate unique keys, RSVP,
  fields carried forward from the server's row (calendar link, rank), cascades.
* In OpLog staleness of a device row is not timed: any row may be reaped at
  any moment, which includes every real sweep.
* A bootstrap reply replaces what the device was handed by what the snapshot
  covers. The rows it does not mention would be a matter for EntitySync.
* A pull applies all its operations or none, as far as the cursor is concerned;
  the watermark that stops before an operation that cannot be applied
  (`syncHelpers.ts`, poisoned operations) is not modelled.
* OwnerMove has one operation queued per device and delivers each account's log
  in order and without gaps, which OpLog establishes.
* BriefSweep has at most one batch out, as the code has, and a content has one
  hash. The cap on generations per day, the cooldown and the model's answers are
  left out: they only delay.
* CalendarChannel imports a listing in one step; what an event does to an item
  is CalendarItem's. A channel that expires is dropped by Google at once.
* CalendarItem has one device operation under way at a time, title and notes as
  one content, and a call about an event that is gone ends the push. The window
  within which a version counts as the app's own echo is equality of versions.
  An item in the trash is only deleted, not restored, and a done item that never
  was on the calendar is no part of it.


## 3. The runs

All sizes and times are for two workers.

| Run | Asks | Instance | States |
|---|---|---|---|
| `oplog_processes` | two server processes, one with a slow clock; the inductive invariant and the refinement of ReplicatedLog | 1 device, 2 processes, 2 operations, `Skew` 1 | 2.2 M |
| `oplog_tabs` | two contexts over one cursor: skipped, over-acknowledged or purged too early? | 1 device, 2 contexts, `PromptDeployment` | 0.8 M |
| `oplog_live` | does a device that keeps syncing catch up? | 1 device, 1 operation | 15 k |
| `oplog_lost_bootstrap` | finding 1 | `lostBootstrapReply` | violated |
| `entity_device` | a device and the API, losses and reloads | 3 writes, log of 4, 2 losses | 0.5 M |
| `entity_replicas` | two devices, every order of push, apply and replay | 3 writes, log of 3, no loss | 1.4 M |
| `owner_move` | moves there and back, edits, deletes, a crash inside the move | 2 accounts, 2 devices (one signed in to both), 2 moves, 2 edits, 1 crash | 1.3 M |
| `webhook_worker` | overlapping ticks, a restart, failing writes | 2 deliveries, 2 ticks, 2 attempts, 1 restart, 2 errors | 0.14 M |
| `brief_sweeps` | sweep, batch, another worker, edits and briefs by hand, a failure | 1 item, 2 contents, 2 workers, 2 gestures, 1 fault | 83 k |
| `calendar_channel` | notifications, "Sync now", renewal, switch, a failure or restart | 2 changes, 2 channels, 1 fault, 1 toggle | 0.27 M |
| `calendar_item` | one item and its event, changed from both sides | 2 pushes, 3 gestures, 1 change at Google, 2 faults | 2.0 M |
| `item_revived` | finding 2 | 1 push, 3 gestures, `revived` | violated |

### Bounds, and why they are enough

* `Holdback = 2`, `MaxLag = MaxRead = MaxServe = 1`: the tightest timing for
  which the deployment assumption holds, so every late commit reaches the edge
  of the holdback. `Origin` leaves room for cursors below the first operation.
* `MaxNow` is three steps after `Origin`: one to allocate, two for the boundary
  to pass. `MaxPurges = 1` allows one floor read and not yet applied, and any
  number one after the other. `MaxSeq = 1` makes a millisecond overflow.
* One operation suffices to be skipped, and two processes need one each; what
  more of them could do is a matter for the proofs, which bound nothing.
* `MaxReply = 9` exceeds the clock: the reply may be under way for ever.
  `oplog_tabs` sets it to 0, the largest for which bootstrap, reply and lag fit
  in the holdback (`PromptDeployment`): with two contexts and a late bootstrap
  reply the properties fail, since `bootstrapFromServerUnguarded` overwrites
  rows and cursor whatever another context has done meanwhile
  (`syncHelpers.ts:465-514`).
* `MaxWrites = 3` covers create, edit and delete, and a delete with two edits
  around it; `MaxLog = 4` leaves room for one batch logged twice; `MaxLosses = 2`
  lets a push be lost and its context die as well.
* `BatchMax = 2` stands for `PUSH_BATCH_MAX` (50): a queue may be longer than a
  batch.
* `Redelivery = 2`: the cursor stays up to two operations behind what was
  replayed, which reaches over the delete of an entity to the write before it;
  a pull may be repeated, so an operation may be seen any number of times.
* Devices are interchangeable in the runs with two of them (`SYMMETRY`), never
  in the liveness run.
* Webhooks: two deliveries of one subscription meet in the failure count, and
  with `MaxFailures = 2` both must be abandoned to disable it; two ticks can
  overlap; `MaxAttempts = 2` has a first, a retried and a last attempt;
  `MaxErrors = 2` allows one write to fail inside the `try` and the next in the
  `catch`. The proofs bound none of these.
* Owner move: two moves go there and back, and two edits, or an edit and a
  delete of the other device, meet them at every step. The proofs bound none of
  these.
* Briefs: items share nothing but the sweep, so one shows the races of its
  writers; two workers and the scheduler's own job meet on it. One content is
  short, so that both origins occur. The proofs bound none of these.
* Calendar channel: two channels are the one replaced and the one that replaces
  it, a third would only repeat the renewal; the second change meets the sync of
  the first.
* Calendar item: three gestures create, change and take away or revive; two
  pushes are enough to meet, since only one creates; two faults lose a push and
  the one that follows it, or its retry. Also clean, outside the run: four
  gestures with one change at Google and one fault, or with none and two; three
  with one change and three faults, or with two changes and two. The proofs
  bound none of these. That a push lost after a lost answer is a race
  (`lostTwice`), and breaks `OwnWritesStayOut`, no order of the code's own steps
  avoids: the stamp of a push cannot be there before its answer. The edit then
  survives as a failed operation in the issues panel, and `InStep` holds.
* `CHECK_DEADLOCK FALSE`: the clock, writes, gestures and losses are bounded, and
  when they are used up and everything is delivered, the system stops.
* Pushes of CalendarItem are interchangeable, and its run has no liveness
  property, so `SYMMETRY` is sound there.

### Fairness

In `oplog_live`, writes the server started finish (weak fairness).
A client syncs on load, on notification and on a timer, and requests that are
repeated are not all lost; as a loss disables the step it pre-empts, the steps
of a request need strong fairness. Nothing is assumed of new writes, reaping,
purging, wiping or losing: they may happen for ever or never. `CatchesUp` says
`[]<>` because every new operation puts the device behind again.

The webhook runs assume weak fairness of the worker alone: the interval keeps
firing, `claimDueDeliveries` ends after at most `CLAIMS_PER_TICK` rounds, a
request ends by `DELIVERY_TIMEOUT_MS`, a backoff passes. Enqueueing, deleting a
subscription and every fault may happen or not.

In `brief_sweeps` a worker's steps go on (weak fairness); the lock's queue is
first come, first served (`KeyedMutex`), hence strong fairness of taking it; the
scheduler calls again, and the provider does not refuse for ever (strong
fairness of harvesting and of each result). Edits and failures are bounded.
`Drains` says that the mark of an open item is gone again and again.

In `calendar_channel` what is begun goes on and a notification on its way
arrives (weak fairness), and the client asks for a sync again and again, as
`syncAndRefresh` does. Neither the hourly sweep nor any change is assumed.
CalendarItem has no liveness property: its sweeps run when somebody syncs, and
`InStep` says what they must find.

### Mutants

Each property has a wrong version of the code that it rejects, kept beside the
right one and marked `Fault:`. They are bugs one could write here: an empty
pull that advertises the clock, a cursor recorded before it is acknowledged, a
delete that collapses what a push has carried, a tie broken towards the existing
row, a queue emptied on acknowledgement, a claim left out of the filter or kept
with the retry, every attempt counted as a failure of the subscription, a batch
row stored before its requests, a verdict that leaves the mark, the create leg
of a move alone, a retry without the receipt gate, a token stored before the
import, a loop's entry that outlives the loop, a create that does not look
whether another is under way, a link not carried forward. The mutant of
`RepeatsBounded` is a warning to whoever repairs finding 10: a process that
simply releases the claims it finds at start-up repeats deliveries that were
already accepted.


## 4. What is proved

Every theorem is of the specification as the runs check it, for every value of
the constants that satisfies the modules' assumptions: any number of devices,
contexts, processes, operations, changes and faults. Where a theorem has a
hypothesis on `Races` (or `Anomalies`), it says which of the races named above
it excludes; all the others may happen. Each invariant was checked by TLC on
the instance of the module's run before it was proved.

| Property | Theorem | Excluded |
|---|---|---|
| `TypeOK` of OpLog, EntitySync, OwnerMove, BriefSweep, CalendarChannel, CalendarItem | `TypeCorrect` of each | none |
| `NoSkippedOperation`, `AckedIsDelivered`, `NoPurgeGap`, `ImplementsReplicatedLog` | `NothingSkipped`, `AckedDelivered`, `PurgeSafe`, `Refinement` | `Deployment`, below |
| the first three, several contexts | `TabsSkipNothing`, `TabsAckedDelivered`, `TabsPurgeSafe` | `PromptDeployment`, below |
| `NoWriteDropped`, `NoResurrection` | `NothingDropped`, `DeletedStaysAway` | none |
| `Converged` of EntitySync | `ReplicasConverge` | all |
| `NothingForged` | `NeverForged` | none |
| `BriefFollows` | `BriefStays` | `parallelEdit`, `briefMeanwhile` |
| `Converged` of OwnerMove | `DevicesConverge` | all but `briefMeanwhile` |
| `ExclusiveClaim`, `PostsBounded`, `RepeatsBounded`, `DisabledEarned` | `...Holds` of each | none |
| `BatchHasRequests` | `BatchesAnswerable` | none |
| `AuthoredKept` | `AuthoredStays` | `unlockedEdit` |
| `NotForgotten` | `NothingForgotten` | all but `unlockedEdit` |
| `TokenHonest` | `TokenStaysHonest` | none |
| `NothingMissed` | `NothingIsMissed` | all |
| `ExclusiveSync`, `NoOrphan`, `OffIsOff` | `SyncsExclude`, `NoneStranded`, `OffStaysOff` | all but `gap` |
| `LinkKept` | `LinkStays` | `linkErased`, `crossing`, `parallelPushes` |
| `InStep` | `StaysInStep` | all but `lateEdit`, `lostTwice` |
| `NoTwin` | `NeverTwice` | all but `staleAnchor`, `lateEdit`, `lostTwice` |
| `OwnWritesStayOut` | `OwnWritesStay` | all but `lateEdit` |
| `OnlyGoogleOutdates` | `NotesOutdateNothing` | `lateEdit` |

### Delivery (OpLogSafety, OpLogRefinement)

`TypeCorrect` holds with or without anomalies. Its content is that no identity
is issued twice: `FreshIds` says every position issued is one its process has
moved past, a slow clock or an exhausted millisecond notwithstanding; so the log
never holds an operation still being inserted.

`Invariance` and the three safety properties assume `Deployment`: one context
per device, scan plus lag and bootstrap plus lag within the holdback, no
anomaly. Call a position *final* when it is not above `Boundary(now -
Holdback)`. A commit lands at most `MaxLag` after its position, so nothing
commits at or below a final position any more. `FinalInv`: every cursor, row,
advertised bound and purge floor is final. That alone does not give the
properties, because a scan is older than the boundary computed from it.
`PullInv` carries the missing piece through the request: what the scan missed
was still to be inserted, hence is younger than the scan minus the lag, hence
above the boundary when the boundary is drawn. `BootInv` is the same for a
snapshot, whose cursor is drawn before it is read; here it must also be shown
that what the snapshot missed is still in the log when the row appears: it is
too young to have been purged while the bootstrap was served, and from then on
the row holds the purge back. `FloorInv` covers a floor computed before a row
appeared: whatever lies below it, the device already has. `SkipInv` is
`NoSkippedOperation` without its exception for a bootstrap under way, which
holds only with one context per device.

Several contexts of a device share its rows, its cursor and its row on the
server, so a pull may ask from a cursor that has moved on, or back: the bootstrap
of another context sets it to an older position and replaces what the device
holds. `TabsInv` is the invariant for `PromptDeployment`, where a bootstrap, the
way of its reply included, takes with the lag no longer than the holdback.
`SnapshotInv` is what that buys: while a bootstrap lasts, the purge has not come
as far as anything its snapshot misses, registered or not. `ScanInv` says of a
scan what it missed, whatever became of the device. `ShareInv` is `PullInv` for a
cursor that is not the pull's any more, and suspends it while a bootstrap is
under way, as `NoSkippedOperation` does. For the same reason there is no
refinement with several contexts: until a bootstrap under way is applied a cursor
may claim more than the device holds, and ReplicatedLog knows no such state.

`Refinement`: the initial states map to initial states; each step maps to a
step of ReplicatedLog or a stutter. `Publish` is where the holdback is needed:
what becomes visible is above every cursor, by `FinalInv`; an applied pull or
bootstrap is complete by `NoSkippedOperation`, which is part of `IInv`.

### One entity and its replicas (EntityInvariant, EntitySyncProofs)

`NothingDropped` rests on `WriteInv`: what is queued, sent or logged was written
before, a number names one operation of a device, and what a push was answered
for is in the log. `DeletedStaysAway` rests on `GoneInv`: until a delete of the
entity is replayed its echo is awaited, and the row is gone or about to go.

`ReplicasConverge` has two cases. *A delete is in the log* (`Dead`): nothing
logged after it brings the entity back (`NothingAfter`, where `recreated` would
enter), the server's row is gone or a write under way will take it
(`ServerDead`), and only a device that has still to replay the delete shows
anything (`DeviceDead`). *None is*: the server's row is the
winner of what the log says, as far as it has landed (`ServerWinner`, `Winner`),
a device's row is not older than anything it has replayed (`DeviceWinner`), and
it comes from a write that is logged or queued there, the last of its stamp among
what was replayed (`DeviceSource`). So a device that has nothing queued and has
replayed everything has the winner too. The writes of the server do not overlap
(`OneApplies`, `InOrder`), and what a queue may hold while no create is logged
takes invariants of its own (`Unsent`, `QueueOrder`, `CreateFirst`).

The attempt corrected the model twice: a cursor may lag the end of what was
replayed by any number of operations, not one, and it is recorded; and
`recreated` named a narrower race than the code has, for the same happens when
the device deletes and re-creates the entity itself.

### Owner moves (MoveInvariant, OwnerMoveProofs)

`HeldInv`: whatever names an account - a row, a receipt, a step of a move, a
copy, a queued operation, a log entry - names one that held the entity; this is
`NeverForged`. `BriefStays` adds that an edit under way has read the row of the
account that owns it (`BriefInv`).

`DevicesConverge` has a part for the server and a part for the devices. On the
server, an account that lost the entity is told so last, the owner's log tells
of the row's version or is about to, no log is ahead of the row and only the
owner's is level with it (`Latest`), and the row a move is about to write is
newer than anything there is, but for what a device has still to push
(`AboutToFlip`). On a device, whoever has heard of the row's version has it,
unless something newer or a delete of its own is queued there; and a delete that
waits for its echo will hear it. Put together for a device that has heard
everything: it shows the row where it is, and nothing where it was.

The attempt found `deleteBesidePush`, which TLC had met only as an unexplained
failure with two moves and two edits.

### Webhooks (WebhookDeliveryProofs)

The invariant says of a job that its delivery is not claimable, that the
attempts on record or in its hands cover the posts made, and that whoever still
has a post to make of an accepted delivery has seen a write fail. The proof
shows once (`StepInv`) what a step of a job may do to the rest (`Careful`) and
what its next state must bring along (`Successor`), and each step is then an
instance of it. `DisabledEarnedHolds` counts: the failures on record of a
subscription, and the abandoned deliveries that a job has yet to count, are at
most all its abandoned deliveries and the writes that failed (`EarnedInv`). It
needs the set of deliveries to be finite.

### Briefs (BriefSweepProofs)

The invariant follows a verdict from where it was made to where it is acted on:
who is about to clear a mark has judged the row as it stands (`VerdictsStand`), a
brief about to be written is of the present content or the item is marked
(`WritesCurrent`), and a row that was seen under its lock is still there
(`RowStays`). A batch row appears after its requests and goes before them
(`BatchesAnswerable`).

It falls into three parts, which hold under different hypotheses. Types, locks
and the rows of a batch hold whatever races: every step leaves its worker without
need of a lock or with the lock it needs (`LetsGo`, `Holds`, `Prepares`). That
what somebody wrote is under a lock only with their consent (`WritesAsked`) fails
by the one writer that takes no lock and adds a row, a device. And the verdicts
on an item survive that one and fail by every other race (`Core`).

### The calendar's channel (ChannelInvariant, CalendarChannelProofs)

`TokenStaysHonest` holds with every race: the stored token, and the token any job
started from, cover only what was imported, which rests on the listing being
imported before it is stored, not on the lock.

The other four share one invariant. The lock is named after the channel a job
began with, and renewals replace channels, so the lock alone excludes nothing.
What does: a job whose channel is due for renewal is alone until it has saved
the new one (`DueAlone`), and all jobs that run beside each other began with one
channel that is not due (`SameChannel`). Between the end of one channel and the
next Google notifies neither (`OneChannel`), which gives `NoOrphan` and
`OffIsOff`. None of this depends on what Google has told, so these three hold
through `gap` as well. `Owed` is `NothingMissed` made inductive: a change not imported is
told, or will be listed by a job under way, or the row has lapsed; `Told` says
why the channel a renewal is about to stop has nothing left to tell.

### Item and event (ItemInvariant, CalendarItemProofs)

`TypeCorrect` holds with every race. Its content is that one push of an item
creates its event at a time - the slot is taken before the insert and kept
through the stamp and what follows it (`SlotInv`) - and that nothing anybody
notes of a push is of a version Google does not have (`VersionInv`), which is
what makes the comparison of an import meaningful. `NotesOutdateNothing` follows
from it: apart from an edit that arrives after the stamp it did not know, what a
device sends loses only to a row that an import has made newer, and `VersionInv`
says whose change that was.

`LinkStays`. `CarryInv`: an operation that has read a linked row has its link.
`TakeBackInv`: the link comes off only of an item that is off the calendar; it
holds because nothing else works on the item meanwhile, which in turn needs that
a sync that has read the row finds it so when it writes (`ImportInv`), that the
first operation finds nothing under way (`FirstInv`) and that only an item on the
calendar is taken off it (`OffInv`).

`NeverTwice`. A sync makes a second item of an event when no item is linked to
it and none has its title and times. `UnlinkedInv`: an event on the calendar
whose item is not linked to it is either *detached* - its removal is under way
or in the issues panel, and the item is off the calendar or gone - or *to be
linked*: nothing ever knew the link, and the push that created the event is about
to stamp it, or item and event still have the same title and times. That takes
knowing which links and contents are about: no link before there is an event
(`KnownInv`), what each step of a push is entitled to (`ShapeInv`), what an
operation has read (`ReadInv`), and that a change never brings back a content
some push or issue still carries (`ContentInv`): otherwise an old push could
make the event say what it no longer should.

`StaysInStep` is about states at rest, and its invariant about all the others.
Google and the row may differ only where that is being dealt with: by a push that
is about to say what the row says (`Telling`), by a sync that is still to read
what Google's user typed (`Awaited`), or, after a failure, by an issue or a sweep
that will start such a push (`Owed`); this is `AgreeInv`. A push is answered by
then (`ToldInv`), and meanwhile nothing changes the row it tells (`TellInv`). The
rest is about when a sync takes note of a change, and which rows it may write:
no anchor shown anywhere reaches a change of Google's user's (`AnchorInv`), an
event never linked has not been touched (`UnseenInv`), an event is gone because
of the app or somebody is to hear of it (`GoneInv`), and what is off the calendar
or in the trash comes back to it by no operation (`AwayInv`, `OpLinkInv`). All
this holds for any number of failures; `FaultInv` is what holds before the first.

`OwnWritesStay` adds that a write of the app's that is not noted anywhere is
followed by another (`NotedInv`), which `lostTwice` breaks, so what a sync reads
is either somebody's or says what the row says (`EchoInv`).

Proving `InStep` changed the model: an operation may carry no time of the last
push at all, not only an older one, and a sweep that looks for a missed push then
has nothing to compare with; so `staleAnchor` breaks `InStep`, after two
failures. And the two losses of which TLC had shown that they break
`OwnWritesStayOut` became a race with a name.

### What is not proved

* **Beyond the prover**: liveness (`CatchesUp`, `SettlesUnlessOrphaned`,
  `Drains`, `CaughtUp`) and everything that needs `ENABLED`.
* **Only model-checked**: nothing but these. Every safety property of the runs
  that hold is a theorem, under the hypothesis the table names.
  `ImplementsReplicatedLog` holds with one context per device only, as said
  above.
* The hypotheses on races are needed as far as the tables of section 2 say: each
  race that breaks a property alone is excluded by its theorem. Some theorems
  exclude more, where an invariant of theirs serves several properties at once.


## 5. Findings

With a run:

1. *Lost recovery bootstrap* (`oplog_lost_bootstrap`). The server registers the
   device's row before the reply leaves. If the reply is lost, the device keeps
   its old cursor and the next pull is let through, inside the purge gap.
2. *A done item taken off the calendar keeps its event* (`item_revived`).
   `hydrateDetachOne` looks for the event to remove in the row the operation
   overwrites, and only if that row is on the calendar (`applyEntityOp.ts:183-188`).
   A done item has its event too. `docs/PUBLIC_API.md:419` promises the removal.

`PROJECT.json` quotes what these contradict and gives the steps. Without a run
of their own, each to be seen by putting a race into the `Races` (or `Anomalies`)
of a run's cfg:

3. *Pull before bootstrap* (`pullWithoutCursor` in `MCOpLog_tabs.cfg`, for
   `NoSkippedOperation`). SSE and web push trigger a pull without asking whether
   the account has a cursor here. After a sign-out and sign-in the old row lets
   it pass; bootstrap then never runs.
4. *Re-create skipped* (`recreated`, `Converged`). Queued deletes are read once
   per pull, so a re-create behind the delete's own echo is skipped for good.
5. *Batch applied in parallel* (`parallelWrites`, `Converged`). A create and a
   delete of one entity in one batch: the create's write may land last.
6. *Change between two channels* (`gap`, `NothingMissed`). A renewal stops the
   old channel before the new one is watched (`calendar.ts:5984`), and only a
   lapse is followed by a catch-up (`calendar.ts:5959-5963`): a change made in
   between waits for the next change or the next manual sync.
7. *The editor's removal of a brief* (`editorClear`, `NotForgotten`). The
   client's `clearBrief` deletes the row (`client/src/db/itemBriefMutations.ts:48-57`);
   the API's marks the item as well, because otherwise it would never be
   summarised again (`lib/itemBriefs.ts:129-133`).
8. *A channel nobody knows* (`gap` and `rerun`, `NoOrphan`). The loop of re-runs
   keeps the config it began with (`calendar.ts:6109`), so its next renewal stops
   a channel that is gone already and leaves its own predecessor watched, against
   the comment at `calendar.ts:5931-5934`.
9. *A moved entity vanishes* (`targetFirst`, `Converged`). On a device with a
   newer edit of its own the create leg loses by age (`syncHelpers.ts:828`) and
   the row keeps its old owner; the delete leg then takes it. The comment at
   `syncHelpers.ts:794-798` says either order converges.
10. *Claim outlives its process* (`Settles` instead of `SettlesUnlessOrphaned`).
    Nothing releases the claim of a worker that stopped: the delivery is neither
    made nor abandoned, against the module's own comment.
11. *Retry of an old snapshot* (`staleRetry`, `InStep`). `calendarPushback.ts:158-159`
    calls the push idempotent; it is idempotent, but it is the push of the
    snapshot of then, over whatever the item has become.
12. *Smaller ones of CalendarItem*: the time of the last push may be set back, or
    erased, by a device that does not know it (`staleAnchor`): without one no
    sweep finds a push missing (`InStep`); and while it is behind, by such a
    device or by two losses (`lostTwice`), the echo avoidance of
    `api-server/README.md:276` takes the app's own change for a person's; a 409 relinks the event and sends nothing, so a change made
    between a lost insert and its retry waits for "Sync now" or is not seen
    (`unseenLoss`); `itemCarryForward.ts:22-25` says the window after its read is
    closed by the follow-up of a create, which holds for the event but not for
    the link itself (`linkErased`).


## 6. Not modelled

* Sync orchestration on the client: session pivots and the gate's timeout, flush
  lock and its expiring marker, recovery dialog. Which contexts flush when is
  orthogonal to what a push does; OpLog and EntitySync let it happen at any time.
* Of the device: expiry of the hold on an unconfirmed delete, two contexts over
  one queue, entities missing from a recovery snapshot.
* Of owner moves: routines with their items, relinking of people and contexts,
  the calendar event of a moved item.
* Of webhooks: which operations are events, signatures, the routes that create
  and list subscriptions. Enqueueing is fire and forget (`notifyChange.ts`): an
  event lost before its row was inserted is not a delivery.
* Change fan-out by SSE and web push: hints, and a pull may happen at any time.
* Of briefs: prompts, the model, caps and cooldown, the back-fill of the mark.
* Of Google Calendar: routines and their exceptions, the merge of notes apart
  from the title (`resolveInboundNotes`), invitations and RSVP, read-only and
  all-day events, disconnect and reconnect with their markers, reconciliation of
  vanished items, healing of stale links, OAuth and suspension. Much of it is
  translation and date arithmetic; what has a protocol (disconnect markers,
  split routines) is another set of rows with its own sweeps.
* Routines: occurrences from recurrence rules.
* Sync-issues panel: the list, and RSVP replay; retries and dismissals of pushes
  are in CalendarItem.
* Account deletion and export, authentication, MCP wrappers, user interface: no
  protocol of their own with the parts above.

The user interface, routines and translation make up most of the repository by
lines, which is why the map covers a small share of it: it covers the handlers,
sweeps and mutations whose order matters.


## 7. Plan

Done: CursorOrder, OpLog with proofs and refinement of ReplicatedLog,
EntitySync, OwnerMove, WebhookDelivery, BriefSweep, CalendarChannel and
CalendarItem, each with proofs; all the safety properties the runs check are
theorems.

| Next | Models | Properties and theorems |
|---|---|---|
| `FlushLock` | Web Locks and the expiring marker, two contexts around one queue, expiry of unconfirmed deletes | one flush at a time under Web Locks; nothing dropped without them |
| `SessionGate` | gate with its timeout, pivots between accounts | no operation of one account under the session of another |
| `EntitySync`, extended | bootstrap apply over rows that are gone, `putItem` and `queueSyncOp` as two steps | as before |
| `CalendarItem`, extended | disconnect and reconnect, notes merged on their own | `InStep` across a reconnect |
