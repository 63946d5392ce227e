# Omnisonic in TLA+

TLA+ models of the parts of Omnisonic in which several processes work on the
same rows, objects or channels, TLC runs that check them on small instances, and
proofs, checked by TLAPS, of what holds for every instance. The modules are
translated from the source; paths below are relative to the repository.

## The system

| Component | State | Operations | What is hard |
|---|---|---|---|
| Export pipeline: `apps/studio-web/app/api/export`, `lib/export-queue.ts`, `services/export-worker`, `packages/storage` | `Export` rows, BullMQ jobs, objects, the Redis progress channel | POST, `processJob`, progress updates, `setStatus` | check-then-create, updates nobody waits for, jobs run twice, crashes between any two awaits |
| Export client view: `components/session/session-exports.tsx`, `hooks/useExportEvents.ts` | rows in the browser | merge of events and responses | reordered and lost events |
| Alerts worker: `services/alerts/src/worker.ts`, `notifiers.ts` | `AlertRule.lastTriggeredAt`, `AlertEvent` rows | `evaluate`, `processRule` | overlapping timers, delivery without its record, three time windows |
| Alerts CRUD: `services/alerts/src/server.ts` | rules and channels | create, update, delete | edits while a cycle runs |
| Licences: `services/graph-api/src/licenses.ts`, `index.ts` | `License` rows | `createLicense`, `updateLicense`, `revokeLicense` | check-then-write, values read before and written after |
| License expirer: `services/license-expirer` | a snapshot of overdue rows for each pass | `expireLicensesOnce` | stale snapshots, half a pass, overlapping passes |
| Realtime gateway and presence: `services/realtime-gateway`, `app/api/presence`, `hooks/usePresence.ts` | sockets, Redis sets and keys with TTLs, member lists in browsers | connect, message, close, heartbeat, roster | two sockets of a member, TTLs, a fetch racing events |
| PubSub: `packages/pubsub`, `services/graph-api/src/events.ts` | iterator queues and waiters | publish, next, return, close | waiters left behind, the order of a shutdown |
| Royalty ledger: `services/royalty-ledger` | none (pure) | `computeAmount`, `allocateUsageEvent`, `merkleRoot` | scales, rounding, the last share |
| Uploads and cleaner: `app/api/upload`, `services/upload-cleaner` | `Upload` rows, objects | upload, delete, `cleanupOnce` | object and row are not deleted together |
| Graph upserts and tags: `services/graph-api/src/index.ts`, `services/ingest` | works, recordings, tags | `upsertRecording`, `recordEntityTags` | sequences of statements without a transaction |
| Sessions, authentication, schemas, telemetry, tRPC, studio-api stub, insight web, CI | | | nothing that interacts |

The components meet in Postgres (the worker and the web application write the
same `Export` row; the graph API and the expirer the same `License` row), in
Redis (queue, progress channel, presence, pub/sub) and in object storage. All
services are Node processes: code between two awaits runs alone in its process,
and every await lets other handlers and other processes in.

## Modules

| Module | What it is |
|---|---|
| `ExportPipeline` | the pipeline, from the POST to the last event |
| `ExportPromise` | what it promises, without queue, processes, updates or events; `ExportPipeline` instantiates it as `Promise` (a job is open while BullMQ has it waiting or active) |
| `AlertsWorker` | the alerts worker with its three tables' columns |
| `Licenses` | the licence mutations and the expirer |
| `PresenceStore` | the roster in Redis, and the transactions on it that gateway and route share |
| `Presence` | gateway, pages and presence route over it |
| `EventStream` | what a topic promises to those who iterate over it |
| `PubSub` | one topic of the pub/sub package, over memory or Redis, with its iterators |
| `GraphApi` | `upsertRecording`, `recordEntityTags`, the `workUpdated` subscription and the shutdown, over `PubSub` |
| `Ingest` | the ingest service as a client of `GraphApi`; the composition of the three, shown to implement `EventStream` |
| `Uploads` | the upload routes, storage and the cleaner |
| `UploadPanel` | the panel of a session's page over `Uploads` |
| `RoyaltyLedger` | the arithmetic of the royalty ledger, as operators |
| `MCExportPipeline`, `MCAlertsWorker`, `MCLicenses` | values for constants that are functions, records or sets |
| `MCRoyaltyLedger` | what holds and what does not of the arithmetic on bounded inputs, as assumptions that the licence runs evaluate |
| `ExportPipelineProofs`, `AlertsWorkerProofs`, `LicensesProofs`, `PresenceProofs`, `IngestProofs`, `UploadsProofs`, `RoyaltyLedgerProofs` | the theorems |
| `Cardinalities` | facts on finite sets that two of them share |

An action is one awaited operation with the code up to the next await; `PROJECT.json`
gives the lines of each. A definition whose comment begins with "Variant with a
mistake" or "(faulty)" is not part of the specification: it is a plausible wrong
version of the definition after it, kept to show that a property notices.

Where a model has an `upsets` variable, it holds the faults and unusual events
that have happened: each kind may happen once, and `MaxUpsets` of them in one
behaviour. What a property excuses is thereby named in the property.

### ExportPipeline

| Variables | Code |
|---|---|
| `post` | where a POST stands between count, create and add |
| `status`, `progress`, `storageKey`, `errorMessage` | columns of the `Export` row |
| `objects` | keys in the bucket (a key depends on the export alone) |
| `job`, `attempt` | the BullMQ job and how often it was handed out |
| `pc`, `host`, `last` | an execution of `processJob`, its process, its `lastProgress` |
| `sent`, `written` | progress updates on their way to the database, to the channel |
| `told` | the last status heard on `export:progress`, as the gateway relays it |
| `ended`, `unanswered`, `crashes` | history and bound |

`queueProgressUpdate` issues an update and goes on, so an update is a step of its
own (`ApplyUpdate`) that may come at any time until `Drain` or `Settle` has waited
for it. `setStatus` is two steps, the write and the event. BullMQ is external:
`Take`, `Recover` and `LoseLock` model what the worker's options (the defaults)
make it do. `Faults` chooses what may fail; each fault is an alternative the code
handles, or does not. A status write may fail in two ways: it throws and has changed
nothing (`DbFails`), or it commits and its answer is lost, so that it throws all the
same (`AnswerLost`); creates, enqueues and uploads that throw may have taken effect
too. When the write that marks the row completed loses its answer, the catch block
turns the completed row failed, with its key and its object. The code does so, and
`CompletedIsFinal` names this one exception (`unanswered`): it says that nothing else
turns back a completed row whose job was handed out once.

### AlertsWorker

`pc`, `todo`, `snap`, `rule`, `matches`, `target` and `held` are the local
variables of one `evaluate()`; `lastTrig` and the `ev...` functions are columns;
`delivered` is what reached a destination, which the code cannot see. `Tick` lets
time pass between any two steps. ClickHouse answers with any set of entities, in
any order. Rules and channels stay active. Here too a write may throw with or without
effect (`DbFails`, `AnswerLost`). A rule update that commits and throws leaves
`lastTriggeredAt` set, the event marked failed, and the loop going on to the next
match, so the rule fires again within its cooldown: `CooldownHonoured` is checked
and proved without lost answers, and does not hold with them. `RateBound` holds with
every fault.

### Licenses

A scope stands for work, rights type and territory, compared for equality as the
query does (a null territory is one value among them). A mutation is `Asks`,
`Check`, and a write; its `payload` is what `buildLicensePayload` returned. The
expirer's timer does not wait for the pass before, so passes may overlap: `pass` is
the snapshot of each that it has not marked yet. Event publication is left out: a
failing publication ends a pass (`PassFails`) and changes nothing else. A write that
commits and throws leaves the rows as one that answers does.

### Presence

| Variables | Code |
|---|---|
| `ids`, `idsTtl`, `keyTtl` | the set `presence:room:<room>` and the members' keys, with the time each has left |
| `gate`, `gs` | the gateway's process; a socket in `rooms` and `clientMeta` |
| `pipe`, `replies` | commands sent over its one Redis connection, and answers whose callback has not run |
| `cs`, `inbox`, `beats` | a socket in the browser; messages and heartbeats on their way |
| `made`, `cur`, `interval`, `since` | sockets opened by the hook, `socketRef`, `heartbeatRef`, and how long ago it fired |
| `view`, `fetch`, `got` | `state.members`, and the roster request of a welcome |
| `heard`, `synced`, `upsets` | history and bound |

The gateway's commands run in the order they were sent; each `MULTI` is one step,
its callback (`AfterTouch`, `AfterRemove`) another. Heartbeats have no callback,
and a failing one ends the process. The hook closes its socket when its parameters
change (`Rerun`, `Disable`), and any socket's `onclose` stops the interval of the
page. `Tick` is longer than what is on its way, so it waits for it; requests for
the roster and broken connections may outlast any number of ticks. A member's own
list is followed for `Watchers` only, since nothing else depends on a list.

### PubSub, GraphApi, Ingest

| Variables | Code |
|---|---|
| `transport` | `createMemoryPubSub` or the Redis one, chosen at the start |
| `published`, `sub`, `wire`, `queue`, `last` | events of the topic, and an iterator's subscription, events travelling to it, `queue`, and what it handed out |
| `con` | its consumer; "waiting" is an entry in `resolvers` |
| `server` | up, draining and disposing (the shutdown in its order), exited |
| `rpc`, `batch`, `gone` | where a mutation stands, the tags it brings, whether its client has hung up |
| `row`, `workOf`, `works`, `tags` | the recording, the work it points to, works, and tags of the item, each known by the mutation that wrote it |
| `seen` | what a subscriber was sent |
| `job`, `call`, `by`, `outcome`, `stored` | the ingest service's loops |
| `end`, `overlap`, `upsets` | history and bound |

A mutation is a sequence of statements, each a step: `find`, `update` or `work`
and `create`, then the two publications. A client that times out leaves its
mutation running. Subscribers read the row after the event. A statement or a
publication may throw, in vain or, if it is a write, after it has committed
(`StatementFails`); the row is then written and nobody is told, which is the one
reason `SeenIsCurrent` accepts for a subscriber who has not seen it, besides an
announcement still to come (`Unannounced`). The process may die at any time.

### Uploads, UploadPanel

| Variables | Code |
|---|---|
| `objects`, `keyOf` | keys in the bucket, and the key of a file (two files of one name and time share it) |
| `rows`, `linked`, `old` | `Upload` rows, those of the session, those past the retention |
| `post`, `del` | where a POST and a DELETE stand |
| `cleaner`, `todo`, `item` | the cleaner's process, and a pass of `cleanupOnce` |
| `shown`, `load`, `uploading`, `deleting` | the panel's list, its loads, and what it waits for |
| `leftRow`, `leftObject`, `doubt`, `upsets` | history and bound |

Local storage hides a failing deletion and S3 throws it, so `CleanObjectFails` may
do either. `docs/specs/phase-1-studio.md:27` says that a deletion removes file and
metadata; with local storage the row goes also when the object stays, which
`ObjectHasRow` counts under `leftObject`.

### RoyaltyLedger

Amounts are integers with a number of decimals (`Dec`), as the code's strings are.
`MCRoyaltyLedger` assumes, for a precision of 3: writing and reading an amount
changes nothing; reading rounds to the nearest unit; an event whose amounts have as
many decimals balances, when there is no difference to put on the last share, or
one that leaves it long enough; and roots of lists without a repeated end differ.
It assumes as well what fails without these conditions: 10.00 in three shares does
not balance, a short difference is written with its digits in the wrong place, and
a list whose last entry is repeated has the root of the list without it.

## Runs

| Run | Instance | Shows |
|---|---|---|
| `export_faults` | 1 export, 2 workers, all faults, 1 stall, 1 crash, raw percentages 0, 9, 40, 120 | types; a completed row has object, key and progress 100; no event before its commit; while the job was handed out once, a completed row stays so unless the answer to its own write was lost |
| `export_promise` | 3 exports of a session, limit 1, two POSTs at once, storage faults, 1 crash | implements `ExportPromise`; no stuck row; clean completed rows; overshoot of the limit bounded; every accepted export ends and listeners hear how |
| `export_limit` | 2 exports, limit 1 | the limit itself is broken by two POSTs at once |
| `export_late_update` | 1 export, render fault | a row left processing with no job |
| `alerts_serial` | 2 rules of a channel with limit 2, 2 entities, 3 events, 1 cycle, refusals and crashes | limit, dedupe window and cooldown hold for what was delivered |
| `alerts_faults` | 1 rule, limit 1, 2 entities, 3 events, 2 cycles, all faults, lost answers among them | types; overshoot of the limit bounded |
| `alerts_overlap` | the same without faults | the limit itself is broken by two cycles |
| `licenses` | 2 rows, 2 scopes, 3 days, 1 mutation at a time, 2 expirer passes, revocations | types; no overlap; overdue licences expire; the royalty arithmetic's assumptions |
| `licenses_dates` | 1 row | an end before its beginning can be stored |
| `presence` | 2 members, 2 sockets in all, time to live of 2 ticks, heartbeat of 1, 1 upset | types; nobody without a socket comes back to the roster; heartbeats keep a member in it; a page in step shows the roster; entries heal after every upset, and leftovers expire |
| `graph_events` | 2 ingest calls, 2 mutations, 1 subscriber, either transport, 1 upset | types; a subscriber ends with the row as it is; older data over newer, works without recording and mixed tags each have their one explanation; implements `EventStream`; events arrive and nobody is left waiting |
| `uploads` | 2 files, 2 deletions, batches of 1, 2 passes, 2 loads, 1 upset | types; rows and objects are paired but for what a failure left; the panel catches up; stale files go |

The four runs that find a violation are disagreements of the code with what the
repository's documents say; `PROJECT.json` quotes them under `findings`.

The bounds, for exports, alerts and licences: one export is enough for the
properties of its row, since exports share nothing but workers and the session's limit; two executions are the most
that BullMQ's default of one stall allows, and a crash and a stall in the same run
give both ways to a second one. Three exports with a limit of one let one be
refused, two be admitted together and one wait for the worker. The percentages
include both clamps and a difference below `MinDelta`. Three events fill a limit
of two and exceed it, and exceed the bound for two cycles and a limit of one; a
cooldown and the window of an hour end before the clock stops, so that a rule can
fire again and an event leave the window. Two licence rows
can overlap, touch on one day, or be in different scopes; a row can be revoked,
taken up again by an update, and expire. `MaxPosts`, `MaxCrashes`, `MaxTime`,
`MaxDay`, `Events`, `Ids`, `Cycles`, `Requests` and `Passes` are bounds of the models and
not of the code; the theorems hold for every value of them. The alerts runs stop
when the clock and the rows are used up, so they do not check deadlock; symmetry
is used there only (rules, entities, events and cycles are interchangeable, no
liveness is checked).

For the others: two sockets are one each for two members, or a second one of a
member whose first is still closing; a time to live of two ticks and a heartbeat of
one let an entry age, be renewed, and expire, and `PostTtls = {1}` is a POST that
shortens the life of the set. Two mutations are the fewest that overlap, one of
them may be given up and land late, and two calls send them beside each other or
one after the other. One iterator meets every state of a subscription; iterators
share nothing but the topic, and the theorem about `ImplementsStream` is for any
number of them. Two files share a key, and are two passes' worth of a batch of 1;
two passes overlap; two loads answer in either order. One upset at a time keeps
these runs short, and the combinations are covered by the theorems: they hold for
any `MaxUpsets`, sockets, members, times, requests, jobs, iterators, files,
deletions, passes and loads. `graph_events` and `uploads` do not check deadlock:
they stop when the bounded requests are used up and the server has exited.

## Fairness

`ExportPipeline`: `WF` of every step of `processJob`, of the updates and of the
POST handler, since awaited calls return or throw; of `Take`, since a worker with
a free slot polls the queue; of `Recover`, since BullMQ's check runs on a timer.
None for `PostCount` (nobody has to ask), `Report`, `LoseLock` and `Crash`.
`Licenses`: `WF` of some pass beginning, the timer; `SF`, for each row, of some pass
marking it, so that passes may fail any number of times but not on the same row for
ever.
`AlertsWorker` has no liveness property: a destination may refuse for ever.
`Presence`: `WF` of `Tick` and of a due interval (clocks run), of `Execute`, of the
callbacks, and of the arrival of heartbeats, messages, openings and closings; none
for requests for the roster, for what a page decides, and for upsets.
`GraphApi`: `WF` of each statement and publication (the database and Redis answer),
of deliveries, of the consumer's next request, and of the shutdown's steps once it
has begun; none for new calls. `Uploads`: `WF` of the cleaner's start (it is
restarted whenever it ends), of its timer and of the steps of a pass.

## Proofs

The theorems are about `Spec`, for all values of the constants within the named
assumptions. Every inductive invariant is a conjunction that begins with the types.

* `ExportPipelineProofs`. `TypeCorrect` needs that a waiting job has attempts left.
  `CompletedStored` and `EventsFollowCommits`: an execution that is about to finish
  has put its object, objects and keys are never removed, and no update carries a
  percentage above 95 together with `completed`. `CompletedFinal`, under every fault:
  while a job was handed out once, nobody but its execution writes the row, and its
  updates are drained before the final write; what still writes after it is the catch
  block of an execution whose final write lost its answer. `AdmissionBounded`: rows active for the first
  time and POSTs past the count together are within the limit plus the other POSTs.
  The next three follow one execution at a time (`Claimed`: whoever runs or has
  updates on their way is the execution that BullMQ handed the job to last), which
  holds as long as no lock is lost while its process lives. `CompletedClean` needs
  that only. `NobodyStuck` and `StuckOnlyWhenDropped` rest on `Owed`: the row of a
  job handed out is terminal, or an execution has its last write before it, or its
  process died and the stalled-job check is to come; `CrashesCounted` ties the
  hand-outs to the crashes. `PromiseKept` is a step simulation of `ExportPromise`
  from all of these invariants; `Stage` relates the row to where its execution
  stands. Three hypotheses are needed, since without each the row really can be
  left open. `RendersEnd`: no failing render (its updates are not drained and
  reopen the row, as `export_late_update` shows) and no status write that throws,
  with effect or without.
  `OneTrouble`: not crashes and lost locks in one behaviour (updates of the process
  that died may land after the other execution is over). `MaxCrashes <= MaxStalls`,
  or no crashes: BullMQ drops a job that lost its process more often, and
  `StuckOnlyWhenDropped` says that this is all that any number of crashes can do.
* `AlertsWorkerProofs`. `RateBounded`: an event held by a cycle may leave the window
  and be stamped into it again when it is marked sent, so counting the events of
  the last hour is not inductive. Held events are counted through the cycle that
  holds them: loose events and engaged cycles together stay within the limit plus
  the other cycles.
  `CooldownKept`, for one cycle at a time and every fault but lost answers: the
  cycle's snapshot is
  true for the rules it has not begun, and a rule it is firing is out of its
  cooldown. `DedupeKept` adds that a match which passed the lookup is clear of
  every notification of its entity until it is stamped itself. It assumes refused
  notifications and crashes only, as do `ReachedBounded` and `ReachedKept`, which
  carry the rate from the rows to what the destination saw: an event delivered stays
  counted, because no two cycles hold the same row (`HeldApart`) and only the cycle
  whose notification was refused marks it failed. After a timeout, or when the
  status write fails, a delivered event is taken for failed and no longer counted.
* `LicensesProofs`. `OverlapBounded`: a row may be about to be written over by a
  mutation that does not count it as a conflict, so rows are counted the same way.
  That an update writes no day its check did not look at (`NarrowedByUpdate`), even
  when it keeps the old end, and that ranges with a common day overlap
  (`SharedDay`) are the lemmas it rests on. With one mutation at a time the
  theorem says that licences never overlap; with two they can.

* `PresenceProofs`. `NoGhostReturns` and `HeartbeatsKeep` are about behaviours in
  which neither the route nor a fault takes a hand (`Undisturbed`), and `Calm`
  lists the steps that remain. `NoGhost` is then inductive with the types: a socket
  that closes puts its member's removal behind everything sent before, and commands
  run in order. `KeptAlive` is not: time may pass before the next heartbeat. `Fresh`
  says that what the last command gave an entry, with the age of the interval, is
  still the whole time to live; it needs that the only socket of a page is the one
  its interval beats for, and that the interval does not age while the gateway has
  yet to take the connection (`OnlySocket`), and that no command about a socket that
  is open removes its member (`Traced`). `TypeCorrect` counts sockets: the bound on
  all of them bounds those of each member.
  `ViewsKept` is about the lists, and has no hypothesis that `ViewInStep` does not
  state. Its invariant (`ViewInv`) follows each member's join and leave through the
  four places they pass, the pipe, Redis, the answers and a page's inbox: a leave is
  sent after the socket has gone (`LeavesLate`) and overtakes no join (`JoinsLeave`);
  a page hears its own join before its welcome, and so before it loads
  (`OwnJoinFirst`); whoever the gateway sends to is listed once their join has run
  (`Here`, from `Fresh`). Then a list that was loaded unraced is right for everybody
  but those whose news is on its way to the page (`ListRight`), and so is what a
  request has read while nothing was heard (`LoadRight`); with nothing on its way
  they are right. Queues are sets of positions (`At`), and the lemmas `PushedAt` and
  `PoppedAt` say how an append and a tail move them.
* `IngestProofs`. `StreamImplemented` is a step simulation: `Gapless` says that what
  an iterator has handed out, its queue and what travels to it are consecutive
  numbers that end with the last event published (or published when it was
  returned), so that handing out the head of the queue is a step of `EventStream`.
  `MutationInv` is the invariant behind the next three theorems: which call waits for
  which mutation (`Calls`), that a write over newer data is a late one
  (`LateWrites`), that a work has its recording or a mutation about to create it
  (`Works`), and that mutations whose tags are mixed had overlapped (`Mixed`).
  `SeenStaysCurrent` adds that every write is followed by an announcement that is
  still to come or was given up when its mutation failed, or by an event the
  subscriber has not dealt with. `TypeCorrect`
  needs that no more events are published than mutations are done.
* `UploadsProofs`. `Paired`: a row without its object is in the hands of a deletion,
  or was left by one. `Owned`: an object has a row that no deletion has in hand, or a POST
  that is about to create it, or was left by a failure. `PanelInv` follows a load:
  the answer to one that is alone is the list, or the panel still waits for a change
  (`AnswerIsList`); so is what it shows once that load is over (`ShownIsList`); and
  nothing overtakes a load that is alone (`AloneIsAlone`).
* `RoyaltyLedgerProofs`. The whole share is the amount; rounding is off by half a
  unit at the most; two shares that make up the whole miss it by one unit at the
  most; every level of a Merkle tree is half the one below, so that it ends. That
  the corrected credits balance is induction over the list of shares and is only
  evaluated.

Only model-checked: all liveness (`EventuallyOver`, `ListenersCatchUp`,
`EventuallyExpired`, `ListedAgain`, `GhostsExpire`, `EventuallyHanded`,
`NobodyLeftWaiting`, `StaleGoes`) and the arithmetic of lists in `MCRoyaltyLedger`.
Every invariant and action property of the passing runs is a theorem, within the
hypotheses above.
Liveness and ENABLED are outside what this prover does.

## What is left, and what is not modelled

Of the plan (exports, alerts, licences, presence, pub/sub, uploads, royalties,
graph upserts and ingest, each with its proofs) these parts are open:

* `ExportView`, the browser's list composed with the pipeline's events: each arrival
  is assigned as it comes, and the code promises no order of them.
* Alerts CRUD: edits of rules and channels while a cycle runs.
* Proofs beyond the hypotheses above: what holds of `NoStuckRow` and
  `ImplementsPromise` when locks are lost and processes crash, and of the lists of
  pages that have opened a second socket.

Left out of the modelled parts:

* Presence: what a member's entry carries besides its being there, `connected` and
  `error` of the hook, handshakes the gateway refuses, messages other than
  heartbeats, reconnects of the gateway's Redis client.
* PubSub: `throw()`, the server-sent events route, topics other than one, which share
  nothing with it, and a second `return()` of an iterator. On the memory bus that
  second call finds the empty set the first one left behind and deletes the topic's
  entry, which by then may be another one with live subscribers
  (`packages/pubsub/src/index.ts:97-104`). No code of the repository calls it twice;
  graphql-ws, which consumes the subscriptions, is external and taken to call it once.
* A publication that Redis takes and whose answer is lost: the subscribers hear the
  event and the mutation fails.
* Graph API: queries, recordings of other ISRCs and tags of other items (mutations of
  these touch none of the rows followed), a recording added to a work that the
  caller names, the licence and ledger topics.
* Ingest: parsing of feeds and the scores of tags: any entry may bring any batch.
* Uploads: requests that are refused, read-only routes, and navigation from one
  session to another; files linked to a session do not reach the retention, as the
  cleaner takes files without a session only.

Not modelled and not planned: sessions and authentication (single statements, a
library's flow), schemas, telemetry, tRPC, the studio-api stub, pages, dashboards,
table definitions and CI.
