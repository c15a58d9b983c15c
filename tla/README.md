# StreamGive backend: TLA+ models, checks and proofs

StreamGive's backend indexes two Soroban contracts (`ngo-registry`,
`donation-vault`) into Postgres, serves the result over HTTP, takes in
applications of NGOs and sends notifications. These modules model the parts of
it whose correctness depends on what happens *between* steps: several indexer
replicas, a cursor cached in memory, handlers that apply relative amounts,
scripts that run beside the indexer, concurrent requests, notifications that are
sent again, clients that page through tables while they change.

All paths below are relative to the repository.

## 1. The system

| Component | State | Operations | Hard behaviour |
| --- | --- | --- | --- |
| Event indexer (`src/indexer/worker.ts`, `lock.ts`, `checkpoint.ts`) | cached cursor, advisory lock, row of `indexer_checkpoints` | `runPoll`, `pollOnce`, `saveCheckpoint`, `tryAcquireIndexerLock`, stop | replicas, loss of a database session, failures at every await, crash and restart, retention window, page limit |
| Vault handlers (`src/indexer/handlers/donationVault.ts`, `dispatch.ts`) | `streams`, `stream_events`, `donors`, `ngos` | `created`, `withdraw`, `cancel`; `topup` and `ratemod` ignored | redelivery of relative amounts, unknown streams, clamped balance |
| Dead letters (`src/indexer/deadLetter.ts`, `src/scripts/replayDeadLetters.ts`, `src/maintenance/logRetention.ts`) | `indexer_dead_letters` | record, replay, prune | the script beside the indexer, its crash, replay out of order, rebuilt events that lack fields |
| Registry handlers (`src/indexer/handlers/ngoRegistry.ts`) | `ngos.verified`, `ngos.name`, `stream_events` | `register`, `approved`, `revoked` | missed and late events |
| Reconciliation (`src/scripts/reconcileVerification.ts`) | none of its own | list, read on chain, fix | stale reads beside the indexer, worker pool failure |
| NGO applications (`src/routes/ngoApplications.ts`, `src/notifications/contactVerification.ts`) | `ngo_applications`, two challenge tables, a transaction lock per owner | challenge, submit, resend, verify, approve, reject | concurrent requests, expiry between check and use, failure after commit |
| Notifications (`src/notifications/service.ts`) | set of delivered ids, `notification_logs`, `notification_endpoints` | `notify`, `dispatchNotification` | deduplication under concurrency and at its cap, answers that come too late, rows that are not written or pruned |
| Read routes (`src/routes/donors.ts`, `impact.ts`, `ngos.ts`, `tokenTotals.ts`, `deadLetters.ts`, the list in `ngoApplications.ts`) | none | queries, cursor and offset pagination, totals, the renaming of an NGO | pages over changing tables, several queries for one answer |
| `streams.ts`, `indexerStatus.ts` | none | activity of a stream; the lag | — |
| Admin signatures, HTTP server, configuration, metrics, RPC client | — | — | outside the scope of these models |

How they meet: `runPoll` calls `pollOnce`, which calls `dispatchEvent`, which
calls the handlers; a handler commits one transaction and then hands a
notification on without waiting. The indexer's two write paths (the handler's
transaction, `saveCheckpoint`) are separate transactions, so everything between
them is at-least-once. The replay script calls the same dispatcher; the pruning
timer and the reconciliation script write the same tables. The intake of
applications shares with the rest only the notification service.

What makes each part correct:

- *Indexer.* No event is passed over without a trace; events are acknowledged in
  order, after they were applied or given up; one replica polls at a time; a
  crash endangers at most one event; every event is settled in the end.
- *Vault projection and dead letters.* The amounts of a stream and its audit rows
  agree; a stream whose events were applied is what the contract has; nothing
  that failed is forgotten; a cancelled stream does not change.
- *Verified flag.* It comes from an approval or from the script; once the indexer
  has caught up it is the contract's, unless an event was missed or applied late;
  an undisturbed run of the script repairs it.
- *Notifications.* A destination that took an event does not get it again without
  a cause; a recorded success is one; an event is remembered only when every
  destination took it.
- *Pages.* A walk ends, and what nobody touched is returned in order and once.
- *Totals.* The routes agree with each other, and a share is at most 100 %.
- *Applications.* One open application per address; a challenge is used once; a
  review follows the verification of the address and is final; requests end.

## 2. Modules

| Module | What it is | Code |
| --- | --- | --- |
| `Indexer` | the workers, one step per await | `worker.ts`, `lock.ts`, `checkpoint.ts`, shutdown in `index.ts` |
| `EventLog` | what the indexer promises: deliver, give up, acknowledge | `docs/INDEXER.md`, Checkpoint |
| `MCIndexer` | instances for TLC | |
| `IndexerProofs` | the theorems on `Indexer`, the refinement of `EventLog` included | |
| `Projection`, `MCProjection` | vault handlers, dead letters, replay script, pruning | `donationVault.ts`, `deadLetter.ts`, `replayDeadLetters.ts`, `logRetention.ts` |
| `Verification`, `MCVerification` | registry handlers, `ensureNgo`, reconciliation | `ngoRegistry.ts`, `reconcileVerification.ts` |
| `VaultLedger` | what the projection promises: a ledger that books each event in its turn | `docs/INDEXER.md`, Checkpoint and Failed events |
| `ProjectionRace` | `Projection` with a second poller in the middle of a transaction | `donationVault.ts` |
| `Applications`, `MCApplications` | the intake and review of applications | `ngoApplications.ts`, `contactVerification.ts` |
| `ApplicationRegister` | what the intake promises: a register that serves one request after the other | |
| `Notifications`, `MCNotifications` | `notify`, its memory, the delivery log | `service.ts`, `logRetention.ts` |
| `Paging`, `MCPaging` | a client's walk through a paged listing | `ngos.ts`, `donors.ts`, `deadLetters.ts`, `ngoApplications.ts` |
| `Statistics`, `MCStatistics` | the totals of the read routes over the streams | `impact.ts`, `ngos.ts`, `donors.ts`, `tokenTotals.ts`, `impactService.ts` |
| `ApplicationsProofs`, `NotificationsProofs`, `ProjectionProofs`, `VerificationProofs`, `StatisticsProofs`, `PagingProofs` | the theorems on the module each is named after | |
| `Induction` | lemmas for the proofs: induction over numbers and finite sets, recursive functions, sums | |

Operators that begin with "Mistaken:" are wrong variants of the one that
follows them. No specification uses them; each is a plausible slip in the code
that the property named for it must notice.

### Indexer

`pc[w]` is what worker `w` awaits next: `acquire` (the advisory lock), `readRow`
(`getCheckpointState`), `firstLatest` and `readLatest`
(`getLatestLedgerSequence`), `fetch` (`getEvents`), `handle` (the handler),
`save` (`saveCheckpoint`); `idle` is the time between polls, `down` a process
that is gone. `mem[w]` is `lastProcessedLedger` with `lastProcessedEventId`; a
cursor of 0 is an undefined event id. `lock[w]` is what the client believes of its
lock (`indexerLock`, `isHeld`), `lockHolder` is what Postgres knows; they part
in `ServerDropsSession`, `ClientLosesSession` and `Crash`. An event is its place
in the RPC's order and `Chain[e]` its ledger. A write comes in three outcomes:
done and answered, done with the answer lost (`Written(FALSE)`), and not done
(`PollFails`). A poll whose await rejects ends there, with whatever the cached
cursor is by then: `Advance` moves it *before* `SaveCheckpoint`, as
`worker.ts:243-245` does.

The RPC is an endpoint with several nodes behind it. `ReadLatest` may get a
ledger that is one behind (fault `lag`); `Fetch` is answered by a node that has
the ledgers up to `n`, which is `latest` unless the fault `behind` happens.
`pollOnce` uses only the `events` of that answer.

`IsDecodeOrValidationError` stands for the classification of errors; which events
get a permanent one is the constant `Malformed`. The delay before a poll is not
modelled, only that it ends (`backoffDelayMs` is capped).

Refinement. `ImplementsEventLog` maps `delivered` to the committed handlers,
`givenUp` to dead letters, logged skips and what a first run starts after, and
`acknowledged` to what the checkpoint row covers. It holds while no session is
lost and the RPC's nodes agree: with two pollers at once, or a node that lags, the
row may go back, which `EventLog` forbids.

### Projection

The log is any legal sequence of a stream's events, including logs that begin
after the stream was created. `Deliver` and `Save` are the indexer's two
transactions. `cursor` is the worker's cached cursor, which a delivery moves, `saved` the
checkpoint row, which follows only when the save takes effect: `Save` need not happen
before the next `Deliver`, as in `worker.ts:243-245`, and after a `Crash` the indexer
goes on from the row. `reached` is how far it ever came. `broken` are events
the deployed handlers cannot decode, until `Deploy`. The replay script has a step for each
of its awaits: `ReplayList`, then per row the dispatch (`ReplayDispatch`, or `ReplayThrows`),
the second read of the attempts (`ReplayRead`, `replayDeadLetters.ts:67-74`) and the update
of `resolvedAt` (`ReplayResolve`, `:76-79`), or the `catch` (`ReplayCatch`, `:81-87`), which a
query that fails leads to as well (`ReplayQueryFails`). The indexer, the pruning and
`ReplayCrash` come between any two of them. A rebuilt event
has no `ledgerClosedAt` (`Throws`), which is fatal to each handler that writes a time.
`PruneOldLogs` takes resolved rows at any time: how old is old is abstracted.

Refinement. `ImplementsLedger` maps `account` to `streams` without the balance,
`entries` to the rows of `stream_events`, `failed` to the unresolved dead letters and
`passed` to the checkpoint. `VaultLedger` has no script, attempts, redelivery or pruning: a
handler is `Open`, `PayOut` or `Fail`, `ReplayResolve` is `Resolve`, `Save` is `Pass`
(of all the events since the row), the
rest is invisible. Its `Turn` would let an event that failed be booked later; as the code is,
the script never does (`Throws`, and the run `replay_created`).

`ProjectionRace` adds what `Indexer` shows can happen when a session is lost: a
second poller at the same cursor. It is between its `findUnique` (`OtherReads`)
and its `update` (`OtherWrites`) while `Projection` goes on. Both statements run in
one transaction, but Prisma's default is Postgres' READ COMMITTED, where the update takes
the row as it has become by then.

### Verification

The registry contract emits while the indexer follows; an event may be dead-lettered,
skipped with an aged-out checkpoint, redelivered or replayed late. `job` is the
script: per NGO listed, then mismatch, done or failed. `stale` is a history set: the owners
whose flag missed an event or was last set from one that a newer one had
overtaken. `CaughtUpAgrees` speaks of the others.

### Applications

A request is a record with the await it stands at. `FindBlocking` and `Insert`
are the two halves of the transaction between which the owner's lock is held.
`Notify` has two outcomes because no destination may be configured;
otherwise `service.ts:89` reads a name that is not declared and the promise rejects.
Reads that change nothing, invalid bodies and bad signatures have no step.

Refinement. `ImplementsRegister` maps `issued` to the challenges with their owners,
consumed and expired ones included, `file` to `ngo_applications`, `mailed` to the mails
that went out and `good` to the mailed links whose token row is there and has not expired
(`GoodLinks`). The register knows no lock, no token row, and no request that is under way:
`Insert` is its `OpenFile`, `SendMail` its `MailLink`, `VerifyContactToken` its
`ConfirmAddress` (or `VoidLinks`, when the token has expired), `Update` its `DecideFile`.

### Notifications

`call[c]` is one call of `notify`: the await it stands at (`load` the endpoints,
`deliver`, `noop`, the record of an event nobody listens to) and, per destination, where
`notifyWebhookTarget` is: `check` the log, `post`, write the row (`logSuccess`,
`logFailure`), and its answer `yes`, `no` or `threw`. `delivered[p]` is the set
of a process as a sequence, since a JavaScript `Set` keeps the order of insertion, and
`Cap` its size. Handlers do not wait for `dispatchNotification`, so calls overlap, in
one process or in two.

`declared` is whether the build has a variable `deliveryId`. As written it has none
(`service.ts:89`): `Prepare` then throws, no request is ever sent, and the properties
hold because nothing happens. The run therefore checks both builds; with
`declared` the module says what the service does once that line is repaired.

`accepted` counts how often a destination took an event, `lapses` what can make it get
the event again: the answer came after the timeout, the row was not written, the
row was pruned, the process died in between, a second call ran at once. A duplicate
without a lapse would be a fault of the bookkeeping.

### Paging

A row is an id, a key to order by and a flag to filter by. `walk` is the client with
its cursor or offset; `listing` chooses the route, that is the filter (`Listed`), the
order (`Precedes`) and how the cursor is resolved: within the query (`ListNgos`), by
Prisma (`ListNgoDonors`, `ListAllNgos`), in a newly sorted array (`RankDonors`), or by a
query of its own (`FindCursor`, then `ReadRows`). The writers of the other components appear as
`Insert`, `Flip`, `Rekey` and `Prune`, each restricted to the listings whose rows they
change.

All listings but one order by a key and then by the id. `GET /ngos/all` orders by
`createdAt` alone (`ngos.ts:279`), and Postgres may return rows of the same instant in another
order each time: `tie` is their order now, `Reorder` another one. With an order that is not
unique Prisma cannot state "after the cursor" as a condition; it fetches the listing and looks for the
cursor in it. One that has left the filter is not found (`MarkListed`), so the page is empty
and the walk ends.

`walk.offset` of the applications is limited (`MaxOffset`, 10,000 in the code): a request
beyond it is answered with 400, which ends the walk as `refused` (`RefuseOffset`).

Two history variables say what a walk can be held to. `touched` are the rows that were written
or, in `GET /ngos/all`, changed places with an equal one. `lost` marks the walks
for which nothing can be promised: the cursor's row moved to another key, is gone, or has left a
listing of `GET /ngos/all`; or rows came or went before an offset. The properties say
nothing of either, so these hazards (a pruned, moved or unlisted cursor) are described by the model and
excepted by the properties; what is checked is that nothing *else* disturbs a walk, and that
such a walk ends too.

### Statistics

A stream is a status, a balance and what was withdrawn, as the handlers of `Projection`
leave them when one poller runs: the row a handler reads and what it writes are one step here. The
cancelled stream with a balance, and the overwritten amounts, that two pollers may leave
(`projection_race`) do not occur, so what this module shows, it shows for one poller. The totals are sums over sets of streams. `ReadNgo` and `ReadPlatform` are
the two queries of `GET /impact/:ngoId`, with the handlers in between.

## 3. Runs

| Run | Result | What it shows |
| --- | --- | --- |
| `indexer_lock` | passes | Without a lost session, disagreeing RPC nodes or a save without effect: one poller, the workers implement `EventLog`, at most one applied event lies beyond the checkpoint, and the checkpoint catches up for good. |
| `indexer_split` | passes | With lost sessions (two pollers), a lagging RPC, failing saves, crashes and a window of one ledger: nothing is skipped silently, and every event is settled in the end. |
| `indexer_behind` | counterexample | A node without the ledger read before serves an empty page; the cursor moves over the event it did not have. |
| `projection` | passes | Tables agree, chain and projection agree, nothing forgotten, cancelled is final; all together implement `VaultLedger`. |
| `replay_created` | counterexample | A repaired `created` event fails its replay for want of `ledgerClosedAt`. |
| `projection_race` | counterexample | With two pollers, a withdraw computed before a cancel is written after it: the cancelled stream has a balance again. |
| `verification` | passes | The three statements on the flag above. |
| `applications` | passes | The statements on applications above, that requests end, and that all together implement `ApplicationRegister`: concurrent requests look as if they were served one after the other, and only the newest link confirms an address, once. |
| `notifications` | passes | The three statements on notifications above, for both builds. |
| `paging` | passes | Walks end, if need be with the refusal of an offset; rows that were neither written nor moved among equals are returned in order and once, unless the walk is `lost`. |
| `paging_offset` | counterexample | With an offset a decided application shifts the rest: one is never shown. |
| `statistics` | passes | For one poller: the routes' totals agree, shares add up and are bounded, totals fall only by a cancel. |

### Where code and documents disagree

With a run:

1. `worker.ts:205-206` says an empty range "*was* scanned", and
   `docs/INDEXER.md:90` that remaining events are never skipped. The cursor goes to the
   ledger of the earlier `getLatestLedger` call, not to the `latestLedger` of the
   `getEvents` answer, so a node that is behind makes the indexer pass over events
   without a trace (`indexer_behind`). This needs an endpoint served by several nodes.
2. `replayDeadLetters.ts:63-64` says a dead letter has the fields handlers read
   (`replay_created`).
3. `donationVault.ts:111-112` says a withdraw is a no-op on a cancelled stream, and
   `:193-194` that a cancel zeroes the balance (`projection_race`).
4. `ngoApplications.ts:415-417` says offset pages never repeat or skip a row
   (`paging_offset`).

Seen while modelling, without a run:

- `worker.ts:239-242` and `docs/INDEXER.md:102-103` bound the damage of a crash
  to the event in flight. The cached cursor is moved before the save, so each save that
  fails without effect adds one event; `OnlyInFlightAtRisk` is stated without such saves.
- `worker.ts:38-40` calls the row "the source of truth" and the cached cursor an
  optimization to skip a read. `pollOnce` reads the row only when nothing is cached
  (`worker.ts:142`), and the loss of the lock clears nothing: a worker that gets the lock back
  polls from its own cursor, behind the row that another one has moved, although nobody else polls by
  then. The case occurs in `indexer_split`, whose properties (nothing skipped, all settled) hold
  all the same; events are handled again and the row goes back.
- `schema.prisma:204-207` promises one audit row per event; an event that is
  delivered again gets another.
- `docs/API.md:650` promises 201 for a created application. While a destination is
  configured, `service.ts:89` throws and the answer is 500 (`Applications`), and no webhook is sent
  at all (`Notifications`). `src/index.ts:8` imports a function that `service.ts` does not
  export, `server.ts` uses `withTimeout`, `HEALTH_CHECK_TIMEOUT_MS` and
  `requireAdminSignature` without importing them, and `streams.ts` lacks its schemas: merges
  left names behind. The models take the modules as they are written and assume
  the server starts.
- `README.md:199-201` speaks of persisted webhook retries with a backoff;
  `service.ts:10-14` has the constants and no retry.
- `GET /ngos/all` has no tie-break (`ngos.ts:279`), so NGOs created at the same instant may be repeated or
  passed over. And as that order is not unique, Prisma most likely looks for the cursor in
  memory: when its NGO has left the filter, the next page is empty and the walk ends
  early (see `Paging`; this is Prisma's behaviour as we understand it, not code of the repository).
- The list of applications cannot be read beyond offset 10,000 (`ngoApplications.ts:78`, `:88`).
- `docs/DATA-MODEL.md:63-64` says amounts of different tokens are not combined;
  `totalCommitted` and the platform share add them (`Statistics` does as the code does).
- `docs/DATA-MODEL.md:98-99` says the platform share is truncated to two decimals;
  `impact.ts:141` keeps twelve.
- `docs/INDEXER.md` says an event of an unknown stream has no effect, while it is
  recorded as a dead letter; `DEPLOYMENT.md` says there is no leader lock; and an
  event in the ledger `INDEXER_START_LEDGER` itself is not indexed, since the
  first poll asks for the ledger after it.

### Bounds

- `MaxFaults` 2 or 3: every finding needs at most two; three allow a lost
  answer, a crash and a shutdown of two workers in one run. Which kinds may
  happen is `FaultKinds`, per run.
- `Workers` 2: the lock's hazards are pairwise.
- `MaxLedger` 3 or 4 with events in ledgers 2 and 3, two in one ledger in the longer
  chain: an empty ledger before, in and after; `PageSize` 2 splits a page within a
  poll; `Retention` 1 or 2 makes the cursor age out. `StartLedger` is set in
  `indexer_lock`; in `indexer_split` it is not, so that a first run starts from a latest
  ledger that may lag.
- `Projection`: one stream (handlers of different streams share no row), three
  events (create, change, cancel), amounts 0 and 1 with a deposit of 2 (a withdrawal that is repeated overdraws),
  `MaxBroken` 1, `MaxRedeliveries` 2, `MaxAttempts` 3 (the script may run twice over a row).
- `Verification`: two owners, two workers of the pool (so that one goes on writing after
  the other has failed), `MaxEvents` 3 (register, approve, revoke, from any earlier
  status). Owners are symmetric; the run has no liveness property.
- `Applications`: one address (addresses share nothing but the token counter),
  two requests, three challenges (two race for one application, a third after a
  rejection), two tokens (one replaces the other).

- `ProjectionRace`: one stream, three events (created, withdraw, cancel), no other fault.
- `Notifications`: two processes, two calls at once and three over all (a first, an
  overlapping and a later one), a memory of one id with two events to remember (the second evicts
  the first), two endpoints (one takes the event, the other does not), one event
  without an id, one that no endpoint lists; two faults and one edit or pruning. Processes, calls and endpoints are
  symmetric; the run has no liveness property.
- `Paging`: three rows (a cursor, one before, one after), two keys (so that
  keys tie), limits 1 and 2 (three rows make an exact and a short last page), three changes
  (a write, or ties that come in another order), a largest offset of 2 (a walk of three rows goes beyond it with
  limit 1).
- `Statistics`: three streams that NGO, donor and token group differently, deposits 0 and 3,
  amounts 0, 1 and 4 (nothing, part, more than there is), five events; a scale of 10 so that shares are truncated.

Deadlock checking is off for all but the indexer: logs, challenges, attempts, calls and changes
are bounded, so a run may really end. The
indexer's runs check it: a worker can always go on.

### Fairness

`Indexer`: weak fairness of each worker's own steps. The `finally` of `runPoll`
always schedules the next poll (`worker.ts:330-333`), `backoffDelayMs` is capped
at five minutes, an await settles, and the orchestrator restarts a process that
has exited. Weak fairness of `ReapOrphan`: Postgres ends the sessions of dead
clients by TCP keepalive. Faults, shutdown requests and new ledgers are never
forced, and a fault that can happen does not have to. `Applications`: weak
fairness of the steps of each request that has begun: the event loop runs what
can run, and a lock's waiters are served in turn. Clients, expiry and failing
queries are not forced. `EventuallyAnswered` counts a request that dies with
its process as ended. `Paging`: weak fairness of the client's requests; the table changes
only if it wants to. `Notifications` states no fairness.

## 4. Proofs

Each module that models something has a module of theorems beside it. They are
about `Spec`, and so about `FairSpec`, for every value of the constants that
satisfies the assumption the module names: sets of workers, owners, requests and so
on may have any size, unless finiteness is assumed below. Every safety
invariant, every action property and refinement that a passing run checks is a
theorem; TLC shows them on the instances of section 3, and TLAPS for all.

### What is assumed

| Module | Assumption on the constants | Why the code justifies it |
| --- | --- | --- |
| `Indexer` | `ConstAssumption`: a chain that is ordered by ledger; numbers are natural; the marks are not workers or positions | the RPC's order is the chain's |
| `Projection` | `ProjectionAssumption`: amounts are natural, `Absent` is no row | the contract moves positive amounts |
| `Verification` | `VerificationAssumption`: likewise | |
| `Applications` | `BoundsAssumption`, `AbsentAssumption`: bounds are natural, no more challenges than application numbers, `Absent` is no row | an application takes a challenge of its own |
| `Notifications` | `NotificationAssumption`: finitely many calls, the fallback URL is not an endpoint, `Idle` is no call | |
| `Statistics` | `StatisticsAssumption`: finitely many streams, natural amounts | a table is finite |
| `Paging` | `PagingAssumption`: finitely many numbered rows, limits of at least one, any largest offset | the routes' schemas: `limit` is 1 to 100 |

Some theorems on `Indexer` also exclude kinds of faults, in their statement. Each
exclusion is needed: TLC finds a violation with the fault allowed.

| Theorem of `IndexerProofs` | Says | Excluded faults |
| --- | --- | --- |
| `TypeCorrect`, `PollsConsistent` | `[]TypeOK`, `[]PollConsistent` | none |
| `Invariance`, `NothingSkipped` | `[]IInv`, `[]NoSilentSkip` | `behind` |
| `MutualExclusion` | `[]OnePoller` | `session` |
| `CursorInvariance` | `[]CursorInv` | `session`, `lag` |
| `Implementation` | `ImplementsEventLog` | `session`, `behind`, `lag` |
| `InFlightAtRisk` | `[]OnlyInFlightAtRisk` | `session`, `lag`, `save` |

With `behind`, the scanned range may hold an event the answering node did not have
(`indexer_behind`). With `session`, two workers poll, and the slower one moves the row
back. With `lag`, a cursor inside the newest ledger falls back behind that ledger
when the next read of the latest one returns the one before. With `save`, the
cached cursor runs ahead of the row by one event for each save that has no effect.

### Indexer

*Nothing skipped.* `NoSilentSkip` alone is not inductive. When a worker advances
past an event, the positions it now covers are those covered before and that
event, only if nothing lies between: that is `PollConsistent` (what is left of the batch
continues the cached cursor without a gap, and exists only while events are
handled). With `TypeOK` they make `IInv`. Each of the three has a lemma with one
step per action (`TypeStep`, `SkipStep`, `ConsistentStep`). The scanned range
(`AtLedger(seen)`) is safe because the ledger was read before the events:
`seen[w] <= latest`, and the page was empty for all closed ledgers.

*One poller.* `LockInv`: who polls has `lock = "held"`, and who has that is
`lockHolder`.

*Refinement.* `CursorInv` adds what keeps the row from going back: a position
within a ledger is at an event of a closed ledger (`Places`); a poll asks for events
only beyond its cursor (`FetchesAhead`); only the lock's holder has a cursor, and
it is never behind the row (`CursorLeads`). `LogStep` then maps every action of
`Next` to an action of `EventLog` or to a stutter: a handler's commit to `Deliver`, dead
letters, skips and a first run's start to `GiveUp`, and a save to
`Acknowledge`, whose guard (an acknowledged event is settled, the acknowledged
ones are a beginning of the log) is `NoSilentSkip` and `CursorLeads`.

*At risk.* The cursor is the row except just before a save (`CursorSaved`), so only
the event after the row may have been applied (`NextAtRisk`).

### Applications

| Theorem | Says |
| --- | --- |
| `TypeCorrect`, `Invariance` | `[]TypeOK`, `[]IInv` |
| `OneOpen` | `[]OneOpenApplication` |
| `UsedOnce` | `[]ChallengeUsedOnce` |
| `DecidedIsVerified` | `[]ReviewedIsVerified` |
| `DecisionIsFinal` | `ReviewIsFinal` |
| `Implementation` | `ImplementsRegister` |

`Refers`: what a request, a token or a mail names exists, and who is about to write a
review has seen a verified address. `ConsumedByOne`: a consumed challenge belongs to
one request or one application. `InsertsAlone`: a request between its check for a
blocking application and its insert holds the lock of its owner, and nothing
came in its way. That only holders of the lock insert, and that it is released by
whoever ends, is what keeps it.

*Refinement.* `RegisterStep` maps every step to a step of the register or a
stutter. The guards of `OpenFile`, nothing in the owner's way and a challenge not used, are
looked at long before the insert; `InsertsAlone` and `ConsumedByOne` carry them over.
`DecideFile` wants a verified address, which `Refers` carries from the check. A link is mailed
once (`MailsOnce`: the ids of stored tokens only grow, each has one request to mail it,
and no mail names one that is not stored), so that storing a token voids
the links before it and never revives one.

### Notifications

| Theorem | Says |
| --- | --- |
| `TypeCorrect` | `[]TypeOK`, the cap of the memory included |
| `SuccessIsReal` | `[]RecordedSuccessIsReal` |
| `RememberedIsAccepted` | `RememberedWasAccepted` |
| `DuplicatesCaused` | `[]DuplicatesHaveCause` |

`RememberProperties` says what the insertion with its eviction does to a memory.
`TakenInv` ties every "yes" of a running call to an accepted delivery.
`DuplicatesHaveCause` is an account: `Accounted` counts, for an event and a
destination, the calls that may still deliver together with what was delivered and
the lapses. One more is allowed only while a success on record stops the calls that
have not checked yet. `OneBuild` keeps the two builds apart. Every action is one
`Transition` of one call's `Phase`, so the arithmetic is done once.

### Projection

| Theorem | Says |
| --- | --- |
| `TypeCorrect` | `[]TypeOK`: no balance is negative |
| `CancelledStays` | `CancelledIsFinal` |
| `NoEventForgotten` | `[]NothingForgotten` |
| `AuditAgrees` | `[]WithdrawnIsAudited` |
| `ChainIsMatched` | `[]MatchesChain` |
| `Implementation` | `ImplementsLedger` |

All rest on `Outcome`, what a handler can do (nothing, record a failure, or write
both tables), which every delivery and every dispatch of the script does for one event. `RecordedInv`: an event behind the
indexer is settled or has an unresolved dead letter, and what the script has
dispatched is settled or its failure has moved the attempts, which is what the
script's second read compares. `Audited` states `WithdrawnIsAudited` for all events
of the log: those ahead add nothing.

`MatchesChain` has two sides. `ChainForm` says what the contract has after `n`
events of a legal log, by induction on `n`: the deposit less what was paid out.
`RowInv` says which events a stream's row stands for, in whatever order they came.
They meet in the balance, which the code computes as a difference clamped at
zero: `WithinDeposit` shows that a stream whose withdraws were applied once never
reaches the clamp, since a legal log pays out no more than the deposit, and
`Balanced` that balance and withdrawals then add up to it.

*Refinement.* `HandlingBooks` maps each `Outcome` to a booking, a failure or a stutter
(a failure of an event that was resolved before, whose row keeps its `resolvedAt`).
`ListMoves`: only `ReplayResolve` takes an event off the unresolved ones, and by
`RecordedInv` only a settled one: what `ReplayRead` found is still true when the update comes, since
the indexer and the pruning can only settle more; the same invariant is the guard of `Pass`. `NothingIs`
says that settled means nothing to book.

### Verification

| Theorem | Says |
| --- | --- |
| `TypeCorrect`, `Invariance` | `[]TypeOK`, `[]IInv` |
| `CaughtUpIsRight` | `[]CaughtUpAgrees` |
| `QuietFixIsRight` | `[]QuietFixAgrees` |
| `VerifiedHasAudit` | `[]VerifiedIsAudited` |

`VerifiedAt(o, n)` is the contract's answer after `n` events in a form that can be
reasoned about (an approval is the last of its events, or it has none and was
verified before). `FlagInv`: a flag that is not stale says what the
contract did at *some* position that nothing has overtaken. So it survives
redelivery, and at the end of the log it is the contract's. `JobInv`
says the same of what the script has read, and `QuietInv` of a run nothing comes between.

### Statistics

| Theorem | Says |
| --- | --- |
| `TypeCorrect`, `Invariance` | `[]TypeOK`, `[]IInv` |
| `ShareWithinPlatform` | `[]ShareBounded` |
| `RoutesAgree` | `[]TotalsAgree` |
| `SharesMakeWhole` | `[]SharesAddUp` |
| `FallsByCancel` | `FallsOnlyByCancel` |

`EmptyWhenCancelled` is why the platform's sum may leave the status aside.
`ReadCovered`: what was read of the NGO is covered by the platform as long as nothing
was refunded. `RoutesAgree` is the sum over groups (`SumGroups`) of NGOs, donors and tokens;
counts are sums of ones. `SharesMakeWhole` bounds each truncation by one unit.

### Paging

| Theorem | Says |
| --- | --- |
| `TypeCorrect`, `Invariance` | `[]TypeOK`, `[]IInv` |
| `PrefixOnce` | `[]PrefixReturned` |
| `WalkComplete` | `[]NothingMissed` |

The routes take the first rows of an ordered set, which the module states by
ranks (how many rows come before). The rows may be any finite set, and the order of ties in
`GET /ngos/all` any permutation that may change at any time. `RankOrder` and `RankBijection` say that ranks
number the rows without gaps, and `PrecedesOrder` that every listing's order is one.
`PrefixReturned` speaks of moments at which the cursor's row exists; `MarkInv` and
`MarkReturned` carry it over the two queries of the dead letters, between which the
row may be pruned. `NothingMissed` then follows from a page shorter than its limit,
or an exact last page, leaving no row behind. It speaks of walks that end with an answer: one
whose offset is refused ends too, with rows it has not returned.

### Induction

The library's induction theorems take the predicate as an operator, which the provers
cannot instantiate. `Induction` states them with the *set* of what satisfies it, from the
well-foundedness of `<` on numbers and of the strict subset relation
(`UpToInduction`, `SubsetInduction`). From these follow the uniqueness
of a function that is defined by recursion on a number (`Recursion`), which
`OnChain` needs, and the laws of `SumFunctionOnSet`: adding, removing and changing one
term, monotony, splitting, and sums over groups.

### Model-checked only

- Liveness: `EventuallySettled`, `EventuallySaved`, `EventuallyAnswered`,
  `EventuallyDone`. They need fairness and `ENABLED`, which the prover cannot handle.
- The properties of the runs with a counterexample, which do not hold.
- `ProjectionRace`, whose only property is one of those.


## 5. Not modelled

- That each call of `notify` ends: every await of it has a timeout or is a query, but
  the liveness property makes the run too large.
- The e-mail stub of `notify` (a row nothing reads); the activity of a stream (`streams.ts`
  refers to schemas it does not define, so each request fails); the lag
  of `indexerStatus` and `/health/ready` (two reads and a subtraction); the CSV export and ETags.
- Authentication, validation, rate limits, HTTP formatting, metrics, seed data.
- Time: delays, ages and expiry are steps that may happen whenever they can.
- Two replay scripts at once, and a change of the watched contracts.
- A retry of a handler for one contract never meets the other contract's tables,
  except `ensureNgo`, so the two projections are separate modules over the
  same indexer abstraction (`Deliver`, `Save`).

## 6. Plan

Done: the eight models with their runs, three abstract specifications and their
refinements, and the theorems of section 4. Next:

1. What still holds of `Indexer` when a session is lost: how far the row may go back.
2. Theorems about helpers the routes use alone, such as the truncation of shares.
