# Tackle Forger: specification and verification

Tackle Forger is a workbench for designing fishing tackle (rods, reels, lines):
a Next.js application whose server keeps one shared workspace in an SQLite
file, lets people and an AI propose changes to it, and exports the result as
configuration workbooks through a companion program on the user's machine.
This directory holds TLA+ specifications of the parts of it where an
interleaving, a crash or a lost answer decides whether data is right, the TLC
instances that check them, and theorems about them proved with TLAPS.

    tlasany M.tla                                     parse
    tlc -workers 2 -config X.cfg MCM.tla              check one instance
    tlapm M_proofs.tla                                check the proofs

`PROJECT.json` lists, for every definition, the source lines it stands for, and
for every property a mutated definition that breaks it. Paths and lines below
are those of the repository (`src/` is its root).

1. [The system](#1-the-system)
2. [The modules](#2-the-modules)
3. [The runs](#3-the-runs)
4. [What disagrees with the documents](#4-what-disagrees-with-the-documents)
5. [The proofs](#5-the-proofs)
6. [What is not modelled](#6-what-is-not-modelled)
7. [What comes next](#7-what-comes-next)

## 1. The system

### How the parts interact

                 browser (Workbench, client saving, local session)
                    |  HTTP                              |  HTTP, loopback
                    v                                    v
     Next.js routes: state, action-commands,     config export companion
     data-sources, series, v23, ai, auth ...        |
        |           |               |               v
        |           |               |         target workbooks, lock file,
        v           v               v         staging, backups, commit records
     command     workspace      AI runtime
     store  ---> revisions      store (JSON files)
        \___________/
         one SQLite file, several server processes

Every routed write is done in two requests. The first, `POST
/api/action-commands`, *issues* the command: it stores the payload under an
idempotency key and binds it to a newly granted workspace lease whose fencing
token is one above a high watermark that is never set back. The second, for
example `PUT /api/state`, *executes* it: in one immediate transaction the lease
is compared, the business change is saved as the next revision of the workspace,
and the result is recorded so that a repeated request gets the same answer.
Server processes share nothing but the SQLite file; within a process, promise
tails queue issuances (`issuanceTails`) and transactions (`transactionTails`).

### Components

*Status* says whether a component is modelled; the reasons are in section 6.

| Component | State it keeps | Operations | What makes it hard | What makes it correct | Status |
| --- | --- | --- | --- | --- | --- |
| Action command store (`lib/sqlite-action-command-payload-store.ts`, `lib/action-command-payloads.ts`, `lib/production-action-commands.ts`, `app/api/action-commands`, `app/api/state`) | leases, high watermarks, issuance claims, payloads, execution results; a queue per key | acquire a lease, issue, take over a stale claim, execute once, replay | several processes, two transactions per issuance, crashes between them, 30 s claims and 5 min payloads, lost answers | a token is granted once; a key has one payload; a command takes effect at most once, with its recorded result, in token order | modelled |
| Workspace revisions (`lib/sqlite-storage.ts`) | workspace JSON, revision, history, imported files | seed, load, save on a base revision, list, backup check | loads happen before the transaction that saves | the history has every revision once; a save on an old base is a conflict | partly |
| Opening the command store, v2 to v3 upgrade (same file, `ensureTables`) | schema, cached open promise | create tables, carry the lease's token into the watermark table | statement by statement, in no transaction, by every process that opens the file | no token from before the upgrade is granted again | modelled |
| AI draft and confirmation routes | none of their own | load, save without a command, retry | race with commands for the revision | never lose a revision | partly |
| Config export commit (`lib/config-export*.ts`, companion) | lock file, staged files, backups, commit records, confirmable previews, the workbooks | preview, stage, commit, roll back, answer a repeat | several files replaced one by one, each operation may fail, others edit the same files, the process may be killed | delivered once and completely or not at all; originals recoverable; only what was confirmed is written | partly |
| Config export generation | none | map rows, write xlsx and text | numeric formats, stable order | output is a function of the package | no |
| AI runtime store (`lib/ai-runtime-store.ts`, `lib/ai-retention.ts`, the hourly sweep) | JSON files, lock files, tombstones, audit log and outboxes, admission file | save, view, accept and delete assessments, sweep, purge backups, flush audit records | several processes, lock recovery in several steps, crashes between any two writes, restored backups | one task in a lock; what is deleted stays hidden and is purged; every audit record is written once | modelled |
| AI assessment routes, outbound calls (`lib/fancy-hub.ts`, `app/api/ai/assessments`) | none of their own, admission leases | admit, discover, call, retry, fall back, audit, release, save | silent provider, limits discovered late, crashes with a lease | limits hold; an answer is backed by record and audit; every assessment ends | partly |
| AI draft conversion | none | proposals to drafts | | pure function | no |
| Client-side saving and conflict merge (`app/Workbench.tsx`, `lib/workspace-conflict-merge.ts`) | page, base and its revision, draft, undo stack | edit, undo, save, refresh, merge, run commands | answers lost or late, handlers that keep an old page | no save takes away what its author has not seen | partly |
| Local session | parsed files, worker operations, login poll | start, cancel, dispose | late results of cancelled work | a cancelled operation changes nothing | no |
| Authentication | signed cookies, OAuth state | log in, call back, log out | replayed callbacks | | no |
| Config ID reservation and governance (`lib/config-id-governance.ts`, `lib/config-id-reservation-service.ts`) | catalogs, scans, policies, ledger of numbers | publish, reserve, retry, change the state of an entry | reservations prepared on an old workspace, leases that end under way | names and numbers are never shared or taken back; allocated only under the lease | partly |
| Publishing and snapshots | snapshots in the workspace | publish, batch | inside a command | snapshots are immutable | no |
| Domain actions | in the workspace | transitions of drafts and rules | inside a command | legal transitions only | no |
| Rule graph batches (`lib/workflow.ts`, `app/RuleGraphStudio.tsx`) | graphs, batches with node states, rows and review snapshots | design, start, execute by hand or automatically, review, approve | branches that run at different times, timers that find a changed batch, reviews on copies, formulas that throw | rows change once and in the order of the graph, none is left behind, an approved edit stays, a batch comes to an end | partly |
| Workbook governance | rule source drafts | pull, draft, publish | remote workbook | published source matches the confirmed draft | no |
| Patch ledger and authority | append-only patches | append, revert | inside a command | append-only | no |
| Five-axis transactions | undo and redo stacks | edit, undo, redo, publish | long sequences | undo restores | no |
| Data sources and write-back (`app/api/data-sources`) | proposals, remote sheet | pull, propose, write back | a remote write inside a local transaction | a remote write is recorded locally | no |
| Import of files (`app/api/import-file`) | files, `imported_files` rows | rename into place, insert | crash between the two | every row has its file | no |
| Series and SKU routes | in the workspace | create, target pull | idempotent creation | one series per key | through the command store |
| Validation and waivers | none | check | | pure | no |
| Numerical policies | none | price, reduce, evaluate | floating point | pure | no |
| Workspace migrations | none | upgrade JSON | | pure, idempotent | no |
| User interface | React state | render | | | no |
| Backup, deployment, agent scripts | files | copy, check | | | no |

The `hazards` of `PROJECT.json` name the lines at which this code can go wrong
in a way a test would hardly reach, and the properties that would notice. Some
have none, as their notes say. The write to a remote sheet inside a transaction
is not modelled, and two processes that issue commands may hinder each other
until the tokens run out. The others are modelled, but the code does not
prevent them: a lease that was replaced is carried over in an upgrade, a second
attempt at an export takes its backups anew, an admission request is overtaken,
a refresh meets other requests, the page is reloaded between mark and timer.
The properties next to them hold up to that very step, which a history variable
or an exception in the property names; section 4 says what follows.

## 2. The modules

| Module | Models | Extended by |
| --- | --- | --- |
| `CommandStore` | constants and the counter shared by the next two | `ActionCommands`, `LeaseMigration` |
| `ActionCommands` | command store, workspace revisions, saves without a command, crashes, time | `MCActionCommands`, `ActionCommands_proofs` |
| `CommandLedger` | abstract: what the command store promises its callers | instantiated in `ActionCommands` as `Ledger` |
| `LeaseMigration` | opening the store and the schema upgrade, one statement per action | `MCLeaseMigration`, `ActionCommands_proofs` |
| `ExportCommit` | preview and commit of a package by the companion, rollback, outsiders, crashes | `MCExportCommit`, `ExportCommit_proofs` |
| `StoreLock` | the lock file of the AI runtime store, owners that die, recovery | `MCStoreLock`, `StoreLock_proofs` |
| `LockPromise` | abstract: what a lock file promises | instantiated in `StoreLock` as `Promise` |
| `AiRetention` | assessments, tombstones, audit and purge under those locks, crashes, backups | `MCAiRetention`, `AiRetention_proofs` |
| `FancyHub` | one assessment from admission to answer, sharing limits with others | `MCFancyHub`, `FancyHub_proofs` |
| `ClientSave` | browsers that edit, save, merge and run commands | `MCClientSave`, `ClientSave_proofs` |
| `ConfigIds` | publication of catalogs, scans and policies; reservation of numbers | `MCConfigIds`, `ConfigIds_proofs` |
| `RuleGraph` | a batch of rows driven through a rule graph from the page that shows it | `MCRuleGraph`, `RuleGraph_proofs` |

`ActionCommands` and `LeaseMigration` share the lease and watermark rows: the
first starts from the tables the second leaves behind. They are separate
because an upgrade happens once in the life of a file, and its statements are
finer than the transactions of the command store. What is the same in both, the
processes, the token range and the counter, is `CommandStore`; the names of
`LeaseMigration` begin with `Opening` where `ActionCommands` has the plain ones,
so that one proof module can extend both. `StoreLock` and `AiRetention`
are layered: the first shows that the file protocol implements `LockPromise`
(one holder, who keeps the lock until it gives it back or dies), and the second
takes a lock in one step, may find the owner dead and recover it, and is left
with a lock of nobody when an owner dies before it has written its name. What
`AiRetention` and `FancyHub` show therefore rests on what `StoreLock` needs:
that no two recoveries of one dead owner's file race.
`FancyHub` takes the admission lock in the same way. `ClientSave` has its own
small server: the part of `ActionCommands` a browser can tell apart is a
revision check and a lost answer.

### ActionCommands

| Variable | In the code |
| --- | --- |
| `watermark`, `lease` | rows of `workspace_fencing_high_watermarks`, `workspace_action_leases` |
| `uuids` | the supply of `randomUUID()`: the n-th identifier is n |
| `claims[k]` | row of `action_command_issuance_claims`; `stale` once older than 30 s |
| `payloads[k]` | row of `action_command_payloads`: payload, revision it was issued for, lease |
| `expired` | payloads past their five minutes |
| `executed[k]` | row of `action_command_executions` |
| `revision`, `history` | `workspace_state.revision`; who wrote each row of `workspace_revisions` |
| `issuer[p]` | the issuance process p is running |
| `executor[p]` | a request of p that executes a command, with the revision it loaded |
| `saver[p]` | a request of p that saves without a command |
| `txn` | the process whose command holds `BEGIN IMMEDIATE` across its callback |

A key stands for the triple of actor, action and idempotency key under which
the tables are indexed. A transaction is one action where nothing can be seen
between its statements: claiming, storing the payload, releasing the claim. The
execution is three (`BeginBusiness`, `Business`, `CommitExecution` or
`AbortExecution`), because the callback awaits in the middle and another process
meets the lock. The actions, by function:

* `claimIssuance` (`:302-422`): `ClaimFindsWinner`, `ClaimBecomesOwner`,
  `ClaimExhausted`. Waiting for a fresh claim of somebody else changes nothing
  and is a disabled action.
* `issueWithWorkspaceLease` (`:438-521`), second transaction: `SaveIssued`,
  `SaveFindsWinner`, `SaveStale`, `SaveRejected`; its catch block `Recover`; its
  finally block `ReleaseClaim`, which deletes the claim only if it still is the
  own one and then answers or goes round the loop.
* `executeOnce` (`:612-659`) with the checks of `executeActionCommandPayload`:
  `ExecuteReplays` (a recorded result comes first, also for an expired payload
  or a replaced lease), `ExecuteStale`, `ExecuteRejected`, `BeginBusiness`.
* `runSqliteImmediateTransaction` and `busy_timeout` (`lib/sqlite-storage.ts`):
  `CanWrite`, `CanRead`, `Busy`; a process that finds the lock taken by another
  one may wait or fail (`IssueTimesOut`, the `Busy` disjuncts).
* `saveSqliteWorkspace`: `SaveResult`, in `Business` and in `SaveDirect`.

Abstracted: a payload is an atom, and its hash the payload itself; validation of
a payload and of capabilities is a choice (`SaveRejected`, `ExecuteRejected`,
and the `"failed"` of `WinnerAnswers`), as is whether a business callback
refuses; a process runs one issuance (the promise tail sees to that), one
execution and one direct save at a time. One execution per process suffices
because the transaction tail serialises them and the second process provides
the second execution to race with.

### CommandLedger

Results and a history of revisions; a command is recorded once, together with
the revision it writes or without effect, and outsiders may append. It knows no
lease, no claim and no process. `ImplementsLedger` says that `ActionCommands`
behaves like it under `results <- executed`, `history <- history`.

### LeaseMigration

`watermark` and `leaseToken` are the rows (0 when absent), `grants` the tokens handed
out so far, `lock` the write lock, `opener[p]` how far process p has come and the
two values it has read. `outdated` is history: a process has carried over a lease
that had been replaced after it read it. `ReadLease`, `ReadWatermark` and `WriteWatermark` are
the three statements of the upgrade loop (`:147-176`), which run outside any
transaction; `OpenFails` is the rejected promise that stays cached; `Begin`,
`Grant` and `End` are a write transaction of an opened store.
`Upgrading = TRUE` allows files of either schema, `FALSE` only v3 files.

### ExportCommit

One companion, one target profile, several commit requests at the same time.

| Variable | In the code |
| --- | --- |
| `target` | the workbooks, each the set of changes it contains; `Missing` between the two renames of a replacement |
| `staged`, `backup` | `staging/<package>/<profile>`, `backups/<package>/<profile>` |
| `record` | `commits/<key>.json`: absent, `Torn`, or the preview it was written for |
| `lock` | `locks/<profile>.lock`: absent, held by a commit, or `Leaked` |
| `previews`, `reader` | previews that may be confirmed, the preview request at work |
| `call[c]` | a commit request: where it is, which file it is at, what it displaced |
| `edited`, `racing` | which workbook an outsider changed; whether a commit was at work then (history variables) |
| `halved`, `again` | packages of which a commit has ended with some workbooks replaced, killed or after a failing rollback; those of them that a later commit has backed up anew (history variables) |

`Lookup` to `GivesUp` are the part of a commit before anything is replaced,
`Displace` to `RereadFails` are `atomicReplace` and the read-back, used in both
directions, `Validate` to `ReleaseFails` the record and the finally block.
`RollsBack` is what an exception does in the try block of `commitExportPackage`:
it goes to the last workbook *listed* as replaced. The field `lost` of a request
is history: the workbooks an operation has left changed, because it failed in
putting them back or in reading them back. Every file operation that can
throw has a fault kind, and an instance chooses in `Faults` which of them do.

Abstracted: the hash of a workbook is the workbook; merging a package adds one
element; staging is one step, because a commit reads one staged file at a time
and compares it with the hash of the preview, so that a half-staged directory
looks to it like one of the two; governance evidence is a choice (`Denied`). A
formal commit always carries verified authorisation, so a replay compares the
whole context (package, base and staged hashes): `Replayable` compares previews.
A request for several profiles runs this commit once per profile.

### StoreLock and LockPromise

| Variable | In the code (`lib/ai-runtime-store.ts:161-230`) |
| --- | --- |
| `lock` | `<file>.lock`: absent, or which creation it is, by whom, and whether the owner's name is written in it |
| `made` | the supply of `ownerId` and inode |
| `alive` | the processes a signal 0 finds |
| `task[t]` | a call of `acquireLock`: where it is, the creation it owns, the one it has examined |

`Create` is `open(lockPath, "wx")`, `Write` and `WriteFails` what follows it,
`ReleaseCompares` and `ReleaseUnlinks` the two halves of `release`, `Examine`,
`Confirm` and `Unlink` the three of a recovery, each of which may meet another
file than the one before. A lock may look stale at any time, since a heartbeat
can be late; that is no state. Waiting and giving up change nothing. A process
identifier is not used twice. Every task recovers, as every caller of
`acquireLock` does; `raced` is history and set when a second task confirms the
file another one has confirmed and not yet unlinked. `KeepsPromise` maps the file
to the holder of `LockPromise`.

### AiRetention

| Variable | In the code |
| --- | --- |
| `record[a]` | `assessments/<a>.json`: content, `tombstone`, `primaryPurgedAt`, acceptance, `runtimeAuditOutbox` |
| `tomb[a]` | `tombstones/<a>.json`: `backupPurgeState`, `cleanupAuditEvents` |
| `log[a]` | the lines of the audit log, by event identifier |
| `lock` | the lock file of each document: a task, `Dead`, or `Blank` (created, never written) |
| `backup[a]` | the copies of the record in the daily backups |
| `age[a]` | below 24 hours, below 30 days, beyond |
| `task[t]` | a request, or the sweep with the clock values it has read |
| `emitted`, `restored` | history: events committed so far, assessments brought back by an operator |

A task goes through `mutateAssessmentWithAudit` step by step: lock, read and
apply the tombstone index, replay the outbox (`AppendEvent` per event, then
`Acknowledge`), run the operation, write the tombstone, write the record, replay
again, unlock. The operations are `Save`, `Delete`, `Accept` and `SweepRecord`;
viewing is `View` and `ViewIndex`, which read without a lock one after the
other. `NothingToPurge`, `PurgeBackups` and `WriteCleanup` are the sweep's part
of a purge. `Crash` leaves any of it half done, with its lock; `Restore` is the
operator who copies a file back. Accepting an artifact and dismissing a
recommendation are the same operation on different fields; the list view is
viewing one by one; encryption is left out.

### FancyHub

| Variable | In the code |
| --- | --- |
| `leases`, `times` | the admission file: leases with expiry, times of the requests in the window |
| `cached` | the concurrency limit discovered last (`providerHardLimits`) |
| `task[a]` | `assess` in `lib/fancy-hub.ts:901-1122` and the route around it |
| `log[a]`, `record[a]` | the connector's audit events, the assessment as saved |
| `now` | the clock behind `Date.now()` |
| `sent`, `overtaken` | history: all requests admitted; one was admitted after a request with a later time |

`Begin`, `ReadLimits` and `Acquire` admit the assessment; `Stamp` reads the time
a request will carry and `Consume` counts it under the file's lock, which is the
gap in which it may be overtaken; `Call` sends. The provider answers with the
models and its limit (`Discover`, `Learn`), succeeds, fails for a while (retry,
then the next model), fails for good, or never answers (`TimesOut`). The tail is
`Audit`, `Release`, `Save` and their failing counterparts. `Fault` is a failing
write, `Crash` the death of the process. What is sent and how it is parsed, and
batches of several assessments, are left out.

### ClientSave

| Variable | In the code (`app/Workbench.tsx`) |
| --- | --- |
| `page`, `base`, `revision` | the `state` of React, `baselineStateRef`, the revision it was loaded or saved at |
| `dirty`, `notice` | `dirty`, `saveFeedback` with the fields offered for a choice |
| `shortcut` | the page and revision the keyboard handler has closed over |
| `undo`, `draft` | `undoStackRef`, `conflictDraftRef` |
| `stored`, `net` | the revisions of the server; requests and answers under way |
| `chosen`, `behind` | history: which values a user has replaced knowing them; whether undo has put an older page back, or a refresh has met other requests |

`Edit`, `Undo`, `SaveButton`, `SaveShortcut`, `Refresh`, `ChooseLocal`,
`Command` and `Reload` are what a user does, `Serve...` what the server does,
`Receive...` the continuations after the `await`, which meet a page that may
have changed. `Merged` is `mergeWorkspaceConflict`, field by field. A request
outlives the page that sent it, its answer does not; either may be lost. Each
edit types a new value, so that a value names the edit. `InTime` says that the
answer to a refresh finds the browser on the revision of the draft and no other
save or refresh under way; `ReceiveLatest` merges without asking, as the code
does, and notes in `behind` when it was not so.

### ConfigIds

| Variable | In the code |
| --- | --- |
| `ws` | the governance state: catalogs, manifests, policies, cursor per range, ledger, `reservationIdempotency`, models |
| `rev` | revision of the workspace |
| `lease`, `tokens` | the last lease of the coordinator and the tokens it has granted |
| `head` | the commit each physical ref is at |
| `task[t]` | a call of `reserveConfigIdBundlePersisted`: attempt, observations, checkpoint, workspace it has prepared on |
| `answers` | history: who was told which number |

The publications are `PublishCatalog`, `ApproveManifest`, `PublishPolicy`, then
`Transition` of an entry and `EditModel`. A reservation is `Ask` (verification
and preview on the workspace loaded), `Commit` or `CommitRefused` (fresh
verification just before the write), `Save` or `Conflict`, and `Again` with the
workspace loaded anew. `Replays`, `Existing` and `Reservable` are the three ways
through `reserveConfigIdBundle`. Numbers are searched as in `nextBaseId`
(`Free`, `FirstFree`), including the reserved multiples of 1000 and the exclusive
identifiers derived from a number (`Ids`). The coordinator (`Grant`, `Expire`,
`Move`) and the adapter that commits are ports: the code says what they must do
(`lib/config-id-reservation-service.ts:28-45`) and the default refuses. A key
stands for an idempotency key together with its operation; the observations of
the repositories are taken when the request is made. Left out: capacity levels,
hashes, workbook normalisation, the audit log, the archive of model revisions.

### RuleGraph

| Variable | In the code |
| --- | --- |
| `graph` | the `RuleGraph` of the batch, as it is designed now: nodes, kinds, edges with outcomes, entry |
| `run` | the `RuleGraphRun`: status, `nodeStates`, `workingRows`, `snapshots` |
| `timers[n]` | the timeouts `executeNode` has set and that have not run |
| `broken` | which formulas throw, and for which row |
| `left`, `disturbed` | changes of the graph that are left; history: a node was started by hand, or executed by its timer, while a review waited, a timer was lost with the page, the graph was changed |

`Execute`, `Propagate`, `RefreshReadiness` and `Advance` are
`executeRuleGraphNode`, `propagate`, `refreshReadiness` and
`advanceAutomaticNodes` of `lib/workflow.ts`, each a function from batch to batch.
The actions are the page's: `StartRun`; `ExecuteNode`, which marks a node and sets
a timer of 360 ms, and which a second click reaches once more; `TimerFires`;
`EditRow` and `ApproveSnapshot` of a review; `Reload`, which keeps the batch (it
is part of the workspace) and loses the timers; and the designer's, which change
the graph under the batch.

The values of a row are abstracted to the history of what was done to them since
the baseline was loaded: one element per rule node and per reviewed edit. What a
node computes, its conditions (`Hits`) and the kinds that change values like a
rule are data. `manual` stands for the mode of the graph together with the
`manualStart` of its nodes. There is one batch; writing a finished one back to the
candidates is disabled on the page and left out.

## 3. The runs

| Run | Instance | Distinct states | Checks |
| --- | --- | --- | --- |
| `issuance` | 2 processes, 2 keys, 2 payloads, 3 tokens | 83,969 | `TokensNeverShared`, `IssuedReferenceMatchesBody` |
| `execution` | 2 processes, 2 keys, 1 payload, 2 tokens, 1 direct save | 1,817,745 | `EffectMatchesResult`, `AnsweredOutcomeIsRecorded`, `ExecutionsFollowTokens`, `RetryGetsTheRecordedResult`, `ImplementsLedger` |
| `live` | 1 process, 2 keys, 3 tokens | 194,272 | `IssuanceEnds`, `WriteLockIsReturned` |
| `upgrade` | 3 processes, 4 tokens, v2 and v3 files | 215,079 | `OpenStoreCoversLease`, `UpgradeGrantsOnce` |
| `export_commits` | 2 commits, 1 package, 2 workbooks, 1 outsider's edit, every fault, crashes | 4,933,913 | `OneCommitAtATime`, `CommittedIsRecorded`, `DeliveredOnce`, `FailedLeavesNothing`, `OriginalRecoverable`, `EarlierEditsSurvive`, `RecordedMeansDelivered`, `OnlyConfirmedContent`, `CommitEnds` |
| `lock` | 4 tasks in 3 processes, all recover, 5 lock files | 340,896 | `DeadOwnersLockGoes`, `KeepsPromise` |
| `lock_race` | the same | | `OnlyDeadOwnersRecovered` is violated |
| `retention` | 1 assessment, 1 request at a time and the sweep, 2 requests, 1 fault or crash | 306,267 | `DeletedStaysHidden`, `PurgeIsComplete`, `AuditedOnce`, `NoEventLost`, `PurgedEventually` |
| `admission` | 2 assessments, limit 2 lowered to 1, 2 requests per window, 2 models, 2 tries, 1 fault | 536,376 | `CallsWithinLimit`, `RateWithinLimitInOrder`, `AnswerIsBacked`, `EveryAssessmentEnds` |
| `editing` | 2 browsers, 2 requests each, an ordinary field and a governed one, 2 values, 4 revisions | 3,052,410 | `BaseIsItsRevision`, `NothingOverwrittenInOrder` |
| `numbers` | 2 requests, 2 models, keys and names, 1 target, 2 ranges, 2 leases, 6 revisions | 555,314 | `LedgerIsOneToOne`, `IdentityFrozen`, `AllocatedUnderLease` |
| `batches` | every connected graph of a baseline and 3 nodes, 2 rows, 1 formula that throws; a diamond is changed once under way; one graph of 5 nodes | 943,751 | `AppliedOnce`, `RowsFollowTheGraph`, `NothingUndone`, `BatchProceeds` |

What the runs show:

* **issuance**: two processes race for two keys with two payloads. Claims are
  abandoned by crashes and timeouts, grow stale while the owner still works and
  are taken over; grants that belong to no issuance come in between; payloads
  are rejected after their lease was granted; tokens run out. No token is ever
  in two hands, and a reference is only ever returned to somebody who submitted
  the payload it stands for.
* **execution**: two processes execute two commands, each possibly twice and
  concurrently, while a route saves without a command. Effects and recorded
  results agree after every crash and 5xx rollback; an answer that claims to be
  recorded is; results never change and retries get them, also with the lease
  gone and the payload expired; commands run in token order. The store refines
  the ledger.
* **live**: with crashes that leave claims behind, an issuance ends (the claim
  grows stale and is taken over, or the tokens run out), and the write lock is
  given back on every path.
* **upgrade**: three processes open and upgrade one file of either schema at
  once, with crashes and restarts between any two statements, and grant what
  tokens there are. The watermark covers everything granted before and no token
  is granted twice, unless a process writes back a lease that another one has
  replaced since it was read (`outdated`, section 4).
* **export_commits**: with every operation failing wherever it can, those of a
  rollback included, leaked locks, administrators who remove them, crashes and
  repeated requests: one commit at a time, "committed" is recorded, a recorded
  package is complete in all workbooks at that moment, and it is not delivered
  again. A commit that fails leaves its package in no workbook but in those it
  has `lost`; the original is in place or in its backup, also after a crash in
  the middle, until a further attempt backs up what the first has left
  (`again`); earlier edits of others survive, nothing but confirmed content is
  written, and every request is answered.
* **lock**: owners die at any point of acquiring, holding and releasing, one
  after another; all tasks examine and unlink in steps while others create. The
  protocol implements `LockPromise`, and with it no two tasks are inside
  together, until two tasks have confirmed one dead owner's file at once
  (`raced`). The lock of a dead owner who got as far as writing its name goes
  away, in any case.
* **lock_race**: what happens then. Two tasks have confirmed the lock of a dead
  owner; the first unlinks it, a living task creates its own, and the second
  unlinks that. The comment at `lib/ai-runtime-store.ts:210-212`, that "only a
  stale, attributable dead owner can be recovered", is violated.
* **retention**: saves, views, acceptances and deletions meet the sweep, with a
  crash at any step, a purge that fails or leaves files, an owner that dies with
  an empty lock file, or a record restored from a backup. A view that begins
  after the deletion shows nothing, no audit event is lost or repeated, "purged"
  is true of record and backups and stays true, and every deletion ends purged
  unless a lock file is left that nobody can attribute.
* **admission**: two assessments are admitted under a limit of two and one of
  them learns that it is one; the provider is silent, fails for a while or for
  good; writes fail, a process dies holding a lease. Limits hold, what is shown
  is saved, audited and released, and every assessment ends by its deadline.
* **editing**: two browsers edit, undo, save by button and by keyboard while
  older answers are under way, lose requests and answers, reload, meet
  conflicts, merge, choose and run commands, with two requests of a browser under
  way. The base of a page is what the server stored under the page's revision, and
  no save takes back a value its author has not seen, unless an undo has put an
  older page behind a newer revision or a refresh has met other saves or refreshes
  of the same browser (section 4).
* **numbers**: two requests reserve with retries while catalogs, scans and
  policies appear, models are renamed and their entries abandoned or deprecated,
  a lease expires or goes to the other operation, and a ref moves. Names, models
  and numbers stay one to one, nothing reserved is taken back, and numbers are
  allocated under the live lease only.
* **batches**: over all graphs of the instance, in automatic, hybrid and manual
  mode, with double clicks, reloads, edits in reviews, a formula that throws half
  way, and nodes and edges that appear, disappear and change kind while timers
  run and reviews wait. A node changes a row once. As long as the graph is left
  alone, what a node does to a row comes after all that leads to the node, and
  no row reaches a node that has already been executed or skipped; a row keeps
  the effect of every rule and approved edit unless somebody starts a node by hand
  while a review waits; and a batch ends or waits for a reviewer unless a timer was
  lost with the page.

### Bounds, and why they are enough

`ActionCommands`. Every rule of the store relates a request to at most one
other: the claim of another owner, the lease granted after one's own, the
result of the same key, the save that came first. Two processes, two keys and
two payloads give each of them a partner. `IssueAt`, `ExecuteAt` and `SaveAt`
place the requests so that the two runs stay apart: `issuance` has no
executions because an execution changes no row an issuance looks at;
`execution` issues in one process and executes in two. `MaxToken` is the code's
own `MAX_FENCING_TOKEN`, made small so that exhaustion happens: with two keys
and two tokens a lease is rotated away and the range ends. `MaxRevision` bounds
the direct saves: none starts from that revision on. That the same properties
are proved for all values of these constants is section 5.

`LeaseMigration`. A third process and a fourth token let a process that reads
early write after two others have opened the file and granted, which is the case
`outdated` is about, with a token left to grant after it.

`ExportCommit`. Two workbooks have a first and a last one: a commit can fail with
one replaced, with both replaced, and in the rollback of either; an instance of one
commit over three (2.1 million states) has been checked as well. Two simultaneous commits of one
package race for lock and record; commits of different packages meet only at
the lock and at the baseline, where an outsider's edit plays the other package.
`MaxPreviews` bounds how many previews may be confirmed at the same time, not
how many are made: a preview is forgotten and made anew while the commit that
confirmed it is at work. All fault kinds are on. `undo` and `restore` are
failures of the rollback itself, after a first failure that has caused it.
`reread` is different: the read-back after a replacement
(`lib/config-export-filesystem.ts:586`) can be the first thing that fails, and
the workbook just replaced is then not in the list of those to put back. All
three leave the workbook in `lost`, about which `FailedLeavesNothing` promises
nothing; about all others it promises the same as without them.

`StoreLock`. Five lock files let two owners die and be recovered with a living
owner before, between and after; two tasks share a process, so that it outlives
one of its owners' calls. With one dead owner, two who recover and one who
creates in between, four tasks are what the race needs.

`AiRetention`. Assessments do not interact: an operation touches the two
documents of one, and the sweep goes through them in turn. One request beside the
sweep and one fault reach every crash of one against every step of the other, and
two requests are a save and a deletion, or a deletion and what comes after it.
One part of content stands for both. An instance with two requests at work at
once (5.0 million states) has been checked as well and shows the same.

`FancyHub`. Limits of two and one are the smallest that can be lowered with a
second request in flight; two models with two tries have a retry, a fallback and
a retry of the fallback, and a `Budget` of two cuts them short. `Window` and
`Timeout` of two in a clock of three let a window pass and a lease expire.

`ClientSave`. Two fields are needed for an edit of one browser to be lost with a
save about the other: an ordinary one and one that commands change. An instance
with two ordinary fields, the governed one and three revisions has been checked
as well. With two values typed, the four revisions are two edits,
one command and what a conflict leads to. `MaxNet = 2` is a save or refresh that
meets another one of the same browser, which no button or shortcut but the save
button of the header prevents. The constraint `InOrderSoFar` does not follow a
state further once something is `behind`: `NothingOverwrittenInOrder` says nothing
of what comes then, and that `BaseIsItsRevision` holds there, too, is a theorem.

`ConfigIds`. The first range has a single usable number, because its other one
is a multiple of `Thousand`, so that the second reservation goes on to the second
range; two models and names collide in every way one pair can. Six revisions
are the publications a reservation needs (catalog, scan, policy) and three more:
two reservations and an edit, or a reservation, an abandonment and another one. A
second scan or policy takes one of these places.

`RuleGraph`. Four nodes are a diamond, the smallest graph in which two branches
join, and every chain, fork and shortcut below it; both orders of the node list
are there because the scheduler takes the first ready node. Two rows let a
condition divide and a formula throw at the second after the first has changed.
In a diamond all nodes may wait for a hand, so that branches run in any order. The
fifth identifier is the node that is added; it is also in the one graph of five
nodes (`Hurried`), in which a node can be started by hand while a review waits and
another branch runs on its own: four nodes are too few for that.

Symmetry is used in safety runs only, over processes, keys, payloads, commits,
packages, browsers, models, names and tasks where the instance treats them alike.
In `export_commits` a commit is symmetric to the other one, and `CommitEnds` is a
safety property there. Deadlock is checked for `LeaseMigration` and `ExportCommit`; the other runs switch
it off, because with the bounds used up (tokens, lock files, requests, time,
revisions) and no requests coming the system legitimately stands still.

### Fairness

* `SF_vars(IssueStep(p))` and `SF_vars(ExecuteStep(p))`. A step of a request is
  enabled again and again but not continuously, since other transactions come
  and go. `transactionTails` and `issuanceTails` are first-in first-out chains
  of promises, so a queued request is reached; it is not overtaken for ever.
  A step also counts as taken when it is the error after `busy_timeout`.
* `WF_vars(AgeClaim(k))`: thirty seconds pass.
* `ExportCommit` assumes none: `CommitEnds` says that a commit always has a step of
  its own to take (`ENABLED CommitStep(c)`) and that every step of it brings it
  nearer to its end (`Remaining`), so that it ends once the companion runs what it
  has started. `Denied` is not part of `CommitStep`: the result does not lean on a
  refusal.
* `WF_vars(Recovery(t))` and `WF_vars(Use(t))` in `StoreLock`, for the tasks in
  `Returning` only: the sweep is a timer of an hour, examines the lock it finds
  taken, and finishes what it does under a lock of its own. The others owe nothing.
* `WF_vars(TaskStep(t))`, `WF_vars(StartSweep)`, `WF_vars(Recover(l))` and
  `WF_vars(Pass(a))` in `AiRetention`: a request or sweep that has begun goes on,
  the hourly timer starts the next sweep, a lock of a dead owner is recovered (by
  `DeadOwnersLockGoes`), and time passes. Faults, restores and requests are
  finitely many by the bounds, as they are between two sweeps of a service in
  order; the property says nothing of a service that crashes in every sweep.
* `WF_vars(TaskStep(a))` and `WF_vars(Tick)` in `FancyHub`: the connector runs, the
  clock goes. The provider is owed no fairness: that is what the deadline is for.
* `WF_vars(ExecuteNode(n))` and `WF_timers(TakeTimer(n))` in `RuleGraph`: whoever runs
  a batch starts what is ready, and the browser runs its timeouts. Nobody has to
  approve a review; this is why `BatchProceeds` ends there, too.
* `ClientSave` and `ConfigIds` claim no liveness: a browser may lose every
  answer, and a reservation gives up after its attempts.
* Nothing is assumed about new requests, direct saves, grants, expiry, previews,
  edits, administrators or crashes.

`live` has one process on purpose. Between processes there is no queue: two of
them issuing under different keys can replace each other's lease between claim
and save, round after round, and only the end of the token range stops them.
That is what the code does (`:509`), and the hazard is listed without a property.

## 4. What disagrees with the documents

The properties of the runs carry a premise where the code keeps a promise
only under it. The following is what happens beyond the premise, read in the code
while it was translated; where a specification reaches the case, its instance is
named.

The lock of the AI runtime store is a finding of `PROJECT.json`, because a run
shows it (`lock_race`); the others are stated here.

*Command store*
* Upgrade of a v2 file: lease and watermark are read and then written statement
  by statement in no transaction (`lib/sqlite-action-command-payload-store.ts:155`).
  Of two processes that open the file together, one may write an older
  watermark over the other's grants, and a token is granted twice; the comment at
  `:216-219` and `docs/spec-v3/05-open-decisions.md:522` exclude this. The
  `upgrade` instance shows it with `GrantsStrictlyIncrease` in place of
  `UpgradeGrantsOnce`. `outdated` marks the write after which it may happen: all
  other upgrades at the same time are harmless.
* An issuance replaces the lease also while another user's command relies on it
  (`:387`), which then fails as stale; `docs/spec-v3/05-open-decisions.md:543`
  asks that only one of two users gets the lock.
* The AI draft and confirmation routes save without lease and token
  (`app/api/ai/rule-source-change-drafts/confirm/route.ts:47`); `:523` of the same
  document asks for them on every change.
* A failed opening of the store stays cached as a rejected promise (`:186`); the
  process serves no command until it is restarted.

*Config export*
* `replaceFile` reads the workbook back after replacing it
  (`lib/config-export-filesystem.ts:586`). If that fails, the exception passes
  `replaced.push` (`lib/config-export.ts:602`) and the rollback leaves the new
  content in place (`docs/spec-v3/08-deployment-and-export.md:105`), although
  nothing else has failed. `FailedLeavesNothing` excepts this workbook (`lost`).
* Hashes are compared once, before backups and replacements
  (`lib/config-export.ts:563`); what is saved after that is overwritten
  (`08-deployment-and-export.md:136`). This is why `EarlierEditsSurvive` speaks of
  earlier edits.
* A second attempt at a package copies over the backups of the first
  (`lib/config-export-filesystem.ts:572`); after a crash in the middle of a
  delivery they are backups of half-delivered workbooks (`:137` of the document). The
  baseline comparison does not help: a preview made after the crash has read the
  half-delivered workbooks. `OriginalRecoverable` ends with that second attempt
  (`again`).
* The lock file is opened before the `try` whose `finally` removes it
  (`lib/config-export-filesystem.ts:557-565`); if writing into it fails, it stays.

*AI runtime store*
* Two tasks that recover at once: the dead owner's lock is compared and unlinked in
  two steps (`lib/ai-runtime-store.ts:222`), and in between the other may have
  recovered it and a third have created its own, which is then removed under a
  living owner. The comment at `:210-212` excludes this. Run `lock_race`.
* An owner that dies before it has written its name leaves a lock nobody recovers,
  and every later sweep ends there. `PurgedEventually` names the exception.
* A line of the audit log that a crash has torn makes every later append fail
  when it is parsed (`:433`). Torn lines are not modelled.
* A crash between tombstone and record leaves a deletion without its audit event:
  the sweep completes the deletion, but the event was in the record never written.
  Nor does the user's second request write it: `applyIndexedTombstone`
  (`:347-369`) has put the tombstone of the index into the very object in which
  `hadStoredDeletionTombstone` (`:562`) then finds it.
* Temporary files of a write that was cut off keep the content, also after the
  assessment is deleted (`docs/tackle-forger-development-spec-v3.md:2976`). Not
  modelled.
* A request carries the time it read before it waited for the file's lock
  (`:649-650`, `lib/fancy-hub.ts:947`, `:1031`). One that is overtaken prunes by
  its older time and is counted under it, so that a window may hold more requests
  than the rate (`docs/tackle-forger-development-spec-v3.md:2985`); hence
  `overtaken`.
* An assessment whose release or saving fails after it was audited has a SUCCESS
  event followed by a FAILURE event. Of two assessments that discover different
  limits, the later write wins (`lib/fancy-hub.ts:955`).

*Client*
* After a conflict `refreshConflictBaseline` keeps the page as the draft and fetches
  the latest workspace (`app/Workbench.tsx:816`); its button stays enabled while it
  waits, and Ctrl-S is not gated. The merge asks neither whether the page is still
  the draft's nor whether anything else is under way. Pressed twice, the second
  answer merges the draft from before the first merge against the base the first
  one has set: what others saved in between looks like a local change, and the old
  values go back over it with the next save. The same comes of a second answer that
  is older than the first, of a merge that lands while a save is under way (the save
  succeeds and its answer makes the page sent the base of a page that has been
  merged since), and of Ctrl-S pressed twice, where the conflict of the second save
  is shown after the first has succeeded and offers a refresh on a page that is
  saved already. `lib/workspace-conflict-merge.ts:16-18` says that the merge works
  "without allowing a stale client to overwrite concurrent normal edits". Instance:
  `editing` without its constraint and with the property `NothingOverwritten`.
* An undo taken behind a merge or a refresh saves the whole older page against the
  newer revision and with it reverts what others have saved; this is the premise
  on `behind`.
* Typing while a save is under way is marked as saved by its answer (`:776`), typing
  while a refresh is awaited is replaced by its answer (`:830`). Values lost on
  the own page before they are saved are outside both properties, which are about
  the store; `docs/tackle-forger-development-spec-v3.md:1122` asks for a recovery
  path that loses no local input.
* `app/RuleWorkbookWorkbench.tsx` (`:228`, `:262`, `:301`) replaces the workspace
  by an answer without the freshness check of `canApplyConfirmedWorkspace`. Its
  commands are not among those of `ClientSave`.

*Rule graphs*
* A review works on copies of the rows, taken when it begins, and its approval puts
  the copies in the place of the rows (`lib/workflow.ts:645`). If a second review of
  the same rows is started by hand while the first waits, approving both leaves the
  edits of one only, although the page says that they flow on after approval
  (`app/RuleGraphStudio.tsx:659`). The start of any node by hand has the same
  effect: `markRuleNodeRunning` (`lib/workflow.ts:495`) sets the batch from waiting
  to running, and the next turn of the scheduler, be it from the second timer of a
  node clicked twice, which finds nothing to execute (`:512`), does not stop at
  the review (`:621`) but executes what is ready in other branches on rows whose
  copies the approval will put back. Hence the premise "hurried" of
  `NothingUndone`, which names both the click and the timer.
* Loading a baseline empties what was done to a row. A second baseline node, behind
  the entry, therefore undoes the nodes before it; `NothingUndone` is stated for
  graphs whose only baseline is the entry (`BaselineFirst`), as in the default graph
  (`lib/workflow.ts:30`).
* A node that throws sets the batch to failed, but the next line of every caller is
  `advanceAutomaticNodes`, which computes the status from the nodes
  (`lib/workflow.ts:630`). The nodes behind are skipped for want of rows, all nodes
  have ended, and the page shows a completed batch whose rows have all reached the
  output (`app/RuleGraphStudio.tsx:691`); the wording for a failed one (`:613`) never
  appears. The model sets the status as the code does.
* A reload between mark and timer leaves the node running for ever: the page offers
  a button for ready nodes only (`app/RuleGraphStudio.tsx:643`). `BatchProceeds`
  names the exception.
* A batch follows the graph as it is designed now (`:399`), not the version it was
  started with. A removed review can no longer be approved, a removed edge no
  longer delivers. The properties about order and completeness are stated for a
  graph that is left alone.
* A node that throws leaves the rows it has reached changed (`lib/workflow.ts:565`).

*Elsewhere*
* Reserving for a model that has its number already
  (`lib/config-id-governance.ts:1173-1209`) does not record the idempotency key,
  which may later serve another command, against the message at `:1131-1133`.
* The route of the data sources writes to the remote sheet inside its transaction
  (`app/api/data-sources/route.ts:144`, `:202`);
  `docs/tackle-forger-development-spec-v3.md:2026` asks for a fenced outbox.
* A crash between the rename of an imported file and its row leaves the file
  without a row (`lib/sqlite-storage.ts:242`).

## 5. The proofs

The eight proof modules hold for every set of processes, keys, payloads, calls,
packages, assessments, browsers, fields, models and so on, every number of
workbooks and every range, limit and bound. Assumed are only the named ASSUMEs of
the modules: the bounds are natural numbers, subsets are subsets, the rows of a batch
and the nodes of a rule graph are finitely many, and the markers
(`None`, `Missing`, `Torn`, `Leaked`, `Direct`, `Dead`, `Blank`) are none of the
values they are told apart from. TLC evaluates them in the runs.

### ActionCommands_proofs

Theorems: `TypeCorrect`, `TokensUnique`, `AtomicEffect`, `AnswersDurable`,
`ReferenceMatches` (invariants); `PayloadsFinal`, `WatermarkRises`,
`ExecutionOrder`, `FencedForGood`, `RetriesReplay` (actions); `StoreIsLedger`
(the refinement). Together they are every safety property of the `issuance` and
`execution` runs.

None of the invariants is inductive alone, so `Inv` is the conjunction of

* `Typed`: `TypeOK` and what a request must carry in each state (`RequestOK`): a
  process that is to save holds a claim, one that is to commit has a result;
* `LeaseOrder`: the watermark bounds the tokens of all claims and payloads and
  is the token of the current lease. This is why a new token differs from all
  others, and `TokensNeverShared` is not inductive without it;
* `InTransaction`: whatever executes or was executed has a stored payload; an
  executor in the middle of its command is the one that holds `txn`, its command
  is unrecorded, its lease current, and the result it will commit names the next
  revision or none. This makes the later commit an append of exactly that
  revision and carries both `EffectMatchesResult` and `StoreIsLedger`;
* `IssuedIsStored`: a request on its way to the answer "issued" has its own
  payload in the table;
* the properties `TokensNeverShared`, `EffectMatchesResult` and
  `AnsweredOutcomeIsRecorded` themselves.

`ExecutionOrder` and `FencedForGood` follow from `Inv` and one step: what
executes holds the current lease, whose token exceeds that of every other
payload, and a lease never becomes current again because a grant takes a new
token. `StoreIsLedger` maps `CommitExecution` to `RecordEffect` or
`RecordNoEffect`, `SaveDirect` to `OutsideSave`, and all else to a stutter.

#### Opening the store

The last part of the module is about `LeaseMigration`. `OpeningTypeCorrect` holds
for files of either schema. `GrantsNeverRepeat` (`GrantsStrictlyIncrease`) and
`WatermarkOnlyRises` are stated under `~Upgrading`, that is for v3 files and any
number of processes opening them at once, without any exception. The invariant adds that the watermark covers the lease and every
grant, and that the lease an opener remembers never exceeds the watermark it
remembers, so that the upsert is not called for.

`OpenedIsCovered` (`OpenStoreCoversLease`) and `UpgradesGrantOnce`
(`UpgradeGrantsOnce`) are about files of either schema and any number of processes
that open, upgrade and grant at once. Their invariant `Carried`, which holds until
`outdated`, has two cases. While the lease is above the watermark nobody has the
store open, nothing has been granted since the v2 lease, and everybody who is
opening has read the two values as they are; once the watermark covers the lease,
a process may only write what it has read if that still is the lease, and this
sets nothing back. `WriteWatermark` leads from the first case to the second.

### ExportCommit_proofs

Theorems: `TypeCorrect`, `Exclusive`, `NoSecondDelivery`, `AnswersRecorded`,
`RecordsDelivered`, `ConfirmedOnly`, `RollbackRestores` (`FailedLeavesNothing`),
`EditsSurvive` (`EarlierEditsSurvive`) and `OriginalKept` (`OriginalRecoverable`),
all for any faults, crashes, commits and workbooks, without a premise. What the
code cannot promise is excepted where it happens: a workbook an operation has
`lost`, a package that is tried `again` on what a failed attempt has left.

`Inv` is `Typed` and, per commit, `Ordered`: the conjunction of `Holder` (a
commit between lock and release is the one in the lock file; this alone is
`Exclusive`), `NotYetRecorded` (while it works, its package has no valid
record), `Recorded` (an answer "committed" has its record), `InPlace` (until it
rolls back, the workbooks it has passed contain what was confirmed, and so does
what it is about to install) and `FromBackup` (what a rollback installs is the
backup). `Holder` makes the others stable: who changes the disk is the only one
at work. `InPlace` has to name, state by state, how far the commit has come;
without it nothing about the workbooks can be said when the record is written.
Outsiders only add to a workbook, which is why `InPlace` speaks of inclusion.

`RollbackRestores` needs a second invariant, `Reversible`. Call a content clean
if it contains the package only where the preview had already seen it. Compared
workbooks are clean until they are replaced, the backups stay clean while
workbooks are replaced, and a rollback leaves clean workbooks behind it, from
the last one to the first, but for the ones in `lost`.

`EditsSurvive` rests on `Preserved`: every workbook that is not displaced just now,
and every content a commit has compared, backed up, displaced or is about to
install, holds the edits made before that commit got to work. `OriginalKept` rests
on `Original`, which is about packages that have no valid record and have not been
tried again. What a commit has compared, backed up, not yet replaced or put back
contains such a package only if it was left halfway (`halved`) and its backup is
without it (`Bare`); what the commit has replaced may contain in addition the one
it delivers (`BareBut`); and with no commit at work every workbook is bare
(`Settled`). When a commit ends halfway its package joins `halved`, and its backups
are what makes this true again.

### StoreLock_proofs

`Typing`, `Exclusion` (two tasks are never inside together), `LivingOwnersKeep` (a
lock file disappears only by its own owner's release or when the owner is dead) and
`Refinement` to `LockPromise`, for any number of tasks, all of which recover, and
any deaths; the last three until `raced`. `ProtocolInv` says that who is inside owns
the file that is there, that a dead task does not move, that the owner of an
examined file is a dead one, that what was confirmed is still there when it is
unlinked, and that nobody else has confirmed it (`ConfirmedAlone`). The last two
hold together: only who has confirmed a file can remove it. This also shows that the
race of section 4 is the only way in which the lock fails.

### AiRetention_proofs

`Typing`, `Hiding` (`DeletedStaysHidden`), `Auditing` (`AuditedOnce`),
`EventsKept` (`NoEventLost`) and `PurgingIsFinal` (`PurgeIsComplete`), that is
every safety property of the `retention` run, and `Refusing` (nothing is
accepted after its deletion, `NothingAcceptedAfterDeletion`), which no run
checks, for any number of assessments, requests and processes and all faults.
The invariant grows in layers, each stable under every action once the one
before is known:

* `Typed`: types, and which variables of a task mean something where;
* `Locked`: a task between lock and unlock holds the lock of its document, so that
  no two tasks are in one document (`Outside` is what all others see);
* `Deletions`: a record that carries a tombstone has one in the index, a task that
  works on a deleted assessment knows, and a reader that began after the deletion
  has nothing to show. Tombstones are never removed (`TombsStay`), also not by a
  restore, which is why the index decides and not the record;
* `Carried`: a task that holds the lock of a record drops no event waiting in its
  file. Until it has appended them it has them in its `todo` or they are in the log,
  it acknowledges only what is in the log, and what it writes later includes what
  waits. With it a set that only grows, the events in the log, the outbox and the
  tombstone (`WrittenGrows`), contains all events committed;
* `Purging`: what is marked as purged is empty (`FlagsTrue`); time passes for deleted
  assessments only, and they have a record (`Aging`); a task's copy has no more
  content than the file (`CopyOf`); a sweep a day after the deletion turns to the
  tombstone with the record empty (`SweepOf`), which nobody can refill; so backups
  taken while it purges are empty, too (`PurgeOf`).

`Auditing` needs the types only: an event is looked up and appended in one step,
under the lock of the log.

### FancyHub_proofs

`Typing`; `Backing`, `Recording` (what was sent is on record when a failure is
reported) and `Spending` (of the budget) from `Accounts` (what a task has spent,
audited and saved in each state); `Limiting` from `LimitInv`; `RateLimiting`
from `RateInv`. `LimitInv` is the interesting one: whoever counts as in flight has
its lease in the file with the task's own deadline, and those in flight can be
ranked so that each was admitted under its limit when only those before it were
there. It is needed because a limit may be lowered after admission.
`RateInv` says that all requests of the current window are remembered as long as
none was overtaken.

### ClientSave_proofs

`Typing`, `Based` (`BaseIsItsRevision`) and `NothingTakenUnseen`
(`NothingOverwrittenInOrder`), that is every property of `editing`, for any number
of requests of a browser under way at once.

`BaseIsItsRevision` is inductive together with `AnswersAreStored`: the revision an
answer under way carries exists and, for an answer that carries a workspace, holds
that workspace.

`NothingTakenUnseen` rests on `Answerable`, which holds as long as nothing is
`behind`. `Within(pairs, p, q)` says that page q differs from page p only where the
user has replaced what p shows, and in no governed field. Of every browser
(`Accounted`) the page is within its base, the draft and what the keyboard would
save are within the revision they were made on, and the keyboard's revision is not
newer than the page's; of every request (`Carries`) the page sent is within the
revision it is sent against, which for the request that is stored is the current
one. Three parts are less obvious. The page shown is within the page sent, as
long as the request can still succeed: what the user types while the answer is
awaited must remain accountable when the page sent becomes the base. The draft is
within what the keyboard would save, while the latest workspace is awaited and the
browser is still on the draft's revision: if it turns out to be the base again, the
merge puts the draft back on the page under the same revision, and Ctrl-S may still
save the older one. And of the saves a browser waits for one at most has been
stored (`OneSaved`), since the next one would have to be sent from the revision the
first has made. All of it needs that a browser which awaits the answer to a save
that may succeed, or to a refresh that finds it where it was, is dirty; an answer
to a refresh that is not `InTime` would break it.

### ConfigIds_proofs

`OneToOne`, `Frozen`, `LeasedOnly`, that is every property of `numbers`,
`Typing`, and `AnswersKept` (who was told a number has it). Besides types and
the two invariants `Inv` has

* `LoadedIsCurrent`: a task whose base is the current revision has loaded the
  current workspace. The adapter's comparison of revisions then makes every saved
  reservation one that was prepared on the workspace it changes;
* `BundledIsRecorded`: a model with a number has its entry, and only such a model;
* `DoneIsRecorded`: the answer remembered for a key is in the ledger;
* `LeaseIsLatest`: no token in the ledger is above the last one granted, and while
  the lease lives the refs are where they were when it was granted.

### RuleGraph_proofs

`Typing`, `AppliedOnceAlways`, `RowsFollowTheGraphAlways` and `NothingUndoneAlways`,
that is every safety property of `batches`, for any finite set of rows, any graphs
of finitely many nodes, loops and dead ends included, and any formulas that throw.
`OrderAlways` states the invariant behind the third.

*Loops.* The scheduler is two loops, one inside the other, and the rows a condition
lets through are chosen by a third. They are written as recursive functions on
numbers, of which TLAPS knows no more than that they are a CHOOSE. The first part
of the module supplies what is missing, without the library's induction theorems,
which take an operator: every set of numbers has a least element (`Least`, from
the well-foundedness of < on the natural numbers), so a set that holds 0 and is
closed under successor holds all (`SetInduction`), so the function exists
(`ChainExtends` and what follows) and a loop stays in every set of batches that one
turn does not leave (`LoopStays`). `AdvanceStays` and `PromoteStays` are that for
the loops of the model: each invariant below is a set of batches `S`, and what has
to be shown is that `S` is closed under one promotion, one status and one
executed node (`Closed`, `ClosedAdvance`).

*What the operators return.* Each step of the code that changes a batch (promotion,
status, freezing, executing, propagating, approving, editing) is first described by
what it changes and what it leaves (`Promoted`, `StatusSet`, `Frozen`, `Completed`,
`Executed`, `Approved`, `Edited` ...), so that no later proof has to look into the
nested EXCEPTs.

The invariants come in three layers:

* `Once`, for any graph and any change of it: no value of a row, in the batch or in
  a snapshot, bears a mark twice, and the mark of a rule is that of a node that is
  past its execution. `AppliedOnce` is not inductive without the second part, nor
  without the snapshots, whose values come back into the batch. No status goes back
  from past to ready (`NoneReturns`), and a node that a late timer finds past is not
  executed.
* `OrderInv`, as long as nobody changes the graph. `Progress` says that a node has
  started only when everything that leads to it has ended; `Sorted`, that the marks
  of every value are of started nodes, in an order the graph allows; `Awaits`, that a
  waiting snapshot belongs to a review that waits, with the rows it has received;
  `NoneLate`, that what has ended has received nothing since. That everything before
  a node has ended when it acts needs an argument over paths: what leads to a node is
  defined by closed sets of nodes (`Leads`), and `LastEdge` finds the edge through
  which it enters.
* `SafeInv`, as long as in addition nobody starts a node by hand while a review
  waits: the batch stands still then, so one review waits at most (`Stands`); its
  copies contain what was done to the rows (`Covers`), so that putting them back
  loses nothing (`EditsKept`, `RulesKept`); and the entry, which alone may load a
  baseline, acts before all others (`EntryFirst`).

Two attempts to prove the last theorem failed and changed the model. The first
found that starting a node by hand makes the scheduler pass a waiting review
(section 4): "hurried" had named only the execution by the timer, and the graphs of
the run were too small to show it. The second found that a baseline behind the
entry wipes out what it finds. Both are now in the premises of `NothingUndone`, the
first in an instance of the run as well.

### What is only model-checked

* Liveness and leads-to, out of reach of the prover: `IssuanceEnds`,
  `WriteLockIsReturned`, `DeadOwnersLockGoes`, `PurgedEventually`,
  `EveryAssessmentEnds`, `BatchProceeds`; and `CommitEnds`, which speaks of ENABLED.
  Every other property a passing run checks is a theorem.

## 6. What is not modelled

* Pure functions: export generation, AI draft conversion, numerical policies,
  validation, workspace migrations, domain actions, patches, publication of
  snapshots, five-axis evaluation, rule workbooks. They map a workspace to a
  workspace and run inside a command, which executes them as one step
  (`Business`). They are the larger part of the code by lines. Most compute
  with floating point or reshape large records; unit tests are the right tool.
* HTTP, OAuth, cookies and provider clients: input and output with little
  state; what they decide reaches the stores as a choice.
* The user interface but for saving, deployment and scripts. The local session
  parses files in a worker and discards late results; nothing else reads them.
* Writing back to remote sheets and importing files: two external effects inside
  or before a transaction, described in section 4. There is no code that repairs
  them, and so no property to check.
* In the modelled components: imported files, listing revisions and backup
  checks of `sqlite-storage.ts`; the conflict recovery of `persistArtifact`;
  pairing, path checks and report contents of the companion; the browser's own
  download; encryption, torn lines and temporary files of the AI runtime store;
  contents of provider requests, batches of assessments; the pages that show the
  workspace; capacity levels, hashes, archive and audit log of config IDs, and the
  adapter that will commit reservations, of which the code has only the contract.
* Damage to the disk and loss of committed SQLite transactions are outside every
  model: a commit, and a file renamed into place, is durable.
* The content of errors. All exceptions that leave no row behind are one
  outcome, apart from the stale token and the conflict, on which the code acts.

## 7. What comes next

1. `AiRetention` with torn audit lines and temporary files, when the code has
   decided what to do about them.
2. The reservation adapter, composed with the revisions of `ActionCommands`, when
   it exists.
3. Five-axis undo and redo against the revision it was begun on, as in
   `ClientSave`.
