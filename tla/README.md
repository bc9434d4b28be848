# Career Terminal: verification project

Career Terminal is a TypeScript backend (`src/`, Express, Prisma over PostgreSQL, Redis,
BullMQ) that reads a candidate's mailbox and resumes and keeps the state of their job
applications. Its own logic is asynchronous: business transactions write events, dispatchers
turn events into queue jobs, workers in other processes run the jobs, and every part writes
rows that other parts write too, at READ COMMITTED, with reads that may go to an
asynchronous replica. This directory models that part of the program in TLA+, checks the
models with TLC on small instances and proves theorems about them with TLAPS.

Paths below are relative to the repository root.

## 1. The system

### 1.1 Components

| Component | Source | State it keeps | Operations that change it |
|---|---|---|---|
| Event outbox, dispatchers | `src/services/event/event-dispatcher.service.ts`, `outbox-dispatcher.service.ts` | row of `events`: status, retry_count, lease owner and expiry, next_retry_at | publishInTransaction, publishFromEvent, dispatchBatch (claim, dispatch, mark), markFailed, requeueDlqEvent |
| Event lifecycle of workers | `src/services/event/event-worker.ts` | status and retry_count of the same row | withEventLifecycle around every processor |
| Job queue | `src/services/queue/queue.service.ts`, `queue.config.ts` | BullMQ jobs in Redis | add*Job with or without jobId, attempts and backoff, stalled jobs |
| Resume upload, versions | `src/services/resume/resume-upload.service.ts` | `user_resumes`, `resume_hashes`, `application_resumes`, quarantine storage | upload with its compensations, linkApplicationResume, deleteVersion |
| Malware scan, parsing | `src/services/queue/workers/malware-scan.worker.ts`, `resume-parsing.worker.ts` | scanning_status and status of the row, quarantine and clean storage | one job each |
| Gmail sync | `src/services/queue/workers/gmail-sync.worker.ts`, `src/services/gmail/durable-checkpoint.service.ts`, `ingestion/gmail-ingestion.service.ts` | leased row of `gmail_checkpoints`, `sync_operations`, `sync_batches`, cursor of `gmail_sync_states`, `email_messages` | claim, initialize, advance (compare and set), release, complete, fail; both syncs |
| Email to application | `src/services/application-command/`, `idempotency/`, `application-merge/`, `src/lib/mutex.ts` | `idempotency_records`, locks in Redis, applications with sources, timeline and status | check / claim / commit / abort, acquireLock / releaseLock, findMatch, processEmailForJobApplication |
| Status engine, timeline | `src/services/status-engine/`, `application-timeline.service.ts` | status history, `applications.status`, timeline | recordStatusChange: append, then fold the history |
| Facts, snapshots, canonical facts | `src/services/fact.service.ts`, `fact-correction.service.ts`, `snapshot.service.ts`, `candidate-intelligence/` | versions of facts, canonical rows | record, correct, review, copy, promote |
| Outcomes, actions, analytics | `src/services/outcome.service.ts`, `action.service.ts`, `analytics.service.ts` | outcome and action rows | what follows the creation of an application; reports |
| Companies, opportunities, recruiters | `src/services/company/`, `opportunity/`, `recruiter/` | shared rows with aliases and unique keys | find or create, by every email |
| Accounts, sessions, Gmail tokens | `src/services/auth/`, `user/`, `gmail/`, `src/utils/encryption.ts` | Redis credentials, user rows, sealed tokens | login, rotation, deletion, refresh, key rotation |
| Placement | `src/services/placement/`, `src/cells/` | region, cells, contexts in two caches | resolve, move, invalidate |
| Recruiter intelligence, models | `src/services/recruiter-intelligence/` | profiles, memory, graph, links, budgets | staged inference, supersession, broker, calls to language models |
| Interviews | `src/services/capabilities/interview-extraction.ts`, `interview/` | sessions, observations, patterns | extraction, mining |
| Caches, limits, breakers | `src/lib/`, `src/middleware/rate-limiter.ts`, `dashboard/` | caches, counters, circuit state | fill, invalidate, admit, refuse |
| Router, transactions | `src/db/` | replica behind `dbRouter.read()`, master behind `write()` | |
| Economics, HTTP, telemetry | `src/services/...`, `src/routes`, `src/middleware` | derived rows, logs | single calls |

`PROJECT.json` lists all 37 parts with what is modelled of each and why the others are not.

### 1.2 Interactions

```
 request ──tx──► events row ──fast path──┐
    │                 ▲  ▲               ▼
    │   OutboxDispatcher ×n ──add──► BullMQ queue ──► worker ×n
    │                    │               ▲             │  withEventLifecycle
    │                    └── mark        │ stalled,    │  writes the events row
    ▼                                    │ retry       ▼
 quarantine storage                      └── scan / parse / gmail sync / tracking
```

* The request and the event commit together; whatever follows is retried.
* An `events` row has three writers (fast path, dispatcher, worker) and none checks who wrote
  it last.
* The dispatcher polls in every process (two worker replicas in the k8s manifests), so claims
  compete, and a batch may still run when the next timer tick starts another.
* Jobs of one upload (scan, then parse) communicate only through rows, storage and events.
* Sync jobs of one user compete for one checkpoint row; the engine below the worker claims it
  again under a different identity.

### 1.3 What is hard

Interleavings of transactions that do not see each other's rows; a claim that outlives its
claimant; a reply that is lost after the commit; jobs that run twice; a storage object and a
row that are changed in two systems; reads on a replica of what was written a moment ago on
the master; retries counted at three levels (queue, dispatcher, lifecycle); cursors that must
not run ahead of the data; answers cached before a write and stored after it; credentials that two
requests spend at once; time windows that meet at their borders. `PROJECT.json` "hazards" has 40
of them, each at its line, with the property that covers it or the reason why none does.

### 1.4 What makes each part correct

* **Outbox.** A committed event is not lost: it gets a job, or ends in the dead-letter state
  (DLQ) where a person sees it. It is not reported processed without a job. It is not given up
  before the retries it was promised. Two dispatchers do not work on one event.
* **Resume pipeline.** Nothing infected is promoted. The only copy of a clean file is never
  deleted. A user with resumes has an active one. Every scan ends in a verdict,
  or its job fails where a person sees it.
* **Gmail sync.** One syncer per mailbox. Nothing but a resumed batch and a resumed listing, which
  skip messages, lets the stored cursor run ahead of the saved ones. A job that reports success has
  saved what was there. Every job ends.
* **Email to application.** One email has one effect, whatever fails. One call works on an
  email at a time. What a replay is told to be done has been done. A claim is given back on every
  way out. An opportunity is tracked once an email about it has come in.
* **Status.** The stored status is what the stored history means, whatever the order in which
  emails are processed; one undisturbed change repairs what overlapping ones lost.
* **Facts.** A history ends; a correction is in force as a whole; the canonical row does not
  depend on the order of promotions.
* **Accounts and tokens.** A credential is spent once, a swept session stays dead, and a key that is
  taken away after everything was moved and its last user is gone is never needed again.
* **Calls and limits.** An open circuit lets a call through again; a limit bounds what passes in
  any window; the calls to the models that are admitted are bounded, and each is accounted for once.
* **Shared rows.** Racing emails leave one current observation; a company has one form of its
  name; recruiter memory and graph are never left half written.

## 2. Modules

| Module | Models | State ↔ code |
|---|---|---|
| `EventDelivery` | the contract of the outbox, with queue, leases and workers abstracted away | `phase`: none / owed a job / delivered; `outcome`: what the row reports |
| `EventOutbox` | publishing, fast path, dispatchers, workers | see 2.1 |
| `EventOutboxProofs` | theorems about `EventOutbox`, and that it implements `EventDelivery` | see 4.1 |
| `ResumePipeline` | upload request, scan jobs, parse jobs, versions and links | see 2.2 |
| `ResumePipelineProofs` | theorems about it | see 4.2 |
| `GmailSync` | the sync jobs of a user, both sync algorithms, the leased checkpoint | see 2.3 |
| `GmailSyncProofs` | theorems about it | see 4.4 |
| `EmailApplication` | calls that turn an email into an application, with their claim and lock | see 2.4 |
| `EmailApplicationProofs` | theorems about `EmailApplication` | see 4.3 |
| `NumberFacts` | lemmas about numbers, ranks and counting that these theorems share | |
| `ApplicationStatus` | concurrent changes of one status, folded from its history | see 2.5 |
| `ApplicationReports` | timeline, funnel, job analytics and paged history over `ApplicationStatus` | see 2.5 |
| `CareerRecords` | resume link, snapshot, outcome and APPLY action that follow an application; the reports by resume, action, strategy | see 2.5 |
| `CandidateFacts` | fact versions, corrections, reviews, snapshot copies, canonical rows, the connection pool | see 2.5 |
| `Opportunities` | email jobs that find or create company, opportunity and recruiter, statement by statement | see 2.6 |
| `Directory` | normal forms of company names, aliases, and the lists of companies and recruiters | see 2.6 |
| `UserAccounts` | refresh tokens, authorisation states, user rows, deletion of an account | see 2.7 |
| `GmailTokens` | sealed tokens of one connection through a rotation of keys | see 2.7 |
| `UserPlacement` | region, cells, two caches of the context, jobs that carry a cell | see 2.7 |
| `ReadCaches`, `OutboundCalls`, `RequestLimits` | caches of reads, circuit breaker with its callers, rate limits | see 2.8 |
| `RecruiterReasoning`, `RecruiterBehaviour`, `RecruiterTrust`, `RecruiterInsights` | the four stages of the recruiter engine, as operators on facts | see 2.9 |
| `RecruiterIntelligence` | the engine over time, with stages that ask a model | see 2.9 |
| `RecruiterMemory`, `EpicLinks`, `AiPipeline` | memory and graph, links between areas, calls to the models | see 2.9 |
| `Interviews` | extraction of transcripts, mining of patterns | see 2.9 |
| `MCEventOutbox`, `MCResumePipeline`, `MCGmailSync`, `MCEmailApplication` | model values, symmetry and constant functions for TLC | |
| `RecordsProofs` | theorems about the machines of `records`, and `ApplicationStatus` | see 4.5 |
| `ServicesProofs` | theorems about the other machines of `services` | see 4.6 |
| `RecruiterProofs` | theorems about the engine, memory and links of a recruiter | see 4.7 |
| `MCPipelines`, `MCLive`, `MCServices`, `MCRecords` | several machines in one run, see 3 | |

In each module a step is what the program does between two points at which another process
can interfere: a statement on the database, a call to Redis, to storage or to Gmail, or a
committed transaction. Definitions named as mutants in a comment are altered forms of the
definition that follows; they are there to see that a property notices the alteration, and no
behaviour of the specification uses them.

### 2.1 EventOutbox

`ev[e]` is the row of event `e` (status, retry count, lease owner, whether the lease has
expired, whether `next_retry_at` has passed); `rep[e]` the retry count the replica shows;
`pub[e]` the position of `publishFromEvent` in the request; `disp[d]` a `dispatchBatch` call
in flight (rows still to do, current row, position, retry count read); `job[j]` a slot of the
queue (event, position, attempts made, times stalled). `fails` is a history variable: failed
dispatches since the row was last made pending.

| Action | Code |
|---|---|
| `Publish` | publishInTransaction |
| `FastEnqueue`, `FastMarkProcessed`, `FastAbandon` | publishFromEvent, its dispatchToQueue, its catch |
| `Claim` | claimBatch: `FOR UPDATE SKIP LOCKED` and `LIMIT` are any nonempty set of claimable rows |
| `Submit`, `SkipUnmapped`, `SubmitFails` | dispatchEvent: queue, default branch, refusal |
| `MarkProcessed`, `MarkProcessedFails` | markProcessed in dispatchEvent's try block |
| `ReadRetryCount`, `MarkFailed` | markFailed: a read on the replica, then the update on the master |
| `DropBatch` | process exit, or markFailed throwing when the replica lacks the row |
| `Requeue` | requeueDlqEvent |
| `WorkerStart` ... `WorkerReport` | withEventLifecycle around a processor that succeeds or throws |
| `WorkerUpdateLost`, `WorkerDies` | a lifecycle update that throws outside the try block; a stalled job |
| `LeaseExpires`, `BackoffElapses`, `Replicate` | time, replication |

A queue job is kept in its slot for ever, as BullMQ keeps finished jobs (and their jobIds)
in the numbers `removeOnComplete` and `removeOnFail` give. `JobKey` says which events have a
deterministic jobId: parse jobs have their file hash, scan and intelligence jobs none.

### 2.2 ResumePipeline

`up[u]` is an upload request (position, result of the hash lookup, version it computed, rows
its `updateMany` hit), `row[u]` the row of `user_resumes`, `scan[<<u, copy>>]` the scan jobs
(two copies: the job carries no jobId), `parse[c]` the parse job of a content (its jobId is
the hash), `shown` the replica. The code always writes `scanning_status` and `status`
together, so the model has one field for both.

| Action | Code |
|---|---|
| `Store`, `RecordHash`, `ReadVersion` | upload up to the transaction, including the race on `resume_hashes.hash` |
| `Supersede`, `Commit`, `Rollback`, `Compensate`, `Abandon` | the two statements of the transaction, its failure, the catch handler, an exit |
| `StartScan` ... `Promote`, `ScanThrows`, `ScanStalls` | processMalwareScanJob, write by write |
| `DeliverScan`, `DeliverParse` | what the outbox promises: a first job, possibly a second |
| `ParseRead`, `ParseWrite`, `ParseThrows` | processResumeParsingJob |
| `Link`, `CheckLinks`, `DeleteRow` | linkApplicationResume, deleteVersion |

### 2.3 GmailSync

Message `m` is the m-th to arrive; Gmail's history id is the number of messages there are.
`listMessages` goes from the newest message down, and a page token stands for "older than
message t". `ckpt` is the row of `gmail_checkpoints`, `ops` the operations with the batch
created with each, `cursor` the history id in `gmail_sync_states`, `saved` the rows of
`email_messages`, `processed` the messages classified and tracked, `dropped` the messages a
sync has seen and given up after a failed call (the code logs and goes on). `sync[j]` has the
locals of the handler: `own` is the operation the worker opens, `op` and `batch` those the
engine works on, `version` and `holder` what advanceCheckpoint has read, `fatal` whether the error
at hand is one that classifyFailure does not retry. `skipped` is a history variable: the messages
that a resumption passed over. `shown` is what the replica shows of the tables.

| Action | Code |
|---|---|
| `ClaimFirst`, `Initialize` | processGmailSyncJob's claimCheckpoint and initializeSyncOp (which claims again) |
| `Profile`, `Plan`, `ListPage` | syncInitialMailbox with determineResumeStrategy |
| `Decide`, `Target`, `History`, `HistoryExpired` | syncNewEmails, resumeInterruptedBatch, fallback on a 404 |
| `Save`, `Process`, `BatchSaved` | processAndSaveBatch |
| `AdvanceRead`, `AdvanceWrite` | advanceCheckpoint: a read of version and owner, a conditional update that writes the owner back |
| `CompleteOp`, `StoreCursor`, `CompleteOwn`, `Release`, `PublishCompleted` | the ends of engine and worker |
| `FailOp`, `Catch`, `Blame`, `Throws` | the two catch blocks, with the branch for errors that are not retried |
| `Exit`, `Expire`, `Refresh`, `Arrive`, `SyncReplicate` | processes, clock, mail, replica |

The worker claims as (pid, job); the engine as the server identity of the process, which all
its jobs share. The payload that the routes enqueue has neither a history id nor a page token,
and `features.asyncEmailProcessing` is `false` in the source; both are fixed in the model.
Mailboxes stay below the 1000 messages at which an initial sync stops.

### 2.4 EmailApplication

`record[e]` is the row of `idempotency_records` under the key of email `e`, `lock[e]` the
call whose token is in `lock:process_email:e`, `apps` the applications in order of creation,
each with the email that is its source, `sent` those whose snapshot, outcome and action have been attempted
to the end, `call[c]` a
call in flight (position, email, application found or created), `shown` how many applications
the replica shows.

| Action | Code |
|---|---|
| `Begin`, `Check` | a call by a sync or a tracking job, and its preflight |
| `AcquireLock`, `Claim` | the lock, then the insert of the record; who is refused returns |
| `FindExisting`, `FindMatch` | the dedup guard and findMatch, both on the replica |
| `Create`, `Merge` | the transaction, for a new application and for one that was matched |
| `Commit`, `Integrate` | the record gets its result; the calls for snapshot, outcome and action |
| `Throws`, `Abort`, `ReleaseLock` | an error between claim and commit, the finally block |
| `Exit`, `LockExpires`, `Replicate` | processes, the 60 seconds of the lock, replication |

A call that is refused by `Claim` returns before the try block and leaves its lock to expire:
so does the model. `findMatch` may find nothing although there is an application of the
opportunity, because it skips rejected and withdrawn ones. The transaction is one step: it has
no effect that anyone can see before its commit. `Create` may lose its answer; the other calls
that fail have no effect.

### 2.5 Applications and facts

`ApplicationStatus`: `change[c]` is a transaction of recordStatusChange (`ReadApplication`,
`InsertRow` with the read of the history, `Settle` and `Commit`, `Abort` and `Retry` for P2034).
`Fold` is the loop over the sorted history, `resolveStatusFromEmail` and `Transition` its rules.
`ApplicationReports` extends it with the events of the timeline (`CommitReported`), a funnel whose
counts are separate statements (`CountInterviews`, `CountOffers`), the predicates of the job
analytics, and a client that reads the history page by page (`StartWalk`, `ReadPage`, `EndWalk`).
Edits of the timeline by a user are left out.

`CareerRecords`: `work[a]` is the tail of processEmailForJobApplication after its commit:
`ReadFacts`, `createSnapshot`, `LinkSnapshot`, `recordOutcome`, `recordAction`, each of which may
fail (`SnapshotFails`, `GivesUp`). The user uploads, links, corrects and deletes meanwhile
(`Upload`, `linkApplicationResume`, `correctFact`, the two statements of `deleteVersion`). An upload
numbers its row after the largest version of some earlier moment, which it read from the replica before
its transaction; `ResumePipeline` has that race statement by statement.
`getResumePerformance`, `getActionPerformance` and `getStrategyPerformance` are the reports.

`CandidateFacts`: a transaction reads in one step and becomes visible in a later one, and holds
one of `Connections` in between (`Open`, `Free`). `RecordRead`/`RecordCommit` are recordFact,
`CorrectRead` ... `CorrectCommit` proposeCorrection with the nested transaction of recordFact,
`SnapshotRead`/`SnapshotCommit` the copies, `PromoteRead` ... `PromoteCommit` materialise.

### 2.6 Shared rows

`Opportunities`: `job[j]` resolves its company (`Lookup`, `SaveCompany`, `UpsertAlias`), takes
the Redis lock of a role if it is free (`Lock`), finds or creates the opportunity (`Find`,
`Touch` with the row lock of its update, `Observe`, `Create`) and the recruiter. Losing a unique
key fails the job, which is queued again. The match by exact URL is left out: neither caller of
resolve passes a URL (application-command.service.ts:193, scripts/backfill/backfill-opportunities.ts:94). `Directory` has resolveCompany as one step and the
normalisation of names in detail: `resolveCanonicalName`, `normalizeAlias`, `buildAliasValues`,
`upsertAliases`, and the lists with their filters.

### 2.7 Accounts, tokens, placement

`UserAccounts`: `keys` are the credentials handed out, `live` those Redis still has, `req[q]` a
request with its position. rotateTokenPair takes the token (GETDEL) and issues the next in two
commands; delByPrefix is a loop of SCAN and DEL.

`GmailTokens`: `conn` and `replica` are the row and what the replica shows, `pod[p]` whether a pod
is up and the request it runs. Pods of the old deployment have the first key alone, those of the
new one have both and seal under the second. `Deploy`, `Terminate` and `gracefulShutdown` replace
them: a pod that drains takes nothing new and finishes what it has in hand, `Exit` is a crash or
the end of the time it is given. `phase` follows the header of the re-encryption worker:
"rotating" once all new pods are deployed and all old ones have been told to stop
(`StartRotation`), "removing" once the search for stale rows is empty and the first key is gone
(`RemoveFirstKey`); "rushed" is a removal while an old pod still drains. The header's last step, pods
with the second key alone, does not happen: validateEncryptionConfig refuses to start a
process without the first key (utils/encryption.ts:390-397), so after the removal nothing starts
again (`FirstKeyIsSet`), and the pods that are up go on.

`UserPlacement`: `asking[h]` is a call of
resolvePlacementContext through memory, Redis, the replica and the fallback; `BeginMove`,
`ResidencyMigrates`, `setUserRegion` and `invalidateCache` are the move. A call and a replica lag
last at most one tick.

### 2.8 Caches, breaker, limits

`ReadCaches`: an answer is the version of the rows it was computed from; a reader computes in one
step and fills the cache in another. `OutboundCalls`: `caller[c]` is a call through `fire`, with
the timer of executeWithTimeout and the retries of withRetry. `RequestLimits`: `Handle` is one
request; counters live in Redis (`shared`) or in the process (`memory`).

### 2.9 Recruiters, models, interviews

The four stage modules translate the rules as operators on a sequence of facts, in
ten-thousandths; `RecruiterIntelligence` runs them over growing facts and any of the enumerated
AI answers. `RecruiterMemory`: `run[r]` executes the planner's chain, writes each confident field
in a transaction that reads and then writes what it has decided on the reading (`Decided`), and
upserts nodes and edges from what the replica shows. `EpicLinks`: one step per publication, sweep, or entity the broker visits. `AiPipeline`:
`acquire` with the first request, the answers and errors, `SendAgain` for the retries, and batches
by chunk; `since[c]` has the age of each request of a call, time is in ticks.
`Interviews`: `talk[t]` is an extraction with one step per statement; `miner[m]` a pass that
reads all observations at once and then, per pattern, creates its row, looks for the previous
published one and creates the row of the drift (`CreatePattern`, `FindPrevious`, `CreateDrift`). The column that shares a session
is external: no code sets it, and no code calls the miners.

## 3. Runs

Machines that share no state are checked together where their bounds are alike: the initial
state picks a `subject`, a behaviour runs that machine and leaves the others at their initial
state. So each machine is checked alone, with every order of its own steps, and the number of
states of such a run is the sum over its machines, not the product. A machine whose actors meet
along several independent ways is the subject more than once, under as many sets of bounds, by
instances of its module: two uploads or two scan jobs of one upload (`Twice`); a sync with an exit
and a lagging replica, with an exit, a second process and retries (`Crashing`), with a failed
call and retries (`Failing` of `MCPipelines`), or with a lease that runs out (`Stalling`); two similar roles or two companies of one name
(`Arrivals`); uploads that reuse a number or corrections of a fact (`Corrected`); passes of the miners,
statements that fail (`Failing` of `MCServices`), or one extraction that is repeated twice beside a pass
(`Repeated`); links of one domain or of two (`Wider`). That the sets of bounds suffice is what
the theorems of section 4 add, which hold for all of them at once.

| Run | Asks | Bounds |
|---|---|---|
| `pipelines_safety` | do outbox, resume pipeline and mailbox sync keep their promises under a fault, and do emails that race leave one row? | outbox: 1 event, 2 dispatchers, 2 jobs without jobId, replica lag, queue outages, 1 fault; resume: 2 uploads of one user, one infected, outages, 2 attempts, 1 fault, and again 1 upload with 2 scan jobs and 2 faults; sync: both job types, 1 message and 1 arriving, pages of one message in the listing and in the history, with replica lag and 1 exit, with 2 worker processes, 1 exit and 2 attempts, with 1 failed call and 2 attempts, with 1 lease expiring under a live worker and 2 attempts; 3 email jobs over 2 companies of one name; 1.6M states |
| `live` | does every event settle and the outbox implement `EventDelivery`, does every scan settle and an upload keep its content, does every sync end? | outbox: 2 events (one without a queue), 1 dispatcher, 1 job, stalls, outages, 1 requeue; resume: 2 uploads of the same file, failing scanner, replica lag, and again 1 upload with 2 scan jobs, outages, 1 exit or lost answer, a link and a delete; sync: both job types, 2 attempts, 1 failed call, 1 message arriving; fairness; 121k states |
| `email_safety` | one effect, one owner, true records, no claim left behind, no opportunity lost? | 2 emails about one opportunity, 2 calls, 2 tries each, 1 late application, 1 failed call or lost answer, 1 exit, 1 lock running out under its call, fairness; 536k states |
| `services` | do statuses, caches, shared rows, directory, records, interviews, recruiter engine, memory, links and model calls hold up under overlap? | 3 changes of a status; 2 readers and 2 writers in 2 processes; 3 email jobs of one company and 2 similar roles, 3 attempts; 4 mentions; 2 applications with 2 uploads, or with 1 upload and 1 correction; 2 transcripts with 2 mining passes, or with 1 statement that fails, or 1 transcript with 2 and a pass; up to 2 facts and 5 kinds of AI answers; 2 recruiter calls with an exit; 3 publications in one domain or 2 in two, and 2 queries; 3 model calls; 1.2M states |
| `records` | do facts, accounts, tokens, placement, reports, breaker and limits hold up, and do corrections end? | 2 connections, 3 facts, 3 client calls; 2 users, 3 requests; an old and a new pod through a rotation; 2 regions, 1 move; 2 changes, pages of one; 2 callers; 2 presets; fairness of the clients; 301k states |
| `outbox_v_*`, `resume_v_*`, `gmail_v_*`, `email_v_*`, `ai_v_*` | does the program do what this comment, test or migration says? | smallest instance that shows it does not (section 6) |

What the properties say, and how they could fail:

* `ProcessedWasDelivered`: fails if a mark can precede its enqueue, or if one event's job
  settles another's row.
* `ClaimExclusive`: fails if any of the three writers frees a row that is in a batch.
* `NobodyStranded`: without a fault there is always an actor for an open row: a `processing`
  row is in a live batch, and a row whose retries are used up has a job that has not ended.
* `NoEarlyDlq`: the retry count has two incrementing components and a lagging reader; it must
  not reach the threshold with fewer than `MaxRetries` failed dispatches unless a job failed.
* `EventuallySettles`, `RefinesDelivery`: see the fairness below.
* `UploadsHold` (`BytesKept`, `SomeActive`) and `QuarantineBoundary` (in `pipelines_safety` both as
  `UploadsAreSafe`): over overlapping
  uploads, duplicated and restarted scan jobs, and a parse job that promotes the newest row
  of a content, scanned or not.
* `ScansSettle` (`EveryScanSettles` of both sets of bounds): while nothing fails but the scanner,
  every scan ends in a verdict that stays. When downloads, the database or a process fail, an
  answer is lost or the job is there twice, a row may stay `scanning` for ever; then, at least, a
  job of it has used up its attempts, so that it does not hang in silence.
* `SyncHolds` is `OneSyncer` and `OnlyResumesSkip`. The comment that the cursor never advances before
  the data is stored does not hold of the program (section 6), so the property says where it
  breaks: every message up to the stored history id is saved, was given up after a failed call, or
  lay outside the page a resumed batch asks for, or arrived while a listing was interrupted that was
  then resumed at an older page. A whole listing, a delta, a retry, a second syncer or a lagging read
  that lost a message on its own would violate it.
* `DoneMeansSaved`, `JobsEnd`: over claims under two identities, resumed page tokens, retries and
  mail that arrives in between.
* `EffectOnce`: over calls that race, a lock that runs out, a transaction whose answer is lost
  and is tried again, an exit at any step. A replica that is late and a failure together are
  excluded: then the guard does not see what the first attempt created (see 5).
* `CommittedIsDone`, `OneOwner`, `NoOrphanedClaims`, `OpportunitiesLand`: over the orders in
  which two calls pass preflight, lock, claim, commit and the two releases of the finally block.
* `TypesOK` (`TypeOK` of the three pipelines) also relates variables (a current row is in its
  batch; events `cleaned` were `uploaded`; links point to existing rows; `processed` are `saved`).
* `StatusIsOutcome`: the incremental fold is compared with a definition of what a history means;
  it fails if a lost row is never made good or if an order of arrival survives.
* `ReportsHold`: over changes that commit between the counts of a funnel and the pages of a list.
* `RecordsAgree`: reports by resume and by strategy agree although version numbers are reused; the
  copies that snapshots make of each other's copies stay bounded; a linked snapshot is not empty.
* `FactsHold`, `CallsEnd`: chains of supersession have an end; a promotion's result does not
  depend on its order; nested transactions that exhaust the pool end in an error at worst.
* `RacesAreContained`, `DirectoryHolds`: over jobs that go on without the Redis lock, and aliases
  that move between the two resolutions of one email.
* `AccountsHold`: over concurrent rotations, sweeps that race issues, and Redis commands that fail.
* `AccessStaysMoved`: over consents, refreshes and jobs that sealed a token before the search for
  stale rows came out empty and store it after, pods that drain, and jobs that write back what a late
  replica showed. It speaks of removals that wait for the last old pod.
* `PlacementHolds`: over slow readers, missed invalidations and copies of copies.
* `ReadYourWrites`: over computations that start before a write and fill the cache after it.
* `CircuitRecovers`: late answers of calls let through earlier renew the rest of an open circuit.
* `AdmissionsAreBounded`: over fixed windows that meet, shared counters and Redis outages.
* `AlarmsAgree`, `EvidenceNeverHurts` (an action property): across the stages of the engine and
  from run to run; the second up to ten facts, where quality is not yet saturated.
* `MemoryIsWhole`, `LinksHold`, `InterviewsHold`: over interleaved supersessions and upserts;
  publications and sweeps under a reading broker; retried extractions and mining passes.
* `CallsAreBooked`: calls that are admitted at the border of two windows, at most twice the budget
  in a minute; calls of a batch beside single ones; ends of calls and their rows in the ledger. It does
  not bound the requests sent, which retries add to (`RequestsInBudget`, section 6).

**Why these bounds.** The outbox couples events only through the slots of a batch and equal
jobIds, so the contention is for one row: one event with two dispatchers and two jobs has all
pairs of writers, and the second event of `live` is the one whose type has no queue.
Two retries and two attempts tell the first, a middle and the last attempt apart. Two
uploads are the smallest race on version and active row; more uploads repeat it. Two
messages with pages of one have a first and a last page, in the listing and in the history, and one
of them arrives during the sync; the theorems of 4.4 speak of longer mailboxes. One fault is a crash or a lost answer at every point of every behaviour;
a second fault during the recovery from the first is covered for one upload with two scan jobs,
and left to the theorems elsewhere. A sync that fails or dies and is tried again is a set of bounds of
`pipelines_safety`, a stalled job of the outbox that is run again one of `live`. Two
emails about one opportunity have a first one, which creates the application, and one that
finds it or races for it; the second call and the second try are the ones the claim is for. In
`pipelines_safety` the dispatchers, and the worker processes of the sync, are interchangeable and are a symmetry set;
runs with temporal properties use no symmetry. In `services` and `records`, and for the emails
of `pipelines_safety`, two of each kind of actor make every pair of steps meet, and one actor more is added where a third one changes the
answer: a second writer of a status behind a user's word, a third email of another company with
the same name, a third request that logs in while two others rotate and sweep.
`CHECK_DEADLOCK FALSE` is in every configuration: all work ends when the bounded inputs are
used up, and the system may then stop.

**Fairness.** Weak fairness of the steps of a request, a worker, a dispatcher between two
events, of timers and of replication: processes that are not stopped go on. Strong fairness
of the claim of each event (`EventOutbox`): the dispatcher polls every
`dispatchIntervalMs` and takes the oldest rows first, so a row that is claimable again and
again is taken, even though leases, backoff and other writers disable its claim in between.
Publishing, requeueing, arrival of mail, a second job of the same event and faults have
none. In `EmailApplication` an email that has no committed record is presented again (weak
fairness of `Begin` by any call) until its tries are used up: syncs and queue attempts do that. In
`ResumePipeline` the first scan job of a committed event is fair, which is what
`EventDelivery!Spec` promises its users.

**Faults and liveness.** After an exit the program does lose events and scans (sections 5 and 6), so
`live` has none for the outbox, and for the uploads under its first set of bounds; there it has
throwing scanners and a lagging replica. Under the second (`Twice`) calls to storage and database may
fail at any point, one worker may die or one commit lose its answer, and the scan job is there twice:
`ScansSettle` then asks for a verdict or a visible failure. The sync has a
failed call, after which its released lease refuses the retry; that a job ends is claimed for that
alone, and a lease that expires under its worker is a set of bounds of `pipelines_safety`. `OpportunitiesLand` is claimed for behaviours without an exit or a failed call, of
which `email_safety` has both; locks may run out in all of them.

## 4. Theorems

Each theorem holds for every value of the constants that satisfies the assumptions of the module
(which TLC evaluates in every run) and the hypotheses it names. The invariants below were
checked with TLC on the instances of section 3 before they were proved.

| Module | Theorem | States | Hypotheses | Inductive invariant |
|---|---|---|---|---|
| `EventOutboxProofs` | `TypeSafe` | `TypeOK` | | `TypeInv` |
| | `ClaimsAreExclusive` | `ClaimExclusive` | `TimelyDispatch`, `MaxRequeues = 0` | `LeaseInv` |
| | `ProcessedEventsWereDelivered` | `ProcessedWasDelivered` | `DistinctKeys` | `DeliveryInv` |
| | `DeadLettersWereTried` | `NoEarlyDlq` | `MaxRequeues = 0` | `DlqInv` |
| | `RowsAreInSomebodysHands` | `NobodyStranded` | | `StrandInv` |
| | `OutboxImplementsDelivery` | `Delivery!SafeSpec` | `DistinctKeys` | `DeliveryInv`, `AbsentInv` |
| `ResumePipelineProofs` | `PipelineTyped` | `TypeOK` | finitely many uploads | `TypeInv` |
| | `QuarantineHolds` | `QuarantineBoundary` | finitely many uploads | `QuarantineInv` |
| | `UploadsAreKept` | `UploadsHold` | finitely many uploads | `UploadsInv` |
| `GmailSyncProofs` | `SyncTyped` | `TypeOK` | | `TypeInv` |
| | `OneJobSyncs` | `OneSyncer` | | `OneSyncInv` |
| | `DoneIsSaved` | `DoneMeansSaved` | | `DoneInv` |
| | `CursorHolds` | `SyncHolds` | | `OneSyncInv`, `CursorInv` |
| `EmailApplicationProofs` | `TypeSafe` | `TypeOK` | | `TypeInv` |
| | `ClaimsExclude` | `OneOwner` | | `ClaimInv` |
| | `CommitsAreTrue` | `CommittedIsDone` | | `DoneInv` |
| | `EffectsHappenOnce` | `EffectOnce` | | `EffectInv` |
| | `ClaimsAreReturned` | `NoOrphanedClaims` | | itself, with `ClaimInv` |
| `RecordsProofs` | `CircuitsRecover` | `CircuitRecovers` | | `CircuitInv` |
| | `AccessStaysUnderTheNewKey` | `AccessStaysMoved` | | `TokensInv` |
| | `PlacementsHold` | `PlacementHolds` | | `PlacementInv` |
| | `AccountsAreHeld` | `AccountsHold` | | `AccountsInv` |
| | `CandidatesAreKnown` | `FactsHold` | | `FactsInv` |
| | `StatusMeansHistory` | `StatusIsOutcome` | | `StatusInv` |
| | `ReportsMissNothing` | `ReportsHold` | | `ReportsInv` |
| | `LimitsHold` | `AdmissionsAreBounded` | | `LimitsInv` |
| `ServicesProofs` | `WritersReadTheirWrites` | `ReadYourWrites` | | `CacheInv` |
| | `EmailsRaceSafely` | `RacesAreContained` | | `OppInv` |
| | `CallsStayBooked` | `CallsAreBooked` | | `CallsInv` |
| | `InterviewsStand` | `InterviewsHold` | | `InterviewsInv` |
| | `CareerStands` | `RecordsAgree` | | `CareerInv` |
| | `CompaniesStand` | `DirectoryHolds` | | `DirectoryInv` |
| `RecruiterProofs` | `MemoryStaysWhole` | `MemoryIsWhole` | | `MemoryInv` |
| | `StagesAgree` | `AlarmsAgree` | | `IntelInv` |
| | `EvidenceHolds` | `EvidenceNeverHurts` | | `EvidenceInv` |
| | `LinksStand` | `LinksHold` | | `LinksInv` |

`NumberFacts` has the lemmas about numbers that several of them need: the maximum of a finite
set, the number after it, the smallest element, and the ranks of the elements of an ordered finite
set, which ascend and leave no gap. What the code does with a sorted list is said with ranks.

### 4.1 Outbox

* `TypeSafe`. `TypeOK` is not inductive: `made \in 0..Attempts` needs to know that a job that is
  about to fail an attempt has one left, which is `AttemptsLeft`.
* `ClaimsAreExclusive` assumes that a live batch ends within its lease (`TimelyDispatch`) and that
  nobody requeues by hand (requeueDlqEvent checks neither status nor lease, so a requeue of a
  claimed row does lead to two dispatchers on it). `LeaseInv`: every row in a batch carries the
  unexpired lease of that dispatcher and is not pending. The fast path and the workers, which
  ignore the lease, write only the status and never `pending`, and a `failed` row with a live
  lease is not claimable.
* `ProcessedEventsWereDelivered` assumes that events with equal jobIds are equal. `DeliveryInv`
  adds the two positions from which a mark follows: the fast path after its enqueue and a
  dispatcher after its own. Without `DistinctKeys` a parse job swallowed by the retained job of
  another upload of the same file leaves an event that is processed without a job of its own.
* `DeadLettersWereTried`. `DlqInv` follows the retry count to all who hold a copy: while no attempt
  of a job has failed, neither the row, nor the replica, nor what a dispatcher has read and is about
  to write counts more than the failed dispatches. `MaxRequeues = 0`, because a requeue resets the
  row and not what a dispatcher has read of it.
* `RowsAreInSomebodysHands`. `StrandInv` also speaks of rows that nobody has claimed: one whose
  retries are used up, which no dispatcher will claim again, has a job that will settle it.
* `OutboxImplementsDelivery`: `Init` maps to the contract's initial state and every step to a step
  for one event or to a stutter, under the mapping of `EventOutbox` (`Delivery`). `AbsentInv`
  says that nobody knows of an event before its transaction. The fairness of `EventDelivery!Spec`
  is left to `RefinesDelivery` in `live`.

### 4.2 Resume pipeline

A lemma reduces the steps of a scan job, a parse job, an upload and a deletion to what they do to
row, job and stores; each invariant is then proved per kind of effect.

* `PipelineTyped`. `TypeInv` adds that a job that is not over has an attempt left, that only
  uploads with an event have jobs and that a parse job writes a row it has found. Finiteness of
  the uploads is needed for the next version, a maximum.
* `QuarantineHolds`. `QuarantineInv` says what each phase of a job knows of its file: a job that
  copies has seen no threat, one that drops the quarantine object or promotes has its file in clean
  storage, and so has a parse job. No hypothesis on retries, doubled jobs or exits.
* `UploadsAreKept`. `UploadsInv`: a request keeps its object in quarantine, or the content in clean
  storage, from its first step on; only condemned files are purged; `updateMany` hits rows of
  the own user only, so that the row inserted in the same transaction makes good for them.

### 4.3 Email to application

* `TypeSafe`, with `KnownApp`: a call at its commit or its integrations has an application whose
  source is its email.
* `ClaimsExclude`, with the invariant that a call between claim and commit or abort has the record
  of its email in progress. The proof does not use the lock: the record alone keeps calls
  apart, and the lock only saves work.
* `CommitsAreTrue`. Only the owner of a record changes it, and it commits what `KnownApp` says.
* `EffectsHappenOnce`. `EffectOnce` speaks only of applications, so `EffectInv` says why a call at
  its transaction has none for its email: with a replica that is up to date, because the dedup
  guard has seen all; with a late one and no failures so far, because every application has a
  committed record or a call that is about to commit it, so that nobody else can own the email.
* `ClaimsAreReturned`. A call that leaves the try block leaves the record committed or absent;
  no other call has touched it, because of `ClaimsExclude`.

`StepEffect` reduces the steps of the specification to nine effects on records, applications and
calls, for which the invariants are proved.

### 4.4 Gmail sync

* `SyncTyped`: indices of a job are those of operations that exist, its page holds messages that
  have arrived.
* `OneJobSyncs`, up to the first lease that runs out under its worker, for any exits, faults and
  lag. `OneSyncInv`: a job inside a sync is the holder of the live lease, under the
  identity of its worker or that of its server. The engine claims again under the latter, which is
  why two identities appear, and why a job must carry its pid.
* `DoneIsSaved` has no hypothesis. `DoneInv`: while an initial sync lists pages, every message
  of the mailbox is stored or given up, on the page in hand, or older than the page token (`Owed`), and
  a page token that a checkpoint keeps, on the master or as the replica shows it, stands for a
  point above which everything is stored (`TokenOK`).
* `CursorHolds` has no hypothesis either. The first half is `OneSyncInv`. For the second, `CursorInv`
  adds to `DoneInv`: everything up to the stored history id, on the master or as the replica shows
  it, is saved, given up or passed over by a resumption (`Covered`), and a job that is going to store a history id
  has the uncovered messages up to it still ahead of it (`Due`): on its page in hand or, in a listing,
  older than its page token. `TokenOK` of `DoneInv` says the same of a page token that a checkpoint keeps, for the mailbox it began
  with; what has arrived since is what a resumed listing passes over. The second half needs nothing of who holds the
  lease: messages are only ever added, so that two syncers at once owe and store each for itself.

### 4.5 Records

The machines of `records` share no state, so each has a theorem of its own.

* `CircuitsRecover`. `CircuitInv`: a caller that waits while the circuit is open was let through
  before it opened, so it is at least as old as the opening. What it may renew on its late answer
  it renews within `requestTimeout`, which bounds the time until the next call passes.
* `AccessStaysUnderTheNewKey`. `TokensInv`: a pod that is gone has nothing in hand; every envelope a new
  pod is about to write is of the second key; after a removal that has waited, all old pods are gone and
  stay so, and the access token is under the second key. `LifeKeeps` says that starting, draining
  and ending pods change none of this, `TokensInductive` the same of every step.
* `PlacementsHold`. `PlacementInv` bounds the age of every copy of the region: the replica's by one
  tick, that of a call by two, what is in Redis by two more than it has lived there, that of a process
  by the limit of the property. No move so far means that every copy has the default
  region; no early move, that the residency is the region, also of a move half done.
  `RegionsHaveNames` (no region is the empty string, which stands for a missing key) is assumed.
* `AccountsAreHeld`. `AccountsInv`: of the live tokens and the rotations in flight at most one stands
  for a login; a callback in flight holds a state that is handed out and no longer stored; a sweep under
  way has before it every token that was there when it began and is still live.
* `CandidatesAreKnown`. `FactsInv` has three parts. `TableOK`: every row that exists is well formed, a
  link leads to a later version, and a correction has the superseded row behind it, one version
  earlier. `HandsOK`: jobs and calls in flight name rows that exist. `CanonOK`: for a key whose
  promotions never overlapped, one promotion at most is in flight, the canonical row is a correction if
  one was offered, and what is about to be upserted beats it. That nothing offered beats the canonical
  row is claimed for a key whose offered confidences make no chain of ties (`TiesAreClasses`, a
  condition in the property, not a hypothesis of the theorem): two confidences within the epsilon of 0.001 tie, so
  that in a chain of 0.0006 apart `candidateWins` is no order, and a chain may lead down step by
  step. Quality and precedence are conditionals in the order of the code, as their arms overlap.
* `StatusMeansHistory`. The loop over the sorted history is a function on its parts: the fold of a
  part is the fold of the part without its last row, with that row applied. That it gives `Outcome`
  is an induction over the parts of a history, of which a smallest counterexample would have one row
  less than itself. `StatusInv`: a change that no commit has overtaken has read the whole history, and what any
  change started from is a status that the history reaches (`Reaches`), so that its fold
  is the outcome although it began from the stored status and not from the first one.
* `ReportsMissNothing`. `ReportsInv` has `StatusInv` in it, and three parts. `NothingLost`: every
  status the application had, except SAVED, is on the timeline or was said by an email. `FunnelOK`: a funnel that no
  change interrupted counts one status twice. `WalkOK`: the place of a row among the rows before it
  only grows while rows are added, so that a row a client still waits for stands on the page it
  asks for next or behind it; ranks leave no gap, so an empty page is the end.
* `LimitsHold`. `LimitsInv` says of each counter, on Redis and in each process (`Windowed`): since it was
  opened it let through at most what it counts and at most the points; it stays open for a shortest window
  at least; and in the part of a shortest window that lies before its opening fewer than the points
  passed. So two windows at most overlap the shortest. Requests are counted as the cardinality of a
  set of numbered requests, not as a sum.

### 4.6 Services

* `WritersReadTheirWrites`. `CacheInv`: a process is never told more than was written; an answer in
  a reader's hands which no announcement overlapped is as new as what its process was told. That
  the announcement drops all dashboards of the user follows from their keys, by prefix.
* `EmailsRaceSafely`. `OppInv`: a job that is about to observe holds the row lock of its opportunity,
  and what it saw is the current observation; a key lost in a race belongs to a row that exists; a
  job that is about to create a row has not lost that key before. `JobsAreNamed` (the value
  for "nobody holds the lock" is no job) is assumed.
* `CallsStayBooked`. `CallsInv`: the calls admitted in the last minute are those of two windows, at most as many
  in the current one as it counts and at most the budget in the one before, all of which are at least as
  old as the current window; the items of a batch that are under way are all of one chunk. The books are kept call by
  call. `BatchAssumption` says that the batch's items are distinct calls.
* `InterviewsStand`. `TalksInv` says what an extraction has written when it stands at a statement;
  `MinesInv` says of a pass, at each of its three statements, what its cohort is made of and against
  which window it is about to store a drift. The theorem is for any number of miners and
  passes, the run has one miner and two passes. TLC refuted an earlier form of the property with
  two miners and three passes: the change of a pattern is taken against one that is published, but
  it may be of a later window than the pattern itself. The property says so now.
* `CareerStands`. `CareerInv`: types; what a call knows at each of its steps; a version that is about to
  go has no links unless one was made during the deletion; and the copies of a fact are at
  most the sets of snapshots they may have come through, which double with each snapshot
  (`SubsetsDouble`). The reports are compared by injections between what they count (`Units`).
* `CompaniesStand`. `DirectoryInv`: the name of a company is one that an email brought, an email whose aliases
  nobody moved finds its company again. The proof refuted an earlier
  form of `NamesAreCanonical`: `normalizeCompanyToken` drops dots and `normalizeAlias` does not, so
  a name like 'fb l.l.c' becomes 'fb', which resolves to the override 'meta' the next time. The
  property now excepts a name behind whose dotted suffix another name was hidden, and one of the
  mentions of `services` is such a name. Response times are taken by order statistics, their sum
  by counting pairs of a gap and a minute in it. `DirectoryAssumption`: times are numbers, and a mention
  has a domain (job-application-extractor.ts:114 to 121 gives no mention without one).

### 4.7 Recruiters

* `MemoryStaysWhole`. `MemoryInv`: a superseded row points at a later one of the same attribute with another
  value (`RowsInv`), so that every chain ends at a current one; edges hang between nodes that exist (`GraphInv`); a call
  under way has read rows that exist, and has drawn the nodes before the edges between them
  (`RunOK`). `DrawingAssumption` states that order, in which the knowledge graph service draws.
* `StagesAgree`. All alarms follow from one comparison (`AtRisk`), and the rules for factors
  are compared with it. `AnswersAssumption`: the ghosting signal of an AI answer, if there is one,
  is a number. What the property says of past runs follows from one run.
* `EvidenceHolds`, for any facts, whatever they say. `EvidenceInv`: the facts of a report begin those known
  since, and a report of which nobody answered anything is what the rules make of its facts and outcomes. A longer list of facts
  makes every inference firmer (`InferencesFirm`), but their mean may fall, by a new inference
  of low confidence: of the thirteen dimensions of behaviour only the quality of responses can lose by it, at most
  3145 of 10000, which takes 242 from their mean and 267 to 300 from the behaviour score
  (`ProfilesFallLittle`). The signal of the candidate's experience, of weight 7, loses at most 240, that is 1680; the
  density of the facts, of weight 12, gains 250 with every fact up to ten, that is 3000 (`TrustGrows`). The
  property lives on that margin: a density that rose by less than 140 a fact would not carry the argument. Sums are a
  recursive function over a set (`Total`), about which the proofs need only that it adds up
  one element at a time.
* `LinksStand`. `StoreInv`: index and links agree, also in the middle of what a publication throws out;
  `Enriching`: what a broker has found is in order and repeats no edge, whatever the store has become
  since. `LinksAssumption`: a query asks for a number of links, messages live a number of ticks.

### 4.8 Only model-checked

Liveness under fairness and ENABLED are out of the prover's reach: `EventuallySettles`,
`ScansSettle`, `JobsEnd`, `OpportunitiesLand`, `CallsEnd` and the fairness in
`RefinesDelivery`, whose safety part is `OutboxImplementsDelivery`. No module uses a RECURSIVE
operator. Every safety invariant that a run checks has a theorem, and so has the action property
`EvidenceNeverHurts`; only, `MCPipelines` and `MCServices` check some machines by instances: `TypesOK`,
`UploadsAreSafe` and the `RacesAreContained` of `pipelines_safety` are proved machine by machine (`EventOutboxProofs!TypeSafe`,
`PipelineTyped`, `SyncTyped`, `UploadsAreKept`, `QuarantineHolds`, `EmailsRaceSafely`).


## 5. What the models leave out, and what they show besides the properties

Left out: text extraction, classification, normalisation and scoring (a choice between
outcomes, or nothing); queue priorities, rate limits and delays; the health switch of the
replica and most transient retries of `transaction-utils.ts`; the drain of a graceful shutdown, except
in `GmailTokens` (elsewhere an exit between any two steps, or none, covers it).

### Not modelled

* The Gmail ingestion coordinator and the per-email checkpoints: asynchronous email processing is
  switched off in the source (`features.asyncEmailProcessing`), and nothing else calls them.
* Code that no other code calls: `deletionService`, the purges and legal holds of the retention
  service (a hold is stored but never checked), `extractionRunService`, `jobAnalyticsService`'s
  route, captureIntelligenceSnapshot and reconstructStateAt, addStrategyTag,
  prediction-evaluation, setUserRegion and the placement middleware (the move of a region is
  modelled nevertheless), the interview miners (modelled too), the re-encryption worker, which no
  process starts (modelled as its header describes it).
* Texts: prompts, adapters of model providers, entity extraction and classification, the PII
  inventory; they are choices between outcomes.
* Row-level security, configuration, HTTP validation, logging, metrics, health: each request passes
  through them without state that outlives it, or their state is the infrastructure's.
* The memory and the simulation of interviews, dashboards' contents, signals and company
  intelligence: reads and projections. The simulation looks competencies up by key where ids are
  stored, so the readiness it reports is always 0.

Limits of the runs that correspond to behaviour of the code:

* **Outbox.** `stop()` does not wait for a batch in flight. A late job of an event that is
  already processed takes the row back to `failed` or `dlq`. The check constraint of `20260807_add_constraints` on
  `events.status` knows `completed` but not `processed`: with `StatusColumn` restricted to its
  values no worker can report success. `markFailed` throws when the
  replica does not have the row yet, and the rest of the batch is lost with it.
* **Resume.** An exit between the deletion of the quarantine object and the promotion of the row
  leaves the row `scanning`: the restarted job cannot download. A second scan job takes a ready
  row back to `scanning`. The losing request of a hash race leaves its object in quarantine
  without a row. Between deleteVersion's check and its delete a link can be made; it is
  cascaded away. The check constraints of `20260807_add_constraints` know neither `ready` nor
  `failed`: with `Accepted = {"pending", "scanning"}` no scan can be recorded.
* **Gmail.** A lease that runs out under its worker (five failed refreshes) lets a second one
  in, and advanceCheckpoint asks for the version, not for the owner, so that the first can
  idle the checkpoint of the second: `OneSyncer` holds up to the first such expiry, as its
  antecedent says. resumeInterruptedBatch takes one page of history and stores the newest
  history id: with a history longer than a page `CursorCovers` does not hold (section 6). The batch it
  resumes is almost always the one its own worker has just opened, with history id 0: if Gmail no longer answers
  for that id, the job fails instead, since only the other branch falls back to an initial sync. Nor does
  `CursorCovers` hold when a worker exits between two pages, mail arrives, and the retry reads the
  checkpoint from a replica that lags: the resumed page token belongs to an earlier history id than
  the one that is stored. The jobId has no
  date, so a sync requested while a finished job of that user and type is retained is swallowed.
  Queue retries (2 s and 4 s) end long before a five-minute lease of an exited worker. A worker
  that exits between the upsert of a message and its processing leaves a saved message that no
  retry processes.

* **Email to application.** An exit between claim and commit, or an abort that fails, leaves
  the record in progress: every later call returns as if the email were done, and `cleanupExpired`,
  which would remove the record after 60 days, has no caller. With a late replica and a
  failure after the transaction (a lost answer, a commit that throws) the email is tracked
  twice: `EffectOnce` without its antecedent does not hold. Two emails about one opportunity
  whose calls overlap both find no match and create an application each: `EffectOnce` is per
  email, and no statement makes opportunities unique. An error after `Create` but before the end of
  `Integrate` leaves an application without an outcome, as the code intends.

* **Status and reports.** Two overlapping changes may leave a status that the next undisturbed one
  repairs. A manual change to SAVED commits and then answers an error. The timeline is ordered by
  timestamp and createdAt only, so that ties may be shown twice or not at all on a page boundary
  (the status history has a total order); companies are ordered by updatedAt, which every mention
  changes. Rates can exceed one when a denominator excludes what a numerator counts.
* **Records beside an application.** `recordOutcome` is always given 'Applied', which is no value of
  the enum, so the outcome of an email's application is never recorded. If linking the snapshot
  throws or the process exits after the commit, outcome and action are never made up for. Every
  snapshot copies the current facts as current rows, copies of copies included. The number of a
  deleted resume version is given again, and a link made during the deletion is cascaded away.
* **Facts.** A rejected fact can still be promoted; a corrected fact stays current in its copies. Confidences
  that tie in a chain rank facts by the order in which they were promoted.
* **Shared rows.** The fallback of a lost opportunity race queries inside its aborted transaction
  and fails. The Redis lock is not waited for. An alias goes to the company that mentions it last,
  and an email resolves its company up to three times, so recruiter and application may end at
  two companies. `normalizeAlias` removes the suffixes and dots that three of the override keys
  contain, so these never apply; 'L.L.C' is stripped from names and not from aliases.
* **Accounts.** A logout everywhere does not reach a token that a rotation under way issues behind
  its scan; user and profile are created in two statements; after a deletion, a request with an
  access token that is still valid creates the user again; the deletion drops the authorisation
  states of all users.
* **Tokens.** The refresh token has no promise like `AccessStaysMoved`: the search for stale rows does
  not look at it. Nothing makes the operator wait for the last pod with the first key alone: after a
  rushed removal a draining pod can store a token under the key that is gone, although the header
  promises that old keys are not removed until all data has moved. Its last steps cannot be followed
  either: without the first key no process passes validateEncryptionConfig, so nothing that stops after
  the removal starts again. Values read from a late replica are written back re-encrypted.
* **Placement.** The context is cached in Redis for 300 ms, where the comment says five minutes. A
  move does not create the new cell, so jobs fail until some request routes the user; a move
  before the replica shows the row leaves the residency behind for good.
* **Caches and limits.** `invalidateUser` of the analytics names a prefix that their keys do not
  have. Presets of one limiter factory share one Redis counter and the window of its opener, so a
  read uses up points of writes. "Fails closed on Redis errors" (rate-limiter.ts:24) does not
  happen: the in-memory insurance limiter always answers.
* **Breaker.** A missing object (404) counts as a failure, and signing a URL locally as a success
  that closes a half-open circuit.
* **Recruiters and models.** Two overlapping memory writes may leave two current observations of
  one attribute. More than ten facts may lower a trust score. Edges are upserted from what the
  replica shows and may lose evidence. A model call whose last attempt fails is recorded once as
  a success and once as a failure; refused calls leave no ledger row; retries are sent without asking
  the limiter (section 6); the budget per call is never
  enforced. Deduplication of links never matches, since ids are fresh.
* **Interviews.** An extraction that fails in the models is recorded as a prediction without a session.
  A retried extraction duplicates the session; losing the race for a competency
  key fails the whole extraction; patterns stay when a user takes back the sharing of a session.

## 6. Where the program and its comments, tests or migrations disagree

Each has a run whose single property states what the quoted text says, and which TLC refutes.

| Run | Says | Does |
|---|---|---|
| `outbox_v_reclaim` | header of the dispatcher: expired claims become eligible for re-claim | claimBatch selects pending and failed rows only; a row left `processing` is never selected |
| `outbox_v_rawrows` | comment in publishFromEvent: delivery is at-least-once | rows of `$queryRaw` have column names, so `eventType` is undefined, the dispatch takes the default branch and the mark throws |
| `resume_v_second` | test: a second upload gets version 2 and supersedes the first | two overlapping uploads read the same version and do not see each other's row |
| `gmail_v_release` | releaseLease: "Release a checkpoint lease when sync completes or fails" | status stays `syncing` with a null expiry, which claimCheckpoint takes for a lease that is still valid |
| `gmail_v_cursor` | syncNewEmails: "Never advance cursor before data is durably stored" | an incremental job resumes the batch its own worker has opened, takes one page of history from id 0 and stores the history id of the whole (if Gmail answers for id 0) |
| `email_v_merge` | ApplicationMergeService: an email about the same opportunity is merged into its application | its source cannot be inserted: `application_sources.application_id` is unique, the transaction fails at every attempt |
| `ai_v_rate` | extraction pipeline: "Enforces rate limits and cost budgets"; limiter: "simple sliding-window rate limiter" | the requests of retries ask no limiter, and two fixed windows meet within a minute |

`ModelFieldNames` and `StatusColumn` are constants so that the other runs can ask what the
outbox does once these two are repaired: they set `ModelFieldNames = TRUE` and let the column
accept every status the code writes (as `prisma db push` creates it).

## 7. Plan

Next, models: the matching of resumes and opportunities (weights and ranks as operators), extraction
runs, the start and the drain of the processes; then the composition of `GmailSync`'s per-message
step with the calls of `EmailApplication`, and an abstract specification of one effect per email.

Next, theorems: about the new compositions.
