------------------------------ MODULE GmailSync ------------------------------
(***************************************************************************)
(* The sync jobs of one user's mailbox: gmail-sync.worker.ts, the sync     *)
(* engine gmail-ingestion.service.ts and the leased checkpoint of          *)
(* durable-checkpoint.service.ts.                                          *)
(*                                                                         *)
(* Message m is the m-th to arrive and Gmail's history id is the number of *)
(* messages that have arrived.  listMessages goes from the newest message  *)
(* down, and the page token it returns stands for "older than message t".  *)
(* The mailbox is shorter than the cap of 1000 messages of an initial      *)
(* sync.  features.asyncEmailProcessing is false, as in the source: a new  *)
(* message is classified and tracked by the worker that saves it.          *)
(***************************************************************************)
EXTENDS Naturals, Sequences, FiniteSets, FiniteSetsExt

CONSTANTS
  SyncJobs,     \* sync jobs: the jobId is user:type:connection, so one per type
  Initial,      \* those of type GMAIL_INITIAL_SYNC
  Pids,         \* process.pid of the workers
  SyncAttempts, \* attempts of DEFAULT_JOB_OPTIONS
  PageSize,     \* messages on a page of listMessages
  HistorySize,  \* messages on a page of getHistory
  Mailbox,      \* messages there before the first job
  MaxMail,      \* messages that ever arrive: a bound
  ReadsLag,     \* is dbRouter.read() an asynchronous replica or the master?
  MaxFailures,  \* failed calls to Gmail or the database: a bound
  MaxExits,     \* process exits: a bound
  MaxStalls     \* leases that expire under a live worker: a bound

ASSUME SyncAssumption ==
  /\ Initial \subseteq SyncJobs /\ "server" \notin SyncJobs
  /\ SyncAttempts \in Nat \ {0} /\ PageSize \in Nat \ {0} /\ HistorySize \in Nat \ {0}
  /\ MaxMail \in Nat /\ Mailbox \in 0..MaxMail
  /\ {MaxFailures, MaxExits, MaxStalls} \subseteq Nat

VARIABLES
  mail,       \* messages in the mailbox
  ckpt,       \* the user's row of gmail_checkpoints
  ops,        \* sync_operations and the sync_batches created with them
  cursor,     \* historyId of gmail_sync_states, 0 when there is no row
  saved,      \* messages with a row in email_messages
  processed,  \* messages classified and tracked
  dropped,    \* messages a sync has seen and given up after a failed call
  skipped,    \* history: messages a resumed sync has passed over without asking for them
  sync,       \* the jobs, with the locals of the handler
  shown,      \* what the replica shows
  failures, exits, stalls

mailVars == <<mail, saved, processed, dropped, skipped>>
tables == <<ckpt, ops, cursor>>
bounds == <<failures, exits, stalls>>
syncVars == <<mail, ckpt, ops, cursor, saved, processed, dropped, skipped, sync, shown,
              failures, exits, stalls>>

Messages == 1..MaxMail
Unheld == <<"nobody", "nobody">>
Owners == (Pids \X (SyncJobs \cup {"server"})) \cup {Unheld}
Modes == {"INITIAL_SYNC", "INCREMENTAL_SYNC"}

Checkpoint == [status : {"absent", "idle", "syncing"}, owner : Owners,
               lease : {"null", "live", "past"}, token : 0..MaxMail, mode : Modes,
               version : Nat]

Operation == [op : {"running", "completed", "failed"},
              batch : {"pending", "processing", "completed"},
              history : 0..MaxMail]                  \* historyId of the batch

SyncSteps == {"decide", "target", "history", "profile", "plan", "list", "save", "process",
              "advance", "cas"}

SyncJob == [at : SyncSteps \cup {"waiting", "claimed", "complete", "compat", "finish", "release",
                                 "publish", "fail", "catch", "blame", "done", "failed"},
            made : 0..SyncAttempts, pid : Pids \cup {"none"},
            met : BOOLEAN,                           \* the claim found a checkpoint
            fatal : BOOLEAN,                         \* the error caught is not retryable
            own : Nat, op : Nat, batch : Nat,        \* indices of ops
            how : {"none", "list", "resume", "delta"},
            token : 0..MaxMail, page : SUBSET Messages,
            start : 0..MaxMail,                      \* the history id to store at the end
            version : Nat, holder : Owners]          \* as advanceCheckpoint has read them

SyncTypeOK ==
  /\ mail \in 0..MaxMail
  /\ ckpt \in Checkpoint
  /\ ops \in Seq(Operation)
  /\ cursor \in 0..MaxMail
  /\ saved \in SUBSET (1..mail) /\ processed \in SUBSET saved /\ dropped \in SUBSET (1..mail)
  /\ skipped \in SUBSET (1..mail)
  /\ sync \in [SyncJobs -> SyncJob]
  /\ \A j \in SyncJobs : {sync[j].own, sync[j].op, sync[j].batch} \subseteq 0..Len(ops)
  /\ shown \in [ckpt : Checkpoint, ops : Seq(Operation), cursor : 0..MaxMail]
  /\ failures \in 0..MaxFailures /\ exits \in 0..MaxExits /\ stalls \in 0..MaxStalls

Fresh(made) ==
  [at |-> "waiting", made |-> made, pid |-> "none", met |-> FALSE, fatal |-> FALSE,
   own |-> 0, op |-> 0, batch |-> 0, how |-> "none", token |-> 0, page |-> {}, start |-> 0,
   version |-> 0, holder |-> Unheld]

SyncInit ==
  /\ mail = Mailbox /\ saved = {} /\ processed = {} /\ dropped = {} /\ skipped = {}
  /\ ckpt = [status |-> "absent", owner |-> Unheld, lease |-> "null", token |-> 0,
             mode |-> "INCREMENTAL_SYNC", version |-> 0]
  /\ ops = <<>> /\ cursor = 0
  /\ sync = [j \in SyncJobs |-> Fresh(0)]
  /\ shown = [ckpt |-> ckpt, ops |-> ops, cursor |-> cursor]
  /\ failures = 0 /\ exits = 0 /\ stalls = 0

Read == IF ReadsLag THEN shown ELSE [ckpt |-> ckpt, ops |-> ops, cursor |-> cursor]

Goes(j, step) == sync' = [sync EXCEPT ![j].at = step]
Becomes(j, r) == sync' = [sync EXCEPT ![j] = r]

Faulty == failures < MaxFailures /\ failures' = failures + 1 /\ UNCHANGED <<exits, stalls>>

-----------------------------------------------------------------------------
(* DurableCheckpointService.                                               *)

\* claimCheckpoint: a row that is not syncing, an expired lease, or the worker's own.
Grantable(w) == ckpt.status # "syncing" \/ ckpt.lease = "past" \/ ckpt.owner = w

\* initializeSyncOp's transaction, once the claim is granted.
OpenOp(w, mode, token, history) ==
  /\ ops' = Append(ops, [op |-> "running", batch |-> "pending", history |-> history])
  /\ ckpt' = [status |-> "syncing", owner |-> w, lease |-> "live", token |-> token,
              mode |-> mode, version |-> ckpt.version + 1]

\* Mutant: idle after every page.
AdvancedToIdle(token, owner) ==
  [ckpt EXCEPT !.token = token, !.status = "idle", !.owner = Unheld, !.lease = "null",
               !.version = @ + 1]

\* advanceCheckpoint's update: between pages it writes back the owner it has read.
Advanced(token, owner) ==
  IF token # 0
  THEN [ckpt EXCEPT !.token = token, !.owner = owner, !.lease = "live", !.version = @ + 1,
                    !.status = "syncing"]
  ELSE [ckpt EXCEPT !.token = 0, !.status = "idle", !.owner = Unheld, !.lease = "null",
                    !.version = @ + 1]

\* releaseLease leaves the status alone.
Released(w) == IF ckpt.owner = w THEN [ckpt EXCEPT !.owner = Unheld, !.lease = "null"] ELSE ckpt

\* loadDurableState: the latest batch still open, and the latest operation still running.
Latest(seq, P) == Max({0} \cup {i \in 1..Len(seq) : seq[i] \in P})
Open == {o \in Operation : o.batch # "completed"}
Running == {o \in Operation : o.op = "running"}

\* determineResumeStrategy; nothing sets the status to failed while emails are processed
\* synchronously.
Resumable(r) == r.ckpt.status = "syncing" /\ Latest(r.ops, Open) # 0

Worker(j) == <<sync[j].pid, j>>
Server(j) == <<sync[j].pid, "server">>

-----------------------------------------------------------------------------
(* processGmailSyncJob up to the sync proper.                              *)

\* Mutant: the attempt does not count.
ThrownUncounted(made) == Fresh(made - 1)

\* What BullMQ does with a job that has thrown.
Thrown(made) == IF made = SyncAttempts THEN [Fresh(made) EXCEPT !.at = "failed"] ELSE Fresh(made)

\* The first claim; when it is refused the job throws before the try block.  The checks of
\* the connection and of the token come first and may throw as well.
ClaimFirst(j) ==
  /\ sync[j].at = "waiting"
  /\ \E p \in Pids :
       LET started == [sync[j] EXCEPT !.made = @ + 1, !.pid = p, !.met = ckpt.status # "absent"]
           thrown == Thrown(started.made)
       IN  \/ Grantable(<<p, j>>)
              /\ Becomes(j, [started EXCEPT !.at = "claimed"]) /\ UNCHANGED bounds
           \/ ~Grantable(<<p, j>>) /\ Becomes(j, thrown) /\ UNCHANGED bounds
           \/ Faulty /\ Becomes(j, thrown)
  /\ UNCHANGED <<mailVars, tables, shown>>

\* The transaction claims again.  The payload carries no page token and no history id.
Initialize(j) ==
  LET initial == j \in Initial
  IN  /\ sync[j].at = "claimed"
      /\ IF Grantable(Worker(j))
         THEN /\ OpenOp(Worker(j), IF initial THEN "INITIAL_SYNC" ELSE "INCREMENTAL_SYNC", 0, 0)
              /\ Becomes(j, [sync[j] EXCEPT !.at = IF initial THEN "profile" ELSE "decide",
                                            !.own = Len(ops) + 1])
         ELSE Goes(j, "catch") /\ UNCHANGED <<ckpt, ops>>
      /\ UNCHANGED <<mailVars, cursor, shown, bounds>>

\* initializeSyncOp as the sync engine calls it, under the identity of the server.
InitializeAsServer(j, how, mode, token, history, next) ==
  IF Grantable(Server(j))
  THEN /\ OpenOp(Server(j), mode, token, history)
       /\ Becomes(j, [sync[j] EXCEPT !.at = next, !.how = how, !.token = token,
                                     !.op = Len(ops) + 1, !.batch = Len(ops) + 1])
  ELSE Goes(j, "catch") /\ UNCHANGED <<ckpt, ops>>

-----------------------------------------------------------------------------
(* syncInitialMailbox and syncNewEmails.                                   *)

Missing(ms) == ms \ (saved \cup dropped)

Profile(j) ==
  /\ sync[j].at = "profile"
  /\ Becomes(j, [sync[j] EXCEPT !.at = "plan", !.start = mail])
  /\ UNCHANGED <<mailVars, tables, shown, bounds>>

\* Resume an initial sync from the page token the checkpoint shows, or start one.  A resumed
\* listing passes over what has arrived since the sync it resumes began.
Plan(j) ==
  LET resumes == Resumable(Read) /\ Read.ckpt.mode = "INITIAL_SYNC"
      token == IF resumes THEN Read.ckpt.token ELSE 0
      op == Latest(Read.ops, Running)
  IN  /\ sync[j].at = "plan"
      /\ IF resumes /\ op # 0
         THEN /\ Becomes(j, [sync[j] EXCEPT !.at = "list", !.how = "list", !.token = token,
                                            !.op = op, !.batch = Latest(Read.ops, Open)])
              /\ UNCHANGED <<ckpt, ops>>
         ELSE InitializeAsServer(j, "list", "INITIAL_SYNC", token, sync[j].start, "list")
      /\ skipped' = IF token # 0 /\ sync'[j].at = "list"
                    THEN skipped \cup Missing({m \in (Mailbox + 1)..sync[j].start : m >= token})
                    ELSE skipped
      /\ UNCHANGED <<mail, saved, processed, dropped, cursor, shown, bounds>>

\* An incremental job resumes an open batch, falls back to an initial sync when no cursor is
\* stored, or reads on from the stored cursor.
Decide(j) ==
  /\ sync[j].at = "decide"
  /\ Becomes(j,
       IF Resumable(Read)
       THEN [sync[j] EXCEPT !.at = "history", !.how = "resume", !.batch = Latest(Read.ops, Open)]
       ELSE IF Read.cursor = 0 THEN [sync[j] EXCEPT !.at = "profile"]
       ELSE [sync[j] EXCEPT !.at = "target", !.start = Read.cursor])
  /\ UNCHANGED <<mailVars, tables, shown, bounds>>

Target(j) ==
  /\ sync[j].at = "target"
  /\ IF mail = sync[j].start
     THEN Goes(j, "finish") /\ UNCHANGED <<ckpt, ops>>
     ELSE InitializeAsServer(j, "delta", "INCREMENTAL_SYNC", sync[j].start, mail, "history")
  /\ UNCHANGED <<mailVars, cursor, shown, bounds>>

\* The messages of a fetched page less those the fetcher gives up.
Fetched(j, refs, r) ==
  \/ Becomes(j, [r EXCEPT !.page = refs]) /\ UNCHANGED <<dropped, bounds>>
  \/ \E m \in refs : /\ Faulty
                     /\ dropped' = dropped \cup {m}
                     /\ Becomes(j, [r EXCEPT !.page = refs \ {m}])

ListPage(j) ==
  LET listed == {m \in 1..mail : sync[j].token = 0 \/ m < sync[j].token}
      refs == {m \in listed : Cardinality({n \in listed : n > m}) < PageSize}
      rest == listed \ refs
  IN  /\ sync[j].at = "list"
      /\ IF refs = {}
         THEN Goes(j, "complete") /\ UNCHANGED <<dropped, bounds>>
         ELSE Fetched(j, refs, [sync[j] EXCEPT !.at = "save",
                                               !.token = IF rest = {} THEN 0 ELSE Min(refs)])
      /\ UNCHANGED <<mail, saved, processed, skipped, tables, shown>>

\* getHistory.  resumeInterruptedBatch reads on from the history id of the batch and takes one
\* page: what was there before the one, or comes after the other, it passes over.
\* syncNewEmails reads on from the cursor, to the last page.
History(j) ==
  LET since == IF sync[j].how = "delta" THEN sync[j].start ELSE ops[sync[j].batch].history
      added == {m \in 1..mail : m > since}
      refs == IF sync[j].how = "delta"
              THEN added ELSE {m \in added : Cardinality({n \in added : n < m}) < HistorySize}
  IN  /\ sync[j].at = "history"
      /\ IF refs = {} /\ sync[j].how = "resume"
         THEN Goes(j, "finish") /\ UNCHANGED <<dropped, bounds>>
         ELSE Fetched(j, refs, [sync[j] EXCEPT !.at = "save", !.token = 0, !.start = mail])
      /\ skipped' = IF refs # {} /\ sync[j].how = "resume"
                    THEN skipped \cup Missing(1..mail \ refs) ELSE skipped
      /\ UNCHANGED <<mail, saved, processed, tables, shown>>

-----------------------------------------------------------------------------
(* processAndSaveBatch, a message at a time.                               *)

Current(j) == Max(sync[j].page)

\* trackEmailJob reopens the batch.
Tracked(j) == ops' = [ops EXCEPT ![sync[j].batch].batch = "processing"]

\* The upsert.  Only a message that had no row goes on to be processed; a failed upsert is
\* swallowed.
Save(j) ==
  LET m == Current(j)
      without == [sync[j] EXCEPT !.page = @ \ {m}]
  IN  /\ sync[j].at = "save" /\ sync[j].page # {}
      /\ \/ /\ m \in saved
            /\ Becomes(j, without) /\ Tracked(j)
            /\ UNCHANGED <<saved, dropped, bounds>>
         \/ /\ m \notin saved
            /\ saved' = saved \cup {m}
            /\ Goes(j, "process")
            /\ UNCHANGED <<ops, dropped, bounds>>
         \/ /\ Faulty
            /\ dropped' = dropped \cup {m}
            /\ Becomes(j, without)
            /\ UNCHANGED <<saved, ops>>
      /\ UNCHANGED <<mail, processed, skipped, ckpt, cursor, shown>>

\* Classification and tracking, whose errors are swallowed, then trackEmailJob.
Process(j) ==
  LET m == Current(j)
  IN  /\ sync[j].at = "process"
      /\ \/ processed' = processed \cup {m} /\ UNCHANGED <<dropped, bounds>>
         \/ Faulty /\ dropped' = dropped \cup {m} /\ UNCHANGED processed
      /\ Becomes(j, [sync[j] EXCEPT !.at = "save", !.page = @ \ {m}])
      /\ Tracked(j)
      /\ UNCHANGED <<mail, saved, skipped, ckpt, cursor, shown>>

BatchSaved(j) ==
  /\ sync[j].at = "save" /\ sync[j].page = {}
  /\ Goes(j, "advance")
  /\ UNCHANGED <<mailVars, tables, shown, bounds>>

-----------------------------------------------------------------------------
(* The end of a sync.                                                      *)

\* advanceCheckpoint reads the row ...
AdvanceRead(j) ==
  /\ sync[j].at = "advance"
  /\ Becomes(j, [sync[j] EXCEPT !.at = "cas", !.version = ckpt.version, !.holder = ckpt.owner])
  /\ UNCHANGED <<mailVars, tables, shown, bounds>>

\* Mutant: one page only.
AfterOnePage(j) == IF sync[j].how # "list" THEN "compat" ELSE "complete"

AfterAdvance(j) ==
  IF sync[j].how # "list" THEN "compat" ELSE IF sync[j].token # 0 THEN "list" ELSE "complete"

\* ... and updates it if it still has the version; nothing asks whose lease it is.
AdvanceWrite(j) ==
  /\ sync[j].at = "cas"
  /\ IF ckpt.version = sync[j].version
     THEN /\ ckpt' = Advanced(sync[j].token, sync[j].holder)
          /\ ops' = [ops EXCEPT ![sync[j].batch].batch = "completed"]
          /\ Goes(j, AfterAdvance(j))
     ELSE /\ Goes(j, IF sync[j].how = "resume" THEN "catch" ELSE "fail")
          /\ UNCHANGED <<ckpt, ops>>
  /\ UNCHANGED <<mailVars, cursor, shown, bounds>>

\* completeSyncOp of the engine; syncNewEmails calls it after the cursor is stored.
CompleteOp(j) ==
  /\ sync[j].at = "complete"
  /\ ops' = [ops EXCEPT ![sync[j].op].op = "completed"]
  /\ Goes(j, IF sync[j].how = "list" THEN "compat" ELSE "finish")
  /\ UNCHANGED <<mailVars, ckpt, cursor, shown, bounds>>

\* updateBackwardCompatState.
StoreCursor(j) ==
  /\ sync[j].at = "compat"
  /\ cursor' = sync[j].start
  /\ Goes(j, IF sync[j].how = "delta" THEN "complete" ELSE "finish")
  /\ UNCHANGED <<mailVars, ckpt, ops, shown, bounds>>

\* The worker completes its own operation, ...
CompleteOwn(j) ==
  /\ sync[j].at = "finish"
  /\ ops' = [ops EXCEPT ![sync[j].own].op = "completed"]
  /\ Goes(j, "release")
  /\ UNCHANGED <<mailVars, ckpt, cursor, shown, bounds>>

\* ... gives the lease back ...
Release(j) ==
  /\ sync[j].at = "release"
  /\ ckpt' = Released(Worker(j))
  /\ Goes(j, "publish")
  /\ UNCHANGED <<mailVars, ops, cursor, shown, bounds>>

\* ... and publishes GMAIL_SYNC_COMPLETED.
PublishCompleted(j) ==
  /\ sync[j].at = "publish"
  /\ Becomes(j, [Fresh(sync[j].made) EXCEPT !.at = "done"])
  /\ UNCHANGED <<mailVars, tables, shown, bounds>>

\* The engine's catch block: failSyncOp, then on to the worker's.
FailOp(j) ==
  /\ sync[j].at = "fail"
  /\ ops' = [ops EXCEPT ![sync[j].op].op = "failed"]
  /\ Goes(j, "catch")
  /\ UNCHANGED <<mailVars, ckpt, cursor, shown, bounds>>

\* Gmail has expired the history id of the cursor: the same block, then an initial sync.
HistoryExpired(j) ==
  /\ sync[j].at = "history" /\ sync[j].how = "delta"
  /\ ops' = [ops EXCEPT ![sync[j].op].op = "failed"]
  /\ Goes(j, "profile")
  /\ UNCHANGED <<mailVars, ckpt, cursor, shown, bounds>>

\* The worker's catch block releases the lease, unless that fails too, and rethrows.
\* MAX_ATTEMPTS is above the attempts of the queue: no error counts as the last one here.
Catch(j) ==
  /\ sync[j].at = "catch"
  /\ \/ /\ ckpt' = Released(Worker(j)) /\ UNCHANGED bounds
        /\ IF sync[j].fatal THEN Goes(j, "blame") ELSE Becomes(j, Thrown(sync[j].made))
     \/ Faulty /\ UNCHANGED ckpt /\ Becomes(j, Thrown(sync[j].made))
  /\ UNCHANGED <<mailVars, ops, cursor, shown>>

\* After an error that is not retryable it fails an operation: under the id of the checkpoint
\* that the claim has met, which is none, or the latest one running on the replica, whosever
\* it is.  With or without GMAIL_SYNC_FAILED the error is thrown, and the queue retries.
Blame(j) ==
  LET op == Latest(Read.ops, Running)
  IN  /\ sync[j].at = "blame"
      /\ ops' = IF sync[j].met \/ op = 0 THEN ops ELSE [ops EXCEPT ![op].op = "failed"]
      /\ Becomes(j, Thrown(sync[j].made))
      /\ UNCHANGED <<mailVars, ckpt, cursor, shown, bounds>>

\* A call to Gmail or to the database throws: classifyFailure tells an error that a retry
\* does not mend by its message.
Throws(j) ==
  /\ Faulty
  /\ \E fatal \in BOOLEAN, to \in {"fail", "catch"} :
       /\ \/ /\ sync[j].at \in {"list", "history", "save", "advance", "cas", "complete", "compat"}
             /\ to = IF sync[j].how = "resume" THEN "catch" ELSE "fail"
          \/ /\ sync[j].at \in {"claimed", "decide", "target", "profile", "plan", "finish",
                                "release", "publish", "fail"}
             /\ to = "catch"
       /\ Becomes(j, [sync[j] EXCEPT !.at = to, !.fatal = fatal])
  /\ UNCHANGED <<mailVars, tables, shown>>

SyncStep(j) ==
  \/ ClaimFirst(j) \/ Initialize(j) \/ Decide(j) \/ Target(j) \/ Profile(j) \/ Plan(j)
  \/ ListPage(j) \/ History(j) \/ Save(j) \/ Process(j) \/ BatchSaved(j)
  \/ AdvanceRead(j) \/ AdvanceWrite(j) \/ CompleteOp(j) \/ StoreCursor(j)
  \/ CompleteOwn(j) \/ Release(j) \/ PublishCompleted(j) \/ FailOp(j) \/ HistoryExpired(j)
  \/ Catch(j) \/ Blame(j)

-----------------------------------------------------------------------------
(* The environment.                                                        *)

Busy(j) == sync[j].at \notin {"waiting", "done", "failed"}

\* The process of a job exits; BullMQ hands the stalled job to another worker, without
\* counting an attempt more than the one it counts at the start.
Exit(j) ==
  /\ exits < MaxExits /\ Busy(j)
  /\ exits' = exits + 1
  /\ Becomes(j, Fresh(sync[j].made - 1))
  /\ UNCHANGED <<mailVars, tables, shown, failures, stalls>>

\* The lease runs out: its owner is gone, or its refreshes have failed for five minutes.
Held == \E j \in SyncJobs : Busy(j) /\ ckpt.owner \in {Worker(j), Server(j)}

Expire ==
  /\ ckpt.lease = "live"
  /\ IF Held THEN stalls < MaxStalls /\ stalls' = stalls + 1 ELSE UNCHANGED stalls
  /\ ckpt' = [ckpt EXCEPT !.lease = "past"]
  /\ UNCHANGED <<mailVars, ops, cursor, sync, shown, failures, exits>>

\* refreshLease, every minute while the try block runs.
Refresh(j) ==
  /\ Busy(j) /\ ckpt.owner = Worker(j) /\ ckpt.status = "syncing"
  /\ ckpt.lease = "past"
  /\ ckpt' = [ckpt EXCEPT !.lease = "live"]
  /\ UNCHANGED <<mailVars, ops, cursor, sync, shown, bounds>>

Arrive ==
  /\ mail < MaxMail
  /\ mail' = mail + 1
  /\ UNCHANGED <<saved, processed, dropped, skipped, tables, sync, shown, bounds>>

SyncReplicate ==
  /\ ReadsLag
  /\ shown # [ckpt |-> ckpt, ops |-> ops, cursor |-> cursor]
  /\ shown' = [ckpt |-> ckpt, ops |-> ops, cursor |-> cursor]
  /\ UNCHANGED <<mailVars, tables, sync, bounds>>

SyncNext ==
  \/ \E j \in SyncJobs : SyncStep(j) \/ Throws(j) \/ Exit(j) \/ Refresh(j)
  \/ Expire \/ Arrive \/ SyncReplicate

SyncSpec == SyncInit /\ [][SyncNext]_syncVars

\* The queue runs its jobs, the clock and the replication go on.
SyncFairness ==
  /\ \A j \in SyncJobs : WF_syncVars(SyncStep(j))
  /\ WF_syncVars(Expire /\ ~Held)
  /\ WF_syncVars(SyncReplicate)

-----------------------------------------------------------------------------
(* Properties.                                                             *)

InSync(j) == sync[j].at \in SyncSteps

\* As long as no lease has run out under a live worker, one job at a time is between opening
\* its operation and closing the checkpoint, whatever exits, retries and failed calls there
\* are (claimCheckpoint, initializeSyncOp, advanceCheckpoint).
OneSyncer == stalls = 0 => \A j, k \in SyncJobs : InSync(j) /\ InSync(k) => j = k

\* Only the two resumptions let the stored history id run ahead of the messages: every one
\* up to it is saved, was given up after a failed call, or lay outside the page that a resumed
\* batch asks for, or arrived while a listing was interrupted that is then resumed at an older
\* page.  Whole listings, deltas, retries, exits, two syncers at once, lagging reads and mail
\* that arrives meanwhile lose none (syncInitialMailbox, syncNewEmails,
\* updateBackwardCompatState).
OnlyResumesSkip == \A m \in 1..cursor : m \in saved \cup dropped \cup skipped

\* The checkpoint is in one hand, and the cursor says no more than the syncs have done.
SyncHolds == OneSyncer /\ OnlyResumesSkip

\* An initial sync that reports completion has saved all that was in the mailbox at the
\* start, whichever attempts, resumed page tokens and lagging reads it is made of
\* (syncInitialMailbox, determineResumeStrategy).
DoneMeansSaved ==
  \A j \in Initial : sync[j].at = "done" => (1..Mailbox) \subseteq saved \cup dropped

\* Every job comes to an end: its retries are bounded, and the lease that a failed attempt
\* has released refuses them but does not block them (releaseLease, claimCheckpoint).
JobsEnd == <>[](\A j \in SyncJobs : sync[j].at \in {"done", "failed"})

-----------------------------------------------------------------------------
(* What the comments say, and the code does not do.                        *)

\* releaseLease: "Release a checkpoint lease when sync completes or fails": once nobody holds
\* the checkpoint, the retry or the next job can claim it.
ReleasedIsClaimable ==
  \A j \in SyncJobs, p \in Pids : ckpt.owner = Unheld => Grantable(<<p, j>>)

\* syncNewEmails: "Never advance cursor before data is durably stored".  But an incremental job
\* always finds the batch that its worker has just opened, and resumes it: it takes one page
\* of the history from 0 and stores the history id of the whole.
CursorCovers == \A m \in 1..cursor : m \in saved \cup dropped
=============================================================================
