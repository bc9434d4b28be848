----------------------------- MODULE EventOutbox -----------------------------
(***************************************************************************)
(* The transactional outbox of src/services/event: business transactions   *)
(* publish events (event-dispatcher.service.ts), a fast path and the       *)
(* OutboxDispatcher replicas hand them to BullMQ (outbox-dispatcher        *)
(* .service.ts), and workers run the jobs under withEventLifecycle         *)
(* (event-worker.ts).  All of them write the same row of the events table, *)
(* none of them checks who wrote it last.                                  *)
(*                                                                         *)
(* A Dispatcher is one dispatchBatch() in flight: of another replica, or   *)
(* of the same process when a tick of setInterval starts before the        *)
(* previous batch has ended.                                               *)
(***************************************************************************)
EXTENDS Naturals, FiniteSets

CONSTANTS
  Events,           \* events the business transactions may publish
  Dispatchers,      \* dispatchBatch() calls that may be in flight at once
  Jobs,             \* slots for jobs in the queues: a bound
  None,             \* SQL NULL
  MaxRetries,       \* OutboxOptions.maxRetries
  Attempts,         \* attempts of DEFAULT_JOB_OPTIONS
  MaxStalled,       \* BullMQ's maxStalledCount
  Mapped,           \* events whose type has a queue in the two switches
  JobKey,           \* the deterministic jobId of an event's job, None if it has none
  StatusColumn,     \* values the column events.status accepts
  ModelFieldNames,  \* do rows of $queryRaw carry the model's names or the columns'?
  ReplicaLags,      \* is dbRouter.read() an asynchronous replica or the master?
  Outages,          \* do the queue and the database refuse calls whose error is caught?
  TimelyDispatch,   \* does a live batch always end within LEASE_TTL_MS?
  MaxRequeues,      \* calls of requeueDlqEvent: a bound
  MaxFaults         \* process exits and lost connections: a bound

ASSUME OutboxAssumption ==
  /\ MaxRetries \in Nat \ {0}
  /\ Attempts \in Nat \ {0}
  /\ MaxStalled \in Nat
  /\ MaxRequeues \in Nat
  /\ MaxFaults \in Nat
  /\ None \notin Events \cup Dispatchers \cup Nat
  /\ Mapped \subseteq Events
  /\ {"pending", "processing", "failed", "dlq"} \subseteq StatusColumn
  /\ {ModelFieldNames, ReplicaLags, Outages, TimelyDispatch} \subseteq BOOLEAN

VARIABLES
  ev,        \* the events table
  rep,       \* the retry_count column as the read replica shows it, None before the row
  pub,       \* where the publisher of an event is in publishFromEvent
  disp,      \* the batch each dispatcher is working on
  job,       \* the BullMQ jobs
  requeues,  \* calls of requeueDlqEvent so far
  faults,    \* faults so far
  fails      \* history: failed dispatches since the event was last pending, saturating

vars == <<ev, rep, pub, disp, job, requeues, faults, fails>>

Status == {"absent", "pending", "processing", "processed", "failed", "dlq"}

NoRow == [status |-> "absent", retries |-> 0, lease |-> None, expired |-> FALSE, due |-> TRUE]

\* A dispatcher between two events of its batch, or between two batches.
Resting(batch) == [todo |-> batch, cur |-> None, at |-> "next", seen |-> 0]

Free == [ev |-> None, at |-> "free", made |-> 0, stalled |-> 0]

Row == [status : Status, retries : Nat, lease : Dispatchers \cup {None},
        expired : BOOLEAN, due : BOOLEAN]

Batch == [todo : SUBSET Events, cur : Events \cup {None},
          at : {"next", "mark", "failed", "write"}, seen : Nat]

Job == [ev : Events \cup {None},
        at : {"free", "waiting", "run", "mark", "report", "completed", "failed"},
        made : 0..Attempts, stalled : 0..MaxStalled]

TypeOK ==
  /\ ev \in [Events -> Row]
  /\ rep \in [Events -> Nat \cup {None}]
  /\ pub \in [Events -> {"idle", "enqueue", "mark", "done"}]
  /\ disp \in [Dispatchers -> Batch]
  /\ \A d \in Dispatchers : disp[d].at # "next" => disp[d].cur \in disp[d].todo
  /\ job \in [Jobs -> Job]
  /\ \A j \in Jobs : (job[j].at = "free") <=> (job[j].ev = None)
  /\ requeues \in 0..MaxRequeues
  /\ faults \in Nat
  /\ fails \in [Events -> 0..(MaxRetries + 1)]

Init ==
  /\ ev = [e \in Events |-> NoRow]
  /\ rep = [e \in Events |-> None]
  /\ pub = [e \in Events |-> "idle"]
  /\ disp = [d \in Dispatchers |-> Resting({})]
  /\ job = [j \in Jobs |-> Free]
  /\ requeues = 0
  /\ faults = 0
  /\ fails = [e \in Events |-> 0]

-----------------------------------------------------------------------------
(* Publishing, and the fast path after the business transaction.           *)

\* publishInTransaction: the event commits with the business write.
Publish(e) ==
  /\ ev[e].status = "absent"
  /\ ev' = [ev EXCEPT ![e].status = "pending"]
  /\ pub' = [pub EXCEPT ![e] = "enqueue"]
  /\ UNCHANGED <<rep, disp, job, requeues, faults, fails>>

NewJob(e) == [ev |-> e, at |-> "waiting", made |-> 0, stalled |-> 0]

\* Queue.add: BullMQ keeps the job it has when the new one has the same jobId.
JobsOf(e) == {j \in Jobs : job[j].ev = e}

SameJobId(e) ==
  /\ JobKey[e] # None
  /\ \E j \in Jobs : job[j].ev # None /\ JobKey[job[j].ev] = JobKey[e]

AddJob(e) ==
  \/ SameJobId(e) /\ UNCHANGED job
  \/ /\ ~SameJobId(e)
     /\ \E j \in Jobs : /\ job[j].at = "free"
                        /\ job' = [job EXCEPT ![j] = NewJob(e)]

\* Mutant: the event is marked although Queue.add never happened.
FastEnqueueForgets(e) ==
  /\ pub[e] = "enqueue"
  /\ pub' = [pub EXCEPT ![e] = "mark"]
  /\ UNCHANGED <<ev, rep, disp, job, requeues, faults, fails>>

\* dispatchToQueue: a type without a queue only logs.
FastEnqueue(e) ==
  /\ pub[e] = "enqueue"
  /\ IF e \in Mapped THEN AddJob(e) ELSE UNCHANGED job
  /\ pub' = [pub EXCEPT ![e] = "mark"]
  /\ UNCHANGED <<ev, rep, disp, requeues, faults, fails>>

FastMarkProcessed(e) ==
  /\ pub[e] = "mark"
  /\ "processed" \in StatusColumn
  /\ ev' = [ev EXCEPT ![e].status = "processed"]
  /\ pub' = [pub EXCEPT ![e] = "done"]
  /\ UNCHANGED <<rep, disp, job, requeues, faults, fails>>

\* The queue or the database refuses and the error is only logged, or the process exits.
FastAbandon(e) ==
  /\ pub[e] \in {"enqueue", "mark"}
  /\ pub' = [pub EXCEPT ![e] = "done"]
  /\ UNCHANGED <<ev, rep, disp, job, requeues, faults, fails>>

-----------------------------------------------------------------------------
(* The OutboxDispatcher.                                                   *)

\* Mutants of the WHERE clause.
ClaimableDespiteLease(e) ==
  ev[e].status \in {"pending", "failed"} /\ ev[e].due /\ ev[e].retries < MaxRetries

ClaimableOnce(e) == ev[e].status = "pending" /\ ev[e].retries < MaxRetries

\* The WHERE clause of claimBatch.  A processing row is never claimable.
Claimable(e) ==
  /\ \/ ev[e].status = "pending"
     \/ /\ ev[e].status = "failed"
        /\ ev[e].due
        /\ ev[e].lease = None \/ ev[e].expired
  /\ ev[e].retries < MaxRetries

\* SKIP LOCKED and LIMIT may leave out any of the claimable rows.
Claim(d, batch) ==
  /\ disp[d].todo = {}
  /\ batch # {}
  /\ \A e \in batch : Claimable(e)
  /\ ev' = [e \in Events |->
              IF e \in batch
              THEN [ev[e] EXCEPT !.status = "processing", !.lease = d, !.expired = FALSE]
              ELSE ev[e]]
  /\ disp' = [disp EXCEPT ![d] = Resting(batch)]
  /\ UNCHANGED <<rep, pub, job, requeues, faults, fails>>

Take(d, e, at) ==
  /\ disp[d].at = "next"
  /\ e \in disp[d].todo
  /\ disp' = [disp EXCEPT ![d] = [@ EXCEPT !.cur = e, !.at = at]]
  /\ UNCHANGED <<ev, rep, pub, requeues, faults, fails>>

\* dispatchEvent, when the row has an eventType the switch knows.
Submit(d, e) ==
  /\ ModelFieldNames
  /\ e \in Mapped
  /\ AddJob(e)
  /\ Take(d, e, "mark")

\* dispatchEvent, default branch.
SkipUnmapped(d, e) ==
  /\ ModelFieldNames
  /\ e \notin Mapped
  /\ UNCHANGED job
  /\ Take(d, e, "mark")

\* The queue refuses the job; or the row has only column names, so that eventType is
\* undefined, the default branch runs, and markProcessed(id, undefined) throws before it
\* opens its transaction.
SubmitFails(d, e) ==
  /\ ~ModelFieldNames \/ (Outages /\ e \in Mapped)
  /\ UNCHANGED job
  /\ Take(d, e, "failed")

\* The event leaves the batch.
Finish(d) == disp' = [disp EXCEPT ![d] = Resting(@.todo \ {@.cur})]

MarkProcessed(d) ==
  /\ disp[d].at = "mark"
  /\ "processed" \in StatusColumn
  /\ ev' = [ev EXCEPT ![disp[d].cur] =
              [@ EXCEPT !.status = "processed", !.lease = None, !.expired = FALSE]]
  /\ Finish(d)
  /\ UNCHANGED <<rep, pub, job, requeues, faults, fails>>

\* The update throws inside the try block of dispatchEvent.
MarkProcessedFails(d) ==
  /\ disp[d].at = "mark"
  /\ Outages \/ "processed" \notin StatusColumn
  /\ disp' = [disp EXCEPT ![d].at = "failed"]
  /\ UNCHANGED <<ev, rep, pub, job, requeues, faults, fails>>

\* dbRouter.read().event.findUnique
Readable(e) == IF ReplicaLags THEN rep[e] ELSE ev[e].retries

ReadRetryCount(d) ==
  /\ disp[d].at = "failed"
  /\ Readable(disp[d].cur) # None
  /\ disp' = [disp EXCEPT ![d] = [@ EXCEPT !.at = "write", !.seen = Readable(disp[d].cur)]]
  /\ UNCHANGED <<ev, rep, pub, job, requeues, faults, fails>>

ShouldDlqOneEarly(newRetryCount) == newRetryCount + 1 >= MaxRetries

ShouldDlq(newRetryCount) == newRetryCount >= MaxRetries

MarkFailed(d) ==
  LET e == disp[d].cur
      newRetryCount == disp[d].seen + 1
      shouldDlq == ShouldDlq(newRetryCount)
  IN  /\ disp[d].at = "write"
      /\ ev' = [ev EXCEPT ![e] = [status |-> IF shouldDlq THEN "dlq" ELSE "failed",
                                  retries |-> newRetryCount,
                                  lease |-> None, expired |-> FALSE, due |-> shouldDlq]]
      /\ fails' = [fails EXCEPT ![e] = IF @ > MaxRetries THEN @ ELSE @ + 1]
      /\ Finish(d)
      /\ UNCHANGED <<rep, pub, job, requeues, faults>>

\* The rest of the batch is lost: the process exits (stop() does not wait for the batch),
\* or markFailed throws, as it does when the replica does not show the row yet and
\* withRlsTransaction gets an empty user id.
DropBatch(d) ==
  /\ disp[d].todo # {}
  /\ \/ faults < MaxFaults
     \/ disp[d].at = "failed" /\ Readable(disp[d].cur) = None
  /\ disp' = [disp EXCEPT ![d] = Resting({})]
  /\ faults' = faults + 1
  /\ UNCHANGED <<ev, rep, pub, job, requeues, fails>>

\* requeueDlqEvent: no check that the event is in the DLQ.
Requeue(e) ==
  /\ requeues < MaxRequeues
  /\ ev[e].status # "absent"
  /\ Readable(e) # None
  /\ ev' = [ev EXCEPT ![e] = [NoRow EXCEPT !.status = "pending"]]
  /\ requeues' = requeues + 1
  /\ fails' = [fails EXCEPT ![e] = 0]
  /\ UNCHANGED <<rep, pub, disp, job, faults>>

-----------------------------------------------------------------------------
(* Time and replication.                                                   *)

LeaseExpires(e) ==
  /\ ev[e].lease # None
  /\ ~ev[e].expired
  /\ TimelyDispatch => \A d \in Dispatchers : e \notin disp[d].todo
  /\ ev' = [ev EXCEPT ![e].expired = TRUE]
  /\ UNCHANGED <<rep, pub, disp, job, requeues, faults, fails>>

BackoffElapses(e) ==
  /\ ~ev[e].due
  /\ ev' = [ev EXCEPT ![e].due = TRUE]
  /\ UNCHANGED <<rep, pub, disp, job, requeues, faults, fails>>

Replicate(e) ==
  /\ ReplicaLags
  /\ ev[e].status # "absent"
  /\ rep[e] # ev[e].retries
  /\ rep' = [rep EXCEPT ![e] = ev[e].retries]
  /\ UNCHANGED <<ev, pub, disp, job, requeues, faults, fails>>

-----------------------------------------------------------------------------
(* Workers: BullMQ runs a job through withEventLifecycle.                  *)

\* A retried attempt first increments retry_count.
WorkerStart(j) ==
  /\ job[j].at = "waiting"
  /\ job' = [job EXCEPT ![j].at = "run"]
  /\ ev' = IF job[j].made > 0 THEN [ev EXCEPT ![job[j].ev].retries = @ + 1] ELSE ev
  /\ UNCHANGED <<rep, pub, disp, requeues, faults, fails>>

ProcessorReturns(j) ==
  /\ job[j].at = "run"
  /\ \E outcome \in {"mark", "report"} : job' = [job EXCEPT ![j].at = outcome]
  /\ UNCHANGED <<ev, rep, pub, disp, requeues, faults, fails>>

WorkerMarkProcessed(j) ==
  /\ job[j].at = "mark"
  /\ "processed" \in StatusColumn
  /\ ev' = [ev EXCEPT ![job[j].ev].status = "processed"]
  /\ job' = [job EXCEPT ![j].at = "completed"]
  /\ UNCHANGED <<rep, pub, disp, requeues, faults, fails>>

\* The update throws inside the try block: the job counts as failed.
WorkerMarkProcessedFails(j) ==
  /\ job[j].at = "mark"
  /\ Outages \/ "processed" \notin StatusColumn
  /\ job' = [job EXCEPT ![j].at = "report"]
  /\ UNCHANGED <<ev, rep, pub, disp, requeues, faults, fails>>

\* Mutants: one attempt too many, and a last attempt that is not seen to be the last.
RethrownOnceMore(jb) ==
  [jb EXCEPT !.made = @ + 1, !.at = IF jb.made < Attempts THEN "waiting" ELSE "failed"]

IsPermanentOneLate(j) == job[j].made >= Attempts

\* BullMQ after an attempt that threw.
Rethrown(jb) ==
  [jb EXCEPT !.made = @ + 1, !.at = IF jb.made + 1 < Attempts THEN "waiting" ELSE "failed"]

IsPermanent(j) == job[j].made >= Attempts - 1

WorkerReport(j) ==
  /\ job[j].at = "report"
  /\ ev' = [ev EXCEPT ![job[j].ev].status = IF IsPermanent(j) THEN "dlq" ELSE "failed"]
  /\ job' = [job EXCEPT ![j] = Rethrown(@)]
  /\ UNCHANGED <<rep, pub, disp, requeues, faults, fails>>

\* The increment before the try block or the update of the catch block throws.
WorkerUpdateLost(j) ==
  /\ faults < MaxFaults
  /\ job[j].at = "report" \/ (job[j].at = "waiting" /\ job[j].made > 0)
  /\ job' = [job EXCEPT ![j] = Rethrown(@)]
  /\ faults' = faults + 1
  /\ UNCHANGED <<ev, rep, pub, disp, requeues, fails>>

\* BullMQ restarts a stalled job, up to maxStalledCount times.
Restarted(jb) ==
  IF jb.stalled < MaxStalled
  THEN [jb EXCEPT !.at = "waiting", !.stalled = @ + 1]
  ELSE [jb EXCEPT !.at = "failed"]

\* The worker process dies in the middle of a job.
WorkerDies(j) ==
  /\ faults < MaxFaults
  /\ job[j].at \in {"run", "mark", "report"}
  /\ job' = [job EXCEPT ![j] = Restarted(@)]
  /\ faults' = faults + 1
  /\ UNCHANGED <<ev, rep, pub, disp, requeues, fails>>

-----------------------------------------------------------------------------
FastPath(e) == FastEnqueue(e) \/ FastMarkProcessed(e) \/ FastAbandon(e)

DispatchStep(d) ==
  \/ \E e \in Events : Submit(d, e) \/ SkipUnmapped(d, e) \/ SubmitFails(d, e)
  \/ MarkProcessed(d) \/ MarkProcessedFails(d) \/ ReadRetryCount(d) \/ MarkFailed(d)

WorkerStep(j) ==
  \/ WorkerStart(j) \/ ProcessorReturns(j)
  \/ WorkerMarkProcessed(j) \/ WorkerMarkProcessedFails(j) \/ WorkerReport(j)

ClaimAny(e) ==
  \E d \in Dispatchers, batch \in SUBSET Events : e \in batch /\ Claim(d, batch)

Next ==
  \/ \E e \in Events :
       \/ Publish(e) \/ FastPath(e) \/ Requeue(e) \/ ClaimAny(e)
       \/ LeaseExpires(e) \/ BackoffElapses(e) \/ Replicate(e)
  \/ \E d \in Dispatchers : DispatchStep(d) \/ DropBatch(d)
  \/ \E j \in Jobs : WorkerStep(j) \/ WorkerUpdateLost(j) \/ WorkerDies(j)

Spec == Init /\ [][Next]_vars

(***************************************************************************)
(* Timers fire, replication and processes run.  Claiming is strongly fair  *)
(* for each event: the dispatcher polls every dispatchIntervalMs and takes *)
(* the oldest rows first.  Publishing, requeueing and faults have none.    *)
(***************************************************************************)
Fairness ==
  /\ \A e \in Events :
       /\ WF_vars(FastPath(e)) /\ SF_vars(ClaimAny(e))
       /\ WF_vars(LeaseExpires(e)) /\ WF_vars(BackoffElapses(e)) /\ WF_vars(Replicate(e))
  /\ \A d \in Dispatchers : WF_vars(DispatchStep(d))
  /\ \A j \in Jobs : WF_vars(WorkerStep(j))

FairSpec == Spec /\ Fairness

-----------------------------------------------------------------------------
(* Properties of the outbox.                                               *)

Live(j) == job[j].at \in {"waiting", "run", "mark", "report"}

\* An event whose type has a queue is reported processed only if a job for it entered the
\* queue: neither the fast path, nor a dispatcher, nor a worker of another event's job
\* settles an event nobody will ever work on (publishFromEvent, dispatchEvent).
ProcessedWasDelivered ==
  \A e \in Mapped : ev[e].status = "processed" => JobsOf(e) # {}

\* The claim model (claimBatch): while leases outlive the dispatch they cover, no two
\* dispatchers work on the same event, although no write checks the lease owner and the
\* fast path and the workers rewrite the status of a claimed row.
ClaimExclusive ==
  \A d1, d2 \in Dispatchers : d1 # d2 => disp[d1].todo \cap disp[d2].todo = {}

\* Without a fault every row has somebody who will move it: a claimed row is in the batch
\* of a dispatcher, and a row that used up its retries without reaching the DLQ has a job
\* that has not ended (claimBatch, markFailed, withEventLifecycle).
NobodyStranded ==
  faults = 0 =>
    \A e \in Events :
      /\ ev[e].status = "processing" => \E d \in Dispatchers : e \in disp[d].todo
      /\ ev[e].status \in {"pending", "failed"} /\ ev[e].retries >= MaxRetries
           => \E j \in JobsOf(e) : Live(j)

\* The DLQ takes an event only after a job failed an attempt or MaxRetries dispatches
\* failed since the event was last made pending (markFailed, withEventLifecycle).
NoEarlyDlq ==
  \A e \in Events :
    /\ ev[e].status = "dlq"
    /\ \A j \in JobsOf(e) : job[j].made = 0
    => fails[e] >= MaxRetries

\* Every published event ends up processed or in the DLQ and stays there, whichever of the
\* fast path, the dispatchers and the workers writes the row last (dispatchBatch,
\* publishFromEvent, withEventLifecycle).
EventuallySettles == <>[](\A e \in Events : ev[e].status \in {"absent", "processed", "dlq"})

\* Every published event gets its job: what publishFromEvent's comment calls
\* at-least-once delivery, for a queue that takes every job it is given.
AtLeastOnce == \A e \in Mapped : ev[e].status = "pending" ~> JobsOf(e) # {}

\* Delivery refines the contract of EventDelivery, for the events that have a queue.
Delivery == INSTANCE EventDelivery WITH
  Events <- Mapped,
  phase <- [e \in Mapped |-> IF ev[e].status = "absent" THEN "none"
                             ELSE IF JobsOf(e) = {} THEN "owed" ELSE "delivered"],
  outcome <- [e \in Mapped |-> IF ev[e].status \in {"processed", "dlq"}
                               THEN ev[e].status ELSE "open"]

RefinesDelivery == Delivery!Spec

-----------------------------------------------------------------------------
(* What the comments of the code say, and the code does not do.            *)

\* outbox-dispatcher.service.ts, header: expired claims become eligible for re-claim.
ExpiredClaimsAreReclaimed ==
  \A e \in Events :
    (ev[e].status = "processing" /\ ev[e].expired) ~> ev[e].status # "processing"
=============================================================================
