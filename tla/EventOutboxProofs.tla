-------------------------- MODULE EventOutboxProofs --------------------------
(***************************************************************************)
(* Theorems about EventOutbox for all values of its constants.             *)
(***************************************************************************)
EXTENDS EventOutbox, TLAPS

\* A job that has not ended has an attempt left.
AttemptsLeft == \A j \in Jobs : Live(j) => job[j].made < Attempts

TypeInv == TypeOK /\ AttemptsLeft

-----------------------------------------------------------------------------
(* Steps of the rows, the batches and the jobs.                            *)

\* A row stays a row when a handler assigns its columns.
LEMMA RowUpdates ==
  ASSUME OutboxAssumption, NEW r \in Row
  PROVE  /\ \A s \in Status : [r EXCEPT !.status = s] \in Row
         /\ [r EXCEPT !.retries = @ + 1] \in Row
         /\ [r EXCEPT !.expired = TRUE] \in Row
         /\ [r EXCEPT !.due = TRUE] \in Row
         /\ \A s \in Status :
              [r EXCEPT !.status = s, !.lease = None, !.expired = FALSE] \in Row
         /\ \A s \in Status, d \in Dispatchers :
              [r EXCEPT !.status = s, !.lease = d, !.expired = FALSE] \in Row
<1>1. \A s \in Status : [r EXCEPT !.status = s] \in Row
  BY DEF Row
<1>2. [r EXCEPT !.retries = @ + 1] \in Row
  BY DEF Row
<1>3. [r EXCEPT !.expired = TRUE] \in Row
  BY DEF Row
<1>4. [r EXCEPT !.due = TRUE] \in Row
  BY DEF Row
<1>5. \A s \in Status, d \in Dispatchers \cup {None} :
              [r EXCEPT !.status = s, !.lease = d, !.expired = FALSE] \in Row
  BY DEF Row
<1> QED
  BY <1>1, <1>2, <1>3, <1>4, <1>5

\* A dispatcher that has dealt with an event has a well-formed rest of its batch.
LEMMA RestingType ==
  ASSUME NEW b \in SUBSET Events
  PROVE  Resting(b) \in Batch /\ Resting(b).at = "next" /\ Resting(b).todo = b
  BY DEF Resting, Batch

\* A batch that takes its next event, or has read the retry count, stays a batch.
LEMMA BatchUpdates ==
  ASSUME NEW b \in Batch
  PROVE  /\ \A e \in Events, p \in {"mark", "failed"} :
              [b EXCEPT !.cur = e, !.at = p] \in Batch
         /\ \A n \in Nat : [b EXCEPT !.at = "write", !.seen = n] \in Batch
<1>1. \A e \in Events, p \in {"mark", "failed"} : [b EXCEPT !.cur = e, !.at = p] \in Batch
  BY DEF Batch
<1>2. \A n \in Nat : [b EXCEPT !.at = "write", !.seen = n] \in Batch
  BY DEF Batch
<1> QED
  BY <1>1, <1>2

\* A job that moves on inside withEventLifecycle, or that is retried, stays a job.
LEMMA JobUpdates ==
  ASSUME OutboxAssumption, NEW b \in Job
  PROVE  /\ \A p \in {"waiting", "run", "mark", "report", "completed", "failed"} :
              [b EXCEPT !.at = p] \in Job
         /\ b.made < Attempts => Rethrown(b) \in Job
         /\ b.made < Attempts /\ Rethrown(b).at = "waiting" => Rethrown(b).made < Attempts
         /\ Rethrown(b).at \in {"waiting", "failed"} /\ Rethrown(b).ev = b.ev
         /\ Restarted(b) \in Job /\ Restarted(b).at \in {"waiting", "failed"}
         /\ Restarted(b).ev = b.ev /\ Restarted(b).made = b.made
<1>1. \A p \in {"waiting", "run", "mark", "report", "completed", "failed"} :
              [b EXCEPT !.at = p] \in Job
  BY DEF Job
<1>2. ASSUME b.made < Attempts PROVE Rethrown(b) \in Job
  <2>1. b.made + 1 \in 0..Attempts
    BY <1>2 DEF Job, OutboxAssumption
  <2> QED
    BY <2>1 DEF Job, Rethrown
<1>3. b.made < Attempts /\ Rethrown(b).at = "waiting" => Rethrown(b).made < Attempts
  BY DEF Job, Rethrown, OutboxAssumption
<1>4. Rethrown(b).at \in {"waiting", "failed"} /\ Rethrown(b).ev = b.ev
  BY DEF Job, Rethrown, OutboxAssumption
<1>5. Restarted(b) \in Job
  <2>1. CASE b.stalled < MaxStalled
    <3>1. b.stalled + 1 \in 0..MaxStalled
      BY <2>1 DEF Job, OutboxAssumption
    <3> QED
      BY <2>1, <3>1 DEF Job, Restarted
  <2>2. CASE ~(b.stalled < MaxStalled)
    BY <2>2 DEF Job, Restarted
  <2> QED
    BY <2>1, <2>2
<1>6. /\ Restarted(b).at \in {"waiting", "failed"}
      /\ Restarted(b).ev = b.ev /\ Restarted(b).made = b.made
  BY DEF Job, Restarted
<1> QED
  BY <1>1, <1>2, <1>3, <1>4, <1>5, <1>6

\* The jobs are well-formed and those that have not ended have an attempt left.
JobsOK ==
  /\ job \in [Jobs -> Job]
  /\ \A j \in Jobs : (job[j].at = "free") <=> (job[j].ev = None)
  /\ AttemptsLeft

\* A job takes a step: it keeps its event, and what it becomes is well-formed.
LEMMA JobStep ==
  ASSUME OutboxAssumption, JobsOK, NEW j \in Jobs, NEW b \in Job,
         job[j].at # "free", b.at # "free", b.ev = job[j].ev,
         b.at \in {"waiting", "run", "mark", "report"} => b.made < Attempts,
         job' = [job EXCEPT ![j] = b]
  PROVE  JobsOK'
  BY DEF JobsOK, AttemptsLeft, Live

\* Adding a job, or finding one with the same id, leaves the jobs well-formed.
LEMMA AddJobType ==
  ASSUME OutboxAssumption, JobsOK, NEW e \in Events, AddJob(e)
  PROVE  JobsOK'
<1>1. CASE job' = job
  BY <1>1 DEF JobsOK, AttemptsLeft, Live
<1>2. ASSUME NEW j \in Jobs, job' = [job EXCEPT ![j] = NewJob(e)]
      PROVE  JobsOK'
  <2>1. NewJob(e) \in Job
    BY DEF NewJob, Job, OutboxAssumption
  <2>2. e # None /\ NewJob(e).made < Attempts /\ NewJob(e).at = "waiting" /\ NewJob(e).ev = e
    BY DEF NewJob, OutboxAssumption
  <2> QED
    BY <1>2, <2>1, <2>2 DEF JobsOK, AttemptsLeft, Live
<1> QED
  BY <1>1, <1>2 DEF AddJob

-----------------------------------------------------------------------------
(* Type correctness.                                                       *)

\* Every handler leaves every row, batch and job well-formed.
LEMMA TypeInductive ==
  ASSUME OutboxAssumption, TypeInv, [Next]_vars
  PROVE  TypeInv'
<1> USE OutboxAssumption
<1>0. JobsOK /\ TypeOK
  BY DEF TypeInv, TypeOK, JobsOK
<1>u. ASSUME UNCHANGED job PROVE JobsOK'
  BY <1>0, <1>u DEF JobsOK, AttemptsLeft, Live
<1>s. \A s \in {"pending", "processing", "processed", "failed", "dlq"} : s \in Status
  BY DEF Status
<1>j. ASSUME JobsOK' PROVE TypeInv' <=> TypeOK'
  BY <1>j DEF TypeInv, JobsOK
<1>1. ASSUME NEW e \in Events, Publish(e) PROVE TypeInv'
  <2>1. ev' \in [Events -> Row]
    BY <1>0, <1>1, <1>s, RowUpdates DEF Publish, TypeOK
  <2> QED
    BY <1>0, <1>1, <1>u, <1>j, <2>1 DEF Publish, TypeOK
<1>2. ASSUME NEW e \in Events, FastPath(e) PROVE TypeInv'
  <2>1. CASE FastEnqueue(e)
    <3>1. JobsOK'
      BY <1>0, <1>u, <2>1, AddJobType DEF FastEnqueue
    <3> QED
      BY <1>0, <1>j, <2>1, <3>1 DEF FastEnqueue, TypeOK, JobsOK
  <2>2. CASE FastMarkProcessed(e)
    <3>1. ev' \in [Events -> Row]
      BY <1>0, <2>2, <1>s, RowUpdates DEF FastMarkProcessed, TypeOK
    <3> QED
      BY <1>0, <2>2, <1>u, <1>j, <3>1 DEF FastMarkProcessed, TypeOK
  <2>3. CASE FastAbandon(e)
    BY <1>0, <2>3, <1>u, <1>j DEF FastAbandon, TypeOK
  <2> QED
    BY <1>2, <2>1, <2>2, <2>3 DEF FastPath
<1>3. ASSUME NEW e \in Events, Requeue(e) PROVE TypeInv'
  <2>1. [NoRow EXCEPT !.status = "pending"] \in Row
    BY DEF NoRow, Row, Status
  <2>2. requeues' \in 0..MaxRequeues /\ fails' \in [Events -> 0..(MaxRetries + 1)]
    BY <1>0, <1>3 DEF Requeue, TypeOK, OutboxAssumption
  <2> QED
    BY <1>0, <1>3, <1>u, <1>j, <2>1, <2>2 DEF Requeue, TypeOK
<1>4. ASSUME NEW d \in Dispatchers, NEW batch \in SUBSET Events, Claim(d, batch) PROVE TypeInv'
  <2>1. ev' \in [Events -> Row]
    BY <1>0, <1>4, <1>s, RowUpdates DEF Claim, TypeOK
  <2>2. disp' \in [Dispatchers -> Batch]
    BY <1>0, <1>4, RestingType DEF Claim, TypeOK
  <2>3. \A c \in Dispatchers : disp'[c].at # "next" => disp'[c].cur \in disp'[c].todo
    BY <1>0, <1>4, RestingType DEF Claim, TypeOK
  <2> QED
    BY <1>0, <1>4, <1>u, <1>j, <2>1, <2>2, <2>3 DEF Claim, TypeOK
<1>5. ASSUME NEW e \in Events, LeaseExpires(e) \/ BackoffElapses(e) \/ Replicate(e)
      PROVE  TypeInv'
  <2>1. ev' \in [Events -> Row]
    <3>1. CASE LeaseExpires(e)
      BY <1>0, <3>1, RowUpdates DEF LeaseExpires, TypeOK
    <3>2. CASE BackoffElapses(e)
      BY <1>0, <3>2, RowUpdates DEF BackoffElapses, TypeOK
    <3>3. CASE Replicate(e)
      BY <1>0, <3>3 DEF Replicate, TypeOK
    <3> QED
      BY <1>5, <3>1, <3>2, <3>3
  <2>2. rep' \in [Events -> Nat \cup {None}]
    BY <1>0, <1>5 DEF LeaseExpires, BackoffElapses, Replicate, TypeOK, Row
  <2> QED
    BY <1>0, <1>5, <1>u, <1>j, <2>1, <2>2 DEF LeaseExpires, BackoffElapses, Replicate, TypeOK
<1>6. ASSUME NEW d \in Dispatchers, NEW e \in Events,
             Submit(d, e) \/ SkipUnmapped(d, e) \/ SubmitFails(d, e)
      PROVE  TypeInv'
  <2>1. JobsOK'
    BY <1>0, <1>6, <1>u, AddJobType DEF Submit, SkipUnmapped, SubmitFails
  <2>2. PICK p \in {"mark", "failed"} : Take(d, e, p)
    BY <1>6 DEF Submit, SkipUnmapped, SubmitFails
  <2>3. disp' \in [Dispatchers -> Batch]
    BY <1>0, <2>2, BatchUpdates DEF Take, TypeOK
  <2>4. \A c \in Dispatchers : disp'[c].at # "next" => disp'[c].cur \in disp'[c].todo
    BY <1>0, <2>2 DEF Take, TypeOK, Batch
  <2> QED
    BY <1>0, <1>j, <2>1, <2>2, <2>3, <2>4 DEF Take, TypeOK, JobsOK
<1>f. ASSUME NEW d \in Dispatchers, Finish(d)
      PROVE  /\ disp' \in [Dispatchers -> Batch]
             /\ \A c \in Dispatchers : disp'[c].at # "next" => disp'[c].cur \in disp'[c].todo
  <2> DEFINE rest == disp[d].todo \ {disp[d].cur}
  <2>1. rest \in SUBSET Events /\ disp' = [disp EXCEPT ![d] = Resting(rest)]
    BY <1>0, <1>f DEF Finish, TypeOK, Batch
  <2> HIDE DEF rest
  <2> QED
    BY <1>0, <2>1, RestingType DEF TypeOK
<1>c. ASSUME NEW d \in Dispatchers, disp[d].at # "next" PROVE disp[d].cur \in Events
  BY <1>0, <1>c DEF TypeOK, Batch
<1>7. ASSUME NEW d \in Dispatchers, MarkProcessed(d) PROVE TypeInv'
  <2>1. ev' \in [Events -> Row]
    BY <1>0, <1>7, <1>s, <1>c, RowUpdates DEF MarkProcessed, TypeOK
  <2> QED
    BY <1>0, <1>7, <1>u, <1>j, <1>f, <2>1 DEF MarkProcessed, TypeOK
<1>8. ASSUME NEW d \in Dispatchers, MarkProcessedFails(d) PROVE TypeInv'
  <2>1. disp' \in [Dispatchers -> Batch]
    BY <1>0, <1>8 DEF MarkProcessedFails, TypeOK, Batch
  <2>2. \A c \in Dispatchers : disp'[c].at # "next" => disp'[c].cur \in disp'[c].todo
    BY <1>0, <1>8 DEF MarkProcessedFails, TypeOK, Batch
  <2> QED
    BY <1>0, <1>8, <1>u, <1>j, <2>1, <2>2 DEF MarkProcessedFails, TypeOK
<1>9. ASSUME NEW d \in Dispatchers, ReadRetryCount(d) PROVE TypeInv'
  <2>1. Readable(disp[d].cur) \in Nat
    BY <1>0, <1>9, <1>c DEF ReadRetryCount, Readable, TypeOK, Row
  <2>2. disp' \in [Dispatchers -> Batch]
    <3>1. [disp[d] EXCEPT !.at = "write", !.seen = Readable(disp[d].cur)] \in Batch
      BY <1>0, <2>1, BatchUpdates DEF TypeOK
    <3> QED
      BY <1>0, <1>9, <3>1 DEF ReadRetryCount, TypeOK
  <2>3. \A c \in Dispatchers : disp'[c].at # "next" => disp'[c].cur \in disp'[c].todo
    BY <1>0, <1>9 DEF ReadRetryCount, TypeOK, Batch
  <2> QED
    BY <1>0, <1>9, <1>u, <1>j, <2>2, <2>3 DEF ReadRetryCount, TypeOK
<1>10. ASSUME NEW d \in Dispatchers, MarkFailed(d) PROVE TypeInv'
  <2> DEFINE n == disp[d].seen + 1
             r == [status |-> IF n >= MaxRetries THEN "dlq" ELSE "failed", retries |-> n,
                   lease |-> None, expired |-> FALSE, due |-> n >= MaxRetries]
  <2>1. n \in Nat
    BY <1>0 DEF TypeOK, Batch
  <2>2. r \in Row
    BY <2>1, <1>s DEF Row
  <2>3. ev' = [ev EXCEPT ![disp[d].cur] = r]
    BY <1>10 DEF MarkFailed, ShouldDlq
  <2> HIDE DEF r
  <2>4. ev' \in [Events -> Row]
    BY <1>0, <1>10, <1>c, <2>2, <2>3 DEF MarkFailed, TypeOK
  <2>5. fails' \in [Events -> 0..(MaxRetries + 1)]
    BY <1>0, <1>10, <1>c DEF MarkFailed, TypeOK, OutboxAssumption
  <2>6. Finish(d) /\ UNCHANGED <<rep, pub, job, requeues, faults>>
    BY <1>10 DEF MarkFailed
  <2> QED
    BY <1>0, <1>u, <1>j, <1>f, <2>4, <2>5, <2>6 DEF TypeOK
<1>11. ASSUME NEW d \in Dispatchers, DropBatch(d) PROVE TypeInv'
  <2>1. {} \in SUBSET Events
    OBVIOUS
  <2>2. disp' \in [Dispatchers -> Batch]
    BY <1>0, <1>11, <2>1, RestingType DEF DropBatch, TypeOK
  <2>3. \A c \in Dispatchers : disp'[c].at # "next" => disp'[c].cur \in disp'[c].todo
    BY <1>0, <1>11, <2>1, RestingType DEF DropBatch, TypeOK
  <2> QED
    BY <1>0, <1>11, <1>u, <1>j, <2>2, <2>3 DEF DropBatch, TypeOK
<1>e. ASSUME NEW j \in Jobs, job[j].at # "free" PROVE job[j].ev \in Events
  BY <1>0, <1>e DEF JobsOK, Job
<1>12. ASSUME NEW j \in Jobs, WorkerStart(j) PROVE TypeInv'
  <2>1. ev' \in [Events -> Row]
    BY <1>0, <1>12, <1>e, RowUpdates DEF WorkerStart, TypeOK
  <2>2. JobsOK'
    <3> DEFINE b == [job[j] EXCEPT !.at = "run"]
    <3>1. job[j] \in Job /\ job[j].made < Attempts /\ job[j].at # "free"
      BY <1>0, <1>12 DEF WorkerStart, JobsOK, AttemptsLeft, Live
    <3>2. b \in Job
      BY <3>1, JobUpdates
    <3>4. b.ev = job[j].ev /\ b.at # "free" /\ b.made < Attempts
      BY <3>1 DEF Job
    <3>3. job' = [job EXCEPT ![j] = b]
      BY <1>12 DEF WorkerStart
    <3> HIDE DEF b
    <3> QED
      BY <1>0, <3>1, <3>2, <3>3, <3>4, JobStep
  <2> QED
    BY <1>0, <1>12, <1>j, <2>1, <2>2 DEF WorkerStart, TypeOK, JobsOK
<1>13. ASSUME NEW j \in Jobs, ProcessorReturns(j) \/ WorkerMarkProcessedFails(j) PROVE TypeInv'
  <2>1. PICK p \in {"mark", "report"} :
          /\ job[j].at \in {"run", "mark"}
          /\ job' = [job EXCEPT ![j].at = p]
          /\ UNCHANGED <<ev, rep, pub, disp, requeues, faults, fails>>
    BY <1>13 DEF ProcessorReturns, WorkerMarkProcessedFails
  <2>2. JobsOK'
    <3> DEFINE b == [job[j] EXCEPT !.at = p]
    <3>1. job[j] \in Job /\ job[j].made < Attempts /\ job[j].at # "free"
      BY <1>0, <2>1 DEF JobsOK, AttemptsLeft, Live
    <3>2. b \in Job
      BY <3>1, JobUpdates
    <3>4. b.ev = job[j].ev /\ b.at # "free" /\ b.made < Attempts
      BY <3>1 DEF Job
    <3>3. job' = [job EXCEPT ![j] = b]
      BY <2>1
    <3> HIDE DEF b
    <3> QED
      BY <1>0, <3>1, <3>2, <3>3, <3>4, JobStep
  <2> QED
    BY <1>0, <1>j, <2>1, <2>2 DEF TypeOK, JobsOK
<1>14. ASSUME NEW j \in Jobs, WorkerMarkProcessed(j) PROVE TypeInv'
  <2>1. ev' \in [Events -> Row]
    BY <1>0, <1>14, <1>s, <1>e, RowUpdates DEF WorkerMarkProcessed, TypeOK
  <2>2. JobsOK'
    <3> DEFINE b == [job[j] EXCEPT !.at = "completed"]
    <3>1. job[j] \in Job /\ job[j].made < Attempts /\ job[j].at # "free"
      BY <1>0, <1>14 DEF WorkerMarkProcessed, JobsOK, AttemptsLeft, Live
    <3>2. b \in Job
      BY <3>1, JobUpdates
    <3>4. b.ev = job[j].ev /\ b.at # "free" /\ b.made < Attempts
      BY <3>1 DEF Job
    <3>3. job' = [job EXCEPT ![j] = b]
      BY <1>14 DEF WorkerMarkProcessed
    <3> HIDE DEF b
    <3> QED
      BY <1>0, <3>1, <3>2, <3>3, <3>4, JobStep
  <2> QED
    BY <1>0, <1>14, <1>j, <2>1, <2>2 DEF WorkerMarkProcessed, TypeOK, JobsOK
<1>15. ASSUME NEW j \in Jobs, WorkerReport(j) PROVE TypeInv'
  <2>1. ev' \in [Events -> Row]
    BY <1>0, <1>15, <1>s, <1>e, RowUpdates DEF WorkerReport, TypeOK
  <2>2. JobsOK'
    BY <1>0, <1>15, JobUpdates, JobStep DEF WorkerReport, JobsOK, AttemptsLeft, Live
  <2> QED
    BY <1>0, <1>15, <1>j, <2>1, <2>2 DEF WorkerReport, TypeOK, JobsOK
<1>16. ASSUME NEW j \in Jobs, WorkerUpdateLost(j) PROVE TypeInv'
  <2>1. JobsOK'
    BY <1>0, <1>16, JobUpdates, JobStep DEF WorkerUpdateLost, JobsOK, AttemptsLeft, Live
  <2> QED
    BY <1>0, <1>16, <1>j, <2>1 DEF WorkerUpdateLost, TypeOK, JobsOK
<1>17. ASSUME NEW j \in Jobs, WorkerDies(j) PROVE TypeInv'
  <2>1. JobsOK'
    BY <1>0, <1>17, JobUpdates, JobStep DEF WorkerDies, JobsOK, AttemptsLeft, Live
  <2> QED
    BY <1>0, <1>17, <1>j, <2>1 DEF WorkerDies, TypeOK, JobsOK
<1>18. CASE UNCHANGED vars
  BY <1>0, <1>18, <1>u, <1>j DEF vars, TypeOK
<1> QED
  BY <1>1, <1>2, <1>3, <1>4, <1>5, <1>6, <1>7, <1>8, <1>9, <1>10, <1>11, <1>12,
     <1>13, <1>14, <1>15, <1>16, <1>17, <1>18
  DEF Next, DispatchStep, WorkerStep, ClaimAny

\* The types hold at the start.
LEMMA TypeInit == OutboxAssumption /\ Init => TypeInv
<1> SUFFICES ASSUME OutboxAssumption, Init PROVE TypeInv
  OBVIOUS
<1>1. NoRow \in Row /\ Free \in Job /\ Free.at = "free" /\ Free.ev = None
  BY DEF NoRow, Row, Status, Free, Job, OutboxAssumption
<1>2. {} \in SUBSET Events
  OBVIOUS
<1> QED
  BY <1>1, <1>2, RestingType DEF Init, TypeInv, TypeOK, AttemptsLeft, Live, OutboxAssumption

\* Rows, jobs, batches and processes keep their types.
THEOREM TypeCorrect == Spec => []TypeInv
<1>1. Init => TypeInv
  BY TypeInit, OutboxAssumption
<1>2. TypeInv /\ [Next]_vars => TypeInv'
  BY TypeInductive, OutboxAssumption
<1> QED
  BY <1>1, <1>2, PTL DEF Spec

\* Rows, batches and jobs keep their types in every reachable state.
THEOREM TypeSafe == Spec => []TypeOK
<1>1. TypeInv => TypeOK
  BY DEF TypeInv
<1> QED
  BY <1>1, TypeCorrect, PTL

-----------------------------------------------------------------------------
(* Exclusive claims.                                                       *)

\* Everything in a batch is leased to its dispatcher, and is not claimable: no other
\* actor than the dispatcher itself gives the lease up.
LeaseInv ==
  \A d \in Dispatchers : \A e \in disp[d].todo :
    ev[e].lease = d /\ ~ev[e].expired /\ ev[e].status \notin {"absent", "pending"}

\* No handler lets go of somebody else's lease, as long as leases outlive dispatches and
\* nobody requeues.
LEMMA LeaseInductive ==
  ASSUME OutboxAssumption, TimelyDispatch, MaxRequeues = 0,
         TypeInv, LeaseInv, [Next]_vars
  PROVE  LeaseInv'
<1>0. TypeOK /\ \A d \in Dispatchers : disp[d].todo \in SUBSET Events
  BY DEF TypeInv, TypeOK, Batch
<1>n. \A d \in Dispatchers : d # None
  BY DEF OutboxAssumption
<1>r. \A e \in Events : ev[e] \in Row
  BY <1>0 DEF TypeOK
<1>t. ASSUME \A d \in Dispatchers : disp'[d].todo \subseteq disp[d].todo,
             \A e \in Events : /\ ev'[e].lease = ev[e].lease /\ ev'[e].expired = ev[e].expired
                               /\ ev'[e].status = ev[e].status
                                    \/ ev'[e].status \in {"processed", "failed", "dlq"}
      PROVE  LeaseInv'
  BY <1>0, <1>t DEF LeaseInv
<1>1. ASSUME NEW e \in Events, Publish(e) PROVE LeaseInv'
  BY <1>0, <1>1, <1>r DEF Publish, LeaseInv, TypeOK, Row
<1>2. ASSUME NEW e \in Events, FastPath(e) PROVE LeaseInv'
  BY <1>0, <1>2, <1>t, <1>r, SMTT(20)
  DEF FastPath, FastEnqueue, FastMarkProcessed, FastAbandon, TypeOK, Row
<1>3. ASSUME NEW e \in Events, Requeue(e) PROVE LeaseInv'
  BY <1>0, <1>3 DEF Requeue, TypeOK
<1>4. ASSUME NEW d \in Dispatchers, NEW batch \in SUBSET Events, Claim(d, batch) PROVE LeaseInv'
  <2>1. ASSUME NEW c \in Dispatchers, NEW e \in batch, e \in disp[c].todo PROVE FALSE
    <3>1. Claimable(e)
      BY <1>4 DEF Claim
    <3>2. ev[e].lease = c /\ ~ev[e].expired /\ ev[e].status # "pending"
      BY <2>1 DEF LeaseInv
    <3> QED
      BY <1>n, <3>1, <3>2 DEF Claimable
  <2>2. \A e \in batch : /\ ev'[e].lease = d /\ ev'[e].expired = FALSE
                         /\ ev'[e].status = "processing"
    BY <1>4, <1>r DEF Claim, Row
  <2>3. \A e \in Events \ batch : ev'[e] = ev[e]
    BY <1>4 DEF Claim
  <2>4. disp'[d].todo = batch /\ \A c \in Dispatchers \ {d} : disp'[c] = disp[c]
    BY <1>0, <1>4, RestingType DEF Claim, TypeOK
  <2> QED
    BY <1>0, <2>1, <2>2, <2>3, <2>4 DEF LeaseInv
<1>5. ASSUME NEW e \in Events, LeaseExpires(e) \/ BackoffElapses(e) \/ Replicate(e)
      PROVE  LeaseInv'
  <2>1. CASE LeaseExpires(e)
    BY <1>0, <2>1, <1>r DEF LeaseExpires, LeaseInv, TypeOK, Row
  <2>2. CASE BackoffElapses(e) \/ Replicate(e)
    BY <1>0, <2>2, <1>t, <1>r DEF BackoffElapses, Replicate, TypeOK, Row
  <2> QED
    BY <1>5, <2>1, <2>2
<1>6. ASSUME NEW d \in Dispatchers, NEW e \in Events,
             Submit(d, e) \/ SkipUnmapped(d, e) \/ SubmitFails(d, e)
      PROVE  LeaseInv'
  <2>1. PICK p \in {"mark", "failed"} : Take(d, e, p)
    BY <1>6 DEF Submit, SkipUnmapped, SubmitFails
  <2>2. \A c \in Dispatchers : disp'[c].todo = disp[c].todo
    BY <1>0, <2>1 DEF Take, TypeOK, Batch
  <2> QED
    BY <2>1, <2>2, <1>t DEF Take
<1>f. ASSUME NEW d \in Dispatchers, disp[d].at # "next", Finish(d),
             \A e \in Events \ {disp[d].cur} : ev'[e] = ev[e]
      PROVE  LeaseInv'
  <2>1. disp'[d].todo = disp[d].todo \ {disp[d].cur}
    <3>1. disp'[d] = Resting(disp[d].todo \ {disp[d].cur})
      BY <1>0, <1>f DEF Finish, TypeOK
    <3> QED
      BY <3>1 DEF Resting
  <2>2. \A c \in Dispatchers \ {d} : disp'[c] = disp[c]
    BY <1>0, <1>f DEF Finish, TypeOK
  <2>3. \A c \in Dispatchers \ {d} : disp[d].cur \notin disp[c].todo
    BY <1>0, <1>f DEF LeaseInv, TypeOK
  <2> QED
    BY <1>0, <1>f, <2>1, <2>2, <2>3 DEF LeaseInv
<1>7. ASSUME NEW d \in Dispatchers, MarkProcessed(d) PROVE LeaseInv'
  BY <1>0, <1>7, <1>f DEF MarkProcessed, TypeOK
<1>8. ASSUME NEW d \in Dispatchers, MarkProcessedFails(d) \/ ReadRetryCount(d) PROVE LeaseInv'
  <2>1. \A c \in Dispatchers : disp'[c].todo = disp[c].todo
    <3>1. CASE MarkProcessedFails(d)
      BY <1>0, <3>1 DEF MarkProcessedFails, TypeOK, Batch
    <3>2. CASE ReadRetryCount(d)
      BY <1>0, <3>2 DEF ReadRetryCount, TypeOK, Batch
    <3> QED
      BY <1>8, <3>1, <3>2
  <2> QED
    BY <1>8, <2>1, <1>t DEF MarkProcessedFails, ReadRetryCount
<1>9. ASSUME NEW d \in Dispatchers, MarkFailed(d) PROVE LeaseInv'
  BY <1>0, <1>9, <1>f DEF MarkFailed, TypeOK
<1>10. ASSUME NEW d \in Dispatchers, DropBatch(d) PROVE LeaseInv'
  <2>1. \A c \in Dispatchers : disp'[c].todo \subseteq disp[c].todo
    BY <1>0, <1>10, RestingType DEF DropBatch, TypeOK
  <2> QED
    BY <1>10, <2>1, <1>t DEF DropBatch
<1>11. ASSUME NEW j \in Jobs, WorkerStep(j) \/ WorkerUpdateLost(j) \/ WorkerDies(j)
       PROVE  LeaseInv'
  <2>1. disp' = disp
    BY <1>11 DEF WorkerStep, WorkerStart, ProcessorReturns, WorkerMarkProcessed,
                 WorkerMarkProcessedFails, WorkerReport, WorkerUpdateLost, WorkerDies
  <2>2. \/ ev' = ev
        \/ ev' = [ev EXCEPT ![job[j].ev].retries = @ + 1]
        \/ \E s \in {"processed", "failed", "dlq"} : ev' = [ev EXCEPT ![job[j].ev].status = s]
    BY <1>11 DEF WorkerStep, WorkerStart, ProcessorReturns, WorkerMarkProcessed,
                 WorkerMarkProcessedFails, WorkerReport, WorkerUpdateLost, WorkerDies
  <2>3. \A e \in Events :
          /\ ev'[e].lease = ev[e].lease /\ ev'[e].expired = ev[e].expired
          /\ ev'[e].status = ev[e].status \/ ev'[e].status \in {"processed", "failed", "dlq"}
    BY <1>0, <2>2, <1>r DEF TypeOK, Row
  <2> QED
    BY <2>1, <2>3, <1>t
<1>12. CASE UNCHANGED vars
  BY <1>12, <1>t DEF vars
<1> QED
  BY <1>1, <1>2, <1>3, <1>4, <1>5, <1>6, <1>7, <1>8, <1>9, <1>10, <1>11, <1>12
  DEF Next, DispatchStep, ClaimAny

\* While a lease outlives the dispatch it covers and nobody requeues by hand, no two
\* dispatchers ever work on the same event, for any number of replicas, events and jobs.
THEOREM ClaimsAreExclusive ==
  ASSUME TimelyDispatch, MaxRequeues = 0
  PROVE  Spec => []ClaimExclusive
<1>1. Init => LeaseInv
  BY RestingType DEF Init, LeaseInv, Resting
<1>2. TypeInv /\ LeaseInv /\ [Next]_vars => LeaseInv'
  BY LeaseInductive, OutboxAssumption
<1>3. LeaseInv => ClaimExclusive
  BY DEF LeaseInv, ClaimExclusive
<1> QED
  BY <1>1, <1>2, <1>3, TypeCorrect, PTL DEF Spec

-----------------------------------------------------------------------------
(* Delivery.                                                               *)

\* Whoever is about to report an event processed has handed it to the queue.
DeliveryInv ==
  \A e \in Mapped :
    /\ ev[e].status = "processed" => JobsOf(e) # {}
    /\ pub[e] = "mark" => JobsOf(e) # {}
    /\ \A d \in Dispatchers : disp[d].at = "mark" /\ disp[d].cur = e => JobsOf(e) # {}

\* Different events have different job ids.
DistinctKeys ==
  \A e, f \in Events : JobKey[e] = JobKey[f] /\ JobKey[e] # None => e = f

\* The queue never forgets which event a job is for.
LEMMA JobsStay ==
  ASSUME OutboxAssumption, TypeInv, [Next]_vars
  PROVE  \A e \in Events : JobsOf(e) \subseteq JobsOf(e)'
<1>0. job \in [Jobs -> Job] /\ \A j \in Jobs : (job[j].at = "free") <=> (job[j].ev = None)
  BY DEF TypeInv, TypeOK
<1>n. \A e \in Events : e # None
  BY DEF OutboxAssumption
<1> SUFFICES \A j \in Jobs : job[j].ev \in Events => job'[j].ev = job[j].ev
  BY DEF JobsOf
<1>1. ASSUME NEW e \in Events, AddJob(e)
      PROVE  \A j \in Jobs : job[j].ev \in Events => job'[j].ev = job[j].ev
  BY <1>0, <1>n, <1>1 DEF AddJob
<1>2. ASSUME NEW j \in Jobs, WorkerStep(j) \/ WorkerUpdateLost(j) \/ WorkerDies(j)
      PROVE  \A k \in Jobs : job'[k].ev = job[k].ev
  <2>1. \/ \E p \in {"run", "mark", "report", "completed"} : job' = [job EXCEPT ![j].at = p]
        \/ job' = [job EXCEPT ![j] = Rethrown(@)]
        \/ job' = [job EXCEPT ![j] = Restarted(@)]
    BY <1>2 DEF WorkerStep, WorkerStart, ProcessorReturns, WorkerMarkProcessed,
                WorkerMarkProcessedFails, WorkerReport, WorkerUpdateLost, WorkerDies
  <2>2. job[j] \in Job
    BY <1>0
  <2>3. Rethrown(job[j]).ev = job[j].ev /\ Restarted(job[j]).ev = job[j].ev
    BY <2>2, JobUpdates
  <2>4. CASE \E p \in {"run", "mark", "report", "completed"} : job' = [job EXCEPT ![j].at = p]
    BY <1>0, <2>4 DEF Job
  <2>5. CASE job' = [job EXCEPT ![j] = Rethrown(@)] \/ job' = [job EXCEPT ![j] = Restarted(@)]
    BY <1>0, <2>3, <2>5
  <2> QED
    BY <2>1, <2>4, <2>5
<1>3. CASE UNCHANGED job
  BY <1>3
<1>4. \/ \E e \in Events : AddJob(e)
      \/ \E j \in Jobs : WorkerStep(j) \/ WorkerUpdateLost(j) \/ WorkerDies(j)
      \/ UNCHANGED job
  BY DEF Next, vars, Publish, FastPath, FastEnqueue, FastMarkProcessed, FastAbandon, Requeue,
         ClaimAny, Claim, LeaseExpires, BackoffElapses, Replicate, DispatchStep, Submit,
         SkipUnmapped, SubmitFails, MarkProcessed, MarkProcessedFails, ReadRetryCount,
         MarkFailed, DropBatch
<1> QED
  BY <1>1, <1>2, <1>3, <1>4

\* A job with the same id is a job of the same event, or a new one is added.
LEMMA AddJobDelivers ==
  ASSUME OutboxAssumption, DistinctKeys, TypeInv, NEW e \in Events, AddJob(e)
  PROVE  JobsOf(e)' # {}
<1>0. job \in [Jobs -> Job] /\ \A j \in Jobs : job[j].ev \in Events \cup {None}
  BY DEF TypeInv, TypeOK, Job
<1>1. CASE SameJobId(e) /\ UNCHANGED job
  <2>1. PICK j \in Jobs : job[j].ev # None /\ JobKey[job[j].ev] = JobKey[e]
    BY <1>1 DEF SameJobId
  <2>2. job[j].ev = e
    BY <1>0, <1>1, <2>1 DEF SameJobId, DistinctKeys
  <2> QED
    BY <1>1, <2>2 DEF JobsOf
<1>2. ASSUME NEW j \in Jobs, job' = [job EXCEPT ![j] = NewJob(e)] PROVE JobsOf(e)' # {}
  BY <1>0, <1>2 DEF JobsOf, NewJob
<1> QED
  BY <1>1, <1>2 DEF AddJob

\* No handler comes to the point of reporting an event processed without a job for it.
LEMMA DeliveryInductive ==
  ASSUME OutboxAssumption, DistinctKeys, TypeInv, DeliveryInv, [Next]_vars
  PROVE  DeliveryInv'
<1>0. TypeOK /\ TypeInv
  BY DEF TypeInv
<1>m. Mapped \subseteq Events
  BY DEF OutboxAssumption
<1>s. \A e \in Mapped : JobsOf(e) # {} => JobsOf(e)' # {}
  BY <1>0, <1>m, JobsStay
<1>t. ASSUME \A e \in Mapped :
               /\ ev'[e].status = "processed" => ev[e].status = "processed" \/ JobsOf(e) # {}
               /\ pub'[e] = "mark" => pub[e] = "mark" \/ JobsOf(e)' # {},
             \A d \in Dispatchers, e \in Mapped :
               disp'[d].at = "mark" /\ disp'[d].cur = e =>
                 \/ disp[d].at = "mark" /\ disp[d].cur = e
                 \/ JobsOf(e)' # {}
      PROVE  DeliveryInv'
  <2> SUFFICES ASSUME NEW e \in Mapped
               PROVE  /\ ev'[e].status = "processed" => JobsOf(e)' # {}
                      /\ pub'[e] = "mark" => JobsOf(e)' # {}
                      /\ \A d \in Dispatchers :
                           disp'[d].at = "mark" /\ disp'[d].cur = e => JobsOf(e)' # {}
    BY DEF DeliveryInv
  <2>1. ev'[e].status = "processed" => JobsOf(e)' # {}
    BY <1>s, <1>t DEF DeliveryInv
  <2>2. pub'[e] = "mark" => JobsOf(e)' # {}
    BY <1>s, <1>t DEF DeliveryInv
  <2>3. ASSUME NEW d \in Dispatchers, disp'[d].at = "mark", disp'[d].cur = e
        PROVE  JobsOf(e)' # {}
    BY <1>s, <1>t, <2>3 DEF DeliveryInv
  <2> QED
    BY <2>1, <2>2, <2>3
<1>r. \A e \in Events : ev[e] \in Row
  BY <1>0 DEF TypeOK
<1>1. ASSUME NEW e \in Events, Publish(e) PROVE DeliveryInv'
  BY <1>0, <1>1, <1>m, <1>t, <1>r DEF Publish, TypeOK, Row
<1>2. ASSUME NEW e \in Events, FastPath(e) PROVE DeliveryInv'
  <2>1. CASE FastEnqueue(e)
    <3>1. e \in Mapped => JobsOf(e)' # {}
      BY <1>0, <2>1, AddJobDelivers DEF FastEnqueue
    <3> QED
      BY <1>0, <1>m, <2>1, <3>1, <1>t DEF FastEnqueue, TypeOK
  <2>2. CASE FastMarkProcessed(e)
    <3>1. e \in Mapped => JobsOf(e) # {}
      BY <2>2 DEF FastMarkProcessed, DeliveryInv
    <3> QED
      BY <1>0, <1>m, <2>2, <3>1, <1>t DEF FastMarkProcessed, TypeOK
  <2>3. CASE FastAbandon(e)
    BY <1>0, <1>m, <2>3, <1>t DEF FastAbandon, TypeOK
  <2> QED
    BY <1>2, <2>1, <2>2, <2>3 DEF FastPath
<1>3. ASSUME NEW e \in Events, Requeue(e) PROVE DeliveryInv'
  <2>1. [NoRow EXCEPT !.status = "pending"].status = "pending"
    BY DEF NoRow
  <2> QED
    BY <1>0, <1>3, <1>m, <1>t, <2>1 DEF Requeue, TypeOK
<1>4. ASSUME NEW d \in Dispatchers, NEW batch \in SUBSET Events, Claim(d, batch)
      PROVE  DeliveryInv'
  <2>1. \A e \in Events : ev'[e].status = ev[e].status \/ ev'[e].status = "processing"
    BY <1>4, <1>r DEF Claim, Row
  <2>2. \A c \in Dispatchers : disp'[c] = disp[c] \/ disp'[c].at = "next"
    BY <1>0, <1>4, RestingType DEF Claim, TypeOK
  <2> QED
    BY <1>4, <1>m, <1>t, <2>1, <2>2 DEF Claim
<1>5. ASSUME NEW e \in Events, LeaseExpires(e) \/ BackoffElapses(e) \/ Replicate(e)
      PROVE  DeliveryInv'
  <2>1. UNCHANGED <<pub, disp, job>>
    BY <1>5 DEF LeaseExpires, BackoffElapses, Replicate
  <2>2. \A f \in Events : ev'[f].status = ev[f].status
    BY <1>0, <1>5, <1>r DEF LeaseExpires, BackoffElapses, Replicate, TypeOK, Row
  <2> QED
    BY <1>m, <1>t, <2>1, <2>2
<1>6. ASSUME NEW d \in Dispatchers, NEW e \in Events,
             Submit(d, e) \/ SkipUnmapped(d, e) \/ SubmitFails(d, e)
      PROVE  DeliveryInv'
  <2>1. \E p \in {"mark", "failed"} : Take(d, e, p) /\ (p = "mark" => Submit(d, e) \/ e \notin Mapped)
    BY <1>6 DEF Submit, SkipUnmapped, SubmitFails
  <2>2. PICK p \in {"mark", "failed"} :
          Take(d, e, p) /\ (p = "mark" => Submit(d, e) \/ e \notin Mapped)
    BY <2>1
  <2>3. disp'[d].at = p /\ disp'[d].cur = e /\ \A c \in Dispatchers \ {d} : disp'[c] = disp[c]
    BY <1>0, <2>2 DEF Take, TypeOK, Batch
  <2>4. p = "mark" /\ e \in Mapped => JobsOf(e)' # {}
    BY <1>0, <2>2, AddJobDelivers DEF Submit
  <2>5. UNCHANGED <<ev, pub>>
    BY <2>2 DEF Take
  <2> QED
    BY <1>t, <2>3, <2>4, <2>5
<1>f. ASSUME NEW d \in Dispatchers, Finish(d)
      PROVE  \A c \in Dispatchers : disp'[c] = disp[c] \/ disp'[c].at = "next"
  BY <1>0, <1>f DEF Finish, Resting, TypeOK
<1>7. ASSUME NEW d \in Dispatchers, MarkProcessed(d) PROVE DeliveryInv'
  <2>1. disp[d].cur \in Mapped => JobsOf(disp[d].cur) # {}
    BY <1>7 DEF MarkProcessed, DeliveryInv
  <2>2. \A e \in Events \ {disp[d].cur} : ev'[e] = ev[e]
    BY <1>0, <1>7 DEF MarkProcessed, TypeOK
  <2> QED
    BY <1>7, <1>f, <1>m, <1>t, <2>1, <2>2 DEF MarkProcessed
<1>8. ASSUME NEW d \in Dispatchers, MarkProcessedFails(d) \/ ReadRetryCount(d)
      PROVE  DeliveryInv'
  <2>1. \A c \in Dispatchers : disp'[c] = disp[c] \/ disp'[c].at # "mark"
    <3>1. CASE MarkProcessedFails(d)
      BY <1>0, <3>1 DEF MarkProcessedFails, TypeOK, Batch
    <3>2. CASE ReadRetryCount(d)
      BY <1>0, <3>2 DEF ReadRetryCount, TypeOK, Batch
    <3> QED
      BY <1>8, <3>1, <3>2
  <2> QED
    BY <1>8, <1>t, <2>1 DEF MarkProcessedFails, ReadRetryCount
<1>9. ASSUME NEW d \in Dispatchers, MarkFailed(d) PROVE DeliveryInv'
  <2>1. \A e \in Events : ev'[e] = ev[e] \/ ev'[e].status \in {"dlq", "failed"}
    BY <1>0, <1>9 DEF MarkFailed, TypeOK
  <2> QED
    BY <1>9, <1>f, <1>m, <1>t, <2>1 DEF MarkFailed
<1>10. ASSUME NEW d \in Dispatchers, DropBatch(d) PROVE DeliveryInv'
  <2>1. \A c \in Dispatchers : disp'[c] = disp[c] \/ disp'[c].at = "next"
    BY <1>0, <1>10, RestingType DEF DropBatch, TypeOK
  <2> QED
    BY <1>10, <1>t, <2>1 DEF DropBatch
<1>11. ASSUME NEW j \in Jobs, WorkerStep(j) \/ WorkerUpdateLost(j) \/ WorkerDies(j)
       PROVE  DeliveryInv'
  <2>1. UNCHANGED <<disp, pub>>
    BY <1>11 DEF WorkerStep, WorkerStart, ProcessorReturns, WorkerMarkProcessed,
                 WorkerMarkProcessedFails, WorkerReport, WorkerUpdateLost, WorkerDies
  <2>2. \/ ev' = ev
        \/ ev' = [ev EXCEPT ![job[j].ev].retries = @ + 1]
        \/ \E s \in {"processed", "failed", "dlq"} : ev' = [ev EXCEPT ![job[j].ev].status = s]
    BY <1>11 DEF WorkerStep, WorkerStart, ProcessorReturns, WorkerMarkProcessed,
                 WorkerMarkProcessedFails, WorkerReport, WorkerUpdateLost, WorkerDies
  <2>3. \A e \in Events : ev'[e].status = ev[e].status \/ job[j].ev = e
    BY <1>0, <2>2, <1>r DEF TypeOK, Row
  <2> QED
    BY <1>m, <1>t, <2>1, <2>3 DEF JobsOf
<1>12. CASE UNCHANGED vars
  BY <1>12, <1>t DEF vars
<1> QED
  BY <1>1, <1>2, <1>3, <1>4, <1>5, <1>6, <1>7, <1>8, <1>9, <1>10, <1>11, <1>12
  DEF Next, DispatchStep, ClaimAny

\* An event with a queue is never reported processed unless a job for it was queued,
\* provided different events have different job ids.
THEOREM ProcessedEventsWereDelivered ==
  ASSUME DistinctKeys
  PROVE  Spec => []ProcessedWasDelivered
<1>1. Init => DeliveryInv
  BY OutboxAssumption DEF Init, DeliveryInv, NoRow, Resting, OutboxAssumption
<1>2. TypeInv /\ DeliveryInv /\ [Next]_vars => DeliveryInv'
  BY DeliveryInductive, OutboxAssumption
<1>3. DeliveryInv => ProcessedWasDelivered
  BY DEF DeliveryInv, ProcessedWasDelivered
<1> QED
  BY <1>1, <1>2, <1>3, TypeCorrect, PTL DEF Spec
-----------------------------------------------------------------------------
(* What the rows owe to the jobs and batches, and that the outbox           *)
(* implements EventDelivery.                                               *)

\* What a worker's step does to the job, and to the row of the job's event.
JobMoves(j, b, row) ==
  /\ job' = [job EXCEPT ![j] = b]
  /\ ev' = [ev EXCEPT ![job[j].ev] = row]
  /\ UNCHANGED <<rep, pub, disp, requeues, fails>>

\* Every step of a worker, by what it does to its job and its event: attempts are only
\* counted up, only a retried attempt counts a retry, the last attempt that fails moves the
\* event to the dead letters, and without a fault a job ends in no other way than these.
LEMMA WorkerEffect ==
  ASSUME OutboxAssumption, TypeInv, NEW j \in Jobs,
         WorkerStep(j) \/ WorkerUpdateLost(j) \/ WorkerDies(j)
  PROVE  /\ job[j].ev \in Events /\ ev[job[j].ev] \in Row /\ Live(j)
         /\ faults' \in {faults, faults + 1}
         /\ \E b \in Job, row \in Row :
              /\ JobMoves(j, b, row)
              /\ b.ev = job[j].ev /\ b.at # "free" /\ b.made >= job[j].made
              /\ \/ row = ev[job[j].ev] /\ (faults' = faults => b.at # "failed" /\ b.at # "completed")
                 \/ /\ job[j].made > 0 /\ b.at = "run"
                    /\ row = [ev[job[j].ev] EXCEPT !.retries = @ + 1]
                 \/ row = [ev[job[j].ev] EXCEPT !.status = "processed"]
                 \/ /\ row = [ev[job[j].ev] EXCEPT !.status = "dlq"]
                    /\ b.made > 0
                 \/ /\ row = [ev[job[j].ev] EXCEPT !.status = "failed"]
                    /\ b.made > 0 /\ b.at = "waiting"
<1> USE OutboxAssumption
<1> DEFINE e == job[j].ev
<1>0. /\ job \in [Jobs -> Job] /\ ev \in [Events -> Row] /\ job[j] \in Job
      /\ (job[j].at = "free") <=> (job[j].ev = None)
      /\ Live(j) => job[j].made < Attempts
      /\ faults \in Nat
  BY DEF TypeInv, TypeOK, AttemptsLeft
<1>1. Live(j)
  BY DEF WorkerStep, WorkerStart, ProcessorReturns, WorkerMarkProcessed,
         WorkerMarkProcessedFails, WorkerReport, WorkerUpdateLost, WorkerDies, Live
<1>2. job[j].ev \in Events /\ ev[job[j].ev] \in Row
  BY <1>0, <1>1 DEF Live, Job
<1>3. ev = [ev EXCEPT ![job[j].ev] = ev[job[j].ev]]
  BY <1>0, <1>2
<1>4. job[j].made \in 0..Attempts /\ Attempts \in Nat
  BY <1>0 DEF Job
<1>5. CASE WorkerStart(j)
  <2> DEFINE b == [job[j] EXCEPT !.at = "run"]
             row == IF job[j].made > 0 THEN [ev[e] EXCEPT !.retries = @ + 1] ELSE ev[e]
  <2>1. b \in Job /\ b.ev = e /\ b.made = job[j].made /\ b.at = "run"
    BY <1>0, JobUpdates DEF Job
  <2>2. row \in Row
    BY <1>2, RowUpdates
  <2>3. job' = [job EXCEPT ![j] = b] /\ UNCHANGED <<rep, pub, disp, requeues, fails, faults>>
    BY <1>5 DEF WorkerStart
  <2>4. ev' = [ev EXCEPT ![e] = row]
    BY <1>0, <1>2, <1>3, <1>5 DEF WorkerStart
  <2>5. JobMoves(j, b, row)
    BY <2>3, <2>4 DEF JobMoves
  <2>6. \/ row = ev[e]
        \/ job[j].made > 0 /\ row = [ev[e] EXCEPT !.retries = @ + 1]
    OBVIOUS
  <2> HIDE DEF b, row, e
  <2>7. b.made >= job[j].made
    BY <1>4, <2>1
  <2> QED
    BY <1>1, <1>2, <2>1, <2>2, <2>3, <2>5, <2>6, <2>7 DEF e
<1>6. CASE ProcessorReturns(j) \/ WorkerMarkProcessedFails(j)
  <2>1. PICK p \in {"mark", "report"} : job' = [job EXCEPT ![j].at = p]
    BY <1>6 DEF ProcessorReturns, WorkerMarkProcessedFails
  <2> DEFINE b == [job[j] EXCEPT !.at = p]
  <2>2. b \in Job /\ b.ev = e /\ b.made = job[j].made /\ b.at = p
    BY <1>0, JobUpdates DEF Job
  <2>3. UNCHANGED <<ev, rep, pub, disp, requeues, fails, faults>>
    BY <1>6 DEF ProcessorReturns, WorkerMarkProcessedFails
  <2>4. JobMoves(j, b, ev[e])
    BY <1>3, <2>1, <2>3 DEF JobMoves
  <2> HIDE DEF b, e
  <2>5. b.made >= job[j].made
    BY <1>4, <2>2
  <2> QED
    BY <1>1, <1>2, <2>2, <2>3, <2>4, <2>5 DEF e
<1>7. CASE WorkerMarkProcessed(j)
  <2> DEFINE b == [job[j] EXCEPT !.at = "completed"]
             row == [ev[e] EXCEPT !.status = "processed"]
  <2>1. b \in Job /\ b.ev = e /\ b.made = job[j].made /\ b.at = "completed"
    BY <1>0, JobUpdates DEF Job
  <2>2. row \in Row
    BY <1>2, RowUpdates DEF Status
  <2>3. JobMoves(j, b, row) /\ faults' = faults
    BY <1>7 DEF WorkerMarkProcessed, JobMoves
  <2>4. row = [ev[e] EXCEPT !.status = "processed"]
    OBVIOUS
  <2> HIDE DEF b, row, e
  <2>5. b.made >= job[j].made
    BY <1>4, <2>1
  <2> QED
    BY <1>1, <1>2, <2>1, <2>2, <2>3, <2>4, <2>5 DEF e
<1>8. CASE WorkerReport(j)
  <2> DEFINE b == Rethrown(job[j])
             s == IF IsPermanent(j) THEN "dlq" ELSE "failed"
             row == [ev[e] EXCEPT !.status = s]
  <2>1. b \in Job /\ b.ev = e /\ b.at \in {"waiting", "failed"}
    BY <1>0, <1>1, JobUpdates
  <2>2. b.made = job[j].made + 1 /\ (b.at = "waiting" <=> ~IsPermanent(j))
    BY <1>0, <1>4 DEF Rethrown, IsPermanent, Job
  <2>3. row \in Row
    BY <1>2, RowUpdates DEF Status
  <2>4. JobMoves(j, b, row) /\ faults' = faults
    BY <1>8 DEF WorkerReport, JobMoves
  <2>5. \/ row = [ev[e] EXCEPT !.status = "dlq"]
        \/ row = [ev[e] EXCEPT !.status = "failed"] /\ b.at = "waiting"
    BY <2>2
  <2> HIDE DEF b, row, e, s
  <2>6. b.made >= job[j].made /\ b.made > 0
    BY <1>4, <2>2
  <2> QED
    BY <1>1, <1>2, <2>1, <2>3, <2>4, <2>5, <2>6 DEF e
<1>9. CASE WorkerUpdateLost(j) \/ WorkerDies(j)
  <2>1. PICK b \in {Rethrown(job[j]), Restarted(job[j])} : job' = [job EXCEPT ![j] = b]
    BY <1>9 DEF WorkerUpdateLost, WorkerDies
  <2>2. b \in Job /\ b.ev = e /\ b.at \in {"waiting", "failed"}
    BY <1>0, <1>1, <2>1, JobUpdates
  <2>3. b.made >= job[j].made
    <3>1. Rethrown(job[j]).made = job[j].made + 1
      BY <1>0 DEF Rethrown, Job
    <3>2. Restarted(job[j]).made = job[j].made
      BY <1>0, JobUpdates
    <3> QED
      BY <1>4, <2>1, <3>1, <3>2
  <2>4. faults' = faults + 1 /\ UNCHANGED <<ev, rep, pub, disp, requeues, fails>>
    BY <1>9 DEF WorkerUpdateLost, WorkerDies
  <2>5. JobMoves(j, b, ev[e]) /\ faults' # faults
    BY <1>0, <1>3, <2>1, <2>4 DEF JobMoves
  <2> HIDE DEF e
  <2> QED
    BY <1>1, <1>2, <2>2, <2>3, <2>4, <2>5 DEF e
<1> QED
  BY <1>5, <1>6, <1>7, <1>8, <1>9 DEF WorkerStep

\* A dispatcher takes the next event of its batch: its batch keeps its events.
LEMMA TakeEffect ==
  ASSUME TypeInv, NEW d \in Dispatchers, NEW e \in Events,
         NEW p \in {"mark", "failed"}, Take(d, e, p)
  PROVE  /\ e \in disp[d].todo
         /\ disp'[d].at = p /\ disp'[d].cur = e /\ disp'[d].todo = disp[d].todo
         /\ \A c \in Dispatchers \ {d} : disp'[c] = disp[c]
         /\ UNCHANGED <<ev, rep, pub, requeues, faults, fails>>
  BY DEF Take, TypeInv, TypeOK, Batch

\* A dispatcher has settled an event, which leaves its batch.
LEMMA FinishEffect ==
  ASSUME TypeInv, NEW d \in Dispatchers, disp[d].at # "next", Finish(d)
  PROVE  /\ disp[d].cur \in disp[d].todo /\ disp[d].cur \in Events
         /\ disp'[d] = Resting(disp[d].todo \ {disp[d].cur})
         /\ disp'[d].todo = disp[d].todo \ {disp[d].cur} /\ disp'[d].at = "next"
         /\ \A c \in Dispatchers \ {d} : disp'[c] = disp[c]
<1>1. disp[d].cur \in disp[d].todo /\ disp[d].todo \in SUBSET Events
  BY DEF TypeInv, TypeOK, Batch
<1>2. disp'[d] = Resting(disp[d].todo \ {disp[d].cur})
  BY DEF Finish, TypeInv, TypeOK
<1>3. \A c \in Dispatchers \ {d} : disp'[c] = disp[c]
  BY DEF Finish, TypeInv, TypeOK
<1>4. /\ Resting(disp[d].todo \ {disp[d].cur}).todo = disp[d].todo \ {disp[d].cur}
      /\ Resting(disp[d].todo \ {disp[d].cur}).at = "next"
  BY <1>1, RestingType
<1> QED
  BY <1>1, <1>2, <1>3, <1>4

\* A dispatcher reads the retry count it will add one to, or comes to doing so.
LEMMA FailingEffect ==
  ASSUME OutboxAssumption, TypeInv, NEW d \in Dispatchers,
         MarkProcessedFails(d) \/ ReadRetryCount(d)
  PROVE  /\ disp[d].cur \in Events
         /\ disp'[d].cur = disp[d].cur /\ disp'[d].todo = disp[d].todo
         /\ \/ disp'[d].at = "failed"
            \/ /\ disp'[d].at = "write" /\ disp'[d].seen \in Nat
               /\ disp'[d].seen \in {rep[disp[d].cur], ev[disp[d].cur].retries}
         /\ \A c \in Dispatchers \ {d} : disp'[c] = disp[c]
         /\ UNCHANGED <<ev, rep, pub, job, requeues, faults, fails>>
<1>0. /\ disp \in [Dispatchers -> Batch] /\ disp[d] \in Batch
      /\ disp[d].at # "next" => disp[d].cur \in disp[d].todo
  BY DEF TypeInv, TypeOK
<1>c. disp[d].cur \in Events
  BY <1>0 DEF Batch, MarkProcessedFails, ReadRetryCount
<1>1. CASE MarkProcessedFails(d)
  BY <1>0, <1>1, <1>c DEF MarkProcessedFails, Batch
<1>2. CASE ReadRetryCount(d)
  <2> DEFINE n == Readable(disp[d].cur)
             b == [disp[d] EXCEPT !.at = "write", !.seen = n]
  <2>1. n \in Nat /\ n \in {rep[disp[d].cur], ev[disp[d].cur].retries}
    BY <1>2, <1>c DEF ReadRetryCount, Readable, TypeInv, TypeOK, Row
  <2>2. disp' = [disp EXCEPT ![d] = b]
    BY <1>2 DEF ReadRetryCount
  <2> HIDE DEF n
  <2>3. b.at = "write" /\ b.seen = n /\ b.cur = disp[d].cur /\ b.todo = disp[d].todo
    BY <1>0 DEF Batch
  <2>4. UNCHANGED <<ev, rep, pub, job, requeues, faults, fails>>
    BY <1>2 DEF ReadRetryCount
  <2> HIDE DEF b
  <2> QED
    BY <1>0, <1>c, <2>1, <2>2, <2>3, <2>4
<1> QED
  BY <1>1, <1>2

\* A timer that fires, and the replica that catches up, leave what the rows report.
LEMMA TimerEffect ==
  ASSUME TypeInv, NEW e \in Events, LeaseExpires(e) \/ BackoffElapses(e) \/ Replicate(e)
  PROVE  \A f \in Events : ev'[f].status = ev[f].status /\ ev'[f].retries = ev[f].retries
<1>1. \/ ev' = ev
      \/ ev' = [ev EXCEPT ![e].expired = TRUE]
      \/ ev' = [ev EXCEPT ![e].due = TRUE]
  BY DEF LeaseExpires, BackoffElapses, Replicate
<1>2. ev \in [Events -> Row] /\ \A f \in Events : ev[f] \in Row
  BY DEF TypeInv, TypeOK
<1> QED
  BY <1>1, <1>2 DEF Row

\* A new job is one of its event that has made no attempt; the other jobs are as before.
LEMMA AddJobEffect ==
  ASSUME OutboxAssumption, TypeInv, NEW e \in Events, AddJob(e)
  PROVE  /\ \A j \in Jobs : job[j].at # "free" => job'[j] = job[j]
         /\ \A j \in Jobs : job'[j] # job[j] => job'[j] = NewJob(e) /\ job[j].ev = None
         /\ \A f \in Events \ {e} : JobsOf(f)' = JobsOf(f)
<1>0. job \in [Jobs -> Job] /\ \A j \in Jobs : (job[j].at = "free") <=> (job[j].ev = None)
  BY DEF TypeInv, TypeOK
<1>n. NewJob(e).ev = e /\ None \notin Events
  BY DEF NewJob, OutboxAssumption
<1>1. \A j \in Jobs : job'[j] = job[j] \/ (job'[j] = NewJob(e) /\ job[j].at = "free")
  BY <1>0 DEF AddJob
<1>2. \A j \in Jobs : job'[j] # job[j] => job'[j] = NewJob(e) /\ job[j].ev = None
  BY <1>0, <1>1
<1>3. \A f \in Events \ {e} : JobsOf(f)' = JobsOf(f)
  BY <1>1, <1>2, <1>n DEF JobsOf
<1> QED
  BY <1>1, <1>2, <1>3

-----------------------------------------------------------------------------
(* Dead letters.                                                           *)

\* No job of the event has failed an attempt.
Untried(e) == \A j \in JobsOf(e) : job[j].made = 0

\* While no attempt of a job failed and the retries are not used up, nobody counts more
\* failures than there were: not the row, not its replica, not a dispatcher about to write.
DlqInv ==
  \A e \in Events :
    Untried(e) /\ fails[e] < MaxRetries =>
      /\ ev[e].status # "dlq"
      /\ ev[e].retries <= fails[e]
      /\ rep[e] # None => rep[e] <= fails[e]
      /\ \A d \in Dispatchers :
           disp[d].at = "write" /\ disp[d].cur = e => disp[d].seen <= fails[e]

\* An event some attempt of which failed stays one.
LEMMA TriedStays ==
  ASSUME OutboxAssumption, TypeInv, [Next]_vars
  PROVE  \A e \in Events : Untried(e)' => Untried(e)
<1>0. job \in [Jobs -> Job] /\ \A j \in Jobs : (job[j].at = "free") <=> (job[j].ev = None)
  BY DEF TypeInv, TypeOK
<1>n. \A e \in Events : e # None
  BY DEF OutboxAssumption
<1> SUFFICES ASSUME NEW e \in Events, NEW j \in JobsOf(e), Untried(e)'
             PROVE  job[j].made = 0
  BY DEF Untried
<1>1. job'[j].made = 0
  BY JobsStay DEF Untried
<1>2. job[j] \in Job /\ job[j].at # "free" /\ job[j].made \in 0..Attempts /\ Attempts \in Nat
  BY <1>0, <1>n DEF JobsOf, Job, OutboxAssumption
<1>3. ASSUME NEW f \in Events, AddJob(f) PROVE job[j].made = 0
  BY <1>1, <1>2, <1>3, AddJobEffect DEF JobsOf
<1>4. ASSUME NEW k \in Jobs, WorkerStep(k) \/ WorkerUpdateLost(k) \/ WorkerDies(k)
      PROVE  job[j].made = 0
  <2>1. PICK b \in Job : job' = [job EXCEPT ![k] = b] /\ b.made >= job[k].made
    BY <1>4, WorkerEffect DEF JobMoves
  <2>2. CASE j = k
    BY <1>0, <1>1, <1>2, <2>1, <2>2
  <2>3. CASE j # k
    BY <1>0, <1>1, <2>1, <2>3
  <2> QED
    BY <2>2, <2>3
<1>5. CASE UNCHANGED job
  BY <1>1, <1>5
<1>6. \/ \E f \in Events : AddJob(f)
      \/ \E k \in Jobs : WorkerStep(k) \/ WorkerUpdateLost(k) \/ WorkerDies(k)
      \/ UNCHANGED job
  BY DEF Next, vars, Publish, FastPath, FastEnqueue, FastMarkProcessed, FastAbandon, Requeue,
         ClaimAny, Claim, LeaseExpires, BackoffElapses, Replicate, DispatchStep, Submit,
         SkipUnmapped, SubmitFails, MarkProcessed, MarkProcessedFails, ReadRetryCount,
         MarkFailed, DropBatch
<1> QED
  BY <1>3, <1>4, <1>5, <1>6

\* Without requeueing by hand, every step keeps the count of failures honest.
LEMMA DlqInductive ==
  ASSUME OutboxAssumption, MaxRequeues = 0, TypeInv, DlqInv, [Next]_vars
  PROVE  DlqInv'
<1>0. TypeOK /\ TypeInv
  BY DEF TypeInv
<1>r. /\ \A e \in Events : ev[e] \in Row /\ ev[e].retries \in Nat /\ fails[e] \in Nat
      /\ \A e \in Events : rep[e] \in Nat \cup {None}
      /\ \A d \in Dispatchers : disp[d] \in Batch /\ disp[d].seen \in Nat
      /\ MaxRetries \in Nat
  BY <1>0 DEF TypeOK, Row, Batch, OutboxAssumption
<1>u. \A e \in Events : Untried(e)' => Untried(e)
  BY TriedStays
<1>t. ASSUME fails' = fails,
             \A e \in Events : Untried(e)' =>
               /\ ev'[e].status = "dlq" => ev[e].status = "dlq"
               /\ ev'[e].retries = ev[e].retries
               /\ rep'[e] = rep[e] \/ rep'[e] = ev[e].retries,
             \A d \in Dispatchers, e \in Events :
               disp'[d].at = "write" /\ disp'[d].cur = e =>
                 \/ disp'[d] = disp[d]
                 \/ disp'[d].seen \in Nat /\ disp'[d].seen \in {rep[e], ev[e].retries}
      PROVE  DlqInv'
  <2> SUFFICES ASSUME NEW e \in Events, Untried(e)', fails'[e] < MaxRetries
               PROVE  /\ ev'[e].status # "dlq"
                      /\ ev'[e].retries <= fails'[e]
                      /\ rep'[e] # None => rep'[e] <= fails'[e]
                      /\ \A d \in Dispatchers :
                           disp'[d].at = "write" /\ disp'[d].cur = e => disp'[d].seen <= fails'[e]
    BY DEF DlqInv
  <2>1. /\ ev[e].status # "dlq"
        /\ ev[e].retries <= fails[e]
        /\ rep[e] # None => rep[e] <= fails[e]
        /\ \A d \in Dispatchers :
             disp[d].at = "write" /\ disp[d].cur = e => disp[d].seen <= fails[e]
    BY <1>u, <1>t DEF DlqInv
  <2>2. ASSUME NEW d \in Dispatchers, disp'[d].at = "write", disp'[d].cur = e
        PROVE  disp'[d].seen <= fails'[e]
    <3>1. None \notin Nat
      BY DEF OutboxAssumption
    <3> QED
      BY <1>t, <2>1, <2>2, <3>1
  <2>3. rep'[e] # None => rep'[e] <= fails'[e]
    BY <1>t, <2>1
  <2> QED
    BY <1>t, <2>1, <2>2, <2>3
<1>d. ASSUME NEW d \in Dispatchers,
             \A c \in Dispatchers \ {d} : disp'[c] = disp[c],
             disp'[d].at # "write"
      PROVE  \A c \in Dispatchers, e \in Events :
               disp'[c].at = "write" /\ disp'[c].cur = e => disp'[c] = disp[c]
  BY <1>d
<1>1. ASSUME NEW e \in Events, Publish(e) PROVE DlqInv'
  BY <1>0, <1>1, <1>t, <1>r DEF Publish, TypeOK, Row
<1>2. ASSUME NEW e \in Events, FastPath(e) PROVE DlqInv'
  <2>1. UNCHANGED <<rep, disp, fails>>
    BY <1>2 DEF FastPath, FastEnqueue, FastMarkProcessed, FastAbandon
  <2>2. ev' = ev \/ ev' = [ev EXCEPT ![e].status = "processed"]
    BY <1>2 DEF FastPath, FastEnqueue, FastMarkProcessed, FastAbandon
  <2>3. \A f \in Events : /\ ev'[f].retries = ev[f].retries
                          /\ ev'[f].status = ev[f].status \/ ev'[f].status = "processed"
    BY <1>0, <1>r, <2>2 DEF TypeOK, Row
  <2> QED
    BY <1>t, <2>1, <2>3
<1>3. ASSUME NEW e \in Events, Requeue(e) PROVE DlqInv'
  BY <1>0, <1>3 DEF Requeue, TypeOK
<1>4. ASSUME NEW d \in Dispatchers, NEW batch \in SUBSET Events, Claim(d, batch)
      PROVE  DlqInv'
  <2>1. \A e \in Events : /\ ev'[e].retries = ev[e].retries
                          /\ ev'[e].status = ev[e].status \/ ev'[e].status = "processing"
    BY <1>4, <1>r DEF Claim, Row
  <2>2. disp'[d].at = "next" /\ \A c \in Dispatchers \ {d} : disp'[c] = disp[c]
    BY <1>0, <1>4, RestingType DEF Claim, TypeOK
  <2> QED
    BY <1>4, <1>t, <1>d, <2>1, <2>2 DEF Claim
<1>5. ASSUME NEW e \in Events, LeaseExpires(e) \/ BackoffElapses(e) \/ Replicate(e)
      PROVE  DlqInv'
  <2>1. UNCHANGED <<disp, job, fails>>
    BY <1>5 DEF LeaseExpires, BackoffElapses, Replicate
  <2>2. \A f \in Events : ev'[f].status = ev[f].status /\ ev'[f].retries = ev[f].retries
    BY <1>0, <1>5, TimerEffect
  <2>3. \A f \in Events : rep'[f] = rep[f] \/ rep'[f] = ev[f].retries
    BY <1>0, <1>5 DEF LeaseExpires, BackoffElapses, Replicate, TypeOK
  <2> QED
    BY <1>t, <2>1, <2>2, <2>3
<1>6. ASSUME NEW d \in Dispatchers, NEW e \in Events,
             Submit(d, e) \/ SkipUnmapped(d, e) \/ SubmitFails(d, e)
      PROVE  DlqInv'
  <2>1. PICK p \in {"mark", "failed"} : Take(d, e, p)
    BY <1>6 DEF Submit, SkipUnmapped, SubmitFails
  <2>2. /\ disp'[d].at # "write" /\ \A c \in Dispatchers \ {d} : disp'[c] = disp[c]
        /\ UNCHANGED <<ev, rep, fails>>
    BY <1>0, <2>1, TakeEffect
  <2> QED
    BY <1>t, <1>d, <2>2
<1>7. ASSUME NEW d \in Dispatchers, MarkProcessed(d) PROVE DlqInv'
  <2>1. disp'[d].at # "write" /\ \A c \in Dispatchers \ {d} : disp'[c] = disp[c]
    BY <1>0, <1>7, FinishEffect DEF MarkProcessed
  <2>2. disp[d].cur \in Events
    BY <1>0, <1>7, FinishEffect DEF MarkProcessed
  <2>3. \A e \in Events : /\ ev'[e].retries = ev[e].retries
                          /\ ev'[e].status = ev[e].status \/ ev'[e].status = "processed"
    BY <1>0, <1>7, <1>r, <2>2 DEF MarkProcessed, Row, TypeOK
  <2> QED
    BY <1>7, <1>t, <1>d, <2>1, <2>3 DEF MarkProcessed
<1>8. ASSUME NEW d \in Dispatchers, MarkProcessedFails(d) \/ ReadRetryCount(d)
      PROVE  DlqInv'
  <2>1. /\ disp[d].cur \in Events /\ disp'[d].cur = disp[d].cur
        /\ disp'[d].at = "write" =>
             disp'[d].seen \in Nat /\ disp'[d].seen \in {rep[disp[d].cur], ev[disp[d].cur].retries}
        /\ \A c \in Dispatchers \ {d} : disp'[c] = disp[c]
        /\ UNCHANGED <<ev, rep, fails>>
    BY <1>0, <1>8, FailingEffect
  <2>2. \A c \in Dispatchers, e \in Events :
               disp'[c].at = "write" /\ disp'[c].cur = e =>
                 \/ disp'[c] = disp[c]
                 \/ disp'[c].seen \in Nat /\ disp'[c].seen \in {rep[e], ev[e].retries}
    BY <2>1
  <2> QED
    BY <1>t, <2>1, <2>2
<1>9. ASSUME NEW d \in Dispatchers, MarkFailed(d) PROVE DlqInv'
  <2> DEFINE e == disp[d].cur
             n == disp[d].seen + 1
  <2>0. /\ e \in Events
        /\ disp'[d].at # "write" /\ \A c \in Dispatchers \ {d} : disp'[c] = disp[c]
    BY <1>0, <1>9, FinishEffect DEF MarkFailed
  <2>1. /\ e \in Events /\ n \in Nat /\ n = disp[d].seen + 1
        /\ disp'[d].at # "write" /\ \A c \in Dispatchers \ {d} : disp'[c] = disp[c]
    BY <1>r, <2>0
  <2>2. ev'[e].status = (IF n >= MaxRetries THEN "dlq" ELSE "failed") /\ ev'[e].retries = n
    BY <1>0, <1>9, <2>1 DEF MarkFailed, ShouldDlq, TypeOK
  <2>3. /\ \A f \in Events \ {e} : ev'[f] = ev[f] /\ fails'[f] = fails[f]
        /\ rep' = rep /\ disp[d].at = "write"
    BY <1>0, <1>9 DEF MarkFailed, TypeOK
  <2>4. fails'[e] = IF fails[e] > MaxRetries THEN fails[e] ELSE fails[e] + 1
    BY <1>0, <1>9, <2>1 DEF MarkFailed, TypeOK
  <2> SUFFICES ASSUME NEW f \in Events, Untried(f)', fails'[f] < MaxRetries
               PROVE  /\ ev'[f].status # "dlq"
                      /\ ev'[f].retries <= fails'[f]
                      /\ rep'[f] # None => rep'[f] <= fails'[f]
                      /\ \A c \in Dispatchers :
                           disp'[c].at = "write" /\ disp'[c].cur = f => disp'[c].seen <= fails'[f]
    BY DEF DlqInv
  <2>5. fails[f] <= fails'[f] /\ fails[f] < MaxRetries /\ fails'[f] \in Nat
    BY <1>r, <2>3, <2>4
  <2>6. /\ ev[f].status # "dlq"
        /\ ev[f].retries <= fails[f]
        /\ rep[f] # None => rep[f] <= fails[f]
        /\ \A c \in Dispatchers :
             disp[c].at = "write" /\ disp[c].cur = f => disp[c].seen <= fails[f]
    BY <1>u, <2>5 DEF DlqInv
  <2> DEFINE seen(c) == disp[c].seen
  <2>7. ASSUME NEW c \in Dispatchers, disp'[c].at = "write", disp'[c].cur = f
        PROVE  disp'[c].seen <= fails'[f]
    <3>1. disp'[c] = disp[c] /\ disp[c].seen \in Nat
      BY <1>r, <2>1, <2>7
    <3> QED
      BY <1>r, <2>5, <2>6, <2>7, <3>1
  <2>8. rep'[f] # None => rep'[f] <= fails'[f]
    BY <1>r, <2>3, <2>5, <2>6
  <2>9. CASE f = e
    <3>1. fails'[e] = fails[e] + 1 /\ disp[d].seen <= fails[e]
      BY <1>r, <2>3, <2>4, <2>5, <2>6, <2>9
    <3> HIDE DEF e, n
    <3> QED
      BY <1>r, <2>1, <2>2, <2>7, <2>8, <2>9, <3>1
  <2>10. CASE f # e
    BY <1>r, <2>3, <2>5, <2>6, <2>7, <2>8, <2>10
  <2> QED
    BY <2>9, <2>10
<1>10. ASSUME NEW d \in Dispatchers, DropBatch(d) PROVE DlqInv'
  <2>1. disp'[d].at # "write" /\ \A c \in Dispatchers \ {d} : disp'[c] = disp[c]
    BY <1>0, <1>10, RestingType DEF DropBatch, TypeOK
  <2> QED
    BY <1>10, <1>t, <1>d, <2>1 DEF DropBatch
<1>11. ASSUME NEW j \in Jobs, WorkerStep(j) \/ WorkerUpdateLost(j) \/ WorkerDies(j)
       PROVE  DlqInv'
  <2>1. PICK e \in Events, b \in Job, row \in Row :
              /\ e = job[j].ev /\ JobMoves(j, b, row) /\ b.ev = e
              /\ \/ row = ev[e]
                 \/ job[j].made > 0
                 \/ row = [ev[e] EXCEPT !.status = "processed"]
                 \/ b.made > 0
    BY <1>11, WorkerEffect
  <2>2. ev' = [ev EXCEPT ![e] = row] /\ UNCHANGED <<rep, disp, fails>>
    BY <2>1 DEF JobMoves
  <2>3. \A f \in Events : f # e => ev'[f] = ev[f]
    BY <1>0, <2>2 DEF TypeOK
  <2>4. ev'[e] = row
    BY <1>0, <2>2 DEF TypeOK
  <2>5. ASSUME Untried(e)' PROVE row = ev[e] \/ row = [ev[e] EXCEPT !.status = "processed"]
    <3>1. job'[j] = b /\ j \in JobsOf(e)' /\ j \in JobsOf(e)
      BY <1>0, <2>1 DEF JobMoves, JobsOf, TypeOK
    <3>2. Untried(e)
      BY <1>u, <2>5
    <3>3. job[j].made = 0 /\ b.made = 0
      BY <2>5, <3>1, <3>2 DEF Untried
    <3> QED
      BY <2>1, <3>3
  <2>6. \A f \in Events : Untried(f)' =>
               /\ ev'[f].status = "dlq" => ev[f].status = "dlq"
               /\ ev'[f].retries = ev[f].retries
    <3>1. Untried(e)' => /\ ev'[e].status = "dlq" => ev[e].status = "dlq"
                         /\ ev'[e].retries = ev[e].retries
      BY <1>r, <2>4, <2>5 DEF Row
    <3> QED
      BY <2>3, <3>1
  <2> QED
    BY <1>t, <2>2, <2>6
<1>12. CASE UNCHANGED vars
  BY <1>12, <1>t DEF vars
<1> QED
  BY <1>1, <1>2, <1>3, <1>4, <1>5, <1>6, <1>7, <1>8, <1>9, <1>10, <1>11, <1>12
  DEF Next, DispatchStep, ClaimAny

\* An event goes to the dead letters only after an attempt of a job failed or MaxRetries
\* dispatches failed (markFailed, withEventLifecycle), whatever the replica shows, as long
\* as nobody requeues by hand: a requeue resets the row but not what a dispatcher has read.
THEOREM DeadLettersWereTried ==
  ASSUME MaxRequeues = 0
  PROVE  Spec => []NoEarlyDlq
<1>1. Init => DlqInv
  BY OutboxAssumption DEF Init, DlqInv, NoRow, Resting, OutboxAssumption
<1>2. TypeInv /\ DlqInv /\ [Next]_vars => DlqInv'
  BY DlqInductive, OutboxAssumption
<1>3. TypeInv /\ DlqInv => NoEarlyDlq
  BY OutboxAssumption DEF DlqInv, NoEarlyDlq, Untried, TypeInv, TypeOK, OutboxAssumption
<1> QED
  BY <1>1, <1>2, <1>3, TypeCorrect, PTL DEF Spec

-----------------------------------------------------------------------------
(* Nobody is stranded.                                                     *)

Waiting == {"absent", "pending", "failed"}

HasLive(e) == \E j \in JobsOf(e) : Live(j)

\* Also a row that is not published yet has no used-up retries without a live job.
StrandInv ==
  faults = 0 =>
    \A e \in Events :
      /\ ev[e].status = "processing" => \E d \in Dispatchers : e \in disp[d].todo
      /\ ev[e].status \in Waiting /\ ev[e].retries >= MaxRetries => HasLive(e)

\* Adding a job ends none.
LEMMA AddJobKeepsLive ==
  ASSUME OutboxAssumption, TypeInv, NEW f \in Events, AddJob(f), NEW e \in Events, HasLive(e)
  PROVE  HasLive(e)'
<1>1. PICK j \in JobsOf(e) : Live(j)
  BY DEF HasLive
<1>2. j \in Jobs /\ job'[j] = job[j]
  BY <1>1, AddJobEffect DEF JobsOf, Live
<1> QED
  BY <1>1, <1>2 DEF HasLive, JobsOf, Live

\* Without a fault, a row that waits for its turn is in the hands of somebody.
LEMMA StrandInductive ==
  ASSUME OutboxAssumption, TypeInv, StrandInv, [Next]_vars
  PROVE  StrandInv'
<1>0. TypeOK /\ TypeInv
  BY DEF TypeInv
<1>r. /\ \A e \in Events : ev[e] \in Row /\ ev[e].retries \in Nat
      /\ MaxRetries \in Nat /\ MaxRetries > 0
      /\ faults \in Nat
  BY <1>0 DEF TypeOK, Row, OutboxAssumption
<1>t. ASSUME faults' = faults,
             \A e \in Events : ev'[e].status = "processing" =>
               \/ /\ ev[e].status = "processing"
                  /\ \A d \in Dispatchers : e \in disp[d].todo => e \in disp'[d].todo
               \/ \E d \in Dispatchers : e \in disp'[d].todo,
             \A e \in Events : ev'[e].status \in Waiting =>
               \/ ev[e].status \in Waiting /\ ev'[e].retries = ev[e].retries
               \/ ev'[e].retries < MaxRetries
               \/ HasLive(e)',
             \A e \in Events :
               HasLive(e) => HasLive(e)' \/ ev'[e].status \notin Waiting,
             \A e \in Events : ev'[e].retries \in Nat
      PROVE  StrandInv'
  <2> SUFFICES ASSUME faults = 0, NEW e \in Events
               PROVE  /\ ev'[e].status = "processing" => \E d \in Dispatchers : e \in disp'[d].todo
                      /\ ev'[e].status \in Waiting /\ ev'[e].retries >= MaxRetries => HasLive(e)'
    BY <1>t DEF StrandInv, Waiting
  <2>1. /\ ev[e].status = "processing" => \E d \in Dispatchers : e \in disp[d].todo
        /\ ev[e].status \in Waiting /\ ev[e].retries >= MaxRetries => HasLive(e)
    BY DEF StrandInv
  <2>2. ev'[e].status = "processing" => \E d \in Dispatchers : e \in disp'[d].todo
    BY <1>t, <2>1
  <2>3. ev'[e].status \in Waiting /\ ev'[e].retries >= MaxRetries => HasLive(e)'
    BY <1>t, <1>r, <2>1
  <2> QED
    BY <2>2, <2>3
<1>j. ASSUME UNCHANGED job, NEW e \in Events PROVE HasLive(e)' = HasLive(e)
  BY <1>j DEF HasLive, JobsOf, Live
<1>1. ASSUME NEW e \in Events, Publish(e) PROVE StrandInv'
  <2>1. \A f \in Events : /\ ev'[f].retries = ev[f].retries
                          /\ ev'[f].status = ev[f].status \/ (ev[f].status = "absent" /\ ev'[f].status = "pending")
    BY <1>0, <1>1, <1>r DEF Publish, TypeOK, Row
  <2>2. UNCHANGED <<disp, job, faults>>
    BY <1>1 DEF Publish
  <2> QED
    BY <1>t, <1>r, <1>j, <2>1, <2>2 DEF Waiting
<1>2. ASSUME NEW e \in Events, FastPath(e) PROVE StrandInv'
  <2>1. UNCHANGED <<disp, faults>>
    BY <1>2 DEF FastPath, FastEnqueue, FastMarkProcessed, FastAbandon
  <2>2. ev' = ev \/ ev' = [ev EXCEPT ![e].status = "processed"]
    BY <1>2 DEF FastPath, FastEnqueue, FastMarkProcessed, FastAbandon
  <2>3. \A f \in Events : /\ ev'[f].retries = ev[f].retries
                          /\ ev'[f].status = ev[f].status \/ ev'[f].status = "processed"
    BY <1>0, <1>r, <2>2 DEF TypeOK, Row
  <2>4. \A f \in Events : HasLive(f) => HasLive(f)'
    <3>1. AddJob(e) \/ UNCHANGED job
      BY <1>2 DEF FastPath, FastEnqueue, FastMarkProcessed, FastAbandon
    <3> QED
      BY <1>0, <1>j, <3>1, AddJobKeepsLive
  <2> QED
    BY <1>t, <1>r, <2>1, <2>3, <2>4 DEF Waiting
<1>3. ASSUME NEW e \in Events, Requeue(e) PROVE StrandInv'
  <2>1. \A f \in Events \ {e} : ev'[f] = ev[f]
    BY <1>0, <1>3 DEF Requeue, TypeOK
  <2>2. ev'[e].retries = 0 /\ ev'[e].status = "pending"
    BY <1>0, <1>3 DEF Requeue, TypeOK, NoRow
  <2>3. UNCHANGED <<disp, job, faults>>
    BY <1>3 DEF Requeue
  <2>4. \A f \in Events : ev'[f].retries \in Nat
    BY <1>r, <2>1, <2>2
  <2> QED
    BY <1>t, <1>r, <1>j, <2>1, <2>2, <2>3, <2>4 DEF Waiting
<1>4. ASSUME NEW d \in Dispatchers, NEW batch \in SUBSET Events, Claim(d, batch)
      PROVE  StrandInv'
  <2>1. \A e \in Events : /\ ev'[e].retries = ev[e].retries
                          /\ e \notin batch => ev'[e].status = ev[e].status
                          /\ e \in batch => ev'[e].status = "processing"
    BY <1>4, <1>r DEF Claim, Row
  <2>2. /\ disp'[d].todo = batch /\ disp[d].todo = {}
        /\ \A c \in Dispatchers \ {d} : disp'[c] = disp[c]
    BY <1>0, <1>4, RestingType DEF Claim, TypeOK
  <2>3. UNCHANGED <<job, faults>>
    BY <1>4 DEF Claim
  <2> QED
    BY <1>t, <1>r, <1>j, <2>1, <2>2, <2>3 DEF Waiting
<1>5. ASSUME NEW e \in Events, LeaseExpires(e) \/ BackoffElapses(e) \/ Replicate(e)
      PROVE  StrandInv'
  <2>1. UNCHANGED <<disp, job, faults>>
    BY <1>5 DEF LeaseExpires, BackoffElapses, Replicate
  <2>2. \A f \in Events : ev'[f].status = ev[f].status /\ ev'[f].retries = ev[f].retries
    BY <1>0, <1>5, TimerEffect
  <2> QED
    BY <1>t, <1>r, <1>j, <2>1, <2>2
<1>6. ASSUME NEW d \in Dispatchers, NEW e \in Events,
             Submit(d, e) \/ SkipUnmapped(d, e) \/ SubmitFails(d, e)
      PROVE  StrandInv'
  <2>1. PICK p \in {"mark", "failed"} : Take(d, e, p)
    BY <1>6 DEF Submit, SkipUnmapped, SubmitFails
  <2>2. /\ \A c \in Dispatchers : disp'[c].todo = disp[c].todo
        /\ UNCHANGED <<ev, faults>>
    BY <1>0, <2>1, TakeEffect
  <2>3. \A f \in Events : HasLive(f) => HasLive(f)'
    <3>1. AddJob(e) \/ UNCHANGED job
      BY <1>6 DEF Submit, SkipUnmapped, SubmitFails
    <3> QED
      BY <1>0, <1>j, <3>1, AddJobKeepsLive
  <2> QED
    BY <1>t, <1>r, <2>2, <2>3
<1>f. ASSUME NEW d \in Dispatchers, disp[d].at # "next", Finish(d)
      PROVE  /\ disp[d].cur \in Events
             /\ \A e \in Events \ {disp[d].cur}, c \in Dispatchers :
                  e \in disp[c].todo => e \in disp'[c].todo
  BY <1>0, <1>f, FinishEffect
<1>7. ASSUME NEW d \in Dispatchers, MarkProcessed(d) PROVE StrandInv'
  <2>1. PICK e \in Events : e = disp[d].cur
    BY <1>7, <1>f DEF MarkProcessed
  <2>2. \A f \in Events \ {e} : ev'[f] = ev[f]
    BY <1>0, <1>7, <2>1 DEF MarkProcessed, TypeOK
  <2>3. ev'[e].status = "processed" /\ ev'[e].retries = ev[e].retries
    BY <1>0, <1>7, <1>r, <2>1 DEF MarkProcessed, TypeOK, Row
  <2>4. UNCHANGED <<job, faults>>
    BY <1>7 DEF MarkProcessed
  <2>5. \A f \in Events \ {e}, c \in Dispatchers : f \in disp[c].todo => f \in disp'[c].todo
    BY <1>7, <1>f, <2>1 DEF MarkProcessed
  <2> QED
    BY <1>t, <1>r, <1>j, <2>2, <2>3, <2>4, <2>5 DEF Waiting
<1>8. ASSUME NEW d \in Dispatchers, MarkProcessedFails(d) \/ ReadRetryCount(d)
      PROVE  StrandInv'
  <2>1. /\ \A c \in Dispatchers : disp'[c].todo = disp[c].todo
        /\ UNCHANGED <<ev, job, faults>>
    BY <1>0, <1>8, FailingEffect
  <2> QED
    BY <1>t, <1>r, <1>j, <2>1
<1>9. ASSUME NEW d \in Dispatchers, MarkFailed(d) PROVE StrandInv'
  <2>1. PICK e \in Events : e = disp[d].cur
    BY <1>9, <1>f DEF MarkFailed
  <2>n. disp[d].seen + 1 \in Nat
    BY <1>0 DEF TypeOK, Batch
  <2>2. \A f \in Events \ {e} : ev'[f] = ev[f]
    BY <1>0, <1>9, <2>1 DEF MarkFailed, TypeOK
  <2>3. /\ ev'[e].retries = disp[d].seen + 1
        /\ ev'[e].status = IF disp[d].seen + 1 >= MaxRetries THEN "dlq" ELSE "failed"
    BY <1>0, <1>9, <2>1 DEF MarkFailed, ShouldDlq, TypeOK
  <2>4. UNCHANGED <<job, faults>>
    BY <1>9 DEF MarkFailed
  <2>5. \A f \in Events \ {e}, c \in Dispatchers : f \in disp[c].todo => f \in disp'[c].todo
    BY <1>9, <1>f, <2>1 DEF MarkFailed
  <2>6. ev'[e].status = "dlq" \/ (ev'[e].status = "failed" /\ ev'[e].retries < MaxRetries)
    BY <1>r, <2>n, <2>3
  <2>7. \A f \in Events : ev'[f].retries \in Nat
    BY <1>r, <2>n, <2>2, <2>3
  <2> QED
    BY <1>t, <1>j, <2>2, <2>4, <2>5, <2>6, <2>7 DEF Waiting
<1>10. ASSUME NEW d \in Dispatchers, DropBatch(d) PROVE StrandInv'
  BY <1>r, <1>10 DEF DropBatch, StrandInv
<1>11. ASSUME NEW j \in Jobs, WorkerStep(j) \/ WorkerUpdateLost(j) \/ WorkerDies(j)
       PROVE  StrandInv'
  <2>1. PICK e \in Events, b \in Job, row \in Row :
              /\ e = job[j].ev /\ JobMoves(j, b, row) /\ b.ev = e /\ Live(j)
              /\ faults' \in {faults, faults + 1} /\ b.at # "free"
              /\ \/ row = ev[e] /\ (faults' = faults => b.at # "failed" /\ b.at # "completed")
                 \/ b.at = "run" /\ row = [ev[e] EXCEPT !.retries = @ + 1]
                 \/ row = [ev[e] EXCEPT !.status = "processed"]
                 \/ row = [ev[e] EXCEPT !.status = "dlq"]
                 \/ b.at = "waiting" /\ row = [ev[e] EXCEPT !.status = "failed"]
    BY <1>11, WorkerEffect, SMTT(20)
  <2> SUFFICES ASSUME faults' = faults PROVE StrandInv'
    BY <1>r, <2>1 DEF StrandInv
  <2>2. /\ \A f \in Events \ {e} : ev'[f] = ev[f]
        /\ ev'[e] = row /\ job'[j] = b
        /\ \A k \in Jobs \ {j} : job'[k] = job[k]
        /\ disp' = disp
    BY <1>0, <2>1 DEF JobMoves, TypeOK
  <2>3. \A f \in Events \ {e} : HasLive(f) => HasLive(f)'
    BY <2>1, <2>2 DEF HasLive, JobsOf, Live
  <2>4. b.at \notin {"free", "completed", "failed"} => HasLive(e)'
    <3>1. b.at \in {"waiting", "run", "mark", "report"} \/ b.at \in {"free", "completed", "failed"}
      BY DEF Job
    <3> QED
      BY <2>1, <2>2, <3>1 DEF HasLive, JobsOf, Live
  <2>5. \/ row.status = ev[e].status /\ HasLive(e)'
        \/ row.status \in {"processed", "dlq"}
        \/ row.status = "failed" /\ HasLive(e)'
    BY <1>r, <2>1, <2>4 DEF Row
  <2>6. \A f \in Events : ev'[f].retries \in Nat
    BY <1>r, <2>2 DEF Row
  <2> QED
    BY <1>t, <2>2, <2>3, <2>5, <2>6 DEF Waiting
<1>12. CASE UNCHANGED vars
  BY <1>12, <1>t, <1>r, <1>j DEF vars
<1> QED
  BY <1>1, <1>2, <1>3, <1>4, <1>5, <1>6, <1>7, <1>8, <1>9, <1>10, <1>11, <1>12
  DEF Next, DispatchStep, ClaimAny

\* Until a process exits or an update is lost, a claimed row is in the batch of a dispatcher,
\* and a row whose retries are used up has a job that will settle it (claimBatch, markFailed,
\* withEventLifecycle), whatever the fast path, requeueing and the replica do.
THEOREM RowsAreInSomebodysHands == Spec => []NobodyStranded
<1>1. Init => StrandInv
  BY OutboxAssumption DEF Init, StrandInv, NoRow, Waiting, OutboxAssumption
<1>2. TypeInv /\ StrandInv /\ [Next]_vars => StrandInv'
  BY StrandInductive, OutboxAssumption
<1>3. StrandInv => NobodyStranded
  BY DEF StrandInv, NobodyStranded, Waiting, HasLive
<1> QED
  BY <1>1, <1>2, <1>3, TypeCorrect, PTL DEF Spec

-----------------------------------------------------------------------------
(* The outbox implements EventDelivery.                                    *)

\* Before its transaction has committed, nobody knows of an event.
AbsentInv ==
  \A e \in Events : ev[e].status = "absent" =>
    /\ pub[e] = "idle"
    /\ JobsOf(e) = {}
    /\ \A d \in Dispatchers : e \notin disp[d].todo

\* Who touches an event has learnt of it from its row.
LEMMA AbsentInductive ==
  ASSUME OutboxAssumption, TypeInv, AbsentInv, [Next]_vars
  PROVE  AbsentInv'
<1>0. TypeOK /\ TypeInv
  BY DEF TypeInv
<1>r. \A e \in Events : ev[e] \in Row
  BY <1>0 DEF TypeOK
<1>t. ASSUME \A e \in Events : ev'[e].status = "absent" =>
               /\ ev[e].status = "absent" /\ pub'[e] = pub[e]
               /\ \A d \in Dispatchers : e \in disp'[d].todo => \E c \in Dispatchers : e \in disp[c].todo
               /\ JobsOf(e)' = JobsOf(e)
      PROVE  AbsentInv'
  <2> SUFFICES ASSUME NEW e \in Events, ev'[e].status = "absent"
               PROVE  /\ pub'[e] = "idle"
                      /\ JobsOf(e)' = {}
                      /\ \A d \in Dispatchers : e \notin disp'[d].todo
    BY DEF AbsentInv
  <2> QED
    BY <1>t DEF AbsentInv
<1>j. ASSUME UNCHANGED job, NEW e \in Events PROVE JobsOf(e)' = JobsOf(e)
  BY <1>j DEF JobsOf
<1>1. ASSUME NEW e \in Events, Publish(e) PROVE AbsentInv'
  <2>1. /\ ev'[e].status # "absent" /\ \A f \in Events \ {e} : ev'[f] = ev[f] /\ pub'[f] = pub[f]
        /\ UNCHANGED <<disp, job>>
    BY <1>0, <1>1, <1>r DEF Publish, TypeOK, Row
  <2> QED
    BY <1>t, <1>j, <2>1
<1>2. ASSUME NEW e \in Events, FastPath(e) PROVE AbsentInv'
  <2>1. disp' = disp /\ pub[e] # "idle" /\ \A f \in Events \ {e} : pub'[f] = pub[f]
    BY <1>0, <1>2 DEF FastPath, FastEnqueue, FastMarkProcessed, FastAbandon, TypeOK
  <2>2. ev' = ev \/ ev' = [ev EXCEPT ![e].status = "processed"]
    BY <1>2 DEF FastPath, FastEnqueue, FastMarkProcessed, FastAbandon
  <2>3. ev[e].status # "absent"
    BY <2>1 DEF AbsentInv
  <2>4. ev'[e].status # "absent" /\ \A f \in Events \ {e} : ev'[f] = ev[f]
    BY <1>0, <1>r, <2>2, <2>3 DEF TypeOK, Row
  <2>5. \A f \in Events \ {e} : JobsOf(f)' = JobsOf(f)
    <3>1. AddJob(e) \/ UNCHANGED job
      BY <1>2 DEF FastPath, FastEnqueue, FastMarkProcessed, FastAbandon
    <3> QED
      BY <1>0, <1>j, <3>1, AddJobEffect
  <2> QED
    BY <1>t, <2>1, <2>4, <2>5
<1>3. ASSUME NEW e \in Events, Requeue(e) PROVE AbsentInv'
  <2>1. /\ ev'[e].status # "absent" /\ \A f \in Events \ {e} : ev'[f] = ev[f]
        /\ UNCHANGED <<pub, disp, job>>
    BY <1>0, <1>3 DEF Requeue, TypeOK, NoRow
  <2> QED
    BY <1>t, <1>j, <2>1
<1>4. ASSUME NEW d \in Dispatchers, NEW batch \in SUBSET Events, Claim(d, batch)
      PROVE  AbsentInv'
  <2>1. \A e \in Events : /\ e \notin batch => ev'[e] = ev[e]
                          /\ e \in batch => ev'[e].status = "processing"
    BY <1>4, <1>r DEF Claim, Row
  <2>2. disp'[d].todo = batch /\ \A c \in Dispatchers \ {d} : disp'[c] = disp[c]
    BY <1>0, <1>4, RestingType DEF Claim, TypeOK
  <2>3. UNCHANGED <<pub, job>>
    BY <1>4 DEF Claim
  <2> QED
    BY <1>t, <1>j, <2>1, <2>2, <2>3
<1>5. ASSUME NEW e \in Events, LeaseExpires(e) \/ BackoffElapses(e) \/ Replicate(e)
      PROVE  AbsentInv'
  <2>1. UNCHANGED <<pub, disp, job>>
    BY <1>5 DEF LeaseExpires, BackoffElapses, Replicate
  <2>2. \A f \in Events : ev'[f].status = ev[f].status
    BY <1>0, <1>5, TimerEffect
  <2> QED
    BY <1>t, <1>j, <2>1, <2>2
<1>6. ASSUME NEW d \in Dispatchers, NEW e \in Events,
             Submit(d, e) \/ SkipUnmapped(d, e) \/ SubmitFails(d, e)
      PROVE  AbsentInv'
  <2>1. PICK p \in {"mark", "failed"} : Take(d, e, p)
    BY <1>6 DEF Submit, SkipUnmapped, SubmitFails
  <2>2. /\ \A c \in Dispatchers : disp'[c].todo = disp[c].todo
        /\ e \in disp[d].todo /\ UNCHANGED <<ev, pub>>
    BY <1>0, <2>1, TakeEffect
  <2>3. \A f \in Events \ {e} : JobsOf(f)' = JobsOf(f)
    <3>1. AddJob(e) \/ UNCHANGED job
      BY <1>6 DEF Submit, SkipUnmapped, SubmitFails
    <3> QED
      BY <1>0, <1>j, <3>1, AddJobEffect
  <2>4. ev[e].status # "absent"
    BY <2>2 DEF AbsentInv
  <2> QED
    BY <1>t, <2>2, <2>3, <2>4
<1>f. ASSUME NEW d \in Dispatchers, disp[d].at # "next", Finish(d)
      PROVE  /\ disp[d].cur \in Events
             /\ \A c \in Dispatchers : disp'[c].todo \subseteq disp[c].todo
  BY <1>0, <1>f, FinishEffect
<1>7. ASSUME NEW d \in Dispatchers, MarkProcessed(d) \/ MarkFailed(d) PROVE AbsentInv'
  <2>1. /\ disp[d].cur \in Events
        /\ \A c \in Dispatchers : disp'[c].todo \subseteq disp[c].todo
    BY <1>7, <1>f DEF MarkProcessed, MarkFailed
  <2>2. PICK e \in Events : e = disp[d].cur
    BY <2>1
  <2>3. ev'[e].status # "absent" /\ \A f \in Events \ {e} : ev'[f] = ev[f]
    <3>1. CASE MarkProcessed(d)
      BY <1>0, <1>r, <2>2, <3>1 DEF MarkProcessed, TypeOK, Row
    <3>2. CASE MarkFailed(d)
      BY <1>0, <2>2, <3>2 DEF MarkFailed, TypeOK
    <3> QED
      BY <1>7, <3>1, <3>2
  <2>4. UNCHANGED <<pub, job>>
    BY <1>7 DEF MarkProcessed, MarkFailed
  <2> QED
    BY <1>t, <1>j, <2>1, <2>3, <2>4
<1>8. ASSUME NEW d \in Dispatchers, MarkProcessedFails(d) \/ ReadRetryCount(d)
      PROVE  AbsentInv'
  <2>1. /\ \A c \in Dispatchers : disp'[c].todo = disp[c].todo
        /\ UNCHANGED <<ev, pub, job>>
    BY <1>0, <1>8, FailingEffect
  <2> QED
    BY <1>t, <1>j, <2>1
<1>9. ASSUME NEW d \in Dispatchers, DropBatch(d) PROVE AbsentInv'
  <2>1. \A c \in Dispatchers : disp'[c].todo \subseteq disp[c].todo
    BY <1>0, <1>9, RestingType DEF DropBatch, TypeOK
  <2> QED
    BY <1>9, <1>t, <1>j, <2>1 DEF DropBatch
<1>10. ASSUME NEW j \in Jobs, WorkerStep(j) \/ WorkerUpdateLost(j) \/ WorkerDies(j)
       PROVE  AbsentInv'
  <2>1. PICK e \in Events, b \in Job, row \in Row :
              /\ e = job[j].ev /\ JobMoves(j, b, row) /\ b.ev = e
    BY <1>10, WorkerEffect
  <2>2. /\ \A f \in Events \ {e} : ev'[f] = ev[f]
        /\ job'[j] = b /\ \A k \in Jobs \ {j} : job'[k] = job[k]
        /\ UNCHANGED <<disp, pub>>
    BY <1>0, <2>1 DEF JobMoves, TypeOK
  <2>3. \A f \in Events : JobsOf(f)' = JobsOf(f)
    BY <2>1, <2>2 DEF JobsOf
  <2>4. ev'[e].status = "absent" => ev[e].status = "absent"
    <3>1. \/ ev' = ev
          \/ ev' = [ev EXCEPT ![e].retries = @ + 1]
          \/ \E s \in {"processed", "failed", "dlq"} : ev' = [ev EXCEPT ![e].status = s]
      BY <1>10, <2>1 DEF WorkerStep, WorkerStart, ProcessorReturns, WorkerMarkProcessed,
                 WorkerMarkProcessedFails, WorkerReport, WorkerUpdateLost, WorkerDies
    <3> QED
      BY <1>0, <1>r, <3>1 DEF TypeOK, Row
  <2> QED
    BY <1>t, <2>2, <2>3, <2>4
<1>11. CASE UNCHANGED vars
  BY <1>11, <1>t, <1>j DEF vars
<1> QED
  BY <1>1, <1>2, <1>3, <1>4, <1>5, <1>6, <1>7, <1>8, <1>9, <1>10, <1>11
  DEF Next, DispatchStep, ClaimAny

\* The abstract state of an event, as the refinement mapping of Delivery reads it.
PhaseOf(e) == IF ev[e].status = "absent" THEN "none"
              ELSE IF JobsOf(e) = {} THEN "owed" ELSE "delivered"

OutcomeOf(e) == IF ev[e].status \in {"processed", "dlq"} THEN ev[e].status ELSE "open"

\* What EventDelivery lets happen to one event while nothing happens to the others.
AbstractStep(e) ==
  \/ PhaseOf(e)' = PhaseOf(e) /\ OutcomeOf(e)' = OutcomeOf(e)
  \/ PhaseOf(e) = "none" /\ PhaseOf(e)' = "owed" /\ OutcomeOf(e)' = OutcomeOf(e)
  \/ PhaseOf(e) = "owed" /\ PhaseOf(e)' = "delivered" /\ OutcomeOf(e)' = OutcomeOf(e)
  \/ /\ PhaseOf(e)' = PhaseOf(e)
     /\ \/ PhaseOf(e) = "delivered" /\ OutcomeOf(e)' = "processed"
        \/ PhaseOf(e) # "none" /\ OutcomeOf(e)' \in {"dlq", "open"}

\* A step that does to one event what the contract allows, and nothing to the others, is a
\* step of the contract.
LEMMA OneEventSteps ==
  ASSUME OutboxAssumption, NEW e \in Events,
         \A f \in Mapped \ {e} : PhaseOf(f)' = PhaseOf(f) /\ OutcomeOf(f)' = OutcomeOf(f),
         e \in Mapped => AbstractStep(e)
  PROVE  [Delivery!Next]_(Delivery!vars)
<1> DEFINE phase == [f \in Mapped |-> PhaseOf(f)]
           outcome == [f \in Mapped |-> OutcomeOf(f)]
<1>1. phase' = [f \in Mapped |-> PhaseOf(f)'] /\ outcome' = [f \in Mapped |-> OutcomeOf(f)']
  OBVIOUS
<1>2. ASSUME \A f \in Mapped : PhaseOf(f)' = PhaseOf(f) /\ OutcomeOf(f)' = OutcomeOf(f)
      PROVE  phase' = phase /\ outcome' = outcome
  BY <1>1, <1>2
<1>3. ASSUME e \in Mapped, OutcomeOf(e)' = OutcomeOf(e)
      PROVE  outcome' = outcome /\ phase' = [phase EXCEPT ![e] = PhaseOf(e)']
  BY <1>1, <1>3
<1>4. ASSUME e \in Mapped, PhaseOf(e)' = PhaseOf(e)
      PROVE  phase' = phase /\ outcome' = [outcome EXCEPT ![e] = OutcomeOf(e)']
  BY <1>1, <1>4
<1>5. e \in Mapped => phase[e] = PhaseOf(e)
  OBVIOUS
<1> HIDE DEF phase, outcome
<1>6. \/ phase' = phase /\ outcome' = outcome
      \/ /\ e \in Mapped
         /\ \/ /\ phase[e] = "none"
               /\ phase' = [phase EXCEPT ![e] = "owed"] /\ outcome' = outcome
            \/ /\ phase[e] = "owed"
               /\ phase' = [phase EXCEPT ![e] = "delivered"] /\ outcome' = outcome
            \/ /\ phase[e] = "delivered"
               /\ outcome' = [outcome EXCEPT ![e] = "processed"] /\ phase' = phase
            \/ /\ phase[e] # "none"
               /\ outcome' = [outcome EXCEPT ![e] = "dlq"] /\ phase' = phase
            \/ /\ phase[e] # "none"
               /\ outcome' = [outcome EXCEPT ![e] = "open"] /\ phase' = phase
  <2>1. CASE e \notin Mapped
    BY <1>2, <2>1
  <2>2. CASE e \in Mapped
    <3>1. CASE PhaseOf(e)' = PhaseOf(e) /\ OutcomeOf(e)' = OutcomeOf(e)
      BY <1>2, <3>1
    <3>2. CASE OutcomeOf(e)' = OutcomeOf(e)
               /\ \/ PhaseOf(e) = "none" /\ PhaseOf(e)' = "owed"
                  \/ PhaseOf(e) = "owed" /\ PhaseOf(e)' = "delivered"
      BY <1>3, <1>5, <2>2, <3>2
    <3>3. CASE PhaseOf(e)' = PhaseOf(e)
               /\ \/ PhaseOf(e) = "delivered" /\ OutcomeOf(e)' = "processed"
                  \/ PhaseOf(e) # "none" /\ OutcomeOf(e)' \in {"dlq", "open"}
      BY <1>4, <1>5, <2>2, <3>3
    <3> QED
      BY <2>2, <3>1, <3>2, <3>3 DEF AbstractStep
  <2> QED
    BY <2>1, <2>2
<1> QED
  BY <1>6 DEF phase, outcome, PhaseOf, OutcomeOf, Delivery!Next, Delivery!vars, Delivery!Publish,
     Delivery!Deliver, Delivery!ReportProcessed, Delivery!GiveUp, Delivery!Reopen

Open == {"pending", "processing", "failed"}

\* Every step of the outbox is a step of the contract for one event, or none.
LEMMA StepImplements ==
  ASSUME OutboxAssumption, DistinctKeys, TypeInv, DeliveryInv, AbsentInv, [Next]_vars
  PROVE  [Delivery!Next]_(Delivery!vars)
<1>0. TypeOK /\ TypeInv
  BY DEF TypeInv
<1>r. \A e \in Events : ev[e] \in Row /\ ev[e].status \in Status
  BY <1>0 DEF TypeOK, Row
<1>m. Mapped \subseteq Events
  BY DEF OutboxAssumption
<1>k. \A e \in Events : JobsOf(e) # {} => JobsOf(e)' # {}
  BY <1>0, JobsStay
<1>a. \A e \in Events : JobsOf(e) # {} => ev[e].status # "absent"
  BY DEF AbsentInv
<1>j. ASSUME UNCHANGED job, NEW e \in Events PROVE JobsOf(e)' = JobsOf(e)
  BY <1>j DEF JobsOf
<1>n. ASSUME \A e \in Events :
               /\ ev'[e].status = ev[e].status \/ {ev'[e].status, ev[e].status} \subseteq Open
               /\ JobsOf(e)' = JobsOf(e)
      PROVE  [Delivery!Next]_(Delivery!vars)
  <2>1. \A e \in Events : PhaseOf(e)' = PhaseOf(e) /\ OutcomeOf(e)' = OutcomeOf(e)
    BY <1>n DEF PhaseOf, OutcomeOf, Open
  <2>2. CASE Events = {}
    <3>1. Mapped = {}
      BY <1>m, <2>2
    <3> QED
      BY <3>1 DEF Delivery!vars
  <2>3. CASE Events # {}
    <3>1. PICK e \in Events : TRUE
      BY <2>3
    <3> QED
      BY <1>m, <2>1, <3>1, OneEventSteps DEF AbstractStep
  <2> QED
    BY <2>2, <2>3
<1>t. ASSUME NEW e \in Events,
             \A f \in Events \ {e} : ev'[f] = ev[f] /\ JobsOf(f)' = JobsOf(f),
             e \in Mapped => AbstractStep(e)
      PROVE  [Delivery!Next]_(Delivery!vars)
  <2>1. \A f \in Mapped \ {e} : PhaseOf(f)' = PhaseOf(f) /\ OutcomeOf(f)' = OutcomeOf(f)
    BY <1>m, <1>t DEF PhaseOf, OutcomeOf
  <2> QED
    BY <1>t, <2>1, OneEventSteps
<1>d. ASSUME NEW e \in Events, ev' = ev, ev[e].status # "absent", AddJob(e) \/ UNCHANGED job
      PROVE  [Delivery!Next]_(Delivery!vars)
  <2>1. \A f \in Events \ {e} : JobsOf(f)' = JobsOf(f)
    BY <1>0, <1>d, <1>j, AddJobEffect
  <2>2. AbstractStep(e)
    BY <1>d, <1>k DEF AbstractStep, PhaseOf, OutcomeOf
  <2> QED
    BY <1>d, <1>t, <2>1, <2>2
<1>s. ASSUME NEW e \in Events, UNCHANGED job,
             \A f \in Events \ {e} : ev'[f] = ev[f],
             \/ ev'[e].status = ev[e].status
             \/ /\ ev[e].status # "absent"
                /\ ev'[e].status = "processed" /\ (e \in Mapped => JobsOf(e) # {})
             \/ /\ ev[e].status # "absent"
                /\ ev'[e].status \in {"dlq"} \cup Open
      PROVE  [Delivery!Next]_(Delivery!vars)
  <2>1. \A f \in Events : JobsOf(f)' = JobsOf(f)
    BY <1>s, <1>j
  <2>2. CASE ev'[e].status = ev[e].status
    BY <1>s, <1>t, <2>1, <2>2 DEF AbstractStep, PhaseOf, OutcomeOf
  <2>3. CASE /\ ev[e].status # "absent"
             /\ ev'[e].status = "processed" /\ (e \in Mapped => JobsOf(e) # {})
    BY <1>s, <1>t, <2>1, <2>3 DEF AbstractStep, PhaseOf, OutcomeOf
  <2>4. CASE ev[e].status # "absent" /\ ev'[e].status \in {"dlq"} \cup Open
    <3>1. /\ PhaseOf(e)' = PhaseOf(e) /\ PhaseOf(e) # "none"
          /\ OutcomeOf(e)' \in {"dlq", "open"}
      BY <2>1, <2>4 DEF PhaseOf, OutcomeOf, Open
    <3> QED
      BY <1>s, <1>t, <2>1, <3>1 DEF AbstractStep
  <2> QED
    BY <1>s, <2>2, <2>3, <2>4
<1>1. ASSUME NEW e \in Events, Publish(e) PROVE [Delivery!Next]_(Delivery!vars)
  <2>1. /\ ev[e].status = "absent" /\ ev'[e].status = "pending"
        /\ \A f \in Events \ {e} : ev'[f] = ev[f]
        /\ UNCHANGED job
    BY <1>0, <1>1, <1>r DEF Publish, TypeOK, Row
  <2>2. JobsOf(e) = {} /\ \A f \in Events : JobsOf(f)' = JobsOf(f)
    BY <1>a, <1>j, <2>1
  <2> QED
    BY <1>t, <2>1, <2>2 DEF AbstractStep, PhaseOf, OutcomeOf
<1>2. ASSUME NEW e \in Events, FastPath(e) PROVE [Delivery!Next]_(Delivery!vars)
  <2>1. ev[e].status # "absent"
    BY <1>2 DEF FastPath, FastEnqueue, FastMarkProcessed, FastAbandon, AbsentInv
  <2>2. CASE FastEnqueue(e) \/ FastAbandon(e)
    BY <1>d, <2>1, <2>2 DEF FastEnqueue, FastAbandon
  <2>3. CASE FastMarkProcessed(e)
    <3>1. /\ ev'[e].status = "processed" /\ \A f \in Events \ {e} : ev'[f] = ev[f]
          /\ UNCHANGED job /\ pub[e] = "mark"
      BY <1>0, <1>r, <2>3 DEF FastMarkProcessed, TypeOK, Row
    <3> QED
      BY <1>s, <2>1, <3>1 DEF DeliveryInv
  <2> QED
    BY <1>2, <2>2, <2>3 DEF FastPath
<1>3. ASSUME NEW e \in Events, Requeue(e) PROVE [Delivery!Next]_(Delivery!vars)
  <2>1. /\ ev[e].status # "absent" /\ ev'[e].status = "pending"
        /\ \A f \in Events \ {e} : ev'[f] = ev[f]
        /\ UNCHANGED job
    BY <1>0, <1>3 DEF Requeue, TypeOK, NoRow
  <2> QED
    BY <1>s, <2>1 DEF Open
<1>4. ASSUME NEW d \in Dispatchers, NEW batch \in SUBSET Events, Claim(d, batch)
      PROVE  [Delivery!Next]_(Delivery!vars)
  <2>1. \A e \in Events : /\ e \notin batch => ev'[e] = ev[e]
                          /\ e \in batch => ev'[e].status = "processing"
    BY <1>4, <1>r DEF Claim, Row
  <2>2. \A e \in batch : ev[e].status \in Open
    BY <1>4 DEF Claim, Claimable, Open
  <2>3. UNCHANGED job
    BY <1>4 DEF Claim
  <2> QED
    BY <1>n, <1>j, <2>1, <2>2, <2>3 DEF Open
<1>5. ASSUME NEW e \in Events, LeaseExpires(e) \/ BackoffElapses(e) \/ Replicate(e)
      PROVE  [Delivery!Next]_(Delivery!vars)
  <2>1. UNCHANGED job
    BY <1>5 DEF LeaseExpires, BackoffElapses, Replicate
  <2>2. \A f \in Events : ev'[f].status = ev[f].status
    BY <1>0, <1>5, TimerEffect
  <2> QED
    BY <1>n, <1>j, <2>1, <2>2
<1>6. ASSUME NEW d \in Dispatchers, NEW e \in Events,
             Submit(d, e) \/ SkipUnmapped(d, e) \/ SubmitFails(d, e)
      PROVE  [Delivery!Next]_(Delivery!vars)
  <2>1. PICK p \in {"mark", "failed"} : Take(d, e, p)
    BY <1>6 DEF Submit, SkipUnmapped, SubmitFails
  <2>2. e \in disp[d].todo /\ ev' = ev
    BY <1>0, <2>1, TakeEffect
  <2>3. AddJob(e) \/ UNCHANGED job
    BY <1>6 DEF Submit, SkipUnmapped, SubmitFails
  <2>4. ev[e].status # "absent"
    BY <2>2 DEF AbsentInv
  <2> QED
    BY <1>d, <2>2, <2>3, <2>4
<1>c. ASSUME NEW d \in Dispatchers, disp[d].at # "next"
      PROVE  disp[d].cur \in Events /\ ev[disp[d].cur].status # "absent"
  BY <1>0, <1>c DEF TypeOK, Batch, AbsentInv
<1>7. ASSUME NEW d \in Dispatchers, MarkProcessed(d) PROVE [Delivery!Next]_(Delivery!vars)
  <2>1. PICK e \in Events : e = disp[d].cur /\ ev[e].status # "absent"
    BY <1>7, <1>c DEF MarkProcessed
  <2>2. ev'[e].status = "processed" /\ \A f \in Events \ {e} : ev'[f] = ev[f]
    BY <1>0, <1>7, <1>r, <2>1 DEF MarkProcessed, TypeOK, Row
  <2>3. e \in Mapped => JobsOf(e) # {}
    BY <1>7, <2>1 DEF MarkProcessed, DeliveryInv
  <2>4. UNCHANGED job
    BY <1>7 DEF MarkProcessed
  <2> QED
    BY <1>s, <2>1, <2>2, <2>3, <2>4
<1>8. ASSUME NEW d \in Dispatchers,
             MarkProcessedFails(d) \/ ReadRetryCount(d) \/ DropBatch(d)
      PROVE  [Delivery!Next]_(Delivery!vars)
  BY <1>8, <1>n, <1>j DEF MarkProcessedFails, ReadRetryCount, DropBatch
<1>9. ASSUME NEW d \in Dispatchers, MarkFailed(d) PROVE [Delivery!Next]_(Delivery!vars)
  <2>1. PICK e \in Events : e = disp[d].cur /\ ev[e].status # "absent"
    BY <1>9, <1>c DEF MarkFailed
  <2>2. ev'[e].status \in {"dlq", "failed"} /\ \A f \in Events \ {e} : ev'[f] = ev[f]
    BY <1>0, <1>9, <2>1 DEF MarkFailed, TypeOK
  <2>3. UNCHANGED job
    BY <1>9 DEF MarkFailed
  <2> QED
    BY <1>s, <2>1, <2>2, <2>3 DEF Open
<1>10. ASSUME NEW j \in Jobs, WorkerStep(j) \/ WorkerUpdateLost(j) \/ WorkerDies(j)
       PROVE  [Delivery!Next]_(Delivery!vars)
  <2>1. PICK e \in Events, b \in Job, row \in Row :
              /\ e = job[j].ev /\ JobMoves(j, b, row) /\ b.ev = e
    BY <1>10, WorkerEffect
  <2>2. /\ \A f \in Events \ {e} : ev'[f] = ev[f]
        /\ job'[j] = b /\ \A k \in Jobs \ {j} : job'[k] = job[k]
    BY <1>0, <2>1 DEF JobMoves, TypeOK
  <2>3. \A f \in Events : JobsOf(f)' = JobsOf(f)
    BY <2>1, <2>2 DEF JobsOf
  <2>4. JobsOf(e) # {} /\ ev[e].status # "absent"
    BY <1>a, <2>1 DEF JobsOf
  <2>5. ev'[e].status = ev[e].status \/ ev'[e].status \in {"processed", "failed", "dlq"}
    <3>1. \/ ev' = ev
          \/ ev' = [ev EXCEPT ![e].retries = @ + 1]
          \/ \E s \in {"processed", "failed", "dlq"} : ev' = [ev EXCEPT ![e].status = s]
      BY <1>10, <2>1 DEF WorkerStep, WorkerStart, ProcessorReturns, WorkerMarkProcessed,
                 WorkerMarkProcessedFails, WorkerReport, WorkerUpdateLost, WorkerDies
    <3> QED
      BY <1>0, <1>r, <3>1 DEF TypeOK, Row
  <2>6. PhaseOf(e)' = PhaseOf(e) /\ PhaseOf(e) = "delivered"
    BY <2>3, <2>4, <2>5 DEF PhaseOf
  <2>7. OutcomeOf(e)' \in {OutcomeOf(e), "processed", "dlq", "open"}
    BY <2>5 DEF OutcomeOf
  <2> QED
    BY <1>t, <2>2, <2>3, <2>6, <2>7 DEF AbstractStep
<1>11. CASE UNCHANGED vars
  BY <1>11, <1>n, <1>j DEF vars
<1> QED
  BY <1>1, <1>2, <1>3, <1>4, <1>5, <1>6, <1>7, <1>8, <1>9, <1>10, <1>11
  DEF Next, DispatchStep, ClaimAny

\* The outbox keeps the safety part of its contract, step by step: an event is owed a job
\* from its transaction on, is reported processed only once it has one, and is given up or
\* opened again only visibly; provided different events have different job ids.
THEOREM OutboxImplementsDelivery ==
  ASSUME DistinctKeys
  PROVE  Spec => Delivery!SafeSpec
<1>1. Init => DeliveryInv /\ AbsentInv
  BY OutboxAssumption DEF Init, DeliveryInv, AbsentInv, NoRow, Resting, JobsOf, Free,
     OutboxAssumption
<1>2. Init => Delivery!Init
  BY OutboxAssumption DEF Init, Delivery!Init, NoRow, OutboxAssumption
<1>3. TypeInv /\ DeliveryInv /\ AbsentInv /\ [Next]_vars => DeliveryInv' /\ AbsentInv'
  BY DeliveryInductive, AbsentInductive, OutboxAssumption
<1>4. TypeInv /\ DeliveryInv /\ AbsentInv /\ [Next]_vars => [Delivery!Next]_(Delivery!vars)
  BY StepImplements, OutboxAssumption
<1> QED
  BY <1>1, <1>2, <1>3, <1>4, TypeCorrect, PTL DEF Spec, Delivery!SafeSpec

=============================================================================
