------------------------------- MODULE MCLive -------------------------------
(***************************************************************************)
(* TLC instance of what the pipelines of the workers owe: every event of   *)
(* the outbox, every scan and every sync comes to an end.  A behaviour     *)
(* runs one of them, the subject, and leaves the others at their initial   *)
(* state.  The outbox has two events, or one and a requeue from the DLQ.   *)
(* The uploads are the subject twice: two uploads of one file while        *)
(* nothing fails, and one upload whose scan job is there twice, while      *)
(* calls fail and a worker exits or the answer of a commit is lost.  One   *)
(* call of the syncs fails.                                                *)
(***************************************************************************)
EXTENDS MCResumePipeline

CONSTANTS
  Subjects,               \* the pipelines to run
  e1, e2, d1, j1, None,   \* values of EventOutbox
  first, delta, p1        \* values of GmailSync

VARIABLES
  subject,
  ev, rep, pub, disp, job, requeues, fails,
  mail, ckpt, ops, cursor, saved, processed, dropped, skipped, sync, mirror,
  failures, exits, stalls

Twice == INSTANCE ResumePipeline WITH
  Copies <- {1, 2}, Outages <- TRUE, MaxFaults <- 1,
  ReplicaLags <- FALSE, Linkable <- {u1}, Deletable <- {u1}

Outbox == INSTANCE EventOutbox WITH
  Events <- {e1, e2}, Mapped <- {e1}, Dispatchers <- {d1}, Jobs <- {j1},
  JobKey <- [e \in {e1, e2} |-> e],
  StatusColumn <- {"pending", "processing", "processed", "failed", "dlq"},
  ModelFieldNames <- TRUE, ReplicaLags <- FALSE, Outages <- TRUE, TimelyDispatch <- TRUE,
  MaxRetries <- 2, Attempts <- 2, MaxStalled <- 1, MaxRequeues <- 1, MaxFaults <- 0

Gmail == INSTANCE GmailSync WITH
  SyncJobs <- {first, delta}, Initial <- {first}, Pids <- {p1}, SyncAttempts <- 2,
  PageSize <- 1, HistorySize <- 1, Mailbox <- 0, MaxMail <- 1, ReadsLag <- FALSE,
  MaxFailures <- 1, MaxExits <- 0, MaxStalls <- 0,
  shown <- mirror

\* Without the count of faults, which the outbox and the uploads share.
resumeVars == <<up, row, hashes, quarantine, clean, uploaded, cleaned, scan, parse, shown,
                linked, dels>>
outboxVars == <<ev, rep, pub, disp, job, requeues, fails>>
gmailVars == <<mail, ckpt, ops, cursor, saved, processed, dropped, skipped, sync, mirror,
               failures, exits, stalls>>
liveVars == <<subject, resumeVars, outboxVars, gmailVars, faults>>

LiveInit ==
  /\ subject \in Subjects
  /\ Outbox!Init /\ Gmail!SyncInit
  /\ IF subject = "twice" THEN Twice!Init ELSE Init

LiveNext ==
  /\ UNCHANGED subject
  /\ \/ subject = "resume" /\ Next /\ UNCHANGED <<outboxVars, gmailVars>>
     \/ /\ subject = "twice" /\ Twice!Next /\ up'[u2] = up[u2]
        /\ UNCHANGED <<outboxVars, gmailVars>>
     \/ /\ subject = "outbox" /\ Outbox!Next
        /\ requeues' = 0 \/ \E e \in {e1, e2} : ev'[e].status = "absent"
        /\ UNCHANGED <<resumeVars, gmailVars>>
     \/ subject = "gmail" /\ Gmail!SyncNext /\ UNCHANGED <<resumeVars, outboxVars, faults>>

(* The fairness of the modules, each for its subject; that of the outbox asks for nothing  *)
(* in its initial state.                                                                    *)
Calmly(A) == subject = "resume" /\ A
Doubled(A) == subject = "twice" /\ A
Syncing(A) == subject = "gmail" /\ A
First(u, j, jobs) == j \in {u} \X jobs /\ \A k \in jobs : scan[<<u, k>>].at = "none"

LiveFairness ==
  /\ Outbox!Fairness
  /\ \A u \in Uploads :
       /\ WF_vars(Calmly(RequestStep(u))) /\ WF_vars(Calmly(DeliverParse(u)))
       /\ WF_vars(Calmly(DeleteRow(u)))
       /\ WF_vars(Calmly(First(u, <<u, 1>>, {1}) /\ DeliverScan(<<u, 1>>)))
       /\ WF_vars(Calmly(ScanStep(<<u, 1>>)))
  /\ WF_vars(Calmly(ParseStep(good))) /\ WF_vars(Calmly(Replicate))
  /\ WF_vars(Doubled(Twice!RequestStep(u1))) /\ WF_vars(Doubled(Twice!DeliverParse(u1)))
  /\ WF_vars(Doubled(Twice!DeleteRow(u1)))
  /\ WF_vars(Doubled(\E j \in {u1} \X {1, 2} : First(u1, j, {1, 2}) /\ Twice!DeliverScan(j)))
  /\ \A j \in {u1} \X {1, 2} : WF_vars(Doubled(Twice!ScanStep(j)))
  /\ WF_vars(Doubled(Twice!ParseStep(good))) /\ WF_vars(Doubled(Twice!Replicate))
  /\ \A j \in {first, delta} : WF_gmailVars(Syncing(Gmail!SyncStep(j)))
  /\ WF_gmailVars(Syncing(Gmail!Expire /\ ~Gmail!Held))

LiveSpec == LiveInit /\ [][LiveNext]_liveVars /\ LiveFairness
-----------------------------------------------------------------------------
(* The properties of the modules, as far as they are the subject.          *)
ScansSettle ==
  /\ subject = "twice" \/ EveryScanSettles
  /\ subject # "twice" \/ Twice!EveryScanSettles
EventuallySettles == Outbox!EventuallySettles
RefinesDelivery == Outbox!RefinesDelivery
JobsEnd == subject # "gmail" \/ Gmail!JobsEnd
=============================================================================
