----------------------------- MODULE MCPipelines -----------------------------
(***************************************************************************)
(* TLC instance of the pipelines of the workers: the outbox, a resume's    *)
(* way through the scanner, the sync of a mailbox, and the companies and   *)
(* opportunities that emails arrive at.  They share no state here: a       *)
(* behaviour runs one of them, the subject, and leaves the others at their *)
(* initial state.  The uploads are the subject twice: two uploads with one *)
(* scan job each, and one upload whose job is there twice.  The sync is it *)
(* four times: with an exit and a lagging replica, with an exit, retries   *)
(* and a second process, with a failed call and retries, and with a lease  *)
(* that runs out under its worker and retries.                             *)
(***************************************************************************)
EXTENDS MCEventOutbox, GmailSync

CONSTANTS
  Subjects,                            \* the pipelines to run
  u1, u2, alice, good, bad, nobody,    \* values of ResumePipeline
  first, delta, p1, p2                 \* values of GmailSync

VARIABLES
  subject,
  up, row, hashes, quarantine, clean, uploaded, cleaned, scan, parse, files, linked, dels,
  companies, alias, opportunities, observed, rowLock, recruiters, mutex, arrival

Columns == {"pending", "scanning", "clean", "infected", "error"}

Resume == INSTANCE ResumePipeline WITH
  Uploads <- {u1, u2},
  UserOf <- [u \in {u1, u2} |-> alice],
  ContentOf <- [u \in {u1, u2} |-> IF u = u1 THEN good ELSE bad],
  Infected <- {bad}, Copies <- {1}, Attempts <- 2, Accepted <- Columns,
  ScannerFails <- FALSE, Outages <- TRUE, ReplicaLags <- FALSE,
  Linkable <- {}, Deletable <- {}, MaxFaults <- 1,
  Nobody <- nobody, shown <- files

Twice == INSTANCE ResumePipeline WITH
  Uploads <- {u1}, UserOf <- [u \in {u1} |-> alice], ContentOf <- [u \in {u1} |-> good],
  Infected <- {bad}, Copies <- {1, 2}, Attempts <- 2, Accepted <- Columns,
  ScannerFails <- FALSE, Outages <- TRUE, ReplicaLags <- FALSE,
  Linkable <- {}, Deletable <- {}, MaxFaults <- 2,
  Nobody <- nobody, shown <- files

Crashing == INSTANCE GmailSync WITH
  Pids <- {p1, p2}, SyncAttempts <- 2, ReadsLag <- FALSE,
  MaxFailures <- 0, MaxExits <- 1, MaxStalls <- 0

Failing == INSTANCE GmailSync WITH
  SyncAttempts <- 2, ReadsLag <- FALSE,
  MaxFailures <- 1, MaxExits <- 0, MaxStalls <- 0

Stalling == INSTANCE GmailSync WITH
  SyncAttempts <- 2, ReadsLag <- FALSE,
  MaxFailures <- 0, MaxExits <- 0, MaxStalls <- 1

\* Two emails of one company, and one of another of the same name.
Said(domain, role) == [names |-> {"acme"}, domain |-> domain, role |-> role, from |-> "pat"]

Arrivals == INSTANCE Opportunities WITH
  Jobs <- {"j1", "j2", "j3"},
  Mail <- [j1 |-> Said("acme.com", "engineer"), j2 |-> Said("acme.com", "engineer"),
           j3 |-> Said("acme.io", "senior engineer")],
  Similar <- [r \in {"engineer", "senior engineer"} |-> {r}],
  Attempts <- 2,
  job <- arrival

\* Without the count of faults, which the outbox and the uploads share.
outboxVars == <<ev, rep, pub, disp, job, requeues, fails>>
resumeVars == <<up, row, hashes, quarantine, clean, uploaded, cleaned, scan, parse, files,
                linked, dels>>
arrivalVars == <<companies, alias, opportunities, observed, rowLock, recruiters, mutex,
                 arrival>>

PipelinesInit ==
  /\ subject \in Subjects
  /\ Init /\ SyncInit /\ Arrivals!OppInit
  /\ IF subject = "twice" THEN Twice!Init ELSE Resume!Init

Uploading ==
  \/ subject = "resume" /\ Resume!Next
  \/ subject = "twice" /\ Twice!Next

Syncing ==
  \/ subject = "gmail" /\ SyncNext
  \/ subject = "crashing" /\ Crashing!SyncNext
  \/ subject = "failing" /\ Failing!SyncNext
  \/ subject = "stalling" /\ Stalling!SyncNext

PipelinesNext ==
  /\ UNCHANGED subject
  /\ \/ subject = "outbox" /\ Next /\ UNCHANGED <<resumeVars, syncVars, arrivalVars>>
     \/ Uploading /\ UNCHANGED <<outboxVars, syncVars, arrivalVars>>
     \/ Syncing /\ UNCHANGED <<outboxVars, faults, resumeVars, arrivalVars>>
     \/ /\ subject = "arrivals" /\ Arrivals!OppNext
        /\ UNCHANGED <<outboxVars, resumeVars, syncVars, faults>>

PipelinesSpec ==
  PipelinesInit /\ [][PipelinesNext]_<<subject, vars, resumeVars, syncVars, arrivalVars>>

\* The dispatchers are interchangeable, and the processes of the sync workers.
Alike == Permutations(Dispatchers) \cup Permutations({p1, p2})
-----------------------------------------------------------------------------
(* The types of the three that are typed, and the invariants of the       *)
(* instances, stated in their modules.                                     *)
TypesOK ==
  /\ TypeOK
  /\ subject = "resume" => Resume!TypeOK
  /\ subject = "twice" => Twice!TypeOK
  /\ subject = "gmail" => SyncTypeOK
  /\ subject = "crashing" => Crashing!SyncTypeOK
  /\ subject = "failing" => Failing!SyncTypeOK
  /\ subject = "stalling" => Stalling!SyncTypeOK
UploadsAreSafe ==
  IF subject = "twice" THEN Twice!UploadsHold /\ Twice!QuarantineBoundary
  ELSE Resume!UploadsHold /\ Resume!QuarantineBoundary
RacesAreContained == Arrivals!RacesAreContained
=============================================================================
