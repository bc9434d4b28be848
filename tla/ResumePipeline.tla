---------------------------- MODULE ResumePipeline ----------------------------
(***************************************************************************)
(* A resume's way from the upload request (resume-upload.service.ts)       *)
(* through quarantine storage, the malware scan (malware-scan.worker.ts)   *)
(* and the parse job (resume-parsing.worker.ts).  Requests of one user,    *)
(* the jobs of one upload and the replica run concurrently; the jobs reach *)
(* the workers the way EventDelivery promises, possibly twice.             *)
(*                                                                         *)
(* The code always writes scanning_status and status together (pending,    *)
(* scanning: pending; clean: ready; infected, error: failed), so a row has *)
(* one field for both.                                                     *)
(***************************************************************************)
EXTENDS Naturals, FiniteSets, FiniteSetsExt

CONSTANTS
  Uploads,       \* upload requests
  UserOf,        \* the user of an upload
  ContentOf,     \* what sha256 tells apart
  Infected,      \* contents in which the scanner finds threats
  Copies,        \* jobs an upload's event may get: they carry no jobId
  Nobody,        \* no upload
  Attempts,      \* attempts of DEFAULT_JOB_OPTIONS
  Accepted,      \* scan states the columns of user_resumes accept
  ScannerFails,  \* does the scanner throw?
  Outages,       \* do storage and database calls throw?
  ReplicaLags,   \* is dbRouter.read() an asynchronous replica or the master?
  Linkable,      \* uploads some application is linked to
  Deletable,     \* uploads whose version the user deletes
  MaxFaults      \* process exits and lost commit answers: a bound

Contents == {ContentOf[u] : u \in Uploads}

ASSUME PipelineAssumption ==
  /\ DOMAIN UserOf = Uploads /\ DOMAIN ContentOf = Uploads
  /\ Nobody \notin Uploads
  /\ Attempts \in Nat \ {0}
  /\ MaxFaults \in Nat
  /\ {"pending", "scanning"} \subseteq Accepted

VARIABLES
  up,          \* the upload requests
  row,         \* the rows of user_resumes, one per upload
  hashes,      \* the contents with a row in resume_hashes
  quarantine,  \* the uploads whose object is in quarantine storage
  clean,       \* the contents whose object is in clean storage
  uploaded,    \* uploads with a committed RESUME_UPLOADED event
  cleaned,     \* uploads with a committed RESUME_CLEANED event
  scan,        \* the malware-scan jobs
  parse,       \* the parse jobs: their jobId is the content hash
  shown,       \* what the replica shows: rows and hashes
  linked,      \* uploads some application_resumes row points to
  dels,        \* where deleteVersion is for each upload
  faults

reqVars == <<up, hashes, uploaded>>
jobVars == <<scan, parse, cleaned>>
userVars == <<linked, dels>>
vars == <<up, row, hashes, quarantine, clean, uploaded, cleaned, scan, parse, shown,
          linked, dels, faults>>

NoRow == [exists |-> FALSE, active |-> FALSE, version |-> 0, state |-> "pending"]

Row == [exists : BOOLEAN, active : BOOLEAN, version : Nat,
        state : {"pending", "scanning", "clean", "infected", "error"}]

Request == [at : {"idle", "stored", "hashed", "versioned", "superseded", "undo", "done", "failed"},
            dedup : BOOLEAN, version : Nat, born : Nat, hit : SUBSET Uploads]

ScanJob == [at : {"none", "waiting", "download", "scan", "error", "infected", "purge",
                  "copy", "drop", "promote", "completed", "failed"}, made : 0..Attempts]

ParseJob == [at : {"none", "waiting", "write", "completed", "failed"}, made : 0..Attempts,
             of : Uploads \cup {Nobody}, found : Uploads \cup {Nobody}]

TypeOK ==
  /\ up \in [Uploads -> Request]
  /\ row \in [Uploads -> Row]
  /\ hashes \in SUBSET Contents
  /\ quarantine \in SUBSET Uploads
  /\ clean \in SUBSET Contents
  /\ uploaded \in SUBSET Uploads
  /\ cleaned \in SUBSET uploaded
  /\ scan \in [Uploads \X Copies -> ScanJob]
  /\ parse \in [Contents -> ParseJob]
  /\ shown \in [rows : SUBSET Uploads, hashes : SUBSET Contents]
  /\ linked \in SUBSET {u \in Uploads : row[u].exists}
  /\ dels \in [Uploads -> {"no", "checked", "done"}]
  /\ faults \in 0..MaxFaults

Init ==
  /\ up = [u \in Uploads |->
             [at |-> "idle", dedup |-> FALSE, version |-> 0, born |-> 0, hit |-> {}]]
  /\ row = [u \in Uploads |-> NoRow]
  /\ hashes = {} /\ quarantine = {} /\ clean = {} /\ uploaded = {} /\ cleaned = {}
  /\ scan = [j \in Uploads \X Copies |-> [at |-> "none", made |-> 0]]
  /\ parse = [c \in Contents |-> [at |-> "none", made |-> 0, of |-> Nobody, found |-> Nobody]]
  /\ shown = [rows |-> {}, hashes |-> {}]
  /\ linked = {} /\ dels = [u \in Uploads |-> "no"]
  /\ faults = 0

-----------------------------------------------------------------------------
(* The request: ResumeUploadService.upload.                                *)

Existing == {u \in Uploads : row[u].exists}

ReadRows == IF ReplicaLags THEN shown.rows ELSE Existing
ReadHashes == IF ReplicaLags THEN shown.hashes ELSE hashes

Moves(u, r) == up' = [up EXCEPT ![u] = r]

Store(u) ==
  /\ up[u].at = "idle"
  /\ Moves(u, [up[u] EXCEPT !.at = "stored", !.dedup = ContentOf[u] \in ReadHashes])
  /\ quarantine' = quarantine \cup {u}
  /\ UNCHANGED <<row, hashes, clean, uploaded, shown, faults>> /\ UNCHANGED <<jobVars, userVars>>

\* The insert may lose the race on resume_hashes.hash (P2002); the winner's row is then
\* looked up on the replica, and when it is not there yet the request throws.
RecordHash(u) ==
  /\ up[u].at = "stored"
  /\ LET lost == ~up[u].dedup /\ ContentOf[u] \in hashes /\ ContentOf[u] \notin ReadHashes
     IN  Moves(u, [up[u] EXCEPT !.at = IF lost THEN "failed" ELSE "hashed"])
  /\ hashes' = hashes \cup {ContentOf[u]}
  /\ UNCHANGED <<row, quarantine, clean, uploaded, shown, faults>>
  /\ UNCHANGED <<jobVars, userVars>>

\* currentMaxRow is read outside the transaction.
ReadVersion(u) ==
  /\ up[u].at = "hashed"
  /\ LET versions == {row[o].version : o \in {o \in ReadRows : UserOf[o] = UserOf[u]}}
     IN  Moves(u, [up[u] EXCEPT !.at = "versioned", !.version = 1 + Max({0} \cup versions)])
  /\ UNCHANGED <<row, hashes, quarantine, clean, uploaded, shown, faults>>
  /\ UNCHANGED <<jobVars, userVars>>

ActiveRows(u) == {o \in Existing : UserOf[o] = UserOf[u] /\ row[o].active}

\* The transaction's updateMany, at READ COMMITTED: it sees the rows committed by now.
\* Row locks only order the commits of requests that hit the same rows.
Supersede(u) ==
  /\ up[u].at = "versioned"
  /\ Moves(u, [up[u] EXCEPT !.at = "superseded", !.hit = ActiveRows(u),
                            !.born = 1 + Max({up[o].born : o \in Uploads})])
  /\ UNCHANGED <<row, hashes, quarantine, clean, uploaded, shown, faults>>
  /\ UNCHANGED <<jobVars, userVars>>

NewRow(u) == [exists |-> TRUE, active |-> TRUE, version |-> up[u].version, state |-> "pending"]

RowsAfterCommit(u) ==
  [o \in Uploads |-> IF o = u THEN NewRow(u)
                     ELSE IF o \in up[u].hit THEN [row[o] EXCEPT !.active = FALSE] ELSE row[o]]

\* Row and event commit together.  The answer of the commit may be lost, and the request
\* then takes it for a failure.
Commit(u) ==
  /\ up[u].at = "superseded"
  /\ row' = RowsAfterCommit(u)
  /\ uploaded' = uploaded \cup {u}
  /\ \/ Moves(u, [up[u] EXCEPT !.at = "done"]) /\ UNCHANGED faults
     \/ /\ faults < MaxFaults /\ faults' = faults + 1
        /\ Moves(u, [up[u] EXCEPT !.at = "undo"])
  /\ UNCHANGED <<hashes, quarantine, clean, shown>> /\ UNCHANGED <<jobVars, userVars>>

\* The transaction throws before or after its first statement.
Rollback(u) ==
  /\ Outages
  /\ up[u].at \in {"versioned", "superseded"}
  /\ Moves(u, [up[u] EXCEPT !.at = "undo"])
  /\ UNCHANGED <<row, hashes, quarantine, clean, uploaded, shown, faults>>
  /\ UNCHANGED <<jobVars, userVars>>

\* The catch handler of the transaction; its own failure is swallowed.
Compensate(u) ==
  /\ up[u].at = "undo"
  /\ Moves(u, [up[u] EXCEPT !.at = "failed"])
  /\ \/ quarantine' = quarantine \ {u}
     \/ Outages /\ UNCHANGED quarantine
  /\ UNCHANGED <<row, hashes, clean, uploaded, shown, faults>> /\ UNCHANGED <<jobVars, userVars>>

\* The server exits, or a call outside the transaction throws: nothing is cleaned up.
Abandon(u) ==
  /\ up[u].at \in {"stored", "hashed", "versioned", "superseded", "undo"}
  /\ faults < MaxFaults /\ faults' = faults + 1
  /\ Moves(u, [up[u] EXCEPT !.at = "failed"])
  /\ UNCHANGED <<row, hashes, quarantine, clean, uploaded, shown>>
  /\ UNCHANGED <<jobVars, userVars>>

RequestStep(u) ==
  RecordHash(u) \/ ReadVersion(u) \/ Supersede(u) \/ Commit(u) \/ Rollback(u) \/ Compensate(u)

-----------------------------------------------------------------------------
(* The malware-scan jobs, j = <<u, copy>>: processMalwareScanJob.          *)

Step(j, at) == scan' = [scan EXCEPT ![j].at = at]

Writable(u, s) == row[u].exists /\ s \in Accepted
WriteRow(u, s) == Writable(u, s) /\ row' = [row EXCEPT ![u].state = s]

\* The event reaches the queue; no jobId stops a second job.
DeliverScan(j) ==
  /\ j[1] \in uploaded
  /\ scan[j].at = "none"
  /\ Step(j, "waiting")
  /\ UNCHANGED <<row, quarantine, clean, parse, cleaned, shown, faults>>
  /\ UNCHANGED <<reqVars, userVars>>

StartScan(j) ==
  /\ scan[j].at = "waiting"
  /\ WriteRow(j[1], "scanning")
  /\ Step(j, "download")
  /\ UNCHANGED <<quarantine, clean, parse, cleaned, shown, faults>>
  /\ UNCHANGED <<reqVars, userVars>>

Download(j) ==
  /\ scan[j].at = "download"
  /\ j[1] \in quarantine
  /\ Step(j, "scan")
  /\ UNCHANGED <<row, quarantine, clean, parse, cleaned, shown, faults>>
  /\ UNCHANGED <<reqVars, userVars>>

\* Mutant: an infected file takes the clean branch.
VerdictIgnored(j) ==
  /\ scan[j].at = "scan"
  /\ Step(j, "copy")
  /\ UNCHANGED <<row, quarantine, clean, parse, cleaned, shown, faults>>
  /\ UNCHANGED <<reqVars, userVars>>

Verdict(j) ==
  /\ scan[j].at = "scan"
  /\ \/ Step(j, IF ContentOf[j[1]] \in Infected THEN "infected" ELSE "copy")
     \/ ScannerFails /\ Step(j, "error")
  /\ UNCHANGED <<row, quarantine, clean, parse, cleaned, shown, faults>>
  /\ UNCHANGED <<reqVars, userVars>>

\* BullMQ after an attempt that threw.
Thrown(job) ==
  [job EXCEPT !.made = @ + 1, !.at = IF job.made + 1 < Attempts THEN "waiting" ELSE "failed"]

\* Mutant: the error is thrown again without a word in the row.
MarkErrorSilently(j) ==
  /\ scan[j].at = "error"
  /\ scan' = [scan EXCEPT ![j] = Thrown(@)]
  /\ UNCHANGED <<row, quarantine, clean, parse, cleaned, shown, faults>>
  /\ UNCHANGED <<reqVars, userVars>>

\* The scanner's error is recorded and thrown again.
MarkError(j) ==
  /\ scan[j].at = "error"
  /\ WriteRow(j[1], "error")
  /\ scan' = [scan EXCEPT ![j] = Thrown(@)]
  /\ UNCHANGED <<quarantine, clean, parse, cleaned, shown, faults>>
  /\ UNCHANGED <<reqVars, userVars>>

MarkInfected(j) ==
  /\ scan[j].at = "infected"
  /\ WriteRow(j[1], "infected")
  /\ Step(j, "purge")
  /\ UNCHANGED <<quarantine, clean, parse, cleaned, shown, faults>>
  /\ UNCHANGED <<reqVars, userVars>>

Purge(j) ==
  /\ scan[j].at = "purge"
  /\ quarantine' = quarantine \ {j[1]}
  /\ Step(j, "completed")
  /\ UNCHANGED <<row, clean, parse, cleaned, shown, faults>> /\ UNCHANGED <<reqVars, userVars>>

\* Mutant: the quarantine object is deleted before the copy is made.
CopyLate(j) ==
  /\ scan[j].at = "copy"
  /\ quarantine' = quarantine \ {j[1]}
  /\ Step(j, "drop")
  /\ UNCHANGED <<row, clean, parse, cleaned, shown, faults>>
  /\ UNCHANGED <<reqVars, userVars>>

Copy(j) ==
  /\ scan[j].at = "copy"
  /\ j[1] \in quarantine
  /\ clean' = clean \cup {ContentOf[j[1]]}
  /\ Step(j, "drop")
  /\ UNCHANGED <<row, quarantine, parse, cleaned, shown, faults>>
  /\ UNCHANGED <<reqVars, userVars>>

Drop(j) ==
  /\ scan[j].at = "drop"
  /\ quarantine' = quarantine \ {j[1]}
  /\ Step(j, "promote")
  /\ UNCHANGED <<row, clean, parse, cleaned, shown, faults>> /\ UNCHANGED <<reqVars, userVars>>

\* Row and RESUME_CLEANED event commit together.
Promote(j) ==
  /\ scan[j].at = "promote"
  /\ WriteRow(j[1], "clean")
  /\ cleaned' = cleaned \cup {j[1]}
  /\ Step(j, "completed")
  /\ UNCHANGED <<quarantine, clean, parse, shown, faults>> /\ UNCHANGED <<reqVars, userVars>>

Running(j) == scan[j].at \notin {"none", "completed", "failed"}

\* A deleted row, a refused value, a missing object, or an outage.
ScanThrows(j) ==
  /\ \/ scan[j].at = "waiting" /\ ~Writable(j[1], "scanning")
     \/ scan[j].at = "error" /\ ~Writable(j[1], "error")
     \/ scan[j].at = "infected" /\ ~Writable(j[1], "infected")
     \/ scan[j].at = "promote" /\ ~Writable(j[1], "clean")
     \/ scan[j].at \in {"download", "copy"} /\ j[1] \notin quarantine
     \/ Outages /\ Running(j)
  /\ scan' = [scan EXCEPT ![j] = Thrown(@)]
  /\ UNCHANGED <<row, quarantine, clean, parse, cleaned, shown, faults>>
  /\ UNCHANGED <<reqVars, userVars>>

\* The worker exits; BullMQ restarts the stalled job.
ScanStalls(j) ==
  /\ Running(j) /\ scan[j].at # "waiting"
  /\ faults < MaxFaults /\ faults' = faults + 1
  /\ Step(j, "waiting")
  /\ UNCHANGED <<row, quarantine, clean, parse, cleaned, shown>> /\ UNCHANGED <<reqVars, userVars>>

ScanStep(j) ==
  \/ StartScan(j) \/ Download(j) \/ Verdict(j) \/ MarkError(j) \/ MarkInfected(j) \/ Purge(j)
  \/ Copy(j) \/ Drop(j) \/ Promote(j) \/ ScanThrows(j)

-----------------------------------------------------------------------------
(* The parse jobs, one per content: processResumeParsingJob.               *)

\* addResumeParsingJob: a job with this content's jobId swallows later ones.
DeliverParse(u) ==
  LET c == ContentOf[u]
  IN  /\ u \in cleaned
      /\ parse[c].at = "none"
      /\ parse' = [parse EXCEPT ![c] = [@ EXCEPT !.at = "waiting", !.of = u]]
      /\ UNCHANGED <<row, quarantine, clean, scan, cleaned, shown, faults>>
      /\ UNCHANGED <<reqVars, userVars>>

Matching(c) ==
  {o \in ReadRows : UserOf[o] = UserOf[parse[c].of] /\ ContentOf[o] = c}

\* The newest row of the user with this content, on the replica; none ends the job.
ParseRead(c) ==
  /\ parse[c].at = "waiting"
  /\ c \in clean
  /\ IF Matching(c) = {}
     THEN parse' = [parse EXCEPT ![c].at = "completed"]
     ELSE \E o \in Matching(c) :
            /\ \A other \in Matching(c) : up[other].born <= up[o].born
            /\ parse' = [parse EXCEPT ![c] = [@ EXCEPT !.at = "write", !.found = o]]
  /\ UNCHANGED <<row, quarantine, clean, scan, cleaned, shown, faults>>
  /\ UNCHANGED <<reqVars, userVars>>

ParseWrite(c) ==
  /\ parse[c].at = "write"
  /\ WriteRow(parse[c].found, "clean")
  /\ parse' = [parse EXCEPT ![c].at = "completed"]
  /\ UNCHANGED <<quarantine, clean, scan, cleaned, shown, faults>>
  /\ UNCHANGED <<reqVars, userVars>>

ParseThrows(c) ==
  /\ \/ parse[c].at = "waiting" /\ c \notin clean
     \/ parse[c].at = "write" /\ ~Writable(parse[c].found, "clean")
     \/ Outages /\ parse[c].at \in {"waiting", "write"}
  /\ parse' = [parse EXCEPT ![c] = Thrown(@)]
  /\ UNCHANGED <<row, quarantine, clean, scan, cleaned, shown, faults>>
  /\ UNCHANGED <<reqVars, userVars>>

ParseStep(c) == ParseRead(c) \/ ParseWrite(c) \/ ParseThrows(c)

-----------------------------------------------------------------------------
(* Versions and applications.                                              *)

\* linkApplicationResume, with a row read as active earlier.
Link(u) ==
  /\ u \in Linkable
  /\ row[u].exists
  /\ linked' = linked \cup {u}
  /\ UNCHANGED <<row, quarantine, clean, shown, dels, faults>> /\ UNCHANGED <<reqVars, jobVars>>

\* deleteVersion looks for links ...
CheckLinks(u) ==
  /\ u \in Deletable
  /\ dels[u] = "no"
  /\ row[u].exists
  /\ u \notin linked
  /\ dels' = [dels EXCEPT ![u] = "checked"]
  /\ UNCHANGED <<row, quarantine, clean, shown, linked, faults>>
  /\ UNCHANGED <<reqVars, jobVars>>

\* ... and deletes the row in a later statement; the links go with it (onDelete: Cascade).
DeleteRow(u) ==
  /\ dels[u] = "checked"
  /\ dels' = [dels EXCEPT ![u] = "done"]
  /\ row' = [row EXCEPT ![u] = NoRow]
  /\ linked' = linked \ {u}
  /\ UNCHANGED <<quarantine, clean, shown, faults>> /\ UNCHANGED <<reqVars, jobVars>>

Replicate ==
  /\ ReplicaLags
  /\ shown # [rows |-> Existing, hashes |-> hashes]
  /\ shown' = [rows |-> Existing, hashes |-> hashes]
  /\ UNCHANGED <<row, quarantine, clean, faults>> /\ UNCHANGED <<reqVars, jobVars, userVars>>

Next ==
  \/ \E u \in Uploads :
       \/ Store(u) \/ RequestStep(u) \/ Abandon(u)
       \/ DeliverParse(u) \/ Link(u) \/ CheckLinks(u) \/ DeleteRow(u)
  \/ \E j \in Uploads \X Copies : DeliverScan(j) \/ ScanStep(j) \/ ScanStalls(j)
  \/ \E c \in Contents : ParseStep(c)
  \/ Replicate

Spec == Init /\ [][Next]_vars

\* Requests, jobs and replication run; an event gets its first job, the second is a
\* hazard and has no fairness.
Fairness ==
  /\ \A u \in Uploads :
       /\ WF_vars(RequestStep(u)) /\ WF_vars(DeliverParse(u)) /\ WF_vars(DeleteRow(u))
       /\ WF_vars(\E j \in {u} \X Copies : (\A k \in Copies : scan[<<u, k>>].at = "none")
                                           /\ DeliverScan(j))
  /\ \A j \in Uploads \X Copies : WF_vars(ScanStep(j))
  /\ \A c \in Contents : WF_vars(ParseStep(c))
  /\ WF_vars(Replicate)

FairSpec == Spec /\ Fairness

-----------------------------------------------------------------------------
(* Properties of the pipeline.                                             *)

\* Clean storage holds no file in which the scanner finds threats, and a row is ready only
\* when its content is there: neither a retried or duplicated scan job, nor the parse job,
\* which promotes whatever row of the content is the newest, gets around the quarantine.
QuarantineBoundary ==
  /\ clean \cap Infected = {}
  /\ \A u \in Existing : row[u].state = "clean" => ContentOf[u] \in clean

\* The bytes of an accepted upload survive, in quarantine or in clean storage, until the
\* scanner has condemned them: the worker deletes the quarantine object after the copy, and
\* the request deletes it only when its transaction has failed.
BytesKept ==
  \A u \in Existing :
    up[u].at = "done" /\ ContentOf[u] \notin Infected
      => u \in quarantine \/ ContentOf[u] \in clean

\* A user who has uploaded a resume and deleted none has an active one, whatever requests
\* overlap (upload's updateMany and create).
SomeActive ==
  \A u \in Existing :
    (\A o \in Uploads : UserOf[o] = UserOf[u] => dels[o] # "done")
      => ActiveRows(u) # {}

\* An accepted upload is never lost: not its bytes, and not the one that is active.
UploadsHold == BytesKept /\ SomeActive

Troubled == Outages \/ faults > 0 \/ Cardinality(Copies) > 1

\* Every scan gets to a verdict that stays, although the scanner may fail, the replica lags
\* and the parse job promotes rows that are not scanned yet.  When calls to the storage and
\* the database fail, a process dies, an answer is lost, or the job is there twice, the row
\* may be left scanning for ever, but then not in silence: a job of it has used up its
\* attempts (processMalwareScanJob).
EveryScanSettles ==
  <>[](\A u \in Existing :
         \/ row[u].state \in {"clean", "infected", "error"}
         \/ Troubled /\ \E j \in DOMAIN scan : j[1] = u /\ scan[j].at = "failed")

-----------------------------------------------------------------------------
(* What the tests say, and the code does not do.                           *)

\* A second upload gets the next version and supersedes the active one
\* (resume-versioning.service.test.ts).
SecondUploadSupersedes ==
  \A u, o \in Existing :
    u # o /\ UserOf[u] = UserOf[o]
      => row[u].version # row[o].version /\ ~(row[u].active /\ row[o].active)
=============================================================================
