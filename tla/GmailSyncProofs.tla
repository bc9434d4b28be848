--------------------------- MODULE GmailSyncProofs ---------------------------
(***************************************************************************)
(* Theorems about GmailSync: its types, that one job at a time syncs, that *)
(* a job that reports completion has saved the mailbox it found, and that  *)
(* the stored cursor runs ahead of the messages by two resumptions only.   *)
(***************************************************************************)
EXTENDS GmailSync, NumberFacts, SequenceTheorems

-----------------------------------------------------------------------------
(* Types.                                                                  *)

\* A job, its indices into ops, its page of messages that have arrived, and the attempt it
\* is on.
JobOK(b) ==
  /\ b \in SyncJob
  /\ b.own <= Len(ops) /\ b.op <= Len(ops) /\ b.batch <= Len(ops)
  /\ b.page \subseteq 1..mail /\ b.start <= mail
  /\ b.at = "waiting" => b.made < SyncAttempts
  /\ b.at \notin {"waiting", "done", "failed"} => b.pid \in Pids /\ b.made > 0
  /\ b.at = "process" => b.page # {} /\ Max(b.page) \in saved

TablesOK ==
  /\ mail \in Mailbox..MaxMail
  /\ ckpt \in Checkpoint /\ ops \in Seq(Operation) /\ cursor \in 0..mail
  /\ saved \in SUBSET (1..mail) /\ processed \in SUBSET saved /\ dropped \in SUBSET (1..mail)
  /\ skipped \in SUBSET (1..mail)
  /\ shown \in [ckpt : Checkpoint, ops : Seq(Operation), cursor : 0..mail]
  /\ Len(shown.ops) <= Len(ops)
  /\ failures \in 0..MaxFailures /\ exits \in 0..MaxExits /\ stalls \in 0..MaxStalls

TypeInv ==
  /\ TablesOK
  /\ sync \in [SyncJobs -> SyncJob] /\ \A j \in SyncJobs : JobOK(sync[j])

\* What no step takes back.
Grows ==
  /\ mail' >= mail /\ Len(ops') >= Len(ops)
  /\ saved \subseteq saved' /\ dropped \subseteq dropped' /\ skipped \subseteq skipped'

\* The typed state is a state of the type invariant of the model.
LEMMA TypeInvImplies ==
  ASSUME SyncAssumption, TypeInv
  PROVE  SyncTypeOK
<1>1. mail \in 0..MaxMail /\ cursor \in 0..MaxMail
  BY DEF TypeInv, TablesOK, SyncAssumption
<1>2. shown \in [ckpt : Checkpoint, ops : Seq(Operation), cursor : 0..MaxMail]
  BY <1>1 DEF TypeInv, TablesOK
<1>3. ASSUME NEW j \in SyncJobs
      PROVE  {sync[j].own, sync[j].op, sync[j].batch} \subseteq 0..Len(ops)
  <2>1. Len(ops) \in Nat
    BY DEF TypeInv, TablesOK
  <2> QED
    BY <2>1 DEF TypeInv, JobOK, SyncJob
<1> QED
  BY <1>1, <1>2, <1>3 DEF TypeInv, TablesOK, SyncTypeOK

\* A sequence keeps its type and its length when an entry is replaced.
LEMMA OpsTypes ==
  ASSUME SyncAssumption, NEW s \in Seq(Operation), NEW i, NEW h \in 0..MaxMail
  PROVE  /\ \A x \in {"running", "completed", "failed"} :
              LET t == [s EXCEPT ![i].op = x] IN t \in Seq(Operation) /\ Len(t) = Len(s)
         /\ \A x \in {"pending", "processing", "completed"} :
              LET t == [s EXCEPT ![i].batch = x] IN t \in Seq(Operation) /\ Len(t) = Len(s)
         /\ LET t == Append(s, [op |-> "running", batch |-> "pending", history |-> h])
            IN  t \in Seq(Operation) /\ Len(t) = Len(s) + 1
<1>1. ASSUME NEW x \in {"running", "completed", "failed"}
      PROVE  LET t == [s EXCEPT ![i].op = x] IN t \in Seq(Operation) /\ Len(t) = Len(s)
  <2>1. [s EXCEPT ![i].op = x] = [s EXCEPT ![i] = [s[i] EXCEPT !.op = x]]
    OBVIOUS
  <2>2. CASE i \in 1..Len(s)
    <3>1. s[i] \in Operation
      BY <2>2
    <3>2. [s[i] EXCEPT !.op = x] \in Operation
      BY <3>1 DEF Operation
    <3> QED
      BY <2>1, <2>2, <3>2, ExceptSeq
  <2>3. CASE i \notin 1..Len(s)
    <3>1. [s EXCEPT ![i].op = x] = s
      BY <2>3
    <3> QED
      BY <3>1
  <2> QED
    BY <2>2, <2>3
<1>2. ASSUME NEW x \in {"pending", "processing", "completed"}
      PROVE  LET t == [s EXCEPT ![i].batch = x] IN t \in Seq(Operation) /\ Len(t) = Len(s)
  <2>1. [s EXCEPT ![i].batch = x] = [s EXCEPT ![i] = [s[i] EXCEPT !.batch = x]]
    OBVIOUS
  <2>2. CASE i \in 1..Len(s)
    <3>1. s[i] \in Operation
      BY <2>2
    <3>2. [s[i] EXCEPT !.batch = x] \in Operation
      BY <3>1 DEF Operation
    <3> QED
      BY <2>1, <2>2, <3>2, ExceptSeq
  <2>3. CASE i \notin 1..Len(s)
    <3>1. [s EXCEPT ![i].batch = x] = s
      BY <2>3
    <3> QED
      BY <3>1
  <2> QED
    BY <2>2, <2>3
<1>3. [op |-> "running", batch |-> "pending", history |-> h] \in Operation
  BY DEF Operation
<1> QED
  BY <1>1, <1>2, <1>3, AppendProperties

\* The latest entry of a kind is an index, or 0.
LEMMA LatestType ==
  ASSUME NEW s \in Seq(Operation), NEW P
  PROVE  Latest(s, P) \in 0..Len(s)
<1> DEFINE I == {i \in 1..Len(s) : s[i] \in P}
<1>1. Len(s) \in Nat
  OBVIOUS
<1>2. IsFiniteSet(I) /\ I \subseteq Nat
  BY <1>1, SubsetsOfIntervals
<1>3. IsFiniteSet({0} \cup I)
  <2>1. IsFiniteSet(I \cup {0})
    BY <1>2, FS_AddElement
  <2>2. I \cup {0} = {0} \cup I
    OBVIOUS
  <2> QED
    BY <2>1, <2>2
<1>4. Max({0} \cup I) \in {0} \cup I
  BY <1>2, <1>3, FiniteMax
<1> QED
  BY <1>1, <1>4 DEF Latest

\* A page with messages has a newest one.
LEMMA PageTypes ==
  ASSUME NEW n \in Nat, NEW S \in SUBSET (1..n), S # {}
  PROVE  /\ Max(S) \in S /\ (\A m \in S : m <= Max(S))
         /\ Min(S) \in S /\ (\A m \in S : Min(S) <= m)
<1>1. IsFiniteSet(S) /\ S \subseteq Nat
  BY SubsetsOfIntervals
<1> QED
  BY <1>1, FiniteMax, MinIsLeast

\* What the checkpoint service writes is a checkpoint.
LEMMA CheckpointTypes ==
  ASSUME SyncAssumption, ckpt \in Checkpoint
  PROVE  /\ \A t \in 0..MaxMail, o \in Owners : Advanced(t, o) \in Checkpoint
         /\ \A w : Released(w) \in Checkpoint
         /\ [ckpt EXCEPT !.lease = "past"] \in Checkpoint
         /\ [ckpt EXCEPT !.lease = "live"] \in Checkpoint
<1>1. Unheld \in Owners /\ 0 \in 0..MaxMail
  BY DEF Owners, SyncAssumption
<1>2. \A t \in 0..MaxMail, o \in Owners : Advanced(t, o) \in Checkpoint
  <2>1. ASSUME NEW t \in 0..MaxMail, NEW o \in Owners PROVE Advanced(t, o) \in Checkpoint
    <3>0. ckpt.version \in Nat /\ ckpt.version + 1 \in Nat
      BY DEF Checkpoint
    <3>1. [ckpt EXCEPT !.token = t, !.owner = o, !.lease = "live", !.version = @ + 1,
                       !.status = "syncing"] \in Checkpoint
      BY <3>0 DEF Checkpoint
    <3>2. [ckpt EXCEPT !.token = 0, !.status = "idle", !.owner = Unheld, !.lease = "null",
                       !.version = @ + 1] \in Checkpoint
      BY <1>1, <3>0 DEF Checkpoint
    <3> QED
      BY <3>1, <3>2 DEF Advanced
  <2> QED
    BY <2>1
<1>3. \A w : Released(w) \in Checkpoint
  BY <1>1 DEF Released, Checkpoint
<1>4. /\ [ckpt EXCEPT !.lease = "past"] \in Checkpoint
      /\ [ckpt EXCEPT !.lease = "live"] \in Checkpoint
  BY DEF Checkpoint
<1> QED
  BY <1>2, <1>3, <1>4

\* A job that has thrown, or that starts afresh, is well-formed.
LEMMA FreshTypes ==
  ASSUME SyncAssumption, TablesOK, NEW n \in 0..SyncAttempts
  PROVE  /\ n < SyncAttempts => JobOK(Fresh(n))
         /\ n \in 1..SyncAttempts => JobOK(Thrown(n)) /\ Thrown(n).at \in {"waiting", "failed"}
         /\ JobOK([Fresh(n) EXCEPT !.at = "done"])
<1>1. /\ 0 \in 0..MaxMail /\ SyncAttempts \in Nat /\ mail \in Nat /\ Len(ops) \in Nat
      /\ Unheld \in Owners
  BY DEF SyncAssumption, TablesOK, Owners
<1>2. Fresh(n) \in SyncJob
  BY <1>1 DEF Fresh, SyncJob
<1>3. ASSUME NEW at \in {"done", "failed"} PROVE JobOK([Fresh(n) EXCEPT !.at = at])
  <2>1. PICK b : b = [Fresh(n) EXCEPT !.at = at]
    OBVIOUS
  <2>2. /\ b.at = at /\ b.own = 0 /\ b.op = 0 /\ b.batch = 0 /\ b.page = {} /\ b.start = 0
    BY <2>1 DEF Fresh
  <2>3. b \in SyncJob
    BY <1>2, <2>1 DEF SyncJob
  <2>4. JobOK(b)
    BY <1>1, <2>2, <2>3 DEF JobOK
  <2> QED
    BY <2>1, <2>4
<1>4. n < SyncAttempts => JobOK(Fresh(n))
  BY <1>1, <1>2 DEF Fresh, JobOK
<1>5. n \in 1..SyncAttempts => JobOK(Thrown(n)) /\ Thrown(n).at \in {"waiting", "failed"}
  BY <1>1, <1>3, <1>4 DEF Thrown, Fresh
<1> QED
  BY <1>3, <1>4, <1>5

\* Growing tables keep a job well-formed.
LEMMA JobStays ==
  ASSUME NEW b, JobOK(b), TablesOK, TablesOK', Grows
  PROVE  JobOK(b)'
<1>1. b \in SyncJob /\ mail \in Nat /\ mail' \in Nat /\ Len(ops) \in Nat /\ Len(ops') \in Nat
  BY SMTT(20) DEF JobOK, TablesOK
<1>2. 1..mail \subseteq 1..mail'
  BY <1>1 DEF Grows
<1> QED
  BY <1>1, <1>2 DEF JobOK, Grows, SyncJob

Steps == SyncSteps \cup {"claimed", "complete", "compat", "finish", "release", "publish",
                         "fail", "catch", "blame"}

\* A job that goes on keeps its process and its attempt.
Moves(j, b) == sync' = [sync EXCEPT ![j] = b]

GoesOn(j, c) ==
  /\ c \in SyncJob /\ Moves(j, c) /\ Busy(j)
  /\ c.at \in Steps \ {"process"} /\ c.pid = sync[j].pid /\ c.made = sync[j].made
  /\ c.own <= Len(ops') /\ c.op <= Len(ops') /\ c.batch <= Len(ops')
  /\ c.page \subseteq 1..mail /\ c.start <= mail

\* A job that goes on is well-formed, whatever it keeps or learns on the way.
LEMMA GoesOnTypes ==
  ASSUME SyncAssumption, TypeInv, NEW j \in SyncJobs, NEW c, GoesOn(j, c), TablesOK', Grows
  PROVE  JobOK(c)'
<1>1. JobOK(sync[j]) /\ mail \in Nat /\ mail' \in Nat
  BY DEF TypeInv, TablesOK
<1>2. 1..mail \subseteq 1..mail'
  BY <1>1 DEF Grows
<1>3. c \in SyncJob /\ c.start \in Nat
  BY DEF GoesOn, SyncJob
<1> QED
  BY <1>1, <1>2, <1>3 DEF JobOK, GoesOn, Grows, Busy, Steps, SyncSteps

\* A step that only changes where the job is.
LEMMA GoesTypes ==
  ASSUME SyncAssumption, TypeInv, NEW j \in SyncJobs, Busy(j), NEW s \in Steps \ {"process"},
         Goes(j, s), Len(ops') >= Len(ops), ops' \in Seq(Operation)
  PROVE  \E c : GoesOn(j, c) /\ c.at = s
<1>1. JobOK(sync[j]) /\ Len(ops) \in Nat /\ Len(ops') \in Nat
  BY DEF TypeInv, TablesOK
<1>2. PICK c : c = [sync[j] EXCEPT !.at = s]
  OBVIOUS
<1>3. c \in SyncJob /\ c.at = s /\ c.pid = sync[j].pid /\ c.made = sync[j].made
      /\ c.own = sync[j].own /\ c.op = sync[j].op /\ c.batch = sync[j].batch
      /\ c.page = sync[j].page /\ c.start = sync[j].start
  BY <1>1, <1>2 DEF JobOK, SyncJob, Steps
<1>4. Moves(j, c)
  BY <1>2 DEF Goes, Moves
<1>5. c.own \in Nat /\ c.op \in Nat /\ c.batch \in Nat
  BY <1>3 DEF SyncJob
<1> QED
  BY <1>1, <1>3, <1>4, <1>5 DEF GoesOn, JobOK

\* What a step of a job leaves of the tables.
TablesKept ==
  /\ UNCHANGED <<mail, shown>>
  /\ ckpt' \in Checkpoint /\ ops' \in Seq(Operation) /\ Len(ops') >= Len(ops)
  /\ cursor' \in 0..mail
  /\ saved' \in SUBSET (1..mail) /\ saved \subseteq saved'
  /\ processed' \in SUBSET saved'
  /\ dropped' \in SUBSET (1..mail) /\ dropped \subseteq dropped'
  /\ skipped' \in SUBSET (1..mail) /\ skipped \subseteq skipped'
  /\ failures' \in 0..MaxFailures /\ exits' \in 0..MaxExits /\ stalls' = stalls

\* A step that leaves the tables alone keeps their types.
LEMMA TablesKeptTypes ==
  ASSUME TypeInv, TablesKept
  PROVE  TablesOK' /\ Grows
<1>1. Len(ops) \in Nat /\ Len(ops') \in Nat /\ Len(shown.ops) \in Nat
  BY DEF TypeInv, TablesOK, TablesKept
<1> QED
  BY <1>1 DEF TypeInv, TablesOK, TablesKept, Grows

\* The claim of the worker, and the attempt it counts.
LEMMA ClaimTypes ==
  ASSUME SyncAssumption, TypeInv, NEW j \in SyncJobs, ClaimFirst(j)
  PROVE  /\ TablesKept /\ UNCHANGED <<mailVars, tables, exits>>
         /\ \E b : /\ Moves(j, b) /\ JobOK(b)
                   /\ b.at \in {"claimed", "waiting", "failed"}
<1>0. /\ JobOK(sync[j]) /\ TablesOK
      /\ sync[j].made < SyncAttempts /\ sync[j].made \in Nat /\ SyncAttempts \in Nat
  BY SMTT(20) DEF TypeInv, JobOK, ClaimFirst, SyncJob, SyncAssumption
<1>1. UNCHANGED <<mailVars, tables, shown, exits, stalls>> /\ failures' \in 0..MaxFailures
  <2>1. UNCHANGED bounds \/ Faulty
    BY DEF ClaimFirst
  <2>2. failures \in 0..MaxFailures /\ MaxFailures \in Nat
    BY <1>0 DEF TablesOK, SyncAssumption
  <2> QED
    BY <2>1, <2>2 DEF ClaimFirst, Faulty, bounds
<1>2. TablesKept
  BY <1>0, <1>1 DEF TablesKept, TablesOK, mailVars, tables
<1>3. sync[j].made + 1 \in 1..SyncAttempts /\ sync[j].made + 1 \in 0..SyncAttempts
  BY <1>0
<1>4. PICK p \in Pids, met \in BOOLEAN :
         LET started == [sync[j] EXCEPT !.made = @ + 1, !.pid = p, !.met = met]
         IN  Becomes(j, [started EXCEPT !.at = "claimed"]) \/ Becomes(j, Thrown(started.made))
  BY DEF ClaimFirst
<1>5. PICK c : c = [[sync[j] EXCEPT !.made = @ + 1, !.pid = p, !.met = met] EXCEPT !.at = "claimed"]
  OBVIOUS
<1>6. JobOK(c) /\ c.at = "claimed"
  <2>1. PICK n \in 1..SyncAttempts : n = sync[j].made + 1
    BY <1>3
  <2>2. c = [sync[j] EXCEPT !.made = n, !.pid = p, !.met = met, !.at = "claimed"]
    BY <1>0, <1>5, <2>1 DEF JobOK, SyncJob
  <2>3. n \in 0..SyncAttempts /\ n > 0
    BY <1>0, <2>1
  <2>4. c \in SyncJob
    BY <1>0, <2>2, <2>3 DEF JobOK, SyncJob
  <2>5. /\ c.at = "claimed" /\ c.made = n /\ c.pid = p /\ c.own = sync[j].own
        /\ c.op = sync[j].op /\ c.batch = sync[j].batch /\ c.page = sync[j].page
        /\ c.start = sync[j].start
    BY <1>0, <2>2 DEF JobOK, SyncJob
  <2> QED
    BY <1>0, <2>3, <2>4, <2>5 DEF JobOK
<1>7. [sync[j] EXCEPT !.made = @ + 1, !.pid = p, !.met = met].made = sync[j].made + 1
  BY <1>0 DEF JobOK, SyncJob
<1>8. JobOK(Thrown(sync[j].made + 1)) /\ Thrown(sync[j].made + 1).at \in {"waiting", "failed"}
  BY <1>0, <1>3, FreshTypes
<1>9. Moves(j, c) \/ Moves(j, Thrown(sync[j].made + 1))
  BY <1>4, <1>5, <1>7 DEF Becomes, Moves
<1> QED
  BY <1>1, <1>2, <1>6, <1>8, <1>9

\* A fault within its bound.
LEMMA FaultyBounds ==
  ASSUME SyncAssumption, TablesOK, UNCHANGED bounds \/ Faulty
  PROVE  failures' \in 0..MaxFailures /\ exits' \in 0..MaxExits /\ stalls' = stalls
BY DEF TablesOK, SyncAssumption, Faulty, bounds

\* What the replica or the master shows.
LEMMA ReadTypes ==
  ASSUME SyncAssumption, TypeInv
  PROVE  /\ Read.ckpt \in Checkpoint /\ Read.cursor \in 0..mail
         /\ Latest(Read.ops, Running) \in 0..Len(ops) /\ Latest(Read.ops, Open) \in 0..Len(ops)
<1>1. /\ ckpt \in Checkpoint /\ shown.ckpt \in Checkpoint
      /\ cursor \in 0..mail /\ shown.cursor \in 0..mail
      /\ ops \in Seq(Operation) /\ shown.ops \in Seq(Operation)
      /\ Len(shown.ops) <= Len(ops) /\ Len(ops) \in Nat /\ Len(shown.ops) \in Nat
  BY DEF TypeInv, TablesOK
<1>2. PICK s \in Seq(Operation) : s = Read.ops /\ Len(s) <= Len(ops)
  BY <1>1 DEF Read
<1>3. Latest(s, Running) \in 0..Len(s) /\ Latest(s, Open) \in 0..Len(s) /\ Len(s) \in Nat
  BY <1>2, LatestType
<1>4. Latest(s, Running) \in 0..Len(ops) /\ Latest(s, Open) \in 0..Len(ops)
  BY <1>1, <1>2, <1>3
<1> QED
  BY <1>1, <1>2, <1>4 DEF Read

\* The two initializations: a claim refused sends the job to its catch block, a claim granted
\* opens an operation.
LEMMA OpenTypes ==
  ASSUME SyncAssumption, TypeInv, NEW j \in SyncJobs, NEW w \in Owners, NEW mode \in Modes,
         NEW token \in 0..MaxMail, NEW history \in 0..MaxMail, OpenOp(w, mode, token, history)
  PROVE  ckpt' \in Checkpoint /\ ops' \in Seq(Operation) /\ Len(ops') = Len(ops) + 1
<1>1. ckpt.version + 1 \in Nat
  BY DEF TypeInv, TablesOK, Checkpoint
<1>2. ckpt' \in Checkpoint
  BY <1>1 DEF OpenOp, Checkpoint
<1>3. ops \in Seq(Operation)
  BY DEF TypeInv, TablesOK
<1> QED
  BY <1>2, <1>3, OpsTypes DEF OpenOp

\* A job that begins only moves itself,
LEMMA InitializeTypes ==
  ASSUME SyncAssumption, TypeInv, NEW j \in SyncJobs, Initialize(j)
  PROVE  /\ TablesKept
         /\ \E c : GoesOn(j, c)
<1>0. /\ JobOK(sync[j]) /\ Busy(j) /\ Len(ops) \in Nat /\ TablesOK
      /\ UNCHANGED <<mailVars, cursor, shown, bounds>>
      /\ sync[j].pid \in Pids /\ ops \in Seq(Operation) /\ sync[j].at = "claimed"
  <2>1. sync[j].at = "claimed" /\ UNCHANGED <<mailVars, cursor, shown, bounds>>
    BY DEF Initialize
  <2>2. JobOK(sync[j]) /\ TablesOK
    BY DEF TypeInv
  <2>3. Len(ops) \in Nat /\ ops \in Seq(Operation)
    BY <2>2 DEF TablesOK
  <2>4. Busy(j) /\ sync[j].pid \in Pids
    BY <2>1, <2>2 DEF Busy, JobOK
  <2> QED
    BY <2>1, <2>2, <2>3, <2>4
<1>1. CASE Grantable(Worker(j))
  <2>1. PICK mode \in Modes : OpenOp(Worker(j), mode, 0, 0)
    BY <1>1 DEF Initialize, Modes
  <2>2. Worker(j) \in Owners /\ 0 \in 0..MaxMail
    BY <1>0 DEF Worker, Owners, SyncAssumption
  <2>3. ckpt' \in Checkpoint /\ ops' \in Seq(Operation) /\ Len(ops') = Len(ops) + 1
    BY <2>1, <2>2, OpenTypes
  <2>4. TablesKept
    BY <1>0, <2>3 DEF TablesKept, TablesOK, mailVars, bounds
  <2>4a. PICK s \in {"profile", "decide"} :
            Becomes(j, [sync[j] EXCEPT !.at = s, !.own = Len(ops) + 1])
    BY <1>1 DEF Initialize
  <2>5. PICK c : c = [sync[j] EXCEPT !.at = s, !.own = Len(ops) + 1] /\ Becomes(j, c)
    BY <2>4a
  <2>6. PICK n \in Nat : n = Len(ops) + 1
    BY <1>0
  <2>7. c \in SyncJob /\ c.at = s /\ c.pid = sync[j].pid /\ c.made = sync[j].made
        /\ c.own = n /\ c.op = sync[j].op /\ c.batch = sync[j].batch
        /\ c.page = sync[j].page /\ c.start = sync[j].start
    BY <1>0, <2>4a, <2>5, <2>6 DEF JobOK, SyncJob, SyncSteps
  <2>8. GoesOn(j, c)
    <3>1. sync[j].op \in Nat /\ sync[j].batch \in Nat
      BY <1>0 DEF JobOK, SyncJob
    <3> QED
      BY <1>0, <2>3, <2>4a, <2>5, <2>6, <2>7, <3>1
               DEF GoesOn, JobOK, Becomes, Moves, Steps, SyncSteps
  <2> QED
    BY <2>4, <2>8
<1>2. CASE ~Grantable(Worker(j))
  <2>1. Goes(j, "catch") /\ UNCHANGED <<ckpt, ops>>
    BY <1>2 DEF Initialize
  <2>2. TablesKept
    BY <1>0, <2>1 DEF TablesKept, TablesOK, mailVars, bounds
  <2> QED
    BY <1>0, <2>1, <2>2, GoesTypes DEF Steps
<1> QED
  BY <1>1, <1>2

\* ... and as the engine calls it, in Plan and Target.
LEMMA AsServerTypes ==
  ASSUME SyncAssumption, TypeInv, NEW j \in SyncJobs, Busy(j),
         NEW how \in {"list", "delta"}, NEW mode \in Modes, NEW token \in 0..MaxMail,
         NEW history \in 0..MaxMail, NEW next \in {"list", "history"},
         InitializeAsServer(j, how, mode, token, history, next),
         UNCHANGED <<mail, saved, processed, dropped, cursor, shown, bounds>>,
         skipped' \in SUBSET (1..mail), skipped \subseteq skipped'
  PROVE  /\ TablesKept
         /\ \E c : GoesOn(j, c)
<1>0. /\ JobOK(sync[j]) /\ Len(ops) \in Nat /\ TablesOK
      /\ sync[j].pid \in Pids /\ ops \in Seq(Operation)
  <2>1. JobOK(sync[j]) /\ TablesOK
    BY DEF TypeInv
  <2>2. Len(ops) \in Nat /\ ops \in Seq(Operation)
    BY <2>1 DEF TablesOK
  <2>3. sync[j].pid \in Pids
    BY <2>1 DEF Busy, JobOK
  <2> QED
    BY <2>1, <2>2, <2>3
<1>1. CASE Grantable(Server(j))
  <2>1. OpenOp(Server(j), mode, token, history)
    BY <1>1 DEF InitializeAsServer
  <2>2. Server(j) \in Owners
    BY <1>0 DEF Server, Owners
  <2>3. ckpt' \in Checkpoint /\ ops' \in Seq(Operation) /\ Len(ops') = Len(ops) + 1
    BY <2>1, <2>2, OpenTypes
  <2>4. TablesKept
    BY <1>0, <2>3 DEF TablesKept, TablesOK, mailVars, bounds
  <2>6. PICK n \in Nat : n = Len(ops) + 1
    BY <1>0
  <2>5. PICK c : c = [sync[j] EXCEPT !.at = next, !.how = how, !.token = token,
                                     !.op = n, !.batch = n]
                 /\ Becomes(j, c)
    BY <1>1, <2>6 DEF InitializeAsServer
  <2>7. c \in SyncJob /\ c.at = next /\ c.pid = sync[j].pid /\ c.made = sync[j].made
        /\ c.own = sync[j].own /\ c.op = n /\ c.batch = n
        /\ c.page = sync[j].page /\ c.start = sync[j].start
    BY <1>0, <2>5, <2>6 DEF JobOK, SyncJob, SyncSteps
  <2>8. GoesOn(j, c)
    <3>1. sync[j].own \in Nat
      BY <1>0 DEF JobOK, SyncJob
    <3> QED
      BY <1>0, <2>3, <2>5, <2>6, <2>7, <3>1
               DEF GoesOn, JobOK, Becomes, Moves, Steps, SyncSteps
  <2> QED
    BY <2>4, <2>8
<1>2. CASE ~Grantable(Server(j))
  <2>1. Goes(j, "catch") /\ UNCHANGED <<ckpt, ops>>
    BY <1>2 DEF InitializeAsServer
  <2>2. TablesKept
    BY <1>0, <2>1 DEF TablesKept, TablesOK, mailVars, bounds
  <2> QED
    BY <1>0, <2>1, <2>2, GoesTypes DEF Steps
<1> QED
  BY <1>1, <1>2

\* Choosing what to sync: a profile, a plan or a target.
LEMMA PlanTypes ==
  ASSUME SyncAssumption, TypeInv, NEW j \in SyncJobs,
         Profile(j) \/ Plan(j) \/ Decide(j) \/ Target(j)
  PROVE  /\ TablesKept
         /\ \E c : GoesOn(j, c)
<1>0. /\ JobOK(sync[j]) /\ Busy(j) /\ Len(ops) \in Nat /\ TablesOK
      /\ mail \in 0..MaxMail /\ mail \in Nat /\ ops \in Seq(Operation)
      /\ sync[j].start \in 0..MaxMail
      /\ UNCHANGED <<mail, saved, processed, dropped, cursor, shown, bounds>>
      /\ skipped' \in SUBSET (1..mail) /\ skipped \subseteq skipped'
  <2>1. /\ JobOK(sync[j]) /\ Len(ops) \in Nat /\ TablesOK
        /\ mail \in 0..MaxMail /\ mail \in Nat /\ ops \in Seq(Operation)
    BY DEF TypeInv, TablesOK, SyncAssumption
  <2>2. sync[j].start \in 0..MaxMail
    BY <2>1 DEF JobOK, SyncJob
  <2>3. Busy(j)
    BY DEF Busy, Profile, Plan, Decide, Target
  <2>4. UNCHANGED <<mail, saved, processed, dropped, cursor, shown, bounds>>
    BY DEF Profile, Plan, Decide, Target, tables, mailVars
  <2>5. skipped' \in SUBSET (1..mail) /\ skipped \subseteq skipped'
    <3>1. skipped \in SUBSET (1..mail) /\ sync[j].start <= mail /\ Mailbox \in Nat
      BY <2>1 DEF TablesOK, JobOK, SyncAssumption
    <3>2. (Mailbox + 1)..sync[j].start \subseteq 1..mail
      BY <2>1, <2>2, <3>1
    <3>3. CASE ~Plan(j)
      BY <3>1, <3>3 DEF Profile, Decide, Target, mailVars
    <3>4. CASE Plan(j)
      <4>1. \/ skipped' = skipped
            \/ \E S \in SUBSET ((Mailbox + 1)..sync[j].start) : skipped' = skipped \cup S
        BY <3>4 DEF Plan, Missing
      <4> QED
        BY <3>1, <3>2, <4>1
    <3> QED
      BY <3>3, <3>4
  <2> QED
    BY <2>1, <2>2, <2>3, <2>4, <2>5
<1>a. ASSUME UNCHANGED <<ckpt, ops>> PROVE TablesKept
  BY <1>0, <1>a DEF TablesKept, TablesOK, mailVars, bounds
<1>b. ASSUME UNCHANGED ops,
             NEW s \in Steps \ {"process"}, NEW how \in {"none", "list", "resume", "delta"},
             NEW token \in 0..MaxMail, NEW op \in 0..Len(ops), NEW batch \in 0..Len(ops),
             NEW start \in 0..mail,
             Becomes(j, [sync[j] EXCEPT !.at = s, !.how = how, !.token = token, !.op = op,
                                        !.batch = batch, !.start = start])
      PROVE  \E c : GoesOn(j, c)
  <2>1. PICK c : c = [sync[j] EXCEPT !.at = s, !.how = how, !.token = token, !.op = op,
                                     !.batch = batch, !.start = start]
                 /\ Moves(j, c)
    BY <1>b DEF Becomes, Moves
  <2>2. start \in 0..MaxMail /\ op \in Nat /\ batch \in Nat
    BY <1>0
  <2>3. c \in SyncJob /\ c.at = s /\ c.pid = sync[j].pid /\ c.made = sync[j].made
        /\ c.own = sync[j].own /\ c.op = op /\ c.batch = batch
        /\ c.page = sync[j].page /\ c.start = start
    BY <1>0, <2>1, <2>2 DEF JobOK, SyncJob, Steps
  <2> QED
    <3>1. /\ c.own <= Len(ops') /\ c.op <= Len(ops') /\ c.batch <= Len(ops') /\ c.start <= mail
      BY <1>0, <1>b, <2>3 DEF JobOK
    <3>2. c.page \subseteq 1..mail
      BY <1>0, <2>3 DEF JobOK
    <3> QED
      BY <1>0, <1>b, <2>1, <2>3, <3>1, <3>2 DEF GoesOn
<1>c. /\ sync[j].how \in {"none", "list", "resume", "delta"} /\ sync[j].token \in 0..MaxMail
      /\ sync[j].op \in 0..Len(ops) /\ sync[j].batch \in 0..Len(ops) /\ sync[j].start \in 0..mail
  BY <1>0, SMTT(20) DEF JobOK, SyncJob
<1>d. sync[j] = [sync[j] EXCEPT !.how = sync[j].how, !.token = sync[j].token, !.op = sync[j].op,
                                !.batch = sync[j].batch, !.start = sync[j].start]
  BY <1>0 DEF JobOK, SyncJob
<1>1. CASE Profile(j)
  <2>1. Becomes(j, [sync[j] EXCEPT !.at = "plan", !.how = sync[j].how, !.token = sync[j].token,
                                   !.op = sync[j].op, !.batch = sync[j].batch, !.start = mail])
    BY <1>0, <1>1 DEF Profile, Becomes, JobOK, SyncJob
  <2>2. mail \in 0..mail /\ UNCHANGED <<ckpt, ops>>
    BY <1>0, <1>1 DEF Profile, tables
  <2> QED
    BY <1>a, <1>b, <1>c, <2>1, <2>2 DEF Steps, SyncSteps
<1>2. CASE Decide(j)
  <2>1. UNCHANGED <<ckpt, ops>>
    BY <1>2 DEF Decide, tables
  <2>2. Read.cursor \in 0..mail /\ Latest(Read.ops, Open) \in 0..Len(ops)
    BY ReadTypes
  <2>3. PICK s \in {"history", "profile", "target"}, how \in {sync[j].how, "resume"},
           batch \in {sync[j].batch, Latest(Read.ops, Open)},
           start \in {sync[j].start, Read.cursor} :
             Becomes(j, [sync[j] EXCEPT !.at = s, !.how = how, !.token = sync[j].token,
                                        !.op = sync[j].op, !.batch = batch, !.start = start])
    <3>1. CASE Resumable(Read)
      <4>1. Becomes(j, [sync[j] EXCEPT !.at = "history", !.how = "resume",
                                       !.token = sync[j].token, !.op = sync[j].op,
                                       !.batch = Latest(Read.ops, Open), !.start = sync[j].start])
        BY <1>0, <1>2, <3>1 DEF Decide, Becomes, JobOK, SyncJob
      <4> QED
        BY <4>1
    <3>2. CASE ~Resumable(Read) /\ Read.cursor = 0
      <4>1. Becomes(j, [sync[j] EXCEPT !.at = "profile", !.how = sync[j].how,
                                       !.token = sync[j].token, !.op = sync[j].op,
                                       !.batch = sync[j].batch,
                                       !.start = sync[j].start])
        BY <1>0, <1>2, <3>2 DEF Decide, Becomes, JobOK, SyncJob
      <4> QED
        BY <4>1
    <3>3. CASE ~Resumable(Read) /\ Read.cursor # 0
      <4>1. Becomes(j, [sync[j] EXCEPT !.at = "target", !.how = sync[j].how,
                                       !.token = sync[j].token, !.op = sync[j].op,
                                       !.batch = sync[j].batch,
                                       !.start = Read.cursor])
        BY <1>0, <1>2, <3>3 DEF Decide, Becomes, JobOK, SyncJob
      <4> QED
        BY <4>1
    <3> QED
      BY <3>1, <3>2, <3>3
  <2> QED
    <3>1. /\ s \in Steps \ {"process"} /\ how \in {"none", "list", "resume", "delta"}
          /\ batch \in 0..Len(ops) /\ start \in 0..mail
      BY <1>c, <2>2 DEF Steps, SyncSteps
    <3> QED
      BY <1>a, <1>b, <1>c, <2>1, <2>3, <3>1
<1>3. CASE Target(j)
  <2>1. CASE mail = sync[j].start
    <3>1. Goes(j, "finish") /\ UNCHANGED <<ckpt, ops>>
      BY <1>3, <2>1 DEF Target
    <3> QED
      BY <1>0, <1>a, <3>1, GoesTypes DEF Steps
  <2>2. CASE mail # sync[j].start
    <3>1. InitializeAsServer(j, "delta", "INCREMENTAL_SYNC", sync[j].start, mail, "history")
      BY <1>3, <2>2 DEF Target
    <3> QED
      BY <1>0, <3>1, AsServerTypes DEF Modes
  <2> QED
    BY <2>1, <2>2
<1>4. CASE Plan(j)
  <2>1. Read.ckpt.token \in 0..MaxMail /\ 0 \in 0..MaxMail
    BY ReadTypes DEF Checkpoint, SyncAssumption
  <2>2. PICK token \in 0..MaxMail :
           \/ /\ UNCHANGED <<ckpt, ops>>
              /\ Becomes(j, [sync[j] EXCEPT !.at = "list", !.how = "list", !.token = token,
                                            !.op = Latest(Read.ops, Running),
                                            !.batch = Latest(Read.ops, Open)])
           \/ InitializeAsServer(j, "list", "INITIAL_SYNC", token, sync[j].start, "list")
    BY <1>4, <2>1 DEF Plan
  <2>3. CASE InitializeAsServer(j, "list", "INITIAL_SYNC", token, sync[j].start, "list")
    BY <1>0, <2>3, AsServerTypes DEF Modes
  <2>4. CASE /\ UNCHANGED <<ckpt, ops>>
             /\ Becomes(j, [sync[j] EXCEPT !.at = "list", !.how = "list", !.token = token,
                                           !.op = Latest(Read.ops, Running),
                                           !.batch = Latest(Read.ops, Open)])
    <3>1. /\ Latest(Read.ops, Running) \in 0..Len(ops) /\ Latest(Read.ops, Open) \in 0..Len(ops)
      BY ReadTypes
    <3>2. Becomes(j, [sync[j] EXCEPT !.at = "list", !.how = "list", !.token = token,
                                     !.op = Latest(Read.ops, Running),
                                     !.batch = Latest(Read.ops, Open), !.start = sync[j].start])
      BY <1>0, <2>4 DEF Becomes, JobOK, SyncJob
    <3> QED
      BY <1>a, <1>b, <1>c, <2>4, <3>1, <3>2 DEF Steps, SyncSteps
  <2> QED
    BY <2>2, <2>3, <2>4
<1> QED
  BY <1>1, <1>2, <1>3, <1>4

\* A page is fetched: what is listed has arrived, and so has what is given up.
LEMMA FetchedTypes ==
  ASSUME SyncAssumption, TypeInv, NEW j \in SyncJobs, Busy(j),
         NEW refs \in SUBSET (1..mail), NEW r \in SyncJob, Fetched(j, refs, r),
         r.at = "save" /\ r.pid = sync[j].pid /\ r.made = sync[j].made,
         r.own = sync[j].own /\ r.op = sync[j].op /\ r.batch = sync[j].batch, r.start <= mail,
         UNCHANGED <<mail, saved, processed, tables, shown>>,
         skipped' \in SUBSET (1..mail), skipped \subseteq skipped'
  PROVE  TablesKept /\ \E c : GoesOn(j, c)
<1>0. /\ JobOK(sync[j]) /\ Len(ops) \in Nat /\ TablesOK /\ mail \in 0..MaxMail /\ ops' = ops
      /\ MaxMail \in Nat
  BY DEF TypeInv, TablesOK, tables, SyncAssumption
<1>1. PICK page \in SUBSET refs : Becomes(j, [r EXCEPT !.page = page])
  BY DEF Fetched
<1>2. dropped' \in SUBSET (1..mail) /\ dropped \subseteq dropped' /\ (UNCHANGED bounds \/ Faulty)
  BY <1>0 DEF Fetched, TablesOK
<1>3. TablesKept
  <2>1. failures' \in 0..MaxFailures /\ exits' \in 0..MaxExits /\ stalls' = stalls
    BY <1>0, <1>2, FaultyBounds
  <2>2. /\ UNCHANGED <<mail, shown, saved, processed, ckpt, ops, cursor>>
        /\ ckpt \in Checkpoint /\ cursor \in 0..mail /\ ops \in Seq(Operation)
        /\ saved \in SUBSET (1..mail) /\ processed \in SUBSET saved
    BY <1>0 DEF TablesOK, tables
  <2> QED
    BY <1>0, <1>2, <2>1, <2>2 DEF TablesKept
<1>4. PICK c : c = [r EXCEPT !.page = page] /\ Moves(j, c)
  BY <1>1 DEF Becomes, Moves
<1>5. page \in SUBSET (1..mail) /\ page \in SUBSET Messages
  <2>1. 1..mail \subseteq Messages
    BY <1>0 DEF Messages
  <2> QED
    BY <2>1
<1>6. /\ c \in SyncJob /\ c.page = page /\ c.at = "save"
      /\ c.pid = sync[j].pid /\ c.made = sync[j].made
      /\ c.own = sync[j].own /\ c.op = sync[j].op /\ c.batch = sync[j].batch /\ c.start = r.start
  BY <1>4, <1>5 DEF SyncJob
<1> QED
  BY <1>0, <1>3, <1>4, <1>5, <1>6 DEF GoesOn, JobOK, Steps, SyncSteps

\* and so does one that lists a page or reads a page of history.
LEMMA PageStepTypes ==
  ASSUME SyncAssumption, TypeInv, NEW j \in SyncJobs, ListPage(j) \/ History(j)
  PROVE  TablesKept /\ \E c : GoesOn(j, c)
<1>0. /\ JobOK(sync[j]) /\ Busy(j) /\ Len(ops) \in Nat /\ TablesOK
      /\ mail \in 0..MaxMail /\ mail \in Nat /\ MaxMail \in Nat
      /\ UNCHANGED <<mail, saved, processed, tables, shown>>
  BY SMTT(20) DEF TypeInv, TablesOK, Busy, ListPage, History, SyncAssumption
<1>s. skipped' \in SUBSET (1..mail) /\ skipped \subseteq skipped'
  <2>1. skipped' = skipped \/ \E S \in SUBSET (1..mail) : skipped' = skipped \cup S
    BY DEF ListPage, History, Missing
  <2> QED
    BY <1>0, <2>1 DEF TablesOK
<1>a. ASSUME NEW s \in Steps \ {"process"}, Goes(j, s), UNCHANGED <<dropped, bounds>>
      PROVE  TablesKept /\ \E c : GoesOn(j, c)
  <2>1. TablesKept
    BY <1>0, <1>a, <1>s DEF TablesKept, TablesOK, tables, bounds
  <2> QED
    BY <1>0, <1>a, <2>1, GoesTypes DEF TablesKept
<1>b. ASSUME NEW refs \in SUBSET (1..mail), NEW token \in 0..MaxMail, NEW start \in 0..mail,
             Fetched(j, refs, [sync[j] EXCEPT !.at = "save", !.token = token, !.start = start])
      PROVE  TablesKept /\ \E c : GoesOn(j, c)
  <2>1. PICK r : r = [sync[j] EXCEPT !.at = "save", !.token = token, !.start = start]
    OBVIOUS
  <2>2. start \in 0..MaxMail /\ start <= mail
    BY <1>0
  <2>3. r \in SyncJob /\ r.at = "save" /\ r.pid = sync[j].pid /\ r.made = sync[j].made
        /\ r.own = sync[j].own /\ r.op = sync[j].op /\ r.batch = sync[j].batch /\ r.start = start
    BY <1>0, <2>1, <2>2 DEF JobOK, SyncJob, SyncSteps
  <2> QED
    BY <1>0, <1>b, <1>s, <2>1, <2>2, <2>3, FetchedTypes
<1>1. CASE ListPage(j)
  <2> DEFINE listed == {m \in 1..mail : sync[j].token = 0 \/ m < sync[j].token}
             refs == {m \in listed : Cardinality({n \in listed : n > m}) < PageSize}
             token == IF listed \ refs = {} THEN 0 ELSE Min(refs)
  <2>1. refs \in SUBSET (1..mail)
    OBVIOUS
  <2>2. CASE refs = {}
    <3>1. Goes(j, "complete") /\ UNCHANGED <<dropped, bounds>>
      BY <1>1, <2>2 DEF ListPage
    <3> QED
      BY <1>a, <3>1 DEF Steps
  <2>3. CASE refs # {}
    <3>1. Fetched(j, refs, [sync[j] EXCEPT !.at = "save", !.token = token])
      BY <1>1, <2>3 DEF ListPage
    <3>2. Min(refs) \in refs
      BY <1>0, <2>1, <2>3, PageTypes
    <3>3. token \in 0..MaxMail
      BY <1>0, <3>2
    <3>4. sync[j].start \in 0..mail
      BY <1>0 DEF JobOK, SyncJob
    <3> HIDE DEF refs, token, listed
    <3>5. [sync[j] EXCEPT !.at = "save", !.token = token]
            = [sync[j] EXCEPT !.at = "save", !.token = token, !.start = sync[j].start]
      BY <1>0 DEF JobOK, SyncJob
    <3> QED
      BY <1>b, <2>1, <3>1, <3>3, <3>4, <3>5
  <2> QED
    BY <2>2, <2>3
<1>2. CASE History(j)
  <2>1. CASE Goes(j, "finish") /\ UNCHANGED <<dropped, bounds>>
    BY <1>a, <2>1 DEF Steps
  <2>2. CASE ~(Goes(j, "finish") /\ UNCHANGED <<dropped, bounds>>)
    <3> DEFINE since == IF sync[j].how = "delta" THEN sync[j].start
                        ELSE ops[sync[j].batch].history
               added == {m \in 1..mail : m > since}
               refs == IF sync[j].how = "delta"
                       THEN added
                       ELSE {m \in added : Cardinality({n \in added : n < m}) < HistorySize}
    <3>1. Fetched(j, refs, [sync[j] EXCEPT !.at = "save", !.token = 0, !.start = mail])
      BY <1>2, <2>2 DEF History
    <3>2. refs \in SUBSET (1..mail)
      OBVIOUS
    <3>3. 0 \in 0..MaxMail /\ mail \in 0..mail
      BY <1>0
    <3> HIDE DEF refs
    <3> QED
      BY <1>b, <3>1, <3>2, <3>3
  <2> QED
    BY <2>1, <2>2
<1> QED
  BY <1>1, <1>2

\* A message is saved, and then processed; either may fail.
LEMMA SaveTypes ==
  ASSUME SyncAssumption, TypeInv, NEW j \in SyncJobs, Save(j) \/ Process(j)
  PROVE  /\ TablesKept
         /\ \E c : \/ GoesOn(j, c)
                   \/ /\ Moves(j, c) /\ JobOK(sync[j]) /\ c \in SyncJob
                      /\ c = [sync[j] EXCEPT !.at = "process"] /\ c.page = sync[j].page
                      /\ c.at = "process" /\ c.page # {} /\ Max(c.page) \in saved' /\ Busy(j)
<1>0. /\ JobOK(sync[j]) /\ Busy(j) /\ Len(ops) \in Nat /\ TablesOK /\ sync[j] \in SyncJob
      /\ mail \in Nat /\ sync[j].page # {} /\ sync[j].page \subseteq 1..mail
      /\ ops \in Seq(Operation)
  <2>1. JobOK(sync[j]) /\ TablesOK
    BY DEF TypeInv
  <2>2. sync[j].page # {} /\ Busy(j)
    BY <2>1 DEF Busy, Save, Process, JobOK
  <2>3. sync[j] \in SyncJob /\ sync[j].page \subseteq 1..mail
    BY <2>1 DEF JobOK
  <2>4. Len(ops) \in Nat /\ mail \in Nat /\ ops \in Seq(Operation)
    BY <2>1 DEF TablesOK
  <2> QED
    BY <2>1, <2>2, <2>3, <2>4
<1>1. PICK m : m = Current(j) /\ m \in sync[j].page /\ m \in 1..mail
  BY <1>0, PageTypes DEF Current
<1>2. [ops EXCEPT ![sync[j].batch].batch = "processing"] \in Seq(Operation)
      /\ Len([ops EXCEPT ![sync[j].batch].batch = "processing"]) = Len(ops)
  BY <1>0, OpsTypes
<1>3. ASSUME Becomes(j, [sync[j] EXCEPT !.at = "save", !.page = @ \ {m}]), Len(ops') = Len(ops)
      PROVE  \E c : GoesOn(j, c)
  <2>1. PICK c : c = [sync[j] EXCEPT !.at = "save", !.page = @ \ {m}] /\ Moves(j, c)
    BY <1>3 DEF Becomes, Moves
  <2>2. sync[j].page \ {m} \in SUBSET Messages
    BY <1>0 DEF SyncJob
  <2>3. c \in SyncJob /\ c.page = sync[j].page \ {m} /\ c.at = "save" /\ c.pid = sync[j].pid
        /\ c.made = sync[j].made /\ c.own = sync[j].own /\ c.op = sync[j].op
        /\ c.batch = sync[j].batch /\ c.start = sync[j].start
    BY <1>0, <2>1, <2>2 DEF SyncJob, SyncSteps
  <2> QED
    BY <1>0, <1>3, <2>1, <2>3 DEF GoesOn, JobOK, Steps, SyncSteps
<1>4. CASE Save(j)
  <2>0. UNCHANGED <<mail, processed, skipped, ckpt, cursor, shown>> /\ sync[j].at = "save"
    BY <1>4 DEF Save
  <2>a. [sync[j] EXCEPT !.page = @ \ {m}] = [sync[j] EXCEPT !.at = "save", !.page = @ \ {m}]
    BY <1>0, <2>0 DEF SyncJob
  <2>1. CASE /\ Becomes(j, [sync[j] EXCEPT !.page = @ \ {m}]) /\ Tracked(j)
             /\ UNCHANGED <<saved, dropped, bounds>>
    <3>1. ops' \in Seq(Operation) /\ Len(ops') = Len(ops)
      BY <1>2, <2>1 DEF Tracked
    <3>2. TablesKept
      BY <1>0, <2>0, <2>1, <3>1, SMTT(20) DEF TablesKept, TablesOK, bounds
    <3> QED
      BY <1>3, <2>1, <2>a, <3>1, <3>2
  <2>2. CASE saved' = saved \cup {m} /\ Goes(j, "process") /\ UNCHANGED <<ops, dropped, bounds>>
    <3>1. TablesKept
      <4>1. saved' \in SUBSET (1..mail) /\ saved \subseteq saved' /\ processed' \in SUBSET saved'
        BY <1>0, <1>1, <2>0, <2>2 DEF TablesOK
      <4> QED
        BY <1>0, <2>0, <2>2, <4>1 DEF TablesKept, TablesOK, bounds
    <3>2. PICK c : c = [sync[j] EXCEPT !.at = "process"] /\ Moves(j, c)
      BY <2>2 DEF Goes, Moves
    <3>3. c \in SyncJob /\ c.page = sync[j].page /\ c.at = "process"
      BY <1>0, <3>2 DEF SyncJob, SyncSteps
    <3>4. Max(c.page) \in saved'
      BY <1>1, <2>2, <3>3 DEF Current
    <3> QED
      BY <1>0, <3>1, <3>2, <3>3, <3>4
  <2>3. CASE /\ Faulty /\ dropped' = dropped \cup {m}
             /\ Becomes(j, [sync[j] EXCEPT !.page = @ \ {m}]) /\ UNCHANGED <<saved, ops>>
    <3>1. TablesKept
      <4>1. dropped' \in SUBSET (1..mail) /\ dropped \subseteq dropped'
        BY <1>0, <1>1, <2>3 DEF TablesOK
      <4>2. failures' \in 0..MaxFailures /\ exits' \in 0..MaxExits /\ stalls' = stalls
        BY <1>0, <2>3, FaultyBounds
      <4> QED
        <5>1. /\ UNCHANGED <<mail, shown, saved, processed, skipped, ckpt, ops, cursor>>
              /\ ckpt \in Checkpoint /\ cursor \in 0..mail /\ ops \in Seq(Operation)
              /\ saved \in SUBSET (1..mail) /\ processed \in SUBSET saved
              /\ skipped \in SUBSET (1..mail)
          BY <1>0, <2>0, <2>3 DEF TablesOK
        <5> QED
          BY <1>0, <4>1, <4>2, <5>1 DEF TablesKept
    <3> QED
      BY <1>3, <2>3, <2>a, <3>1
  <2> QED
    BY <1>1, <1>4, <2>1, <2>2, <2>3 DEF Save
<1>5. CASE Process(j)
  <2>1. /\ Becomes(j, [sync[j] EXCEPT !.at = "save", !.page = @ \ {m}]) /\ Tracked(j)
        /\ UNCHANGED <<mail, saved, skipped, ckpt, cursor, shown>>
    BY <1>1, <1>5 DEF Process
  <2>2. ops' \in Seq(Operation) /\ Len(ops') = Len(ops)
    BY <1>2, <2>1 DEF Tracked
  <2>3. m \in saved
    BY <1>0, <1>1, <1>5 DEF Process, JobOK, Current
  <2>4. /\ processed' \in SUBSET saved
        /\ dropped' \in SUBSET (1..mail) /\ dropped \subseteq dropped'
        /\ UNCHANGED bounds \/ Faulty
    BY <1>0, <1>1, <1>5, <2>3 DEF Process, TablesOK
  <2>5. TablesKept
    <3>1. failures' \in 0..MaxFailures /\ exits' \in 0..MaxExits /\ stalls' = stalls
      BY <1>0, <2>4, FaultyBounds
    <3> QED
      <4>1. /\ UNCHANGED <<mail, shown, saved, skipped, ckpt, cursor>>
            /\ ckpt \in Checkpoint /\ cursor \in 0..mail /\ saved \in SUBSET (1..mail)
            /\ skipped \in SUBSET (1..mail)
        BY <1>0, <2>1 DEF TablesOK
      <4> QED
        BY <1>0, <2>2, <2>4, <3>1, <4>1 DEF TablesKept
  <2> QED
    BY <1>3, <2>1, <2>2, <2>5
<1> QED
  BY <1>4, <1>5

\* The end of a page, of an operation and of the job.
LEMMA EndTypes ==
  ASSUME SyncAssumption, TypeInv, NEW j \in SyncJobs,
         \/ BatchSaved(j) \/ AdvanceRead(j) \/ AdvanceWrite(j) \/ CompleteOp(j) \/ StoreCursor(j)
         \/ CompleteOwn(j) \/ Release(j) \/ FailOp(j) \/ HistoryExpired(j)
  PROVE  TablesKept /\ \E c : GoesOn(j, c)
<1>0. /\ JobOK(sync[j]) /\ Len(ops) \in Nat /\ TablesOK /\ sync[j] \in SyncJob
      /\ mail \in Nat /\ ops \in Seq(Operation) /\ ckpt \in Checkpoint
  BY DEF TypeInv, TablesOK, JobOK
<1>1. Busy(j)
  BY DEF Busy, BatchSaved, AdvanceRead, AdvanceWrite, CompleteOp, StoreCursor, CompleteOwn, Release,
         FailOp, HistoryExpired
<1>2. UNCHANGED <<mailVars, shown, bounds>>
  BY DEF BatchSaved, AdvanceRead, AdvanceWrite, CompleteOp, StoreCursor, CompleteOwn, Release,
         FailOp, HistoryExpired
<1>3. ASSUME ckpt' \in Checkpoint, ops' \in Seq(Operation), Len(ops') = Len(ops),
             cursor' \in 0..mail
      PROVE  TablesKept
  BY <1>0, <1>2, <1>3 DEF TablesKept, TablesOK, mailVars, bounds
<1>4. ASSUME NEW s \in Steps \ {"process"}, Goes(j, s), ckpt' \in Checkpoint,
             ops' \in Seq(Operation), Len(ops') = Len(ops), cursor' \in 0..mail
      PROVE  TablesKept /\ \E c : GoesOn(j, c)
  BY <1>0, <1>1, <1>3, <1>4, GoesTypes
<1>5. cursor \in 0..mail /\ sync[j].start \in 0..mail
  BY <1>0 DEF TablesOK, JobOK, SyncJob
<1>6. CASE BatchSaved(j)
  BY <1>0, <1>4, <1>5, <1>6 DEF BatchSaved, tables, Steps, SyncSteps
<1>7. CASE AdvanceRead(j)
  <2>1. PICK c : /\ c = [sync[j] EXCEPT !.at = "cas", !.version = ckpt.version,
                                        !.holder = ckpt.owner]
                 /\ Moves(j, c)
    BY <1>7 DEF AdvanceRead, Becomes, Moves
  <2>2. ckpt.version \in Nat /\ ckpt.owner \in Owners
    BY <1>0 DEF Checkpoint
  <2>3. c \in SyncJob /\ c.page = sync[j].page /\ c.at = "cas" /\ c.pid = sync[j].pid
        /\ c.made = sync[j].made /\ c.own = sync[j].own /\ c.op = sync[j].op
        /\ c.batch = sync[j].batch /\ c.start = sync[j].start
    BY <1>0, <2>1, <2>2 DEF SyncJob, SyncSteps
  <2>4. UNCHANGED <<ckpt, ops, cursor>>
    BY <1>7 DEF AdvanceRead, tables
  <2> QED
    BY <1>0, <1>1, <1>3, <1>5, <2>1, <2>3, <2>4 DEF GoesOn, JobOK, Steps, SyncSteps
<1>8. CASE AdvanceWrite(j)
  <2>1. Advanced(sync[j].token, sync[j].holder) \in Checkpoint
    BY <1>0, CheckpointTypes DEF SyncJob
  <2>2. [ops EXCEPT ![sync[j].batch].batch = "completed"] \in Seq(Operation)
        /\ Len([ops EXCEPT ![sync[j].batch].batch = "completed"]) = Len(ops)
    BY <1>0, OpsTypes
  <2>3. PICK s \in {"compat", "list", "complete", "catch", "fail"} : Goes(j, s)
    BY <1>8 DEF AdvanceWrite, AfterAdvance
  <2>4. ckpt' \in Checkpoint /\ ops' \in Seq(Operation) /\ Len(ops') = Len(ops) /\ cursor' = cursor
    BY <1>0, <1>8, <2>1, <2>2 DEF AdvanceWrite
  <2> QED
    BY <1>4, <1>5, <2>3, <2>4 DEF Steps, SyncSteps
<1>9. CASE CompleteOp(j)
  <2>1. [ops EXCEPT ![sync[j].op].op = "completed"] \in Seq(Operation)
        /\ Len([ops EXCEPT ![sync[j].op].op = "completed"]) = Len(ops)
    BY <1>0, OpsTypes
  <2>2. PICK s \in {"compat", "finish"} : Goes(j, s)
    BY <1>9 DEF CompleteOp
  <2> QED
    BY <1>0, <1>4, <1>5, <1>9, <2>1, <2>2 DEF CompleteOp, Steps
<1>10. CASE StoreCursor(j)
  <2>1. PICK s \in {"complete", "finish"} : Goes(j, s)
    BY <1>10 DEF StoreCursor
  <2> QED
    BY <1>0, <1>4, <1>5, <1>10, <2>1 DEF StoreCursor, Steps
<1>11. CASE CompleteOwn(j)
  <2>1. [ops EXCEPT ![sync[j].own].op = "completed"] \in Seq(Operation)
        /\ Len([ops EXCEPT ![sync[j].own].op = "completed"]) = Len(ops)
    BY <1>0, OpsTypes
  <2> QED
    BY <1>0, <1>4, <1>5, <1>11, <2>1 DEF CompleteOwn, Steps
<1>12. CASE Release(j)
  <2>1. Released(Worker(j)) \in Checkpoint
    BY <1>0, CheckpointTypes
  <2> QED
    BY <1>0, <1>4, <1>5, <1>12, <2>1 DEF Release, Steps
<1>13. CASE FailOp(j) \/ HistoryExpired(j)
  <2>1. [ops EXCEPT ![sync[j].op].op = "failed"] \in Seq(Operation)
        /\ Len([ops EXCEPT ![sync[j].op].op = "failed"]) = Len(ops)
    BY <1>0, OpsTypes
  <2>2. PICK s \in {"catch", "profile"} : Goes(j, s)
    BY <1>13 DEF FailOp, HistoryExpired
  <2> QED
    BY <1>0, <1>4, <1>5, <1>13, <2>1, <2>2 DEF FailOp, HistoryExpired, Steps, SyncSteps
<1> QED
  BY <1>6, <1>7, <1>8, <1>9, <1>10, <1>11, <1>12, <1>13

\* The job ends, is retried, or is handed to another worker.
LEMMA LeaveTypes ==
  ASSUME SyncAssumption, TypeInv, NEW j \in SyncJobs,
         PublishCompleted(j) \/ Catch(j) \/ Blame(j) \/ Throws(j) \/ Exit(j)
  PROVE  /\ TablesKept
         /\ \E c : \/ GoesOn(j, c) /\ c.at \in {"fail", "catch", "blame"}
                   \/ Moves(j, c) /\ JobOK(c) /\ c.at \in {"waiting", "failed", "done"}
<1>0. /\ JobOK(sync[j]) /\ Len(ops) \in Nat /\ TablesOK /\ sync[j] \in SyncJob
      /\ mail \in Nat /\ ops \in Seq(Operation) /\ ckpt \in Checkpoint
  BY SMTT(20) DEF TypeInv, TablesOK, JobOK
<1>1. Busy(j)
  BY DEF Busy, PublishCompleted, Catch, Blame, Throws, Exit
<1>2. sync[j].made \in 1..SyncAttempts /\ sync[j].made - 1 \in 0..SyncAttempts
      /\ sync[j].made - 1 < SyncAttempts /\ sync[j].made \in 0..SyncAttempts
  <2>1. sync[j].made \in 0..SyncAttempts /\ sync[j].made > 0 /\ SyncAttempts \in Nat
    BY <1>0, <1>1 DEF JobOK, SyncJob, Busy, SyncAssumption
  <2> QED
    BY <2>1
<1>3. CASE PublishCompleted(j)
  <2>1. TablesKept
    BY <1>0, <1>3 DEF PublishCompleted, TablesKept, TablesOK, mailVars, tables, bounds
  <2>2. JobOK([Fresh(sync[j].made) EXCEPT !.at = "done"])
    BY <1>0, <1>2, FreshTypes
  <2>3. [Fresh(sync[j].made) EXCEPT !.at = "done"].at = "done"
    BY DEF Fresh
  <2> QED
    BY <1>3, <2>1, <2>2, <2>3 DEF PublishCompleted, Becomes, Moves
<1>4. CASE Catch(j)
  <2>1. Released(Worker(j)) \in Checkpoint
    BY <1>0, CheckpointTypes
  <2>2. /\ UNCHANGED <<mailVars, ops, cursor, shown>> /\ ckpt' \in Checkpoint
        /\ UNCHANGED bounds \/ Faulty
    BY <1>0, <1>4, <2>1 DEF Catch
  <2>3. TablesKept
    <3>1. failures' \in 0..MaxFailures /\ exits' \in 0..MaxExits /\ stalls' = stalls
      BY <1>0, <2>2, FaultyBounds
    <3> QED
      BY <1>0, <2>2, <3>1 DEF TablesKept, TablesOK, mailVars
  <2>4. JobOK(Thrown(sync[j].made)) /\ Thrown(sync[j].made).at \in {"waiting", "failed"}
    BY <1>0, <1>2, FreshTypes
  <2>5. Goes(j, "blame") \/ Moves(j, Thrown(sync[j].made))
    BY <1>4 DEF Catch, Becomes, Moves
  <2>6. "blame" \in Steps \ {"process"} /\ ops' \in Seq(Operation) /\ Len(ops') >= Len(ops)
    BY <2>3 DEF Steps, TablesKept
  <2> QED
    BY <1>1, <2>3, <2>4, <2>5, <2>6, GoesTypes
<1>b. CASE Blame(j)
  <2>1. PICK op : ops' = ops \/ ops' = [ops EXCEPT ![op].op = "failed"]
    BY <1>b DEF Blame
  <2>2. ops' \in Seq(Operation) /\ Len(ops') = Len(ops)
    <3>1. mail \in 0..MaxMail
      BY <1>0 DEF TablesOK, SyncAssumption
    <3>2. PICK t : t = [ops EXCEPT ![op].op = "failed"]
      OBVIOUS
    <3>3. t \in Seq(Operation) /\ Len(t) = Len(ops)
      BY <1>0, <3>1, <3>2, OpsTypes
    <3> QED
      BY <1>0, <2>1, <3>2, <3>3
  <2>3. TablesKept
    BY <1>0, <1>b, <2>2 DEF Blame, TablesKept, TablesOK, mailVars, bounds
  <2>4. JobOK(Thrown(sync[j].made)) /\ Thrown(sync[j].made).at \in {"waiting", "failed"}
    BY <1>0, <1>2, FreshTypes
  <2> QED
    BY <1>b, <2>3, <2>4 DEF Blame, Becomes, Moves
<1>5. CASE Throws(j)
  <2>1. PICK s \in {"catch", "fail"}, fatal \in BOOLEAN :
           Moves(j, [sync[j] EXCEPT !.at = s, !.fatal = fatal])
    BY <1>5 DEF Throws, Becomes, Moves
  <2>2. UNCHANGED <<mailVars, tables, shown>> /\ Faulty
    BY <1>5 DEF Throws
  <2>3. TablesKept
    <3>1. failures' \in 0..MaxFailures /\ exits' \in 0..MaxExits /\ stalls' = stalls
      BY <1>0, <2>2, FaultyBounds
    <3> QED
      BY <1>0, <2>2, <3>1 DEF TablesKept, TablesOK, mailVars, tables
  <2>4. PICK c : c = [sync[j] EXCEPT !.at = s, !.fatal = fatal]
    OBVIOUS
  <2>5. /\ c \in SyncJob /\ c.at = s /\ c.pid = sync[j].pid /\ c.made = sync[j].made
        /\ c.own = sync[j].own /\ c.op = sync[j].op /\ c.batch = sync[j].batch
        /\ c.page = sync[j].page /\ c.start = sync[j].start
    BY <1>0, <2>4 DEF SyncJob
  <2>6. GoesOn(j, c)
    BY <1>0, <1>1, <2>1, <2>2, <2>4, <2>5 DEF GoesOn, JobOK, Steps, tables
  <2> QED
    BY <2>3, <2>5, <2>6
<1>6. CASE Exit(j)
  <2>1. /\ UNCHANGED <<mailVars, tables, shown, failures, stalls>> /\ exits' \in 0..MaxExits
    BY <1>0, <1>6 DEF Exit, TablesOK, SyncAssumption
  <2>2. TablesKept
    BY <1>0, <2>1 DEF TablesKept, TablesOK, mailVars, tables
  <2>3. JobOK(Fresh(sync[j].made - 1)) /\ Fresh(sync[j].made - 1).at = "waiting"
    BY <1>0, <1>2, FreshTypes DEF Fresh
  <2> QED
    BY <1>6, <2>2, <2>3 DEF Exit, Becomes, Moves
<1> QED
  BY <1>3, <1>4, <1>b, <1>5, <1>6

\* Every step of a job keeps the tables and leaves a well-formed job.
LEMMA JobEffect ==
  ASSUME SyncAssumption, TypeInv, NEW j \in SyncJobs, SyncStep(j) \/ Throws(j) \/ Exit(j)
  PROVE  TablesOK' /\ Grows /\ \E b : Moves(j, b) /\ JobOK(b)'
<1>1. CASE ClaimFirst(j) \/ PublishCompleted(j) \/ Catch(j) \/ Blame(j) \/ Throws(j) \/ Exit(j)
  <2>1. TablesKept /\ \E c : \/ GoesOn(j, c)
                             \/ Moves(j, c) /\ JobOK(c)
    BY <1>1, ClaimTypes, LeaveTypes
  <2>2. TablesOK' /\ Grows /\ TablesOK
    BY <2>1, TablesKeptTypes DEF TypeInv
  <2>3. PICK c : GoesOn(j, c) \/ (Moves(j, c) /\ JobOK(c))
    BY <2>1
  <2>4. JobOK(c)' /\ Moves(j, c)
    BY <2>2, <2>3, GoesOnTypes, JobStays DEF GoesOn
  <2> QED
    BY <2>2, <2>4
<1>2. CASE \/ Initialize(j) \/ Profile(j) \/ Plan(j) \/ Decide(j) \/ Target(j)
           \/ ListPage(j) \/ History(j) \/ BatchSaved(j) \/ AdvanceRead(j) \/ AdvanceWrite(j)
           \/ CompleteOp(j) \/ StoreCursor(j) \/ CompleteOwn(j) \/ Release(j) \/ FailOp(j)
           \/ HistoryExpired(j)
  <2>1. TablesKept /\ \E c : GoesOn(j, c)
    BY <1>2, InitializeTypes, PlanTypes, PageStepTypes, EndTypes
  <2>2. TablesOK' /\ Grows
    BY <2>1, TablesKeptTypes
  <2>3. PICK c : GoesOn(j, c)
    BY <2>1
  <2>4. JobOK(c)' /\ Moves(j, c)
    BY <2>2, <2>3, GoesOnTypes DEF GoesOn
  <2> QED
    BY <2>2, <2>4
<1>3. CASE Save(j) \/ Process(j)
  <2>1. TablesKept
    BY <1>3, SaveTypes
  <2>2. TablesOK' /\ Grows
    BY <2>1, TablesKeptTypes
  <2>3. PICK c : \/ GoesOn(j, c)
                 \/ /\ Moves(j, c) /\ JobOK(sync[j]) /\ c \in SyncJob
                    /\ c = [sync[j] EXCEPT !.at = "process"] /\ c.page = sync[j].page
                    /\ c.at = "process" /\ c.page # {} /\ Max(c.page) \in saved' /\ Busy(j)
    BY <1>3, SaveTypes
  <2>4. CASE GoesOn(j, c)
    <3>1. JobOK(c)' /\ Moves(j, c)
      BY <2>2, <2>4, GoesOnTypes DEF GoesOn
    <3> QED
      BY <2>2, <3>1
  <2>5. CASE /\ Moves(j, c) /\ JobOK(sync[j]) /\ c \in SyncJob
             /\ c = [sync[j] EXCEPT !.at = "process"] /\ c.page = sync[j].page
             /\ c.at = "process" /\ c.page # {} /\ Max(c.page) \in saved' /\ Busy(j)
    <3>1. /\ c.pid = sync[j].pid /\ c.made = sync[j].made /\ c.own = sync[j].own
          /\ c.op = sync[j].op /\ c.batch = sync[j].batch /\ c.start = sync[j].start
      BY <2>5 DEF JobOK, SyncJob
    <3>2. mail' = mail /\ Len(ops) \in Nat /\ Len(ops') \in Nat
      BY <2>1 DEF TablesKept, TypeInv, TablesOK
    <3>3. c.own \in Nat /\ c.op \in Nat /\ c.batch \in Nat
      BY <2>5 DEF SyncJob
    <3>4. JobOK(c)'
      <4>1. /\ c.own <= Len(ops) /\ c.op <= Len(ops) /\ c.batch <= Len(ops)
            /\ c.page \subseteq 1..mail /\ c.start <= mail /\ c.pid \in Pids /\ c.made > 0
        BY <2>5, <3>1 DEF JobOK, Busy
      <4>2. c.own <= Len(ops') /\ c.op <= Len(ops') /\ c.batch <= Len(ops')
        BY <2>2, <3>2, <3>3, <4>1 DEF Grows
      <4> QED
        BY <2>5, <3>2, <4>1, <4>2 DEF JobOK
    <3> QED
      BY <2>2, <2>5, <3>4
  <2> QED
    BY <2>3, <2>4, <2>5
<1> QED
  BY <1>1, <1>2, <1>3 DEF SyncStep

\* The types are kept, and no step takes back a message that is stored or given up.
LEMMA TypeInductive ==
  ASSUME SyncAssumption, TypeInv, [SyncNext]_syncVars
  PROVE  TypeInv' /\ Grows
<1>0. TablesOK /\ sync \in [SyncJobs -> SyncJob] /\ (\A j \in SyncJobs : JobOK(sync[j]))
      /\ mail \in Nat /\ Len(ops) \in Nat /\ MaxMail \in Nat /\ Len(shown.ops) \in Nat
  BY DEF TypeInv, TablesOK, SyncAssumption
<1>a. ASSUME TablesOK', Grows, sync' = sync PROVE TypeInv'
  <2>1. \A j \in SyncJobs : JobOK(sync[j])'
    <3> TAKE j \in SyncJobs
    <3>1. PICK b : b = sync[j]
      OBVIOUS
    <3>2. JobOK(b)'
      BY <1>0, <1>a, <3>1, JobStays
    <3> QED
      BY <1>a, <3>1, <3>2 DEF JobOK
  <2> QED
    BY <1>0, <1>a, <2>1 DEF TypeInv
<1>t. CASE UNCHANGED syncVars
  <2>1. TablesOK' /\ Grows
    BY <1>0, <1>t DEF syncVars, TablesOK, Grows
  <2> QED
    BY <1>a, <1>t, <2>1 DEF syncVars
<1>1. ASSUME NEW j \in SyncJobs, SyncStep(j) \/ Throws(j) \/ Exit(j) PROVE TypeInv' /\ Grows
  <2>1. TablesOK' /\ Grows
    BY <1>1, JobEffect
  <2>2. PICK b : Moves(j, b) /\ JobOK(b)'
    BY <1>1, JobEffect
  <2>3. \A i \in SyncJobs : JobOK(sync[i])'
    <3> TAKE i \in SyncJobs
    <3>1. PICK c : c = sync'[i]
      OBVIOUS
    <3>2. c = sync[i] \/ c = b
      BY <1>0, <2>2, <3>1 DEF Moves
    <3>3. JobOK(c)'
      BY <1>0, <2>1, <2>2, <3>2, JobStays
    <3> QED
      BY <3>1, <3>3 DEF JobOK
  <2>4. sync' \in [SyncJobs -> SyncJob]
    BY <1>0, <2>2 DEF Moves, JobOK
  <2> QED
    BY <2>1, <2>3, <2>4 DEF TypeInv
<1>2. CASE Expire \/ \E j \in SyncJobs : Refresh(j)
  <2>1. UNCHANGED <<mailVars, ops, cursor, sync, shown, failures, exits>>
    BY <1>2 DEF Expire, Refresh, bounds
  <2>2. ckpt' \in Checkpoint
    BY <1>0, <1>2, CheckpointTypes DEF Expire, Refresh, TablesOK
  <2>3. stalls' \in 0..MaxStalls
    BY <1>0, <1>2, SMTT(20) DEF Expire, Refresh, TablesOK, SyncAssumption, bounds
  <2>4. TablesOK' /\ Grows
    BY <1>0, <2>1, <2>2, <2>3 DEF TablesOK, Grows, mailVars
  <2> QED
    BY <1>a, <2>1, <2>4
<1>3. CASE Arrive
  <2>1. /\ UNCHANGED <<saved, processed, dropped, skipped, tables, sync, shown, bounds>>
        /\ mail' = mail + 1 /\ mail' \in Mailbox..MaxMail
    BY <1>0, <1>3 DEF Arrive, TablesOK, SyncAssumption
  <2>2. 1..mail \subseteq 1..mail' /\ 0..mail \subseteq 0..mail'
    BY <1>0, <2>1
  <2>3. /\ saved \in SUBSET (1..mail') /\ dropped \in SUBSET (1..mail')
        /\ skipped \in SUBSET (1..mail') /\ cursor \in 0..mail'
        /\ shown \in [ckpt : Checkpoint, ops : Seq(Operation), cursor : 0..mail']
    BY <1>0, <2>2 DEF TablesOK
  <2>4. TablesOK' /\ Grows
    BY <1>0, <2>1, <2>3 DEF TablesOK, Grows, tables, bounds
  <2> QED
    BY <1>a, <2>1, <2>4
<1>4. CASE SyncReplicate
  <2>1. /\ UNCHANGED <<mailVars, tables, sync, bounds>>
        /\ shown' = [ckpt |-> ckpt, ops |-> ops, cursor |-> cursor]
    BY <1>4 DEF SyncReplicate
  <2>2. shown' \in [ckpt : Checkpoint, ops : Seq(Operation), cursor : 0..mail] /\ shown'.ops = ops
    BY <1>0, <2>1 DEF TablesOK
  <2>3. TablesOK' /\ Grows
    BY <1>0, <2>1, <2>2 DEF TablesOK, Grows, tables, bounds, mailVars
  <2> QED
    BY <1>a, <2>1, <2>3
<1> QED
  BY <1>t, <1>1, <1>2, <1>3, <1>4 DEF SyncNext

-----------------------------------------------------------------------------
(* One job at a time syncs.                                                *)

\* The checkpoint is held for a job that is between opening and closing it, under a lease
\* that is alive, by its worker or by the engine of its process; what the job has read of the
\* owner is one of the two.
Holds(j) ==
  /\ ckpt.status = "syncing" /\ ckpt.lease = "live"
  /\ ckpt.owner \in {Worker(j), Server(j)}
  /\ sync[j].at = "cas" => sync[j].holder \in {Worker(j), Server(j)}

HoldInv == stalls = 0 => \A j \in SyncJobs : InSync(j) => Holds(j)

\* A step of a job as the checkpoint sees it: it does not touch it and enters no sync, it
\* claims it, it advances it inside a sync under the owner it has read, or it gives back its
\* own lease outside one.
Claims(j, b, w) ==
  /\ Grantable(w)
  /\ ckpt'.status = "syncing" /\ ckpt'.lease = "live" /\ ckpt'.owner = w
  /\ w = Worker(j) \/ (w = Server(j) /\ InSync(j))
  /\ b.pid = sync[j].pid /\ b.at # "cas"

LeaseMoves(j, b) ==
  \/ /\ ckpt' = ckpt
     /\ b.at \in SyncSteps => InSync(j) /\ b.pid = sync[j].pid
     /\ b.at = "cas" => b.holder = ckpt.owner
  \/ \E w : Claims(j, b, w)
  \/ /\ sync[j].at = "cas" /\ b.at # "cas"
     /\ b.at \in SyncSteps => /\ b.pid = sync[j].pid /\ ckpt'.lease = "live"
                              /\ ckpt'.status = "syncing" /\ ckpt'.owner = sync[j].holder
  \/ ~InSync(j) /\ b.at \notin SyncSteps /\ ckpt' = Released(Worker(j))

\* What the steps of a sync do to the lease.
LEMMA LeaseEffect ==
  ASSUME SyncAssumption, TypeInv, NEW j \in SyncJobs, SyncStep(j) \/ Throws(j) \/ Exit(j)
  PROVE  stalls' = stalls /\ \E b : Moves(j, b) /\ LeaseMoves(j, b)
<1>0. JobOK(sync[j]) /\ sync[j] \in SyncJob /\ ckpt \in Checkpoint /\ TablesOK
  BY DEF TypeInv, JobOK, TablesOK
<1>s. stalls' = stalls
  <2>1. CASE ClaimFirst(j) \/ Catch(j) \/ Throws(j)
    BY <2>1 DEF ClaimFirst, Catch, Throws, Faulty, bounds
  <2>2. CASE ListPage(j) \/ History(j) \/ Save(j) \/ Process(j)
    BY <2>2 DEF ListPage, History, Fetched, Save, Process, Faulty, bounds
  <2>3. CASE \/ Initialize(j) \/ Decide(j) \/ Target(j) \/ Profile(j) \/ Plan(j) \/ BatchSaved(j)
             \/ AdvanceRead(j) \/ AdvanceWrite(j)
    BY <2>3 DEF Initialize, Decide, Target, Profile, Plan, BatchSaved, AdvanceRead, AdvanceWrite,
                bounds
  <2>4. CASE \/ CompleteOp(j) \/ StoreCursor(j) \/ CompleteOwn(j) \/ Release(j)
             \/ PublishCompleted(j) \/ FailOp(j) \/ HistoryExpired(j) \/ Blame(j) \/ Exit(j)
    BY <2>4 DEF CompleteOp, StoreCursor, CompleteOwn, Release, PublishCompleted, FailOp,
                HistoryExpired, Blame, Exit, bounds
  <2> QED
    BY <2>1, <2>2, <2>3, <2>4 DEF SyncStep
<1>g. ASSUME NEW s, Goes(j, s) PROVE \E b : Moves(j, b) /\ b.at = s /\ b.pid = sync[j].pid
  <2>1. PICK b : b = [sync[j] EXCEPT !.at = s]
    OBVIOUS
  <2>2. b.at = s /\ b.pid = sync[j].pid
    BY <1>0, <2>1 DEF SyncJob
  <2> QED
    BY <1>g, <2>1, <2>2 DEF Goes, Moves
<1>1. CASE ClaimFirst(j)
  <2>1. PICK b : Moves(j, b) /\ b.at \in {"claimed", "waiting", "failed"}
    BY <1>1, ClaimTypes
  <2> QED
    BY <1>1, <1>s, <2>1, ClaimTypes DEF LeaseMoves, SyncSteps, tables
<1>2. CASE Initialize(j)
  <2>1. CASE Grantable(Worker(j))
    <3>1. PICK s, mode, b :
             /\ s \in {"profile", "decide"} /\ mode \in Modes
             /\ b = [sync[j] EXCEPT !.at = s, !.own = Len(ops) + 1] /\ Moves(j, b)
             /\ OpenOp(Worker(j), mode, 0, 0)
      BY <1>2, <2>1 DEF Initialize, Becomes, Moves, Modes
    <3>2. b.pid = sync[j].pid /\ b.at # "cas"
      BY <1>0, <3>1 DEF SyncJob
    <3> QED
      BY <1>s, <2>1, <3>1, <3>2 DEF LeaseMoves, Claims, OpenOp
  <2>2. CASE ~Grantable(Worker(j))
    <3>1. Goes(j, "catch") /\ UNCHANGED ckpt
      BY <1>2, <2>2 DEF Initialize
    <3> QED
      BY <1>g, <1>s, <3>1 DEF LeaseMoves, SyncSteps
  <2> QED
    BY <2>1, <2>2
<1>a. ASSUME InSync(j), NEW how, NEW mode, NEW token, NEW history,
             NEW next \in SyncSteps \ {"cas"},
             InitializeAsServer(j, how, mode, token, history, next)
      PROVE  \E b : Moves(j, b) /\ LeaseMoves(j, b)
  <2>1. CASE Grantable(Server(j))
    <3>1. PICK b : /\ b = [sync[j] EXCEPT !.at = next, !.how = how, !.token = token,
                                          !.op = Len(ops) + 1, !.batch = Len(ops) + 1]
                   /\ Moves(j, b)
      BY <1>a, <2>1 DEF InitializeAsServer, Becomes, Moves
    <3>2. b.pid = sync[j].pid /\ b.at # "cas"
      BY <1>0, <1>a, <3>1 DEF SyncJob
    <3>3. OpenOp(Server(j), mode, token, history)
      BY <1>a, <2>1 DEF InitializeAsServer
    <3> QED
      BY <1>a, <2>1, <3>1, <3>2, <3>3 DEF LeaseMoves, Claims, OpenOp
  <2>2. CASE ~Grantable(Server(j))
    <3>1. Goes(j, "catch") /\ UNCHANGED ckpt
      BY <1>a, <2>2 DEF InitializeAsServer
    <3> QED
      BY <1>g, <3>1 DEF LeaseMoves, SyncSteps
  <2> QED
    BY <2>1, <2>2
<1>3. CASE Profile(j) \/ Decide(j) \/ Target(j) \/ Plan(j)
  <2>1. InSync(j)
    BY <1>3 DEF InSync, SyncSteps, Profile, Decide, Target, Plan
  <2>2. CASE Target(j) \/ Plan(j)
    <3>1. \/ \E how, mode, token, history : \E next \in SyncSteps \ {"cas"} :
               InitializeAsServer(j, how, mode, token, history, next)
          \/ /\ UNCHANGED ckpt
             /\ \E b : Moves(j, b) /\ b.pid = sync[j].pid /\ b.at # "cas"
      <4>1. CASE Target(j)
        BY <1>g, <2>2, <4>1 DEF Target, SyncSteps
      <4>2. CASE Plan(j)
        <5>1. PICK resumes : resumes <=> /\ Resumable(Read) /\ Read.ckpt.mode = "INITIAL_SYNC"
                                         /\ Latest(Read.ops, Running) # 0
          OBVIOUS
        <5>2. CASE resumes
          <6>1. PICK b : /\ UNCHANGED ckpt /\ Moves(j, b)
                         /\ b = [sync[j] EXCEPT !.at = "list", !.how = "list",
                                                !.token = Read.ckpt.token,
                                                !.op = Latest(Read.ops, Running),
                                                !.batch = Latest(Read.ops, Open)]
            BY <4>2, <5>1, <5>2 DEF Plan, Becomes, Moves
          <6>2. b.pid = sync[j].pid /\ b.at # "cas"
            BY <1>0, <6>1 DEF SyncJob
          <6> QED
            BY <6>1, <6>2
        <5>3. CASE ~resumes
          <6>1. PICK token :
                   InitializeAsServer(j, "list", "INITIAL_SYNC", token, sync[j].start, "list")
            BY <4>2, <5>1, <5>3 DEF Plan
          <6> QED
            BY <6>1 DEF SyncSteps
        <5> QED
          BY <5>2, <5>3
      <4> QED
        BY <2>2, <4>1, <4>2
    <3> QED
      BY <1>a, <1>s, <2>1, <3>1 DEF LeaseMoves
  <2>3. CASE Profile(j) \/ Decide(j)
    <3>1. UNCHANGED ckpt
      BY <2>3 DEF Profile, Decide, tables
    <3>2. PICK r \in {[sync[j] EXCEPT !.at = "plan", !.start = mail],
                      [sync[j] EXCEPT !.at = "history", !.how = "resume",
                                      !.batch = Latest(Read.ops, Open)],
                      [sync[j] EXCEPT !.at = "profile"],
                      [sync[j] EXCEPT !.at = "target", !.start = Read.cursor]} : Moves(j, r)
      BY <2>3 DEF Profile, Decide, Becomes, Moves
    <3>3. r.pid = sync[j].pid /\ r.at # "cas"
      BY <1>0, <3>2 DEF SyncJob
    <3> QED
      BY <1>s, <2>1, <3>1, <3>2, <3>3 DEF LeaseMoves
  <2> QED
    BY <1>3, <2>2, <2>3
<1>4. CASE ListPage(j) \/ History(j) \/ BatchSaved(j) \/ HistoryExpired(j)
  <2>1. InSync(j) /\ UNCHANGED ckpt
    BY <1>4 DEF InSync, SyncSteps, ListPage, History, BatchSaved, HistoryExpired, tables
  <2>2. PICK b : Moves(j, b) /\ b.pid = sync[j].pid /\ b.at # "cas"
    <3>1. \/ \E s \in {"complete", "finish", "advance", "profile"} : Goes(j, s)
          \/ \E token, start, page :
               Moves(j, [[sync[j] EXCEPT !.at = "save", !.token = token, !.start = start]
                           EXCEPT !.page = page])
      <4>1. CASE ListPage(j)
        <5>1. PICK token, refs :
                 \/ Goes(j, "complete")
                 \/ Fetched(j, refs, [sync[j] EXCEPT !.at = "save", !.token = token])
          BY <4>1 DEF ListPage
        <5>2. [sync[j] EXCEPT !.at = "save", !.token = token]
                = [sync[j] EXCEPT !.at = "save", !.token = token, !.start = sync[j].start]
          BY <1>0 DEF SyncJob
        <5>3. \/ Goes(j, "complete")
              \/ Fetched(j, refs, [sync[j] EXCEPT !.at = "save", !.token = token,
                                                  !.start = sync[j].start])
          BY <5>1, <5>2
        <5> QED
          BY <5>3 DEF Fetched, Becomes, Moves
      <4>2. CASE History(j)
        <5>1. PICK refs :
                 \/ Goes(j, "finish")
                 \/ Fetched(j, refs, [sync[j] EXCEPT !.at = "save", !.token = 0, !.start = mail])
          BY <4>2 DEF History
        <5> QED
          BY <5>1 DEF Fetched, Becomes, Moves
      <4>3. CASE BatchSaved(j) \/ HistoryExpired(j)
        BY <4>3 DEF BatchSaved, HistoryExpired
      <4> QED
        BY <1>4, <4>1, <4>2, <4>3
    <3>2. CASE \E s \in {"complete", "finish", "advance", "profile"} : Goes(j, s)
      BY <1>g, <3>2
    <3>3. CASE \E token, start, page :
                 Moves(j, [[sync[j] EXCEPT !.at = "save", !.token = token, !.start = start]
                             EXCEPT !.page = page])
      <4>1. PICK b, token, start, page :
               /\ b = [[sync[j] EXCEPT !.at = "save", !.token = token, !.start = start]
                         EXCEPT !.page = page]
               /\ Moves(j, b)
        BY <3>3
      <4>2. b.pid = sync[j].pid /\ b.at = "save"
        BY <1>0, <4>1 DEF SyncJob
      <4> QED
        BY <4>1, <4>2
    <3> QED
      BY <3>1, <3>2, <3>3
  <2> QED
    BY <1>s, <2>1, <2>2 DEF LeaseMoves
<1>b. CASE AdvanceRead(j)
  <2>1. InSync(j) /\ UNCHANGED ckpt
    BY <1>b DEF InSync, SyncSteps, AdvanceRead, tables
  <2>2. PICK b : /\ b = [sync[j] EXCEPT !.at = "cas", !.version = ckpt.version,
                                        !.holder = ckpt.owner]
                 /\ Moves(j, b)
    BY <1>b DEF AdvanceRead, Becomes, Moves
  <2>3. b.pid = sync[j].pid /\ b.holder = ckpt.owner
    BY <1>0, <2>2 DEF SyncJob
  <2> QED
    BY <1>s, <2>1, <2>2, <2>3 DEF LeaseMoves
<1>5. CASE Save(j) \/ Process(j)
  <2>1. InSync(j) /\ UNCHANGED ckpt
    BY <1>5 DEF InSync, SyncSteps, Save, Process
  <2>2. sync[j].at \in {"save", "process"}
    BY <1>5 DEF Save, Process
  <2>3. PICK b, page : /\ \/ b = [sync[j] EXCEPT !.page = page]
                          \/ b = [sync[j] EXCEPT !.at = "process"]
                          \/ b = [sync[j] EXCEPT !.at = "save", !.page = page]
                       /\ Moves(j, b)
    BY <1>5 DEF Save, Process, Becomes, Goes, Moves
  <2>4. b.pid = sync[j].pid /\ b.at # "cas"
    BY <1>0, <2>2, <2>3 DEF SyncJob
  <2> QED
    BY <1>s, <2>1, <2>3, <2>4 DEF LeaseMoves
<1>6. CASE AdvanceWrite(j)
  <2>1. sync[j].at = "cas" /\ sync[j].holder \in Owners
    BY <1>0, <1>6 DEF AdvanceWrite, SyncJob
  <2>2. PICK s \in {"compat", "list", "complete", "catch", "fail"} :
           /\ Goes(j, s)
           /\ s = "list" => sync[j].token # 0 /\ ckpt' = Advanced(sync[j].token, sync[j].holder)
    BY <1>6 DEF AdvanceWrite, AfterAdvance
  <2>3. PICK b : Moves(j, b) /\ b.at = s /\ b.pid = sync[j].pid
    BY <1>g, <2>2
  <2>4. s = "list" => /\ ckpt'.lease = "live" /\ ckpt'.status = "syncing"
                      /\ ckpt'.owner = sync[j].holder
    BY <1>0, <2>2 DEF Advanced, Checkpoint
  <2> QED
    BY <1>s, <2>1, <2>2, <2>3, <2>4 DEF LeaseMoves, SyncSteps
<1>7. CASE CompleteOp(j) \/ StoreCursor(j) \/ CompleteOwn(j) \/ FailOp(j)
  <2>1. PICK s \in {"compat", "finish", "complete", "release", "catch"} : Goes(j, s)
    BY <1>7 DEF CompleteOp, StoreCursor, CompleteOwn, FailOp
  <2>2. UNCHANGED ckpt
    BY <1>7 DEF CompleteOp, StoreCursor, CompleteOwn, FailOp
  <2> QED
    BY <1>g, <1>s, <2>1, <2>2 DEF LeaseMoves, SyncSteps
<1>8. CASE Release(j)
  <2>1. Goes(j, "publish") /\ ckpt' = Released(Worker(j)) /\ ~InSync(j)
    BY <1>8 DEF Release, InSync, SyncSteps
  <2> QED
    BY <1>g, <1>s, <2>1 DEF LeaseMoves, SyncSteps
<1>9. CASE PublishCompleted(j) \/ Catch(j) \/ Blame(j) \/ Throws(j) \/ Exit(j)
  <2>1. PICK b : Moves(j, b) /\ b.at \in {"fail", "catch", "blame", "waiting", "failed", "done"}
    BY <1>9, LeaveTypes DEF GoesOn
  <2>2. UNCHANGED ckpt \/ (ckpt' = Released(Worker(j)) /\ ~InSync(j))
    BY <1>9 DEF PublishCompleted, Catch, Blame, Throws, Exit, tables, InSync, SyncSteps
  <2> QED
    BY <1>s, <2>1, <2>2 DEF LeaseMoves, SyncSteps
<1> QED
  BY <1>1, <1>2, <1>3, <1>4, <1>b, <1>5, <1>6, <1>7, <1>8, <1>9 DEF SyncStep

OneSyncInv == HoldInv /\ OneSyncer

\* No step of a job lets a second one into a sync, or takes the lease from the one inside.
LEMMA OneSyncerSteps ==
  ASSUME SyncAssumption, TypeInv, OneSyncInv, NEW j \in SyncJobs,
         SyncStep(j) \/ Throws(j) \/ Exit(j)
  PROVE  OneSyncInv'
<1>1. PICK b : Moves(j, b) /\ LeaseMoves(j, b) /\ stalls' = stalls
  BY LeaseEffect
<1>2. SUFFICES ASSUME stalls = 0
               PROVE  /\ \A k \in SyncJobs : InSync(k)' => Holds(k)'
                      /\ \A k, l \in SyncJobs : InSync(k)' /\ InSync(l)' => k = l
  BY <1>1 DEF OneSyncInv, HoldInv, OneSyncer
<1>3. /\ \A k \in SyncJobs : InSync(k) => Holds(k)
      /\ \A k, l \in SyncJobs : InSync(k) /\ InSync(l) => k = l
  BY <1>2 DEF OneSyncInv, HoldInv, OneSyncer
<1>4. sync'[j] = b /\ \A k \in SyncJobs \ {j} : sync'[k] = sync[k]
  BY <1>1 DEF Moves, TypeInv
<1>5. \A k \in SyncJobs \ {j} : Worker(j) # Worker(k) /\ Worker(j) # Server(k)
  BY DEF Worker, Server, SyncAssumption
<1>6. /\ InSync(j)' <=> b.at \in SyncSteps
      /\ \A k \in SyncJobs \ {j} : /\ InSync(k)' <=> InSync(k)
                                   /\ Worker(k)' = Worker(k) /\ Server(k)' = Server(k)
      /\ b.pid = sync[j].pid => Worker(j)' = Worker(j) /\ Server(j)' = Server(j)
  BY <1>4 DEF InSync, Worker, Server
<1>7. CASE /\ ckpt' = ckpt
           /\ b.at \in SyncSteps => InSync(j) /\ b.pid = sync[j].pid
           /\ b.at = "cas" => b.holder = ckpt.owner
  BY <1>3, <1>4, <1>6, <1>7 DEF Holds
<1>8. CASE \E w : Claims(j, b, w)
  <2>1. PICK w : Claims(j, b, w)
    BY <1>8
  <2>2. \A k \in SyncJobs \ {j} : ~InSync(k)
    <3>1. CASE w = Worker(j)
      BY <1>3, <1>5, <2>1, <3>1 DEF Claims, Grantable, Holds
    <3>2. CASE w = Server(j) /\ InSync(j)
      BY <1>3, <3>2
    <3> QED
      BY <2>1, <3>1, <3>2 DEF Claims
  <2>3. Holds(j)'
    BY <1>4, <1>6, <2>1 DEF Claims, Holds
  <2> QED
    BY <1>6, <2>2, <2>3
<1>9. CASE /\ sync[j].at = "cas" /\ b.at # "cas"
           /\ b.at \in SyncSteps => /\ b.pid = sync[j].pid /\ ckpt'.lease = "live"
                                    /\ ckpt'.status = "syncing" /\ ckpt'.owner = sync[j].holder
  <2>1. InSync(j) /\ Holds(j)
    BY <1>3, <1>9 DEF InSync, SyncSteps
  <2>2. b.at \in SyncSteps => Holds(j)'
    BY <1>4, <1>6, <1>9, <2>1 DEF Holds
  <2> QED
    BY <1>3, <1>6, <2>1, <2>2
<1>10. CASE ~InSync(j) /\ b.at \notin SyncSteps /\ ckpt' = Released(Worker(j))
  <2>1. ASSUME NEW k \in SyncJobs, InSync(k) PROVE ckpt' = ckpt
    BY <1>3, <1>5, <1>10, <2>1 DEF Holds, Released
  <2>2. \A k \in SyncJobs : InSync(k)' => k # j /\ InSync(k) /\ Holds(k)'
    BY <1>3, <1>4, <1>6, <1>10, <2>1 DEF Holds
  <2> QED
    BY <1>3, <2>2
<1> QED
  BY <1>1, <1>7, <1>8, <1>9, <1>10 DEF LeaseMoves

\* One job at a time is inside a sync, by every step of the specification.
LEMMA OneSyncerInductive ==
  ASSUME SyncAssumption, TypeInv, OneSyncInv, [SyncNext]_syncVars
  PROVE  OneSyncInv'
<1>a. ASSUME UNCHANGED sync, stalls' = 0 => stalls = 0 /\ UNCHANGED ckpt
      PROVE  OneSyncInv'
  BY <1>a DEF OneSyncInv, HoldInv, OneSyncer, InSync, Holds, Worker, Server
<1>1. CASE UNCHANGED syncVars \/ Arrive \/ SyncReplicate
  BY <1>1, <1>a DEF syncVars, Arrive, SyncReplicate, bounds, tables
<1>2. ASSUME NEW j \in SyncJobs, SyncStep(j) \/ Throws(j) \/ Exit(j) PROVE OneSyncInv'
  BY <1>2, OneSyncerSteps
<1>3. ASSUME NEW j \in SyncJobs, Refresh(j) PROVE OneSyncInv'
  <2>1. stalls = 0 => \A k \in SyncJobs : ~InSync(k)
    BY <1>3 DEF OneSyncInv, HoldInv, Holds, Refresh
  <2>2. UNCHANGED <<sync, stalls>>
    BY <1>3 DEF Refresh, bounds
  <2> QED
    BY <2>1, <2>2 DEF OneSyncInv, HoldInv, OneSyncer, InSync
<1>4. CASE Expire
  <2>1. UNCHANGED sync /\ stalls \in Nat
    BY <1>4 DEF Expire, TypeInv, TablesOK, SyncAssumption
  <2>2. CASE Held
    BY <1>4, <1>a, <2>1, <2>2 DEF Expire
  <2>3. CASE ~Held
    <3>1. stalls' = stalls
      BY <1>4, <2>3 DEF Expire
    <3>2. stalls = 0 => \A k \in SyncJobs : ~InSync(k)
      BY <2>3 DEF OneSyncInv, HoldInv, Holds, Held, InSync, Busy, SyncSteps
    <3> QED
      BY <2>1, <3>1, <3>2 DEF OneSyncInv, HoldInv, OneSyncer, InSync
  <2> QED
    BY <2>2, <2>3
<1> QED
  BY <1>1, <1>2, <1>3, <1>4 DEF SyncNext

\* Where it starts: nothing is stored, and no job has begun.
LEMMA InitInv ==
  ASSUME SyncAssumption, SyncInit
  PROVE  TypeInv /\ OneSyncInv
<1>1. /\ 0 \in 0..MaxMail /\ 0 \in 0..mail /\ Mailbox \in Mailbox..MaxMail /\ MaxMail \in Nat
      /\ 0 \in 0..MaxFailures /\ 0 \in 0..MaxExits /\ 0 \in 0..MaxStalls
      /\ SyncAttempts \in Nat /\ 0 < SyncAttempts /\ 0 \in 0..SyncAttempts /\ mail \in Nat
  BY DEF SyncInit, SyncAssumption
<1>2. ckpt \in Checkpoint
  BY <1>1 DEF SyncInit, Checkpoint, Owners, Modes
<1>3. ops \in Seq(Operation) /\ Len(ops) = 0
  BY DEF SyncInit
<1>4. /\ shown.ckpt = ckpt /\ shown.ops = ops /\ shown.cursor = 0
      /\ shown \in [ckpt : Checkpoint, ops : Seq(Operation), cursor : 0..mail]
  BY <1>1, <1>2, <1>3 DEF SyncInit
<1>5. TablesOK
  BY <1>1, <1>2, <1>3, <1>4 DEF SyncInit, TablesOK
<1>6. JobOK(Fresh(0))
  BY <1>1, <1>5, FreshTypes
<1>7. sync \in [SyncJobs -> SyncJob] /\ \A j \in SyncJobs : sync[j] = Fresh(0)
  BY <1>6 DEF SyncInit, JobOK
<1>8. \A j \in SyncJobs : JobOK(sync[j])
  <2> TAKE j \in SyncJobs
  <2> QED
    BY <1>6, <1>7
<1>9. \A j \in SyncJobs : ~InSync(j)
  BY <1>7 DEF InSync, SyncSteps, Fresh
<1> QED
  BY <1>5, <1>7, <1>8, <1>9 DEF TypeInv, OneSyncInv, HoldInv, OneSyncer

\* The state of the jobs, the checkpoint and the tables keeps its type: the indices of a job
\* are those of operations that exist, its page holds messages that have arrived, and no
\* message is processed that has no row.
THEOREM SyncTyped ==
  ASSUME SyncAssumption
  PROVE  SyncSpec => []SyncTypeOK
<1>1. SyncInit => TypeInv
  BY InitInv
<1>2. TypeInv /\ [SyncNext]_syncVars => TypeInv'
  BY TypeInductive
<1>3. TypeInv => SyncTypeOK
  BY TypeInvImplies
<1> QED
  BY <1>1, <1>2, <1>3, PTL DEF SyncSpec

\* As long as no lease runs out under a live worker, at most one job at a time is between the
\* claim of its operation and the close of the checkpoint, however many jobs, processes, exits,
\* failed calls and retries there are, and whatever the replica shows.
THEOREM OneJobSyncs ==
  ASSUME SyncAssumption
  PROVE  SyncSpec => []OneSyncer
<1>1. SyncInit => TypeInv /\ OneSyncInv
  BY InitInv
<1>2. TypeInv /\ OneSyncInv /\ [SyncNext]_syncVars => TypeInv' /\ OneSyncInv'
  BY TypeInductive, OneSyncerInductive
<1>3. OneSyncInv => OneSyncer
  BY DEF OneSyncInv
<1> QED
  BY <1>1, <1>2, <1>3, PTL DEF SyncSpec

-----------------------------------------------------------------------------
(* What a job owes: the messages it has neither stored nor given up are    *)
(* still ahead of it.                                                      *)

Stored == saved \cup dropped

\* A resumption has passed over the others that are not stored.
Covered == Stored \cup skipped

Fetching == {"list", "save", "process", "advance", "cas"}
Storing == Fetching \cup {"complete", "compat"}

\* The message is on a page that the job has still to list, or on the one in its hands.
Ahead(b, m) ==
  \/ b.at = "list" /\ (b.token = 0 \/ m < b.token)
  \/ b.at \in {"save", "process"} /\ (m < b.token \/ m \in b.page)
  \/ b.at \in {"advance", "cas"} /\ m < b.token

Owed(b, hi) == \A m \in 1..hi : m \in Stored \/ Ahead(b, m)

\* Only a listing has pages to come.
Shape(b) ==
  /\ b.at = "history" => b.how \in {"delta", "resume"}
  /\ b.at = "list" => b.how = "list"
  /\ b.at \in Fetching /\ b.how # "list" => b.token = 0

\* A step of a job loses no message it owes.
Carries(j, b) == \A m \in 1..mail : Ahead(sync[j], m) => Ahead(b, m) \/ m \in Stored'

Quiet(c) == c.mode = "INITIAL_SYNC" => c.token = 0

\* A step of a job as the messages see it.
StoreMoves(j, b) ==
  \/ b.at \in {"waiting", "claimed", "fail", "catch", "blame", "failed"}
  \/ /\ sync[j].at \in Storing /\ b.at \in Storing \cup {"finish"}
     /\ Carries(j, b) /\ b.how = sync[j].how /\ b.start = sync[j].start
  \/ /\ sync[j].at = "claimed" /\ Quiet(ckpt')
     /\ b.at = IF j \in Initial THEN "profile" ELSE "decide"
  \/ sync[j].at \in {"decide", "history"} /\ b.at = "profile"
  \/ sync[j].at = "profile" /\ b.at = "plan" /\ b.start = mail
  \/ /\ sync[j].at = "plan" /\ b.at = "list" /\ b.how = "list" /\ b.start = sync[j].start
     /\ b.token = 0 \/ (Read.ckpt.mode = "INITIAL_SYNC" /\ b.token = Read.ckpt.token)
     /\ b.token # 0 => \A m \in (Mailbox + 1)..b.start : m >= b.token => m \in Covered'
  \/ sync[j].at = "decide" /\ b.at = "target" /\ b.start = Read.cursor
  \/ sync[j].at = "decide" /\ b.at = "history" /\ b.how = "resume"
  \/ sync[j].at = "target" /\ b.at = "history" /\ b.how = "delta" /\ b.start = sync[j].start
  \/ /\ sync[j].at = "history" /\ b.at = "save" /\ b.how = sync[j].how /\ b.start = mail
     /\ \A m \in 1..mail : \/ sync[j].how = "delta" /\ m <= sync[j].start
                          \/ m \in Covered' \/ Ahead(b, m)
  \/ sync[j].at \in {"target", "history"} /\ b.at = "finish"
  \/ <<sync[j].at, b.at>> \in {<<"finish", "release">>, <<"release", "publish">>,
                               <<"publish", "done">>}

\* The same step as the checkpoint and the cursor see it.
TokenMoves(j, b) ==
  /\ \/ ckpt'.token = ckpt.token /\ ckpt'.mode = ckpt.mode
     \/ Quiet(ckpt')
     \/ sync[j].at = "plan" /\ b.at = "list" /\ ckpt'.token = b.token
     \/ sync[j].at = "cas" /\ ckpt' = Advanced(sync[j].token, sync[j].holder)
  /\ cursor' = cursor \/ (sync[j].at = "compat" /\ cursor' = sync[j].start)
  /\ shown' = shown

\* The newest page of a listing: it is empty when nothing is left to list, and nothing newer
\* than one of its messages is left out.
LEMMA NewestPage ==
  ASSUME NEW n \in Nat, NEW S \in SUBSET (1..n), NEW size \in Nat \ {0},
         NEW refs, refs = {m \in S : Cardinality({x \in S : x > m}) < size}
  PROVE  /\ refs = {} => S = {}
         /\ \A m \in refs, x \in S : x >= m => x \in refs
<1>0. S \subseteq Nat /\ refs \subseteq S
  OBVIOUS
<1>1. ASSUME S # {} PROVE refs # {}
  <2>1. PICK top \in S : \A y \in S : y <= top
    BY <1>1, PageTypes
  <2>2. {x \in S : x > top} = {}
    <3>1. \A x \in S : ~(x > top)
      BY <1>0, <2>1
    <3> QED
      BY <3>1
  <2>3. Cardinality({x \in S : x > top}) = 0
    BY <2>2, FS_EmptySet
  <2> QED
    BY <2>1, <2>3
<1>2. ASSUME NEW m \in refs, NEW x \in S, x >= m PROVE x \in refs
  <2> DEFINE Above(y) == {z \in S : z > y}
  <2>1. Above(x) \subseteq Above(m)
    <3>1. x \in Nat /\ m \in Nat
      BY <1>0
    <3>2. \A z \in S : z > x => z > m
      BY <1>0, <1>2, <3>1
    <3> QED
      BY <3>2
  <2>2. IsFiniteSet(Above(m)) /\ Cardinality(Above(m)) \in Nat /\ Cardinality(Above(x)) \in Nat
    BY SubsetsOfIntervals
  <2>3. Cardinality(Above(x)) <= Cardinality(Above(m))
    BY <2>1, <2>2, FS_Subset
  <2>4. Cardinality(Above(m)) < size
    OBVIOUS
  <2>5. Cardinality(Above(x)) < size
    BY <2>2, <2>3, <2>4
  <2> QED
    BY <2>5
<1> QED
  BY <1>1, <1>2

\* A step that only changes where the job is.
LEMMA GoesFields ==
  ASSUME TypeInv, NEW j \in SyncJobs, NEW s, Goes(j, s)
  PROVE  \E b : /\ Moves(j, b) /\ b.at = s /\ b.how = sync[j].how /\ b.start = sync[j].start
                /\ b.token = sync[j].token /\ b.page = sync[j].page
<1>1. sync[j] \in SyncJob
  BY DEF TypeInv
<1>2. PICK b : b = [sync[j] EXCEPT !.at = s]
  OBVIOUS
<1>3. /\ b.at = s /\ b.how = sync[j].how /\ b.start = sync[j].start
      /\ b.token = sync[j].token /\ b.page = sync[j].page
  BY <1>1, <1>2 DEF SyncJob
<1> QED
  BY <1>2, <1>3 DEF Goes, Moves

\* The job with a page in its hands.
Taken(j, token, start) == [sync[j] EXCEPT !.at = "save", !.token = token, !.start = start]

\* A fetched page: what it lists is in the hands of the job, or is given up.
LEMMA FetchedFields ==
  ASSUME TypeInv, NEW j \in SyncJobs, NEW refs, NEW token, NEW start,
         Fetched(j, refs, Taken(j, token, start))
  PROVE  \E b : /\ Moves(j, b) /\ b.at = "save" /\ b.how = sync[j].how
                /\ b.start = start /\ b.token = token
                /\ \A m \in refs : m \in b.page \/ m \in dropped'
<1>1. sync[j] \in SyncJob
  BY DEF TypeInv
<1>2. PICK r : r = Taken(j, token, start)
  OBVIOUS
<1>3. PICK page : /\ Becomes(j, [r EXCEPT !.page = page])
                  /\ \A m \in refs : m \in page \/ m \in dropped'
  BY <1>2 DEF Fetched
<1>4. PICK b : b = [r EXCEPT !.page = page]
  OBVIOUS
<1>5. /\ b.at = "save" /\ b.how = sync[j].how /\ b.start = start /\ b.token = token
      /\ b.page = page
  BY <1>1, <1>2, <1>4 DEF SyncJob, Taken
<1> QED
  BY <1>3, <1>4, <1>5 DEF Becomes, Moves

\* A page is listed: what is newer than its last message was listed before or is on it.
LEMMA ListMoves ==
  ASSUME SyncAssumption, TypeInv, NEW j \in SyncJobs, Shape(sync[j]), ListPage(j)
  PROVE  \E b : Moves(j, b) /\ Shape(b) /\ StoreMoves(j, b) /\ TokenMoves(j, b)
<1> DEFINE listed == {m \in 1..mail : sync[j].token = 0 \/ m < sync[j].token}
           refs == {m \in listed : Cardinality({n \in listed : n > m}) < PageSize}
           token == IF listed \ refs = {} THEN 0 ELSE Min(refs)
<1>0. /\ sync[j] \in SyncJob /\ mail \in Nat /\ PageSize \in Nat \ {0} /\ sync[j].at = "list"
      /\ sync[j].how = "list" /\ sync[j].token \in Nat
      /\ UNCHANGED <<mail, saved, processed, tables, shown>>
  <2>1. sync[j] \in SyncJob /\ mail \in Nat /\ PageSize \in Nat \ {0} /\ MaxMail \in Nat
    BY DEF TypeInv, TablesOK, SyncAssumption
  <2>2. sync[j].at = "list" /\ UNCHANGED <<mail, saved, processed, tables, shown>>
    BY DEF ListPage
  <2> QED
    BY <2>1, <2>2 DEF Shape, SyncJob
<1>t. ASSUME NEW b PROVE TokenMoves(j, b)
  BY <1>0 DEF TokenMoves, tables
<1>1. /\ listed \in SUBSET (1..mail) /\ refs \subseteq listed
      /\ refs = {} => listed = {}
      /\ \A m \in refs, x \in listed : x >= m => x \in refs
  <2>1. listed \in SUBSET (1..mail) /\ refs \subseteq listed
    OBVIOUS
  <2> HIDE DEF listed
  <2> QED
    BY <1>0, <2>1, NewestPage
<1>2. \A m \in 1..mail : Ahead(sync[j], m) => m \in listed
  BY <1>0 DEF Ahead
<1>3. CASE refs = {}
  <2>1. Goes(j, "complete")
    BY <1>3 DEF ListPage
  <2>2. PICK b : Moves(j, b) /\ b.at = "complete" /\ b.how = sync[j].how /\ b.start = sync[j].start
    BY <2>1, GoesFields
  <2>3. Carries(j, b)
    BY <1>1, <1>2, <1>3 DEF Carries
  <2>4. Shape(b)
    BY <2>2 DEF Shape, Fetching
  <2> QED
    BY <1>0, <1>t, <2>2, <2>3, <2>4 DEF StoreMoves, Storing, Fetching
<1>4. CASE refs # {}
  <2>1. Fetched(j, refs, [sync[j] EXCEPT !.at = "save", !.token = token])
    BY <1>4 DEF ListPage
  <2> HIDE DEF refs, token, listed
  <2>2. [sync[j] EXCEPT !.at = "save", !.token = token] = Taken(j, token, sync[j].start)
    BY <1>0 DEF SyncJob, Taken
  <2>3. Fetched(j, refs, Taken(j, token, sync[j].start))
    BY <2>1, <2>2
  <2>4. PICK b : /\ Moves(j, b) /\ b.at = "save" /\ b.how = sync[j].how
                 /\ b.start = sync[j].start /\ b.token = token
                 /\ \A m \in refs : m \in b.page \/ m \in dropped'
    BY <2>3, FetchedFields
  <2>5. ASSUME NEW m \in 1..mail, Ahead(sync[j], m) PROVE Ahead(b, m) \/ m \in Stored'
    <3>1. m \in listed
      BY <1>2, <2>5
    <3>2. CASE m \in refs
      BY <2>4, <3>2 DEF Ahead, Stored
    <3>3. CASE m \notin refs
      <4>1. token = Min(refs)
        BY <3>1, <3>3 DEF token
      <4>2. Min(refs) \in refs /\ Min(refs) \in Nat
        <5>1. refs \in SUBSET (1..mail) /\ refs \subseteq Nat
          BY <1>0, <1>1
        <5> QED
          BY <1>0, <1>4, <5>1, PageTypes
      <4>3. ~(m >= Min(refs))
        BY <1>1, <3>1, <3>3, <4>2
      <4>4. m < token
        BY <1>0, <4>1, <4>2, <4>3
      <4> QED
        BY <2>4, <4>4 DEF Ahead
    <3> QED
      BY <3>2, <3>3
  <2>6. Shape(b)
    BY <1>0, <2>4 DEF Shape
  <2> QED
    BY <1>0, <1>t, <2>4, <2>5, <2>6 DEF StoreMoves, Storing, Fetching, Carries
<1> QED
  BY <1>3, <1>4

\* A message leaves the page when it is stored or given up.
LEMMA SaveMoves ==
  ASSUME SyncAssumption, TypeInv, NEW j \in SyncJobs, Shape(sync[j]), Save(j) \/ Process(j)
  PROVE  \E b : Moves(j, b) /\ Shape(b) /\ StoreMoves(j, b) /\ TokenMoves(j, b)
<1>0. /\ sync[j] \in SyncJob /\ JobOK(sync[j]) /\ sync[j].at \in {"save", "process"}
      /\ UNCHANGED <<mail, ckpt, cursor, shown>>
  BY DEF TypeInv, Save, Process
<1>t. ASSUME NEW b PROVE TokenMoves(j, b)
  BY <1>0 DEF TokenMoves
<1>1. PICK m : m = Current(j)
  OBVIOUS
<1>2. saved \subseteq saved' /\ dropped \subseteq dropped'
  BY SaveTypes DEF TablesKept
<1>3. ASSUME Becomes(j, [sync[j] EXCEPT !.at = "save", !.page = @ \ {m}]), m \in Stored'
      PROVE  \E b : Moves(j, b) /\ Shape(b) /\ StoreMoves(j, b) /\ TokenMoves(j, b)
  <2>1. PICK b : b = [sync[j] EXCEPT !.at = "save", !.page = @ \ {m}] /\ Moves(j, b)
    BY <1>3 DEF Becomes, Moves
  <2>2. /\ b.at = "save" /\ b.page = sync[j].page \ {m} /\ b.how = sync[j].how
        /\ b.start = sync[j].start /\ b.token = sync[j].token
    BY <1>0, <2>1 DEF SyncJob
  <2>3. Carries(j, b)
    BY <1>0, <1>3, <2>2 DEF Carries, Ahead
  <2>4. Shape(b)
    BY <1>0, <2>2 DEF Shape, Fetching
  <2> QED
    BY <1>0, <1>t, <2>1, <2>2, <2>3, <2>4 DEF StoreMoves, Storing, Fetching
<1>4. CASE Save(j)
  <2>1. [sync[j] EXCEPT !.page = @ \ {m}] = [sync[j] EXCEPT !.at = "save", !.page = @ \ {m}]
    BY <1>0, <1>4 DEF Save, SyncJob
  <2>2. CASE Becomes(j, [sync[j] EXCEPT !.page = @ \ {m}])
    <3>1. m \in Stored' \/ Goes(j, "process")
      BY <1>1, <1>2, <1>4 DEF Save, Stored
    <3>2. CASE m \in Stored'
      BY <1>3, <2>1, <2>2, <3>2
    <3>3. CASE Goes(j, "process")
      <4>1. PICK b : /\ Moves(j, b) /\ b.at = "process" /\ b.how = sync[j].how
                     /\ b.start = sync[j].start /\ b.token = sync[j].token /\ b.page = sync[j].page
        BY <3>3, GoesFields
      <4>2. Carries(j, b) /\ Shape(b)
        BY <1>0, <4>1 DEF Carries, Ahead, Shape, Fetching
      <4> QED
        BY <1>0, <1>t, <4>1, <4>2 DEF StoreMoves, Storing, Fetching
    <3> QED
      BY <3>1, <3>2, <3>3
  <2>3. CASE Goes(j, "process")
    <3>1. PICK b : /\ Moves(j, b) /\ b.at = "process" /\ b.how = sync[j].how
                   /\ b.start = sync[j].start /\ b.token = sync[j].token /\ b.page = sync[j].page
      BY <2>3, GoesFields
    <3>2. Carries(j, b) /\ Shape(b)
      BY <1>0, <3>1 DEF Carries, Ahead, Shape, Fetching
    <3> QED
      BY <1>0, <1>t, <3>1, <3>2 DEF StoreMoves, Storing, Fetching
  <2> QED
    BY <1>1, <1>4, <2>2, <2>3 DEF Save
<1>5. CASE Process(j)
  <2>1. m \in saved /\ saved' = saved
    BY <1>0, <1>1, <1>5 DEF Process, JobOK, Current
  <2>2. Becomes(j, [sync[j] EXCEPT !.at = "save", !.page = @ \ {m}])
    BY <1>1, <1>5 DEF Process
  <2> QED
    BY <1>3, <2>1, <2>2 DEF Stored
<1> QED
  BY <1>4, <1>5

\* The end of a page and of a sync.
LEMMA EndMoves ==
  ASSUME SyncAssumption, TypeInv, NEW j \in SyncJobs, Shape(sync[j]),
         BatchSaved(j) \/ AdvanceRead(j) \/ AdvanceWrite(j) \/ CompleteOp(j) \/ StoreCursor(j)
  PROVE  \E b : Moves(j, b) /\ Shape(b) /\ StoreMoves(j, b) /\ TokenMoves(j, b)
<1>0. sync[j] \in SyncJob /\ sync[j].token \in Nat /\ UNCHANGED <<mailVars, shown>> /\ mail \in Nat
  <2>1. sync[j] \in SyncJob /\ mail \in Nat /\ MaxMail \in Nat
    BY DEF TypeInv, TablesOK, SyncAssumption
  <2>2. UNCHANGED <<mailVars, shown>>
    BY DEF BatchSaved, AdvanceRead, AdvanceWrite, CompleteOp, StoreCursor
  <2> QED
    BY <2>1, <2>2 DEF SyncJob
<1>1. CASE BatchSaved(j)
  <2>1. Goes(j, "advance") /\ sync[j].at = "save" /\ sync[j].page = {} /\ UNCHANGED tables
    BY <1>1 DEF BatchSaved
  <2>2. PICK b : /\ Moves(j, b) /\ b.at = "advance" /\ b.how = sync[j].how
                 /\ b.start = sync[j].start /\ b.token = sync[j].token
    BY <2>1, GoesFields
  <2>3. Carries(j, b) /\ Shape(b)
    BY <2>1, <2>2 DEF Carries, Ahead, Shape, Fetching
  <2> QED
    BY <1>0, <2>1, <2>2, <2>3 DEF StoreMoves, TokenMoves, Storing, Fetching, tables
<1>2. CASE AdvanceRead(j)
  <2>1. PICK b : /\ b = [sync[j] EXCEPT !.at = "cas", !.version = ckpt.version,
                                        !.holder = ckpt.owner]
                 /\ Moves(j, b)
    BY <1>2 DEF AdvanceRead, Becomes, Moves
  <2>2. /\ sync[j].at = "advance" /\ UNCHANGED tables /\ b.at = "cas" /\ b.how = sync[j].how
        /\ b.start = sync[j].start /\ b.token = sync[j].token
    BY <1>0, <1>2, <2>1 DEF AdvanceRead, SyncJob
  <2>3. Carries(j, b) /\ Shape(b)
    BY <2>2 DEF Carries, Ahead, Shape, Fetching
  <2> QED
    BY <1>0, <2>1, <2>2, <2>3 DEF StoreMoves, TokenMoves, Storing, Fetching, tables
<1>3. CASE AdvanceWrite(j)
  <2>1. /\ sync[j].at = "cas" /\ cursor' = cursor
        /\ ckpt' = ckpt \/ ckpt' = Advanced(sync[j].token, sync[j].holder)
        /\ Goes(j, AfterAdvance(j)) \/ Goes(j, "catch") \/ Goes(j, "fail")
    BY <1>3 DEF AdvanceWrite
  <2>2. ASSUME NEW b PROVE TokenMoves(j, b)
    BY <1>0, <2>1 DEF TokenMoves
  <2>3. ASSUME NEW s \in {"catch", "fail"}, Goes(j, s)
        PROVE  \E b : Moves(j, b) /\ Shape(b) /\ StoreMoves(j, b)
    <3>1. PICK b : Moves(j, b) /\ b.at = s
      BY <2>3, GoesFields
    <3> QED
      BY <3>1 DEF Shape, StoreMoves, Fetching
  <2>4. ASSUME NEW s, s = AfterAdvance(j), Goes(j, s)
        PROVE  \E b : Moves(j, b) /\ Shape(b) /\ StoreMoves(j, b)
    <3>1. PICK b : /\ Moves(j, b) /\ b.at = s /\ b.how = sync[j].how
                   /\ b.start = sync[j].start /\ b.token = sync[j].token
      BY <2>4, GoesFields
    <3>2. /\ s \in {"compat", "list", "complete"}
          /\ s = "list" <=> sync[j].how = "list" /\ sync[j].token # 0
      BY <2>4 DEF AfterAdvance
    <3>3. s # "list" => sync[j].token = 0
      BY <2>1, <3>2 DEF Shape, Fetching
    <3>4. Carries(j, b)
      BY <1>0, <2>1, <3>1, <3>2, <3>3 DEF Carries, Ahead
    <3>5. Shape(b)
      BY <3>1, <3>2 DEF Shape, Fetching
    <3> QED
      BY <2>1, <3>1, <3>2, <3>4, <3>5 DEF StoreMoves, Storing, Fetching
  <2> QED
    BY <2>1, <2>2, <2>3, <2>4
<1>4. CASE CompleteOp(j) \/ StoreCursor(j)
  <2>1. /\ sync[j].at \in {"complete", "compat"} /\ UNCHANGED ckpt
        /\ cursor' = cursor \/ (sync[j].at = "compat" /\ cursor' = sync[j].start)
    BY <1>4 DEF CompleteOp, StoreCursor
  <2>2. PICK s \in {"compat", "complete", "finish"} : Goes(j, s)
    BY <1>4 DEF CompleteOp, StoreCursor
  <2>3. PICK b : Moves(j, b) /\ b.at = s /\ b.how = sync[j].how /\ b.start = sync[j].start
    BY <2>2, GoesFields
  <2>4. Carries(j, b) /\ Shape(b)
    BY <2>1, <2>3 DEF Carries, Ahead, Shape, Fetching
  <2> QED
    BY <1>0, <2>1, <2>3, <2>4 DEF StoreMoves, TokenMoves, Storing, Fetching
<1> QED
  BY <1>1, <1>2, <1>3, <1>4

\* The job opens an operation under the identity of the server, or goes to its catch block.
LEMMA AsServerMoves ==
  ASSUME TypeInv, NEW j \in SyncJobs, NEW how, NEW mode, NEW token, NEW history, NEW next,
         InitializeAsServer(j, how, mode, token, history, next)
  PROVE  \/ /\ ckpt'.token = token /\ ckpt'.mode = mode
            /\ \E b : /\ Moves(j, b) /\ b.at = next /\ b.how = how /\ b.token = token
                      /\ b.start = sync[j].start
         \/ ckpt' = ckpt /\ \E b : Moves(j, b) /\ b.at = "catch"
<1>0. sync[j] \in SyncJob
  BY DEF TypeInv
<1>1. CASE Grantable(Server(j))
  <2>1. PICK b : /\ b = [sync[j] EXCEPT !.at = next, !.how = how, !.token = token,
                                        !.op = Len(ops) + 1, !.batch = Len(ops) + 1]
                 /\ Moves(j, b)
    BY <1>1 DEF InitializeAsServer, Becomes, Moves
  <2>2. b.at = next /\ b.how = how /\ b.token = token /\ b.start = sync[j].start
    BY <1>0, <2>1 DEF SyncJob
  <2>3. ckpt'.token = token /\ ckpt'.mode = mode
    BY <1>1 DEF InitializeAsServer, OpenOp
  <2> QED
    BY <2>1, <2>2, <2>3
<1>2. CASE ~Grantable(Server(j))
  <2>1. Goes(j, "catch") /\ ckpt' = ckpt
    BY <1>2 DEF InitializeAsServer
  <2> QED
    BY <2>1, GoesFields
<1> QED
  BY <1>1, <1>2

\* From the claim to the first page.
LEMMA PlanMoves ==
  ASSUME SyncAssumption, TypeInv, NEW j \in SyncJobs, Shape(sync[j]),
         Initialize(j) \/ Profile(j) \/ Plan(j) \/ Decide(j) \/ Target(j)
  PROVE  \E b : Moves(j, b) /\ Shape(b) /\ StoreMoves(j, b) /\ TokenMoves(j, b)
<1>0. sync[j] \in SyncJob /\ UNCHANGED <<mail, saved, dropped, cursor, shown>>
  BY DEF TypeInv, Initialize, Profile, Plan, Decide, Target, tables, mailVars
<1>c. ASSUME NEW b, b.at = "catch", ckpt' = ckpt
      PROVE  Shape(b) /\ StoreMoves(j, b) /\ TokenMoves(j, b)
  BY <1>0, <1>c DEF Shape, StoreMoves, TokenMoves, Fetching
<1>1. CASE Initialize(j)
  <2>1. CASE Grantable(Worker(j))
    <3>1. PICK s, b : /\ s = IF j \in Initial THEN "profile" ELSE "decide"
                      /\ b = [sync[j] EXCEPT !.at = s, !.own = Len(ops) + 1] /\ Moves(j, b)
      BY <1>1, <2>1 DEF Initialize, Becomes, Moves
    <3>2. b.at = s /\ sync[j].at = "claimed"
      BY <1>0, <1>1, <3>1 DEF Initialize, SyncJob
    <3>3. Quiet(ckpt')
      BY <1>1, <2>1 DEF Initialize, OpenOp, Quiet
    <3>4. StoreMoves(j, b)
      BY <3>1, <3>2, <3>3 DEF StoreMoves
    <3>5. b.at \in {"profile", "decide"}
      BY <3>1, <3>2
    <3>6. Shape(b)
      BY <3>5 DEF Shape, Fetching
    <3>7. TokenMoves(j, b)
      BY <1>0, <3>3 DEF TokenMoves
    <3> QED
      BY <3>1, <3>4, <3>6, <3>7
  <2>2. CASE ~Grantable(Worker(j))
    <3>1. Goes(j, "catch") /\ ckpt' = ckpt
      BY <1>1, <2>2 DEF Initialize
    <3> QED
      BY <1>c, <3>1, GoesFields
  <2> QED
    BY <2>1, <2>2
<1>2. CASE Profile(j)
  <2>1. PICK b : b = [sync[j] EXCEPT !.at = "plan", !.start = mail] /\ Moves(j, b)
    BY <1>2 DEF Profile, Becomes, Moves
  <2>2. b.at = "plan" /\ b.start = mail /\ sync[j].at = "profile" /\ ckpt' = ckpt
    BY <1>0, <1>2, <2>1 DEF Profile, SyncJob, tables
  <2> QED
    BY <1>0, <2>1, <2>2 DEF Shape, StoreMoves, TokenMoves, Fetching
<1>3. CASE Plan(j)
  <2>1. PICK resumes, token :
           /\ resumes <=> Resumable(Read) /\ Read.ckpt.mode = "INITIAL_SYNC"
           /\ token = IF resumes THEN Read.ckpt.token ELSE 0
    OBVIOUS
  <2>2. sync[j].at = "plan"
    BY <1>3 DEF Plan
  <2>p. ASSUME sync'[j].at = "list", token # 0,
               NEW m \in (Mailbox + 1)..sync[j].start, m >= token
        PROVE  m \in Covered'
    <3>1. m \in Missing({n \in (Mailbox + 1)..sync[j].start : n >= token}) \/ m \in Stored
      BY <2>p DEF Missing, Stored
    <3>2. skipped' = skipped \cup Missing({n \in (Mailbox + 1)..sync[j].start : n >= token})
      BY <1>3, <2>1, <2>p DEF Plan
    <3> QED
      BY <1>0, <3>1, <3>2 DEF Covered, Stored
  <2>a. ASSUME NEW b, b.at = "list", b.how = "list", b.token = token, b.start = sync[j].start,
               ckpt' = ckpt \/ ckpt'.token = token, Moves(j, b)
        PROVE  Shape(b) /\ StoreMoves(j, b) /\ TokenMoves(j, b)
    <3>1. sync'[j] = b
      BY <2>a DEF Moves, TypeInv
    <3>2. b.token # 0 => \A m \in (Mailbox + 1)..b.start : m >= b.token => m \in Covered'
      BY <2>a, <2>p, <3>1
    <3>3. StoreMoves(j, b)
      BY <2>1, <2>2, <2>a, <3>2 DEF StoreMoves
    <3> QED
      BY <1>0, <2>1, <2>2, <2>a, <3>3 DEF Shape, TokenMoves, Fetching
  <2>3. CASE resumes /\ Latest(Read.ops, Running) # 0
    <3>1. PICK b : /\ b = [sync[j] EXCEPT !.at = "list", !.how = "list", !.token = token,
                                          !.op = Latest(Read.ops, Running),
                                          !.batch = Latest(Read.ops, Open)]
                   /\ Moves(j, b) /\ ckpt' = ckpt
      BY <1>3, <2>1, <2>3 DEF Plan, Becomes, Moves
    <3>2. b.at = "list" /\ b.how = "list" /\ b.token = token /\ b.start = sync[j].start
      BY <1>0, <3>1 DEF SyncJob
    <3> QED
      BY <2>a, <3>1, <3>2
  <2>4. CASE ~(resumes /\ Latest(Read.ops, Running) # 0)
    <3>1. InitializeAsServer(j, "list", "INITIAL_SYNC", token, sync[j].start, "list")
      BY <1>3, <2>1, <2>4 DEF Plan
    <3> QED
      BY <1>c, <2>a, <3>1, AsServerMoves
  <2> QED
    BY <2>3, <2>4
<1>4. CASE Decide(j)
  <2>0. sync[j].at = "decide" /\ ckpt' = ckpt
    BY <1>4 DEF Decide, tables
  <2>1. PICK r \in {[sync[j] EXCEPT !.at = "history", !.how = "resume",
                                    !.batch = Latest(Read.ops, Open)],
                    [sync[j] EXCEPT !.at = "profile"],
                    [sync[j] EXCEPT !.at = "target", !.start = Read.cursor]} : Moves(j, r)
    BY <1>4 DEF Decide, Becomes, Moves
  <2>2. \/ r.at = "history" /\ r.how = "resume"
        \/ r.at = "profile"
        \/ r.at = "target" /\ r.start = Read.cursor
    BY <1>0, <2>1 DEF SyncJob
  <2> QED
    BY <1>0, <2>0, <2>1, <2>2 DEF Shape, StoreMoves, TokenMoves, Fetching
<1>5. CASE Target(j)
  <2>0. sync[j].at = "target"
    BY <1>5 DEF Target
  <2>1. CASE Goes(j, "finish") /\ UNCHANGED <<ckpt, ops>>
    <3>1. PICK b : Moves(j, b) /\ b.at = "finish"
      BY <2>1, GoesFields
    <3> QED
      BY <1>0, <2>0, <2>1, <3>1 DEF Shape, StoreMoves, TokenMoves, Fetching
  <2>2. CASE InitializeAsServer(j, "delta", "INCREMENTAL_SYNC", sync[j].start, mail, "history")
    <3>1. ASSUME NEW b, b.at = "history", b.how = "delta", b.start = sync[j].start,
                 ckpt'.mode = "INCREMENTAL_SYNC"
          PROVE  Shape(b) /\ StoreMoves(j, b) /\ TokenMoves(j, b)
      BY <1>0, <2>0, <3>1 DEF Shape, StoreMoves, TokenMoves, Fetching, Quiet
    <3> QED
      BY <1>c, <2>2, <3>1, AsServerMoves
  <2> QED
    BY <1>5, <2>1, <2>2 DEF Target
<1> QED
  BY <1>1, <1>2, <1>3, <1>4, <1>5

\* A page of history: all that has arrived since is on it, or is passed over.
LEMMA HistoryMoves ==
  ASSUME SyncAssumption, TypeInv, NEW j \in SyncJobs, Shape(sync[j]),
         History(j) \/ HistoryExpired(j)
  PROVE  \E b : Moves(j, b) /\ Shape(b) /\ StoreMoves(j, b) /\ TokenMoves(j, b)
<1>0. /\ sync[j] \in SyncJob /\ mail \in Nat /\ HistorySize \in Nat /\ sync[j].at = "history"
      /\ UNCHANGED <<mail, ckpt, cursor, shown>>
  BY DEF TypeInv, TablesOK, SyncAssumption, History, HistoryExpired, tables, mailVars
<1>t. ASSUME NEW b PROVE TokenMoves(j, b)
  BY <1>0 DEF TokenMoves
<1>a. ASSUME NEW s \in {"finish", "profile"}, Goes(j, s)
      PROVE  \E b : Moves(j, b) /\ Shape(b) /\ StoreMoves(j, b) /\ TokenMoves(j, b)
  <2>1. PICK b : Moves(j, b) /\ b.at = s
    BY <1>a, GoesFields
  <2> QED
    BY <1>0, <1>t, <2>1 DEF Shape, StoreMoves, Fetching
<1>1. CASE HistoryExpired(j)
  BY <1>1, <1>a DEF HistoryExpired
<1>2. CASE History(j) /\ ~Goes(j, "finish")
  <2> DEFINE since == IF sync[j].how = "delta" THEN sync[j].start
                      ELSE ops[sync[j].batch].history
             added == {m \in 1..mail : m > since}
             refs == IF sync[j].how = "delta"
                     THEN added
                     ELSE {m \in added : Cardinality({n \in added : n < m}) < HistorySize}
  <2>1. Fetched(j, refs, Taken(j, 0, mail))
    BY <1>2 DEF History, Taken
  <2>2. ASSUME NEW m \in 1..mail
        PROVE  (sync[j].how = "delta" /\ m <= sync[j].start) \/ m \in refs \/ m \in Covered'
    <3>1. CASE sync[j].how = "delta"
      <4>1. sync[j].start \in Nat /\ m \in Nat
        BY <1>0 DEF TypeInv, TablesOK, JobOK, SyncJob, SyncAssumption
      <4> QED
        BY <3>1, <4>1
    <3>2. CASE sync[j].how # "delta" /\ m \notin refs
      <4>1. sync[j].how = "resume"
        BY <1>0, <3>2 DEF Shape
      <4>2. refs # {}
        BY <1>2, <4>1 DEF History
      <4>3. skipped' = skipped \cup Missing(1..mail \ refs)
        BY <1>2, <4>1, <4>2 DEF History
      <4>4. m \in Missing(1..mail \ refs) \/ m \in Stored
        BY <3>2 DEF Missing, Stored
      <4>5. saved' = saved /\ dropped \subseteq dropped'
        BY <1>2 DEF History, Fetched
      <4> QED
        BY <4>3, <4>4, <4>5 DEF Covered, Stored
    <3> QED
      BY <3>1, <3>2
  <2> HIDE DEF refs, added, since
  <2>3. PICK b : /\ Moves(j, b) /\ b.at = "save" /\ b.how = sync[j].how /\ b.start = mail
                 /\ b.token = 0 /\ \A m \in refs : m \in b.page \/ m \in dropped'
    BY <2>1, FetchedFields
  <2>4. ASSUME NEW m \in 1..mail
        PROVE  (sync[j].how = "delta" /\ m <= sync[j].start) \/ m \in Covered' \/ Ahead(b, m)
    BY <2>2, <2>3 DEF Ahead, Covered, Stored
  <2>5. StoreMoves(j, b)
    BY <1>0, <2>3, <2>4 DEF StoreMoves
  <2>6. Shape(b)
    BY <2>3 DEF Shape
  <2> QED
    BY <1>t, <2>3, <2>5, <2>6
<1>3. CASE Goes(j, "finish")
  BY <1>3, <1>a
<1> QED
  BY <1>1, <1>2, <1>3

\* The other steps: the end of a job, and the ways out of it.
LEMMA LeaveMoves ==
  ASSUME SyncAssumption, TypeInv, NEW j \in SyncJobs, Shape(sync[j]),
         \/ ClaimFirst(j) \/ CompleteOwn(j) \/ Release(j) \/ PublishCompleted(j) \/ FailOp(j)
         \/ Catch(j) \/ Blame(j) \/ Throws(j) \/ Exit(j)
  PROVE  \E b : Moves(j, b) /\ Shape(b) /\ StoreMoves(j, b) /\ TokenMoves(j, b)
<1>0. ckpt \in Checkpoint
  BY DEF TypeInv, TablesOK
<1>1. UNCHANGED <<cursor, shown>> /\ (ckpt' = ckpt \/ ckpt' = Released(Worker(j)))
  BY DEF ClaimFirst, CompleteOwn, Release, PublishCompleted, FailOp, Catch, Blame, Throws, Exit,
         tables
<1>t. ASSUME NEW b PROVE TokenMoves(j, b)
  <2>1. ckpt'.token = ckpt.token /\ ckpt'.mode = ckpt.mode
    BY <1>0, <1>1 DEF Released, Checkpoint
  <2> QED
    BY <1>1, <2>1 DEF TokenMoves
<1>a. ASSUME NEW b, b.at \in {"waiting", "claimed", "fail", "catch", "blame", "failed"}
      PROVE  Shape(b) /\ StoreMoves(j, b)
  BY <1>a DEF Shape, StoreMoves, Fetching
<1>b. ASSUME NEW b, <<sync[j].at, b.at>> \in {<<"finish", "release">>, <<"release", "publish">>,
                                              <<"publish", "done">>}
      PROVE  Shape(b) /\ StoreMoves(j, b)
  BY <1>b DEF Shape, StoreMoves, Fetching
<1>2. CASE ClaimFirst(j)
  BY <1>2, <1>a, <1>t, ClaimTypes
<1>3. CASE Catch(j) \/ Blame(j) \/ Throws(j) \/ Exit(j)
  <2>1. PICK c : Moves(j, c) /\ c.at \in {"fail", "catch", "blame", "waiting", "failed"}
    <3>1. CASE Catch(j) \/ Blame(j)
      <4>1. Thrown(sync[j].made).at \in {"waiting", "failed"}
        BY DEF Thrown, Fresh
      <4>2. Goes(j, "blame") \/ Moves(j, Thrown(sync[j].made))
        BY <3>1 DEF Catch, Blame, Becomes, Moves
      <4> QED
        BY <4>1, <4>2, GoesFields
    <3>2. CASE Throws(j)
      <4>1. PICK s \in {"fail", "catch"}, fatal \in BOOLEAN, c \in {sync'[j]} :
               c = [sync[j] EXCEPT !.at = s, !.fatal = fatal] /\ Moves(j, c)
        BY <3>2 DEF Throws, Becomes, Moves, TypeInv
      <4>2. c.at = s
        BY <4>1 DEF TypeInv, SyncJob
      <4> QED
        BY <4>1, <4>2
    <3>3. CASE Exit(j)
      <4>1. Moves(j, Fresh(sync[j].made - 1)) /\ Fresh(sync[j].made - 1).at = "waiting"
        BY <3>3 DEF Exit, Becomes, Moves, Fresh
      <4> QED
        BY <4>1
    <3> QED
      BY <1>3, <3>1, <3>2, <3>3
  <2> QED
    BY <1>a, <1>t, <2>1
<1>4. CASE CompleteOwn(j) \/ Release(j)
  <2>1. PICK s \in {"release", "publish"} :
           Goes(j, s) /\ <<sync[j].at, s>> \in {<<"finish", "release">>, <<"release", "publish">>}
    BY <1>4 DEF CompleteOwn, Release
  <2>2. PICK b : Moves(j, b) /\ b.at = s
    BY <2>1, GoesFields
  <2> QED
    BY <1>b, <1>t, <2>1, <2>2
<1>5. CASE PublishCompleted(j)
  <2>1. PICK b : Moves(j, b) /\ b = [Fresh(sync[j].made) EXCEPT !.at = "done"]
    BY <1>5 DEF PublishCompleted, Becomes, Moves
  <2>2. b.at = "done" /\ sync[j].at = "publish"
    BY <1>5, <2>1 DEF PublishCompleted, Fresh
  <2> QED
    <3>1. <<sync[j].at, b.at>> = <<"publish", "done">>
      BY <2>2
    <3>2. Shape(b) /\ StoreMoves(j, b)
      BY <1>b, <3>1
    <3> QED
      BY <1>t, <2>1, <3>2
<1>6. CASE FailOp(j)
  <2>1. Goes(j, "catch")
    BY <1>6 DEF FailOp
  <2>2. PICK b : Moves(j, b) /\ b.at = "catch"
    BY <2>1, GoesFields
  <2> QED
    BY <1>a, <1>t, <2>2
<1> QED
  BY <1>2, <1>3, <1>4, <1>5, <1>6

\* Every step of a job, as the messages, the checkpoint and the cursor see it.
LEMMA StoreEffect ==
  ASSUME SyncAssumption, TypeInv, NEW j \in SyncJobs, Shape(sync[j]),
         SyncStep(j) \/ Throws(j) \/ Exit(j)
  PROVE  \E b : Moves(j, b) /\ Shape(b) /\ StoreMoves(j, b) /\ TokenMoves(j, b)
BY ListMoves, SaveMoves, EndMoves, PlanMoves, HistoryMoves, LeaveMoves DEF SyncStep

-----------------------------------------------------------------------------
(* An initial sync that reports completion has saved what it found.        *)

\* The page token of an initial sync stands for messages that are stored.
TokenOK(c) ==
  c.mode = "INITIAL_SYNC" /\ c.token # 0 => \A m \in 1..Mailbox : m >= c.token => m \in Stored

DoneJob(j, b) ==
  /\ b.at \in Storing /\ b.how = "list" => Owed(b, Mailbox)
  /\ j \in Initial => /\ b.at \notin {"decide", "target", "history"}
                      /\ b.at \in Storing => b.how = "list"
                      /\ b.at \in {"finish", "release", "publish", "done"}
                           => \A m \in 1..Mailbox : m \in Stored

DoneInv ==
  /\ \A j \in SyncJobs : Shape(sync[j]) /\ DoneJob(j, sync[j])
  /\ TokenOK(ckpt) /\ TokenOK(shown.ckpt)

\* What is owed stays owed while the store grows, and a step that carries it on owes it still.
LEMMA OwedStays ==
  ASSUME Grows, NEW b, NEW hi, Owed(b, hi)
  PROVE  Owed(b, hi)'
BY DEF Grows, Owed, Stored

\* A message that a job owes is owed or stored after its step.
LEMMA OwedCarried ==
  ASSUME TypeInv, Grows, NEW j \in SyncJobs, NEW b, NEW hi \in 0..mail,
         Owed(sync[j], hi), Carries(j, b)
  PROVE  /\ Owed(b, hi)'
         /\ b.at \notin Fetching => \A m \in 1..hi : m \in Stored'
<1>1. \A m \in 1..hi : m \in 1..mail
  BY DEF TypeInv, TablesOK, SyncAssumption
<1>2. \A m \in 1..hi : m \in Stored' \/ Ahead(b, m)
  BY <1>1 DEF Grows, Owed, Stored, Carries
<1>3. \A m \in 1..hi : b.at \notin Fetching => ~Ahead(b, m)
  BY DEF Ahead, Fetching
<1> QED
  BY <1>2, <1>3 DEF Owed

\* A page token stays good while the mailbox grows.
LEMMA TokenStays ==
  ASSUME Grows, NEW c, NEW d, TokenOK(c), d.token = c.token, d.mode = c.mode
  PROVE  TokenOK(d)'
BY DEF Grows, TokenOK, Stored

\* The job after its step has saved what it should.
LEMMA DoneMoves ==
  ASSUME SyncAssumption, TypeInv, Grows, DoneInv, NEW j \in SyncJobs, NEW b, Shape(b),
         StoreMoves(j, b)
  PROVE  DoneJob(j, b)'
<1>0. /\ DoneJob(j, sync[j]) /\ TokenOK(Read.ckpt) /\ Mailbox \in 0..mail /\ Mailbox \in Nat
      /\ Read.ckpt.token \in Nat
  <2>1. Mailbox \in 0..mail /\ Mailbox \in Nat /\ MaxMail \in Nat
    BY DEF TypeInv, TablesOK, SyncAssumption
  <2>2. Read.ckpt.token \in Nat
    BY <2>1, ReadTypes DEF Checkpoint
  <2> QED
    BY <2>1, <2>2 DEF DoneInv, Read
<1>1. CASE b.at \in {"waiting", "claimed", "fail", "catch", "blame", "failed"}
  BY <1>1 DEF DoneJob, Storing, Fetching
<1>2. CASE /\ sync[j].at \in Storing /\ b.at \in Storing \cup {"finish"}
           /\ Carries(j, b) /\ b.how = sync[j].how
  <2>1. CASE sync[j].how = "list"
    <3>1. Owed(sync[j], Mailbox)
      BY <1>0, <1>2, <2>1 DEF DoneJob
    <3>2. /\ Owed(b, Mailbox)'
          /\ b.at \notin Fetching => \A m \in 1..Mailbox : m \in Stored'
      BY <1>0, <1>2, <3>1, OwedCarried
    <3> QED
      BY <1>2, <2>1, <3>2 DEF DoneJob, Storing, Fetching
  <2>2. CASE sync[j].how # "list"
    BY <1>0, <1>2, <2>2 DEF DoneJob
  <2> QED
    BY <2>1, <2>2
<1>3. CASE \/ sync[j].at = "claimed" /\ b.at = IF j \in Initial THEN "profile" ELSE "decide"
           \/ b.at \in {"profile", "plan"}
  BY <1>3 DEF DoneJob, Storing, Fetching
<1>4. CASE /\ sync[j].at = "plan" /\ b.at = "list" /\ b.how = "list"
           /\ b.token = 0 \/ (Read.ckpt.mode = "INITIAL_SYNC" /\ b.token = Read.ckpt.token)
  <2>1. ASSUME NEW m \in 1..Mailbox PROVE m \in Stored' \/ Ahead(b, m)
    <3>1. CASE b.token = 0
      BY <1>4, <3>1 DEF Ahead
    <3>2. CASE Read.ckpt.mode = "INITIAL_SYNC" /\ b.token = Read.ckpt.token /\ b.token # 0
      <4>1. m \in Stored \/ m < b.token
        BY <1>0, <3>2 DEF TokenOK
      <4> QED
        BY <1>4, <4>1 DEF Ahead, Grows, Stored
    <3> QED
      BY <1>4, <3>1, <3>2
  <2>2. Owed(b, Mailbox)'
    BY <2>1 DEF Owed
  <2> QED
    BY <1>4, <2>2 DEF DoneJob
<1>5. CASE /\ sync[j].at \in {"decide", "target", "history"}
           /\ b.at \in {"target", "history", "save", "finish"}
           /\ b.at = "save" => sync[j].at = "history" /\ b.how = sync[j].how
  <2>1. j \notin Initial
    BY <1>0, <1>5 DEF DoneJob
  <2>2. b.at = "save" => b.how # "list"
    BY <1>5 DEF DoneInv, Shape
  <2> QED
    BY <1>5, <2>1, <2>2 DEF DoneJob, Storing, Fetching
<1>6. CASE <<sync[j].at, b.at>> \in {<<"finish", "release">>, <<"release", "publish">>,
                                     <<"publish", "done">>}
  <2>1. j \in Initial => \A m \in 1..Mailbox : m \in Stored'
    BY <1>0, <1>6 DEF DoneJob, Grows, Stored
  <2> QED
    BY <1>6, <2>1 DEF DoneJob, Storing, Fetching
<1> QED
  BY <1>1, <1>2, <1>3, <1>4, <1>5, <1>6 DEF StoreMoves

\* The checkpoint after the step of a job.
LEMMA TokenHolds ==
  ASSUME SyncAssumption, TypeInv, Grows, DoneInv, NEW j \in SyncJobs, NEW b, StoreMoves(j, b),
         TokenMoves(j, b)
  PROVE  TokenOK(ckpt)' /\ TokenOK(shown.ckpt)'
<1>0. /\ TokenOK(Read.ckpt) /\ TokenOK(ckpt) /\ TokenOK(shown.ckpt) /\ ckpt \in Checkpoint
      /\ Shape(sync[j]) /\ DoneJob(j, sync[j]) /\ sync[j].token \in Nat /\ Mailbox \in Nat
  <2>1. MaxMail \in Nat /\ Mailbox \in Nat /\ sync[j] \in SyncJob /\ ckpt \in Checkpoint
    BY DEF SyncAssumption, TypeInv, TablesOK
  <2> QED
    BY <2>1 DEF DoneInv, Read, SyncJob
<1>c. PICK c, old, seen : c = ckpt' /\ old = ckpt /\ seen = shown.ckpt
  OBVIOUS
<1>5. shown' = shown
  BY DEF TokenMoves
<1>7. TokenOK(seen)'
  BY <1>0, <1>c, TokenStays
<1> SUFFICES TokenOK(c)'
  BY <1>c, <1>5, <1>7 DEF TokenOK
<1>1. CASE ckpt'.token = ckpt.token /\ ckpt'.mode = ckpt.mode
  BY <1>0, <1>1, <1>c, TokenStays DEF TokenOK
<1>2. CASE Quiet(ckpt')
  BY <1>2, <1>c DEF Quiet, TokenOK
<1>3. CASE sync[j].at = "plan" /\ b.at = "list" /\ ckpt'.token = b.token
  <2>1. b.token = 0 \/ (Read.ckpt.mode = "INITIAL_SYNC" /\ b.token = Read.ckpt.token)
    BY <1>3 DEF StoreMoves, Storing, Fetching
  <2> QED
    BY <1>0, <1>3, <1>c, <2>1 DEF TokenOK, Grows, Stored
<1>4. CASE sync[j].at = "cas" /\ ckpt' = Advanced(sync[j].token, sync[j].holder)
  <2>1. ckpt'.token = sync[j].token
    BY <1>0, <1>4 DEF Advanced, Checkpoint
  <2>2. ASSUME sync[j].token # 0, NEW m \in 1..Mailbox, m >= sync[j].token PROVE m \in Stored'
    <3>1. Owed(sync[j], Mailbox)
      BY <1>0, <1>4, <2>2 DEF Shape, DoneJob, Storing, Fetching
    <3>2. m \in Stored \/ m < sync[j].token
      BY <1>4, <3>1 DEF Owed, Ahead
    <3> QED
      BY <1>0, <2>2, <3>2 DEF Grows, Stored
  <2> QED
    BY <1>c, <2>1, <2>2 DEF TokenOK
<1> QED
  BY <1>1, <1>2, <1>3, <1>4 DEF TokenMoves

\* The invariant is kept by every step of the specification.
LEMMA DoneInductive ==
  ASSUME SyncAssumption, TypeInv, DoneInv, [SyncNext]_syncVars
  PROVE  DoneInv'
<1>0. Grows
  BY TypeInductive
<1>a. ASSUME NEW i \in SyncJobs, UNCHANGED sync[i] PROVE (Shape(sync[i]) /\ DoneJob(i, sync[i]))'
  <2>1. PICK c : c = sync[i] /\ Shape(c) /\ DoneJob(i, c)
    BY DEF DoneInv
  <2>2. Owed(c, Mailbox) => Owed(c, Mailbox)'
    BY <1>0, OwedStays
  <2>3. DoneJob(i, c)'
    BY <1>0, <2>1, <2>2 DEF DoneJob, Grows, Stored
  <2> QED
    BY <1>a, <2>1, <2>3 DEF Shape, DoneJob, Owed
<1>b. ASSUME NEW d, TokenOK(d) PROVE TokenOK(d)'
  BY <1>0, <1>b, TokenStays
<1>c. PICK old, seen : old = ckpt /\ seen = shown.ckpt /\ TokenOK(old)' /\ TokenOK(seen)'
  BY <1>b DEF DoneInv
<1>1. ASSUME NEW j \in SyncJobs, SyncStep(j) \/ Throws(j) \/ Exit(j) PROVE DoneInv'
  <2>1. PICK b : Moves(j, b) /\ Shape(b) /\ StoreMoves(j, b) /\ TokenMoves(j, b)
    BY <1>1, StoreEffect DEF DoneInv
  <2>2. DoneJob(j, b)'
    BY <1>0, <2>1, DoneMoves
  <2>3. TokenOK(ckpt)' /\ TokenOK(shown.ckpt)'
    BY <1>0, <2>1, TokenHolds
  <2>4. sync'[j] = b /\ \A i \in SyncJobs \ {j} : UNCHANGED sync[i]
    BY <2>1 DEF Moves, TypeInv
  <2>5. \A i \in SyncJobs : (Shape(sync[i]) /\ DoneJob(i, sync[i]))'
    <3> TAKE i \in SyncJobs
    <3>1. CASE i = j
      BY <2>1, <2>2, <2>4, <3>1 DEF Shape, DoneJob, Owed
    <3>2. CASE i # j
      BY <1>a, <2>4, <3>2
    <3> QED
      BY <3>1, <3>2
  <2> QED
    BY <2>3, <2>5 DEF DoneInv
<1>2. ASSUME UNCHANGED <<sync, shown>>, ckpt'.token = ckpt.token, ckpt'.mode = ckpt.mode
      PROVE  DoneInv'
  <2>1. TokenOK(ckpt)' /\ TokenOK(shown.ckpt)'
    BY <1>c, <1>2 DEF TokenOK
  <2> QED
    BY <1>a, <1>2, <2>1 DEF DoneInv
<1>3. CASE UNCHANGED syncVars \/ Arrive
  BY <1>2, <1>3 DEF syncVars, Arrive, tables
<1>4. CASE Expire \/ \E j \in SyncJobs : Refresh(j)
  <2>1. ckpt'.token = ckpt.token /\ ckpt'.mode = ckpt.mode
    BY <1>4 DEF Refresh, Expire, TypeInv, TablesOK, Checkpoint
  <2> QED
    BY <1>2, <1>4, <2>1 DEF Refresh, Expire
<1>5. CASE SyncReplicate
  <2>1. UNCHANGED <<sync, ckpt>> /\ shown'.ckpt = ckpt
    BY <1>5 DEF SyncReplicate, tables
  <2>2. TokenOK(ckpt)' /\ TokenOK(shown.ckpt)'
    BY <1>c, <2>1 DEF TokenOK
  <2> QED
    BY <1>a, <2>1, <2>2 DEF DoneInv
<1> QED
  BY <1>1, <1>3, <1>4, <1>5 DEF SyncNext

\* An initial sync that reports completion has saved, or has given up after a failed call, all
\* that was in the mailbox at the start: for any mailbox and page size, any exits, failed
\* calls, resumed page tokens and expired leases, and whatever a lagging replica shows.
THEOREM DoneIsSaved ==
  ASSUME SyncAssumption
  PROVE  SyncSpec => []DoneMeansSaved
<1>1. SyncInit => TypeInv
  BY InitInv
<1>2. ASSUME SyncInit PROVE DoneInv
  <2>1. \A j \in SyncJobs : sync[j].at = "waiting" /\ sync[j] = Fresh(0)
    BY <1>2 DEF SyncInit, Fresh
  <2>2. \A j \in SyncJobs : Shape(sync[j]) /\ DoneJob(j, sync[j])
    BY <2>1 DEF Shape, DoneJob, Storing, Fetching
  <2>3. ckpt.mode = "INCREMENTAL_SYNC" /\ shown.ckpt = ckpt
    BY <1>2 DEF SyncInit
  <2> QED
    BY <2>2, <2>3 DEF DoneInv, TokenOK
<1>3. TypeInv /\ DoneInv /\ [SyncNext]_syncVars => TypeInv' /\ DoneInv'
  BY TypeInductive, DoneInductive
<1>4. DoneInv => DoneMeansSaved
  <2> SUFFICES ASSUME DoneInv, NEW j \in SyncJobs, j \in Initial, sync[j].at = "done"
               PROVE  (1..Mailbox) \subseteq saved \cup dropped
    BY DEF DoneMeansSaved, SyncAssumption
  <2> QED
    BY DEF DoneInv, DoneJob, Stored
<1> QED
  BY <1>1, <1>2, <1>3, <1>4, PTL DEF SyncSpec

-----------------------------------------------------------------------------
(* The cursor.                                                             *)

\* Up to hi, the messages that are not covered are still ahead of the job.
Due(b, hi) == \A m \in 1..hi : m \in Covered \/ Ahead(b, m)

CursorJob(b) ==
  /\ b.at \in Storing => Due(b, b.start)
  /\ b.at = "target" \/ (b.at = "history" /\ b.how = "delta")
       => \A m \in 1..b.start : m \in Covered

CursorInv ==
  /\ \A m \in 1..cursor : m \in Covered
  /\ \A m \in 1..shown.cursor : m \in Covered
  /\ \A j \in SyncJobs : Shape(sync[j]) /\ CursorJob(sync[j])

\* No message is uncovered again.
LEMMA CoveredStays ==
  ASSUME Grows
  PROVE  \A m : m \in Covered => m \in Covered'
BY DEF Grows, Covered, Stored

\* The step of a job: what is due is counted up to the history id it will store.
LEMMA CursorMoves ==
  ASSUME SyncAssumption, TypeInv, Grows, DoneInv, CursorInv,
         NEW j \in SyncJobs, NEW b, Shape(b), StoreMoves(j, b), TokenMoves(j, b)
  PROVE  CursorJob(b)' /\ \A m \in 1..cursor' : m \in Covered'
<1>0. /\ CursorJob(sync[j]) /\ Shape(sync[j]) /\ mail \in Nat /\ sync[j].start \in 0..mail
      /\ \A m \in 1..Read.cursor : m \in Covered
      /\ TokenOK(Read.ckpt) /\ Mailbox \in Nat /\ Read.ckpt.token \in Nat
  <2>1. MaxMail \in Nat /\ mail \in Nat /\ Mailbox \in Nat
    BY DEF TypeInv, TablesOK, SyncAssumption
  <2>2. sync[j] \in SyncJob /\ sync[j].start <= mail
    BY DEF TypeInv, JobOK
  <2>3. Read.ckpt.token \in Nat
    BY <2>1, ReadTypes DEF Checkpoint
  <2> QED
    BY <2>1, <2>2, <2>3 DEF CursorInv, DoneInv, Read, SyncJob
<1>1. \A m : m \in Covered => m \in Covered'
  BY CoveredStays
<1>2. \A m \in 1..cursor' : m \in Covered'
  <2>1. CASE cursor' = cursor
    BY <1>1, <2>1 DEF CursorInv
  <2>2. CASE sync[j].at = "compat" /\ cursor' = sync[j].start
    <3>1. \A m \in 1..sync[j].start : m \in Covered
      BY <1>0, <2>2 DEF CursorJob, Storing, Due, Ahead
    <3> QED
      BY <1>1, <2>2, <3>1
  <2> QED
    BY <2>1, <2>2 DEF TokenMoves
<1>3. CASE b.at \notin Storing \cup {"target", "history"}
  BY <1>2, <1>3 DEF CursorJob, Storing, Fetching
<1>4. CASE /\ sync[j].at \in Storing /\ b.at \in Storing
           /\ Carries(j, b) /\ b.start = sync[j].start
  <2>1. Due(sync[j], b.start)
    BY <1>0, <1>4 DEF CursorJob
  <2>2. \A m \in 1..b.start : m \in Covered' \/ Ahead(b, m)
    <3>1. \A m \in 1..b.start : m \in 1..mail
      BY <1>0, <1>4
    <3> QED
      BY <1>1, <1>4, <2>1, <3>1 DEF Due, Carries, Covered
  <2>3. CursorJob(b)'
    BY <1>4, <2>2 DEF CursorJob, Storing, Fetching, Due
  <2> QED
    BY <1>2, <2>3
<1>5. CASE b.at = "target" \/ (b.at = "history" /\ b.how = "delta")
  <2>1. \/ b.start = Read.cursor
        \/ sync[j].at = "target" /\ b.start = sync[j].start
    BY <1>5 DEF StoreMoves, Storing, Fetching
  <2>2. \A m \in 1..b.start : m \in Covered'
    BY <1>0, <1>1, <2>1 DEF CursorJob
  <2>3. CursorJob(b)'
    BY <1>5, <2>2 DEF CursorJob, Storing, Fetching
  <2> QED
    BY <1>2, <2>3
<1>6. CASE b.at = "history" /\ b.how # "delta"
  BY <1>2, <1>6 DEF CursorJob, Storing, Fetching
<1>7. CASE sync[j].at = "plan" /\ b.at = "list"
  <2>1. /\ b.token = 0 \/ (Read.ckpt.mode = "INITIAL_SYNC" /\ b.token = Read.ckpt.token)
        /\ b.token # 0 => \A m \in (Mailbox + 1)..b.start : m >= b.token => m \in Covered'
        /\ b.start = sync[j].start
    BY <1>7 DEF StoreMoves, Storing, Fetching
  <2>2. ASSUME NEW m \in 1..b.start PROVE m \in Covered' \/ Ahead(b, m)
    <3>1. CASE b.token = 0 \/ m < b.token
      BY <1>7, <3>1 DEF Ahead
    <3>2. CASE b.token # 0 /\ m > Mailbox /\ m >= b.token
      BY <1>0, <2>1, <3>2
    <3>3. CASE b.token # 0 /\ m <= Mailbox /\ m >= b.token
      <4>1. m \in 1..Mailbox /\ m >= Read.ckpt.token
        BY <1>0, <2>1, <3>3
      <4>2. m \in Stored
        BY <1>0, <2>1, <3>3, <4>1 DEF TokenOK
      <4> QED
        BY <1>1, <4>2 DEF Covered
    <3>4. m \in Nat /\ b.token \in Nat
      BY <1>0, <2>1
    <3> QED
      BY <1>0, <3>1, <3>2, <3>3, <3>4
  <2>3. CursorJob(b)'
    BY <1>7, <2>2 DEF CursorJob, Due
  <2> QED
    BY <1>2, <2>3
<1>8. CASE sync[j].at = "history" /\ b.at = "save"
  <2>1. /\ b.how = sync[j].how /\ b.start = mail
        /\ \A m \in 1..mail : \/ sync[j].how = "delta" /\ m <= sync[j].start
                              \/ m \in Covered' \/ Ahead(b, m)
    BY <1>8 DEF StoreMoves, Storing, Fetching
  <2>2. ASSUME NEW m \in 1..mail PROVE m \in Covered' \/ Ahead(b, m)
    <3>1. CASE sync[j].how = "delta" /\ m <= sync[j].start
      <4>1. m \in 1..sync[j].start
        BY <1>0, <3>1
      <4> QED
        BY <1>0, <1>1, <1>8, <3>1, <4>1 DEF CursorJob
    <3> QED
      BY <2>1, <3>1
  <2>3. CursorJob(b)'
    BY <1>8, <2>1, <2>2 DEF CursorJob, Due
  <2> QED
    BY <1>2, <2>3
<1>9. \/ b.at \notin Storing \cup {"target", "history"}
      \/ b.at = "target" \/ b.at = "history"
      \/ sync[j].at = "plan" /\ b.at = "list"
      \/ sync[j].at = "history" /\ b.at = "save"
      \/ /\ sync[j].at \in Storing /\ b.at \in Storing
         /\ Carries(j, b) /\ b.start = sync[j].start
  BY DEF StoreMoves, Storing, Fetching
<1> QED
  BY <1>3, <1>4, <1>5, <1>6, <1>7, <1>8, <1>9

\* What a job has to come, or has seen covered, stays so while another takes a step.
LEMMA CursorFrame ==
  ASSUME Grows, NEW c, CursorJob(c)
  PROVE  CursorJob(c)'
BY CoveredStays DEF CursorJob, Due

\* Every step keeps the stored history id behind the messages that are covered.
LEMMA CursorInductive ==
  ASSUME SyncAssumption, TypeInv, DoneInv, CursorInv, [SyncNext]_syncVars
  PROVE  CursorInv'
<1>0. Grows /\ \A m : m \in Covered => m \in Covered'
  BY TypeInductive, CoveredStays
<1>a. ASSUME NEW i \in SyncJobs, UNCHANGED sync[i] PROVE (Shape(sync[i]) /\ CursorJob(sync[i]))'
  <2>1. PICK c : c = sync[i] /\ Shape(c) /\ CursorJob(c)
    BY DEF CursorInv
  <2>2. CursorJob(c)'
    BY <1>0, <2>1, CursorFrame
  <2> QED
    BY <1>a, <2>1, <2>2 DEF Shape, CursorJob, Due
<1>1. ASSUME NEW j \in SyncJobs, SyncStep(j) \/ Throws(j) \/ Exit(j) PROVE CursorInv'
  <2>1. PICK b : Moves(j, b) /\ Shape(b) /\ StoreMoves(j, b) /\ TokenMoves(j, b)
    BY <1>1, StoreEffect DEF CursorInv
  <2>2. CursorJob(b)' /\ \A m \in 1..cursor' : m \in Covered'
    BY <1>0, <2>1, CursorMoves
  <2>3. sync'[j] = b /\ \A i \in SyncJobs \ {j} : UNCHANGED sync[i]
    BY <2>1 DEF Moves, TypeInv
  <2>4. \A i \in SyncJobs : (Shape(sync[i]) /\ CursorJob(sync[i]))'
    <3> TAKE i \in SyncJobs
    <3>1. CASE i = j
      BY <2>1, <2>2, <2>3, <3>1 DEF Shape, CursorJob, Due
    <3>2. CASE i # j
      BY <1>a, <2>3, <3>2
    <3> QED
      BY <3>1, <3>2
  <2>5. \A m \in 1..shown.cursor' : m \in Covered'
    BY <1>0, <2>1 DEF TokenMoves, CursorInv
  <2> QED
    BY <2>2, <2>4, <2>5 DEF CursorInv
<1>2. ASSUME UNCHANGED <<sync, cursor>>, shown'.cursor \in {shown.cursor, cursor}
      PROVE  CursorInv'
  BY <1>0, <1>a, <1>2 DEF CursorInv
<1>3. CASE UNCHANGED syncVars \/ Arrive \/ Expire \/ \E j \in SyncJobs : Refresh(j)
  BY <1>2, <1>3 DEF syncVars, Arrive, Expire, Refresh, tables
<1>4. CASE SyncReplicate
  BY <1>2, <1>4 DEF SyncReplicate, tables
<1> QED
  BY <1>1, <1>3, <1>4 DEF SyncNext

\* The checkpoint is in one hand while no lease runs out under a live worker, and every message
\* up to the stored history id is saved, was given up after a failed call, or was passed over
\* by one of the two resumptions: for any sizes of pages and of the mailbox, any exits, retries,
\* failed calls and expired leases, any number of syncers at once, and whatever a lagging
\* replica shows them.
THEOREM CursorHolds ==
  ASSUME SyncAssumption
  PROVE  SyncSpec => []SyncHolds
<1>1. SyncInit => TypeInv /\ OneSyncInv
  BY InitInv
<1>2. ASSUME SyncInit PROVE CursorInv /\ DoneInv
  <2>1. \A j \in SyncJobs : sync[j].at = "waiting" /\ sync[j] = Fresh(0)
    BY <1>2 DEF SyncInit, Fresh
  <2>2. \A j \in SyncJobs : Shape(sync[j]) /\ CursorJob(sync[j]) /\ DoneJob(j, sync[j])
    BY <2>1 DEF Shape, CursorJob, DoneJob, Storing, Fetching
  <2>3. ckpt.mode = "INCREMENTAL_SYNC" /\ shown.ckpt = ckpt /\ cursor = 0 /\ shown.cursor = 0
    BY <1>2 DEF SyncInit
  <2>4. 1..0 = {}
    OBVIOUS
  <2> QED
    BY <2>2, <2>3, <2>4 DEF CursorInv, DoneInv, TokenOK
<1>3. TypeInv /\ OneSyncInv /\ DoneInv /\ CursorInv /\ [SyncNext]_syncVars
        => TypeInv' /\ OneSyncInv' /\ DoneInv' /\ CursorInv'
  BY TypeInductive, OneSyncerInductive, DoneInductive, CursorInductive
<1>4. OneSyncInv /\ CursorInv => SyncHolds
  BY DEF OneSyncInv, CursorInv, SyncHolds, OnlyResumesSkip, Covered, Stored
<1> QED
  BY <1>1, <1>2, <1>3, <1>4, PTL DEF SyncSpec

=============================================================================
