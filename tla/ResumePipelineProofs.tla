------------------------- MODULE ResumePipelineProofs -------------------------
(***************************************************************************)
(* Theorems about ResumePipeline: its types, the boundary of quarantine    *)
(* storage, and that an accepted upload is not lost.                       *)
(***************************************************************************)
EXTENDS ResumePipeline, NumberFacts

Jobs == Uploads \X Copies

-----------------------------------------------------------------------------
(* The inductive invariants.                                               *)

\* The types, with what keeps them: an attempt is left for every job that is not over, only
\* uploads with an event have jobs, and a parse job writes a row it has found.
TypeInv ==
  /\ TypeOK
  /\ \A j \in Jobs :
       /\ scan[j].at \notin {"completed", "failed"} => scan[j].made < Attempts
       /\ scan[j].at # "none" => j[1] \in uploaded
  /\ \A c \in Contents :
       /\ parse[c].at \notin {"completed", "failed"} => parse[c].made < Attempts
       /\ parse[c].at = "write" => parse[c].found \in Uploads

\* What each phase of a job knows of its file.
QuarantineInv ==
  /\ QuarantineBoundary
  /\ \A j \in Jobs :
       /\ scan[j].at = "copy" => ContentOf[j[1]] \notin Infected
       /\ scan[j].at \in {"drop", "promote"} => ContentOf[j[1]] \in clean
  /\ \A c \in Contents :
       parse[c].at = "write" => ContentOf[parse[c].found] = c /\ c \in clean

\* A request keeps its file in quarantine from its first step on.
Holding == {"stored", "hashed", "versioned", "superseded", "done"}

Kept(u) ==
  up[u].at \in Holding /\ ContentOf[u] \notin Infected
    => u \in quarantine \/ ContentOf[u] \in clean

\* Only condemned files are purged, and a request supersedes rows of its own user.
UploadsInv ==
  /\ \A u \in Uploads : Kept(u)
  /\ \A j \in Jobs : scan[j].at \in {"infected", "purge"} => ContentOf[j[1]] \in Infected
  /\ \A u \in Uploads : \A o \in up[u].hit : UserOf[o] = UserOf[u]
  /\ SomeActive

-----------------------------------------------------------------------------
(* What the steps do.                                                      *)

States == {"pending", "scanning", "clean", "infected", "error"}

Marked(u, s) == [row EXCEPT ![u].state = s]

\* A step of a scan job, by what it does to the job, the row and the stores.
ScanMoves(j, b) ==
  \/ /\ UNCHANGED <<row, quarantine, clean, cleaned>>
     /\ \/ b.at \in {"waiting", "scan", "error", "failed"}
        \/ b.at = "infected" /\ ContentOf[j[1]] \in Infected
        \/ b.at = "copy" /\ ContentOf[j[1]] \notin Infected
  \/ /\ UNCHANGED <<quarantine, clean, cleaned>>
     /\ \E s \in {"scanning", "error", "infected"} : row' = Marked(j[1], s)
     /\ \/ b.at \in {"download", "waiting", "failed"}
        \/ b.at = "purge" /\ scan[j].at = "infected"
  \/ /\ UNCHANGED <<row, clean, cleaned>>
     /\ quarantine' = quarantine \ {j[1]}
     /\ \/ scan[j].at = "purge" /\ b.at = "completed"
        \/ scan[j].at = "drop" /\ b.at = "promote"
  \/ /\ UNCHANGED <<row, quarantine, cleaned>>
     /\ clean' = clean \cup {ContentOf[j[1]]}
     /\ scan[j].at = "copy" /\ b.at = "drop"
  \/ /\ UNCHANGED <<quarantine, clean>>
     /\ cleaned' = cleaned \cup {j[1]}
     /\ row' = Marked(j[1], "clean")
     /\ scan[j].at = "promote" /\ b.at = "completed"

\* A scan job that throws is waiting for its next attempt, or has failed.
LEMMA ThrownScan ==
  ASSUME PipelineAssumption, NEW b \in ScanJob, b.made < Attempts
  PROVE  /\ Thrown(b) \in ScanJob /\ Thrown(b).at \in {"waiting", "failed"}
         /\ Thrown(b).at = "waiting" => Thrown(b).made < Attempts
<1>1. b.made \in Nat /\ Attempts \in Nat
  BY DEF ScanJob, PipelineAssumption
<1>2. b.made + 1 \in 0..Attempts
  BY <1>1
<1> QED
  BY <1>1, <1>2 DEF Thrown, ScanJob

\* Every step of a scan job is one of those, on a job whose upload has its event.
LEMMA ScanEffect ==
  ASSUME PipelineAssumption, TypeInv, NEW j \in Jobs,
         DeliverScan(j) \/ ScanStep(j) \/ ScanStalls(j)
  PROVE  /\ j[1] \in uploaded /\ j[1] \in Uploads
         /\ faults' \in 0..MaxFaults
         /\ UNCHANGED <<reqVars, userVars, parse, shown>>
         /\ \E b \in ScanJob :
              /\ scan' = [scan EXCEPT ![j] = b]
              /\ b.at \notin {"completed", "failed"} => b.made < Attempts
              /\ ScanMoves(j, b)
<1>0. /\ scan \in [Jobs -> ScanJob] /\ scan[j] \in ScanJob /\ j[1] \in Uploads
      /\ faults \in 0..MaxFaults /\ MaxFaults \in Nat
      /\ scan[j].at \notin {"completed", "failed"} => scan[j].made < Attempts
      /\ scan[j].at # "none" => j[1] \in uploaded
  BY DEF TypeInv, TypeOK, Jobs, PipelineAssumption
<1>1. ASSUME NEW at \in {"waiting", "download", "scan", "error", "infected", "purge",
                         "copy", "drop", "promote", "completed"},
             Step(j, at), scan[j].at \notin {"completed", "failed"}
      PROVE  \E b \in ScanJob :
               scan' = [scan EXCEPT ![j] = b] /\ b.at = at /\ b.made < Attempts
  <2> DEFINE b == [scan[j] EXCEPT !.at = at]
  <2>1. b \in ScanJob /\ b.at = at /\ b.made = scan[j].made
    BY <1>0 DEF ScanJob
  <2>2. scan' = [scan EXCEPT ![j] = b]
    BY <1>1 DEF Step
  <2> HIDE DEF b
  <2> QED
    BY <1>0, <1>1, <2>1, <2>2
<1>2. CASE DeliverScan(j)
  <2>1. PICK b \in ScanJob : scan' = [scan EXCEPT ![j] = b] /\ b.at = "waiting" /\ b.made < Attempts
    BY <1>1, <1>2 DEF DeliverScan
  <2> QED
    BY <1>0, <1>2, <2>1 DEF DeliverScan, ScanMoves
<1>3. CASE StartScan(j)
  <2>1. PICK b \in ScanJob : scan' = [scan EXCEPT ![j] = b] /\ b.at = "download" /\ b.made < Attempts
    BY <1>1, <1>3 DEF StartScan
  <2> QED
    <3>1. \E s \in {"scanning", "error", "infected"} : row' = Marked(j[1], s)
      BY <1>3 DEF StartScan, WriteRow, Marked
    <3>2. ScanMoves(j, b)
      BY <1>3, <2>1, <3>1 DEF StartScan, ScanMoves
    <3> QED
      BY <1>0, <1>3, <2>1, <3>2 DEF StartScan
<1>4. CASE Download(j)
  <2>1. PICK b \in ScanJob : scan' = [scan EXCEPT ![j] = b] /\ b.at = "scan" /\ b.made < Attempts
    BY <1>1, <1>4 DEF Download
  <2> QED
    BY <1>0, <1>4, <2>1 DEF Download, ScanMoves
<1>5. CASE Verdict(j)
  <2>1. PICK at \in {"infected", "copy", "error"} :
           /\ Step(j, at)
           /\ at = "infected" => ContentOf[j[1]] \in Infected
           /\ at = "copy" => ContentOf[j[1]] \notin Infected
    BY <1>5 DEF Verdict
  <2>2. PICK b \in ScanJob : scan' = [scan EXCEPT ![j] = b] /\ b.at = at /\ b.made < Attempts
    BY <1>1, <1>5, <2>1 DEF Verdict
  <2> QED
    BY <1>0, <1>5, <2>1, <2>2 DEF Verdict, ScanMoves
<1>6. CASE MarkError(j)
  <2>1. Thrown(scan[j]) \in ScanJob /\ Thrown(scan[j]).at \in {"waiting", "failed"}
        /\ (Thrown(scan[j]).at = "waiting" => Thrown(scan[j]).made < Attempts)
    BY <1>0, <1>6, ThrownScan DEF MarkError
  <2>2. scan' = [scan EXCEPT ![j] = Thrown(scan[j])]
    BY <1>6 DEF MarkError
  <2> QED
    <3>1. \E s \in {"scanning", "error", "infected"} : row' = Marked(j[1], s)
      BY <1>6 DEF MarkError, WriteRow, Marked
    <3>2. ScanMoves(j, Thrown(scan[j]))
      BY <1>6, <2>1, <3>1 DEF MarkError, ScanMoves
    <3> QED
      BY <1>0, <1>6, <2>1, <2>2, <3>2 DEF MarkError
<1>7. CASE MarkInfected(j)
  <2>1. PICK b \in ScanJob : scan' = [scan EXCEPT ![j] = b] /\ b.at = "purge" /\ b.made < Attempts
    BY <1>1, <1>7 DEF MarkInfected
  <2> QED
    BY <1>0, <1>7, <2>1 DEF MarkInfected, WriteRow, Marked, ScanMoves
<1>8. CASE Purge(j)
  <2>1. PICK b \in ScanJob : scan' = [scan EXCEPT ![j] = b] /\ b.at = "completed" /\ b.made < Attempts
    BY <1>1, <1>8 DEF Purge
  <2> QED
    BY <1>0, <1>8, <2>1 DEF Purge, ScanMoves
<1>9. CASE Copy(j)
  <2>1. PICK b \in ScanJob : scan' = [scan EXCEPT ![j] = b] /\ b.at = "drop" /\ b.made < Attempts
    BY <1>1, <1>9 DEF Copy
  <2> QED
    BY <1>0, <1>9, <2>1 DEF Copy, ScanMoves
<1>10. CASE Drop(j)
  <2>1. PICK b \in ScanJob : scan' = [scan EXCEPT ![j] = b] /\ b.at = "promote" /\ b.made < Attempts
    BY <1>1, <1>10 DEF Drop
  <2> QED
    BY <1>0, <1>10, <2>1 DEF Drop, ScanMoves
<1>11. CASE Promote(j)
  <2>1. PICK b \in ScanJob : scan' = [scan EXCEPT ![j] = b] /\ b.at = "completed" /\ b.made < Attempts
    BY <1>1, <1>11 DEF Promote
  <2> QED
    BY <1>0, <1>11, <2>1 DEF Promote, WriteRow, Marked, ScanMoves
<1>12. CASE ScanThrows(j)
  <2>1. Running(j)
    BY <1>12 DEF ScanThrows, Running
  <2> QED
    BY <1>0, <1>12, <2>1, ThrownScan DEF ScanThrows, Running, ScanMoves
<1>13. CASE ScanStalls(j)
  <2>1. PICK b \in ScanJob : scan' = [scan EXCEPT ![j] = b] /\ b.at = "waiting" /\ b.made < Attempts
    BY <1>1, <1>13 DEF ScanStalls, Running
  <2> QED
    <3>1. faults' \in 0..MaxFaults
      BY <1>0, <1>13 DEF ScanStalls
    <3>2. ScanMoves(j, b)
      BY <1>13, <2>1 DEF ScanStalls, ScanMoves
    <3> QED
      BY <1>0, <1>13, <2>1, <3>1, <3>2 DEF ScanStalls, Running
<1> QED
  BY <1>2, <1>3, <1>4, <1>5, <1>6, <1>7, <1>8, <1>9, <1>10, <1>11, <1>12, <1>13 DEF ScanStep

\* A step of a request, by what it does to the row, the events and quarantine storage.
RequestMoves(u, r) ==
  \/ /\ quarantine' = quarantine \cup {u}
     /\ UNCHANGED <<row, uploaded>>
     /\ r.hit = up[u].hit
  \/ /\ UNCHANGED <<row, quarantine, uploaded>>
     /\ r.at \in Holding => up[u].at \in Holding
     /\ r.hit = up[u].hit \/ \A o \in r.hit : UserOf[o] = UserOf[u]
  \/ /\ row' = RowsAfterCommit(u)
     /\ uploaded' = uploaded \cup {u}
     /\ UNCHANGED quarantine
     /\ up[u].at = "superseded"
     /\ r.hit = up[u].hit
  \/ /\ quarantine' = quarantine \ {u}
     /\ UNCHANGED <<row, uploaded>>
     /\ r.at = "failed"
     /\ r.hit = up[u].hit

\* Every step of a request is one of those.
LEMMA RequestEffect ==
  ASSUME PipelineAssumption, IsFiniteSet(Uploads), TypeInv, NEW u \in Uploads,
         Store(u) \/ RequestStep(u) \/ Abandon(u)
  PROVE  /\ faults' \in 0..MaxFaults
         /\ hashes' \in SUBSET Contents
         /\ UNCHANGED <<jobVars, userVars, clean, shown>>
         /\ \E r \in Request : up' = [up EXCEPT ![u] = r] /\ RequestMoves(u, r)
<1>0. /\ up \in [Uploads -> Request] /\ up[u] \in Request
      /\ faults \in 0..MaxFaults /\ MaxFaults \in Nat
      /\ hashes \in SUBSET Contents /\ ContentOf[u] \in Contents
  BY DEF TypeInv, TypeOK, PipelineAssumption, Contents
<1>1. ASSUME NEW at \in {"idle", "stored", "hashed", "versioned", "superseded", "undo", "done", "failed"}
      PROVE  /\ [up[u] EXCEPT !.at = at] \in Request
             /\ [up[u] EXCEPT !.at = at].at = at
             /\ [up[u] EXCEPT !.at = at].hit = up[u].hit
  BY <1>0 DEF Request
<1>2. CASE Store(u)
  <2> DEFINE r == [up[u] EXCEPT !.at = "stored", !.dedup = ContentOf[u] \in ReadHashes]
  <2>1. r \in Request /\ r.hit = up[u].hit
    <3>1. (ContentOf[u] \in ReadHashes) \in BOOLEAN
      OBVIOUS
    <3> QED
      BY <1>0, <3>1 DEF Request
  <2> QED
    BY <1>0, <1>2, <2>1 DEF Store, Moves, RequestMoves
<1>3. CASE RecordHash(u)
  BY <1>0, <1>1, <1>3 DEF RecordHash, Moves, RequestMoves, Holding
<1>4. CASE ReadVersion(u)
  <2> DEFINE Own == {o \in ReadRows : UserOf[o] = UserOf[u]}
             n == 1 + Max({0} \cup {row[o].version : o \in Own})
             r == [up[u] EXCEPT !.at = "versioned", !.version = n]
  <2>1. Own \in SUBSET Uploads /\ IsFiniteSet(Own)
    BY FS_Subset DEF ReadRows, Existing, TypeInv, TypeOK
  <2>2. n \in Nat
    <3> DEFINE f == [o \in Own |-> row[o].version]
    <3>1. f \in [Own -> Nat]
      BY <2>1 DEF TypeInv, TypeOK, Row
    <3>2. {f[o] : o \in Own} = {row[o].version : o \in Own}
      OBVIOUS
    <3> HIDE DEF f, Own
    <3> QED
      <4>1. 1 + Max({0} \cup {f[o] : o \in Own}) \in Nat
        BY <2>1, <3>1, NextNumber, ZenonT(30)
      <4> QED
        BY <3>2, <4>1
  <2> HIDE DEF n
  <2>3. r \in Request /\ r.hit = up[u].hit
    BY <1>0, <2>2 DEF Request
  <2>4. up' = [up EXCEPT ![u] = r]
    BY <1>4 DEF ReadVersion, Moves, n
  <2> QED
    BY <1>0, <1>4, <2>3, <2>4 DEF ReadVersion, RequestMoves, Holding
<1>5. CASE Supersede(u)
  <2> DEFINE n == 1 + Max({up[o].born : o \in Uploads})
             r == [up[u] EXCEPT !.at = "superseded", !.hit = ActiveRows(u), !.born = n]
  <2>1. n \in Nat
    <3> DEFINE f == [o \in Uploads |-> up[o].born]
    <3>1. f \in [Uploads -> Nat]
      BY <1>0 DEF Request
    <3>2. {f[o] : o \in Uploads} = {up[o].born : o \in Uploads}
      OBVIOUS
    <3> HIDE DEF f
    <3> QED
      BY <3>1, <3>2, NextNumber, ZenonT(30)
  <2> HIDE DEF n
  <2>2. ActiveRows(u) \in SUBSET Uploads /\ \A o \in ActiveRows(u) : UserOf[o] = UserOf[u]
    BY DEF ActiveRows, Existing
  <2>3. r \in Request /\ r.hit = ActiveRows(u)
    BY <1>0, <2>1, <2>2 DEF Request
  <2>4. up' = [up EXCEPT ![u] = r]
    BY <1>5 DEF Supersede, Moves, n
  <2> QED
    BY <1>0, <1>5, <2>2, <2>3, <2>4 DEF Supersede, RequestMoves, Holding
<1>6. CASE Commit(u)
  <2>1. PICK at \in {"done", "undo"} : up' = [up EXCEPT ![u] = [up[u] EXCEPT !.at = at]]
    BY <1>6 DEF Commit, Moves
  <2>2. faults' \in 0..MaxFaults
    BY <1>0, <1>6 DEF Commit
  <2> QED
    BY <1>0, <1>1, <1>6, <2>1, <2>2 DEF Commit, RequestMoves
<1>7. CASE Rollback(u)
  BY <1>0, <1>1, <1>7 DEF Rollback, Moves, RequestMoves, Holding
<1>8. CASE Compensate(u)
  BY <1>0, <1>1, <1>8 DEF Compensate, Moves, RequestMoves, Holding
<1>9. CASE Abandon(u)
  <2>1. up' = [up EXCEPT ![u] = [up[u] EXCEPT !.at = "failed"]]
    BY <1>9 DEF Abandon, Moves
  <2>2. faults' \in 0..MaxFaults
    BY <1>0, <1>9 DEF Abandon
  <2> QED
    BY <1>0, <1>1, <1>9, <2>1, <2>2 DEF Abandon, RequestMoves, Holding
<1> QED
  BY <1>2, <1>3, <1>4, <1>5, <1>6, <1>7, <1>8, <1>9 DEF RequestStep

\* A step of a parse job: it finds a row of its content, promotes it, or ends.
ParseMoves(c, b) ==
  \/ /\ UNCHANGED row
     /\ b.at = "write" => b.found \in Uploads /\ ContentOf[b.found] = c /\ c \in clean
  \/ /\ parse[c].at = "write" /\ b.at = "completed"
     /\ row' = Marked(parse[c].found, "clean")

\* Every step of a parse job is one of those.
LEMMA ParseEffect ==
  ASSUME PipelineAssumption, TypeInv, NEW c \in Contents,
         ParseStep(c) \/ \E u \in Uploads : ContentOf[u] = c /\ DeliverParse(u)
  PROVE  /\ UNCHANGED <<reqVars, userVars, scan, cleaned, quarantine, clean, shown, faults>>
         /\ \E b \in ParseJob :
              /\ parse' = [parse EXCEPT ![c] = b]
              /\ b.at \notin {"completed", "failed"} => b.made < Attempts
              /\ ParseMoves(c, b)
<1>0. /\ parse \in [Contents -> ParseJob] /\ parse[c] \in ParseJob
      /\ parse[c].at \notin {"completed", "failed"} => parse[c].made < Attempts
      /\ parse[c].made \in 0..Attempts /\ Attempts \in Nat
  BY DEF TypeInv, TypeOK, PipelineAssumption, ParseJob
<1>1. /\ [parse[c] EXCEPT !.at = "completed"] \in ParseJob
      /\ [parse[c] EXCEPT !.at = "completed"].at = "completed"
  BY <1>0 DEF ParseJob
<1>2. CASE \E u \in Uploads : ContentOf[u] = c /\ DeliverParse(u)
  <2>1. PICK u \in Uploads : ContentOf[u] = c /\ DeliverParse(u)
    BY <1>2
  <2> DEFINE b == [parse[c] EXCEPT !.at = "waiting", !.of = u]
  <2>2. b \in ParseJob /\ b.at = "waiting" /\ b.made = parse[c].made
    BY <1>0 DEF ParseJob
  <2>3. parse' = [parse EXCEPT ![c] = b] /\ parse[c].at = "none"
    BY <2>1 DEF DeliverParse
  <2>4. UNCHANGED <<reqVars, userVars, scan, cleaned, quarantine, clean, shown, faults, row>>
    BY <2>1 DEF DeliverParse
  <2> HIDE DEF b
  <2> QED
    BY <1>0, <2>2, <2>3, <2>4 DEF ParseMoves
<1>3. CASE ParseRead(c)
  <2>1. UNCHANGED <<reqVars, userVars, scan, cleaned, quarantine, clean, shown, faults, row>>
    BY <1>3 DEF ParseRead
  <2>2. CASE Matching(c) = {}
    <3>1. parse' = [parse EXCEPT ![c] = [parse[c] EXCEPT !.at = "completed"]]
      BY <1>3, <2>2 DEF ParseRead
    <3> QED
      BY <1>1, <2>1, <3>1 DEF ParseMoves
  <2>3. CASE Matching(c) # {}
    <3>1. PICK o \in Matching(c) :
             parse' = [parse EXCEPT ![c] = [parse[c] EXCEPT !.at = "write", !.found = o]]
      BY <1>3, <2>3 DEF ParseRead
    <3> DEFINE b == [parse[c] EXCEPT !.at = "write", !.found = o]
    <3>2. o \in Uploads /\ ContentOf[o] = c
      BY DEF Matching, ReadRows, Existing, TypeInv, TypeOK
    <3>3. b \in ParseJob /\ b.at = "write" /\ b.made = parse[c].made /\ b.found = o
      BY <1>0, <3>2 DEF ParseJob
    <3>4. c \in clean /\ parse[c].at = "waiting"
      BY <1>3 DEF ParseRead
    <3> HIDE DEF b
    <3> QED
      BY <1>0, <2>1, <3>1, <3>2, <3>3, <3>4 DEF ParseMoves, b
  <2> QED
    BY <2>2, <2>3
<1>4. CASE ParseWrite(c)
  <2>1. parse' = [parse EXCEPT ![c] = [parse[c] EXCEPT !.at = "completed"]]
    BY <1>4 DEF ParseWrite
  <2> QED
    BY <1>1, <1>4, <2>1 DEF ParseWrite, WriteRow, Marked, ParseMoves
<1>5. CASE ParseThrows(c)
  <2> DEFINE b == Thrown(parse[c])
  <2>1. parse[c].made + 1 \in 0..Attempts
    BY <1>0, <1>5 DEF ParseThrows
  <2>2. /\ b \in ParseJob /\ b.at \in {"waiting", "failed"}
        /\ b.at = "waiting" => b.made < Attempts
    BY <1>0, <2>1 DEF Thrown, ParseJob
  <2>3. parse' = [parse EXCEPT ![c] = b]
    BY <1>5 DEF ParseThrows
  <2> HIDE DEF b
  <2> QED
    BY <1>5, <2>2, <2>3 DEF ParseThrows, ParseMoves
<1> QED
  BY <1>2, <1>3, <1>4, <1>5 DEF ParseStep

\* Links, deletions and the replica leave requests, jobs and stores alone.
UserMoves ==
  /\ UNCHANGED <<reqVars, jobVars, quarantine, clean, faults>>
  /\ \/ UNCHANGED <<row, dels>>
     \/ /\ UNCHANGED row
        /\ \E u \in Uploads : dels[u] = "no" /\ dels' = [dels EXCEPT ![u] = "checked"]
     \/ \E u \in Uploads :
          /\ row' = [row EXCEPT ![u] = NoRow]
          /\ dels' = [dels EXCEPT ![u] = "done"]

\* Links, deletions and the replica leave requests, jobs and stores alone.
LEMMA UserEffect ==
  ASSUME Replicate \/ \E u \in Uploads : Link(u) \/ CheckLinks(u) \/ DeleteRow(u)
  PROVE  UserMoves
BY DEF UserMoves, Replicate, Link, CheckLinks, DeleteRow, userVars

-----------------------------------------------------------------------------
(* Types.                                                                  *)

\* A row keeps its type when its state changes, when it is superseded and when it is made.
LEMMA RowTypes ==
  ASSUME PipelineAssumption, TypeOK
  PROVE  /\ \A u \in Uploads, s \in States : Marked(u, s) \in [Uploads -> Row]
         /\ \A u \in Uploads : RowsAfterCommit(u) \in [Uploads -> Row]
         /\ \A u \in Uploads : [row EXCEPT ![u] = NoRow] \in [Uploads -> Row]
<1>1. ASSUME NEW r \in Row
      PROVE  /\ \A s \in States : [r EXCEPT !.state = s] \in Row
             /\ [r EXCEPT !.active = FALSE] \in Row
  BY DEF Row, States
<1>2. row \in [Uploads -> Row]
  BY DEF TypeOK
<1>3. ASSUME NEW u \in Uploads PROVE NewRow(u) \in Row
  <2>1. up[u].version \in Nat
    BY DEF TypeOK, Request
  <2> QED
    BY <2>1 DEF NewRow, Row
<1>4. NoRow \in Row
  BY DEF NoRow, Row
<1>5. ASSUME NEW u \in Uploads, NEW s \in States PROVE Marked(u, s) \in [Uploads -> Row]
  <2>1. Marked(u, s) = [row EXCEPT ![u] = [row[u] EXCEPT !.state = s]]
    BY DEF Marked
  <2>2. row[u] \in Row
    BY <1>2
  <2>3. [row[u] EXCEPT !.state = s] \in Row
    BY <1>1, <2>2
  <2> HIDE DEF Row
  <2> QED
    BY <1>2, <2>1, <2>3
<1>6. ASSUME NEW u \in Uploads PROVE RowsAfterCommit(u) \in [Uploads -> Row]
  BY <1>1, <1>2, <1>3 DEF RowsAfterCommit
<1>7. ASSUME NEW u \in Uploads PROVE [row EXCEPT ![u] = NoRow] \in [Uploads -> Row]
  BY <1>2, <1>4
<1> QED
  BY <1>5, <1>6, <1>7

\* A row's state changes alone.
LEMMA MarkedRows ==
  ASSUME TypeOK, NEW u \in Uploads, NEW s \in States, row' = Marked(u, s)
  PROVE  /\ \A v \in Uploads : row'[v].exists = row[v].exists /\ row'[v].active = row[v].active
         /\ row'[u].state = s
         /\ \A v \in Uploads : v # u => row'[v] = row[v]
BY DEF TypeOK, Marked, Row

\* A commit adds an active row and only deactivates others.
LEMMA CommittedRows ==
  ASSUME TypeOK, NEW u \in Uploads, row' = RowsAfterCommit(u)
  PROVE  /\ row'[u].exists /\ row'[u].active /\ row'[u].state = "pending"
         /\ \A v \in Uploads : v # u => /\ row'[v].exists = row[v].exists
                                        /\ row'[v].state = row[v].state
                                        /\ v \notin up[u].hit => row'[v] = row[v]
BY DEF TypeOK, RowsAfterCommit, NewRow, Row

\* The actors of the pipeline.
LEMMA Steps ==
  ASSUME Next
  PROVE  \/ \E u \in Uploads : Store(u) \/ RequestStep(u) \/ Abandon(u)
         \/ \E j \in Jobs : DeliverScan(j) \/ ScanStep(j) \/ ScanStalls(j)
         \/ \E c \in Contents : ParseStep(c) \/ \E u \in Uploads : ContentOf[u] = c /\ DeliverParse(u)
         \/ Replicate \/ \E u \in Uploads : Link(u) \/ CheckLinks(u) \/ DeleteRow(u)
BY DEF Next, Jobs, Contents

\* Types are kept by every step.
LEMMA TypeInductive ==
  ASSUME PipelineAssumption, IsFiniteSet(Uploads), TypeInv, [Next]_vars
  PROVE  TypeInv'
<1>0. TypeOK /\ (\A j \in Jobs : scan[j].at # "none" => j[1] \in uploaded)
  BY DEF TypeInv
<1>t. CASE UNCHANGED vars
  BY <1>t DEF TypeInv, TypeOK, vars
<1>1. ASSUME NEW u \in Uploads, Store(u) \/ RequestStep(u) \/ Abandon(u) PROVE TypeInv'
  <2>1. /\ faults' \in 0..MaxFaults /\ hashes' \in SUBSET Contents
        /\ UNCHANGED <<scan, parse, cleaned, linked, dels, clean, shown>>
    BY <1>1, RequestEffect DEF jobVars, userVars
  <2>2. PICK r \in Request : up' = [up EXCEPT ![u] = r] /\ RequestMoves(u, r)
    BY <1>1, RequestEffect
  <2>3. up' \in [Uploads -> Request] /\ quarantine' \in SUBSET Uploads
    BY <1>0, <2>2 DEF TypeOK, RequestMoves
  <2>4. uploaded \subseteq uploaded' /\ uploaded' \in SUBSET Uploads
    BY <1>0, <2>2 DEF TypeOK, RequestMoves
  <2>5. row' \in [Uploads -> Row]
    BY <1>0, <2>2, RowTypes DEF RequestMoves, TypeOK
  <2>6. \A v \in Uploads : row[v].exists => row'[v].exists
    BY <1>0, <2>2, CommittedRows DEF RequestMoves
  <2>7. linked' \in SUBSET {v \in Uploads : row'[v].exists}
    BY <1>0, <2>1, <2>6 DEF TypeOK
  <2>8. TypeOK'
    BY <1>0, <2>1, <2>3, <2>4, <2>5, <2>7 DEF TypeOK
  <2> QED
    BY <2>1, <2>4, <2>8 DEF TypeInv
<1>2. ASSUME NEW j \in Jobs, DeliverScan(j) \/ ScanStep(j) \/ ScanStalls(j) PROVE TypeInv'
  <2>1. /\ j[1] \in uploaded /\ faults' \in 0..MaxFaults /\ j[1] \in Uploads
        /\ UNCHANGED <<up, hashes, uploaded, linked, dels, parse, shown>>
    BY <1>2, ScanEffect DEF reqVars, userVars
  <2>2. PICK b \in ScanJob : /\ scan' = [scan EXCEPT ![j] = b]
                             /\ b.at \notin {"completed", "failed"} => b.made < Attempts
                             /\ ScanMoves(j, b)
    BY <1>2, ScanEffect
  <2>3. scan' \in [Jobs -> ScanJob]
    BY <1>0, <2>2 DEF TypeOK, Jobs
  <2>4. ContentOf[j[1]] \in Contents
    BY <2>1 DEF Contents
  <2>5. /\ quarantine' \in SUBSET Uploads /\ clean' \in SUBSET Contents
        /\ cleaned' \in SUBSET uploaded
    BY <1>0, <2>1, <2>2, <2>4 DEF TypeOK, ScanMoves
  <2>6. row' \in [Uploads -> Row]
    BY <1>0, <2>1, <2>2, RowTypes DEF TypeOK, ScanMoves, States
  <2>7. \A v \in Uploads : row[v].exists => row'[v].exists
    <3>1. UNCHANGED row \/ \E s \in States : row' = Marked(j[1], s)
      BY <2>2 DEF ScanMoves, States
    <3> QED
      BY <1>0, <2>1, <3>1, MarkedRows
  <2>8. linked' \in SUBSET {v \in Uploads : row'[v].exists}
    BY <1>0, <2>1, <2>7 DEF TypeOK
  <2>9. TypeOK'
    BY <1>0, <2>1, <2>3, <2>5, <2>6, <2>8 DEF TypeOK, Jobs
  <2>10. \A i \in Jobs : /\ scan'[i].at \notin {"completed", "failed"} => scan'[i].made < Attempts
                         /\ scan'[i].at # "none" => i[1] \in uploaded'
    BY <1>0, <2>1, <2>2 DEF TypeInv, TypeOK, Jobs
  <2> QED
    BY <2>1, <2>9, <2>10 DEF TypeInv
<1>3. ASSUME NEW c \in Contents,
             ParseStep(c) \/ \E u \in Uploads : ContentOf[u] = c /\ DeliverParse(u)
      PROVE  TypeInv'
  <2>1. UNCHANGED <<up, hashes, uploaded, linked, dels, scan, cleaned, quarantine, clean, shown, faults>>
    BY <1>3, ParseEffect DEF reqVars, userVars
  <2>2. PICK b \in ParseJob : /\ parse' = [parse EXCEPT ![c] = b]
                              /\ b.at \notin {"completed", "failed"} => b.made < Attempts
                              /\ ParseMoves(c, b)
    BY <1>3, ParseEffect
  <2>3. parse' \in [Contents -> ParseJob]
    BY <1>0, <2>2 DEF TypeOK
  <2>4. parse[c].at = "write" => parse[c].found \in Uploads
    BY DEF TypeInv
  <2>5. row' \in [Uploads -> Row]
    BY <1>0, <2>2, <2>4, RowTypes DEF TypeOK, ParseMoves, States
  <2>6. \A v \in Uploads : row[v].exists => row'[v].exists
    <3>1. UNCHANGED row \/ \E u \in Uploads, s \in States : row' = Marked(u, s)
      BY <2>2, <2>4 DEF ParseMoves, States
    <3> QED
      BY <1>0, <3>1, MarkedRows
  <2>7. linked' \in SUBSET {v \in Uploads : row'[v].exists}
    BY <1>0, <2>1, <2>6 DEF TypeOK
  <2>8. TypeOK'
    BY <1>0, <2>1, <2>3, <2>5, <2>7 DEF TypeOK
  <2>9. \A d \in Contents : /\ parse'[d].at \notin {"completed", "failed"} => parse'[d].made < Attempts
                            /\ parse'[d].at = "write" => parse'[d].found \in Uploads
    BY <1>0, <2>2 DEF TypeInv, TypeOK, ParseMoves
  <2> QED
    BY <2>1, <2>8, <2>9 DEF TypeInv
<1>4. ASSUME Replicate \/ \E u \in Uploads : Link(u) \/ CheckLinks(u) \/ DeleteRow(u) PROVE TypeInv'
  <2>1. UNCHANGED <<up, hashes, uploaded, scan, parse, cleaned, quarantine, clean, faults>>
    BY <1>4, UserEffect DEF UserMoves, reqVars, jobVars
  <2>2. CASE Replicate
    BY <1>0, <2>1, <2>2 DEF TypeInv, TypeOK, Replicate, userVars, Existing, Contents
  <2>3. ASSUME NEW u \in Uploads, Link(u) \/ CheckLinks(u) PROVE TypeInv'
    <3>1. UNCHANGED <<row, shown>>
      BY <2>3 DEF Link, CheckLinks
    <3>2. linked' \in SUBSET {v \in Uploads : row[v].exists} /\ dels' \in [Uploads -> {"no", "checked", "done"}]
      BY <1>0, <2>3 DEF Link, CheckLinks, TypeOK
    <3>3. TypeOK'
      BY <1>0, <2>1, <3>1, <3>2 DEF TypeOK
    <3> QED
      BY <2>1, <3>3 DEF TypeInv
  <2>4. ASSUME NEW u \in Uploads, DeleteRow(u) PROVE TypeInv'
    <3>1. row' = [row EXCEPT ![u] = NoRow] /\ linked' = linked \ {u} /\ UNCHANGED shown
      BY <2>4 DEF DeleteRow
    <3>2. dels' \in [Uploads -> {"no", "checked", "done"}]
      BY <1>0, <2>4 DEF DeleteRow, TypeOK
    <3>3. row' \in [Uploads -> Row] /\ linked' \in SUBSET {v \in Uploads : row'[v].exists}
      BY <1>0, <3>1, RowTypes DEF TypeOK
    <3>4. TypeOK'
      BY <1>0, <2>1, <3>1, <3>2, <3>3 DEF TypeOK
    <3> QED
      BY <2>1, <3>4 DEF TypeInv
  <2> QED
    BY <1>4, <2>2, <2>3, <2>4
<1> QED
  BY <1>t, <1>1, <1>2, <1>3, <1>4, Steps

\* The first state is well-typed and satisfies the invariants.
LEMMA InitInv ==
  ASSUME PipelineAssumption, Init
  PROVE  TypeInv /\ QuarantineInv /\ UploadsInv
<1>1. TypeOK
  BY DEF Init, TypeOK, Request, Row, NoRow, ScanJob, ParseJob, PipelineAssumption
<1>2. TypeInv
  BY <1>1 DEF Init, TypeInv, Jobs, PipelineAssumption
<1>3. QuarantineInv
  BY DEF Init, QuarantineInv, QuarantineBoundary, Existing, NoRow, Jobs
<1>4. UploadsInv
  BY DEF Init, UploadsInv, Kept, Holding, SomeActive, Existing, NoRow, Jobs
<1> QED
  BY <1>2, <1>3, <1>4

-----------------------------------------------------------------------------
(* The boundary of quarantine storage.                                     *)

\* Nothing reaches clean storage, and no row is ready, without the scanner's verdict.
LEMMA QuarantineInductive ==
  ASSUME PipelineAssumption, IsFiniteSet(Uploads), TypeInv, QuarantineInv, [Next]_vars
  PROVE  QuarantineInv'
<1>0. /\ TypeOK
      /\ \A c \in Contents : parse[c].at = "write" => parse[c].found \in Uploads
  BY DEF TypeInv
<1>f. \A u \in Uploads : row[u].exists /\ row[u].state = "clean" => ContentOf[u] \in clean
  BY DEF QuarantineInv, QuarantineBoundary, Existing
<1>g. ASSUME clean' \cap Infected = {},
             \A u \in Uploads : row'[u].exists /\ row'[u].state = "clean" => ContentOf[u] \in clean'
      PROVE  QuarantineBoundary'
  BY <1>g DEF QuarantineBoundary, Existing
<1>t. CASE UNCHANGED vars
  BY <1>t DEF QuarantineInv, QuarantineBoundary, Existing, vars
<1>1. ASSUME NEW u \in Uploads, Store(u) \/ RequestStep(u) \/ Abandon(u) PROVE QuarantineInv'
  <2>1. UNCHANGED <<scan, parse, clean>>
    BY <1>1, RequestEffect DEF jobVars
  <2>2. UNCHANGED row \/ row' = RowsAfterCommit(u)
    BY <1>1, RequestEffect DEF RequestMoves
  <2>3. \A v \in Uploads : row'[v].exists /\ row'[v].state = "clean" => ContentOf[v] \in clean'
    BY <1>0, <1>f, <2>1, <2>2, CommittedRows
  <2>4. QuarantineBoundary'
    BY <1>g, <2>1, <2>3 DEF QuarantineInv, QuarantineBoundary
  <2> QED
    BY <2>1, <2>4 DEF QuarantineInv
<1>2. ASSUME NEW j \in Jobs, DeliverScan(j) \/ ScanStep(j) \/ ScanStalls(j) PROVE QuarantineInv'
  <2>1. UNCHANGED parse /\ j[1] \in Uploads
    BY <1>2, ScanEffect
  <2>2. PICK b \in ScanJob : scan' = [scan EXCEPT ![j] = b] /\ ScanMoves(j, b)
    BY <1>2, ScanEffect
  <2>3. clean \subseteq clean' /\ clean' \cap Infected = {}
    BY <2>2 DEF ScanMoves, QuarantineInv, QuarantineBoundary
  <2>4. scan[j].at = "promote" => ContentOf[j[1]] \in clean
    BY DEF QuarantineInv
  <2>5. \A v \in Uploads : row'[v].exists /\ row'[v].state = "clean" => ContentOf[v] \in clean'
    <3>1. \/ UNCHANGED row
          \/ \E s \in States : row' = Marked(j[1], s) /\ (s = "clean" => scan[j].at = "promote")
      BY <2>2 DEF ScanMoves, States
    <3>2. ASSUME NEW s \in States, row' = Marked(j[1], s), s = "clean" => scan[j].at = "promote"
          PROVE  \A v \in Uploads : row'[v].exists /\ row'[v].state = "clean" => ContentOf[v] \in clean
      BY <1>0, <1>f, <2>1, <2>4, <3>2, MarkedRows
    <3> QED
      BY <1>f, <2>3, <3>1, <3>2
  <2>6. /\ b.at = "copy" => ContentOf[j[1]] \notin Infected
        /\ b.at \in {"drop", "promote"} => ContentOf[j[1]] \in clean'
    BY <2>2 DEF ScanMoves, QuarantineInv
  <2>7. \A i \in Jobs : /\ scan'[i].at = "copy" => ContentOf[i[1]] \notin Infected
                        /\ scan'[i].at \in {"drop", "promote"} => ContentOf[i[1]] \in clean'
    BY <1>0, <2>2, <2>3, <2>6 DEF QuarantineInv, TypeOK, Jobs
  <2>8. \A c \in Contents : parse'[c].at = "write" => ContentOf[parse'[c].found] = c /\ c \in clean'
    BY <2>1, <2>3 DEF QuarantineInv
  <2> QED
    BY <1>g, <2>3, <2>5, <2>7, <2>8 DEF QuarantineInv
<1>3. ASSUME NEW c \in Contents,
             ParseStep(c) \/ \E u \in Uploads : ContentOf[u] = c /\ DeliverParse(u)
      PROVE  QuarantineInv'
  <2>1. UNCHANGED <<scan, clean>>
    BY <1>3, ParseEffect
  <2>2. PICK b \in ParseJob : parse' = [parse EXCEPT ![c] = b] /\ ParseMoves(c, b)
    BY <1>3, ParseEffect
  <2>3. parse[c].at = "write" => ContentOf[parse[c].found] \in clean /\ parse[c].found \in Uploads
    BY <1>0 DEF QuarantineInv
  <2>4. \A v \in Uploads : row'[v].exists /\ row'[v].state = "clean" => ContentOf[v] \in clean'
    <3>1. CASE UNCHANGED row
      BY <1>f, <2>1, <3>1
    <3>2. CASE parse[c].at = "write" /\ row' = Marked(parse[c].found, "clean")
      <4>1. \A v \in Uploads : row'[v].exists = row[v].exists
        BY <1>0, <2>3, <3>2, MarkedRows DEF States
      <4>2. \A v \in Uploads : v # parse[c].found => row'[v] = row[v]
        BY <1>0, <2>3, <3>2, MarkedRows DEF States
      <4> QED
        BY <1>f, <2>1, <2>3, <3>2, <4>1, <4>2
    <3> QED
      BY <2>2, <3>1, <3>2 DEF ParseMoves
  <2>5. QuarantineBoundary'
    BY <1>g, <2>1, <2>4 DEF QuarantineInv, QuarantineBoundary
  <2>6. \A d \in Contents : parse'[d].at = "write" => ContentOf[parse'[d].found] = d /\ d \in clean'
    BY <1>0, <2>1, <2>2 DEF QuarantineInv, TypeOK, ParseMoves
  <2> QED
    BY <2>1, <2>5, <2>6 DEF QuarantineInv
<1>4. ASSUME Replicate \/ \E u \in Uploads : Link(u) \/ CheckLinks(u) \/ DeleteRow(u)
      PROVE  QuarantineInv'
  <2>1. UNCHANGED <<scan, parse, clean>>
    BY <1>4, UserEffect DEF UserMoves, jobVars
  <2>2. UNCHANGED row \/ \E u \in Uploads : row' = [row EXCEPT ![u] = NoRow]
    BY <1>4, UserEffect DEF UserMoves
  <2>3. \A v \in Uploads : row'[v].exists /\ row'[v].state = "clean" => ContentOf[v] \in clean'
    BY <1>0, <1>f, <2>1, <2>2 DEF NoRow, TypeOK
  <2>4. QuarantineBoundary'
    BY <1>g, <2>1, <2>3 DEF QuarantineInv, QuarantineBoundary
  <2> QED
    BY <2>1, <2>4 DEF QuarantineInv
<1> QED
  BY <1>t, <1>1, <1>2, <1>3, <1>4, Steps

-----------------------------------------------------------------------------
(* Accepted uploads.                                                       *)

\* A file is not dropped before it is copied or condemned, and a user keeps an active row.
LEMMA UploadsInductive ==
  ASSUME PipelineAssumption, IsFiniteSet(Uploads), TypeInv, QuarantineInv, UploadsInv, [Next]_vars
  PROVE  UploadsInv'
<1>0. TypeOK
  BY DEF TypeInv
<1>f. ASSUME NEW u \in Uploads, row[u].exists,
             \A o \in Uploads : UserOf[o] = UserOf[u] => dels[o] # "done"
      PROVE  \E o \in Uploads : row[o].exists /\ UserOf[o] = UserOf[u] /\ row[o].active
  BY <1>f DEF UploadsInv, SomeActive, Existing, ActiveRows
<1>g. ASSUME \A u \in Uploads :
               row'[u].exists /\ (\A o \in Uploads : UserOf[o] = UserOf[u] => dels'[o] # "done")
                 => \E o \in Uploads : row'[o].exists /\ UserOf[o] = UserOf[u] /\ row'[o].active
      PROVE  SomeActive'
  BY <1>g DEF SomeActive, Existing, ActiveRows
<1>t. CASE UNCHANGED vars
  BY <1>t DEF UploadsInv, Kept, SomeActive, Existing, ActiveRows, vars
<1>1. ASSUME NEW u \in Uploads, Store(u) \/ RequestStep(u) \/ Abandon(u) PROVE UploadsInv'
  <2>1. UNCHANGED <<scan, dels, clean>>
    BY <1>1, RequestEffect DEF jobVars, userVars
  <2>2. PICK r \in Request : up' = [up EXCEPT ![u] = r] /\ RequestMoves(u, r)
    BY <1>1, RequestEffect
  <2>3. \A o \in up[u].hit : UserOf[o] = UserOf[u]
    BY DEF UploadsInv
  <2>4. \A v \in Uploads : \A o \in up'[v].hit : UserOf[o] = UserOf[v]
    BY <1>0, <2>2, <2>3 DEF UploadsInv, TypeOK, RequestMoves
  <2>5. ASSUME NEW v \in Uploads PROVE Kept(v)'
    <3>1. Kept(v)
      BY DEF UploadsInv
    <3>2. CASE v # u
      BY <1>0, <2>1, <2>2, <3>1, <3>2 DEF Kept, RequestMoves, TypeOK
    <3>3. CASE v = u
      <4>1. up'[u] = r
        BY <1>0, <2>2 DEF TypeOK
      <4> QED
        BY <2>1, <2>2, <3>1, <3>3, <4>1 DEF Kept, RequestMoves, Holding
    <3> QED
      BY <3>2, <3>3
  <2>6. SomeActive'
    <3>1. CASE UNCHANGED row
      BY <1>f, <1>g, <2>1, <3>1
    <3>2. CASE row' = RowsAfterCommit(u)
      <4>1. ASSUME NEW v \in Uploads, row'[v].exists,
                   \A o \in Uploads : UserOf[o] = UserOf[v] => dels'[o] # "done"
            PROVE  \E o \in Uploads : row'[o].exists /\ UserOf[o] = UserOf[v] /\ row'[o].active
        <5>1. CASE UserOf[v] = UserOf[u]
          BY <1>0, <3>2, <5>1, CommittedRows
        <5>2. CASE UserOf[v] # UserOf[u]
          <6>1. row[v].exists
            BY <1>0, <3>2, <4>1, <5>2, CommittedRows
          <6>2. PICK o \in Uploads : row[o].exists /\ UserOf[o] = UserOf[v] /\ row[o].active
            BY <1>f, <2>1, <4>1, <6>1
          <6>3. o \notin up[u].hit /\ o # u
            BY <2>3, <5>2, <6>2
          <6> QED
            BY <1>0, <3>2, <6>2, <6>3, CommittedRows
        <5> QED
          BY <5>1, <5>2
      <4> QED
        BY <1>g, <4>1
    <3> QED
      BY <2>2, <3>1, <3>2 DEF RequestMoves
  <2> QED
    BY <2>1, <2>4, <2>5, <2>6 DEF UploadsInv
<1>2. ASSUME NEW j \in Jobs, DeliverScan(j) \/ ScanStep(j) \/ ScanStalls(j) PROVE UploadsInv'
  <2>1. UNCHANGED <<up, dels>> /\ j[1] \in Uploads
    BY <1>2, ScanEffect DEF reqVars, userVars
  <2>2. PICK b \in ScanJob : scan' = [scan EXCEPT ![j] = b] /\ ScanMoves(j, b)
    BY <1>2, ScanEffect
  <2>3. b.at \in {"infected", "purge"} => ContentOf[j[1]] \in Infected
    BY <2>2 DEF ScanMoves, UploadsInv
  <2>4. \A i \in Jobs : scan'[i].at \in {"infected", "purge"} => ContentOf[i[1]] \in Infected
    BY <1>0, <2>2, <2>3 DEF UploadsInv, TypeOK, Jobs
  <2>5. /\ scan[j].at = "purge" => ContentOf[j[1]] \in Infected
        /\ scan[j].at = "drop" => ContentOf[j[1]] \in clean
    BY DEF UploadsInv, QuarantineInv
  <2>6. clean \subseteq clean'
    BY <2>2 DEF ScanMoves
  <2>7. ASSUME NEW v \in Uploads PROVE Kept(v)'
    <3>1. Kept(v)
      BY DEF UploadsInv
    <3>2. v \in quarantine => v \in quarantine' \/ ContentOf[v] \in Infected \/ ContentOf[v] \in clean
      BY <2>2, <2>5 DEF ScanMoves
    <3> QED
      BY <2>1, <2>6, <3>1, <3>2 DEF Kept
  <2>8. \A v \in Uploads : row'[v].exists = row[v].exists /\ row'[v].active = row[v].active
    <3>1. UNCHANGED row \/ \E s \in States : row' = Marked(j[1], s)
      BY <2>2 DEF ScanMoves, States
    <3> QED
      BY <1>0, <2>1, <3>1, MarkedRows
  <2>9. SomeActive'
    BY <1>f, <1>g, <2>1, <2>8
  <2> QED
    BY <2>1, <2>4, <2>7, <2>9 DEF UploadsInv
<1>3. ASSUME NEW c \in Contents,
             ParseStep(c) \/ \E u \in Uploads : ContentOf[u] = c /\ DeliverParse(u)
      PROVE  UploadsInv'
  <2>1. UNCHANGED <<up, dels, scan, quarantine, clean>>
    BY <1>3, ParseEffect DEF reqVars, userVars
  <2>2. UNCHANGED row \/ \E u \in Uploads : row' = Marked(u, "clean")
    BY <1>3, ParseEffect DEF ParseMoves, TypeInv
  <2>3. \A v \in Uploads : row'[v].exists = row[v].exists /\ row'[v].active = row[v].active
    <3>1. "clean" \in States
      BY DEF States
    <3> QED
      BY <1>0, <2>2, <3>1, MarkedRows
  <2>4. SomeActive'
    BY <1>f, <1>g, <2>1, <2>3
  <2> QED
    BY <2>1, <2>4 DEF UploadsInv, Kept
<1>4. ASSUME Replicate \/ \E u \in Uploads : Link(u) \/ CheckLinks(u) \/ DeleteRow(u)
      PROVE  UploadsInv'
  <2>1. UNCHANGED <<up, scan, quarantine, clean>> /\ UserMoves
    BY <1>4, UserEffect DEF UserMoves, reqVars, jobVars
  <2>2. SomeActive'
    <3>1. CASE UNCHANGED <<row, dels>>
      BY <1>f, <1>g, <3>1
    <3>2. ASSUME UNCHANGED row, NEW u \in Uploads, dels[u] = "no", dels' = [dels EXCEPT ![u] = "checked"]
          PROVE  SomeActive'
      <4>1. \A o \in Uploads : dels'[o] # "done" => dels[o] # "done"
        BY <1>0, <3>2 DEF TypeOK
      <4> QED
        BY <1>f, <1>g, <3>2, <4>1
    <3>3. ASSUME NEW u \in Uploads, row' = [row EXCEPT ![u] = NoRow], dels' = [dels EXCEPT ![u] = "done"]
          PROVE  SomeActive'
      <4>1. ASSUME NEW v \in Uploads, row'[v].exists,
                   \A o \in Uploads : UserOf[o] = UserOf[v] => dels'[o] # "done"
            PROVE  \E o \in Uploads : row'[o].exists /\ UserOf[o] = UserOf[v] /\ row'[o].active
        <5>1. UserOf[u] # UserOf[v]
          BY <1>0, <3>3, <4>1 DEF TypeOK
        <5>2. \A o \in Uploads : o # u => row'[o] = row[o] /\ dels'[o] = dels[o]
          BY <1>0, <3>3 DEF TypeOK
        <5>3. PICK o \in Uploads : row[o].exists /\ UserOf[o] = UserOf[v] /\ row[o].active
          BY <1>f, <4>1, <5>1, <5>2
        <5> QED
          BY <5>1, <5>2, <5>3
      <4> QED
        BY <1>g, <4>1
    <3> QED
      BY <2>1, <3>1, <3>2, <3>3 DEF UserMoves
  <2> QED
    BY <2>1, <2>2 DEF UploadsInv, Kept
<1> QED
  BY <1>t, <1>1, <1>2, <1>3, <1>4, Steps

-----------------------------------------------------------------------------
(* The theorems.                                                           *)

\* However many uploads, users, contents, scan jobs and faults there are, requests, scans,
\* parse jobs and deletions leave rows, stores and jobs well-formed: no job is tried more
\* often than BullMQ allows, and no link points to a row that is gone.
THEOREM PipelineTyped ==
  ASSUME IsFiniteSet(Uploads)
  PROVE  Spec => []TypeOK
<1>1. Init => TypeInv
  BY PipelineAssumption, InitInv
<1>2. TypeInv /\ [Next]_vars => TypeInv'
  BY PipelineAssumption, TypeInductive
<1>3. TypeInv => TypeOK
  BY DEF TypeInv
<1> QED
  BY <1>1, <1>2, <1>3, PTL DEF Spec

\* The quarantine holds: no file in which the scanner finds threats reaches clean storage,
\* and no row is ready before its file is there, whatever jobs are retried, doubled or cut
\* short (malware-scan.worker.ts, resume-parsing.worker.ts).
THEOREM QuarantineHolds ==
  ASSUME IsFiniteSet(Uploads)
  PROVE  Spec => []QuarantineBoundary
<1>1. Init => TypeInv /\ QuarantineInv
  BY PipelineAssumption, InitInv
<1>2. TypeInv /\ QuarantineInv /\ [Next]_vars => (TypeInv /\ QuarantineInv)'
  BY PipelineAssumption, TypeInductive, QuarantineInductive
<1>3. QuarantineInv => QuarantineBoundary
  BY DEF QuarantineInv
<1> QED
  BY <1>1, <1>2, <1>3, PTL DEF Spec

\* An accepted upload is never lost: its bytes stay until the scanner has condemned them,
\* and a user who deletes nothing keeps an active resume (resume-upload.service.ts).
THEOREM UploadsAreKept ==
  ASSUME IsFiniteSet(Uploads)
  PROVE  Spec => []UploadsHold
<1>1. Init => TypeInv /\ QuarantineInv /\ UploadsInv
  BY PipelineAssumption, InitInv
<1>2. TypeInv /\ QuarantineInv /\ UploadsInv /\ [Next]_vars
        => (TypeInv /\ QuarantineInv /\ UploadsInv)'
  BY PipelineAssumption, TypeInductive, QuarantineInductive, UploadsInductive
<1>3. UploadsInv => UploadsHold
  BY DEF UploadsInv, UploadsHold, BytesKept, Kept, Holding, Existing
<1> QED
  BY <1>1, <1>2, <1>3, PTL DEF Spec
=============================================================================
