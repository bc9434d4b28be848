---------------------------- MODULE CareerRecords ----------------------------
(***************************************************************************)
(* What is recorded beside an application once an email has created it:    *)
(* the resume it was sent with, the snapshot of the facts known then, the  *)
(* outcome, and the APPLY action with its strategy tag; and the reports    *)
(* that AnalyticsService makes of them.  One user.                         *)
(*                                                                         *)
(* Sources: application-command.service.ts, application-integration.ts,    *)
(* resume-upload.service.ts, snapshot.service.ts, outcome.service.ts,      *)
(* action.service.ts, analytics.service.ts.                                *)
(*                                                                         *)
(* The transaction that creates the application and the commit of the      *)
(* email's claim are one step: EmailApplication takes them apart.  What    *)
(* follows is done once, for the retry of an email that is committed       *)
(* returns at its claim.  The action that an upload records has no         *)
(* application, and adds nothing to a count.                               *)
(***************************************************************************)
EXTENDS Integers, Sequences, FiniteSets, FiniteSetsExt, Functions

CONSTANTS
  Apps,        \* emails that create an application, and the applications
  Moods,       \* statuses that a user gives an application
  MaxUploads,  \* bound: uploads of the user
  MaxCorrected \* bound: corrections of the fact

ASSUME CareerAssumption ==
  IsFiniteSet(Apps) /\ "" \notin Moods /\ MaxUploads \in Nat /\ MaxCorrected \in Nat

VARIABLES
  numbers,  \* the version of each upload's row, 0 once it is deleted
  highest,  \* the largest version there has been
  active,   \* the upload whose row is active, 0 for none
  doomed,   \* the upload whose links a deletion has counted, 0 for none
  work,     \* the call of each email: where it is, and what it has read
  app,      \* the rows of the applications, with their resume link
  rows,     \* current rows of a fact: as it was extracted, and corrected
  copied,   \* rows that each application's snapshot holds
  outcomes, \* outcome rows of each application
  applied,  \* APPLY actions of each application: the version of their tags
  raced     \* a link was made between the two steps of a deletion

resumeVars == <<numbers, highest, active, doomed, raced>>
careerVars == <<resumeVars, work, app, rows, copied, outcomes, applied>>

NoWork == [at |-> "none", resume |-> 0, version |-> 0, saw |-> [old |-> 0, new |-> 0]]
NoApp == [status |-> "", resume |-> 0, snapshot |-> FALSE]
NoRows == [old |-> 0, new |-> 0]
Exists(a) == app[a].status # ""

CareerInit ==
  /\ numbers = <<>> /\ highest = 0 /\ active = 0 /\ doomed = 0 /\ raced = FALSE
  /\ work = [a \in Apps |-> NoWork]
  /\ app = [a \in Apps |-> NoApp]
  /\ rows = [old |-> 1, new |-> 0]
  /\ copied = [a \in Apps |-> NoRows]
  /\ outcomes = [a \in Apps |-> 0]
  /\ applied = [a \in Apps |-> <<>>]

At(a, step) == work[a].at = step
Works(a, call) == work' = [work EXCEPT ![a] = call]
Goes(a, step) == Works(a, [work[a] EXCEPT !.at = step])
-----------------------------------------------------------------------------
(* The user: an upload becomes the active row; a row no application is     *)
(* linked to can be deleted; a correction supersedes one current row, be   *)
(* it a copy; and statuses change.  The version of an upload follows the   *)
(* largest that was read before its transaction, from the replica.  That   *)
(* is the largest of some earlier moment, so that a number is given twice. *)
Upload ==
  /\ Len(numbers) < MaxUploads
  /\ \E currentMax \in 0..highest :
       /\ numbers' = Append(numbers, currentMax + 1)
       /\ highest' = IF currentMax = highest THEN highest + 1 ELSE highest
  /\ active' = Len(numbers')
  /\ UNCHANGED <<doomed, raced, work, app, rows, copied, outcomes, applied>>

Links(u) == {a \in Apps : app[a].resume = u}

deleteVersion ==
  /\ doomed = 0
  /\ \E u \in DOMAIN numbers : numbers[u] # 0 /\ Links(u) = {} /\ doomed' = u
  /\ UNCHANGED <<numbers, highest, active, raced, work, app, rows, copied, outcomes, applied>>

(* The links go with the row.                                              *)
Cascade ==
  /\ doomed # 0 /\ doomed' = 0
  /\ numbers' = [numbers EXCEPT ![doomed] = 0]
  /\ active' = IF active = doomed THEN 0 ELSE active
  /\ app' = [a \in Apps |-> IF a \in Links(doomed) THEN [app[a] EXCEPT !.resume = 0] ELSE app[a]]
  /\ UNCHANGED <<highest, raced, work, rows, copied, outcomes, applied>>

correctFact ==
  /\ rows.old > 0 /\ rows.new < MaxCorrected
  /\ rows' = [old |-> rows.old - 1, new |-> rows.new + 1]
  /\ UNCHANGED <<resumeVars, work, app, copied, outcomes, applied>>

ChangeStatus(a) ==
  /\ Exists(a)
  /\ \E s \in Moods : app' = [app EXCEPT ![a].status = s]
  /\ UNCHANGED <<resumeVars, work, rows, copied, outcomes, applied>>
-----------------------------------------------------------------------------
(* The email: the active resume is read before the transaction that links  *)
(* the application to it.  Its version is kept in the call; a row that is  *)
(* deleted by then fails the transaction, and the email is tried again.    *)
getActiveResumeRow(a) ==
  /\ At(a, "none")
  /\ Works(a, [work[a] EXCEPT !.at = "begun", !.resume = active,
                 !.version = IF active = 0 THEN 0 ELSE numbers[active]])
  /\ UNCHANGED <<resumeVars, app, rows, copied, outcomes, applied>>

linkApplicationResume(a) ==
  /\ At(a, "begun")
  /\ LET resume == work[a].resume
     IN  IF resume # 0 /\ numbers[resume] = 0
         THEN Works(a, NoWork) /\ UNCHANGED <<app, raced>>
         ELSE /\ Goes(a, "created")
              /\ app' = [app EXCEPT ![a] = [NoApp EXCEPT !.status = "APPLIED", !.resume = resume]]
              /\ raced' = (raced \/ resume \in {doomed} \ {0})
  /\ UNCHANGED <<numbers, highest, active, doomed, rows, copied, outcomes, applied>>

(* createSnapshot: the current rows are read and copied, as current rows   *)
(* again; what others commit meanwhile is not in it.  A failure is caught  *)
(* and leaves the application without a snapshot.                          *)
ReadFacts(a) ==
  /\ At(a, "created")
  /\ Works(a, [work[a] EXCEPT !.at = "read", !.saw = rows])
  /\ UNCHANGED <<resumeVars, app, rows, copied, outcomes, applied>>

Copies(a) == work[a].saw

createSnapshot(a) ==
  /\ At(a, "read")
  /\ Works(a, [work[a] EXCEPT !.at = "copied", !.saw = NoRows])
  /\ rows' = [old |-> rows.old + Copies(a).old, new |-> rows.new + Copies(a).new]
  /\ copied' = [copied EXCEPT ![a] = Copies(a)]
  /\ UNCHANGED <<resumeVars, app, outcomes, applied>>

SnapshotFails(a) ==
  /\ At(a, "read")
  /\ Works(a, [work[a] EXCEPT !.at = "linked", !.saw = NoRows])
  /\ UNCHANGED <<resumeVars, app, rows, copied, outcomes, applied>>

LinkSnapshot(a) ==
  /\ At(a, "copied") /\ Goes(a, "linked")
  /\ app' = [app EXCEPT ![a].snapshot = TRUE]
  /\ UNCHANGED <<resumeVars, rows, copied, outcomes, applied>>

(* recordOutcome gives the application the status of the outcome in the    *)
(* same transaction, and rolls back when the column does not know it.      *)
ApplicationStatuses ==
  {"SAVED", "APPLIED", "SCREENING", "INTERVIEW", "ASSESSMENT", "OFFER", "REJECTED", "WITHDRAWN"}

OUTCOME_TYPE_TO_STATUS == [APPLICATION_SENT |-> "Applied"]

shouldUpdateAppStatus(a) == outcomes[a] = 0

recordOutcome(a) ==
  LET resultingStatus == OUTCOME_TYPE_TO_STATUS["APPLICATION_SENT"]
      lands == shouldUpdateAppStatus(a) => resultingStatus \in ApplicationStatuses
  IN  /\ At(a, "linked") /\ Goes(a, "sent")
      /\ outcomes' = [outcomes EXCEPT ![a] = IF lands THEN @ + 1 ELSE @]
      /\ app' = [app EXCEPT ![a].status =
                   IF lands /\ shouldUpdateAppStatus(a) THEN resultingStatus ELSE @]
      /\ UNCHANGED <<resumeVars, rows, copied, applied>>

\* mutant: the tag is that of the resume that is active by now
TagOfActive(a) == IF active = 0 THEN 0 ELSE numbers[active]

resumeVersionTag(a) == work[a].version

(* recordApplyAction: a failure is caught.                                 *)
recordAction(a) ==
  /\ At(a, "sent")
  /\ Works(a, [NoWork EXCEPT !.at = "over"])
  /\ \/ applied' = [applied EXCEPT ![a] = Append(@, resumeVersionTag(a))]
     \/ UNCHANGED applied
  /\ UNCHANGED <<resumeVars, app, rows, copied, outcomes>>

(* The process exits, or a statement outside the transaction throws: the   *)
(* retry finds the email committed, and does none of the rest.             *)
GivesUp(a) ==
  /\ work[a].at \in {"created", "read", "copied", "linked", "sent"}
  /\ Works(a, [NoWork EXCEPT !.at = "over"])
  /\ UNCHANGED <<resumeVars, app, rows, copied, outcomes, applied>>

CareerNext ==
  \/ Upload \/ deleteVersion \/ Cascade \/ correctFact
  \/ \E a \in Apps :
       \/ ChangeStatus(a) \/ getActiveResumeRow(a) \/ linkApplicationResume(a)
       \/ ReadFacts(a) \/ createSnapshot(a) \/ SnapshotFails(a) \/ LinkSnapshot(a)
       \/ recordOutcome(a) \/ recordAction(a) \/ GivesUp(a)

CareerSpec == CareerInit /\ [][CareerNext]_careerVars
-----------------------------------------------------------------------------
(* The rows of the reports.                                                *)
InInterview(a) == app[a].status \in {"INTERVIEW", "ASSESSMENT", "OFFER"}
InOffer(a) == app[a].status = "OFFER"

Counted(S) == [applications |-> Cardinality(S),
               interviews |-> Cardinality({a \in S : InInterview(a)}),
               offers |-> Cardinality({a \in S : InOffer(a)})]

getResumePerformance ==
  [u \in 0..Len(numbers) |-> Counted({a \in Apps : Exists(a) /\ app[a].resume = u})]

(* Of the actions, the applications are a set, and the rest is counted     *)
(* action by action.                                                       *)
Acted(tags) == {x \in Apps \X (1..2) :
                  x[2] <= Len(applied[x[1]]) /\ applied[x[1]][x[2]] \in tags /\ Exists(x[1])}

PerformanceRow(tags) ==
  [applications |-> Cardinality({x[1] : x \in Acted(tags)}),
   interviews |-> Cardinality({x \in Acted(tags) : InInterview(x[1])}),
   offers |-> Cardinality({x \in Acted(tags) : InOffer(x[1])})]

getActionPerformance == PerformanceRow(0..MaxUploads)
getStrategyPerformance == [v \in 1..MaxUploads |-> PerformanceRow({v})]
-----------------------------------------------------------------------------
(* The reports agree: the strategy row of a version shows no more than the *)
(* rows of the resumes that have the number, though numbers are given      *)
(* again, unless a link raced a deletion; and a rate over actions is no    *)
(* more than one.                                                          *)
NoMore(x, y) ==
  x.applications <= y.applications /\ x.interviews <= y.interviews /\ x.offers <= y.offers

Numbered(v) == {u \in DOMAIN numbers : numbers[u] = v}

\* Each unit of a column, beside the row it is counted in.
Units(us, f) ==
  {x \in us \X (1..Cardinality(Apps)) : x[2] <= getResumePerformance[x[1]][f]}

ResumesOf(v) ==
  [f \in {"applications", "interviews", "offers"} |-> Cardinality(Units(Numbered(v), f))]

ReportsAgree ==
  (\E a \in Apps : Exists(a)) =>
  /\ \A v \in 1..MaxUploads : ~raced => NoMore(getStrategyPerformance[v], ResumesOf(v))
  /\ getActionPerformance.interviews <= getActionPerformance.applications
  /\ getActionPerformance.offers <= getActionPerformance.interviews

(* Every snapshot copies the copies of those before it: the current rows   *)
(* of one fact are as many as the sets of snapshots a row may have come     *)
(* through, and never more than that, whatever overlaps; and a corrected    *)
(* fact is also shown as it was only then.                                 *)
CopiesAreBounded ==
  LET snapshots == {a \in Apps : copied[a] # NoRows}
  IN  /\ rows.old + rows.new <= Cardinality(SUBSET snapshots)
      /\ rows.new > 0 /\ rows.old > 0 => snapshots # {}

(* An application that names a snapshot finds the facts of its time in it. *)
SnapshotsAreWhole ==
  \A a \in Apps : app[a].snapshot => copied[a].old + copied[a].new > 0

RecordsAgree == ReportsAgree /\ CopiesAreBounded /\ SnapshotsAreWhole
=============================================================================
