------------------------- MODULE ApplicationStatus -------------------------
(***************************************************************************)
(* The status of one application: every change, an email's or a user's,    *)
(* adds a row to the status history and folds the whole history into the   *)
(* application's row.                                                      *)
(*                                                                         *)
(* Sources: status-engine.service.ts, application-timeline.service.ts and  *)
(* updateApplicationStatus of application-command.service.ts.              *)
(*                                                                         *)
(* A change runs in a READ COMMITTED transaction: it reads the application *)
(* (one step), inserts its row and reads the history again, its own row    *)
(* included (one step), and updates the application and commits (one step: *)
(* the row lock of the update orders the commits).  A transaction the      *)
(* database aborts with P2034 starts again, at most Retries times.         *)
(***************************************************************************)
EXTENDS Naturals, FiniteSets

CONSTANTS Changes,   \* the changes of the application
          Requests,  \* what each may ask: [source, status, at]
          Start,     \* the status the application was created with
          Retries    \* retries of an aborted transaction

Statuses == {"SAVED", "APPLIED", "SCREENING", "ASSESSMENT", "INTERVIEW",
             "OFFER", "REJECTED", "WITHDRAWN"}

statusRank ==
  [s \in Statuses |->
     CASE s = "SAVED" -> 0      [] s = "APPLIED" -> 1   [] s = "SCREENING" -> 2
       [] s = "ASSESSMENT" -> 3 [] s = "INTERVIEW" -> 4 [] s = "OFFER" -> 5
       [] OTHER -> 6]
Terminal == {"REJECTED", "WITHDRAWN"}

\* The status an email of each category stands for.
resolveStatusFromEmail ==
  [JOB_APPLICATION      |-> "APPLIED",    RECRUITER_OUTREACH |-> "SAVED",
   NETWORKING           |-> "SAVED",      CAREER_NEWSLETTER  |-> "SAVED",
   NOT_JOB_RELATED      |-> "SAVED",      ASSESSMENT_TEST    |-> "ASSESSMENT",
   INTERVIEW_INVITATION |-> "INTERVIEW",  OFFER              |-> "OFFER",
   REJECTION            |-> "REJECTED"]
EmailStatuses == {resolveStatusFromEmail[k] : k \in DOMAIN resolveStatusFromEmail}

ChangeRequest == [source : {"MANUAL"}, status : Statuses, at : Nat]
             \cup [source : {"EMAIL"}, status : EmailStatuses, at : Nat]

ASSUME StatusConstants ==
  /\ IsFiniteSet(Changes) /\ Retries \in Nat /\ Start \in Statuses
  /\ Requests \in [Changes -> SUBSET ChangeRequest]

VARIABLES
  status,   \* jobApplication.status; currentStage is a function of it
  entries,  \* committed rows of applicationStatusHistory
  change,   \* the transaction of each change
  timeline, \* status events of applicationTimeline
  rowIds,   \* rows of the history inserted, which numbers them
  commits,  \* history: commits so far
  whole     \* history: the last commit folded every row, and overlapped none

statusVars == <<status, entries, change, timeline, rowIds, commits, whole>>

NoRow == [id |-> 0, source |-> "EMAIL", status |-> "SAVED", at |-> 0]
Row == [id : Nat, source : {"MANUAL", "EMAIL"}, status : Statuses, at : Nat]

Closed(step) == [step |-> step, base |-> Start, tries |-> 0, row |-> NoRow,
                 seen |-> {}, began |-> 0]

StatusInit ==
  /\ status = Start
  /\ entries = {}
  /\ change = [c \in Changes |-> Closed("idle")]
  /\ timeline = {}
  /\ rowIds = 0 /\ commits = 0 /\ whole = TRUE

-----------------------------------------------------------------------------

\* The history in the order every reader asks for: by timestamp, then creation.
Before(a, b) == a.at < b.at \/ (a.at = b.at /\ a.id < b.id)
LastOf(H) == CHOOSE e \in H : \A d \in H : d = e \/ Before(d, e)

\* mutant: a terminal status gives way to a later one
TransitionReopens(s, e) ==
  IF e.source = "MANUAL" \/ e.status \in Terminal
       \/ statusRank[e.status] >= statusRank[s] \/ s \in Terminal
  THEN e.status ELSE s

\* The status after a row: a user's word stands, an email never reopens a
\* closed application, and otherwise only moves it forward.
Transition(s, e) ==
  IF \/ e.source = "MANUAL"
     \/ e.status \in Terminal
     \/ s \notin Terminal /\ statusRank[e.status] >= statusRank[s]
  THEN e.status ELSE s

\* The rows are applied in their order, the last to what became of those before it.
Fold(base, H) ==
  LET folded[S \in SUBSET H] ==
        IF S = {} THEN base ELSE Transition(folded[S \ {LastOf(S)}], LastOf(S))
  IN  folded[H]

\* The kind of event a status leaves on the timeline; SAVED leaves none.
mapStatusToEventType ==
  [SAVED |-> "none", APPLIED |-> "APPLICATION_CONFIRMED",
   SCREENING |-> "RECRUITER_CONTACT", ASSESSMENT |-> "ASSESSMENT",
   INTERVIEW |-> "INTERVIEW", OFFER |-> "OFFER", REJECTED |-> "REJECTION",
   WITHDRAWN |-> "WITHDRAWN"]

-----------------------------------------------------------------------------

\* The transaction opens and reads the application.
ReadApplication(c) ==
  /\ change[c].step = "idle"
  /\ \E r \in Requests[c] :
       change' = [change EXCEPT ![c] =
         [@ EXCEPT !.step = "read", !.base = status, !.began = commits,
                   !.row = [id |-> 0, source |-> r.source, status |-> r.status,
                            at |-> r.at]]]
  /\ UNCHANGED <<status, entries, timeline, rowIds, commits, whole>>

\* It inserts its row, which only it can see, and reads the history again.
InsertRow(c) ==
  /\ change[c].step = "read"
  /\ rowIds' = rowIds + 1
  /\ change' = [change EXCEPT ![c] =
       [@ EXCEPT !.step = "folded", !.row.id = rowIds + 1, !.seen = entries]]
  /\ UNCHANGED <<status, entries, timeline, commits, whole>>

\* The status the change decides on: a fold of what it saw and its own row.
Settle(c) == Fold(change[c].base, change[c].seen \cup {change[c].row})

\* It commits its row, and the application's when the fold or a user moved it.
Commit(c) ==
  /\ change[c].step = "folded"
  /\ LET next  == Settle(c)
         moved == next # change[c].base \/ change[c].row.source = "MANUAL"
         event == [kind |-> mapStatusToEventType[next], at |-> change[c].row.at]
     IN  /\ status' = IF moved THEN next ELSE status
         /\ timeline' = IF moved /\ event.kind # "none"
                        THEN timeline \cup {event} ELSE timeline
         /\ change' = [change EXCEPT ![c] = Closed(
              IF change[c].row.source = "MANUAL" /\ event.kind = "none"
              THEN "refused"   \* DomainValidationError, after the commit
              ELSE "done")]
  /\ entries' = entries \cup {change[c].row}
  /\ commits' = commits + 1
  /\ whole' = (change[c].began = commits)
  /\ UNCHANGED rowIds

\* The database aborts it with P2034: it starts over, or gives up.
Abort(c) ==
  /\ change[c].step = "folded"
  /\ \E d \in Changes \ {c} : change[d].step \in {"read", "folded"}
  /\ change' = [change EXCEPT ![c] =
       IF @.tries < Retries
       THEN [@ EXCEPT !.step = "retry", !.tries = change[c].tries + 1]
       ELSE Closed("failed")]
  /\ UNCHANGED <<status, entries, timeline, rowIds, commits, whole>>

\* The next attempt reads the application afresh, with the request it had.
Retry(c) ==
  /\ change[c].step = "retry"
  /\ change' = [change EXCEPT ![c] =
       [@ EXCEPT !.step = "read", !.base = status, !.began = commits]]
  /\ UNCHANGED <<status, entries, timeline, rowIds, commits, whole>>

StatusNext ==
  \E c \in Changes : \/ ReadApplication(c) \/ InsertRow(c) \/ Commit(c)
                     \/ Abort(c) \/ Retry(c)

StatusSpec == StatusInit /\ [][StatusNext]_statusVars

-----------------------------------------------------------------------------

\* What a history means, whatever order its rows arrived in: from the user's
\* last word on, the last closing row decides, or else the furthest status.
Outcome(H) ==
  LET words  == {e \in H : e.source = "MANUAL"}
      from   == IF words = {} THEN Start ELSE LastOf(words).status
      after  == {e \in H : words = {} \/ Before(LastOf(words), e)}
      closed == {e \in after : e.status \in Terminal}
      open   == {from} \cup {e.status : e \in after}
  IN  IF closed # {} THEN LastOf(closed).status
      ELSE IF from \in Terminal THEN from
      ELSE CHOOSE s \in open : \A r \in open : statusRank[r] <= statusRank[s]

(***************************************************************************)
(* Emails arrive out of order, and two changes may overlap and each fold a *)
(* history without the other's row.  Whatever happened before, one change  *)
(* that overlaps no other leaves the application with the status its whole *)
(* history means: no earlier loss and no order of arrival survives it.     *)
(***************************************************************************)
StatusIsOutcome == whole => status = Outcome(entries)
=============================================================================
