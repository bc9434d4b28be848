------------------------- MODULE ApplicationReports -------------------------
(***************************************************************************)
(* What is told about an application while its status changes: the events  *)
(* that emails and changes leave on its timeline, what the job analytics   *)
(* make of them, the counts of the funnel, and the status history, which a *)
(* client reads page by page.                                              *)
(*                                                                         *)
(* Sources: application-timeline.service.ts, job-analytics.service.ts,     *)
(* analytics.service.ts, job-application-extractor.ts, pagination.ts.      *)
(*                                                                         *)
(* An email's event is written in the transaction of its change of status. *)
(* A user may edit the events of the timeline, which takes away what they  *)
(* showed: the edits are left out here.  The client asks for one thing at  *)
(* a time, the funnel or the pages of the history.                         *)
(***************************************************************************)
EXTENDS ApplicationStatus

CONSTANTS FirstEvent,  \* the event of the email that created the application
          PageSize

ASSUME PagesAreNotEmpty == PageSize \in Nat \ {0}

VARIABLES
  emails,  \* the kinds of the events of applicationTimeline that come from emails
  reached, \* history: the statuses that the application's row has had
  funnel,  \* a reading of the funnel: the counts so far, and the commits before
  walk     \* a client that reads the status history

reportVars == <<statusVars, emails, reached, funnel, walk>>

-----------------------------------------------------------------------------

\* The kinds of event an email of each category leaves, by what its text says.
resolveEmailEventType ==
  [JOB_APPLICATION      |-> {"APPLICATION_CONFIRMED", "APPLICATION_SUBMITTED"},
   RECRUITER_OUTREACH   |-> {"RECRUITER_CONTACT"},
   ASSESSMENT_TEST      |-> {"ASSESSMENT", "ASSESSMENT_COMPLETED"},
   INTERVIEW_INVITATION |-> {"INTERVIEW", "PHONE_SCREEN", "FINAL_INTERVIEW"},
   OFFER                |-> {"OFFER"},
   REJECTION            |-> {"REJECTION"},
   NETWORKING           |-> {"none"},
   CAREER_NEWSLETTER    |-> {"none"},
   NOT_JOB_RELATED      |-> {"none"}]

\* The status the extractor gives an application that an email creates.
mapStatus == resolveStatusFromEmail

EmailEvents(category) == { {kind} \ {"none"} : kind \in resolveEmailEventType[category] }

ASSUME FirstIsOfStart ==
  \E k \in DOMAIN mapStatus : mapStatus[k] = Start /\ FirstEvent \in EmailEvents(k)

\* mutant: an assessment that is completed no longer says that there was one
mapTimelineEventOpen(k) ==
  IF k \in {"APPLICATION_SUBMITTED", "APPLICATION_CONFIRMED"} THEN "APPLIED"
  ELSE IF k = "RECRUITER_CONTACT" THEN "SCREENING"
  ELSE IF k \in {"PHONE_SCREEN", "INTERVIEW", "FINAL_INTERVIEW"} THEN "INTERVIEW"
  ELSE IF k = "OFFER" THEN "OFFER"
  ELSE IF k = "REJECTION" THEN "REJECTED" ELSE "WITHDRAWN"

mapTimelineEventToStatuses(k) ==
  IF k \in {"APPLICATION_SUBMITTED", "APPLICATION_CONFIRMED"} THEN "APPLIED"
  ELSE IF k = "RECRUITER_CONTACT" THEN "SCREENING"
  ELSE IF k \in {"ASSESSMENT", "ASSESSMENT_COMPLETED"} THEN "ASSESSMENT"
  ELSE IF k \in {"PHONE_SCREEN", "INTERVIEW", "FINAL_INTERVIEW"} THEN "INTERVIEW"
  ELSE IF k = "OFFER" THEN "OFFER"
  ELSE IF k = "REJECTION" THEN "REJECTED" ELSE "WITHDRAWN"

responseStatuses == Statuses \ {"SAVED", "APPLIED"}
interviewStatuses == {"INTERVIEW", "ASSESSMENT", "OFFER"}

allStatuses ==
  {status} \cup {mapTimelineEventToStatuses(k) : k \in emails \cup {e.kind : e \in timeline}}

gotResponse == allStatuses \cap responseStatuses # {}
gotInterview == allStatuses \cap interviewStatuses # {}
gotOffer == "OFFER" \in allStatuses

-----------------------------------------------------------------------------

\* A funnel asks for its counts one after the other; the user has one application.
NoFunnel == [step |-> "idle", interviews |-> 0, offers |-> 0, began |-> 0]

isInterviewStatus(s) == s \in interviewStatuses
isOfferStatus(s) == s = "OFFER"
Count(yes) == IF yes THEN 1 ELSE 0

CountInterviews ==
  /\ funnel.step = "idle" /\ ~walk.open
  /\ funnel' = [step |-> "interviews", interviews |-> Count(isInterviewStatus(status)),
                offers |-> 0, began |-> commits]
  /\ UNCHANGED <<statusVars, emails, reached, walk>>

CountOffers ==
  /\ funnel.step = "interviews"
  /\ funnel' = [funnel EXCEPT !.step = "shown", !.offers = Count(isOfferStatus(status)),
                              !.began = Count(@ # commits)]
  /\ UNCHANGED <<statusVars, emails, reached, walk>>

ForgetFunnel ==
  /\ funnel.step = "shown" /\ funnel' = NoFunnel
  /\ UNCHANGED <<statusVars, emails, reached, walk>>

-----------------------------------------------------------------------------

\* The page a client asks for, and the rows of the history that it shows.
NoWalk == [open |-> FALSE, page |-> 0, owed |-> {}]

skip(page) == (page - 1) * PageSize

Place(e) == Cardinality({d \in entries : Before(d, e)})

getStatusHistory(page) ==
  {e \in entries : skip(page) <= Place(e) /\ Place(e) < skip(page) + PageSize}

StartWalk ==
  /\ ~walk.open /\ entries # {} /\ funnel = NoFunnel
  /\ walk' = [open |-> TRUE, page |-> 1, owed |-> entries]
  /\ UNCHANGED <<statusVars, emails, reached, funnel>>

ReadPage ==
  /\ walk.open /\ getStatusHistory(walk.page) # {}
  /\ walk' = [walk EXCEPT !.page = @ + 1, !.owed = @ \ getStatusHistory(walk.page)]
  /\ UNCHANGED <<statusVars, emails, reached, funnel>>

EndWalk ==
  /\ walk.open /\ getStatusHistory(walk.page) = {}
  /\ walk' = [NoWalk EXCEPT !.owed = walk.owed]
  /\ UNCHANGED <<statusVars, emails, reached, funnel>>

-----------------------------------------------------------------------------

ReportsInit ==
  /\ StatusInit
  /\ emails = FirstEvent
  /\ reached = {Start}
  /\ funnel = NoFunnel /\ walk = NoWalk

CommitReported(c) ==
  /\ Commit(c)
  /\ IF change[c].row.source = "MANUAL" THEN UNCHANGED emails
     ELSE \E k \in {j \in DOMAIN resolveStatusFromEmail :
                       resolveStatusFromEmail[j] = change[c].row.status} :
            \E events \in EmailEvents(k) : emails' = emails \cup events
  /\ reached' = reached \cup {status'}
  /\ UNCHANGED <<funnel, walk>>

ChangeUncommitted(c) ==
  /\ \/ ReadApplication(c) \/ InsertRow(c) \/ Abort(c) \/ Retry(c)
  /\ UNCHANGED <<emails, reached, funnel, walk>>

ReportsNext ==
  \/ \E c \in Changes : CommitReported(c) \/ ChangeUncommitted(c)
  \/ CountInterviews \/ CountOffers \/ ForgetFunnel
  \/ StartWalk \/ ReadPage \/ EndWalk

ReportsSpec == ReportsInit /\ [][ReportsNext]_reportVars

-----------------------------------------------------------------------------

(* The job analytics forget nothing: whatever became of an application     *)
(* later, and however its changes overlapped, the response, the interview  *)
(* and the offer it once had are counted.                                  *)
NothingForgotten ==
  /\ reached \cap responseStatuses # {} => gotResponse
  /\ reached \cap interviewStatuses # {} => gotInterview
  /\ "OFFER" \in reached => gotOffer

(* A funnel shows an offer without an interview only when a change was     *)
(* committed between its counts.                                           *)
FunnelsNest ==
  funnel.step = "shown" /\ funnel.began = 0 => funnel.offers <= funnel.interviews

(* A client that reads the history to its end misses none of the rows that *)
(* were there when it began, although rows are put in before them.         *)
PagesMissNothing == ~walk.open => walk.owed = {}

ReportsHold == NothingForgotten /\ FunnelsNest /\ PagesMissNothing
=============================================================================
