--------------------------- MODULE Opportunities ---------------------------
(***************************************************************************)
(* How the emails of many users arrive at one company, one opportunity and *)
(* one recruiter: every email job finds the row or creates it, several     *)
(* jobs at once, with unique constraints as the last word.                 *)
(*                                                                         *)
(* Sources: company.service.ts, opportunity.service.ts,                    *)
(* recruiter.service.ts, and the calls of application-command.service.ts.  *)
(*                                                                         *)
(* A job resolves its company (outside a transaction), then the            *)
(* opportunity, which resolves the company again and then runs in a        *)
(* transaction, then the recruiter, in the transaction that writes the     *)
(* application.  A job that loses a race on a unique key fails and is      *)
(* queued again, Attempts times in all.  Spellings are abstract: an email  *)
(* has a set of names (its normalised aliases), a domain and a role.       *)
(***************************************************************************)
EXTENDS Naturals, FiniteSets

CONSTANTS Jobs,      \* email jobs
          Mail,      \* what a job's email says: [names, domain, role, from]
          Similar,   \* role titles taken for one another: Similar[role]
          Attempts   \* attempts of a job (queue.service.ts)

Names == UNION {Mail[j].names : j \in Jobs}
Domains == {Mail[j].domain : j \in Jobs}
Roles == {Mail[j].role : j \in Jobs}
Senders == {Mail[j].from : j \in Jobs}

\* A company is the domain it was created with: domains are unique.
Companies == Domains
NoCompany == "none"
Opportunity == [company : Companies, role : Roles]
NoOpportunity == [company |-> NoCompany, role |-> "none"]

ASSUME OpportunityConstants ==
  /\ Attempts \in Nat \ {0}
  /\ Similar \in [Roles -> SUBSET Roles]
  /\ \A r \in Roles : r \in Similar[r]
  /\ NoCompany \notin Domains

VARIABLES
  companies,     \* rows of companies
  alias,         \* the company each name stands for
  opportunities, \* rows of opportunities
  observed,      \* the current observations of each, as the jobs that made them
  rowLock,       \* the job whose transaction holds the row of an opportunity
  recruiters,    \* rows of recruiters: [company, email]
  mutex,         \* the job that holds the Redis lock of a role of a company
  job

oppVars == <<companies, alias, opportunities, observed, rowLock, recruiters,
             mutex, job>>

Steps == {"queued", "lookup", "save", "alias", "lock", "find", "touch",
          "observe", "create", "recruit", "upsert", "done", "failed"}
Fresh(tries, lost) ==
  [step |-> "queued", second |-> FALSE, company |-> NoCompany, todo |-> {},
   opp |-> NoOpportunity, seen |-> {}, known |-> FALSE, tries |-> tries,
   lost |-> lost]
Nobody == "nobody"
ASSUME JobsAreNamed == Nobody \notin Jobs

OppInit ==
  /\ companies = {} /\ recruiters = {} /\ opportunities = {}
  /\ alias = [n \in Names |-> NoCompany]
  /\ observed = [o \in Opportunity |-> {}]
  /\ rowLock = [o \in Opportunity |-> Nobody]
  /\ mutex = [o \in Opportunity |-> Nobody]
  /\ job = [j \in Jobs |-> Fresh(0, {})]

Wanted(j) == [company |-> job[j].company, role |-> Mail[j].role]

-----------------------------------------------------------------------------
(* resolveCompany                                                          *)

\* mutant: the domain is not looked up
FoundByName(j) ==
  LET named == {alias[n] : n \in Mail[j].names} \ {NoCompany}
  IN  IF named # {} THEN named ELSE {NoCompany}
\* The companies a lookup may answer: one that a name stands for (findFirst,
\* without an order), or else the one of the domain.
Found(j) ==
  LET named == {alias[n] : n \in Mail[j].names} \ {NoCompany}
  IN  IF named # {} THEN named
      ELSE IF Mail[j].domain \in companies THEN {Mail[j].domain}
      ELSE {NoCompany}

\* A job starts; and opportunityService.resolve starts with the same lookup.
Lookup(j) ==
  /\ job[j].step \in {"queued", "lookup"}
  /\ \E c \in Found(j) :
       job' = [job EXCEPT ![j] = [@ EXCEPT !.step = "save", !.company = c]]
  /\ UNCHANGED <<companies, alias, opportunities, observed, rowLock, recruiters,
                 mutex>>

\* The job fails on a unique key; the queue runs it again unless it was its
\* last attempt.
Lose(j, key) ==
  LET again == Fresh(job[j].tries + 1, job[j].lost \cup {key})
  IN  [job EXCEPT ![j] = IF job[j].tries + 1 < Attempts THEN again
                         ELSE [again EXCEPT !.step = "failed"]]

\* The row found is updated, or a new one created: the domain is unique.
SaveCompany(j) ==
  /\ job[j].step = "save"
  /\ \/ /\ job[j].company # NoCompany
        /\ job' = [job EXCEPT ![j] = [@ EXCEPT !.step = "alias",
                                               !.todo = Mail[j].names]]
        /\ UNCHANGED companies
     \/ /\ job[j].company = NoCompany /\ Mail[j].domain \notin companies
        /\ companies' = companies \cup {Mail[j].domain}
        /\ job' = [job EXCEPT ![j] =
             [@ EXCEPT !.step = "alias", !.todo = Mail[j].names,
                       !.company = Mail[j].domain]]
     \/ /\ job[j].company = NoCompany /\ Mail[j].domain \in companies
        /\ job' = Lose(j, [domain |-> Mail[j].domain])
        /\ UNCHANGED companies
  /\ UNCHANGED <<alias, opportunities, observed, rowLock, recruiters, mutex>>

\* Each name is made to stand for the company, whatever it stood for.
UpsertAlias(j) ==
  /\ job[j].step = "alias" /\ job[j].todo # {}
  /\ \E n \in job[j].todo :
       /\ alias' = [alias EXCEPT ![n] = job[j].company]
       /\ job' = [job EXCEPT ![j].todo = @ \ {n}]
  /\ UNCHANGED <<companies, opportunities, observed, rowLock, recruiters, mutex>>

\* The company is resolved: for the application, or for the opportunity.
Resolved(j) ==
  /\ job[j].step = "alias" /\ job[j].todo = {}
  /\ job' = [job EXCEPT ![j] =
       IF @.second THEN [@ EXCEPT !.step = "lock"]
       ELSE [@ EXCEPT !.step = "lookup", !.second = TRUE]]
  /\ UNCHANGED <<companies, alias, opportunities, observed, rowLock, recruiters,
                 mutex>>

-----------------------------------------------------------------------------
(* opportunityService.resolve                                              *)

\* The lock is taken if it is free; the job goes on if it is not.
Lock(j) ==
  /\ job[j].step = "lock"
  /\ mutex' = IF mutex[Wanted(j)] = Nobody THEN [mutex EXCEPT ![Wanted(j)] = j]
              ELSE mutex
  /\ job' = [job EXCEPT ![j].step = "find"]
  /\ UNCHANGED <<companies, alias, opportunities, observed, rowLock, recruiters>>

Unlocked(j) == [o \in Opportunity |-> IF mutex[o] = j THEN Nobody ELSE mutex[o]]

\* An opportunity of the same title, or else of a similar one, or none.  The
\* match by an exact URL before them finds nothing: none of the callers of
\* resolve gives a URL, so that neither the input nor a row has one.
Find(j) ==
  /\ job[j].step = "find"
  /\ LET same  == opportunities \cap {Wanted(j)}
         close == {o \in opportunities : /\ o.company = job[j].company
                                         /\ o.role \in Similar[Mail[j].role]}
     IN  IF same \cup close = {}
         THEN job' = [job EXCEPT ![j].step = "create"]
         ELSE \E o \in IF same # {} THEN same ELSE close :
                job' = [job EXCEPT ![j] = [@ EXCEPT !.step = "touch", !.opp = o]]
  /\ UNCHANGED <<companies, alias, opportunities, observed, rowLock, recruiters,
                 mutex>>

TakesRow(j) == [rowLock EXCEPT ![job[j].opp] = j]
\* touchOpportunity: the update takes the lock of the row until the commit.
Touch(j) ==
  /\ job[j].step = "touch"
  /\ rowLock[job[j].opp] = Nobody
  /\ rowLock' = TakesRow(j)
  /\ job' = [job EXCEPT ![j] = [@ EXCEPT !.step = "observe",
                                         !.seen = observed[job[j].opp]]]
  /\ UNCHANGED <<companies, alias, opportunities, observed, recruiters, mutex>>

\* recordObservation and the commit: a new current observation supersedes the
\* current ones it sees.
Observe(j) ==
  /\ job[j].step = "observe"
  /\ observed' = [observed EXCEPT ![job[j].opp] = (@ \ job[j].seen) \cup {j}]
  /\ rowLock' = [rowLock EXCEPT ![job[j].opp] = IF @ = j THEN Nobody ELSE @]
  /\ mutex' = Unlocked(j)
  /\ job' = [job EXCEPT ![j].step = "recruit"]
  /\ UNCHANGED <<companies, alias, opportunities, recruiters>>

\* A new opportunity; the one who comes second violates the unique key, which
\* aborts its transaction, the query of its fallback included.
Create(j) ==
  /\ job[j].step = "create"
  /\ mutex' = Unlocked(j)
  /\ IF Wanted(j) \in opportunities
     THEN /\ job' = Lose(j, Wanted(j))
          /\ UNCHANGED opportunities
     ELSE /\ opportunities' = opportunities \cup {Wanted(j)}
          /\ job' = [job EXCEPT ![j] = [@ EXCEPT !.step = "recruit",
                                                 !.opp = Wanted(j)]]
  /\ UNCHANGED <<companies, alias, observed, rowLock, recruiters>>

-----------------------------------------------------------------------------
(* syncRecruiterFromEmail, in the transaction of the application           *)

Recruiter(j) == [company |-> job[j].company, email |-> Mail[j].from]

\* The company is resolved once more.  The upsert reads before it inserts.
FindRecruiter(j) ==
  /\ job[j].step = "recruit"
  /\ \E c \in Found(j) :
       job' = [job EXCEPT ![j] = [@ EXCEPT !.step = "upsert", !.company = c,
                                           !.known = [company |-> c, email |-> Mail[j].from] \in recruiters]]
  /\ UNCHANGED <<companies, alias, opportunities, observed, rowLock, recruiters,
                 mutex>>

\* The commit: the names stand for the company, and the recruiter is there.
UpsertRecruiter(j) ==
  /\ job[j].step = "upsert"
  /\ IF ~job[j].known /\ Recruiter(j) \in recruiters
     THEN job' = Lose(j, Recruiter(j)) /\ UNCHANGED <<recruiters, alias>>
     ELSE /\ recruiters' = recruiters \cup {Recruiter(j)}
          /\ alias' = [n \in Names |-> IF n \in Mail[j].names THEN job[j].company
                                       ELSE alias[n]]
          /\ job' = [job EXCEPT ![j].step = "done"]
  /\ UNCHANGED <<companies, opportunities, observed, rowLock, mutex>>

OppNext ==
  \E j \in Jobs :
    \/ Lookup(j) \/ SaveCompany(j) \/ UpsertAlias(j) \/ Resolved(j)
    \/ Lock(j) \/ Find(j) \/ Touch(j) \/ Observe(j) \/ Create(j)
    \/ FindRecruiter(j) \/ UpsertRecruiter(j)

OppSpec == OppInit /\ [][OppNext]_oppVars

-----------------------------------------------------------------------------

Keys == [domain : Domains] \cup Opportunity
          \cup [company : Companies, email : Senders]

(***************************************************************************)
(* Emails that mention one opportunity at the same time each record an     *)
(* observation and supersede the current ones; the row lock of the update  *)
(* before it lets one through at a time, so that at most one observation   *)
(* of an opportunity is current, although jobs that found the Redis lock   *)
(* taken go on without it.                                                 *)
(***************************************************************************)
OneCurrentObservation ==
  \A o \in Opportunity : Cardinality(observed[o]) <= 1

(***************************************************************************)
(* A failed attempt is never wasted on a race the job has lost before: the *)
(* retry finds the row that beat it, so every attempt fails on a unique    *)
(* key of its own, and the attempts of a job bound how many rows can come  *)
(* to be created under its hands, not how many jobs compete for one.       *)
(***************************************************************************)
EachRaceIsLostOnce == \A j \in Jobs : job[j].tries = Cardinality(job[j].lost)

(* What racing emails leave behind: one current observation for each        *)
(* opportunity, and a lost race behind each attempt that failed.            *)
RacesAreContained == OneCurrentObservation /\ EachRaceIsLostOnce
=============================================================================
