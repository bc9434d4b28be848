------------------------------ MODULE MCRecords ------------------------------
(***************************************************************************)
(* TLC instance of machines that share no state: the facts of a candidate, *)
(* the sessions and accounts of the users, the tokens of a Gmail           *)
(* connection, where a user's data lives, the reports on an application,   *)
(* the circuit breaker of the calls out, and the limits of the routes.  A  *)
(* behaviour runs one of them, the subject, and leaves the others at their *)
(* initial state, so that one run checks each alone.                       *)
(***************************************************************************)
EXTENDS CandidateFacts, UserAccounts, GmailTokens, UserPlacement,
        ApplicationReports, OutboundCalls, RequestLimits

CONSTANTS Subjects, go, p1, c1, c2

VARIABLE subject

accessVars == <<accountVars, tokenVars, placementVars>>
edgeVars == <<circuitVars, limitVars>>
careerVars == <<vars, reportVars>>
recordsVars == <<subject, careerVars, accessVars, edgeVars>>

RecordsInit ==
  /\ subject \in Subjects
  /\ Init /\ ReportsInit
  /\ AccountsInit /\ TokensInit /\ PlacementInit
  /\ CircuitInit /\ LimitsInit
  /\ subject # "facts" => call[c1].left = call[c2].left \* one of the budgets is enough

Career ==
  \/ subject = "facts" /\ Next /\ UNCHANGED reportVars
  \/ subject = "reports" /\ ReportsNext /\ UNCHANGED vars

Access ==
  \/ subject = "accounts" /\ AccountsNext /\ UNCHANGED <<tokenVars, placementVars>>
  \/ subject = "tokens" /\ TokensNext /\ UNCHANGED <<accountVars, placementVars>>
  \/ subject = "placement" /\ PlacementNext /\ UNCHANGED <<accountVars, tokenVars>>

Edge ==
  \/ subject = "circuit" /\ CircuitNext /\ UNCHANGED limitVars
  \/ subject = "limits" /\ LimitsNext /\ UNCHANGED circuitVars

RecordsNext ==
  /\ UNCHANGED subject
  /\ \/ Career /\ UNCHANGED <<accessVars, edgeVars>>
     \/ Access /\ UNCHANGED <<careerVars, edgeVars>>
     \/ Edge /\ UNCHANGED <<careerVars, accessVars>>

(* The fairness of FairSpec, as far as the facts are the subject. *)
Answers(c) == subject = "facts" /\ CallStep(c)

RecordsSpec ==
  /\ RecordsInit /\ [][RecordsNext]_recordsVars
  /\ \A c \in Clients : WF_vars(Answers(c))
-----------------------------------------------------------------------------
\* Two mentions of one skill whose confidences tie, as a parse reports them.
TwoMentions == <<[key |-> go, conf |-> 80], [key |-> go, conf |-> 81]>>

\* A job that runs twice beside a call of each client, or once beside three calls.
TwiceOrThree ==
  { [attempts |-> 2, calls |-> [c \in Clients |-> 1]],
    [attempts |-> 1, calls |-> [c \in Clients |-> IF c = c1 THEN 2 ELSE 1]] }

\* A user's word, and an email that arrives before it or after it.
ReportedChanges ==
  [c \in Changes |->
     IF c = "word" THEN [source : {"MANUAL"}, status : {"SAVED", "OFFER"}, at : {2}]
     ELSE [source : {"EMAIL"}, status : {"ASSESSMENT", "REJECTED"}, at : {1, 3}]]

\* Of the tables with a user's id, the one a callback writes.
OwnedTables == <<"connection">>

\* An upload and a look at the storage; reads, and a writing with a longer window.
StorageOperations == { <<"put", "sign">>, <<"head">> }
RoutePoints == [p \in Presets |-> IF p = "read" THEN 2 ELSE 1]
RouteWindows == [p \in Presets |-> IF p = "read" THEN 2 ELSE 3]
=============================================================================
