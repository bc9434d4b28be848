--------------------------- MODULE EmailApplication ---------------------------
(***************************************************************************)
(* From a classified email to an application: the calls of                 *)
(* ApplicationCommandService.processEmailForJobApplication                 *)
(* (application-command.service.ts), with the two-phase claim of           *)
(* idempotency.service.ts and the lock of lib/mutex.ts.                    *)
(*                                                                         *)
(* A call comes from a Gmail sync, from a second sync that saw the message *)
(* as new at the same time, or from an attempt of a tracking job.          *)
(* application_sources.application_id is unique in the schema, and an      *)
(* application is created together with its source: an application is      *)
(* represented by the email that is its source and by the opportunity the  *)
(* email resolves to.                                                      *)
(***************************************************************************)
EXTENDS Naturals, Sequences

CONSTANTS
  Emails,
  OpportunityOf,  \* the opportunity an email resolves to
  Calls,          \* slots for calls that run at once
  None,           \* no call, no email
  MaxTries,       \* calls for one email: a bound
  MaxFaults,      \* failed calls to Redis or the database: a bound
  MaxExits,       \* process exits: a bound
  MaxLags,        \* applications the replica shows late: a bound (0: no replica configured)
  MaxStalls       \* locks that expire under a live call: a bound

ASSUME EmailAssumption ==
  /\ DOMAIN OpportunityOf = Emails
  /\ None \notin Calls \cup Emails
  /\ {MaxTries, MaxFaults, MaxExits, MaxLags, MaxStalls} \subseteq Nat

VARIABLES
  record,  \* the idempotency record of an email
  lock,    \* the call that holds lock:process_email of an email
  apps,    \* the applications in order of creation, each with its source
  sent,    \* the applications whose snapshot, outcome and action are recorded
  call,    \* the calls
  shown,   \* how many of the applications dbRouter.read() shows
  lags,    \* applications the replica was late with
  tries,   \* calls made for an email
  faults, exits, stalls

replica == <<shown, lags>>
bounds == <<faults, exits, stalls>>
vars == <<record, lock, apps, sent, call, replica, tries, bounds>>

Absent == [state |-> "absent", app |-> 0]
InProgress == [state |-> "in progress", app |-> 0]
Committed(a) == [state |-> "committed", app |-> a]

Record == [state : {"absent", "in progress", "committed"}, app : Nat]

Application == [email : Emails]

\* The steps between claim and commit or abort.
Claimed == {"existing", "match", "tx", "commit", "abort"}

Call == [at : Claimed \cup {"idle", "check", "lock", "claim", "integrate", "release"},
         email : Emails \cup {None}, app : Nat, created : BOOLEAN]

Idle == [at |-> "idle", email |-> None, app |-> 0, created |-> FALSE]

TypeOK ==
  /\ record \in [Emails -> Record]
  /\ lock \in [Emails -> Calls \cup {None}]
  /\ apps \in Seq(Application)
  /\ sent \in SUBSET (1..Len(apps))
  /\ call \in [Calls -> Call]
  /\ \A c \in Calls : call[c].at = "idle" <=> call[c].email = None
  /\ shown \in 0..Len(apps) /\ lags \in 0..MaxLags
  /\ tries \in [Emails -> 0..MaxTries]
  /\ faults \in 0..MaxFaults /\ exits \in 0..MaxExits /\ stalls \in 0..MaxStalls

Init ==
  /\ record = [e \in Emails |-> Absent]
  /\ lock = [e \in Emails |-> None]
  /\ apps = <<>> /\ sent = {}
  /\ call = [c \in Calls |-> Idle]
  /\ shown = 0 /\ lags = 0
  /\ tries = [e \in Emails |-> 0]
  /\ faults = 0 /\ exits = 0 /\ stalls = 0

Goes(c, step) == call' = [call EXCEPT ![c].at = step]

Ends(c) == call' = [call EXCEPT ![c] = Idle]

Faulty == faults < MaxFaults /\ faults' = faults + 1 /\ UNCHANGED <<exits, stalls>>

-----------------------------------------------------------------------------
(* The way to the claim.                                                   *)

Begin(c, e) ==
  /\ call[c].at = "idle"
  /\ tries[e] < MaxTries
  /\ tries' = [tries EXCEPT ![e] = @ + 1]
  /\ call' = [call EXCEPT ![c] = [Idle EXCEPT !.at = "check", !.email = e]]
  /\ UNCHANGED <<record, lock, apps, sent, replica, bounds>>

\* The preflight: only a committed record ends the call.
Check(c) ==
  /\ call[c].at = "check"
  /\ \/ /\ IF record[call[c].email].state = "committed" THEN Ends(c) ELSE Goes(c, "lock")
        /\ UNCHANGED bounds
     \/ Faulty /\ Ends(c)
  /\ UNCHANGED <<record, lock, apps, sent, replica, tries>>

\* acquireLock: a call that does not get the lock, or cannot reach Redis, returns.
AcquireLock(c) ==
  LET e == call[c].email
  IN  /\ call[c].at = "lock"
      /\ \/ /\ lock[e] = None
            /\ lock' = [lock EXCEPT ![e] = c]
            /\ Goes(c, "claim")
            /\ UNCHANGED bounds
         \/ lock[e] # None /\ Ends(c) /\ UNCHANGED <<lock, bounds>>
         \/ Faulty /\ Ends(c) /\ UNCHANGED lock
      /\ UNCHANGED <<record, apps, sent, replica, tries>>

\* Mutant: check, then create.
ClaimUnguarded(c) ==
  /\ call[c].at = "claim"
  /\ record' = [record EXCEPT ![call[c].email] = InProgress]
  /\ Goes(c, "existing")
  /\ UNCHANGED <<lock, apps, sent, replica, tries, bounds>>

\* Mutant: the result is recorded with the claim, as recordOrGet does.
ClaimWithResult(c) ==
  /\ call[c].at = "claim"
  /\ record[call[c].email].state = "absent"
  /\ record' = [record EXCEPT ![call[c].email] = Committed(Len(apps) + 1)]
  /\ Goes(c, "existing")
  /\ UNCHANGED <<lock, apps, sent, replica, tries, bounds>>

\* The insert of the record.  A call that is refused, or whose insert throws, is not yet in
\* the try block: it returns with the lock.
Claim(c) ==
  LET e == call[c].email
  IN  /\ call[c].at = "claim"
      /\ \/ /\ record[e].state = "absent"
            /\ record' = [record EXCEPT ![e] = InProgress]
            /\ Goes(c, "existing")
            /\ UNCHANGED bounds
         \/ record[e].state # "absent" /\ Ends(c) /\ UNCHANGED <<record, bounds>>
         \/ Faulty /\ Ends(c) /\ UNCHANGED record
      /\ UNCHANGED <<lock, apps, sent, replica, tries>>

-----------------------------------------------------------------------------
(* The effect.                                                             *)

Visible == 1..shown

SourcesOf(e, seen) == {a \in seen : apps[a].email = e}

\* Mutant: without the dedup guard.
NoDedup(c) ==
  /\ call[c].at = "existing"
  /\ Goes(c, "match")
  /\ UNCHANGED <<record, lock, apps, sent, replica, tries, bounds>>

\* The legacy dedup guard, on the replica.
FindExisting(c) ==
  LET found == SourcesOf(call[c].email, Visible)
  IN  /\ call[c].at = "existing"
      /\ \/ found = {} /\ Goes(c, "match")
         \/ \E a \in found : call' = [call EXCEPT ![c] = [@ EXCEPT !.at = "commit", !.app = a]]
      /\ UNCHANGED <<record, lock, apps, sent, replica, tries, bounds>>

\* findMatch, on the replica and before the transaction: an application of the same
\* opportunity, unless it is closed (the model does not follow an application's status).
FindMatch(c) ==
  /\ call[c].at = "match"
  /\ \E a \in {0} \cup {a \in Visible :
                          OpportunityOf[apps[a].email] = OpportunityOf[call[c].email]} :
       call' = [call EXCEPT ![c] = [@ EXCEPT !.at = "tx", !.app = a]]
  /\ UNCHANGED <<record, lock, apps, sent, replica, tries, bounds>>

\* The transaction for an application that was matched: its source cannot be inserted.
Merge(c) ==
  /\ call[c].at = "tx"
  /\ call[c].app # 0
  /\ Goes(c, "abort")
  /\ UNCHANGED <<record, lock, apps, sent, replica, tries, bounds>>

\* The transaction for a new application and its source; its answer may get lost.
Create(c) ==
  /\ call[c].at = "tx"
  /\ call[c].app = 0
  /\ apps' = Append(apps, [email |-> call[c].email])
  /\ \/ shown' = Len(apps') /\ UNCHANGED lags
     \/ lags < MaxLags /\ lags' = lags + 1 /\ UNCHANGED shown
  /\ \/ /\ call' = [call EXCEPT ![c] =
                      [@ EXCEPT !.at = "commit", !.app = Len(apps) + 1, !.created = TRUE]]
        /\ UNCHANGED bounds
     \/ Faulty /\ Goes(c, "abort")
  /\ UNCHANGED <<record, lock, sent, tries>>

\* Mutant: only the replay path commits.
CommitSkipped(c) ==
  /\ call[c].at = "commit"
  /\ Goes(c, IF call[c].created THEN "integrate" ELSE "release")
  /\ UNCHANGED <<record, lock, apps, sent, replica, tries, bounds>>

\* commit of the record.
Commit(c) ==
  /\ call[c].at = "commit"
  /\ record' = [record EXCEPT ![call[c].email] = Committed(call[c].app)]
  /\ Goes(c, IF call[c].created THEN "integrate" ELSE "release")
  /\ UNCHANGED <<lock, apps, sent, replica, tries, bounds>>

\* Snapshot, outcome and action of a new application; an update that throws skips the rest.
Integrate(c) ==
  /\ call[c].at = "integrate"
  /\ \/ sent' = sent \cup {call[c].app} /\ UNCHANGED bounds
     \/ Faulty /\ UNCHANGED sent
  /\ Goes(c, "release")
  /\ UNCHANGED <<record, lock, apps, replica, tries>>

\* A call to the database between claim and commit throws, without effect.
Throws(c) ==
  /\ Faulty
  /\ call[c].at \in Claimed \ {"abort"}
  /\ Goes(c, "abort")
  /\ UNCHANGED <<record, lock, apps, sent, replica, tries>>

-----------------------------------------------------------------------------
(* The finally block.                                                      *)

\* Mutant: only the lock is given back.
AbortSkipped(c) ==
  /\ call[c].at = "abort"
  /\ Goes(c, "release")
  /\ UNCHANGED <<record, lock, apps, sent, replica, tries, bounds>>

\* abort deletes the record, and swallows its own error.
Abort(c) ==
  /\ call[c].at = "abort"
  /\ \/ record' = [record EXCEPT ![call[c].email] = Absent] /\ UNCHANGED bounds
     \/ Faulty /\ UNCHANGED record
  /\ Goes(c, "release")
  /\ UNCHANGED <<lock, apps, sent, replica, tries>>

\* releaseLock deletes the lock if it still has the token, and swallows its own error.
ReleaseLock(c) ==
  LET e == call[c].email
  IN  /\ call[c].at = "release"
      /\ \/ lock' = [lock EXCEPT ![e] = IF @ = c THEN None ELSE @] /\ UNCHANGED bounds
         \/ Faulty /\ UNCHANGED lock
      /\ Ends(c)
      /\ UNCHANGED <<record, apps, sent, replica, tries>>

CallStep(c) ==
  \/ Check(c) \/ AcquireLock(c) \/ Claim(c) \/ FindExisting(c) \/ FindMatch(c) \/ Merge(c)
  \/ Create(c) \/ Commit(c) \/ Integrate(c) \/ Abort(c) \/ ReleaseLock(c)

-----------------------------------------------------------------------------
(* The environment.                                                        *)

\* The process exits: record and lock stay.
Exit(c) ==
  /\ call[c].at # "idle"
  /\ exits < MaxExits /\ exits' = exits + 1
  /\ Ends(c)
  /\ UNCHANGED <<record, lock, apps, sent, replica, tries, faults, stalls>>

\* The lock's 60 seconds run out, in the middle of a slow call or after its end.  A slot's
\* next call is another call: it does not hold the lock its predecessor left.
Holding(c, e) == call[c].email = e /\ call[c].at \notin {"check", "lock"}

LockExpires(e) ==
  /\ lock[e] # None
  /\ lock' = [lock EXCEPT ![e] = None]
  /\ IF \E c \in Calls : lock[e] = c /\ Holding(c, e)
     THEN stalls < MaxStalls /\ stalls' = stalls + 1
     ELSE UNCHANGED stalls
  /\ UNCHANGED <<record, apps, sent, call, replica, tries, faults, exits>>

Replicate ==
  /\ shown < Len(apps)
  /\ shown' = Len(apps)
  /\ UNCHANGED <<record, lock, apps, sent, call, lags, tries, bounds>>

Next ==
  \/ \E c \in Calls : CallStep(c) \/ Throws(c) \/ Exit(c) \/ \E e \in Emails : Begin(c, e)
  \/ \E e \in Emails : LockExpires(e)
  \/ Replicate

Spec == Init /\ [][Next]_vars

\* Calls go on, a failed email is presented again while tries are left, replication runs.
Untracked(e) == record[e].state # "committed"

Fairness ==
  /\ \A c \in Calls : WF_vars(CallStep(c))
  /\ \A e \in Emails : WF_vars(Untracked(e) /\ \E c \in Calls : Begin(c, e))
  /\ \A e \in Emails : WF_vars(LockExpires(e))
  /\ WF_vars(Replicate)

FairSpec == Spec /\ Fairness

-----------------------------------------------------------------------------
(* Properties.                                                             *)

\* An email is the source of one application at most, although its calls race, the lock runs
\* out in the middle of one, the answer of a transaction is lost and the process exits
\* (claim, abort and the dedup guard).  A replica that lags costs nothing as long as no call
\* fails: the guard reads it, and only a second effect after a failure needs the guard.
EffectOnce ==
  lags = 0 \/ faults + exits = 0 =>
    \A a, b \in 1..Len(apps) : apps[a].email = apps[b].email => a = b

\* A committed record names an application that exists and has this email as its source, and
\* outcomes are recorded only for applications whose record is committed: what a replay is
\* told to be done has been done (commit, processEmailForJobApplication).
CommittedIsDone ==
  /\ \A e \in Emails : record[e].state = "committed" =>
       record[e].app \in 1..Len(apps) /\ apps[record[e].app].email = e
  /\ \A a \in sent : record[apps[a].email].state = "committed"

\* One call at a time works on an email, whether or not its lock has run out (claim, abort).
OneOwner ==
  \A c, d \in Calls :
    call[c].at \in Claimed /\ call[d].at \in Claimed /\ call[c].email = call[d].email => c = d

\* Without exits and failed calls a record in progress has its call, and nobody is refused for
\* ever: every way out of the try block gives the claim back (the finally block).
NoOrphanedClaims ==
  faults = 0 /\ exits = 0 =>
    \A e \in Emails : record[e].state = "in progress" =>
      \E c \in Calls : call[c].at \in Claimed /\ call[c].email = e

\* Once an email about an opportunity is presented, an email about it is tracked in the end,
\* whatever calls race for it and although locks run out, unless a call failed or a process
\* exited (the order of lock, claim, effect, commit and release).
OpportunitiesLand ==
  \A e \in Emails :
    tries[e] > 0 ~>
      \/ \E f \in Emails : OpportunityOf[f] = OpportunityOf[e] /\ record[f].state = "committed"
      \/ faults + exits > 0

-----------------------------------------------------------------------------
(* What the code's comments and tests say, and the program does not do.    *)

\* application-merge.service.ts: an email about an opportunity the user has an application
\* for is merged into it; it is not lost.
FollowUpsLand ==
  \A e \in Emails : tries[e] > 0 ~> record[e].state = "committed"
=============================================================================
