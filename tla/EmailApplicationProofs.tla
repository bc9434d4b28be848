------------------------ MODULE EmailApplicationProofs ------------------------
(***************************************************************************)
(* Theorems about EmailApplication for all values of its constants: any    *)
(* number of emails, concurrent calls, retries, failed calls, exits, late  *)
(* replicas and locks that run out.                                        *)
(***************************************************************************)
EXTENDS EmailApplication, TLAPS

\* A call that commits or integrates has an application whose source is its email.
KnownApp ==
  \A c \in Calls : call[c].at \in {"commit", "integrate"} =>
    call[c].app \in 1..Len(apps) /\ apps[call[c].app].email = call[c].email

TypeInv == TypeOK /\ KnownApp

-----------------------------------------------------------------------------
(* How a step changes a call.                                              *)

Steps == Claimed \cup {"check", "lock", "claim", "integrate", "release"}

\* Call c goes on to step s with application a.
Moves(c, s, a) ==
  /\ call' \in [Calls -> Call]
  /\ call'[c].at = s /\ call'[c].app = a /\ call'[c].email = call[c].email
  /\ \A d \in Calls \ {c} : call'[d] = call[d]

\* Call c is over.
Leaves(c) ==
  /\ call' \in [Calls -> Call]
  /\ call'[c].at = "idle" /\ call'[c].email = None
  /\ \A d \in Calls \ {c} : call'[d] = call[d]

\* A step that only goes on changes that one call.
LEMMA GoesMoves ==
  ASSUME call \in [Calls -> Call], NEW c \in Calls, NEW s \in Steps, Goes(c, s)
  PROVE  Moves(c, s, call[c].app)
<1>1. [call[c] EXCEPT !.at = s] \in Call
  BY DEF Call, Steps, Claimed
<1>2. call' = [call EXCEPT ![c] = [call[c] EXCEPT !.at = s]]
  BY DEF Goes
<1>3. [call[c] EXCEPT !.at = s].at = s /\ [call[c] EXCEPT !.at = s].app = call[c].app
      /\ [call[c] EXCEPT !.at = s].email = call[c].email
  BY DEF Call
<1> QED
  BY <1>1, <1>2, <1>3 DEF Moves

\* A call that ends leaves and touches no other.
LEMMA EndsLeaves ==
  ASSUME call \in [Calls -> Call], NEW c \in Calls, Ends(c)
  PROVE  Leaves(c)
<1>1. Idle \in Call /\ Idle.at = "idle" /\ Idle.email = None
  BY DEF Call, Idle
<1> QED
  BY <1>1 DEF Leaves, Ends

\* A call that goes on with an application it has found or created.
LEMMA TakesMoves ==
  ASSUME call \in [Calls -> Call], NEW c \in Calls, NEW s \in Steps, NEW a \in Nat,
         \/ call' = [call EXCEPT ![c] = [@ EXCEPT !.at = s, !.app = a]]
         \/ call' = [call EXCEPT ![c] = [@ EXCEPT !.at = s, !.app = a, !.created = TRUE]]
  PROVE  Moves(c, s, a)
<1> DEFINE n == [call[c] EXCEPT !.at = s, !.app = a]
<1> DEFINE m == [call[c] EXCEPT !.at = s, !.app = a, !.created = TRUE]
<1>1. /\ n \in Call /\ n.at = s /\ n.app = a /\ n.email = call[c].email
      /\ m \in Call /\ m.at = s /\ m.app = a /\ m.email = call[c].email
  BY DEF Call, Steps, Claimed
<1>2. call' = [call EXCEPT ![c] = n] \/ call' = [call EXCEPT ![c] = m]
  OBVIOUS
<1> HIDE DEF n, m
<1> QED
  BY <1>1, <1>2 DEF Moves

\* A call that begins is at its first check, with its email.
LEMMA BeginMoves ==
  ASSUME call \in [Calls -> Call], NEW c \in Calls, NEW e \in Emails,
         call' = [call EXCEPT ![c] = [Idle EXCEPT !.at = "check", !.email = e]]
  PROVE  /\ call' \in [Calls -> Call]
         /\ call'[c].at = "check" /\ call'[c].email = e
         /\ \A d \in Calls \ {c} : call'[d] = call[d]
<1>1. LET n == [Idle EXCEPT !.at = "check", !.email = e]
      IN  n \in Call /\ n.at = "check" /\ n.email = e
  BY DEF Call, Idle
<1> QED
  BY <1>1

CallsOK ==
  /\ call \in [Calls -> Call]
  /\ \A c \in Calls : call[c].at = "idle" <=> call[c].email = None

\* The calls stay well formed when one of them goes on,
LEMMA MovesKeepsCalls ==
  ASSUME CallsOK, NEW c \in Calls, call[c].at # "idle", NEW s \in Steps, NEW a, Moves(c, s, a)
  PROVE  CallsOK'
  BY DEF CallsOK, Moves, Steps, Claimed

\* and when one of them leaves.
LEMMA LeavesKeepsCalls ==
  ASSUME CallsOK, NEW c \in Calls, Leaves(c)
  PROVE  CallsOK'
  BY DEF CallsOK, Leaves

\* A transaction adds one application and changes none.
LEMMA CreateAppends ==
  ASSUME TypeOK, NEW c \in Calls, call[c].at # "idle",
         apps' = Append(apps, [email |-> call[c].email])
  PROVE  /\ apps' \in Seq(Application)
         /\ Len(apps') = Len(apps) + 1 /\ Len(apps) \in Nat
         /\ \A i \in 1..Len(apps) : apps'[i] = apps[i]
         /\ apps'[Len(apps) + 1].email = call[c].email
<1> DEFINE new == [email |-> call[c].email]
<1>1. call[c].email \in Emails
  BY DEF TypeOK, Call
<1>2. new \in Application /\ new.email = call[c].email
  BY <1>1 DEF Application
<1>3. apps \in Seq(Application) /\ apps' = Append(apps, new)
  BY DEF TypeOK
<1> HIDE DEF new
<1> QED
  BY <1>2, <1>3

BoundsOK == faults \in 0..MaxFaults /\ exits \in 0..MaxExits /\ stalls \in 0..MaxStalls

\* A fault is counted.
LEMMA FaultyKeepsBounds ==
  ASSUME EmailAssumption, BoundsOK, Faulty
  PROVE  BoundsOK' /\ faults' > 0
  BY DEF EmailAssumption, BoundsOK, Faulty

\* A call that commits or integrates knows its application after a step of another,
LEMMA MovesKeepsKnown ==
  ASSUME KnownApp, UNCHANGED apps, NEW c \in Calls, NEW s, NEW a, Moves(c, s, a),
         s \in {"commit", "integrate"} => a \in 1..Len(apps) /\ apps[a].email = call[c].email
  PROVE  KnownApp'
  BY DEF KnownApp, Moves

\* and after another has left.
LEMMA LeavesKeepsKnown ==
  ASSUME KnownApp, UNCHANGED apps, NEW c \in Calls, Leaves(c)
  PROVE  KnownApp'
  BY DEF KnownApp, Leaves

\* A record that is written is a record.
LEMMA RecordTypes ==
  ASSUME TypeOK, NEW e, NEW r \in Record, record' = [record EXCEPT ![e] = r]
  PROVE  record' \in [Emails -> Record]
  BY DEF TypeOK

\* The three records there are, and what they say.
LEMMA RecordValues == /\ Absent \in Record /\ InProgress \in Record
                      /\ \A a \in Nat : Committed(a) \in Record
                      /\ Absent.state = "absent" /\ InProgress.state = "in progress"
                      /\ \A a : Committed(a).state = "committed" /\ Committed(a).app = a
  BY DEF Absent, InProgress, Committed, Record

\* Every step keeps types, and a call that commits or integrates knows its application.
LEMMA TypeStep ==
  ASSUME EmailAssumption, TypeInv, [Next]_vars
  PROVE  TypeInv'
<1> USE DEF TypeInv
<1>0. CallsOK /\ BoundsOK /\ KnownApp /\ TypeOK
  BY DEF TypeOK, CallsOK, BoundsOK
<1>call. ASSUME NEW c \in Calls, call[c].at \in Steps
         PROVE  call[c].email \in Emails /\ call[c].app \in Nat /\ call[c].at # "idle"
  BY <1>0, <1>call DEF CallsOK, Call, Steps, Claimed
\* A step that leaves the tables alone.
<1>frame. ASSUME UNCHANGED <<record, lock, apps, sent, replica, tries>>, CallsOK', BoundsOK'
          PROVE  TypeOK'
  BY <1>0, <1>frame DEF TypeOK, replica, CallsOK, BoundsOK
<1>same. UNCHANGED bounds => BoundsOK'
  BY <1>0 DEF bounds, BoundsOK
<1>moves. ASSUME NEW c \in Calls, NEW s \in Steps \ {"commit", "integrate"},
                 call[c].at \in Steps, Goes(c, s), UNCHANGED apps
          PROVE  CallsOK' /\ KnownApp'
  <2>1. Moves(c, s, call[c].app)
    BY <1>0, <1>moves, GoesMoves DEF CallsOK
  <2> QED
    BY <2>1, <1>0, <1>moves, <1>call, MovesKeepsCalls, MovesKeepsKnown
<1>leaves. ASSUME NEW c \in Calls, Ends(c), UNCHANGED apps
           PROVE  CallsOK' /\ KnownApp'
  BY <1>0, <1>leaves, EndsLeaves, LeavesKeepsCalls, LeavesKeepsKnown DEF CallsOK
<1>1. ASSUME NEW c \in Calls, NEW e \in Emails, Begin(c, e) PROVE TypeInv'
  <2>1. CallsOK' /\ KnownApp'
    <3>1. call' = [call EXCEPT ![c] = [Idle EXCEPT !.at = "check", !.email = e]] /\ apps' = apps
      BY <1>1 DEF Begin
    <3>2. /\ call' \in [Calls -> Call] /\ call'[c].at = "check" /\ call'[c].email = e
          /\ \A d \in Calls \ {c} : call'[d] = call[d]
      BY <3>1, <1>0, BeginMoves DEF CallsOK
    <3> QED
      BY <3>1, <3>2, <1>0 DEF CallsOK, KnownApp, EmailAssumption
  <2>2. tries' \in [Emails -> 0..MaxTries]
    BY <1>0, <1>1 DEF Begin, TypeOK, EmailAssumption
  <2> QED
    BY <2>1, <2>2, <1>0, <1>1 DEF Begin, TypeOK, replica, bounds, CallsOK
<1>2. ASSUME NEW c \in Calls, Check(c) PROVE TypeInv'
  <2>1. call[c].at \in Steps /\ UNCHANGED <<record, lock, apps, sent, replica, tries>>
    BY <1>2 DEF Check, Steps
  <2>2. BoundsOK'
    BY <1>0, <1>2, <1>same, FaultyKeepsBounds DEF Check
  <2>3. Ends(c) \/ Goes(c, "lock")
    BY <1>2 DEF Check
  <2>4. CallsOK' /\ KnownApp'
    BY <2>1, <2>3, <1>moves, <1>leaves DEF Steps
  <2> QED
    BY <2>1, <2>2, <2>4, <1>frame
<1>3. ASSUME NEW c \in Calls, AcquireLock(c) PROVE TypeInv'
  <2>1. call[c].at \in Steps /\ UNCHANGED <<record, apps, sent, replica, tries>>
    BY <1>3 DEF AcquireLock, Steps
  <2>2. BoundsOK'
    BY <1>0, <1>3, <1>same, FaultyKeepsBounds DEF AcquireLock, bounds, BoundsOK
  <2>3. Ends(c) \/ Goes(c, "claim")
    BY <1>3 DEF AcquireLock
  <2>4. CallsOK' /\ KnownApp'
    BY <2>1, <2>3, <1>moves, <1>leaves DEF Steps
  <2>5. lock' \in [Emails -> Calls \cup {None}]
    BY <1>0, <1>3 DEF AcquireLock, TypeOK
  <2> QED
    BY <2>1, <2>2, <2>4, <2>5, <1>0 DEF TypeOK, replica, CallsOK, BoundsOK
<1>4. ASSUME NEW c \in Calls, Claim(c) PROVE TypeInv'
  <2>1. call[c].at \in Steps /\ UNCHANGED <<lock, apps, sent, replica, tries>>
    BY <1>4 DEF Claim, Steps
  <2>2. BoundsOK'
    BY <1>0, <1>4, <1>same, FaultyKeepsBounds DEF Claim, bounds, BoundsOK
  <2>3. Ends(c) \/ Goes(c, "existing")
    BY <1>4 DEF Claim
  <2>4. CallsOK' /\ KnownApp'
    BY <2>1, <2>3, <1>moves, <1>leaves DEF Steps, Claimed
  <2>5. record' \in [Emails -> Record]
    BY <1>0, <1>4, RecordTypes, RecordValues DEF Claim, TypeOK
  <2> QED
    BY <2>1, <2>2, <2>4, <2>5, <1>0 DEF TypeOK, replica, CallsOK, BoundsOK
<1>5. ASSUME NEW c \in Calls, FindExisting(c) PROVE TypeInv'
  <2>1. call[c].at \in Steps /\ UNCHANGED <<record, lock, apps, sent, replica, tries, bounds>>
    BY <1>5 DEF FindExisting, Steps, Claimed
  <2>2. CASE Goes(c, "match")
    BY <2>1, <2>2, <1>moves, <1>same, <1>frame DEF Steps, Claimed
  <2>3. ASSUME NEW a \in 1..Len(apps), apps[a].email = call[c].email,
               call' = [call EXCEPT ![c] = [@ EXCEPT !.at = "commit", !.app = a]]
        PROVE  TypeInv'
    <3>0. a \in Nat /\ "commit" \in Steps /\ call \in [Calls -> Call]
      BY <1>0 DEF CallsOK, Steps, Claimed
    <3>1. Moves(c, "commit", a)
      BY <2>3, <3>0, TakesMoves
    <3>2. CallsOK' /\ KnownApp'
      BY <3>1, <2>1, <2>3, <1>0, <1>call, MovesKeepsCalls, MovesKeepsKnown DEF Steps, Claimed
    <3> QED
      BY <3>2, <2>1, <1>same, <1>frame
  <2>4. \A a \in SourcesOf(call[c].email, Visible) :
          a \in 1..Len(apps) /\ apps[a].email = call[c].email
    BY <1>0 DEF SourcesOf, Visible, TypeOK
  <2> QED
    BY <1>5, <2>2, <2>3, <2>4 DEF FindExisting
<1>6. ASSUME NEW c \in Calls, FindMatch(c) PROVE TypeInv'
  <2>1. call[c].at \in Steps /\ UNCHANGED <<record, lock, apps, sent, replica, tries, bounds>>
    BY <1>6 DEF FindMatch, Steps, Claimed
  <2>2. PICK a \in Nat : call' = [call EXCEPT ![c] = [@ EXCEPT !.at = "tx", !.app = a]]
    <3>1. Visible \subseteq Nat
      BY <1>0 DEF Visible, TypeOK
    <3> QED
      BY <3>1, <1>6 DEF FindMatch
  <2>3. Moves(c, "tx", a)
    BY <2>2, <1>0, TakesMoves DEF CallsOK, Steps, Claimed
  <2>4. CallsOK' /\ KnownApp'
    BY <2>1, <2>3, <1>0, <1>call, MovesKeepsCalls, MovesKeepsKnown DEF Steps, Claimed
  <2> QED
    BY <2>1, <2>4, <1>same, <1>frame
<1>7. ASSUME NEW c \in Calls, Merge(c) PROVE TypeInv'
  <2>1. /\ call[c].at \in Steps /\ UNCHANGED <<record, lock, apps, sent, replica, tries, bounds>>
        /\ Goes(c, "abort")
    BY <1>7 DEF Merge, Steps, Claimed
  <2> QED
    BY <2>1, <1>moves, <1>same, <1>frame DEF Steps, Claimed
<1>8. ASSUME NEW c \in Calls, Create(c) PROVE TypeInv'
  <2>1. call[c].at \in Steps /\ UNCHANGED <<record, lock, sent, tries>>
        /\ apps' = Append(apps, [email |-> call[c].email])
    BY <1>8 DEF Create, Steps, Claimed
  <2>2. /\ apps' \in Seq(Application)
        /\ Len(apps') = Len(apps) + 1 /\ Len(apps) \in Nat
        /\ \A i \in 1..Len(apps) : apps'[i] = apps[i]
        /\ apps'[Len(apps) + 1].email = call[c].email
    BY <2>1, <1>0, <1>call, CreateAppends
  <2>3. shown' \in 0..Len(apps') /\ lags' \in 0..MaxLags
    BY <1>8, <1>0, <2>2 DEF Create, TypeOK, EmailAssumption
  <2>4. sent' \in SUBSET (1..Len(apps'))
    BY <2>1, <2>2, <1>0 DEF TypeOK
  <2>5. BoundsOK'
    BY <1>8, <1>0, <1>same, FaultyKeepsBounds DEF Create
  <2>6. \/ Moves(c, "commit", Len(apps) + 1)
        \/ Moves(c, "abort", call[c].app)
    <3>1. ASSUME call' = [call EXCEPT ![c] =
                   [@ EXCEPT !.at = "commit", !.app = Len(apps) + 1, !.created = TRUE]]
          PROVE  Moves(c, "commit", Len(apps) + 1)
      <4>1. Len(apps) + 1 \in Nat /\ "commit" \in Steps /\ call \in [Calls -> Call]
        BY <2>2, <1>0 DEF CallsOK, Steps, Claimed
      <4> QED
        BY <3>1, <4>1, TakesMoves
    <3>2. ASSUME Goes(c, "abort") PROVE Moves(c, "abort", call[c].app)
      BY <3>2, <1>0, GoesMoves DEF CallsOK, Steps, Claimed
    <3> QED
      BY <3>1, <3>2, <1>8 DEF Create
  <2>7. CallsOK'
    BY <2>1, <2>6, <1>0, <1>call, MovesKeepsCalls DEF Steps, Claimed
  <2>8. KnownApp'
    BY <2>2, <2>6, <1>0 DEF Moves, KnownApp
  <2> QED
    BY <2>1, <2>2, <2>3, <2>4, <2>5, <2>7, <2>8, <1>0 DEF TypeOK, CallsOK, BoundsOK
<1>9. ASSUME NEW c \in Calls, Commit(c) PROVE TypeInv'
  <2>1. /\ call[c].at = "commit" /\ call[c].at \in Steps
        /\ UNCHANGED <<lock, apps, sent, replica, tries, bounds>>
        /\ record' = [record EXCEPT ![call[c].email] = Committed(call[c].app)]
        /\ Goes(c, IF call[c].created THEN "integrate" ELSE "release")
    BY <1>9 DEF Commit, Steps, Claimed
  <2>2. PICK s \in {"integrate", "release"} : Goes(c, s)
    BY <2>1
  <2>3. Moves(c, s, call[c].app)
    BY <2>2, <1>0, GoesMoves DEF CallsOK, Steps
  <2>4. CallsOK' /\ KnownApp'
    <3>1. call[c].app \in 1..Len(apps) /\ apps[call[c].app].email = call[c].email
      BY <2>1, <1>0 DEF KnownApp
    <3>2. KnownApp'
      BY <3>1, <2>1, <2>3, <1>0, MovesKeepsKnown
    <3>3. CallsOK'
      BY <2>1, <2>3, <1>0, <1>call, MovesKeepsCalls DEF Steps
    <3> QED
      BY <3>2, <3>3
  <2>5. record' \in [Emails -> Record]
    BY <2>1, <1>0, <1>call, RecordTypes, RecordValues
  <2> QED
    BY <2>1, <2>4, <2>5, <1>0, <1>same DEF TypeOK, replica, CallsOK, BoundsOK
<1>10. ASSUME NEW c \in Calls, Integrate(c) PROVE TypeInv'
  <2>1. /\ call[c].at = "integrate" /\ call[c].at \in Steps
        /\ UNCHANGED <<record, lock, apps, replica, tries>>
        /\ Goes(c, "release")
    BY <1>10 DEF Integrate, Steps
  <2>2. CallsOK' /\ KnownApp'
    BY <2>1, <1>moves DEF Steps
  <2>3. sent' \in SUBSET (1..Len(apps))
    <3>1. call[c].app \in 1..Len(apps)
      BY <2>1, <1>0 DEF KnownApp
    <3>2. sent' = sent \cup {call[c].app} \/ sent' = sent
      BY <1>10 DEF Integrate
    <3>3. sent \in SUBSET (1..Len(apps))
      BY <1>0 DEF TypeOK
    <3> QED
      BY <3>1, <3>2, <3>3
  <2>4. BoundsOK'
    BY <1>10, <1>0, <1>same, FaultyKeepsBounds DEF Integrate
  <2> QED
    BY <2>1, <2>2, <2>3, <2>4, <1>0 DEF TypeOK, replica, CallsOK, BoundsOK
<1>11. ASSUME NEW c \in Calls, Throws(c) PROVE TypeInv'
  <2>1. /\ call[c].at \in Steps /\ UNCHANGED <<record, lock, apps, sent, replica, tries>>
        /\ Goes(c, "abort")
    BY <1>11 DEF Throws, Steps, Claimed
  <2>2. BoundsOK'
    BY <1>11, <1>0, FaultyKeepsBounds DEF Throws
  <2> QED
    BY <2>1, <2>2, <1>moves, <1>frame DEF Steps, Claimed
<1>12. ASSUME NEW c \in Calls, Abort(c) PROVE TypeInv'
  <2>1. /\ call[c].at \in Steps /\ UNCHANGED <<lock, apps, sent, replica, tries>>
        /\ Goes(c, "release")
    BY <1>12 DEF Abort, Steps, Claimed
  <2>2. BoundsOK'
    BY <1>12, <1>0, <1>same, FaultyKeepsBounds DEF Abort
  <2>3. CallsOK' /\ KnownApp'
    BY <2>1, <1>moves DEF Steps
  <2>4. record' \in [Emails -> Record]
    BY <1>0, <1>12, RecordTypes, RecordValues DEF Abort, TypeOK
  <2> QED
    BY <2>1, <2>2, <2>3, <2>4, <1>0 DEF TypeOK, replica, CallsOK, BoundsOK
<1>13. ASSUME NEW c \in Calls, ReleaseLock(c) PROVE TypeInv'
  <2>1. Ends(c) /\ UNCHANGED <<record, apps, sent, replica, tries>>
    BY <1>13 DEF ReleaseLock
  <2>2. BoundsOK'
    BY <1>13, <1>0, <1>same, FaultyKeepsBounds DEF ReleaseLock
  <2>3. CallsOK' /\ KnownApp'
    BY <2>1, <1>leaves
  <2>4. lock' \in [Emails -> Calls \cup {None}]
    BY <1>0, <1>13 DEF ReleaseLock, TypeOK
  <2> QED
    BY <2>1, <2>2, <2>3, <2>4, <1>0 DEF TypeOK, replica, CallsOK, BoundsOK
<1>14. ASSUME NEW c \in Calls, Exit(c) PROVE TypeInv'
  <2>1. Ends(c) /\ UNCHANGED <<record, lock, apps, sent, replica, tries>>
    BY <1>14 DEF Exit
  <2>2. BoundsOK'
    BY <1>14, <1>0 DEF Exit, BoundsOK, EmailAssumption
  <2> QED
    BY <2>1, <2>2, <1>leaves, <1>frame
<1>15. ASSUME NEW e \in Emails, LockExpires(e) PROVE TypeInv'
  <2>1. UNCHANGED <<record, apps, sent, call, replica, tries, faults, exits>>
    BY <1>15 DEF LockExpires
  <2>2. BoundsOK'
    BY <1>15, <1>0 DEF LockExpires, BoundsOK, EmailAssumption
  <2>3. lock' \in [Emails -> Calls \cup {None}]
    BY <1>0, <1>15 DEF LockExpires, TypeOK
  <2> QED
    BY <2>1, <2>2, <2>3, <1>0 DEF TypeOK, replica, BoundsOK, KnownApp
<1>16. CASE Replicate
  BY <1>16, <1>0 DEF Replicate, TypeOK, KnownApp, bounds
<1>17. CASE UNCHANGED vars
  BY <1>17, <1>0 DEF vars, replica, bounds, TypeOK, KnownApp
<1> QED
  BY <1>1, <1>2, <1>3, <1>4, <1>5, <1>6, <1>7, <1>8, <1>9, <1>10, <1>11, <1>12, <1>13,
     <1>14, <1>15, <1>16, <1>17 DEF Next, CallStep

-----------------------------------------------------------------------------
(* What a step does to records, applications and calls, the locks, counters *)
(* and faults being of no account.                                         *)

Calm == faults = 0 /\ exits = 0

Rests ==
  /\ UNCHANGED <<record, apps, sent, call, lags>>
  /\ shown' = shown \/ shown' = Len(apps)

\* A call begins, goes on to its claim, returns or ends in an exit.
Outside(c) ==
  /\ UNCHANGED <<record, apps, sent, replica>>
  /\ call' \in [Calls -> Call] /\ \A d \in Calls \ {c} : call'[d] = call[d]
  /\ call'[c].at \notin Claimed \cup {"integrate"}
  /\ call[c].at \in Claimed => ~Calm'

Claims(c) ==
  /\ UNCHANGED <<apps, sent, replica>>
  /\ record[call[c].email].state = "absent"
  /\ record' = [record EXCEPT ![call[c].email] = InProgress]
  /\ call[c].at = "claim" /\ Moves(c, "existing", call[c].app)

\* The call looks things up.
Looks(c) ==
  /\ UNCHANGED <<record, apps, sent, replica>>
  /\ \/ /\ call[c].at = "existing" /\ Moves(c, "match", call[c].app)
        /\ \A a \in 1..shown : apps[a].email # call[c].email
     \/ /\ call[c].at = "existing"
        /\ \E a \in 1..Len(apps) : apps[a].email = call[c].email /\ Moves(c, "commit", a)
     \/ call[c].at = "match" /\ \E a \in Nat : Moves(c, "tx", a)

GivesUp(c) ==
  /\ UNCHANGED <<record, apps, sent, replica>>
  /\ call[c].at \in Claimed /\ Moves(c, "abort", call[c].app)
  /\ call[c].at = "commit" => ~Calm'

Creates(c) ==
  /\ UNCHANGED <<record, sent>>
  /\ apps' = Append(apps, [email |-> call[c].email])
  /\ call[c].at = "tx"
  /\ Moves(c, "commit", Len(apps) + 1) \/ (Moves(c, "abort", call[c].app) /\ ~Calm')
  /\ (lags' = lags /\ shown' = Len(apps')) \/ lags' = lags + 1

Commits(c) ==
  /\ UNCHANGED <<apps, sent, replica>>
  /\ record' = [record EXCEPT ![call[c].email] = Committed(call[c].app)]
  /\ call[c].at = "commit"
  /\ Moves(c, "integrate", call[c].app) \/ Moves(c, "release", call[c].app)

Integrates(c) ==
  /\ UNCHANGED <<record, apps, replica>>
  /\ sent' = sent \cup {call[c].app} \/ sent' = sent
  /\ call[c].at = "integrate" /\ Moves(c, "release", call[c].app)

Aborts(c) ==
  /\ UNCHANGED <<apps, sent, replica>>
  /\ call[c].at = "abort" /\ Moves(c, "release", call[c].app)
  /\ record' = [record EXCEPT ![call[c].email] = Absent] \/ (record' = record /\ ~Calm')

Effect(c) ==
  \/ Outside(c) \/ Claims(c) \/ Looks(c) \/ GivesUp(c) \/ Creates(c) \/ Commits(c)
  \/ Integrates(c) \/ Aborts(c)

\* After a fault nothing is calm.
LEMMA FaultyIsNotCalm ==
  ASSUME EmailAssumption, BoundsOK, Faulty
  PROVE  ~Calm' /\ (Calm' => Calm)
  BY DEF EmailAssumption, BoundsOK, Faulty, Calm

\* Every step is one of these.
LEMMA StepEffect ==
  ASSUME EmailAssumption, TypeInv, [Next]_vars
  PROVE  /\ Calm' => Calm
         /\ Rests \/ \E c \in Calls : Effect(c)
<1>0. CallsOK /\ BoundsOK /\ KnownApp /\ TypeOK /\ call \in [Calls -> Call]
  BY DEF TypeInv, TypeOK, CallsOK, BoundsOK
<1>calm. (UNCHANGED bounds \/ Faulty) => (Calm' => Calm)
  BY <1>0, FaultyIsNotCalm DEF bounds, Calm
<1>goes. ASSUME NEW c \in Calls, NEW s \in Steps, Goes(c, s)
         PROVE  Moves(c, s, call[c].app)
  BY <1>0, <1>goes, GoesMoves
<1>out. ASSUME NEW c \in Calls, UNCHANGED <<record, apps, sent, replica>>,
               Ends(c) \/ Goes(c, "lock") \/ Goes(c, "claim"),
               call[c].at \in Claimed => ~Calm'
        PROVE  Outside(c)
  <2>1. CASE Ends(c)
    BY <2>1, <1>out, <1>0, EndsLeaves DEF Outside, Leaves, Claimed
  <2>2. ASSUME NEW s \in {"lock", "claim"}, Goes(c, s) PROVE Outside(c)
    BY <2>2, <1>out, <1>goes DEF Outside, Moves, Steps, Claimed
  <2> QED
    BY <2>1, <2>2, <1>out
<1>1. ASSUME NEW c \in Calls, NEW e \in Emails, Begin(c, e)
      PROVE  (Calm' => Calm) /\ Outside(c)
  <2>1. /\ call' = [call EXCEPT ![c] = [Idle EXCEPT !.at = "check", !.email = e]]
        /\ call[c].at = "idle"
        /\ UNCHANGED <<record, apps, sent, replica, bounds>>
    BY <1>1 DEF Begin
  <2>2. /\ call' \in [Calls -> Call] /\ call'[c].at = "check"
        /\ \A d \in Calls \ {c} : call'[d] = call[d]
    BY <2>1, <1>0, BeginMoves
  <2> QED
    BY <2>1, <2>2, <1>calm DEF Outside, Claimed
<1>2. ASSUME NEW c \in Calls, Check(c) PROVE (Calm' => Calm) /\ Outside(c)
  BY <1>2, <1>calm, <1>out DEF Check, Claimed
<1>3. ASSUME NEW c \in Calls, AcquireLock(c) PROVE (Calm' => Calm) /\ Outside(c)
  BY <1>3, <1>calm, <1>out DEF AcquireLock, Claimed, bounds
<1>4. ASSUME NEW c \in Calls, Claim(c) PROVE (Calm' => Calm) /\ Effect(c)
  <2>1. UNCHANGED <<apps, sent, replica>> /\ call[c].at = "claim" /\ (Calm' => Calm)
    BY <1>4, <1>calm DEF Claim, bounds
  <2>2. CASE Ends(c) /\ UNCHANGED record
    BY <2>1, <2>2, <1>out DEF Effect, Claimed
  <2>3. CASE /\ record[call[c].email].state = "absent" /\ Goes(c, "existing")
             /\ record' = [record EXCEPT ![call[c].email] = InProgress]
    BY <2>1, <2>3, <1>goes DEF Effect, Claims, Steps, Claimed
  <2> QED
    BY <1>4, <2>1, <2>2, <2>3 DEF Claim
<1>5. ASSUME NEW c \in Calls, FindExisting(c) PROVE (Calm' => Calm) /\ Effect(c)
  <2>1. UNCHANGED <<record, apps, sent, replica, bounds>> /\ call[c].at = "existing"
    BY <1>5 DEF FindExisting
  <2>2. CASE SourcesOf(call[c].email, Visible) = {} /\ Goes(c, "match")
    <3>1. \A a \in 1..shown : apps[a].email # call[c].email
      BY <2>2 DEF SourcesOf, Visible
    <3>2. Moves(c, "match", call[c].app)
      BY <2>2, <1>goes DEF Steps, Claimed
    <3> QED
      BY <2>1, <3>1, <3>2, <1>calm DEF Looks, Effect
  <2>3. ASSUME NEW a \in SourcesOf(call[c].email, Visible),
               call' = [call EXCEPT ![c] = [@ EXCEPT !.at = "commit", !.app = a]]
        PROVE  Looks(c)
    <3>1. /\ a \in 1..Len(apps) /\ apps[a].email = call[c].email
          /\ a \in Nat /\ "commit" \in Steps /\ call \in [Calls -> Call]
      BY <1>0 DEF SourcesOf, Visible, TypeOK, Steps, Claimed
    <3>2. Moves(c, "commit", a)
      BY <2>3, <3>1, TakesMoves
    <3> QED
      BY <2>1, <3>1, <3>2 DEF Looks
  <2> QED
    BY <1>5, <2>1, <2>2, <2>3, <1>calm DEF FindExisting, Effect
<1>6. ASSUME NEW c \in Calls, FindMatch(c) PROVE (Calm' => Calm) /\ Looks(c)
  <2>1. UNCHANGED <<record, apps, sent, replica, bounds>> /\ call[c].at = "match"
    BY <1>6 DEF FindMatch
  <2>2. PICK a \in Nat : call' = [call EXCEPT ![c] = [@ EXCEPT !.at = "tx", !.app = a]]
    <3>1. Visible \subseteq Nat
      BY <1>0 DEF Visible, TypeOK
    <3> QED
      BY <3>1, <1>6 DEF FindMatch
  <2>3. Moves(c, "tx", a)
    BY <2>2, <1>0, TakesMoves DEF Steps, Claimed
  <2> QED
    BY <2>1, <2>3, <1>calm DEF Looks
<1>7. ASSUME NEW c \in Calls, Merge(c) PROVE (Calm' => Calm) /\ GivesUp(c)
  BY <1>7, <1>calm, <1>goes DEF Merge, GivesUp, Steps, Claimed
<1>8. ASSUME NEW c \in Calls, Create(c) PROVE (Calm' => Calm) /\ Creates(c)
  <2>1. /\ UNCHANGED <<record, sent>> /\ call[c].at = "tx" /\ (Calm' => Calm)
        /\ apps' = Append(apps, [email |-> call[c].email])
        /\ (lags' = lags /\ shown' = Len(apps')) \/ lags' = lags + 1
    BY <1>8, <1>calm DEF Create
  <2>2. CASE call' = [call EXCEPT ![c] =
               [@ EXCEPT !.at = "commit", !.app = Len(apps) + 1, !.created = TRUE]]
    <3>1. Len(apps) + 1 \in Nat /\ "commit" \in Steps /\ call \in [Calls -> Call]
      BY <1>0 DEF TypeOK, Steps, Claimed
    <3>2. Moves(c, "commit", Len(apps) + 1)
      BY <2>2, <3>1, TakesMoves
    <3> QED
      BY <2>1, <3>2 DEF Creates
  <2>3. CASE Faulty /\ Goes(c, "abort")
    BY <2>1, <2>3, <1>0, <1>goes, FaultyIsNotCalm DEF Creates, Steps, Claimed
  <2> QED
    BY <1>8, <2>2, <2>3, <2>1 DEF Create
<1>9. ASSUME NEW c \in Calls, Commit(c) PROVE (Calm' => Calm) /\ Commits(c)
  <2>1. /\ UNCHANGED <<apps, sent, replica, bounds>> /\ call[c].at = "commit"
        /\ record' = [record EXCEPT ![call[c].email] = Committed(call[c].app)]
        /\ Goes(c, "integrate") \/ Goes(c, "release")
    BY <1>9 DEF Commit
  <2> QED
    BY <2>1, <1>goes, <1>calm DEF Commits, Steps
<1>10. ASSUME NEW c \in Calls, Integrate(c) PROVE (Calm' => Calm) /\ Integrates(c)
  BY <1>10, <1>calm, <1>goes DEF Integrate, Integrates, Steps
<1>11. ASSUME NEW c \in Calls, Throws(c) PROVE (Calm' => Calm) /\ GivesUp(c)
  BY <1>11, <1>0, <1>goes, FaultyIsNotCalm DEF Throws, GivesUp, Steps, Claimed
<1>12. ASSUME NEW c \in Calls, Abort(c) PROVE (Calm' => Calm) /\ Aborts(c)
  BY <1>12, <1>0, <1>goes, <1>calm, FaultyIsNotCalm DEF Abort, Aborts, Steps
<1>13. ASSUME NEW c \in Calls, ReleaseLock(c) PROVE (Calm' => Calm) /\ Outside(c)
  BY <1>13, <1>calm, <1>out DEF ReleaseLock, Claimed
<1>14. ASSUME NEW c \in Calls, Exit(c) PROVE (Calm' => Calm) /\ Outside(c)
  <2>1. exits' > 0 /\ exits' # 0
    BY <1>14, <1>0 DEF Exit, BoundsOK
  <2> QED
    BY <2>1, <1>14, <1>out DEF Exit, Calm
<1>15. ASSUME NEW e \in Emails, LockExpires(e) PROVE (Calm' => Calm) /\ Rests
  BY <1>15 DEF LockExpires, Rests, Calm, replica
<1>16. CASE Replicate
  BY <1>16 DEF Replicate, Rests, Calm, bounds
<1>17. CASE UNCHANGED vars
  BY <1>17 DEF vars, replica, bounds, Rests, Calm
<1> QED
  BY <1>1, <1>2, <1>3, <1>4, <1>5, <1>6, <1>7, <1>8, <1>9, <1>10, <1>11, <1>12, <1>13,
     <1>14, <1>15, <1>16, <1>17 DEF Next, CallStep, Effect

-----------------------------------------------------------------------------
(* The invariants.                                                         *)

\* A call between claim and commit or abort has the record of its email.
ClaimInv ==
  /\ OneOwner
  /\ \A c \in Calls : call[c].at \in Claimed => record[call[c].email].state = "in progress"

\* A call that integrates has committed.
DoneInv ==
  /\ CommittedIsDone
  /\ \A c \in Calls : call[c].at = "integrate" => record[call[c].email].state = "committed"

\* While nothing failed, or the replica is up to date, the dedup guard sees all there is:
\* without failures because nothing is there unless its call still has to commit it, with a
\* replica up to date because it shows every application.
EffectInv ==
  /\ EffectOnce
  /\ lags = 0 => shown = Len(apps)
  /\ lags = 0 \/ Calm =>
       \A c \in Calls : call[c].at \in {"match", "tx"} =>
         \A a \in 1..Len(apps) : apps[a].email # call[c].email
  /\ Calm =>
       \A a \in 1..Len(apps) :
         \/ record[apps[a].email].state = "committed"
         \/ \E c \in Calls : call[c].at = "commit" /\ call[c].email = apps[a].email

\* Every step keeps a claim with its call.
LEMMA ClaimStep ==
  ASSUME EmailAssumption, TypeInv, ClaimInv, [Next]_vars
  PROVE  ClaimInv'
<1>0. TypeOK /\ \A c \in Calls : call[c].at # "idle" => call[c].email \in Emails
  BY DEF TypeInv, TypeOK, Call
<1>rec. ASSUME NEW e \in Emails, NEW r, record' = [record EXCEPT ![e] = r]
        PROVE  record'[e] = r /\ \A f \in Emails \ {e} : record'[f] = record[f]
  BY <1>0, <1>rec DEF TypeOK
<1>1. CASE Rests
  BY <1>1 DEF Rests, ClaimInv, OneOwner
<1>2. ASSUME NEW c \in Calls, Outside(c) PROVE ClaimInv'
  BY <1>2 DEF Outside, ClaimInv, OneOwner
<1>3. ASSUME NEW c \in Calls, Claims(c) PROVE ClaimInv'
  <2>1. /\ call[c].email \in Emails /\ record'[call[c].email] = InProgress
        /\ \A f \in Emails \ {call[c].email} : record'[f] = record[f]
    BY <1>0, <1>3, <1>rec DEF Claims
  <2>2. \A d \in Calls : call[d].at \in Claimed => call[d].email # call[c].email
    BY <1>3, RecordValues DEF Claims, ClaimInv
  <2>3. \A d \in Calls : call'[d].at \in Claimed => call'[d].email \in Emails
    BY <1>0, <1>3 DEF Claims, Moves, Claimed
  <2>4. /\ call'[c].email = call[c].email
        /\ \A d \in Calls \ {c} : call'[d] = call[d]
    BY <1>3 DEF Claims, Moves
  <2>5. OneOwner'
    BY <2>2, <2>4 DEF ClaimInv, OneOwner
  <2>6. \A d \in Calls : call'[d].at \in Claimed => record'[call'[d].email].state = "in progress"
    <3>1. record'[call'[c].email].state = "in progress"
      <4>1. InProgress.state = "in progress"
        BY DEF InProgress
      <4>2. record'[call'[c].email] = InProgress
        BY <2>1, <2>4
      <4> QED
        BY <4>1, <4>2
    <3>2. \A d \in Calls \ {c} : call[d].at \in Claimed =>
            record'[call[d].email] = record[call[d].email]
      BY <2>1, <2>2, <2>3, <2>4
    <3> QED
      BY <3>1, <3>2, <2>4 DEF ClaimInv
  <2> QED
    BY <2>5, <2>6 DEF ClaimInv
\* A step of a call that has the record and leaves the records alone.
<1>4. ASSUME NEW c \in Calls, NEW s, NEW a, Moves(c, s, a), call[c].at \in Claimed,
             UNCHANGED record
      PROVE  ClaimInv'
  BY <1>4, ZenonT(30) DEF Moves, ClaimInv, OneOwner
<1>5. ASSUME NEW c \in Calls, Looks(c) PROVE ClaimInv'
  BY <1>5, <1>4 DEF Looks, Claimed
<1>6. ASSUME NEW c \in Calls, GivesUp(c) PROVE ClaimInv'
  BY <1>6, <1>4 DEF GivesUp, Claimed
<1>7. ASSUME NEW c \in Calls, Creates(c) PROVE ClaimInv'
  BY <1>7, <1>4 DEF Creates, Claimed
\* A call that settles its record has it no more, and nobody else had it.
<1>8. ASSUME NEW c \in Calls, NEW s, s \notin Claimed, Moves(c, s, call[c].app),
             call[c].at \in Claimed, NEW r, record' = [record EXCEPT ![call[c].email] = r]
      PROVE  ClaimInv'
  <2>1. /\ call[c].email \in Emails
        /\ \A f \in Emails \ {call[c].email} : record'[f] = record[f]
    BY <1>0, <1>8, <1>rec DEF Claimed
  <2>2. \A d \in Calls \ {c} : call[d].at \in Claimed =>
          call[d].email \in Emails \ {call[c].email}
    BY <1>0, <1>8 DEF ClaimInv, OneOwner, Claimed
  <2>3. \A d \in Calls : call'[d].at \in Claimed => d # c /\ call'[d] = call[d]
    BY <1>8 DEF Moves
  <2>4. OneOwner'
    BY <2>3 DEF ClaimInv, OneOwner
  <2>5. \A d \in Calls : call'[d].at \in Claimed => record'[call'[d].email].state = "in progress"
    BY <2>1, <2>2, <2>3, ZenonT(30) DEF ClaimInv
  <2> QED
    BY <2>4, <2>5 DEF ClaimInv
<1>9. ASSUME NEW c \in Calls, Commits(c) PROVE ClaimInv'
  BY <1>9, <1>8 DEF Commits, Claimed
<1>10. ASSUME NEW c \in Calls, Integrates(c) PROVE ClaimInv'
  BY <1>10, ZenonT(30) DEF Integrates, Moves, ClaimInv, OneOwner, Claimed
<1>11. ASSUME NEW c \in Calls, Aborts(c) PROVE ClaimInv'
  BY <1>11, <1>8, <1>4 DEF Aborts, Claimed
<1> QED
  BY <1>1, <1>2, <1>3, <1>5, <1>6, <1>7, <1>9, <1>10, <1>11, StepEffect DEF Effect

\* Every step keeps a committed record with its application.
LEMMA DoneStep ==
  ASSUME EmailAssumption, TypeInv, ClaimInv, DoneInv, [Next]_vars
  PROVE  DoneInv'
<1>0. /\ TypeOK /\ KnownApp /\ \A c \in Calls : call[c].at # "idle" => call[c].email \in Emails
      /\ \A a \in 1..Len(apps) : apps[a].email \in Emails
  <2>1. TypeOK /\ KnownApp /\ \A c \in Calls : call[c].at # "idle" => call[c].email \in Emails
    BY DEF TypeInv, TypeOK, Call
  <2>2. \A a \in 1..Len(apps) : apps[a] \in Application
    BY DEF TypeInv, TypeOK
  <2>3. \A x \in Application : x.email \in Emails
    BY DEF Application
  <2> QED
    BY <2>1, <2>2, <2>3
<1>rec. ASSUME NEW e \in Emails, NEW r, record' = [record EXCEPT ![e] = r]
        PROVE  record'[e] = r /\ \A f \in Emails \ {e} : record'[f] = record[f]
  BY <1>0, <1>rec DEF TypeOK
<1> USE DEF DoneInv, CommittedIsDone
<1>1. CASE Rests
  BY <1>1 DEF Rests
<1>2. ASSUME NEW c \in Calls, Outside(c) PROVE DoneInv'
  BY <1>2 DEF Outside
<1>3. ASSUME NEW c \in Calls, Looks(c) \/ GivesUp(c) PROVE DoneInv'
  BY <1>3 DEF Looks, GivesUp, Moves
<1>4. ASSUME NEW c \in Calls, Creates(c) PROVE DoneInv'
  <2>1. /\ Len(apps') = Len(apps) + 1 /\ Len(apps) \in Nat
        /\ \A i \in 1..Len(apps) : apps'[i] = apps[i]
    BY <1>0, <1>4, CreateAppends DEF Creates
  <2>2. sent \subseteq 1..Len(apps)
    BY <1>0 DEF TypeOK
  <2> QED
    BY <2>1, <2>2, <1>4, <1>0 DEF Creates, Moves
\* A record that is not committed may be replaced by one that is not.
<1>5. ASSUME NEW c \in Calls, NEW r, record' = [record EXCEPT ![call[c].email] = r],
             r.state # "committed", record[call[c].email].state # "committed",
             call[c].email \in Emails, UNCHANGED <<apps, sent>>,
             NEW s, s # "integrate", Moves(c, s, call[c].app)
      PROVE  DoneInv'
  <2>1. /\ record'[call[c].email].state # "committed"
        /\ \A f \in Emails \ {call[c].email} : record'[f] = record[f]
    BY <1>rec, <1>5
  <2>2. \A a \in sent : a \in 1..Len(apps) /\ apps[a].email # call[c].email
    BY <1>0, <1>5 DEF TypeOK
  <2>3. \A d \in Calls : call[d].at = "integrate" =>
          call[d].email \in Emails /\ call[d].email # call[c].email
    BY <1>0, <1>5
  <2> QED
    BY <2>1, <2>2, <2>3, <1>0, <1>5 DEF Moves
<1>6. ASSUME NEW c \in Calls, Claims(c) PROVE DoneInv'
  BY <1>6, <1>5, <1>0, RecordValues DEF Claims
<1>7. ASSUME NEW c \in Calls, Aborts(c) PROVE DoneInv'
  <2>1. call[c].email \in Emails /\ record[call[c].email].state = "in progress"
    BY <1>0, <1>7 DEF Aborts, ClaimInv, Claimed
  <2>2. CASE record' = record
    BY <2>2, <1>7 DEF Aborts, Moves
  <2> QED
    BY <2>1, <2>2, <1>7, <1>5, RecordValues DEF Aborts
<1>8. ASSUME NEW c \in Calls, Commits(c) PROVE DoneInv'
  <2>1. /\ call[c].email \in Emails /\ call[c].app \in 1..Len(apps)
        /\ apps[call[c].app].email = call[c].email
    BY <1>0, <1>8 DEF Commits, KnownApp
  <2>2. /\ record'[call[c].email].state = "committed"
        /\ record'[call[c].email].app = call[c].app
        /\ \A f \in Emails \ {call[c].email} : record'[f] = record[f]
    <3>1. Committed(call[c].app).state = "committed" /\ Committed(call[c].app).app = call[c].app
      BY DEF Committed
    <3>2. /\ record'[call[c].email] = Committed(call[c].app)
          /\ \A f \in Emails \ {call[c].email} : record'[f] = record[f]
      BY <2>1, <1>8, <1>rec DEF Commits
    <3> QED
      BY <3>1, <3>2
  <2>3. \A a \in sent : a \in 1..Len(apps)
    BY <1>0 DEF TypeOK
  <2> QED
    BY <2>1, <2>2, <2>3, <1>0, <1>8 DEF Commits, Moves
<1>9. ASSUME NEW c \in Calls, Integrates(c) PROVE DoneInv'
  BY <1>9, <1>0 DEF Integrates, Moves, KnownApp
<1> QED
  BY <1>1, <1>2, <1>3, <1>4, <1>6, <1>7, <1>8, <1>9, StepEffect DEF Effect

\* Every step keeps an email with one application at most.
LEMMA EffectStep ==
  ASSUME EmailAssumption, TypeInv, ClaimInv, EffectInv, [Next]_vars
  PROVE  EffectInv'
<1> DEFINE Sees == lags = 0 \/ Calm
<1> DEFINE Unique == \A a, b \in 1..Len(apps) : apps[a].email = apps[b].email => a = b
<1> DEFINE Fresh(c) == \A a \in 1..Len(apps) : apps[a].email # call[c].email
<1> DEFINE Held(a) == \/ record[apps[a].email].state = "committed"
                      \/ \E c \in Calls : call[c].at = "commit" /\ call[c].email = apps[a].email
<1>0. /\ TypeOK /\ lags \in Nat /\ Len(apps) \in Nat
      /\ \A c \in Calls : call[c].at # "idle" => call[c].email \in Emails
      /\ \A a \in 1..Len(apps) : apps[a].email \in Emails
  <2>1. \A a \in 1..Len(apps) : apps[a] \in Application
    BY DEF TypeInv, TypeOK
  <2>2. \A x \in Application : x.email \in Emails
    BY DEF Application
  <2>3. TypeOK /\ lags \in Nat /\ Len(apps) \in Nat
    BY DEF TypeInv, TypeOK, EmailAssumption
  <2>4. \A c \in Calls : call[c].at # "idle" => call[c].email \in Emails
    BY <2>3 DEF TypeOK, Call
  <2> QED
    BY <2>1, <2>2, <2>3, <2>4
<1>calm. Calm' => Calm
  BY StepEffect
<1>sum. (faults + exits = 0 <=> Calm) /\ (faults' + exits' = 0 <=> Calm')
  <2>1. faults \in Nat /\ exits \in Nat /\ faults' \in Nat /\ exits' \in Nat
    BY TypeStep DEF TypeInv, TypeOK, EmailAssumption
  <2>2. \A m, n \in Nat : m + n = 0 <=> m = 0 /\ n = 0
    OBVIOUS
  <2> QED
    BY <2>1, <2>2 DEF Calm
<1>inv. /\ Sees => Unique
        /\ lags = 0 => shown = Len(apps)
        /\ Sees => \A c \in Calls : call[c].at \in {"match", "tx"} => Fresh(c)
        /\ Calm => \A a \in 1..Len(apps) : Held(a)
  BY <1>sum DEF EffectInv, EffectOnce
<1>goal. ASSUME /\ Sees' => Unique'
                /\ lags' = 0 => shown' = Len(apps')
                /\ Sees' => \A c \in Calls : call'[c].at \in {"match", "tx"} => Fresh(c)'
                /\ Calm' => \A a \in 1..Len(apps') : Held(a)'
         PROVE  EffectInv'
  BY <1>goal, <1>sum DEF EffectInv, EffectOnce
<1>owner. \A c, d \in Calls :
            /\ call[c].at \in Claimed => record[call[c].email].state = "in progress"
            /\ call[c].at \in Claimed /\ call[d].at \in Claimed /\ call[c].email = call[d].email
                 => c = d
  BY DEF ClaimInv, OneOwner
<1>rec. ASSUME NEW e \in Emails, NEW r, record' = [record EXCEPT ![e] = r]
        PROVE  record'[e] = r /\ \A f \in Emails \ {e} : record'[f] = record[f]
  BY <1>0, <1>rec DEF TypeOK
\* Without a failure, there is no application for an email without a record, nor for one
\* whose call is not yet at its commit.
<1>none. ASSUME Calm, NEW c \in Calls, call[c].at # "idle", call[c].at # "commit",
                \/ record[call[c].email].state = "absent"
                \/ call[c].at \in Claimed
         PROVE  Fresh(c)
  <2> SUFFICES ASSUME NEW a \in 1..Len(apps), apps[a].email = call[c].email
               PROVE  FALSE
    OBVIOUS
  <2>1. Held(a)
    BY <1>none, <1>inv
  <2>2. record[apps[a].email].state # "committed"
    BY <1>none, <1>owner
  <2>3. PICK d \in Calls : call[d].at = "commit" /\ call[d].email = apps[a].email
    BY <2>1, <2>2
  <2> QED
    BY <2>3, <1>none, <1>owner DEF Claimed
<1>1. CASE Rests
  <2>1. UNCHANGED <<record, apps, call, lags>> /\ (lags' = 0 => shown' = Len(apps'))
    BY <1>1, <1>inv DEF Rests
  <2> QED
    BY <2>1, <1>inv, <1>calm, <1>goal
\* A call that is not at its commit, or is struck by a failure, moves.
<1>2. ASSUME NEW c \in Calls, UNCHANGED <<apps, replica>>,
             \A d \in Calls \ {c} : call'[d] = call[d],
             call[c].at = "commit" => ~Calm',
             \A e \in Emails : record[e].state = "committed" => record'[e].state = "committed",
             Sees' /\ call'[c].at \in {"match", "tx"} => Fresh(c)'
      PROVE  EffectInv'
  <2>1. lags' = lags /\ shown' = shown /\ apps' = apps
    BY <1>2 DEF replica
  <2>2. Sees' => Sees
    BY <2>1, <1>calm
  <2>3. Calm' => \A a \in 1..Len(apps') : Held(a)'
    <3> SUFFICES ASSUME Calm', NEW a \in 1..Len(apps) PROVE Held(a)'
      BY <2>1
    <3>1. Held(a)
      BY <1>calm, <1>inv
    <3>2. CASE record[apps[a].email].state = "committed"
      BY <3>2, <2>1, <1>0, <1>2
    <3>3. ASSUME NEW d \in Calls, call[d].at = "commit", call[d].email = apps[a].email
          PROVE  Held(a)'
      BY <3>3, <2>1, <1>2
    <3> QED
      BY <3>1, <3>2, <3>3
  <2>4. Sees' => \A d \in Calls : call'[d].at \in {"match", "tx"} => Fresh(d)'
    BY <2>1, <2>2, <1>2, <1>inv
  <2> QED
    BY <2>1, <2>2, <2>3, <2>4, <1>inv, <1>goal
<1>3. ASSUME NEW c \in Calls, Outside(c) PROVE EffectInv'
  BY <1>3, <1>2 DEF Outside, Claimed
<1>4. ASSUME NEW c \in Calls, GivesUp(c) PROVE EffectInv'
  BY <1>4, <1>2 DEF GivesUp, Moves
<1>5. ASSUME NEW c \in Calls, Integrates(c) PROVE EffectInv'
  BY <1>5, <1>2 DEF Integrates, Moves
<1>6. ASSUME NEW c \in Calls, Claims(c) PROVE EffectInv'
  <2>1. \A e \in Emails : record[e].state = "committed" => record'[e].state = "committed"
    BY <1>6, <1>0, <1>rec DEF Claims
  <2> QED
    BY <2>1, <1>6, <1>2 DEF Claims, Moves
<1>7. ASSUME NEW c \in Calls, Aborts(c) PROVE EffectInv'
  <2>1. record[call[c].email].state # "committed" /\ call[c].email \in Emails
    BY <1>7, <1>owner, <1>0 DEF Aborts, Claimed
  <2>2. \A e \in Emails : record[e].state = "committed" => record'[e].state = "committed"
    BY <2>1, <1>7, <1>rec DEF Aborts
  <2> QED
    BY <2>2, <1>7, <1>2 DEF Aborts, Moves
\* The lookup: the guard saw every application, or there is none to see.
<1>8. ASSUME NEW c \in Calls, Looks(c) PROVE EffectInv'
  <2>1. UNCHANGED <<record, apps, shown, lags>> /\ (Sees' => Sees)
    BY <1>8, <1>calm DEF Looks, replica
  <2>2. ASSUME call[c].at = "existing", Moves(c, "match", call[c].app),
               \A a \in 1..shown : apps[a].email # call[c].email, Sees'
        PROVE  Fresh(c)'
    <3>1. CASE lags = 0
      BY <3>1, <2>1, <2>2, <1>inv DEF Moves
    <3>2. CASE Calm
      BY <3>2, <2>1, <2>2, <1>none DEF Moves, Claimed
    <3> QED
      BY <3>1, <3>2, <2>1, <2>2
  <2>3. ASSUME call[c].at = "match", NEW a \in Nat, Moves(c, "tx", a), Sees'
        PROVE  Fresh(c)'
    BY <2>3, <2>1, <1>inv DEF Moves
  <2>4. Sees' /\ call'[c].at \in {"match", "tx"} => Fresh(c)'
    BY <2>2, <2>3, <1>8 DEF Looks, Moves
  <2>5. UNCHANGED replica /\ call[c].at # "commit" /\ \A d \in Calls \ {c} : call'[d] = call[d]
    BY <1>8 DEF Looks, Moves
  <2> QED
    BY <2>1, <2>4, <2>5, <1>2
\* The transaction: the email had no application yet.
<1>9. ASSUME NEW c \in Calls, Creates(c) PROVE EffectInv'
  <2>1. /\ Len(apps') = Len(apps) + 1
        /\ \A i \in 1..Len(apps) : apps'[i] = apps[i]
        /\ apps'[Len(apps) + 1].email = call[c].email
        /\ call[c].at = "tx" /\ UNCHANGED record
    BY <1>0, <1>9, CreateAppends DEF Creates
  <2>2. lags' = 0 => lags' = lags /\ shown' = Len(apps')
    BY <1>9, <1>0 DEF Creates
  <2>3. Sees' => Sees
    BY <2>2, <1>calm
  <2>4. \A d \in Calls \ {c} : call'[d] = call[d]
    BY <1>9 DEF Creates, Moves
  <2>5. call'[c].at \notin {"match", "tx"} /\ call'[c].email = call[c].email
        /\ (Calm' => call'[c].at = "commit")
    BY <1>9 DEF Creates, Moves
  <2>6. Sees' => Unique'
    <3> SUFFICES ASSUME Sees', NEW a \in 1..Len(apps'), NEW b \in 1..Len(apps'),
                        apps'[a].email = apps'[b].email
                 PROVE  a = b
      OBVIOUS
    <3>1. Fresh(c) /\ Unique
      BY <2>1, <2>3, <1>inv
    <3>2. /\ a \in 1..Len(apps) \/ a = Len(apps) + 1
          /\ b \in 1..Len(apps) \/ b = Len(apps) + 1
      BY <2>1, <1>0
    <3> QED
      BY <3>1, <3>2, <2>1
  <2>7. Sees' => \A d \in Calls : call'[d].at \in {"match", "tx"} => Fresh(d)'
    <3> SUFFICES ASSUME Sees', NEW d \in Calls, call'[d].at \in {"match", "tx"},
                        NEW a \in 1..Len(apps')
                 PROVE  apps'[a].email # call'[d].email
      OBVIOUS
    <3>1. d # c /\ call'[d] = call[d] /\ Fresh(d)
      BY <2>3, <2>4, <2>5, <1>inv
    <3>2. call[d].email # call[c].email
      BY <3>1, <2>1, <1>owner DEF Claimed
    <3>3. a \in 1..Len(apps) \/ a = Len(apps) + 1
      BY <2>1, <1>0
    <3> QED
      BY <3>1, <3>2, <3>3, <2>1
  <2>8. Calm' => \A a \in 1..Len(apps') : Held(a)'
    <3> SUFFICES ASSUME Calm', NEW a \in 1..Len(apps') PROVE Held(a)'
      OBVIOUS
    <3>1. a \in 1..Len(apps) \/ a = Len(apps) + 1
      BY <2>1, <1>0
    <3>2. CASE a = Len(apps) + 1
      BY <3>2, <2>1, <2>5
    <3>3. CASE a \in 1..Len(apps)
      <4>1. Held(a) /\ apps'[a] = apps[a]
        BY <3>3, <2>1, <1>calm, <1>inv
      <4>2. ASSUME NEW d \in Calls, call[d].at = "commit", call[d].email = apps[a].email
            PROVE  Held(a)'
        BY <4>1, <4>2, <2>1, <2>4
      <4> QED
        BY <4>1, <4>2, <2>1
    <3> QED
      BY <3>1, <3>2, <3>3
  <2> QED
    BY <2>2, <2>6, <2>7, <2>8, <1>goal
\* The commit: the call has the application's record until now, and the record has it then.
<1>10. ASSUME NEW c \in Calls, Commits(c) PROVE EffectInv'
  <2>1. /\ UNCHANGED <<apps, shown, lags>> /\ (Sees' => Sees)
        /\ call[c].at = "commit" /\ call[c].email \in Emails
        /\ call'[c].at \notin {"match", "tx"}
        /\ \A d \in Calls \ {c} : call'[d] = call[d]
    BY <1>10, <1>0, <1>calm DEF Commits, Moves, replica
  <2>2. /\ record'[call[c].email].state = "committed"
        /\ \A f \in Emails \ {call[c].email} : record'[f] = record[f]
    <3>1. Committed(call[c].app).state = "committed"
      BY DEF Committed
    <3>2. record' = [record EXCEPT ![call[c].email] = Committed(call[c].app)]
      BY <1>10 DEF Commits
    <3> QED
      BY <3>1, <3>2, <2>1, <1>rec
  <2>3. Calm' => \A a \in 1..Len(apps') : Held(a)'
    <3> SUFFICES ASSUME Calm', NEW a \in 1..Len(apps) PROVE Held(a)'
      BY <2>1
    <3>1. Held(a) /\ apps[a].email \in Emails
      BY <1>calm, <1>inv, <1>0
    <3>2. CASE record'[apps[a].email].state = "committed"
      BY <3>2, <2>1
    <3>3. ASSUME NEW d \in Calls, call[d].at = "commit", call[d].email = apps[a].email
          PROVE  Held(a)'
      BY <3>3, <3>1, <2>1, <2>2
    <3> QED
      BY <3>1, <3>2, <3>3, <2>2
  <2>4. Sees' => \A d \in Calls : call'[d].at \in {"match", "tx"} => Fresh(d)'
    BY <2>1, <1>inv
  <2> QED
    BY <2>1, <2>3, <2>4, <1>inv, <1>goal
<1> QED
  BY <1>1, <1>3, <1>4, <1>5, <1>6, <1>7, <1>8, <1>9, <1>10, StepEffect DEF Effect

\* A record in progress keeps its call: only the call that has claimed the record changes it, and
\* without a failure or an exit the call leaves it by a commit or an abort.
LEMMA OrphanStep ==
  ASSUME EmailAssumption, TypeInv, ClaimInv, NoOrphanedClaims, [Next]_vars
  PROVE  NoOrphanedClaims'
<1> DEFINE Has(e) == \E c \in Calls : call[c].at \in Claimed /\ call[c].email = e
<1>0. /\ TypeOK
      /\ \A c \in Calls : call[c].at # "idle" => call[c].email \in Emails
  BY DEF TypeInv, TypeOK, Call
<1>calm. (Calm' => Calm) /\ (Rests \/ \E c \in Calls : Effect(c))
  BY StepEffect
<1>inv. Calm => \A e \in Emails : record[e].state = "in progress" => Has(e)
  BY DEF NoOrphanedClaims, Calm
<1> SUFFICES ASSUME Calm', NEW e \in Emails, record'[e].state = "in progress"
             PROVE  Has(e)'
  BY DEF NoOrphanedClaims, Calm
\* A step that leaves the record of e alone, and the calls that have claimed it.
<1>keep. ASSUME NEW c \in Calls, \A d \in Calls \ {c} : call'[d] = call[d],
                record'[e] = record[e],
                \/ call[c].at \notin Claimed
                \/ call[c].email # e
                \/ call'[c].at \in Claimed /\ call'[c].email = call[c].email
         PROVE  Has(e)'
  <2>1. PICK d \in Calls : call[d].at \in Claimed /\ call[d].email = e
    BY <1>keep, <1>calm, <1>inv
  <2>2. CASE d = c
    BY <2>1, <2>2, <1>keep
  <2>3. CASE d # c
    BY <2>1, <2>3, <1>keep
  <2> QED
    BY <2>2, <2>3
\* A step that gives the record of a call's email another state.
<1>rec. ASSUME NEW c \in Calls, NEW r, record' = [record EXCEPT ![call[c].email] = r],
               call[c].email \in Emails, r.state # "in progress",
               \A d \in Calls \ {c} : call'[d] = call[d]
        PROVE  Has(e)'
  <2>1. /\ record'[call[c].email] = r
        /\ \A f \in Emails \ {call[c].email} : record'[f] = record[f]
    BY <1>0, <1>rec DEF TypeOK
  <2>2. call[c].email # e /\ record'[e] = record[e]
    BY <2>1, <1>rec
  <2> QED
    BY <2>2, <1>rec, <1>keep
<1>1. CASE Rests
  BY <1>1, <1>calm, <1>inv DEF Rests
<1>2. ASSUME NEW c \in Calls, Outside(c) PROVE Has(e)'
  BY <1>2, <1>keep DEF Outside
<1>3. ASSUME NEW c \in Calls, Claims(c) PROVE Has(e)'
  <2>1. CASE call[c].email = e
    BY <2>1, <1>3 DEF Claims, Moves, Claimed
  <2>2. CASE call[c].email # e
    <3>1. record'[e] = record[e]
      BY <2>2, <1>3, <1>0 DEF Claims, TypeOK
    <3> QED
      BY <3>1, <2>2, <1>3, <1>keep DEF Claims, Moves
  <2> QED
    BY <2>1, <2>2
<1>4. ASSUME NEW c \in Calls, Looks(c) PROVE Has(e)'
  <2>1. record'[e] = record[e]
    BY <1>4 DEF Looks
  <2>2. call'[c].at \in Claimed /\ call'[c].email = call[c].email
    BY <1>4 DEF Looks, Moves, Claimed
  <2>3. \A d \in Calls \ {c} : call'[d] = call[d]
    BY <1>4 DEF Looks, Moves
  <2> QED
    BY <2>1, <2>2, <2>3, <1>keep
<1>5. ASSUME NEW c \in Calls, GivesUp(c) PROVE Has(e)'
  BY <1>5, <1>keep DEF GivesUp, Moves, Claimed
<1>6. ASSUME NEW c \in Calls, Creates(c) PROVE Has(e)'
  BY <1>6, <1>keep DEF Creates, Moves, Claimed
<1>7. ASSUME NEW c \in Calls, Integrates(c) PROVE Has(e)'
  BY <1>7, <1>keep DEF Integrates, Moves, Claimed
<1>8. ASSUME NEW c \in Calls, Commits(c) PROVE Has(e)'
  <2>1. call[c].email \in Emails /\ \A d \in Calls \ {c} : call'[d] = call[d]
    BY <1>8, <1>0 DEF Commits, Moves
  <2> QED
    BY <2>1, <1>8, <1>rec, RecordValues DEF Commits
<1>9. ASSUME NEW c \in Calls, Aborts(c) PROVE Has(e)'
  <2>1. call[c].email \in Emails /\ \A d \in Calls \ {c} : call'[d] = call[d]
    BY <1>9, <1>0 DEF Aborts, Moves
  <2>2. record' = [record EXCEPT ![call[c].email] = Absent]
    BY <1>9 DEF Aborts
  <2> QED
    BY <2>1, <2>2, <1>rec, RecordValues
<1> HIDE DEF Has
<1> QED
  BY <1>1, <1>2, <1>3, <1>4, <1>5, <1>6, <1>7, <1>8, <1>9, <1>calm DEF Effect

-----------------------------------------------------------------------------
(* The theorems.                                                           *)

Inv == TypeInv /\ ClaimInv /\ DoneInv /\ EffectInv /\ NoOrphanedClaims

\* The invariant holds at the start.
LEMMA InitInv ==
  ASSUME EmailAssumption, Init
  PROVE  Inv
<1>1. Idle \in Call /\ Idle.at = "idle" /\ Idle.email = None
  BY DEF Idle, Call
<1>2. /\ call \in [Calls -> Call]
      /\ \A c \in Calls : call[c].at = "idle" /\ call[c].email = None
  BY <1>1 DEF Init
<1>3. apps \in Seq(Application) /\ Len(apps) = 0 /\ sent = {}
  BY DEF Init
<1>4. /\ record \in [Emails -> Record]
      /\ \A e \in Emails : record[e].state = "absent"
  BY RecordValues DEF Init
<1>5. TypeOK
  BY <1>2, <1>3, <1>4 DEF Init, TypeOK, EmailAssumption
<1>6. TypeInv /\ ClaimInv
  BY <1>2, <1>5 DEF TypeInv, KnownApp, ClaimInv, OneOwner, Claimed
<1>7. DoneInv
  BY <1>2, <1>3, <1>4 DEF DoneInv, CommittedIsDone
<1>8. EffectInv
  BY <1>2, <1>3 DEF Init, EffectInv, EffectOnce
<1>9. NoOrphanedClaims
  BY <1>4 DEF NoOrphanedClaims
<1> QED
  BY <1>6, <1>7, <1>8, <1>9 DEF Inv

\* The inductive invariant holds in every behaviour.
THEOREM InvHolds == Spec => []Inv
<1>1. Init => Inv
  BY InitInv, EmailAssumption
<1>2. Inv /\ [Next]_vars => Inv'
  BY EmailAssumption, TypeStep, ClaimStep, DoneStep, EffectStep, OrphanStep DEF Inv
<1> QED
  BY <1>1, <1>2, PTL DEF Spec

\* Records, locks, applications and calls keep their types, whatever the constants.
THEOREM TypeSafe == Spec => []TypeOK
  BY InvHolds, PTL DEF Inv, TypeInv

\* Two calls never work on one email at the same time, however many calls there are and
\* whatever the locks do: the insert of the record alone decides (claim, commit, abort).
THEOREM ClaimsExclude == Spec => []OneOwner
  BY InvHolds, PTL DEF Inv, ClaimInv

\* A committed record stands for an application that exists and has the email as its source,
\* and outcomes are recorded for such applications only (commit).
THEOREM CommitsAreTrue == Spec => []CommittedIsDone
  BY InvHolds, PTL DEF Inv, DoneInv

\* An email is the source of one application at most, for any number of calls, retries, lost
\* answers and exits if no replica lags, and on lagging replicas as long as nothing fails
\* (claim and abort with the dedup guard of processEmailForJobApplication).
THEOREM EffectsHappenOnce == Spec => []EffectOnce
  BY InvHolds, PTL DEF Inv, EffectInv

\* As long as no call fails and no process exits, a record in progress has its call, for any
\* number of calls, late replicas and locks that run out: every way out of the try block commits
\* the record or gives it back (commit, abort, the finally block).
THEOREM ClaimsAreReturned == Spec => []NoOrphanedClaims
  BY InvHolds, PTL DEF Inv
===============================================================================
