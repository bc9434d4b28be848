---------------------------- MODULE RecordsProofs ----------------------------
(***************************************************************************)
(* Theorems about machines that share no state, for any number of callers, *)
(* pods, processes, users and requests: the circuit of the calls out, the  *)
(* tokens of a connection through a rotation of keys, the place of a       *)
(* user's data, the credentials of the users, the facts of a candidate,    *)
(* the status of an application with the reports on it, and the limits of  *)
(* the routes.                                                             *)
(***************************************************************************)
EXTENDS CandidateFacts, OutboundCalls, GmailTokens, UserPlacement, UserAccounts,
        ApplicationReports, RequestLimits, NumberFacts, FiniteSetTheorems, TLAPS

-----------------------------------------------------------------------------
(* The circuit.                                                            *)

CircuitSpec == CircuitInit /\ [][CircuitNext]_circuitVars

CallerShape(b) ==
  /\ DOMAIN b = {"at", "todo", "age", "attempt", "delay"}
  /\ b.at \in {"idle", "waiting", "next"}
  /\ b.age \in 0..requestTimeout

\* Whoever still waits while the circuit is open was let through before it opened, and is at
\* least as old as that: so what may renew the rest comes within requestTimeout.
CircuitInv ==
  /\ state \in {"CLOSED", "OPEN", "HALF_OPEN"}
  /\ failureCount \in Nat /\ rest \in Nat /\ openFor \in Nat
  /\ DOMAIN caller = Callers /\ \A c \in Callers : CallerShape(caller[c])
  /\ state = "OPEN" => \A c \in Callers : caller[c].at = "waiting" => openFor <= caller[c].age
  /\ CircuitRecovers

\* The caller c changes, and no other.
CallerMoves(c, b) ==
  /\ DOMAIN caller' = Callers /\ caller'[c] = b
  /\ \A d \in Callers \ {c} : caller'[d] = caller[d]

\* A caller at rest is well formed.
LEMMA RestingShape == CallerShape(Resting) /\ Resting.at = "idle" /\ Resting.age = 0
  BY CircuitAssumption DEF CallerShape, Resting, CircuitAssumption

\* An action that fails, while a caller leaves: a caller that waited renews the rest in time.
LEMMA FailureKeeps ==
  ASSUME CircuitAssumption, CircuitInv, NEW c \in Callers, caller[c].at = "waiting",
         onFailure, Fails(c)
  PROVE  CircuitInv'
<1>1. CallerMoves(c, Resting)
  BY DEF Fails, CallerMoves, CircuitInv
<1>2. DOMAIN caller' = Callers /\ \A d \in Callers : CallerShape(caller'[d])
  BY <1>1, RestingShape DEF CallerMoves, CircuitInv
<1>3. \A d \in Callers : caller'[d].at = "waiting" => caller'[d] = caller[d]
  BY <1>1, RestingShape DEF CallerMoves
<1>4. /\ caller[c].age \in 0..requestTimeout /\ requestTimeout \in Nat /\ resetTimeout \in Nat
      /\ failureThreshold \in Nat
  BY DEF CircuitInv, CallerShape, CircuitAssumption
<1>5. /\ state' \in {"CLOSED", "OPEN", "HALF_OPEN"}
      /\ failureCount' \in Nat /\ rest' \in Nat /\ openFor' \in Nat
  BY <1>4 DEF onFailure, CircuitInv
<1>6. ASSUME state' = "OPEN"
      PROVE  /\ \A d \in Callers : caller'[d].at = "waiting" => openFor' <= caller'[d].age
             /\ openFor' + rest' <= requestTimeout + resetTimeout + 1
  <2>1. \A d \in Callers : CallerShape(caller'[d])
    BY <1>2
  <2>2. CASE state = "OPEN"
    <3>1. openFor' = openFor
      BY <2>2 DEF onFailure
    <3>2. openFor <= caller[c].age
      BY <2>2 DEF CircuitInv
    <3>3. rest' = resetTimeout + 1 \/ rest' = rest
      BY DEF onFailure
    <3>4. openFor + rest <= requestTimeout + resetTimeout + 1
      BY <2>2 DEF CircuitInv, CircuitRecovers, OpenEnds
    <3> QED
      BY <1>3, <1>4, <2>2, <3>1, <3>2, <3>3, <3>4 DEF CircuitInv
  <2>3. CASE state # "OPEN"
    <3>1. openFor' = 0 /\ rest' = resetTimeout + 1
      BY <1>6, <2>3 DEF onFailure
    <3> QED
      BY <1>4, <2>1, <3>1 DEF CallerShape
  <2> QED
    BY <2>2, <2>3
<1>7. state' = "CLOSED" => failureCount' < failureThreshold
  BY <1>4 DEF onFailure, CircuitInv, CircuitRecovers, ClosedIsBelow
<1> QED
  BY <1>2, <1>5, <1>6, <1>7 DEF CircuitInv, CircuitRecovers, OpenEnds, ClosedIsBelow

\* A call that is let through makes an open circuit half open, so that it renews no rest.
LEMMA FireKeeps ==
  ASSUME CircuitAssumption, CircuitInv, NEW c \in Callers, NEW todo, fire(c, todo)
  PROVE  CircuitInv'
<1>1. CASE state = "OPEN" /\ rest > 0
  <2>1. UNCHANGED breaker /\ Fails(c)
    BY <1>1 DEF fire, refuse
  <2>2. CallerMoves(c, Resting)
    BY <2>1 DEF Fails, CallerMoves, CircuitInv
  <2>3. DOMAIN caller' = Callers /\ \A d \in Callers : CallerShape(caller'[d])
    BY <2>2, RestingShape DEF CallerMoves, CircuitInv
  <2>4. \A d \in Callers : caller'[d].at = "waiting" => caller'[d] = caller[d]
    BY <2>2, RestingShape DEF CallerMoves
  <2> QED
    BY <2>1, <2>3, <2>4 DEF CircuitInv, CircuitRecovers, OpenEnds, ClosedIsBelow, breaker
<1>2. CASE ~(state = "OPEN" /\ rest > 0)
  <2>1. /\ state' # "OPEN" /\ state' \in {"CLOSED", "HALF_OPEN"}
        /\ state' = "CLOSED" => state = "CLOSED"
        /\ UNCHANGED <<failureCount, rest, openFor>>
        /\ caller' = [caller EXCEPT ![c] = [Resting EXCEPT !.at = "waiting", !.todo = todo]]
    BY <1>2 DEF fire, CircuitInv
  <2>2. CallerShape([Resting EXCEPT !.at = "waiting", !.todo = todo])
    BY CircuitAssumption DEF CallerShape, Resting, CircuitAssumption
  <2>3. DOMAIN caller' = Callers /\ \A d \in Callers : CallerShape(caller'[d])
    BY <2>1, <2>2 DEF CircuitInv
  <2> QED
    BY <2>1, <2>3 DEF CircuitInv, CircuitRecovers, OpenEnds, ClosedIsBelow
<1> QED
  BY <1>1, <1>2

\* Every step keeps the circuit.
LEMMA CircuitInductive ==
  ASSUME CircuitAssumption, CircuitInv, [CircuitNext]_circuitVars
  PROVE  CircuitInv'
<1>0. requestTimeout \in Nat /\ resetTimeout \in Nat /\ failureThreshold \in Nat \ {0}
  BY DEF CircuitAssumption
<1>1. ASSUME NEW c \in Callers, Ask(c) \/ Continue(c) PROVE CircuitInv'
  BY <1>1, FireKeeps DEF Ask, Continue
<1>2. ASSUME NEW c \in Callers, TimesOut(c) \/ Throws(c) PROVE CircuitInv'
  BY <1>2, FailureKeeps DEF TimesOut, Throws, Sends
<1>3. ASSUME NEW c \in Callers, Succeeds(c) PROVE CircuitInv'
  <2>1. /\ state' \in {"CLOSED", "OPEN", "HALF_OPEN"} /\ (state' = "OPEN" => state = "OPEN")
        /\ failureCount' = 0 /\ UNCHANGED <<rest, openFor>>
    BY <1>3 DEF Succeeds, onSuccess, CircuitInv
  <2>2. PICK b : /\ CallerShape(b) /\ b.at # "waiting" /\ caller' = [caller EXCEPT ![c] = b]
    <3>1. CallerShape([Resting EXCEPT !.at = "next", !.todo = Tail(caller[c].todo)])
      BY <1>0 DEF CallerShape, Resting
    <3>2. [Resting EXCEPT !.at = "next", !.todo = Tail(caller[c].todo)].at = "next"
      BY DEF Resting
    <3> QED
      BY <1>3, <3>1, <3>2, RestingShape DEF Succeeds
  <2>3. /\ DOMAIN caller' = Callers /\ \A d \in Callers : CallerShape(caller'[d])
        /\ \A d \in Callers : caller'[d].at = "waiting" => caller'[d] = caller[d]
    BY <2>2 DEF CircuitInv
  <2> QED
    BY <1>0, <2>1, <2>3 DEF CircuitInv, CircuitRecovers, OpenEnds, ClosedIsBelow
<1>4. ASSUME NEW c \in Callers, withRetry(c) PROVE CircuitInv'
  <2>1. UNCHANGED breaker
    BY <1>4 DEF withRetry
  <2>2. PICK b : /\ caller' = [caller EXCEPT ![c] = b]
                 /\ b = [caller[c] EXCEPT !.attempt = @ + 1, !.delay = 2 ^ caller[c].attempt]
    BY <1>4 DEF withRetry
  <2>3. CallerShape(b) /\ b.at = caller[c].at /\ b.age = caller[c].age
    BY <2>2 DEF CircuitInv, CallerShape
  <2>4. /\ DOMAIN caller' = Callers /\ \A d \in Callers : CallerShape(caller'[d])
        /\ \A d \in Callers : caller'[d].at = caller[d].at /\ caller'[d].age = caller[d].age
    BY <2>2, <2>3 DEF CircuitInv
  <2> QED
    BY <2>1, <2>4 DEF CircuitInv, CircuitRecovers, OpenEnds, ClosedIsBelow, breaker
<1>5. CASE CircuitTick
  <2>1. /\ UNCHANGED <<state, failureCount>>
        /\ rest' \in Nat /\ openFor' \in Nat
        /\ openFor' <= openFor + 1
        /\ state = "OPEN" => openFor' + rest' <= openFor + rest
    <3>1. UNCHANGED <<state, failureCount>> /\ rest \in Nat /\ openFor \in Nat
      BY <1>5 DEF CircuitTick, CircuitInv
    <3>2. rest' = IF rest = 0 THEN 0 ELSE rest - 1
      BY <1>5 DEF CircuitTick, Less
    <3>3. openFor' = IF state = "OPEN" /\ rest > 0 THEN openFor + 1 ELSE openFor
      BY <1>5 DEF CircuitTick
    <3>4. CASE rest = 0
      BY <3>1, <3>2, <3>3, <3>4
    <3>5. CASE rest > 0
      BY <3>1, <3>2, <3>3, <3>5
    <3> QED
      BY <3>1, <3>4, <3>5
  <2>2. \A d \in Callers :
          /\ CallerShape(caller'[d]) /\ caller'[d].at = caller[d].at
          /\ caller[d].at = "waiting" => caller'[d].age = caller[d].age + 1
    <3> SUFFICES ASSUME NEW d \in Callers
                 PROVE  /\ CallerShape(caller'[d]) /\ caller'[d].at = caller[d].at
                        /\ caller[d].at = "waiting" => caller'[d].age = caller[d].age + 1
      OBVIOUS
    <3>1. CallerShape(caller[d])
      BY DEF CircuitInv
    <3>2. CASE caller[d].at # "waiting"
      BY <1>5, <3>1, <3>2 DEF CircuitTick
    <3>3. CASE caller[d].at = "waiting"
      <4>1. caller'[d] = [caller[d] EXCEPT !.age = @ + 1, !.delay = Less(@)]
        BY <1>5, <3>3 DEF CircuitTick
      <4>2. caller[d].age < requestTimeout
        BY <1>5, <3>3 DEF CircuitTick
      <4> QED
        BY <1>0, <3>1, <3>3, <4>1, <4>2 DEF CallerShape
    <3> QED
      BY <3>2, <3>3
  <2>3. DOMAIN caller' = Callers
    BY <1>5 DEF CircuitTick
  <2>4. \A d \in Callers : caller[d].age \in Nat /\ caller'[d].age \in Nat
    BY <2>2, <1>0 DEF CircuitInv, CallerShape
  <2>5. openFor \in Nat /\ rest \in Nat
    BY DEF CircuitInv
  <2>6. state' = "OPEN" =>
          /\ \A d \in Callers : caller'[d].at = "waiting" => openFor' <= caller'[d].age
          /\ openFor' + rest' <= requestTimeout + resetTimeout + 1
    <3>1. ASSUME state' = "OPEN", NEW d \in Callers, caller'[d].at = "waiting"
          PROVE  openFor' <= caller'[d].age
      <4>1. state = "OPEN" /\ caller[d].at = "waiting"
        BY <2>1, <2>2, <3>1
      <4>2. openFor <= caller[d].age
        BY <4>1 DEF CircuitInv
      <4>3. caller'[d].age = caller[d].age + 1
        BY <2>2, <4>1
      <4> QED
        BY <2>1, <2>4, <2>5, <4>2, <4>3
    <3>2. ASSUME state' = "OPEN" PROVE openFor' + rest' <= requestTimeout + resetTimeout + 1
      <4>1. openFor + rest <= requestTimeout + resetTimeout + 1 /\ state = "OPEN"
        BY <2>1, <3>2 DEF CircuitInv, CircuitRecovers, OpenEnds
      <4>2. openFor' + rest' <= openFor + rest
        BY <2>1, <4>1
      <4>3. openFor' \in Nat /\ rest' \in Nat
        BY <2>1
      <4>4. \A x, y, a, b, m, n \in Nat :
              x + y <= a + b /\ a + b <= m + n + 1 => x + y <= m + n + 1
        OBVIOUS
      <4> QED
        BY <1>0, <2>5, <4>1, <4>2, <4>3, <4>4
    <3> QED
      BY <3>1, <3>2
  <2> QED
    BY <2>1, <2>2, <2>3, <2>6 DEF CircuitInv, CircuitRecovers, OpenEnds, ClosedIsBelow
<1>6. CASE UNCHANGED circuitVars
  BY <1>6 DEF circuitVars, breaker, CircuitInv, CircuitRecovers, OpenEnds, ClosedIsBelow,
              CallerShape
<1> QED
  BY <1>1, <1>2, <1>3, <1>4, <1>5, <1>6 DEF CircuitNext

\* An open circuit lets a call through requestTimeout + resetTimeout after it opened, however
\* many callers come and whatever answers arrive late; a closed one is short of its threshold.
THEOREM CircuitsRecover == CircuitSpec => []CircuitRecovers
<1>1. CircuitInit => CircuitInv
  BY CircuitAssumption, RestingShape
  DEF CircuitInit, CircuitInv, CircuitRecovers, OpenEnds, ClosedIsBelow, CircuitAssumption
<1>2. CircuitInv /\ [CircuitNext]_circuitVars => CircuitInv'
  BY CircuitAssumption, CircuitInductive
<1>3. CircuitInv => CircuitRecovers
  BY DEF CircuitInv
<1> QED
  BY <1>1, <1>2, <1>3, PTL DEF CircuitSpec

-----------------------------------------------------------------------------
(* The tokens.                                                             *)

TokensSpec == TokensInit /\ [][TokensNext]_tokenVars

TokenForms == {"bare", "v1", "v2"}
PodRun == [step : {"idle", "store", "refresh", "update", "mark", "reencrypt"},
           access : TokenForms, refresh : TokenForms, both : BOOLEAN]
Pod == [up : {"no", "serving", "draining", "gone"}, run : PodRun]
Connection == [access : TokenForms, refresh : TokenForms, due : BOOLEAN,
               status : {"ACTIVE", "ERROR"}]

\* The steps whose pod is about to write an access token.
Sealing == {"store", "update", "reencrypt"}

\* What a new pod is about to write is sealed with the second key.
PodOK(p, b) == p \in New /\ b.run.step \in Sealing => b.run.access = "v2"

\* A pod that is gone has nothing in hand.
GoneRests(b) == b.up = "gone" => b.run.step = "idle"

\* Nothing but new pods writes after the removal.
OldOnesAreGone == \A p \in Pods \ New : pod[p].up = "gone"

TokensInv ==
  /\ conn \in Connection /\ replica \in Connection
  /\ phase \in {"before", "rotating", "removing", "rushed"}
  /\ pod \in [Pods -> Pod] /\ \A p \in Pods : PodOK(p, pod[p]) /\ GoneRests(pod[p])
  /\ phase = "removing" => OldOnesAreGone /\ conn.access = "v2"

\* What a pod seals has a form, that of the second key when the pod is a new one.
LEMMA SealTypes ==
  ASSUME NEW p
  PROVE  Seal(p) \in TokenForms /\ (p \in New => Seal(p) = "v2")
  BY DEF Seal, Form, Active, TokenForms

\* A pod at rest has its type.
LEMMA IdlePodTypes == IdlePod \in PodRun /\ IdlePod.step = "idle"
  BY DEF IdlePod, PodRun, TokenForms

\* A pod that has not gone goes on with r.  It leaves the row, replaces a column other than the
\* access token, or writes an access token it sealed.
PodStep(p, r) ==
  /\ pod[p].up # "gone"
  /\ r \in PodRun /\ Run(p, r)
  /\ p \in New /\ r.step \in Sealing => r.access = "v2"
  /\ conn' \in Connection
  /\ conn'.access = conn.access \/ (p \in New => conn'.access = "v2")
  /\ replica' = replica /\ phase' = phase

\* A step of a pod keeps what is known of row and pods.
LEMMA RunKeeps ==
  ASSUME TokensInv, NEW p \in Pods, NEW r, PodStep(p, r)
  PROVE  TokensInv'
<1> DEFINE b == [pod[p] EXCEPT !.run = r]
<1>1. pod[p] \in Pod /\ pod[p].up # "gone" /\ conn' \in Connection
  BY DEF TokensInv, PodStep
<1>2. b \in Pod /\ b.up = pod[p].up /\ b.run = r
  BY <1>1 DEF Pod, PodStep
<1>3. PodOK(p, b) /\ GoneRests(b)
  BY <1>1, <1>2 DEF PodOK, GoneRests, PodStep
<1>4. pod' = [pod EXCEPT ![p] = b]
  BY DEF Run, PodStep
<1> HIDE DEF b
<1>5. /\ replica' = replica /\ phase' = phase
      /\ pod' \in [Pods -> Pod]
      /\ \A q \in Pods : PodOK(q, pod'[q]) /\ GoneRests(pod'[q]) /\ pod'[q].up = pod[q].up
  BY <1>2, <1>3, <1>4 DEF TokensInv, PodStep
<1>6. phase = "removing" => OldOnesAreGone'
  BY <1>5 DEF TokensInv, OldOnesAreGone
<1>7. phase = "removing" => conn'.access = "v2"
  BY <1>1 DEF TokensInv, PodStep, OldOnesAreGone
<1>8. /\ conn' \in Connection /\ replica \in Connection
      /\ phase \in {"before", "rotating", "removing", "rushed"}
  BY <1>1 DEF TokensInv
<1> QED
  BY <1>5, <1>6, <1>7, <1>8 DEF TokensInv

\* A pod starts, is told to stop, or exits: it keeps what it has in hand or loses all of it.
LEMMA LifeKeeps ==
  ASSUME TokensInv, NEW p \in Pods, NEW b \in Pod, pod' = [pod EXCEPT ![p] = b],
         b.run = pod[p].run \/ b.run = IdlePod,
         b.up = "gone" => b.run.step = "idle",
         phase = "removing" /\ pod[p].up = "gone" => b.up = "gone",
         UNCHANGED <<conn, replica, phase>>
  PROVE  TokensInv'
<1>1. PodOK(p, b) /\ GoneRests(b)
  BY IdlePodTypes DEF TokensInv, PodOK, GoneRests, Sealing
<1>2. /\ pod' \in [Pods -> Pod]
      /\ \A q \in Pods : PodOK(q, pod'[q]) /\ GoneRests(pod'[q])
  BY <1>1 DEF TokensInv
<1>3. phase = "removing" => OldOnesAreGone'
  BY DEF TokensInv, OldOnesAreGone
<1> QED
  BY <1>2, <1>3 DEF TokensInv

\* Every step keeps it.
LEMMA TokensInductive ==
  ASSUME TokensInv, [TokensNext]_tokenVars
  PROVE  TokensInv'
<1>0. /\ conn \in Connection /\ replica \in Connection
      /\ \A p \in Pods : /\ pod[p] \in Pod /\ pod[p].run \in PodRun
                         /\ PodOK(p, pod[p]) /\ GoneRests(pod[p])
  BY DEF TokensInv, Pod
<1>run. ASSUME NEW p \in Pods, pod[p].run.step # "idle"
        PROVE  pod[p].up # "gone"
  BY <1>0, <1>run DEF GoneRests
<1>idle. ASSUME NEW p \in Pods, Stop(p)
         PROVE  Run(p, IdlePod)
  BY <1>idle DEF Stop
<1>1. CASE CatchUp \/ NearExpiry \/ StartRotation \/ RemoveFirstKey
  <2>1. CASE CatchUp
    BY <2>1 DEF CatchUp, TokensInv, OldOnesAreGone
  <2>2. CASE NearExpiry
    BY <2>2 DEF NearExpiry, Write, TokensInv, Connection, OldOnesAreGone
  <2>3. CASE StartRotation
    BY <2>3 DEF StartRotation, TokensInv, OldOnesAreGone
  <2>4. CASE RemoveFirstKey
    <3>1. conn.access = "v2"
      BY <2>4 DEF RemoveFirstKey, findConnectionsForReEncryption, Stale
    <3>2. UNCHANGED <<conn, replica, pod>> /\ phase' \in {"removing", "rushed"}
      BY <2>4 DEF RemoveFirstKey
    <3>3. phase' = "removing" => OldOnesAreGone'
      BY <2>4, <3>2 DEF RemoveFirstKey, OldOnesAreGone, Pods
    <3> QED
      BY <3>1, <3>2, <3>3 DEF TokensInv
  <2> QED
    BY <1>1, <2>1, <2>2, <2>3, <2>4
<1>2. ASSUME NEW p \in Pods, Consent(p) PROVE TokensInv'
  <2>1. PICK r : /\ r = [IdlePod EXCEPT !.step = "store", !.access = Seal(p), !.refresh = Seal(p)]
                 /\ Run(p, r) /\ UNCHANGED <<conn, replica, phase>> /\ pod[p].up = "serving"
    BY <1>2 DEF Consent, KeepRow, Waits
  <2>2. r \in PodRun /\ r.access = Seal(p)
    BY <2>1, SealTypes, IdlePodTypes DEF PodRun
  <2>9. PodStep(p, r)
    BY <1>0, <2>1, <2>2, SealTypes DEF PodStep, Sealing
  <2> QED
    BY <2>9, RunKeeps
<1>3. ASSUME NEW p \in Pods, storeConnection(p) PROVE TokensInv'
  <2>1. /\ Run(p, IdlePod) /\ UNCHANGED <<replica, phase>> /\ pod[p].run.step = "store"
        /\ conn' = [access |-> pod[p].run.access, refresh |-> pod[p].run.refresh,
                    due |-> FALSE, status |-> "ACTIVE"]
    BY <1>3 DEF storeConnection, Write, Stop, Runs
  <2>2. conn' \in Connection /\ conn'.access = pod[p].run.access
    BY <1>0, <2>1 DEF Connection, PodRun
  <2>3. p \in New => conn'.access = "v2"
    BY <1>0, <2>1, <2>2 DEF PodOK, Sealing
  <2>9. PodStep(p, IdlePod)
    BY <1>0, <1>run, <2>1, <2>2, <2>3, IdlePodTypes DEF PodStep, Sealing
  <2> QED
    BY <2>9, RunKeeps
<1>4. ASSUME NEW p \in Pods, getValidAccessToken(p) PROVE TokensInv'
  <2>1. PICK r : /\ r = [IdlePod EXCEPT !.step = "refresh"]
                 /\ Run(p, r) /\ UNCHANGED <<conn, replica, phase>> /\ pod[p].up = "serving"
    BY <1>4 DEF getValidAccessToken, KeepRow, Waits
  <2>2. r \in PodRun /\ r.step \notin Sealing
    BY <2>1, IdlePodTypes DEF PodRun, Sealing
  <2>9. PodStep(p, r)
    BY <1>0, <2>1, <2>2 DEF PodStep, Sealing
  <2> QED
    BY <2>9, RunKeeps
<1>5. ASSUME NEW p \in Pods, refreshAccessToken(p) PROVE TokensInv'
  <2>0. UNCHANGED <<conn, replica, phase>> /\ pod[p].up # "gone"
    BY <1>5, <1>run DEF refreshAccessToken, KeepRow, Runs
  <2>1. CASE Stop(p)
    <3>9. PodStep(p, IdlePod)
      BY <1>0, <1>idle, <2>0, <2>1, IdlePodTypes DEF PodStep, Sealing
    <3> QED
      BY <3>9, RunKeeps
  <2>2. CASE Run(p, [IdlePod EXCEPT !.step = "update", !.access = Seal(p)])
    <3>1. PICK r : r = [IdlePod EXCEPT !.step = "update", !.access = Seal(p)] /\ Run(p, r)
      BY <2>2
    <3>3. r \in PodRun /\ r.access = Seal(p)
      BY <3>1, SealTypes, IdlePodTypes DEF PodRun
    <3>9. PodStep(p, r)
      BY <1>0, <2>0, <3>1, <3>3, SealTypes DEF PodStep, Sealing
    <3> QED
      BY <3>9, RunKeeps
  <2>3. CASE Run(p, [IdlePod EXCEPT !.step = "mark"])
    <3>1. PICK r : r = [IdlePod EXCEPT !.step = "mark"] /\ Run(p, r)
      BY <2>3
    <3>2. r \in PodRun /\ r.step \notin Sealing
      BY <3>1, IdlePodTypes DEF PodRun, Sealing
    <3>9. PodStep(p, r)
      BY <1>0, <2>0, <3>1, <3>2 DEF PodStep, Sealing
    <3> QED
      BY <3>9, RunKeeps
  <2> QED
    BY <1>5, <2>1, <2>2, <2>3 DEF refreshAccessToken
<1>6. ASSUME NEW p \in Pods, UpdateAccess(p) PROVE TokensInv'
  <2>1. /\ Run(p, IdlePod) /\ UNCHANGED <<replica, phase>> /\ pod[p].run.step = "update"
        /\ conn' = [conn EXCEPT !.access = pod[p].run.access, !.due = FALSE, !.status = "ACTIVE"]
    BY <1>6 DEF UpdateAccess, Write, Stop, Runs
  <2>2. conn' \in Connection /\ conn'.access = pod[p].run.access
    BY <1>0, <2>1 DEF Connection, PodRun
  <2>3. p \in New => conn'.access = "v2"
    BY <1>0, <2>1, <2>2 DEF PodOK, Sealing
  <2>9. PodStep(p, IdlePod)
    BY <1>0, <1>run, <2>1, <2>2, <2>3, IdlePodTypes DEF PodStep, Sealing
  <2> QED
    BY <2>9, RunKeeps
<1>7. ASSUME NEW p \in Pods, MarkError(p) PROVE TokensInv'
  <2>1. /\ Run(p, IdlePod) /\ UNCHANGED <<replica, phase>> /\ pod[p].run.step = "mark"
        /\ conn' = [conn EXCEPT !.status = "ERROR"]
    BY <1>7 DEF MarkError, Write, Stop, Runs
  <2>2. conn' \in Connection /\ conn'.access = conn.access
    BY <1>0, <2>1 DEF Connection
  <2>9. PodStep(p, IdlePod)
    BY <1>0, <1>run, <2>1, <2>2, IdlePodTypes DEF PodStep, Sealing
  <2> QED
    BY <2>9, RunKeeps
<1>8. ASSUME NEW p \in Pods, processReEncryptionJob(p) PROVE TokensInv'
  <2> DEFINE Moved(form) == IF Key(form) = 2 THEN form ELSE Seal(p)
  <2>1. PICK r : /\ r = [step |-> "reencrypt", both |-> Key(replica.refresh) # 2,
                         access |-> Moved(replica.access), refresh |-> Moved(replica.refresh)]
                 /\ Run(p, r) /\ UNCHANGED <<conn, replica, phase>>
                 /\ p \in New /\ pod[p].up = "serving"
    BY <1>8 DEF processReEncryptionJob, KeepRow, Waits, Active
  <2>2. ASSUME NEW form \in TokenForms PROVE Moved(form) \in TokenForms /\ Moved(form) = "v2"
    BY <2>1, <2>2, SealTypes DEF Key, TokenForms
  <2>3. replica.access \in TokenForms /\ replica.refresh \in TokenForms
    BY <1>0 DEF Connection
  <2> HIDE DEF Moved
  <2>4. r \in PodRun /\ r.access = "v2"
    BY <2>1, <2>2, <2>3 DEF PodRun
  <2>9. PodStep(p, r)
    BY <1>0, <2>1, <2>4 DEF PodStep, Sealing
  <2> QED
    BY <2>9, RunKeeps
<1>9. ASSUME NEW p \in Pods, UpdateReEncrypted(p) PROVE TokensInv'
  <2>1. /\ Run(p, IdlePod) /\ UNCHANGED <<replica, phase>> /\ pod[p].run.step = "reencrypt"
        /\ conn' = [conn EXCEPT !.access = pod[p].run.access,
                                !.refresh = IF pod[p].run.both THEN pod[p].run.refresh ELSE @]
    BY <1>9 DEF UpdateReEncrypted, Write, Stop, Runs
  <2>2. conn' \in Connection /\ conn'.access = pod[p].run.access
    BY <1>0, <2>1 DEF Connection, PodRun
  <2>3. p \in New => conn'.access = "v2"
    BY <1>0, <2>1, <2>2 DEF PodOK, Sealing
  <2>9. PodStep(p, IdlePod)
    BY <1>0, <1>run, <2>1, <2>2, <2>3, IdlePodTypes DEF PodStep, Sealing
  <2> QED
    BY <2>9, RunKeeps
<1>10. ASSUME NEW p \in Pods, Deploy(p) \/ Terminate(p) \/ gracefulShutdown(p) \/ Exit(p)
       PROVE  TokensInv'
  <2>1. ASSUME NEW u \in {"serving", "draining", "gone"}, pod' = [pod EXCEPT ![p].up = u],
               UNCHANGED <<conn, replica, phase>>, pod[p].up # "gone",
               u = "gone" => pod[p].run.step = "idle"
        PROVE  TokensInv'
    <3> DEFINE b == [pod[p] EXCEPT !.up = u]
    <3>1. b \in Pod /\ b.run = pod[p].run /\ b.up = u
      BY <1>0, <2>1 DEF Pod
    <3>2. pod' = [pod EXCEPT ![p] = b]
      BY <2>1
    <3> HIDE DEF b
    <3> QED
      BY <2>1, <3>1, <3>2, LifeKeeps
  <2>2. CASE Deploy(p)
    BY <2>1, <2>2 DEF Deploy
  <2>3. CASE Terminate(p)
    BY <2>1, <2>3 DEF Terminate
  <2>4. CASE gracefulShutdown(p)
    BY <2>1, <2>4 DEF gracefulShutdown
  <2>5. CASE Exit(p)
    <3> DEFINE b == [up |-> IF pod[p].up = "serving" /\ FirstKeyIsSet THEN "serving" ELSE "gone",
                     run |-> IdlePod]
    <3>1. b \in Pod /\ b.run = IdlePod /\ b.run.step = "idle"
      BY IdlePodTypes DEF Pod
    <3>2. pod' = [pod EXCEPT ![p] = b] /\ UNCHANGED <<conn, replica, phase>> /\ pod[p].up # "gone"
      BY <2>5 DEF Exit
    <3> HIDE DEF b
    <3> QED
      BY <3>1, <3>2, LifeKeeps
  <2> QED
    BY <1>10, <2>2, <2>3, <2>4, <2>5
<1>11. CASE UNCHANGED tokenVars
  BY <1>11 DEF tokenVars, TokensInv, OldOnesAreGone
<1> QED
  BY <1>1, <1>2, <1>3, <1>4, <1>5, <1>6, <1>7, <1>8, <1>9, <1>10, <1>11 DEF TokensNext

\* Once the search is empty and the pods with the first key alone are gone, the access token
\* stays under the second key, for any number of pods of either kind and whatever refreshes,
\* consents and re-encryption jobs the drained pods left behind or the new ones have under way.
THEOREM AccessStaysUnderTheNewKey == TokensSpec => []AccessStaysMoved
<1>1. TokensInit => TokensInv
  BY IdlePodTypes
  DEF TokensInit, TokensInv, Connection, PodOK, GoneRests, Pod, TokenForms, Sealing
<1>2. TokensInv /\ [TokensNext]_tokenVars => TokensInv'
  BY TokensInductive
<1>3. TokensInv => AccessStaysMoved
  BY DEF TokensInv, AccessStaysMoved, Key
<1> QED
  BY <1>1, <1>2, <1>3, PTL DEF TokensSpec

-----------------------------------------------------------------------------
(* Where a user's data lives.                                              *)

PlacementSpec == PlacementInit /\ [][PlacementNext]_placementVars

Homes == [region : Regions, residency : Regions]
Asked == {"redis", "db", "store", "move", "invalidate"}

\* A region the user was in within the last age ticks, and the default while nobody has moved.
WithinAge(r, age) == r \in Regions /\ gone[r] <= age /\ (moves = 0 => r = DefaultRegion)

PlaceOK(row) ==
  row # NoHome =>
    /\ row \in Homes
    /\ moves = 0 => row.region = DefaultRegion
    /\ row.residency # row.region => early

\* A process that has read the row carries a region at most a tick older than the replica.
CallOK(a) ==
  /\ a \in [at : {"", "create"} \cup Asked,
            for : {"", "publish", "work", "route", "both", "region"},
            ctx : Regions \cup {""}, old : BOOLEAN]
  /\ a.at = "create" => DefaultRegion \in cells
  /\ a.at \in Asked => home # NoHome
  /\ a.at = "store" => WithinAge(a.ctx, IF a.old THEN 2 ELSE 1)
  /\ a.at \in {"move", "invalidate"} => moves > 0
  /\ a.at = "move" /\ a.for # "both" => early
  /\ a.for = "work" => cellJob.state # "none"

RedisOK(e) ==
  e # Nothing => /\ e.left \in 0..RedisTtl
                 /\ WithinAge(e.ctx, 2 + RedisTtl - e.left)

ProcessOK(e) ==
  /\ e.left \in 0..InProcessTtl
  /\ e.left > 0 => WithinAge(e.ctx, Limit - e.left)

JobOK(j) ==
  /\ j \in [cell : Regions \cup {""}, tried : Nat, state : {"none", "waiting", "done", "dead"}]
  /\ moves = 0 /\ j.state # "none" => j.cell = DefaultRegion /\ j.state # "dead"

Rows ==
  /\ gone \in [Regions -> 0..(Limit + 1)] /\ moves \in Nat /\ early \in BOOLEAN
  /\ PlaceOK(home) /\ PlaceOK(homeShown)
  /\ home = NoHome => homeShown = NoHome
  /\ home # NoHome => gone[home.region] = 0 /\ DefaultRegion \in cells
  /\ gone[ShownRegion] <= 1

Copies ==
  /\ RedisOK(inRedis)
  /\ DOMAIN inProcess = Hosts /\ \A h \in Hosts : ProcessOK(inProcess[h])

Calls == DOMAIN asking = Hosts /\ \A h \in Hosts : CallOK(asking[h])

PlacementInv == Rows /\ Copies /\ Calls /\ JobOK(cellJob)

\* What every step but a tick does to the world a call looks at: an age falls to 0 or stays,
\* and nothing that was there goes away.
WorldMoves ==
  /\ gone' \in [Regions -> 0..(Limit + 1)] /\ \A r \in Regions : gone'[r] <= gone[r]
  /\ moves \in Nat /\ moves' \in Nat /\ moves <= moves'
  /\ early => early'
  /\ home # NoHome => home' # NoHome
  /\ cells \subseteq cells'
  /\ cellJob.state # "none" => cellJob'.state # "none"

\* The oldest a placement may be, in numbers.
LEMMA LimitIsNat == Limit \in Nat /\ Limit = 2 + RedisTtl + InProcessTtl /\ RedisTtl \in Nat
                      /\ InProcessTtl \in Nat \ {0}
BY TtlsAreTicks DEF Limit

\* The world moves on and no age grows by it.
LEMMA AgesStay ==
  ASSUME Rows, WorldMoves, NEW r, NEW age \in Int, WithinAge(r, age)
  PROVE  WithinAge(r, age)'
<1>1. r \in Regions /\ gone[r] \in Int /\ gone'[r] \in Int /\ gone'[r] <= gone[r] /\ gone[r] <= age
  BY LimitIsNat DEF Rows, WorldMoves, WithinAge
<1>2. gone'[r] <= age
  BY <1>1
<1>3. moves' = 0 => moves = 0
  BY DEF WorldMoves
<1> QED
  BY <1>1, <1>2, <1>3 DEF WithinAge

\* A call that is not stale is not made stale by a step of the world,
LEMMA CallStays ==
  ASSUME Rows, WorldMoves, NEW a, CallOK(a)
  PROVE  CallOK(a)'
<1>1. a.at = "store" => WithinAge(a.ctx, IF a.old THEN 2 ELSE 1)'
  <2>1. a.at = "store" => WithinAge(a.ctx, IF a.old THEN 2 ELSE 1)
    BY DEF CallOK
  <2> QED
    BY <2>1, AgesStay
<1>2. a.at \in {"move", "invalidate"} => moves' > 0
  <2>1. moves > 0 => moves' > 0
    BY DEF WorldMoves
  <2> QED
    BY <2>1 DEF CallOK
<1> QED
  BY <1>1, <1>2 DEF CallOK, WorldMoves

\* nor is a copy in Redis or in a process,
LEMMA CopiesStay ==
  ASSUME Rows, WorldMoves, NEW e
  PROVE  (RedisOK(e) => RedisOK(e)') /\ (ProcessOK(e) => ProcessOK(e)')
<1>1. ASSUME RedisOK(e) PROVE RedisOK(e)'
  BY <1>1, LimitIsNat, AgesStay DEF RedisOK
<1>2. ASSUME ProcessOK(e) PROVE ProcessOK(e)'
  BY <1>2, LimitIsNat, AgesStay DEF ProcessOK
<1> QED
  BY <1>1, <1>2

\* One call goes on, and the others see a world that only grew.
LEMMA CallsKeep ==
  ASSUME Rows, Calls, WorldMoves, NEW h \in Hosts, NEW b, CallOK(b)',
         asking' = [asking EXCEPT ![h] = b]
  PROVE  Calls'
<1>1. ASSUME NEW g \in Hosts PROVE CallOK(asking[g])'
  <2>1. CASE g = h
    BY <2>1 DEF Calls
  <2>2. CASE g # h
    <3>1. asking'[g] = asking[g] /\ CallOK(asking[g])
      BY <2>2 DEF Calls
    <3>2. PICK a : a = asking[g]
      OBVIOUS
    <3>3. CallOK(a)'
      BY <3>1, <3>2, CallStays
    <3> QED
      BY <3>1, <3>2, <3>3
  <2> QED
    BY <2>1, <2>2
<1> QED
  BY <1>1 DEF Calls

\* so that the copies are sound when each new one is.
LEMMA CopiesKeep ==
  ASSUME Rows, Copies, WorldMoves, DOMAIN inProcess' = Hosts,
         UNCHANGED inRedis \/ RedisOK(inRedis)',
         \A h \in Hosts : inProcess'[h] = inProcess[h] \/ ProcessOK(inProcess[h])'
  PROVE  Copies'
<1>1. RedisOK(inRedis)'
  <2>1. CASE UNCHANGED inRedis
    <3>1. PICK e : e = inRedis
      OBVIOUS
    <3>2. RedisOK(e)'
      BY <3>1, CopiesStay DEF Copies
    <3> QED
      BY <2>1, <3>1, <3>2
  <2> QED
    BY <2>1
<1>2. ASSUME NEW h \in Hosts PROVE ProcessOK(inProcess[h])'
  <2>1. CASE inProcess'[h] = inProcess[h]
    <3>1. PICK e : e = inProcess[h]
      OBVIOUS
    <3>2. ProcessOK(e)'
      BY <3>1, CopiesStay DEF Copies
    <3> QED
      BY <2>1, <3>1, <3>2
  <2> QED
    BY <2>1
<1> QED
  BY <1>1, <1>2 DEF Copies

\* What a call does with the region it is told.
LEMMA ToldKeeps ==
  ASSUME Rows, JobOK(cellJob), NEW purpose, NEW ctx \in Regions, Told(purpose, ctx),
         moves = 0 => ctx = DefaultRegion, home # NoHome,
         purpose = "work" => cellJob.state # "none", KeepPlace
  PROVE  JobOK(cellJob)' /\ WorldMoves /\ Rows'
<1>0. DefaultRegion \in cells /\ moves \in Nat
  BY DEF Rows
<1>1. CASE purpose = "publish" /\ Publish(ctx) /\ UNCHANGED cells
  <2>1. cellJob' = [cell |-> ctx, tried |-> 0, state |-> "waiting"] /\ moves' = moves
    BY <1>1 DEF Publish, NoJob, KeepPlace
  <2>2. JobOK(cellJob)' /\ cellJob'.state # "none" /\ cells' = cells
    BY <2>1, <1>1 DEF JobOK
  <2> QED
    BY <2>2, LimitIsNat DEF WorldMoves, KeepPlace, Rows, PlaceOK, ShownRegion
<1>2. CASE purpose = "work" /\ WorkIn(ctx) /\ UNCHANGED cells
  <2>1. JobOK(cellJob)' /\ cellJob'.state # "none" /\ cells' = cells
    <3>1. moves' = moves /\ cellJob.state # "none"
      BY <1>2 DEF KeepPlace
    <3>2. CASE ensureRoutable(ctx) /\ cellJob.cell = ctx
      BY <1>2, <3>1, <3>2 DEF JobOK, WorkIn
    <3>3. CASE ~(ensureRoutable(ctx) /\ cellJob.cell = ctx)
      <4>1. moves # 0
        BY <1>0, <3>1, <3>3 DEF JobOK, ensureRoutable
      <4>2. cellJob' = [cellJob EXCEPT !.tried = @ + 1, !.state =
                          IF cellJob.tried + 1 < JobAttempts THEN @ ELSE "dead"]
        BY <1>2, <3>3 DEF WorkIn
      <4>3. PICK s : /\ s = IF cellJob.tried + 1 < JobAttempts THEN cellJob.state ELSE "dead"
                     /\ cellJob' = [cellJob EXCEPT !.tried = @ + 1, !.state = s]
        BY <4>2 DEF JobOK
      <4>4. s # "none" /\ s \in {"waiting", "done", "dead"}
        BY <3>1, <4>3 DEF JobOK
      <4>5. cellJob' = [cell |-> cellJob.cell, tried |-> cellJob.tried + 1, state |-> s]
        BY <4>3 DEF JobOK
      <4>6. cellJob.cell \in Regions \cup {""}
        BY DEF JobOK
      <4>7. PICK n \in Nat : cellJob.tried = n
        BY DEF JobOK
      <4>8. n + 1 \in Nat
        OBVIOUS
      <4> QED
        BY <1>2, <3>1, <4>1, <4>4, <4>5, <4>6, <4>7, <4>8 DEF JobOK
    <3> QED
      BY <3>2, <3>3
  <2> QED
    BY <2>1, LimitIsNat DEF WorldMoves, KeepPlace, Rows, PlaceOK, ShownRegion
<1>3. CASE purpose = "route" /\ resolveUserHomeCell(ctx) /\ UNCHANGED cellJob
  <2>1. JobOK(cellJob)' /\ cells' = cells \cup {ctx} /\ UNCHANGED cellJob
    BY <1>3 DEF JobOK, resolveUserHomeCell, KeepPlace
  <2> QED
    BY <2>1, LimitIsNat DEF WorldMoves, KeepPlace, Rows, PlaceOK, ShownRegion
<1> QED
  BY <1>1, <1>2, <1>3 DEF Told

\* Nothing happens to the job, nor to the rows.
LEMMA JobStays ==
  ASSUME JobOK(cellJob), UNCHANGED cellJob, moves' = 0 => moves = 0
  PROVE  JobOK(cellJob)'
BY DEF JobOK

\* A step that touches neither moves nor jobs is a step of the world.
LEMMA WorldStays ==
  ASSUME Rows, UNCHANGED <<gone, moves, early, cellJob>>, home # NoHome => home' # NoHome,
         cells \subseteq cells'
  PROVE  WorldMoves
<1>1. \A r \in Regions : gone[r] \in Int
  BY LimitIsNat DEF Rows
<1>2. gone \in [Regions -> 0..(Limit + 1)] /\ moves \in Nat
  BY DEF Rows
<1> QED
  BY <1>1, <1>2 DEF WorldMoves

\* A process that is told nothing keeps the job of the cell.
LEMMA ToldNothingKeeps ==
  ASSUME Rows, JobOK(cellJob), KeepPlace, ToldNothing
  PROVE  JobOK(cellJob)' /\ WorldMoves /\ Rows'
<1>1. /\ UNCHANGED <<home, homeShown, gone, early, moves, cellJob, cells>>
      /\ gone \in [Regions -> 0..(Limit + 1)] /\ moves \in Nat
  BY DEF KeepPlace, ToldNothing, Rows
<1>2. JobOK(cellJob)'
  BY <1>1 DEF JobOK
<1>3. WorldMoves
  BY <1>1, LimitIsNat DEF WorldMoves
<1>4. Rows'
  BY <1>1 DEF Rows, PlaceOK, ShownRegion
<1> QED
  BY <1>2, <1>3, <1>4

\* A call that is over.
LEMMA SilenceKeeps ==
  ASSUME Rows, Calls, WorldMoves, NEW h \in Hosts, asking' = [asking EXCEPT ![h] = Silence]
  PROVE  Calls'
<1>1. PICK b : b = Silence
  OBVIOUS
<1>2. CallOK(b)'
  BY <1>1 DEF CallOK, Silence, Asked
<1> QED
  BY <1>1, <1>2, CallsKeep


\* Every step keeps the placement.
LEMMA PlacementInductive ==
  ASSUME PlacementInv, [PlacementNext]_placementVars
  PROVE  PlacementInv'
<1>0. /\ Rows /\ Copies /\ Calls /\ JobOK(cellJob)
      /\ \A h \in Hosts : CallOK(asking[h]) /\ ProcessOK(inProcess[h])
      /\ DOMAIN inProcess = Hosts /\ DOMAIN asking = Hosts
      /\ Limit \in Nat /\ moves \in Nat /\ gone \in [Regions -> 0..(Limit + 1)]
      /\ DefaultRegion \in Regions /\ 0 \in 0..(Limit + 1)
  BY LimitIsNat, DefaultIsSupported DEF PlacementInv, Rows, Copies, Calls
<1> USE <1>0
<1>1. ASSUME NEW h \in Hosts, GetOrCreateCell(h) PROVE PlacementInv'
  <2>1. /\ UNCHANGED <<home, homeShown, inRedis, inProcess, cellJob, gone, early, moves>>
        /\ cells' = cells \cup {DefaultRegion}
        /\ asking' = [asking EXCEPT ![h] = [Silence EXCEPT !.at = "create"]]
    BY <1>1 DEF GetOrCreateCell, RegionAtCreation
  <2>2. WorldMoves /\ Rows' /\ JobOK(cellJob)'
    <3>1. WorldMoves /\ JobOK(cellJob)'
      BY <2>1, WorldStays, JobStays
    <3>2. Rows'
      BY <2>1 DEF Rows, PlaceOK, ShownRegion
    <3> QED
      BY <3>1, <3>2
  <2>3. PICK b : b = [Silence EXCEPT !.at = "create"]
    OBVIOUS
  <2>4. CallOK(b)'
    BY <2>1, <2>3 DEF CallOK, Silence, Asked
  <2>5. Calls'
    BY <2>1, <2>2, <2>3, <2>4, CallsKeep
  <2>6. Copies'
    BY <2>1, <2>2, CopiesKeep
  <2> QED
    BY <2>2, <2>5, <2>6 DEF PlacementInv
<1>2. ASSUME NEW h \in Hosts, CreateUser(h) PROVE PlacementInv'
  <2>1. /\ UNCHANGED <<homeShown, cells, inRedis, inProcess, cellJob, early, moves>>
        /\ asking' = [asking EXCEPT ![h] = Silence] /\ DefaultRegion \in cells
    BY <1>2 DEF CreateUser, CallOK
  <2>2. WorldMoves /\ Rows'
    <3>1. CASE home # NoHome
      <4>1. UNCHANGED <<home, gone>>
        BY <1>2, <3>1 DEF CreateUser
      <4> QED
        BY <2>1, <4>1 DEF WorldMoves, Rows, PlaceOK, ShownRegion
    <3>2. CASE home = NoHome
      <4>1. /\ home' = [region |-> DefaultRegion, residency |-> DefaultRegion]
            /\ gone' = [gone EXCEPT ![DefaultRegion] = 0]
        BY <1>2, <3>2 DEF CreateUser, RegionAtCreation
      <4>2. gone' \in [Regions -> 0..(Limit + 1)] /\ gone'[DefaultRegion] = 0
            /\ \A r \in Regions : gone'[r] <= gone[r]
        BY <4>1
      <4>3. homeShown' = NoHome /\ ShownRegion' = DefaultRegion
        BY <2>1, <3>2 DEF Rows, ShownRegion, computeFallbackContext
      <4>4. PlaceOK(home)' /\ home' # NoHome /\ home'.region = DefaultRegion
        BY <4>1, RegionsHaveNames DEF PlaceOK, Homes, NoHome
      <4>5. WorldMoves
        BY <2>1, <3>2, <4>2, <4>4 DEF WorldMoves
      <4>6. early' \in BOOLEAN /\ PlaceOK(homeShown)'
        BY <2>1, <4>3 DEF Rows, PlaceOK
      <4> QED
        BY <2>1, <4>2, <4>3, <4>4, <4>5, <4>6 DEF Rows
    <3> QED
      BY <3>1, <3>2
  <2>3. Calls'
    BY <2>1, <2>2, SilenceKeeps
  <2>4. Copies' /\ JobOK(cellJob)'
    <3>1. JobOK(cellJob)'
      BY <2>1, JobStays
    <3> QED
      BY <2>1, <2>2, <3>1, CopiesKeep
  <2> QED
    BY <2>2, <2>3, <2>4 DEF PlacementInv
<1>3. ASSUME NEW h \in Hosts, NEW purpose \in Purposes(h), AskPlacement(h, purpose)
      PROVE  PlacementInv'
  <2>1. /\ KeepPlace /\ UNCHANGED inRedis /\ home # NoHome
        /\ purpose = "work" => cellJob.state = "waiting"
        /\ purpose \in {"publish", "work", "route"}
    BY <1>3 DEF AskPlacement, Purposes
  <2>2. CASE readInProcess(h) /\ Told(purpose, inProcess[h].ctx) /\ UNCHANGED <<asking, inProcess>>
    <3>1. PICK ctx : ctx = inProcess[h].ctx
      OBVIOUS
    <3>2. ctx \in Regions /\ (moves = 0 => ctx = DefaultRegion)
      BY <2>2, <3>1 DEF ProcessOK, readInProcess, WithinAge
    <3>3. JobOK(cellJob)' /\ WorldMoves /\ Rows'
      BY <2>1, <2>2, <3>1, <3>2, ToldKeeps
    <3>4. PICK b : b = asking[h]
      OBVIOUS
    <3>5. CallOK(b)'
      BY <3>3, <3>4, CallStays
    <3>6. asking' = [asking EXCEPT ![h] = b] \/ UNCHANGED asking
      BY <2>2
    <3>7. Calls'
      <4>1. ASSUME NEW g \in Hosts PROVE CallOK(asking[g])'
        <5>1. PICK a : a = asking[g]
          OBVIOUS
        <5>2. CallOK(a)'
          BY <3>3, <5>1, CallStays
        <5> QED
          BY <2>2, <5>1, <5>2
      <4> QED
        BY <2>2, <4>1 DEF Calls
    <3>8. Copies'
      BY <2>1, <2>2, <3>3, CopiesKeep
    <3> QED
      BY <3>3, <3>7, <3>8 DEF PlacementInv
  <2>3. CASE /\ asking' = [asking EXCEPT ![h] = [Silence EXCEPT !.at = "redis", !.for = purpose]]
             /\ ToldNothing /\ UNCHANGED inProcess
    <3>1. JobOK(cellJob)' /\ WorldMoves /\ Rows' /\ home' # NoHome /\ cellJob' = cellJob
      BY <2>1, <2>3, ToldNothingKeeps DEF KeepPlace, ToldNothing
    <3>2. PICK b : b = [Silence EXCEPT !.at = "redis", !.for = purpose]
      OBVIOUS
    <3>3. CallOK(b)'
      BY <2>1, <3>1, <3>2 DEF CallOK, Silence, Asked
    <3>4. Calls'
      BY <2>3, <3>1, <3>2, <3>3, CallsKeep
    <3>5. Copies'
      BY <2>1, <2>3, <3>1, CopiesKeep
    <3> QED
      BY <3>1, <3>4, <3>5 DEF PlacementInv
  <2> QED
    BY <1>3, <2>2, <2>3 DEF AskPlacement
<1>4. ASSUME NEW h \in Hosts, ReadCached(h) PROVE PlacementInv'
  <2>1. /\ KeepPlace /\ UNCHANGED inRedis /\ asking[h].at = "redis" /\ home # NoHome
        /\ asking[h].for = "work" => cellJob.state # "none"
    BY <1>4 DEF ReadCached, CallOK, Asked
  <2>2. CASE /\ inRedis # Nothing
             /\ writeInProcess(h, inRedis.ctx) /\ Told(asking[h].for, inRedis.ctx)
             /\ asking' = [asking EXCEPT ![h] = Silence]
    <3>1. PICK ctx, left : ctx = inRedis.ctx /\ left = inRedis.left
      OBVIOUS
    <3>2. left \in 0..RedisTtl /\ WithinAge(ctx, 2 + RedisTtl - left)
      BY <2>2, <3>1 DEF Copies, RedisOK
    <3>3. ctx \in Regions /\ gone[ctx] <= 2 + RedisTtl /\ (moves = 0 => ctx = DefaultRegion)
      BY <3>2, LimitIsNat DEF WithinAge
    <3>4. JobOK(cellJob)' /\ WorldMoves /\ Rows'
      BY <2>1, <2>2, <3>1, <3>3, ToldKeeps
    <3>5. Calls'
      BY <2>2, <3>4, SilenceKeeps
    <3>6. PICK e : e = [ctx |-> ctx, left |-> InProcessTtl]
      OBVIOUS
    <3>7. ProcessOK(e)
      BY <3>3, <3>6, LimitIsNat DEF ProcessOK, WithinAge
    <3>8. ProcessOK(e)' /\ inProcess' = [inProcess EXCEPT ![h] = e]
      BY <2>2, <3>1, <3>4, <3>6, <3>7, CopiesStay DEF writeInProcess
    <3>9. Copies'
      BY <2>1, <3>4, <3>8, CopiesKeep
    <3> QED
      BY <3>4, <3>5, <3>9 DEF PlacementInv
  <2>3. CASE asking' = [asking EXCEPT ![h].at = "db"] /\ ToldNothing /\ UNCHANGED inProcess
    <3>1. JobOK(cellJob)' /\ WorldMoves /\ Rows'
      BY <2>1, <2>3, ToldNothingKeeps
    <3>2. PICK b : b = [asking[h] EXCEPT !.at = "db"]
      OBVIOUS
    <3>3. CallOK(b)
      BY <2>1, <3>2 DEF CallOK, Asked
    <3>4. CallOK(b)'
      BY <3>1, <3>3, CallStays
    <3>5. Calls' /\ Copies'
      BY <2>1, <2>3, <3>1, <3>2, <3>4, CallsKeep, CopiesKeep
    <3> QED
      BY <3>1, <3>5 DEF PlacementInv
  <2> QED
    BY <1>4, <2>2, <2>3 DEF ReadCached
<1>5. ASSUME NEW h \in Hosts, readFromDatabase(h) PROVE PlacementInv'
  <2>1. /\ KeepPlace /\ ToldNothing /\ UNCHANGED <<inRedis, inProcess>> /\ asking[h].at = "db"
        /\ asking' = [asking EXCEPT ![h].at = "store", ![h].ctx = ShownRegion]
    BY <1>5 DEF readFromDatabase
  <2>2. JobOK(cellJob)' /\ WorldMoves /\ Rows'
    BY <2>1, ToldNothingKeeps
  <2>3. PICK b : b = [asking[h] EXCEPT !.at = "store", !.ctx = ShownRegion]
    OBVIOUS
  <2>4. WithinAge(ShownRegion, 1) /\ gone[ShownRegion] \in Nat
    BY DEF Rows, WithinAge, ShownRegion, PlaceOK, Homes, computeFallbackContext
  <2>5. WithinAge(ShownRegion, 2) /\ ShownRegion \in Regions
    BY <2>4 DEF WithinAge
  <2>6. CallOK(b)
    BY <2>1, <2>3, <2>4, <2>5 DEF CallOK, Asked
  <2>7. CallOK(b)'
    BY <2>2, <2>6, CallStays
  <2>8. Calls' /\ Copies'
    BY <2>1, <2>2, <2>3, <2>7, CallsKeep, CopiesKeep
  <2> QED
    BY <2>2, <2>8 DEF PlacementInv
<1>6. ASSUME NEW h \in Hosts, StoreCached(h) PROVE PlacementInv'
  <2>1. PICK ctx, purpose :
          /\ KeepPlace /\ asking[h].at = "store" /\ ctx = asking[h].ctx /\ purpose = asking[h].for
          /\ inRedis' = [ctx |-> ctx, left |-> RedisTtl] \/ UNCHANGED inRedis
          /\ inProcess' = [inProcess EXCEPT ![h] = [ctx |-> ctx, left |-> InProcessTtl]]
          /\ Told(purpose, ctx) /\ asking' = [asking EXCEPT ![h] = Silence]
    BY <1>6 DEF StoreCached, writeInProcess
  <2>2. /\ WithinAge(ctx, IF asking[h].old THEN 2 ELSE 1) /\ home # NoHome
        /\ purpose = "work" => cellJob.state # "none"
    BY <2>1 DEF CallOK, Asked
  <2>3. WithinAge(ctx, 2) /\ ctx \in Regions /\ (moves = 0 => ctx = DefaultRegion)
    <3>1. ctx \in Regions /\ gone[ctx] \in Nat
      BY <2>2 DEF WithinAge
    <3> QED
      BY <2>2, <3>1 DEF WithinAge
  <2>4. JobOK(cellJob)' /\ WorldMoves /\ Rows'
    BY <2>1, <2>2, <2>3, ToldKeeps
  <2>5. Calls'
    BY <2>1, <2>4, SilenceKeeps
  <2>6. PICK e, f : e = [ctx |-> ctx, left |-> RedisTtl] /\ f = [ctx |-> ctx, left |-> InProcessTtl]
    OBVIOUS
  <2>7. RedisOK(e) /\ ProcessOK(f)
    BY <2>3, <2>6, LimitIsNat DEF RedisOK, ProcessOK, WithinAge
  <2>8. RedisOK(e)' /\ ProcessOK(f)'
    BY <2>4, <2>7, CopiesStay
  <2>9. Copies'
    BY <2>1, <2>4, <2>6, <2>8, CopiesKeep
  <2> QED
    BY <2>4, <2>5, <2>9 DEF PlacementInv
<1>7. ASSUME NEW h \in Hosts, BeginMove(h) PROVE PlacementInv'
  <2>1. PICK b :
          /\ home # NoHome /\ early' = (early \/ homeShown = NoHome) /\ moves' = moves + 1
          /\ b = [Silence EXCEPT !.at = "move", !.for = IF ResidencyMigrates THEN "both" ELSE "region"]
          /\ asking' = [asking EXCEPT ![h] = b]
          /\ UNCHANGED <<home, homeShown, cells, inRedis, inProcess, cellJob, gone>>
    BY <1>7 DEF BeginMove
  <2>2. moves' \in Nat /\ moves' > 0 /\ early' \in BOOLEAN /\ (early => early')
    BY <2>1 DEF Rows
  <2>3. WorldMoves
    BY <2>1, <2>2 DEF WorldMoves
  <2>4. Rows'
    BY <2>1, <2>2 DEF Rows, PlaceOK, ShownRegion
  <2>5. JobOK(cellJob)'
    BY <2>1, <2>2, JobStays
  <2>6. ResidencyMigrates \/ early'
    BY <2>1 DEF ResidencyMigrates, Rows, PlaceOK
  <2>7. CallOK(b)'
    BY <2>1, <2>2, <2>6 DEF CallOK, Silence, Asked
  <2>8. Calls' /\ Copies'
    BY <2>1, <2>3, <2>7, CallsKeep, CopiesKeep
  <2> QED
    BY <2>4, <2>5, <2>8 DEF PlacementInv
<1>8. ASSUME NEW h \in Hosts, NEW r \in Regions, setUserRegion(h, r) PROVE PlacementInv'
  <2>1. PICK b :
          /\ asking[h].at = "move" /\ gone' = [gone EXCEPT ![r] = 0]
          /\ home' = [region |-> r,
                      residency |-> IF asking[h].for = "both" THEN r ELSE home.residency]
          /\ b = [asking[h] EXCEPT !.at = "invalidate", !.for = ""]
          /\ asking' = [asking EXCEPT ![h] = b]
          /\ UNCHANGED <<homeShown, cells, inRedis, inProcess, cellJob, early, moves>>
    BY <1>8 DEF setUserRegion
  <2>2. moves > 0 /\ home # NoHome /\ (asking[h].for # "both" => early) /\ home \in Homes
    BY <2>1 DEF CallOK, Asked, Rows, PlaceOK
  <2>3. /\ gone' \in [Regions -> 0..(Limit + 1)] /\ gone'[r] = 0
        /\ \A s \in Regions : gone'[s] <= gone[s]
    BY <2>1
  <2>4. home' # NoHome /\ home'.region = r
    BY <2>1, RegionsHaveNames DEF NoHome
  <2>5. WorldMoves
    BY <2>1, <2>3, <2>4 DEF WorldMoves
  <2>6. PlaceOK(home)'
    BY <2>1, <2>2 DEF PlaceOK, Homes
  <2>7. Rows'
    <3>1. PlaceOK(homeShown)' /\ early' \in BOOLEAN /\ moves' \in Nat /\ DefaultRegion \in cells'
      BY <2>1, <2>2 DEF Rows, PlaceOK
    <3>2. ShownRegion' = ShownRegion /\ ShownRegion \in Regions /\ gone[ShownRegion] <= 1
      BY <2>1 DEF ShownRegion, Rows, PlaceOK, Homes, computeFallbackContext
    <3>3. gone'[ShownRegion'] <= 1
      BY <2>3, <3>2
    <3> QED
      BY <2>3, <2>4, <2>6, <3>1, <3>3 DEF Rows
  <2>8. JobOK(cellJob)'
    BY <2>1, JobStays
  <2>9. CallOK(b)
    BY <2>1 DEF CallOK, Asked
  <2>10. CallOK(b)'
    BY <2>5, <2>9, CallStays
  <2>11. Calls' /\ Copies'
    BY <2>1, <2>5, <2>10, CallsKeep, CopiesKeep
  <2> QED
    BY <2>7, <2>8, <2>11 DEF PlacementInv
<1>9. ASSUME NEW h \in Hosts, invalidateCache(h) PROVE PlacementInv'
  <2>1. /\ KeepPlace /\ ToldNothing /\ asking' = [asking EXCEPT ![h] = Silence]
        /\ inProcess' = [inProcess EXCEPT ![h] = Nothing] /\ inRedis' \in {Nothing, inRedis}
    BY <1>9 DEF invalidateCache
  <2>2. JobOK(cellJob)' /\ WorldMoves /\ Rows'
    BY <2>1, ToldNothingKeeps
  <2>3. PICK e : e = Nothing
    OBVIOUS
  <2>4. RedisOK(e)' /\ ProcessOK(e)'
    <3>1. e.left = 0
      BY <2>3 DEF Nothing
    <3>2. 0 \in 0..InProcessTtl
      BY LimitIsNat
    <3> QED
      BY <2>3, <3>1, <3>2 DEF RedisOK, ProcessOK
  <2>5. Copies'
    BY <2>1, <2>2, <2>3, <2>4, CopiesKeep
  <2> QED
    BY <2>1, <2>2, <2>5, SilenceKeeps DEF PlacementInv
<1>10. CASE ReplicaShowsHome
  <2>1. /\ homeShown # home /\ homeShown' = home
        /\ UNCHANGED <<home, cells, inRedis, inProcess, asking, cellJob, gone, early, moves>>
    BY <1>10 DEF ReplicaShowsHome
  <2>2. WorldMoves /\ JobOK(cellJob)'
    BY <2>1, WorldStays, JobStays
  <2>3. home # NoHome
    BY <2>1 DEF Rows
  <2>4. Rows'
    BY <2>1, <2>3 DEF Rows, PlaceOK, ShownRegion
  <2>5. ASSUME NEW h \in Hosts PROVE CallOK(asking[h])'
    BY <2>1 DEF CallOK, WithinAge
  <2>6. Copies'
    BY <2>1, <2>2, CopiesKeep
  <2> QED
    BY <2>1, <2>2, <2>4, <2>5, <2>6 DEF PlacementInv, Calls
<1>11. CASE PlacementTick
  <2>1. /\ home # NoHome
        /\ home = homeShown \/ gone[ShownRegion] = 0
        /\ \A h \in Hosts : ~asking[h].old
        /\ UNCHANGED <<home, homeShown, cells, cellJob, early, moves>>
        /\ gone' = [r \in Regions |-> IF r = home.region THEN 0
                                      ELSE IF gone[r] > Limit THEN gone[r] ELSE gone[r] + 1]
        /\ inRedis' = Later(inRedis) /\ inProcess' = [h \in Hosts |-> Later(inProcess[h])]
    BY <1>11 DEF PlacementTick
  <2>2. /\ gone' \in [Regions -> 0..(Limit + 1)] /\ gone'[home.region] = 0
        /\ \A r \in Regions : gone'[r] <= gone[r] + 1
    <3>1. home.region \in Regions
      <4>1. PlaceOK(home) /\ home # NoHome
        BY <2>1 DEF Rows
      <4> QED
        BY <4>1 DEF PlaceOK, Homes
    <3>2. \A r \in Regions : gone[r] \in 0..(Limit + 1)
      OBVIOUS
    <3>3. ASSUME NEW r \in Regions PROVE gone'[r] \in 0..(Limit + 1) /\ gone'[r] <= gone[r] + 1
      BY <2>1, <3>2
    <3> QED
      BY <2>1, <3>1, <3>3
  \* Every age grows by one at most.
  <2>3. ASSUME NEW r, NEW age \in Int, WithinAge(r, age)
        PROVE  WithinAge(r, age + 1)'
    <3>1. r \in Regions /\ gone[r] \in Int /\ gone'[r] \in Int
      BY <2>2, <2>3 DEF WithinAge
    <3> QED
      BY <2>1, <2>2, <2>3, <3>1 DEF WithinAge
  <2>4. Rows'
    <3>1. gone'[ShownRegion'] <= 1
      <4>1. ShownRegion' = ShownRegion /\ ShownRegion \in Regions
        BY <2>1 DEF ShownRegion, Rows, PlaceOK, Homes, computeFallbackContext
      <4>2. CASE home = homeShown
        BY <2>1, <2>2, <4>1, <4>2 DEF ShownRegion
      <4>3. CASE gone[ShownRegion] = 0
        BY <2>2, <4>1, <4>3
      <4> QED
        BY <2>1, <4>2, <4>3
    <3>2. PlaceOK(home)' /\ PlaceOK(homeShown)'
      BY <2>1 DEF Rows, PlaceOK
    <3> QED
      BY <2>1, <2>2, <3>1, <3>2 DEF Rows
  <2>5. ASSUME NEW h \in Hosts PROVE CallOK(asking[h])'
    <3>1. CASE asking[h] = Silence
      BY <1>11, <3>1 DEF PlacementTick, CallOK, Silence, Asked
    <3>2. CASE asking[h] # Silence
      <4>1. PICK a, b : a = asking[h] /\ b = asking'[h] /\ b = [a EXCEPT !.old = TRUE]
        BY <1>11, <3>2 DEF PlacementTick
      <4>2. CallOK(a) /\ ~a.old
        BY <2>1, <4>1
      <4>3. a.at = "store" => WithinAge(a.ctx, 2)'
        <5>1. a.at = "store" => WithinAge(a.ctx, 1)
          BY <4>2 DEF CallOK
        <5>2. 1 + 1 = 2 /\ 1 \in Int
          OBVIOUS
        <5> QED
          BY <2>3, <5>1, <5>2
      <4>4. /\ b.at = a.at /\ b.for = a.for /\ b.ctx = a.ctx /\ b.old = TRUE
            /\ b \in [at : {"", "create"} \cup Asked,
                      for : {"", "publish", "work", "route", "both", "region"},
                      ctx : Regions \cup {""}, old : BOOLEAN]
        BY <4>1, <4>2 DEF CallOK
      <4>5. b.at = "store" => WithinAge(b.ctx, IF b.old THEN 2 ELSE 1)'
        BY <4>3, <4>4
      <4>6. CallOK(b)'
        BY <2>1, <4>2, <4>4, <4>5 DEF CallOK
      <4> QED
        BY <4>1, <4>6
    <3> QED
      BY <3>1, <3>2
  <2>6. RedisOK(inRedis)'
    <3>1. CASE inRedis' = Nothing
      BY <3>1 DEF RedisOK
    <3>2. CASE inRedis' # Nothing
      <4>1. inRedis # Nothing /\ ~(inRedis.left <= 1)
        <5>1. ~(inRedis.left <= 1)
          BY <2>1, <3>2 DEF Later
        <5>2. Nothing.left = 0 /\ 0 <= 1
          BY DEF Nothing
        <5> QED
          BY <5>1, <5>2
      <4>2. PICK c, n : c = inRedis.ctx /\ n = inRedis.left
        OBVIOUS
      <4>3. n \in 0..RedisTtl /\ WithinAge(c, 2 + RedisTtl - n)
        BY <4>1, <4>2 DEF Copies, RedisOK
      <4>4. inRedis' = [inRedis EXCEPT !.left = @ - 1]
        BY <2>1, <4>1 DEF Later
      <4> QED
        BY <2>3, <4>1, <4>2, <4>3, <4>4, LimitIsNat DEF RedisOK
    <3> QED
      BY <3>1, <3>2
  <2>7. ASSUME NEW h \in Hosts PROVE ProcessOK(inProcess[h])'
    <3>1. PICK e : e = inProcess[h] /\ ProcessOK(e) /\ inProcess'[h] = Later(e)
      BY <2>1
    <3>2. CASE e.left <= 1
      <4>1. inProcess'[h] = Nothing
        BY <3>1, <3>2 DEF Later
      <4>3. Nothing.left = 0
        BY DEF Nothing
      <4>2. 0 \in 0..InProcessTtl
        BY LimitIsNat
      <4> QED
        BY <4>1, <4>2, <4>3 DEF ProcessOK
    <3>3. CASE ~(e.left <= 1)
      <4>1. e.left \in 0..InProcessTtl /\ WithinAge(e.ctx, Limit - e.left)
        BY <3>1, <3>3, LimitIsNat DEF ProcessOK
      <4>2. inProcess'[h] = [e EXCEPT !.left = @ - 1]
        BY <3>1, <3>3 DEF Later
      <4>3. PICK c, n : c = e.ctx /\ n = e.left
        OBVIOUS
      <4> QED
        BY <2>3, <3>3, <4>1, <4>2, <4>3, LimitIsNat DEF ProcessOK
    <3> QED
      BY <3>2, <3>3
  <2>8. JobOK(cellJob)'
    BY <2>1, JobStays
  <2>9. DOMAIN asking' = Hosts /\ DOMAIN inProcess' = Hosts
    BY <1>11, <2>1 DEF PlacementTick
  <2> QED
    BY <2>4, <2>5, <2>6, <2>7, <2>8, <2>9 DEF PlacementInv, Calls, Copies
<1>12. CASE UNCHANGED placementVars
  BY <1>12 DEF placementVars, PlacementInv, Rows, Copies, Calls, JobOK, PlaceOK, ShownRegion,
     RedisOK, ProcessOK, CallOK, WithinAge
<1> QED
  BY <1>1, <1>2, <1>3, <1>4, <1>5, <1>6, <1>7, <1>8, <1>9, <1>10, <1>11, <1>12 DEF PlacementNext

\* For all lives of the two caches, all processes and all moves: no process is told a region the
\* user left longer ago than a call, the replica and one life in each cache; a job dies in its
\* cell only after a move; and the residency is the region unless a move came too early.
THEOREM PlacementsHold == PlacementSpec => []PlacementHolds
<1>1. PlacementInit => PlacementInv
  <2> SUFFICES ASSUME PlacementInit PROVE PlacementInv
    OBVIOUS
  <2>1. Nothing.left = 0 /\ 0 \in 0..InProcessTtl /\ 0 \in 0..(Limit + 1) /\ Limit + 1 \in 0..(Limit + 1)
        /\ ~(0 > 0) /\ 0 <= 1
    BY LimitIsNat DEF Nothing
  <2>2. Rows
    BY <2>1, DefaultIsSupported
    DEF PlacementInit, Rows, PlaceOK, ShownRegion, computeFallbackContext
  <2>3. Copies
    BY <2>1 DEF PlacementInit, Copies, RedisOK, ProcessOK
  <2>4. Calls
    BY DEF PlacementInit, Calls, CallOK, Silence, Asked
  <2>5. JobOK(cellJob)
    BY DEF PlacementInit, JobOK, NoJob
  <2> QED
    BY <2>2, <2>3, <2>4, <2>5 DEF PlacementInv
<1>2. PlacementInv /\ [PlacementNext]_placementVars => PlacementInv'
  BY PlacementInductive
<1>3. PlacementInv => PlacementHolds
  <2> SUFFICES ASSUME PlacementInv PROVE PlacementHolds
    OBVIOUS
  <2>1. ASSUME NEW h \in Hosts, readInProcess(h)
        PROVE  gone[inProcess[h].ctx] + inProcess[h].left <= Limit
    <3>1. /\ inProcess[h].left \in Nat /\ inProcess[h].ctx \in Regions
          /\ gone[inProcess[h].ctx] <= Limit - inProcess[h].left
      BY <2>1, LimitIsNat DEF PlacementInv, Copies, ProcessOK, readInProcess, WithinAge
    <3>2. gone[inProcess[h].ctx] \in Nat
      BY <3>1, LimitIsNat DEF PlacementInv, Rows
    <3> QED
      BY <3>1, <3>2, LimitIsNat
  <2>2. RefusedOnlyAfterMoves
    <3>1. moves \in Nat /\ (moves = 0 /\ cellJob.state # "none" => cellJob.state # "dead")
      BY DEF PlacementInv, JobOK, Rows
    <3> QED
      BY <3>1 DEF RefusedOnlyAfterMoves
  <2>3. ResidencyFollows
    <3>1. home = NoHome \/ (home.residency # home.region => early)
      BY DEF PlacementInv, Rows, PlaceOK
    <3>2. NoHome.residency = NoHome.region
      BY DEF NoHome
    <3> QED
      BY <3>1, <3>2 DEF ResidencyFollows
  <2> QED
    BY <2>1, <2>2, <2>3 DEF PlacementHolds, ContextsAge
<1> QED
  BY <1>1, <1>2, <1>3, PTL DEF PlacementSpec

-----------------------------------------------------------------------------
(* The credentials.                                                        *)

AccountsSpec == AccountsInit /\ [][AccountsNext]_accountVars

Names == Users \cup {""}
Credential == [kind : {"refresh", "state"}, user : Names, root : Nat]
Ops == {"none", "login", "profile", "rotate", "logout", "logoutAll", "connect", "callback", "delete"}
Steps == {"", "start", "find", "makeUser", "makeProfile", "issue", "sweep", "done", "exchange",
          "store", "upsertProfile", "revoke", "owned", "user", "states"}
Carried == [op : Ops, step : Steps, user : Names, root : Nat, due : SUBSET Nat,
            swept : SUBSET Nat, after : Steps, table : Nat]

Rotates(r) == r.op = "rotate" /\ r.step = "issue"
CallsBack(r) == r.op = "callback" /\ r.root # 0
Sweeps(r) == r.step \in {"sweep", "revoke"}

\* What a request carries: the login it renews, the state it has spent, the tokens it sweeps.
RequestOK(r) ==
  /\ r \in Carried
  /\ Rotates(r) \/ CallsBack(r) => r.root \in Handed
  /\ CallsBack(r) => r.root \notin live
  /\ r.after = "issue" => r.op = "login"
  /\ r.step = "issue" => r.op \in {"login", "rotate"}
  /\ r.op = "login" => r.root = 0
  /\ r.swept \subseteq Handed
  /\ r.swept \cap live \subseteq IF Sweeps(r) THEN r.due ELSE {}

KeysOK ==
  /\ keys \in Seq(Credential) /\ live \subseteq Handed
  /\ \A k \in Handed : keys[k].root \in Handed

\* A login has one holder: a token that Redis has, or a request that took one.
Refreshes(k) == k \in live /\ keys[k].kind = "refresh"

HoldersDiffer ==
  /\ \A j, k \in Handed : Refreshes(j) /\ Refreshes(k) /\ keys[j].root = keys[k].root => j = k
  /\ \A p, q \in Sessions : Rotates(req[p]) /\ Rotates(req[q]) /\ req[p].root = req[q].root => p = q
  /\ \A k \in Handed, q \in Sessions :
       Refreshes(k) /\ Rotates(req[q]) => keys[k].root # req[q].root
  /\ \A p, q \in Sessions :
       CallsBack(req[p]) /\ CallsBack(req[q]) /\ req[p].root = req[q].root => p = q

AccountsInv ==
  /\ KeysOK /\ DOMAIN req = Sessions /\ \A q \in Sessions : RequestOK(req[q])
  /\ HoldersDiffer

\* The credentials handed out are numbered from one, without a gap.
LEMMA HandedShape ==
  ASSUME KeysOK
  PROVE  /\ Len(keys) \in Nat /\ Handed = 1..Len(keys) /\ 0 \notin Handed /\ Len(keys) + 1 \notin Handed
         /\ \A k \in Handed : keys[k] \in Credential /\ k \in Nat
<1>1. keys \in Seq(Credential)
  BY DEF KeysOK
<1> QED
  BY <1>1 DEF Handed

\* A credential is handed out under a number nobody has named yet.
HandedOut(id, kind, u, root) ==
  /\ id \notin Handed /\ Handed' = Handed \cup {id} /\ live' = live \cup {id}
  /\ \A k \in Handed : keys'[k] = keys[k]
  /\ keys'[id] = [kind |-> kind, user |-> u, root |-> IF root = 0 THEN id ELSE root]
  /\ KeysOK'

\* A credential that is stored was handed out.
LEMMA StoredShape ==
  ASSUME KeysOK, NEW kind, kind \in {"refresh", "state"}, NEW u \in Names,
         NEW root, root = 0 \/ root \in Handed, Stored(kind, u, root)
  PROVE  \E id : HandedOut(id, kind, u, root)
<1>0. /\ Len(keys) \in Nat /\ Handed = 1..Len(keys) /\ 0 \notin Handed /\ Len(keys) + 1 \notin Handed
      /\ \A k \in Handed : keys[k] \in Credential /\ k \in Nat
  BY HandedShape
<1>1. PICK id \in Nat : id = Len(keys) + 1
  BY <1>0
<1>2. PICK c : c = [kind |-> kind, user |-> u, root |-> IF root = 0 THEN id ELSE root]
  OBVIOUS
<1>3. keys' = Append(keys, c) /\ live' = live \cup {id}
  BY <1>1, <1>2 DEF Stored
<1>4. c.root \in Handed \cup {id} /\ c \in Credential
  <2>1. root \in Nat
    BY <1>0
  <2> QED
    BY <1>2, <2>1 DEF Credential
<1>5. keys' \in Seq(Credential) /\ Len(keys') = Len(keys) + 1
      /\ keys'[id] = c /\ \A k \in 1..Len(keys) : keys'[k] = keys[k]
  BY <1>1, <1>3, <1>4 DEF KeysOK
<1>6. Handed' = Handed \cup {id}
  <2>1. Handed' = 1..(Len(keys) + 1)
    BY <1>5 DEF Handed
  <2> QED
    BY <1>0, <1>1, <2>1
<1>7. KeysOK'
  <2>1. \A k \in Handed' : keys'[k].root \in Handed'
    BY <1>0, <1>4, <1>5, <1>6 DEF KeysOK
  <2> QED
    BY <1>3, <1>5, <1>6, <2>1 DEF KeysOK
<1> QED
  BY <1>0, <1>1, <1>2, <1>3, <1>5, <1>6, <1>7 DEF HandedOut

\* A request that waits keeps its claim: no number that is handed out comes back to Redis.
LEMMA RequestStays ==
  ASSUME NEW r, RequestOK(r), Handed \subseteq Handed', live' \cap Handed \subseteq live
  PROVE  RequestOK(r)'
<1>1. r.swept \cap live' \subseteq r.swept \cap live
  BY DEF RequestOK
<1>2. CallsBack(r) => r.root \notin live'
  BY DEF RequestOK
<1> QED
  BY <1>1, <1>2 DEF RequestOK

\* A request moves, credentials are added and none comes to life: the others stay sound.
LEMMA RequestsKeep ==
  ASSUME AccountsInv, NEW q \in Sessions, NEW b, RequestOK(b)',
         Handed \subseteq Handed', live' \cap Handed \subseteq live,
         req' = [req EXCEPT ![q] = b]
  PROVE  /\ DOMAIN req' = Sessions /\ \A p \in Sessions : RequestOK(req[p])'
         /\ req'[q] = b /\ \A p \in Sessions \ {q} : req'[p] = req[p]
<1>1. DOMAIN req = Sessions
  BY DEF AccountsInv
<1>2. req'[q] = b /\ \A p \in Sessions \ {q} : req'[p] = req[p]
  BY <1>1
<1>3. ASSUME NEW p \in Sessions PROVE RequestOK(req[p])'
  <2>1. CASE p = q
    BY <1>2, <2>1
  <2>2. CASE p # q
    <3>1. PICK r : r = req[p]
      OBVIOUS
    <3>2. RequestOK(r)'
      BY <3>1, RequestStays DEF AccountsInv
    <3> QED
      BY <1>2, <2>2, <3>1, <3>2
  <2> QED
    BY <2>1, <2>2
<1> QED
  BY <1>1, <1>2, <1>3

\* A request goes on and takes nothing for itself; Redis may lose keys.
QuietStep(q, b) ==
  /\ req' = [req EXCEPT ![q] = b] /\ keys' = keys /\ live' \subseteq live
  /\ b \in Carried
  /\ b.step = "issue" \/ b.after = "issue" => b.op = "login"
  /\ b.op = "login" => b.root = 0
  /\ CallsBack(b) => CallsBack(req[q]) /\ b.root = req[q].root
  /\ b.swept \subseteq Handed
  /\ b.swept \cap live' \subseteq IF Sweeps(b) THEN b.due ELSE {}

\* A step that changes no credential keeps the accounts.
LEMMA QuietKeeps ==
  ASSUME AccountsInv, NEW q \in Sessions, NEW b, QuietStep(q, b)
  PROVE  AccountsInv'
<1>1. ~Rotates(b)
  BY DEF QuietStep, Rotates
<1>2. /\ req' = [req EXCEPT ![q] = b] /\ keys' = keys /\ live' \subseteq live /\ Handed' = Handed
      /\ CallsBack(b) => CallsBack(req[q]) /\ b.root = req[q].root
  BY DEF QuietStep, Handed
<1>3. CallsBack(b) => b.root \in Handed /\ b.root \notin live'
  BY <1>2 DEF AccountsInv, RequestOK
<1>4. RequestOK(b)'
  BY <1>1, <1>2, <1>3 DEF QuietStep, RequestOK
<1>5. /\ DOMAIN req' = Sessions /\ \A p \in Sessions : RequestOK(req[p])'
      /\ req'[q] = b /\ \A p \in Sessions \ {q} : req'[p] = req[p]
  BY <1>2, <1>4, RequestsKeep
<1>6. KeysOK'
  BY <1>2 DEF AccountsInv, KeysOK
<1>7. \A p \in Sessions : /\ Rotates(req'[p]) => Rotates(req[p]) /\ req'[p] = req[p]
                          /\ CallsBack(req'[p]) => CallsBack(req[p]) /\ req'[p].root = req[p].root
  BY <1>1, <1>2, <1>5
<1>8. \A k \in Handed : Refreshes(k)' => Refreshes(k) /\ keys'[k] = keys[k]
  BY <1>2 DEF Refreshes
<1>9. HoldersDiffer'
  BY <1>2, <1>7, <1>8 DEF AccountsInv, HoldersDiffer
<1> QED
  BY <1>5, <1>6, <1>9 DEF AccountsInv

\* A request that sweeps nothing goes to its next step.
LEMMA GoesOn ==
  ASSUME AccountsInv, NEW q \in Sessions, NEW b \in Carried, ~Sweeps(req[q]),
         req' = [req EXCEPT ![q] = b], keys' = keys, live' \subseteq live,
         b.op = req[q].op, b.root = req[q].root, b.swept = req[q].swept,
         b.step = "issue" \/ b.after = "issue" => b.op = "login"
  PROVE  AccountsInv'
<1>1. RequestOK(req[q])
  BY DEF AccountsInv
<1>2. QuietStep(q, b)
  BY <1>1 DEF QuietStep, RequestOK, CallsBack
<1> QED
  BY <1>2, QuietKeeps

\* A credential is handed out: to whoever asked for it, or under the login that was renewed.
LEMMA StoredKeeps ==
  ASSUME AccountsInv, NEW q \in Sessions, NEW b \in Carried, NEW kind, kind \in {"refresh", "state"},
         NEW u \in Names, NEW root, root = 0 \/ root \in Handed, Stored(kind, u, root),
         req' = [req EXCEPT ![q] = b], b.step = "done", b.after # "issue",
         b.swept \cap live = {}, b.swept \subseteq Handed, ~CallsBack(b), b.op = "login" => b.root = 0,
         root # 0 => kind = "refresh" /\ Rotates(req[q]) /\ req[q].root = root
  PROVE  AccountsInv'
<1>0. /\ KeysOK /\ 0 \notin Handed /\ HoldersDiffer
      /\ \A p \in Sessions : RequestOK(req[p])
  BY HandedShape DEF AccountsInv
<1>a. PICK id : HandedOut(id, kind, u, root)
  BY <1>0, StoredShape
<1>1. /\ id \notin Handed /\ Handed' = Handed \cup {id} /\ live' = live \cup {id}
      /\ \A k \in Handed : keys'[k] = keys[k]
      /\ keys'[id] = [kind |-> kind, user |-> u, root |-> IF root = 0 THEN id ELSE root]
      /\ KeysOK'
  BY <1>a DEF HandedOut
<1>2. live \subseteq Handed
  BY <1>0 DEF KeysOK
<1>3. ~Rotates(b) /\ ~Sweeps(b) /\ b.step # "issue"
  BY DEF Rotates, Sweeps
<1>4. b.swept \cap live' = {} /\ b.swept \subseteq Handed'
  BY <1>1
<1>5. RequestOK(b)'
  BY <1>3, <1>4 DEF RequestOK
<1>6. /\ DOMAIN req' = Sessions /\ \A p \in Sessions : RequestOK(req[p])'
      /\ req'[q] = b /\ \A p \in Sessions \ {q} : req'[p] = req[p]
  BY <1>1, <1>5, RequestsKeep
<1>7. \A p \in Sessions : /\ Rotates(req'[p]) => p # q /\ Rotates(req[p]) /\ req'[p] = req[p]
                          /\ CallsBack(req'[p]) => CallsBack(req[p]) /\ req'[p] = req[p]
  BY <1>3, <1>6
<1>8. \A k \in Handed : Refreshes(k)' => Refreshes(k) /\ keys'[k].root = keys[k].root
  BY <1>1 DEF Refreshes
\* Nobody else holds the login of the new token.
<1>9. \A k \in Handed : Refreshes(k) /\ kind = "refresh" => keys[k].root # keys'[id].root
  <2>1. CASE root = 0
    BY <1>0, <1>1, <2>1 DEF KeysOK
  <2>2. CASE root # 0
    BY <1>0, <1>1, <2>2 DEF HoldersDiffer
  <2> QED
    BY <2>1, <2>2
<1>10. \A p \in Sessions \ {q} : Rotates(req[p]) /\ kind = "refresh" => keys'[id].root # req[p].root
  <2>1. CASE root = 0
    BY <1>0, <1>1, <2>1 DEF RequestOK
  <2>2. CASE root # 0
    BY <1>0, <1>1, <2>2 DEF HoldersDiffer
  <2> QED
    BY <2>1, <2>2
<1>11. Refreshes(id)' => kind = "refresh"
  BY <1>1 DEF Refreshes
<1>12. \A j, k \in Handed' : Refreshes(j)' /\ Refreshes(k)' /\ keys'[j].root = keys'[k].root => j = k
  BY <1>0, <1>1, <1>8, <1>9, <1>11 DEF HoldersDiffer
<1>13. \A k \in Handed', p \in Sessions :
         Refreshes(k)' /\ Rotates(req'[p]) => keys'[k].root # req'[p].root
  BY <1>0, <1>1, <1>7, <1>8, <1>10, <1>11 DEF HoldersDiffer
<1>14. HoldersDiffer'
  <2>1. \A p, r \in Sessions :
          Rotates(req'[p]) /\ Rotates(req'[r]) /\ req'[p].root = req'[r].root => p = r
    BY <1>0, <1>7 DEF HoldersDiffer
  <2>2. \A p, r \in Sessions :
          CallsBack(req'[p]) /\ CallsBack(req'[r]) /\ req'[p].root = req'[r].root => p = r
    BY <1>0, <1>7 DEF HoldersDiffer
  <2> QED
    BY <1>12, <1>13, <2>1, <2>2 DEF HoldersDiffer
<1> QED
  BY <1>1, <1>6, <1>14 DEF AccountsInv

\* A command that reads and deletes: the one request that finds the credential holds it now.
LEMMA TakenKeeps ==
  ASSUME AccountsInv, NEW q \in Sessions, NEW k \in live, NEW b \in Carried,
         keys' = keys, live' = live \ {k}, req' = [req EXCEPT ![q] = b],
         b.swept = {}, b.after = "", ~Sweeps(b),
         \/ /\ keys[k].kind = "refresh" /\ b.op = "rotate" /\ b.step = "issue"
            /\ b.root = keys[k].root
         \/ /\ b.op = "callback" /\ b.step = "exchange" /\ b.root = k
  PROVE  AccountsInv'
<1>0. /\ KeysOK /\ HoldersDiffer /\ live \subseteq Handed /\ k \in Handed /\ keys[k].root \in Handed
      /\ \A p \in Sessions : RequestOK(req[p])
  BY DEF AccountsInv, KeysOK
<1>1. Handed' = Handed
  BY DEF Handed
<1>2. RequestOK(b)'
  BY <1>0, <1>1 DEF RequestOK, Rotates, CallsBack
<1>3. /\ DOMAIN req' = Sessions /\ \A p \in Sessions : RequestOK(req[p])'
      /\ req'[q] = b /\ \A p \in Sessions \ {q} : req'[p] = req[p]
  BY <1>1, <1>2, RequestsKeep
<1>4. KeysOK'
  BY <1>0, <1>1 DEF KeysOK
<1>5. \A j \in Handed : Refreshes(j)' => j # k /\ Refreshes(j) /\ keys'[j] = keys[j]
  BY <1>1 DEF Refreshes
<1>6. ASSUME NEW p \in Sessions \ {q}
      PROVE  /\ Rotates(b) /\ Rotates(req[p]) => b.root # req[p].root
             /\ CallsBack(b) /\ CallsBack(req[p]) => b.root # req[p].root
  <2>1. Rotates(b) => Refreshes(k) /\ b.root = keys[k].root
    BY DEF Rotates, Refreshes
  <2>2. CallsBack(b) => b.root = k
    BY DEF CallsBack
  <2>3. CallsBack(req[p]) => req[p].root \notin live
    BY <1>0 DEF RequestOK
  <2> QED
    BY <1>0, <2>1, <2>2, <2>3 DEF HoldersDiffer
<1>7. ASSUME NEW j \in Handed, Refreshes(j)', Rotates(b) PROVE keys[j].root # b.root
  <2>1. Refreshes(k) /\ b.root = keys[k].root
    BY <1>7 DEF Rotates, Refreshes
  <2> QED
    BY <1>0, <1>5, <1>7, <2>1 DEF HoldersDiffer
<1>8. HoldersDiffer'
  <2>1. \A i, j \in Handed' : Refreshes(i)' /\ Refreshes(j)' /\ keys'[i].root = keys'[j].root => i = j
    BY <1>0, <1>1, <1>5 DEF HoldersDiffer
  <2>0. /\ req'[q] = b
        /\ \A p \in Sessions \ {q} :
             /\ req'[p] = req[p]
             /\ Rotates(b) /\ Rotates(req[p]) => b.root # req[p].root
             /\ CallsBack(b) /\ CallsBack(req[p]) => b.root # req[p].root
    BY <1>3, <1>6
  <2>2. ASSUME NEW p \in Sessions, NEW r \in Sessions, req'[p].root = req'[r].root,
               \/ Rotates(req'[p]) /\ Rotates(req'[r])
               \/ CallsBack(req'[p]) /\ CallsBack(req'[r])
        PROVE  p = r
    <3>0. \A p0 \in Sessions \ {q} :
            /\ Rotates(b) /\ Rotates(req'[p0]) => b.root # req'[p0].root
            /\ CallsBack(b) /\ CallsBack(req'[p0]) => b.root # req'[p0].root
      BY <2>0
    <3>1. CASE p = q \/ r = q
      <4>1. CASE p = q /\ r # q
        BY <2>0, <2>2, <3>0, <4>1
      <4>2. CASE r = q /\ p # q
        BY <2>0, <2>2, <3>0, <4>2
      <4> QED
        BY <3>1, <4>1, <4>2
    <3>2. CASE p # q /\ r # q
      BY <1>0, <2>0, <2>2, <3>2 DEF HoldersDiffer
    <3> QED
      BY <3>1, <3>2
  <2>3. ASSUME NEW j \in Handed', NEW p \in Sessions, Refreshes(j)', Rotates(req'[p])
        PROVE  keys'[j].root # req'[p].root
    <3>1. CASE p = q
      BY <1>1, <1>7, <2>0, <2>3, <3>1
    <3>2. CASE p # q
      <4>1. j \in Handed /\ Refreshes(j) /\ keys'[j] = keys[j]
        BY <1>1, <1>5, <2>3
      <4>2. req'[p] = req[p] /\ Rotates(req[p])
        BY <2>0, <2>3, <3>2
      <4> QED
        BY <1>0, <4>1, <4>2 DEF HoldersDiffer
    <3> QED
      BY <3>1, <3>2
  <2> QED
    BY <2>1, <2>2, <2>3 DEF HoldersDiffer
<1> QED
  BY <1>3, <1>4, <1>8 DEF AccountsInv

\* The requests wait; Redis may lose keys.
LEMMA WaitKeeps ==
  ASSUME AccountsInv, req' = req, keys' = keys, live' \subseteq live
  PROVE  AccountsInv'
<1>1. Handed' = Handed
  BY DEF Handed
<1>2. ASSUME NEW p \in Sessions PROVE RequestOK(req[p])'
  <2>1. PICK r : r = req[p]
    OBVIOUS
  <2>2. RequestOK(r)'
    BY <1>1, <2>1, RequestStays DEF AccountsInv
  <2> QED
    BY <2>1, <2>2
<1>3. KeysOK' /\ DOMAIN req' = Sessions
  BY <1>1 DEF AccountsInv, KeysOK
<1>4. \A k \in Handed : Refreshes(k)' => Refreshes(k)
  BY DEF Refreshes
<1>5. HoldersDiffer'
  BY <1>1, <1>4 DEF AccountsInv, HoldersDiffer
<1> QED
  BY <1>2, <1>3, <1>5 DEF AccountsInv

\* A request at rest is well formed.
LEMMA FreshShape ==
  /\ Fresh \in Carried /\ Fresh.op = "none" /\ Fresh.step = "start" /\ Fresh.root = 0
  /\ Fresh.due = {} /\ Fresh.swept = {} /\ Fresh.after = "" /\ Fresh.user \in Names
BY DEF Fresh, Carried, Names, Ops, Steps

\* A credential names a user and the credential its family began with.
LEMMA CredentialShape ==
  ASSUME AccountsInv, NEW k \in Handed
  PROVE  keys[k].user \in Names /\ keys[k].root \in Nat /\ k \in Nat /\ keys[k].root \in Handed
<1>1. KeysOK
  BY DEF AccountsInv
<1> QED
  BY <1>1, HandedShape DEF Credential, KeysOK

\* A request that is let in and asks nothing of Redis, or has asked for the last thing.
LEMMA EnterKeeps ==
  ASSUME AccountsInv, NEW q \in Sessions, NEW op, op \in {"rotate", "logout", "connect", "callback"},
         NEW u \in Names, Enter(q, op, u, "done"), keys' = keys, live' \subseteq live
  PROVE  AccountsInv'
<1>1. PICK b : b = [Fresh EXCEPT !.op = op, !.user = u, !.step = "done"]
  OBVIOUS
<1>2. req' = [req EXCEPT ![q] = b]
  BY <1>1 DEF Enter
<1>3. /\ b \in Carried /\ b.op = op /\ b.step = "done" /\ b.root = 0 /\ b.swept = {} /\ b.after = ""
  BY <1>1, FreshShape DEF Carried, Ops, Steps
<1>4. QuietStep(q, b)
  BY <1>2, <1>3 DEF QuietStep, CallsBack
<1> QED
  BY <1>4, QuietKeeps

\* The loop begins with the tokens that are there.
LEMMA BeginSweepKeeps ==
  ASSUME AccountsInv, NEW q \in Sessions, NEW op, op \in {"logoutAll", "delete"},
         NEW step, step \in {"sweep", "revoke"}, NEW u \in Names, BeginSweep(q, op, u, step),
         keys' = keys, live' = live
  PROVE  AccountsInv'
<1>1. PICK S : S = Of("refresh", u)
  OBVIOUS
<1>2. S \subseteq Handed /\ S \in SUBSET Nat
  <2>1. KeysOK
    BY DEF AccountsInv
  <2> QED
    BY <1>1, <2>1, HandedShape DEF Of, KeysOK
<1>3. PICK b : b = [Fresh EXCEPT !.op = op, !.user = u, !.step = step, !.due = S, !.swept = S]
  OBVIOUS
<1>4. req' = [req EXCEPT ![q] = b]
  BY <1>1, <1>3 DEF BeginSweep
<1>5. /\ b \in Carried /\ b.op = op /\ b.step = step /\ b.root = 0 /\ b.swept = S /\ b.due = S
      /\ b.after = ""
  BY <1>2, <1>3, FreshShape DEF Carried, Ops, Steps
<1>6. QuietStep(q, b)
  BY <1>2, <1>4, <1>5 DEF QuietStep, CallsBack, Sweeps
<1> QED
  BY <1>6, QuietKeeps

\* One turn of the loop that revokes: what it deleted is no longer due, and it ends once nothing is.
LEMMA SweepKeeps ==
  ASSUME AccountsInv, failing \in Nat, NEW q \in Sessions, NEW here, NEW step, step \in {"done", "owned"},
         Sweeps(req[q]), req[q].step # "issue",
         Scan(q, here, SweepEnds(q, step)), keys' = keys
  PROVE  AccountsInv'
<1>1. RequestOK(req[q])
  BY DEF AccountsInv
<1>2. PICK r : r = req[q] /\ RequestOK(r) /\ r \in Carried
  BY <1>1 DEF RequestOK
<1>3. ASSUME NEW batch, NoFault, live' = live \ batch, ScanEnds(r.due \ batch), SweepEnds(q, step)
      PROVE  AccountsInv'
  <2>1. PICK b : b = [r EXCEPT !.due = {}, !.step = step]
    OBVIOUS
  <2>2. req' = [req EXCEPT ![q] = b]
    BY <1>2, <1>3, <2>1 DEF SweepEnds, NoFault
  <2>3. /\ b \in Carried /\ b.op = r.op /\ b.step = step /\ b.root = r.root /\ b.swept = r.swept
        /\ b.after = r.after
    <3>1. step \in Steps
      BY DEF Steps
    <3> QED
      BY <1>2, <2>1, <3>1 DEF Carried
  <2>4. r.swept \cap live' = {}
    BY <1>2, <1>3 DEF RequestOK, ScanEnds
  <2>5. QuietStep(q, b)
    BY <1>2, <1>3, <2>2, <2>3, <2>4 DEF QuietStep, RequestOK, CallsBack
  <2> QED
    BY <2>5, QuietKeeps
<1>4. ASSUME NEW batch, live' = live \ batch, req' = [req EXCEPT ![q].due = r.due \ batch]
      PROVE  AccountsInv'
  <2>1. PICK b : b = [r EXCEPT !.due = r.due \ batch]
    OBVIOUS
  <2>2. req' = [req EXCEPT ![q] = b]
    BY <1>2, <1>4, <2>1
  <2>3. /\ b \in Carried /\ b.op = r.op /\ b.step = r.step /\ b.root = r.root /\ b.swept = r.swept
        /\ b.after = r.after /\ b.due = r.due \ batch
    BY <1>2, <2>1 DEF Carried
  <2>4. r.swept \cap live' \subseteq r.due \ batch
    BY <1>2, <1>4 DEF RequestOK
  <2>5. QuietStep(q, b)
    BY <1>2, <1>4, <2>2, <2>3, <2>4 DEF QuietStep, RequestOK, CallsBack, Sweeps
  <2> QED
    BY <2>5, QuietKeeps
<1>5. ASSUME Fault, live' = live, SweepEnds(q, step)
      PROVE  AccountsInv'
  <2>1. PICK b : b = [r EXCEPT !.due = {}, !.step = step, !.swept = {}]
    OBVIOUS
  <2>2. req' = [req EXCEPT ![q] = b]
    <3>1. failing' # failing
      BY <1>5 DEF Fault
    <3> QED
      BY <1>2, <1>5, <2>1, <3>1 DEF SweepEnds
  <2>3. /\ b \in Carried /\ b.op = r.op /\ b.step = step /\ b.root = r.root /\ b.swept = {}
        /\ b.after = r.after
    <3>1. step \in Steps
      BY DEF Steps
    <3> QED
      BY <1>2, <2>1, <3>1 DEF Carried
  <2>4. QuietStep(q, b)
    BY <1>2, <1>5, <2>2, <2>3 DEF QuietStep, RequestOK, CallsBack
  <2> QED
    BY <2>4, QuietKeeps
<1> QED
  BY <1>2, <1>3, <1>4, <1>5 DEF Scan

\* A request that answers.
LEMMA AnswerKeeps ==
  ASSUME AccountsInv, NEW q \in Sessions, ~Sweeps(req[q]), Answer(q), keys' = keys,
         live' \subseteq live
  PROVE  AccountsInv'
<1>1. req[q] \in Carried
  BY DEF AccountsInv, RequestOK
<1>2. PICK b : b = [req[q] EXCEPT !.step = "done", !.due = {}, !.after = ""]
  OBVIOUS
<1>3. req' = [req EXCEPT ![q] = b]
  BY <1>2 DEF Answer
<1>4. /\ b \in Carried /\ b.op = req[q].op /\ b.step = "done" /\ b.root = req[q].root
      /\ b.swept = req[q].swept /\ b.after = ""
  BY <1>1, <1>2 DEF Carried, Ops, Steps
<1> QED
  BY <1>3, <1>4, GoesOn

\* A request that goes to another step.
LEMMA GoKeeps ==
  ASSUME AccountsInv, NEW q \in Sessions, NEW s \in Steps, ~Sweeps(req[q]), Go(q, s),
         s # "issue" \/ s = req[q].after, req[q].step # "issue", keys' = keys, live' \subseteq live
  PROVE  AccountsInv'
<1>1. req[q] \in Carried /\ (req[q].after = "issue" => req[q].op = "login")
  BY DEF AccountsInv, RequestOK
<1>2. PICK b : b = [req[q] EXCEPT !.step = s]
  OBVIOUS
<1>3. req' = [req EXCEPT ![q] = b]
  BY <1>2 DEF Go
<1>4. /\ b \in Carried /\ b.op = req[q].op /\ b.step = s /\ b.root = req[q].root
      /\ b.swept = req[q].swept /\ b.after = req[q].after
  BY <1>1, <1>2 DEF Carried, Ops, Steps
<1> QED
  BY <1>1, <1>3, <1>4, GoesOn

\* Faults are a number.
LEMMA FaultsCount ==
  ASSUME failing \in Nat, [AccountsNext]_accountVars
  PROVE  failing' \in Nat
<1>1. ASSUME Fault \/ NoFault \/ KeepRedis PROVE failing' \in Nat
  BY <1>1 DEF Fault, NoFault, KeepRedis
<1>2. ASSUME NEW q \in Sessions, SessionNext(q) PROVE Fault \/ NoFault \/ KeepRedis
  BY <1>2 DEF SessionNext, Login, ReadProfile, revokeAllRefreshTokens, rotateTokenPair,
     revokeRefreshToken, Find, MakeUser, MakeProfile, issueTokenPair, LogoutAllSweep, Scan
<1>3. ASSUME NEW q \in Sessions, ConnectNext(q) PROVE Fault \/ NoFault \/ KeepRedis
  BY <1>3 DEF ConnectNext, generateState, validateAndConsume, Exchange, upsertConnection,
     updateProfile
<1>4. ASSUME NEW q \in Sessions, DeletionNext(q) PROVE Fault \/ NoFault \/ KeepRedis
  BY <1>4 DEF DeletionNext, DeleteAccount, RevokeSessions, deleteUserData, DropStates, Scan
<1>5. ASSUME \/ \E k \in live : Expire(k)
             \/ \E u \in Users, t \in Range(Owned) : Work(u, t)
             \/ UNCHANGED accountVars
      PROVE  failing' \in Nat
  BY <1>5 DEF Expire, Work, accountVars
<1> QED
  BY <1>1, <1>2, <1>3, <1>4, <1>5 DEF AccountsNext

\* The steps of a session keep the accounts,
LEMMA SessionKeeps ==
  ASSUME AccountsInv, failing \in Nat, NEW q \in Sessions, SessionNext(q)
  PROVE  AccountsInv'
<1>0. /\ KeysOK /\ RequestOK(req[q]) /\ req[q] \in Carried /\ Users \subseteq Names
      /\ live \subseteq Handed
  BY DEF AccountsInv, RequestOK, Names, KeysOK
<1>1. ASSUME NEW u \in Users, Login(q, u) \/ ReadProfile(q, u) PROVE AccountsInv'
  <2>2. keys' = keys /\ live' = live
    BY <1>1 DEF Login, ReadProfile, KeepRedis
  <2>3. ASSUME NEW op, NEW after, op = "login" \/ (op = "profile" /\ after = "done"),
               after = "issue" \/ after = "done",
               req' = [req EXCEPT ![q] = [Fresh EXCEPT !.op = op, !.user = u,
                                                       !.step = "find", !.after = after]]
        PROVE  AccountsInv'
    <3>1. PICK b : b = [Fresh EXCEPT !.op = op, !.user = u, !.step = "find", !.after = after]
      OBVIOUS
    <3>2. /\ b \in Carried /\ b.op = op /\ b.step = "find" /\ b.root = 0 /\ b.swept = {}
          /\ b.after = after
      BY <1>0, <2>3, <3>1, FreshShape DEF Carried, Ops, Steps
    <3>3. QuietStep(q, b)
      BY <2>2, <2>3, <3>1, <3>2 DEF QuietStep, CallsBack
    <3> QED
      BY <3>3, QuietKeeps
  <2> QED
    BY <1>1, <2>3 DEF Login, ReadProfile
<1>2. ASSUME NEW u \in Users, revokeAllRefreshTokens(q, u) PROVE AccountsInv'
  <2>1. BeginSweep(q, "logoutAll", u, "sweep") /\ keys' = keys /\ live' = live
    BY <1>2 DEF revokeAllRefreshTokens, KeepRedis
  <2> QED
    BY <1>0, <2>1, BeginSweepKeeps
<1>3. ASSUME NEW k \in Handed, rotateTokenPair(q, k) PROVE AccountsInv'
  <2>0. keys' = keys /\ keys[k].kind = "refresh"
    BY <1>3 DEF rotateTokenPair
  <2>1. CASE /\ k \in live /\ Take(k)
             /\ req' = [req EXCEPT ![q] = [Fresh EXCEPT !.op = "rotate", !.step = "issue",
                                             !.user = keys[k].user, !.root = keys[k].root]]
    <3>1. PICK b : b = [Fresh EXCEPT !.op = "rotate", !.step = "issue",
                                     !.user = keys[k].user, !.root = keys[k].root]
      OBVIOUS
    <3>2. /\ b \in Carried /\ b.op = "rotate" /\ b.step = "issue" /\ b.root = keys[k].root
          /\ b.swept = {} /\ b.after = ""
      BY <3>1, FreshShape, CredentialShape DEF Carried, Ops, Steps
    <3>3. ~Sweeps(b) /\ live' = live \ {k} /\ req' = [req EXCEPT ![q] = b]
      BY <2>1, <3>1, <3>2 DEF Sweeps, Take
    <3> QED
      BY <2>0, <2>1, <3>2, <3>3, TakenKeeps
  <2>2. CASE Enter(q, "rotate", keys[k].user, "done") /\ live' \subseteq live
    BY <2>0, <2>2, CredentialShape, EnterKeeps
  <2> QED
    BY <1>3, <2>1, <2>2 DEF rotateTokenPair, Take
<1>4. ASSUME NEW k \in Handed, revokeRefreshToken(q, k) PROVE AccountsInv'
  <2>1. Enter(q, "logout", keys[k].user, "done") /\ keys' = keys /\ live' \subseteq live
    BY <1>4 DEF revokeRefreshToken, Take
  <2> QED
    BY <2>1, CredentialShape, EnterKeeps
<1>5. ASSUME Find(q) PROVE AccountsInv'
  <2>1. PICK s : /\ s = req[q].after \/ s = "makeUser"
                 /\ Go(q, s)
    BY <1>5 DEF Find
  <2>2. keys' = keys /\ live' = live /\ req[q].step = "find" /\ s \in Steps
    BY <1>0, <1>5, <2>1 DEF Find, KeepRedis, At, Carried, Steps
  <2> QED
    BY <2>1, <2>2, GoKeeps DEF Sweeps
<1>6. ASSUME MakeUser(q) PROVE AccountsInv'
  <2>1. PICK s : /\ s = req[q].after \/ s = "makeProfile"
                 /\ Go(q, s)
    BY <1>6 DEF MakeUser
  <2>2. keys' = keys /\ live' = live /\ req[q].step = "makeUser" /\ s \in Steps
    BY <1>0, <1>6, <2>1 DEF MakeUser, KeepRedis, At, Carried, Steps
  <2> QED
    BY <2>1, <2>2, GoKeeps DEF Sweeps
<1>7. ASSUME MakeProfile(q) PROVE AccountsInv'
  <2>1. /\ keys' = keys /\ live' = live /\ req[q].step = "makeProfile" /\ req[q].after \in Steps
        /\ Go(q, req[q].after) \/ Answer(q)
    BY <1>0, <1>7 DEF MakeProfile, KeepRedis, At, Carried
  <2> QED
    BY <2>1, GoKeeps, AnswerKeeps DEF Sweeps
<1>8. ASSUME issueTokenPair(q) PROVE AccountsInv'
  <2>1. /\ req[q].step = "issue" /\ Answer(q)
        /\ \/ Stored("refresh", req[q].user, req[q].root)
           \/ keys' = keys /\ live' = live
    BY <1>8 DEF issueTokenPair, At
  <2>2. CASE keys' = keys /\ live' = live
    BY <2>1, <2>2, AnswerKeeps DEF Sweeps
  <2>3. CASE Stored("refresh", req[q].user, req[q].root)
    <3>1. PICK b : b = [req[q] EXCEPT !.step = "done", !.due = {}, !.after = ""]
      OBVIOUS
    <3>2. req' = [req EXCEPT ![q] = b]
      BY <2>1, <3>1 DEF Answer
    <3>3. /\ b \in Carried /\ b.op = req[q].op /\ b.step = "done" /\ b.root = req[q].root
          /\ b.swept = req[q].swept /\ b.after = ""
      BY <1>0, <3>1 DEF Carried, Steps
    <3>4. /\ (req[q].op = "login" /\ req[q].root = 0) \/ Rotates(req[q])
          /\ Rotates(req[q]) => req[q].root \in Handed /\ req[q].op = "rotate"
          /\ req[q].swept \subseteq Handed /\ req[q].swept \cap live = {}
      BY <1>0, <2>1 DEF RequestOK, Rotates, Sweeps
    <3>5. PICK root, u : root = req[q].root /\ u = req[q].user
      OBVIOUS
    <3>6. /\ u \in Names /\ (root = 0 \/ root \in Handed) /\ Stored("refresh", u, root)
          /\ root # 0 => Rotates(req[q]) /\ req[q].root = root
      BY <1>0, <2>3, <3>4, <3>5 DEF Carried
    <3>7. /\ ~CallsBack(b) /\ (b.op = "login" => b.root = 0)
          /\ b.swept \cap live = {} /\ b.swept \subseteq Handed
      BY <3>3, <3>4 DEF CallsBack
    <3> QED
      BY <3>2, <3>3, <3>6, <3>7, StoredKeeps
  <2> QED
    BY <2>1, <2>2, <2>3
<1>9. ASSUME LogoutAllSweep(q) PROVE AccountsInv'
  <2>1. /\ req[q].step = "sweep" /\ keys' = keys
        /\ Scan(q, Of("refresh", req[q].user), SweepEnds(q, "done"))
    BY <1>9 DEF LogoutAllSweep, At
  <2> QED
    BY <2>1, SweepKeeps DEF Sweeps
<1> QED
  BY <1>1, <1>2, <1>3, <1>4, <1>5, <1>6, <1>7, <1>8, <1>9 DEF SessionNext

\* and those of an authorisation,
LEMMA ConnectKeeps ==
  ASSUME AccountsInv, NEW q \in Sessions, ConnectNext(q)
  PROVE  AccountsInv'
<1>0. /\ KeysOK /\ RequestOK(req[q]) /\ req[q] \in Carried /\ Users \subseteq Names
      /\ live \subseteq Handed
  BY DEF AccountsInv, RequestOK, Names, KeysOK
<1>1. ASSUME NEW u \in Users, generateState(q, u) PROVE AccountsInv'
  <2>0. u \in Names /\ Enter(q, "connect", u, "done")
    BY <1>0, <1>1 DEF generateState
  <2>1. CASE keys' = keys /\ live' = live
    BY <2>0, <2>1, EnterKeeps
  <2>2. CASE Stored("state", u, 0)
    <3>1. PICK b : b = [Fresh EXCEPT !.op = "connect", !.user = u, !.step = "done"]
      OBVIOUS
    <3>2. req' = [req EXCEPT ![q] = b]
      BY <2>0, <3>1 DEF Enter
    <3>3. /\ b \in Carried /\ b.op = "connect" /\ b.step = "done" /\ b.root = 0 /\ b.swept = {}
          /\ b.after = ""
      BY <2>0, <3>1, FreshShape DEF Carried, Ops, Steps
    <3>4. ~CallsBack(b)
      BY <3>3 DEF CallsBack
    <3> QED
      BY <2>0, <2>2, <3>2, <3>3, <3>4, StoredKeeps
  <2> QED
    BY <1>1, <2>1, <2>2 DEF generateState
<1>2. ASSUME NEW k \in Handed, validateAndConsume(q, k) PROVE AccountsInv'
  <2>0. keys' = keys
    BY <1>2 DEF validateAndConsume
  <2>1. CASE /\ k \in live /\ Take(k)
             /\ req' = [req EXCEPT ![q] = [Fresh EXCEPT !.op = "callback", !.step = "exchange",
                                             !.user = keys[k].user, !.root = k]]
    <3>1. PICK b : b = [Fresh EXCEPT !.op = "callback", !.step = "exchange",
                                     !.user = keys[k].user, !.root = k]
      OBVIOUS
    <3>2. /\ b \in Carried /\ b.op = "callback" /\ b.step = "exchange" /\ b.root = k
          /\ b.swept = {} /\ b.after = ""
      BY <3>1, FreshShape, CredentialShape DEF Carried, Ops, Steps
    <3>3. ~Sweeps(b) /\ live' = live \ {k} /\ req' = [req EXCEPT ![q] = b]
      BY <2>1, <3>1, <3>2 DEF Sweeps, Take
    <3> QED
      BY <2>0, <2>1, <3>2, <3>3, TakenKeeps
  <2>2. CASE Enter(q, "callback", keys[k].user, "done") /\ live' \subseteq live
    BY <2>0, <2>2, CredentialShape, EnterKeeps
  <2> QED
    BY <1>2, <2>1, <2>2 DEF validateAndConsume, Take
<1>3. ASSUME Exchange(q) PROVE AccountsInv'
  <2>1. req[q].step = "exchange" /\ keys' = keys /\ live' = live /\ (Go(q, "store") \/ Answer(q))
    BY <1>3 DEF Exchange, At, KeepRedis
  <2>2. "store" \in Steps
    BY DEF Steps
  <2> QED
    BY <2>1, <2>2, GoKeeps, AnswerKeeps DEF Sweeps
<1>4. ASSUME upsertConnection(q) PROVE AccountsInv'
  <2>1. /\ req[q].step = "store" /\ keys' = keys /\ live' = live
        /\ req' = [req EXCEPT ![q].step = "find", ![q].after = "upsertProfile"] \/ Answer(q)
    BY <1>4 DEF upsertConnection, At, KeepRedis
  <2>2. CASE Answer(q)
    BY <2>1, <2>2, AnswerKeeps DEF Sweeps
  <2>3. CASE req' = [req EXCEPT ![q].step = "find", ![q].after = "upsertProfile"]
    <3>1. PICK b : b = [req[q] EXCEPT !.step = "find", !.after = "upsertProfile"]
      OBVIOUS
    <3>2. req' = [req EXCEPT ![q] = b]
      BY <2>3, <3>1
    <3>3. /\ b \in Carried /\ b.op = req[q].op /\ b.step = "find" /\ b.root = req[q].root
          /\ b.swept = req[q].swept /\ b.after = "upsertProfile"
      BY <1>0, <3>1 DEF Carried, Steps
    <3> QED
      BY <2>1, <3>2, <3>3, GoesOn DEF Sweeps
  <2> QED
    BY <2>1, <2>2, <2>3
<1>5. ASSUME updateProfile(q) PROVE AccountsInv'
  <2>1. req[q].step = "upsertProfile" /\ keys' = keys /\ live' = live /\ Answer(q)
    BY <1>5 DEF updateProfile, At, KeepRedis
  <2> QED
    BY <2>1, AnswerKeeps DEF Sweeps
<1> QED
  BY <1>1, <1>2, <1>3, <1>4, <1>5 DEF ConnectNext

\* and those of a deletion,
LEMMA DeletionKeeps ==
  ASSUME AccountsInv, failing \in Nat, NEW q \in Sessions, DeletionNext(q)
  PROVE  AccountsInv'
<1>0. /\ KeysOK /\ RequestOK(req[q]) /\ req[q] \in Carried /\ Users \subseteq Names
      /\ live \subseteq Handed /\ (req[q].after = "issue" => req[q].op = "login")
  BY DEF AccountsInv, RequestOK, Names, KeysOK
<1>1. ASSUME NEW u \in Users, DeleteAccount(q, u) PROVE AccountsInv'
  <2>1. BeginSweep(q, "delete", u, "revoke") /\ keys' = keys /\ live' = live
    BY <1>1 DEF DeleteAccount, KeepRedis
  <2> QED
    BY <1>0, <2>1, BeginSweepKeeps
<1>2. ASSUME RevokeSessions(q) PROVE AccountsInv'
  <2>1. /\ req[q].step = "revoke" /\ keys' = keys
        /\ Scan(q, Of("refresh", req[q].user), SweepEnds(q, "owned"))
    BY <1>2 DEF RevokeSessions, At
  <2> QED
    BY <2>1, SweepKeeps DEF Sweeps
\* A turn of the loop over the states, and the steps over the tables.
<1>3. ASSUME NEW b, b \in Carried, b.op = req[q].op, b.root = req[q].root, b.swept = req[q].swept,
             b.after = req[q].after, b.step # "issue", ~Sweeps(req[q]),
             req' = [req EXCEPT ![q] = b], keys' = keys, live' \subseteq live
      PROVE  AccountsInv'
  BY <1>0, <1>3, GoesOn
<1>4. ASSUME deleteUserData(q) PROVE AccountsInv'
  <2>1. keys' = keys /\ live' = live /\ req[q].step \in {"owned", "user"} /\ ~Sweeps(req[q])
    BY <1>4 DEF deleteUserData, KeepRedis, At, Sweeps
  <2>2. CASE req' = [req EXCEPT ![q].table = @ + 1]
    <3>1. PICK b : b = [req[q] EXCEPT !.table = @ + 1]
      OBVIOUS
    <3>2. req' = [req EXCEPT ![q] = b]
      BY <2>2, <3>1
    <3>3. /\ b \in Carried /\ b.op = req[q].op /\ b.step = req[q].step /\ b.root = req[q].root
          /\ b.swept = req[q].swept /\ b.after = req[q].after
      BY <1>0, <3>1 DEF Carried
    <3> QED
      BY <1>3, <2>1, <3>2, <3>3
  <2>3. CASE Go(q, "user")
    <3>1. "user" \in Steps
      BY DEF Steps
    <3> QED
      BY <2>1, <2>3, <3>1, GoKeeps
  <2>4. CASE req' = [req EXCEPT ![q].step = "states", ![q].due = States]
    <3>1. PICK b : b = [req[q] EXCEPT !.step = "states", !.due = States]
      OBVIOUS
    <3>2. req' = [req EXCEPT ![q] = b]
      BY <2>4, <3>1
    <3>3. States \in SUBSET Nat
      BY <1>0, HandedShape DEF States
    <3>4. /\ b \in Carried /\ b.op = req[q].op /\ b.step = "states" /\ b.root = req[q].root
          /\ b.swept = req[q].swept /\ b.after = req[q].after
      BY <1>0, <3>1, <3>3 DEF Carried, Steps
    <3> QED
      BY <1>3, <2>1, <3>2, <3>4
  <2>5. CASE Answer(q)
    BY <2>1, <2>5, AnswerKeeps
  <2> QED
    BY <1>4, <2>2, <2>3, <2>4, <2>5 DEF deleteUserData
<1>5. ASSUME DropStates(q) PROVE AccountsInv'
  <2>1. /\ req[q].step = "states" /\ keys' = keys /\ ~Sweeps(req[q])
        /\ Scan(q, States, Answer(q))
    BY <1>5 DEF DropStates, At, Sweeps
  <2>2. CASE Answer(q) /\ live' \subseteq live
    BY <2>1, <2>2, AnswerKeeps
  <2>3. ASSUME NEW batch, live' = live \ batch, req' = [req EXCEPT ![q].due = req[q].due \ batch]
        PROVE  AccountsInv'
    <3>1. PICK b : b = [req[q] EXCEPT !.due = req[q].due \ batch]
      OBVIOUS
    <3>2. req' = [req EXCEPT ![q] = b]
      BY <2>3, <3>1
    <3>3. /\ b \in Carried /\ b.op = req[q].op /\ b.step = "states" /\ b.root = req[q].root
          /\ b.swept = req[q].swept /\ b.after = req[q].after
      BY <1>0, <2>1, <3>1 DEF Carried
    <3> QED
      BY <1>3, <2>1, <2>3, <3>2, <3>3
  <2> QED
    BY <2>1, <2>2, <2>3 DEF Scan
<1> QED
  BY <1>1, <1>2, <1>4, <1>5 DEF DeletionNext

\* so that every step does.
LEMMA AccountsInductive ==
  ASSUME AccountsInv, failing \in Nat, [AccountsNext]_accountVars
  PROVE  AccountsInv'
<1>1. ASSUME \/ \E k \in live : Expire(k)
             \/ \E u \in Users, t \in Range(Owned) : Work(u, t)
             \/ UNCHANGED accountVars
      PROVE  req' = req /\ keys' = keys /\ live' \subseteq live
  BY <1>1 DEF Expire, Work, accountVars
<1> QED
  BY <1>1, WaitKeeps, SessionKeeps, ConnectKeeps, DeletionKeeps DEF AccountsNext

\* A set without two different elements is empty or has one.
LEMMA AtMostOne ==
  ASSUME NEW S, \A x, y \in S : x = y
  PROVE  Cardinality(S) \in {0, 1} /\ (S = {} <=> Cardinality(S) = 0)
<1>1. CASE S = {}
  BY <1>1, FS_EmptySet
<1>2. CASE S # {}
  <2>1. PICK x : S = {x}
    BY <1>2
  <2>2. Cardinality({x}) = 1
    BY FS_Singleton
  <2> QED
    BY <1>2, <2>1, <2>2
<1> QED
  BY <1>1, <1>2

\* However many requests name a refresh token or a state at once, one spends it; and a loop that
\* revokes without an error leaves none of the tokens that were there when it began.
THEOREM AccountsAreHeld == AccountsSpec => []AccountsHold
<1>1. AccountsInit => AccountsInv /\ failing \in Nat
  <2> SUFFICES ASSUME AccountsInit PROVE AccountsInv /\ failing \in Nat
    OBVIOUS
  <2>1. keys = << >> /\ Handed = {} /\ live = {} /\ failing = 0 /\ KeysOK
    BY DEF AccountsInit, KeysOK, Handed
  <2>2. \A q \in Sessions : req[q] = Fresh
    BY DEF AccountsInit
  <2>3. RequestOK(Fresh)
    BY <2>1, FreshShape DEF RequestOK, Rotates, CallsBack
  <2>4. HoldersDiffer
    BY <2>1, <2>2, FreshShape DEF HoldersDiffer, Rotates, CallsBack
  <2> QED
    BY <2>1, <2>2, <2>3, <2>4 DEF AccountsInv, AccountsInit
<1>2. AccountsInv /\ failing \in Nat /\ [AccountsNext]_accountVars
        => (AccountsInv /\ failing \in Nat)'
  BY AccountsInductive, FaultsCount
<1>3. AccountsInv => AccountsHold
  <2> SUFFICES ASSUME AccountsInv PROVE AccountsHold
    OBVIOUS
  <2>1. HoldersDiffer /\ live \subseteq Handed
    BY DEF AccountsInv, KeysOK
  <2>2. ASSUME NEW root \in Handed
        PROVE  Cardinality({k \in live : keys[k].kind = "refresh" /\ keys[k].root = root})
                 + Cardinality({q \in Sessions : req[q].op = "rotate" /\ At(q, "issue")
                                                   /\ req[q].root = root}) <= 1
    <3>1. PICK A, B : /\ A = {k \in live : keys[k].kind = "refresh" /\ keys[k].root = root}
                      /\ B = {q \in Sessions : req[q].op = "rotate" /\ At(q, "issue")
                                                 /\ req[q].root = root}
      OBVIOUS
    <3>2. /\ \A j, k \in A : j = k
          /\ \A p, q \in B : p = q
          /\ A = {} \/ B = {}
      BY <2>1, <3>1 DEF HoldersDiffer, Refreshes, Rotates, At
    <3>3. /\ Cardinality(A) \in {0, 1} /\ (A = {} <=> Cardinality(A) = 0)
          /\ Cardinality(B) \in {0, 1} /\ (B = {} <=> Cardinality(B) = 0)
      BY <3>2, AtMostOne
    <3> QED
      BY <3>1, <3>2, <3>3
  <2>3. ASSUME NEW p \in Sessions, NEW q \in Sessions,
               req[p].op = "callback" /\ req[q].op = "callback",
               req[p].root # 0 /\ req[p].root = req[q].root
        PROVE  p = q
    BY <2>1, <2>3 DEF HoldersDiffer, CallsBack
  <2>4. SweptAreGone
    <3>1. ASSUME NEW q \in Sessions, req[q].step \notin {"sweep", "revoke"}
          PROVE  req[q].swept \cap live = {}
      BY <3>1 DEF AccountsInv, RequestOK, Sweeps
    <3> QED
      BY <3>1 DEF SweptAreGone
  <2> QED
    BY <2>2, <2>3, <2>4 DEF AccountsHold, CredentialsAreSpentOnce
<1> QED
  BY <1>1, <1>2, <1>3, PTL DEF AccountsSpec

-----------------------------------------------------------------------------
(* The facts of a candidate.                                               *)

Fact == [key : Keys, conf : Confidences, at : Nat, corrected : BOOLEAN, current : BOOLEAN,
         next : Nat, version : Nat, deleted : BOOLEAN,
         review : {"none", "pending", "rejected"}, of : Nat]
Parse == [step : {"queued", "next", "record", "done"}, pos : Nat, seen : Nat, at : Nat, left : Nat]
ClientCall == [step : {"idle", "correct", "corrected", "copy", "promote", "upsert"},
               fact : Nat, copies : SUBSET Nat, left : Nat]

\* The table: a row that is not current was superseded or deleted, a corrected row has a
\* superseded one behind it, and histories ascend.
RowOK(i) ==
  LET f == facts[i] IN
  /\ f \in Fact
  /\ ~f.current => f.next # NoId \/ f.deleted
  /\ f.next # NoId => Exists(f.next) /\ facts[f.next].version > f.version /\ ~f.current
  /\ f.corrected =>
       /\ Exists(f.of) /\ facts[f.of].next # NoId /\ ~facts[f.of].current
       /\ f.version = facts[f.of].version + 1

TableOK ==
  /\ rows \in Nat /\ rows <= MaxFacts /\ clock \in Nat /\ DOMAIN facts = Ids
  /\ \A i \in 1 .. rows : RowOK(i)

\* Jobs and calls name rows that exist.
ParseOK(p) ==
  /\ job[p] \in Parse
  /\ job[p].step = "record" => job[p].pos \in DOMAIN Items /\ job[p].seen \in 0 .. rows

CallNames(c) ==
  /\ call[c] \in ClientCall
  /\ call[c].step \in {"correct", "corrected", "promote", "upsert"} => Exists(call[c].fact)
  /\ call[c].step = "copy" => call[c].copies \subseteq 1 .. rows

HandsOK ==
  /\ DOMAIN job = Parsers /\ DOMAIN call = Clients
  /\ \A p \in Parsers : ParseOK(p)
  /\ \A c \in Clients : CallNames(c)

\* The canonical row of a key repeats a row that was offered, a corrected one if there is any,
\* and no other one offered beats it if ties are classes.
SlotOK(k) ==
  /\ slot[k].source # NoId => facts[slot[k].source].conf = slot[k].conf /\ facts[slot[k].source].at = slot[k].at
  /\ \A i \in offered[k] : Exists(i) /\ facts[i].key = k
  /\ slot[k].source # NoId <=> offered[k] # {}
  /\ slot[k].source # NoId => slot[k].source \in offered[k]
  /\ \A i \in offered[k] : facts[i].corrected => facts[slot[k].source].corrected
  /\ TiesAreClasses(k) => \A i \in offered[k] : ~CandidateWins(facts[i], Incumbent(k))

\* Who is about to write the canonical row has decided on the row that is there.
Wins(i, k) ==
  \/ slot[k].source = NoId
  \/ slot[k].source # i /\ CandidateWins(facts[i], Incumbent(k))

Promoting(c) == call[c].step \in {"promote", "upsert"}

KeyOK(k) ==
  /\ SlotOK(k)
  /\ \A c, d \in InFlight(k) : c = d
  /\ \A c \in InFlight(k) : call[c].step = "upsert" => Wins(call[c].fact, k)

Canonical == [source : Nat, conf : Nat, at : Nat, active : BOOLEAN]

CanonOK ==
  /\ slot \in [Keys -> Canonical]
  /\ offered \in [Keys -> SUBSET Nat] /\ clash \subseteq Keys
  /\ \A k \in Keys \ clash : KeyOK(k)

FactsInv == TableOK /\ HandsOK /\ CanonOK

\* What a parser finds has a key and a confidence.
LEMMA ItemsAreTyped ==
  /\ Confidences \subseteq Nat /\ Certain \in Confidences
  /\ \A n \in DOMAIN Items : Items[n].key \in Keys /\ Items[n].conf \in Confidences
<1>1. \A n \in DOMAIN Items : Items[n].key \in Keys /\ Items[n].conf \in Nat
  BY Bounds
<1>2. Certain \in Nat
  BY Bounds
<1> QED
  BY <1>1, <1>2 DEF Confidences

\* What a row is ranked by never changes.
SameRank(f, g) == g.conf = f.conf /\ g.at = f.at /\ g.corrected = f.corrected

\* Who wins depends on nothing but the ranks.
LEMMA RanksDecide ==
  ASSUME NEW a, NEW b, NEW x, NEW y, SameRank(a, x), SameRank(b, y)
  PROVE  CandidateWins(a, b) <=> CandidateWins(x, y)
BY DEF SameRank, CandidateWins

\* The rules are a strict order on rows.
Ranked(f) == f.conf \in Confidences /\ f.at \in Nat /\ f.corrected \in BOOLEAN

\* The order in which facts win is strict:
LEMMA NobodyBeatsItself ==
  ASSUME NEW a, Ranked(a)
  PROVE  ~CandidateWins(a, a)
<1>1. a.conf \in Nat /\ a.at \in Nat
  BY ItemsAreTyped DEF Ranked
<1>2. Tie(a.conf, a.conf)
  BY <1>1, Bounds DEF Tie
<1> QED
  BY <1>1, <1>2 DEF CandidateWins

\* nobody wins against himself, and winning is transitive where ties are.
LEMMA WinningIsTransitive ==
  ASSUME NEW a, NEW b, NEW c, Ranked(a), Ranked(b), Ranked(c),
         CandidateWins(a, b), CandidateWins(b, c),
         \A x, y, z \in {a.conf, b.conf, c.conf} : Tie(x, y) /\ Tie(y, z) => Tie(x, z)
  PROVE  CandidateWins(a, c)
<1> DEFINE x == a.conf
           y == b.conf
           z == c.conf
<1>1. x \in Confidences /\ y \in Confidences /\ z \in Confidences
  BY DEF Ranked
<1>2. x \in Nat /\ y \in Nat /\ z \in Nat /\ a.at \in Nat /\ b.at \in Nat /\ c.at \in Nat
  BY <1>1, ItemsAreTyped DEF Ranked
<1>3. /\ Tie(x, y) /\ Tie(y, z) => Tie(x, z)
      /\ Tie(y, x) /\ Tie(x, z) => Tie(y, z)
      /\ Tie(x, z) /\ Tie(z, y) => Tie(x, y)
  OBVIOUS
<1>4. CASE a.corrected /\ ~c.corrected
  BY <1>4 DEF CandidateWins
<1>5. CASE a.corrected = b.corrected /\ b.corrected = c.corrected
  <2>1. IF Tie(x, y) THEN a.at > b.at ELSE x > y
    BY <1>5 DEF CandidateWins
  <2>2. IF Tie(y, z) THEN b.at > c.at ELSE y > z
    BY <1>5 DEF CandidateWins
  <2> HIDE DEF x, y, z
  <2>3. CASE Tie(x, y) /\ Tie(y, z)
    <3>1. Tie(x, z) /\ a.at > c.at
      BY <1>2, <1>3, <2>1, <2>2, <2>3
    <3> QED
      BY <1>5, <3>1 DEF CandidateWins, x, z
  <2>4. CASE ~(Tie(x, y) /\ Tie(y, z))
    <3>1. (Tie(y, x) <=> Tie(x, y)) /\ (Tie(z, y) <=> Tie(y, z))
      BY DEF Tie
    <3>2. ~Tie(x, z)
      <4> SUFFICES ASSUME Tie(x, z) PROVE FALSE
        OBVIOUS
      <4>1. ~Tie(x, y) /\ ~Tie(y, z)
        BY <1>3, <2>4, <3>1
      <4> QED
        BY <1>2, <2>1, <2>2, <4>1, Bounds DEF Tie
    <3>3. x > z
      BY <1>2, <2>1, <2>2, <2>4, <3>2, Bounds DEF Tie
    <3> QED
      BY <1>5, <3>2, <3>3 DEF CandidateWins, x, z
  <2> QED
    BY <2>3, <2>4
<1>6. a.corrected \in BOOLEAN /\ b.corrected \in BOOLEAN /\ c.corrected \in BOOLEAN
  BY DEF Ranked
<1>7. (a.corrected \/ ~b.corrected) /\ (b.corrected \/ ~c.corrected)
  BY <1>6 DEF CandidateWins
<1> QED
  BY <1>4, <1>5, <1>6, <1>7

\* A row keeps what it says; it may be superseded or deleted, and stays so.
Follows(f, g) ==
  /\ SameRank(f, g) /\ g.key = f.key /\ g.version = f.version /\ g.of = f.of
  /\ g.current => f.current
  /\ f.next # NoId => g.next # NoId

Grown ==
  /\ rows' \in Nat /\ rows <= rows'
  /\ \A i \in 1 .. rows : Follows(facts[i], facts'[i])

\* A row that is not touched stays sound while the table grows.
LEMMA OldRowsHold ==
  ASSUME TableOK, Grown, NEW i \in 1 .. rows, facts'[i] = facts[i]
  PROVE  RowOK(i)'
<1>1. RowOK(i) /\ rows \in Nat
  BY DEF TableOK
<1>2. rows' \in Nat /\ rows <= rows'
  BY DEF Grown
<1>3. \A j \in 1 .. rows : j \in 1 .. rows' /\ Follows(facts[j], facts'[j])
  BY <1>1, <1>2 DEF Grown
<1>4. ASSUME facts[i].next # NoId
      PROVE  facts[i].next \in 1 .. rows' /\ facts'[facts[i].next].version > facts[i].version /\ ~facts[i].current
  BY <1>1, <1>3, <1>4 DEF RowOK, Exists, Follows
<1>5. ASSUME facts[i].corrected
      PROVE  /\ facts[i].of \in 1 .. rows' /\ facts'[facts[i].of].next # NoId /\ ~facts'[facts[i].of].current
             /\ facts[i].version = facts'[facts[i].of].version + 1
  BY <1>1, <1>3, <1>5 DEF RowOK, Exists, Follows
<1>6. facts[i] \in Fact /\ (~facts[i].current => facts[i].next # NoId \/ facts[i].deleted)
  BY <1>1 DEF RowOK
<1> QED
  BY <1>4, <1>5, <1>6 DEF RowOK, Exists

\* A row follows itself.
LEMMA RowsAreLater == \A f : Follows(f, f)
BY DEF Follows, SameRank

\* The table stays sound without a change,
LEMMA TableStays ==
  ASSUME TableOK, UNCHANGED <<facts, rows>>, clock' \in Nat
  PROVE  TableOK' /\ Grown
<1>1. rows \in Nat /\ rows <= rows
  BY DEF TableOK
<1>2. Grown
  BY <1>1, RowsAreLater DEF Grown
<1>3. \A i \in 1 .. rows : RowOK(i)'
  BY <1>2, OldRowsHold
<1> QED
  BY <1>2, <1>3 DEF TableOK

\* A new row that supersedes an old one, or none.
NewRow(g, old) ==
  /\ g \in Fact /\ g.current /\ g.next = NoId
  /\ old # NoId => g.version = facts[old].version + 1
  /\ g.corrected => old # NoId /\ g.of = old

RowAdded(g, old) ==
  /\ rows + 1 \in Ids /\ rows' = rows + 1 /\ clock' \in Nat
  /\ facts' = IF old = NoId THEN [facts EXCEPT ![rows + 1] = g]
              ELSE Supersede([facts EXCEPT ![rows + 1] = g], old, rows + 1)

\* and with a new row behind an old one.
LEMMA RowIsAdded ==
  ASSUME TableOK, NEW old \in 0 .. rows, NEW g, NewRow(g, old), RowAdded(g, old)
  PROVE  TableOK' /\ Grown
<1>1. rows \in Nat /\ MaxFacts \in Nat /\ DOMAIN facts = Ids /\ rows <= MaxFacts
      /\ rows' = rows + 1 /\ rows + 1 \in Ids /\ clock' \in Nat
  BY Bounds DEF TableOK, RowAdded
<1>2. \A i \in 1 .. rows : i \in Ids /\ i # rows + 1 /\ i # NoId
  BY <1>1 DEF Ids, NoId
<1>3. old # NoId => old \in 1 .. rows
  BY <1>1 DEF NoId
<1> DEFINE s == [facts[old] EXCEPT !.current = FALSE, !.next = rows + 1]
<1>4. facts'[rows + 1] = g
  BY <1>1, <1>2, <1>3 DEF Supersede, RowAdded
<1>5. old # NoId => facts'[old] = s
  BY <1>1, <1>2, <1>3 DEF Supersede, RowAdded
<1>6. \A i \in 1 .. rows : i # old => facts'[i] = facts[i]
  BY <1>1, <1>2, <1>3 DEF Supersede, RowAdded
<1>7. DOMAIN facts' = Ids
  BY <1>1 DEF Supersede, RowAdded
<1>8. old # NoId => facts[old] \in Fact /\ RowOK(old)
  BY <1>3 DEF TableOK, RowOK
<1>9. rows + 1 # NoId /\ rows + 1 \in Nat
  BY <1>1 DEF NoId
<1>10. old # NoId => /\ s \in Fact /\ s.next = rows + 1 /\ ~s.current /\ Follows(facts[old], s)
                     /\ s.corrected = facts[old].corrected /\ s.of = facts[old].of
                     /\ s.version = facts[old].version /\ s.deleted = facts[old].deleted
  BY <1>8, <1>9 DEF Fact, Follows, SameRank
<1> HIDE DEF s
<1>11. Grown
  <2>1. \A i \in 1 .. rows : Follows(facts[i], facts'[i])
    BY <1>2, <1>3, <1>5, <1>6, <1>10, RowsAreLater
  <2> QED
    BY <1>1, <2>1 DEF Grown
<1>12. \A i \in 1 .. rows : i # old => RowOK(i)'
  BY <1>6, <1>11, OldRowsHold
<1>0. g \in Fact /\ g.next = NoId /\ g.current
  BY DEF NewRow
<1>13. old # NoId => g.version \in Nat /\ facts[old].version \in Nat /\ g.version > facts[old].version
  BY <1>0, <1>8 DEF Fact, NewRow
<1>14. ASSUME old # NoId PROVE RowOK(old)'
  <2>1. rows + 1 \in 1 .. rows' /\ facts'[rows + 1].version > s.version
    BY <1>1, <1>4, <1>10, <1>13, <1>14 DEF Exists
  <2>2. ASSUME s.corrected
        PROVE  /\ s.of \in 1 .. rows' /\ facts'[s.of].next # NoId /\ ~facts'[s.of].current
               /\ s.version = facts'[s.of].version + 1
    <3>1. Exists(facts[old].of) /\ facts[facts[old].of].next # NoId /\ ~facts[facts[old].of].current
          /\ facts[old].version = facts[facts[old].of].version + 1
      BY <1>8, <1>10, <1>14, <2>2 DEF RowOK
    <3>2. Follows(facts[facts[old].of], facts'[facts[old].of])
      BY <1>11, <3>1 DEF Grown, Exists
    <3>3. facts[old].of \in 1 .. rows'
      BY <1>1, <3>1 DEF Exists
    <3> QED
      BY <1>10, <1>14, <3>1, <3>2, <3>3 DEF Follows
  <2> QED
    BY <1>5, <1>9, <1>10, <1>14, <2>1, <2>2 DEF RowOK, Exists
<1>15. ASSUME NEW i, i = rows + 1 PROVE RowOK(i)'
  <2>1. ASSUME g.corrected
        PROVE  /\ g.of \in 1 .. rows' /\ facts'[g.of].next # NoId /\ ~facts'[g.of].current
               /\ g.version = facts'[g.of].version + 1
    <3>1. old \in 1 .. rows'
      BY <1>1, <1>3, <2>1 DEF NewRow
    <3> QED
      BY <1>5, <1>9, <1>10, <2>1, <3>1 DEF NewRow
  <2> QED
    BY <1>0, <1>4, <1>15, <2>1 DEF RowOK, Exists
<1>16. \A i \in 1 .. rows' : i \in 1 .. rows \/ i = rows + 1
  BY <1>1
<1>17. rows' \in Nat /\ rows' <= MaxFacts
  BY <1>1 DEF Ids
<1>18. ASSUME NEW i \in 1 .. rows' PROVE RowOK(i)'
  <2>1. CASE i = rows + 1
    BY <1>15, <2>1
  <2>2. CASE i = old
    BY <1>1, <1>14, <2>2 DEF NoId
  <2>3. CASE i \in 1 .. rows /\ i # old
    BY <1>12, <2>3
  <2> QED
    BY <1>16, <2>1, <2>2, <2>3
<1> QED
  BY <1>1, <1>7, <1>11, <1>17, <1>18 DEF TableOK

\* A row is marked, or deleted.
LEMMA RowIsTouched ==
  ASSUME TableOK, NEW i \in 1 .. rows, NEW g \in Fact, Follows(facts[i], g), g.next = facts[i].next,
         ~g.current => g.next # NoId \/ g.deleted, g.corrected = facts[i].corrected,
         facts' = [facts EXCEPT ![i] = g], UNCHANGED <<rows, clock>>
  PROVE  TableOK' /\ Grown
<1>1. rows \in Nat /\ DOMAIN facts = Ids /\ i \in Ids
  BY Bounds DEF TableOK, Ids
<1>2. facts'[i] = g /\ \A j \in 1 .. rows : j # i => facts'[j] = facts[j]
  BY <1>1
<1>3. Grown
  <2>1. \A j \in 1 .. rows : Follows(facts[j], facts'[j])
    BY <1>2, RowsAreLater
  <2>2. rows <= rows
    BY <1>1
  <2> QED
    BY <1>1, <2>1, <2>2 DEF Grown
<1>4. \A j \in 1 .. rows : j # i => RowOK(j)'
  BY <1>2, <1>3, OldRowsHold
<1>5. RowOK(i) /\ facts[i].version = g.version /\ facts[i].of = g.of
  BY DEF TableOK, Follows
<1>6. \A j \in 1 .. rows : Follows(facts[j], facts'[j])
  BY <1>3 DEF Grown
<1>7. g.next # NoId => g.next \in 1 .. rows' /\ facts'[g.next].version > g.version /\ ~g.current
  BY <1>5, <1>6 DEF RowOK, Exists, Follows
<1>8. g.corrected => /\ g.of \in 1 .. rows' /\ facts'[g.of].next # NoId /\ ~facts'[g.of].current
                     /\ g.version = facts'[g.of].version + 1
  BY <1>5, <1>6 DEF RowOK, Exists, Follows
<1>9. RowOK(i)'
  BY <1>2, <1>7, <1>8 DEF RowOK, Exists
<1> QED
  BY <1>1, <1>3, <1>4, <1>9 DEF TableOK

\* The hands of the others are as they were when a parser moves,
LEMMA ParserMoves ==
  ASSUME HandsOK, Grown, NEW p \in Parsers, NEW b \in Parse,
         b.step = "record" => b.pos \in DOMAIN Items /\ b.seen \in 0 .. rows',
         job' = [job EXCEPT ![p] = b], UNCHANGED call, rows \in Nat
  PROVE  HandsOK'
<1>1. DOMAIN job' = Parsers /\ job'[p] = b /\ \A q \in Parsers : q # p => job'[q] = job[q]
  BY DEF HandsOK
<1>2. \A n \in 0 .. rows : n \in 0 .. rows'
  BY DEF Grown
<1>3. \A q \in Parsers : ParseOK(q)'
  BY <1>1, <1>2 DEF HandsOK, ParseOK
<1>4. \A c \in Clients : CallNames(c)'
  BY <1>2 DEF HandsOK, CallNames, Exists, Grown
<1> QED
  BY <1>1, <1>3, <1>4 DEF HandsOK

\* and when a client does.
LEMMA ClientMoves ==
  ASSUME HandsOK, Grown, NEW c \in Clients, NEW b \in ClientCall,
         b.step \in {"correct", "corrected", "promote", "upsert"} => b.fact \in 1 .. rows',
         b.step = "copy" => b.copies \subseteq 1 .. rows',
         call' = [call EXCEPT ![c] = b], UNCHANGED job, rows \in Nat
  PROVE  HandsOK'
<1>1. DOMAIN call' = Clients /\ call'[c] = b /\ \A d \in Clients : d # c => call'[d] = call[d]
  BY DEF HandsOK
<1>2. \A n \in 0 .. rows : n \in 0 .. rows'
  BY DEF Grown
<1>3. \A n \in 1 .. rows : n \in 1 .. rows'
  BY DEF Grown
<1>4. \A q \in Parsers : ParseOK(q)'
  BY <1>2 DEF HandsOK, ParseOK
<1>5. \A d \in Clients : d # c => CallNames(d)'
  BY <1>1, <1>3 DEF HandsOK, CallNames, Exists
<1>6. CallNames(c)'
  BY <1>1 DEF CallNames, Exists
<1> QED
  BY <1>1, <1>4, <1>5, <1>6 DEF HandsOK

\* A canonical row that nobody rewrites, and the promotions of its key that nobody joins.
SameSlot(k) ==
  slot'[k].source = slot[k].source /\ slot'[k].conf = slot[k].conf /\ slot'[k].at = slot[k].at

\* The incumbent of a slot ranks as the row it was copied from.
LEMMA IncumbentsAreRows ==
  ASSUME NEW k, SlotOK(k), slot[k].source # NoId, NEW f
  PROVE  CandidateWins(f, Incumbent(k)) <=> CandidateWins(f, facts[slot[k].source])
<1>1. SameRank(Incumbent(k), facts[slot[k].source])
  BY DEF SlotOK, Incumbent, SameRank
<1>2. SameRank(f, f)
  BY DEF SameRank
<1> QED
  BY <1>1, <1>2, RanksDecide

\* Growth of the table does not change who wins.
LEMMA WinnersStay ==
  ASSUME Grown, NEW k, NEW i \in 1 .. rows, slot[k].source # NoId => slot[k].source \in 1 .. rows,
         SameSlot(k)
  PROVE  /\ slot[k].source # NoId =>
              (CandidateWins(facts'[i], Incumbent(k)') <=> CandidateWins(facts[i], Incumbent(k)))
         /\ Wins(i, k) <=> Wins(i, k)'
<1>1. ASSUME slot[k].source # NoId
      PROVE  CandidateWins(facts'[i], Incumbent(k)') <=> CandidateWins(facts[i], Incumbent(k))
  <2>1. SameRank(facts[i], facts'[i])
    BY DEF Grown, Follows
  <2>2. Follows(facts[slot[k].source], facts'[slot[k].source])
    BY <1>1 DEF Grown
  <2>3. SameRank(Incumbent(k), Incumbent(k)')
    BY <2>2 DEF Incumbent, SameRank, SameSlot, Follows
  <2> QED
    BY <2>1, <2>3, RanksDecide
<1> QED
  BY <1>1 DEF Wins, SameSlot

\* Ties that are classes were classes before, when less had been offered.
LEMMA TiesStay ==
  ASSUME Grown, NEW k, \A i \in offered[k] : i \in 1 .. rows, offered[k] \subseteq offered'[k],
         TiesAreClasses(k)'
  PROVE  TiesAreClasses(k)
<1>1. \A i \in offered[k] : i \in offered'[k] /\ facts'[i].conf = facts[i].conf
  BY DEF Grown, Follows, SameRank
<1> QED
  BY <1>1 DEF TiesAreClasses

\* What is known of a key stays, unless a promotion of it begins,
LEMMA KeyStays ==
  ASSUME HandsOK, Grown, rows \in Nat, NEW k, KeyOK(k), SameSlot(k), offered'[k] = offered[k],
         \A c \in InFlight(k)' : c \in InFlight(k) /\ call'[c] = call[c]
  PROVE  KeyOK(k)'
<1>1. SlotOK(k)
  BY DEF KeyOK
<1>2. \A i \in offered[k] : i \in 1 .. rows /\ facts[i].key = k
  BY <1>1 DEF SlotOK, Exists
<1>3. slot[k].source # NoId => slot[k].source \in 1 .. rows /\ slot[k].source \in offered[k]
  BY <1>1, <1>2 DEF SlotOK
<1>4. \A i \in 1 .. rows : i \in 1 .. rows' /\ Follows(facts[i], facts'[i])
  BY DEF Grown
<1>5. ASSUME TiesAreClasses(k)', NEW i \in offered[k]
      PROVE  ~CandidateWins(facts'[i], Incumbent(k)')
  <2>1. TiesAreClasses(k)
    BY <1>2, <1>5, TiesStay
  <2>2. slot[k].source # NoId /\ ~CandidateWins(facts[i], Incumbent(k))
    BY <1>1, <2>1 DEF SlotOK
  <2> QED
    BY <1>2, <1>3, <2>2, WinnersStay
<1>6. slot[k].source # NoId =>
        facts'[slot[k].source].conf = slot[k].conf /\ facts'[slot[k].source].at = slot[k].at
  BY <1>1, <1>3, <1>4 DEF SlotOK, Follows, SameRank
<1>7. \A i \in offered[k] : i \in 1 .. rows' /\ facts'[i].key = k
  BY <1>2, <1>4 DEF Follows
<1>8. \A i \in offered[k] : facts'[i].corrected => facts'[slot[k].source].corrected
  BY <1>1, <1>2, <1>3, <1>4 DEF SlotOK, Follows, SameRank
<1>9. SlotOK(k)'
  BY <1>1, <1>3, <1>5, <1>6, <1>7, <1>8 DEF SlotOK, SameSlot, Exists
<1>10. \A c, d \in InFlight(k)' : c = d
  BY DEF KeyOK
<1>11. ASSUME NEW c \in InFlight(k)', call'[c].step = "upsert" PROVE Wins(call[c].fact, k)'
  <2>1. c \in InFlight(k) /\ call'[c] = call[c] /\ call[c].step = "upsert" /\ c \in Clients
    BY <1>11 DEF InFlight
  <2>2. PICK n : n = call[c].fact
    OBVIOUS
  <2>3. Wins(n, k) /\ n \in 1 .. rows
    BY <2>1, <2>2 DEF KeyOK, HandsOK, CallNames, Exists
  <2>4. Wins(n, k)'
    BY <1>3, <2>3, WinnersStay
  <2>5. n = call'[c].fact
    BY <2>1, <2>2
  <2> QED
    BY <2>4, <2>5
<1> QED
  BY <1>9, <1>10, <1>11 DEF KeyOK

\* A step that promotes nothing leaves the canonical rows in order.
SlotsStay == slot' \in [Keys -> Canonical] /\ \A k \in Keys : SameSlot(k)

\* and so does what is known of all.
LEMMA CanonStays ==
  ASSUME TableOK, HandsOK, CanonOK, Grown, SlotsStay, UNCHANGED <<offered, clash>>,
         \A c \in Clients : Promoting(c)' => call'[c] = call[c]
  PROVE  CanonOK'
<1>1. \A k \in Keys : \A c \in InFlight(k)' : c \in InFlight(k) /\ call'[c] = call[c]
  <2> TAKE k \in Keys
  <2> SUFFICES ASSUME NEW c \in InFlight(k)' PROVE c \in InFlight(k) /\ call'[c] = call[c]
    OBVIOUS
  <2>1. c \in Clients /\ call'[c] = call[c] /\ Promoting(c) /\ facts'[call[c].fact].key = k
    BY DEF InFlight, Promoting
  <2>2. call[c].fact \in 1 .. rows
    BY <2>1 DEF HandsOK, CallNames, Promoting, Exists
  <2>3. facts'[call[c].fact].key = facts[call[c].fact].key
    BY <2>2 DEF Grown, Follows
  <2> QED
    BY <2>1, <2>3 DEF InFlight, Promoting
<1>2. \A k \in Keys \ clash : KeyOK(k)'
  BY <1>1, KeyStays DEF CanonOK, SlotsStay, TableOK
<1> QED
  BY <1>2 DEF CanonOK, SlotsStay

\* The steps of a parser keep the facts.
LEMMA ParsersHold ==
  ASSUME FactsInv, NEW p \in Parsers, ParserStep(p)
  PROVE  FactsInv'
<1>0. TableOK /\ HandsOK /\ CanonOK
  BY DEF FactsInv
<1>1. UNCHANGED <<slot, call, offered, clash>>
  BY DEF ParserStep, StartRun, RecordRead, RecordCommit, RecordFails, ParseEnds, WorkerExits
<1>2. job[p] \in Parse /\ ParseOK(p) /\ p \in DOMAIN job
  BY <1>0 DEF HandsOK, ParseOK
<1>3. rows \in Nat /\ clock \in Nat
  BY <1>0 DEF TableOK
<1>4. TableOK' /\ Grown
  <2>1. CASE RecordCommit(p)
    <3> DEFINE old == job[p].seen
               item == Items[job[p].pos]
               g == [key |-> item.key, conf |-> item.conf, at |-> job[p].at,
                     corrected |-> FALSE, current |-> TRUE, next |-> NoId,
                     version |-> IF old = NoId THEN 1 ELSE facts[old].version + 1,
                     deleted |-> FALSE, review |-> "none", of |-> NoId]
    <3>1. job[p].pos \in DOMAIN Items /\ old \in 0 .. rows /\ job[p].at \in Nat
      BY <1>2, <2>1 DEF RecordCommit, ParseOK, Parse
    <3>2. item.key \in Keys /\ item.conf \in Confidences
      BY <3>1, ItemsAreTyped
    <3>3. old # NoId => facts[old].version \in Nat
      BY <1>0, <1>3, <3>1 DEF TableOK, RowOK, Fact, NoId
    <3>4. (IF old = NoId THEN 1 ELSE facts[old].version + 1) \in Nat
      BY <3>3
    <3>5. g \in Fact
      BY <3>1, <3>2, <3>4 DEF Fact, NoId
    <3>6. NewRow(g, old)
      BY <3>5 DEF NewRow
    <3>7. RowAdded(g, old)
      BY <1>3, <2>1 DEF RecordCommit, RowAdded
    <3> HIDE DEF g, old, item
    <3> QED
      BY <1>0, <3>1, <3>6, <3>7, RowIsAdded
  <2>2. CASE ~RecordCommit(p)
    <3>1. UNCHANGED <<facts, rows>> /\ clock' \in Nat
      <4>1. CASE RecordRead(p)
        BY <1>3, <4>1 DEF RecordRead
      <4>2. CASE StartRun(p) \/ RecordFails(p) \/ ParseEnds(p) \/ WorkerExits(p)
        BY <1>3, <4>2 DEF StartRun, RecordFails, ParseEnds, WorkerExits
      <4> QED
        BY <2>2, <4>1, <4>2 DEF ParserStep
    <3> QED
      BY <1>0, <3>1, TableStays
  <2> QED
    BY <2>1, <2>2
<1>5. HandsOK'
  <2>1. CASE StartRun(p)
    <3>1. PICK s \in {"next", "done"} : job' = [job EXCEPT ![p].step = s, ![p].pos = 1]
      BY <2>1 DEF StartRun
    <3> DEFINE b == [job[p] EXCEPT !.step = s, !.pos = 1]
    <3>2. b \in Parse /\ b.step # "record" /\ job' = [job EXCEPT ![p] = b]
      BY <1>2, <3>1 DEF Parse
    <3> HIDE DEF b
    <3> QED
      BY <1>0, <1>1, <1>3, <1>4, <3>2, ParserMoves
  <2>2. CASE RecordRead(p)
    <3>1. PICK n \in Ids \cup {NoId} :
            /\ Latest(n)
            /\ job' = [job EXCEPT ![p].step = "record", ![p].seen = n, ![p].at = clock + 1]
      BY <2>2 DEF RecordRead
    <3> DEFINE b == [job[p] EXCEPT !.step = "record", !.seen = n, !.at = clock + 1]
    <3>2. n \in 0 .. rows
      BY <1>3, <3>1 DEF Latest, NoId
    <3>3. n \in 0 .. rows' /\ n \in Nat /\ clock + 1 \in Nat
      BY <1>3, <1>4, <3>2 DEF Grown
    <3>4. b \in Parse /\ b.pos = job[p].pos /\ b.seen = n /\ job' = [job EXCEPT ![p] = b]
      BY <1>2, <3>1, <3>3 DEF Parse
    <3>5. job[p].pos \in DOMAIN Items
      BY <2>2 DEF RecordRead
    <3> HIDE DEF b
    <3> QED
      BY <1>0, <1>1, <1>3, <1>4, <3>3, <3>4, <3>5, ParserMoves
  <2>3. CASE RecordCommit(p) \/ RecordFails(p)
    <3> DEFINE b == Moves(job[p])
    <3>0. job[p].pos + 1 \in Nat /\ NoId \in Nat
      BY <1>2 DEF Parse, NoId
    <3>1. b \in Parse /\ b.step # "record"
      BY <1>2, <3>0 DEF Moves, Parse
    <3>2. job' = [job EXCEPT ![p] = b]
      BY <1>2, <2>3 DEF RecordCommit, RecordFails
    <3> HIDE DEF b
    <3> QED
      BY <1>0, <1>1, <1>3, <1>4, <3>1, <3>2, ParserMoves
  <2>4. CASE ParseEnds(p)
    <3> DEFINE b == [job[p] EXCEPT !.step = "done"]
    <3>1. b \in Parse /\ b.step # "record" /\ job' = [job EXCEPT ![p] = b]
      BY <1>2, <2>4 DEF ParseEnds, Parse
    <3> HIDE DEF b
    <3> QED
      BY <1>0, <1>1, <1>3, <1>4, <3>1, ParserMoves
  <2>5. CASE WorkerExits(p)
    <3> DEFINE b == [job[p] EXCEPT !.step = "queued", !.left = @ - 1, !.seen = NoId, !.at = 0]
    <3>1. job[p].left - 1 \in Nat
      BY <1>2, <2>5 DEF WorkerExits, Parse
    <3>2. b \in Parse /\ b.step # "record"
      BY <1>2, <3>1 DEF Parse, NoId
    <3>3. job' = [job EXCEPT ![p] = b]
      BY <1>2, <2>5 DEF WorkerExits
    <3> HIDE DEF b
    <3> QED
      BY <1>0, <1>1, <1>3, <1>4, <3>2, <3>3, ParserMoves
  <2> QED
    BY <2>1, <2>2, <2>3, <2>4, <2>5 DEF ParserStep
<1>6. CanonOK'
  <2>1. SlotsStay
    BY <1>0, <1>1 DEF SlotsStay, SameSlot, CanonOK
  <2> QED
    BY <1>0, <1>1, <1>4, <2>1, CanonStays
<1> QED
  BY <1>4, <1>5, <1>6 DEF FactsInv

\* A call that is over.
LEMMA EndedCalls ==
  ASSUME FactsInv, Grown, NEW c \in Clients, NEW n \in Nat,
         call' = [call EXCEPT ![c] = Idle(n)], UNCHANGED job
  PROVE  HandsOK' /\ \A d \in Clients : Promoting(d)' => d # c /\ call'[d] = call[d]
<1>1. HandsOK /\ rows \in Nat
  BY DEF FactsInv, TableOK
<1> DEFINE b == Idle(n)
<1>2. b \in ClientCall /\ b.step = "idle"
  BY DEF Idle, ClientCall, NoId
<1>3. call'[c] = b /\ \A d \in Clients : d # c => call'[d] = call[d]
  BY <1>1 DEF HandsOK
<1> HIDE DEF b
<1>4. call' = [call EXCEPT ![c] = b]
  BY DEF b
<1>5. HandsOK'
  BY <1>1, <1>2, <1>4, ClientMoves
<1>6. \A d \in Clients : Promoting(d)' => d # c /\ call'[d] = call[d]
  BY <1>2, <1>3 DEF Promoting
<1> QED
  BY <1>5, <1>6

\* A call that ends or goes on, and promotes nothing.
LEMMA CallsGoOn ==
  ASSUME FactsInv, Grown, NEW c \in Clients, NEW b \in ClientCall,
         b.step \in {"idle", "correct", "corrected", "copy"},
         b.step \in {"correct", "corrected"} => b.fact \in 1 .. rows',
         b.step = "copy" => b.copies \subseteq 1 .. rows',
         call' = [call EXCEPT ![c] = b], SlotsStay, UNCHANGED <<job, offered, clash>>
  PROVE  HandsOK' /\ CanonOK'
<1>1. TableOK /\ HandsOK /\ CanonOK /\ rows \in Nat
  BY DEF FactsInv, TableOK
<1>2. HandsOK'
  BY <1>1, ClientMoves
<1>3. \A d \in Clients : Promoting(d)' => call'[d] = call[d]
  BY <1>1 DEF Promoting, HandsOK
<1>4. CanonOK'
  BY <1>1, <1>3, CanonStays
<1> QED
  BY <1>2, <1>4

\* A step that leaves the slots alone keeps them.
LEMMA SlotsMayStay ==
  ASSUME FactsInv, UNCHANGED slot
  PROVE  SlotsStay
BY DEF FactsInv, CanonOK, SlotsStay, SameSlot

\* A client that begins, and promotes nothing yet.
LEMMA BeginningsHold ==
  ASSUME FactsInv, NEW c \in Clients, NEW n \in Nat, NEW copies \in SUBSET Nat,
         NEW step \in {"correct", "copy"}, Begin(c, step, n, copies),
         step = "correct" => Exists(n), step = "copy" => copies \subseteq 1 .. rows,
         UNCHANGED <<facts, rows, clock, slot, job, offered, clash>>
  PROVE  FactsInv'
<1>1. TableOK /\ HandsOK /\ clock \in Nat
  BY DEF FactsInv, TableOK
<1>2. TableOK' /\ Grown
  BY <1>1, TableStays
<1> DEFINE b == [step |-> step, fact |-> n, copies |-> copies, left |-> call[c].left - 1]
<1>3. call[c].left - 1 \in Nat
  BY <1>1 DEF HandsOK, CallNames, ClientCall, Begin
<1>4. b \in ClientCall /\ b.step = step /\ b.fact = n /\ b.copies = copies
  BY <1>3 DEF ClientCall
<1>5. call' = [call EXCEPT ![c] = b]
  BY DEF Begin
<1>6. SlotsStay
  BY SlotsMayStay
<1> HIDE DEF b
<1>7. HandsOK' /\ CanonOK'
  BY <1>2, <1>4, <1>5, <1>6, CallsGoOn DEF Exists
<1> QED
  BY <1>2, <1>7 DEF FactsInv

\* A client whose call is over; the table may have grown.
LEMMA EndingsHold ==
  ASSUME FactsInv, TableOK', Grown, NEW c \in Clients, NEW n \in Nat,
         call' = [call EXCEPT ![c] = Idle(n)], SlotsStay, UNCHANGED <<job, offered, clash>>
  PROVE  FactsInv'
<1> DEFINE b == Idle(n)
<1>1. b \in ClientCall /\ b.step = "idle" /\ call' = [call EXCEPT ![c] = b]
  BY DEF Idle, ClientCall, NoId
<1> HIDE DEF b
<1>2. HandsOK' /\ CanonOK'
  BY <1>1, CallsGoOn
<1> QED
  BY <1>2 DEF FactsInv

\* The steps of a correction keep the facts,
LEMMA CorrectionsHold ==
  ASSUME FactsInv, NEW c \in Clients, CorrectRun(c) \/ CorrectCommit(c) \/ CorrectFails(c)
  PROVE  FactsInv'
<1>1. TableOK /\ HandsOK /\ clock \in Nat /\ rows \in Nat
  BY DEF FactsInv, TableOK
<1>2. call[c] \in ClientCall /\ call[c].left \in Nat
  BY <1>1 DEF HandsOK, CallNames, ClientCall
<1>3. UNCHANGED <<slot, job, offered, clash>>
  BY DEF CorrectRun, CorrectCommit, CorrectFails
<1>4. SlotsStay
  BY <1>3, SlotsMayStay
<1>5. call[c].fact \in 1 .. rows
  BY <1>1 DEF HandsOK, CallNames, Exists, CorrectRun, CorrectCommit, CorrectFails
<1>6. CASE CorrectRun(c)
  <2>1. TableOK' /\ Grown
    BY <1>1, <1>6, TableStays DEF CorrectRun
  <2> DEFINE b == [call[c] EXCEPT !.step = "corrected"]
  <2>2. b \in ClientCall /\ b.step = "corrected" /\ b.fact = call[c].fact
    BY <1>2 DEF ClientCall
  <2>3. call' = [call EXCEPT ![c] = b]
    BY <1>1, <1>6 DEF CorrectRun, HandsOK
  <2>4. b.fact \in 1 .. rows'
    BY <1>5, <1>6, <2>2 DEF CorrectRun
  <2> HIDE DEF b
  <2>5. HandsOK' /\ CanonOK'
    BY <1>3, <1>4, <2>1, <2>2, <2>3, <2>4, CallsGoOn
  <2> QED
    BY <2>1, <2>5 DEF FactsInv
<1>7. CASE CorrectFails(c)
  <2>1. TableOK' /\ Grown
    BY <1>1, <1>7, TableStays DEF CorrectFails
  <2>2. call' = [call EXCEPT ![c] = Idle(call[c].left)]
    BY <1>1, <1>7 DEF CorrectFails, HandsOK
  <2> QED
    BY <1>2, <1>3, <1>4, <2>1, <2>2, EndingsHold
<1>8. CASE CorrectCommit(c)
  <2> DEFINE old == call[c].fact
  <2>1. PICK k \in Keys : facts' = Supersede([facts EXCEPT ![rows + 1] =
          [facts[old] EXCEPT !.key = k, !.conf = Certain, !.at = clock + 1,
             !.corrected = TRUE, !.current = TRUE, !.next = NoId,
             !.version = @ + 1, !.deleted = FALSE, !.review = "none",
             !.of = old]], old, rows + 1)
    BY <1>8 DEF CorrectCommit
  <2> DEFINE g == [facts[old] EXCEPT !.key = k, !.conf = Certain, !.at = clock + 1,
                     !.corrected = TRUE, !.current = TRUE, !.next = NoId,
                     !.version = @ + 1, !.deleted = FALSE, !.review = "none", !.of = old]
  <2>2. facts[old] \in Fact /\ old \in Nat /\ old # NoId /\ clock + 1 \in Nat /\ NoId \in Nat
    BY <1>1, <1>5 DEF TableOK, RowOK, NoId
  <2>3. Certain \in Confidences
    BY ItemsAreTyped
  <2>4. /\ g \in Fact /\ g.current /\ g.next = NoId /\ g.of = old
        /\ g.version = facts[old].version + 1
    <3> DEFINE v == facts[old].version + 1
               t == clock + 1
    <3>1. v \in Nat /\ t \in Nat
      BY <2>2 DEF Fact
    <3>2. g = [facts[old] EXCEPT !.key = k, !.conf = Certain, !.at = t,
                 !.corrected = TRUE, !.current = TRUE, !.next = NoId,
                 !.version = v, !.deleted = FALSE, !.review = "none", !.of = old]
      BY <2>2 DEF Fact
    <3> HIDE DEF v, t, g
    <3>3. g \in Fact /\ g.current /\ g.next = NoId /\ g.of = old /\ g.version = v
      BY <2>2, <2>3, <3>1, <3>2 DEF Fact
    <3> QED
      BY <3>3 DEF v
  <2>5. /\ rows + 1 \in Ids /\ rows' = rows + 1 /\ clock' = clock + 1
        /\ call' = [call EXCEPT ![c] = Idle(call[c].left)]
    BY <1>1, <1>8 DEF CorrectCommit, HandsOK
  <2>6. facts' = Supersede([facts EXCEPT ![rows + 1] = g], old, rows + 1)
    BY <2>1
  <2> HIDE DEF g, old
  <2>7. NewRow(g, old) /\ RowAdded(g, old)
    BY <2>2, <2>4, <2>5, <2>6 DEF NewRow, RowAdded
  <2>8. old \in 0 .. rows
    BY <1>1, <1>5 DEF old
  <2>9. TableOK' /\ Grown
    BY <1>1, <2>7, <2>8, RowIsAdded
  <2> QED
    BY <1>2, <1>3, <1>4, <2>5, <2>9, EndingsHold
<1> QED
  BY <1>6, <1>7, <1>8

\* and those that flag, delete or review one,
LEMMA TouchedFactsHold ==
  ASSUME FactsInv, NEW c \in Clients, NEW i \in Ids, NEW approved \in BOOLEAN,
         FlagForReview(c, i) \/ DeleteFact(c, i) \/ ReviewFact(c, i, approved)
  PROVE  FactsInv'
<1>1. TableOK /\ HandsOK /\ clock \in Nat /\ rows \in Nat
  BY DEF FactsInv, TableOK
<1>2. PICK g : /\ Touch(c, i, g)
               /\ \/ g = [facts[i] EXCEPT !.review = "pending"]
                  \/ g = [facts[i] EXCEPT !.deleted = TRUE, !.current = FALSE]
                  \/ g = [facts[i] EXCEPT !.review = IF approved THEN "none" ELSE "rejected"]
  BY DEF FlagForReview, DeleteFact, ReviewFact
<1>3. i \in 1 .. rows
  BY <1>2 DEF Touch, Exists
<1>4. RowOK(i) /\ facts[i] \in Fact
  BY <1>1, <1>3 DEF TableOK, RowOK
<1>5. /\ g \in Fact /\ Follows(facts[i], g) /\ g.next = facts[i].next
      /\ g.corrected = facts[i].corrected
  BY <1>2, <1>4 DEF Fact, Follows, SameRank
<1>6. ~g.current => g.next # NoId \/ g.deleted
  BY <1>2, <1>4 DEF Fact, RowOK
<1>7. /\ facts' = [facts EXCEPT ![i] = g] /\ UNCHANGED <<rows, clock, slot, job, offered, clash>>
      /\ call' = [call EXCEPT ![c] = Idle(call[c].left - 1)] /\ call[c].left - 1 \in Nat
  <2>1. call[c].left - 1 \in Nat
    BY <1>1, <1>2 DEF Touch, HandsOK, CallNames, ClientCall
  <2> QED
    BY <1>1, <1>2, <2>1 DEF Touch, HandsOK
<1>8. TableOK' /\ Grown
  BY <1>1, <1>3, <1>5, <1>6, <1>7, RowIsTouched
<1> QED
  BY <1>7, <1>8, SlotsMayStay, EndingsHold

\* and those that copy the current ones,
LEMMA SnapshotsHold ==
  ASSUME FactsInv, NEW c \in Clients, SnapshotCommit(c) \/ SnapshotFails(c)
  PROVE  FactsInv'
<1>1. TableOK /\ HandsOK /\ clock \in Nat /\ rows \in Nat /\ MaxFacts \in Nat
  BY Bounds DEF FactsInv, TableOK
<1>2. call[c] \in ClientCall /\ call[c].left \in Nat
  BY <1>1 DEF HandsOK, CallNames, ClientCall
<1>3. UNCHANGED <<slot, job, offered, clash, clock>> /\ call[c].step = "copy"
  BY DEF SnapshotCommit, SnapshotFails
<1>4. SlotsStay
  BY <1>3, SlotsMayStay
<1>5. call' = [call EXCEPT ![c] = Idle(call[c].left)]
  BY <1>1 DEF SnapshotCommit, SnapshotFails, HandsOK
<1>6. CASE SnapshotFails(c)
  <2>1. TableOK' /\ Grown
    BY <1>1, <1>6, TableStays DEF SnapshotFails
  <2> QED
    BY <1>2, <1>3, <1>4, <1>5, <2>1, EndingsHold
<1>7. CASE SnapshotCommit(c)
  <2> DEFINE originals == call[c].copies
             n == Cardinality(originals)
             new == rows + 1 .. rows + n
  <2>1. originals \subseteq 1 .. rows
    BY <1>1, <1>3 DEF HandsOK, CallNames
  <2>2. n \in Nat
    <3>1. IsFiniteSet(1 .. rows)
      BY <1>1, FS_Interval
    <3>2. IsFiniteSet(originals)
      BY <2>1, <3>1, FS_Subset
    <3> QED
      BY <3>2, FS_CardinalityType
  <2>3. PICK original \in [new -> originals] :
          facts' = [i \in Ids |-> IF i \in new THEN Copy(facts[original[i]]) ELSE facts[i]]
    BY <1>7 DEF SnapshotCommit
  <2>4. new \subseteq Ids /\ rows' = rows + n
    BY <1>7 DEF SnapshotCommit
  <2> HIDE DEF n, originals
  <2>5. \A i \in new : original[i] \in 1 .. rows
    BY <2>1, <2>3
  <2>6. \A i \in 1 .. rows : i \in Ids /\ i \notin new
    BY <1>1, <2>2 DEF Ids, TableOK
  <2>7. \A i \in 1 .. rows : facts'[i] = facts[i]
    BY <2>3, <2>6
  <2>8. rows' \in Nat /\ rows <= rows' /\ rows' <= MaxFacts
    <3>1. CASE n = 0
      BY <1>1, <2>4, <3>1 DEF TableOK
    <3>2. CASE n # 0
      <4>1. rows + n \in new
        BY <1>1, <2>2, <3>2
      <4>2. rows + n \in Ids
        BY <2>4, <4>1
      <4> QED
        BY <1>1, <2>2, <2>4, <4>2 DEF Ids
    <3> QED
      BY <3>1, <3>2
  <2>9. Grown
    BY <2>7, <2>8, RowsAreLater DEF Grown
  <2>10. \A i \in 1 .. rows : RowOK(i)'
    BY <1>1, <2>7, <2>9, OldRowsHold
  <2>11. ASSUME NEW i \in new PROVE RowOK(i)'
    <3> DEFINE f == facts[original[i]]
               g == Copy(f)
    <3>1. f \in Fact
      BY <1>1, <2>5, <2>11 DEF TableOK, RowOK
    <3>2. g \in Fact /\ g.current /\ ~g.corrected /\ g.next = NoId
      BY <3>1 DEF Copy, Fact, NoId
    <3>3. facts'[i] = g
      BY <2>3, <2>4, <2>11
    <3> HIDE DEF g
    <3> QED
      BY <3>2, <3>3 DEF RowOK
  <2>12. \A i \in 1 .. rows' : i \in 1 .. rows \/ i \in new
    BY <1>1, <2>2, <2>4
  <2>13. TableOK'
    <3>1. DOMAIN facts' = Ids
      BY <2>3
    <3>2. ASSUME NEW i \in 1 .. rows' PROVE RowOK(i)'
      BY <2>10, <2>11, <2>12
    <3> QED
      BY <1>1, <1>3, <2>8, <3>1, <3>2 DEF TableOK
  <2> QED
    BY <1>2, <1>3, <1>4, <1>5, <2>9, <2>13, EndingsHold
<1> QED
  BY <1>6, <1>7

\* and those that retire the facts of a key.
LEMMA RetirementsHold ==
  ASSUME FactsInv, NEW c \in Clients, NEW k \in Keys, Retire(c, k)
  PROVE  FactsInv'
<1>1. TableOK /\ HandsOK /\ CanonOK /\ clock \in Nat
  BY DEF FactsInv, TableOK
<1>2. TableOK' /\ Grown
  BY <1>1, TableStays DEF Retire
<1>3. SlotsStay
  <2>1. slot' = [slot EXCEPT ![k].active = FALSE] /\ slot \in [Keys -> Canonical]
    BY <1>1 DEF Retire, CanonOK
  <2> QED
    BY <2>1 DEF SlotsStay, SameSlot, Canonical
<1>4. call[c].left - 1 \in Nat
  BY <1>1 DEF Retire, HandsOK, CallNames, ClientCall
<1>5. call' = [call EXCEPT ![c] = Idle(call[c].left - 1)]
  BY <1>1 DEF Retire, HandsOK
<1> QED
  BY <1>2, <1>3, <1>4, <1>5, EndingsHold DEF Retire

\* A promotion that reads the slot keeps the facts,
LEMMA PromotionsBegin ==
  ASSUME FactsInv, NEW c \in Clients, NEW i \in Ids, PromoteRead(c, i)
  PROVE  FactsInv'
<1>1. TableOK /\ HandsOK /\ CanonOK /\ clock \in Nat /\ rows \in Nat
  BY DEF FactsInv, TableOK
<1>2. TableOK' /\ Grown /\ UNCHANGED <<facts, rows, slot, job, offered>>
  BY <1>1, TableStays DEF PromoteRead
<1> DEFINE b == [step |-> "promote", fact |-> i, copies |-> {}, left |-> call[c].left - 1]
           mine == facts[i].key
<1>3. call[c].left - 1 \in Nat /\ call[c].step = "idle" /\ i \in Nat /\ i \in 1 .. rows
  BY <1>1 DEF PromoteRead, HandsOK, CallNames, ClientCall, Begin, Exists
<1>4. b \in ClientCall /\ b.step = "promote" /\ b.fact = i
  BY <1>3 DEF ClientCall
<1>5. call' = [call EXCEPT ![c] = b]
  BY DEF Begin, PromoteRead
<1> HIDE DEF b
<1>6. HandsOK'
  BY <1>1, <1>2, <1>3, <1>4, <1>5, ClientMoves
<1>7. mine \in Keys
  BY <1>1, <1>3 DEF TableOK, RowOK, Fact
<1>8. call'[c] = b /\ \A d \in Clients : d # c => call'[d] = call[d]
  BY <1>1, <1>5 DEF HandsOK
<1>9. clash' = IF InFlight(mine) = {} THEN clash ELSE clash \cup {mine}
  BY DEF PromoteRead
<1>10. ASSUME NEW k \in Keys, k \notin clash' PROVE KeyOK(k)'
  <2>1. k \notin clash /\ KeyOK(k)
    BY <1>1, <1>9, <1>10 DEF CanonOK
  <2>2. CASE k # mine
    <3>1. \A d \in InFlight(k)' : d \in InFlight(k) /\ call'[d] = call[d]
      BY <1>2, <1>4, <1>8, <2>2 DEF InFlight
    <3> QED
      BY <1>1, <1>2, <2>1, <3>1, KeyStays DEF SameSlot
  <2>3. CASE k = mine
    <3>1. InFlight(k) = {}
      BY <1>9, <1>10, <2>3
    <3>2. \A d \in InFlight(k)' : d = c
      BY <1>2, <1>8, <3>1 DEF InFlight
    <3>3. SlotOK(k)'
      BY <1>2, <2>1 DEF KeyOK, SlotOK, Incumbent, Exists, TiesAreClasses
    <3>4. call'[c].step # "upsert"
      BY <1>4, <1>8
    <3> QED
      BY <3>2, <3>3, <3>4 DEF KeyOK
  <2> QED
    BY <2>2, <2>3
<1>11. CanonOK'
  <2>1. clash' \subseteq Keys
    BY <1>1, <1>7, <1>9 DEF CanonOK
  <2>2. \A k \in Keys \ clash' : KeyOK(k)'
    BY <1>10
  <2> QED
    BY <1>1, <1>2, <2>1, <2>2 DEF CanonOK
<1> QED
  BY <1>2, <1>6, <1>11 DEF FactsInv

\* A call that is over joins no promotion.
LEMMA InFlightShrinks ==
  ASSUME FactsInv, NEW c \in Clients, NEW n, call' = [call EXCEPT ![c] = Idle(n)],
         UNCHANGED facts, NEW k
  PROVE  \A d \in InFlight(k)' : d \in InFlight(k) /\ d # c /\ call'[d] = call[d]
<1>1. DOMAIN call = Clients
  BY DEF FactsInv, HandsOK
<1>2. call'[c].step = "idle" /\ \A d \in Clients : d # c => call'[d] = call[d]
  BY <1>1 DEF Idle
<1> QED
  BY <1>2 DEF InFlight

\* and one that decides,
LEMMA PromotionsAreDecided ==
  ASSUME FactsInv, NEW c \in Clients, PromoteDecide(c)
  PROVE  FactsInv'
<1>1. TableOK /\ HandsOK /\ CanonOK /\ clock \in Nat /\ rows \in Nat
  BY DEF FactsInv, TableOK
<1>2. TableOK' /\ Grown /\ UNCHANGED <<facts, rows, slot, job, clash>>
  BY <1>1, TableStays DEF PromoteDecide
<1>3. PICK i : i = call[c].fact
  OBVIOUS
<1> DEFINE mine == facts[i].key
<1>4. i \in 1 .. rows /\ call[c] \in ClientCall /\ call[c].step = "promote" /\ call[c].left \in Nat
  BY <1>1, <1>3 DEF PromoteDecide, HandsOK, CallNames, ClientCall, Exists
<1>5. facts[i] \in Fact /\ mine \in Keys
  BY <1>1, <1>4 DEF TableOK, RowOK, Fact
<1>6. CASE Wins(i, mine)
  <2> DEFINE b == [call[c] EXCEPT !.step = "upsert"]
  <2>1. UNCHANGED offered /\ call' = [call EXCEPT ![c] = b]
    BY <1>1, <1>3, <1>6 DEF PromoteDecide, Wins, HandsOK
  <2>2. b \in ClientCall /\ b.step = "upsert" /\ b.fact = i
    BY <1>3, <1>4 DEF ClientCall
  <2> HIDE DEF b
  <2>3. HandsOK'
    BY <1>1, <1>2, <1>4, <2>1, <2>2, ClientMoves
  <2>4. call'[c] = b /\ \A d \in Clients : d # c => call'[d] = call[d]
    BY <1>1, <2>1 DEF HandsOK
  <2>5. ASSUME NEW k \in Keys \ clash PROVE KeyOK(k)'
    <3>1. KeyOK(k)
      BY <1>1 DEF CanonOK
    <3>2. CASE k # mine
      <4>1. \A d \in InFlight(k)' : d \in InFlight(k) /\ call'[d] = call[d]
        BY <1>2, <1>3, <2>2, <2>4, <3>2 DEF InFlight
      <4> QED
        BY <1>1, <1>2, <2>1, <3>1, <4>1, KeyStays DEF SameSlot
    <3>3. CASE k = mine
      <4>1. c \in InFlight(k)
        BY <1>3, <1>4, <3>3 DEF InFlight
      <4>2. \A d \in InFlight(k)' : d = c
        BY <1>2, <2>4, <3>1, <4>1 DEF InFlight, KeyOK
      <4>3. SlotOK(k)'
        BY <1>2, <2>1, <3>1 DEF KeyOK, SlotOK, Incumbent, Exists, TiesAreClasses
      <4>4. Wins(i, k)'
        BY <1>2, <1>6, <3>3 DEF Wins, Incumbent
      <4>5. call'[c].fact = i
        BY <2>2, <2>4
      <4> QED
        BY <4>2, <4>3, <4>4, <4>5 DEF KeyOK
    <3> QED
      BY <3>2, <3>3
  <2>6. CanonOK'
    BY <1>1, <1>2, <2>1, <2>5 DEF CanonOK
  <2> QED
    BY <1>2, <2>3, <2>6 DEF FactsInv
<1>7. CASE ~Wins(i, mine)
  <2>1. /\ offered' = [offered EXCEPT ![mine] = @ \cup {i}]
        /\ call' = [call EXCEPT ![c] = Idle(call[c].left)]
    BY <1>1, <1>3, <1>7 DEF PromoteDecide, Wins, HandsOK
  <2>2. HandsOK'
    BY <1>2, <1>4, <2>1, EndedCalls
  <2>3. offered \in [Keys -> SUBSET Nat]
    BY <1>1 DEF CanonOK
  <2>4. ASSUME NEW k \in Keys \ clash PROVE KeyOK(k)'
    <3>1. KeyOK(k)
      BY <1>1 DEF CanonOK
    <3>2. \A d \in InFlight(k)' : d \in InFlight(k) /\ call'[d] = call[d]
      BY <1>2, <2>1, InFlightShrinks
    <3>3. CASE k # mine
      <4>1. offered'[k] = offered[k]
        BY <2>1, <2>3, <3>3
      <4> QED
        BY <1>1, <1>2, <3>1, <3>2, <4>1, KeyStays DEF SameSlot
    <3>4. CASE k = mine
      <4>1. offered'[k] = offered[k] \cup {i}
        BY <2>1, <2>3, <3>4
      <4>2. SlotOK(k)
        BY <3>1 DEF KeyOK
      <4>3. slot[k].source # NoId
        BY <1>7, <3>4 DEF Wins
      <4>4. ~CandidateWins(facts[i], Incumbent(k))
        <5>1. CASE slot[k].source # i
          BY <1>7, <3>4, <5>1 DEF Wins
        <5>2. CASE slot[k].source = i
          <6>1. Ranked(facts[i])
            BY <1>5 DEF Ranked, Fact
          <6> QED
            BY <4>2, <4>3, <5>2, <6>1, IncumbentsAreRows, NobodyBeatsItself
        <5> QED
          BY <5>1, <5>2
      <4>5. TiesAreClasses(k)' => TiesAreClasses(k)
        BY <1>2, <4>1, <4>2, TiesStay DEF SlotOK, Exists
      <4>6. facts[i].corrected => facts[slot[k].source].corrected
        BY <4>4 DEF CandidateWins, Incumbent
      <4>7. SlotOK(k)'
        BY <1>2, <1>4, <3>4, <4>1, <4>2, <4>3, <4>4, <4>5, <4>6 DEF SlotOK, Incumbent, Exists
      <4>8. \A d \in InFlight(k)' : call'[d].step = "upsert" => Wins(call'[d].fact, k)
        BY <3>1, <3>2 DEF KeyOK
      <4>9. \A d, e \in InFlight(k)' : d = e
        BY <3>1, <3>2 DEF KeyOK
      <4> QED
        BY <1>2, <4>7, <4>8, <4>9 DEF KeyOK, Wins, Incumbent
    <3> QED
      BY <3>3, <3>4
  <2>5. offered' \in [Keys -> SUBSET Nat]
    <3>1. offered[mine] \cup {i} \in SUBSET Nat
      BY <1>4, <1>5, <2>3
    <3> QED
      BY <1>5, <2>1, <2>3, <3>1
  <2>6. CanonOK'
    BY <1>1, <1>2, <2>4, <2>5 DEF CanonOK
  <2> QED
    BY <1>2, <2>2, <2>6 DEF FactsInv
<1> QED
  BY <1>6, <1>7

\* The row that a promotion writes was still the best one offered, if no other one overlapped it.
LEMMA PromotionsCommit ==
  ASSUME FactsInv, NEW c \in Clients, PromoteCommit(c)
  PROVE  FactsInv'
<1>1. TableOK /\ HandsOK /\ CanonOK /\ clock \in Nat /\ rows \in Nat
  BY DEF FactsInv, TableOK
<1>2. TableOK' /\ Grown /\ UNCHANGED <<facts, rows, job, clash>>
  BY <1>1, TableStays DEF PromoteCommit
<1>3. PICK i : i = call[c].fact
  OBVIOUS
<1> DEFINE mine == facts[i].key
           new == [source |-> i, conf |-> facts[i].conf, at |-> facts[i].at, active |-> TRUE]
<1>4. i \in 1 .. rows /\ i # NoId /\ call[c].step = "upsert" /\ call[c].left \in Nat
  BY <1>1, <1>3 DEF PromoteCommit, HandsOK, CallNames, ClientCall, Exists, NoId
<1>5. \A n \in 1 .. rows : facts[n] \in Fact /\ Ranked(facts[n])
  BY <1>1 DEF TableOK, RowOK, Fact, Ranked
<1>6. mine \in Keys /\ facts[i].conf \in Nat /\ facts[i].at \in Nat
  BY <1>4, <1>5, ItemsAreTyped DEF Fact
<1>7. /\ slot' = [slot EXCEPT ![mine] = new]
      /\ offered' = [offered EXCEPT ![mine] = @ \cup {i}]
      /\ call' = [call EXCEPT ![c] = Idle(call[c].left)]
  BY <1>1, <1>3 DEF PromoteCommit, HandsOK
<1>8. HandsOK'
  BY <1>2, <1>4, <1>7, EndedCalls
<1>9. slot \in [Keys -> Canonical] /\ offered \in [Keys -> SUBSET Nat]
  BY <1>1 DEF CanonOK
<1>10. new \in Canonical
  BY <1>4, <1>6 DEF Canonical
<1> HIDE DEF new
<1>11. slot' \in [Keys -> Canonical] /\ offered' \in [Keys -> SUBSET Nat]
  <2>1. offered[mine] \cup {i} \in SUBSET Nat
    BY <1>4, <1>6, <1>9
  <2> QED
    BY <1>6, <1>7, <1>9, <1>10, <2>1
<1>12. ASSUME NEW k \in Keys \ clash PROVE KeyOK(k)'
  <2>1. KeyOK(k) /\ SlotOK(k)
    BY <1>1 DEF CanonOK, KeyOK
  <2>2. \A d \in InFlight(k)' : d \in InFlight(k) /\ d # c /\ call'[d] = call[d]
    BY <1>2, <1>7, InFlightShrinks
  <2>3. CASE k # mine
    <3>1. offered'[k] = offered[k] /\ slot'[k] = slot[k]
      BY <1>7, <1>9, <2>3
    <3> QED
      BY <1>1, <1>2, <2>1, <2>2, <3>1, KeyStays DEF SameSlot
  <2>4. CASE k = mine
    <3>1. offered'[k] = offered[k] \cup {i} /\ slot'[k] = new
      BY <1>6, <1>7, <1>9, <2>4
    <3>2. c \in InFlight(k)
      BY <1>3, <1>4, <2>4 DEF InFlight
    <3>3. InFlight(k)' = {}
      BY <2>1, <2>2, <3>2 DEF KeyOK
    <3>4. Wins(i, k)
      BY <1>3, <1>4, <2>1, <3>2 DEF KeyOK
    <3>5. ASSUME TiesAreClasses(k)', NEW x \in offered[k] \cup {i}
          PROVE  ~CandidateWins(facts[x], facts[i])
      <4>1. CASE x = i
        BY <1>4, <1>5, <4>1, NobodyBeatsItself
      <4>2. CASE x # i
        <5> DEFINE s == slot[k].source
        <5>1. x \in offered[k] /\ x \in 1 .. rows
          BY <2>1, <4>2 DEF SlotOK, Exists
        <5>2. s # NoId /\ s \in 1 .. rows
          BY <2>1, <5>1 DEF SlotOK, Exists
        <5>3. CandidateWins(facts[i], facts[s])
          BY <2>1, <3>4, <5>2, IncumbentsAreRows DEF Wins
        <5>4. ~CandidateWins(facts[x], facts[s])
          <6>1. TiesAreClasses(k)
            BY <1>2, <2>1, <3>1, <3>5, TiesStay DEF SlotOK, Exists
          <6> QED
            BY <2>1, <5>1, <5>2, <6>1, IncumbentsAreRows DEF SlotOK
        <5>5. \A u, v, w \in {facts[x].conf, facts[i].conf, facts[s].conf} :
                Tie(u, v) /\ Tie(v, w) => Tie(u, w)
          <6>1. {x, i, s} \subseteq offered'[k]
            BY <2>1, <3>1, <5>1, <5>2 DEF SlotOK
          <6> QED
            BY <1>2, <3>5, <6>1 DEF TiesAreClasses
        <5> QED
          BY <1>4, <1>5, <5>1, <5>2, <5>3, <5>4, <5>5, WinningIsTransitive
      <4> QED
        BY <4>1, <4>2
    <3>6. slot'[k].source = i /\ slot'[k].conf = facts[i].conf /\ slot'[k].at = facts[i].at
      BY <3>1 DEF new
    <3>7. SameRank(facts[i], Incumbent(k)')
      BY <1>2, <3>6 DEF SameRank, Incumbent
    <3>8. ASSUME TiesAreClasses(k)', NEW x \in offered'[k]
          PROVE  ~CandidateWins(facts'[x], Incumbent(k)')
      <4>1. SameRank(facts[x], facts[x])
        BY DEF SameRank
      <4>2. ~CandidateWins(facts[x], facts[i])
        BY <3>1, <3>5, <3>8
      <4> QED
        BY <1>2, <3>7, <4>1, <4>2, RanksDecide
    <3>9. \A x \in offered'[k] : facts[x].corrected => facts[i].corrected
      <4> SUFFICES ASSUME NEW x \in offered[k], facts[x].corrected
                   PROVE  facts[i].corrected
        BY <3>1
      <4>1. slot[k].source # NoId /\ facts[slot[k].source].corrected
        BY <2>1 DEF SlotOK
      <4> QED
        BY <3>4, <4>1 DEF Wins, CandidateWins, Incumbent
    <3>10. \A x \in offered'[k] : x \in 1 .. rows /\ facts[x].key = k
      BY <1>4, <2>1, <2>4, <3>1 DEF SlotOK, Exists
    <3>11. i \in offered'[k]
      BY <3>1
    <3>12. SlotOK(k)'
      BY <1>2, <1>4, <3>6, <3>8, <3>10, <3>11, <3>9 DEF SlotOK, Exists
    <3> QED
      BY <3>3, <3>12 DEF KeyOK
  <2> QED
    BY <2>3, <2>4
<1>13. CanonOK'
  BY <1>1, <1>2, <1>11, <1>12 DEF CanonOK
<1> QED
  BY <1>2, <1>8, <1>13 DEF FactsInv

\* and one that ends.
LEMMA PromotionsHold ==
  ASSUME FactsInv, NEW c \in Clients,
         PromoteDecide(c) \/ PromoteCommit(c) \/ PromoteFails(c)
  PROVE  FactsInv'
<1>1. CASE PromoteFails(c)
  <2>1. TableOK' /\ Grown /\ HandsOK
    BY <1>1, TableStays DEF PromoteFails, FactsInv, TableOK
  <2>2. call[c].left \in Nat /\ call' = [call EXCEPT ![c] = Idle(call[c].left)]
    BY <1>1, <2>1 DEF PromoteFails, HandsOK, CallNames, ClientCall
  <2> QED
    BY <1>1, <2>1, <2>2, SlotsMayStay, EndingsHold DEF PromoteFails
<1> QED
  BY <1>1, PromotionsAreDecided, PromotionsCommit

\* A request of a client keeps the facts.
LEMMA RequestsHold ==
  ASSUME FactsInv, NEW c \in Clients, Request(c)
  PROVE  FactsInv'
<1>1. rows \in Nat
  BY DEF FactsInv, TableOK
<1>2. ASSUME NEW i \in Ids, CorrectRead(c, i) PROVE FactsInv'
  <2>1. i \in Nat /\ {} \in SUBSET Nat /\ "correct" \in {"correct", "copy"}
    BY DEF Ids
  <2> QED
    BY <1>2, <2>1, BeginningsHold DEF CorrectRead
<1>3. CASE SnapshotRead(c)
  <2>1. Current \subseteq 1 .. rows /\ Current \in SUBSET Nat /\ NoId \in Nat /\ "copy" \in {"correct", "copy"}
    BY <1>1 DEF Current, NoId
  <2> QED
    BY <1>3, <2>1, BeginningsHold DEF SnapshotRead
<1>4. ASSUME NEW i \in Ids, PromoteRead(c, i) PROVE FactsInv'
  BY <1>4, PromotionsBegin
<1>5. ASSUME NEW i \in Ids, FlagForReview(c, i) \/ DeleteFact(c, i) \/ \E a \in BOOLEAN : ReviewFact(c, i, a)
      PROVE  FactsInv'
  BY <1>5, TouchedFactsHold
<1>6. ASSUME NEW k \in Keys, Retire(c, k) PROVE FactsInv'
  BY <1>6, RetirementsHold
<1> QED
  BY <1>2, <1>3, <1>4, <1>5, <1>6 DEF Request

\* The invariant holds at the start,
LEMMA FactsStart == Init => FactsInv
<1> SUFFICES ASSUME Init PROVE FactsInv
  OBVIOUS
<1>1. TableOK
  BY Bounds DEF Init, TableOK
<1>2. PICK b \in Budgets :
        /\ job = [p \in Parsers |-> [step |-> "queued", pos |-> 1, seen |-> NoId, at |-> 0,
                                     left |-> b.attempts]]
        /\ call = [c \in Clients |-> Idle(b.calls[c])]
  BY DEF Init
<1>3. b.attempts \in Nat /\ \A c \in Clients : b.calls[c] \in Nat
  BY <1>2, Bounds
<1>4. \A p \in Parsers : ParseOK(p)
  BY <1>2, <1>3 DEF ParseOK, Parse, NoId
<1>5. \A c \in Clients : CallNames(c)
  BY <1>2, <1>3 DEF CallNames, ClientCall, Idle, NoId
<1>6. HandsOK
  BY <1>2, <1>4, <1>5 DEF HandsOK
<1>7. \A k \in Keys : InFlight(k) = {}
  BY <1>2 DEF InFlight, Idle
<1>8. \A k \in Keys : KeyOK(k)
  BY <1>7 DEF KeyOK, SlotOK, Init, NoSlot
<1>9. CanonOK
  BY <1>8 DEF CanonOK, Canonical, Init, NoSlot, NoId
<1> QED
  BY <1>1, <1>6, <1>9 DEF FactsInv

\* The two places that rank facts agree on usable rows.
LEMMA RulesAgree ==
  ASSUME NEW a \in Fact, NEW b \in Fact, a.current, ~a.deleted, b.current, ~b.deleted
  PROVE  Precedence(a, b) = "a" <=> CandidateWins(a, b)
<1>1. a.corrected \in BOOLEAN /\ b.corrected \in BOOLEAN
  BY DEF Fact
<1>2. a.at \in Nat /\ b.at \in Nat /\ a.conf \in Nat /\ b.conf \in Nat
  BY ItemsAreTyped DEF Fact
<1>3. Precedence(a, b) = IF a.corrected # b.corrected THEN (IF a.corrected THEN "a" ELSE "b")
                         ELSE IF ~Tie(a.conf, b.conf) THEN (IF a.conf > b.conf THEN "a" ELSE "b")
                         ELSE IF a.at # b.at THEN (IF a.at > b.at THEN "a" ELSE "b") ELSE "tie"
  BY DEF Precedence
<1>4. CASE a.corrected # b.corrected
  BY <1>1, <1>3, <1>4 DEF CandidateWins
<1>5. CASE a.corrected = b.corrected
  <2>1. CandidateWins(a, b) <=> IF Tie(a.conf, b.conf) THEN a.at > b.at ELSE a.conf > b.conf
    BY <1>5 DEF CandidateWins
  <2>2. Precedence(a, b) = IF ~Tie(a.conf, b.conf) THEN (IF a.conf > b.conf THEN "a" ELSE "b")
                           ELSE IF a.at # b.at THEN (IF a.at > b.at THEN "a" ELSE "b") ELSE "tie"
    BY <1>3, <1>5
  <2>3. CASE Tie(a.conf, b.conf)
    BY <1>2, <2>1, <2>2, <2>3
  <2>4. CASE ~Tie(a.conf, b.conf)
    BY <1>2, <2>1, <2>2, <2>4
  <2> QED
    BY <2>3, <2>4
<1> QED
  BY <1>4, <1>5

\* and it says what the property asks.
LEMMA FactsInvMeans == FactsInv => FactsHold
<1> SUFFICES ASSUME FactsInv PROVE FactsHold
  OBVIOUS
<1>1. \A i \in 1 .. rows : RowOK(i)
  BY DEF FactsInv, TableOK
<1>2. HistoryIsOrdered
  BY <1>1 DEF HistoryIsOrdered, RowOK
<1>3. CorrectedIsRetired
  <2> SUFFICES ASSUME NEW i \in 1 .. rows, facts[i].corrected
               PROVE  LET old == facts[facts[i].of]
                      IN  /\ ~old.current /\ facts[i].version = old.version + 1
                          /\ "OBSERVED" \notin {Quality(old), Quality(facts[i])}
    BY DEF CorrectedIsRetired
  <2>1. RowOK(i)
    BY <1>1
  <2>2. Quality(facts[i]) # "OBSERVED"
    BY <2>1 DEF Quality, RowOK
  <2>3. Quality(facts[facts[i].of]) # "OBSERVED"
    BY <2>1 DEF Quality, RowOK
  <2> QED
    BY <2>1, <2>2, <2>3 DEF RowOK
<1>4. CanonicalIsBest
  BY DEF CanonicalIsBest, FactsInv, CanonOK, KeyOK, SlotOK
<1>5. RankingsAgree
  <2> SUFFICES ASSUME NEW i \in Current, NEW j \in Current
               PROVE  Precedence(facts[i], facts[j]) = "a" <=> CandidateWins(facts[i], facts[j])
    BY DEF RankingsAgree
  <2>1. facts[i] \in Fact /\ facts[i].current /\ ~facts[i].deleted
    BY <1>1 DEF Current, RowOK
  <2>2. facts[j] \in Fact /\ facts[j].current /\ ~facts[j].deleted
    BY <1>1 DEF Current, RowOK
  <2> QED
    BY <2>1, <2>2, RulesAgree
<1> QED
  BY <1>2, <1>3, <1>4, <1>5 DEF FactsHold, HistoryHolds, RankingHolds

(***************************************************************************)
(* What is known of a candidate, for any number of facts, parse jobs and   *)
(* clients whose transactions overlap: histories ascend, so the walks      *)
(* along supersededById end; a correction is in force as a whole; and the  *)
(* canonical row of a key, unless promotions of the key overlapped, is a   *)
(* correction if one was offered, and the best one offered if the          *)
(* confidences that were offered make no chain of ties.                    *)
(***************************************************************************)
THEOREM CandidatesAreKnown == Spec => []FactsHold
<1>1. Init => FactsInv
  BY FactsStart
<1>2. FactsInv /\ [Next]_vars => FactsInv'
  <2> SUFFICES ASSUME FactsInv, [Next]_vars PROVE FactsInv'
    OBVIOUS
  <2>1. CASE UNCHANGED vars
    <3>1. UNCHANGED <<facts, rows, clock, slot, job, call, offered, clash>>
      BY <2>1 DEF vars
    <3>2. TableOK' /\ HandsOK'
      BY <3>1 DEF FactsInv, TableOK, RowOK, HandsOK, ParseOK, CallNames, Exists
    <3>3. CanonOK'
      BY <3>1 DEF FactsInv, CanonOK, KeyOK, SlotOK, InFlight, Wins, Incumbent, Exists, TiesAreClasses
    <3> QED
      BY <3>2, <3>3 DEF FactsInv
  <2>2. ASSUME NEW p \in Parsers, ParserStep(p) PROVE FactsInv'
    BY <2>2, ParsersHold
  <2>3. ASSUME NEW c \in Clients, CallStep(c) PROVE FactsInv'
    BY <2>3, CorrectionsHold, PromotionsHold, SnapshotsHold DEF CallStep
  <2>4. ASSUME NEW c \in Clients, Request(c) PROVE FactsInv'
    BY <2>4, RequestsHold
  <2> QED
    BY <2>1, <2>2, <2>3, <2>4 DEF Next
<1>3. FactsInv => FactsHold
  BY FactsInvMeans
<1> QED
  BY <1>1, <1>2, <1>3, PTL DEF Spec

-----------------------------------------------------------------------------
(* The status of an application.                                           *)

\* A history: rows that differ in their number.
IsHistory(H) ==
  /\ IsFiniteSet(H) /\ H \subseteq Row
  /\ \A d, e \in H : d.id = e.id => d = e

\* What Outcome says, with any status for the one before all rows.
Words(H) == {e \in H : e.source = "MANUAL"}
Since(H) == {e \in H : Words(H) = {} \/ Before(LastOf(Words(H)), e)}
From(base, H) == IF Words(H) = {} THEN base ELSE LastOf(Words(H)).status
Closing(H) == {e \in Since(H) : e.status \in Terminal}
Opened(base, H) == {From(base, H)} \cup {e.status : e \in Since(H)}
Furthest(T) == CHOOSE s \in T : \A r \in T : statusRank[r] <= statusRank[s]

OutcomeFrom(base, H) ==
  IF Closing(H) # {} THEN LastOf(Closing(H)).status
  ELSE IF From(base, H) \in Terminal THEN From(base, H) ELSE Furthest(Opened(base, H))

\* The outcome of a history begins from the first status.
LEMMA OutcomeIsFromStart ==
  ASSUME NEW H
  PROVE  Outcome(H) = OutcomeFrom(Start, H)
BY DEF Outcome, OutcomeFrom, Furthest, Opened, Closing, From, Since, Words

\* Only the two closing statuses are of equal rank, and nothing is beyond them.
LEMMA StatusRanks ==
  /\ \A s \in Statuses : statusRank[s] \in 0..6
  /\ \A s \in Statuses, t \in Terminal : statusRank[s] <= statusRank[t]
  /\ \A s, t \in Statuses \ Terminal : statusRank[s] = statusRank[t] => s = t
  /\ Terminal \subseteq Statuses
<1>1. /\ statusRank["SAVED"] = 0 /\ statusRank["APPLIED"] = 1 /\ statusRank["SCREENING"] = 2
      /\ statusRank["ASSESSMENT"] = 3 /\ statusRank["INTERVIEW"] = 4 /\ statusRank["OFFER"] = 5
      /\ statusRank["REJECTED"] = 6 /\ statusRank["WITHDRAWN"] = 6
  BY DEF statusRank, Statuses
<1> QED
  BY <1>1 DEF Statuses, Terminal

\* A set of statuses has a furthest,
LEMMA FurthestIsThere ==
  ASSUME NEW T \in SUBSET Statuses, T # {}
  PROVE  Furthest(T) \in T /\ \A r \in T : statusRank[r] <= statusRank[Furthest(T)]
<1> DEFINE ranks == {statusRank[s] : s \in T}
<1>1. IsFiniteSet(ranks) /\ ranks \subseteq Nat /\ ranks # {}
  <2>1. ranks \in SUBSET Nat /\ \A n \in ranks : n <= 6
    BY StatusRanks
  <2> HIDE DEF ranks
  <2>2. IsFiniteSet(ranks)
    BY <2>1, 6 \in Nat, FS_BoundedSetOfNaturals
  <2> QED
    BY <2>1, <2>2 DEF ranks
<1> HIDE DEF ranks
<1>2. Max(ranks) \in ranks /\ \A y \in ranks : Max(ranks) >= y
  BY <1>1, FiniteMax
<1>3. \E s \in T : \A r \in T : statusRank[r] <= statusRank[s]
  BY <1>2 DEF ranks
<1> QED
  BY <1>3 DEF Furthest

\* and among those that do not close it is one.
LEMMA FurthestIsOne ==
  ASSUME NEW T \in SUBSET (Statuses \ Terminal), NEW s \in T,
         \A r \in T : statusRank[r] <= statusRank[s]
  PROVE  Furthest(T) = s
<1>1. Furthest(T) \in T /\ statusRank[s] <= statusRank[Furthest(T)]
  BY FurthestIsThere
<1>2. PICK f \in T : f = Furthest(T)
  BY <1>1
<1>3. statusRank[f] = statusRank[s]
  BY <1>1, <1>2, StatusRanks
<1> QED
  BY <1>2, <1>3, StatusRanks

\* The order of a history.
Pairs(H) == {p \in H \X H : Before(p[1], p[2])}

\* The rows of a history are ordered by time.
LEMMA HistoriesAreOrdered ==
  ASSUME NEW H, IsHistory(H)
  PROVE  Orders(Pairs(H), H)
<1>1. \A e \in H : e.at \in Nat /\ e.id \in Nat
  BY DEF IsHistory, Row
<1>2. \A d, e \in H : <<d, e>> \in Pairs(H) <=> Before(d, e)
  BY DEF Pairs
<1>3. \A e \in H : ~Before(e, e)
  BY <1>1 DEF Before
<1>4. \A d, e \in H : d = e \/ Before(d, e) \/ Before(e, d)
  BY <1>1 DEF Before, IsHistory
<1>5. \A c, d, e \in H : Before(c, d) /\ Before(d, e) => Before(c, e)
  BY <1>1 DEF Before
<1> QED
  BY <1>2, <1>3, <1>4, <1>5 DEF Orders

\* A history has a last row,
LEMMA LastIsThere ==
  ASSUME NEW H, IsHistory(H), H # {}
  PROVE  LastOf(H) \in H /\ \A d \in H : d = LastOf(H) \/ Before(d, LastOf(H))
<1>1. PICK e \in H : \A d \in H : d = e \/ <<d, e>> \in Pairs(H)
  BY HistoriesAreOrdered, OneIsLast DEF IsHistory
<1>2. \A d \in H : d = e \/ Before(d, e)
  BY <1>1 DEF Pairs
<1> QED
  BY <1>2 DEF LastOf

\* and only one.
LEMMA LastIsOne ==
  ASSUME NEW H, IsHistory(H), NEW e \in H, \A d \in H : d = e \/ Before(d, e)
  PROVE  LastOf(H) = e
<1>1. PICK f \in H : f = LastOf(H)
  BY LastIsThere
<1>2. e = f \/ Before(e, f)
  BY <1>1, LastIsThere
<1>3. f = e \/ Before(f, e)
  OBVIOUS
<1>4. e.at \in Nat /\ e.id \in Nat /\ f.at \in Nat /\ f.id \in Nat
  BY DEF IsHistory, Row
<1>5. ~(Before(e, f) /\ Before(f, e))
  BY <1>4 DEF Before
<1> QED
  BY <1>1, <1>2, <1>3, <1>5

\* A part of a history is one.
LEMMA PartsAreHistories ==
  ASSUME NEW H, IsHistory(H), NEW S \in SUBSET H
  PROVE  IsHistory(S)
BY FS_Subset DEF IsHistory

\* An outcome is a status, a closing one if a row closes.
LEMMA OutcomesAreStatuses ==
  ASSUME NEW H, IsHistory(H), NEW base \in Statuses
  PROVE  /\ From(base, H) \in Statuses /\ Opened(base, H) \in SUBSET Statuses
         /\ Closing(H) # {} => OutcomeFrom(base, H) \in Terminal
         /\ OutcomeFrom(base, H) \in Statuses
         /\ Closing(H) = {} /\ From(base, H) \notin Terminal =>
              /\ OutcomeFrom(base, H) = Furthest(Opened(base, H))
              /\ Opened(base, H) \in SUBSET (Statuses \ Terminal)
              /\ OutcomeFrom(base, H) \in Opened(base, H)
              /\ \A s \in Opened(base, H) : statusRank[s] <= statusRank[OutcomeFrom(base, H)]
<1>1. \A e \in H : e.status \in Statuses
  BY DEF IsHistory, Row
<1>2. IsHistory(Words(H)) /\ Words(H) \subseteq H
  BY PartsAreHistories DEF Words
<1>3. IsHistory(Closing(H)) /\ Closing(H) \subseteq Since(H) /\ Since(H) \subseteq H
  BY PartsAreHistories DEF Closing, Since
<1>4. From(base, H) \in Statuses
  BY <1>1, <1>2, LastIsThere DEF From
<1>5. Opened(base, H) \in SUBSET Statuses /\ Opened(base, H) # {}
  BY <1>1, <1>3, <1>4 DEF Opened
<1>6. Closing(H) # {} => OutcomeFrom(base, H) \in Terminal
  BY <1>3, LastIsThere DEF Closing, OutcomeFrom
<1>7. Furthest(Opened(base, H)) \in Opened(base, H)
      /\ \A s \in Opened(base, H) : statusRank[s] <= statusRank[Furthest(Opened(base, H))]
  BY <1>5, FurthestIsThere
<1>8. Closing(H) = {} /\ From(base, H) \notin Terminal =>
        OutcomeFrom(base, H) = Furthest(Opened(base, H))
  BY DEF OutcomeFrom
<1>9. Closing(H) = {} /\ From(base, H) \notin Terminal =>
        Opened(base, H) \in SUBSET (Statuses \ Terminal)
  BY <1>5 DEF Closing, Opened
<1>10. OutcomeFrom(base, H) \in Statuses
  BY <1>4, <1>5, <1>6, <1>7, StatusRanks DEF OutcomeFrom
<1> QED
  BY <1>4, <1>5, <1>6, <1>7, <1>8, <1>9, <1>10

\* What the outcome becomes when a row is added at the end.
LEMMA OutcomeSteps ==
  ASSUME NEW H, IsHistory(H), H # {}, NEW base \in Statuses
  PROVE  OutcomeFrom(base, H) = Transition(OutcomeFrom(base, H \ {LastOf(H)}), LastOf(H))
<1>1. PICK l \in H : l = LastOf(H) /\ \A d \in H : d = l \/ Before(d, l)
  BY LastIsThere
<1>2. PICK G : G = H \ {l}
  OBVIOUS
<1>3. PICK s : s = OutcomeFrom(base, G)
  OBVIOUS
<1>4. IsHistory(G) /\ G \subseteq H
  BY <1>2, PartsAreHistories
<1>5. \A e \in H : e.at \in Nat /\ e.id \in Nat /\ e.status \in Statuses
                   /\ (e.source = "MANUAL" \/ e.source = "EMAIL")
  BY DEF IsHistory, Row
<1>6. \A e \in H : ~Before(l, e)
  BY <1>1, <1>5 DEF Before
<1> SUFFICES OutcomeFrom(base, H) = Transition(s, l)
  BY <1>1, <1>2, <1>3
<1>7. CASE l.source = "MANUAL"
  <2>1. l \in Words(H) /\ IsHistory(Words(H)) /\ Words(H) \subseteq H
    BY <1>7, PartsAreHistories DEF Words
  <2>2. LastOf(Words(H)) = l
    BY <1>1, <2>1, LastIsOne
  <2>3. Since(H) = {} /\ From(base, H) = l.status
    BY <1>6, <2>1, <2>2 DEF Since, From
  <2>4. Closing(H) = {} /\ Opened(base, H) = {l.status}
    BY <2>3 DEF Closing, Opened
  <2>5. l.status \notin Terminal => Furthest({l.status}) = l.status
    BY <1>5, FurthestIsThere
  <2>6. OutcomeFrom(base, H) = l.status
    BY <2>3, <2>4, <2>5 DEF OutcomeFrom
  <2> QED
    BY <1>7, <2>6 DEF Transition
<1>8. CASE l.source # "MANUAL"
  <2>1. Words(H) = Words(G)
    BY <1>2, <1>8 DEF Words
  <2>2. From(base, H) = From(base, G)
    BY <2>1 DEF From
  <2>3. Words(H) = {} \/ Before(LastOf(Words(H)), l)
    <3>1. IsHistory(Words(H)) /\ \A w \in Words(H) : w \in H /\ w # l
      BY <1>8, PartsAreHistories DEF Words
    <3> QED
      BY <1>1, <3>1, LastIsThere
  <2>4. Since(H) = Since(G) \cup {l}
    BY <1>2, <2>1, <2>3 DEF Since
  <2>5. CASE l.status \in Terminal
    <3>1. l \in Closing(H) /\ IsHistory(Closing(H)) /\ Closing(H) \subseteq H
      BY <2>4, <2>5, PartsAreHistories DEF Closing, Since
    <3>2. LastOf(Closing(H)) = l
      BY <1>1, <3>1, LastIsOne
    <3> QED
      BY <2>5, <3>1, <3>2 DEF OutcomeFrom, Transition
  <2>6. CASE l.status \notin Terminal
    <3>1. Closing(H) = Closing(G)
      BY <2>4, <2>6 DEF Closing
    <3>2. CASE Closing(G) # {} \/ From(base, G) \in Terminal
      <4>1. OutcomeFrom(base, H) = s /\ s \in Terminal
        BY <1>3, <1>4, <2>2, <3>1, <3>2, OutcomesAreStatuses DEF OutcomeFrom
      <4> QED
        BY <1>8, <2>6, <4>1 DEF Transition
    <3>3. CASE ~(Closing(G) # {} \/ From(base, G) \in Terminal)
      <4>1. /\ s \in Opened(base, G) /\ Opened(base, G) \in SUBSET (Statuses \ Terminal)
            /\ \A r \in Opened(base, G) : statusRank[r] <= statusRank[s]
        BY <1>3, <1>4, <3>3, OutcomesAreStatuses
      <4>2. /\ OutcomeFrom(base, H) = Furthest(Opened(base, H))
            /\ Opened(base, H) \in SUBSET (Statuses \ Terminal)
        BY <2>2, <3>1, <3>3, OutcomesAreStatuses
      <4>3. Opened(base, H) = Opened(base, G) \cup {l.status}
        BY <2>2, <2>4 DEF Opened
      <4>4. PICK t : t = Transition(s, l)
        OBVIOUS
      <4>5. s \in Statuses \ Terminal /\ l.status \in Statuses \ Terminal
        BY <4>1, <4>2, <4>3
      <4>6. statusRank[s] \in Nat /\ statusRank[l.status] \in Nat
            /\ \A r \in Opened(base, G) : statusRank[r] \in Nat
        BY <4>1, <4>5, StatusRanks
      <4>7. t = IF statusRank[l.status] >= statusRank[s] THEN l.status ELSE s
        BY <1>8, <2>6, <4>4, <4>5 DEF Transition
      <4>8. t \in Opened(base, H)
        BY <4>1, <4>3, <4>7
      <4>9. \A r \in Opened(base, H) : statusRank[r] <= statusRank[t]
        BY <4>1, <4>3, <4>6, <4>7
      <4> QED
        BY <4>2, <4>4, <4>8, <4>9, FurthestIsOne
    <3> QED
      BY <3>2, <3>3
  <2> QED
    BY <2>5, <2>6
<1> QED
  BY <1>7, <1>8

IsFold(f, base, H) ==
  f = [S \in SUBSET H |-> IF S = {} THEN base ELSE Transition(f[S \ {LastOf(S)}], LastOf(S))]

\* There is a function that folds each part of a history: it is found one size after the other.
LEMMA FoldIsThere ==
  ASSUME NEW H, IsHistory(H), NEW base
  PROVE  \E f : IsFold(f, base, H)
<1> DEFINE Upto(n) == {S \in SUBSET H : Cardinality(S) <= n}
           Folds(n) == \E f : f = [S \in Upto(n) |->
                         IF S = {} THEN base ELSE Transition(f[S \ {LastOf(S)}], LastOf(S))]
           Broken == {n \in Nat : ~Folds(n)}
<1>1. \A S \in SUBSET H : IsFiniteSet(S) /\ Cardinality(S) \in Nat
  BY FS_Subset, FS_CardinalityType DEF IsHistory
<1>2. \A S \in SUBSET H : S # {} => LastOf(S) \in S /\ Cardinality(S \ {LastOf(S)}) = Cardinality(S) - 1
                                    /\ S \ {LastOf(S)} \in SUBSET H
  BY <1>1, PartsAreHistories, LastIsThere, FS_RemoveElement
<1>3. Folds(0)
  <2>1. \A S \in Upto(0) : S = {}
    BY <1>1, FS_EmptySet
  <2>2. PICK f : f = [S \in Upto(0) |-> base]
    OBVIOUS
  <2>3. f = [S \in Upto(0) |-> IF S = {} THEN base ELSE Transition(f[S \ {LastOf(S)}], LastOf(S))]
    BY <2>1, <2>2
  <2> QED
    BY <2>3
<1>4. ASSUME NEW n \in Nat, Folds(n)
      PROVE  Folds(n + 1)
  <2>1. PICK f : f = [S \in Upto(n) |->
                        IF S = {} THEN base ELSE Transition(f[S \ {LastOf(S)}], LastOf(S))]
    BY <1>4
  <2>2. PICK g : g = [S \in Upto(n + 1) |->
                        IF S = {} THEN base ELSE Transition(f[S \ {LastOf(S)}], LastOf(S))]
    OBVIOUS
  <2>3. \A S \in Upto(n + 1) : S # {} => S \ {LastOf(S)} \in Upto(n)
    BY <1>1, <1>2
  <2>4. \A S \in Upto(n) : S \in Upto(n + 1)
    BY <1>1
  <2>5. \A S \in Upto(n) : g[S] = f[S]
    <3> HIDE DEF Upto
    <3> QED
      BY <2>1, <2>2, <2>4
  <2>6. \A S \in Upto(n + 1) :
          g[S] = IF S = {} THEN base ELSE Transition(g[S \ {LastOf(S)}], LastOf(S))
    <3> HIDE DEF Upto
    <3> QED
      BY <2>2, <2>3, <2>5
  <2>7. g = [S \in Upto(n + 1) |->
               IF S = {} THEN base ELSE Transition(g[S \ {LastOf(S)}], LastOf(S))]
    <3> HIDE DEF Upto
    <3> QED
      BY <2>2, <2>6
  <2> QED
    BY <2>7
<1>5. Broken = {}
  <2> SUFFICES ASSUME Broken # {}
               PROVE  FALSE
    OBVIOUS
  <2>1. Broken \in SUBSET Nat
    OBVIOUS
  <2> HIDE DEF Folds
  <2>2. PICK n \in Broken : \A m \in Broken : n <= m
    <3> HIDE DEF Broken
    <3> QED
      BY <2>1, MinIsLeast
  <2>3. n # 0 /\ n \in Nat
    BY <1>3
  <2>4. n - 1 \in Nat /\ Folds(n - 1)
    BY <2>2, <2>3
  <2>5. Folds((n - 1) + 1)
    BY <1>4, <2>4
  <2> QED
    BY <2>3, <2>5
<1>6. PICK n \in Nat : n = Cardinality(H)
  BY <1>1
<1>7. Folds(n)
  <2> HIDE DEF Folds
  <2> QED
    BY <1>5
<1>8. Upto(n) = SUBSET H
  <2>1. \A S \in SUBSET H : Cardinality(S) <= n
    BY <1>6, FS_Subset DEF IsHistory
  <2> QED
    BY <2>1
<1> QED
  <2> HIDE DEF Upto
  <2> QED
    BY <1>7, <1>8 DEF IsFold

\* The fold of a history is what the history means.
LEMMA FoldMeans ==
  ASSUME NEW H, IsHistory(H), NEW base \in Statuses
  PROVE  Fold(base, H) = OutcomeFrom(base, H)
<1> DEFINE folded == CHOOSE f : IsFold(f, base, H)
<1>1. folded = [S \in SUBSET H |->
                  IF S = {} THEN base ELSE Transition(folded[S \ {LastOf(S)}], LastOf(S))]
  <2>1. \E f : IsFold(f, base, H)
    BY FoldIsThere
  <2>2. IsFold(folded, base, H)
    BY <2>1, Zenon
  <2> HIDE DEF folded
  <2> QED
    BY <2>2 DEF IsFold
<1>2. Fold(base, H) = folded[H]
  BY DEF Fold, IsFold
<1> HIDE DEF folded
<1> DEFINE Wrong == {S \in SUBSET H : folded[S] # OutcomeFrom(base, S)}
<1>3. ASSUME Wrong # {}
      PROVE  FALSE
  <2>1. PICK S \in Wrong : \A x \in S : S \ {x} \notin Wrong
    <3>1. Wrong \in SUBSET (SUBSET H) /\ IsFiniteSet(H)
      BY DEF IsHistory
    <3> HIDE DEF Wrong
    <3> QED
      BY <1>3, <3>1, SmallestSubset
  <2>2. S \in SUBSET H /\ IsHistory(S) /\ folded[S] # OutcomeFrom(base, S)
    BY PartsAreHistories
  <2>3. CASE S = {}
    <3>1. folded[S] = base
      BY <1>1, <2>2, <2>3
    <3>2. Words(S) = {} /\ Since(S) = {} /\ Closing(S) = {} /\ From(base, S) = base
          /\ Opened(base, S) = {base}
      BY <2>3 DEF Words, Since, Closing, From, Opened
    <3>3. Furthest({base}) = base
      BY FurthestIsThere
    <3>4. OutcomeFrom(base, S) = base
      BY <3>2, <3>3 DEF OutcomeFrom
    <3> QED
      BY <2>2, <3>1, <3>4
  <2>4. CASE S # {}
    <3>1. LastOf(S) \in S
      BY <2>2, <2>4, LastIsThere
    <3>2. PICK G \in SUBSET H : G = S \ {LastOf(S)}
      BY <2>2
    <3>3. folded[G] = OutcomeFrom(base, G)
      BY <2>1, <3>1, <3>2
    <3>4. folded[S] = Transition(folded[G], LastOf(S))
      BY <1>1, <2>2, <2>4, <3>2
    <3>5. OutcomeFrom(base, S) = Transition(OutcomeFrom(base, G), LastOf(S))
      BY <2>2, <2>4, <3>2, OutcomeSteps
    <3> QED
      BY <2>2, <3>3, <3>4, <3>5
  <2> QED
    BY <2>3, <2>4
<1>4. H \in SUBSET H /\ H \notin Wrong
  BY <1>3
<1> QED
  BY <1>2, <1>4

ChangeSteps == {"idle", "read", "folded", "retry", "done", "refused", "failed"}
ChangeState == [step : ChangeSteps, base : Statuses, tries : Nat, row : Row, seen : SUBSET Row,
                began : Nat]

\* A status that the rows of a history can lead to, unless the user has said another since.
Reaches(s, H) ==
  Words(H) = {} =>
    /\ s = Start \/ \E e \in H : s = e.status
    /\ Start \in Terminal => s = Start \/ \E e \in H : e.status \in Terminal
    /\ statusRank[Start] <= statusRank[s]

\* What a change has read is reached by the rows it has read, and is current unless somebody has
\* committed since.
ChangeOK(b) ==
  /\ b \in ChangeState
  /\ b.step \in {"read", "folded"} => b.began <= commits /\ (b.began = commits => b.base = status)
  /\ b.step = "read" => Reaches(b.base, entries)
  /\ b.step = "folded" =>
       /\ b.seen \subseteq entries /\ Reaches(b.base, b.seen)
       /\ b.began = commits => b.seen = entries
       /\ b.row.id \in 1..rowIds /\ \A e \in entries : e.id # b.row.id

StatusInv ==
  /\ status \in Statuses /\ rowIds \in Nat /\ commits \in Nat
  /\ IsHistory(entries) /\ \A e \in entries : e.id <= rowIds
  /\ Reaches(status, entries)
  /\ DOMAIN change = Changes /\ \A c \in Changes : ChangeOK(change[c])
  /\ \A c, d \in Changes : c # d /\ change[c].step = "folded" /\ change[d].step = "folded" =>
       change[c].row.id # change[d].row.id
  /\ StatusIsOutcome

\* What a part of a history reaches the whole reaches.
LEMMA MoreRowsReach ==
  ASSUME NEW G, NEW H \in SUBSET G, NEW s, Reaches(s, H)
  PROVE  Reaches(s, G)
<1>1. Words(H) \subseteq Words(G)
  BY DEF Words
<1> QED
  BY <1>1 DEF Reaches

\* It makes no difference from which status that the rows lead to their fold begins.
LEMMA ReachedMeans ==
  ASSUME NEW H, IsHistory(H), NEW s \in Statuses, Reaches(s, H)
  PROVE  OutcomeFrom(s, H) = OutcomeFrom(Start, H)
<1>1. CASE Words(H) # {}
  <2>1. From(s, H) = From(Start, H)
    BY <1>1 DEF From
  <2> QED
    BY <2>1 DEF OutcomeFrom, Opened
<1>2. CASE Words(H) = {}
  <2>1. Since(H) = H /\ From(s, H) = s /\ From(Start, H) = Start
    BY <1>2 DEF Since, From
  <2>2. CASE Closing(H) # {} \/ s = Start
    BY <2>2 DEF OutcomeFrom
  <2>3. CASE Closing(H) = {} /\ s # Start
    <3>1. \A e \in H : e.status \notin Terminal
      BY <2>1, <2>3 DEF Closing
    <3>2. /\ Start \notin Terminal /\ s \notin Terminal /\ Start \in Statuses
          /\ statusRank[Start] <= statusRank[s] /\ \E e \in H : s = e.status
      BY <1>2, <2>3, <3>1, StatusConstants DEF Reaches
    <3>3. /\ OutcomeFrom(s, H) = Furthest(Opened(s, H)) /\ OutcomeFrom(s, H) \in Opened(s, H)
          /\ Opened(s, H) \in SUBSET (Statuses \ Terminal)
          /\ \A r \in Opened(s, H) : statusRank[r] <= statusRank[OutcomeFrom(s, H)]
      BY <2>1, <2>3, <3>2, OutcomesAreStatuses
    <3>4. OutcomeFrom(Start, H) = Furthest(Opened(Start, H))
          /\ Opened(Start, H) \in SUBSET (Statuses \ Terminal)
      BY <2>1, <2>3, <3>2, OutcomesAreStatuses
    <3>5. PICK f : f = OutcomeFrom(s, H)
      OBVIOUS
    <3>6. Opened(s, H) = Opened(Start, H) \ {Start} \/ Opened(s, H) = Opened(Start, H)
      BY <2>1, <3>2 DEF Opened
    <3>7. f \in Opened(Start, H) /\ s \in Opened(s, H)
      BY <2>1, <3>3, <3>5, <3>6 DEF Opened
    <3>8. statusRank[Start] \in Nat /\ statusRank[s] \in Nat /\ statusRank[f] \in Nat
      BY <3>2, <3>3, <3>5, StatusRanks
    <3>9. \A r \in Opened(Start, H) : statusRank[r] <= statusRank[f]
      BY <3>2, <3>3, <3>5, <3>6, <3>7, <3>8
    <3> QED
      BY <3>4, <3>5, <3>7, <3>9, FurthestIsOne
  <2> QED
    BY <2>2, <2>3
<1> QED
  BY <1>1, <1>2

\* An outcome is reached by the history it is of.
LEMMA FoldsReach ==
  ASSUME NEW H, IsHistory(H), NEW s \in Statuses, Reaches(s, H)
  PROVE  Reaches(OutcomeFrom(s, H), H)
<1>1. PICK f : f = OutcomeFrom(s, H)
  OBVIOUS
<1> SUFFICES ASSUME Words(H) = {}
             PROVE  /\ f = Start \/ \E e \in H : f = e.status
                    /\ Start \in Terminal => f = Start \/ \E e \in H : e.status \in Terminal
                    /\ statusRank[Start] <= statusRank[f]
  BY <1>1 DEF Reaches
<1>2. Since(H) = H /\ From(s, H) = s /\ f \in Statuses /\ Start \in Statuses
  BY <1>1, OutcomesAreStatuses, StatusConstants DEF Since, From
<1>3. CASE Closing(H) # {}
  <2>1. IsHistory(Closing(H)) /\ Closing(H) \subseteq H
    BY <1>2, PartsAreHistories DEF Closing
  <2>2. PICK e \in Closing(H) : f = e.status
    BY <1>1, <1>3, <2>1, LastIsThere DEF OutcomeFrom
  <2>3. e \in H /\ f \in Terminal
    BY <2>1, <2>2 DEF Closing
  <2> QED
    BY <1>2, <2>2, <2>3, StatusRanks
<1>4. CASE Closing(H) = {} /\ s \in Terminal
  <2>1. f = s
    BY <1>1, <1>2, <1>4 DEF OutcomeFrom
  <2> QED
    BY <2>1 DEF Reaches
<1>5. CASE Closing(H) = {} /\ s \notin Terminal
  <2>1. f \in Opened(s, H) /\ statusRank[s] <= statusRank[f]
    <3>1. s \in Opened(s, H)
      BY <1>2 DEF Opened
    <3> QED
      BY <1>1, <1>2, <1>5, <3>1, OutcomesAreStatuses
  <2>2. Start \notin Terminal
    BY <1>2, <1>5 DEF Reaches, Closing
  <2>3. statusRank[Start] <= statusRank[s]
    BY DEF Reaches
  <2>4. statusRank[Start] \in Nat /\ statusRank[s] \in Nat /\ statusRank[f] \in Nat
    BY <1>2, StatusRanks
  <2>5. f = s \/ \E e \in H : f = e.status
    BY <1>2, <2>1 DEF Opened
  <2> QED
    BY <2>1, <2>2, <2>3, <2>4, <2>5 DEF Reaches
<1> QED
  BY <1>3, <1>4, <1>5

\* The invariant holds at the start.
LEMMA StatusStarts == StatusInit => StatusInv
<1> SUFFICES ASSUME StatusInit
             PROVE  StatusInv
  OBVIOUS
<1>1. Start \in Statuses
  BY StatusConstants
<1>2. IsHistory(entries) /\ entries = {}
  BY FS_EmptySet DEF StatusInit, IsHistory
<1>3. statusRank[Start] \in Nat /\ Reaches(status, entries)
  BY <1>1, <1>2, StatusRanks DEF StatusInit, Reaches
<1>4. \A c \in Changes : ChangeOK(change[c]) /\ change[c].step = "idle"
  BY <1>1 DEF StatusInit, Closed, NoRow, Row, Statuses, ChangeOK, ChangeState, ChangeSteps
<1>5. status = Outcome(entries)
  <2>1. Words(entries) = {} /\ Since(entries) = {} /\ Closing(entries) = {}
        /\ From(Start, entries) = Start /\ Opened(Start, entries) = {Start}
    BY <1>2 DEF Words, Since, Closing, From, Opened
  <2>2. Furthest({Start}) = Start
    BY <1>1, FurthestIsThere
  <2> QED
    BY <2>1, <2>2, OutcomeIsFromStart DEF StatusInit, OutcomeFrom
<1> QED
  BY <1>1, <1>2, <1>3, <1>4, <1>5 DEF StatusInit, StatusInv, StatusIsOutcome

\* A step of one change that commits nothing.
LEMMA ChangeMovesOn ==
  ASSUME StatusInv, NEW c \in Changes, NEW b, change' = [change EXCEPT ![c] = b],
         UNCHANGED <<status, entries, commits, whole>>, rowIds' \in Nat, rowIds <= rowIds',
         ChangeOK(b)', b.step = "folded" => b.row.id > rowIds
  PROVE  StatusInv'
<1>1. DOMAIN change' = Changes /\ change'[c] = b /\ \A d \in Changes \ {c} : change'[d] = change[d]
  BY DEF StatusInv
<1>2. ASSUME NEW d \in Changes \ {c}
      PROVE  ChangeOK(change[d])' /\ (change[d].step = "folded" => change[d].row.id \in 1..rowIds)
  <2>1. PICK g : g = change[d]
    OBVIOUS
  <2>2. ChangeOK(g) /\ rowIds \in Nat
    BY <2>1 DEF StatusInv
  <2>3. Reaches(g.base, entries)' <=> Reaches(g.base, entries)
    BY DEF Reaches, Words
  <2>4. Reaches(g.base, g.seen)' <=> Reaches(g.base, g.seen)
    BY DEF Reaches, Words
  <2>5. ChangeOK(g)'
    BY <2>2, <2>3, <2>4 DEF ChangeOK
  <2>6. g = change'[d]
    BY <1>1, <2>1
  <2>7. ChangeOK(change[d])'
    BY <2>5, <2>6 DEF ChangeOK, Reaches, Words
  <2>8. g.step = "folded" => g.row.id \in 1..rowIds
    BY <2>2 DEF ChangeOK
  <2> QED
    BY <2>1, <2>7, <2>8
<1>3. \A d, e \in Changes : d # e /\ change'[d].step = "folded" /\ change'[e].step = "folded" =>
        change'[d].row.id # change'[e].row.id
  <2>1. rowIds \in Nat /\ (b.step = "folded" => b.row.id \in Nat)
    BY DEF StatusInv, ChangeOK, ChangeState, Row
  <2>2. \A d \in Changes \ {c} : b.step = "folded" /\ change[d].step = "folded" =>
          b.row.id # change[d].row.id
    BY <1>2, <2>1
  <2>3. \A d, e \in Changes \ {c} :
          d # e /\ change[d].step = "folded" /\ change[e].step = "folded" =>
            change[d].row.id # change[e].row.id
    BY DEF StatusInv
  <2> QED
    BY <1>1, <2>2, <2>3
<1>4. \A d \in Changes : ChangeOK(change[d])'
  <2>1. ChangeOK(change[c])'
    BY <1>1 DEF ChangeOK, Reaches, Words
  <2>2. \A d \in Changes \ {c} : ChangeOK(change[d])'
    BY <1>2
  <2> QED
    BY <2>1, <2>2
<1>5. Reaches(status, entries)' /\ IsHistory(entries)' /\ StatusIsOutcome'
      /\ \A e \in entries' : e.id <= rowIds'
  <2>1. Reaches(status, entries) /\ IsHistory(entries) /\ StatusIsOutcome
    BY DEF StatusInv
  <2>2. Reaches(status, entries)'
    BY <2>1 DEF Reaches, Words
  <2>3. StatusIsOutcome'
    <3>1. entries' = entries /\ status' = status /\ whole' = whole
      OBVIOUS
    <3>2. PICK H : H = entries
      OBVIOUS
    <3>3. Outcome(H)' = Outcome(H)
      BY DEF Outcome, LastOf, Before
    <3>4. Outcome(entries)' = Outcome(entries)
      BY <3>1 DEF Outcome, LastOf, Before
    <3> QED
      BY <2>1, <3>1, <3>4 DEF StatusIsOutcome
  <2>4. IsHistory(entries)'
    BY <2>1 DEF IsHistory
  <2>5. \A e \in entries' : e.id <= rowIds'
    BY DEF StatusInv, IsHistory, Row
  <2> QED
    BY <2>2, <2>3, <2>4, <2>5
<1>6. status' \in Statuses /\ commits' \in Nat
  BY DEF StatusInv
<1> QED
  BY <1>1, <1>3, <1>4, <1>5, <1>6 DEF StatusInv

\* A change that reads the application keeps it,
LEMMA ReadingsStand ==
  ASSUME StatusInv, NEW c \in Changes, ReadApplication(c) \/ Retry(c)
  PROVE  StatusInv'
<1>1. PICK t \in ChangeState : t = change[c]
  BY DEF StatusInv, ChangeOK
<1>2. PICK b : /\ change' = [change EXCEPT ![c] = b] /\ b \in ChangeState
               /\ b.step = "read" /\ b.base = status /\ b.began = commits
  <2>1. status \in Statuses /\ commits \in Nat
    BY DEF StatusInv
  <2>2. CASE ReadApplication(c)
    <3>1. PICK r \in Requests[c] : change' = [change EXCEPT ![c] =
            [t EXCEPT !.step = "read", !.base = status, !.began = commits,
                      !.row = [id |-> 0, source |-> r.source, status |-> r.status, at |-> r.at]]]
      BY <1>1, <2>2 DEF ReadApplication
    <3>2. r \in ChangeRequest
      BY StatusConstants
    <3>3. EmailStatuses \subseteq Statuses
      BY DEF EmailStatuses, resolveStatusFromEmail, Statuses
    <3>4. PICK w \in Row : w = [id |-> 0, source |-> r.source, status |-> r.status, at |-> r.at]
      BY <3>2, <3>3 DEF ChangeRequest, Row
    <3>5. PICK a : a = [t EXCEPT !.step = "read", !.base = status, !.began = commits, !.row = w]
      OBVIOUS
    <3>6. a \in ChangeState /\ a.step = "read" /\ a.base = status /\ a.began = commits
      BY <2>1, <3>5 DEF ChangeState, ChangeSteps
    <3>7. change' = [change EXCEPT ![c] = a]
      BY <3>1, <3>4, <3>5
    <3> QED
      BY <3>6, <3>7
  <2>3. CASE Retry(c)
    <3>1. PICK a : a = [t EXCEPT !.step = "read", !.base = status, !.began = commits]
      OBVIOUS
    <3>2. a \in ChangeState /\ a.step = "read" /\ a.base = status /\ a.began = commits
      BY <2>1, <3>1 DEF ChangeState, ChangeSteps
    <3>3. change' = [change EXCEPT ![c] = a]
      BY <1>1, <2>3, <3>1 DEF Retry
    <3> QED
      BY <3>2, <3>3
  <2> QED
    BY <2>2, <2>3
<1>3. UNCHANGED <<status, entries, timeline, rowIds, commits, whole>>
  BY DEF ReadApplication, Retry
<1>4. ChangeOK(b)'
  <2>1. Reaches(status, entries) /\ commits \in Nat
    BY DEF StatusInv
  <2>2. Reaches(b.base, entries)'
    BY <1>2, <1>3, <2>1 DEF Reaches, Words
  <2> QED
    BY <1>2, <1>3, <2>1, <2>2 DEF ChangeOK
<1>5. rowIds' \in Nat /\ rowIds <= rowIds'
  BY <1>3 DEF StatusInv
<1> QED
  BY <1>2, <1>3, <1>4, <1>5, ChangeMovesOn

\* and one that inserts its row and folds the history,
LEMMA InsertsStand ==
  ASSUME StatusInv, NEW c \in Changes, InsertRow(c)
  PROVE  StatusInv'
<1>1. PICK t \in ChangeState : t = change[c] /\ t.step = "read" /\ ChangeOK(t)
  BY DEF StatusInv, ChangeOK, InsertRow
<1>2. PICK b : b = [t EXCEPT !.step = "folded", !.row.id = rowIds + 1, !.seen = entries]
  OBVIOUS
<1>3. change' = [change EXCEPT ![c] = b]
  BY <1>1, <1>2 DEF InsertRow
<1>4. rowIds \in Nat /\ commits \in Nat /\ entries \subseteq Row /\ \A e \in entries : e.id <= rowIds
  BY DEF StatusInv, IsHistory
<1>5. /\ b \in ChangeState /\ b.step = "folded" /\ b.row.id = rowIds + 1 /\ b.seen = entries
      /\ b.base = t.base /\ b.began = t.began
  <2>1. PICK w : w = [t.row EXCEPT !.id = rowIds + 1]
    OBVIOUS
  <2>2. w \in Row /\ w.id = rowIds + 1
    <3>1. t.row \in Row /\ rowIds + 1 \in Nat
      BY <1>4 DEF ChangeState
    <3> QED
      BY <2>1, <3>1 DEF Row
  <2>3. b = [t EXCEPT !.step = "folded", !.row = w, !.seen = entries]
    BY <1>2, <2>1
  <2> QED
    BY <1>4, <2>2, <2>3 DEF ChangeState, ChangeSteps
<1>6. UNCHANGED <<status, entries, commits, whole>> /\ rowIds' = rowIds + 1
  BY DEF InsertRow
<1>7. ChangeOK(b)'
  <2>1. /\ Reaches(t.base, entries) /\ t.began <= commits
        /\ t.began = commits => t.base = status
    BY <1>1 DEF ChangeOK
  <2>2. Reaches(b.base, b.seen)'
    BY <1>5, <2>1 DEF Reaches, Words
  <2>3. b.row.id \in 1..rowIds' /\ \A e \in entries : e.id # b.row.id
    <3>1. \A e \in entries : e.id \in Nat
      BY <1>4 DEF Row
    <3> QED
      BY <1>4, <1>5, <1>6, <3>1
  <2> QED
    BY <1>5, <1>6, <2>1, <2>2, <2>3 DEF ChangeOK
<1> QED
  <2>1. rowIds' \in Nat /\ rowIds <= rowIds' /\ (b.step = "folded" => b.row.id > rowIds)
    BY <1>4, <1>5, <1>6
  <2> QED
    BY <1>3, <1>6, <1>7, <2>1, ChangeMovesOn

\* and one that aborts,
LEMMA AbortsStand ==
  ASSUME StatusInv, NEW c \in Changes, Abort(c)
  PROVE  StatusInv'
<1>1. PICK t \in ChangeState : t = change[c]
  BY DEF StatusInv, ChangeOK
<1>2. PICK b : /\ change' = [change EXCEPT ![c] = b] /\ b \in ChangeState
               /\ b.step \in {"retry", "failed"}
  <2>1. Closed("failed") \in ChangeState /\ Closed("failed").step = "failed"
    BY StatusConstants DEF Closed, NoRow, Row, ChangeState, ChangeSteps, Statuses
  <2>2. [t EXCEPT !.step = "retry", !.tries = t.tries + 1] \in ChangeState
        /\ [t EXCEPT !.step = "retry", !.tries = t.tries + 1].step = "retry"
    <3>1. t.tries + 1 \in Nat
      BY DEF ChangeState
    <3> QED
      BY <3>1 DEF ChangeState, ChangeSteps
  <2>3. change' = [change EXCEPT ![c] =
          IF t.tries < Retries THEN [t EXCEPT !.step = "retry", !.tries = t.tries + 1]
          ELSE Closed("failed")]
    BY <1>1 DEF Abort
  <2> QED
    BY <2>1, <2>2, <2>3
<1>3. UNCHANGED <<status, entries, timeline, rowIds, commits, whole>>
  BY DEF Abort
<1>4. ChangeOK(b)'
  BY <1>2 DEF ChangeOK
<1>5. rowIds' \in Nat /\ rowIds <= rowIds'
  BY <1>3 DEF StatusInv
<1> QED
  BY <1>2, <1>3, <1>4, <1>5, ChangeMovesOn

\* The rows a change folds, and the status they give: it is the outcome of the whole history when
\* nobody else committed since the change began, whatever earlier changes have made of theirs.
LEMMA CommitsSettle ==
  ASSUME StatusInv, NEW c \in Changes, Commit(c)
  PROVE  /\ Settle(c) \in Statuses /\ status' \in Statuses
         /\ IsHistory(entries') /\ Reaches(status, entries)'
         /\ StatusIsOutcome'
<1>1. PICK t \in ChangeState : t = change[c] /\ t.step = "folded" /\ ChangeOK(t)
  BY DEF StatusInv, ChangeOK, Commit
<1>2. PICK G : G = entries'
  OBVIOUS
<1>3. G = entries \cup {t.row}
  BY <1>1, <1>2 DEF Commit
<1>4. PICK H : H = t.seen \cup {t.row}
  OBVIOUS
<1>5. IsHistory(G) /\ H \subseteq G /\ IsHistory(H)
  <2>1. t.row \in Row /\ t.seen \subseteq entries /\ \A e \in entries : e.id # t.row.id
    BY <1>1 DEF ChangeOK, ChangeState
  <2>2. IsHistory(G)
    BY <1>3, <2>1, FS_AddElement DEF StatusInv, IsHistory
  <2> QED
    BY <1>3, <1>4, <2>1, <2>2, PartsAreHistories
<1>6. Reaches(t.base, H)
  BY <1>1, <1>4, MoreRowsReach DEF ChangeOK
<1>7. PICK n : n = Settle(c)
  OBVIOUS
<1>8. n = OutcomeFrom(t.base, H) /\ n \in Statuses /\ t.base \in Statuses
  <2>1. Settle(c) = Fold(t.base, H)
    BY <1>1, <1>4 DEF Settle
  <2> QED
    BY <1>1, <1>5, <1>7, <2>1, FoldMeans, OutcomesAreStatuses DEF ChangeState
<1>9. Reaches(n, G)
  <2>1. Reaches(n, H)
    BY <1>5, <1>6, <1>8, FoldsReach
  <2> QED
    BY <1>5, <2>1, MoreRowsReach
<1>10. /\ status' = (IF n # t.base \/ t.row.source = "MANUAL" THEN n ELSE status)
       /\ whole' = (t.began = commits)
  BY <1>1, <1>7 DEF Commit
<1>11. PICK s : s = status'
  OBVIOUS
<1>12. s \in Statuses /\ Reaches(s, G)
  <2>1. Reaches(status, entries) /\ status \in Statuses
    BY DEF StatusInv
  <2>2. PICK p : p = status
    OBVIOUS
  <2>3. PICK F : F = entries
    OBVIOUS
  <2>4. Reaches(p, F) /\ F \in SUBSET G
    BY <1>3, <2>1, <2>2, <2>3
  <2>5. Reaches(p, G)
    BY <2>4, MoreRowsReach
  <2> QED
    BY <1>8, <1>9, <1>10, <1>11, <2>1, <2>2, <2>5
<1>13. Reaches(status, entries)'
  BY <1>2, <1>11, <1>12 DEF Reaches, Words
<1>14. ASSUME whole'
       PROVE  status' = Outcome(entries)'
  <2>1. t.base = status /\ H = G
    BY <1>1, <1>3, <1>4, <1>10, <1>14 DEF ChangeOK
  <2>2. s = n
    BY <1>10, <1>11, <2>1
  <2>3. n = OutcomeFrom(Start, G)
    BY <1>5, <1>6, <1>8, <2>1, ReachedMeans
  <2>4. s = Outcome(G)
    BY <2>2, <2>3, OutcomeIsFromStart
  <2>5. Outcome(entries)' = Outcome(G)
    BY <1>2 DEF Outcome, LastOf, Before
  <2> QED
    BY <1>11, <2>4, <2>5
<1>15. StatusIsOutcome'
  BY <1>14 DEF StatusIsOutcome
<1>16. IsHistory(entries') /\ status' \in Statuses
  BY <1>2, <1>5, <1>11, <1>12
<1> QED
  BY <1>7, <1>8, <1>13, <1>15, <1>16

\* and one that commits,
LEMMA CommitsStand ==
  ASSUME StatusInv, NEW c \in Changes, Commit(c)
  PROVE  StatusInv'
<1>1. PICK t \in ChangeState : t = change[c] /\ t.step = "folded" /\ ChangeOK(t)
  BY DEF StatusInv, ChangeOK, Commit
<1>2. entries' = entries \cup {t.row} /\ commits' = commits + 1 /\ rowIds' = rowIds
  BY <1>1 DEF Commit
<1>3. PICK b : change' = [change EXCEPT ![c] = b] /\ b \in {Closed("refused"), Closed("done")}
  BY DEF Commit
<1>4. b \in ChangeState /\ b.step \in {"refused", "done"}
  BY <1>3, StatusConstants DEF Closed, NoRow, Row, ChangeState, ChangeSteps, Statuses
<1>5. DOMAIN change' = Changes /\ change'[c] = b /\ \A d \in Changes \ {c} : change'[d] = change[d]
  BY <1>3 DEF StatusInv
<1>6. rowIds \in Nat /\ commits \in Nat /\ t.row.id \in 1..rowIds
  BY <1>1 DEF StatusInv, ChangeOK
<1>7. ASSUME NEW d \in Changes \ {c}
      PROVE  ChangeOK(change[d])'
  <2>1. PICK g : g = change[d]
    OBVIOUS
  <2>2. ChangeOK(g) /\ (g.step = "folded" => g.row.id # t.row.id)
    BY <1>1, <2>1 DEF StatusInv
  <2>3. PICK G : G = entries'
    OBVIOUS
  <2>4. PICK F : F = entries
    OBVIOUS
  <2>5. Reaches(g.base, F) => Reaches(g.base, G)
    BY <1>2, <2>3, <2>4, MoreRowsReach
  <2>6. g.step = "read" => Reaches(g.base, entries)'
    <3>1. g.step = "read" => Reaches(g.base, F)
      BY <2>2, <2>4 DEF ChangeOK
    <3> QED
      BY <2>3, <2>5, <3>1 DEF Reaches, Words
  <2>7. g.began \in Nat
    BY <2>2 DEF ChangeOK, ChangeState
  <2>8. g.step \in {"read", "folded"} => g.began <= commits' /\ g.began # commits'
    BY <1>2, <1>6, <2>2, <2>7 DEF ChangeOK
  <2>9. g.step = "folded" =>
          /\ g.seen \subseteq entries' /\ Reaches(g.base, g.seen)'
          /\ g.row.id \in 1..rowIds' /\ \A e \in entries' : e.id # g.row.id
    <3>1. g.step = "folded" =>
            /\ g.seen \subseteq entries /\ Reaches(g.base, g.seen)
            /\ g.row.id \in 1..rowIds /\ \A e \in entries : e.id # g.row.id
      BY <2>2 DEF ChangeOK
    <3>2. Reaches(g.base, g.seen)' <=> Reaches(g.base, g.seen)
      BY DEF Reaches, Words
    <3> QED
      BY <1>2, <2>2, <3>1, <3>2
  <2>10. ChangeOK(g)'
    BY <2>2, <2>6, <2>8, <2>9 DEF ChangeOK
  <2>11. g = change'[d]
    BY <1>5, <2>1
  <2> QED
    BY <2>10, <2>11 DEF ChangeOK, Reaches, Words
<1>8. \A d \in Changes : ChangeOK(change[d])'
  <2>1. ChangeOK(change[c])'
    BY <1>4, <1>5 DEF ChangeOK
  <2> QED
    BY <1>7, <2>1
<1>9. \A d, e \in Changes : d # e /\ change'[d].step = "folded" /\ change'[e].step = "folded" =>
        change'[d].row.id # change'[e].row.id
  BY <1>4, <1>5 DEF StatusInv
<1>10. \A e \in entries' : e.id <= rowIds'
  BY <1>2, <1>6 DEF StatusInv
<1> QED
  <2>1. commits' \in Nat /\ rowIds' \in Nat
    BY <1>2, <1>6
  <2> QED
    BY <1>5, <1>8, <1>9, <1>10, <2>1, CommitsSettle DEF StatusInv

\* so that every step does.
LEMMA StatusStep == StatusInv /\ [StatusNext]_statusVars => StatusInv'
<1> SUFFICES ASSUME StatusInv, [StatusNext]_statusVars
             PROVE  StatusInv'
  OBVIOUS
<1>1. CASE StatusNext
  BY <1>1, ReadingsStand, InsertsStand, AbortsStand, CommitsStand DEF StatusNext
<1>2. CASE UNCHANGED statusVars
  <2>1. UNCHANGED <<status, entries, change, rowIds, commits, whole>>
    BY <1>2 DEF statusVars
  <2> QED
    <3>1. IsHistory(entries)' /\ Reaches(status, entries)'
      BY <2>1 DEF StatusInv, IsHistory, Reaches, Words
    <3>2. StatusIsOutcome'
      <4>1. entries' = entries /\ status' = status /\ whole' = whole
        BY <2>1
      <4>2. Outcome(entries)' = Outcome(entries)
        BY <4>1 DEF Outcome, LastOf, Before
      <4> QED
        BY <4>1, <4>2 DEF StatusInv, StatusIsOutcome
    <3>3. \A d \in Changes : ChangeOK(change[d])'
      BY <2>1 DEF StatusInv, ChangeOK, Reaches, Words
    <3> QED
      BY <2>1, <3>1, <3>2, <3>3 DEF StatusInv
<1> QED
  BY <1>1, <1>2

\* Whatever was lost or came late before it, a change that overlaps no other leaves the application
\* with the status that its whole history means, however long the history.
THEOREM StatusMeansHistory == StatusSpec => []StatusIsOutcome
<1>1. StatusInv => StatusIsOutcome
  BY DEF StatusInv
<1> QED
  BY <1>1, StatusStarts, StatusStep, PTL DEF StatusSpec

-----------------------------------------------------------------------------
(* What is told about an application.                                      *)

Shown == {mapTimelineEventToStatuses(k) : k \in emails \cup {e.kind : e \in timeline}}

\* Every status the application has had but SAVED has left an event that says so.
NothingLost ==
  /\ reached \subseteq Statuses /\ status \in reached
  /\ reached \ {"SAVED"} \subseteq Shown

\* A funnel that nobody has overtaken has counted the application as it is.
FunnelOK ==
  /\ funnel.step \in {"idle", "interviews", "shown"}
  /\ DOMAIN funnel = {"step", "interviews", "offers", "began"}
  /\ funnel.step = "interviews" =>
       /\ funnel.began \in Nat /\ funnel.began <= commits
       /\ funnel.began = commits => funnel.interviews = Count(isInterviewStatus(status))
  /\ FunnelsNest

\* The rows a client has yet to see are on the pages it has yet to ask for.
WalkOK ==
  /\ walk.open \in BOOLEAN /\ DOMAIN walk = {"open", "page", "owed"}
  /\ walk.open =>
       /\ walk.page \in Nat \ {0} /\ walk.owed \subseteq entries
       /\ \A e \in walk.owed : skip(walk.page) <= Place(e)
  /\ PagesMissNothing

ReportsInv == StatusInv /\ NothingLost /\ FunnelOK /\ WalkOK

\* The timeline event of a status is read as that status again.
LEMMA EventsSayTheStatus ==
  \A s \in Statuses \ {"SAVED"} :
    /\ mapStatusToEventType[s] # "none"
    /\ mapTimelineEventToStatuses(mapStatusToEventType[s]) = s
BY DEF Statuses, mapStatusToEventType, mapTimelineEventToStatuses

\* The first event of an application says the status it began with.
LEMMA FirstSaysTheStart ==
  Start # "SAVED" => \E k \in FirstEvent : mapTimelineEventToStatuses(k) = Start
<1> SUFFICES ASSUME Start # "SAVED"
             PROVE  \E k \in FirstEvent : mapTimelineEventToStatuses(k) = Start
  OBVIOUS
<1>1. PICK c \in DOMAIN mapStatus : mapStatus[c] = Start /\ FirstEvent \in EmailEvents(c)
  BY FirstIsOfStart
<1>2. PICK kind \in resolveEmailEventType[c] : FirstEvent = {kind} \ {"none"}
  BY <1>1 DEF EmailEvents
<1>3. c \in {"JOB_APPLICATION", "ASSESSMENT_TEST", "INTERVIEW_INVITATION", "OFFER", "REJECTION"}
  BY <1>1 DEF mapStatus, resolveStatusFromEmail
<1>4. kind # "none" /\ mapTimelineEventToStatuses(kind) = Start
  BY <1>1, <1>2, <1>3 DEF mapStatus, resolveStatusFromEmail, resolveEmailEventType,
                          mapTimelineEventToStatuses
<1> QED
  BY <1>2, <1>4

\* Every status that was reached is on the timeline: then nothing is forgotten.
LEMMA NothingLostMeans == NothingLost => NothingForgotten
<1> SUFFICES ASSUME NothingLost
             PROVE  NothingForgotten
  OBVIOUS
<1>1. reached \ {"SAVED"} \subseteq allStatuses /\ reached \subseteq Statuses
  BY DEF NothingLost, allStatuses, Shown
<1> QED
  BY <1>1 DEF NothingForgotten, gotResponse, gotInterview, gotOffer, responseStatuses,
              interviewStatuses, Statuses

\* The place of a row is its rank, so that the rows of a history fill the places from the first on.
LEMMA PlacesAreFilled ==
  ASSUME IsHistory(entries)
  PROVE  /\ \A e \in entries : Place(e) \in Nat
         /\ \A e \in entries : \A k \in 0..Place(e) : \E d \in entries : Place(d) = k
<1>1. PICK H : H = entries
  OBVIOUS
<1>2. IsHistory(H) /\ IsFiniteSet(H) /\ Orders(Pairs(H), H)
  BY <1>1, HistoriesAreOrdered DEF IsHistory
<1>3. \A e \in H : Place(e) = Rank(H, Pairs(H), e)
  <2>1. ASSUME NEW e \in H
        PROVE  Place(e) = Rank(H, Pairs(H), e)
    <3>1. {d \in entries : Before(d, e)} = {y \in H : <<y, e>> \in Pairs(H)}
      BY <1>1 DEF Pairs
    <3> QED
      BY <3>1 DEF Place, Rank
  <2> QED
    BY <2>1
<1>4. Cardinality(H) \in Nat
  BY <1>2, FS_CardinalityType
<1>5. \A e \in H : Place(e) \in 0..(Cardinality(H) - 1)
  BY <1>2, <1>3, RanksAscend
<1>6. \A k \in 0..(Cardinality(H) - 1) : \E d \in H : Place(d) = k
  BY <1>2, <1>3, RanksAreContiguous
<1> QED
  BY <1>1, <1>4, <1>5, <1>6

\* The place of a row only grows while rows are added.
LEMMA PlacesGrow ==
  ASSUME IsHistory(entries), IsHistory(entries'), entries \subseteq entries', NEW e \in entries
  PROVE  Place(e) \in Nat /\ Place(e)' \in Nat /\ Place(e) <= Place(e)'
<1>1. PICK S : S = {d \in entries : Before(d, e)}
  OBVIOUS
<1>2. PICK T : T = {d \in entries' : Before(d, e)}
  OBVIOUS
<1>3. S \subseteq T /\ IsFiniteSet(T)
  BY <1>1, <1>2, FS_Subset DEF IsHistory
<1>4. Cardinality(S) \in Nat /\ Cardinality(T) \in Nat /\ Cardinality(S) <= Cardinality(T)
  BY <1>3, FS_Subset, FS_CardinalityType
<1>5. Place(e) = Cardinality(S) /\ Place(e)' = Cardinality(T)
  BY <1>1, <1>2 DEF Place, Before
<1> QED
  BY <1>4, <1>5

\* The pages follow each other without a gap.
LEMMA SkipsAdd ==
  /\ skip(1) = 0
  /\ \A n \in Nat \ {0} : skip(n) \in Nat /\ skip(n + 1) = skip(n) + PageSize
<1>1. PageSize \in Nat
  BY PagesAreNotEmpty
<1>2. \A n \in Nat \ {0} : (n - 1) * PageSize \in Nat
  BY <1>1
<1>3. \A n \in Nat \ {0} : n * PageSize = (n - 1) * PageSize + PageSize
  BY <1>1
<1> QED
  BY <1>1, <1>2, <1>3 DEF skip

\* The invariant holds at the start.
LEMMA ReportsStart == ReportsInit => ReportsInv
<1> SUFFICES ASSUME ReportsInit
             PROVE  ReportsInv
  OBVIOUS
<1>1. StatusInv
  BY StatusStarts DEF ReportsInit
<1>2. NothingLost
  <2>1. reached = {Start} /\ status = Start /\ Start \in Statuses /\ emails = FirstEvent
    BY StatusConstants DEF ReportsInit, StatusInit
  <2>2. Start # "SAVED" => Start \in Shown
    BY <2>1, FirstSaysTheStart DEF Shown
  <2> QED
    BY <2>1, <2>2 DEF NothingLost
<1>3. FunnelOK
  BY DEF ReportsInit, NoFunnel, FunnelOK, FunnelsNest
<1>4. WalkOK
  BY DEF ReportsInit, NoWalk, WalkOK, PagesMissNothing
<1> QED
  BY <1>1, <1>2, <1>3, <1>4 DEF ReportsInv

\* What a commit leaves on the timeline says the status it leaves on the application.
LEMMA CommitsAreShown ==
  ASSUME ReportsInv, NEW c \in Changes, CommitReported(c)
  PROVE  NothingLost'
<1>1. PICK n \in Statuses : n = Settle(c)
  BY CommitsSettle DEF ReportsInv, CommitReported
<1>2. PICK at : at = change[c].row.at
  OBVIOUS
<1>3. PICK moved \in BOOLEAN : moved = (n # change[c].base \/ change[c].row.source = "MANUAL")
  OBVIOUS
<1>4. /\ status' = (IF moved THEN n ELSE status)
      /\ timeline' = IF moved /\ mapStatusToEventType[n] # "none"
                     THEN timeline \cup {[kind |-> mapStatusToEventType[n], at |-> at]}
                     ELSE timeline
  BY <1>1, <1>2, <1>3 DEF CommitReported, Commit
<1>5. emails \subseteq emails' /\ reached' = reached \cup {status'}
  BY DEF CommitReported
<1>6. reached \subseteq Statuses /\ status \in reached /\ reached \ {"SAVED"} \subseteq Shown
  BY DEF ReportsInv, NothingLost
<1>7. Shown \subseteq Shown'
  BY <1>4, <1>5 DEF Shown
<1>8. moved /\ n # "SAVED" => n \in Shown'
  <2> SUFFICES ASSUME moved, n # "SAVED"
               PROVE  n \in Shown'
    OBVIOUS
  <2>1. mapStatusToEventType[n] # "none"
        /\ mapTimelineEventToStatuses(mapStatusToEventType[n]) = n
    BY EventsSayTheStatus
  <2>2. [kind |-> mapStatusToEventType[n], at |-> at] \in timeline'
    BY <1>4, <2>1
  <2>3. mapStatusToEventType[n] \in {e.kind : e \in timeline'}
    BY <2>2
  <2> QED
    BY <2>1, <2>3 DEF Shown
<1> QED
  BY <1>1, <1>3, <1>4, <1>5, <1>6, <1>7, <1>8 DEF NothingLost

\* A committed change keeps the reports.
LEMMA ReportsOfCommits ==
  ASSUME ReportsInv, NEW c \in Changes, CommitReported(c)
  PROVE  ReportsInv'
<1>1. Commit(c) /\ UNCHANGED <<funnel, walk>>
  BY DEF CommitReported
<1>2. StatusInv /\ StatusInv'
  BY <1>1, CommitsStand DEF ReportsInv
<1>3. FunnelOK'
  <2>1. commits' = commits + 1 /\ commits \in Nat
    BY <1>1, <1>2 DEF Commit, StatusInv
  <2>2. funnel' = funnel
    BY <1>1
  <2> QED
    BY <2>1, <2>2 DEF ReportsInv, FunnelOK, FunnelsNest
<1>4. WalkOK'
  <2>1. PICK w : w = walk /\ w = walk'
    BY <1>1
  <2>2. entries \subseteq entries' /\ IsHistory(entries) /\ IsHistory(entries')
    BY <1>1, <1>2 DEF Commit, StatusInv
  <2>3. ASSUME w.open, NEW e \in w.owed
        PROVE  skip(w.page) <= Place(e)'
    <3>1. e \in entries /\ w.page \in Nat \ {0} /\ skip(w.page) <= Place(e)
      BY <2>1, <2>3 DEF ReportsInv, WalkOK
    <3>2. skip(w.page) \in Nat
      BY <3>1, SkipsAdd
    <3> QED
      BY <2>2, <3>1, <3>2, PlacesGrow
  <2>4. \A e \in w.owed : w.open => skip(w.page) <= Place(e)'
    BY <2>3
  <2>5. /\ w.open \in BOOLEAN /\ DOMAIN w = {"open", "page", "owed"} /\ (~w.open => w.owed = {})
        /\ w.open => w.page \in Nat \ {0} /\ w.owed \subseteq entries'
    BY <2>1, <2>2 DEF ReportsInv, WalkOK, PagesMissNothing
  <2>6. skip(walk.page)' = skip(w.page)
    BY <2>1 DEF skip
  <2> QED
    BY <2>1, <2>4, <2>5, <2>6 DEF WalkOK, PagesMissNothing
<1> QED
  BY <1>2, <1>3, <1>4, CommitsAreShown DEF ReportsInv

\* The analytics keep what they know while nothing they read changes,
LEMMA StatusesAreShown ==
  ASSUME NothingLost, UNCHANGED <<status, timeline, emails, reached>>
  PROVE  NothingLost'
BY DEF NothingLost, Shown

\* and so do a funnel,
LEMMA FunnelsAreKept ==
  ASSUME FunnelOK, UNCHANGED <<status, commits, funnel>>
  PROVE  FunnelOK'
BY DEF FunnelOK, FunnelsNest

\* a walk over the pages,
LEMMA WalksAreKept ==
  ASSUME WalkOK, UNCHANGED <<entries, walk>>
  PROVE  WalkOK'
BY DEF WalkOK, PagesMissNothing, Place, Before, skip

\* and the status.
LEMMA StatusIsKept ==
  ASSUME StatusInv, UNCHANGED statusVars
  PROVE  StatusInv'
BY StatusStep

\* The other steps of a change keep the reports,
LEMMA ReportsOfChanges ==
  ASSUME ReportsInv, NEW c \in Changes, ChangeUncommitted(c)
  PROVE  ReportsInv'
<1>1. /\ ReadApplication(c) \/ InsertRow(c) \/ Abort(c) \/ Retry(c)
      /\ UNCHANGED <<emails, reached, funnel, walk>>
  BY DEF ChangeUncommitted
<1>2. UNCHANGED <<status, entries, timeline, commits>>
  BY <1>1 DEF ReadApplication, InsertRow, Abort, Retry
<1>3. StatusInv'
  BY <1>1, ReadingsStand, InsertsStand, AbortsStand DEF ReportsInv
<1> QED
  BY <1>1, <1>2, <1>3, StatusesAreShown, FunnelsAreKept, WalksAreKept DEF ReportsInv

\* and those of a funnel,
LEMMA CountsStand ==
  ASSUME ReportsInv, CountInterviews \/ CountOffers \/ ForgetFunnel
  PROVE  ReportsInv'
<1>1. UNCHANGED <<statusVars, emails, reached, walk>>
  BY DEF CountInterviews, CountOffers, ForgetFunnel
<1>2. UNCHANGED <<status, entries, timeline, commits>>
  BY <1>1 DEF statusVars
<1>3. commits \in Nat
  BY DEF ReportsInv, StatusInv
<1>5. FunnelOK'
  <2>1. CASE CountInterviews
    BY <1>2, <1>3, <2>1 DEF CountInterviews, FunnelOK, FunnelsNest, isInterviewStatus
  <2>2. CASE CountOffers
    <3>1. PICK f : f = funnel
      OBVIOUS
    <3>2. /\ f.step = "interviews" /\ DOMAIN f = {"step", "interviews", "offers", "began"}
          /\ f.began \in Nat
          /\ f.began = commits => f.interviews = Count(isInterviewStatus(status))
      BY <2>2, <3>1 DEF ReportsInv, FunnelOK, CountOffers
    <3>3. /\ DOMAIN funnel' = DOMAIN f /\ funnel'.step = "shown"
          /\ funnel'.interviews = f.interviews /\ funnel'.offers = Count(isOfferStatus(status))
          /\ funnel'.began = Count(f.began # commits)
      BY <2>2, <3>1, <3>2 DEF CountOffers
    <3>4. f.began = commits => funnel'.offers <= funnel'.interviews
      BY <3>2, <3>3 DEF Count, isOfferStatus, isInterviewStatus, interviewStatuses
    <3>5. funnel'.began = 0 => f.began = commits
      BY <3>3 DEF Count
    <3> QED
      BY <3>2, <3>3, <3>4, <3>5 DEF FunnelOK, FunnelsNest
  <2>3. CASE ForgetFunnel
    BY <2>3 DEF ForgetFunnel, NoFunnel, FunnelOK, FunnelsNest
  <2> QED
    BY <2>1, <2>2, <2>3
<1> QED
  BY <1>1, <1>2, <1>5, StatusIsKept, StatusesAreShown, WalksAreKept DEF ReportsInv

\* and those of a walk,
LEMMA WalksStand ==
  ASSUME ReportsInv, StartWalk \/ ReadPage \/ EndWalk
  PROVE  ReportsInv'
<1>1. UNCHANGED <<statusVars, emails, reached, funnel>>
  BY DEF StartWalk, ReadPage, EndWalk
<1>2. UNCHANGED <<status, entries, timeline, commits>>
  BY <1>1 DEF statusVars
<1>3. IsHistory(entries) /\ PageSize \in Nat \ {0}
  BY PagesAreNotEmpty DEF ReportsInv, StatusInv
<1>4. \A e : Place(e)' = Place(e)
  BY <1>2 DEF Place, Before
<1>5. WalkOK'
  <2>1. PICK w : w = walk
    OBVIOUS
  <2>2. /\ w.open \in BOOLEAN /\ DOMAIN w = {"open", "page", "owed"}
        /\ w.open => /\ w.page \in Nat \ {0} /\ w.owed \subseteq entries
                     /\ \A e \in w.owed : skip(w.page) <= Place(e)
    BY <2>1 DEF ReportsInv, WalkOK
  <2>3. CASE StartWalk
    <3>1. walk' = [open |-> TRUE, page |-> 1, owed |-> entries]
      BY <2>3 DEF StartWalk
    <3>2. skip(walk.page)' = 0
      BY <3>1, SkipsAdd DEF skip
    <3>3. \A e \in entries : 0 <= Place(e)'
      BY <1>3, <1>4, PlacesAreFilled
    <3> QED
      BY <1>2, <3>1, <3>2, <3>3 DEF WalkOK, PagesMissNothing
  <2>4. CASE ReadPage
    <3>1. /\ w.open /\ DOMAIN walk' = DOMAIN w /\ walk'.open = TRUE /\ walk'.page = w.page + 1
          /\ walk'.owed = w.owed \ getStatusHistory(w.page)
      BY <2>1, <2>2, <2>4 DEF ReadPage
    <3>2. /\ skip(w.page) \in Nat /\ skip(w.page + 1) = skip(w.page) + PageSize
          /\ skip(walk.page)' = skip(w.page + 1)
      BY <2>2, <3>1, SkipsAdd DEF skip
    <3>3. ASSUME NEW e \in walk'.owed
          PROVE  e \in entries /\ skip(walk.page)' <= Place(e)'
      <4>1. e \in entries /\ skip(w.page) <= Place(e) /\ e \notin getStatusHistory(w.page)
        BY <2>2, <3>1
      <4>2. Place(e) \in Nat
        BY <1>3, <4>1, PlacesAreFilled
      <4>3. ~(Place(e) < skip(w.page) + PageSize)
        BY <4>1 DEF getStatusHistory
      <4> QED
        BY <1>3, <1>4, <3>2, <4>1, <4>2, <4>3
    <3>4. walk'.page \in Nat \ {0} /\ walk'.owed \subseteq entries'
      BY <1>2, <2>2, <3>1, <3>3
    <3>5. \A e \in walk'.owed : skip(walk.page)' <= Place(e)'
      BY <3>3
    <3> QED
      BY <2>2, <3>1, <3>4, <3>5 DEF WalkOK, PagesMissNothing
  <2>5. CASE EndWalk
    <3>1. w.open /\ getStatusHistory(w.page) = {} /\ walk' = [NoWalk EXCEPT !.owed = w.owed]
      BY <2>1, <2>5 DEF EndWalk
    <3>2. ASSUME NEW e \in w.owed
          PROVE  FALSE
      <4>1. e \in entries /\ skip(w.page) <= Place(e) /\ Place(e) \in Nat
        BY <1>3, <2>2, <3>1, PlacesAreFilled
      <4>2. skip(w.page) \in Nat
        BY <2>2, <3>1, SkipsAdd
      <4>3. PICK d \in entries : Place(d) = skip(w.page)
        BY <1>3, <4>1, <4>2, PlacesAreFilled
      <4>4. d \in getStatusHistory(w.page)
        BY <1>3, <4>2, <4>3 DEF getStatusHistory
      <4> QED
        BY <3>1, <4>4
    <3>3. w.owed = {}
      BY <3>2
    <3> QED
      BY <3>1, <3>3 DEF NoWalk, WalkOK, PagesMissNothing
  <2> QED
    BY <2>3, <2>4, <2>5
<1> QED
  BY <1>1, <1>2, <1>5, StatusIsKept, StatusesAreShown, FunnelsAreKept DEF ReportsInv

\* so that every step does.
LEMMA ReportsStep == ReportsInv /\ [ReportsNext]_reportVars => ReportsInv'
<1> SUFFICES ASSUME ReportsInv, [ReportsNext]_reportVars
             PROVE  ReportsInv'
  OBVIOUS
<1>1. CASE UNCHANGED reportVars
  <2>1. UNCHANGED <<statusVars, emails, reached, funnel, walk>>
    BY <1>1 DEF reportVars
  <2>2. UNCHANGED <<status, entries, timeline, commits>>
    BY <2>1 DEF statusVars
  <2> QED
    BY <2>1, <2>2, StatusIsKept, StatusesAreShown, FunnelsAreKept, WalksAreKept DEF ReportsInv
<1>2. CASE ReportsNext
  BY <1>2, ReportsOfCommits, ReportsOfChanges, CountsStand, WalksStand DEF ReportsNext
<1> QED
  BY <1>1, <1>2

\* However many changes overlap and whatever order they commit in, the analytics count what the
\* application once was, a funnel that nobody overtakes nests, and no client that reads the
\* history to its end misses a row, whatever rows are put in before those it has seen.
THEOREM ReportsMissNothing == ReportsSpec => []ReportsHold
<1>1. ReportsInv => ReportsHold
  BY NothingLostMeans DEF ReportsInv, FunnelOK, WalkOK, ReportsHold
<1> QED
  BY <1>1, ReportsStart, ReportsStep, PTL DEF ReportsSpec

-----------------------------------------------------------------------------
(* The limits of the routes.                                               *)

Ages == 0 .. Longest - 1
Table == [Presets -> [Ages -> Nat]]

\* How many requests a counter let through at some ages.
Let(x, P, A) == Cardinality(LetThrough(x, P, A))

\* The windows and points of the presets lie between the least and the greatest.
LEMMA BoundsOfPresets ==
  /\ Longest \in Nat /\ Shortest \in Nat \ {0} /\ Most \in Nat \ {0}
  /\ \A p \in Presets : /\ windows[p] \in Nat \ {0} /\ points[p] \in Nat \ {0}
                        /\ windows[p] \in Shortest .. Longest /\ points[p] <= Most
<1> DEFINE W == {windows[p] : p \in Presets}
           N == {points[p] : p \in Presets}
<1>1. \A p \in Presets : windows[p] \in Nat \ {0} /\ points[p] \in Nat \ {0}
  BY LimitsAssumption
<1>2. IsFiniteSet(W) /\ IsFiniteSet(N)
  <2> DEFINE f == [p \in Presets |-> windows[p]]
             g == [p \in Presets |-> points[p]]
  <2>1. f \in Surjection(Presets, W) /\ g \in Surjection(Presets, N)
    BY DEF Surjection
  <2> HIDE DEF f, g, W, N
  <2> QED
    BY <2>1, LimitsAssumption, FS_Surjection
<1>3. W \subseteq Nat \ {0} /\ N \subseteq Nat \ {0} /\ W # {} /\ N # {}
  BY <1>1, LimitsAssumption
<1> HIDE DEF W, N
<1>4. Longest = Max(W) /\ Shortest = Min(W) /\ Most = Max(N)
  BY DEF Longest, Shortest, Most, W, N
<1>5. Longest \in W /\ \A y \in W : Longest >= y
  BY <1>2, <1>3, <1>4, FiniteMax
<1>6. Most \in N /\ \A y \in N : Most >= y
  BY <1>2, <1>3, <1>4, FiniteMax
<1>7. Shortest \in W /\ \A y \in W : Shortest <= y
  BY <1>2, <1>3, <1>4, MinIsLeast
<1>8. \A p \in Presets : windows[p] \in W /\ points[p] \in N
  BY DEF W, N
<1>9. Longest \in Nat /\ Shortest \in Nat \ {0} /\ Most \in Nat \ {0}
  BY <1>3, <1>5, <1>6, <1>7
<1>10. ASSUME NEW p \in Presets
       PROVE  windows[p] \in Shortest .. Longest /\ points[p] <= Most
  <2>1. windows[p] \in W /\ points[p] \in N /\ windows[p] \in Nat /\ points[p] \in Nat
    BY <1>1, <1>8
  <2>2. Shortest <= windows[p] /\ windows[p] <= Longest /\ points[p] <= Most
    BY <2>1, <1>5, <1>6, <1>7
  <2> QED
    BY <1>9, <2>1, <2>2
<1> QED
  BY <1>1, <1>9, <1>10

\* What was let through, request by request.
LEMMA LetMeans ==
  ASSUME NEW x, NEW P, NEW A, NEW r
  PROVE  r \in LetThrough(x, P, A) <=>
           \E p \in P : \E a \in A : \E i \in 1 .. x[p][a] : r = <<<<p, a>>, i>>
<1>1. r \in LetThrough(x, P, A) <=>
        \E p \in P : \E a \in A : r \in {<<p, a>>} \X (1 .. x[p][a])
  <2> DEFINE Part(p, a) == {<<p, a>>} \X (1 .. x[p][a])
  <2>1. LetThrough(x, P, A) = UNION {Part(p, a) : p \in P, a \in A}
    BY DEF LetThrough
  <2> HIDE DEF Part
  <2>2. r \in UNION {Part(p, a) : p \in P, a \in A} <=>
          \E p \in P : \E a \in A : r \in Part(p, a)
    OBVIOUS
  <2> QED
    BY <2>1, <2>2 DEF Part
<1>2. \A p \in P : \A a \in A : r \in {<<p, a>>} \X (1 .. x[p][a]) <=>
                             \E i \in 1 .. x[p][a] : r = <<<<p, a>>, i>>
  OBVIOUS
<1> QED
  BY <1>1, <1>2

\* It can be counted,
LEMMA LetIsFinite ==
  ASSUME NEW x \in Table, NEW P \in SUBSET Presets, NEW A \in SUBSET Ages
  PROVE  IsFiniteSet(LetThrough(x, P, A)) /\ Let(x, P, A) \in Nat
<1> DEFINE Part(r) == {r} \X (1 .. x[r[1]][r[2]])
           part == [r \in P \X A |-> Part(r)]
           parts == {part[r] : r \in P \X A}
<1>1. IsFiniteSet(P \X A)
  <2>1. IsFiniteSet(P)
    BY LimitsAssumption, FS_Subset
  <2>2. IsFiniteSet(A)
    <3>1. IsFiniteSet(Ages)
      BY BoundsOfPresets, FS_Interval DEF Ages
    <3> QED
      BY <3>1, FS_Subset
  <2> QED
    BY <2>1, <2>2, FS_Product
<1>2. part \in Surjection(P \X A, parts)
  <2> HIDE DEF Part
  <2> QED
    BY DEF Surjection
<1>3. \A r \in P \X A : IsFiniteSet(Part(r))
  <2>1. ASSUME NEW r \in P \X A
        PROVE  IsFiniteSet(Part(r))
    <3>1. PICK n \in Nat : n = x[r[1]][r[2]]
      BY DEF Table
    <3>2. IsFiniteSet(1 .. n)
      BY FS_Interval
    <3>3. IsFiniteSet({r})
      BY FS_Singleton
    <3> QED
      BY <3>1, <3>2, <3>3, FS_Product
  <2> QED
    BY <2>1
<1>4. IsFiniteSet(parts) /\ \A c \in parts : IsFiniteSet(c)
  <2>1. \A c \in parts : IsFiniteSet(c)
    <3> HIDE DEF Part
    <3> QED
      BY <1>3
  <2> HIDE DEF part, parts
  <2> QED
    BY <1>1, <1>2, <2>1, FS_Surjection
<1>5. LetThrough(x, P, A) \subseteq UNION parts
  <2>1. ASSUME NEW u \in LetThrough(x, P, A)
        PROVE  \E r \in P \X A : u \in part[r]
    <3>1. PICK p \in P, a \in A : \E i \in 1 .. x[p][a] : u = <<<<p, a>>, i>>
      BY LetMeans
    <3>2. PICK i \in 1 .. x[p][a] : u = <<<<p, a>>, i>>
      BY <3>1
    <3>3. PICK r \in P \X A : r = <<p, a>>
      OBVIOUS
    <3>4. r[1] = p /\ r[2] = a /\ u = <<r, i>>
      BY <3>2, <3>3
    <3>5. u \in Part(r)
      BY <3>4
    <3> HIDE DEF Part
    <3> QED
      BY <3>5
  <2> HIDE DEF part
  <2> QED
    BY <2>1
<1> HIDE DEF parts
<1>6. IsFiniteSet(LetThrough(x, P, A))
  BY <1>4, <1>5, FS_UNION, FS_Subset
<1> QED
  BY <1>6, FS_CardinalityType DEF Let

\* longer times let more through, and two times no more than each by itself,
LEMMA LetIsMonotone ==
  ASSUME NEW x \in Table, NEW P \in SUBSET Presets, NEW A \in SUBSET Ages, NEW B \in SUBSET Ages
  PROVE  /\ A \subseteq B => Let(x, P, A) <= Let(x, P, B)
         /\ Let(x, P, A \cup B) <= Let(x, P, A) + Let(x, P, B)
<1>1. LetThrough(x, P, A \cup B) = LetThrough(x, P, A) \cup LetThrough(x, P, B)
  BY DEF LetThrough
<1>2. A \subseteq B => A \cup B = B
  OBVIOUS
<1>3. IsFiniteSet(LetThrough(x, P, A)) /\ IsFiniteSet(LetThrough(x, P, B))
      /\ Let(x, P, A) \in Nat /\ Let(x, P, B) \in Nat
  BY LetIsFinite
<1>4. PICK S, T : S = LetThrough(x, P, A) /\ T = LetThrough(x, P, B)
  OBVIOUS
<1>5. /\ IsFiniteSet(S) /\ IsFiniteSet(T)
      /\ Cardinality(S \cup T) = Cardinality(S) + Cardinality(T) - Cardinality(S \cap T)
      /\ Cardinality(S \cap T) \in Nat
  BY <1>3, <1>4, FS_Union, FS_Intersection, FS_CardinalityType
<1>6. A \subseteq B => S \subseteq T
  BY <1>4 DEF LetThrough
<1>7. A \subseteq B => Cardinality(S) <= Cardinality(T)
  BY <1>5, <1>6, FS_Subset
<1>8. Let(x, P, A) = Cardinality(S) /\ Let(x, P, B) = Cardinality(T)
      /\ Let(x, P, A \cup B) = Cardinality(S \cup T)
  BY <1>1, <1>4 DEF Let
<1> QED
  BY <1>3, <1>5, <1>7, <1>8

\* and no time lets nothing through.
LEMMA NoAgesLetNone ==
  ASSUME NEW x, NEW P
  PROVE  Let(x, P, {}) = 0
<1>1. LetThrough(x, P, {}) = {}
  BY DEF LetThrough
<1> QED
  BY <1>1, FS_EmptySet DEF Let

\* A request that is let through now.
LEMMA LetOneMore ==
  ASSUME NEW x \in Table, NEW P \in SUBSET Presets, NEW A \in SUBSET Ages, NEW p \in Presets,
         0 \in Ages, NEW y \in Table, y[p][0] = x[p][0] + 1,
         \A q \in Presets, a \in Ages : <<q, a>> # <<p, 0>> => y[q][a] = x[q][a]
  PROVE  Let(y, P, A) = IF p \in P /\ 0 \in A THEN Let(x, P, A) + 1 ELSE Let(x, P, A)
<1>1. PICK n \in Nat : n = x[p][0]
  BY DEF Table
<1>2. y[p][0] = n + 1 /\ \A q \in Presets, a \in Ages : <<q, a>> # <<p, 0>> => y[q][a] = x[q][a]
  BY <1>1
<1>3. CASE p \in P /\ 0 \in A
  <2>1. LetThrough(y, P, A) = LetThrough(x, P, A) \cup {<<<<p, 0>>, n + 1>>}
    <3>1. \A q \in P, a \in A : x[q][a] \in Nat
      BY DEF Table
    <3>2. ASSUME NEW r \in LetThrough(y, P, A)
          PROVE  r \in LetThrough(x, P, A) \/ r = <<<<p, 0>>, n + 1>>
      <4>1. PICK q \in P, a \in A : \E i \in 1 .. y[q][a] : r = <<<<q, a>>, i>>
        BY <3>2, LetMeans
      <4>2. PICK i \in 1 .. y[q][a] : r = <<<<q, a>>, i>>
        BY <4>1
      <4>3. CASE <<q, a>> = <<p, 0>>
        <5>1. i \in 1 .. x[q][a] \/ i = n + 1
          BY <1>1, <1>2, <4>3
        <5> QED
          BY <4>2, <4>3, <5>1, LetMeans
      <4>4. CASE <<q, a>> # <<p, 0>>
        <5>1. i \in 1 .. x[q][a]
          BY <1>2, <4>4
        <5> QED
          BY <4>2, <5>1, LetMeans
      <4> QED
        BY <4>3, <4>4
    <3>3. ASSUME NEW r \in LetThrough(x, P, A)
          PROVE  r \in LetThrough(y, P, A)
      <4>1. PICK q \in P, a \in A : \E i \in 1 .. x[q][a] : r = <<<<q, a>>, i>>
        BY LetMeans
      <4>2. PICK i \in 1 .. x[q][a] : r = <<<<q, a>>, i>>
        BY <4>1
      <4>3. y[q][a] = x[q][a] \/ (y[q][a] = n + 1 /\ x[q][a] = n)
        BY <1>1, <1>2
      <4>4. i \in 1 .. y[q][a]
        BY <4>3
      <4> QED
        BY <4>2, <4>4, LetMeans
    <3>4. <<<<p, 0>>, n + 1>> \in LetThrough(y, P, A)
      <4>1. n + 1 \in 1 .. y[p][0]
        BY <1>2
      <4> QED
        BY <1>3, <4>1, LetMeans
    <3> QED
      BY <3>2, <3>3, <3>4
  <2>2. <<<<p, 0>>, n + 1>> \notin LetThrough(x, P, A)
    <3>1. SUFFICES ASSUME <<<<p, 0>>, n + 1>> \in LetThrough(x, P, A)
                   PROVE  FALSE
      OBVIOUS
    <3>2. PICK q \in P, a \in A : \E i \in 1 .. x[q][a] : <<<<p, 0>>, n + 1>> = <<<<q, a>>, i>>
      BY <3>1, LetMeans
    <3>3. q = p /\ a = 0 /\ n + 1 \in 1 .. x[q][a]
      BY <3>2
    <3> QED
      BY <1>1, <3>3
  <2>3. IsFiniteSet(LetThrough(x, P, A))
    BY LetIsFinite
  <2>4. PICK S : S = LetThrough(x, P, A)
    OBVIOUS
  <2>5. PICK new : new = <<<<p, 0>>, n + 1>>
    OBVIOUS
  <2>6. Cardinality(S \cup {new}) = Cardinality(S) + 1
    BY <2>2, <2>3, <2>4, <2>5, FS_AddElement
  <2>7. Let(y, P, A) = Cardinality(S \cup {new}) /\ Let(x, P, A) = Cardinality(S)
    BY <2>1, <2>4, <2>5 DEF Let
  <2> QED
    BY <1>3, <2>6, <2>7
<1>4. CASE ~(p \in P /\ 0 \in A)
  <2>1. \A q \in P, a \in A : y[q][a] = x[q][a]
    BY <1>2, <1>4
  <2>2. LetThrough(y, P, A) = LetThrough(x, P, A)
    BY <2>1 DEF LetThrough
  <2> QED
    BY <1>4, <2>2 DEF Let
<1> QED
  BY <1>3, <1>4

\* A tick later, every request is a tick older.
LEMMA LetGrowsOlder ==
  ASSUME NEW x \in Table, NEW y \in Table, NEW P \in SUBSET Presets,
         NEW A \in SUBSET Ages, NEW B \in SUBSET Ages,
         \A p \in Presets : \A a \in Ages : y[p][a] = IF a = 0 THEN 0 ELSE x[p][a - 1],
         \A a \in A : a # 0 => a - 1 \in B
  PROVE  Let(y, P, A) <= Let(x, P, B)
<1> DEFINE younger == [r \in LetThrough(y, P, A) |-> <<<<r[1][1], r[1][2] - 1>>, r[2]>>]
<1>1. ASSUME NEW r \in LetThrough(y, P, A)
      PROVE  \E p \in P, b \in B : \E i \in 1 .. x[p][b] :
               r = <<<<p, b + 1>>, i>> /\ younger[r] = <<<<p, b>>, i>> /\ b \in Nat
  <2>1. PICK p \in P, a \in A : \E i \in 1 .. y[p][a] : r = <<<<p, a>>, i>>
    BY <1>1, LetMeans
  <2>2. PICK i \in 1 .. y[p][a] : r = <<<<p, a>>, i>>
    BY <2>1
  <2>3. a # 0 /\ a \in Nat /\ y[p][a] = x[p][a - 1]
    BY <2>2 DEF Ages
  <2>4. PICK b \in B : b = a - 1 /\ b \in Nat /\ a = b + 1
    BY <2>3
  <2>5. younger[r] = <<<<p, b>>, i>>
    BY <2>2, <2>4
  <2> QED
    BY <2>2, <2>3, <2>4, <2>5
<1>2. \A r \in LetThrough(y, P, A) : younger[r] \in LetThrough(x, P, B)
  <2>1. ASSUME NEW r \in LetThrough(y, P, A)
        PROVE  younger[r] \in LetThrough(x, P, B)
    <3>1. PICK p \in P, b \in B : \E i \in 1 .. x[p][b] : younger[r] = <<<<p, b>>, i>>
      BY <1>1
    <3> HIDE DEF younger
    <3> QED
      BY <3>1, LetMeans
  <2> QED
    BY <2>1
<1>3. ASSUME NEW r \in LetThrough(y, P, A), NEW u \in LetThrough(y, P, A), younger[r] = younger[u]
      PROVE  r = u
  <2>1. PICK p \in P, b \in B : \E i \in 1 .. x[p][b] :
               r = <<<<p, b + 1>>, i>> /\ younger[r] = <<<<p, b>>, i>> /\ b \in Nat
    BY <1>1
  <2>2. PICK q \in P, c \in B : \E i \in 1 .. x[q][c] :
               u = <<<<q, c + 1>>, i>> /\ younger[u] = <<<<q, c>>, i>> /\ c \in Nat
    BY <1>1
  <2> HIDE DEF younger
  <2> QED
    BY <1>3, <2>1, <2>2
<1>4. younger \in Injection(LetThrough(y, P, A), LetThrough(x, P, B))
  <2>1. younger \in [LetThrough(y, P, A) -> LetThrough(x, P, B)]
    BY <1>2
  <2> HIDE DEF younger
  <2> QED
    BY <1>3, <2>1 DEF Injection, IsInjective
<1> HIDE DEF younger
<1>5. IsFiniteSet(LetThrough(x, P, B))
  BY LetIsFinite
<1> QED
  BY <1>4, <1>5, FS_Injection DEF Let

\* A counter that opened k ticks ago, for at least S ticks, and what it has let through for P: no
\* more than N since, fewer if its first tick does not count, and fewer in the rest of S before.
OpenFor(c, k, x, P, N, S) ==
  /\ S <= k + c.left /\ k + c.left <= Longest
  /\ Let(x, P, {a \in Ages : a <= k}) <= c.consumed
  /\ Let(x, P, {a \in Ages : a <= k}) <= N
  /\ Let(x, P, {a \in Ages : a < k}) < c.consumed
  /\ Let(x, P, {a \in Ages : a < k}) < N
  /\ Let(x, P, {a \in Ages : k < a /\ a < S}) < N

Windowed(c, x, P, N, S) ==
  /\ c.left \in Nat /\ c.consumed \in 0 .. Most + 1
  /\ c.left = 0 => /\ c.consumed = 0
                   /\ Let(x, P, {0}) = 0 /\ Let(x, P, {a \in Ages : a < S}) < N
  /\ c.left # 0 => \E k \in Nat : OpenFor(c, k, x, P, N, S)

\* The shortest window overlaps two windows of the counter at most.
LEMMA WindowsBound ==
  ASSUME NEW x \in Table, NEW P \in SUBSET Presets, NEW N \in Nat \ {0}, NEW S \in 1 .. Longest,
         NEW c, Windowed(c, x, P, N, S)
  PROVE  Let(x, P, {a \in Ages : a < S}) < 2 * N
<1>1. CASE c.left = 0
  <2>1. Let(x, P, {a \in Ages : a < S}) \in Nat
    BY LetIsFinite
  <2> QED
    BY <1>1, <2>1 DEF Windowed
<1>2. CASE c.left # 0
  <2>1. PICK k \in Nat : OpenFor(c, k, x, P, N, S)
    BY <1>2 DEF Windowed
  <2>2. PICK A \in SUBSET Ages : A = {a \in Ages : a <= k}
    OBVIOUS
  <2>3. PICK B \in SUBSET Ages : B = {a \in Ages : k < a /\ a < S}
    OBVIOUS
  <2>4. PICK C \in SUBSET Ages : C = {a \in Ages : a < S}
    OBVIOUS
  <2>5. Let(x, P, A) <= N /\ Let(x, P, B) < N
    BY <2>1, <2>2, <2>3 DEF OpenFor
  <2>6. C \subseteq A \cup B
    BY <2>2, <2>3, <2>4 DEF Ages
  <2>7. Let(x, P, C) <= Let(x, P, A \cup B) /\ Let(x, P, A \cup B) <= Let(x, P, A) + Let(x, P, B)
    BY <2>6, LetIsMonotone
  <2>8. /\ Let(x, P, A) \in Nat /\ Let(x, P, B) \in Nat /\ Let(x, P, C) \in Nat
        /\ Let(x, P, A \cup B) \in Nat
    BY LetIsFinite
  <2> QED
    BY <2>4, <2>5, <2>7, <2>8
<1> QED
  BY <1>1, <1>2

\* Time passes over a counter and the requests it let through,
LEMMA WindowsAge ==
  ASSUME NEW x \in Table, NEW y \in Table, NEW P \in SUBSET Presets, NEW N \in Nat \ {0},
         NEW S \in 1 .. Longest, NEW c, Windowed(c, x, P, N, S), NEW d, d = Older(c),
         DOMAIN c = {"consumed", "left"},
         \A p \in Presets : \A a \in Ages : y[p][a] = IF a = 0 THEN 0 ELSE x[p][a - 1]
  PROVE  Windowed(d, y, P, N, S)
<1>1. \A A, B \in SUBSET Ages : (\A a \in A : a # 0 => a - 1 \in B) => Let(y, P, A) <= Let(x, P, B)
  BY LetGrowsOlder
<1>2. \A A \in SUBSET Ages : Let(x, P, A) \in Nat /\ Let(y, P, A) \in Nat
  BY LetIsFinite
<1>3. Let(x, P, {}) = 0 /\ {} \in SUBSET Ages
  BY NoAgesLetNone
<1>4. 0 \in Ages /\ Longest \in Nat
  BY BoundsOfPresets DEF Ages
<1>5. Let(y, P, {0}) = 0
  BY <1>1, <1>2, <1>3, <1>4
<1>6. CASE c.left <= 1
  <2>1. d = NoCounter
    BY <1>6 DEF Older
  <2>2. Let(y, P, {a \in Ages : a < S}) < N
    <3>1. CASE c.left = 0
      <4>1. PICK A \in SUBSET Ages : A = {a \in Ages : a < S}
        OBVIOUS
      <4>2. \A a \in A : a # 0 => a - 1 \in A
        BY <1>4, <4>1 DEF Ages
      <4>3. Let(x, P, A) < N
        BY <3>1, <4>1 DEF Windowed
      <4> QED
        BY <1>1, <1>2, <4>1, <4>2, <4>3
    <3>2. CASE c.left = 1
      <4>1. PICK k \in Nat : OpenFor(c, k, x, P, N, S)
        BY <3>2 DEF Windowed
      <4>2. PICK A \in SUBSET Ages : A = {a \in Ages : a < S}
        OBVIOUS
      <4>3. PICK B \in SUBSET Ages : B = {a \in Ages : a < k}
        OBVIOUS
      <4>4. Let(x, P, B) < N /\ S <= k + 1
        BY <3>2, <4>1, <4>3 DEF OpenFor
      <4>5. \A a \in A : a # 0 => a - 1 \in B
        BY <1>4, <4>2, <4>3, <4>4 DEF Ages
      <4> QED
        BY <1>1, <1>2, <4>2, <4>4, <4>5
    <3> QED
      BY <1>6, <3>1, <3>2 DEF Windowed
  <2> QED
    BY <1>5, <2>1, <2>2, BoundsOfPresets DEF Windowed, NoCounter
<1>7. CASE c.left > 1
  <2>1. PICK k \in Nat : OpenFor(c, k, x, P, N, S)
    BY <1>7 DEF Windowed
  <2>2. c.left \in Nat /\ c.consumed \in 0 .. Most + 1
    BY DEF Windowed
  <2>3. d.left = c.left - 1 /\ d.consumed = c.consumed
    BY <1>7, <2>2 DEF Older
  <2>4. Let(y, P, {a \in Ages : a <= k + 1}) <= Let(x, P, {a \in Ages : a <= k})
    <3>1. \A a \in {e \in Ages : e <= k + 1} : a # 0 => a - 1 \in {e \in Ages : e <= k}
      BY <1>4 DEF Ages
    <3> QED
      BY <1>1, <3>1
  <2>5. Let(y, P, {a \in Ages : a < k + 1}) <= Let(x, P, {a \in Ages : a < k})
    <3>1. \A a \in {e \in Ages : e < k + 1} : a # 0 => a - 1 \in {e \in Ages : e < k}
      BY <1>4 DEF Ages
    <3> QED
      BY <1>1, <3>1
  <2>6. Let(y, P, {a \in Ages : k + 1 < a /\ a < S}) <= Let(x, P, {a \in Ages : k < a /\ a < S})
    <3>1. \A a \in {e \in Ages : k + 1 < e /\ e < S} :
            a # 0 => a - 1 \in {e \in Ages : k < e /\ e < S}
      BY <1>4 DEF Ages
    <3> QED
      BY <1>1, <3>1
  <2>7. OpenFor(d, k + 1, y, P, N, S)
    <3> DEFINE L(z, A) == Let(z, P, A)
    <3>1. \A A \in SUBSET Ages : L(x, A) \in Nat /\ L(y, A) \in Nat
      BY <1>2
    <3> HIDE DEF L
    <3>2. /\ L(y, {a \in Ages : a <= k + 1}) <= L(x, {a \in Ages : a <= k})
          /\ L(y, {a \in Ages : a < k + 1}) <= L(x, {a \in Ages : a < k})
          /\ L(y, {a \in Ages : k + 1 < a /\ a < S}) <= L(x, {a \in Ages : k < a /\ a < S})
      BY <2>4, <2>5, <2>6 DEF L
    <3>3. /\ L(x, {a \in Ages : a <= k}) <= c.consumed /\ L(x, {a \in Ages : a <= k}) <= N
          /\ L(x, {a \in Ages : a < k}) < c.consumed /\ L(x, {a \in Ages : a < k}) < N
          /\ L(x, {a \in Ages : k < a /\ a < S}) < N
          /\ S <= k + c.left /\ k + c.left <= Longest
      BY <2>1 DEF OpenFor, L
    <3>4. /\ L(y, {a \in Ages : a <= k + 1}) <= d.consumed /\ L(y, {a \in Ages : a <= k + 1}) <= N
          /\ L(y, {a \in Ages : a < k + 1}) < d.consumed /\ L(y, {a \in Ages : a < k + 1}) < N
          /\ L(y, {a \in Ages : k + 1 < a /\ a < S}) < N
      BY <2>2, <2>3, <3>1, <3>2, <3>3
    <3>5. S <= k + 1 + d.left /\ k + 1 + d.left <= Longest
      BY <2>2, <2>3, <3>3
    <3> QED
      BY <3>4, <3>5 DEF OpenFor, L
  <2> QED
    BY <1>7, <2>2, <2>3, <2>7 DEF Windowed
<1> QED
  BY <1>6, <1>7 DEF Windowed

Counters == [consumed : Nat, left : Nat]

\* The table after a request for the preset p, which the counter c judges.
Judged(x, y, c, p) ==
  IF c.consumed < points[p]
  THEN /\ y[p][0] = x[p][0] + 1
       /\ \A q \in Presets, a \in Ages : <<q, a>> # <<p, 0>> => y[q][a] = x[q][a]
  ELSE y = x

\* a request is counted, and let through only below the points,
LEMMA WindowsCount ==
  ASSUME NEW x \in Table, NEW y \in Table, NEW P \in SUBSET Presets, NEW N \in Nat \ {0},
         NEW S \in 1 .. Longest, NEW c \in Counters, Windowed(c, x, P, N, S), NEW p \in Presets,
         S <= windows[p], p \in P => points[p] <= N,
         NEW d, d = consumed(c, p), Judged(x, y, c, p)
  PROVE  Windowed(d, y, P, N, S)
<1>1. /\ Most \in Nat \ {0} /\ points[p] \in Nat \ {0} /\ points[p] <= Most /\ Longest \in Nat
      /\ windows[p] \in Nat \ {0} /\ windows[p] <= Longest /\ 0 \in Ages
  BY BoundsOfPresets DEF Ages
<1>2. /\ c.left \in Nat /\ c.consumed \in 0 .. Most + 1
  BY DEF Windowed
<1>3. /\ d.consumed = Min({c.consumed + 1, Most + 1})
      /\ d.left = IF c.left = 0 THEN windows[p] ELSE c.left
  BY DEF consumed
<1>4. d.consumed = IF c.consumed <= Most THEN c.consumed + 1 ELSE c.consumed
  <2>1. {c.consumed + 1, Most + 1} \in SUBSET Nat
    BY <1>1, <1>2
  <2>2. PICK m : m = Min({c.consumed + 1, Most + 1})
    OBVIOUS
  <2>3. m \in {c.consumed + 1, Most + 1} /\ m <= c.consumed + 1 /\ m <= Most + 1
    BY <2>1, <2>2, MinIsLeast
  <2> QED
    BY <1>1, <1>2, <1>3, <2>2, <2>3
<1>5. \A A \in SUBSET Ages :
        /\ Let(x, P, A) \in Nat /\ Let(y, P, A) \in Nat
        /\ Let(y, P, A) = IF c.consumed < points[p] /\ p \in P /\ 0 \in A
                          THEN Let(x, P, A) + 1 ELSE Let(x, P, A)
  <2>1. ASSUME NEW A \in SUBSET Ages
        PROVE  /\ Let(x, P, A) \in Nat /\ Let(y, P, A) \in Nat
               /\ Let(y, P, A) = IF c.consumed < points[p] /\ p \in P /\ 0 \in A
                                 THEN Let(x, P, A) + 1 ELSE Let(x, P, A)
    <3>1. Let(x, P, A) \in Nat /\ Let(y, P, A) \in Nat
      BY LetIsFinite
    <3>2. CASE c.consumed < points[p]
      BY <1>1, <3>1, <3>2, LetOneMore DEF Judged
    <3>3. CASE ~(c.consumed < points[p])
      BY <3>1, <3>3 DEF Judged
    <3> QED
      BY <3>2, <3>3
  <2> QED
    BY <2>1
<1>6. CASE c.left = 0
  <2>1. c.consumed = 0 /\ Let(x, P, {0}) = 0 /\ Let(x, P, {a \in Ages : a < S}) < N
    BY <1>6 DEF Windowed
  <2>2. d.left = windows[p] /\ d.consumed = 1
    BY <1>1, <1>3, <1>4, <1>6, <2>1
  <2>3. {a \in Ages : a <= 0} = {0} /\ {a \in Ages : a < 0} = {}
    BY <1>1 DEF Ages
  <2>4. Let(y, P, {0}) <= 1
    BY <1>1, <1>5, <2>1
  <2>5. Let(y, P, {}) = 0
    BY NoAgesLetNone
  <2>6. PICK B \in SUBSET Ages : B = {a \in Ages : 0 < a /\ a < S}
    OBVIOUS
  <2>7. PICK C \in SUBSET Ages : C = {a \in Ages : a < S}
    OBVIOUS
  <2>8. Let(y, P, B) < N
    <3>1. B \subseteq C /\ 0 \notin B
      BY <2>6, <2>7
    <3>2. Let(x, P, B) <= Let(x, P, C) /\ Let(y, P, B) = Let(x, P, B)
      BY <1>5, <3>1, LetIsMonotone
    <3> QED
      BY <1>5, <2>1, <2>7, <3>2
  <2>9. OpenFor(d, 0, y, P, N, S)
    <3>1. /\ Let(y, P, {a \in Ages : a <= 0}) <= 1 /\ Let(y, P, {a \in Ages : a < 0}) = 0
          /\ Let(y, P, {a \in Ages : 0 < a /\ a < S}) < N
      BY <2>3, <2>4, <2>5, <2>6, <2>8
    <3>2. Let(y, P, {a \in Ages : a <= 0}) \in Nat
      BY <1>5
    <3>3. Let(y, P, {a \in Ages : a <= 0}) <= N
      BY <3>1, <3>2
    <3>4. S <= 0 + d.left /\ 0 + d.left <= Longest
      BY <1>1, <2>2
    <3> QED
      BY <2>2, <3>1, <3>3, <3>4 DEF OpenFor
  <2> QED
    BY <1>1, <2>2, <2>9 DEF Windowed
<1>7. CASE c.left # 0
  <2>1. PICK k \in Nat : OpenFor(c, k, x, P, N, S)
    BY <1>7 DEF Windowed
  <2>2. PICK A \in SUBSET Ages : A = {a \in Ages : a <= k}
    OBVIOUS
  <2>3. PICK B \in SUBSET Ages : B = {a \in Ages : a < k}
    OBVIOUS
  <2>4. PICK C \in SUBSET Ages : C = {a \in Ages : k < a /\ a < S}
    OBVIOUS
  <2>5. /\ Let(x, P, A) <= c.consumed /\ Let(x, P, A) <= N
        /\ Let(x, P, B) < c.consumed /\ Let(x, P, B) < N /\ Let(x, P, C) < N
        /\ S <= k + c.left /\ k + c.left <= Longest
    BY <2>1, <2>2, <2>3, <2>4 DEF OpenFor
  <2>6. 0 \notin C
    BY <2>4
  <2>7. Let(y, P, C) = Let(x, P, C)
    BY <1>5, <2>6
  <2>8. /\ Let(y, P, A) <= d.consumed /\ Let(y, P, A) <= N
        /\ Let(y, P, B) < d.consumed /\ Let(y, P, B) < N
    <3>1. PICK la, lb \in Nat : la = Let(x, P, A) /\ lb = Let(x, P, B)
      BY <1>5
    <3>2. CASE c.consumed < points[p] /\ p \in P
      <4>1. Let(y, P, A) <= la + 1 /\ Let(y, P, B) <= lb + 1
        BY <1>5, <3>1
      <4>2. c.consumed + 1 <= N /\ d.consumed = c.consumed + 1
        BY <1>1, <1>2, <1>4, <3>2
      <4> QED
        BY <1>2, <1>5, <2>5, <3>1, <4>1, <4>2
    <3>3. CASE ~(c.consumed < points[p] /\ p \in P)
      <4>1. Let(y, P, A) = la /\ Let(y, P, B) = lb
        BY <1>5, <3>1, <3>3
      <4> QED
        BY <1>2, <1>4, <2>5, <3>1, <4>1
    <3> QED
      BY <3>2, <3>3
  <2>9. d.left = c.left
    BY <1>3, <1>7
  <2>10. OpenFor(d, k, y, P, N, S)
    BY <2>2, <2>3, <2>4, <2>5, <2>7, <2>8, <2>9 DEF OpenFor
  <2>11. d.consumed \in 0 .. Most + 1
    BY <1>1, <1>2, <1>4
  <2> QED
    BY <1>2, <1>7, <2>9, <2>10, <2>11 DEF Windowed
<1> QED
  BY <1>6, <1>7

\* A request for another preset makes no difference to what was let through for P.
LEMMA WindowsIgnore ==
  ASSUME NEW x \in Table, NEW y \in Table, NEW P \in SUBSET Presets, NEW N, NEW S,
         NEW c, Windowed(c, x, P, N, S), NEW b, NEW p \in Presets \ P, Judged(x, y, b, p)
  PROVE  Windowed(c, y, P, N, S)
<1>1. 0 \in Ages
  BY BoundsOfPresets, p \in Presets DEF Ages
<1>2. \A A \in SUBSET Ages : Let(y, P, A) = Let(x, P, A)
  <2>1. CASE b.consumed < points[p]
    BY <1>1, <2>1, LetOneMore DEF Judged
  <2>2. CASE ~(b.consumed < points[p])
    BY <2>2 DEF Judged
  <2> QED
    BY <2>1, <2>2
<1>3. \A k : OpenFor(c, k, x, P, N, S) => OpenFor(c, k, y, P, N, S)
  BY <1>2 DEF OpenFor
<1> QED
  BY <1>1, <1>2, <1>3 DEF Windowed

\* and a counter that is not there has let nothing through.
LEMMA FreshWindows ==
  ASSUME NEW x \in Table, \A p \in Presets, a \in Ages : x[p][a] = 0,
         NEW P \in SUBSET Presets, NEW N \in Nat \ {0}, NEW S
  PROVE  Windowed(NoCounter, x, P, N, S)
<1>1. ASSUME NEW A \in SUBSET Ages
      PROVE  Let(x, P, A) = 0
  <2>1. \A p \in P, a \in A : x[p][a] = 0
    OBVIOUS
  <2>2. LetThrough(x, P, A) = {}
    BY <2>1, LetMeans
  <2> QED
    BY <2>2, FS_EmptySet DEF Let
<1>2. 0 \in Ages /\ Most \in Nat
  BY BoundsOfPresets, LimitsAssumption DEF Ages
<1> QED
  BY <1>1, <1>2 DEF Windowed, NoCounter

Tables == [Servers \cup {Redis} -> Table]

\* Every counter bounds what it has let through: that of Redis for each preset and for all of them
\* together, those of a process for their preset.
LimitsInv ==
  /\ shared \in Counters /\ memory \in [Servers -> [Presets -> Counters]] /\ admitted \in Tables
  /\ \A p \in Presets : Windowed(shared, admitted[Redis], {p}, points[p], Shortest)
  /\ Windowed(shared, admitted[Redis], Presets, Most, Shortest)
  /\ \A s \in Servers, p \in Presets :
       Windowed(memory[s][p], admitted[s], {p}, points[p], windows[p])

\* The invariant holds at the start.
LEMMA LimitsStart == LimitsInit => LimitsInv
<1> SUFFICES ASSUME LimitsInit
             PROVE  LimitsInv
  OBVIOUS
<1>1. /\ \A p \in Presets : points[p] \in Nat \ {0} /\ {p} \in SUBSET Presets
      /\ Most \in Nat \ {0}
  BY BoundsOfPresets
<1>2. /\ admitted \in Tables /\ NoCounter \in Counters
      /\ \A w \in Servers \cup {Redis} : \A p \in Presets, a \in Ages : admitted[w][p][a] = 0
  BY DEF LimitsInit, Tables, Table, Ages, NoCounter, Counters
<1>3. \A w \in Servers \cup {Redis} : admitted[w] \in Table
  BY <1>2 DEF Tables
<1>4. \A w \in Servers \cup {Redis} : \A P \in SUBSET Presets, N \in Nat \ {0} : \A S :
        Windowed(NoCounter, admitted[w], P, N, S)
  BY <1>2, <1>3, FreshWindows
<1> QED
  BY <1>1, <1>2, <1>4 DEF LimitsInv, LimitsInit

\* A counter that counts is a counter.
LEMMA ConsumedIsCounter ==
  ASSUME NEW c \in Counters, NEW p \in Presets
  PROVE  consumed(c, p) \in Counters
<1>1. Most \in Nat /\ windows[p] \in Nat
  BY BoundsOfPresets
<1>2. {c.consumed + 1, Most + 1} \in SUBSET Nat /\ {c.consumed + 1, Most + 1} # {}
  BY <1>1 DEF Counters
<1>3. Min({c.consumed + 1, Most + 1}) \in Nat
  BY <1>2, MinIsLeast
<1> QED
  BY <1>1, <1>3 DEF consumed, Counters

\* What a counter lets through.
LEMMA Judgements ==
  ASSUME LimitsInv, NEW w \in Servers \cup {Redis}, NEW p \in Presets, NEW c, Judge(c, w, p)
  PROVE  /\ admitted' \in Tables /\ Judged(admitted[w], admitted'[w], c, p)
         /\ \A v \in (Servers \cup {Redis}) \ {w} : admitted'[v] = admitted[v]
<1>1. 0 \in Ages
  BY BoundsOfPresets DEF Ages
<1>2. admitted \in Tables
  BY DEF LimitsInv
<1>3. CASE c.consumed < points[p]
  <2>1. PICK n \in Nat : n = admitted[w][p][0]
    BY <1>1, <1>2 DEF Tables, Table
  <2>2. admitted' = [admitted EXCEPT ![w][p][0] = n + 1]
    BY <1>3, <2>1 DEF Judge
  <2>3. PICK y \in Table : y = [admitted[w] EXCEPT ![p][0] = n + 1]
    <3>1. PICK x \in Table : x = admitted[w]
      BY <1>2 DEF Tables
    <3>2. PICK row \in [Ages -> Nat] : row = [x[p] EXCEPT ![0] = n + 1]
      <4>1. PICK f \in [Ages -> Nat] : f = x[p]
        BY DEF Table
      <4>2. n + 1 \in Nat
        OBVIOUS
      <4>3. [f EXCEPT ![0] = n + 1] \in [Ages -> Nat]
        BY <4>2
      <4> QED
        BY <4>1, <4>3
    <3>3. [x EXCEPT ![p] = row] \in Table
      BY DEF Table
    <3> QED
      BY <3>1, <3>2, <3>3
  <2>4. admitted' = [admitted EXCEPT ![w] = y]
    BY <2>2, <2>3
  <2>5. y[p][0] = n + 1
        /\ \A q \in Presets, a \in Ages : <<q, a>> # <<p, 0>> => y[q][a] = admitted[w][q][a]
    BY <1>1, <1>2, <2>3 DEF Tables, Table
  <2>6. admitted' \in Tables /\ admitted'[w] = y
        /\ \A v \in (Servers \cup {Redis}) \ {w} : admitted'[v] = admitted[v]
    BY <1>2, <2>4 DEF Tables
  <2> QED
    BY <1>3, <2>1, <2>5, <2>6 DEF Judged
<1>4. CASE ~(c.consumed < points[p])
  BY <1>2, <1>4 DEF Judge, Judged
<1> QED
  BY <1>3, <1>4

\* A request that Redis counts keeps the windows,
LEMMA RedisCounts ==
  ASSUME LimitsInv, NEW p \in Presets, shared' = consume(shared, p), UNCHANGED memory,
         Judge(shared, Redis, p)
  PROVE  LimitsInv'
<1>1. PICK x \in Table, y \in Table : x = admitted[Redis] /\ y = admitted'[Redis]
  BY Judgements DEF LimitsInv, Tables
<1>2. /\ admitted' \in Tables /\ Judged(x, y, shared, p)
      /\ \A s \in Servers : admitted'[s] = admitted[s]
  BY <1>1, Judgements, LimitsAssumption
<1>3. PICK c \in Counters : c = shared
  BY DEF LimitsInv
<1>4. PICK d \in Counters : d = shared' /\ d = consumed(c, p)
  BY <1>3, ConsumedIsCounter DEF consume
<1>5. /\ Shortest \in 1 .. Longest /\ Shortest <= windows[p]
      /\ Most \in Nat \ {0} /\ points[p] <= Most
      /\ \A q \in Presets : points[q] \in Nat \ {0} /\ {q} \in SUBSET Presets
  BY BoundsOfPresets
<1>6. \A q \in Presets : Windowed(d, y, {q}, points[q], Shortest)
  <2>1. ASSUME NEW q \in Presets
        PROVE  Windowed(d, y, {q}, points[q], Shortest)
    <3>1. Windowed(c, x, {q}, points[q], Shortest)
      BY <1>1, <1>3 DEF LimitsInv
    <3>2. p \in {q} => points[p] <= points[q]
      BY <1>5
    <3>3. Judged(x, y, c, p)
      BY <1>2, <1>3
    <3> QED
      BY <1>4, <1>5, <3>1, <3>2, <3>3, WindowsCount
  <2> QED
    BY <2>1
<1>7. Windowed(d, y, Presets, Most, Shortest)
  <2>1. Windowed(c, x, Presets, Most, Shortest) /\ Judged(x, y, c, p)
    BY <1>1, <1>2, <1>3 DEF LimitsInv
  <2> QED
    BY <1>4, <1>5, <2>1, WindowsCount
<1>8. \A s \in Servers, q \in Presets :
        Windowed(memory'[s][q], admitted'[s], {q}, points[q], windows[q])
  BY <1>2 DEF LimitsInv
<1>9. shared' \in Counters /\ memory' \in [Servers -> [Presets -> Counters]]
  BY <1>4 DEF LimitsInv
<1> QED
  BY <1>1, <1>2, <1>4, <1>6, <1>7, <1>8, <1>9 DEF LimitsInv

\* and one that a process counts,
LEMMA ProcessesCount ==
  ASSUME LimitsInv, NEW s \in Servers, NEW p \in Presets, UNCHANGED shared,
         memory' = [memory EXCEPT ![s][p] = consume(@, p)], Judge(memory[s][p], s, p)
  PROVE  LimitsInv'
<1>1. PICK x \in Table, y \in Table : x = admitted[s] /\ y = admitted'[s]
  BY Judgements DEF LimitsInv, Tables
<1>2. PICK c \in Counters : c = memory[s][p]
  BY DEF LimitsInv
<1>3. /\ admitted' \in Tables /\ Judged(x, y, c, p)
      /\ \A v \in (Servers \cup {Redis}) \ {s} : admitted'[v] = admitted[v]
  BY <1>1, <1>2, Judgements
<1>4. PICK d \in Counters : d = consumed(c, p)
  BY ConsumedIsCounter
<1>5. /\ memory' \in [Servers -> [Presets -> Counters]] /\ memory'[s][p] = d
      /\ \A t \in Servers, q \in Presets : <<t, q>> # <<s, p>> => memory'[t][q] = memory[t][q]
  <2>1. memory \in [Servers -> [Presets -> Counters]]
    BY DEF LimitsInv
  <2>2. memory' = [memory EXCEPT ![s][p] = d]
    BY <1>2, <1>4 DEF consume
  <2>3. PICK row \in [Presets -> Counters] : row = [memory[s] EXCEPT ![p] = d]
    BY <2>1
  <2>4. memory' = [memory EXCEPT ![s] = row]
    BY <2>2, <2>3
  <2>5. row[p] = d /\ \A q \in Presets \ {p} : row[q] = memory[s][q]
    BY <2>1, <2>3
  <2> QED
    BY <2>1, <2>4, <2>5
<1>6. /\ windows[p] \in 1 .. Longest /\ points[p] \in Nat \ {0} /\ {p} \in SUBSET Presets
      /\ windows[p] <= windows[p] /\ points[p] <= points[p]
  BY BoundsOfPresets
<1>7. Windowed(d, y, {p}, points[p], windows[p])
  <2>1. Windowed(c, x, {p}, points[p], windows[p])
    BY <1>1, <1>2 DEF LimitsInv
  <2> QED
    BY <1>3, <1>4, <1>6, <2>1, WindowsCount
<1>8. \A q \in Presets \ {p} : Windowed(memory[s][q], y, {q}, points[q], windows[q])
  <2>1. ASSUME NEW q \in Presets \ {p}
        PROVE  Windowed(memory[s][q], y, {q}, points[q], windows[q])
    <3>1. Windowed(memory[s][q], x, {q}, points[q], windows[q])
      BY <1>1 DEF LimitsInv
    <3>2. {q} \in SUBSET Presets /\ p \in Presets \ {q}
      OBVIOUS
    <3> QED
      BY <1>3, <3>1, <3>2, WindowsIgnore
  <2> QED
    BY <2>1
<1>9. \A t \in Servers, q \in Presets :
        Windowed(memory'[t][q], admitted'[t], {q}, points[q], windows[q])
  <2>1. ASSUME NEW t \in Servers, NEW q \in Presets
        PROVE  Windowed(memory'[t][q], admitted'[t], {q}, points[q], windows[q])
    <3>1. CASE t = s /\ q = p
      BY <1>1, <1>5, <1>7, <3>1
    <3>2. CASE t = s /\ q # p
      BY <1>1, <1>5, <1>8, <3>2
    <3>3. CASE t # s
      <4>1. memory'[t][q] = memory[t][q] /\ admitted'[t] = admitted[t]
        BY <1>3, <1>5, <3>3
      <4> QED
        BY <4>1 DEF LimitsInv
    <3> QED
      BY <3>1, <3>2, <3>3
  <2> QED
    BY <2>1
<1>10. admitted'[Redis] = admitted[Redis] /\ shared' = shared
  BY <1>3, LimitsAssumption
<1>11. /\ \A q \in Presets : Windowed(shared', admitted'[Redis], {q}, points[q], Shortest)
       /\ Windowed(shared', admitted'[Redis], Presets, Most, Shortest)
  BY <1>10 DEF LimitsInv
<1> QED
  BY <1>3, <1>5, <1>9, <1>10, <1>11 DEF LimitsInv

\* and the passing of time,
LEMMA TicksCount ==
  ASSUME LimitsInv, LimitsTick
  PROVE  LimitsInv'
<1>1. \A c \in Counters : Older(c) \in Counters /\ DOMAIN c = {"consumed", "left"}
  <2>1. ASSUME NEW c \in Counters
        PROVE  Older(c) \in Counters
    <3>1. c.left \in Nat /\ c.consumed \in Nat
      BY DEF Counters
    <3>2. c.left > 1 => c.left - 1 \in Nat
      BY <3>1
    <3> QED
      BY <3>1, <3>2 DEF Older, NoCounter, Counters
  <2> QED
    BY <2>1 DEF Counters
<1>2. admitted \in Tables /\ shared \in Counters /\ memory \in [Servers -> [Presets -> Counters]]
  BY DEF LimitsInv
<1>3. \A w \in Servers \cup {Redis} : \A p \in Presets : \A a \in Ages :
        admitted'[w][p][a] = IF a = 0 THEN 0 ELSE admitted[w][p][a - 1]
  BY <1>2 DEF LimitsTick, Tables, Ages
<1>4. admitted' \in Tables
  <2>1. \A w \in Servers \cup {Redis} : \A p \in Presets : \A a \in Ages :
          (IF a = 0 THEN 0 ELSE admitted[w][p][a - 1]) \in Nat
    <3>1. \A a \in Ages : a # 0 => a - 1 \in Ages
      BY BoundsOfPresets DEF Ages
    <3> QED
      BY <1>2, <3>1 DEF Tables, Table
  <2> QED
    BY <1>2, <2>1 DEF LimitsTick, Tables, Table, Ages
<1>5. \A w \in Servers \cup {Redis} : admitted[w] \in Table /\ admitted'[w] \in Table
  BY <1>2, <1>4 DEF Tables
<1>6. \A w \in Servers \cup {Redis} : \A c \in Counters, P \in SUBSET Presets :
        \A N \in Nat \ {0}, S \in 1 .. Longest :
          Windowed(c, admitted[w], P, N, S) => Windowed(Older(c), admitted'[w], P, N, S)
  <2>1. ASSUME NEW w \in Servers \cup {Redis}, NEW c \in Counters, NEW P \in SUBSET Presets,
               NEW N \in Nat \ {0}, NEW S \in 1 .. Longest, Windowed(c, admitted[w], P, N, S)
        PROVE  Windowed(Older(c), admitted'[w], P, N, S)
    <3>1. PICK x \in Table, y \in Table : x = admitted[w] /\ y = admitted'[w]
      BY <1>5
    <3>2. Windowed(c, x, P, N, S) /\ DOMAIN c = {"consumed", "left"}
      BY <1>1, <2>1, <3>1
    <3>3. \A p \in Presets : \A a \in Ages : y[p][a] = IF a = 0 THEN 0 ELSE x[p][a - 1]
      BY <1>3, <3>1
    <3>4. PICK d : d = Older(c)
      OBVIOUS
    <3>5. Windowed(d, y, P, N, S)
      BY <3>2, <3>3, <3>4, WindowsAge
    <3> QED
      BY <3>1, <3>4, <3>5
  <2> QED
    BY <2>1
<1>7. /\ shared' = Older(shared) /\ Redis \in Servers \cup {Redis}
      /\ \A s \in Servers, p \in Presets : memory'[s][p] = Older(memory[s][p])
      /\ memory' = [s \in Servers |-> [p \in Presets |-> Older(memory[s][p])]]
  BY DEF LimitsTick
<1>8. /\ Shortest \in 1 .. Longest /\ Most \in Nat \ {0}
      /\ \A p \in Presets : windows[p] \in 1 .. Longest /\ points[p] \in Nat \ {0}
      /\ \A p \in Presets : {p} \in SUBSET Presets
  BY BoundsOfPresets, LimitsAssumption
<1>9. /\ \A p \in Presets : Windowed(shared', admitted'[Redis], {p}, points[p], Shortest)
      /\ Windowed(shared', admitted'[Redis], Presets, Most, Shortest)
  BY <1>2, <1>6, <1>7, <1>8 DEF LimitsInv
<1>10. \A s \in Servers, p \in Presets :
         Windowed(memory'[s][p], admitted'[s], {p}, points[p], windows[p])
  <2>1. \A s \in Servers, p \in Presets : memory[s][p] \in Counters
    BY <1>2
  <2> QED
    BY <1>6, <1>7, <1>8, <2>1 DEF LimitsInv
<1>11. shared' \in Counters /\ memory' \in [Servers -> [Presets -> Counters]]
  BY <1>1, <1>2, <1>7
<1> QED
  BY <1>4, <1>9, <1>10, <1>11 DEF LimitsInv

\* so that every step does.
LEMMA LimitsStep == LimitsInv /\ [LimitsNext]_limitVars => LimitsInv'
<1> SUFFICES ASSUME LimitsInv, [LimitsNext]_limitVars
             PROVE  LimitsInv'
  OBVIOUS
<1>1. CASE UNCHANGED <<shared, memory, admitted>>
  BY <1>1 DEF LimitsInv
<1>2. ASSUME NEW s \in Servers, NEW p \in Presets, Handle(s, p)
      PROVE  LimitsInv'
  <2>1. CASE redisUp
    BY <1>2, <2>1, RedisCounts DEF Handle
  <2>2. CASE ~redisUp
    BY <1>2, <2>2, ProcessesCount DEF Handle
  <2> QED
    BY <2>1, <2>2
<1> QED
  BY <1>1, <1>2, TicksCount DEF LimitsNext, RedisTurns, limitVars

\* The windows say what the property asks.
LEMMA LimitsMean == LimitsInv => AdmissionsAreBounded
<1> SUFFICES ASSUME LimitsInv
             PROVE  AdmissionsAreBounded
  OBVIOUS
<1>1. /\ Shortest \in 1 .. Longest /\ Most \in Nat \ {0} /\ Longest \in Nat
      /\ \A p \in Presets : windows[p] \in 1 .. Longest /\ points[p] \in Nat \ {0}
      /\ \A p \in Presets : {p} \in SUBSET Presets
  BY BoundsOfPresets, LimitsAssumption
<1>2. \A w \in Servers \cup {Redis} : admitted[w] \in Table
  BY DEF LimitsInv, Tables
<1>3. \A w \in Servers \cup {Redis} : \A P \in SUBSET Presets : \A S \in 1 .. Longest :
        Through(w, P, S) = Let(admitted[w], P, {a \in Ages : a < S})
  <2>1. \A S \in 1 .. Longest : 0 .. S - 1 = {a \in Ages : a < S}
    BY <1>1 DEF Ages
  <2> QED
    BY <2>1 DEF Through, Let
<1>4. \A w \in Servers \cup {Redis} : \A P \in SUBSET Presets : \A S \in 1 .. Longest :
        \A c : \A N \in Nat \ {0} : Windowed(c, admitted[w], P, N, S) => Through(w, P, S) < 2 * N
  <2> SUFFICES ASSUME NEW w \in Servers \cup {Redis}, NEW P \in SUBSET Presets, NEW S \in 1 .. Longest,
                      NEW c, NEW N \in Nat \ {0}, Windowed(c, admitted[w], P, N, S)
               PROVE  Through(w, P, S) < 2 * N
    OBVIOUS
  <2>1. PICK x \in Table : x = admitted[w]
    BY <1>2
  <2>2. Windowed(c, x, P, N, S)
    BY <2>1
  <2>3. Let(x, P, {a \in Ages : a < S}) < 2 * N
    BY <2>2, WindowsBound
  <2> QED
    BY <1>3, <2>1, <2>3
<1>5. /\ \A p \in Presets : Windowed(shared, admitted[Redis], {p}, points[p], Shortest)
      /\ Windowed(shared, admitted[Redis], Presets, Most, Shortest)
      /\ \A s \in Servers, p \in Presets :
           Windowed(memory[s][p], admitted[s], {p}, points[p], windows[p])
  BY DEF LimitsInv
<1>6. \A p \in Presets : Through(Redis, {p}, Shortest) < 2 * points[p]
  BY <1>1, <1>4, <1>5
<1>7. \A p \in Presets, s \in Servers : Through(s, {p}, windows[p]) < 2 * points[p]
  BY <1>1, <1>4, <1>5
<1>8. Through(Redis, Presets, Shortest) < 2 * Most
  BY <1>1, <1>4, <1>5
<1> QED
  BY <1>6, <1>7, <1>8 DEF AdmissionsAreBounded

\* Whatever the presets of a factory and however often Redis comes and goes, no counter lets twice
\* the points of a preset through in one window, and Redis lets all the presets that share it
\* through less than twice as often as the widest of them may be.
THEOREM LimitsHold == LimitsSpec => []AdmissionsAreBounded
BY LimitsStart, LimitsStep, LimitsMean, PTL DEF LimitsSpec
=============================================================================
