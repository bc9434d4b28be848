---------------------------- MODULE OutboundCalls ----------------------------
(***************************************************************************)
(* Calls out of a process through one circuit breaker (circuit-breaker.ts):*)
(* those of a Gmail client, which repeats a request that failed for a      *)
(* moment (gmail-client.ts), and those of the object storage               *)
(* (storage.service.ts).                                                   *)
(*                                                                         *)
(* The breaker gives up on an action after requestTimeout; the action goes *)
(* on and nobody waits for it.  Time is counted in ticks of the shortest   *)
(* of the delays; a timer that is due runs before the next tick.  What the *)
(* answers hold is left to the callers.                                    *)
(***************************************************************************)
EXTENDS Naturals, Sequences

CONSTANTS Callers,
          Operations,       \* what a caller may ask: sequences of actions
          Local,            \* actions that need no other machine, and never fail
          failureThreshold,
          resetTimeout,     \* ticks, of the breaker
          requestTimeout,
          MaxRetries        \* of a request, with delays that double

ASSUME CircuitAssumption ==
  /\ failureThreshold \in Nat \ {0} /\ resetTimeout \in Nat
  /\ requestTimeout \in Nat \ {0} /\ MaxRetries \in Nat

VARIABLES
  state,         \* of the breaker
  failureCount,
  rest,          \* ticks until Date.now() > nextAttemptAt
  caller,        \* the callers
  openFor        \* history: ticks since the circuit opened

breaker == <<state, failureCount, rest, openFor>>
circuitVars == <<breaker, caller>>

(* todo: the actions of the operation that are left; of the first of them, *)
(* age: since it was fired; attempt, delay: its request, and the ticks     *)
(* until that is sent.                                                     *)
Resting == [at |-> "idle", todo |-> << >>, age |-> 0, attempt |-> 0, delay |-> 0]

CircuitInit ==
  /\ state = "CLOSED" /\ failureCount = 0 /\ rest = 0 /\ openFor = 0
  /\ caller = [c \in Callers |-> Resting]

-----------------------------------------------------------------------------
(* The breaker                                                             *)

onSuccess ==
  /\ state' = IF state = "HALF_OPEN" THEN "CLOSED" ELSE state
  /\ failureCount' = 0
  /\ UNCHANGED <<rest, openFor>>

(* The count stops at its threshold, beyond which nothing depends on it.   *)
onFailure ==
  /\ failureCount' = IF failureCount < failureThreshold THEN failureCount + 1 ELSE failureCount
  /\ IF state = "HALF_OPEN" \/ failureCount + 1 >= failureThreshold
     THEN /\ state' = "OPEN" /\ rest' = resetTimeout + 1
          /\ openFor' = IF state = "OPEN" THEN openFor ELSE 0
     ELSE UNCHANGED <<state, rest, openFor>>

refuseCounted == onFailure  \* mutant: the refusal is thrown inside the try

\* A call that finds the circuit open fails at once, and is not counted.
refuse == UNCHANGED breaker

\* An operation fails with its first action that does.
Fails(c) == caller' = [caller EXCEPT ![c] = Resting]

(* fire of the next action: the first call after the rest tries the circuit *)
(* out, and so does any other that comes before it has ended.              *)
fire(c, todo) ==
  IF state = "OPEN" /\ rest > 0
  THEN refuse /\ Fails(c)
  ELSE /\ state' = IF state = "OPEN" THEN "HALF_OPEN" ELSE state
       /\ caller' = [caller EXCEPT ![c] = [Resting EXCEPT !.at = "waiting", !.todo = todo]]
       /\ UNCHANGED <<failureCount, rest, openFor>>

Ask(c) == caller[c].at = "idle" /\ \E op \in Operations : fire(c, op)

\* The next action of an operation, after one that succeeded.
Continue(c) == caller[c].at = "next" /\ fire(c, caller[c].todo)

(* executeWithTimeout: the promise is settled once, here by the clock; what *)
(* the action still does is news to nobody.                                *)
TimesOut(c) ==
  /\ caller[c].at = "waiting" /\ caller[c].age = requestTimeout
  /\ onFailure /\ Fails(c)

-----------------------------------------------------------------------------
(* The action: requests, again after a delay when the status is 429, 500   *)
(* or 503.                                                                 *)

Sends(c) == caller[c].at = "waiting" /\ caller[c].delay = 0
Remote(c) == Head(caller[c].todo) \notin Local

Succeeds(c) ==
  /\ Sends(c) /\ onSuccess
  /\ caller' = [caller EXCEPT ![c] =
                IF Len(@.todo) = 1 THEN Resting
                ELSE [Resting EXCEPT !.at = "next", !.todo = Tail(caller[c].todo)]]

(* An error that is not worth another attempt, or the last attempt: a      *)
(* status of the 400s counts like an outage.                               *)
Throws(c) == Sends(c) /\ Remote(c) /\ onFailure /\ Fails(c)

withRetry(c) ==
  /\ Sends(c) /\ Remote(c) /\ caller[c].attempt < MaxRetries
  /\ caller' = [caller EXCEPT ![c].attempt = @ + 1, ![c].delay = 2 ^ caller[c].attempt]
  /\ UNCHANGED breaker

-----------------------------------------------------------------------------
Less(n) == IF n = 0 THEN 0 ELSE n - 1

CircuitTick ==
  /\ \A c \in Callers : caller[c].at = "waiting" => caller[c].age < requestTimeout
  /\ caller' = [c \in Callers |->
                IF caller[c].at # "waiting" THEN caller[c]
                ELSE [caller[c] EXCEPT !.age = @ + 1, !.delay = Less(@)]]
  /\ rest' = Less(rest)
  /\ openFor' = IF state = "OPEN" /\ rest > 0 THEN openFor + 1 ELSE openFor
  /\ UNCHANGED <<state, failureCount>>

CircuitNext ==
  \/ \E c \in Callers :
       Ask(c) \/ Continue(c) \/ TimesOut(c) \/ Succeeds(c) \/ Throws(c) \/ withRetry(c)
  \/ CircuitTick

-----------------------------------------------------------------------------
(* Properties                                                              *)

(***************************************************************************)
(* A circuit that is open lets a call through again.  Calls that were let  *)
(* through before may fail while it is open and start its rest anew; but   *)
(* nobody waits longer than requestTimeout for one, and a refused call is  *)
(* no failure: so the rest ends requestTimeout + resetTimeout after the    *)
(* circuit opened, however many callers keep coming.                       *)
(***************************************************************************)
OpenEnds ==
  state = "OPEN" => openFor + rest <= requestTimeout + resetTimeout + 1

(* A closed circuit is short of its threshold, whatever answers arrived    *)
(* late or while it was open.                                              *)
ClosedIsBelow == state = "CLOSED" => failureCount < failureThreshold

CircuitRecovers == OpenEnds /\ ClosedIsBelow
=============================================================================
