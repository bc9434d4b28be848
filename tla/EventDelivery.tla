---------------------------- MODULE EventDelivery ----------------------------
(***************************************************************************)
(* What the transactional outbox promises the business code, with queue,   *)
(* dispatchers, leases and workers abstracted away.  An event committed    *)
(* with a business transaction is owed a queue job; it is reported         *)
(* processed only once a job carries it; an event that is never handed to  *)
(* the queue is given up visibly, in the dead-letter state.                *)
(***************************************************************************)
CONSTANT Events          \* the events whose type has a queue

VARIABLES phase,         \* "none", "owed" a job, or "delivered" to the queue
          outcome        \* what the row reports: "open", "processed" or "dlq"

vars == <<phase, outcome>>

Init ==
  /\ phase = [e \in Events |-> "none"]
  /\ outcome = [e \in Events |-> "open"]

\* The business transaction commits together with its event.
Publish(e) ==
  /\ phase[e] = "none"
  /\ phase' = [phase EXCEPT ![e] = "owed"]
  /\ UNCHANGED outcome

\* The first job for the event enters the queue.
Deliver(e) ==
  /\ phase[e] = "owed"
  /\ phase' = [phase EXCEPT ![e] = "delivered"]
  /\ UNCHANGED outcome

\* Only a delivered event is reported processed.
ReportProcessed(e) ==
  /\ phase[e] = "delivered"
  /\ outcome' = [outcome EXCEPT ![e] = "processed"]
  /\ UNCHANGED phase

GiveUp(e) ==
  /\ phase[e] # "none"
  /\ outcome' = [outcome EXCEPT ![e] = "dlq"]
  /\ UNCHANGED phase

\* A retry, a failed attempt or a requeue opens the event again.
Reopen(e) ==
  /\ phase[e] # "none"
  /\ outcome' = [outcome EXCEPT ![e] = "open"]
  /\ UNCHANGED phase

Next ==
  \E e \in Events :
    Publish(e) \/ Deliver(e) \/ ReportProcessed(e) \/ GiveUp(e) \/ Reopen(e)

\* An owed event that is still open is eventually delivered or given up.
Resolve(e) == outcome[e] = "open" /\ (Deliver(e) \/ (phase[e] = "owed" /\ GiveUp(e)))

SafeSpec == Init /\ [][Next]_vars

Spec == SafeSpec /\ \A e \in Events : WF_vars(Resolve(e))
=============================================================================
