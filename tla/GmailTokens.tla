----------------------------- MODULE GmailTokens ------------------------------
(***************************************************************************)
(* The tokens of one Gmail connection: stored by the callback, refreshed   *)
(* by the sync workers (gmail-oauth.service.ts), encrypted under a         *)
(* versioned key (utils/encryption.ts), and moved to the next key by a     *)
(* re-encryption job (reencryption.worker.ts) while the operators change   *)
(* the keys of the pods, in the order that job's header gives.             *)
(*                                                                         *)
(* Of a sealed token the model keeps the form of its envelope, which names *)
(* the key: "bare" is the legacy one without a version, which the first    *)
(* key opens.  Which of Google's tokens is inside makes no difference.     *)
(* Reads go to a replica that may lag, writes to the primary.              *)
(*                                                                         *)
(* A rotation replaces the pods that have the first key alone by pods that *)
(* have both, the second one active.  On SIGTERM a pod takes nothing new   *)
(* but finishes what it has in hand, so that both kinds write for a while. *)
(***************************************************************************)
EXTENDS Naturals

CONSTANTS Old,  \* the pods of the deployment with the first key
          New   \* and of the one with both

VARIABLES
  conn,     \* the row on the primary
  replica,  \* the row as the replica shows it
  pod,      \* of a pod, whether it is up, and the request it runs
  phase     \* of the rotation

tokenVars == <<conn, replica, pod, phase>>

Key(form) == IF form = "v2" THEN 2 ELSE 1

\* A form that names a version the writer encrypts under.
Form(version) == IF version = 1 THEN "v1" ELSE "v2"
Pods == Old \cup New
Active(p) == IF p \in New THEN 2 ELSE 1
Seal(p) == Form(Active(p))
Opens(p, form) == Key(form) \in 1 .. Active(p)

IdlePod == [step |-> "idle", access |-> "bare", refresh |-> "bare", both |-> FALSE]

(* A connection of the time before the envelopes had versions. *)
TokensInit ==
  /\ conn = [access |-> "bare", refresh |-> "bare", due |-> FALSE, status |-> "ACTIVE"]
  /\ replica = conn
  /\ pod = [p \in Pods |-> [up |-> IF p \in New THEN "no" ELSE "serving", run |-> IdlePod]]
  /\ phase = "before"

-----------------------------------------------------------------------------
Waits(p) == pod[p].up = "serving" /\ pod[p].run.step = "idle"
Runs(p, step) == pod[p].run.step = step
Run(p, r) == pod' = [pod EXCEPT ![p].run = r]
Stop(p) == Run(p, IdlePod)
Write(row) == conn' = row /\ UNCHANGED <<replica, phase>>
KeepRow == UNCHANGED <<conn, replica, phase>>

(* Streaming replication catches up; a token nears its expiry, five        *)
(* minutes before it is reached.                                           *)
CatchUp == replica # conn /\ replica' = conn /\ UNCHANGED <<conn, pod, phase>>

NearExpiry ==
  /\ ~conn.due /\ Write([conn EXCEPT !.due = TRUE])
  /\ UNCHANGED pod

(***************************************************************************)
(* The callback: consent gives a new refresh token beside the access       *)
(* token, and both are sealed and upserted.                                *)
(***************************************************************************)
Consent(p) ==
  /\ Waits(p)
  /\ Run(p, [IdlePod EXCEPT !.step = "store", !.access = Seal(p), !.refresh = Seal(p)])
  /\ KeepRow

storeConnection(p) ==
  /\ Runs(p, "store")
  /\ Write([access |-> pod[p].run.access, refresh |-> pod[p].run.refresh,
            due |-> FALSE, status |-> "ACTIVE"])
  /\ Stop(p)

(***************************************************************************)
(* getValidAccessToken: a token that is not due is opened and returned;    *)
(* refreshAccessToken replaces one that is.  Nobody writes REVOKED.        *)
(***************************************************************************)
getValidAccessToken(p) ==
  /\ Waits(p) /\ replica.due
  /\ Run(p, [IdlePod EXCEPT !.step = "refresh"])
  /\ KeepRow

(* The row is read again.  A refresh token no key opens fails the request  *)
(* before anything is written; Google's answer is sealed; its refusal, or  *)
(* a failure on the way, marks the connection.                             *)
refreshAccessToken(p) ==
  /\ Runs(p, "refresh")
  /\ \/ ~Opens(p, replica.refresh) /\ Stop(p)
     \/ Opens(p, replica.refresh) /\ Run(p, [IdlePod EXCEPT !.step = "update", !.access = Seal(p)])
     \/ Opens(p, replica.refresh) /\ Run(p, [IdlePod EXCEPT !.step = "mark"])
  /\ KeepRow

UpdateAccess(p) ==
  /\ Runs(p, "update")
  /\ Write([conn EXCEPT !.access = pod[p].run.access, !.due = FALSE, !.status = "ACTIVE"])
  /\ Stop(p)

MarkError(p) ==
  /\ Runs(p, "mark")
  /\ Write([conn EXCEPT !.status = "ERROR"])
  /\ Stop(p)

-----------------------------------------------------------------------------
(* The re-encryption job                                                   *)

StalePrefixed(row) ==  \* mutant: the form without a version is overlooked
  row.access = "v1"

(* The rows that still need the job are told by their access token: it has *)
(* no version, or another than the target's.                               *)
Stale(row) == row.access = "bare" \/ row.access # "v2"

(* The job reads the row, and opens and seals what is not under the        *)
(* target key: the pods that run it have both.                             *)
processReEncryptionJob(p) ==
  /\ Waits(p) /\ phase = "rotating" /\ Active(p) = 2 /\ Stale(replica)
  /\ LET Moved(form) == IF Key(form) = 2 THEN form ELSE Seal(p)
     IN Run(p, [step |-> "reencrypt", both |-> Key(replica.refresh) # 2,
                access |-> Moved(replica.access), refresh |-> Moved(replica.refresh)])
  /\ KeepRow

(* Its transaction updates the columns that were stale when they were read. *)
UpdateReEncrypted(p) ==
  /\ Runs(p, "reencrypt")
  /\ Write([conn EXCEPT !.access = pod[p].run.access,
                         !.refresh = IF pod[p].run.both THEN pod[p].run.refresh ELSE @])
  /\ Stop(p)

-----------------------------------------------------------------------------
(* The rotation: pods with a second key, active, replace the old ones; the *)
(* job runs; once nothing is found stale, the first key is removed.        *)

(* validateEncryptionConfig lets no process start without the first key,   *)
(* whichever is active.  The final pods, which are to have the second key  *)
(* alone, never serve, and nothing starts again once the first is gone.    *)
FirstKeyIsSet == phase \in {"before", "rotating"}

Deploy(p) ==
  /\ p \in New /\ FirstKeyIsSet /\ pod[p].up = "no"
  /\ pod' = [pod EXCEPT ![p].up = "serving"]
  /\ UNCHANGED <<conn, replica, phase>>

(* SIGTERM; gracefulShutdown exits when what the pod has in hand has ended. *)
Terminate(p) ==
  /\ p \notin New /\ pod[p].up = "serving" /\ \E n \in New : pod[n].up = "serving"
  /\ pod' = [pod EXCEPT ![p].up = "draining"]
  /\ UNCHANGED <<conn, replica, phase>>

gracefulShutdown(p) ==
  /\ pod[p].up = "draining" /\ pod[p].run.step = "idle"
  /\ pod' = [pod EXCEPT ![p].up = "gone"]
  /\ UNCHANGED <<conn, replica, phase>>

(* A crash, or the end of the time a shutdown is given: what the pod has   *)
(* in hand is lost.  One that was serving is started again, if it can be.  *)
Exit(p) ==
  /\ pod[p].up \in {"serving", "draining"}
  /\ pod' = [pod EXCEPT ![p] =
               [up |-> IF @.up = "serving" /\ FirstKeyIsSet THEN "serving" ELSE "gone",
                run |-> IdlePod]]
  /\ UNCHANGED <<conn, replica, phase>>

(* The deployment is through: the job is triggered.                        *)
StartRotation ==
  /\ phase = "before" /\ phase' = "rotating"
  /\ \A p \in Pods : pod[p].up \notin (IF p \in New THEN {"no"} ELSE {"serving"})
  /\ UNCHANGED <<conn, replica, pod>>

findConnectionsForReEncryption == IF Stale(conn) THEN {conn} ELSE {}

(* Nothing makes the operator wait until the pods with the first key alone *)
(* are gone: "rushed" is a removal while one of them is still draining.    *)
RemoveFirstKey ==
  /\ phase = "rotating" /\ findConnectionsForReEncryption = {}
  /\ phase' = IF \A p \in Old : pod[p].up = "gone" THEN "removing" ELSE "rushed"
  /\ UNCHANGED <<conn, replica, pod>>

TokensNext ==
  \/ CatchUp \/ NearExpiry \/ StartRotation \/ RemoveFirstKey
  \/ \E p \in Pods :
       \/ Consent(p) \/ storeConnection(p)
       \/ getValidAccessToken(p) \/ refreshAccessToken(p)
       \/ UpdateAccess(p) \/ MarkError(p)
       \/ processReEncryptionJob(p) \/ UpdateReEncrypted(p)
       \/ Deploy(p) \/ Terminate(p) \/ gracefulShutdown(p) \/ Exit(p)

-----------------------------------------------------------------------------
(* Properties                                                              *)

(***************************************************************************)
(* Once the search for stale rows comes out empty, with no pod left that   *)
(* has only the first key, the access token stays under the second one: no *)
(* refresh, callback, job or late answer of the replica that is under way  *)
(* puts it back, and nothing needs the first key for it.  "Old key         *)
(* versions are NOT removed until all data migrates"                       *)
(* (reencryption.worker.ts) holds no further: after a rushed removal a     *)
(* draining pod can store an access token under the key that is gone, and  *)
(* the search never looks at the refresh token.                            *)
(***************************************************************************)
AccessStaysMoved == phase = "removing" => Key(conn.access) = 2
===============================================================================
