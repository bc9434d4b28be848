----------------------------- MODULE UserPlacement -----------------------------
(***************************************************************************)
(* Where the data of one user lives: the region in the row of the user,    *)
(* the cells, the placement context that PlacementService keeps in the     *)
(* memory of each process and in Redis, the jobs that carry a cell, and a  *)
(* move of the user to another region.  The shard of a user is a function  *)
(* of the user's id, so that a cell is named by its region here.           *)
(*                                                                         *)
(* Time passes in ticks.  A call and a change on its way to the replica    *)
(* outlive one tick and not two, and a context lives RedisTtl ticks in     *)
(* Redis and InProcessTtl ticks in a process.                              *)
(***************************************************************************)
EXTENDS Integers, FiniteSets

CONSTANTS
  Regions,       \* SUPPORTED_REGIONS, as far as moves name them
  DefaultRegion, \* DEFAULT_REGION
  Hosts,         \* processes with a PlacementService
  Workers,       \* those of them that run the jobs
  RedisTtl,
  InProcessTtl,
  JobAttempts,   \* attempts of a job
  MaxMoves       \* bound: calls of setUserRegion

ASSUME DefaultIsSupported == DefaultRegion \in Regions
ASSUME RegionsHaveNames == "" \notin Regions
ASSUME TtlsAreTicks == RedisTtl \in Nat /\ InProcessTtl \in Nat \ {0}

VARIABLES
  home,      \* the row of the user: its region and its residency
  homeShown, \* the same row, as the replica shows it
  cells,     \* the regions whose cell of this user has a row
  inRedis,   \* the context under placement:v1:<user>, and the ticks it has left
  inProcess, \* the same in each process
  asking,    \* the call of each process to the service
  cellJob,   \* a job of the user: its cell, its attempts and how it ended
  gone,      \* ticks since the row last named a region, up to Limit + 1
  early,     \* some move read a replica without the row
  moves

placementVars == <<home, homeShown, cells, inRedis, inProcess, asking, cellJob,
                   gone, early, moves>>

NoHome == [region |-> "", residency |-> ""]
Nothing == [ctx |-> "", left |-> 0]
Silence == [at |-> "", for |-> "", ctx |-> "", old |-> FALSE]
NoJob == [cell |-> "", tried |-> 0, state |-> "none"]

(* How long ago a region that a process is told may have been the user's:  *)
(* a tick on the way to the replica, one in the call that reads it, and    *)
(* the lives of the two entries that copy it.                              *)
Limit == 2 + RedisTtl + InProcessTtl

PlacementInit ==
  /\ home = NoHome /\ homeShown = NoHome /\ cells = {}
  /\ inRedis = Nothing /\ inProcess = [h \in Hosts |-> Nothing]
  /\ asking = [h \in Hosts |-> Silence]
  /\ cellJob = NoJob
  /\ gone = [r \in Regions |-> IF r = DefaultRegion THEN 0 ELSE Limit + 1]
  /\ early = FALSE /\ moves = 0

KeepPlace == UNCHANGED <<home, homeShown, gone, early, moves>>
-----------------------------------------------------------------------------
(* getOrCreateUser: every caller leaves the region at its default.  The    *)
(* cell is created first, and two creators race: the loser of the cell     *)
(* ends in an error, the loser of the user finds the row.                  *)
\* mutant: the region is taken from the hints of the request
RegionOfHints == CHOOSE r \in Regions : r # DefaultRegion

RegionAtCreation == DefaultRegion

GetOrCreateCell(h) ==
  /\ asking[h] = Silence /\ home = NoHome
  /\ cells' = cells \cup {RegionAtCreation}
  /\ asking' = [asking EXCEPT ![h] = [Silence EXCEPT !.at = "create"]]
  /\ UNCHANGED <<home, homeShown, inRedis, inProcess, cellJob, gone, early, moves>>

CreateUser(h) ==
  /\ asking[h].at = "create"
  /\ home' = IF home # NoHome THEN home
             ELSE [region |-> RegionAtCreation, residency |-> RegionAtCreation]
  /\ gone' = IF home # NoHome THEN gone ELSE [gone EXCEPT ![RegionAtCreation] = 0]
  /\ asking' = [asking EXCEPT ![h] = Silence]
  /\ UNCHANGED <<homeShown, cells, inRedis, inProcess, cellJob, early, moves>>
-----------------------------------------------------------------------------
(* What a call is for: an upload publishes a job with the cell that its    *)
(* process is told; a worker takes the job only into a routable cell that  *)
(* the job names; and resolveUserRouting, of the services that write       *)
(* facts, creates the cell of the region that it is told.                  *)
Publish(ctx) ==
  cellJob' = [NoJob EXCEPT !.cell = ctx, !.state = "waiting"]

ensureRoutable(ctx) == ctx \in cells

WorkIn(ctx) ==
  cellJob' =
    IF ensureRoutable(ctx) /\ cellJob.cell = ctx
    THEN [cellJob EXCEPT !.state = "done"]
    ELSE [cellJob EXCEPT !.tried = @ + 1,
                         !.state = IF cellJob.tried + 1 < JobAttempts THEN @ ELSE "dead"]

resolveUserHomeCell(ctx) == cells' = cells \cup {ctx}

Purposes(h) == IF h \in Workers THEN {"work", "route"} ELSE {"publish"}

Told(purpose, ctx) ==
  \/ purpose = "publish" /\ Publish(ctx) /\ UNCHANGED cells
  \/ purpose = "work" /\ WorkIn(ctx) /\ UNCHANGED cells
  \/ purpose = "route" /\ resolveUserHomeCell(ctx) /\ UNCHANGED cellJob

ToldNothing == UNCHANGED <<cellJob, cells>>

(* resolvePlacementContext: the memory of the process, Redis, the replica, *)
(* and the deterministic fallback when the row is not there.               *)
readInProcess(h) == inProcess[h].left > 0

writeInProcess(h, ctx) ==
  inProcess' = [inProcess EXCEPT ![h] = [ctx |-> ctx, left |-> InProcessTtl]]

AskPlacement(h, purpose) ==
  /\ asking[h] = Silence /\ home # NoHome
  /\ purpose = "publish" => cellJob.state \notin {"waiting"}
  /\ purpose = "work" => cellJob.state = "waiting"
  /\ IF readInProcess(h)
     THEN Told(purpose, inProcess[h].ctx) /\ UNCHANGED <<asking, inProcess>>
     ELSE /\ asking' = [asking EXCEPT ![h] = [Silence EXCEPT !.at = "redis", !.for = purpose]]
          /\ ToldNothing /\ UNCHANGED inProcess
  /\ KeepPlace /\ UNCHANGED inRedis

ReadCached(h) ==
  /\ asking[h].at = "redis"
  /\ \/ /\ inRedis # Nothing
        /\ writeInProcess(h, inRedis.ctx) /\ Told(asking[h].for, inRedis.ctx)
        /\ asking' = [asking EXCEPT ![h] = Silence]
     \/ /\ asking' = [asking EXCEPT ![h].at = "db"]  \* a miss, or Redis fails
        /\ ToldNothing /\ UNCHANGED inProcess
  /\ KeepPlace /\ UNCHANGED inRedis

computeFallbackContext == DefaultRegion

ShownRegion == IF homeShown = NoHome THEN computeFallbackContext ELSE homeShown.region

readFromDatabase(h) ==
  /\ asking[h].at = "db"
  /\ asking' = [asking EXCEPT ![h].at = "store", ![h].ctx = ShownRegion]
  /\ KeepPlace /\ ToldNothing /\ UNCHANGED <<inRedis, inProcess>>

StoreCached(h) ==
  /\ asking[h].at = "store"
  /\ \/ inRedis' = [ctx |-> asking[h].ctx, left |-> RedisTtl]
     \/ UNCHANGED inRedis  \* Redis fails
  /\ writeInProcess(h, asking[h].ctx) /\ Told(asking[h].for, asking[h].ctx)
  /\ asking' = [asking EXCEPT ![h] = Silence]
  /\ KeepPlace
-----------------------------------------------------------------------------
(* setUserRegion: the residency goes along when it is equal to the region  *)
(* that the replica shows; then the caches of this process and Redis are   *)
(* cleared, as far as Redis answers.                                       *)
ResidencyMigrates == homeShown # NoHome /\ homeShown.residency = homeShown.region

BeginMove(h) ==
  /\ asking[h] = Silence /\ home # NoHome /\ moves < MaxMoves
  /\ asking' = [asking EXCEPT ![h] =
       [Silence EXCEPT !.at = "move", !.for = IF ResidencyMigrates THEN "both" ELSE "region"]]
  /\ early' = (early \/ homeShown = NoHome)
  /\ moves' = moves + 1
  /\ UNCHANGED <<home, homeShown, cells, inRedis, inProcess, cellJob, gone>>

setUserRegion(h, r) ==
  /\ asking[h].at = "move"
  /\ home' = [region |-> r,
              residency |-> IF asking[h].for = "both" THEN r ELSE home.residency]
  /\ gone' = [gone EXCEPT ![r] = 0]
  /\ asking' = [asking EXCEPT ![h] = [@ EXCEPT !.at = "invalidate", !.for = ""]]
  /\ UNCHANGED <<homeShown, cells, inRedis, inProcess, cellJob, early, moves>>

invalidateCache(h) ==
  /\ asking[h].at = "invalidate"
  /\ inProcess' = [inProcess EXCEPT ![h] = Nothing]
  /\ inRedis' \in {Nothing, inRedis}
  /\ asking' = [asking EXCEPT ![h] = Silence]
  /\ KeepPlace /\ ToldNothing

ReplicaShowsHome ==
  /\ homeShown # home /\ homeShown' = home
  /\ UNCHANGED <<home, cells, inRedis, inProcess, asking, cellJob, gone, early, moves>>

Later(e) == IF e.left <= 1 THEN Nothing ELSE [e EXCEPT !.left = @ - 1]

(* A tick, unless the replica or a call is already a tick behind.          *)
PlacementTick ==
  /\ home # NoHome
  /\ home = homeShown \/ gone[ShownRegion] = 0
  /\ \A h \in Hosts : ~asking[h].old
  /\ asking' = [h \in Hosts |-> IF asking[h] = Silence THEN Silence
                                ELSE [asking[h] EXCEPT !.old = TRUE]]
  /\ gone' = [r \in Regions |-> IF r = home.region THEN 0
                                ELSE IF gone[r] > Limit THEN gone[r] ELSE gone[r] + 1]
  /\ inRedis' = Later(inRedis)
  /\ inProcess' = [h \in Hosts |-> Later(inProcess[h])]
  /\ UNCHANGED <<home, homeShown, cells, cellJob, early, moves>>

PlacementNext ==
  \/ \E h \in Hosts :
       \/ GetOrCreateCell(h) \/ CreateUser(h)
       \/ \E purpose \in Purposes(h) : AskPlacement(h, purpose)
       \/ ReadCached(h) \/ readFromDatabase(h) \/ StoreCached(h)
       \/ BeginMove(h) \/ \E r \in Regions : setUserRegion(h, r)
       \/ invalidateCache(h)
  \/ ReplicaShowsHome
  \/ PlacementTick
-----------------------------------------------------------------------------
(* No process is told a region that the user left longer ago than a call,  *)
(* the replica and one life in each of the two caches: a copy of a copy    *)
(* does not renew itself, and an invalidation that Redis misses or that a  *)
(* slow reader overtakes ends with the entry.                              *)
ContextsAge ==
  \A h \in Hosts :
    readInProcess(h) => gone[inProcess[h].ctx] + inProcess[h].left <= Limit

(* A job is given up for its cell only when the user has moved: before the *)
(* row is on the replica, the fallback names the cell that the row names.  *)
RefusedOnlyAfterMoves == cellJob.state = "dead" => moves > 0

(* The residency of a user is the region, unless a move came before the    *)
(* replica had the row.                                                    *)
ResidencyFollows == home.residency # home.region => early

PlacementHolds == ContextsAge /\ RefusedOnlyAfterMoves /\ ResidencyFollows
=============================================================================
