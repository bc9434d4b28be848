----------------------------- MODULE ReadCaches -----------------------------
(***************************************************************************)
(* What the dashboards and the analytics of a user show: answers computed  *)
(* from the user's rows and kept in a cache, the dashboard's in the memory *)
(* of the process that computed it, the analytics' in Redis.               *)
(*                                                                         *)
(* Sources: dashboard.service.ts, analytics.service.ts, lib/cache.ts,      *)
(* cache.service.ts, and the writers that call invalidateUser.             *)
(*                                                                         *)
(* An answer is abstracted to the version of the user's rows it was        *)
(* computed from, a key to the sequence of the parts of its name.          *)
(***************************************************************************)
EXTENDS Naturals, Sequences, FiniteSets, SequencesExt

CONSTANTS Users,
          Processes,  \* the API and the worker: each has its own memory
          Readers,    \* requests that read; reader r runs in Home[r]
          Writers,    \* requests and jobs that write; writer w runs in Home[w]
          Home,       \* the process of a reader or a writer
          Writes,     \* what a writer may write: "status" or "action"
          Dashboards, \* the dashboards a reader may ask for
          Analytics,  \* the analytics a reader may ask for, e.g. "funnel"
          RedisFails  \* whether a call to Redis may fail

ASSUME CacheConstants ==
  /\ Dashboards \subseteq {"summary", "activity", "upcoming"}
  /\ RedisFails \in BOOLEAN
  /\ Home \in [Readers \cup Writers -> Processes]
  /\ Writes \in [Writers -> SUBSET {"status", "action"}]
  /\ Readers \cap Writers = {} /\ Users \cap Analytics = {}

VARIABLES
  version,  \* the version of a user's rows
  memory,   \* the dashboards cached by each process
  redis,    \* the analytics cached by all of them
  reader,
  writer,
  told      \* history: the newest status version a process announced, by user

cacheVars == <<version, memory, redis, reader, writer, told>>

\* The names of the keys, part by part.
DashboardKey(u, kind) == <<u, kind>>
AnalyticsKey(u, kind) == <<"analytics", kind, u>>
DashboardKeys == {DashboardKey(u, k) : u \in Users, k \in Dashboards}
AnalyticsKeys == {AnalyticsKey(u, k) : u \in Users, k \in Analytics}
Questions == {[user |-> u, kind |-> k] : u \in Users, k \in Dashboards \cup Analytics}
Key(q) == IF q.kind \in Dashboards THEN DashboardKey(q.user, q.kind)
                                   ELSE AnalyticsKey(q.user, q.kind)

\* A cached answer: its version, and whether a write was announced while it
\* was being computed.
Absent == [version |-> 0, raced |-> FALSE]
Answer == [version : Nat, raced : BOOLEAN]
NoQuestion == [user |-> "none", kind |-> "none"]
Asleep == [step |-> "idle", question |-> NoQuestion, answer |-> Absent]

CacheInit ==
  /\ version = [u \in Users |-> 1]
  /\ memory = [p \in Processes |-> [k \in DashboardKeys |-> Absent]]
  /\ redis = [k \in AnalyticsKeys |-> Absent]
  /\ reader = [r \in Readers |-> Asleep]
  /\ writer = [w \in Writers |-> [step |-> "idle", user |-> "none", kind |-> "none"]]
  /\ told = [p \in Processes |-> [u \in Users |-> 0]]

Cached(r, q) == IF q.kind \in Dashboards THEN memory[Home[r]][Key(q)]
                                         ELSE redis[Key(q)]

-----------------------------------------------------------------------------

\* The entries of a cache without those whose name starts with a prefix.
Without(entries, prefix) ==
  [k \in DOMAIN entries |-> IF IsPrefix(prefix, k) THEN Absent ELSE entries[k]]

\* What a call to Redis leaves: what it asked for, or nothing of it when it
\* fails, which the cache service logs and hides.
ByRedis(wanted) == {wanted} \cup IF RedisFails THEN {redis} ELSE {}

\* A read that misses its cache asks the database; a hit is answered at once.
\* A Redis that fails reads as a miss.
Ask(r, q) ==
  /\ reader[r].step = "idle"
  /\ Cached(r, q) = Absent \/ (q.kind \in Analytics /\ RedisFails)
  /\ reader' = [reader EXCEPT ![r] = [step |-> "query", question |-> q,
                                      answer |-> Absent]]
  /\ UNCHANGED <<version, memory, redis, writer, told>>

\* The database answers from the rows it holds.
Query(r) ==
  /\ reader[r].step = "query"
  /\ reader' = [reader EXCEPT ![r].step = "fill",
                              ![r].answer.version = version[reader[r].question.user]]
  /\ UNCHANGED <<version, memory, redis, writer, told>>

\* The answer goes into the cache; a Redis that fails drops it.
Fill(r) ==
  /\ reader[r].step = "fill"
  /\ LET q == reader[r].question IN
       IF q.kind \in Dashboards
       THEN /\ memory' = [memory EXCEPT ![Home[r]][Key(q)] = reader[r].answer]
            /\ UNCHANGED redis
       ELSE /\ redis' \in ByRedis([redis EXCEPT ![Key(q)] = reader[r].answer])
            /\ UNCHANGED memory
  /\ reader' = [reader EXCEPT ![r] = Asleep]
  /\ UNCHANGED <<version, writer, told>>

\* A status change, an action or an outcome commits its rows.
Write(w, u, kind) ==
  /\ writer[w].step = "idle"
  /\ kind \in Writes[w]
  /\ version' = [version EXCEPT ![u] = @ + 1]
  /\ writer' = [writer EXCEPT ![w] = [step |-> "tell", user |-> u, kind |-> kind]]
  /\ UNCHANGED <<memory, redis, reader, told>>

DropNothing(w) == memory  \* mutant: the dashboards of the user stay
\* The dashboards of the process, without those of the writer's user.
Drop(w) == [memory EXCEPT ![Home[w]] = Without(@, <<writer[w].user>>)]

\* A status change drops the user's dashboards of its own process; an action
\* or an outcome asks Redis to drop the user's analytics.
Invalidate(w) ==
  LET u == writer[w].user IN
  \/ /\ writer[w].kind = "status"
     /\ memory' = Drop(w)
     /\ told' = [told EXCEPT ![Home[w]][u] = version[u]]
     /\ UNCHANGED redis
  \/ /\ writer[w].kind = "action"
     /\ redis' \in ByRedis(Without(redis, <<"analytics", u>>))
     /\ UNCHANGED <<memory, told>>

\* The writer announces its write, after its commit.
Tell(w) ==
  /\ writer[w].step = "tell"
  /\ Invalidate(w)
  /\ reader' = [r \in Readers |->
       IF /\ reader[r].step # "idle"
          /\ reader[r].question.user = writer[w].user
          /\ IF writer[w].kind = "status"
             THEN reader[r].question.kind \in Dashboards /\ Home[r] = Home[w]
             ELSE reader[r].question.kind \in Analytics
       THEN [reader[r] EXCEPT !.answer.raced = TRUE] ELSE reader[r]]
  /\ writer' = [writer EXCEPT ![w].step = "done"]
  /\ UNCHANGED version

\* The time to live of an entry runs out.
Expire ==
  \/ \E p \in Processes, k \in DashboardKeys :
       /\ memory[p][k] # Absent
       /\ memory' = [memory EXCEPT ![p][k] = Absent]
       /\ UNCHANGED <<version, redis, reader, writer, told>>
  \/ \E k \in AnalyticsKeys :
       /\ redis[k] # Absent
       /\ redis' = [redis EXCEPT ![k] = Absent]
       /\ UNCHANGED <<version, memory, reader, writer, told>>

CacheNext ==
  \/ \E r \in Readers : Query(r) \/ Fill(r) \/ \E q \in Questions : Ask(r, q)
  \/ \E w \in Writers :
       Tell(w) \/ \E u \in Users, kind \in {"status", "action"} : Write(w, u, kind)
  \/ Expire

CacheSpec == CacheInit /\ [][CacheNext]_cacheVars

-----------------------------------------------------------------------------

(***************************************************************************)
(* A user who changes a status sees it: in the process that made the       *)
(* change, a dashboard cached after the change was announced is not older  *)
(* than it.  The exception is an answer whose computation the announcement *)
(* overlapped, which stays for its time to live.                           *)
(***************************************************************************)
ReadYourWrites ==
  \A p \in Processes, u \in Users, k \in Dashboards :
    LET e == memory[p][DashboardKey(u, k)] IN
      e # Absent /\ ~e.raced => e.version >= told[p][u]

=============================================================================
