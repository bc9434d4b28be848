---------------------------- MODULE RequestLimits ----------------------------
(***************************************************************************)
(* The rate limits of the routes (middleware/rate-limiter.ts), as one      *)
(* caller meets them: a user, or an address.  Each preset has its points   *)
(* and its window, and counts in Redis; while Redis fails, a process       *)
(* counts in its own memory, one counter for each preset.                  *)
(*                                                                         *)
(* Presets of one factory have one prefix, so in Redis they share counter  *)
(* and window: the preset that opens a window gives it its length, and the *)
(* requests of all count against each.                                     *)
(***************************************************************************)
EXTENDS Naturals, FiniteSets, FiniteSetsExt

CONSTANTS Presets,     \* presets of one factory, by name
          points,      \* points[p], in a window of
          windows,     \* windows[p] ticks
          Servers      \* processes

Redis == "redis"

ASSUME LimitsAssumption ==
  /\ IsFiniteSet(Presets) /\ Presets # {} /\ Redis \notin Servers
  /\ points \in [Presets -> Nat \ {0}]
  /\ windows \in [Presets -> Nat \ {0}]

VARIABLES
  redisUp,
  shared,    \* the counter in Redis
  memory,    \* memory[s][p]: that of a process, for one preset
  admitted   \* history: admitted[w][p][a], the requests that counter w let
             \* through a ticks ago

limitVars == <<redisUp, shared, memory, admitted>>

Longest == Max({windows[p] : p \in Presets})
Shortest == Min({windows[p] : p \in Presets})
Most == Max({points[p] : p \in Presets})

\* A counter with the ticks its window has left; it is gone with them.
NoCounter == [consumed |-> 0, left |-> 0]

LimitsInit ==
  /\ redisUp = TRUE
  /\ shared = NoCounter
  /\ memory = [s \in Servers |-> [p \in Presets |-> NoCounter]]
  /\ admitted = [w \in Servers \cup {Redis} |-> [p \in Presets |-> [a \in 0 .. Longest - 1 |-> 0]]]

-----------------------------------------------------------------------------
(* consume: the first request of a window opens it for the preset's time;  *)
(* every request counts, also one that is refused.  Beyond the points of   *)
(* every preset the count makes no difference.                             *)
consumed(counter, p) ==
  [consumed |-> Min({counter.consumed + 1, Most + 1}),
   left |-> IF counter.left = 0 THEN windows[p] ELSE counter.left]

consumedAnew(counter, p) ==  \* mutant: a refused request drops its counter
  IF counter.consumed < points[p] THEN consumed(counter, p) ELSE NoCounter

consume(counter, p) == consumed(counter, p)

Judge(counter, w, p) ==
  IF counter.consumed < points[p]
  THEN admitted' = [admitted EXCEPT ![w][p][0] = @ + 1]
  ELSE UNCHANGED admitted

(* createRateLimiterHandler: the Redis counter decides, or the insurance   *)
(* of the process when the command fails.  That one does not fail, so that *)
(* whether a preset fails open or closed makes no difference.              *)
Handle(s, p) ==
  /\ \/ /\ redisUp
        /\ shared' = consume(shared, p) /\ UNCHANGED memory
        /\ Judge(shared, Redis, p)
     \/ /\ ~redisUp
        /\ memory' = [memory EXCEPT ![s][p] = consume(@, p)] /\ UNCHANGED shared
        /\ Judge(memory[s][p], s, p)
  /\ UNCHANGED redisUp

-----------------------------------------------------------------------------
(* Redis cannot be reached, and can again, with the counters it had. *)
RedisTurns == redisUp' = ~redisUp /\ UNCHANGED <<shared, memory, admitted>>

Older(counter) ==
  IF counter.left <= 1 THEN NoCounter ELSE [counter EXCEPT !.left = @ - 1]

LimitsTick ==
  /\ shared' = Older(shared)
  /\ memory' = [s \in Servers |-> [p \in Presets |-> Older(memory[s][p])]]
  /\ admitted' = [w \in DOMAIN admitted |-> [p \in Presets |->
                    [a \in 0 .. Longest - 1 |-> IF a = 0 THEN 0 ELSE admitted[w][p][a - 1]]]]
  /\ UNCHANGED redisUp

LimitsNext ==
  \/ \E s \in Servers, p \in Presets : Handle(s, p)
  \/ RedisTurns
  \/ LimitsTick

LimitsSpec == LimitsInit /\ [][LimitsNext]_limitVars

-----------------------------------------------------------------------------
(* Properties                                                              *)

\* The requests of some presets that a counter let through in the last ticks, numbered.
LetThrough(x, P, A) == UNION { {<<p, a>>} \X (1 .. x[p][a]) : p \in P, a \in A }

Through(w, P, ticks) == Cardinality(LetThrough(admitted[w], P, 0 .. ticks - 1))

(***************************************************************************)
(* A limit holds although its windows are fixed, its counter is shared     *)
(* with other presets, and every process counts for itself while Redis is  *)
(* away: in the time of the shortest window that shares the counter, a     *)
(* preset lets fewer than twice its points through by Redis, and in the    *)
(* time of its own window fewer than twice its points by each process.     *)
(* All presets together get no more from Redis than the widest might have  *)
(* alone.                                                                  *)
(***************************************************************************)
AdmissionsAreBounded ==
  /\ \A p \in Presets :
       /\ Through(Redis, {p}, Shortest) < 2 * points[p]
       /\ \A s \in Servers : Through(s, {p}, windows[p]) < 2 * points[p]
  /\ Through(Redis, Presets, Shortest) < 2 * Most
=============================================================================
