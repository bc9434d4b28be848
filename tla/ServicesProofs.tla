---------------------------- MODULE ServicesProofs ----------------------------
(***************************************************************************)
(* Theorems about machines that share no state, for any number of          *)
(* requests, processes and jobs: the dashboards a user sees after a change *)
(* of their own, the emails that arrive at one opportunity at once, the    *)
(* calls to the language models, the interviews and the patterns mined     *)
(* from them, the records of a career kept beside the applications, and    *)
(* the names of the companies.                                             *)
(***************************************************************************)
EXTENDS ReadCaches, Opportunities, AiPipeline, Interviews, CareerRecords, Directory,
        NumberFacts, FiniteSetTheorems, SequenceTheorems, TLAPS

-----------------------------------------------------------------------------
(* The dashboards.                                                         *)

Reading == [step : {"idle", "query", "fill"}, question : [user : Users \cup {"none"},
              kind : Dashboards \cup Analytics \cup {"none"}], answer : Answer]
Announcing == [step : {"idle", "tell", "done"}, user : Users \cup {"none"},
               kind : {"none", "status", "action"}]

\* Whoever reads reads for a user, and an answer to a dashboard that no announcement overlapped is
\* as new as what the process was told.
ReadingOK(r) ==
  LET b == reader[r] IN
  /\ b \in Reading
  /\ b.step # "idle" => b.question \in Questions
  /\ b.step = "fill" /\ b.question.kind \in Dashboards /\ ~b.answer.raced
       => b.answer.version >= told[Home[r]][b.question.user]

CacheInv ==
  /\ version \in [Users -> Nat] /\ told \in [Processes -> [Users -> Nat]]
  /\ \A p \in Processes, u \in Users : told[p][u] <= version[u]
  /\ memory \in [Processes -> [DashboardKeys -> Answer]]
  /\ DOMAIN reader = Readers /\ \A r \in Readers : ReadingOK(r)
  /\ writer \in [Writers -> Announcing]
  /\ \A w \in Writers : writer[w].step = "tell" => writer[w].user \in Users
  /\ ReadYourWrites

\* The key of a dashboard begins with its user.
LEMMA KeysBeginWithUsers ==
  ASSUME NEW u, NEW k
  PROVE  IsPrefix(<<u>>, DashboardKey(u, k))
<1>1. Len(<<u>>) = 1 /\ Len(<<u, k>>) = 2
  OBVIOUS
<1>2. SubSeq(<<u>>, 1, 1) = SubSeq(<<u, k>>, 1, 1)
  OBVIOUS
<1> QED
  BY <1>1, <1>2 DEF IsPrefix, DashboardKey

\* Two keys are one key only for one question.
LEMMA KeysTellUsers ==
  ASSUME NEW u, NEW k, NEW v, NEW m, DashboardKey(u, k) = DashboardKey(v, m)
  PROVE  u = v /\ k = m
BY DEF DashboardKey

\* The invariant holds at the start.
LEMMA CacheStarts == CacheInit => CacheInv
<1> SUFFICES ASSUME CacheInit PROVE CacheInv
  OBVIOUS
<1>1. Absent \in Answer
  BY DEF Absent, Answer
<1>2. version \in [Users -> Nat] /\ told \in [Processes -> [Users -> Nat]]
  BY DEF CacheInit
<1>3. \A p \in Processes, u \in Users : told[p][u] <= version[u]
  BY DEF CacheInit
<1>4. memory \in [Processes -> [DashboardKeys -> Answer]]
  BY <1>1 DEF CacheInit
<1>5. DOMAIN reader = Readers /\ \A r \in Readers : ReadingOK(r)
  <2>1. Asleep \in Reading /\ Asleep.step = "idle"
    BY <1>1 DEF Asleep, Reading, NoQuestion
  <2>2. \A r \in Readers : reader[r] = Asleep
    BY DEF CacheInit
  <2>3. DOMAIN reader = Readers
    BY DEF CacheInit
  <2> QED
    BY <2>1, <2>2, <2>3 DEF ReadingOK
<1>6. writer \in [Writers -> Announcing]
  BY DEF CacheInit, Announcing
<1>7. \A w \in Writers : writer[w].step = "tell" => writer[w].user \in Users
  BY DEF CacheInit
<1>8. ReadYourWrites
  <2>1. \A u \in Users, k \in Dashboards : DashboardKey(u, k) \in DashboardKeys
    BY DEF DashboardKeys
  <2>2. \A p \in Processes, u \in Users, k \in Dashboards : memory[p][DashboardKey(u, k)] = Absent
    BY <2>1 DEF CacheInit
  <2> QED
    BY <2>2 DEF ReadYourWrites
<1> QED
  BY <1>2, <1>3, <1>4, <1>5, <1>6, <1>7, <1>8 DEF CacheInv

\* A reader that does not move, while nothing is announced.
LEMMA ReadersStay ==
  ASSUME NEW S, UNCHANGED told,
         \A r \in S : ReadingOK(r) /\ reader'[r] = reader[r]
  PROVE  \A r \in S : ReadingOK(r)'
BY DEF ReadingOK

\* One reader moves on, and the others stay where they are.
ReaderMoves(r, b) ==
  /\ reader' = [reader EXCEPT ![r] = b]
  /\ UNCHANGED <<version, writer, told>>

\* A reader moves on: the caches stay sound if what it holds is.
LEMMA ReaderMovesOn ==
  ASSUME CacheInv, NEW r \in Readers, NEW b, ReaderMoves(r, b), b \in Reading,
         b.step # "idle" => b.question \in Questions,
         b.step = "fill" /\ b.question.kind \in Dashboards /\ ~b.answer.raced
           => b.answer.version >= told[Home[r]][b.question.user],
         memory' \in [Processes -> [DashboardKeys -> Answer]], ReadYourWrites'
  PROVE  CacheInv'
<1>1. DOMAIN reader' = Readers /\ reader'[r] = b
  BY DEF CacheInv, ReaderMoves
<1>2. UNCHANGED told
  BY DEF ReaderMoves
<1>3. ReadingOK(r)'
  BY <1>1, <1>2 DEF ReadingOK
<1>4. \A s \in Readers \ {r} : ReadingOK(s) /\ reader'[s] = reader[s]
  BY DEF CacheInv, ReaderMoves
<1>5. \A s \in Readers \ {r} : ReadingOK(s)'
  BY <1>2, <1>4, ReadersStay
<1>6. \A s \in Readers : ReadingOK(s)'
  BY <1>3, <1>5
<1>7. /\ version' \in [Users -> Nat] /\ told' \in [Processes -> [Users -> Nat]]
      /\ \A p \in Processes, u \in Users : told'[p][u] <= version'[u]
      /\ writer' \in [Writers -> Announcing]
      /\ \A w \in Writers : writer'[w].step = "tell" => writer'[w].user \in Users
  BY DEF CacheInv, ReaderMoves
<1> QED
  BY <1>1, <1>6, <1>7 DEF CacheInv

\* A question keeps the caches,
LEMMA AsksHold ==
  ASSUME CacheInv, NEW r \in Readers, NEW q \in Questions, Ask(r, q)
  PROVE  CacheInv'
<1> DEFINE b == [step |-> "query", question |-> q, answer |-> Absent]
<1>1. ReaderMoves(r, b) /\ UNCHANGED memory
  BY DEF Ask, ReaderMoves
<1>2. b \in Reading
  BY DEF Reading, Questions, Absent, Answer
<1>3. memory' \in [Processes -> [DashboardKeys -> Answer]] /\ ReadYourWrites'
  BY <1>1 DEF CacheInv, ReadYourWrites, ReaderMoves
<1>4. b.step = "query" /\ b.question = q
  OBVIOUS
<1> HIDE DEF b
<1> QED
  BY <1>1, <1>2, <1>3, <1>4, ReaderMovesOn

\* and its answer from the database,
LEMMA QueriesHold ==
  ASSUME CacheInv, NEW r \in Readers, Query(r)
  PROVE  CacheInv'
<1> DEFINE a == reader[r]
           b == [a EXCEPT !.step = "fill", !.answer.version = version[a.question.user]]
<1>0. ReadingOK(r) /\ r \in DOMAIN reader
  BY DEF CacheInv
<1>1. ReaderMoves(r, b) /\ UNCHANGED memory
  BY <1>0 DEF Query, ReaderMoves
<1>2. a \in Reading /\ a.question \in Questions /\ a.question.user \in Users
  BY <1>0 DEF ReadingOK, Query, Questions
<1>3. version[a.question.user] \in Nat
  BY <1>2 DEF CacheInv
<1>4. b.step = "fill" /\ b.question = a.question /\ b.answer.version = version[a.question.user]
  BY <1>2 DEF Reading, Answer
<1>5. b \in Reading
  BY <1>2, <1>3 DEF Reading, Answer
<1>6. told[Home[r]][a.question.user] <= version[a.question.user]
  BY <1>2, CacheConstants DEF CacheInv
<1>7. told[Home[r]][a.question.user] \in Nat
  BY <1>2, CacheConstants DEF CacheInv
<1>8. b.answer.version >= told[Home[r]][b.question.user]
  BY <1>3, <1>4, <1>6, <1>7
<1>9. memory' \in [Processes -> [DashboardKeys -> Answer]] /\ ReadYourWrites'
  BY <1>1 DEF CacheInv, ReadYourWrites, ReaderMoves
<1> HIDE DEF a, b
<1> QED
  BY <1>1, <1>2, <1>4, <1>5, <1>8, <1>9, ReaderMovesOn

\* and the fill of the cache,
LEMMA FillsHold ==
  ASSUME CacheInv, NEW r \in Readers, Fill(r)
  PROVE  CacheInv'
<1>0. ReadingOK(r) /\ r \in DOMAIN reader
  BY DEF CacheInv
<1>1. ReaderMoves(r, Asleep)
  BY DEF Fill, ReaderMoves
<1>2. Asleep \in Reading /\ Asleep.step = "idle"
  BY DEF Asleep, Reading, NoQuestion, Absent, Answer
<1>3. memory' \in [Processes -> [DashboardKeys -> Answer]] /\ ReadYourWrites'
  <2> DEFINE q == reader[r].question
             a == reader[r].answer
  <2>1. CASE q.kind \notin Dashboards
    <3>1. UNCHANGED <<memory, told>>
      BY <2>1 DEF Fill
    <3> QED
      BY <3>1 DEF CacheInv, ReadYourWrites
  <2>2. CASE q.kind \in Dashboards
    <3> DEFINE here == Home[r]
               key  == DashboardKey(q.user, q.kind)
    <3>1. memory' = [memory EXCEPT ![here][key] = a] /\ UNCHANGED told
      BY <2>2 DEF Fill, Key
    <3>2. q \in Questions /\ q.user \in Users /\ reader[r].step = "fill" /\ a \in Answer
      BY <1>0 DEF Fill, ReadingOK, Questions, Reading
    <3>3. here \in Processes
      BY CacheConstants
    <3>4. key \in DashboardKeys
      BY <2>2, <3>2 DEF DashboardKeys
    <3>5. ~a.raced => a.version >= told[here][q.user]
      BY <1>0, <2>2, <3>2 DEF ReadingOK
    <3>6. memory \in [Processes -> [DashboardKeys -> Answer]]
      BY DEF CacheInv
    <3> HIDE DEF key, here, a
    <3>7. memory' \in [Processes -> [DashboardKeys -> Answer]]
      BY <3>1, <3>2, <3>3, <3>4, <3>6
    <3>8. ASSUME NEW p \in Processes, NEW u \in Users, NEW k \in Dashboards
          PROVE  LET e == memory'[p][DashboardKey(u, k)] IN
                   e # Absent /\ ~e.raced => e.version >= told'[p][u]
      <4>1. DashboardKey(u, k) \in DashboardKeys
        BY DEF DashboardKeys
      <4>2. CASE p = here /\ DashboardKey(u, k) = key
        <5>1. u = q.user
          BY <4>2, KeysTellUsers DEF key
        <5>2. memory'[p][DashboardKey(u, k)] = a
          BY <3>1, <3>3, <3>4, <3>6, <4>1, <4>2
        <5> QED
          BY <3>1, <3>5, <4>2, <5>1, <5>2
      <4>3. CASE ~(p = here /\ DashboardKey(u, k) = key)
        <5>1. memory'[p][DashboardKey(u, k)] = memory[p][DashboardKey(u, k)]
          BY <3>1, <3>3, <3>4, <3>6, <4>1, <4>3
        <5> QED
          BY <3>1, <5>1 DEF CacheInv, ReadYourWrites
      <4> QED
        BY <4>2, <4>3
    <3> QED
      BY <3>7, <3>8 DEF ReadYourWrites
  <2> QED
    BY <2>1, <2>2
<1> QED
  BY <1>1, <1>2, <1>3, ReaderMovesOn

\* and a change by a writer,
LEMMA WritesHold ==
  ASSUME CacheInv, NEW w \in Writers, NEW u \in Users, NEW kind \in {"status", "action"},
         Write(w, u, kind)
  PROVE  CacheInv'
<1>1. UNCHANGED <<memory, told, reader>>
  BY DEF Write
<1>2. /\ version' \in [Users -> Nat]
      /\ \A v \in Users : version[v] <= version'[v] /\ version[v] \in Nat
  BY DEF Write, CacheInv
<1>3. told' \in [Processes -> [Users -> Nat]] /\ memory' \in [Processes -> [DashboardKeys -> Answer]]
  BY <1>1 DEF CacheInv
<1>4. \A p \in Processes, v \in Users : told'[p][v] <= version'[v]
  <2> TAKE p \in Processes, v \in Users
  <2>1. told[p][v] \in Nat /\ told[p][v] <= version[v] /\ version'[v] \in Nat
    BY <1>2 DEF CacheInv
  <2> QED
    BY <1>1, <1>2, <2>1
<1>5. DOMAIN reader' = Readers /\ \A r \in Readers : ReadingOK(r)'
  BY <1>1, ReadersStay DEF CacheInv
<1>6. /\ writer' \in [Writers -> Announcing]
      /\ \A x \in Writers : writer'[x].step = "tell" => writer'[x].user \in Users
  BY DEF Write, CacheInv, Announcing
<1>7. ReadYourWrites'
  BY <1>1 DEF CacheInv, ReadYourWrites
<1> QED
  BY <1>2, <1>3, <1>4, <1>5, <1>6, <1>7 DEF CacheInv

\* The announcement of a status change leaves no dashboard of the user in the memory of its
\* process; any other announcement leaves the memory as it was.
LEMMA AnnouncementsReach ==
  ASSUME CacheInv, NEW w \in Writers, Tell(w)
  PROVE  /\ memory' \in [Processes -> [DashboardKeys -> Answer]]
         /\ \A p \in Processes, key \in DashboardKeys : memory'[p][key] \in {memory[p][key], Absent}
         /\ told' \in [Processes -> [Users -> Nat]]
         /\ \A p \in Processes, u \in Users : told'[p][u] \in {told[p][u], version[u]}
         /\ \A p \in Processes, u \in Users :
              told'[p][u] # told[p][u] =>
                /\ writer[w].kind = "status" /\ p = Home[w] /\ u = writer[w].user
                /\ \A k \in Dashboards : memory'[p][DashboardKey(u, k)] = Absent
<1> DEFINE here == Home[w]
           user == writer[w].user
<1>1. here \in Processes /\ user \in Users
  BY CacheConstants DEF CacheInv, Tell
<1>2. /\ memory \in [Processes -> [DashboardKeys -> Answer]] /\ told \in [Processes -> [Users -> Nat]]
      /\ version \in [Users -> Nat]
  BY DEF CacheInv
<1>3. CASE writer[w].kind = "status"
  <2>1. memory' = [memory EXCEPT ![here] = Without(@, <<user>>)] /\ told' = [told EXCEPT ![here][user] = version[user]]
    BY <1>3 DEF Tell, Invalidate, Drop
  <2> DEFINE left == Without(memory[here], <<user>>)
  <2>2. left = [key \in DashboardKeys |-> IF IsPrefix(<<user>>, key) THEN Absent ELSE memory[here][key]]
    BY <1>1, <1>2 DEF Without
  <2>3. Absent \in Answer
    BY DEF Absent, Answer
  <2>4. left \in [DashboardKeys -> Answer]
    BY <1>1, <1>2, <2>2, <2>3
  <2>5. \A key \in DashboardKeys : left[key] \in {memory[here][key], Absent}
    BY <2>2
  <2>6. \A k \in Dashboards : left[DashboardKey(user, k)] = Absent
    <3> TAKE k \in Dashboards
    <3>1. DashboardKey(user, k) \in DashboardKeys
      BY <1>1 DEF DashboardKeys
    <3> QED
      BY <2>2, <3>1, KeysBeginWithUsers
  <2>7. memory' = [memory EXCEPT ![here] = left]
    BY <2>1
  <2> HIDE DEF left, here, user
  <2>8. memory' \in [Processes -> [DashboardKeys -> Answer]] /\ memory'[here] = left
    BY <1>1, <1>2, <2>4, <2>7
  <2>9. \A p \in Processes : p # here => memory'[p] = memory[p]
    BY <1>2, <2>7
  <2>10. told' \in [Processes -> [Users -> Nat]] /\ told'[here][user] = version[user]
    BY <1>1, <1>2, <2>1
  <2>11. \A p \in Processes, u \in Users : ~(p = here /\ u = user) => told'[p][u] = told[p][u]
    BY <1>1, <1>2, <2>1
  <2>12. \A p \in Processes, key \in DashboardKeys : memory'[p][key] \in {memory[p][key], Absent}
    BY <2>5, <2>8, <2>9
  <2>13. \A p \in Processes, u \in Users : told'[p][u] \in {told[p][u], version[u]}
    BY <2>10, <2>11
  <2>14. \A p \in Processes, u \in Users : told'[p][u] # told[p][u] =>
            /\ p = here /\ u = user
            /\ \A k \in Dashboards : memory'[p][DashboardKey(u, k)] = Absent
    BY <2>6, <2>8, <2>11
  <2> QED
    BY <1>3, <2>8, <2>10, <2>12, <2>13, <2>14 DEF here, user
<1>4. CASE writer[w].kind # "status"
  <2>1. UNCHANGED <<memory, told>>
    BY <1>4 DEF Tell, Invalidate
  <2> QED
    BY <1>2, <2>1
<1> QED
  BY <1>3, <1>4

\* A reader whose answer the announcement overlaps has it marked; another one's is not older than
\* what its process has now been told.
LEMMA ReadersHear ==
  ASSUME CacheInv, NEW w \in Writers, Tell(w), NEW r \in Readers
  PROVE  ReadingOK(r)'
<1> DEFINE b == reader[r]
           overlapped == /\ b.step # "idle" /\ b.question.user = writer[w].user
                         /\ IF writer[w].kind = "status"
                            THEN b.question.kind \in Dashboards /\ Home[r] = Home[w]
                            ELSE b.question.kind \in Analytics
<1>1. ReadingOK(r)
  BY DEF CacheInv
<1>2. reader'[r] = IF overlapped THEN [b EXCEPT !.answer.raced = TRUE] ELSE b
  BY DEF Tell
<1>3. CASE overlapped
  <2>1. b \in Reading
    BY <1>1 DEF ReadingOK
  <2>2. b.question \in Questions
    BY <1>1, <1>3 DEF ReadingOK
  <2>3. [b EXCEPT !.answer.raced = TRUE] \in Reading
    BY <2>1 DEF Reading, Answer
  <2>4. /\ reader'[r] \in Reading /\ reader'[r].question = b.question
        /\ reader'[r].answer.raced = TRUE
    BY <1>2, <1>3, <2>1, <2>3 DEF Reading, Answer
  <2> QED
    BY <2>2, <2>4 DEF ReadingOK
<1>4. CASE ~overlapped
  <2>1. reader'[r] = b
    BY <1>2, <1>4
  <2>2. CASE ~(b.step = "fill" /\ b.question.kind \in Dashboards /\ ~b.answer.raced)
    BY <1>1, <2>1, <2>2 DEF ReadingOK
  <2>3. CASE b.step = "fill" /\ b.question.kind \in Dashboards /\ ~b.answer.raced
    <3>1. b.question.user \in Users /\ Home[r] \in Processes
      BY <1>1, <2>3, CacheConstants DEF ReadingOK, Questions
    <3>2. told'[Home[r]][b.question.user] = told[Home[r]][b.question.user]
      BY <1>4, <2>3, <3>1, AnnouncementsReach
    <3> QED
      BY <1>1, <2>1, <2>3, <3>2 DEF ReadingOK
  <2> QED
    BY <2>2, <2>3
<1> QED
  BY <1>3, <1>4

\* and its announcement to a process,
LEMMA TellsHold ==
  ASSUME CacheInv, NEW w \in Writers, Tell(w)
  PROVE  CacheInv'
<1>1. UNCHANGED version /\ version \in [Users -> Nat]
  BY DEF Tell, CacheInv
<1>2. /\ memory' \in [Processes -> [DashboardKeys -> Answer]] /\ told' \in [Processes -> [Users -> Nat]]
      /\ \A p \in Processes, key \in DashboardKeys : memory'[p][key] \in {memory[p][key], Absent}
      /\ \A p \in Processes, u \in Users : told'[p][u] \in {told[p][u], version[u]}
  BY AnnouncementsReach
<1>3. \A p \in Processes, u \in Users : told'[p][u] <= version'[u]
  <2> TAKE p \in Processes, u \in Users
  <2>1. told[p][u] <= version[u] /\ version[u] \in Nat
    BY DEF CacheInv
  <2> QED
    BY <1>1, <1>2, <2>1
<1>4. DOMAIN reader' = Readers /\ \A r \in Readers : ReadingOK(r)'
  BY ReadersHear DEF Tell
<1>5. /\ writer' \in [Writers -> Announcing]
      /\ \A x \in Writers : writer'[x].step = "tell" => writer'[x].user \in Users
  BY DEF Tell, CacheInv, Announcing
<1>6. ReadYourWrites'
  <2> SUFFICES ASSUME NEW p \in Processes, NEW u \in Users, NEW k \in Dashboards
               PROVE  LET e == memory'[p][DashboardKey(u, k)] IN
                        e # Absent /\ ~e.raced => e.version >= told'[p][u]
    BY DEF ReadYourWrites
  <2>1. DashboardKey(u, k) \in DashboardKeys
    BY DEF DashboardKeys
  <2>2. CASE told'[p][u] # told[p][u]
    BY <2>2, AnnouncementsReach
  <2>3. CASE told'[p][u] = told[p][u]
    <3>1. CASE memory'[p][DashboardKey(u, k)] = memory[p][DashboardKey(u, k)]
      BY <2>3, <3>1 DEF CacheInv, ReadYourWrites
    <3>2. CASE memory'[p][DashboardKey(u, k)] = Absent
      BY <3>2
    <3> QED
      BY <1>2, <2>1, <3>1, <3>2
  <2> QED
    BY <2>2, <2>3
<1> QED
  BY <1>1, <1>2, <1>3, <1>4, <1>5, <1>6 DEF CacheInv

\* and the expiry of an answer.
LEMMA ExpiriesHold ==
  ASSUME CacheInv, Expire
  PROVE  CacheInv'
<1>1. UNCHANGED <<version, told, reader, writer>>
  BY DEF Expire
<1>2. /\ memory' \in [Processes -> [DashboardKeys -> Answer]]
      /\ \A p \in Processes, key \in DashboardKeys : memory'[p][key] \in {memory[p][key], Absent}
  <2>1. memory \in [Processes -> [DashboardKeys -> Answer]]
    BY DEF CacheInv
  <2>2. Absent \in Answer
    BY DEF Absent, Answer
  <2>3. CASE UNCHANGED memory
    BY <2>1, <2>3
  <2>4. CASE \E p \in Processes, k \in DashboardKeys : memory' = [memory EXCEPT ![p][k] = Absent]
    BY <2>1, <2>2, <2>4
  <2> QED
    BY <2>3, <2>4 DEF Expire
<1>3. \A r \in Readers : ReadingOK(r)'
  BY <1>1, ReadersStay DEF CacheInv
<1>4. ReadYourWrites'
  <2> SUFFICES ASSUME NEW p \in Processes, NEW u \in Users, NEW k \in Dashboards
               PROVE  LET e == memory'[p][DashboardKey(u, k)] IN
                        e # Absent /\ ~e.raced => e.version >= told'[p][u]
    BY DEF ReadYourWrites
  <2>1. DashboardKey(u, k) \in DashboardKeys
    BY DEF DashboardKeys
  <2>2. CASE memory'[p][DashboardKey(u, k)] = memory[p][DashboardKey(u, k)]
    BY <1>1, <2>2 DEF CacheInv, ReadYourWrites
  <2>3. CASE memory'[p][DashboardKey(u, k)] = Absent
    BY <2>3
  <2> QED
    BY <1>2, <2>1, <2>2, <2>3
<1> QED
  BY <1>1, <1>2, <1>3, <1>4 DEF CacheInv

(***************************************************************************)
(* A user who changes a status sees it: with any number of readers,        *)
(* writers and processes, and a Redis that may fail, no process shows a    *)
(* dashboard older than the last change it announced, except an answer     *)
(* whose computation that announcement overlapped.                         *)
(***************************************************************************)
THEOREM WritersReadTheirWrites == CacheSpec => []ReadYourWrites
<1>1. CacheInit => CacheInv
  BY CacheStarts
<1>2. CacheInv /\ [CacheNext]_cacheVars => CacheInv'
  <2> SUFFICES ASSUME CacheInv, [CacheNext]_cacheVars PROVE CacheInv'
    OBVIOUS
  <2>1. CASE UNCHANGED cacheVars
    <3>1. UNCHANGED <<version, memory, reader, writer, told>>
      BY <2>1 DEF cacheVars
    <3>2. \A r \in Readers : ReadingOK(r)'
      BY <3>1, ReadersStay DEF CacheInv
    <3>3. ReadYourWrites'
      BY <3>1 DEF CacheInv, ReadYourWrites
    <3> QED
      BY <3>1, <3>2, <3>3 DEF CacheInv
  <2>2. ASSUME NEW r \in Readers, Query(r) PROVE CacheInv'
    BY <2>2, QueriesHold
  <2>3. ASSUME NEW r \in Readers, Fill(r) PROVE CacheInv'
    BY <2>3, FillsHold
  <2>4. ASSUME NEW r \in Readers, NEW q \in Questions, Ask(r, q) PROVE CacheInv'
    BY <2>4, AsksHold
  <2>5. ASSUME NEW w \in Writers, Tell(w) PROVE CacheInv'
    BY <2>5, TellsHold
  <2>6. ASSUME NEW w \in Writers, NEW u \in Users, NEW kind \in {"status", "action"},
               Write(w, u, kind)
        PROVE  CacheInv'
    BY <2>6, WritesHold
  <2>7. CASE Expire
    BY <2>7, ExpiriesHold
  <2> QED
    BY <2>1, <2>2, <2>3, <2>4, <2>5, <2>6, <2>7 DEF CacheNext
<1>3. CacheInv => ReadYourWrites
  BY DEF CacheInv
<1> QED
  BY <1>1, <1>2, <1>3, PTL DEF CacheSpec

-----------------------------------------------------------------------------
(* The emails of many users at one opportunity.                            *)

Employers == Companies \cup {NoCompany}
Applied == Opportunity \cup {NoOpportunity}
Contacts == [company : Employers, email : Senders]
JobState == [step : Steps, second : BOOLEAN, company : Employers, todo : SUBSET Names,
             opp : Applied, seen : SUBSET Jobs, known : BOOLEAN, tries : Nat,
             lost : SUBSET ([domain : Domains] \cup Opportunity \cup Contacts)]

\* The rows there are, by their unique keys.
Rows == [domain : companies] \cup opportunities \cup recruiters

\* What a job knows at each step: the company it has resolved, the opportunity it has found, a
\* lost race behind each attempt, and none of them over the row it is about to create.
Knows(j, b) ==
  /\ b \in JobState
  /\ b.step \in {"alias", "lock", "find", "create"} => b.company \in Companies
  /\ b.step \in {"touch", "observe"} => b.opp \in Opportunity
  /\ IsFiniteSet(b.lost) /\ b.tries = Cardinality(b.lost)
  /\ b.step = "save" /\ b.company = NoCompany => [domain |-> Mail[j].domain] \notin b.lost
  /\ b.step = "create" => [company |-> b.company, role |-> Mail[j].role] \notin b.lost
  /\ b.step = "upsert" /\ ~b.known => [company |-> b.company, email |-> Mail[j].from] \notin b.lost

\* A job that records an observation holds the row, and nobody has recorded one since it looked.
Observing(j) ==
  job[j].step = "observe" =>
    rowLock[job[j].opp] = j /\ job[j].seen = observed[job[j].opp]

\* The tables, and at most one current observation in them for each opportunity.
Tables ==
  /\ companies \subseteq Domains /\ opportunities \subseteq Opportunity
  /\ recruiters \subseteq Contacts /\ alias \in [Names -> Employers]
  /\ rowLock \in [Opportunity -> Jobs \cup {Nobody}]
  /\ observed \in [Opportunity -> SUBSET Jobs]
  /\ \A o \in Opportunity : observed[o] = {} \/ \E k \in Jobs : observed[o] = {k}

OppInv ==
  /\ Tables
  /\ DOMAIN job = Jobs
  /\ \A j \in Jobs : Knows(j, job[j]) /\ job[j].lost \subseteq Rows /\ Observing(j)

\* A key of one table is no key of another.
LEMMA KeysTellTables ==
  ASSUME NEW c, NEW e, NEW r
  PROVE  /\ \A D : [company |-> c, role |-> r] \notin [domain : D]
         /\ \A D : [company |-> c, email |-> e] \notin [domain : D]
         /\ [company |-> c, role |-> r] \notin Contacts
         /\ [company |-> c, email |-> e] \notin Opportunity
         /\ \A d : [domain |-> d] \notin Opportunity /\ [domain |-> d] \notin Contacts
<1>1. \A d : [company |-> c, role |-> r] # [domain |-> d] /\ [company |-> c, email |-> e] # [domain |-> d]
  OBVIOUS
<1>2. \A k : [company |-> c, role |-> r] # [company |-> k, email |-> e]
  OBVIOUS
<1> QED
  BY DEF Contacts, Opportunity

\* The invariant holds at the start.
LEMMA OpportunitiesStart == OppInit => OppInv
<1> SUFFICES ASSUME OppInit PROVE OppInv
  OBVIOUS
<1>1. Tables
  BY DEF OppInit, Tables, Employers, Contacts
<1>2. DOMAIN job = Jobs /\ \A j \in Jobs : job[j] = Fresh(0, {})
  BY DEF OppInit
<1>3. \A j \in Jobs : Knows(j, Fresh(0, {}))
  BY FS_EmptySet DEF Knows, Fresh, JobState, Steps, Employers, Applied
<1>4. \A j \in Jobs : job[j].lost \subseteq Rows /\ Observing(j)
  BY <1>2 DEF Fresh, Observing
<1> QED
  BY <1>1, <1>2, <1>3, <1>4 DEF OppInv

\* One job moves on; no row disappears, and the rows that others observe are left alone.
LEMMA JobMovesOn ==
  ASSUME OppInv, NEW j \in Jobs, NEW b, job' = [job EXCEPT ![j] = b], Knows(j, b),
         b.lost \subseteq Rows', Rows \subseteq Rows', Tables',
         b.step = "observe" => rowLock'[b.opp] = j /\ b.seen = observed'[b.opp],
         \A k \in Jobs \ {j} : job[k].step = "observe" =>
           /\ rowLock'[job[k].opp] = rowLock[job[k].opp]
           /\ observed'[job[k].opp] = observed[job[k].opp]
  PROVE  OppInv'
<1>1. DOMAIN job' = Jobs /\ job'[j] = b
  BY DEF OppInv
<1>2. \A k \in Jobs \ {j} : job'[k] = job[k]
  BY DEF OppInv
<1>3. Knows(j, job'[j]) /\ job'[j].lost \subseteq Rows' /\ Observing(j)'
  BY <1>1 DEF Observing
<1>4. \A k \in Jobs \ {j} : Knows(k, job'[k]) /\ job'[k].lost \subseteq Rows'
  BY <1>2 DEF OppInv
<1>5. \A k \in Jobs \ {j} : Observing(k)'
  BY <1>2 DEF OppInv, Observing
<1> QED
  BY <1>1, <1>3, <1>4, <1>5 DEF OppInv

\* A job that does not take or leave a row of an opportunity leaves the others' alone.
LEMMA OneJobMoves ==
  ASSUME OppInv, NEW j \in Jobs, NEW b, job' = [job EXCEPT ![j] = b], Knows(j, b),
         b.lost \subseteq Rows', Rows \subseteq Rows', Tables',
         UNCHANGED <<rowLock, observed>>, b.step # "observe"
  PROVE  OppInv'
BY JobMovesOn

\* A job that loses a race has not lost it before.
LEMMA RacesAreLostOnce ==
  ASSUME OppInv, NEW j \in Jobs, NEW key, key \in Rows, key \notin job[j].lost,
         job' = Lose(j, key),
         UNCHANGED <<companies, alias, opportunities, recruiters, rowLock, observed>>
  PROVE  OppInv'
<1> DEFINE again == Fresh(job[j].tries + 1, job[j].lost \cup {key})
           last  == [again EXCEPT !.step = "failed"]
           b     == IF job[j].tries + 1 < Attempts THEN again ELSE last
<1>1. job' = [job EXCEPT ![j] = b]
  BY DEF Lose
<1>2. Knows(j, job[j]) /\ job[j].lost \subseteq Rows
  BY DEF OppInv
<1>3. UNCHANGED Rows /\ Tables'
  BY DEF Rows, Tables, OppInv
<1> DEFINE beaten == job[j].lost \cup {key}
<1>4. IsFiniteSet(beaten) /\ Cardinality(beaten) = job[j].tries + 1
  BY <1>2, FS_AddElement DEF Knows
<1>5. beaten \subseteq Rows /\ beaten \subseteq [domain : Domains] \cup Opportunity \cup Contacts
  <2>1. Rows \subseteq [domain : Domains] \cup Opportunity \cup Contacts
    BY DEF OppInv, Tables, Rows
  <2> QED
    BY <1>2, <2>1
<1>6. job[j].tries + 1 \in Nat
  BY <1>2 DEF Knows, JobState
<1> HIDE DEF beaten
<1>7. again \in JobState /\ again.lost = beaten /\ again.tries = job[j].tries + 1 /\ again.step = "queued"
  BY <1>5, <1>6 DEF beaten, Fresh, JobState, Steps, Employers, Applied
<1>8. last \in JobState /\ last.lost = beaten /\ last.tries = job[j].tries + 1 /\ last.step = "failed"
  BY <1>5, <1>6 DEF beaten, Fresh, JobState, Steps, Employers, Applied
<1>9. b \in JobState /\ b.lost = beaten /\ b.tries = job[j].tries + 1 /\ b.step \in {"queued", "failed"}
  BY <1>7, <1>8
<1> HIDE DEF again, last, b
<1>10. Knows(j, b)
  BY <1>4, <1>9 DEF Knows
<1> QED
  BY <1>1, <1>3, <1>5, <1>9, <1>10, OneJobMoves

\* What a lookup finds: the company of a name, or the job's own, or none while it has none.
LEMMA LookupsFind ==
  ASSUME OppInv, NEW j \in Jobs, NEW c \in Found(j)
  PROVE  c \in Employers /\ (c = NoCompany => Mail[j].domain \notin companies)
<1>1. \A n \in Mail[j].names : n \in Names
  BY DEF Names
<1>2. \A n \in Mail[j].names : alias[n] \in Employers
  BY <1>1 DEF OppInv, Tables
<1>3. Mail[j].domain \in Domains /\ Mail[j].domain # NoCompany
  BY OpportunityConstants DEF Domains
<1> QED
  BY <1>2, <1>3 DEF Found, Employers, Companies

\* A job that looks a company up keeps it,
LEMMA LookupsHold ==
  ASSUME OppInv, NEW j \in Jobs, Lookup(j)
  PROVE  OppInv'
<1>1. PICK c \in Found(j) : job' = [job EXCEPT ![j] = [@ EXCEPT !.step = "save", !.company = c]]
  BY DEF Lookup
<1> DEFINE b == [job[j] EXCEPT !.step = "save", !.company = c]
<1>2. Knows(j, job[j]) /\ job[j].lost \subseteq Rows /\ j \in DOMAIN job
  BY DEF OppInv
<1>3. c \in Employers /\ (c = NoCompany => Mail[j].domain \notin companies)
  BY LookupsFind
<1>4. /\ b \in JobState /\ b.step = "save" /\ b.company = c
      /\ b.lost = job[j].lost /\ b.tries = job[j].tries
  BY <1>2, <1>3 DEF Knows, JobState, Steps
<1>5. c = NoCompany => [domain |-> Mail[j].domain] \notin job[j].lost
  <2> SUFFICES ASSUME c = NoCompany, [domain |-> Mail[j].domain] \in job[j].lost PROVE FALSE
    OBVIOUS
  <2>1. [domain |-> Mail[j].domain] \in [domain : companies]
    BY <1>2, KeysTellTables DEF Rows, OppInv, Tables
  <2>2. Mail[j].domain \in companies
    BY <2>1
  <2> QED
    BY <1>3, <2>2
<1>6. UNCHANGED <<rowLock, observed>> /\ UNCHANGED Rows /\ Tables'
  BY DEF Lookup, Rows, OppInv, Tables
<1>7. job' = [job EXCEPT ![j] = b]
  BY <1>1, <1>2
<1> HIDE DEF b
<1>8. Knows(j, b)
  BY <1>2, <1>4, <1>5 DEF Knows
<1> QED
  BY <1>2, <1>4, <1>6, <1>7, <1>8, OneJobMoves

\* and one that saves it,
LEMMA CompaniesAreSaved ==
  ASSUME OppInv, NEW j \in Jobs, SaveCompany(j)
  PROVE  OppInv'
<1>1. Knows(j, job[j]) /\ job[j].lost \subseteq Rows /\ j \in DOMAIN job
  BY DEF OppInv
<1>2. Mail[j].domain \in Domains /\ Mail[j].names \subseteq Names
  BY DEF Domains, Names
<1>3. CASE job[j].company # NoCompany /\ UNCHANGED companies
    /\ job' = [job EXCEPT ![j] = [@ EXCEPT !.step = "alias", !.todo = Mail[j].names]]
  <2> DEFINE b == [job[j] EXCEPT !.step = "alias", !.todo = Mail[j].names]
  <2>1. /\ b \in JobState /\ b.step = "alias" /\ b.company = job[j].company
        /\ b.lost = job[j].lost /\ b.tries = job[j].tries
    BY <1>1, <1>2 DEF Knows, JobState, Steps
  <2>2. b.company \in Companies
    BY <1>1, <1>3, <2>1 DEF Knows, JobState, Employers
  <2>3. UNCHANGED <<rowLock, observed>> /\ UNCHANGED Rows /\ Tables'
    BY <1>3 DEF SaveCompany, Rows, OppInv, Tables
  <2>4. job' = [job EXCEPT ![j] = b]
    BY <1>1, <1>3
  <2> HIDE DEF b
  <2>5. Knows(j, b)
    BY <1>1, <2>1, <2>2 DEF Knows
  <2> QED
    BY <1>1, <2>1, <2>3, <2>4, <2>5, OneJobMoves
<1>4. CASE job[j].company = NoCompany /\ companies' = companies \cup {Mail[j].domain}
    /\ job' = [job EXCEPT ![j] = [@ EXCEPT !.step = "alias", !.todo = Mail[j].names,
                                           !.company = Mail[j].domain]]
  <2> DEFINE b == [job[j] EXCEPT !.step = "alias", !.todo = Mail[j].names,
                                 !.company = Mail[j].domain]
  <2>1. /\ b \in JobState /\ b.step = "alias" /\ b.company = Mail[j].domain
        /\ b.lost = job[j].lost /\ b.tries = job[j].tries
    BY <1>1, <1>2 DEF Knows, JobState, Steps, Employers, Companies
  <2>2. b.company \in Companies
    BY <1>2, <2>1 DEF Companies
  <2>3. UNCHANGED <<rowLock, observed>> /\ Rows \subseteq Rows' /\ Tables'
    BY <1>2, <1>4 DEF SaveCompany, Rows, OppInv, Tables
  <2>4. job' = [job EXCEPT ![j] = b]
    BY <1>1, <1>4
  <2> HIDE DEF b
  <2>5. Knows(j, b)
    BY <1>1, <2>1, <2>2 DEF Knows
  <2> QED
    BY <1>1, <2>1, <2>3, <2>4, <2>5, OneJobMoves
<1>5. CASE job[j].company = NoCompany /\ Mail[j].domain \in companies /\ UNCHANGED companies
    /\ job' = Lose(j, [domain |-> Mail[j].domain])
  <2>1. [domain |-> Mail[j].domain] \in Rows
    BY <1>5 DEF Rows
  <2>2. [domain |-> Mail[j].domain] \notin job[j].lost
    BY <1>1, <1>5 DEF SaveCompany, Knows
  <2>3. UNCHANGED <<companies, alias, opportunities, recruiters, rowLock, observed>>
    BY <1>5 DEF SaveCompany
  <2> QED
    BY <1>5, <2>1, <2>2, <2>3, RacesAreLostOnce
<1> QED
  BY <1>3, <1>4, <1>5 DEF SaveCompany

\* and one that upserts its alias,
LEMMA AliasesHold ==
  ASSUME OppInv, NEW j \in Jobs, UpsertAlias(j) \/ Resolved(j)
  PROVE  OppInv'
<1>1. Knows(j, job[j]) /\ job[j].lost \subseteq Rows /\ j \in DOMAIN job
  BY DEF OppInv
<1>2. job[j].step = "alias" /\ job[j].company \in Companies
  BY <1>1 DEF UpsertAlias, Resolved, Knows
<1>3. ASSUME NEW n \in job[j].todo, alias' = [alias EXCEPT ![n] = job[j].company],
             job' = [job EXCEPT ![j].todo = @ \ {n}],
             UNCHANGED <<companies, opportunities, observed, rowLock, recruiters>>
      PROVE  OppInv'
  <2> DEFINE b == [job[j] EXCEPT !.todo = @ \ {n}]
  <2>1. /\ b \in JobState /\ b.step = "alias" /\ b.company = job[j].company
        /\ b.lost = job[j].lost /\ b.tries = job[j].tries
    BY <1>1, <1>2 DEF Knows, JobState
  <2>2. UNCHANGED <<rowLock, observed>> /\ UNCHANGED Rows /\ Tables'
    BY <1>2, <1>3 DEF Rows, OppInv, Tables, Employers
  <2>3. job' = [job EXCEPT ![j] = b]
    BY <1>1, <1>3
  <2> HIDE DEF b
  <2>4. Knows(j, b)
    BY <1>1, <1>2, <2>1 DEF Knows
  <2> QED
    BY <1>1, <2>1, <2>2, <2>3, <2>4, OneJobMoves
<1>4. CASE Resolved(j)
  <2> DEFINE b == IF job[j].second THEN [job[j] EXCEPT !.step = "lock"]
                  ELSE [job[j] EXCEPT !.step = "lookup", !.second = TRUE]
  <2>1. /\ b \in JobState /\ b.step \in {"lock", "lookup"} /\ b.company = job[j].company
        /\ b.lost = job[j].lost /\ b.tries = job[j].tries
    BY <1>1 DEF Knows, JobState, Steps
  <2>2. UNCHANGED <<rowLock, observed>> /\ UNCHANGED Rows /\ Tables'
    BY <1>4 DEF Resolved, Rows, OppInv, Tables
  <2>3. job' = [job EXCEPT ![j] = b]
    BY <1>1, <1>4 DEF Resolved
  <2> HIDE DEF b
  <2>4. Knows(j, b)
    BY <1>1, <1>2, <2>1 DEF Knows
  <2> QED
    BY <1>1, <2>1, <2>2, <2>3, <2>4, OneJobMoves
<1> QED
  BY <1>3, <1>4 DEF UpsertAlias

\* and one that locks the opportunity,
LEMMA LocksHold ==
  ASSUME OppInv, NEW j \in Jobs, Lock(j)
  PROVE  OppInv'
<1> DEFINE b == [job[j] EXCEPT !.step = "find"]
<1>1. Knows(j, job[j]) /\ job[j].lost \subseteq Rows /\ j \in DOMAIN job
  BY DEF OppInv
<1>2. job[j].step = "lock" /\ job[j].company \in Companies
  BY <1>1 DEF Lock, Knows
<1>3. /\ b \in JobState /\ b.step = "find" /\ b.company = job[j].company
      /\ b.lost = job[j].lost /\ b.tries = job[j].tries
  BY <1>1 DEF Knows, JobState, Steps
<1>4. UNCHANGED <<rowLock, observed>> /\ UNCHANGED Rows /\ Tables'
  BY DEF Lock, Rows, OppInv, Tables
<1>5. job' = [job EXCEPT ![j] = b]
  BY <1>1 DEF Lock
<1> HIDE DEF b
<1>6. Knows(j, b)
  BY <1>1, <1>2, <1>3 DEF Knows
<1> QED
  BY <1>1, <1>3, <1>4, <1>5, <1>6, OneJobMoves

\* and one that finds it,
LEMMA FindsHold ==
  ASSUME OppInv, NEW j \in Jobs, Find(j)
  PROVE  OppInv'
<1>1. Knows(j, job[j]) /\ job[j].lost \subseteq Rows /\ j \in DOMAIN job
  BY DEF OppInv
<1>2. job[j].step = "find" /\ job[j].company \in Companies
  BY <1>1 DEF Find, Knows
<1>3. UNCHANGED <<rowLock, observed>> /\ UNCHANGED Rows /\ Tables'
  BY DEF Find, Rows, OppInv, Tables
<1>4. CASE Wanted(j) \notin opportunities /\ job' = [job EXCEPT ![j].step = "create"]
  <2> DEFINE b == [job[j] EXCEPT !.step = "create"]
  <2>1. /\ b \in JobState /\ b.step = "create" /\ b.company = job[j].company
        /\ b.lost = job[j].lost /\ b.tries = job[j].tries
    BY <1>1 DEF Knows, JobState, Steps
  <2>2. Wanted(j) \notin job[j].lost
    BY <1>1, <1>4, KeysTellTables DEF Rows, OppInv, Tables, Wanted
  <2>3. job' = [job EXCEPT ![j] = b]
    BY <1>1, <1>4
  <2> HIDE DEF b
  <2>4. Knows(j, b)
    BY <1>1, <1>2, <2>1, <2>2 DEF Knows, Wanted
  <2> QED
    BY <1>1, <1>3, <2>1, <2>3, <2>4, OneJobMoves
<1>5. ASSUME NEW o \in opportunities, job' = [job EXCEPT ![j] = [@ EXCEPT !.step = "touch", !.opp = o]]
      PROVE  OppInv'
  <2> DEFINE b == [job[j] EXCEPT !.step = "touch", !.opp = o]
  <2>1. o \in Opportunity
    BY DEF OppInv, Tables
  <2>2. /\ b \in JobState /\ b.step = "touch" /\ b.opp = o
        /\ b.lost = job[j].lost /\ b.tries = job[j].tries
    BY <1>1, <2>1 DEF Knows, JobState, Steps, Applied
  <2>3. job' = [job EXCEPT ![j] = b]
    BY <1>1, <1>5
  <2> HIDE DEF b
  <2>4. Knows(j, b)
    BY <1>1, <2>1, <2>2 DEF Knows
  <2> QED
    BY <1>1, <1>3, <2>2, <2>3, <2>4, OneJobMoves
<1> QED
  BY <1>4, <1>5 DEF Find

\* and one that touches it,
LEMMA TouchesHold ==
  ASSUME OppInv, NEW j \in Jobs, Touch(j)
  PROVE  OppInv'
<1> DEFINE o == job[j].opp
           b == [job[j] EXCEPT !.step = "observe", !.seen = observed[o]]
<1>1. Knows(j, job[j]) /\ job[j].lost \subseteq Rows /\ j \in DOMAIN job
  BY DEF OppInv
<1>2. o \in Opportunity /\ rowLock[o] = Nobody
  BY <1>1 DEF Touch, Knows
<1>3. observed[o] \in SUBSET Jobs /\ rowLock \in [Opportunity -> Jobs \cup {Nobody}]
  BY <1>2 DEF OppInv, Tables
<1>4. /\ b \in JobState /\ b.step = "observe" /\ b.opp = o /\ b.seen = observed[o]
      /\ b.lost = job[j].lost /\ b.tries = job[j].tries
  BY <1>1, <1>3 DEF Knows, JobState, Steps
<1>5. rowLock' = [rowLock EXCEPT ![o] = j] /\ job' = [job EXCEPT ![j] = b]
  BY <1>1 DEF Touch, TakesRow
<1>6. UNCHANGED observed /\ UNCHANGED Rows
  BY DEF Touch, Rows
<1>7. Tables'
  BY <1>2, <1>5 DEF Touch, OppInv, Tables
<1> HIDE DEF b
<1>8. Knows(j, b)
  BY <1>1, <1>2, <1>4 DEF Knows
<1>9. rowLock'[b.opp] = j /\ b.seen = observed'[b.opp]
  BY <1>2, <1>3, <1>4, <1>5, <1>6
<1>10. ASSUME NEW k \in Jobs \ {j}, job[k].step = "observe"
       PROVE  rowLock'[job[k].opp] = rowLock[job[k].opp]
  <2>1. rowLock[job[k].opp] = k /\ k # Nobody
    BY <1>10, JobsAreNamed DEF OppInv, Observing
  <2>2. job[k].opp # o
    BY <1>2, <2>1
  <2> QED
    BY <1>5, <2>2, <1>3
<1> QED
  BY <1>1, <1>4, <1>5, <1>6, <1>7, <1>8, <1>9, <1>10, JobMovesOn

\* and one that adds an observation,
LEMMA ObservationsHold ==
  ASSUME OppInv, NEW j \in Jobs, Observe(j)
  PROVE  OppInv'
<1> DEFINE o == job[j].opp
           b == [job[j] EXCEPT !.step = "recruit"]
<1>1. Knows(j, job[j]) /\ job[j].lost \subseteq Rows /\ j \in DOMAIN job /\ Observing(j)
  BY DEF OppInv
<1>2. o \in Opportunity /\ rowLock[o] = j /\ job[j].seen = observed[o]
  BY <1>1 DEF Observe, Knows, Observing
<1>3. /\ rowLock \in [Opportunity -> Jobs \cup {Nobody}]
      /\ observed \in [Opportunity -> SUBSET Jobs]
  BY DEF OppInv, Tables
<1>4. /\ b \in JobState /\ b.step = "recruit"
      /\ b.lost = job[j].lost /\ b.tries = job[j].tries
  BY <1>1 DEF Knows, JobState, Steps
<1>5. job' = [job EXCEPT ![j] = b] /\ UNCHANGED Rows
  BY <1>1 DEF Observe, Rows
<1>6. rowLock' = [rowLock EXCEPT ![o] = Nobody]
  BY <1>2, <1>3 DEF Observe
<1>7. observed' = [observed EXCEPT ![o] = {j}]
  <2>1. (observed[o] \ job[j].seen) \cup {j} = {j}
    BY <1>2
  <2> QED
    BY <1>2, <1>3, <2>1 DEF Observe
<1>8. Tables'
  <2>1. rowLock' \in [Opportunity -> Jobs \cup {Nobody}] /\ observed' \in [Opportunity -> SUBSET Jobs]
    BY <1>2, <1>3, <1>6, <1>7
  <2>2. \A x \in Opportunity : observed'[x] = {} \/ \E k \in Jobs : observed'[x] = {k}
    BY <1>2, <1>3, <1>7 DEF OppInv, Tables
  <2>3. UNCHANGED <<companies, opportunities, recruiters, alias>>
    BY DEF Observe
  <2> QED
    BY <2>1, <2>2, <2>3 DEF OppInv, Tables
<1> HIDE DEF b
<1>9. Knows(j, b)
  BY <1>1, <1>4 DEF Knows
<1>10. ASSUME NEW k \in Jobs \ {j}, job[k].step = "observe"
       PROVE  /\ rowLock'[job[k].opp] = rowLock[job[k].opp]
              /\ observed'[job[k].opp] = observed[job[k].opp]
  <2>1. rowLock[job[k].opp] = k
    BY <1>10 DEF OppInv, Observing
  <2>2. job[k].opp # o
    BY <1>2, <2>1
  <2> QED
    BY <1>3, <1>6, <1>7, <2>2
<1> QED
  BY <1>1, <1>4, <1>5, <1>8, <1>9, <1>10, JobMovesOn

\* and one that creates it,
LEMMA CreationsHold ==
  ASSUME OppInv, NEW j \in Jobs, Create(j)
  PROVE  OppInv'
<1>1. Knows(j, job[j]) /\ job[j].lost \subseteq Rows /\ j \in DOMAIN job
  BY DEF OppInv
<1>2. Wanted(j) \in Opportunity /\ Wanted(j) \notin job[j].lost
  <2>1. Mail[j].role \in Roles
    BY DEF Roles
  <2>2. job[j].company \in Companies
    BY <1>1 DEF Create, Knows
  <2>3. Wanted(j) \notin job[j].lost
    BY <1>1 DEF Create, Knows, Wanted
  <2> QED
    BY <2>1, <2>2, <2>3 DEF Wanted, Opportunity
<1>3. CASE Wanted(j) \in opportunities
  <2>1. job' = Lose(j, Wanted(j)) /\ UNCHANGED <<companies, alias, opportunities, recruiters, rowLock, observed>>
    BY <1>3 DEF Create
  <2>2. Wanted(j) \in Rows
    BY <1>3 DEF Rows
  <2> QED
    BY <1>2, <2>1, <2>2, RacesAreLostOnce
<1>4. CASE Wanted(j) \notin opportunities
  <2> DEFINE b == [job[j] EXCEPT !.step = "recruit", !.opp = Wanted(j)]
  <2>1. opportunities' = opportunities \cup {Wanted(j)} /\ job' = [job EXCEPT ![j] = b]
    BY <1>1, <1>4 DEF Create
  <2>2. /\ b \in JobState /\ b.step = "recruit"
        /\ b.lost = job[j].lost /\ b.tries = job[j].tries
    BY <1>1, <1>2 DEF Knows, JobState, Steps, Applied
  <2>3. UNCHANGED <<rowLock, observed>> /\ Rows \subseteq Rows' /\ Tables'
    BY <1>2, <2>1 DEF Create, Rows, OppInv, Tables
  <2> HIDE DEF b
  <2>4. Knows(j, b)
    BY <1>1, <2>2 DEF Knows
  <2> QED
    BY <1>1, <2>1, <2>2, <2>3, <2>4, OneJobMoves
<1> QED
  BY <1>3, <1>4

\* and one that looks for the recruiter,
LEMMA RecruitersAreFound ==
  ASSUME OppInv, NEW j \in Jobs, FindRecruiter(j)
  PROVE  OppInv'
<1>1. PICK c \in Found(j) :
        job' = [job EXCEPT ![j] = [@ EXCEPT !.step = "upsert", !.company = c,
                  !.known = [company |-> c, email |-> Mail[j].from] \in recruiters]]
  BY DEF FindRecruiter
<1> DEFINE key   == [company |-> c, email |-> Mail[j].from]
           there == key \in recruiters
           b     == [job[j] EXCEPT !.step = "upsert", !.company = c, !.known = there]
<1>2. Knows(j, job[j]) /\ job[j].lost \subseteq Rows /\ j \in DOMAIN job
  BY DEF OppInv
<1>3. c \in Employers
  BY LookupsFind
<1>4. there \in BOOLEAN
  OBVIOUS
<1>5. job' = [job EXCEPT ![j] = b]
  BY <1>1, <1>2
<1>6. ~there => key \notin job[j].lost
  BY <1>2, KeysTellTables DEF Rows, OppInv, Tables
<1> HIDE DEF there
<1>7. /\ b \in JobState /\ b.step = "upsert" /\ b.company = c /\ b.known = there
      /\ b.lost = job[j].lost /\ b.tries = job[j].tries
  BY <1>2, <1>3, <1>4 DEF Knows, JobState, Steps
<1>8. UNCHANGED <<rowLock, observed>> /\ UNCHANGED Rows /\ Tables'
  BY DEF FindRecruiter, Rows, OppInv, Tables
<1> HIDE DEF b
<1>9. Knows(j, b)
  BY <1>2, <1>6, <1>7 DEF Knows
<1> QED
  BY <1>2, <1>5, <1>7, <1>8, <1>9, OneJobMoves

\* and one that upserts him.
LEMMA RecruitersHold ==
  ASSUME OppInv, NEW j \in Jobs, UpsertRecruiter(j)
  PROVE  OppInv'
<1>1. Knows(j, job[j]) /\ job[j].lost \subseteq Rows /\ j \in DOMAIN job
  BY DEF OppInv
<1>2. Mail[j].from \in Senders /\ job[j].company \in Employers
  BY <1>1 DEF Senders, Knows, JobState
<1>3. CASE ~job[j].known /\ Recruiter(j) \in recruiters
  <2>1. job' = Lose(j, Recruiter(j)) /\ UNCHANGED <<companies, alias, opportunities, recruiters, rowLock, observed>>
    BY <1>3 DEF UpsertRecruiter
  <2>2. Recruiter(j) \in Rows /\ Recruiter(j) \notin job[j].lost
    BY <1>1, <1>3 DEF Rows, UpsertRecruiter, Knows, Recruiter
  <2> QED
    BY <2>1, <2>2, RacesAreLostOnce
<1>4. CASE ~(~job[j].known /\ Recruiter(j) \in recruiters)
  <2> DEFINE b == [job[j] EXCEPT !.step = "done"]
  <2>1. /\ recruiters' = recruiters \cup {Recruiter(j)} /\ job' = [job EXCEPT ![j] = b]
        /\ alias' = [n \in Names |-> IF n \in Mail[j].names THEN job[j].company ELSE alias[n]]
    BY <1>1, <1>4 DEF UpsertRecruiter
  <2>2. Recruiter(j) \in Contacts
    BY <1>2 DEF Recruiter, Contacts
  <2>3. alias' \in [Names -> Employers]
    BY <1>2, <2>1 DEF OppInv, Tables
  <2>4. /\ b \in JobState /\ b.step = "done"
        /\ b.lost = job[j].lost /\ b.tries = job[j].tries
    BY <1>1 DEF Knows, JobState, Steps
  <2>5. UNCHANGED <<rowLock, observed>> /\ Rows \subseteq Rows' /\ Tables'
    BY <2>1, <2>2, <2>3 DEF UpsertRecruiter, Rows, OppInv, Tables
  <2> HIDE DEF b
  <2>6. Knows(j, b)
    BY <1>1, <2>4 DEF Knows
  <2> QED
    BY <1>1, <2>1, <2>4, <2>5, <2>6, OneJobMoves
<1> QED
  BY <1>3, <1>4

(***************************************************************************)
(* What racing emails leave behind, for any number of jobs, attempts and   *)
(* spellings: one current observation for each opportunity, which the row  *)
(* lock of the update guards, and a lost race behind each attempt that     *)
(* failed, never the same one twice.                                       *)
(***************************************************************************)
THEOREM EmailsRaceSafely == OppSpec => []RacesAreContained
<1>1. OppInit => OppInv
  BY OpportunitiesStart
<1>2. OppInv /\ [OppNext]_oppVars => OppInv'
  <2> SUFFICES ASSUME OppInv, [OppNext]_oppVars PROVE OppInv'
    OBVIOUS
  <2>1. CASE UNCHANGED oppVars
    BY <2>1 DEF oppVars, OppInv, Tables, Rows, Observing
  <2>2. ASSUME NEW j \in Jobs, Lookup(j) PROVE OppInv'
    BY <2>2, LookupsHold
  <2>3. ASSUME NEW j \in Jobs, SaveCompany(j) PROVE OppInv'
    BY <2>3, CompaniesAreSaved
  <2>4. ASSUME NEW j \in Jobs, UpsertAlias(j) \/ Resolved(j) PROVE OppInv'
    BY <2>4, AliasesHold
  <2>5. ASSUME NEW j \in Jobs, Lock(j) PROVE OppInv'
    BY <2>5, LocksHold
  <2>6. ASSUME NEW j \in Jobs, Find(j) PROVE OppInv'
    BY <2>6, FindsHold
  <2>7. ASSUME NEW j \in Jobs, Touch(j) PROVE OppInv'
    BY <2>7, TouchesHold
  <2>8. ASSUME NEW j \in Jobs, Observe(j) PROVE OppInv'
    BY <2>8, ObservationsHold
  <2>9. ASSUME NEW j \in Jobs, Create(j) PROVE OppInv'
    BY <2>9, CreationsHold
  <2>10. ASSUME NEW j \in Jobs, FindRecruiter(j) PROVE OppInv'
    BY <2>10, RecruitersAreFound
  <2>11. ASSUME NEW j \in Jobs, UpsertRecruiter(j) PROVE OppInv'
    BY <2>11, RecruitersHold
  <2> QED
    BY <2>1, <2>2, <2>3, <2>4, <2>5, <2>6, <2>7, <2>8, <2>9, <2>10, <2>11 DEF OppNext
<1>3. OppInv => RacesAreContained
  <2> SUFFICES ASSUME OppInv PROVE RacesAreContained
    OBVIOUS
  <2>1. OneCurrentObservation
    <3> SUFFICES ASSUME NEW o \in Opportunity PROVE Cardinality(observed[o]) <= 1
      BY DEF OneCurrentObservation
    <3>1. observed[o] = {} \/ \E k \in Jobs : observed[o] = {k}
      BY DEF OppInv, Tables
    <3>2. Cardinality(observed[o]) \in {0, 1}
      BY <3>1, FS_EmptySet, FS_Singleton
    <3> QED
      BY <3>2
  <2>2. EachRaceIsLostOnce
    BY DEF EachRaceIsLostOnce, OppInv, Knows
  <2> QED
    BY <2>1, <2>2 DEF RacesAreContained
<1> QED
  BY <1>1, <1>2, <1>3, PTL DEF OppSpec
-----------------------------------------------------------------------------
(* The calls to the models.                                                *)

Waiting == {"idle", "asking", "sleeping", "refused"}
CallState == [phase : Waiting \cup {"calling", "backoff"} \cup Over, attempt : Nat, waited : Nat]

\* What a call has spent: nothing before it was let through, then at most a text per attempt.
Accounted(c) ==
  /\ call[c] \in CallState /\ ledger[c] \in [ok : Nat, failed : Nat] /\ reviews[c] \in Nat
  /\ call[c].attempt <= MaxAttempts
  /\ call[c].phase \in Waiting <=> call[c].attempt = 0
  /\ call[c].phase = "backoff" => call[c].attempt < MaxAttempts
  /\ ledger[c].ok <= call[c].attempt
  /\ call[c].phase = "calling" => ledger[c].ok < call[c].attempt
  /\ call[c].phase = "answered" => ledger[c].ok > 0
  /\ ledger[c].failed = IF call[c].phase = "failed" THEN 1 ELSE 0
  /\ reviews[c] > 0 => call[c].phase = "answered" /\ reviews[c] = 1

\* The batch: what comes before the chunk is over, and what comes after it has not begun.
InTurn ==
  /\ chunk \in Nat \ {0}
  /\ \A k \in DOMAIN Items : k < chunk => call[Items[k]].phase \in Over
  /\ \A k \in DOMAIN Items : k >= chunk + Concurrency => call[Items[k]].phase = "idle"

\* Whatever was let through in the last minute is of this window or of the one before, and what
\* is of the one before was let through before this one began.
Windows(P, C) ==
  /\ IsFiniteSet(P) /\ Cardinality(P) <= MaxCalls
  /\ IsFiniteSet(C) /\ Cardinality(C) <= window.calls
  /\ \A c \in Calls : since[c][1] < Minute => c \in P \cup C
  /\ \A c \in P : since[c][1] >= window.age

Admitted ==
  /\ window \in [age : 0..Minute, calls : 0..MaxCalls, tokens : Nat]
  /\ since \in [Calls -> [1..MaxAttempts -> 0..Minute]]
  /\ \E P, C \in SUBSET Calls : Windows(P, C)

CallsInv ==
  /\ DOMAIN call = Calls /\ DOMAIN ledger = Calls /\ DOMAIN reviews = Calls
  /\ \A c \in Calls : Accounted(c)
  /\ InTurn /\ Admitted

\* The call c changes, and with it only its books.
OnlyCall(c) ==
  /\ DOMAIN call' = Calls /\ DOMAIN ledger' = Calls /\ DOMAIN reviews' = Calls
  /\ \A d \in Calls \ {c} : call'[d] = call[d] /\ ledger'[d] = ledger[d] /\ reviews'[d] = reviews[d]

\* The budgets are numbers.
LEMMA LimitsAreNumbers ==
  /\ MaxCalls \in Nat /\ MaxCalls > 0 /\ MaxAttempts \in Nat /\ MaxAttempts > 0
  /\ Minute \in Nat /\ Minute > 0 /\ Concurrency \in Nat /\ Concurrency > 0
  /\ 1 \in 1..MaxAttempts
  /\ \A c \in Calls : Tokens[c] \in Nat
BY LimiterAssumption

\* A call that moves leaves the books of the others.
LEMMA OthersKeepTheirBooks ==
  ASSUME CallsInv, NEW c \in Calls, OnlyCall(c), Accounted(c)'
  PROVE  \A d \in Calls : Accounted(d)'
BY DEF CallsInv, OnlyCall, Accounted

\* A call that has begun and does not leave Over keeps the turn of its batch.
LEMMA TurnIsKept ==
  ASSUME CallsInv, NEW c \in Calls, OnlyCall(c), UNCHANGED chunk,
         call[c].phase \notin Over, call[c].phase # "idle"
  PROVE  InTurn'
<1>1. \A k \in DOMAIN Items : Items[k] \in Calls
  BY BatchAssumption
<1>2. ASSUME NEW k \in DOMAIN Items, call[Items[k]].phase \in Over \cup {"idle"}
      PROVE  call'[Items[k]] = call[Items[k]]
  BY <1>1, <1>2 DEF OnlyCall
<1> QED
  BY <1>2 DEF InTurn, CallsInv, Over

\* A call that is admitted is within the window.
LEMMA Admits ==
  ASSUME CallsInv, NEW c \in Calls, call[c].phase = "asking", acquire(c)
  PROVE  Admitted'
<1> DEFINE w == maybeReset
           fresh == window.age >= Minute
<1>1. window \in [age : 0..Minute, calls : 0..MaxCalls, tokens : Nat]
  BY DEF CallsInv, Admitted
<1>2. since \in [Calls -> [1..MaxAttempts -> 0..Minute]]
  BY DEF CallsInv, Admitted
<1>3. call[c].attempt = 0
  BY DEF CallsInv, Accounted, Waiting
<1>4. PICK P \in SUBSET Calls, C \in SUBSET Calls : Windows(P, C)
  BY DEF CallsInv, Admitted
<1>5. w = IF fresh THEN [age |-> 0, calls |-> 0, tokens |-> 0] ELSE window
  BY DEF maybeReset
<1>6. w \in [age : 0..Minute, calls : 0..MaxCalls, tokens : Nat]
  BY <1>1, <1>5, LimitsAreNumbers
<1> DEFINE P1 == IF fresh THEN C ELSE P
           C1 == IF fresh THEN {} ELSE C
<1>7. /\ P1 \in SUBSET Calls /\ C1 \in SUBSET Calls
      /\ IsFiniteSet(P1) /\ Cardinality(P1) <= MaxCalls
      /\ IsFiniteSet(C1) /\ Cardinality(C1) <= w.calls
      /\ \A d \in Calls : since[d][1] < Minute => d \in P1 \cup C1
      /\ \A d \in P1 : since[d][1] >= w.age
  <2>1. CASE fresh
    <3>1. \A d \in Calls : since[d][1] \in 0..Minute
      BY <1>2, LimitsAreNumbers
    <3>2. \A d \in P : ~(since[d][1] < Minute)
      BY <1>1, <1>4, <2>1, <3>1, LimitsAreNumbers DEF Windows
    <3>3. Cardinality(C) \in Nat /\ Cardinality(C) <= MaxCalls
      BY <1>1, <1>4, FS_CardinalityType, LimitsAreNumbers DEF Windows
    <3>4. w.age = 0 /\ w.calls = 0
      BY <1>5, <2>1
    <3>5. P1 = C /\ C1 = {}
      BY <2>1
    <3>6. \A d \in Calls : since[d][1] < Minute => d \in C
      BY <1>4, <3>2 DEF Windows
    <3> HIDE DEF P1, C1, w
    <3> QED
      BY <1>4, <3>1, <3>3, <3>4, <3>5, <3>6, FS_EmptySet DEF Windows
  <2>2. CASE ~fresh
    <3>1. w = window /\ P1 = P /\ C1 = C
      BY <1>5, <2>2
    <3> QED
      BY <1>4, <3>1 DEF Windows
  <2> QED
    BY <2>1, <2>2
<1> HIDE DEF P1, C1
<1>11. PICK v \in [age : 0..Minute, calls : 0..MaxCalls, tokens : Nat] : v = w
  BY <1>6
<1> HIDE DEF w
<1>12. PICK Q \in SUBSET Calls, D \in SUBSET Calls :
             /\ IsFiniteSet(Q) /\ Cardinality(Q) <= MaxCalls
             /\ IsFiniteSet(D) /\ Cardinality(D) <= v.calls
             /\ \A d \in Calls : since[d][1] < Minute => d \in Q \cup D
             /\ \A d \in Q : since[d][1] >= v.age
  BY <1>7, <1>11
<1>8. /\ v = maybeReset /\ v \in [age : 0..Minute, calls : 0..MaxCalls, tokens : Nat]
      /\ IsFiniteSet(Q) /\ Cardinality(Q) <= MaxCalls
      /\ IsFiniteSet(D) /\ Cardinality(D) <= v.calls
      /\ \A d \in Calls : since[d][1] < Minute => d \in Q \cup D
      /\ \A d \in Q : since[d][1] >= v.age
  BY <1>11, <1>12 DEF w
<1>9. CASE isAllowed(v, Tokens[c])
  <2>1. /\ v.calls < MaxCalls
        /\ window' = [v EXCEPT !.calls = @ + 1, !.tokens = @ + Tokens[c]]
        /\ since' = [since EXCEPT ![c][1] = 0]
    BY <1>3, <1>8, <1>9 DEF acquire, isAllowed, Send
  <2>2. v.calls \in Nat /\ v.calls + 1 \in 0..MaxCalls /\ v.tokens + Tokens[c] \in Nat
    BY <1>8, <2>1, LimitsAreNumbers
  <2>3. /\ window' \in [age : 0..Minute, calls : 0..MaxCalls, tokens : Nat]
        /\ window'.age = v.age /\ window'.calls = v.calls + 1
    BY <1>8, <2>1, <2>2
  <2>4. since' \in [Calls -> [1..MaxAttempts -> 0..Minute]]
    BY <1>2, <2>1, LimitsAreNumbers
  <2>5. \A d \in Calls \ {c} : since'[d][1] = since[d][1]
    BY <1>2, <2>1
  <2>6. IsFiniteSet(Q \ {c}) /\ Cardinality(Q \ {c}) <= MaxCalls
    <3>1. Q \ {c} \in SUBSET Q /\ Cardinality(Q) \in Nat
      BY <1>8, FS_CardinalityType
    <3>2. IsFiniteSet(Q \ {c}) /\ Cardinality(Q \ {c}) <= Cardinality(Q)
      BY <1>8, <3>1, FS_Subset
    <3>3. Cardinality(Q \ {c}) \in Nat
      BY <3>2, FS_CardinalityType
    <3> QED
      BY <1>8, <3>1, <3>2, <3>3, LimitsAreNumbers
  <2>7. IsFiniteSet(D \cup {c}) /\ Cardinality(D \cup {c}) <= v.calls + 1
    <3>1. Cardinality(D) \in Nat
      BY <1>8, FS_CardinalityType
    <3>2. /\ IsFiniteSet(D \cup {c})
          /\ Cardinality(D \cup {c}) = IF c \in D THEN Cardinality(D) ELSE Cardinality(D) + 1
      BY <1>8, FS_AddElement
    <3> QED
      BY <1>8, <2>2, <3>1, <3>2
  <2>8. \A d \in Calls : since'[d][1] < Minute => d \in (Q \ {c}) \cup (D \cup {c})
    BY <1>8, <2>5
  <2>9. \A d \in Q \ {c} : since'[d][1] >= window'.age
    BY <1>8, <2>3, <2>5
  <2>10. Windows(Q \ {c}, D \cup {c})'
    BY <2>3, <2>6, <2>7, <2>8, <2>9 DEF Windows
  <2> QED
    BY <2>3, <2>4, <2>10 DEF Admitted
<1>10. CASE ~isAllowed(v, Tokens[c])
  <2>1. window' = v /\ since' = since
    BY <1>8, <1>10 DEF acquire
  <2>2. Windows(Q, D)'
    BY <1>8, <2>1 DEF Windows
  <2> QED
    BY <1>2, <1>8, <2>1, <2>2 DEF Admitted
<1> QED
  BY <1>9, <1>10

\* A call that is sent again is not admitted anew.
LEMMA SentAgainIsNotAdmittedAgain ==
  ASSUME CallsInv, NEW c \in Calls, SendAgain(c)
  PROVE  Admitted'
<1>1. call[c].attempt \in Nat /\ call[c].attempt # 0 /\ call[c].attempt < MaxAttempts
  BY DEF CallsInv, Accounted, SendAgain, Waiting, CallState
<1>2. since \in [Calls -> [1..MaxAttempts -> 0..Minute]]
  BY DEF CallsInv, Admitted
<1>3. window' = window /\ since' = [since EXCEPT ![c][call[c].attempt + 1] = 0]
  BY DEF SendAgain, Send
<1>4. since' \in [Calls -> [1..MaxAttempts -> 0..Minute]]
  BY <1>1, <1>2, <1>3, LimitsAreNumbers
<1>5. \A d \in Calls : since'[d][1] = since[d][1]
  BY <1>1, <1>2, <1>3, LimitsAreNumbers
<1>6. PICK P \in SUBSET Calls, C \in SUBSET Calls : Windows(P, C)
  BY DEF CallsInv, Admitted
<1>7. Windows(P, C)'
  BY <1>3, <1>5, <1>6 DEF Windows
<1> QED
  BY <1>3, <1>4, <1>7 DEF Admitted, CallsInv

\* Admissions age with the window they were in.
LEMMA TimePasses ==
  ASSUME CallsInv, Tick
  PROVE  Admitted'
<1>1. window \in [age : 0..Minute, calls : 0..MaxCalls, tokens : Nat]
  BY DEF CallsInv, Admitted
<1>2. since \in [Calls -> [1..MaxAttempts -> 0..Minute]]
  BY DEF CallsInv, Admitted
<1>3. window' = [window EXCEPT !.age = IF @ < Minute THEN @ + 1 ELSE Minute]
  BY DEF Tick
<1>4. since' = [c \in Calls |-> [n \in 1 .. MaxAttempts |->
                 IF since[c][n] < Minute THEN since[c][n] + 1 ELSE Minute]]
  BY DEF Tick
<1>5. window' \in [age : 0..Minute, calls : 0..MaxCalls, tokens : Nat]
  BY <1>1, <1>3, LimitsAreNumbers
<1>6. window'.calls = window.calls /\ window'.age = IF window.age < Minute THEN window.age + 1 ELSE Minute
  BY <1>1, <1>3
<1>7. since' \in [Calls -> [1..MaxAttempts -> 0..Minute]]
  BY <1>2, <1>4, LimitsAreNumbers
<1>8. \A d \in Calls : /\ since[d][1] \in 0..Minute
                       /\ since'[d][1] = IF since[d][1] < Minute THEN since[d][1] + 1 ELSE Minute
  BY <1>2, <1>4, LimitsAreNumbers
<1>9. PICK P \in SUBSET Calls, C \in SUBSET Calls : Windows(P, C)
  BY DEF CallsInv, Admitted
<1>10. \A d \in Calls : since'[d][1] < Minute => d \in P \cup C
  BY <1>8, <1>9, LimitsAreNumbers DEF Windows
<1>11. \A d \in P : since'[d][1] >= window'.age
  <2> SUFFICES ASSUME NEW d \in P
               PROVE  since'[d][1] >= window'.age
    OBVIOUS
  <2>1. since[d][1] >= window.age /\ window.age \in 0..Minute
    BY <1>1, <1>9 DEF Windows
  <2> QED
    BY <1>6, <1>8, <2>1, LimitsAreNumbers
<1>12. Windows(P, C)'
  BY <1>6, <1>9, <1>10, <1>11 DEF Windows
<1> QED
  BY <1>5, <1>7, <1>12 DEF Admitted

\* Nothing is admitted while window and admissions stay.
LEMMA AdmissionUnmoved ==
  ASSUME CallsInv, UNCHANGED <<window, since>>
  PROVE  Admitted'
BY DEF CallsInv, Admitted, Windows

\* A call that asks the limiter keeps the invariant,
LEMMA AcquireSteps ==
  ASSUME CallsInv, NEW c \in Calls, acquire(c)
  PROVE  CallsInv'
<1>1. call[c].phase = "asking" /\ UNCHANGED <<chunk, ledger, reviews>>
  BY DEF acquire
<1>2. Accounted(c)
  BY DEF CallsInv
<1>3. PICK b \in CallState : /\ call' = [call EXCEPT ![c] = b]
                             /\ \/ b.phase = "calling" /\ b.attempt = 1
                                \/ b.phase \in {"refused", "sleeping"} /\ b.attempt = 0
  <2>1. call[c] \in CallState /\ call[c].attempt = 0
    BY <1>1, <1>2 DEF Accounted, Waiting
  <2>2. CASE Send(c)
    <3> DEFINE r == [phase |-> "calling", attempt |-> 0 + 1, waited |-> 0]
    <3>1. call' = [call EXCEPT ![c] = r]
      BY <2>1, <2>2 DEF Send
    <3>2. r \in CallState /\ r.phase = "calling" /\ r.attempt = 1
      BY DEF CallState
    <3> HIDE DEF r
    <3> QED
      BY <3>1, <3>2
  <2>4. CASE call' = [call EXCEPT ![c].phase =
                        IF call[c].waited >= Minute THEN "refused" ELSE "sleeping"]
    <3>1. PICK p \in {"refused", "sleeping"} : call' = [call EXCEPT ![c] = [call[c] EXCEPT !.phase = p]]
      BY <2>4
    <3> DEFINE r == [call[c] EXCEPT !.phase = p]
    <3>2. r \in CallState
      BY <2>1 DEF CallState, Waiting
    <3>3. r.phase = p /\ r.attempt = 0
      BY <2>1 DEF CallState
    <3>4. call' = [call EXCEPT ![c] = r]
      BY <3>1
    <3> HIDE DEF r
    <3> QED
      BY <3>1, <3>2, <3>3, <3>4
  <2> QED
    BY <2>2, <2>4 DEF acquire
<1>4. OnlyCall(c) /\ call'[c] = b
  BY <1>1, <1>3 DEF OnlyCall, CallsInv
<1>5. Accounted(c)'
  BY <1>1, <1>2, <1>3, <1>4, LimitsAreNumbers DEF Accounted, Waiting, CallState
<1>6. \A d \in Calls : Accounted(d)'
  BY <1>4, <1>5, OthersKeepTheirBooks
<1>7. InTurn'
  BY <1>1, <1>4, TurnIsKept DEF Over
<1>8. Admitted'
  BY <1>1, Admits
<1> QED
  BY <1>4, <1>6, <1>7, <1>8 DEF CallsInv, OnlyCall

\* The chunk that begins has not begun before.
LEMMA BeginSteps ==
  ASSUME CallsInv, NEW cs \in SUBSET Calls, \A c \in cs : call[c].phase = "idle", Begin(cs),
         UNCHANGED <<ledger, reviews>>
  PROVE  /\ DOMAIN call' = Calls /\ \A c \in Calls : Accounted(c)'
         /\ \A c \in Calls \ cs : call'[c] = call[c]
         /\ \A c \in Calls : call[c].phase \in Over => call'[c] = call[c]
<1>1. call' = [c \in Calls |-> IF c \in cs THEN [Idle EXCEPT !.phase = "asking"] ELSE call[c]]
  BY DEF Begin
<1>2. \A c \in cs : call'[c] = [phase |-> "asking", attempt |-> 0, waited |-> 0]
  BY <1>1 DEF Idle
<1>3. \A c \in cs : Accounted(c)'
  <2> SUFFICES ASSUME NEW c \in cs
               PROVE  Accounted(c)'
    OBVIOUS
  <2>1. Accounted(c) /\ call[c].phase = "idle"
    BY DEF CallsInv
  <2>2. [phase |-> "asking", attempt |-> 0, waited |-> 0] \in CallState
    BY DEF CallState, Waiting
  <2> QED
    BY <1>2, <2>1, <2>2, LimitsAreNumbers DEF Accounted, Waiting, CallState
<1>4. \A c \in Calls \ cs : call'[c] = call[c] /\ Accounted(c)'
  <2> SUFFICES ASSUME NEW c \in Calls \ cs
               PROVE  call'[c] = call[c] /\ Accounted(c)'
    OBVIOUS
  <2>1. call'[c] = call[c] /\ ledger' = ledger /\ reviews' = reviews /\ Accounted(c)
    BY <1>1 DEF CallsInv
  <2> QED
    BY <2>1 DEF Accounted
<1>5. \A c \in Calls : call[c].phase \in Over => c \notin cs
  BY DEF Over
<1> QED
  BY <1>1, <1>3, <1>4, <1>5

\* and one that begins,
LEMMA ExtractSteps ==
  ASSUME CallsInv, NEW c \in Calls, extract(c)
  PROVE  CallsInv'
<1>1. /\ c \notin InBatch /\ call[c].phase = "idle" /\ Begin({c})
      /\ UNCHANGED <<window, chunk, ledger, reviews, since>>
  BY DEF extract
<1>2. /\ DOMAIN call' = Calls /\ \A d \in Calls : Accounted(d)'
      /\ \A d \in Calls \ {c} : call'[d] = call[d]
  BY <1>1, BeginSteps
<1>3. \A k \in DOMAIN Items : Items[k] \in Calls /\ Items[k] # c
  BY <1>1, BatchAssumption DEF InBatch
<1>4. InTurn'
  BY <1>1, <1>2, <1>3 DEF CallsInv, InTurn
<1> QED
  BY <1>1, <1>2, <1>4, AdmissionUnmoved DEF CallsInv

\* and the batch that takes its next items,
LEMMA BatchSteps ==
  ASSUME CallsInv, extractBatch
  PROVE  CallsInv'
<1>1. chunk \in Nat /\ chunk # 0 /\ DOMAIN Items = 1..Len(Items) /\ Len(Items) \in Nat
      /\ \A k \in DOMAIN Items : Items[k] \in Calls
  BY BatchAssumption DEF CallsInv, InTurn
<1>2. UNCHANGED <<window, ledger, reviews, since>> /\ chunk <= Len(Items)
  BY DEF extractBatch
<1>3. CASE chunk' = chunk /\ Begin(Chunk(chunk)) /\ \A c \in Chunk(chunk) : call[c].phase = "idle"
  <2>1. Chunk(chunk) \in SUBSET Calls
    BY <1>1 DEF Chunk
  <2>2. /\ DOMAIN call' = Calls /\ \A d \in Calls : Accounted(d)'
        /\ \A d \in Calls \ Chunk(chunk) : call'[d] = call[d]
        /\ \A d \in Calls : call[d].phase \in Over => call'[d] = call[d]
    BY <1>2, <1>3, <2>1, BeginSteps
  <2>3. \A k \in DOMAIN Items : k >= chunk + Concurrency => Items[k] \notin Chunk(chunk)
    BY <1>1, BatchAssumption, LimitsAreNumbers DEF Chunk
  <2>4. InTurn'
    BY <1>1, <1>3, <2>2, <2>3 DEF CallsInv, InTurn
  <2> QED
    BY <1>2, <2>2, <2>4, AdmissionUnmoved DEF CallsInv
<1>4. CASE /\ \A c \in Chunk(chunk) : call[c].phase \in Over
           /\ chunk' = chunk + Concurrency /\ Begin(Chunk(chunk'))
  <2>1. PICK n \in Nat : n = chunk + Concurrency
    BY <1>1, LimitsAreNumbers
  <2>2. chunk' = n /\ Begin(Chunk(n)) /\ Chunk(n) \in SUBSET Calls
    BY <1>1, <1>4, <2>1 DEF Chunk
  <2>3. \A c \in Chunk(n) : call[c].phase = "idle"
    BY <1>1, <2>1, LimitsAreNumbers DEF Chunk, CallsInv, InTurn
  <2>4. /\ DOMAIN call' = Calls /\ \A d \in Calls : Accounted(d)'
        /\ \A d \in Calls \ Chunk(n) : call'[d] = call[d]
        /\ \A d \in Calls : call[d].phase \in Over => call'[d] = call[d]
    BY <1>2, <2>2, <2>3, BeginSteps
  <2>5. ASSUME NEW k \in DOMAIN Items, k < n
        PROVE  call'[Items[k]].phase \in Over
    <3>1. k \in Nat /\ Items[k] \in Calls
      BY <1>1
    <3>2. k < chunk \/ (chunk <= k /\ k < chunk + Concurrency)
      BY <1>1, <2>1, <2>5, <3>1
    <3>3. k < chunk => call[Items[k]].phase \in Over
      BY DEF CallsInv, InTurn
    <3>4. chunk <= k /\ k < chunk + Concurrency => Items[k] \in Chunk(chunk)
      BY DEF Chunk
    <3> QED
      BY <1>4, <2>4, <3>1, <3>2, <3>3, <3>4
  <2>6. ASSUME NEW k \in DOMAIN Items, k >= n + Concurrency
        PROVE  call'[Items[k]].phase = "idle"
    <3>1. k \in Nat /\ Items[k] \in Calls
      BY <1>1
    <3>2. k >= chunk + Concurrency
      BY <1>1, <2>1, <2>6, <3>1, LimitsAreNumbers
    <3>3. call[Items[k]].phase = "idle"
      BY <3>2 DEF CallsInv, InTurn
    <3>4. Items[k] \notin Chunk(n)
      BY <1>1, <2>1, <2>6, <3>1, BatchAssumption, LimitsAreNumbers DEF Chunk
    <3> QED
      BY <2>4, <3>1, <3>3, <3>4
  <2>7. n \in Nat \ {0}
    BY <1>1, <2>1, LimitsAreNumbers
  <2>8. InTurn'
    BY <2>2, <2>5, <2>6, <2>7 DEF InTurn
  <2> QED
    BY <1>2, <2>4, <2>8, AdmissionUnmoved DEF CallsInv
<1> QED
  BY <1>3, <1>4 DEF extractBatch

\* An answer, an error or a new attempt: the call moves on from one of its attempts.
LEMMA AttemptSteps ==
  ASSUME CallsInv, NEW c \in Calls, call[c].phase \in {"calling", "backoff"},
         OnlyCall(c), Accounted(c)', Admitted', chunk' = chunk
  PROVE  CallsInv'
<1>1. \A d \in Calls : Accounted(d)'
  BY OthersKeepTheirBooks
<1>2. InTurn'
  BY TurnIsKept DEF Over
<1> QED
  BY <1>1, <1>2 DEF CallsInv, OnlyCall

\* What is known of a call whose request is under way.
LEMMA UnderWay ==
  ASSUME CallsInv, NEW c \in Calls, call[c].phase = "calling"
  PROVE  /\ call[c] \in CallState /\ ledger[c] \in [ok : Nat, failed : Nat]
         /\ call[c].attempt \in Nat /\ call[c].attempt # 0 /\ call[c].attempt <= MaxAttempts
         /\ ledger[c].ok \in Nat /\ ledger[c].ok < call[c].attempt
         /\ ledger[c].failed = 0 /\ reviews[c] = 0
         /\ DOMAIN call = Calls /\ DOMAIN ledger = Calls /\ DOMAIN reviews = Calls
<1>1. Accounted(c)
  BY DEF CallsInv
<1> QED
  BY <1>1 DEF Accounted, CallState, Waiting, CallsInv

\* and an answer that can be used,
LEMMA UsableSteps ==
  ASSUME CallsInv, NEW c \in Calls, Usable(c)
  PROVE  CallsInv'
<1>1. /\ call[c].phase = "calling" /\ UNCHANGED <<window, chunk, since>>
      /\ call' = [call EXCEPT ![c].phase = "answered"] /\ ledger' = [ledger EXCEPT ![c].ok = @ + 1]
  BY DEF Usable, Charged
<1>2. PICK n \in {0, 1} : reviews' = [reviews EXCEPT ![c] = reviews[c] + n]
  BY DEF Usable
<1>3. OnlyCall(c)
  BY <1>1, <1>2, UnderWay DEF OnlyCall
<1>4. /\ call'[c] = [call[c] EXCEPT !.phase = "answered"]
      /\ ledger'[c] = [ledger[c] EXCEPT !.ok = @ + 1]
      /\ reviews'[c] = n
  BY <1>1, <1>2, UnderWay
<1>5. /\ call'[c] \in CallState /\ call'[c].phase = "answered" /\ call'[c].attempt = call[c].attempt
  BY <1>1, <1>4, UnderWay DEF CallState, Over
<1>6. /\ ledger'[c] \in [ok : Nat, failed : Nat] /\ ledger'[c].ok = ledger[c].ok + 1
      /\ ledger'[c].failed = 0
  BY <1>1, <1>4, UnderWay
<1>7. Accounted(c)'
  BY <1>1, <1>4, <1>5, <1>6, UnderWay, LimitsAreNumbers DEF Accounted, Waiting
<1>8. Admitted'
  BY <1>1, AdmissionUnmoved
<1> QED
  BY <1>1, <1>3, <1>7, <1>8, AttemptSteps

\* The books of the call c with which an attempt ends, before its failure is recorded.
Entries(e, c) ==
  /\ DOMAIN e = Calls /\ \A d \in Calls \ {c} : e[d] = ledger[d]
  /\ e[c] \in [ok : Nat, failed : Nat] /\ e[c].failed = 0 /\ e[c].ok <= ledger[c].ok + 1

\* and whatever the loop catches,
LEMMA CaughtSteps ==
  ASSUME CallsInv, NEW c \in Calls, call[c].phase = "calling", NEW error, NEW e, Entries(e, c),
         Caught(c, error, e), UNCHANGED <<window, chunk, reviews, since>>
  PROVE  CallsInv'
<1>1. Admitted'
  BY AdmissionUnmoved
<1>2. CASE isRetryable(error) /\ call[c].attempt < MaxAttempts
  <2>1. call' = [call EXCEPT ![c].phase = "backoff"] /\ ledger' = e
    BY <1>2 DEF Caught
  <2>2. OnlyCall(c)
    BY <2>1, UnderWay DEF OnlyCall, Entries
  <2>3. call'[c] = [call[c] EXCEPT !.phase = "backoff"]
    BY <2>1, UnderWay
  <2>4. call'[c] \in CallState /\ call'[c].phase = "backoff" /\ call'[c].attempt = call[c].attempt
    BY <2>3, UnderWay DEF CallState
  <2>5. /\ ledger'[c] \in [ok : Nat, failed : Nat] /\ ledger'[c].ok <= ledger[c].ok + 1
        /\ ledger'[c].failed = 0 /\ reviews'[c] = reviews[c]
    BY <2>1 DEF Entries
  <2>6. ledger'[c].ok \in Nat
    BY <2>5
  <2>7. ledger'[c].ok <= call[c].attempt
    BY <2>5, <2>6, UnderWay
  <2>8. Accounted(c)'
    BY <1>2, <2>4, <2>5, <2>7, UnderWay, LimitsAreNumbers DEF Accounted, Waiting
  <2> QED
    BY <1>1, <2>2, <2>8, AttemptSteps
<1>3. CASE ~(isRetryable(error) /\ call[c].attempt < MaxAttempts)
  <2>1. /\ call' = [call EXCEPT ![c].phase = "failed"]
        /\ ledger' = [e EXCEPT ![c].failed = @ + 1]
    BY <1>3 DEF Caught
  <2>2. OnlyCall(c)
    BY <2>1, UnderWay DEF OnlyCall, Entries
  <2>3. /\ call'[c] = [call[c] EXCEPT !.phase = "failed"]
        /\ ledger'[c] = [e[c] EXCEPT !.failed = @ + 1]
    BY <2>1, UnderWay DEF Entries
  <2>4. call'[c] \in CallState /\ call'[c].phase = "failed" /\ call'[c].attempt = call[c].attempt
    BY <2>3, UnderWay DEF CallState, Over
  <2>5. /\ ledger'[c] \in [ok : Nat, failed : Nat] /\ ledger'[c].ok = e[c].ok
        /\ ledger'[c].failed = 1 /\ reviews'[c] = reviews[c]
    BY <2>3 DEF Entries
  <2>6. ledger'[c].ok \in Nat /\ ledger'[c].ok <= ledger[c].ok + 1
    BY <2>5 DEF Entries
  <2>7. ledger'[c].ok <= call[c].attempt
    BY <2>6, UnderWay
  <2>8. Accounted(c)'
    BY <2>4, <2>5, <2>7, UnderWay, LimitsAreNumbers DEF Accounted, Waiting
  <2> QED
    BY <1>1, <2>2, <2>8, AttemptSteps
<1> QED
  BY <1>2, <1>3

\* which is an answer it cannot use or an error of the provider,
LEMMA ErrorSteps ==
  ASSUME CallsInv, NEW c \in Calls, Unusable(c) \/ ProviderError(c)
  PROVE  CallsInv'
<1>1. call[c].phase = "calling" /\ UNCHANGED <<window, chunk, reviews, since>>
  BY DEF Unusable, ProviderError
<1>2. CASE Unusable(c)
  <2>1. PICK e : e = [ledger EXCEPT ![c].ok = @ + 1]
    OBVIOUS
  <2>2. PICK error : Caught(c, error, e)
    BY <1>2, <2>1 DEF Unusable, Charged
  <2>3. DOMAIN e = Calls /\ \A d \in Calls \ {c} : e[d] = ledger[d]
    BY <1>1, <2>1, UnderWay
  <2>4. e[c] = [ledger[c] EXCEPT !.ok = @ + 1]
    BY <1>1, <2>1, UnderWay
  <2>5. Entries(e, c)
    BY <1>1, <2>3, <2>4, UnderWay DEF Entries
  <2> QED
    BY <1>1, <2>2, <2>5, CaughtSteps
<1>3. CASE ProviderError(c)
  <2>1. PICK e : e = ledger
    OBVIOUS
  <2>2. PICK error : Caught(c, error, e)
    BY <1>3, <2>1 DEF ProviderError
  <2>3. Entries(e, c)
    BY <1>1, <2>1, UnderWay DEF Entries
  <2> QED
    BY <1>1, <2>2, <2>3, CaughtSteps
<1> QED
  BY <1>2, <1>3

\* and the end of the wait before the next attempt,
LEMMA SendAgainSteps ==
  ASSUME CallsInv, NEW c \in Calls, SendAgain(c)
  PROVE  CallsInv'
<1>1. /\ call[c].phase = "backoff" /\ UNCHANGED <<window, chunk, ledger, reviews>> /\ Send(c)
  BY DEF SendAgain
<1>2. Accounted(c) /\ DOMAIN call = Calls /\ DOMAIN ledger = Calls /\ DOMAIN reviews = Calls
  BY DEF CallsInv
<1>3. /\ call[c].attempt \in Nat /\ call[c].attempt # 0 /\ call[c].attempt < MaxAttempts
      /\ ledger[c] \in [ok : Nat, failed : Nat] /\ ledger[c].ok <= call[c].attempt
      /\ ledger[c].failed = 0 /\ reviews[c] = 0
  BY <1>1, <1>2 DEF Accounted, CallState, Waiting
<1>4. OnlyCall(c)
  BY <1>1, <1>2 DEF OnlyCall, Send
<1>5. call'[c] = [phase |-> "calling", attempt |-> call[c].attempt + 1, waited |-> 0]
  BY <1>1, <1>2 DEF Send
<1>6. call'[c] \in CallState /\ call'[c].phase = "calling" /\ call'[c].attempt = call[c].attempt + 1
  BY <1>3, <1>5 DEF CallState
<1>7. ledger'[c] = ledger[c] /\ reviews'[c] = 0
  BY <1>1, <1>3
<1>8. /\ call'[c].attempt # 0 /\ call'[c].attempt <= MaxAttempts /\ ledger'[c].ok < call'[c].attempt
  BY <1>3, <1>6, <1>7, LimitsAreNumbers
<1>9. Accounted(c)'
  BY <1>3, <1>6, <1>7, <1>8 DEF Accounted, Waiting
<1>10. Admitted'
  BY SentAgainIsNotAdmittedAgain
<1> QED
  BY <1>1, <1>4, <1>9, <1>10, AttemptSteps

\* and the passing of time.
LEMMA TickSteps ==
  ASSUME CallsInv, Tick
  PROVE  CallsInv'
<1>1. UNCHANGED <<chunk, ledger, reviews>>
  BY DEF Tick
<1>2. DOMAIN call' = Calls
  BY DEF Tick
<1>3. ASSUME NEW c \in Calls
      PROVE  IF call[c].phase = "sleeping"
             THEN /\ call'[c] \in CallState /\ call'[c].phase = "asking"
                  /\ call'[c].attempt = call[c].attempt
             ELSE call'[c] = call[c]
  <2>1. call'[c] = IF call[c].phase = "sleeping"
                   THEN [call[c] EXCEPT !.phase = "asking", !.waited = @ + 1] ELSE call[c]
    BY DEF Tick
  <2>2. call[c] \in CallState
    BY DEF CallsInv, Accounted
  <2>3. CASE call[c].phase = "sleeping"
    <3>1. call'[c] = [call[c] EXCEPT !.phase = "asking", !.waited = @ + 1]
      BY <2>1, <2>3
    <3>2. call[c].waited + 1 \in Nat
      BY <2>2 DEF CallState
    <3>3. call'[c] \in CallState
      BY <2>2, <3>1, <3>2 DEF CallState, Waiting
    <3>4. call'[c].phase = "asking" /\ call'[c].attempt = call[c].attempt
      BY <2>2, <3>1 DEF CallState
    <3> QED
      BY <2>3, <3>3, <3>4
  <2> QED
    BY <2>1, <2>3
<1>4. \A c \in Calls : Accounted(c)'
  <2> SUFFICES ASSUME NEW c \in Calls
               PROVE  Accounted(c)'
    OBVIOUS
  <2>1. Accounted(c)
    BY DEF CallsInv
  <2> QED
    BY <1>1, <1>3, <2>1 DEF Accounted, Waiting
<1>5. InTurn'
  <2>1. \A k \in DOMAIN Items : Items[k] \in Calls
    BY BatchAssumption
  <2>2. \A c \in Calls : call[c].phase \in Over \cup {"idle"} => call'[c] = call[c]
    BY <1>3 DEF Over
  <2> QED
    BY <1>1, <2>1, <2>2 DEF CallsInv, InTurn
<1> QED
  BY <1>1, <1>2, <1>4, <1>5, TimePasses DEF CallsInv

\* The invariant holds at the start,
LEMMA CallsInitially ==
  ASSUME AiInit
  PROVE  CallsInv
<1>1. /\ call = [c \in Calls |-> Idle] /\ chunk = 1 /\ ledger = [c \in Calls |-> [ok |-> 0, failed |-> 0]]
      /\ reviews = [c \in Calls |-> 0]
  BY DEF AiInit
<1>2. \A c \in Calls : Accounted(c)
  BY <1>1, LimitsAreNumbers DEF Accounted, Idle, CallState, Waiting
<1>3. InTurn
  <2>1. \A k \in DOMAIN Items : k \in Nat /\ k >= 1 /\ Items[k] \in Calls
    BY BatchAssumption
  <2> QED
    BY <1>1, <2>1 DEF InTurn, Idle
<1>4. Admitted
  <2>1. window = [age |-> 0, calls |-> 0, tokens |-> 0]
    BY DEF AiInit
  <2>2. window \in [age : 0..Minute, calls : 0..MaxCalls, tokens : Nat]
    BY <2>1, LimitsAreNumbers
  <2>3. /\ since \in [Calls -> [1..MaxAttempts -> 0..Minute]]
        /\ \A c \in Calls : since[c][1] = Minute
    BY LimitsAreNumbers DEF AiInit, Old
  <2>4. Windows({}, {})
    BY <2>1, <2>3, FS_EmptySet, LimitsAreNumbers DEF Windows
  <2> QED
    BY <2>2, <2>3, <2>4 DEF Admitted
<1> QED
  BY <1>1, <1>2, <1>3, <1>4 DEF CallsInv

\* every step keeps it,
LEMMA CallsStep ==
  ASSUME CallsInv, [AiNext]_aiVars
  PROVE  CallsInv'
<1>1. CASE \E c \in Calls : extract(c)
  BY <1>1, ExtractSteps
<1>2. CASE \E c \in Calls : acquire(c)
  BY <1>2, AcquireSteps
<1>3. CASE \E c \in Calls : Usable(c)
  BY <1>3, UsableSteps
<1>4. CASE \E c \in Calls : Unusable(c) \/ ProviderError(c)
  BY <1>4, ErrorSteps
<1>5. CASE \E c \in Calls : SendAgain(c)
  BY <1>5, SendAgainSteps
<1>6. CASE extractBatch
  BY <1>6, BatchSteps
<1>7. CASE Tick
  BY <1>7, TickSteps
<1>8. CASE UNCHANGED aiVars
  <2>1. UNCHANGED <<call, chunk, ledger, reviews, window, since>>
    BY <1>8 DEF aiVars
  <2> QED
    BY <2>1, AdmissionUnmoved DEF CallsInv, Accounted, InTurn
<1> QED
  BY <1>1, <1>2, <1>3, <1>4, <1>5, <1>6, <1>7, <1>8 DEF AiNext, AiStep

\* A chunk has no more items than run together.
LEMMA ChunkIsSmall ==
  ASSUME CallsInv
  PROVE  IsFiniteSet(Chunk(chunk)) /\ Cardinality(Chunk(chunk)) <= Concurrency
<1> DEFINE K == {k \in DOMAIN Items : chunk <= k /\ k < chunk + Concurrency}
           f == [k \in K |-> Items[k]]
<1>1. chunk \in Nat /\ DOMAIN Items = 1..Len(Items) /\ Len(Items) \in Nat
  BY BatchAssumption DEF CallsInv, InTurn
<1>2. PICK n \in Int : n = chunk + Concurrency - 1
  BY <1>1, LimitsAreNumbers
<1>3. IsFiniteSet(chunk..n) /\ Cardinality(chunk..n) = Concurrency
  BY <1>1, <1>2, FS_Interval, LimitsAreNumbers
<1>4. K \in SUBSET (chunk..n)
  BY <1>1, <1>2, LimitsAreNumbers
<1>5. IsFiniteSet(K) /\ Cardinality(K) <= Concurrency
  BY <1>3, <1>4, FS_Subset
<1>6. f \in Surjection(K, Chunk(chunk))
  BY DEF Surjection, Chunk
<1> HIDE DEF K, f
<1>7. IsFiniteSet(Chunk(chunk)) /\ Cardinality(Chunk(chunk)) <= Cardinality(K)
  BY <1>5, <1>6, FS_Surjection
<1> QED
  BY <1>5, <1>7, FS_CardinalityType, LimitsAreNumbers

\* and it says what the property asks.
LEMMA CallsInvHolds ==
  ASSUME CallsInv
  PROVE  CallsAreBooked
<1>1. CallsAreAccounted
  <2> SUFFICES ASSUME NEW c \in Calls
               PROVE  /\ call[c].attempt <= MaxAttempts /\ ledger[c].ok <= call[c].attempt
                      /\ call[c].phase = "answered" => ledger[c].ok > 0 /\ ledger[c].failed = 0
                      /\ call[c].phase = "failed" <=> ledger[c].failed = 1
                      /\ call[c].phase = "refused" => ledger[c].ok = 0
                      /\ reviews[c] > 0 => call[c].phase = "answered" /\ reviews[c] = 1
    BY DEF CallsAreAccounted
  <2>1. Accounted(c)
    BY DEF CallsInv
  <2> QED
    BY <2>1 DEF Accounted, Waiting
<1>2. Cardinality({c \in Calls : AdmittedSince(c) < Minute}) <= 2 * MaxCalls
  <2>1. PICK P \in SUBSET Calls, C \in SUBSET Calls : Windows(P, C)
    BY DEF CallsInv, Admitted
  <2>2. window.calls \in 0..MaxCalls
    BY DEF CallsInv, Admitted
  <2>3. /\ IsFiniteSet(P) /\ Cardinality(P) \in Nat /\ Cardinality(P) <= MaxCalls
        /\ IsFiniteSet(C) /\ Cardinality(C) \in Nat /\ Cardinality(C) <= MaxCalls
    BY <2>1, <2>2, FS_CardinalityType, LimitsAreNumbers DEF Windows
  <2>4. /\ IsFiniteSet(P \cup C)
        /\ Cardinality(P \cup C) = Cardinality(P) + Cardinality(C) - Cardinality(P \cap C)
    BY <2>3, FS_Union
  <2>5. Cardinality(P \cap C) \in Nat
    BY <2>3, FS_Intersection, FS_CardinalityType
  <2>6. {c \in Calls : AdmittedSince(c) < Minute} \in SUBSET (P \cup C)
    BY <2>1 DEF Windows, AdmittedSince
  <2>7. /\ IsFiniteSet({c \in Calls : AdmittedSince(c) < Minute})
        /\ Cardinality({c \in Calls : AdmittedSince(c) < Minute}) <= Cardinality(P \cup C)
    BY <2>4, <2>6, FS_Subset
  <2>8. Cardinality({c \in Calls : AdmittedSince(c) < Minute}) \in Nat
    BY <2>7, FS_CardinalityType
  <2> QED
    BY <2>3, <2>4, <2>5, <2>7, <2>8, LimitsAreNumbers
<1>3. Cardinality({c \in InBatch : call[c].phase \notin Over \cup {"idle"}}) <= Concurrency
  <2> DEFINE A == {c \in InBatch : call[c].phase \notin Over \cup {"idle"}}
  <2>1. A \in SUBSET Chunk(chunk)
    <3> SUFFICES ASSUME NEW c \in A
                 PROVE  c \in Chunk(chunk)
      OBVIOUS
    <3>1. PICK k \in DOMAIN Items : c = Items[k]
      BY DEF InBatch
    <3>2. ~(k < chunk) /\ ~(k >= chunk + Concurrency)
      BY <3>1 DEF CallsInv, InTurn
    <3>3. k \in Nat /\ chunk \in Nat
      BY BatchAssumption DEF CallsInv, InTurn
    <3> QED
      BY <3>1, <3>2, <3>3, LimitsAreNumbers DEF Chunk
  <2>2. IsFiniteSet(A) /\ Cardinality(A) <= Cardinality(Chunk(chunk))
    BY <2>1, ChunkIsSmall, FS_Subset
  <2>3. Cardinality(A) \in Nat /\ Cardinality(Chunk(chunk)) \in Nat
    BY <2>2, ChunkIsSmall, FS_CardinalityType
  <2> QED
    BY <2>2, <2>3, ChunkIsSmall, LimitsAreNumbers
<1> QED
  BY <1>1, <1>2, <1>3 DEF CallsAreBooked, AdmissionBurst

(***************************************************************************)
(* For any number of calls, batches and answers: in a minute the limiter   *)
(* admits no more calls than two windows allow, a chunk of a batch runs at *)
(* a time, and every call is charged and recorded as it ended.  It bounds  *)
(* the calls admitted, not the requests sent: retries ask no limiter.      *)
(***************************************************************************)
THEOREM CallsStayBooked == AiSpec => []CallsAreBooked
<1>1. AiInit => CallsInv
  BY CallsInitially
<1>2. CallsInv /\ [AiNext]_aiVars => CallsInv'
  BY CallsStep
<1>3. CallsInv => CallsAreBooked
  BY CallsInvHolds
<1> QED
  BY <1>1, <1>2, <1>3, PTL DEF AiSpec
-----------------------------------------------------------------------------
(* The interviews.                                                         *)

TalkSteps == {"none", "session", "rounds", "resolve", "create", "observe", "decide", "facts",
              "predict", "over"}
Hearing == {"resolve", "create", "observe"}
Heard == {"decide", "facts", "predict"}
TalkState == [at : TalkSteps, session : Nat, next : Nat \ {0}]
Decisions == {Said[t].decision : t \in Transcripts} \cup {Said[t].opening.decision : t \in Transcripts}
Statuses == {"COMPLETED"} \cup {Said[t].opening.status : t \in Transcripts}
SessionRow == [of : Transcripts, rounds : Nat, decision : Decisions, status : Statuses, shared : BOOLEAN]

Observed(s, f) ==
  \/ f.key = NoKey \/ <<"observation", s, f.key>> \in lost
  \/ \E o \in shownIn : o.session = s /\ {o.key, f.key} \in Alike \cup {{f.key}}
Stored(s, f) == Sure(f) => <<"fact", s, f.key>> \in lost \/ <<s, f.key>> \in fact

\* A session is written by one call, with the rounds of its transcript.
HasSession(t) ==
  LET s == talk[t].session IN
  /\ talk[t].at \in {"rounds"} \cup Hearing \cup Heard
       => s \in DOMAIN session /\ s \notin predicted /\ session[s].of = t
  /\ talk[t].at = "rounds" => session[s].rounds <= Said[t].rounds
  /\ talk[t].at \in Hearing \cup Heard => session[s].rounds = Said[t].rounds

\* What was said so far is observed, and then stored.
HasHeard(t) ==
  LET s == talk[t].session
      n == talk[t].next
  IN  /\ talk[t].at \in Hearing \cup {"facts"} => n \in DOMAIN Shown(t)
      /\ \A i \in DOMAIN Shown(t) :
           /\ talk[t].at \in Heard \/ (talk[t].at \in Hearing /\ i < n) => Observed(s, Shown(t)[i])
           /\ talk[t].at = "predict" \/ (talk[t].at = "facts" /\ i < n) => Stored(s, Shown(t)[i])

\* A competency like the one a call is about to create was created while it looked.
LooksAlone(t) ==
  talk[t].at = "create" => \A k \in Lookalikes(Saying(t).key) : Saying(t).key \in coined

TalkOK(t) == HasSession(t) /\ HasHeard(t) /\ LooksAlone(t)

WholeSession(s) ==
  LET t == session[s].of
  IN  /\ s \in DOMAIN session /\ session[s].rounds = Said[t].rounds
      /\ \A i \in DOMAIN Shown(t) : Observed(s, Shown(t)[i]) /\ Stored(s, Shown(t)[i])

TalksInv ==
  /\ talk \in [Transcripts -> TalkState] /\ session \in Seq(SessionRow)
  /\ IsFiniteSet(shownIn) /\ \A o \in shownIn : o.session \in DOMAIN session
  /\ \A t \in Transcripts : TalkOK(t)
  /\ \A s \in predicted \ {NoSession} : WholeSession(s)
  /\ SimilarAreOne

\* What a step of the calls in T leaves to the others: their talks and sessions, and every row.
OnlyTalk(T) ==
  /\ \A u \in Transcripts \ T : talk'[u] = talk[u]
  /\ lost \subseteq lost' /\ fact \subseteq fact' /\ shownIn \subseteq shownIn' /\ coined \subseteq coined'
  /\ \A s \in DOMAIN session :
       /\ s \in DOMAIN session' /\ session'[s].of = session[s].of
       /\ \/ session'[s].rounds = session[s].rounds
          \/ \E t \in T : talk[t].at = "rounds" /\ s = talk[t].session
  /\ \A s \in predicted' \ (predicted \cup {NoSession}) : \E t \in T : talk[t].at = "predict" /\ s = talk[t].session
  /\ \A k \in competency' \ competency, u \in Transcripts \ T :
       Stands(u, "create") /\ {Saying(u).key, k} \in Alike => Saying(u).key \in coined'

\* What a transcript says is a sequence.
LEMMA SaidIsASequence ==
  ASSUME NEW t \in Transcripts
  PROVE  /\ Said[t].rounds \in Nat /\ Len(Shown(t)) \in Nat /\ DOMAIN Shown(t) = 1..Len(Shown(t))
         /\ Shown(t) = <<>> <=> Len(Shown(t)) = 0
<1>1. Said[t].rounds \in Nat /\ Shown(t) \in Seq(Range(Shown(t)))
  BY InterviewAssumption DEF Shown
<1>2. PICK v \in Seq(Range(Shown(t))) : v = Shown(t)
  BY <1>1
<1>3. Len(v) \in Nat /\ DOMAIN v = 1..Len(v) /\ (v = <<>> <=> Len(v) = 0)
  OBVIOUS
<1> QED
  BY <1>1, <1>2, <1>3

\* Rows of other transcripts are kept,
LEMMA RowsAreKept ==
  ASSUME NEW T, OnlyTalk(T), NEW s, NEW f
  PROVE  (Observed(s, f) => Observed(s, f)') /\ (Stored(s, f) => Stored(s, f)')
BY DEF OnlyTalk, Observed, Stored

\* What is recorded of an extraction that failed is of no session,
LEMMA SessionsAreSome ==
  ASSUME TalksInv
  PROVE  NoSession \notin DOMAIN session
<1>1. session \in Seq(SessionRow)
  BY DEF TalksInv
<1>2. DOMAIN session = 1..Len(session) /\ Len(session) \in Nat
  BY <1>1
<1> QED
  BY <1>2 DEF NoSession

\* so that their extractions stay sound,
LEMMA OthersAreKept ==
  ASSUME TalksInv, NEW T \in SUBSET Transcripts, OnlyTalk(T), NEW u \in Transcripts \ T
  PROVE  TalkOK(u)'
<1>1. TalkOK(u) /\ talk'[u] = talk[u]
  BY DEF TalksInv, OnlyTalk
<1>2. ASSUME talk[u].at \in {"rounds"} \cup Hearing \cup Heard
      PROVE  /\ talk[u].session \in DOMAIN session' /\ talk[u].session \notin predicted'
             /\ session'[talk[u].session].of = u
             /\ session'[talk[u].session].rounds = session[talk[u].session].rounds
  <2>1. /\ talk[u].session \in DOMAIN session /\ talk[u].session \notin predicted
        /\ session[talk[u].session].of = u
    BY <1>1, <1>2 DEF TalkOK, HasSession
  <2>2. \A t \in T : talk[t].at \in {"rounds", "predict"} => session[talk[t].session].of = t
    BY DEF TalksInv, TalkOK, HasSession, Heard
  <2> QED
    BY <2>1, <2>2, SessionsAreSome DEF OnlyTalk
<1>3. HasSession(u)'
  BY <1>1, <1>2 DEF TalkOK, HasSession
<1>4. HasHeard(u)'
  BY <1>1, RowsAreKept DEF TalkOK, HasHeard, Shown
<1>5. LooksAlone(u)'
  <2> SUFFICES ASSUME talk[u].at = "create", NEW k \in Lookalikes(Saying(u).key)'
               PROVE  Saying(u).key \in coined'
    BY <1>1 DEF LooksAlone, Saying, Shown
  <2>1. k \in competency' /\ {k, Saying(u).key} \in Alike
    BY <1>1 DEF Lookalikes, Saying, Shown
  <2>2. k \in competency => Saying(u).key \in coined
    BY <1>1, <2>1 DEF TalkOK, LooksAlone, Lookalikes
  <2>3. {Saying(u).key, k} = {k, Saying(u).key}
    OBVIOUS
  <2> QED
    BY <2>1, <2>2, <2>3 DEF OnlyTalk, Stands
<1> QED
  BY <1>3, <1>4, <1>5 DEF TalkOK

\* and so do the predictions that were written.
LEMMA PredictedAreKept ==
  ASSUME TalksInv, NEW T \in SUBSET Transcripts, OnlyTalk(T), NEW s \in predicted \ {NoSession}
  PROVE  WholeSession(s)'
<1>1. WholeSession(s)
  BY DEF TalksInv
<1>2. \A t \in T : talk[t].at = "rounds" => talk[t].session # s
  BY DEF TalksInv, TalkOK, HasSession
<1>3. s \in DOMAIN session' /\ session'[s].of = session[s].of /\ session'[s].rounds = session[s].rounds
  BY <1>1, <1>2 DEF OnlyTalk, WholeSession
<1> QED
  BY <1>1, <1>3, RowsAreKept DEF WholeSession, Shown

\* A step of one call that keeps to itself, and the rows it leaves.
LEMMA TalkSteps1 ==
  ASSUME TalksInv, NEW T \in SUBSET Transcripts, OnlyTalk(T), \A t \in T : TalkOK(t)',
         talk' \in [Transcripts -> TalkState], session' \in Seq(SessionRow),
         IsFiniteSet(shownIn'), \A o \in shownIn' : o.session \in DOMAIN session',
         \A s \in predicted' \ (predicted \cup {NoSession}) : WholeSession(s)', SimilarAreOne'
  PROVE  TalksInv'
<1>1. \A t \in Transcripts : TalkOK(t)'
  BY OthersAreKept
<1>2. \A s \in predicted' \ {NoSession} : WholeSession(s)'
  BY PredictedAreKept
<1> QED
  BY <1>1, <1>2 DEF TalksInv

\* An extraction that goes on changes that one.
LEMMA GoingOn ==
  ASSUME TalksInv, NEW t \in Transcripts, NEW step \in TalkSteps, NEW n \in Nat \ {0}, GoesOn(t, step, n)
  PROVE  /\ talk' \in [Transcripts -> TalkState]
         /\ talk'[t].at = step /\ talk'[t].session = talk[t].session /\ talk'[t].next = n
         /\ \A u \in Transcripts \ {t} : talk'[u] = talk[u]
<1>1. talk \in [Transcripts -> TalkState]
  BY DEF TalksInv
<1>2. talk' = [talk EXCEPT ![t].at = step, ![t].next = n]
  BY DEF GoesOn
<1> QED
  BY <1>1, <1>2 DEF TalkState

\* A call that begins anew has nothing to keep.
LEMMA TalkEnds ==
  ASSUME TalksInv, NEW t \in Transcripts, NEW b \in TalkState,
         b.at \in {"none", "session", "over"}, talk' = [talk EXCEPT ![t] = b]
  PROVE  /\ talk' \in [Transcripts -> TalkState] /\ TalkOK(t)'
         /\ \A u \in Transcripts \ {t} : talk'[u] = talk[u]
<1>1. /\ talk' \in [Transcripts -> TalkState] /\ talk'[t] = b
      /\ \A u \in Transcripts \ {t} : talk'[u] = talk[u]
  BY DEF TalksInv
<1> QED
  BY <1>1 DEF TalkOK, HasSession, HasHeard, LooksAlone, Hearing, Heard

\* The steps of an extraction keep all of them: its begin,
LEMMA StartSteps ==
  ASSUME TalksInv, NEW t \in Transcripts, start(t)
  PROVE  TalksInv' /\ OnlyTalk({t})
<1>1. /\ Stands(t, "none") /\ UNCHANGED <<session, competency, shownIn, fact, lost, coined>>
      /\ \/ GoesOn(t, "session", 1) /\ UNCHANGED predicted
         \/ UNCHANGED talk /\ predicted' = predicted \cup {NoSession}
  BY DEF start
<1>2. /\ talk' \in [Transcripts -> TalkState] /\ talk'[t].at \in {"none", "session"}
      /\ \A u \in Transcripts \ {t} : talk'[u] = talk[u]
  <2>1. CASE GoesOn(t, "session", 1)
    BY <2>1, GoingOn DEF TalkSteps
  <2>2. CASE UNCHANGED talk
    BY <1>1, <2>2 DEF TalksInv, Stands
  <2> QED
    BY <1>1, <2>1, <2>2
<1>3. TalkOK(t)'
  BY <1>2 DEF TalkOK, HasSession, HasHeard, LooksAlone, Hearing, Heard
<1>4. OnlyTalk({t})
  BY <1>1, <1>2 DEF OnlyTalk
<1>5. SimilarAreOne'
  BY <1>1 DEF SimilarAreOne, TalksInv
<1>6. \A s \in predicted' \ (predicted \cup {NoSession}) : WholeSession(s)'
  BY <1>1
<1> QED
  BY <1>1, <1>2, <1>3, <1>4, <1>5, <1>6, TalkSteps1 DEF TalksInv

\* the row of its session,
LEMMA NewSessionSteps ==
  ASSUME TalksInv, NEW t \in Transcripts, createSession(t)
  PROVE  TalksInv' /\ OnlyTalk({t})
<1> DEFINE row == [of |-> t, rounds |-> 0, decision |-> Said[t].opening.decision,
                   status |-> Said[t].opening.status, shared |-> FALSE]
<1>1. /\ Stands(t, "session") /\ session' = Append(session, row)
      /\ talk' = [talk EXCEPT ![t].at = "rounds", ![t].session = Len(session) + 1]
      /\ UNCHANGED <<competency, shownIn, fact, lost, predicted, faults, coined>>
  BY DEF createSession
<1>2. row \in SessionRow /\ row.of = t /\ row.rounds = 0
  BY DEF SessionRow, Decisions, Statuses
<1>3. session \in Seq(SessionRow) /\ talk \in [Transcripts -> TalkState]
  BY DEF TalksInv
<1> HIDE DEF row
<1>4. PICK n \in Nat : n = Len(session)
  BY <1>3
<1>5. /\ session' \in Seq(SessionRow) /\ DOMAIN session = 1..n /\ DOMAIN session' = 1..(n + 1)
      /\ session'[n + 1] = row /\ \A s \in 1..n : session'[s] = session[s]
  BY <1>1, <1>2, <1>3, <1>4
<1>6. /\ talk' \in [Transcripts -> TalkState]
      /\ talk'[t].at = "rounds" /\ talk'[t].session = n + 1
      /\ \A u \in Transcripts \ {t} : talk'[u] = talk[u]
  <2>1. talk' = [talk EXCEPT ![t] = [talk[t] EXCEPT !.at = "rounds", !.session = n + 1]]
    BY <1>1, <1>3, <1>4
  <2>2. [talk[t] EXCEPT !.at = "rounds", !.session = n + 1] \in TalkState
    <3>1. talk[t] \in TalkState /\ "rounds" \in TalkSteps /\ n + 1 \in Nat
      BY <1>3 DEF TalkSteps
    <3> QED
      BY <3>1 DEF TalkState
  <2>3. talk'[t] = [talk[t] EXCEPT !.at = "rounds", !.session = n + 1]
    BY <1>3, <2>1
  <2>4. talk'[t].at = "rounds" /\ talk'[t].session = n + 1
    BY <1>3, <2>3 DEF TalkState
  <2> QED
    BY <1>3, <2>1, <2>2, <2>4
<1>7. n + 1 \notin predicted
  <2>1. n + 1 \notin DOMAIN session /\ n + 1 # NoSession
    BY <1>5 DEF NoSession
  <2> QED
    BY <2>1 DEF TalksInv, WholeSession
<1>8. TalkOK(t)'
  <2>1. HasSession(t)'
    BY <1>1, <1>2, <1>5, <1>6, <1>7, SaidIsASequence DEF HasSession, Hearing, Heard
  <2> QED
    BY <1>6, <2>1 DEF TalkOK, HasHeard, LooksAlone, Hearing, Heard
<1>9. OnlyTalk({t})
  BY <1>1, <1>5, <1>6 DEF OnlyTalk
<1>10. SimilarAreOne'
  BY <1>1 DEF SimilarAreOne, TalksInv
<1>11. IsFiniteSet(shownIn') /\ \A o \in shownIn' : o.session \in DOMAIN session'
  BY <1>1, <1>5 DEF TalksInv
<1> QED
  BY <1>1, <1>5, <1>6, <1>8, <1>9, <1>10, <1>11, TalkSteps1

\* Every step below leaves the sessions as they are.
LEMMA TalkSteps2 ==
  ASSUME TalksInv, NEW t \in Transcripts, UNCHANGED <<session, shownIn, predicted>>,
         UNCHANGED <<competency, coined>>, lost \subseteq lost', fact \subseteq fact',
         talk' \in [Transcripts -> TalkState], \A u \in Transcripts \ {t} : talk'[u] = talk[u],
         TalkOK(t)'
  PROVE  TalksInv' /\ OnlyTalk({t})
<1>1. OnlyTalk({t})
  BY DEF OnlyTalk
<1>2. SimilarAreOne'
  BY DEF SimilarAreOne, TalksInv
<1> QED
  BY <1>1, <1>2, TalkSteps1 DEF TalksInv

\* The rounds are written, and the statements begin, or there are none.
LEMMA FirstStatement ==
  ASSUME NEW t \in Transcripts, NEW loop, NEW after
  PROVE  \/ AnyOf(t, loop, after) = loop /\ 1 \in DOMAIN Shown(t)
         \/ AnyOf(t, loop, after) = after /\ DOMAIN Shown(t) = {}
BY SaidIsASequence DEF AnyOf

\* the rows of its rounds,
LEMMA RoundSteps ==
  ASSUME TalksInv, NEW t \in Transcripts, CreateRound(t)
  PROVE  TalksInv' /\ OnlyTalk({t})
<1>1. talk[t].at = "rounds" /\ UNCHANGED <<competency, shownIn, fact, lost, predicted, faults, coined>>
  BY DEF CreateRound, Stands
<1>2. TalkOK(t)
  BY DEF TalksInv
<1>3. PICK s \in DOMAIN session : s = talk[t].session
  BY <1>1, <1>2 DEF TalkOK, HasSession
<1>4. s \notin predicted /\ session[s].of = t /\ session[s].rounds <= Said[t].rounds
  BY <1>1, <1>2, <1>3 DEF TalkOK, HasSession
<1>5. session \in Seq(SessionRow) /\ session[s] \in SessionRow
  BY <1>3 DEF TalksInv
<1>6. CASE session[s].rounds < Said[t].rounds
  <2> DEFINE row == [session[s] EXCEPT !.rounds = @ + 1]
  <2>1. row \in SessionRow /\ row.of = t /\ row.rounds = session[s].rounds + 1
    BY <1>4, <1>5 DEF SessionRow
  <2>2. session' = [session EXCEPT ![s] = row] /\ UNCHANGED talk
    BY <1>3, <1>6 DEF CreateRound
  <2> HIDE DEF row
  <2>3. /\ session' \in Seq(SessionRow) /\ DOMAIN session' = DOMAIN session /\ session'[s] = row
        /\ \A r \in DOMAIN session \ {s} : session'[r] = session[r]
    BY <1>3, <1>5, <2>1, <2>2
  <2>4. row.rounds <= Said[t].rounds
    BY <1>5, <1>6, <2>1, SaidIsASequence DEF SessionRow
  <2>5. HasSession(t)'
    BY <1>1, <1>3, <1>4, <2>1, <2>2, <2>3, <2>4 DEF HasSession, Hearing, Heard
  <2>6. TalkOK(t)'
    BY <1>1, <2>2, <2>5 DEF TalkOK, HasHeard, LooksAlone, Hearing, Heard
  <2>7. OnlyTalk({t})
    BY <1>1, <1>3, <1>4, <2>1, <2>2, <2>3 DEF OnlyTalk
  <2>8. SimilarAreOne'
    BY <1>1 DEF SimilarAreOne, TalksInv
  <2> QED
    BY <1>1, <2>2, <2>3, <2>6, <2>7, <2>8, TalkSteps1 DEF TalksInv
<1>7. CASE ~(session[s].rounds < Said[t].rounds)
  <2>1. PICK step \in {"resolve", "decide"} :
             step = AnyOf(t, "resolve", "decide") /\ GoesOn(t, step, 1)
    BY <1>3, <1>7 DEF CreateRound, AnyOf
  <2>2. /\ talk' \in [Transcripts -> TalkState]
        /\ talk'[t].at = step /\ talk'[t].session = s /\ talk'[t].next = 1
        /\ \A u \in Transcripts \ {t} : talk'[u] = talk[u]
    BY <1>3, <2>1, GoingOn DEF TalkSteps
  <2>3. UNCHANGED session
    BY <1>3, <1>7 DEF CreateRound
  <2>4. session[s].rounds = Said[t].rounds
    BY <1>4, <1>5, <1>7, SaidIsASequence DEF SessionRow
  <2>5. HasSession(t)'
    BY <1>1, <1>3, <1>4, <2>1, <2>2, <2>3, <2>4 DEF HasSession, Hearing, Heard
  <2>6. HasHeard(t)'
    BY <2>1, <2>2, FirstStatement, SaidIsASequence DEF HasHeard, Hearing, Heard, Shown
  <2>7. TalkOK(t)'
    BY <2>1, <2>2, <2>5, <2>6 DEF TalkOK, LooksAlone
  <2> QED
    BY <1>1, <2>2, <2>3, <2>7, TalkSteps2
<1> QED
  BY <1>6, <1>7

\* What is said next is one of the statements.
LEMMA WhatIsSaid ==
  ASSUME TalksInv, NEW t \in Transcripts, talk[t].at \in Hearing \cup {"facts"}
  PROVE  /\ talk[t].next \in DOMAIN Shown(t) /\ talk[t].next \in Nat \ {0}
         /\ talk[t].session \in DOMAIN session
         /\ More(t) => talk[t].next + 1 \in DOMAIN Shown(t)
         /\ ~More(t) => talk[t].next = Len(Shown(t))
<1>1. TalkOK(t)
  BY DEF TalksInv
<1>2. talk[t].next \in DOMAIN Shown(t) /\ talk[t].session \in DOMAIN session
  BY <1>1 DEF TalkOK, HasHeard, HasSession, Heard
<1> QED
  BY <1>2, SaidIsASequence DEF More

\* What follows a statement is the next one, or the decision.
LEMMA NextSteps ==
  ASSUME TalksInv, NEW t \in Transcripts, talk[t].at \in Hearing, NextStatement(t)
  PROVE  /\ talk' \in [Transcripts -> TalkState] /\ talk'[t].session = talk[t].session
         /\ \A u \in Transcripts \ {t} : talk'[u] = talk[u]
         /\ \/ /\ talk'[t].at = "resolve" /\ talk'[t].next = talk[t].next + 1
               /\ talk[t].next + 1 \in DOMAIN Shown(t)
            \/ talk'[t].at = "decide" /\ talk[t].next = Len(Shown(t))
<1>1. PICK n \in Nat \ {0} : n = talk[t].next
  BY WhatIsSaid
<1>2. CASE More(t)
  <2>1. GoesOn(t, "resolve", n + 1) /\ n + 1 \in Nat \ {0}
    BY <1>1, <1>2 DEF NextStatement
  <2> QED
    BY <1>1, <1>2, <2>1, WhatIsSaid, GoingOn DEF TalkSteps
<1>3. CASE ~More(t)
  <2>1. GoesOn(t, "decide", 1)
    BY <1>3 DEF NextStatement
  <2> QED
    BY <1>3, <2>1, WhatIsSaid, GoingOn DEF TalkSteps
<1> QED
  BY <1>2, <1>3

\* One that was observed, with those before it, leaves a call that has heard so much.
LEMMA HeardOneMore ==
  ASSUME TalksInv, NEW t \in Transcripts, talk[t].at \in Hearing, talk[t].at \notin Heard,
         NextStatement(t), UNCHANGED <<session, predicted>>, OnlyTalk({t}),
         NEW s, s = talk[t].session, NEW f, f = Saying(t), Observed(s, f)'
  PROVE  TalkOK(t)'
<1>1. TalkOK(t) /\ talk \in [Transcripts -> TalkState]
  BY DEF TalksInv
<1>3. PICK n \in Nat \ {0} : n = talk[t].next
  BY <1>1 DEF TalkState
<1>4. /\ s \in DOMAIN session /\ s \notin predicted /\ session[s].of = t
      /\ session[s].rounds = Said[t].rounds
  BY <1>1 DEF TalkOK, HasSession
<1>5. /\ talk' \in [Transcripts -> TalkState] /\ talk'[t].session = s
      /\ \/ talk'[t].at = "resolve" /\ talk'[t].next = n + 1 /\ n + 1 \in DOMAIN Shown(t)
         \/ talk'[t].at = "decide" /\ n = Len(Shown(t))
  BY <1>3, NextSteps
<1>6. HasSession(t)'
  BY <1>4, <1>5 DEF HasSession, Hearing, Heard
<1>7. \A i \in DOMAIN Shown(t) : i <= n => Observed(s, Shown(t)[i])'
  <2> SUFFICES ASSUME NEW i \in DOMAIN Shown(t), i <= n
               PROVE  Observed(s, Shown(t)[i])'
    OBVIOUS
  <2>1. PICK g : g = Shown(t)[i]
    OBVIOUS
  <2>2. CASE i = n
    <3>1. f = g
      BY <1>3, <2>1, <2>2 DEF Saying
    <3> QED
      BY <2>1, <3>1 DEF Shown
  <2>3. CASE i < n
    <3>1. Observed(s, g)
      BY <1>1, <1>3, <2>1, <2>3 DEF TalkOK, HasHeard
    <3>2. Observed(s, g)'
      BY <3>1, RowsAreKept
    <3> QED
      BY <2>1, <3>2 DEF Shown
  <2>4. i \in Nat
    BY SaidIsASequence
  <2> QED
    BY <1>3, <2>2, <2>3, <2>4
<1>8. HasHeard(t)'
  <2>1. \A i \in DOMAIN Shown(t) : i \in Nat /\ i <= Len(Shown(t))
    BY SaidIsASequence
  <2>2. CASE talk'[t].at = "resolve" /\ talk'[t].next = n + 1 /\ n + 1 \in DOMAIN Shown(t)
    BY <1>3, <1>5, <1>7, <2>1, <2>2 DEF HasHeard, Hearing, Heard, Shown
  <2>3. CASE talk'[t].at = "decide" /\ n = Len(Shown(t))
    BY <1>5, <1>7, <2>1, <2>3 DEF HasHeard, Hearing, Heard, Shown
  <2> QED
    BY <1>5, <2>2, <2>3
<1> QED
  BY <1>5, <1>6, <1>8 DEF TalkOK, LooksAlone

\* the search for a competency,
LEMMA ResolveSteps ==
  ASSUME TalksInv, NEW t \in Transcripts, resolveCompetencyId(t)
  PROVE  TalksInv' /\ OnlyTalk({t})
<1>1. talk[t].at = "resolve" /\ UNCHANGED <<session, competency, shownIn, fact, lost, predicted, faults, coined>>
  BY DEF resolveCompetencyId, Stands
<1>2. TalkOK(t) /\ talk \in [Transcripts -> TalkState]
  BY DEF TalksInv
<1>3. talk[t].at \in Hearing /\ talk[t].at \notin Heard
  BY <1>1 DEF Hearing, Heard
<1>4. CASE Saying(t).key = NoKey /\ NextStatement(t)
  <2>1. /\ talk' \in [Transcripts -> TalkState]
        /\ \A u \in Transcripts \ {t} : talk'[u] = talk[u]
    BY <1>3, <1>4, NextSteps
  <2>2. OnlyTalk({t})
    BY <1>1, <2>1 DEF OnlyTalk
  <2>3. PICK f : f = Saying(t)
    OBVIOUS
  <2>4. PICK n : n = talk[t].next
    OBVIOUS
  <2>5. f = Shown(t)[n] /\ f.key = NoKey
    BY <1>4, <2>3, <2>4 DEF Saying
  <2>6. TalkOK(t)'
    <3>1. PICK s : s = talk[t].session
      OBVIOUS
    <3>2. Observed(s, f)'
      BY <2>5 DEF Observed
    <3> QED
      BY <1>1, <1>3, <1>4, <2>2, <2>3, <3>1, <3>2, HeardOneMore
  <2> QED
    BY <1>1, <2>1, <2>6, TalkSteps2
<1>5. ASSUME NEW step \in {"observe", "create"}, talk' = [talk EXCEPT ![t].at = step],
             step = "create" => Lookalikes(Saying(t).key) = {}
      PROVE  TalksInv' /\ OnlyTalk({t})
  <2>1. /\ talk' \in [Transcripts -> TalkState]
        /\ talk'[t].at = step /\ talk'[t].session = talk[t].session /\ talk'[t].next = talk[t].next
        /\ \A u \in Transcripts \ {t} : talk'[u] = talk[u]
    BY <1>2, <1>5 DEF TalkState, TalkSteps
  <2>2. HasSession(t)'
    BY <1>1, <1>2, <2>1 DEF TalkOK, HasSession, Hearing, Heard
  <2>3. HasHeard(t)'
    <3>1. /\ talk[t].at \in Hearing /\ talk'[t].at \in Hearing
          /\ talk'[t].at \notin Heard /\ talk'[t].at \notin {"facts", "predict"}
      BY <1>1, <2>1 DEF Hearing, Heard
    <3>2. \A s, f : Observed(s, f)' <=> Observed(s, f)
      BY <1>1 DEF Observed
    <3> QED
      BY <1>2, <2>1, <3>1, <3>2 DEF TalkOK, HasHeard, Shown
  <2>4. LooksAlone(t)'
    BY <1>1, <1>5, <2>1 DEF LooksAlone, Lookalikes, Saying, Shown
  <2>5. TalkOK(t)'
    BY <2>2, <2>3, <2>4 DEF TalkOK
  <2> QED
    BY <1>1, <2>1, <2>5, TalkSteps2
<1>6. CASE /\ Saying(t).key # NoKey
           /\ talk' = [talk EXCEPT ![t].at = IF Saying(t).key \in competency \/ Lookalikes(Saying(t).key) # {}
                                            THEN "observe" ELSE "create"]
  <2>1. PICK step \in {"observe", "create"} :
           step = IF Saying(t).key \in competency \/ Lookalikes(Saying(t).key) # {} THEN "observe" ELSE "create"
    OBVIOUS
  <2>2. talk' = [talk EXCEPT ![t].at = step] /\ (step = "create" => Lookalikes(Saying(t).key) = {})
    BY <1>6, <2>1
  <2> QED
    BY <1>5, <2>2
<1> QED
  BY <1>4, <1>6 DEF resolveCompetencyId

\* the new competency,
LEMMA CreateSteps ==
  ASSUME TalksInv, NEW t \in Transcripts, CreateCompetency(t)
  PROVE  TalksInv' /\ OnlyTalk({t})
<1> DEFINE key == Saying(t).key
<1>1. talk[t].at = "create" /\ UNCHANGED <<session, shownIn, fact, lost, predicted, faults>>
  BY DEF CreateCompetency, Stands
<1>2. TalkOK(t) /\ talk \in [Transcripts -> TalkState]
  BY DEF TalksInv
<1>3. CASE key \in competency
  <2>1. talk' = [talk EXCEPT ![t] = NoTalk] /\ UNCHANGED <<competency, coined>>
    BY <1>3 DEF CreateCompetency
  <2>2. NoTalk \in TalkState /\ NoTalk.at = "none"
    BY DEF NoTalk, TalkState, TalkSteps
  <2>3. /\ talk' \in [Transcripts -> TalkState] /\ TalkOK(t)'
        /\ \A u \in Transcripts \ {t} : talk'[u] = talk[u]
    BY <2>1, <2>2, TalkEnds
  <2> QED
    BY <1>1, <2>1, <2>3, TalkSteps2
<1>4. CASE key \notin competency
  <2>1. PICK n \in Nat \ {0} : n = talk[t].next
    BY <1>2 DEF TalkState
  <2>2. GoesOn(t, "observe", n) /\ competency' = competency \cup {key}
        /\ coined' = coined \cup {Saying(o).key : o \in LookingFor(key)}
    BY <1>4, <2>1 DEF CreateCompetency
  <2>3. /\ talk' \in [Transcripts -> TalkState]
        /\ talk'[t].at = "observe" /\ talk'[t].session = talk[t].session /\ talk'[t].next = talk[t].next
        /\ \A u \in Transcripts \ {t} : talk'[u] = talk[u]
    BY <2>1, <2>2, GoingOn DEF TalkSteps
  <2>4. HasSession(t)'
    BY <1>1, <1>2, <2>3 DEF TalkOK, HasSession, Hearing, Heard
  <2>5. HasHeard(t)'
    BY <1>1, <1>2, <2>3 DEF TalkOK, HasHeard, Hearing, Heard, Shown, Observed, Stored
  <2>6. TalkOK(t)'
    BY <2>3, <2>4, <2>5 DEF TalkOK, LooksAlone
  <2>7. ASSUME NEW u \in Transcripts, Stands(u, "create"), {Saying(u).key, key} \in Alike
        PROVE  Saying(u).key \in coined'
    BY <2>2, <2>7 DEF LookingFor
  <2>8. OnlyTalk({t})
    BY <1>1, <2>2, <2>3, <2>7 DEF OnlyTalk
  <2>9. ASSUME NEW k \in competency', NEW j \in competency', {k, j} \in Alike
        PROVE  {k, j} \cap coined' # {}
    <3>1. CASE k \in competency /\ j \in competency
      BY <2>2, <2>9, <3>1 DEF TalksInv, SimilarAreOne
    <3>2. CASE k = key /\ j = key
      <4>1. {k, j} = {key, key} /\ Stands(t, "create")
        BY <1>1, <3>2 DEF Stands
      <4> QED
        BY <2>7, <2>9, <3>2, <4>1
    <3>3. ASSUME NEW i \in competency, {i, key} \in Alike
          PROVE  key \in coined'
      BY <1>1, <1>2, <2>2, <3>3 DEF TalkOK, LooksAlone, Lookalikes
    <3>4. CASE k = key /\ j \in competency
      <4>1. {j, key} = {k, j}
        BY <3>4
      <4> QED
        BY <2>9, <3>3, <3>4, <4>1
    <3>5. CASE j = key /\ k \in competency
      BY <2>9, <3>3, <3>5
    <3> QED
      BY <2>2, <3>1, <3>2, <3>4, <3>5
  <2>10. SimilarAreOne'
    BY <2>9 DEF SimilarAreOne
  <2> QED
    BY <1>1, <2>3, <2>6, <2>8, <2>10, TalkSteps1 DEF TalksInv
<1> QED
  BY <1>3, <1>4

\* The row of a competency, or of one like it, is what was said.
LEMMA ObservationIsOfWhatWasSaid ==
  ASSUME NEW s, NEW f, NEW key \in SameCompetency(f.key), NEW o,
         o.session = s, o.key = key, o \in shownIn'
  PROVE  Observed(s, f)'
<1>1. {key, f.key} \in Alike \cup {{f.key}}
  BY DEF SameCompetency, Lookalikes
<1> QED
  BY <1>1 DEF Observed

\* the observation,
LEMMA ObserveSteps ==
  ASSUME TalksInv, NEW t \in Transcripts, CreateObservation(t)
  PROVE  TalksInv' /\ OnlyTalk({t})
<1>1. /\ talk[t].at = "observe" /\ UNCHANGED <<session, competency, fact, predicted, coined>>
      /\ talk[t].at \in Hearing /\ talk[t].at \notin Heard
  BY DEF CreateObservation, Stands, Hearing, Heard
<1>2. TalkOK(t) /\ talk \in [Transcripts -> TalkState]
  BY DEF TalksInv
<1>3. PICK s : s = talk[t].session
  OBVIOUS
<1>4. PICK f : f = Saying(t)
  OBVIOUS
<1>5. PICK n \in Nat \ {0} : n = talk[t].next
  BY <1>2 DEF TalkState
<1>6. /\ s \in DOMAIN session /\ s \notin predicted /\ session[s].of = t
      /\ session[s].rounds = Said[t].rounds
  BY <1>1, <1>2, <1>3 DEF TalkOK, HasSession
<1>7. f = Shown(t)[n] /\ n \in DOMAIN Shown(t) /\ (More(t) => n + 1 \in DOMAIN Shown(t))
      /\ (~More(t) => n = Len(Shown(t)))
  BY <1>1, <1>4, <1>5, WhatIsSaid DEF Saying
<1>8. /\ lost \subseteq lost' /\ Observed(s, f)'
      /\ \/ shownIn' = shownIn
         \/ \E o : shownIn' = shownIn \cup {o} /\ o.session = s
  <2>1. CASE lost' = lost \cup {<<"observation", s, f.key>>} /\ shownIn' = shownIn
    BY <2>1 DEF Observed
  <2>2. ASSUME NEW key \in SameCompetency(f.key), lost' = lost,
               shownIn' = shownIn \cup {[session |-> s, key |-> key, level |-> f.level,
                            round |-> IF session[s].rounds > 0 THEN 1 ELSE 0]}
        PROVE  Observed(s, f)' /\ \E o : shownIn' = shownIn \cup {o} /\ o.session = s
    <3>1. PICK o : o = [session |-> s, key |-> key, level |-> f.level,
                        round |-> IF session[s].rounds > 0 THEN 1 ELSE 0]
      OBVIOUS
    <3>2. o.session = s /\ o.key = key /\ shownIn' = shownIn \cup {o}
      BY <2>2, <3>1
    <3> QED
      BY <3>2, ObservationIsOfWhatWasSaid
  <2> QED
    BY <1>3, <1>4, <2>1, <2>2 DEF CreateObservation
<1>9. /\ NextStatement(t) /\ talk' \in [Transcripts -> TalkState]
      /\ \A u \in Transcripts \ {t} : talk'[u] = talk[u]
  BY <1>1, NextSteps DEF CreateObservation
<1>10. OnlyTalk({t})
  BY <1>1, <1>8, <1>9 DEF OnlyTalk
<1>14. TalkOK(t)'
  BY <1>1, <1>3, <1>4, <1>8, <1>9, <1>10, HeardOneMore
<1>15. IsFiniteSet(shownIn') /\ \A o \in shownIn' : o.session \in DOMAIN session'
  BY <1>1, <1>6, <1>8, FS_AddElement DEF TalksInv
<1>16. SimilarAreOne'
  BY <1>1 DEF SimilarAreOne, TalksInv
<1> QED
  BY <1>1, <1>9, <1>10, <1>14, <1>15, <1>16, TalkSteps1 DEF TalksInv

\* the decision on it,
LEMMA DecideSteps ==
  ASSUME TalksInv, NEW t \in Transcripts, Decide(t)
  PROVE  TalksInv' /\ OnlyTalk({t})
<1>1. talk[t].at = "decide" /\ UNCHANGED <<competency, shownIn, fact, lost, predicted, coined>>
  BY DEF Decide, Stands
<1>2. TalkOK(t)
  BY DEF TalksInv
<1>3. PICK s \in DOMAIN session : s = talk[t].session
  BY <1>1, <1>2 DEF TalkOK, HasSession, Heard
<1>4. s \notin predicted /\ session[s].of = t /\ session[s].rounds = Said[t].rounds
  BY <1>1, <1>2, <1>3 DEF TalkOK, HasSession, Heard
<1>5. session \in Seq(SessionRow) /\ session[s] \in SessionRow
  BY <1>3 DEF TalksInv
<1>6. /\ session' \in Seq(SessionRow) /\ DOMAIN session' = DOMAIN session
      /\ \A r \in DOMAIN session : /\ session'[r].of = session[r].of
                                   /\ session'[r].rounds = session[r].rounds
  <2> DEFINE row == [session[s] EXCEPT !.decision = Said[t].decision, !.status = "COMPLETED"]
  <2>1. row \in SessionRow /\ row.of = session[s].of /\ row.rounds = session[s].rounds
    BY <1>5 DEF SessionRow, Decisions, Statuses
  <2>2. session' = session \/ session' = [session EXCEPT ![s] = row]
    BY <1>3 DEF Decide
  <2> HIDE DEF row
  <2> QED
    BY <1>3, <1>5, <2>1, <2>2
<1>7. PICK step \in {"facts", "predict"} :
           step = AnyOf(t, "facts", "predict") /\ GoesOn(t, step, 1)
  BY DEF Decide, AnyOf
<1>8. /\ talk' \in [Transcripts -> TalkState]
      /\ talk'[t].at = step /\ talk'[t].session = s /\ talk'[t].next = 1
      /\ \A u \in Transcripts \ {t} : talk'[u] = talk[u]
  BY <1>3, <1>7, GoingOn DEF TalkSteps
<1>9. HasSession(t)'
  BY <1>1, <1>3, <1>4, <1>6, <1>7, <1>8 DEF HasSession, Hearing, Heard
<1>10. \A i \in DOMAIN Shown(t) : Observed(s, Shown(t)[i])'
  <2>1. \A i \in DOMAIN Shown(t) : Observed(s, Shown(t)[i])
    BY <1>1, <1>2, <1>3 DEF TalkOK, HasHeard, Heard
  <2> QED
    BY <1>1, <2>1 DEF Observed, Shown
<1>11. \/ step = "facts" /\ 1 \in DOMAIN Shown(t)
       \/ step = "predict" /\ DOMAIN Shown(t) = {}
  BY <1>7, SaidIsASequence DEF AnyOf
<1>12. HasHeard(t)'
  BY <1>7, <1>8, <1>10, <1>11, SaidIsASequence DEF HasHeard, Hearing, Heard, Shown
<1>13. TalkOK(t)'
  BY <1>7, <1>8, <1>9, <1>12 DEF TalkOK, LooksAlone
<1>14. OnlyTalk({t})
  BY <1>1, <1>6, <1>8 DEF OnlyTalk
<1>15. SimilarAreOne'
  BY <1>1 DEF SimilarAreOne, TalksInv
<1> QED
  BY <1>1, <1>6, <1>8, <1>13, <1>14, <1>15, TalkSteps1 DEF TalksInv

\* the facts,
LEMMA FactSteps ==
  ASSUME TalksInv, NEW t \in Transcripts, writeInterviewFactObservations(t)
  PROVE  TalksInv' /\ OnlyTalk({t})
<1>1. /\ talk[t].at = "facts" /\ UNCHANGED <<session, competency, shownIn, predicted, coined>>
  BY DEF writeInterviewFactObservations, Stands
<1>2. TalkOK(t) /\ talk \in [Transcripts -> TalkState]
  BY DEF TalksInv
<1>3. PICK s : s = talk[t].session
  OBVIOUS
<1>4. PICK f : f = Saying(t)
  OBVIOUS
<1>5. PICK n \in Nat \ {0} : n = talk[t].next
  BY <1>2 DEF TalkState
<1>6. /\ s \in DOMAIN session /\ s \notin predicted /\ session[s].of = t
      /\ session[s].rounds = Said[t].rounds
  BY <1>1, <1>2, <1>3 DEF TalkOK, HasSession, Heard
<1>7. f = Shown(t)[n] /\ n \in DOMAIN Shown(t) /\ (More(t) => n + 1 \in DOMAIN Shown(t))
      /\ (~More(t) => n = Len(Shown(t)))
  BY <1>1, <1>4, <1>5, WhatIsSaid DEF Saying
<1>8. lost \subseteq lost' /\ fact \subseteq fact' /\ Stored(s, f)'
  <2>1. \/ fact' = (IF Sure(f) THEN fact \cup {<<s, f.key>>} ELSE fact) /\ UNCHANGED lost
        \/ lost' = lost \cup {<<"fact", s, f.key>>} /\ UNCHANGED fact
    BY <1>3, <1>4 DEF writeInterviewFactObservations
  <2> QED
    BY <2>1 DEF Stored, Sure
<1>9. /\ talk' \in [Transcripts -> TalkState] /\ talk'[t].session = s
      /\ \A u \in Transcripts \ {t} : talk'[u] = talk[u]
      /\ \/ talk'[t].at = "facts" /\ talk'[t].next = n + 1 /\ n + 1 \in DOMAIN Shown(t)
         \/ talk'[t].at = "predict" /\ n = Len(Shown(t))
  <2>1. CASE More(t)
    <3>1. GoesOn(t, "facts", n + 1) /\ n + 1 \in Nat \ {0}
      BY <1>5, <2>1 DEF writeInterviewFactObservations
    <3> QED
      BY <1>3, <1>7, <2>1, <3>1, GoingOn DEF TalkSteps
  <2>2. CASE ~More(t)
    <3>1. GoesOn(t, "predict", 1)
      BY <2>2 DEF writeInterviewFactObservations
    <3> QED
      BY <1>3, <1>7, <2>2, <3>1, GoingOn DEF TalkSteps
  <2> QED
    BY <2>1, <2>2
<1>10. OnlyTalk({t})
  BY <1>1, <1>8, <1>9 DEF OnlyTalk
<1>11. HasSession(t)'
  BY <1>1, <1>6, <1>9 DEF HasSession, Hearing, Heard
<1>12. \A i \in DOMAIN Shown(t) : i <= n => Stored(s, Shown(t)[i])'
  <2> SUFFICES ASSUME NEW i \in DOMAIN Shown(t), i <= n
               PROVE  Stored(s, Shown(t)[i])'
    OBVIOUS
  <2>1. PICK g : g = Shown(t)[i]
    OBVIOUS
  <2>2. CASE i = n
    BY <1>7, <1>8, <2>2
  <2>3. CASE i < n
    <3>1. Stored(s, g)
      BY <1>1, <1>2, <1>3, <1>5, <2>1, <2>3 DEF TalkOK, HasHeard
    <3>2. Stored(s, g)'
      BY <1>10, <3>1, RowsAreKept
    <3> QED
      BY <2>1, <3>2 DEF Shown
  <2> QED
    BY <1>7, <2>2, <2>3, SaidIsASequence
<1>13. \A i \in DOMAIN Shown(t) : Observed(s, Shown(t)[i])'
  <2> SUFFICES ASSUME NEW i \in DOMAIN Shown(t)
               PROVE  Observed(s, Shown(t)[i])'
    OBVIOUS
  <2>1. PICK g : g = Shown(t)[i]
    OBVIOUS
  <2>2. Observed(s, g)
    BY <1>1, <1>2, <1>3, <2>1 DEF TalkOK, HasHeard, Heard
  <2>3. Observed(s, g)'
    BY <1>10, <2>2, RowsAreKept
  <2> QED
    BY <2>1, <2>3 DEF Shown
<1>14. HasHeard(t)'
  <2>1. \A i \in DOMAIN Shown(t) : i \in Nat /\ i <= Len(Shown(t))
    BY SaidIsASequence
  <2>2. CASE talk'[t].at = "facts" /\ talk'[t].next = n + 1 /\ n + 1 \in DOMAIN Shown(t)
    BY <1>9, <1>12, <1>13, <2>1, <2>2 DEF HasHeard, Hearing, Heard, Shown
  <2>3. CASE talk'[t].at = "predict" /\ n = Len(Shown(t))
    BY <1>9, <1>12, <1>13, <2>1, <2>3 DEF HasHeard, Hearing, Heard, Shown
  <2> QED
    BY <1>9, <2>2, <2>3
<1>15. TalkOK(t)'
  BY <1>9, <1>11, <1>14 DEF TalkOK, LooksAlone
<1> QED
  BY <1>1, <1>8, <1>9, <1>15, TalkSteps2

\* the prediction,
LEMMA PredictSteps ==
  ASSUME TalksInv, NEW t \in Transcripts, writePrediction(t)
  PROVE  TalksInv' /\ OnlyTalk({t})
<1>1. /\ talk[t].at = "predict" /\ UNCHANGED <<session, competency, shownIn, fact, lost, faults, coined>>
      /\ predicted' = predicted \cup {talk[t].session}
  BY DEF writePrediction, Stands
<1>2. TalkOK(t)
  BY DEF TalksInv
<1>3. PICK b \in TalkState : b.at = "over" /\ talk' = [talk EXCEPT ![t] = b]
  <2> DEFINE b == [NoTalk EXCEPT !.at = "over"]
  <2>1. b \in TalkState /\ b.at = "over"
    BY DEF NoTalk, TalkState, TalkSteps
  <2>2. talk' = [talk EXCEPT ![t] = b]
    BY DEF writePrediction
  <2> HIDE DEF b
  <2> QED
    BY <2>1, <2>2
<1>4. /\ talk' \in [Transcripts -> TalkState] /\ TalkOK(t)'
      /\ \A u \in Transcripts \ {t} : talk'[u] = talk[u]
  BY <1>3, TalkEnds
<1>5. PICK s : s = talk[t].session
  OBVIOUS
<1>6. WholeSession(s)
  BY <1>1, <1>2, <1>5 DEF TalkOK, HasSession, HasHeard, Hearing, Heard, WholeSession
<1>7. WholeSession(s)'
  BY <1>1, <1>6 DEF WholeSession, Observed, Stored, Shown
<1>8. OnlyTalk({t})
  BY <1>1, <1>4 DEF OnlyTalk
<1>9. SimilarAreOne'
  BY <1>1 DEF SimilarAreOne, TalksInv
<1>10. \A r \in predicted' \ (predicted \cup {NoSession}) : WholeSession(r)'
  BY <1>1, <1>5, <1>7
<1> QED
  BY <1>1, <1>4, <1>8, <1>9, <1>10, TalkSteps1 DEF TalksInv

\* an error,
LEMMA ThrowSteps ==
  ASSUME TalksInv, NEW t \in Transcripts, Throws(t)
  PROVE  TalksInv' /\ OnlyTalk({t})
<1>1. UNCHANGED <<session, competency, shownIn, fact, lost, predicted, coined>>
      /\ talk' = [talk EXCEPT ![t] = NoTalk]
  BY DEF Throws
<1>2. NoTalk \in TalkState /\ NoTalk.at = "none"
  BY DEF NoTalk, TalkState, TalkSteps
<1>3. /\ talk' \in [Transcripts -> TalkState] /\ TalkOK(t)'
      /\ \A u \in Transcripts \ {t} : talk'[u] = talk[u]
  BY <1>1, <1>2, TalkEnds
<1> QED
  BY <1>1, <1>3, TalkSteps2

\* and the consent of the user.
LEMMA ShareSteps ==
  ASSUME TalksInv, NEW s \in DOMAIN session, Share(s)
  PROVE  TalksInv' /\ OnlyTalk({})
<1>1. /\ session' = [session EXCEPT ![s].shared = TRUE]
      /\ UNCHANGED <<talk, competency, shownIn, fact, lost, predicted, faults, coined>>
  BY DEF Share
<1>2. session \in Seq(SessionRow) /\ session[s] \in SessionRow
  BY DEF TalksInv
<1>3. /\ session' \in Seq(SessionRow) /\ DOMAIN session' = DOMAIN session
      /\ \A r \in DOMAIN session : /\ session'[r].of = session[r].of
                                   /\ session'[r].rounds = session[r].rounds
  <2> DEFINE row == [session[s] EXCEPT !.shared = TRUE]
  <2>1. row \in SessionRow /\ row.of = session[s].of /\ row.rounds = session[s].rounds
    BY <1>2 DEF SessionRow
  <2>2. session' = [session EXCEPT ![s] = row]
    BY <1>1
  <2> HIDE DEF row
  <2> QED
    BY <1>2, <2>1, <2>2
<1>4. OnlyTalk({})
  BY <1>1, <1>3 DEF OnlyTalk
<1>5. SimilarAreOne'
  BY <1>1 DEF SimilarAreOne, TalksInv
<1> QED
  BY <1>1, <1>3, <1>4, <1>5, TalkSteps1 DEF TalksInv

-----------------------------------------------------------------------------
(* The patterns mined from them.                                           *)

Passing == {"none", "FREQUENT_COMPETENCY_SET", "FAILURE_MODE"}

IsPass(b) ==
  /\ b = [at |-> b.at, step |-> b.step, window |-> b.window, rows |-> b.rows, todo |-> b.todo,
          key |-> b.key, against |-> b.against]
  /\ b.at \in Passing /\ b.step \in {"create", "look", "drift"} /\ IsFiniteSet(b.rows)

Witnessed(u, key) == \E o \in shownIn : Owner(o.session) = u /\ o.key = key

\* A published pattern of the key is of that window, and another is of a later one.
Superseded(key, w) ==
  \E q, n \in findPublishedPatterns : q.key = key /\ q.window = w /\ n.key = key /\ n.window > q.window

\* What a pass has read stays true of the rows, what it has to write is of what it has read,
\* and what it compares with is no longer the newest.
SoundPass(b) ==
  /\ IsPass(b)
  /\ \A r \in b.rows : Witnessed(r.user, r.key)
  /\ \A k \in b.todo : \E r \in b.rows : r.key = k
  /\ b.step # "create" => \E r \in b.rows : r.key = b.key
  /\ b.step = "drift" => Superseded(b.key, b.against)

PassOK(m) == SoundPass(miner[m])

MinesInv ==
  /\ DOMAIN miner = Miners /\ \A m \in Miners : PassOK(m)
  /\ CohortsAreReal

\* A share of a whole, in percent.
LEMMA SharesArePercents ==
  ASSUME NEW a \in Nat, NEW b \in Nat, a <= b, b > 0
  PROVE  Rounded(100 * a, b) \in 0..100
<1>1. PICK x \in Nat : x = 2 * (100 * a) + b
  OBVIOUS
<1>2. PICK y \in Nat : y = 2 * b
  OBVIOUS
<1>3. PICK q \in Int : q = x \div y
  BY <1>1, <1>2
<1>4. y > 0 /\ y * q <= x /\ x < y * q + y
  BY <1>1, <1>2, <1>3
<1>5. x < 101 * y
  BY <1>1, <1>2
<1>6. ~(q >= 101)
  <2>1. q >= 101 => y * q >= y * 101
    BY <1>4
  <2>2. y * 101 = 101 * y
    BY <1>2
  <2> QED
    BY <1>3, <1>4, <1>5, <2>1, <2>2
<1>7. ~(q < 0)
  <2>1. q + 1 <= 0 => y * (q + 1) <= 0
    BY <1>4
  <2>2. y * (q + 1) = y * q + y
    BY <1>3
  <2> QED
    BY <1>3, <1>4, <2>1, <2>2
<1> QED
  BY <1>1, <1>2, <1>3, <1>6, <1>7 DEF Rounded

\* The users behind a key are some of the users of the pass.
LEMMA CohortOfAPass ==
  ASSUME MinesInv, NEW m \in Miners, NEW key, \E r \in miner[m].rows : r.key = key
  PROVE  LET p == Pattern(m, key)
         IN  /\ p.key = key /\ p.kind \in Passing
             /\ p.isPublished <=> Cardinality(p.users) >= MIN_COHORT_SIZE
             /\ \A u \in p.users : Witnessed(u, key)
             /\ p.prevalence \in 0..100
<1>1. SoundPass(miner[m])
  BY DEF MinesInv, PassOK
<1> DEFINE found == miner[m].rows
           own == {r \in found : r.key = key}
           All == {r.user : r \in found}
           Own == {r.user : r \in own}
           f == [r \in found |-> r.user]
<1>2. IsFiniteSet(found) /\ \A r \in found : Witnessed(r.user, r.key)
  BY <1>1 DEF SoundPass, IsPass
<1>3. f \in Surjection(found, All)
  BY DEF Surjection
<1>4. Own \in SUBSET All /\ Own # {}
  OBVIOUS
<1> HIDE DEF f, found, All
<1>5. IsFiniteSet(All)
  BY <1>2, <1>3, FS_Surjection
<1> HIDE DEF Own
<1>6. IsFiniteSet(Own) /\ Cardinality(Own) <= Cardinality(All)
  BY <1>4, <1>5, FS_Subset
<1>7. Cardinality(Own) \in Nat /\ Cardinality(All) \in Nat /\ Cardinality(Own) # 0
  BY <1>4, <1>5, <1>6, FS_CardinalityType, FS_EmptySet
<1>8. Rounded(100 * Cardinality(Own), Cardinality(All)) \in 0..100
  BY <1>6, <1>7, SharesArePercents
<1>9. \A u \in Own : Witnessed(u, key)
  BY <1>2 DEF Own
<1>10. Pattern(m, key) =
         [kind |-> miner[m].at, key |-> key, window |-> miner[m].window, against |-> 0, users |-> Own,
          prevalence |-> Rounded(100 * Cardinality(Own), Cardinality(All)),
          isPublished |-> Cardinality(Own) >= MIN_COHORT_SIZE]
  BY DEF Pattern, distinctUserCount, isPublished, Own, All, found
<1>11. PICK p : p = Pattern(m, key)
  OBVIOUS
<1>12. /\ p.key = key /\ p.kind \in Passing /\ p.users = Own
       /\ p.prevalence = Rounded(100 * Cardinality(Own), Cardinality(All))
       /\ p.isPublished = (Cardinality(Own) >= MIN_COHORT_SIZE)
  BY <1>1, <1>10, <1>11 DEF SoundPass, IsPass
<1> QED
  BY <1>8, <1>9, <1>11, <1>12

\* The rows that a call adds take nothing from what was mined.
LEMMA TalksLeavePatterns ==
  ASSUME TalksInv, MinesInv, NEW T, OnlyTalk(T), UNCHANGED mineVars
  PROVE  MinesInv'
<1>1. ASSUME NEW u, NEW key, Witnessed(u, key)
      PROVE  Witnessed(u, key)'
  <2>1. PICK o \in shownIn : Owner(o.session) = u /\ o.key = key
    BY <1>1 DEF Witnessed
  <2>2. o \in shownIn' /\ o.session \in DOMAIN session
    BY DEF TalksInv, OnlyTalk
  <2>3. session'[o.session].of = session[o.session].of
    BY <2>2 DEF OnlyTalk
  <2> QED
    BY <2>1, <2>2, <2>3 DEF Witnessed, Owner
<1>2. miner' = miner /\ pattern' = pattern
  BY DEF mineVars
<1>3. \A m \in Miners : PassOK(m)'
  BY <1>1, <1>2 DEF MinesInv, PassOK, SoundPass, Superseded, findPublishedPatterns
<1>4. CohortsAreReal'
  BY <1>1, <1>2 DEF MinesInv, CohortsAreReal, findPublishedPatterns, Witnessed
<1> QED
  BY <1>2, <1>3, <1>4 DEF MinesInv

\* The passes of the other miners go on, whatever patterns one adds.
LEMMA OnePassSteps ==
  ASSUME MinesInv, NEW m \in Miners, NEW b, miner' = [miner EXCEPT ![m] = b],
         UNCHANGED talkVars, pattern \subseteq pattern', SoundPass(b)'
  PROVE  DOMAIN miner' = Miners /\ \A n \in Miners : PassOK(n)'
<1>1. UNCHANGED <<shownIn, session>>
  BY DEF talkVars
<1>2. DOMAIN miner' = Miners /\ miner'[m] = b /\ \A n \in Miners \ {m} : miner'[n] = miner[n]
  BY DEF MinesInv
<1>3. \A u, k : Witnessed(u, k) => Witnessed(u, k)'
  BY <1>1 DEF Witnessed, Owner
<1>4. \A k, w : Superseded(k, w) => Superseded(k, w)'
  BY DEF Superseded, findPublishedPatterns
<1>5. \A n \in Miners \ {m} : PassOK(n)'
  <2> SUFFICES ASSUME NEW n \in Miners \ {m}
               PROVE  PassOK(n)'
    OBVIOUS
  <2>1. PICK c : c = miner[n]
    OBVIOUS
  <2>2. SoundPass(c)
    BY <2>1 DEF MinesInv, PassOK
  <2>3. SoundPass(c)'
    BY <1>3, <1>4, <2>2 DEF SoundPass
  <2> QED
    BY <1>2, <2>1, <2>3 DEF PassOK
<1> QED
  BY <1>2, <1>5 DEF PassOK

\* Cohorts stay real while no pattern is written.
LEMMA PatternsUnmoved ==
  ASSUME MinesInv, UNCHANGED talkVars, UNCHANGED pattern
  PROVE  CohortsAreReal'
BY DEF MinesInv, CohortsAreReal, findPublishedPatterns, talkVars, Owner

PassRecord(A, B, C, D, E, F, G) ==
  [at : A, step : B, window : C, rows : D, todo : E, key : F, against : G]

\* A record of a pass is the one of its fields.
LEMMA PassFields ==
  ASSUME NEW A, NEW B, NEW C, NEW D, NEW E, NEW F, NEW G, NEW b \in PassRecord(A, B, C, D, E, F, G)
  PROVE  b = [at |-> b.at, step |-> b.step, window |-> b.window, rows |-> b.rows, todo |-> b.todo,
              key |-> b.key, against |-> b.against]
BY DEF PassRecord

\* What the steps of a pass change in its record, and what they leave.
Opened(a, at, read, todo, w) == [a EXCEPT !.at = at, !.rows = read, !.todo = todo, !.window = w]
Ended(a, w) == [a EXCEPT !.window = w]
Wrote(a, todo, key, step) == [a EXCEPT !.todo = todo, !.key = key, !.step = step]
Stepped(a, step) == [a EXCEPT !.step = step]
Compared(a, step, against) == [a EXCEPT !.step = step, !.against = against]

LEMMA PassOpens ==
  ASSUME NEW a, NEW at, NEW w, NEW read, NEW todo,
         a = [at |-> a.at, step |-> a.step, window |-> a.window, rows |-> a.rows, todo |-> a.todo,
              key |-> a.key, against |-> a.against]
  PROVE  Opened(a, at, read, todo, w) =
           [at |-> at, step |-> a.step, window |-> w, rows |-> read, todo |-> todo,
            key |-> a.key, against |-> a.against]
<1>1. PICK A, B, C, D, E, F, G :
           /\ A = {a.at, at} /\ B = {a.step} /\ C = {a.window, w} /\ D = {a.rows, read}
           /\ E = {a.todo, todo} /\ F = {a.key} /\ G = {a.against}
  OBVIOUS
<1>2. a \in PassRecord(A, B, C, D, E, F, G)
  BY <1>1 DEF PassRecord
<1>3. at \in A /\ w \in C /\ read \in D /\ todo \in E
  BY <1>1
<1>4. PICK c : c = Opened(a, at, read, todo, w)
  OBVIOUS
<1>5. /\ c \in PassRecord(A, B, C, D, E, F, G) /\ c.at = at /\ c.step = a.step
      /\ c.window = w /\ c.rows = read /\ c.todo = todo /\ c.key = a.key
      /\ c.against = a.against
  BY <1>2, <1>3, <1>4 DEF PassRecord, Opened
<1>6. c = [at |-> c.at, step |-> c.step, window |-> c.window, rows |-> c.rows, todo |-> c.todo,
           key |-> c.key, against |-> c.against]
  BY <1>5, PassFields
<1> QED
  BY <1>4, <1>5, <1>6

LEMMA PassChanges ==
  ASSUME NEW a, NEW step, NEW w, NEW todo, NEW key, NEW against,
         a = [at |-> a.at, step |-> a.step, window |-> a.window, rows |-> a.rows, todo |-> a.todo,
              key |-> a.key, against |-> a.against]
  PROVE  /\ Ended(a, w) =
              [at |-> a.at, step |-> a.step, window |-> w, rows |-> a.rows, todo |-> a.todo,
              key |-> a.key, against |-> a.against]
         /\ Wrote(a, todo, key, step) =
              [at |-> a.at, step |-> step, window |-> a.window, rows |-> a.rows, todo |-> todo,
              key |-> key, against |-> a.against]
         /\ Stepped(a, step) =
              [at |-> a.at, step |-> step, window |-> a.window, rows |-> a.rows, todo |-> a.todo,
              key |-> a.key, against |-> a.against]
         /\ Compared(a, step, against) =
              [at |-> a.at, step |-> step, window |-> a.window, rows |-> a.rows, todo |-> a.todo,
              key |-> a.key, against |-> against]
<1>1. PICK A, B, C, D, E, F, G :
           /\ A = {a.at} /\ B = {a.step, step} /\ C = {a.window, w} /\ D = {a.rows}
           /\ E = {a.todo, todo} /\ F = {a.key, key} /\ G = {a.against, against}
  OBVIOUS
<1>2. a \in PassRecord(A, B, C, D, E, F, G)
  BY <1>1 DEF PassRecord
<1>3. /\ step \in B /\ w \in C /\ todo \in E /\ key \in F
      /\ against \in G
  BY <1>1
<1>4. Ended(a, w) =
       [at |-> a.at, step |-> a.step, window |-> w, rows |-> a.rows, todo |-> a.todo,
        key |-> a.key, against |-> a.against]
  <2>1. PICK c : c = Ended(a, w)
    OBVIOUS
  <2>2. /\ c \in PassRecord(A, B, C, D, E, F, G) /\ c.at = a.at /\ c.step = a.step
        /\ c.window = w /\ c.rows = a.rows /\ c.todo = a.todo /\ c.key = a.key
        /\ c.against = a.against
    BY <1>2, <1>3, <2>1 DEF PassRecord, Ended
  <2>3. c = [at |-> c.at, step |-> c.step, window |-> c.window, rows |-> c.rows, todo |-> c.todo,
             key |-> c.key, against |-> c.against]
    BY <2>2, PassFields
  <2> QED
    BY <2>1, <2>2, <2>3
<1>5. Wrote(a, todo, key, step) =
       [at |-> a.at, step |-> step, window |-> a.window, rows |-> a.rows, todo |-> todo,
        key |-> key, against |-> a.against]
  <2>1. PICK c : c = Wrote(a, todo, key, step)
    OBVIOUS
  <2>2. /\ c \in PassRecord(A, B, C, D, E, F, G) /\ c.at = a.at /\ c.step = step
        /\ c.window = a.window /\ c.rows = a.rows /\ c.todo = todo /\ c.key = key
        /\ c.against = a.against
    BY <1>2, <1>3, <2>1 DEF PassRecord, Wrote
  <2>3. c = [at |-> c.at, step |-> c.step, window |-> c.window, rows |-> c.rows, todo |-> c.todo,
             key |-> c.key, against |-> c.against]
    BY <2>2, PassFields
  <2> QED
    BY <2>1, <2>2, <2>3
<1>6. Stepped(a, step) =
       [at |-> a.at, step |-> step, window |-> a.window, rows |-> a.rows, todo |-> a.todo,
        key |-> a.key, against |-> a.against]
  <2>1. PICK c : c = Stepped(a, step)
    OBVIOUS
  <2>2. /\ c \in PassRecord(A, B, C, D, E, F, G) /\ c.at = a.at /\ c.step = step
        /\ c.window = a.window /\ c.rows = a.rows /\ c.todo = a.todo /\ c.key = a.key
        /\ c.against = a.against
    BY <1>2, <1>3, <2>1 DEF PassRecord, Stepped
  <2>3. c = [at |-> c.at, step |-> c.step, window |-> c.window, rows |-> c.rows, todo |-> c.todo,
             key |-> c.key, against |-> c.against]
    BY <2>2, PassFields
  <2> QED
    BY <2>1, <2>2, <2>3
<1>7. Compared(a, step, against) =
       [at |-> a.at, step |-> step, window |-> a.window, rows |-> a.rows, todo |-> a.todo,
        key |-> a.key, against |-> against]
  <2>1. PICK c : c = Compared(a, step, against)
    OBVIOUS
  <2>2. /\ c \in PassRecord(A, B, C, D, E, F, G) /\ c.at = a.at /\ c.step = step
        /\ c.window = a.window /\ c.rows = a.rows /\ c.todo = a.todo /\ c.key = a.key
        /\ c.against = against
    BY <1>2, <1>3, <2>1 DEF PassRecord, Compared
  <2>3. c = [at |-> c.at, step |-> c.step, window |-> c.window, rows |-> c.rows, todo |-> c.todo,
             key |-> c.key, against |-> c.against]
    BY <2>2, PassFields
  <2> QED
    BY <2>1, <2>2, <2>3
<1> QED
  BY <1>4, <1>5, <1>6, <1>7

\* A pass of a miner that begins keeps them,
LEMMA BeginsSteps ==
  ASSUME TalksInv, MinesInv, NEW m \in Miners, NEW kind \in {"FREQUENT_COMPETENCY_SET", "FAILURE_MODE"},
         NEW seen \in SUBSET shownIn, Begins(m, kind, seen), UNCHANGED talkVars
  PROVE  MinesInv'
<1> DEFINE Read(o) == [user |-> Owner(o.session), session |-> o.session, key |-> o.key]
           found == {Read(o) : o \in seen}
           f == [o \in seen |-> Read(o)]
<1>1. PICK w : w = 1 + Max({miner[o].window : o \in Miners})
  OBVIOUS
<1>2. PICK rows0 : rows0 = found
  OBVIOUS
<1>3. PICK keys : keys = {r.key : r \in rows0}
  OBVIOUS
<1>4. PICK b : b = [at |-> kind, step |-> "create", window |-> w, rows |-> rows0, todo |-> keys,
                    key |-> "", against |-> 0]
  OBVIOUS
<1>5. miner' = [miner EXCEPT ![m] = b] /\ UNCHANGED pattern
  <2>1. PICK i : i = Idling
    OBVIOUS
  <2>2. PICK c : c = Opened(i, kind, rows0, keys, w)
    OBVIOUS
  <2>3. i = [at |-> i.at, step |-> i.step, window |-> i.window, rows |-> i.rows,
             todo |-> i.todo, key |-> i.key, against |-> i.against]
    BY <2>1 DEF Idling
  <2>4. i.step = "create" /\ i.key = "" /\ i.against = 0
    BY <2>1 DEF Idling
  <2>5. c = [at |-> kind, step |-> i.step, window |-> w, rows |-> rows0, todo |-> keys,
             key |-> i.key, against |-> i.against]
    BY <2>2, <2>3, PassOpens
  <2>6. c = b
    BY <1>4, <2>5, <2>4
  <2> QED
    BY <1>1, <1>2, <1>3, <2>1, <2>2, <2>6 DEF Begins, Opened
<1>6. IsFiniteSet(seen)
  BY FS_Subset DEF TalksInv
<1>7. f \in Surjection(seen, found)
  BY DEF Surjection
<1>8. \A r \in found : Witnessed(r.user, r.key)
  BY DEF Witnessed
<1> HIDE DEF found, f
<1>9. IsFiniteSet(rows0)
  BY <1>2, <1>6, <1>7, FS_Surjection
<1>10. /\ b.rows = rows0 /\ b.todo = keys /\ b.at = kind /\ b.step = "create"
       /\ b = [at |-> b.at, step |-> b.step, window |-> b.window, rows |-> b.rows, todo |-> b.todo,
               key |-> b.key, against |-> b.against]
  BY <1>4
<1>11. SoundPass(b)
  BY <1>2, <1>3, <1>8, <1>9, <1>10 DEF SoundPass, IsPass, Passing
<1>12. UNCHANGED <<shownIn, session, pattern>>
  BY <1>5 DEF talkVars
<1>13. SoundPass(b)'
  BY <1>11, <1>12 DEF SoundPass, Witnessed, Owner, Superseded, findPublishedPatterns
<1>14. DOMAIN miner' = Miners /\ \A n \in Miners : PassOK(n)'
  BY <1>5, <1>13, OnePassSteps
<1> QED
  BY <1>5, <1>14, PatternsUnmoved DEF MinesInv

\* and one that ends,
LEMMA EndSteps ==
  ASSUME MinesInv, NEW m \in Miners, PassEnds(m), UNCHANGED talkVars
  PROVE  MinesInv'
<1>1. PICK b : b = [at |-> "none", step |-> "create", window |-> miner[m].window, rows |-> {},
                    todo |-> {}, key |-> "", against |-> 0]
  OBVIOUS
<1>2. miner' = [miner EXCEPT ![m] = b] /\ UNCHANGED pattern
  <2>1. PICK w : w = miner[m].window
    OBVIOUS
  <2>2. PICK c : c = Ended(Idling, w)
    OBVIOUS
  <2>3. /\ Idling = [at |-> Idling.at, step |-> Idling.step, window |-> Idling.window,
                      rows |-> Idling.rows, todo |-> Idling.todo, key |-> Idling.key,
                      against |-> Idling.against]
        /\ Idling.at = "none" /\ Idling.step = "create" /\ Idling.rows = {} /\ Idling.todo = {}
        /\ Idling.key = "" /\ Idling.against = 0
    BY DEF Idling
  <2>4. c = b
    BY <1>1, <2>1, <2>2, <2>3, PassChanges
  <2> QED
    BY <2>1, <2>2, <2>4 DEF PassEnds, End, Ended
<1>3. /\ b.rows = {} /\ b.todo = {} /\ b.step = "create" /\ b.at = "none"
      /\ b = [at |-> b.at, step |-> b.step, window |-> b.window, rows |-> b.rows, todo |-> b.todo,
              key |-> b.key, against |-> b.against]
  BY <1>1
<1>4. SoundPass(b)'
  BY <1>3, FS_EmptySet DEF SoundPass, IsPass, Passing
<1>5. DOMAIN miner' = Miners /\ \A n \in Miners : PassOK(n)'
  BY <1>2, <1>4, OnePassSteps
<1> QED
  BY <1>2, <1>5, PatternsUnmoved DEF MinesInv

\* A pattern that is compared was published, and is not the newest of its kind.
LEMMA ComparedWithACohort ==
  ASSUME NEW key, NEW w \in Previous(key)
  PROVE  Superseded(key, w)
<1> DEFINE released == {r \in pattern : /\ r.kind = "FREQUENT_COMPETENCY_SET"
                                        /\ r.key = key /\ r.isPublished}
           Later(r) == {q \in released : q.window > r.window}
<1>1. Previous(key) = {r.window : r \in {q \in released : Cardinality(Later(q)) = 1}}
  BY DEF Previous
<1>2. PICK r \in released : Cardinality(Later(r)) = 1 /\ r.window = w
  BY <1>1
<1>3. PICK S : S = Later(r) /\ Cardinality(S) = 1
  BY <1>2
<1>4. S # {}
  BY <1>3, FS_EmptySet
<1>5. PICK n \in released : n.window > r.window
  BY <1>3, <1>4
<1> QED
  BY <1>2, <1>5 DEF Superseded, findPublishedPatterns

\* A row with a cohort behind it leaves the patterns real.
LEMMA OnePatternMore ==
  ASSUME MinesInv, UNCHANGED talkVars, NEW p, pattern' = pattern \cup {p},
         p.isPublished => Cardinality(p.users) >= MIN_COHORT_SIZE,
         \A u \in p.users : Witnessed(u, p.key), p.prevalence \in 0..100,
         p.kind = "COMPETENCY_DRIFT" => Superseded(p.key, p.against)
  PROVE  CohortsAreReal'
<1>1. UNCHANGED <<shownIn, session>>
  BY DEF talkVars
<1>2. findPublishedPatterns \subseteq findPublishedPatterns'
  BY DEF findPublishedPatterns
<1>3. \A k, w : Superseded(k, w) => Superseded(k, w)'
  BY <1>2 DEF Superseded
<1>4. \A u, k : Witnessed(u, k) => Witnessed(u, k)'
  BY <1>1 DEF Witnessed, Owner
<1> SUFFICES ASSUME NEW r \in findPublishedPatterns'
             PROVE  /\ Cardinality(r.users) >= MIN_COHORT_SIZE
                    /\ \A u \in r.users : Witnessed(u, r.key)'
                    /\ r.prevalence \in 0..100
                    /\ r.kind = "COMPETENCY_DRIFT" => Superseded(r.key, r.against)'
  BY DEF CohortsAreReal, Witnessed, Superseded
<1>5. CASE r \in pattern
  <2>1. r \in findPublishedPatterns
    BY <1>5 DEF findPublishedPatterns
  <2>2. /\ Cardinality(r.users) >= MIN_COHORT_SIZE /\ \A u \in r.users : Witnessed(u, r.key)
        /\ r.prevalence \in 0..100
        /\ r.kind = "COMPETENCY_DRIFT" => Superseded(r.key, r.against)
    BY <2>1 DEF MinesInv, CohortsAreReal, Witnessed, Superseded
  <2> QED
    BY <1>3, <1>4, <2>2
<1>6. CASE r = p
  BY <1>3, <1>4, <1>6 DEF findPublishedPatterns
<1> QED
  BY <1>5, <1>6 DEF findPublishedPatterns

\* A pass that goes on to another step, of which all is known, stays sound.
LEMMA PassGoesOn ==
  ASSUME MinesInv, NEW m \in Miners, NEW a, a = miner[m], NEW b,
         b = [at |-> a.at, step |-> b.step, window |-> a.window, rows |-> a.rows, todo |-> b.todo,
              key |-> b.key, against |-> b.against],
         b.step \in {"create", "look", "drift"}, b.todo \subseteq a.todo,
         UNCHANGED talkVars, pattern \subseteq pattern', miner' = [miner EXCEPT ![m] = b],
         b.step # "create" => \E r \in a.rows : r.key = b.key,
         b.step = "drift" => Superseded(b.key, b.against)
  PROVE  DOMAIN miner' = Miners /\ \A n \in Miners : PassOK(n)'
<1>1. SoundPass(a)
  BY DEF MinesInv, PassOK
<1>2. b.rows = a.rows /\ b.at = a.at /\ IsPass(b)
  BY <1>1 DEF SoundPass, IsPass
<1>3. SoundPass(b)
  BY <1>1, <1>2 DEF SoundPass
<1>4. UNCHANGED <<shownIn, session>>
  BY DEF talkVars
<1>5. SoundPass(b)'
  BY <1>3, <1>4 DEF SoundPass, Witnessed, Owner, Superseded, findPublishedPatterns
<1> QED
  BY <1>5, OnePassSteps

\* Where a pass is, and the record it leaves.
LEMMA PassOf ==
  ASSUME MinesInv, NEW m \in Miners, NEW a, a = miner[m]
  PROVE  /\ SoundPass(a)
         /\ a = [at |-> a.at, step |-> a.step, window |-> a.window, rows |-> a.rows, todo |-> a.todo,
                 key |-> a.key, against |-> a.against]
BY DEF MinesInv, PassOK, SoundPass, IsPass

\* The row of a pattern,
LEMMA PatternSteps ==
  ASSUME MinesInv, NEW m \in Miners, CreatePattern(m), UNCHANGED talkVars
  PROVE  MinesInv'
<1>1. PICK key \in miner[m].todo :
        /\ pattern' = pattern \cup {Pattern(m, key)}
        /\ miner' = [miner EXCEPT ![m].todo = @ \ {key}, ![m].key = key,
                       ![m].step = IF miner[m].at = "FAILURE_MODE" THEN "create" ELSE "look"]
  BY DEF CreatePattern
<1>2. SoundPass(miner[m])
  BY DEF MinesInv, PassOK
<1>3. \E r \in miner[m].rows : r.key = key
  BY <1>2 DEF SoundPass
<1>4. PICK p : p = Pattern(m, key)
  OBVIOUS
<1>5. /\ p.key = key /\ p.kind # "COMPETENCY_DRIFT"
      /\ p.isPublished => Cardinality(p.users) >= MIN_COHORT_SIZE
      /\ \A u \in p.users : Witnessed(u, key)
      /\ p.prevalence \in 0..100
  BY <1>3, <1>4, CohortOfAPass DEF Passing
<1>6. CohortsAreReal'
  BY <1>1, <1>4, <1>5, OnePatternMore
<1>7. PICK step \in {"create", "look"} :
        step = IF miner[m].at = "FAILURE_MODE" THEN "create" ELSE "look"
  OBVIOUS
<1>8. PICK a : a = miner[m]
  OBVIOUS
<1>9. PICK todo : todo = a.todo \ {key}
  OBVIOUS
<1>10. PICK b : b = Wrote(a, todo, key, step)
  OBVIOUS
<1>11. b = [at |-> a.at, step |-> step, window |-> a.window, rows |-> a.rows, todo |-> todo,
            key |-> key, against |-> a.against]
  BY <1>8, <1>10, PassOf, PassChanges
<1>12. miner' = [miner EXCEPT ![m] = b]
  BY <1>1, <1>7, <1>8, <1>9, <1>10 DEF MinesInv, Wrote
<1>13. DOMAIN miner' = Miners /\ \A n \in Miners : PassOK(n)'
  <2>1. b.step = step /\ b.todo = todo /\ b.key = key /\ b.against = a.against
    BY <1>11
  <2>2. b = [at |-> a.at, step |-> b.step, window |-> a.window, rows |-> a.rows, todo |-> b.todo,
             key |-> b.key, against |-> b.against]
    BY <1>11, <2>1
  <2>3. pattern \subseteq pattern' /\ todo \subseteq a.todo /\ \E r \in a.rows : r.key = key
    BY <1>1, <1>3, <1>8, <1>9
  <2> QED
    BY <1>7, <1>8, <1>12, <2>1, <2>2, <2>3, PassGoesOn
<1> QED
  BY <1>6, <1>13 DEF MinesInv

\* what it is compared with,
LEMMA FindSteps ==
  ASSUME MinesInv, NEW m \in Miners, FindPrevious(m), UNCHANGED talkVars
  PROVE  MinesInv'
<1>1. PICK a : a = miner[m]
  OBVIOUS
<1>2. SoundPass(a) /\ a.step = "look" /\ UNCHANGED pattern
  BY <1>1, PassOf DEF FindPrevious
<1>3. \E r \in a.rows : r.key = a.key
  BY <1>2 DEF SoundPass
<1>4. PICK step, against, b :
           /\ \/ step = "create" /\ against = a.against /\ b = Stepped(a, step)
              \/ step = "drift" /\ against \in Previous(a.key) /\ b = Compared(a, step, against)
           /\ miner' = [miner EXCEPT ![m] = b]
  <2>1. CASE miner' = [miner EXCEPT ![m].step = "create"]
    <3>1. miner' = [miner EXCEPT ![m] = Stepped(a, "create")]
      BY <1>1, <2>1 DEF MinesInv, Stepped
    <3> QED
      BY <3>1
  <2>2. ASSUME NEW w \in Previous(a.key), miner' = [miner EXCEPT ![m].step = "drift", ![m].against = w]
        PROVE  miner' = [miner EXCEPT ![m] = Compared(a, "drift", w)]
    BY <1>1, <2>2 DEF MinesInv, Compared
  <2>3. CASE \E w \in Previous(a.key) : miner' = [miner EXCEPT ![m].step = "drift", ![m].against = w]
    BY <2>2, <2>3
  <2> QED
    BY <1>1, <2>1, <2>3 DEF FindPrevious
<1>5. b = [at |-> a.at, step |-> step, window |-> a.window, rows |-> a.rows, todo |-> a.todo,
           key |-> a.key, against |-> against]
  BY <1>1, <1>4, PassOf, PassChanges
<1>6. step = "drift" => Superseded(a.key, against)
  BY <1>4, ComparedWithACohort
<1>7. DOMAIN miner' = Miners /\ \A n \in Miners : PassOK(n)'
  <2>1. b.step = step /\ b.todo = a.todo /\ b.key = a.key /\ b.against = against
    BY <1>5
  <2>2. b = [at |-> a.at, step |-> b.step, window |-> a.window, rows |-> a.rows, todo |-> b.todo,
             key |-> b.key, against |-> b.against]
    BY <1>5, <2>1
  <2>3. /\ b.step \in {"create", "look", "drift"} /\ b.todo \subseteq a.todo
        /\ b.step # "create" => \E r \in a.rows : r.key = b.key
        /\ b.step = "drift" => Superseded(b.key, b.against)
        /\ pattern \subseteq pattern' /\ miner' = [miner EXCEPT ![m] = b]
    BY <1>2, <1>3, <1>4, <1>6, <2>1
  <2> QED
    BY <1>1, <2>2, <2>3, PassGoesOn
<1> QED
  BY <1>2, <1>7, PatternsUnmoved DEF MinesInv

\* The row of a change is that of the pattern, but for its kind and what it is taken against.
Drifted(p, against) == [p EXCEPT !.kind = "COMPETENCY_DRIFT", !.against = against]

LEMMA DriftOf ==
  ASSUME NEW m, NEW key, NEW p, p = Pattern(m, key), NEW against, NEW d, d = Drifted(p, against)
  PROVE  /\ d.key = p.key /\ d.isPublished = p.isPublished /\ d.users = p.users
         /\ d.prevalence = p.prevalence /\ d.against = against
<1>1. p = [kind |-> p.kind, key |-> p.key, window |-> p.window, against |-> p.against,
           users |-> p.users, prevalence |-> p.prevalence, isPublished |-> p.isPublished]
  BY DEF Pattern
<1>2. PICK A, B, C, D, E, F, G :
           /\ A = {p.kind, "COMPETENCY_DRIFT"} /\ B = {p.key} /\ C = {p.window}
           /\ D = {p.against, against} /\ E = {p.users} /\ F = {p.prevalence} /\ G = {p.isPublished}
  OBVIOUS
<1>3. p \in [kind : A, key : B, window : C, against : D, users : E, prevalence : F, isPublished : G]
  BY <1>1, <1>2
<1>4. "COMPETENCY_DRIFT" \in A /\ against \in D
  BY <1>2
<1> QED
  BY <1>3, <1>4 DEF Drifted

\* and the row of the change keep them.
LEMMA DriftSteps ==
  ASSUME MinesInv, NEW m \in Miners, CreateDrift(m), UNCHANGED talkVars
  PROVE  MinesInv'
<1>1. PICK a : a = miner[m]
  OBVIOUS
<1>2. SoundPass(a) /\ a.step = "drift"
  BY <1>1, PassOf DEF CreateDrift
<1>3. PICK key, against : key = a.key /\ against = a.against
  OBVIOUS
<1>4. Superseded(key, against) /\ \E r \in a.rows : r.key = key
  BY <1>2, <1>3 DEF SoundPass
<1>5. PICK p : p = Pattern(m, key)
  OBVIOUS
<1>6. /\ p.key = key
      /\ p.isPublished => Cardinality(p.users) >= MIN_COHORT_SIZE
      /\ \A u \in p.users : Witnessed(u, key)
      /\ p.prevalence \in 0..100
  BY <1>1, <1>4, <1>5, CohortOfAPass
<1>7. PICK d : d = Drifted(p, against)
  OBVIOUS
<1>8. /\ d.key = p.key /\ d.isPublished = p.isPublished /\ d.users = p.users
      /\ d.prevalence = p.prevalence /\ d.against = against
  BY <1>5, <1>7, DriftOf
<1>9. pattern' = pattern \cup {d} /\ miner' = [miner EXCEPT ![m].step = "create"]
  BY <1>1, <1>3, <1>5, <1>7 DEF CreateDrift, Drifted
<1>10. CohortsAreReal'
  <2>1. /\ d.isPublished => Cardinality(d.users) >= MIN_COHORT_SIZE
        /\ \A u \in d.users : Witnessed(u, d.key)
        /\ d.prevalence \in 0..100 /\ Superseded(d.key, d.against)
    BY <1>4, <1>6, <1>8, Zenon
  <2> QED
    BY <1>9, <2>1, OnePatternMore
<1>11. PICK b : b = Stepped(a, "create")
  OBVIOUS
<1>12. b = [at |-> a.at, step |-> "create", window |-> a.window, rows |-> a.rows, todo |-> a.todo,
            key |-> a.key, against |-> a.against]
  BY <1>1, <1>11, PassOf, PassChanges
<1>13. miner' = [miner EXCEPT ![m] = b]
  BY <1>1, <1>9, <1>11 DEF MinesInv, Stepped
<1>14. DOMAIN miner' = Miners /\ \A n \in Miners : PassOK(n)'
  <2>1. b.step = "create" /\ b.todo = a.todo /\ b.key = a.key /\ b.against = a.against
    BY <1>12
  <2>2. b = [at |-> a.at, step |-> b.step, window |-> a.window, rows |-> a.rows, todo |-> b.todo,
             key |-> b.key, against |-> b.against]
    BY <1>12, <2>1
  <2> QED
    BY <1>1, <1>9, <1>13, <2>1, <2>2, PassGoesOn
<1> QED
  BY <1>10, <1>14 DEF MinesInv

InterviewsInv == TalksInv /\ MinesInv

\* The invariant holds at the start,
LEMMA InterviewsInitially ==
  ASSUME InterviewsInit
  PROVE  InterviewsInv
<1>1. /\ talk = [t \in Transcripts |-> NoTalk] /\ session = <<>> /\ competency = {}
      /\ shownIn = {} /\ predicted = {} /\ miner = [m \in Miners |-> Idling] /\ pattern = {}
  BY DEF InterviewsInit
<1>2. NoTalk \in TalkState /\ NoTalk.at = "none"
  BY DEF NoTalk, TalkState, TalkSteps
<1>3. \A t \in Transcripts : TalkOK(t)
  BY <1>1, <1>2 DEF TalkOK, HasSession, HasHeard, LooksAlone, Hearing, Heard
<1>4. IsFiniteSet({}) /\ session \in Seq(SessionRow)
  BY <1>1, FS_EmptySet
<1>5. TalksInv
  BY <1>1, <1>2, <1>3, <1>4 DEF TalksInv, SimilarAreOne
<1>6. Idling.step = "create" /\ Idling.rows = {} /\ Idling.todo = {} /\ IsPass(Idling)
  BY <1>4 DEF Idling, IsPass, Passing
<1>7. \A m \in Miners : PassOK(m)
  BY <1>1, <1>6 DEF PassOK, SoundPass
<1>8. MinesInv
  BY <1>1, <1>7 DEF MinesInv, CohortsAreReal, findPublishedPatterns
<1> QED
  BY <1>5, <1>8 DEF InterviewsInv

\* and every step keeps it.
LEMMA InterviewsStep ==
  ASSUME InterviewsInv, [InterviewsNext]_interviewVars
  PROVE  InterviewsInv'
<1>1. TalksInv /\ MinesInv
  BY DEF InterviewsInv
<1>2. CASE UNCHANGED mineVars /\ \E t \in Transcripts :
             \/ start(t) \/ createSession(t) \/ CreateRound(t)
             \/ resolveCompetencyId(t) \/ CreateCompetency(t) \/ CreateObservation(t) \/ Decide(t)
             \/ writeInterviewFactObservations(t) \/ writePrediction(t) \/ Throws(t)
  <2>1. PICK t \in Transcripts :
             \/ start(t) \/ createSession(t) \/ CreateRound(t)
             \/ resolveCompetencyId(t) \/ CreateCompetency(t) \/ CreateObservation(t) \/ Decide(t)
             \/ writeInterviewFactObservations(t) \/ writePrediction(t) \/ Throws(t)
    BY <1>2
  <2>2. TalksInv' /\ OnlyTalk({t})
    BY <1>1, <2>1, StartSteps, NewSessionSteps, RoundSteps, ResolveSteps, CreateSteps, ObserveSteps,
       DecideSteps, FactSteps, PredictSteps, ThrowSteps
  <2> QED
    BY <1>1, <1>2, <2>2, TalksLeavePatterns DEF InterviewsInv
<1>3. CASE UNCHANGED mineVars /\ \E s \in DOMAIN session : Share(s)
  <2>1. TalksInv' /\ OnlyTalk({})
    BY <1>1, <1>3, ShareSteps
  <2> QED
    BY <1>1, <1>3, <2>1, TalksLeavePatterns DEF InterviewsInv
<1>4. ASSUME UNCHANGED talkVars
      PROVE  TalksInv'
  <2>1. UNCHANGED <<talk, session, competency, shownIn, fact, lost, predicted, coined>>
    BY <1>4 DEF talkVars
  <2>2. OnlyTalk({})
    BY <2>1 DEF OnlyTalk
  <2>3. SimilarAreOne'
    BY <1>1, <2>1 DEF TalksInv, SimilarAreOne
  <2> QED
    BY <1>1, <2>1, <2>2, <2>3, TalkSteps1 DEF TalksInv
<1>5. CASE /\ UNCHANGED talkVars
           /\ \E m \in Miners : mineFrequentCompetencySets(m) \/ mineFailureModes(m)
                                  \/ CreatePattern(m) \/ FindPrevious(m) \/ CreateDrift(m)
                                  \/ PassEnds(m)
  <2> SUFFICES MinesInv'
    BY <1>4, <1>5 DEF InterviewsInv
  <2>1. PICK m \in Miners : mineFrequentCompetencySets(m) \/ mineFailureModes(m)
                              \/ CreatePattern(m) \/ FindPrevious(m) \/ CreateDrift(m)
                              \/ PassEnds(m)
    BY <1>5
  <2>2. UNCHANGED talkVars
    BY <1>5
  <2>3. ASSUME NEW decision, NEW below
        PROVE  Shared(decision, below) \in SUBSET shownIn
    BY DEF Shared
  <2>4. CASE mineFrequentCompetencySets(m)
    <3>1. PICK seen \in SUBSET shownIn : seen = Shared("HIRE", 11)
      BY <2>3
    <3> QED
      BY <1>1, <2>2, <2>4, <3>1, BeginsSteps DEF mineFrequentCompetencySets
  <2>5. CASE mineFailureModes(m)
    <3>1. PICK seen \in SUBSET shownIn : seen = Shared("NO_HIRE", 4)
      BY <2>3
    <3> QED
      BY <1>1, <2>2, <2>5, <3>1, BeginsSteps DEF mineFailureModes
  <2>6. CASE CreatePattern(m)
    BY <1>1, <2>2, <2>6, PatternSteps
  <2>7. CASE PassEnds(m)
    BY <1>1, <2>2, <2>7, EndSteps
  <2>8. CASE FindPrevious(m)
    BY <1>1, <2>2, <2>8, FindSteps
  <2>9. CASE CreateDrift(m)
    BY <1>1, <2>2, <2>9, DriftSteps
  <2> QED
    BY <2>1, <2>4, <2>5, <2>6, <2>7, <2>8, <2>9
<1>6. CASE UNCHANGED interviewVars
  <2>1. UNCHANGED talkVars /\ miner' = miner /\ pattern' = pattern
    BY <1>6 DEF interviewVars, mineVars
  <2>2. UNCHANGED <<shownIn, session>>
    BY <2>1 DEF talkVars
  <2>3. \A m \in Miners : PassOK(m)'
    BY <1>1, <2>1, <2>2 DEF MinesInv, PassOK, SoundPass, Witnessed, Owner, Superseded, findPublishedPatterns
  <2> QED
    BY <1>1, <1>4, <2>1, <2>3, PatternsUnmoved DEF InterviewsInv, MinesInv
<1> QED
  BY <1>2, <1>3, <1>5, <1>6 DEF InterviewsNext

(***************************************************************************)
(* The interviews hold for any number of transcripts, calls and passes: a  *)
(* prediction is recorded of a session whose rows are all there or known   *)
(* to be lost, two competencies of similar names were looked for at once,  *)
(* and what is shown of all users has a cohort behind it.                  *)
(***************************************************************************)
THEOREM InterviewsStand == InterviewsSpec => []InterviewsHold
<1>1. InterviewsInit => InterviewsInv
  BY InterviewsInitially
<1>2. InterviewsInv /\ [InterviewsNext]_interviewVars => InterviewsInv'
  BY InterviewsStep
<1>3. InterviewsInv => InterviewsHold
  <2> SUFFICES ASSUME InterviewsInv
               PROVE  PredictionsAreOfWholeSessions /\ SimilarAreOne /\ CohortsAreReal
    BY DEF InterviewsHold
  <2>1. PredictionsAreOfWholeSessions
    <3> SUFFICES ASSUME NEW s \in predicted \ {NoSession}
                 PROVE  LET t == session[s].of
                        IN  /\ session[s].rounds = Said[t].rounds
                            /\ \A f \in Range(Shown(t)) : Observed(s, f) /\ Stored(s, f)
      BY DEF PredictionsAreOfWholeSessions, Observed, Stored
    <3>1. WholeSession(s)
      BY DEF InterviewsInv, TalksInv
    <3> QED
      BY <3>1 DEF WholeSession, Range
  <2> QED
    BY <2>1 DEF InterviewsInv, TalksInv, MinesInv
<1> QED
  BY <1>1, <1>2, <1>3, PTL DEF InterviewsSpec
-----------------------------------------------------------------------------
(* What is recorded beside an application.                                  *)

\* One more element doubles the subsets of a finite set.
LEMMA SubsetsDouble ==
  ASSUME NEW S, IsFiniteSet(S), NEW x, x \notin S
  PROVE  /\ Cardinality(SUBSET S) \in Nat /\ Cardinality(SUBSET (S \cup {x})) \in Nat
         /\ Cardinality(SUBSET (S \cup {x})) = 2 * Cardinality(SUBSET S)
<1> DEFINE A == SUBSET S
           B == {T \cup {x} : T \in A}
           f == [T \in A |-> T \cup {x}]
<1>1. IsFiniteSet(A)
  BY FS_SUBSET
<1>2. \A T \in A : f[T] \in B
  OBVIOUS
<1>3. \A T, U \in A : f[T] = f[U] => T = U
  <2>1. ASSUME NEW T \in A, NEW U \in A, f[T] = f[U]
        PROVE  T = U
    <3>1. T \cup {x} = U \cup {x} /\ x \notin T /\ x \notin U
      BY <2>1
    <3> QED
      BY <3>1
  <2> QED
    BY <2>1
<1>4. f \in Bijection(A, B)
  <2>1. f \in [A -> B]
    BY <1>2
  <2>2. \A b \in B : \E T \in A : f[T] = b
    OBVIOUS
  <2> HIDE DEF f, A, B
  <2> QED
    BY <1>3, <2>1, <2>2 DEF Bijection, Injection, IsInjective, Surjection
<1>5. IsFiniteSet(B) /\ Cardinality(B) = Cardinality(A)
  <2> HIDE DEF f, A, B
  <2>1. ExistsBijection(A, B)
    BY <1>4 DEF ExistsBijection
  <2> QED
    BY <1>1, <2>1, FS_Bijection
<1>6. A \cap B = {}
  OBVIOUS
<1>7. SUBSET (S \cup {x}) = A \cup B
  <2>1. ASSUME NEW T \in SUBSET (S \cup {x}), T \notin A
        PROVE  T \in B
    <3>1. x \in T /\ T \ {x} \in A /\ (T \ {x}) \cup {x} = T
      BY <2>1
    <3> QED
      BY <3>1
  <2>2. A \subseteq SUBSET (S \cup {x}) /\ B \subseteq SUBSET (S \cup {x})
    OBVIOUS
  <2> HIDE DEF A, B
  <2> QED
    BY <2>1, <2>2
<1>8. IsFiniteSet(A \cup B) /\ Cardinality(A \cup B) = Cardinality(A) + Cardinality(B)
  <2>1. Cardinality({}) = 0
    BY FS_EmptySet
  <2>2. /\ IsFiniteSet(A \cup B)
        /\ Cardinality(A \cup B) = Cardinality(A) + Cardinality(B) - Cardinality(A \cap B)
    BY <1>1, <1>5, FS_Union
  <2>3. Cardinality(A) \in Nat /\ Cardinality(B) \in Nat
    BY <1>1, <1>5, FS_CardinalityType
  <2>4. Cardinality(A \cap B) = 0
    BY <1>6, <2>1
  <2> HIDE DEF A, B
  <2> QED
    BY <2>2, <2>3, <2>4
<1>9. Cardinality(A) \in Nat /\ Cardinality(A \cup B) \in Nat
  BY <1>1, <1>8, FS_CardinalityType
<1>10. Cardinality(A \cup B) = 2 * Cardinality(A)
  <2> HIDE DEF A, B
  <2> QED
    BY <1>5, <1>8, <1>9
<1> QED
  BY <1>7, <1>9, <1>10

RowCount == [old : Nat, new : Nat]
Call == [at : {"none", "begun", "created", "read", "copied", "linked", "sent", "over"},
         resume : Nat, version : Nat, saw : RowCount]
AppRow == [status : {"", "APPLIED", "Applied"} \cup Moods, resume : Nat, snapshot : BOOLEAN]
SomeRows(r) == r.old + r.new > 0
Snapshots == {a \in Apps : copied[a] # NoRows}

\* A tag is the number of the row that the application is linked to, which is not deleted.
Tagged(v, u) == v # 0 => u \in DOMAIN numbers /\ numbers[u] = v

WorkOK(a) ==
  LET w == work[a] IN
  /\ w.at \in {"none", "begun"} => app[a] = NoApp
  /\ w.at \in {"none", "begun", "created", "read"} => copied[a] = NoRows
  /\ w.at = "begun" => \/ w.resume = 0 /\ w.version = 0
                       \/ /\ w.resume \in DOMAIN numbers /\ w.version # 0
                          /\ numbers[w.resume] \in {0, w.version}
  /\ w.at \in {"created", "read", "copied", "linked", "sent"} => raced \/ Tagged(w.version, app[a].resume)
  /\ w.at = "read" => SomeRows(w.saw) /\ w.saw.old + w.saw.new <= rows.old + rows.new
  /\ w.at = "copied" \/ app[a].snapshot => SomeRows(copied[a])
  /\ w.at # "over" => applied[a] = << >>
  /\ Len(applied[a]) <= 1
  /\ \A i \in DOMAIN applied[a] : raced \/ Tagged(applied[a][i], app[a].resume)

CareerTypes ==
  /\ numbers \in Seq(Nat) /\ highest \in Nat /\ active \in 0..Len(numbers) /\ doomed \in 0..Len(numbers)
  /\ active # 0 => numbers[active] # 0
  /\ raced \in BOOLEAN /\ rows \in RowCount /\ SomeRows(rows)
  /\ work \in [Apps -> Call] /\ app \in [Apps -> AppRow]
  /\ copied \in [Apps -> RowCount] /\ applied \in [Apps -> Seq(Nat)]

CareerInv ==
  /\ CareerTypes
  /\ \A a \in Apps : WorkOK(a)
  /\ doomed # 0 => raced \/ \A a \in Apps : app[a].resume # doomed
  /\ rows.old + rows.new <= Cardinality(SUBSET Snapshots)

\* What holds of an application survives what others do: numbers are given to new rows and taken
\* from rows that no application is linked to.
LEMMA OthersStay ==
  ASSUME CareerTypes, NEW a \in Apps, WorkOK(a),
         work'[a] = work[a], copied'[a] = copied[a], applied'[a] = applied[a],
         app'[a].snapshot = app[a].snapshot,
         app'[a] = app[a] \/ (raced' /\ app[a] # NoApp),
         raced => raced', rows.old + rows.new <= rows'.old + rows'.new,
         rows'.old + rows'.new \in Nat,
         \A u \in DOMAIN numbers : u \in DOMAIN numbers' /\ numbers'[u] \in {0, numbers[u]},
         \A u \in DOMAIN numbers : raced' \/ app[a].resume # u \/ numbers'[u] = numbers[u]
  PROVE  WorkOK(a)'
<1>1. PICK w \in Call : w = work[a]
  BY DEF CareerTypes
<1>2. work'[a] = w
  BY <1>1
<1>3. \A v : raced \/ Tagged(v, app[a].resume) => raced' \/ Tagged(v, app[a].resume)'
  <2>1. ASSUME NEW v, ~raced', v # 0, Tagged(v, app[a].resume)
        PROVE  app'[a].resume \in DOMAIN numbers' /\ numbers'[app'[a].resume] = v
    <3>1. app'[a] = app[a]
      BY <2>1
    <3>2. PICK u : u = app[a].resume
      OBVIOUS
    <3>3. u \in DOMAIN numbers /\ numbers[u] = v
      BY <2>1, <3>2 DEF Tagged
    <3>4. u \in DOMAIN numbers' /\ numbers'[u] = v
      BY <2>1, <3>2, <3>3
    <3> QED
      BY <3>1, <3>2, <3>4
  <2> QED
    BY <2>1 DEF Tagged
<1>4. (w.at \in {"none", "begun"} => app[a] = NoApp) => (w.at \in {"none", "begun"} => app'[a] = NoApp)
  OBVIOUS
<1>5. w.at = "read" /\ w.saw.old + w.saw.new <= rows.old + rows.new
        => w.saw.old + w.saw.new <= rows'.old + rows'.new
  <2>1. w.saw.old \in Nat /\ w.saw.new \in Nat /\ rows.old \in Nat /\ rows.new \in Nat
    BY <1>1 DEF Call, RowCount, CareerTypes
  <2>2. PICK m \in Nat : m = w.saw.old + w.saw.new
    BY <2>1
  <2>3. PICK n \in Nat : n = rows.old + rows.new
    BY <2>1
  <2>4. PICK k \in Nat : k = rows'.old + rows'.new
    OBVIOUS
  <2>5. n <= k
    BY <2>3, <2>4
  <2>6. m <= n => m <= k
    BY <2>5
  <2> QED
    BY <2>2, <2>3, <2>4, <2>6
<1>6. /\ w.at \in {"none", "begun"} => app[a] = NoApp
      /\ w.at \in {"none", "begun", "created", "read"} => copied[a] = NoRows
      /\ w.at = "begun" => \/ w.resume = 0 /\ w.version = 0
                           \/ /\ w.resume \in DOMAIN numbers /\ w.version # 0
                              /\ numbers[w.resume] \in {0, w.version}
      /\ w.at \in {"created", "read", "copied", "linked", "sent"} => raced \/ Tagged(w.version, app[a].resume)
      /\ w.at = "read" => SomeRows(w.saw) /\ w.saw.old + w.saw.new <= rows.old + rows.new
      /\ w.at = "copied" \/ app[a].snapshot => SomeRows(copied[a])
      /\ w.at # "over" => applied[a] = << >>
      /\ Len(applied[a]) <= 1
      /\ \A i \in DOMAIN applied[a] : raced \/ Tagged(applied[a][i], app[a].resume)
  BY <1>1 DEF WorkOK
<1>7. w.at = "begun" => \/ w.resume = 0 /\ w.version = 0
                        \/ /\ w.resume \in DOMAIN numbers' /\ w.version # 0
                           /\ numbers'[w.resume] \in {0, w.version}
  BY <1>6
<1>8. w.at \in {"created", "read", "copied", "linked", "sent"} => raced' \/ Tagged(w.version, app[a].resume)'
  BY <1>3, <1>6
<1>9. \A i \in DOMAIN applied[a] : raced' \/ Tagged(applied[a][i], app[a].resume)'
  BY <1>3, <1>6
<1>10. SomeRows(w.saw)' <=> SomeRows(w.saw)
  BY DEF SomeRows
<1> QED
  BY <1>2, <1>4, <1>5, <1>6, <1>7, <1>8, <1>9, <1>10 DEF WorkOK, SomeRows, Tagged

\* A step of one email, or of the user at one application, concerns the others as little as that.
LEMMA OneApplication ==
  ASSUME CareerInv, CareerTypes', NEW a \in Apps, WorkOK(a)',
         numbers' = numbers, doomed' = doomed, raced => raced',
         rows.old + rows.new <= rows'.old + rows'.new,
         \A o \in Apps \ {a} : /\ work'[o] = work[o] /\ app'[o] = app[o]
                               /\ copied'[o] = copied[o] /\ applied'[o] = applied[o],
         doomed # 0 => raced' \/ app'[a].resume # doomed,
         rows'.old + rows'.new <= Cardinality(SUBSET Snapshots')
  PROVE  CareerInv'
<1>1. \A u \in DOMAIN numbers : u \in DOMAIN numbers' /\ numbers'[u] = numbers[u]
  OBVIOUS
<1>2. rows'.old + rows'.new \in Nat
  BY DEF CareerTypes, RowCount
<1>3. ASSUME NEW o \in Apps
      PROVE  WorkOK(o)'
  <2>1. CASE o = a
    BY <2>1
  <2>2. CASE o # a
    BY <1>1, <1>2, <2>2, OthersStay DEF CareerInv
  <2> QED
    BY <2>1, <2>2
<1>4. doomed' # 0 => raced' \/ \A o \in Apps : app'[o].resume # doomed'
  BY DEF CareerInv
<1> QED
  BY <1>3, <1>4 DEF CareerInv

\* A call that changes changes alone.
LEMMA CallChanges ==
  ASSUME CareerTypes, NEW a \in Apps, NEW c \in Call, Works(a, c)
  PROVE  work' \in [Apps -> Call] /\ work'[a] = c /\ \A o \in Apps \ {a} : work'[o] = work[o]
BY DEF CareerTypes, Works

\* A row that changes changes alone.
LEMMA RowChanges ==
  ASSUME CareerTypes, NEW a \in Apps, NEW r \in AppRow, app' = [app EXCEPT ![a] = r]
  PROVE  app' \in [Apps -> AppRow] /\ app'[a] = r /\ \A o \in Apps \ {a} : app'[o] = app[o]
BY DEF CareerTypes

\* A call that is at a step is the call that it was, but for the step.
LEMMA CallGoes ==
  ASSUME CareerTypes, NEW a \in Apps,
         NEW step \in {"none", "begun", "created", "read", "copied", "linked", "sent", "over"}, Goes(a, step)
  PROVE  \E c \in Call : /\ Works(a, c) /\ c.at = step
                         /\ c.version = work[a].version /\ c.saw = work[a].saw
<1>1. PICK w \in Call : w = work[a]
  BY DEF CareerTypes
<1>2. PICK c : c = [w EXCEPT !.at = step]
  OBVIOUS
<1>3. c \in Call /\ c.at = step /\ c.version = w.version /\ c.saw = w.saw
  BY <1>2 DEF Call
<1> QED
  BY <1>1, <1>2, <1>3 DEF Goes

\* A change of status keeps the records,
LEMMA StatusKeepsCareer ==
  ASSUME CareerInv, NEW a \in Apps, ChangeStatus(a)
  PROVE  CareerInv'
<1>1. PICK s \in Moods : app' = [app EXCEPT ![a].status = s]
  BY DEF ChangeStatus
<1>2. PICK r \in AppRow : r = app[a]
  BY DEF CareerInv, CareerTypes
<1>3. PICK t : t = [r EXCEPT !.status = s]
  OBVIOUS
<1>4. t \in AppRow /\ t.resume = r.resume /\ t.snapshot = r.snapshot
  BY <1>3 DEF AppRow
<1>5. app' = [app EXCEPT ![a] = t]
  BY <1>1, <1>2, <1>3
<1>6. app' \in [Apps -> AppRow] /\ app'[a] = t /\ \A o \in Apps \ {a} : app'[o] = app[o]
  BY <1>4, <1>5, RowChanges DEF CareerInv
<1>7. /\ UNCHANGED <<work, rows, copied, applied>>
      /\ UNCHANGED <<numbers, highest, active, doomed, raced>>
  BY DEF ChangeStatus, resumeVars
<1>8. app[a] # NoApp
  <2>1. app[a].status # ""
    BY DEF ChangeStatus, Exists
  <2>2. NoApp.status = ""
    BY DEF NoApp
  <2> QED
    BY <2>1, <2>2
<1>9. CareerTypes'
  BY <1>6, <1>7 DEF CareerInv, CareerTypes, SomeRows
<1>10. WorkOK(a)'
  BY <1>2, <1>4, <1>6, <1>7, <1>8 DEF CareerInv, WorkOK, SomeRows, Tagged
<1>11. rows.old + rows.new <= Cardinality(SUBSET Snapshots) /\ Snapshots' = Snapshots
  BY <1>7 DEF CareerInv, Snapshots
<1>12. doomed # 0 => raced' \/ app'[a].resume # doomed
  BY <1>2, <1>4, <1>6, <1>7 DEF CareerInv
<1>13. rows.old + rows.new <= rows.old + rows.new
  BY DEF CareerInv, CareerTypes, RowCount
<1> QED
  BY <1>6, <1>7, <1>9, <1>10, <1>11, <1>12, <1>13, OneApplication

\* and the read of the active resume,
LEMMA ReadingResumeKeepsCareer ==
  ASSUME CareerInv, NEW a \in Apps, getActiveResumeRow(a)
  PROVE  CareerInv'
<1>1. PICK w \in Call : w = work[a] /\ w.at = "none"
  BY DEF CareerInv, CareerTypes, getActiveResumeRow, At
<1>2. PICK v : v = IF active = 0 THEN 0 ELSE numbers[active]
  OBVIOUS
<1>3. active \in Nat /\ v \in Nat /\ (active # 0 => v # 0 /\ active \in DOMAIN numbers /\ v = numbers[active])
  BY <1>2 DEF CareerInv, CareerTypes
<1>4. PICK c : c = [w EXCEPT !.at = "begun", !.resume = active, !.version = v]
  OBVIOUS
<1>5. c \in Call /\ c.at = "begun" /\ c.resume = active /\ c.version = v
  BY <1>3, <1>4 DEF Call
<1>6. /\ UNCHANGED <<app, rows, copied, applied>>
      /\ UNCHANGED <<numbers, highest, active, doomed, raced>>
  BY DEF getActiveResumeRow, resumeVars
<1>7. Works(a, c)
  BY <1>1, <1>2, <1>4 DEF getActiveResumeRow
<1>8. work' \in [Apps -> Call] /\ work'[a] = c /\ \A o \in Apps \ {a} : work'[o] = work[o]
  BY <1>5, <1>7, CallChanges DEF CareerInv
<1>9. CareerTypes'
  BY <1>6, <1>8 DEF CareerInv, CareerTypes, SomeRows
<1>10. app[a] = NoApp /\ copied[a] = NoRows /\ applied[a] = << >>
  BY <1>1 DEF CareerInv, WorkOK
<1>11. active = 0 => v = 0
  BY <1>2
<1>12. WorkOK(a)'
  <2>1. work'[a] = c /\ app'[a] = NoApp /\ copied'[a] = NoRows /\ applied'[a] = << >>
    BY <1>6, <1>8, <1>10
  <2>2. NoApp.snapshot = FALSE /\ Len(<< >>) = 0 /\ DOMAIN << >> = {}
    BY DEF NoApp
  <2>3. \/ c.resume = 0 /\ c.version = 0
        \/ c.resume \in DOMAIN numbers' /\ c.version # 0 /\ numbers'[c.resume] \in {0, c.version}
    BY <1>3, <1>5, <1>6, <1>11
  <2> QED
    BY <1>5, <2>1, <2>2, <2>3 DEF WorkOK
<1>13. rows.old + rows.new <= Cardinality(SUBSET Snapshots) /\ Snapshots' = Snapshots
  BY <1>6 DEF CareerInv, Snapshots
<1>14. doomed # 0 => raced' \/ app'[a].resume # doomed
  BY <1>6 DEF CareerInv
<1>15. rows.old + rows.new <= rows.old + rows.new
  BY DEF CareerInv, CareerTypes, RowCount
<1> QED
  BY <1>6, <1>8, <1>9, <1>12, <1>13, <1>14, <1>15, OneApplication

\* A step that changes a call alone needs to be looked at there alone.
LEMMA OneCall ==
  ASSUME CareerInv, NEW a \in Apps, NEW c \in Call, Works(a, c),
         UNCHANGED <<numbers, highest, active, doomed, raced, app, rows, copied, applied>>,
         work'[a] = c => WorkOK(a)'
  PROVE  CareerInv'
<1>1. work' \in [Apps -> Call] /\ work'[a] = c /\ \A o \in Apps \ {a} : work'[o] = work[o]
  BY CallChanges DEF CareerInv
<1>2. CareerTypes'
  BY <1>1 DEF CareerInv, CareerTypes, SomeRows
<1>3. rows.old + rows.new <= Cardinality(SUBSET Snapshots) /\ Snapshots' = Snapshots
  BY DEF CareerInv, Snapshots
<1>4. doomed # 0 => raced' \/ app'[a].resume # doomed
  BY DEF CareerInv
<1>5. rows.old + rows.new <= rows.old + rows.new
  BY DEF CareerInv, CareerTypes, RowCount
<1> QED
  BY <1>1, <1>2, <1>3, <1>4, <1>5, OneApplication

\* and the read of the facts,
LEMMA ReadingFactsKeepsCareer ==
  ASSUME CareerInv, NEW a \in Apps, ReadFacts(a)
  PROVE  CareerInv'
<1>1. PICK w \in Call : w = work[a] /\ w.at = "created"
  BY DEF CareerInv, CareerTypes, ReadFacts, At
<1>2. PICK c : c = [w EXCEPT !.at = "read", !.saw = rows]
  OBVIOUS
<1>3. rows \in RowCount /\ SomeRows(rows) /\ rows.old + rows.new <= rows.old + rows.new
  BY DEF CareerInv, CareerTypes, RowCount
<1>4. c \in Call /\ c.at = "read" /\ c.version = w.version /\ c.saw = rows
  BY <1>2, <1>3 DEF Call
<1>5. Works(a, c)
  BY <1>1, <1>2 DEF ReadFacts
<1>6. UNCHANGED <<numbers, highest, active, doomed, raced, app, rows, copied, applied>>
  BY DEF ReadFacts, resumeVars
<1>7. ASSUME work'[a] = c
      PROVE  WorkOK(a)'
  <2>1. /\ copied[a] = NoRows /\ applied[a] = << >> /\ (raced \/ Tagged(w.version, app[a].resume))
        /\ (app[a].snapshot => SomeRows(copied[a]))
    BY <1>1 DEF CareerInv, WorkOK
  <2>2. Len(<< >>) = 0 /\ DOMAIN << >> = {}
    OBVIOUS
  <2> QED
    BY <1>3, <1>4, <1>6, <1>7, <2>1, <2>2 DEF WorkOK, SomeRows, Tagged
<1> QED
  BY <1>4, <1>5, <1>6, <1>7, OneCall

\* and a snapshot that fails,
LEMMA FailureKeepsCareer ==
  ASSUME CareerInv, NEW a \in Apps, SnapshotFails(a)
  PROVE  CareerInv'
<1>1. PICK w \in Call : w = work[a] /\ w.at = "read"
  BY DEF CareerInv, CareerTypes, SnapshotFails, At
<1>2. PICK c : c = [w EXCEPT !.at = "linked", !.saw = NoRows]
  OBVIOUS
<1>3. c \in Call /\ c.at = "linked" /\ c.version = w.version
  BY <1>2 DEF Call, NoRows, RowCount
<1>4. Works(a, c)
  BY <1>1, <1>2 DEF SnapshotFails
<1>5. UNCHANGED <<numbers, highest, active, doomed, raced, app, rows, copied, applied>>
  BY DEF SnapshotFails, resumeVars
<1>6. ASSUME work'[a] = c
      PROVE  WorkOK(a)'
  <2>1. /\ applied[a] = << >> /\ (raced \/ Tagged(w.version, app[a].resume))
        /\ (app[a].snapshot => SomeRows(copied[a]))
    BY <1>1 DEF CareerInv, WorkOK
  <2>2. Len(<< >>) = 0 /\ DOMAIN << >> = {}
    OBVIOUS
  <2> QED
    BY <1>3, <1>5, <1>6, <2>1, <2>2 DEF WorkOK, SomeRows, Tagged
<1> QED
  BY <1>3, <1>4, <1>5, <1>6, OneCall

\* and a call that gives up,
LEMMA GivingUpKeepsCareer ==
  ASSUME CareerInv, NEW a \in Apps, GivesUp(a)
  PROVE  CareerInv'
<1>1. PICK w \in Call : w = work[a] /\ w.at \in {"created", "read", "copied", "linked", "sent"}
  BY DEF CareerInv, CareerTypes, GivesUp
<1>2. PICK c : c = [NoWork EXCEPT !.at = "over"]
  OBVIOUS
<1>3. c \in Call /\ c.at = "over"
  BY <1>2 DEF Call, NoWork, RowCount
<1>4. Works(a, c)
  BY <1>2 DEF GivesUp
<1>5. UNCHANGED <<numbers, highest, active, doomed, raced, app, rows, copied, applied>>
  BY DEF GivesUp, resumeVars
<1>6. ASSUME work'[a] = c
      PROVE  WorkOK(a)'
  <2>1. applied[a] = << >> /\ (app[a].snapshot => SomeRows(copied[a]))
    BY <1>1 DEF CareerInv, WorkOK
  <2>2. Len(<< >>) = 0 /\ DOMAIN << >> = {}
    OBVIOUS
  <2> QED
    BY <1>3, <1>5, <1>6, <2>1, <2>2 DEF WorkOK, SomeRows, Tagged
<1> QED
  BY <1>3, <1>4, <1>5, <1>6, OneCall

\* and the action,
LEMMA ActionKeepsCareer ==
  ASSUME CareerInv, NEW a \in Apps, recordAction(a)
  PROVE  CareerInv'
<1>1. PICK w \in Call : w = work[a] /\ w.at = "sent"
  BY DEF CareerInv, CareerTypes, recordAction, At
<1>2. PICK c : c = [NoWork EXCEPT !.at = "over"]
  OBVIOUS
<1>3. c \in Call /\ c.at = "over"
  BY <1>2 DEF Call, NoWork, RowCount
<1>4. Works(a, c)
  BY <1>2 DEF recordAction
<1>5. UNCHANGED <<numbers, highest, active, doomed, raced, app, rows, copied>>
  BY DEF recordAction, resumeVars
<1>6. /\ applied[a] = << >> /\ (raced \/ Tagged(w.version, app[a].resume))
      /\ (app[a].snapshot => SomeRows(copied[a]))
  BY <1>1 DEF CareerInv, WorkOK
<1>7. CASE UNCHANGED applied
  <2>1. Len(<< >>) = 0 /\ DOMAIN << >> = {}
    OBVIOUS
  <2>2. ASSUME work'[a] = c
        PROVE  WorkOK(a)'
    BY <1>3, <1>5, <1>6, <1>7, <2>1, <2>2 DEF WorkOK, SomeRows, Tagged
  <2> QED
    BY <1>3, <1>4, <1>5, <1>7, <2>2, OneCall
<1>8. CASE applied' = [applied EXCEPT ![a] = Append(applied[a], resumeVersionTag(a))]
  <2>1. PICK v \in Nat : v = w.version /\ v = resumeVersionTag(a)
    BY <1>1 DEF Call, resumeVersionTag
  <2>2. PICK t : t = Append(<< >>, v)
    OBVIOUS
  <2>3. t \in Seq(Nat) /\ Len(t) = 1 /\ DOMAIN t = {1} /\ t[1] = v
    <3>1. << >> \in Seq(Nat) /\ Len(<< >>) = 0
      OBVIOUS
    <3> QED
      BY <2>2, <3>1, AppendProperties
  <2>4. applied' = [applied EXCEPT ![a] = t]
    BY <1>6, <1>8, <2>1, <2>2
  <2>5. /\ applied' \in [Apps -> Seq(Nat)] /\ applied'[a] = t
        /\ \A o \in Apps \ {a} : applied'[o] = applied[o]
    BY <2>3, <2>4 DEF CareerInv, CareerTypes
  <2>6. work' \in [Apps -> Call] /\ work'[a] = c /\ \A o \in Apps \ {a} : work'[o] = work[o]
    BY <1>3, <1>4, CallChanges DEF CareerInv
  <2>7. CareerTypes'
    BY <1>5, <2>5, <2>6 DEF CareerInv, CareerTypes, SomeRows
  <2>8. WorkOK(a)'
    <3>1. raced' \/ Tagged(v, app[a].resume)'
      BY <1>5, <1>6, <2>1 DEF Tagged
    <3>2. \A i \in DOMAIN t : t[i] = v
      BY <2>3
    <3>3. app'[a].snapshot => SomeRows(copied[a])'
      BY <1>5, <1>6 DEF SomeRows
    <3>4. \A i \in DOMAIN applied'[a] : raced' \/ Tagged(applied[a][i], app[a].resume)'
      BY <2>5, <3>1, <3>2 DEF Tagged
    <3>5. work'[a].at = "over" /\ Len(applied'[a]) <= 1
      <4>1. work'[a].at = "over"
        BY <1>3, <2>6
      <4>2. Len(applied'[a]) = 1
        BY <2>3, <2>5
      <4> QED
        BY <4>1, <4>2
    <3> QED
      BY <3>3, <3>4, <3>5 DEF WorkOK
  <2>9. rows.old + rows.new <= Cardinality(SUBSET Snapshots) /\ Snapshots' = Snapshots
    BY <1>5 DEF CareerInv, Snapshots
  <2>10. doomed # 0 => raced' \/ app'[a].resume # doomed
    BY <1>5 DEF CareerInv
  <2>11. rows.old + rows.new <= rows.old + rows.new
    BY DEF CareerInv, CareerTypes, RowCount
  <2> QED
    BY <1>5, <2>5, <2>6, <2>7, <2>8, <2>9, <2>10, <2>11, OneApplication
<1> QED
  BY <1>7, <1>8 DEF recordAction

\* and the link to the resume,
LEMMA CreationKeepsCareer ==
  ASSUME CareerInv, NEW a \in Apps, linkApplicationResume(a)
  PROVE  CareerInv'
<1>1. PICK w \in Call : w = work[a] /\ w.at = "begun"
  BY DEF CareerInv, CareerTypes, linkApplicationResume, At
<1>2. /\ app[a] = NoApp /\ copied[a] = NoRows /\ applied[a] = << >>
      /\ \/ w.resume = 0 /\ w.version = 0
         \/ /\ w.resume \in DOMAIN numbers /\ w.version # 0
            /\ numbers[w.resume] \in {0, w.version}
  BY <1>1 DEF CareerInv, WorkOK
<1>3. Len(<< >>) = 0 /\ DOMAIN << >> = {} /\ NoApp.snapshot = FALSE /\ NoApp.resume = 0
  BY DEF NoApp
<1>4. UNCHANGED <<numbers, highest, active, doomed, rows, copied, applied>>
  BY DEF linkApplicationResume
<1>5. CASE w.resume # 0 /\ numbers[w.resume] = 0
  <2>1. Works(a, NoWork) /\ UNCHANGED <<app, raced>>
    BY <1>1, <1>5 DEF linkApplicationResume
  <2>2. NoWork \in Call /\ NoWork.at = "none"
    BY DEF NoWork, Call, RowCount
  <2>3. ASSUME work'[a] = NoWork
        PROVE  WorkOK(a)'
    BY <1>2, <1>3, <1>4, <2>1, <2>2, <2>3 DEF WorkOK
  <2> QED
    BY <1>4, <2>1, <2>2, <2>3, OneCall
<1>6. CASE ~(w.resume # 0 /\ numbers[w.resume] = 0)
  <2>1. PICK r : r = [NoApp EXCEPT !.status = "APPLIED", !.resume = w.resume]
    OBVIOUS
  <2>2. r \in AppRow /\ r.resume = w.resume /\ r.snapshot = FALSE
    BY <1>1, <2>1 DEF AppRow, NoApp, Call
  <2>3. /\ Goes(a, "created") /\ app' = [app EXCEPT ![a] = r]
        /\ raced' = (raced \/ w.resume \in {doomed} \ {0})
    BY <1>1, <1>6, <2>1 DEF linkApplicationResume
  <2>4. PICK c \in Call : /\ Works(a, c) /\ c.at = "created"
                          /\ c.version = w.version
    BY <1>1, <2>3, CallGoes DEF CareerInv
  <2>5. work' \in [Apps -> Call] /\ work'[a] = c /\ \A o \in Apps \ {a} : work'[o] = work[o]
    BY <2>4, CallChanges DEF CareerInv
  <2>6. app' \in [Apps -> AppRow] /\ app'[a] = r /\ \A o \in Apps \ {a} : app'[o] = app[o]
    BY <2>2, <2>3, RowChanges DEF CareerInv
  <2>7. raced' \in BOOLEAN /\ (raced => raced')
    BY <2>3 DEF CareerInv, CareerTypes
  <2>8. CareerTypes'
    BY <1>4, <2>5, <2>6, <2>7 DEF CareerInv, CareerTypes, SomeRows
  <2>9. Tagged(w.version, w.resume)'
    BY <1>2, <1>4, <1>6 DEF Tagged
  <2>10. WorkOK(a)'
    <3>1. Tagged(work[a].version, app[a].resume)'
      BY <2>2, <2>4, <2>5, <2>6, <2>9 DEF Tagged
    <3>2. work'[a].at = "created" /\ copied'[a] = NoRows /\ applied'[a] = << >> /\ ~app'[a].snapshot
      BY <1>2, <1>4, <2>2, <2>4, <2>5, <2>6
    <3> QED
      BY <1>3, <3>1, <3>2 DEF WorkOK
  <2>11. rows.old + rows.new <= Cardinality(SUBSET Snapshots) /\ Snapshots' = Snapshots
    BY <1>4 DEF CareerInv, Snapshots
  <2>12. doomed # 0 => raced' \/ app'[a].resume # doomed
    BY <2>2, <2>3, <2>6
  <2>13. rows.old + rows.new <= rows.old + rows.new
    BY DEF CareerInv, CareerTypes, RowCount
  <2> QED
    BY <1>4, <2>5, <2>6, <2>7, <2>8, <2>10, <2>11, <2>12, <2>13, OneApplication
<1> QED
  BY <1>5, <1>6

\* and the snapshot,
LEMMA SnapshotKeepsCareer ==
  ASSUME CareerInv, NEW a \in Apps, createSnapshot(a)
  PROVE  CareerInv'
<1>1. PICK w \in Call : w = work[a] /\ w.at = "read"
  BY DEF CareerInv, CareerTypes, createSnapshot, At
<1>2. /\ copied[a] = NoRows /\ applied[a] = << >> /\ (raced \/ Tagged(w.version, app[a].resume))
      /\ SomeRows(w.saw) /\ w.saw.old + w.saw.new <= rows.old + rows.new
  BY <1>1 DEF CareerInv, WorkOK
<1>3. PICK k \in RowCount : k = w.saw /\ SomeRows(k)
  BY <1>1, <1>2 DEF Call
<1>4. PICK c : c = [w EXCEPT !.at = "copied", !.saw = NoRows]
  OBVIOUS
<1>5. c \in Call /\ c.at = "copied" /\ c.version = w.version
  BY <1>4 DEF Call, NoRows, RowCount
<1>6. Works(a, c)
  BY <1>1, <1>4 DEF createSnapshot
<1>7. /\ rows' = [old |-> rows.old + k.old, new |-> rows.new + k.new]
      /\ copied' = [copied EXCEPT ![a] = k]
      /\ UNCHANGED <<numbers, highest, active, doomed, raced, app, applied>>
  BY <1>1, <1>3 DEF createSnapshot, Copies, resumeVars
<1>8. work' \in [Apps -> Call] /\ work'[a] = c /\ \A o \in Apps \ {a} : work'[o] = work[o]
  BY <1>5, <1>6, CallChanges DEF CareerInv
<1>9. copied' \in [Apps -> RowCount] /\ copied'[a] = k /\ \A o \in Apps \ {a} : copied'[o] = copied[o]
  BY <1>7 DEF CareerInv, CareerTypes
<1>10. /\ rows.old \in Nat /\ rows.new \in Nat /\ k.old \in Nat /\ k.new \in Nat
       /\ rows.old + rows.new > 0 /\ k.old + k.new > 0 /\ k.old + k.new <= rows.old + rows.new
  BY <1>2, <1>3 DEF CareerInv, CareerTypes, RowCount, SomeRows
<1>11. /\ rows' \in RowCount /\ rows'.old = rows.old + k.old /\ rows'.new = rows.new + k.new
  BY <1>7, <1>10 DEF RowCount
<1>12. /\ rows'.old + rows'.new > 0
       /\ rows.old + rows.new <= rows'.old + rows'.new
       /\ rows'.old + rows'.new <= 2 * (rows.old + rows.new)
  BY <1>10, <1>11
<1>13. CareerTypes'
  BY <1>7, <1>8, <1>9, <1>11, <1>12 DEF CareerInv, CareerTypes, SomeRows
<1>14. WorkOK(a)'
  <2>1. work'[a].at = "copied" /\ SomeRows(copied[a])' /\ applied'[a] = << >>
    BY <1>2, <1>3, <1>5, <1>7, <1>8, <1>9 DEF SomeRows
  <2>2. raced' \/ Tagged(work[a].version, app[a].resume)'
    BY <1>2, <1>5, <1>7, <1>8 DEF Tagged
  <2>3. Len(<< >>) = 0 /\ DOMAIN << >> = {}
    OBVIOUS
  <2> QED
    BY <2>1, <2>2, <2>3 DEF WorkOK
<1>15. rows'.old + rows'.new <= Cardinality(SUBSET Snapshots')
  <2>1. k # NoRows
    BY <1>10 DEF NoRows
  <2>2. a \notin Snapshots /\ Snapshots' = Snapshots \cup {a}
    BY <1>2, <1>9, <2>1 DEF Snapshots
  <2>3. IsFiniteSet(Snapshots)
    BY FS_Subset, CareerAssumption DEF Snapshots
  <2>4. /\ Cardinality(SUBSET Snapshots') = 2 * Cardinality(SUBSET Snapshots)
        /\ Cardinality(SUBSET Snapshots) \in Nat
    BY <2>2, <2>3, SubsetsDouble
  <2>5. PICK n \in Nat, m \in Nat : n = rows.old + rows.new /\ m = rows'.old + rows'.new
    BY <1>10, <1>11
  <2>6. n <= Cardinality(SUBSET Snapshots) /\ m <= 2 * n
    BY <1>12, <2>5 DEF CareerInv
  <2>7. m <= 2 * Cardinality(SUBSET Snapshots)
    BY <2>4, <2>6
  <2> QED
    BY <2>4, <2>5, <2>7
<1>16. doomed # 0 => raced' \/ app'[a].resume # doomed
  BY <1>7 DEF CareerInv
<1> QED
  BY <1>7, <1>8, <1>9, <1>12, <1>13, <1>14, <1>15, <1>16, OneApplication

\* and its link and the outcome,
LEMMA LinkingKeepsCareer ==
  ASSUME CareerInv, NEW a \in Apps, LinkSnapshot(a) \/ recordOutcome(a)
  PROVE  CareerInv'
<1>1. PICK w \in Call : /\ w = work[a] /\ w.at \in {"copied", "linked"}
                        /\ LinkSnapshot(a) => w.at = "copied"
  BY DEF CareerInv, CareerTypes, LinkSnapshot, recordOutcome, At
<1>2. PICK r \in AppRow : r = app[a]
  BY DEF CareerInv, CareerTypes
<1>3. PICK step \in {"linked", "sent"} : Goes(a, step)
  BY DEF LinkSnapshot, recordOutcome
<1>4. PICK c \in Call : Works(a, c) /\ c.at = step /\ c.version = w.version
  BY <1>1, <1>3, CallGoes DEF CareerInv
<1>5. PICK t \in AppRow : /\ app' = [app EXCEPT ![a] = t] /\ t.resume = r.resume
                          /\ t.snapshot => r.snapshot \/ w.at = "copied"
  <2>1. CASE LinkSnapshot(a)
    <3>1. PICK t : t = [r EXCEPT !.snapshot = TRUE]
      OBVIOUS
    <3>2. t \in AppRow /\ t.resume = r.resume
      BY <3>1 DEF AppRow
    <3>3. app' = [app EXCEPT ![a] = t]
      BY <1>2, <2>1, <3>1 DEF LinkSnapshot
    <3> QED
      BY <1>1, <2>1, <3>2, <3>3
  <2>2. CASE recordOutcome(a)
    <3>1. PICK s \in {"Applied", r.status} : app' = [app EXCEPT ![a].status = s]
      BY <1>2, <2>2 DEF recordOutcome, OUTCOME_TYPE_TO_STATUS
    <3>2. PICK t : t = [r EXCEPT !.status = s]
      OBVIOUS
    <3>3. t \in AppRow /\ t.resume = r.resume /\ t.snapshot = r.snapshot
      BY <3>1, <3>2 DEF AppRow
    <3>4. app' = [app EXCEPT ![a] = t]
      BY <1>2, <3>1, <3>2
    <3> QED
      BY <3>3, <3>4
  <2> QED
    BY <2>1, <2>2
<1>6. UNCHANGED <<numbers, highest, active, doomed, raced, rows, copied, applied>>
  BY DEF LinkSnapshot, recordOutcome, resumeVars
<1>7. work' \in [Apps -> Call] /\ work'[a] = c /\ \A o \in Apps \ {a} : work'[o] = work[o]
  BY <1>4, CallChanges DEF CareerInv
<1>8. app' \in [Apps -> AppRow] /\ app'[a] = t /\ \A o \in Apps \ {a} : app'[o] = app[o]
  BY <1>5, RowChanges DEF CareerInv
<1>9. CareerTypes'
  BY <1>6, <1>7, <1>8 DEF CareerInv, CareerTypes, SomeRows
<1>10. /\ applied[a] = << >> /\ (raced \/ Tagged(w.version, r.resume))
       /\ (r.snapshot \/ w.at = "copied" => SomeRows(copied[a]))
  BY <1>1, <1>2 DEF CareerInv, WorkOK
<1>11. WorkOK(a)'
  <2>1. raced' \/ Tagged(work[a].version, app[a].resume)'
    BY <1>4, <1>5, <1>6, <1>7, <1>8, <1>10 DEF Tagged
  <2>2. app'[a].snapshot => SomeRows(copied[a])'
    BY <1>5, <1>6, <1>8, <1>10 DEF SomeRows
  <2>3. work'[a].at \in {"linked", "sent"} /\ applied'[a] = << >>
    BY <1>4, <1>6, <1>7, <1>10
  <2>4. Len(<< >>) = 0 /\ DOMAIN << >> = {}
    OBVIOUS
  <2> QED
    BY <2>1, <2>2, <2>3, <2>4 DEF WorkOK
<1>12. rows.old + rows.new <= Cardinality(SUBSET Snapshots) /\ Snapshots' = Snapshots
  BY <1>6 DEF CareerInv, Snapshots
<1>13. doomed # 0 => raced' \/ app'[a].resume # doomed
  BY <1>2, <1>5, <1>6, <1>8 DEF CareerInv
<1>14. rows.old + rows.new <= rows.old + rows.new
  BY DEF CareerInv, CareerTypes, RowCount
<1> QED
  BY <1>6, <1>7, <1>8, <1>9, <1>11, <1>12, <1>13, <1>14, OneApplication

\* The steps of the user and of a deletion leave the calls alone.
LEMMA UploadKeepsCareer ==
  ASSUME CareerInv, Upload
  PROVE  CareerInv'
<1>1. PICK latest \in 0..highest :
           /\ numbers' = Append(numbers, latest + 1)
           /\ highest' = IF latest = highest THEN highest + 1 ELSE highest
  BY DEF Upload
<1>2. PICK v \in Nat \ {0} : v = latest + 1
  BY DEF CareerInv, CareerTypes
<1>3. /\ numbers' = Append(numbers, v) /\ active' = Len(numbers') /\ highest' \in Nat
      /\ UNCHANGED <<doomed, raced, work, app, rows, copied, applied>>
  BY <1>1, <1>2 DEF Upload, CareerInv, CareerTypes
<1>4. PICK n \in Nat : n = Len(numbers) /\ DOMAIN numbers = 1..n
  BY DEF CareerInv, CareerTypes
<1>5. /\ numbers' \in Seq(Nat) /\ Len(numbers') = n + 1 /\ DOMAIN numbers' = 1..(n + 1)
      /\ numbers'[n + 1] = v /\ \A i \in 1..n : numbers'[i] = numbers[i]
  <2>1. numbers \in Seq(Nat)
    BY DEF CareerInv, CareerTypes
  <2> QED
    BY <1>2, <1>3, <1>4, <2>1, AppendProperties
<1>6. CareerTypes'
  <2>1. active' = n + 1 /\ numbers'[active'] # 0
    BY <1>2, <1>3, <1>5
  <2>2. active' \in 0..Len(numbers') /\ doomed' \in 0..Len(numbers')
    BY <1>3, <1>4, <1>5, <2>1 DEF CareerInv, CareerTypes
  <2> QED
    BY <1>3, <1>5, <2>1, <2>2 DEF CareerInv, CareerTypes, SomeRows
<1>7. ASSUME NEW a \in Apps
      PROVE  WorkOK(a)'
  <2>1. \A u \in DOMAIN numbers : u \in DOMAIN numbers' /\ numbers'[u] = numbers[u]
    BY <1>4, <1>5
  <2>2. rows'.old + rows'.new \in Nat /\ rows.old + rows.new <= rows'.old + rows'.new
    BY <1>3 DEF CareerInv, CareerTypes, RowCount
  <2> QED
    BY <1>3, <2>1, <2>2, OthersStay DEF CareerInv
<1>8. Snapshots' = Snapshots
  BY <1>3 DEF Snapshots
<1> QED
  BY <1>3, <1>6, <1>7, <1>8 DEF CareerInv

\* and a deletion or correction of the user,
LEMMA UserKeepsCareer ==
  ASSUME CareerInv, deleteVersion \/ correctFact
  PROVE  CareerInv'
<1>1. UNCHANGED <<numbers, highest, active, raced, work, app, copied, applied>>
  BY DEF deleteVersion, correctFact, resumeVars
<1>2. /\ rows' \in RowCount /\ rows'.old + rows'.new = rows.old + rows.new
      /\ rows.old + rows.new \in Nat /\ SomeRows(rows)'
  <2>1. rows \in RowCount /\ rows.old \in Nat /\ rows.new \in Nat /\ SomeRows(rows)
    BY DEF CareerInv, CareerTypes, RowCount
  <2>2. CASE deleteVersion
    BY <2>1, <2>2 DEF deleteVersion, SomeRows
  <2>3. CASE correctFact
    <3>1. rows' = [old |-> rows.old - 1, new |-> rows.new + 1] /\ rows.old > 0
      BY <2>3 DEF correctFact
    <3>2. rows'.old = rows.old - 1 /\ rows'.new = rows.new + 1 /\ rows' \in RowCount
      BY <2>1, <3>1 DEF RowCount
    <3> QED
      BY <2>1, <3>2 DEF SomeRows
  <2> QED
    BY <2>2, <2>3
<1>3. /\ doomed' \in 0..Len(numbers)
      /\ doomed' # 0 => raced' \/ \A a \in Apps : app'[a].resume # doomed'
  <2>1. CASE deleteVersion
    <3>1. PICK u \in DOMAIN numbers : Links(u) = {} /\ doomed' = u
      BY <2>1 DEF deleteVersion
    <3>2. \A a \in Apps : app'[a].resume # u
      BY <1>1, <3>1 DEF Links
    <3>3. u \in 0..Len(numbers)
      BY DEF CareerInv, CareerTypes
    <3> QED
      BY <3>1, <3>2, <3>3
  <2>2. CASE correctFact
    BY <1>1, <2>2 DEF correctFact, resumeVars, CareerInv, CareerTypes
  <2> QED
    BY <2>1, <2>2
<1>4. CareerTypes'
  BY <1>1, <1>2, <1>3 DEF CareerInv, CareerTypes
<1>5. ASSUME NEW a \in Apps
      PROVE  WorkOK(a)'
  <2>1. rows.old + rows.new <= rows'.old + rows'.new /\ rows'.old + rows'.new \in Nat
    BY <1>2
  <2> QED
    BY <1>1, <2>1, OthersStay DEF CareerInv
<1>6. Snapshots' = Snapshots /\ rows'.old + rows'.new <= Cardinality(SUBSET Snapshots)
  BY <1>1, <1>2 DEF Snapshots, CareerInv
<1> QED
  BY <1>3, <1>4, <1>5, <1>6 DEF CareerInv

\* and what follows from the deletion.
LEMMA CascadeKeepsCareer ==
  ASSUME CareerInv, Cascade
  PROVE  CareerInv'
<1>1. /\ doomed # 0 /\ doomed' = 0 /\ numbers' = [numbers EXCEPT ![doomed] = 0]
      /\ active' = IF active = doomed THEN 0 ELSE active
      /\ UNCHANGED <<highest, raced, work, rows, copied, applied>>
  BY DEF Cascade
<1>2. PICK n \in Nat : n = Len(numbers) /\ DOMAIN numbers = 1..n
  BY DEF CareerInv, CareerTypes
<1>3. doomed \in 1..n /\ active \in 0..n
  BY <1>1, <1>2 DEF CareerInv, CareerTypes
<1>4. /\ numbers' \in Seq(Nat) /\ Len(numbers') = n /\ DOMAIN numbers' = 1..n
      /\ numbers'[doomed] = 0 /\ \A u \in (1..n) \ {doomed} : numbers'[u] = numbers[u]
  BY <1>1, <1>2, <1>3 DEF CareerInv, CareerTypes
<1>5. ASSUME NEW a \in Apps
      PROVE  /\ app'[a] \in AppRow /\ app'[a].snapshot = app[a].snapshot
             /\ app'[a] = app[a] \/ (raced' /\ app[a] # NoApp)
             /\ raced' \/ app[a].resume # doomed
  <2>1. PICK r \in AppRow : r = app[a]
    BY DEF CareerInv, CareerTypes
  <2>2. app'[a] = IF r.resume = doomed THEN [r EXCEPT !.resume = 0] ELSE r
    BY <2>1 DEF Cascade, Links
  <2>3. raced \/ r.resume # doomed
    BY <1>1, <2>1 DEF CareerInv
  <2>4. CASE r.resume = doomed
    <3>1. PICK t : t = [r EXCEPT !.resume = 0]
      OBVIOUS
    <3>2. t \in AppRow /\ t.snapshot = r.snapshot
      BY <3>1 DEF AppRow
    <3>3. NoApp.resume = 0
      BY DEF NoApp
    <3> QED
      BY <1>1, <2>1, <2>2, <2>3, <2>4, <3>1, <3>2, <3>3
  <2>5. CASE r.resume # doomed
    BY <2>1, <2>2, <2>5
  <2> QED
    BY <2>4, <2>5
<1>6. app' \in [Apps -> AppRow]
  <2>1. app' = [a \in Apps |-> IF a \in Links(doomed) THEN [app[a] EXCEPT !.resume = 0] ELSE app[a]]
    BY DEF Cascade
  <2>2. DOMAIN app' = Apps /\ app' = [a \in Apps |-> app'[a]]
    BY <2>1
  <2> QED
    BY <1>5, <2>2
<1>7. CareerTypes'
  <2>1. active' \in 0..n /\ (active' # 0 => numbers'[active'] # 0)
    BY <1>1, <1>2, <1>3, <1>4 DEF CareerInv, CareerTypes
  <2> QED
    BY <1>1, <1>4, <1>6, <2>1 DEF CareerInv, CareerTypes, SomeRows
<1>8. ASSUME NEW a \in Apps
      PROVE  WorkOK(a)'
  <2>1. \A u \in DOMAIN numbers : u \in DOMAIN numbers' /\ numbers'[u] \in {0, numbers[u]}
    BY <1>2, <1>4
  <2>2. \A u \in DOMAIN numbers : raced' \/ app[a].resume # u \/ numbers'[u] = numbers[u]
    BY <1>2, <1>4, <1>5
  <2>3. rows'.old + rows'.new \in Nat /\ rows.old + rows.new <= rows'.old + rows'.new
    BY <1>1 DEF CareerInv, CareerTypes, RowCount
  <2> QED
    BY <1>1, <1>5, <2>1, <2>2, <2>3, OthersStay DEF CareerInv
<1>9. Snapshots' = Snapshots
  BY <1>1 DEF Snapshots
<1> QED
  BY <1>1, <1>7, <1>8, <1>9 DEF CareerInv

\* The invariant holds at the start,
LEMMA CareerStart == CareerInit => CareerInv
<1> SUFFICES ASSUME CareerInit
             PROVE  CareerInv
  OBVIOUS
<1>1. << >> \in Seq(Nat) /\ Len(<< >>) = 0 /\ DOMAIN << >> = {}
  OBVIOUS
<1>2. NoRows \in RowCount /\ NoWork \in Call /\ NoApp \in AppRow /\ NoWork.at = "none" /\ ~NoApp.snapshot
  BY DEF NoRows, NoWork, NoApp, RowCount, Call, AppRow
<1>3. rows \in RowCount /\ rows.old + rows.new = 1
  BY DEF CareerInit, RowCount
<1>4. CareerTypes
  <2>1. work \in [Apps -> Call] /\ app \in [Apps -> AppRow]
    BY <1>2 DEF CareerInit
  <2>2. copied \in [Apps -> RowCount] /\ applied \in [Apps -> Seq(Nat)]
    BY <1>1, <1>2 DEF CareerInit
  <2>3. numbers = << >> /\ highest = 0 /\ active = 0 /\ doomed = 0 /\ raced = FALSE
    BY DEF CareerInit
  <2>4. numbers \in Seq(Nat) /\ highest \in Nat /\ active \in 0..Len(numbers) /\ doomed \in 0..Len(numbers)
    BY <1>1, <2>3
  <2>5. rows \in RowCount /\ SomeRows(rows)
    BY <1>3 DEF SomeRows
  <2> QED
    BY <2>1, <2>2, <2>3, <2>4, <2>5 DEF CareerTypes
<1>5. \A a \in Apps : WorkOK(a)
  BY <1>1, <1>2 DEF CareerInit, WorkOK
<1>6. Snapshots = {}
  BY DEF CareerInit, Snapshots
<1>7. Cardinality(SUBSET {}) = 1
  <2>1. SUBSET {} = {{}}
    OBVIOUS
  <2> QED
    BY <2>1, FS_Singleton
<1> QED
  BY <1>3, <1>4, <1>5, <1>6, <1>7 DEF CareerInit, CareerInv

\* and every step keeps it.
LEMMA CareerStep == CareerInv /\ [CareerNext]_careerVars => CareerInv'
<1> SUFFICES ASSUME CareerInv, [CareerNext]_careerVars
             PROVE  CareerInv'
  OBVIOUS
<1>1. CASE UNCHANGED careerVars
  BY <1>1 DEF careerVars, resumeVars, CareerInv, CareerTypes, WorkOK, SomeRows, Tagged, Snapshots
<1>2. CASE Upload \/ deleteVersion \/ Cascade \/ correctFact
  BY <1>2, UploadKeepsCareer, UserKeepsCareer, CascadeKeepsCareer
<1>3. ASSUME NEW a \in Apps,
             \/ ChangeStatus(a) \/ getActiveResumeRow(a) \/ linkApplicationResume(a)
             \/ ReadFacts(a) \/ createSnapshot(a) \/ SnapshotFails(a) \/ LinkSnapshot(a)
             \/ recordOutcome(a) \/ recordAction(a) \/ GivesUp(a)
      PROVE  CareerInv'
  BY <1>3, StatusKeepsCareer, ReadingResumeKeepsCareer, CreationKeepsCareer, ReadingFactsKeepsCareer,
     SnapshotKeepsCareer, FailureKeepsCareer, LinkingKeepsCareer, ActionKeepsCareer, GivingUpKeepsCareer
<1> QED
  BY <1>1, <1>2, <1>3 DEF CareerNext

\* An application has one action at most, so that the actions with tags are as many as their
\* applications.
LEMMA ActedOnce ==
  ASSUME CareerInv, NEW tags, NEW x \in Acted(tags)
  PROVE  /\ x[1] \in Apps /\ x = <<x[1], 1>> /\ Exists(x[1])
         /\ 1 \in DOMAIN applied[x[1]] /\ applied[x[1]][1] \in tags
<1>1. /\ x \in Apps \X (1..2) /\ x[2] <= Len(applied[x[1]])
      /\ applied[x[1]][x[2]] \in tags /\ Exists(x[1])
  BY DEF Acted
<1>2. PICK a \in Apps, i \in 1..2 : x = <<a, i>>
  BY <1>1
<1>3. x[1] = a /\ x[2] = i
  BY <1>2
<1>4. PICK n \in Nat : n = Len(applied[a]) /\ DOMAIN applied[a] = 1..n /\ n <= 1
  BY DEF CareerInv, CareerTypes, WorkOK
<1>5. i = 1 /\ n = 1
  <2>1. i <= n
    BY <1>1, <1>3, <1>4
  <2>2. n <= 1
    BY <1>4
  <2>3. i \in 1..2 /\ n \in Nat
    OBVIOUS
  <2> QED
    BY <2>1, <2>2, <2>3
<1> QED
  BY <1>1, <1>2, <1>3, <1>4, <1>5

\* The actions can be counted,
LEMMA ActedIsFinite ==
  ASSUME NEW tags, NEW S \in SUBSET Acted(tags)
  PROVE  IsFiniteSet(S) /\ Cardinality(S) \in Nat
<1>1. IsFiniteSet(1..2)
  <2>1. \A c \in Nat : IsFiniteSet(1..c)
    BY FS_Interval
  <2> QED
    BY <2>1
<1>2. IsFiniteSet(Apps \X (1..2))
  BY <1>1, CareerAssumption, FS_Product
<1>3. S \subseteq Apps \X (1..2)
  BY DEF Acted
<1> QED
  BY <1>2, <1>3, FS_Subset, FS_CardinalityType

\* and their applications,
LEMMA ActedAppsAreFinite ==
  ASSUME NEW tags
  PROVE  /\ IsFiniteSet({x[1] : x \in Acted(tags)})
         /\ Cardinality({x[1] : x \in Acted(tags)}) \in Nat
<1>1. {x[1] : x \in Acted(tags)} \subseteq Apps
  BY DEF Acted
<1> QED
  BY <1>1, CareerAssumption, FS_Subset, FS_CardinalityType

\* and what is numbered from the links.
LEMMA UnitsAreFinite ==
  ASSUME CareerInv, NEW v, NEW f
  PROVE  IsFiniteSet(Units(Numbered(v), f)) /\ Cardinality(Units(Numbered(v), f)) \in Nat
<1> DEFINE all == Cardinality(Apps)
<1>1. PICK n \in Nat : n = Len(numbers) /\ DOMAIN numbers = 1..n
  BY DEF CareerInv, CareerTypes
<1>2. Numbered(v) \in SUBSET (1..n)
  BY <1>1 DEF Numbered
<1>3. \A c \in Nat : IsFiniteSet(1..c)
  BY FS_Interval
<1>4. all \in Nat
  BY CareerAssumption, FS_CardinalityType
<1>5. IsFiniteSet(Numbered(v)) /\ IsFiniteSet(1..all)
  BY <1>2, <1>3, <1>4, FS_Subset
<1>6. IsFiniteSet(Numbered(v) \X (1..all))
  BY <1>5, FS_Product
<1>7. Units(Numbered(v), f) \subseteq Numbered(v) \X (1..all)
  BY DEF Units
<1>8. IsFiniteSet(Units(Numbered(v), f))
  BY <1>6, <1>7, FS_Subset
<1> QED
  BY <1>8, FS_CardinalityType

\* What is counted of the actions with a tag is counted in the rows of the resumes of that number.
LEMMA ActedIsCounted ==
  ASSUME CareerInv, ~raced, NEW v \in Nat \ {0}, NEW f, NEW P \in SUBSET Apps,
         \A u \in DOMAIN numbers :
           getResumePerformance[u][f] = Cardinality({a \in Apps : Exists(a) /\ app[a].resume = u /\ a \in P})
  PROVE  Cardinality({x \in Acted({v}) : x[1] \in P}) <= Cardinality(Units(Numbered(v), f))
<1> DEFINE L == {x \in Acted({v}) : x[1] \in P}
           In(u) == {a \in Apps : Exists(a) /\ app[a].resume = u /\ a \in P}
           G(u) == CHOOSE g : g \in Injection(In(u), 1..Cardinality(In(u)))
           place == [x \in L |-> <<app[x[1]].resume, G(app[x[1]].resume)[x[1]]>>]
           all == Cardinality(Apps)
<1>1. \A u : /\ IsFiniteSet(In(u)) /\ Cardinality(In(u)) \in Nat /\ Cardinality(In(u)) <= all
             /\ all \in Nat
  <2>1. ASSUME NEW u
        PROVE  /\ IsFiniteSet(In(u)) /\ Cardinality(In(u)) \in Nat /\ Cardinality(In(u)) <= all
               /\ all \in Nat
    <3>1. In(u) \in SUBSET Apps
      OBVIOUS
    <3> HIDE DEF In
    <3> QED
      BY <3>1, CareerAssumption, FS_Subset, FS_CardinalityType
  <2> QED
    BY <2>1
<1>2. ASSUME NEW u
      PROVE  G(u) \in Injection(In(u), 1..Cardinality(In(u)))
  <2>1. PICK S : S = In(u) /\ IsFiniteSet(S) /\ Cardinality(S) \in Nat
    BY <1>1
  <2>2. IsFiniteSet(1..Cardinality(S)) /\ Cardinality(1..Cardinality(S)) = Cardinality(S)
    <3>1. \A c \in Nat : IsFiniteSet(1..c) /\ Cardinality(1..c) = c
      BY FS_Interval
    <3> QED
      BY <2>1, <3>1
  <2>3. ExistsBijection(S, 1..Cardinality(S))
    BY <2>1, <2>2, FS_SameCardinalityBij
  <2>4. \E g : g \in Injection(S, 1..Cardinality(S))
    BY <2>3 DEF ExistsBijection, Bijection
  <2> HIDE DEF In
  <2>5. \E g : g \in Injection(In(u), 1..Cardinality(In(u)))
    BY <2>1, <2>4
  <2> QED
    BY <2>5, Zenon
<1>3. ASSUME NEW x \in L
      PROVE  /\ x[1] \in Apps /\ x = <<x[1], 1>>
             /\ app[x[1]].resume \in Numbered(v) /\ x[1] \in In(app[x[1]].resume)
  <2>1. /\ x[1] \in Apps /\ x = <<x[1], 1>> /\ Exists(x[1])
        /\ 1 \in DOMAIN applied[x[1]] /\ applied[x[1]][1] = v
    BY ActedOnce
  <2>2. Tagged(v, app[x[1]].resume)
    BY <2>1 DEF CareerInv, WorkOK
  <2> QED
    BY <2>1, <2>2 DEF Tagged, Numbered
<1>4. ASSUME NEW x \in L
      PROVE  place[x] \in Units(Numbered(v), f)
  <2>1. PICK u \in Numbered(v) : u = app[x[1]].resume /\ x[1] \in In(u)
    BY <1>3
  <2>2. PICK k \in 1..Cardinality(In(u)) : k = G(u)[x[1]]
    <3> HIDE DEF In, G
    <3> QED
      BY <1>2, <2>1 DEF Injection
  <2>3. getResumePerformance[u][f] = Cardinality(In(u))
    BY DEF Numbered
  <2>4. k \in 1..all /\ k <= getResumePerformance[u][f]
    <3> HIDE DEF In, all
    <3> QED
      BY <1>1, <2>2, <2>3
  <2>5. place[x] = <<u, k>>
    <3> HIDE DEF In, G
    <3> QED
      BY <2>1, <2>2
  <2> HIDE DEF place
  <2> QED
    BY <2>4, <2>5 DEF Units
<1>5. ASSUME NEW x \in L, NEW y \in L, place[x] = place[y]
      PROVE  x = y
  <2>1. PICK u : u = app[x[1]].resume /\ x[1] \in In(u)
    BY <1>3
  <2>2. PICK w : w = app[y[1]].resume /\ y[1] \in In(w)
    BY <1>3
  <2>3. PICK i : i = G(u)[x[1]]
    OBVIOUS
  <2>4. PICK j : j = G(w)[y[1]]
    OBVIOUS
  <2>5. place[x] = <<u, i>> /\ place[y] = <<w, j>>
    <3> HIDE DEF In, G
    <3> QED
      BY <2>1, <2>2, <2>3, <2>4
  <2> HIDE DEF place, In, G
  <2>6. u = w /\ i = j
    <3>1. <<u, i>> = <<w, j>>
      BY <1>5, <2>5
    <3> QED
      BY <3>1
  <2>7. x[1] = y[1]
    BY <1>2, <2>1, <2>2, <2>3, <2>4, <2>6 DEF Injection, IsInjective
  <2> QED
    BY <1>3, <2>7
<1>6. place \in Injection(L, Units(Numbered(v), f))
  <2>1. place \in [L -> Units(Numbered(v), f)]
    BY <1>4
  <2> HIDE DEF place, L
  <2> QED
    BY <1>5, <2>1 DEF Injection, IsInjective
<1>7. IsFiniteSet(Units(Numbered(v), f))
  BY UnitsAreFinite
<1> HIDE DEF place, L
<1> QED
  BY <1>6, <1>7, FS_Injection DEF L

\* The reports of sound records agree.
LEMMA ReportsOfInv == CareerInv => ReportsAgree
<1> SUFFICES ASSUME CareerInv
             PROVE  ReportsAgree
  OBVIOUS
<1>1. ASSUME NEW v \in 1..MaxUploads, ~raced
      PROVE  NoMore(getStrategyPerformance[v], ResumesOf(v))
  <2> DEFINE D == {a \in Apps : InInterview(a)}
             O == {a \in Apps : InOffer(a)}
             A == Acted({v})
  <2>1. v \in Nat \ {0}
    <3>1. MaxUploads \in Nat
      BY CareerAssumption
    <3>2. v \in 1..MaxUploads
      BY <1>1
    <3> QED
      BY <3>1, <3>2
  <2>2. \A u \in DOMAIN numbers : u \in 0..Len(numbers)
    BY DEF CareerInv, CareerTypes
  <2>3. \A u \in DOMAIN numbers : getResumePerformance[u] = Counted({a \in Apps : Exists(a) /\ app[a].resume = u})
    BY <2>2 DEF getResumePerformance
  <2>4. ASSUME NEW u \in DOMAIN numbers
        PROVE  /\ getResumePerformance[u]["applications"]
                    = Cardinality({a \in Apps : Exists(a) /\ app[a].resume = u /\ a \in Apps})
               /\ getResumePerformance[u]["interviews"]
                    = Cardinality({a \in Apps : Exists(a) /\ app[a].resume = u /\ a \in D})
               /\ getResumePerformance[u]["offers"]
                    = Cardinality({a \in Apps : Exists(a) /\ app[a].resume = u /\ a \in O})
    <3>1. PICK S : S = {a \in Apps : Exists(a) /\ app[a].resume = u}
      OBVIOUS
    <3>2. getResumePerformance[u] = Counted(S)
      BY <2>3, <3>1
    <3>3. /\ S = {a \in Apps : Exists(a) /\ app[a].resume = u /\ a \in Apps}
          /\ {a \in S : InInterview(a)} = {a \in Apps : Exists(a) /\ app[a].resume = u /\ a \in D}
          /\ {a \in S : InOffer(a)} = {a \in Apps : Exists(a) /\ app[a].resume = u /\ a \in O}
      BY <3>1
    <3> QED
      BY <3>2, <3>3 DEF Counted
  <2> HIDE DEF D, O, A
  <2>5. /\ Cardinality({x \in A : x[1] \in Apps}) <= Cardinality(Units(Numbered(v), "applications"))
        /\ Cardinality({x \in A : x[1] \in D}) <= Cardinality(Units(Numbered(v), "interviews"))
        /\ Cardinality({x \in A : x[1] \in O}) <= Cardinality(Units(Numbered(v), "offers"))
    BY <1>1, <2>1, <2>4, ActedIsCounted DEF A, D, O
  <2>6. /\ {x \in A : x[1] \in Apps} = A
        /\ {x \in A : x[1] \in D} = {x \in A : InInterview(x[1])}
        /\ {x \in A : x[1] \in O} = {x \in A : InOffer(x[1])}
    <3>1. \A x \in A : x[1] \in Apps
      BY DEF A, Acted
    <3> QED
      BY <3>1 DEF D, O
  <2>7. Cardinality({x[1] : x \in A}) <= Cardinality(A)
    <3>1. IsFiniteSet(A)
      BY ActedIsFinite DEF A
    <3>2. PICK g : g = [x \in A |-> x[1]]
      OBVIOUS
    <3>3. g \in Surjection(A, {x[1] : x \in A})
      BY <3>2 DEF Surjection
    <3> QED
      BY <3>1, <3>3, FS_Surjection
  <2>8. /\ Cardinality({x[1] : x \in A}) <= Cardinality(Units(Numbered(v), "applications"))
        /\ Cardinality({x \in A : InInterview(x[1])}) <= Cardinality(Units(Numbered(v), "interviews"))
        /\ Cardinality({x \in A : InOffer(x[1])}) <= Cardinality(Units(Numbered(v), "offers"))
    <3>1. PICK n \in Nat, m \in Nat :
            n = Cardinality(A) /\ m = Cardinality(Units(Numbered(v), "applications"))
      BY ActedIsFinite, UnitsAreFinite DEF A
    <3>2. PICK k \in Nat : k = Cardinality({x[1] : x \in A})
      BY ActedAppsAreFinite DEF A
    <3>3. k <= n /\ n <= m
      BY <2>5, <2>6, <2>7, <3>1, <3>2
    <3>4. k <= m
      BY <3>3
    <3> QED
      BY <2>5, <2>6, <3>1, <3>2, <3>4
  <2>9. getStrategyPerformance[v] = PerformanceRow({v})
    BY DEF getStrategyPerformance
  <2> QED
    BY <2>8, <2>9 DEF NoMore, PerformanceRow, ResumesOf, A
<1>2. /\ getActionPerformance.interviews <= getActionPerformance.applications
      /\ getActionPerformance.offers <= getActionPerformance.interviews
  <2> DEFINE A == Acted(0..MaxUploads)
             D == {x \in A : InInterview(x[1])}
             O == {x \in A : InOffer(x[1])}
             C == {x[1] : x \in A}
             g == [x \in D |-> x[1]]
  <2>1. \A x, y \in D : x[1] = y[1] => x = y
    BY ActedOnce
  <2>2. g \in Injection(D, C)
    <3>1. g \in [D -> C] /\ \A x \in D : g[x] = x[1]
      OBVIOUS
    <3> HIDE DEF g, D, C
    <3> QED
      BY <2>1, <3>1 DEF Injection, IsInjective
  <2>3. IsFiniteSet(C)
    BY ActedAppsAreFinite
  <2>4. IsFiniteSet(D)
    BY ActedIsFinite
  <2>5. O \subseteq D
    BY DEF InOffer, InInterview
  <2> HIDE DEF g, D, C, O, A
  <2>6. Cardinality(D) <= Cardinality(C) /\ Cardinality(O) <= Cardinality(D)
    BY <2>2, <2>3, <2>4, <2>5, FS_Injection, FS_Subset
  <2> QED
    BY <2>6 DEF getActionPerformance, PerformanceRow, A, C, D, O
<1> QED
  BY <1>1, <1>2 DEF ReportsAgree

\* Emails, uploads, deletions, corrections and snapshots in any order: the strategy row of a version
\* shows no more than the rows of its resumes unless a link raced a deletion, a rate over actions is
\* no more than one, the copies of a fact are bounded by the snapshots, and every snapshot that an
\* application names holds the facts of its time.
THEOREM CareerStands == CareerSpec => []RecordsAgree
<1>1. ASSUME CareerInv
      PROVE  RecordsAgree
  <2>1. SnapshotsAreWhole
    BY <1>1 DEF CareerInv, WorkOK, SomeRows, SnapshotsAreWhole
  <2>2. CopiesAreBounded
    <3>1. PICK S : S = Snapshots /\ rows.old + rows.new <= Cardinality(SUBSET S)
      BY <1>1 DEF CareerInv
    <3>2. rows.old \in Nat /\ rows.new \in Nat
      BY <1>1 DEF CareerInv, CareerTypes, RowCount
    <3>3. Cardinality(SUBSET {}) = 1
      <4>1. SUBSET {} = {{}}
        OBVIOUS
      <4> QED
        BY <4>1, FS_Singleton
    <3>4. rows.new > 0 /\ rows.old > 0 => S # {}
      <4>1. ASSUME S = {}
            PROVE  rows.old + rows.new <= 1
        BY <3>1, <3>3, <4>1
      <4> QED
        BY <3>2, <4>1
    <3> QED
      BY <3>1, <3>4 DEF CopiesAreBounded, Snapshots
  <2> QED
    BY <1>1, <2>1, <2>2, ReportsOfInv DEF RecordsAgree
<1> QED
  BY <1>1, CareerStart, CareerStep, PTL DEF CareerSpec

-----------------------------------------------------------------------------
(* The names of companies and their recruiters.                            *)

AllSuffixes == LEGAL_SUFFIXES \cup Dotted
Words == STRING \cup AllSuffixes \cup {"meta", "google"}

\* A word, or none, after which there are only suffixes.
IsLast(words, last) ==
  /\ last \in 0..Len(words)
  /\ last > 0 => words[last] \notin AllSuffixes
  /\ \A i \in 1..Len(words) : i > last => words[i] \in AllSuffixes

\* A name is stripped of what follows its last word.
LEMMA StrippedTo ==
  ASSUME NEW words \in Seq(Words)
  PROVE  \E last \in 0..Len(words) : /\ IsLast(words, last)
                                     /\ stripLegalSuffixes(words) = SubSeq(words, 1, last)
<1>1. PICK n \in Nat : n = Len(words) /\ DOMAIN words = 1..n
  OBVIOUS
<1> DEFINE own == {i \in DOMAIN words : words[i] \notin AllSuffixes}
           S == {0} \cup own
<1>2. own \in SUBSET (1..n)
  BY <1>1
<1>3. IsFiniteSet(own) /\ own \subseteq Nat
  BY <1>1, <1>2, SubsetsOfIntervals
<1>4. IsFiniteSet(S) /\ S \subseteq Nat /\ S # {}
  <2>1. IsFiniteSet(own \cup {0})
    BY <1>3, FS_AddElement
  <2>2. own \cup {0} = S
    OBVIOUS
  <2>3. S # {} /\ S \subseteq Nat
    BY <1>3
  <2> HIDE DEF S
  <2> QED
    BY <2>1, <2>2, <2>3
<1>5. PICK last : last = Max(S)
  OBVIOUS
<1>6. last \in S /\ \A i \in S : last >= i
  BY <1>4, <1>5, FiniteMax
<1>7. last \in 0..n /\ (last > 0 => words[last] \notin AllSuffixes)
  BY <1>1, <1>2, <1>6
<1>8. ASSUME NEW i \in 1..n, i > last PROVE words[i] \in AllSuffixes
  <2>1. last \in Nat /\ i \in Nat
    BY <1>1, <1>7
  <2> QED
    BY <1>1, <1>6, <1>8, <2>1
<1>9. stripLegalSuffixes(words) = SubSeq(words, 1, last)
  BY <1>5 DEF stripLegalSuffixes, AllSuffixes
<1> QED
  BY <1>1, <1>7, <1>8, <1>9 DEF IsLast

\* There is one last word.
LEMMA OneLastWord ==
  ASSUME NEW words \in Seq(Words), NEW a, NEW b, IsLast(words, a), IsLast(words, b)
  PROVE  a = b
<1>1. PICK n \in Nat : n = Len(words)
  OBVIOUS
<1>2. a \in 0..n /\ b \in 0..n
  BY <1>1 DEF IsLast
<1>3. ~(a > b)
  BY <1>1, <1>2 DEF IsLast
<1>4. ~(b > a)
  BY <1>1, <1>2 DEF IsLast
<1> QED
  BY <1>2, <1>3, <1>4

\* So a name is stripped to whatever word is the last.
LEMMA StrippedToLast ==
  ASSUME NEW words \in Seq(Words), NEW last, IsLast(words, last)
  PROVE  stripLegalSuffixes(words) = SubSeq(words, 1, last)
BY StrippedTo, OneLastWord

\* A stripped name has no suffix left to strip.
LEMMA StrippedIsStripped ==
  ASSUME NEW words \in Seq(Words)
  PROVE  /\ stripLegalSuffixes(words) \in Seq(Words)
         /\ stripLegalSuffixes(stripLegalSuffixes(words)) = stripLegalSuffixes(words)
<1>1. PICK last \in 0..Len(words) : /\ IsLast(words, last)
                                    /\ stripLegalSuffixes(words) = SubSeq(words, 1, last)
  BY StrippedTo
<1>2. PICK name : name = SubSeq(words, 1, last)
  OBVIOUS
<1>3. name \in Seq(Words) /\ Len(name) = last /\ \A i \in 1..last : name[i] = words[i]
  BY <1>1, <1>2
<1>4. IsLast(name, last)
  BY <1>1, <1>3 DEF IsLast
<1>5. stripLegalSuffixes(name) = SubSeq(name, 1, last)
  BY <1>3, <1>4, StrippedToLast
<1>6. SubSeq(name, 1, last) = name
  BY <1>3
<1> QED
  BY <1>1, <1>2, <1>3, <1>5, <1>6

\* A legal suffix changes neither what a name is stripped to nor its alias.
LEMMA SuffixTellsNothing ==
  ASSUME NEW words \in Seq(Words), NEW s \in LEGAL_SUFFIXES
  PROVE  /\ Append(words, s) \in Seq(Words)
         /\ stripLegalSuffixes(Append(words, s)) = stripLegalSuffixes(words)
         /\ normalizeAlias(Append(words, s)) = normalizeAlias(words)
<1>1. s \in Words
  BY DEF Words, AllSuffixes
<1>2. PICK n \in Nat : n = Len(words) /\ DOMAIN words = 1..n
  OBVIOUS
<1>3. PICK longer : longer = Append(words, s)
  OBVIOUS
<1>4. /\ longer \in Seq(Words) /\ Len(longer) = n + 1 /\ DOMAIN longer = 1..(n + 1)
      /\ longer[n + 1] = s /\ \A i \in 1..n : longer[i] = words[i]
  BY <1>1, <1>2, <1>3, AppendProperties
<1>5. PICK last \in 0..n : IsLast(words, last) /\ stripLegalSuffixes(words) = SubSeq(words, 1, last)
  BY <1>2, StrippedTo
<1>6. IsLast(longer, last)
  <2>1. last \in 0..(n + 1)
    OBVIOUS
  <2>2. last > 0 => longer[last] \notin AllSuffixes
    BY <1>2, <1>4, <1>5 DEF IsLast
  <2>3. ASSUME NEW i \in 1..(n + 1), i > last PROVE longer[i] \in AllSuffixes
    <3>1. CASE i = n + 1
      BY <1>4, <3>1 DEF AllSuffixes
    <3>2. CASE i # n + 1
      <4>1. i \in 1..n
        BY <3>2
      <4> QED
        BY <1>2, <1>4, <1>5, <2>3, <4>1 DEF IsLast
    <3> QED
      BY <3>1, <3>2
  <2> QED
    BY <1>4, <2>1, <2>2, <2>3 DEF IsLast
<1>7. stripLegalSuffixes(longer) = SubSeq(longer, 1, last)
  BY <1>4, <1>6, StrippedToLast
<1>8. SubSeq(longer, 1, last) = SubSeq(words, 1, last)
  <2>1. SubSeq(longer, 1, last) = [i \in 1..last |-> longer[i]]
    BY <1>4
  <2>2. SubSeq(words, 1, last) = [i \in 1..last |-> words[i]]
    BY <1>2
  <2>3. \A i \in 1..last : longer[i] = words[i]
    BY <1>4
  <2> QED
    BY <2>1, <2>2, <2>3
<1>9. NonLegal(longer) = NonLegal(words)
  <2>1. {j \in DOMAIN longer : longer[j] \notin LEGAL_SUFFIXES}
          = {j \in DOMAIN words : words[j] \notin LEGAL_SUFFIXES}
    BY <1>2, <1>4
  <2>2. \A j \in DOMAIN words : longer[j] = words[j]
    BY <1>2, <1>4
  <2> QED
    BY <2>1, <2>2 DEF NonLegal
<1> QED
  BY <1>3, <1>4, <1>5, <1>7, <1>8, <1>9 DEF normalizeAlias

\* Stripping a name without dotted suffixes leaves its alias.
LEMMA StrippedHasTheAlias ==
  ASSUME NEW words \in Seq(Words), ~HasDots(words)
  PROVE  normalizeAlias(stripLegalSuffixes(words)) = normalizeAlias(words)
<1>1. PICK last \in 0..Len(words) : /\ IsLast(words, last)
                                    /\ stripLegalSuffixes(words) = SubSeq(words, 1, last)
  BY StrippedTo
<1>2. PICK name : name = SubSeq(words, 1, last)
  OBVIOUS
<1>3. PICK n \in Nat : n = Len(words) /\ DOMAIN words = 1..n
  OBVIOUS
<1>4. DOMAIN name = 1..last /\ \A i \in 1..last : name[i] = words[i]
  BY <1>1, <1>2, <1>3
<1>5. \A i \in 1..n : i > last => words[i] \in LEGAL_SUFFIXES
  BY <1>1, <1>3 DEF IsLast, AllSuffixes, HasDots
<1>6. {j \in DOMAIN name : name[j] \notin LEGAL_SUFFIXES}
        = {j \in DOMAIN words : words[j] \notin LEGAL_SUFFIXES}
  <2>1. \A j \in 1..n : words[j] \notin LEGAL_SUFFIXES => j \in 1..last
    BY <1>1, <1>3, <1>5
  <2>2. 1..last \subseteq 1..n
    BY <1>1, <1>3
  <2> QED
    BY <1>3, <1>4, <2>1, <2>2
<1>7. NonLegal(name) = NonLegal(words)
  BY <1>4, <1>6 DEF NonLegal
<1> QED
  BY <1>1, <1>2, <1>7 DEF normalizeAlias

\* The aliases of no words, and of one word that is no suffix.
LEMMA ShortAliases ==
  /\ normalizeAlias(<<>>) = <<>>
  /\ \A w \in Words \ LEGAL_SUFFIXES : normalizeAlias(<<w>>) = <<w>>
<1>1. normalizeAlias(<<>>) = <<>>
  <2>1. PICK f : f = NonLegal(<<>>)
    OBVIOUS
  <2>2. DOMAIN f = {}
    BY <2>1 DEF NonLegal
  <2>3. Cardinality(DOMAIN f) = 0
    BY <2>2, FS_EmptySet
  <2>4. DOMAIN Sequenced(f) = {}
    BY <2>3 DEF Sequenced
  <2>5. DOMAIN Sequenced(f) = 1..0 /\ Sequenced(f) = [k \in DOMAIN Sequenced(f) |-> Sequenced(f)[k]]
    BY <2>3 DEF Sequenced
  <2>6. Sequenced(f) \in Seq({})
    BY <2>4, <2>5
  <2> QED
    BY <2>1, <2>4, <2>6 DEF normalizeAlias
<1>2. ASSUME NEW w \in Words \ LEGAL_SUFFIXES PROVE normalizeAlias(<<w>>) = <<w>>
  <2>1. PICK f : f = NonLegal(<<w>>)
    OBVIOUS
  <2>2. DOMAIN f = {1} /\ f[1] = w
    <3>1. PICK v : v = <<w>>
      OBVIOUS
    <3>2. DOMAIN v = {1} /\ v[1] = w
      BY <3>1
    <3>3. {j \in DOMAIN v : v[j] \notin LEGAL_SUFFIXES} = {1}
      BY <1>2, <3>2
    <3>4. f = [i \in {1} |-> v[i]]
      BY <2>1, <3>1, <3>3 DEF NonLegal
    <3> QED
      BY <3>2, <3>4
  <2>3. Cardinality({1}) = 1
    BY FS_Singleton
  <2>4. PICK g : g = Sequenced(f)
    OBVIOUS
  <2>5. DOMAIN g = 1..1
    BY <2>2, <2>3, <2>4 DEF Sequenced
  <2>6. PICK i : i = CHOOSE x \in DOMAIN f : Cardinality({j \in DOMAIN f : j <= x}) = 1
    OBVIOUS
  <2>7. i = 1
    <3>1. {j \in DOMAIN f : j <= 1} = {1}
      BY <2>2
    <3>2. 1 \in DOMAIN f /\ Cardinality({j \in DOMAIN f : j <= 1}) = 1
      BY <2>2, <2>3, <3>1
    <3>3. i \in DOMAIN f
      BY <2>6, <3>2
    <3> QED
      BY <2>2, <3>3
  <2>8. g[1] = f[i]
    BY <2>2, <2>3, <2>4, <2>6 DEF Sequenced
  <2>9. g = [k \in DOMAIN g |-> g[k]]
    BY <2>4 DEF Sequenced
  <2>10. g = [k \in 1..1 |-> w]
    BY <2>2, <2>5, <2>7, <2>8, <2>9
  <2>11. g = <<w>>
    BY <2>10
  <2> QED
    BY <2>1, <2>4, <2>11 DEF normalizeAlias
<1> QED
  BY <1>1, <1>2

\* The companies that have other names.
LEMMA Overridden ==
  ASSUME NEW words, NEW c \in Overrides(words)
  PROVE  c \in {<<"meta">>, <<"google">>}
BY DEF Overrides, CANONICAL_ALIAS_OVERRIDES

\* Neither of them has another name itself.
LEMMA NotOverridden ==
  Overrides(<<>>) = {} /\ Overrides(<<"meta">>) = {} /\ Overrides(<<"google">>) = {}
BY DEF Overrides, CANONICAL_ALIAS_OVERRIDES

\* The label of a domain is a word of it.
LEMMA LabelIsAWord ==
  ASSUME NEW domain \in Seq(Words)
  PROVE  /\ extractDomainLabel(domain) \in Seq(Words) /\ Len(extractDomainLabel(domain)) <= 1
         /\ domain # <<>> => extractDomainLabel(domain) # <<>>
         /\ domain = <<>> => extractDomainLabel(domain) = <<>>
<1>1. PICK n \in Nat : n = Len(domain)
  OBVIOUS
<1>2. CASE n < 2
  BY <1>1, <1>2 DEF extractDomainLabel
<1>3. CASE ~(n < 2)
  <2>1. n - 1 \in 1..n /\ domain[n - 1] \in Words
    BY <1>1, <1>3
  <2>2. extractDomainLabel(domain) = <<domain[n - 1]>>
    BY <1>1, <1>3 DEF extractDomainLabel
  <2> QED
    BY <1>1, <1>3, <2>1, <2>2
<1> QED
  BY <1>2, <1>3

\* What a name is brought to when nothing overrides it.
OwnName(name, label) ==
  IF stripLegalSuffixes(name) # <<>> THEN stripLegalSuffixes(name)
  ELSE IF label # <<>> THEN label ELSE name

\* A name is overridden, or brought to its own.
LEMMA ResolvedName ==
  ASSUME NEW name, NEW domain, NEW c, c = resolveCanonicalName(name, domain),
         NEW label, label = extractDomainLabel(domain)
  PROVE  \/ c \in {<<"meta">>, <<"google">>}
         \/ /\ Overrides(normalizeAlias(name)) = {}
            /\ Overrides(normalizeAlias(domain)) = {}
            /\ Overrides(normalizeAlias(label)) = {}
            /\ c = OwnName(name, label)
<1> DEFINE tried == <<normalizeAlias(name), normalizeAlias(domain), normalizeAlias(label)>>
           hits == {i \in DOMAIN tried : Overrides(tried[i]) # {}}
<1>1. DOMAIN tried = 1..3 /\ tried[1] = normalizeAlias(name) /\ tried[2] = normalizeAlias(domain)
      /\ tried[3] = normalizeAlias(label)
  OBVIOUS
<1>2. c = IF hits # {} THEN CHOOSE x \in Overrides(tried[Min(hits)]) : TRUE ELSE OwnName(name, label)
  BY DEF resolveCanonicalName, OwnName
<1> HIDE DEF tried
<1>3. CASE hits # {}
  <2>1. hits \in SUBSET Nat
    BY <1>1
  <2>2. PICK i : i = Min(hits)
    OBVIOUS
  <2>3. i \in hits
    BY <1>3, <2>1, <2>2, MinIsLeast
  <2>4. c = CHOOSE x \in Overrides(tried[i]) : TRUE
    BY <1>2, <1>3, <2>2
  <2>5. Overrides(tried[i]) # {}
    BY <2>3
  <2>6. c \in Overrides(tried[i])
    BY <2>4, <2>5
  <2> QED
    BY <2>6, Overridden
<1>4. CASE hits = {}
  <2>1. \A i \in 1..3 : Overrides(tried[i]) = {}
    BY <1>1, <1>4
  <2> QED
    BY <1>1, <1>2, <1>4, <2>1
<1> QED
  BY <1>3, <1>4

\* A name alone that nothing overrides is brought to what it is stripped to.
LEMMA ResolvedAlone ==
  ASSUME NEW name \in Seq(Words), Overrides(normalizeAlias(name)) = {}
  PROVE  resolveCanonicalName(name, <<>>)
           = IF stripLegalSuffixes(name) # <<>> THEN stripLegalSuffixes(name) ELSE name
<1>1. PICK none : none = <<>> /\ extractDomainLabel(none) = none
  BY LabelIsAWord, EmptySeq
<1> DEFINE tried == <<normalizeAlias(name), normalizeAlias(none), normalizeAlias(none)>>
           hits == {i \in DOMAIN tried : Overrides(tried[i]) # {}}
<1>2. DOMAIN tried = 1..3 /\ tried[1] = normalizeAlias(name) /\ tried[2] = <<>> /\ tried[3] = <<>>
  BY <1>1, ShortAliases
<1>3. resolveCanonicalName(name, none)
        = IF hits # {} THEN CHOOSE x \in Overrides(tried[Min(hits)]) : TRUE ELSE OwnName(name, none)
  <2>1. PICK label : label = extractDomainLabel(none)
    OBVIOUS
  <2>2. label = none
    BY <1>1, <2>1
  <2> QED
    BY <2>1, <2>2 DEF resolveCanonicalName, OwnName
<1> HIDE DEF tried
<1>4. Overrides(tried[1]) = {} /\ Overrides(tried[2]) = {} /\ Overrides(tried[3]) = {}
  BY <1>2, NotOverridden
<1>5. hits = {}
  BY <1>2, <1>4
<1> QED
  BY <1>1, <1>3, <1>5 DEF OwnName

\* A word has one last word at most.
LEMMA StrippedWord ==
  ASSUME NEW words \in Seq(Words), Len(words) <= 1
  PROVE  stripLegalSuffixes(words) \in {words, <<>>}
<1>1. PICK last \in 0..Len(words) : stripLegalSuffixes(words) = SubSeq(words, 1, last)
  BY StrippedTo
<1>2. PICK n \in Nat : n = Len(words)
  OBVIOUS
<1>3. last = 0 \/ last = n
  BY <1>1, <1>2
<1>4. CASE last = 0
  BY <1>1, <1>4
<1>5. CASE last = n
  BY <1>1, <1>2, <1>5
<1> QED
  BY <1>3, <1>4, <1>5

\* The name of a company is brought to itself again, or dots hid a suffix of it.
LEMMA CanonicalAgain ==
  ASSUME NEW name \in Seq(Words), NEW domain \in Seq(Words) \ {<<>>},
         NEW c, c = resolveCanonicalName(name, domain)
  PROVE  \/ resolveCanonicalName(c, <<>>) = c
         \/ HasDots(name) /\ c = stripLegalSuffixes(name)
<1>1. PICK label \in Seq(Words) :
        label = extractDomainLabel(domain) /\ Len(label) <= 1 /\ label # <<>>
  BY LabelIsAWord
<1>2. CASE c \in {<<"meta">>, <<"google">>}
  <2>1. PICK w \in {"meta", "google"} : c = <<w>>
    BY <1>2
  <2>2. w \in Words \ LEGAL_SUFFIXES /\ w \notin AllSuffixes /\ Overrides(<<w>>) = {}
    BY <2>1, NotOverridden DEF LEGAL_SUFFIXES, Dotted, AllSuffixes, Words
  <2>3. normalizeAlias(c) = <<w>>
    BY <2>1, <2>2, ShortAliases
  <2>4. c \in Seq(Words) /\ Len(c) = 1 /\ c[1] = w
    BY <2>1, <2>2
  <2>5. IsLast(c, 1)
    BY <2>2, <2>4 DEF IsLast
  <2>6. stripLegalSuffixes(c) = SubSeq(c, 1, 1)
    BY <2>4, <2>5, StrippedToLast
  <2>7. SubSeq(c, 1, 1) = c
    <3>1. SubSeq(c, 1, Len(c)) = c
      BY <2>4, SubSeqFull
    <3> QED
      BY <2>4, <3>1
  <2>8. c # <<>>
    BY <2>1
  <2> QED
    BY <2>2, <2>3, <2>4, <2>6, <2>7, <2>8, ResolvedAlone
<1>3. CASE /\ Overrides(normalizeAlias(name)) = {}
           /\ Overrides(normalizeAlias(label)) = {}
           /\ c = OwnName(name, label)
  <2>1. CASE stripLegalSuffixes(name) # <<>>
    <3>1. c = stripLegalSuffixes(name) /\ c \in Seq(Words) /\ stripLegalSuffixes(c) = c /\ c # <<>>
      BY <1>3, <2>1, StrippedIsStripped DEF OwnName
    <3>2. CASE ~HasDots(name)
      <4>1. normalizeAlias(c) = normalizeAlias(name)
        BY <3>1, <3>2, StrippedHasTheAlias
      <4> QED
        BY <1>3, <3>1, <4>1, ResolvedAlone
    <3> QED
      BY <3>1, <3>2
  <2>2. CASE stripLegalSuffixes(name) = <<>>
    <3>1. c = label
      BY <1>1, <1>3, <2>2 DEF OwnName
    <3>2. stripLegalSuffixes(label) \in {label, <<>>}
      BY <1>1, StrippedWord
    <3> QED
      BY <1>1, <1>3, <3>1, <3>2, ResolvedAlone
  <2> QED
    BY <2>1, <2>2
<1> QED
  BY <1>1, <1>2, <1>3, ResolvedName

\* Legal suffixes do not tell companies apart.
LEMMA SuffixesTellNothing ==
  ASSUME NEW name \in Seq(Words), NEW domain \in Seq(Words) \ {<<>>}, NEW s \in LEGAL_SUFFIXES
  PROVE  resolveCanonicalName(Append(name, s), domain) = resolveCanonicalName(name, domain)
<1>1. PICK longer \in Seq(Words) :
        /\ longer = Append(name, s)
        /\ stripLegalSuffixes(longer) = stripLegalSuffixes(name)
        /\ normalizeAlias(longer) = normalizeAlias(name)
  BY SuffixTellsNothing
<1>2. extractDomainLabel(domain) # <<>>
  BY LabelIsAWord
<1>3. OwnName(longer, extractDomainLabel(domain)) = OwnName(name, extractDomainLabel(domain))
  BY <1>1, <1>2 DEF OwnName
<1> DEFINE tried == <<normalizeAlias(name), normalizeAlias(domain),
                      normalizeAlias(extractDomainLabel(domain))>>
           hits == {i \in DOMAIN tried : Overrides(tried[i]) # {}}
           Override == CHOOSE x \in Overrides(tried[Min(hits)]) : TRUE
<1>4. resolveCanonicalName(name, domain)
        = IF hits # {} THEN Override ELSE OwnName(name, extractDomainLabel(domain))
  BY DEF resolveCanonicalName, OwnName
<1>5. resolveCanonicalName(longer, domain)
        = IF hits # {} THEN Override ELSE OwnName(longer, extractDomainLabel(domain))
  BY <1>1 DEF resolveCanonicalName, OwnName
<1> HIDE DEF Override, hits
<1> QED
  BY <1>1, <1>3, <1>4, <1>5

-----------------------------------------------------------------------------
(* The response time of a recruiter.                                       *)

Timed(emails) == IsFiniteSet(emails) /\ emails # {} /\ \A m \in emails : Mentioned[m].time \in Nat

\* Emails have a first and a last time.
LEMMA TimesHaveEnds ==
  ASSUME NEW emails, Timed(emails)
  PROVE  /\ Times(emails) \in SUBSET Nat
         /\ Max(Times(emails)) \in Times(emails) /\ Min(Times(emails)) \in Times(emails)
         /\ \A t \in Times(emails) : Min(Times(emails)) <= t /\ t <= Max(Times(emails))
<1>1. PICK T : T = Times(emails)
  OBVIOUS
<1>2. T \subseteq Nat /\ T # {}
  BY <1>1 DEF Times, Timed
<1>3. IsFiniteSet(T)
  <2> DEFINE f == [m \in emails |-> Mentioned[m].time]
  <2>1. f \in Surjection(emails, T)
    BY <1>1 DEF Surjection, Times
  <2> HIDE DEF f
  <2> QED
    BY <2>1, FS_Surjection DEF Timed
<1>4. Max(T) \in T /\ \A t \in T : Max(T) >= t
  BY <1>2, <1>3, FiniteMax
<1>5. Min(T) \in T /\ \A t \in T : Min(T) <= t
  BY <1>2, MinIsLeast
<1>6. \A t \in T : t \in Nat
  BY <1>2
<1> QED
  BY <1>1, <1>2, <1>4, <1>5, <1>6

\* The times by which some number of emails have come.
By(emails, k) ==
  {t \in Times(emails) : k <= Cardinality({m \in emails : Mentioned[m].time <= t})}

\* The time at a place is the time of an email, and no earlier than those before.
LEMMA PlacesAreTimes ==
  ASSUME NEW emails, Timed(emails), NEW k \in 1..Cardinality(emails)
  PROVE  /\ Sorted(emails, k) \in Times(emails) /\ Sorted(emails, k) \in By(emails, k)
         /\ \A t \in By(emails, k) : Sorted(emails, k) <= t
<1>1. PICK last : last = Max(Times(emails))
  OBVIOUS
<1>2. last \in Times(emails) /\ \A m \in emails : Mentioned[m].time <= last
  BY <1>1, TimesHaveEnds DEF Times
<1>3. {m \in emails : Mentioned[m].time <= last} = emails
  BY <1>2
<1>4. Cardinality(emails) \in Nat
  BY FS_CardinalityType DEF Timed
<1>5. last \in By(emails, k)
  <2>1. k <= Cardinality({m \in emails : Mentioned[m].time <= last})
    BY <1>3, <1>4
  <2> QED
    BY <1>2, <2>1 DEF By
<1>6. By(emails, k) \in SUBSET Nat /\ By(emails, k) # {}
  BY <1>5, TimesHaveEnds DEF By
<1>7. Min(By(emails, k)) \in By(emails, k) /\ \A t \in By(emails, k) : Min(By(emails, k)) <= t
  BY <1>6, MinIsLeast
<1>8. Sorted(emails, k) = Min(By(emails, k))
  BY DEF Sorted, By
<1>9. Sorted(emails, k) \in Times(emails)
  BY <1>7, <1>8 DEF By
<1> QED
  BY <1>7, <1>8, <1>9

\* A gap between two emails is not longer than all that they are among.
LEMMA GapsAreWithin ==
  ASSUME NEW all, Timed(all), NEW emails \in SUBSET all, emails # {},
         NEW k \in 1..Cardinality(emails), k < Cardinality(emails)
  PROVE  Delta(emails, k) \in 0..(Max(Times(all)) - Min(Times(all)))
<1>1. Timed(emails)
  BY FS_Subset DEF Timed
<1>2. PICK n \in Nat : n = Cardinality(emails)
  BY <1>1, FS_CardinalityType DEF Timed
<1>3. k \in 1..n /\ k + 1 \in 1..n
  BY <1>2
<1>4. PICK a : a = Sorted(emails, k)
  OBVIOUS
<1>5. PICK b : b = Sorted(emails, k + 1)
  OBVIOUS
<1>6. a \in Times(emails) /\ b \in Times(emails) /\ b \in By(emails, k + 1)
      /\ \A t \in By(emails, k) : a <= t
  BY <1>1, <1>2, <1>3, <1>4, <1>5, PlacesAreTimes
<1>7. b \in By(emails, k)
  <2>1. {m \in emails : Mentioned[m].time <= b} \in SUBSET emails
    OBVIOUS
  <2>2. Cardinality({m \in emails : Mentioned[m].time <= b}) \in Nat
    BY <1>1, <2>1, FS_Subset, FS_CardinalityType DEF Timed
  <2>3. k + 1 <= Cardinality({m \in emails : Mentioned[m].time <= b})
    BY <1>6 DEF By
  <2>4. k <= Cardinality({m \in emails : Mentioned[m].time <= b})
    BY <1>3, <2>2, <2>3
  <2> QED
    BY <1>6, <2>4 DEF By
<1>8. a <= b
  BY <1>6, <1>7
<1>9. a \in Times(all) /\ b \in Times(all)
  BY <1>6 DEF Times
<1>10. PICK first, last : first = Min(Times(all)) /\ last = Max(Times(all))
  OBVIOUS
<1>11. /\ first \in Nat /\ last \in Nat /\ a \in Nat /\ b \in Nat
       /\ first <= a /\ b <= last
  BY <1>9, <1>10, TimesHaveEnds
<1>12. b - a \in 0..(last - first)
  BY <1>8, <1>11
<1> QED
  BY <1>4, <1>5, <1>10, <1>12 DEF Delta

\* So neither is their average.
LEMMA AverageIsWithin ==
  ASSUME NEW emails, Timed(emails)
  PROVE  calculateAverageResponseTimeMinutes(emails)
           \in 0..(Max(Times(emails)) - Min(Times(emails)))
<1>1. PICK first \in Nat, last \in Nat :
        first = Min(Times(emails)) /\ last = Max(Times(emails)) /\ first <= last
  BY TimesHaveEnds
<1>2. PICK span \in Nat : span = last - first
  BY <1>1
<1>3. PICK n \in Nat : n = Cardinality(emails) /\ IsFiniteSet(emails)
  BY FS_CardinalityType DEF Timed
<1> DEFINE buckets == {Bucket(m) : m \in emails}
<1>4. IsFiniteSet(Gaps(emails))
  <2> DEFINE f == [m \in emails |-> Bucket(m)]
  <2>1. f \in Surjection(emails, buckets)
    BY DEF Surjection
  <2> HIDE DEF f
  <2>2. IsFiniteSet(buckets)
    BY <1>3, <2>1, FS_Surjection
  <2>3. IsFiniteSet(1..n)
    BY FS_Interval
  <2>4. IsFiniteSet(buckets \X (1..n))
    BY <2>2, <2>3, FS_Product
  <2>5. Gaps(emails) \subseteq buckets \X (1..n)
    BY <1>3 DEF Gaps
  <2> QED
    BY <2>4, <2>5, FS_Subset
<1>5. PICK c \in Nat : c = Cardinality(Gaps(emails))
  BY <1>4, FS_CardinalityType
<1>6. CASE Gaps(emails) = {}
  BY <1>1, <1>6 DEF calculateAverageResponseTimeMinutes
<1>7. CASE Gaps(emails) # {}
  <2>1. c > 0
    BY <1>4, <1>5, <1>7, FS_EmptySet
  <2>2. Minutes(emails) \subseteq Gaps(emails) \X (1..span)
    <3>1. ASSUME NEW x \in Minutes(emails) PROVE x \in Gaps(emails) \X (1..span)
      <4>1. PICK g \in Gaps(emails), t \in 1..last : x = <<g, t>>
        BY <1>1, <3>1 DEF Minutes
      <4>2. t <= Delta(InBucket(emails, g[1]), g[2])
        BY <3>1, <4>1 DEF Minutes
      <4>3. PICK part : part = InBucket(emails, g[1])
        OBVIOUS
      <4>4. g[1] \in buckets /\ g[2] \in 1..n /\ g[2] < Cardinality(part)
        BY <1>3, <4>1, <4>3 DEF Gaps
      <4>5. part \in SUBSET emails /\ part # {}
        BY <4>3, <4>4 DEF InBucket
      <4>6. Cardinality(part) \in Nat
        BY <1>3, <4>5, FS_Subset, FS_CardinalityType
      <4>7. g[2] \in 1..Cardinality(part)
        BY <4>4, <4>6
      <4>8. Delta(part, g[2]) \in 0..(Max(Times(emails)) - Min(Times(emails)))
        BY <4>4, <4>5, <4>7, GapsAreWithin
      <4>9. Delta(part, g[2]) \in 0..span
        BY <1>1, <1>2, <4>8
      <4>10. t \in 1..span
        BY <4>1, <4>2, <4>3, <4>9
      <4> QED
        BY <4>1, <4>10
    <3> QED
      BY <3>1
  <2>3. IsFiniteSet(1..span) /\ Cardinality(1..span) = span
    BY FS_Interval
  <2>4. /\ IsFiniteSet(Gaps(emails) \X (1..span))
        /\ Cardinality(Gaps(emails) \X (1..span)) = c * span
    BY <1>4, <1>5, <2>3, FS_Product
  <2>5. IsFiniteSet(Minutes(emails)) /\ Cardinality(Minutes(emails)) <= c * span
    BY <2>2, <2>4, FS_Subset
  <2>6. PICK total \in Nat : total = Cardinality(Minutes(emails)) /\ total <= c * span
    BY <2>5, FS_CardinalityType
  <2>7. calculateAverageResponseTimeMinutes(emails) = total \div c
    BY <1>5, <1>7, <2>6 DEF calculateAverageResponseTimeMinutes
  <2>8. PICK q \in Nat : q = total \div c
    BY <1>5, <2>1, <2>6
  <2>9. c * q <= total
    BY <1>5, <2>1, <2>6, <2>8
  <2>10. q <= span
    <3>1. ASSUME q >= span + 1 PROVE FALSE
      <4>1. PICK d \in Nat : q = span + 1 + d
        <5>1. q - (span + 1) \in Nat /\ q = span + 1 + (q - (span + 1))
          BY <1>2, <2>8, <3>1
        <5> QED
          BY <5>1
      <4>2. c * q = c * span + c + c * d
        BY <1>2, <1>5, <4>1
      <4>3. c * d \in Nat /\ c * span \in Nat
        BY <1>2, <1>5, <4>1
      <4> QED
        BY <1>5, <2>1, <2>6, <2>9, <4>2, <4>3
    <3> QED
      BY <1>2, <2>8, <3>1
  <2>11. q \in 0..span
    BY <1>2, <2>8, <2>10
  <2> QED
    BY <1>1, <1>2, <2>7, <2>8, <2>11
<1> QED
  BY <1>6, <1>7

-----------------------------------------------------------------------------
(* The companies that emails find.                                         *)

\* The name of a company is one that an email brought; and an email whose aliases have not moved
\* finds its company again.
DirectoryInv ==
  /\ DOMAIN named = MailDomains
  /\ \A d \in MailDomains : named[d] # <<>> =>
       \E m \in Mentions : /\ calls[m] # Nowhere
                           /\ named[d] = resolveCanonicalName(Mentioned[m].name, Mentioned[m].domain)
  /\ calls \in [Mentions -> MailDomains \cup {Nowhere}]
  /\ DOMAIN linked \subseteq Mentions
  /\ \A m \in DOMAIN linked : calls[m] # Nowhere /\ linked[m].company \in MailDomains
  /\ \A m \in Mentions \ (crossed \cup DOMAIN linked) :
       calls[m] # Nowhere => Finds(m) = {calls[m]}
  /\ RecruiterIsOfCompany

\* The domains of emails are not empty.
LEMMA MailIsFromSomewhere ==
  /\ Nowhere \notin MailDomains
  /\ \A m \in Mentions : /\ Mentioned[m].domain \in MailDomains
                         /\ Mentioned[m].name \in Seq(Words)
                         /\ Mentioned[m].domain \in Seq(Words) \ {<<>>}
<1>1. Seq(STRING) \subseteq Seq(Words)
  <2>1. STRING \subseteq Words
    BY DEF Words
  <2> QED
    BY <2>1, SeqMonotonic
<1> QED
  BY <1>1, DirectoryAssumption DEF MailDomains, Nowhere

\* Where the aliases of an email lead after a call for another, or for the same.
LEMMA AliasesLead ==
  ASSUME NEW m \in Mentions, NEW company \in MailDomains, resolveCompany(m, company),
         NEW a
  PROVE  Led(a)' = IF a \in buildAliasValues(m) THEN company ELSE Led(a)
<1>1. PICK A : A = buildAliasValues(m)
  OBVIOUS
<1>2. leads' = [b \in DOMAIN leads \cup A |-> IF b \in A THEN company ELSE leads[b]]
  BY <1>1 DEF resolveCompany, upsertAliases
<1> QED
  BY <1>1, <1>2 DEF Led

\* What an email finds depends on where its aliases lead.
LEMMA FoundByAliases ==
  ASSUME NEW m \in Mentions, \A a \in buildAliasValues(m) : Led(a)' = Led(a)
  PROVE  Finds(m)' = Finds(m)
<1>1. PICK A : A = buildAliasValues(m)
  OBVIOUS
<1>2. {Led(a)' : a \in A} = {Led(a) : a \in A}
  BY <1>1
<1>3. Finds(m) = (LET matches == {Led(a) : a \in A} \ {Nowhere}
                  IN  IF matches # {} THEN matches ELSE {Mentioned[m].domain})
  BY <1>1 DEF Finds
<1>4. Finds(m)' = (LET matches == {Led(a)' : a \in A} \ {Nowhere}
                   IN  IF matches # {} THEN matches ELSE {Mentioned[m].domain})
  BY <1>1 DEF Finds
<1> QED
  BY <1>2, <1>3, <1>4

\* A call for an email leaves it one company to find, and the others what they found, unless it
\* moves an alias of theirs.
LEMMA CallsFind ==
  ASSUME DirectoryInv, NEW m \in Mentions, NEW company \in MailDomains, resolveCompany(m, company)
  PROVE  /\ Finds(m)' = {company}
         /\ crossed \subseteq crossed'
         /\ \A o \in Mentions \ {m} :
              calls[o] # Nowhere /\ o \notin DOMAIN linked /\ o \notin crossed' => Finds(o)' = Finds(o)
<1>1. company # Nowhere
  BY MailIsFromSomewhere
<1>2. Finds(m)' = {company}
  <2>1. PICK A : A = buildAliasValues(m)
    OBVIOUS
  <2>2. Finds(m)' = (LET matches == {Led(a)' : a \in A} \ {Nowhere}
                     IN  IF matches # {} THEN matches ELSE {Mentioned[m].domain})
    BY <2>1 DEF Finds
  <2>3. \A a \in A : Led(a)' = company
    BY <2>1, AliasesLead
  <2>4. CASE A = {}
    <3>1. Finds(m) = {Mentioned[m].domain}
      BY <2>1, <2>4 DEF Finds
    <3>2. company = Mentioned[m].domain
      BY <3>1 DEF resolveCompany
    <3> QED
      BY <2>2, <2>4, <3>2
  <2>5. CASE A # {}
    <3>1. {Led(a)' : a \in A} = {company}
      BY <2>3, <2>5
    <3>2. {Led(a)' : a \in A} \ {Nowhere} = {company}
      BY <1>1, <3>1
    <3> QED
      BY <2>2, <3>2
  <2> QED
    BY <2>4, <2>5
<1>3. crossed \subseteq crossed'
  BY DEF resolveCompany
<1>4. ASSUME NEW o \in Mentions \ {m}, calls[o] # Nowhere, o \notin DOMAIN linked, o \notin crossed'
      PROVE  Finds(o)' = Finds(o)
  <2>1. ~Moves(m, o, company)
    BY <1>4 DEF resolveCompany
  <2>2. \A a \in buildAliasValues(m) \cap buildAliasValues(o) : Led(a) = company
    BY <2>1 DEF Moves
  <2>3. \A a \in buildAliasValues(o) : Led(a)' = Led(a)
    BY <2>2, AliasesLead
  <2> QED
    BY <2>3, FoundByAliases
<1> QED
  BY <1>2, <1>3, <1>4

\* The names that a call leaves.
LEMMA CallsName ==
  ASSUME DirectoryInv, NEW m \in Mentions, NEW company \in MailDomains, resolveCompany(m, company),
         calls'[m] # Nowhere, \A o \in Mentions : calls[o] # Nowhere => calls'[o] # Nowhere
  PROVE  /\ DOMAIN named' = MailDomains
         /\ \A d \in MailDomains : named'[d] # <<>> =>
              \E o \in Mentions : /\ calls'[o] # Nowhere
                                  /\ named'[d] = resolveCanonicalName(Mentioned[o].name, Mentioned[o].domain)
<1>1. PICK name : name = resolveCanonicalName(Mentioned[m].name, Mentioned[m].domain)
  OBVIOUS
<1>2. named' = [named EXCEPT ![company] = name] /\ DOMAIN named = MailDomains
  BY <1>1 DEF resolveCompany, DirectoryInv
<1>3. ASSUME NEW d \in MailDomains, named'[d] # <<>>
      PROVE  \E o \in Mentions : /\ calls'[o] # Nowhere
                                 /\ named'[d] = resolveCanonicalName(Mentioned[o].name, Mentioned[o].domain)
  <2>1. CASE d = company
    BY <1>1, <1>2, <2>1
  <2>2. CASE d # company
    <3>1. named'[d] = named[d]
      BY <1>2, <2>2
    <3>2. PICK o \in Mentions : /\ calls[o] # Nowhere
                                /\ named[d] = resolveCanonicalName(Mentioned[o].name, Mentioned[o].domain)
      BY <1>3, <3>1 DEF DirectoryInv
    <3> QED
      BY <3>1, <3>2
  <2> QED
    BY <2>1, <2>2
<1> QED
  BY <1>2, <1>3

\* Each operation keeps it.
LEMMA DirectoryInvStep ==
  ASSUME DirectoryInv, [DirectoryNext]_directoryVars
  PROVE  DirectoryInv'
<1>1. CASE UNCHANGED directoryVars
  <2>1. named' = named /\ leads' = leads /\ calls' = calls /\ linked' = linked /\ crossed' = crossed
    BY <1>1 DEF directoryVars
  <2>2. \A m \in Mentions : Finds(m)' = Finds(m)
    <3>1. \A a : Led(a)' = Led(a)
      BY <2>1 DEF Led
    <3> QED
      BY <3>1, FoundByAliases
  <2> QED
    BY <2>1, <2>2 DEF DirectoryInv, RecruiterIsOfCompany, Committed
<1>2. ASSUME NEW m \in Mentions, CreateApplication(m) PROVE DirectoryInv'
  <2>1. PICK company \in MailDomains :
          resolveCompany(m, company) /\ calls' = [calls EXCEPT ![m] = company]
    BY <1>2 DEF CreateApplication
  <2>2. calls[m] = Nowhere /\ linked' = linked /\ company # Nowhere
    BY <1>2, MailIsFromSomewhere DEF CreateApplication
  <2>3. /\ calls \in [Mentions -> MailDomains \cup {Nowhere}]
        /\ calls' \in [Mentions -> MailDomains \cup {Nowhere}]
        /\ calls'[m] = company /\ \A o \in Mentions \ {m} : calls'[o] = calls[o]
    BY <2>1 DEF DirectoryInv
  <2>4. m \notin DOMAIN linked
    BY <2>2 DEF DirectoryInv
  <2>5. \A o \in DOMAIN linked : calls'[o] = calls[o]
    BY <2>3, <2>4 DEF DirectoryInv
  <2>6. ASSUME NEW o \in Mentions \ (crossed' \cup DOMAIN linked'), calls'[o] # Nowhere
        PROVE  Finds(o)' = {calls'[o]}
    <3>1. CASE o = m
      BY <2>1, <2>3, <3>1, CallsFind
    <3>2. CASE o # m
      <4>1. calls[o] # Nowhere /\ calls'[o] = calls[o] /\ o \notin DOMAIN linked /\ o \notin crossed
        BY <2>1, <2>2, <2>3, <2>6, <3>2, CallsFind
      <4>2. Finds(o)' = Finds(o)
        BY <2>1, <2>6, <3>2, <4>1, CallsFind
      <4> QED
        BY <4>1, <4>2 DEF DirectoryInv
    <3> QED
      BY <3>1, <3>2
  <2>7. ASSUME NEW o \in DOMAIN linked', linked'[o].company # calls'[o] PROVE o \in crossed'
    <3>1. o \in crossed
      BY <2>2, <2>5, <2>7 DEF DirectoryInv, RecruiterIsOfCompany, Committed
    <3> QED
      BY <2>1, <3>1, CallsFind
  <2>8. calls'[m] # Nowhere /\ \A o \in Mentions : calls[o] # Nowhere => calls'[o] # Nowhere
    BY <2>2, <2>3
  <2>9. \A o \in DOMAIN linked' : calls'[o] # Nowhere /\ linked'[o].company \in MailDomains
    BY <2>2, <2>5 DEF DirectoryInv
  <2>10. DOMAIN linked' \subseteq Mentions
    BY <2>2 DEF DirectoryInv
  <2> QED
    BY <2>1, <2>3, <2>6, <2>7, <2>8, <2>9, <2>10, CallsName
       DEF DirectoryInv, RecruiterIsOfCompany, Committed, MailDomains, Nowhere
<1>3. ASSUME NEW m \in Mentions, syncRecruiterFromEmail(m) PROVE DirectoryInv'
  <2>1. PICK company \in MailDomains :
          /\ resolveCompany(m, company)
          /\ linked' = [o \in DOMAIN linked \cup {m} |->
               IF o = m THEN [company |-> company, email |-> Mentioned[m].sender] ELSE linked[o]]
    BY <1>3 DEF syncRecruiterFromEmail
  <2>2. calls[m] # Nowhere /\ m \notin DOMAIN linked /\ calls' = calls /\ company # Nowhere
    BY <1>3, MailIsFromSomewhere DEF syncRecruiterFromEmail
  <2>3. /\ DOMAIN linked' = DOMAIN linked \cup {m} /\ linked'[m].company = company
        /\ \A o \in DOMAIN linked : linked'[o] = linked[o]
    BY <2>1, <2>2
  <2>4. ASSUME NEW o \in Mentions \ (crossed' \cup DOMAIN linked'), calls'[o] # Nowhere
        PROVE  Finds(o)' = {calls'[o]}
    <3>1. o # m /\ calls[o] # Nowhere /\ o \notin DOMAIN linked /\ o \notin crossed
      BY <2>1, <2>2, <2>3, <2>4, CallsFind
    <3>2. Finds(o)' = Finds(o)
      BY <2>1, <2>4, <3>1, CallsFind
    <3> QED
      BY <2>2, <3>1, <3>2 DEF DirectoryInv
  <2>5. ASSUME NEW o \in DOMAIN linked', linked'[o].company # calls'[o] PROVE o \in crossed'
    <3>1. o \in crossed
      <4>1. CASE o = m
        <5>1. company \in Finds(m)
          BY <2>1 DEF resolveCompany
        <5>2. m \notin crossed => company = calls[m]
          BY <2>2, <5>1 DEF DirectoryInv
        <5> QED
          BY <2>2, <2>3, <2>5, <4>1, <5>2
      <4>2. CASE o # m
        BY <2>2, <2>3, <2>5, <4>2 DEF DirectoryInv, RecruiterIsOfCompany, Committed
      <4> QED
        BY <4>1, <4>2
    <3> QED
      BY <2>1, <3>1, CallsFind
  <2>6. \A o \in DOMAIN linked' : calls'[o] # Nowhere /\ linked'[o].company \in MailDomains
    BY <2>2, <2>3 DEF DirectoryInv
  <2>7. DOMAIN linked' \subseteq Mentions
    BY <2>3 DEF DirectoryInv
  <2>8. calls'[m] # Nowhere /\ \A o \in Mentions : calls[o] # Nowhere => calls'[o] # Nowhere
    BY <2>2
  <2>9. calls' \in [Mentions -> MailDomains \cup {Nowhere}]
    BY <2>2 DEF DirectoryInv
  <2> QED
    BY <2>1, <2>4, <2>5, <2>6, <2>7, <2>8, <2>9, CallsName
       DEF DirectoryInv, RecruiterIsOfCompany, Committed, MailDomains, Nowhere
<1> QED
  BY <1>1, <1>2, <1>3 DEF DirectoryNext

\* The lists agree as long as no alias was moved.
LEMMA ListsFollow ==
  ASSUME DirectoryInv
  PROVE  ListsAgree
<1> SUFFICES ASSUME crossed = {}
             PROVE  /\ \A company \in listCompanies : mapListItem(company).recruiterCount > 0
                    /\ {r.company : r \in listRecruiters} = listCompanies
  BY DEF ListsAgree
<1>1. \A m \in DOMAIN linked : m \in Mentions /\ linked[m].company = calls[m] /\ calls[m] \in MailDomains
  BY DEF DirectoryInv, RecruiterIsOfCompany, Committed
<1>2. ASSUME NEW company \in listCompanies PROVE mapListItem(company).recruiterCount > 0
  <2>1. PICK m \in DOMAIN linked : calls[m] = company
    BY <1>2 DEF listCompanies, ApplicationsOf, Committed
  <2> DEFINE own == {o \in Committed : linked[o].company = company}
             f == [o \in own |-> linked[o]]
  <2>2. IsFiniteSet(own)
    BY FS_Subset, DirectoryAssumption DEF DirectoryInv, Committed
  <2>3. f \in Surjection(own, RecruitersOf(company))
    BY DEF Surjection, RecruitersOf
  <2>4. linked[m] \in RecruitersOf(company)
    BY <1>1, <2>1 DEF RecruitersOf, Committed
  <2> HIDE DEF own, f
  <2>5. IsFiniteSet(RecruitersOf(company))
    BY <2>2, <2>3, FS_Surjection
  <2>6. Cardinality(RecruitersOf(company)) \in Nat /\ Cardinality(RecruitersOf(company)) # 0
    BY <2>4, <2>5, FS_CardinalityType, FS_EmptySet
  <2> QED
    BY <2>6 DEF mapListItem
<1>3. {r.company : r \in listRecruiters} = listCompanies
  <2>1. ASSUME NEW r \in listRecruiters PROVE r.company \in listCompanies
    BY <1>1, <2>1 DEF listRecruiters, listCompanies, ApplicationsOf, Committed
  <2>2. ASSUME NEW company \in listCompanies PROVE \E r \in listRecruiters : r.company = company
    <3>1. PICK m \in DOMAIN linked : calls[m] = company
      BY <2>2 DEF listCompanies, ApplicationsOf, Committed
    <3>2. linked[m] \in listRecruiters /\ linked[m].company = company
      BY <1>1, <3>1 DEF listRecruiters, Committed
    <3> QED
      BY <3>2
  <2> QED
    BY <2>1, <2>2
<1> QED
  BY <1>2, <1>3

\* What holds of every state of the directory follows.
LEMMA DirectoryInvImplies ==
  ASSUME DirectoryInv
  PROVE  DirectoryHolds
<1>1. ASSUME NEW d \in MailDomains, named[d] # <<>>
      PROVE  resolveCanonicalName(named[d], <<>>) = named[d] \/ IsHidden(named[d])
  <2>1. PICK m \in Mentions : /\ calls[m] # Nowhere
                              /\ named[d] = resolveCanonicalName(Mentioned[m].name, Mentioned[m].domain)
    BY <1>1 DEF DirectoryInv
  <2>2. \/ resolveCanonicalName(named[d], <<>>) = named[d]
        \/ HasDots(Mentioned[m].name) /\ named[d] = stripLegalSuffixes(Mentioned[m].name)
    BY <2>1, MailIsFromSomewhere, CanonicalAgain
  <2> QED
    BY <2>1, <2>2 DEF IsHidden
<1>2. ASSUME NEW m \in DOMAIN linked, NEW s \in LEGAL_SUFFIXES
      PROVE  resolveCanonicalName(Append(Mentioned[m].name, s), Mentioned[m].domain)
               = resolveCanonicalName(Mentioned[m].name, Mentioned[m].domain)
  <2>1. m \in Mentions
    BY DEF DirectoryInv
  <2> QED
    BY <2>1, MailIsFromSomewhere, SuffixesTellNothing
<1>3. NamesAreCanonical
  BY <1>1, <1>2 DEF NamesAreCanonical
<1>4. ASSUME NEW r \in listRecruiters
      PROVE  calculateAverageResponseTimeMinutes(EmailsOf(r))
               \in 0..(Max(Times(EmailsOf(r))) - Min(Times(EmailsOf(r))))
  <2>1. EmailsOf(r) \subseteq Mentions /\ EmailsOf(r) # {}
    BY <1>4 DEF listRecruiters, EmailsOf, Committed, DirectoryInv
  <2>2. Timed(EmailsOf(r))
    BY <2>1, DirectoryAssumption, FS_Subset DEF Timed
  <2> QED
    BY <2>2, AverageIsWithin
<1>5. ResponseIsWithinThreads
  BY <1>4 DEF ResponseIsWithinThreads
<1> QED
  BY <1>3, <1>5, ListsFollow DEF DirectoryHolds, DirectoryInv

\* Names are brought to one form, an application is at the company of its recruiter and the lists
\* agree unless an alias was moved, and no response time exceeds the time between the first and the
\* last email.
THEOREM CompaniesStand == DirectorySpec => []DirectoryHolds
<1>1. DirectoryInit => DirectoryInv
  <2> SUFFICES ASSUME DirectoryInit PROVE DirectoryInv
    OBVIOUS
  <2>1. DOMAIN named = MailDomains /\ \A d \in MailDomains : named[d] = <<>>
    BY DEF DirectoryInit
  <2>2. calls = [m \in Mentions |-> Nowhere] /\ DOMAIN linked = {}
    BY DEF DirectoryInit
  <2>3. calls \in [Mentions -> MailDomains \cup {Nowhere}] /\ \A m \in Mentions : calls[m] = Nowhere
    BY <2>2
  <2> QED
    BY <2>1, <2>2, <2>3 DEF DirectoryInv, RecruiterIsOfCompany, Committed
<1> QED
  BY <1>1, DirectoryInvStep, DirectoryInvImplies, PTL DEF DirectorySpec
=============================================================================
