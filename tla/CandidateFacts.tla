--------------------------- MODULE CandidateFacts ---------------------------
(***************************************************************************)
(* The facts the system holds about one user: the rows a resume parse      *)
(* records, the corrections and reviews of the user, the copies a legacy   *)
(* snapshot makes, and the canonical row each deduplication key is         *)
(* promoted to.                                                            *)
(*                                                                         *)
(* Sources: fact.service.ts, fact-correction.service.ts,                   *)
(* snapshot.service.ts, canonical-intelligence.service.ts, and             *)
(* resume-intelligence.service.ts, which the resume parsing worker calls.  *)
(*                                                                         *)
(* A transaction runs at READ COMMITTED: what it reads is one step, what   *)
(* it writes becomes visible in one later step, at its commit.  It holds a *)
(* connection of the pool in between.  All facts here have one factType:   *)
(* versions are counted per type, and nothing relates two types.  A call   *)
(* of another user is refused before it writes, so it is no step here.     *)
(***************************************************************************)
EXTENDS Naturals, FiniteSets

CONSTANTS Keys,         \* deduplication keys, e.g. normalised skill names
          Items,        \* a sequence of [key, conf]: what a parse extracts
          Parsers,      \* parse jobs
          Clients,      \* requests that correct, review, promote
          MaxFacts,     \* bound on fact rows
          Budgets,      \* bounds: the attempts of a job and the calls of a client
          Epsilon,      \* confidences this close tie
          Certain,      \* the confidence of a correction, 1.0
          Connections,  \* size of the connection pool
          Nobody

Ids == 1 .. MaxFacts
NoId == 0
Confidences == {Items[i].conf : i \in DOMAIN Items} \cup {Certain}
Tie(a, b) == a - b <= Epsilon /\ b - a <= Epsilon

ASSUME Bounds ==
  /\ MaxFacts \in Nat
  /\ Budgets \subseteq [attempts : Nat \ {0}, calls : [Clients -> Nat]]
  /\ Epsilon \in Nat /\ Certain \in Nat
  /\ Connections \in Nat \ {0}
  /\ Items \in [1 .. Cardinality(DOMAIN Items) -> [key : Keys, conf : Nat]]
  /\ Parsers \cap Clients = {}
  /\ Nobody \notin Keys

VARIABLES
  facts,   \* fact rows: facts[i] = NoFact while the row does not exist
  rows,    \* number of rows inserted
  clock,   \* observation times handed out
  slot,    \* the canonical row of each key
  job,     \* parse jobs
  call,    \* calls of the clients
  offered, \* history: facts whose promotion has run to its end, by key
  clash    \* history: keys with two promotions in flight at once

vars == <<facts, rows, clock, slot, job, call, offered, clash>>

\* A fact: [key, conf, at, corrected, current, next, version, deleted, review, of];
\* of its reviews, no reader tells approved from none.
NoFact == [key |-> Nobody]

NoSlot == [source |-> NoId, conf |-> 0, at |-> 0, active |-> FALSE]

Exists(i) == i \in 1 .. rows
Idle(n) == [step |-> "idle", fact |-> NoId, copies |-> {}, left |-> n]

Init ==
  /\ facts = [i \in Ids |-> NoFact]
  /\ rows = 0
  /\ clock = 0
  /\ slot = [k \in Keys |-> NoSlot]
  /\ \E b \in Budgets :
       /\ job = [p \in Parsers |-> [step |-> "queued", pos |-> 1, seen |-> NoId,
                                    at |-> 0, left |-> b.attempts]]
       /\ call = [c \in Clients |-> Idle(b.calls[c])]
  /\ offered = [k \in Keys |-> {}]
  /\ clash = {}

-----------------------------------------------------------------------------
(* The pool: a transaction keeps its connection from its first statement.  *)

Open == {p \in Parsers : job[p].step = "record"}
          \cup {c \in Clients :
                  call[c].step \in {"correct", "corrected", "upsert", "copy"}}
Free == Cardinality(Open) < Connections

(***************************************************************************)
(* What the rules say of two facts.                                        *)
(***************************************************************************)

\* The name a reader gives a row, derived from its columns.
Quality(f) ==
  IF f.deleted \/ f.review = "rejected" THEN "INVALID"
  ELSE IF ~f.current /\ f.next # NoId THEN "SUPERSEDED"
  ELSE IF f.corrected /\ f.current THEN "USER_CONFIRMED"
  ELSE "OBSERVED"

\* Whether a replaces b in a canonical row.
CandidateWins(a, b) ==
  \/ a.corrected /\ ~b.corrected
  \/ /\ a.corrected = b.corrected
     /\ IF Tie(a.conf, b.conf) THEN a.at > b.at ELSE a.conf > b.conf

\* The same question as the fact service answers it.
Precedence(a, b) ==
  LET unusable(f) == ~f.current \/ f.deleted
  IN  IF unusable(a) /\ unusable(b) THEN "tie"
      ELSE IF unusable(a) THEN "b"
      ELSE IF unusable(b) THEN "a"
      ELSE IF a.corrected # b.corrected THEN (IF a.corrected THEN "a" ELSE "b")
      ELSE IF ~Tie(a.conf, b.conf) THEN (IF a.conf > b.conf THEN "a" ELSE "b")
      ELSE IF a.at # b.at THEN (IF a.at > b.at THEN "a" ELSE "b")
      ELSE "tie"

\* Facts a materialise call may promote.
Eligible(f) == f.current /\ ~f.deleted /\ ~(f.review = "pending" /\ ~f.corrected)

Current == {i \in 1 .. rows : facts[i].current /\ ~facts[i].deleted}

\* The row a new version of the type supersedes: the current row, deleted or
\* not, with the highest version; rows that tie come in any order.
Latest(i) ==
  LET live == {j \in 1 .. rows : facts[j].current}
  IN  IF live = {} THEN i = NoId
      ELSE i \in live /\ \A j \in live : facts[j].version <= facts[i].version

SupersedeBackwards(table, old, new) ==  \* mutant: the new row gets the link
  [table EXCEPT ![new] = [@ EXCEPT !.current = FALSE, !.next = old]]

Supersede(table, old, new) ==
  [table EXCEPT ![old] = [@ EXCEPT !.current = FALSE, !.next = new]]

-----------------------------------------------------------------------------
(* A parse job: an extraction run, then a fact for each extracted field.   *)

\* createExtractionRun inserts run and provenance in a transaction of its own;
\* without them the job stores no fact and still ends.
StartRun(p) ==
  /\ job[p].step = "queued"
  /\ \E ok \in BOOLEAN :
       /\ ok => Free
       /\ job' = [job EXCEPT ![p].step = IF ok THEN "next" ELSE "done",
                             ![p].pos = 1]
  /\ UNCHANGED <<facts, rows, clock, slot, call, offered, clash>>

\* recordFact opens its transaction and reads the version it will supersede.
RecordRead(p) ==
  /\ job[p].step = "next"
  /\ job[p].pos \in DOMAIN Items
  /\ Free
  /\ \E i \in Ids \cup {NoId} :
       /\ Latest(i)
       /\ job' = [job EXCEPT ![p].step = "record", ![p].seen = i,
                             ![p].at = clock + 1]
  /\ clock' = clock + 1
  /\ UNCHANGED <<facts, rows, slot, call, offered, clash>>

\* The job turns to its next field.
Moves(j) == [j EXCEPT !.step = "next", !.pos = @ + 1, !.seen = NoId, !.at = 0]

\* The insert and the update of the superseded row commit together.
RecordCommit(p) ==
  LET new == rows + 1
      old == job[p].seen
      item == Items[job[p].pos]
      row == [key |-> item.key, conf |-> item.conf, at |-> job[p].at,
              corrected |-> FALSE, current |-> TRUE, next |-> NoId,
              version |-> IF old = NoId THEN 1 ELSE facts[old].version + 1,
              deleted |-> FALSE, review |-> "none", of |-> NoId]
      table == [facts EXCEPT ![new] = row]
  IN  /\ job[p].step = "record"
      /\ new \in Ids
      /\ rows' = new
      /\ facts' = IF old = NoId THEN table ELSE Supersede(table, old, new)
      /\ job' = [job EXCEPT ![p] = Moves(@)]
      /\ UNCHANGED <<clock, slot, call, offered, clash>>

\* A field whose fact cannot be written is left out, and the next one tried.
RecordFails(p) ==
  /\ \/ job[p].step = "record"
     \/ job[p].step = "next" /\ job[p].pos \in DOMAIN Items
  /\ job' = [job EXCEPT ![p] = Moves(@)]
  /\ UNCHANGED <<facts, rows, clock, slot, call, offered, clash>>

ParseEnds(p) ==
  /\ job[p].step = "next"
  /\ job[p].pos \notin DOMAIN Items
  /\ job' = [job EXCEPT ![p].step = "done"]
  /\ UNCHANGED <<facts, rows, clock, slot, call, offered, clash>>

\* The worker exits; the queue gives the job to another one, which starts over
\* on top of the facts that were committed.
WorkerExits(p) ==
  /\ job[p].step \in {"next", "record"}
  /\ job[p].left > 1
  /\ job' = [job EXCEPT ![p].step = "queued", ![p].left = @ - 1,
                        ![p].seen = NoId, ![p].at = 0]
  /\ UNCHANGED <<facts, rows, clock, slot, call, offered, clash>>

-----------------------------------------------------------------------------
(* A correction: a transaction that reads the fact, asks the fact service  *)
(* for an extraction run - a second transaction, on a second connection -  *)
(* and then inserts the corrected row.                                     *)

Begin(c, step, i, set) ==
  /\ call[c].step = "idle"
  /\ call[c].left > 0
  /\ call' = [call EXCEPT ![c] = [step |-> step, fact |-> i, copies |-> set,
                                  left |-> call[c].left - 1]]

CorrectRead(c, i) ==
  /\ Exists(i)
  /\ Free
  /\ Begin(c, "correct", i, {})
  /\ UNCHANGED <<facts, rows, clock, slot, job, offered, clash>>

CorrectRun(c) ==
  /\ call[c].step = "correct"
  /\ Free
  /\ call' = [call EXCEPT ![c].step = "corrected"]
  /\ UNCHANGED <<facts, rows, clock, slot, job, offered, clash>>

\* The version is the one of the fact that was read, whatever happened to it
\* since; the fact need not be current.
CorrectCommit(c) ==
  LET new == rows + 1
      old == call[c].fact
      row(k) == [facts[old] EXCEPT !.key = k, !.conf = Certain, !.at = clock + 1,
                   !.corrected = TRUE, !.current = TRUE, !.next = NoId,
                   !.version = @ + 1, !.deleted = FALSE, !.review = "none",
                   !.of = old]
  IN  /\ call[c].step = "corrected"
      /\ new \in Ids
      /\ rows' = new
      /\ clock' = clock + 1
      /\ \E k \in Keys :
           facts' = Supersede([facts EXCEPT ![new] = row(k)], old, new)
      /\ call' = [call EXCEPT ![c] = Idle(@.left)]
      /\ UNCHANGED <<slot, job, offered, clash>>

CorrectWaits(c) == FALSE /\ UNCHANGED vars  \* mutant: no timeout ends the wait

\* No connection within the pool's timeout, or the transaction's own timeout:
\* the outer transaction is rolled back, and a run it created stays.
CorrectFails(c) ==
  /\ call[c].step \in {"correct", "corrected"}
  /\ call' = [call EXCEPT ![c] = Idle(@.left)]
  /\ UNCHANGED <<facts, rows, clock, slot, job, offered, clash>>

\* flagForReview, reviewFact and deleteFact are one update each.
Touch(c, i, row) ==
  /\ Exists(i)
  /\ Free
  /\ call[c].step = "idle" /\ call[c].left > 0
  /\ facts' = [facts EXCEPT ![i] = row]
  /\ call' = [call EXCEPT ![c] = Idle(@.left - 1)]
  /\ UNCHANGED <<rows, clock, slot, job, offered, clash>>

FlagForReview(c, i) == Touch(c, i, [facts[i] EXCEPT !.review = "pending"])
ReviewFact(c, i, approved) ==
  Touch(c, i, [facts[i] EXCEPT !.review = IF approved THEN "none" ELSE "rejected"])
DeleteFact(c, i) ==
  Touch(c, i, [facts[i] EXCEPT !.deleted = TRUE, !.current = FALSE])

-----------------------------------------------------------------------------
(* createSnapshot, called when an application is recorded: the transaction *)
(* reads what is current and inserts a copy of each row, which is current  *)
(* too and no longer marked as a correction.                               *)

SnapshotRead(c) ==
  /\ Free
  /\ Begin(c, "copy", NoId, Current)
  /\ UNCHANGED <<facts, rows, clock, slot, job, offered, clash>>

Copy(f) == [f EXCEPT !.corrected = FALSE, !.current = TRUE, !.next = NoId,
                     !.deleted = FALSE, !.review = "none", !.of = NoId]

SnapshotCommit(c) ==
  LET originals == call[c].copies
      new == rows + 1 .. rows + Cardinality(originals)
  IN  /\ call[c].step = "copy"
      /\ new \subseteq Ids
      /\ \E original \in [new -> originals] :
           /\ \A i, j \in new : i < j => original[i] < original[j]
           /\ facts' = [i \in Ids |-> IF i \in new THEN Copy(facts[original[i]])
                                                   ELSE facts[i]]
      /\ rows' = rows + Cardinality(originals)
      /\ call' = [call EXCEPT ![c] = Idle(@.left)]
      /\ UNCHANGED <<clock, slot, job, offered, clash>>

\* The caller logs the error and goes on without a snapshot.
SnapshotFails(c) ==
  /\ call[c].step = "copy"
  /\ call' = [call EXCEPT ![c] = Idle(@.left)]
  /\ UNCHANGED <<facts, rows, clock, slot, job, offered, clash>>

-----------------------------------------------------------------------------
(* materialise: the fact is read first, then the canonical row inside a    *)
(* transaction, and the upsert commits.                                    *)

InFlight(k) == {c \in Clients : /\ call[c].step \in {"promote", "upsert"}
                                /\ facts[call[c].fact].key = k}

PromoteRead(c, i) ==
  /\ Exists(i)
  /\ Eligible(facts[i])
  /\ Begin(c, "promote", i, {})
  /\ clash' = IF InFlight(facts[i].key) = {} THEN clash
              ELSE clash \cup {facts[i].key}
  /\ UNCHANGED <<facts, rows, clock, slot, job, offered>>

Incumbent(k) == [corrected |-> facts[slot[k].source].corrected,
                 conf |-> slot[k].conf, at |-> slot[k].at]

\* The same source again, or a weaker fact, changes nothing.
PromoteDecide(c) ==
  LET i == call[c].fact
      k == facts[i].key
      wins == \/ slot[k].source = NoId
              \/ slot[k].source # i /\ CandidateWins(facts[i], Incumbent(k))
  IN  /\ call[c].step = "promote"
      /\ Free
      /\ call' = [call EXCEPT ![c] = IF wins THEN [@ EXCEPT !.step = "upsert"]
                                     ELSE Idle(@.left)]
      /\ offered' = IF wins THEN offered ELSE [offered EXCEPT ![k] = @ \cup {i}]
      /\ UNCHANGED <<facts, rows, clock, slot, job, clash>>

PromoteCommit(c) ==
  LET i == call[c].fact
      k == facts[i].key
  IN  /\ call[c].step = "upsert"
      /\ slot' = [slot EXCEPT ![k] = [source |-> i, conf |-> facts[i].conf,
                                      at |-> facts[i].at, active |-> TRUE]]
      /\ call' = [call EXCEPT ![c] = Idle(@.left)]
      /\ offered' = [offered EXCEPT ![k] = @ \cup {i}]
      /\ UNCHANGED <<facts, rows, clock, job, clash>>

PromoteFails(c) ==
  /\ call[c].step \in {"promote", "upsert"}
  /\ call' = [call EXCEPT ![c] = Idle(@.left)]
  /\ UNCHANGED <<facts, rows, clock, slot, job, offered, clash>>

\* retire keeps the row and its source; a weaker fact does not revive it.
Retire(c, k) ==
  /\ slot[k].source # NoId
  /\ call[c].step = "idle" /\ call[c].left > 0
  /\ slot' = [slot EXCEPT ![k].active = FALSE]
  /\ call' = [call EXCEPT ![c] = Idle(@.left - 1)]
  /\ UNCHANGED <<facts, rows, clock, job, offered, clash>>

-----------------------------------------------------------------------------
ParserStep(p) ==
  \/ StartRun(p) \/ RecordRead(p) \/ RecordCommit(p)
  \/ RecordFails(p) \/ ParseEnds(p) \/ WorkerExits(p)

\* The steps of a call that has begun.
CallStep(c) ==
  \/ CorrectRun(c) \/ CorrectCommit(c) \/ CorrectFails(c)
  \/ PromoteDecide(c) \/ PromoteCommit(c) \/ PromoteFails(c)
  \/ SnapshotCommit(c) \/ SnapshotFails(c)

Request(c) ==
  \/ \E i \in Ids : \/ CorrectRead(c, i) \/ PromoteRead(c, i)
                    \/ FlagForReview(c, i) \/ DeleteFact(c, i)
                    \/ \E approved \in BOOLEAN : ReviewFact(c, i, approved)
  \/ \E k \in Keys : Retire(c, k)
  \/ SnapshotRead(c)

Next ==
  \/ \E p \in Parsers : ParserStep(p)
  \/ \E c \in Clients : CallStep(c) \/ Request(c)

Spec == Init /\ [][Next]_vars

(***************************************************************************)
(* A statement is answered or fails: the timeouts of the pool and of the   *)
(* transaction see to it.                                                  *)
(***************************************************************************)
FairSpec == Spec /\ \A c \in Clients : WF_vars(CallStep(c))

-----------------------------------------------------------------------------
(* Properties                                                              *)

(***************************************************************************)
(* The history of a fact is a walk along supersededById, without a bound:  *)
(* getFactHistory and getCorrectionHistory loop until it ends.  It ends,   *)
(* since each hop goes to an existing row of a higher version, whichever   *)
(* transactions overlap and whatever a snapshot copies.                    *)
(***************************************************************************)
HistoryIsOrdered ==
  \A i \in 1 .. rows : facts[i].next # NoId =>
    /\ Exists(facts[i].next)
    /\ facts[facts[i].next].version > facts[i].version
    /\ ~facts[i].current

(***************************************************************************)
(* A correction is in force as a whole: the row it corrects is no longer   *)
(* current, the new one counts as its next version, and neither is told to *)
(* a reader as a plain observation, although the job, another correction   *)
(* or a snapshot may have touched the row in between.                      *)
(***************************************************************************)
CorrectedIsRetired ==
  \A i \in 1 .. rows : facts[i].corrected =>
    LET old == facts[facts[i].of]
    IN  /\ ~old.current
        /\ facts[i].version = old.version + 1
        /\ "OBSERVED" \notin {Quality(old), Quality(facts[i])}

\* The confidences that were offered for a key fall into classes of ties.
TiesAreClasses(k) ==
  \A a, b, c \in offered[k] :
    Tie(facts[a].conf, facts[b].conf) /\ Tie(facts[b].conf, facts[c].conf)
      => Tie(facts[a].conf, facts[c].conf)

(***************************************************************************)
(* The canonical row of a key does not depend on the order in which facts  *)
(* were offered, as long as no two promotions of the key overlapped.  A    *)
(* machine fact never displaces a correction, whatever was offered; and no *)
(* fact that was offered beats the one it holds, unless the confidences    *)
(* make a chain of ties: a chain may lead down step by step.               *)
(***************************************************************************)
CanonicalIsBest ==
  \A k \in Keys \ clash :
    /\ slot[k].source # NoId <=> offered[k] # {}
    /\ slot[k].source # NoId =>
         /\ slot[k].source \in offered[k]
         /\ \A i \in offered[k] : facts[i].corrected => facts[slot[k].source].corrected
         /\ TiesAreClasses(k) => \A i \in offered[k] : ~CandidateWins(facts[i], Incumbent(k))

(***************************************************************************)
(* The two places that rank facts agree on usable ones, as the comment of  *)
(* resolveFactPrecedence says they do.                                     *)
(***************************************************************************)
RankingsAgree ==
  \A i, j \in Current : (Precedence(facts[i], facts[j]) = "a")
                          <=> CandidateWins(facts[i], facts[j])

(* Histories end, and corrections are in force as a whole.                 *)
HistoryHolds == HistoryIsOrdered /\ CorrectedIsRetired

(* The ranking decides a canonical row, whoever asks and in any order.     *)
RankingHolds == CanonicalIsBest /\ RankingsAgree

(* What is known of a candidate has one history, and its best row.         *)
FactsHold == HistoryHolds /\ RankingHolds

(***************************************************************************)
(* A correction ends, in a row or in an error, although it needs a second  *)
(* connection while it holds one and the others may all wait for theirs.   *)
(***************************************************************************)
CallsEnd == \A c \in Clients : call[c].step # "idle" ~> call[c].step = "idle"

=============================================================================
