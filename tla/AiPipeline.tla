------------------------------ MODULE AiPipeline ------------------------------
(***************************************************************************)
(* The extraction pipeline in front of the language models: one rate       *)
(* limiter, cost ledger and review queue shared by the calls of a process. *)
(* A call waits for the limiter, sends its request, parses and validates   *)
(* the answer, and is sent again after a backoff when the error looks      *)
(* transient.  A batch runs its items a chunk at a time.                   *)
(*                                                                         *)
(* Time is counted in ticks: a Minute of them is the limiter's window and  *)
(* the longest a call waits for it.                                        *)
(***************************************************************************)
EXTENDS Integers, FiniteSets, Sequences, FiniteSetsExt, SequencesExt

CONSTANTS Calls,        \* the calls to extract()
          Items,        \* the items of an extractBatch(), a sequence of Calls
          Concurrency,  \* how many items of the batch run together
          Tokens,       \* the tokens a call may use, a function of Calls
          MaxCalls,     \* costBudget.maxCallsPerMinute
          MaxTokens,    \* maxTokensPerCall * maxCallsPerMinute
          MaxAttempts,  \* retryPolicy.maxAttempts
          Minute,       \* 60000 ms, in ticks
          ModelAnswers   \* what a model may answer: the confidence of each field

ASSUME LimiterAssumption ==
  /\ MaxCalls \in Nat \ {0} /\ MaxAttempts \in Nat \ {0} /\ Minute \in Nat \ {0}
  /\ \A c \in Calls : Tokens[c] \in Nat
  /\ Concurrency \in Nat \ {0}

\* Every item of a batch is a call of its own.
ASSUME BatchAssumption ==
  /\ Items \in Seq(Calls)
  /\ \A i, j \in DOMAIN Items : Items[i] = Items[j] => i = j

VARIABLES window,   \* RateLimitState: its age in ticks, the calls and tokens in it
          call,     \* what each extract() is doing
          chunk,    \* the first item of the batch's current chunk
          ledger,   \* the cost tracker: successes and failures recorded per call
          reviews,  \* the human review queue: requests per call
          since     \* history: ticks since each request was sent, Minute at most

aiVars == <<window, call, chunk, ledger, reviews, since>>

Idle == [phase |-> "idle", attempt |-> 0, waited |-> 0]

Old == [n \in 1 .. MaxAttempts |-> Minute]

AiInit ==
  /\ window = [age |-> 0, calls |-> 0, tokens |-> 0]
  /\ call = [c \in Calls |-> Idle]
  /\ chunk = 1
  /\ ledger = [c \in Calls |-> [ok |-> 0, failed |-> 0]]
  /\ reviews = [c \in Calls |-> 0]
  /\ since = [c \in Calls |-> Old]

Over == {"answered", "failed", "refused"}

(* The window the limiter sees: a window a minute old starts again empty. *)
maybeReset ==
  IF window.age >= Minute THEN [age |-> 0, calls |-> 0, tokens |-> 0] ELSE window

(* mutant: the limiter lets one call too many into a window *)
isAllowedOneMore(w, tokens) ==
  /\ w.calls <= MaxCalls
  /\ w.tokens + tokens <= MaxTokens

isAllowed(w, tokens) ==
  /\ w.calls < MaxCalls
  /\ w.tokens + tokens <= MaxTokens

Chunk(i) == { Items[k] : k \in { k \in DOMAIN Items : i <= k /\ k < i + Concurrency } }

InBatch == { Items[k] : k \in DOMAIN Items }

(* The loop of acquire(): the call is counted and sent at once when the     *)
(* window has room, and is refused when it has waited a minute for it.      *)
Send(c) ==
  /\ call' = [call EXCEPT ![c] =
                [phase |-> "calling", attempt |-> call[c].attempt + 1, waited |-> 0]]
  /\ since' = [since EXCEPT ![c][call[c].attempt + 1] = 0]

acquire(c) ==
  LET w == maybeReset
  IN  /\ call[c].phase = "asking"
      /\ \/ /\ isAllowed(w, Tokens[c])
            /\ window' = [w EXCEPT !.calls = @ + 1, !.tokens = @ + Tokens[c]]
            /\ Send(c)
         \/ /\ ~isAllowed(w, Tokens[c])
            /\ window' = w
            /\ call' = [call EXCEPT ![c].phase =
                          IF call[c].waited >= Minute THEN "refused" ELSE "sleeping"]
            /\ UNCHANGED since
      /\ UNCHANGED <<chunk, ledger, reviews>>

(* extract() starts, alone or as an item of the current chunk. *)
Begin(cs) == call' = [c \in Calls |-> IF c \in cs THEN [Idle EXCEPT !.phase = "asking"]
                                                  ELSE call[c]]

extract(c) ==
  /\ c \notin InBatch
  /\ call[c].phase = "idle"
  /\ Begin({c})
  /\ UNCHANGED <<window, chunk, ledger, reviews, since>>

(* extractBatch() starts a chunk when every item of the one before it has   *)
(* settled, answered or not.                                                *)
extractBatch ==
  /\ chunk <= Len(Items)
  /\ \/ /\ \A c \in Chunk(chunk) : call[c].phase = "idle"
        /\ Begin(Chunk(chunk))
        /\ UNCHANGED chunk
     \/ /\ \A c \in Chunk(chunk) : call[c].phase \in Over
        /\ chunk' = chunk + Concurrency
        /\ Begin(Chunk(chunk'))
  /\ UNCHANGED <<window, ledger, reviews, since>>

(* The mean of the fields' confidences, nothing for an answer without any. *)
computeOverallConfidence(answer) ==
  IF answer = << >> THEN 0 ELSE FoldSeq(+, 0, answer) \div Len(answer)

ReviewBelow == 5500

(* The review hook: the answer as a whole is doubtful, or most fields are. *)
isReviewRequired(answer) ==
  \/ computeOverallConfidence(answer) < ReviewBelow
  \/ 2 * Cardinality({ i \in DOMAIN answer : answer[i] < ReviewBelow }) > Len(answer)

(* A text came back: it is charged, then parsed and validated. *)
Charged(c) == [ledger EXCEPT ![c].ok = @ + 1]

Usable(c) ==
  /\ call[c].phase = "calling"
  /\ \E answer \in ModelAnswers :
       reviews' = [reviews EXCEPT ![c] = @ + (IF isReviewRequired(answer) THEN 1 ELSE 0)]
  /\ ledger' = Charged(c)
  /\ call' = [call EXCEPT ![c].phase = "answered"]
  /\ UNCHANGED <<window, chunk, since>>

(* The catch of the retry loop: an error worth a retry sleeps and tries     *)
(* again while attempts are left, any other is recorded and thrown.         *)
isRetryable(error) == error \in {"parse", "transient"}

Caught(c, error, entries) ==
  IF isRetryable(error) /\ call[c].attempt < MaxAttempts
    THEN /\ call' = [call EXCEPT ![c].phase = "backoff"]
         /\ ledger' = entries
    ELSE /\ call' = [call EXCEPT ![c].phase = "failed"]
         /\ ledger' = [entries EXCEPT ![c].failed = @ + 1]

(* The text is not JSON ("parse") or not of the template's shape ("shape"). *)
Unusable(c) ==
  /\ call[c].phase = "calling"
  /\ \E error \in {"parse", "shape"} : Caught(c, error, Charged(c))
  /\ UNCHANGED <<window, chunk, reviews, since>>

(* No text came back: nothing is charged. *)
ProviderError(c) ==
  /\ call[c].phase = "calling"
  /\ \E error \in {"transient", "fatal"} : Caught(c, error, ledger)
  /\ UNCHANGED <<window, chunk, reviews, since>>

(* The next attempt goes to the model without asking the limiter again. *)
SendAgain(c) ==
  /\ call[c].phase = "backoff"
  /\ Send(c)
  /\ UNCHANGED <<window, chunk, ledger, reviews>>

(* A poll interval passes: the sleeping calls look at the window again. *)
Tick ==
  /\ window' = [window EXCEPT !.age = IF @ < Minute THEN @ + 1 ELSE Minute]
  /\ since' = [c \in Calls |-> [n \in 1 .. MaxAttempts |->
                 IF since[c][n] < Minute THEN since[c][n] + 1 ELSE Minute]]
  /\ call' = [c \in Calls |->
       IF call[c].phase = "sleeping"
         THEN [call[c] EXCEPT !.phase = "asking", !.waited = @ + 1] ELSE call[c]]
  /\ UNCHANGED <<chunk, ledger, reviews>>

AiStep(c) == acquire(c) \/ Usable(c) \/ Unusable(c) \/ ProviderError(c) \/ SendAgain(c)

AiNext ==
  \/ \E c \in Calls : extract(c) \/ AiStep(c)
  \/ extractBatch
  \/ Tick

AiSpec == AiInit /\ [][AiNext]_aiVars
-----------------------------------------------------------------------------
\* A call is admitted with its first request.
AdmittedSince(c) == since[c][1]

(* The limiter admits calls in fixed windows, so that a burst at the end of *)
(* one and another at the start of the next may meet: in the last minute no *)
(* more than two windows' budget were admitted, however resets, waits and   *)
(* refusals interleave, and never more than Concurrency items of the batch  *)
(* are under way.  Of the requests sent it says nothing: a retry does not   *)
(* ask the limiter (see RequestsInBudget).                                  *)
AdmissionBurst ==
  /\ Cardinality({ c \in Calls : AdmittedSince(c) < Minute }) <= 2 * MaxCalls
  /\ Cardinality({ c \in InBatch : call[c].phase \notin Over \cup {"idle"} }) <= Concurrency

(* The ledger and the attempts agree however calls end: an answer was       *)
(* charged, a failure is recorded once, a refused call costs nothing, and   *)
(* no caller pays for more texts than a retry loop of MaxAttempts allows;   *)
(* an answer is queued for review once at most.                             *)
CallsAreAccounted ==
  \A c \in Calls :
    /\ call[c].attempt <= MaxAttempts /\ ledger[c].ok <= call[c].attempt
    /\ call[c].phase = "answered" => ledger[c].ok > 0 /\ ledger[c].failed = 0
    /\ call[c].phase = "failed" <=> ledger[c].failed = 1
    /\ call[c].phase = "refused" => ledger[c].ok = 0
    /\ reviews[c] > 0 => call[c].phase = "answered" /\ reviews[c] = 1

(* Calls are admitted within twice the budget, and end in the books.        *)
CallsAreBooked == AdmissionBurst /\ CallsAreAccounted

(* What the code claims of the models: the pipeline "Enforces rate limits   *)
(* and cost budgets" (extraction-pipeline.ts:51) with a "sliding-window     *)
(* rate limiter" (rate-limiter.ts:4).  It would mean that the requests sent *)
(* in the last minute, retries included, stay within maxCallsPerMinute;     *)
(* they do not.                                                             *)
RequestsInBudget ==
  Cardinality({ r \in Calls \X (1 .. MaxAttempts) : since[r[1]][r[2]] < Minute }) <= MaxCalls
=============================================================================
