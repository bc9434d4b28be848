------------------------------ MODULE Interviews ------------------------------
(***************************************************************************)
(* Interview transcripts: what the extraction of one writes, statement by  *)
(* statement and in no transaction, and the patterns that are mined over   *)
(* all users and shown once enough of them stand behind one.               *)
(*                                                                         *)
(* Sources: interview-extraction.ts, pattern-mining.service.ts.            *)
(*                                                                         *)
(* A transcript says how the session stands (opening), how many rounds     *)
(* there were, which competencies were shown at which level, in tenths and *)
(* with which confidence, and the decision, if there was one.  Events and  *)
(* signals are rows like the observations, and are left out.  The caller   *)
(* names no session that exists, and all sessions are of one company and   *)
(* role, and in the window that is mined.                                  *)
(***************************************************************************)
EXTENDS Integers, Sequences, FiniteSets, Functions, FiniteSetsExt

CONSTANTS
  Transcripts, \* the requests to run one
  Said,        \* what each says: user, opening, rounds, shown, decision
  Alike,       \* pairs of keys whose names are similar
  MIN_COHORT_SIZE,
  Miners,      \* processes that mine all sessions
  MaxPasses,   \* bound: their passes
  MaxFaults    \* bound: statements of the extractions that fail

ASSUME InterviewAssumption ==
  \A t \in Transcripts : Said[t].rounds \in Nat /\ Said[t].shown \in Seq(Range(Said[t].shown))

VARIABLES
  talk,       \* the call of each transcript
  session,    \* the rows of the sessions, in the order of their creation
  competency, \* keys of the competencies that have a row
  shownIn,    \* observations of a competency in a session
  fact,       \* facts, a session and the field that was stored
  lost,       \* observations and facts whose insert failed
  predicted,  \* sessions that a prediction was recorded for
  faults,     \* statements that have failed
  coined,     \* competencies created while a look-up for one like them ran
  miner,      \* the passes: where each is, and what it has read
  pattern     \* rows of the patterns

talkVars == <<talk, session, competency, shownIn, fact, lost, predicted, faults, coined>>
mineVars == <<miner, pattern>>
interviewVars == <<talkVars, mineVars>>

NoTalk == [at |-> "none", session |-> 0, next |-> 1]
Idling == [at |-> "none", step |-> "create", window |-> 0, rows |-> {}, todo |-> {},
           key |-> "", against |-> 0]

NoKey == ""      \* of a name without a letter or digit
NoDecision == "" \* of a transcript that tells none
NoSession == 0   \* of an extraction that failed

InterviewsInit ==
  /\ talk = [t \in Transcripts |-> NoTalk]
  /\ session = <<>> /\ competency = {}
  /\ shownIn = {} /\ fact = {} /\ lost = {} /\ predicted = {} /\ coined = {} /\ faults = 0
  /\ miner = [m \in Miners |-> Idling]
  /\ pattern = {}

Stands(t, step) == talk[t].at = step
Shown(t) == Said[t].shown
Saying(t) == Shown(t)[talk[t].next]
AnyOf(t, loop, after) == IF Shown(t) = <<>> THEN after ELSE loop
More(t) == talk[t].next < Len(Shown(t))
Fails == faults < MaxFaults /\ faults' = faults + 1
GoesOn(t, step, next) == talk' = [talk EXCEPT ![t].at = step, ![t].next = next]
-----------------------------------------------------------------------------
(* The extraction.  Whatever throws outside a catch ends the call; the     *)
(* caller may ask again, and the rows stay.                                *)

(* The models fail: what is recorded of it is a prediction of no session.  *)
start(t) ==
  /\ Stands(t, "none")
  /\ \/ GoesOn(t, "session", 1) /\ UNCHANGED <<predicted, faults>>
     \/ Fails /\ predicted' = predicted \cup {NoSession} /\ UNCHANGED talk
  /\ UNCHANGED <<session, competency, shownIn, fact, lost, coined>>

createSession(t) ==
  /\ Stands(t, "session")
  /\ session' = Append(session, [of |-> t, rounds |-> 0, decision |-> Said[t].opening.decision,
                                 status |-> Said[t].opening.status, shared |-> FALSE])
  /\ talk' = [talk EXCEPT ![t].at = "rounds", ![t].session = Len(session) + 1]
  /\ UNCHANGED <<competency, shownIn, fact, lost, predicted, faults, coined>>

CreateRound(t) ==
  LET s == talk[t].session
  IN  /\ Stands(t, "rounds")
      /\ IF session[s].rounds < Said[t].rounds
         THEN session' = [session EXCEPT ![s].rounds = @ + 1] /\ UNCHANGED talk
         ELSE GoesOn(t, AnyOf(t, "resolve", "decide"), 1) /\ UNCHANGED session
      /\ UNCHANGED <<competency, shownIn, fact, lost, predicted, faults, coined>>

(* resolveCompetencyId: the row of the key, or the most similar name, or a *)
(* row that is created; a key that was created meanwhile throws.  What has *)
(* no key is passed over.                                                  *)
Lookalikes(key) == {k \in competency : {k, key} \in Alike}

NextStatement(t) == IF More(t) THEN GoesOn(t, "resolve", talk[t].next + 1) ELSE GoesOn(t, "decide", 1)

resolveCompetencyId(t) ==
  LET key == Saying(t).key
  IN  /\ Stands(t, "resolve")
      /\ \/ key = NoKey /\ NextStatement(t)
         \/ /\ key # NoKey
            /\ talk' = [talk EXCEPT ![t].at = IF key \in competency \/ Lookalikes(key) # {}
                                              THEN "observe" ELSE "create"]
      /\ UNCHANGED <<session, competency, shownIn, fact, lost, predicted, faults, coined>>

LookingFor(key) == {t \in Transcripts : Stands(t, "create") /\ {Saying(t).key, key} \in Alike}

CreateCompetency(t) ==
  LET key == Saying(t).key
  IN  /\ Stands(t, "create")
      /\ IF key \in competency
         THEN talk' = [talk EXCEPT ![t] = NoTalk] /\ UNCHANGED <<competency, coined>>
         ELSE /\ competency' = competency \cup {key}
              /\ coined' = coined \cup {Saying(o).key : o \in LookingFor(key)}
              /\ GoesOn(t, "observe", talk[t].next)
      /\ UNCHANGED <<session, shownIn, fact, lost, predicted, faults>>

SameCompetency(key) == IF key \in competency THEN {key} ELSE Lookalikes(key)

(* An observation names the first round of its session, and its failure is *)
(* caught, like those of the decision and of the facts.                    *)
CreateObservation(t) ==
  LET s == talk[t].session
      Row(key) == [session |-> s, key |-> key, level |-> Saying(t).level,
                   round |-> IF session[s].rounds > 0 THEN 1 ELSE 0]
  IN  /\ Stands(t, "observe")
      /\ \/ /\ \E key \in SameCompetency(Saying(t).key) : shownIn' = shownIn \cup {Row(key)}
            /\ UNCHANGED <<lost, faults>>
         \/ /\ lost' = lost \cup {<<"observation", s, Saying(t).key>>}
            /\ Fails /\ UNCHANGED shownIn
      /\ NextStatement(t)
      /\ UNCHANGED <<session, competency, fact, predicted, coined>>

Decide(t) ==
  /\ Stands(t, "decide") /\ GoesOn(t, AnyOf(t, "facts", "predict"), 1)
  /\ \/ /\ Said[t].decision # NoDecision
        /\ session' = [session EXCEPT ![talk[t].session].decision = Said[t].decision,
                                      ![talk[t].session].status = "COMPLETED"]
        /\ UNCHANGED faults
     \/ Said[t].decision = NoDecision /\ UNCHANGED <<session, faults>>
     \/ Said[t].decision # NoDecision /\ Fails /\ UNCHANGED session
  /\ UNCHANGED <<competency, shownIn, fact, lost, predicted, coined>>

Sure(f) == f.confidence >= 4

writeInterviewFactObservations(t) ==
  LET s == talk[t].session
      stored == <<s, Saying(t).key>>
  IN  /\ Stands(t, "facts")
      /\ \/ fact' = (IF Sure(Saying(t)) THEN fact \cup {stored} ELSE fact)
            /\ UNCHANGED <<lost, faults>>
         \/ lost' = lost \cup {<<"fact", s, Saying(t).key>>} /\ Fails /\ UNCHANGED fact
      /\ IF More(t) THEN GoesOn(t, "facts", talk[t].next + 1) ELSE GoesOn(t, "predict", 1)
      /\ UNCHANGED <<session, competency, shownIn, predicted, coined>>

writePrediction(t) ==
  /\ Stands(t, "predict")
  /\ predicted' = predicted \cup {talk[t].session}
  /\ talk' = [talk EXCEPT ![t] = [NoTalk EXCEPT !.at = "over"]]
  /\ UNCHANGED <<session, competency, shownIn, fact, lost, faults, coined>>

Throws(t) ==
  /\ talk[t].at \in {"session", "rounds", "resolve", "create", "predict"}
  /\ talk' = [talk EXCEPT ![t] = NoTalk] /\ Fails
  /\ UNCHANGED <<session, competency, shownIn, fact, lost, predicted, coined>>

(* A user gives a session of hers to the patterns.                         *)
Share(s) ==
  /\ ~session[s].shared
  /\ session' = [session EXCEPT ![s].shared = TRUE]
  /\ UNCHANGED <<talk, competency, shownIn, fact, lost, predicted, faults, coined>>
-----------------------------------------------------------------------------
(* The mining.  A pass reads all observations at once, and then handles    *)
(* its competencies one by one, each in up to three statements.            *)
Owner(s) == Said[session[s].of].user

Shared(decision, below) ==
  {o \in shownIn : /\ session[o.session].shared
                    /\ session[o.session].decision = decision
                    /\ o.level < below}

Begins(m, kind, observations) ==
  LET rows == {[user |-> Owner(o.session), session |-> o.session, key |-> o.key] :
                 o \in observations}
      window == 1 + Max({miner[o].window : o \in Miners})
  IN  /\ miner[m].at = "none" /\ window <= MaxPasses
      /\ miner' = [miner EXCEPT ![m] =
           [Idling EXCEPT !.at = kind, !.rows = rows, !.todo = {r.key : r \in rows},
                          !.window = window]]
      /\ UNCHANGED pattern

mineFrequentCompetencySets(m) == Begins(m, "FREQUENT_COMPETENCY_SET", Shared("HIRE", 11))
mineFailureModes(m) == Begins(m, "FAILURE_MODE", Shared("NO_HIRE", 4))

distinctUserCount(rows) == Cardinality({r.user : r \in rows})

\* mutant: the threshold is passed one user early
isPublishedEarly(count) == count >= MIN_COHORT_SIZE - 1

isPublished(count) == count >= MIN_COHORT_SIZE

Rounded(a, b) == (2 * a + b) \div (2 * b)

Pattern(m, key) ==
  LET own == {r \in miner[m].rows : r.key = key}
  IN  [kind |-> miner[m].at, key |-> key, window |-> miner[m].window, against |-> 0,
       users |-> {r.user : r \in own},
       prevalence |-> Rounded(100 * distinctUserCount(own), distinctUserCount(miner[m].rows)),
       isPublished |-> isPublished(distinctUserCount(own))]

(* The second of the published patterns of a key, latest window first.     *)
Previous(key) ==
  LET published == {r \in pattern : /\ r.kind = "FREQUENT_COMPETENCY_SET"
                                    /\ r.key = key /\ r.isPublished}
      Later(r) == {q \in published : q.window > r.window}
  IN  {r.window : r \in {q \in published : Cardinality(Later(q)) = 1}}

End(m) == [Idling EXCEPT !.window = miner[m].window]

(* The row of a pattern; of a frequent one the drift is asked for next.    *)
CreatePattern(m) ==
  /\ miner[m].step = "create"
  /\ \E key \in miner[m].todo :
       /\ pattern' = pattern \cup {Pattern(m, key)}
       /\ miner' = [miner EXCEPT ![m].todo = @ \ {key}, ![m].key = key,
                      ![m].step = IF miner[m].at = "FAILURE_MODE" THEN "create" ELSE "look"]

FindPrevious(m) ==
  /\ miner[m].step = "look"
  /\ \/ Previous(miner[m].key) = {} /\ miner' = [miner EXCEPT ![m].step = "create"]
     \/ \E w \in Previous(miner[m].key) :
          miner' = [miner EXCEPT ![m].step = "drift", ![m].against = w]
  /\ UNCHANGED pattern

CreateDrift(m) ==
  /\ miner[m].step = "drift"
  /\ pattern' = pattern \cup {[Pattern(m, miner[m].key) EXCEPT !.kind = "COMPETENCY_DRIFT",
                                                              !.against = miner[m].against]}
  /\ miner' = [miner EXCEPT ![m].step = "create"]

(* The pass is over, or the process exits, whatever is left.               *)
PassEnds(m) ==
  /\ miner[m].at # "none"
  /\ miner' = [miner EXCEPT ![m] = End(m)]
  /\ UNCHANGED pattern

findPublishedPatterns == {p \in pattern : p.isPublished}

InterviewsNext ==
  \/ /\ \/ \E s \in DOMAIN session : Share(s)
        \/ \E t \in Transcripts :
             \/ start(t) \/ createSession(t) \/ CreateRound(t)
             \/ resolveCompetencyId(t) \/ CreateCompetency(t) \/ CreateObservation(t) \/ Decide(t)
             \/ writeInterviewFactObservations(t) \/ writePrediction(t) \/ Throws(t)
     /\ UNCHANGED mineVars
  \/ /\ \E m \in Miners : mineFrequentCompetencySets(m) \/ mineFailureModes(m)
                            \/ CreatePattern(m) \/ FindPrevious(m) \/ CreateDrift(m)
                            \/ PassEnds(m)
     /\ UNCHANGED talkVars

InterviewsSpec == InterviewsInit /\ [][InterviewsNext]_interviewVars
-----------------------------------------------------------------------------
(* A prediction that tells of a session tells of a whole one: all its      *)
(* rounds, an observation of every competency that has a key and a fact of *)
(* everything that was said, but for those whose insert failed.            *)
PredictionsAreOfWholeSessions ==
  \A s \in predicted \ {NoSession} :
    LET t == session[s].of
    IN  /\ session[s].rounds = Said[t].rounds
        /\ \A f \in Range(Shown(t)) :
             /\ \/ f.key = NoKey \/ <<"observation", s, f.key>> \in lost
                \/ \E o \in shownIn : o.session = s /\ {o.key, f.key} \in Alike \cup {{f.key}}
             /\ Sure(f) => <<"fact", s, f.key>> \in lost \/ <<s, f.key>> \in fact

(* Two competencies of similar names stand side by side only when they     *)
(* were looked for at the same time.                                       *)
SimilarAreOne ==
  \A k, j \in competency : {k, j} \in Alike => {k, j} \cap coined # {}

(* What is shown of all users has a cohort behind it, whatever calls are   *)
(* repeated and however passes overlap: that many people, of whom each has *)
(* a session in which the competency was seen.  The change of a pattern is *)
(* taken against one of a cohort too, and never against the newest: while  *)
(* passes overlap, it may be of a later window than the pattern itself.    *)
CohortsAreReal ==
  \A p \in findPublishedPatterns :
    /\ Cardinality(p.users) >= MIN_COHORT_SIZE
    /\ \A u \in p.users : \E o \in shownIn : Owner(o.session) = u /\ o.key = p.key
    /\ p.prevalence \in 0..100
    /\ p.kind = "COMPETENCY_DRIFT" =>
         \E q, n \in findPublishedPatterns :
           q.key = p.key /\ q.window = p.against /\ n.key = p.key /\ n.window > q.window

InterviewsHold == PredictionsAreOfWholeSessions /\ SimilarAreOne /\ CohortsAreReal
=============================================================================
