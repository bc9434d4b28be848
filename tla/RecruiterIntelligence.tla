------------------------- MODULE RecruiterIntelligence -------------------------
(***************************************************************************)
(* The recruiter pipeline over time: facts are extracted from messages and *)
(* interactions are recorded, and now and then the stages run one after    *)
(* the other over everything known, each asking the AI provider, which may *)
(* answer or fail.  A run is given the profile of the run before.          *)
(***************************************************************************)
EXTENDS RecruiterInsights

CONSTANTS
  Extracted,      \* facts a message can add
  MaxFacts,       \* bound: facts kept for the recruiter
  Answers,        \* the answers of the provider to the stages of one run
  MaxOutcomes,    \* bound: ghostings and cancellations recorded
  MaxRuns         \* bound: runs of the stages

VARIABLES
  facts,          \* the facts in the order they were extracted
  history,        \* how often the recruiter ghosted and cancelled
  prior,          \* the behaviour profile of the last run, if there was one
  profileVersion,        \* the version of the expertise profile
  report          \* what the last run told, if there was one

intelVars == <<facts, history, prior, profileVersion, report>>

ASSUME BoundsAssumption == MaxFacts \in Nat /\ MaxOutcomes \in Nat /\ MaxRuns \in Nat

\* The score of a signal is a number, whoever gives it.
ASSUME AnswersAssumption ==
  \A ai \in Answers : \A d \in DOMAIN ai.trust : ai.trust[d].value \in Int

(* The provider answered no stage.                                         *)
Silent == [reasoning |-> <<>>, profile |-> FALSE, behaviour |-> <<>>, trust |-> <<>>,
           expertise |-> <<>>, decision |-> <<>>, synthesis |-> FALSE]

-----------------------------------------------------------------------------
IntelInit ==
  /\ facts = <<>> /\ history = [ghosted |-> 0, cancelled |-> 0]
  /\ prior = {} /\ profileVersion = 0 /\ report = {}

(* A message adds a fact.                                                  *)
Extract(f) ==
  /\ Len(facts) < MaxFacts
  /\ facts' = Append(facts, f)
  /\ UNCHANGED <<history, prior, profileVersion, report>>

(* The user records that the recruiter ghosted or cancelled.               *)
Record(outcome) ==
  /\ history.ghosted + history.cancelled < MaxOutcomes
  /\ history' = [history EXCEPT ![outcome] = @ + 1]
  /\ UNCHANGED <<facts, prior, profileVersion, report>>

(* All stages run.                                                         *)
Run(ai) ==
  LET r == infer(facts, ai.reasoning)
      b == buildProfile(facts, r, ai.behaviour)
      trend == OverallTrend(b, prior)
      t == score(facts, r, b, history, ai.trust)
      e == mergeProfiles(facts, r, ai.expertise, profileVersion)
      d == predict(facts, r, b, t.trustScore, e, ai.decision)
  IN /\ profileVersion < MaxRuns
     /\ prior' = {[x \in Compared |-> b[x]]}
     /\ profileVersion' = e.version
     /\ report' =
          {[facts |-> facts, history |-> history, silent |-> (ai = Silent),
            profile |-> RecruiterProfile(facts, r, ai.profile),
            memory |-> MemoryUpdatePlan(facts, mergeInferences(inferDeterministic(facts),
                                                               ai.reasoning)),
            timeline |-> TimelineUpdatePlan(facts, r) \cup BehaviourEvents(b, prior),
            trend |-> trend, trust |-> t, decision |-> d,
            told |-> generate(facts, r, b, trend, t, e, d, ai.synthesis)]}
     /\ UNCHANGED <<facts, history>>

IntelNext ==
  \/ \E f \in Extracted : Extract(f)
  \/ \E outcome \in {"ghosted", "cancelled"} : Record(outcome)
  \/ \E ai \in Answers : Run(ai)

IntelSpec == IntelInit /\ [][IntelNext]_intelVars

-----------------------------------------------------------------------------
(* The stages agree on the recruiters that may ghost the user, although    *)
(* each compares another number with a threshold of its own: the alert is  *)
(* raised with the reminder and the mitigation, never without a risk       *)
(* factor of ghosting, and never left out when that factor is severe.      *)
AlarmsAgree ==
  \A p \in report :
    LET alarm == \E a \in p.told.riskAlerts : a.type = "ghosting_risk"
    IN /\ alarm <=> \E f \in p.told.followUps : f.action = "reminder"
       /\ alarm <=> p.told.relationship.riskMitigation # {}
       /\ alarm => \E x \in p.trust.riskFactors : x[1] = "ghosting"
       /\ <<"ghosting", "high">> \in p.trust.riskFactors => alarm

(* More messages never cost a recruiter trust: of two runs over the same   *)
(* interactions and without AI answers, the one that knows more facts, up  *)
(* to ten, reports at least the trust of the other, although an inference  *)
(* of low confidence lowers the means the later stages build on.           *)
EvidenceNeverHurts ==
  [][\A p \in report, q \in report' :
       (/\ p.silent /\ q.silent /\ p.history = q.history
        /\ Len(p.facts) < Len(q.facts) /\ Len(q.facts) <= 10)
       => q.trust.trustScore.score >= p.trust.trustScore.score]_intelVars

=============================================================================
