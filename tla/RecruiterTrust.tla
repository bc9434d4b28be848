---------------------------- MODULE RecruiterTrust ----------------------------
(***************************************************************************)
(* How far the recruiter can be trusted, and what the recruiter will       *)
(* probably do (recruiter-reputation-trust.service.ts,                     *)
(* recruiter-decision-intelligence.service.ts).  The trust score is the    *)
(* weighted mean of ten signals; nine predictions follow from the facts,   *)
(* the inferences, the behaviour profile and the trust score.              *)
(***************************************************************************)
EXTENDS RecruiterBehaviour

(* The first name of a ladder <<<<threshold, name>>, ...>> that x reaches. *)
Band(x, ladder, bottom) ==
  LET reached == {i \in DOMAIN ladder : x >= ladder[i][1]}
  IN IF reached = {} THEN bottom ELSE ladder[Min(reached)][2]

Weight ==
  [response_reliability |-> 15, communication_professionalism |-> 10,
   hiring_consistency |-> 12, ghosting_probability |-> 18, follow_up_reliability |-> 12,
   interview_reliability |-> 10, offer_reliability |-> 8, cancellation_behavior |-> 8,
   candidate_experience |-> 7, recruiter_credibility |-> 10]

(* A signal of the rules cites the first n facts.                          *)
Signal(rating, confidence, facts, n) ==
  [score |-> rating, confidence |-> confidence, evidence |-> FirstFacts(facts, n)]

Has(facts, field) == OfField(facts, field) # {}

-----------------------------------------------------------------------------
(* The signals.  history counts the interactions the recruiter ghosted and *)
(* cancelled.                                                              *)

estimateGhostingProbability(r, history) ==
  LET estimate == 2500
        + (IF r.followUpRequirements.value = {} THEN 1500 ELSE 0)
        + (IF r.urgency.value = "low" THEN 1000 ELSE 0)
        - (IF Urgent(r) THEN 1000 ELSE 0) + 1500 * history.ghosted
  IN IF estimate < 500 THEN 500 ELSE Least(9500, estimate)

(* mutant: many facts count against the recruiter.                         *)
DensityReversed(facts) == 1000 - Least(1000, 100 * Len(facts))

(* The share of ten facts that is known, in thousandths.                   *)
Density(facts) == Least(1000, 100 * Len(facts))

TrustRules(facts, r, profile, history) ==
  LET By(rating, confidence, n) == Signal(rating, confidence, facts, n)
      titled == Has(facts, "recruiter_title")
      placed == Has(facts, "recruiter_organization")
  IN [response_reliability |->
        By(IF Urgent(r) THEN 7500 ELSE 6000, (85 * r.urgency.confidence) \div 100, 2),
      communication_professionalism |->
        By(IF r.communicationIntent.value # "unknown" THEN 7200 ELSE 5000,
           (8 * r.communicationIntent.confidence) \div 10, 3),
      hiring_consistency |->
        By(5000 + (5 * Density(facts)) \div 2, Least(7000, 4500 + 3 * Density(facts)), 3),
      ghosting_probability |-> By(One - estimateGhostingProbability(r, history), 6500, 2),
      follow_up_reliability |->
        By(IF r.followUpRequirements.value # {} THEN 7000 ELSE 4500,
           (75 * r.followUpRequirements.confidence) \div 100, 2),
      interview_reliability |->
        IF Has(facts, "interview_stage") THEN By(7200, 7000, 3) ELSE By(5500, 4500, 3),
      offer_reliability |->
        IF Has(facts, "compensation_mention") THEN By(7800, 7200, 2) ELSE By(5200, 4500, 2),
      cancellation_behavior |->
        IF history.cancelled = 0 THEN By(8000, 5500, 1)
        ELSE By(Max({2000, 8000 - 1500 * history.cancelled}), 7500, 1),
      candidate_experience |->
        By((8 * profile.overallBehaviorScore) \div 10 + 1000,
           (75 * profile.overallConfidence) \div 100, 2),
      recruiter_credibility |->
        By(2000 + (IF titled THEN 3500 ELSE 0) + (IF placed THEN 3500 ELSE 0),
           IF titled /\ placed THEN 7500 ELSE 5000, 3)]

(* An answer must be more confident than the rule; its score is taken as   *)
(* it is, and it cites no fact.                                            *)
mergeSignals(rules, ai) ==
  [d \in DOMAIN rules |->
     IF d \in DOMAIN ai /\ ai[d].confidence > rules[d].confidence
     THEN [score |-> ai[d].value, confidence |-> ai[d].confidence, evidence |-> {}]
     ELSE rules[d]]

-----------------------------------------------------------------------------
(* The scores.                                                             *)

WeightedScore(signals) ==
  Total([d \in DOMAIN signals |-> signals[d].score * Weight[d]])
    \div Total([d \in DOMAIN signals |-> Weight[d]])

(* mutant: the risk starts at another probability than the risk factor.    *)
GhostingRiskLate(probability) ==
  Band(probability, <<<<8000, "very_high">>, <<4000, "moderate">>, <<2000, "low">>>>,
       "very_low")

toGhostingRisk(probability) ==
  Band(probability,
       <<<<8000, "very_high">>, <<6000, "high">>, <<4000, "moderate">>, <<2000, "low">>>>,
       "very_low")

TrustScore(signals) ==
  [score |-> Clamped(WeightedScore(signals)),
   band |-> Band(WeightedScore(signals),
                 <<<<8500, "very_high">>, <<7000, "high">>, <<5000, "moderate">>,
                   <<3000, "low">>>>, "very_low"),
   ghostingProbability |-> One - signals.ghosting_probability.score,
   ghostingRisk |-> toGhostingRisk(One - signals.ghosting_probability.score),
   confidence |-> Mean(signals)]

ReputationScore(facts, signals) ==
  Clamped((TrustScore(signals).score * Least(1000, 500 + 50 * Len(facts))) \div 1000)

(* The category and severity of each risk.                                 *)
RiskFactors(signals) ==
  LET ghosting == signals.ghosting_probability.score
  IN (IF ghosting < 5500
      THEN {<<"ghosting", IF ghosting < 3000 THEN "high" ELSE "medium">>} ELSE {})
     \cup (IF signals.cancellation_behavior.score < 6000
           THEN {<<"cancellation", "medium">>} ELSE {})
     \cup (IF signals.recruiter_credibility.score < 5000
           THEN {<<"credibility", "low">>} ELSE {})

PositiveIndicators(signals) == {d \in DOMAIN signals : signals[d].score >= 6500}
NegativeIndicators(signals) == {d \in DOMAIN signals : signals[d].score <= 4500}

score(facts, r, profile, history, ai) ==
  LET signals == mergeSignals(TrustRules(facts, r, profile, history), ai)
  IN [trustScore |-> TrustScore(signals),
      reputationScore |-> ReputationScore(facts, signals),
      riskFactors |-> RiskFactors(signals),
      positiveIndicators |-> PositiveIndicators(signals),
      negativeIndicators |-> NegativeIndicators(signals),
      evidence |-> UNION {signals[d].evidence : d \in DOMAIN signals}]

-----------------------------------------------------------------------------
(* The predictions.                                                        *)

Prediction(probability, confidence) ==
  [probability |-> Clamped(probability), confidence |-> confidence]

When(condition, amount) == IF condition THEN amount ELSE 0

DecisionRules(facts, r, profile, trust, expertise) ==
  LET intent == r.communicationIntent.value
      interview == Has(facts, "interview_stage")
      pay == Has(facts, "compensation_mention")
      authority == r.decisionAuthority.value
      response == 6000 + When(Urgent(r), 1500)
                    + When(intent \in {"scheduling", "screening"}, 1000)
                    + When(trust.score >= 7000, 500)
      likely == 5000 + When(interview, 2500) + When(Urgent(r), 1000) + When(pay, 500)
      offer == 2500 + When(pay, 2500) + When(authority = "decision_maker", 1000)
                 + When(r.urgency.value = "critical", 1000)
  IN [interview_likelihood |-> Prediction(likely, IF interview THEN 8000 ELSE 5500),
      response_likelihood |-> Prediction(response, (8 * r.urgency.confidence) \div 10),
      follow_up_likelihood |->
        Prediction(5500 + When(r.followUpRequirements.value # {}, 2000)
                        + When(intent \in {"scheduling", "closing"}, 1000),
                   (8 * r.followUpRequirements.confidence) \div 10),
      rejection_probability |->
        Prediction(3000 + When(r.urgency.value = "low", 1000)
                        + When(~interview /\ ~pay, 500) + When(trust.score < 4000, 1000),
                   6000),
      offer_probability |-> Prediction(offer, IF pay THEN 7200 ELSE 5000),
      escalation_probability |->
        Prediction(2000 + When(r.urgency.value = "critical", 3000)
                        + When(Has(facts, "hiring_priority"), 1500)
                        + When(authority = "influencer", 1000), 6000),
      candidate_fit |->
        Prediction(5500 + When(expertise.technicalSpecialization.value # {}, 1000)
                        + When(pay, 500), 6800),
      hiring_confidence |->
        Prediction((likely + offer + Clamped(response)) \div 3,
                   (8 * r.overallConfidence) \div 10),
      engagement_probability |->
        Prediction((6 * profile.overallBehaviorScore + 4 * trust.score) \div 10
                     + When(intent # "unknown", 500),
                   (8 * profile.overallConfidence) \div 10)]

mergePredictions(rules, ai) ==
  [d \in DOMAIN rules |->
     IF d \in DOMAIN ai /\ ai[d].confidence > rules[d].confidence
     THEN Prediction(ai[d].value, ai[d].confidence) ELSE rules[d]]

DecisionStyle(p) ==
  IF p.hiring_confidence.probability > 6500 /\ p.offer_probability.probability > 5000
  THEN "fast_mover"
  ELSE IF p.escalation_probability.probability > 4000 THEN "committee_dependent"
  ELSE IF p.follow_up_likelihood.probability > 6500 THEN "thorough_evaluator"
  ELSE IF p.engagement_probability.probability > 6000 THEN "deadline_driven"
  ELSE "unknown"

Direction(p, d) == IF p[d].probability >= 5500 THEN "positive"
                   ELSE IF p[d].probability <= 3500 THEN "negative" ELSE "neutral"

predict(facts, r, profile, trust, expertise, ai) ==
  LET p == mergePredictions(DecisionRules(facts, r, profile, trust, expertise), ai)
  IN Beside(p, [decisionStyle |-> DecisionStyle(p),
                evidence |-> [d \in DOMAIN p |-> Direction(p, d)],
                overallConfidence |-> Mean(p),
                overallDecisionScore |->
                  Clamped(Total([d \in DOMAIN p |-> p[d].probability]) \div 9)])
=============================================================================
