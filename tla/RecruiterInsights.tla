--------------------------- MODULE RecruiterInsights ---------------------------
(***************************************************************************)
(* What the user is told about a recruiter                                 *)
(* (recruiter-intelligence-engine.service.ts,                              *)
(* recruiter-insights-engine.service.ts): the profile with its plans of    *)
(* updates, then summaries, recommendations and alerts drawn from all the  *)
(* stages before.                                                          *)
(***************************************************************************)
EXTENDS RecruiterTrust

-----------------------------------------------------------------------------
(* The profile.                                                            *)

RelationshipScore(facts) ==
  Clamped(2000 + When(Has(facts, "recruiter_name"), 1500)
               + When(Has(facts, "recruiter_organization"), 1500)
               + When(Has(facts, "interview_stage"), 2500)
               + When(Has(facts, "compensation_mention"), 2000))

RelationshipStrength(facts) ==
  Band(RelationshipScore(facts),
       <<<<8000, "strong">>, <<6000, "established">>, <<3500, "developing">>>>, "weak")

Tone(r) ==
  IF Urgent(r) \/ r.communicationIntent.value \in {"closing", "negotiating"} THEN "direct"
  ELSE IF r.communicationIntent.value = "screening" THEN "formal" ELSE "unknown"

ApproachType(r) ==
  IF r.decisionAuthority.value = "decision_maker" THEN "consultative"
  ELSE IF r.specialization.value = "engineering" THEN "active"
  ELSE IF r.decisionAuthority.value = "influencer" THEN "passive" ELSE "unknown"

Cycles ==
  [initial_screen |-> 1, recruiter_screen |-> 1, phone_screen |-> 1, technical_screen |-> 2,
   technical_interview |-> 3, onsite |-> 4, interview_loop |-> 4, final_round |-> 5,
   offer |-> 6]

(* The stage of the first fact, an unknown one counting two cycles.        *)
InterviewCycles(facts) ==
  LET stages == OfField(facts, "interview_stage")
      stage == facts[Min(stages)].text
  IN IF stages = {} THEN 1 ELSE IF stage \in DOMAIN Cycles THEN Cycles[stage] ELSE 2

(* The version is 2 when the pipeline answered, whatever it answered.      *)
RecruiterProfile(facts, r, answered) ==
  [domains |-> Texts(facts, "hiring_domain") \cup r.businessDomains.value,
   technologies |-> Texts(facts, "technology") \cup r.technicalDomains.value,
   industries |-> IF r.businessDomains.value = {} THEN {"Technology"}
                  ELSE r.businessDomains.value,
   organization |-> Texts(facts, "recruiter_organization"),
   tone |-> Tone(r), approachType |-> ApproachType(r),
   cycles |-> InterviewCycles(facts),
   openings |-> Has(facts, "interview_stage") \/ Has(facts, "hiring_priority"),
   relationship |-> RelationshipStrength(facts),
   fitSignals |-> UNION {OfField(facts, f) : f \in {"technology", "skill",
                           "hiring_location", "compensation_mention"}},
   version |-> IF answered THEN 2 ELSE 1]

(* Every fact and every inference is written again, and none superseded.   *)
MemoryUpdatePlan(facts, inferences) ==
  [write |-> {[kind |-> "fact", of |-> facts[i].field] : i \in DOMAIN facts}
               \cup {[kind |-> "inferred", of |-> a] : a \in Known(inferences)},
   supersede |-> {}]

TimelineUpdatePlan(facts, r) ==
  {"intelligence_profile_generated"}
  \cup {e \in {"interview_stage_detected"} : Has(facts, "interview_stage")}
  \cup {e \in {"compensation_mentioned"} : Has(facts, "compensation_mention")}
  \cup {e \in {"high_urgency_detected"} : Urgent(r)}

-----------------------------------------------------------------------------
(* The alerts: b is the behaviour profile with its trend, t the result of  *)
(* trust, d the decision profile.                                          *)

Alert(type, severity, evidence) ==
  [type |-> type, severity |-> severity, evidence |-> evidence]

AtRisk(t) == t.trustScore.ghostingRisk \in {"high", "very_high"}

RiskAlerts(t, trend) ==
  LET first(n) == {i \in t.evidence : i <= n}
  IN {a \in {Alert("ghosting_risk",
                   IF t.trustScore.ghostingRisk = "very_high" THEN "high" ELSE "medium",
                   first(3))} : AtRisk(t)}
     \cup {a \in {Alert("trust_declining", "medium", first(2))} : t.trustScore.score < 4000}
     \cup {a \in {Alert("engagement_dropping", "medium", {})} : trend = "declining"}

OpportunityAlerts(facts, r, d) ==
  LET offer == d.offer_probability.probability
      cited == FirstFacts(facts, 3)
  IN {a \in {Alert("high_urgency_role",
                   IF r.urgency.value = "critical" THEN "urgent" ELSE "high", cited)} :
        Urgent(r)}
     \cup {a \in {Alert("offer_imminent", IF offer > 6000 THEN "high" ELSE "normal", cited)} :
             offer > 4500}
     \cup {a \in {Alert("interview_window_opening", "high", cited)} :
             d.interview_likelihood.probability > 7000}

-----------------------------------------------------------------------------
(* The summaries and recommendations.                                      *)

DisengagementRisk(t, d) ==
  Clamped(One - (6 * d.engagement_probability.probability + 4 * t.trustScore.score) \div 10)

OpportunityScore(t, d) ==
  (4 * d.interview_likelihood.probability + 3 * d.offer_probability.probability
     + 3 * t.trustScore.score) \div 10

Timing(r) == CASE r.urgency.value = "critical" -> "24 hours"
               [] r.urgency.value = "high" -> "48 hours"
               [] OTHER -> "5 business days"

(* A reminder is added where the recruiter may ghost.                      *)
FollowUpRecommendations(r, t) ==
  {[action |-> "follow_up", timing |-> Timing(r)]}
  \cup {f \in {[action |-> "reminder", timing |-> "48 hours"]} : AtRisk(t)}

RelationshipRecommendations(t, d) ==
  [strategy |-> IF t.trustScore.score >= 6500 THEN "deepen" ELSE "establish",
   nextSteps |-> {s \in {"momentum"} : d.engagement_probability.probability > 6500}
                   \cup {s \in {"referrals"} : t.trustScore.score >= 7000},
   longTerm |-> IF d.engagement_probability.probability > 6000 THEN "invest" ELSE "touchpoints",
   riskMitigation |-> {s \in {"paper_trail", "reminders"} : AtRisk(t)}]

CandidateRecommendations(d, expertise) ==
  {[about |-> "fit", strong |-> d.candidate_fit.probability > 6500]}
  \cup {[about |-> domain, strong |-> FALSE] : domain \in expertise.hiringDomains.value}

(* An insight that was drawn, with the facts it cites.                     *)
Insight(category, evidence) == [category |-> category, evidence |-> evidence]

(* The answers of the synthesis cite nothing.                              *)
AllInsights(facts, risks, opportunities, answered) ==
  {Insight("recruiter_summary", FirstFacts(facts, 5)),
   Insight("communication_summary", FirstFacts(facts, 3))}
  \cup {Insight(a.type, a.evidence) : a \in risks \cup opportunities}
  \cup {i \in {Insight("ai_synthesis", {})} : answered}

OverallConfidence(facts, r, b) ==
  IF facts = <<>> THEN 5000
  ELSE ((85 * r.overallConfidence) \div 100 + 2 * b.overallConfidence
          + (8 * r.urgency.confidence) \div 10) \div 4

generate(facts, r, b, trend, t, expertise, d, answered) ==
  LET risks == RiskAlerts(t, trend)
      opportunities == OpportunityAlerts(facts, r, d)
  IN [riskAlerts |-> risks,
      opportunityAlerts |-> opportunities,
      followUps |-> FollowUpRecommendations(r, t),
      relationship |-> RelationshipRecommendations(t, d),
      candidate |-> CandidateRecommendations(d, expertise),
      disengagement |-> DisengagementRisk(t, d),
      opportunityScore |-> OpportunityScore(t, d),
      insights |-> AllInsights(facts, risks, opportunities, answered),
      confidence |-> OverallConfidence(facts, r, b)]
=============================================================================
