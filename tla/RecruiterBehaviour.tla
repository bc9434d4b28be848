-------------------------- MODULE RecruiterBehaviour --------------------------
(***************************************************************************)
(* How the recruiter behaves, and what the recruiter is expert in          *)
(* (recruiter-behavioral-intelligence.service.ts,                          *)
(* recruiter-specialization-intelligence.service.ts): profiles of          *)
(* dimensions, each with a confidence, compared with the previous profile. *)
(***************************************************************************)
EXTENDS RecruiterReasoning

CONSTANTS
  DomainsOf,      \* DomainsOf[text]: the hiring domains whose keywords it holds
  LevelsOf        \* LevelsOf[text]: the seniorities whose keywords it holds

Dimension(value, confidence) == [value |-> value, confidence |-> confidence]

(* groupFacts: the number of distinct fields.                              *)
FieldCount(facts) == Cardinality({facts[i].field : i \in DOMAIN facts})

-----------------------------------------------------------------------------
(* The dimensions the rules know.                                          *)

CommunicationStyle(r) ==
  IF Urgent(r) THEN "direct"
  ELSE IF r.communicationIntent.value = "screening" THEN "formal"
  ELSE IF r.communicationIntent.value \in {"closing", "negotiating"} THEN "consultative"
  ELSE "unknown"

Engagement(n) ==
  IF n >= 8 THEN "highly_engaged" ELSE IF n >= 5 THEN "active"
  ELSE IF n > 2 THEN "moderate" ELSE "passive"

FollowUpBehaviour(r) ==
  CASE Cardinality(r.followUpRequirements.value) > 1 -> "consistently_follows_up"
    [] Cardinality(r.followUpRequirements.value) = 1 -> "sometimes_follows_up"
    [] r.followUpRequirements.value = {} -> "unknown"

DecisionPattern(r) ==
  IF Urgent(r) \/ r.decisionAuthority.value = "decision_maker" THEN "fast_decisive"
  ELSE IF r.decisionAuthority.value = "influencer" THEN "committee_driven" ELSE "unknown"

Responsiveness(r) ==
  CASE r.urgency.value = "critical" -> "very_fast"
    [] r.urgency.value = "high" -> "fast"
    [] r.urgency.value = "low" -> "slow"
    [] OTHER -> "moderate"

BehaviourRules(facts, r) ==
  LET n == FieldCount(facts)
  IN [communicationStyle |->
        Dimension(CommunicationStyle(r), (7 * r.communicationIntent.confidence) \div 10 + 1000),
      hiringUrgency |-> Dimension(r.urgency.value, r.urgency.confidence),
      recruiterEngagement |-> Dimension(Engagement(n), Least(7500, 4000 + 500 * n)),
      preferredCommunicationChannels |-> Dimension("email", 6500),
      followUpBehavior |->
        Dimension(FollowUpBehaviour(r), (8 * r.followUpRequirements.confidence) \div 10),
      decisionMakingPatterns |->
        Dimension(DecisionPattern(r), (75 * r.decisionAuthority.confidence) \div 100),
      recruiterConsistency |->
        Dimension(IF n >= 6 THEN "consistent" ELSE "somewhat_consistent",
                  Least(7000, 4500 + 400 * n)),
      responseQuality |->
        Dimension(IF r.overallConfidence >= 8000 THEN "good" ELSE "adequate",
                  (85 * r.overallConfidence) \div 100),
      responsiveness |-> Dimension(Responsiveness(r), (8 * r.urgency.confidence) \div 10)]

(* The dimensions only an AI answer can give, with their defaults.         *)
BehaviourDefaults ==
  [recruiterPreferences |-> Dimension("none", 4000),
   schedulingBehavior |-> Dimension("unknown", 4000),
   activityPatterns |-> Dimension("business_hours", 4500),
   responsivenessTrends |-> Dimension("unknown", 3500)]

(* An answer about the style must be more confident than the rule.         *)
buildProfile(facts, r, ai) ==
  LET rules == BehaviourRules(facts, r)
      all == Beside(rules, BehaviourDefaults)
      dims == [d \in DOMAIN all |->
                 CASE d \in DOMAIN ai /\ d \in DOMAIN BehaviourDefaults -> ai[d]
                   [] /\ d \in DOMAIN ai /\ d = "communicationStyle"
                      /\ ai[d].confidence > rules[d].confidence -> ai[d]
                   [] OTHER -> all[d]]
  IN Beside(dims, [overallConfidence |-> Mean(dims),
                   overallBehaviorScore |-> Least(One, (11 * Mean(dims)) \div 10)])

-----------------------------------------------------------------------------
(* The comparison with the previous profile: prior is empty on a first     *)
(* observation, and holds the previous profile otherwise.                  *)

Compared == {"hiringUrgency", "recruiterEngagement", "communicationStyle",
             "responsiveness", "recruiterConsistency"}

Changed(profile, prior) ==
  {d \in Compared : \E p \in prior : p[d].value # profile[d].value}
Improving(profile, prior) ==
  {d \in Changed(profile, prior) :
     \E p \in prior : profile[d].confidence > p[d].confidence}

(* A dimension that changed is declining unless it is more confident.      *)
OverallTrend(profile, prior) ==
  LET up == Improving(profile, prior)
      down == Changed(profile, prior) \ up
  IN IF prior = {} THEN "insufficient_data"
     ELSE IF up # {} /\ down # {} THEN "mixed"
     ELSE IF up # {} THEN "improving"
     ELSE IF down # {} THEN "declining" ELSE "stable"

(* The dimensions of which the timeline records an event.                  *)
BehaviourEvents(profile, prior) ==
  IF prior = {} THEN {"communicationStyle", "hiringUrgency", "recruiterEngagement"}
  ELSE Changed(profile, prior) \cap {"hiringUrgency", "recruiterEngagement"}

-----------------------------------------------------------------------------
(* Expertise.                                                              *)

SaidBy(facts, r) == {facts[i].text : i \in DOMAIN facts}
                      \cup r.hiringFocus.value \cup r.technicalDomains.value

DomainsIn(texts) == LET found == UNION {DomainsOf[t] : t \in texts}
                  IN IF found = {} THEN {"general"} ELSE found

Levels(texts) == LET found == UNION {LevelsOf[t] : t \in texts}
                 IN IF found = {} THEN {"mixed"} ELSE found

HiringLevelOf(texts) ==
  IF texts \cap {"manager", "director"} # {} THEN "manager"
  ELSE IF Levels(texts) \cap {"vp", "c_level"} # {} THEN "executive"
  ELSE IF Levels(texts) \cap {"junior", "mid", "senior", "staff", "principal", "lead"} # {}
  THEN "individual_contributor" ELSE "mixed"

ExpertiseRules(facts, r) ==
  LET texts == SaidBy(facts, r)
      tech == Texts(facts, "technology")
      places == Texts(facts, "hiring_location") \cup Texts(facts, "recruiter_office")
      titled == OfField(facts, "recruiter_title") \cup OfField(facts, "hiring_domain")
  IN [hiringDomains |-> Dimension(DomainsIn(texts), 7200),
      technicalSpecialization |->
        Dimension(tech \cup r.technicalDomains.value, IF tech # {} THEN 8200 ELSE 5500),
      businessSpecialization |->
        Dimension(r.businessDomains.value, r.businessDomains.confidence),
      seniorityFocus |->
        Dimension(Levels(texts), IF titled # {} THEN 7500 ELSE 5500),
      organizationFocus |-> Dimension("mixed", 4000),
      geography |-> Dimension(IF places = {} THEN {"unknown"} ELSE places,
                              IF places = {} THEN 4000 ELSE 7800),
      hiringLevel |-> Dimension(HiringLevelOf(texts), 6500),
      roleFamilies |-> Dimension(r.hiringFocus.value, r.hiringFocus.confidence),
      technologyStacks |-> Dimension(tech, IF tech # {} THEN 7200 ELSE 4000),
      industryExpertise |->
        Dimension(DomainsIn(r.businessDomains.value \cup DomainsIn(texts)), 6000)]

(* The answer may replace two dimensions; the overall confidence stays the *)
(* one of the rules.  The version counts the profiles.                     *)
mergeProfiles(facts, r, ai, version) ==
  LET rules == ExpertiseRules(facts, r)
  IN Beside([d \in DOMAIN rules |->
               IF /\ d \in DOMAIN ai /\ d \in {"hiringDomains", "technologyStacks"}
                  /\ ai[d].confidence > rules[d].confidence
               THEN ai[d] ELSE rules[d]],
            [overallConfidence |-> Mean(rules), version |-> version + 1])
=============================================================================
