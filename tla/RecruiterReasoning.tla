-------------------------- MODULE RecruiterReasoning --------------------------
(***************************************************************************)
(* What the recruiter's messages say about the recruiter                   *)
(* (recruiter-reasoning-enrichment.service.ts): every attribute is         *)
(* inferred from the extracted facts by rules, an AI answer replaces an    *)
(* inference that is not more confident, and an attribute nothing speaks   *)
(* of has a default.                                                       *)
(*                                                                         *)
(* Facts are a sequence of [field, text] records in the order they were    *)
(* extracted; a text stands for the keyword the rules look for in it.  A   *)
(* fact is identified by its position.  Confidences and scores are in      *)
(* ten-thousandths, so that 0.72 is 7200.                                  *)
(***************************************************************************)
EXTENDS Integers, Sequences, FiniteSets, FiniteSetsExt

One == 10000

(* A number brought into 0 .. 1.                                           *)
Clamped(x) == IF x < 0 THEN 0 ELSE IF x > One THEN One ELSE x

Least(x, y) == IF x < y THEN x ELSE y

Member(S) == CHOOSE x \in S : TRUE

(* The sum of the values of a function, one after the other.               *)
Total(f) ==
  LET sum[S \in SUBSET DOMAIN f] ==
        IF S = {} THEN 0 ELSE f[Member(S)] + sum[S \ {Member(S)}]
  IN sum[DOMAIN f]

Mean(f) == Total([a \in DOMAIN f |-> f[a].confidence]) \div Cardinality(DOMAIN f)

(* What f says, and beside it what g does.                                 *)
Beside(f, g) ==
  [x \in DOMAIN f \cup DOMAIN g |-> IF x \in DOMAIN f THEN f[x] ELSE g[x]]

OfField(facts, field) == {i \in DOMAIN facts : facts[i].field = field}
Texts(facts, field) == {facts[i].text : i \in OfField(facts, field)}
FirstFacts(facts, n) == {i \in DOMAIN facts : i <= n}

Inference(value, confidence, evidence) ==
  [value |-> value, confidence |-> confidence, evidence |-> evidence]

(* The attribute has no inference: nothing has confidence 0.               *)
None == Inference("none", 0, {})

-----------------------------------------------------------------------------
(* The deterministic rules, one per attribute.                             *)

(* The first row of a table <<words, value, confidence>> that holds one of *)
(* the words that were said; 0 when none does.                             *)
FirstRow(table, said) ==
  LET rows == {i \in DOMAIN table : table[i][1] \cap said # {}}
  IN IF rows = {} THEN 0 ELSE Min(rows)

SeniorityTable ==
  <<<<{"vp", "chief", "cto", "ceo", "cpo", "executive"}, "executive", 9200>>,
    <<{"director", "head", "principal"}, "lead", 8800>>,
    <<{"senior", "lead", "staff"}, "senior", 8500>>,
    <<{"junior", "associate", "entry"}, "junior", 8200>>>>

Seniority(facts) ==
  LET title == OfField(facts, "recruiter_title")
      row == FirstRow(SeniorityTable, Texts(facts, "recruiter_title"))
  IN IF title = {} THEN None
     ELSE IF row = 0 THEN Inference("mid", 6000, title)
     ELSE Inference(SeniorityTable[row][2], SeniorityTable[row][3], title)

SpecializationTable ==
  <<<<{"engineer", "backend", "frontend", "fullstack", "devops", "platform", "infra"},
      "engineering", 8500>>,
    <<{"product", "pm"}, "product", 8000>>,
    <<{"design", "ux", "ui", "designer"}, "design", 7800>>,
    <<{"sales", "account", "revenue", "quota"}, "sales", 7800>>,
    <<{"finance", "accounting", "controller", "cfo"}, "finance", 7800>>>>

(* A skill can decide the value, and is never part of the evidence.        *)
Specialization(facts) ==
  LET tech == OfField(facts, "technology")
      row == FirstRow(SpecializationTable,
               UNION {Texts(facts, f) : f \in {"technology", "hiring_domain", "skill"}})
      As(value, confidence) ==
        Inference(value, confidence, tech \cup OfField(facts, "hiring_domain"))
  IN IF Cardinality(tech) >= 2 THEN As("engineering", 8500)
     ELSE IF row # 0 THEN As(SpecializationTable[row][2], SpecializationTable[row][3])
     ELSE IF tech # {} THEN As("engineering", 6800) ELSE None

(* A list of what the facts of one field name.                             *)
Listed(facts, field, confidence) ==
  IF OfField(facts, field) = {} THEN None
  ELSE Inference(Texts(facts, field), confidence, OfField(facts, field))

DecisionAuthority(facts) ==
  LET pay == OfField(facts, "compensation_mention")
      leads == Texts(facts, "recruiter_title")
                 \cap {"senior", "lead", "principal", "head", "director", "vp"} # {}
  IN IF pay = {} THEN None
     ELSE IF leads
     THEN Inference("decision_maker", 7800, pay \cup OfField(facts, "recruiter_title"))
     ELSE Inference("influencer", 6200, pay)

Urgency(facts) ==
  LET stages == OfField(facts, "interview_stage")
      pressing == \/ "high" \in Texts(facts, "hiring_priority")
                  \/ Texts(facts, "interview_stage")
                       \cap {"final_round", "offer", "onsite"} # {}
  IN IF pressing
     THEN Inference("high", 8000, stages \cup OfField(facts, "hiring_priority"))
     ELSE IF stages # {} THEN Inference("medium", 6500, stages)
     ELSE Inference("low", 5500, FirstFacts(facts, 2))

StageIntent ==
  [phone_screen |-> <<"screening", 8800>>, recruiter_screen |-> <<"screening", 8800>>,
   technical_screen |-> <<"screening", 8200>>, initial_screen |-> <<"screening", 8000>>,
   technical_interview |-> <<"scheduling", 8000>>, onsite |-> <<"scheduling", 8200>>,
   interview_loop |-> <<"scheduling", 7800>>, final_round |-> <<"negotiating", 7500>>,
   offer |-> <<"closing", 9000>>]

(* The stage of the first fact alone decides the intent.                   *)
CommunicationIntent(facts) ==
  LET stages == OfField(facts, "interview_stage")
      stage == facts[Min(stages)].text
  IN IF stages = {} \/ stage \notin DOMAIN StageIntent THEN None
     ELSE Inference(StageIntent[stage][1], StageIntent[stage][2], stages)

FollowUpRequirements(facts) ==
  LET asks == {f \in {"interview_stage", "compensation_mention",
                      "recruiter_responsibility"} : OfField(facts, f) # {}}
  IN IF asks = {} THEN None
     ELSE Inference(asks, 7200, UNION {OfField(facts, f) : f \in asks})

inferDeterministic(facts) ==
  [seniority |-> Seniority(facts),
   specialization |-> Specialization(facts),
   hiringFocus |-> Listed(facts, "hiring_domain", 7500),
   technicalDomains |-> Listed(facts, "technology", 8200),
   businessDomains |-> None,
   geographicResponsibility |-> Listed(facts, "hiring_location", 7000),
   decisionAuthority |-> DecisionAuthority(facts),
   likelyHiringManagerRelationships |-> None,
   candidateOwnership |-> None,
   communicationIntent |-> CommunicationIntent(facts),
   urgency |-> Urgency(facts),
   followUpRequirements |-> FollowUpRequirements(facts)]

-----------------------------------------------------------------------------
(* The AI answer: a function from some attributes to [value, confidence];  *)
(* no attribute when the pipeline failed.                                  *)

(* The answer wins a tie, and takes over the evidence of the rule.         *)
mergeInferences(rules, ai) ==
  [a \in DOMAIN rules |->
     IF a \in DOMAIN ai /\ ai[a].confidence >= rules[a].confidence
     THEN Inference(ai[a].value, ai[a].confidence, rules[a].evidence)
     ELSE rules[a]]

Default ==
  [seniority |-> "mid", specialization |-> "general", hiringFocus |-> {},
   technicalDomains |-> {}, businessDomains |-> {}, geographicResponsibility |-> {},
   decisionAuthority |-> "unknown", likelyHiringManagerRelationships |-> {},
   candidateOwnership |-> {}, communicationIntent |-> "unknown", urgency |-> "low",
   followUpRequirements |-> {}]

Known(inferences) == {a \in DOMAIN inferences : inferences[a].confidence > 0}

buildResult(inferences) ==
  Beside([a \in DOMAIN inferences |->
            IF a \in Known(inferences) THEN inferences[a] ELSE Inference(Default[a], 4000, {})],
         [overallConfidence |-> Mean([a \in Known(inferences) |-> inferences[a]])])

infer(facts, ai) == buildResult(mergeInferences(inferDeterministic(facts), ai))

Urgent(r) == r.urgency.value \in {"high", "critical"}
=============================================================================
