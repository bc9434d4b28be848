------------------------------ MODULE MCServices ------------------------------
(***************************************************************************)
(* TLC instance of ten machines that share no state: the status of one    *)
(* application, the caches over a user's rows, the companies and           *)
(* opportunities that emails arrive at, the names and lists of companies   *)
(* and recruiters, what is recorded beside an application, the interviews  *)
(* and the patterns mined from them, the engine over one recruiter's       *)
(* facts, the memory and graph it is stored in, the links that carry it to *)
(* other areas, and the calls to the language models.  A behaviour runs    *)
(* one of them, the subject, and leaves the others at their initial state, *)
(* so that one run checks each of them alone.  Three of them are subjects  *)
(* more than once, under several sets of bounds.                           *)
(***************************************************************************)
EXTENDS ApplicationStatus, ReadCaches, Opportunities, Directory, CareerRecords,
        RecruiterIntelligence, RecruiterMemory, EpicLinks, AiPipeline, Interviews

CONSTANT Subjects  \* the machines to run

VARIABLE subject

applicationVars == <<statusVars, cacheVars, oppVars>>

\* The records again, with one upload and a correction of the fact.
Corrected == INSTANCE CareerRecords WITH MaxUploads <- 1, MaxCorrected <- 1

\* The interviews again, with a statement that fails and no pass; and one
\* of them that may be repeated twice, in sight of a pass.
Failing == INSTANCE Interviews WITH MaxFaults <- 1, MaxPasses <- 0
Repeated == INSTANCE Interviews WITH Transcripts <- {"t2"}, MaxFaults <- 2, MaxPasses <- 1

\* The links again, in two domains, with fewer publications.
Wider == INSTANCE EpicLinks WITH LinkDomains <- {"skills", "market"}, MaxPublished <- 2

recordVars == <<directoryVars, careerVars, interviewVars>>
recruiterVars == <<intelVars, memoryVars, linkVars>>
vars == <<subject, applicationVars, recordVars, recruiterVars, aiVars>>

Init ==
  /\ subject \in Subjects
  /\ StatusInit /\ CacheInit /\ OppInit
  /\ DirectoryInit /\ CareerInit /\ InterviewsInit
  /\ IntelInit /\ MemoryInit /\ LinksInit
  /\ AiInit

Applications ==
  \/ subject = "status" /\ StatusNext /\ UNCHANGED <<cacheVars, oppVars>>
  \/ subject = "caches" /\ CacheNext /\ UNCHANGED <<statusVars, oppVars>>
  \/ subject = "opportunities" /\ OppNext /\ UNCHANGED <<statusVars, cacheVars>>

Records ==
  \/ subject = "directory" /\ DirectoryNext /\ UNCHANGED <<careerVars, interviewVars>>
  \/ /\ \/ subject = "career" /\ CareerNext
        \/ subject = "corrections" /\ Corrected!CareerNext
     /\ UNCHANGED <<directoryVars, interviewVars>>
  \/ /\ \/ subject = "interviews" /\ InterviewsNext
        \/ subject = "failures" /\ Failing!InterviewsNext
        \/ subject = "repeats" /\ Repeated!InterviewsNext
     /\ UNCHANGED <<directoryVars, careerVars>>

Recruiters ==
  \/ subject = "engine" /\ IntelNext /\ UNCHANGED <<memoryVars, linkVars>>
  \/ subject = "memory" /\ MemoryNext /\ UNCHANGED <<intelVars, linkVars>>
  \/ /\ \/ subject = "links" /\ LinksNext
        \/ subject = "domains" /\ Wider!LinksNext
     /\ UNCHANGED <<intelVars, memoryVars>>

Next ==
  /\ UNCHANGED subject
  /\ \/ Applications /\ UNCHANGED <<recordVars, recruiterVars, aiVars>>
     \/ Records /\ UNCHANGED <<applicationVars, recruiterVars, aiVars>>
     \/ Recruiters /\ UNCHANGED <<applicationVars, recordVars, aiVars>>
     \/ /\ subject = "calls" /\ AiNext
        /\ UNCHANGED <<applicationVars, recordVars, recruiterVars>>

Spec == Init /\ [][Next]_vars
-----------------------------------------------------------------------------
(* A user's change and two emails about one application.                   *)
MCRequests ==
  [c \in Changes |->
     IF c = "word"
     THEN [source : {"MANUAL"}, status : {"SAVED", "WITHDRAWN"}, at : {2}]
     ELSE [source : {"EMAIL"}, status : {"ASSESSMENT", "REJECTED"},
           at : {IF c = "e1" THEN 1 ELSE 2}]]

(* The first reader and the first writer run in the API.                   *)
MCHome == [x \in Readers \cup Writers |-> IF x \in {"r1", "w1"} THEN "api"
                                                              ELSE "worker"]
MCWrites == [w \in Writers |-> {"status", "action"}]

(* Three emails of one company, one of them with another role.             *)
MCMail ==
  [j \in Jobs |-> [names |-> {"acme"}, domain |-> "acme.com", from |-> "pat",
                   role |-> IF j = "j3" THEN "senior engineer" ELSE "engineer"]]
MCSimilar == [r \in {"engineer", "senior engineer"} |-> {"engineer", "senior engineer"}]

(* Four emails: two companies of one name, one under the domain of another, *)
(* suffixes in two spellings, and a company that has another name.          *)
Mention(name, domain, sender, thread, time) ==
  [name |-> name, domain |-> domain, sender |-> sender, thread |-> thread, time |-> time]

MCMentioned ==
  [m1 |-> Mention(<<"acme", "co", "inc">>, <<"acme", "com">>, "s", "t", 0),
   m3 |-> Mention(<<"acme">>, <<"foo", "com">>, "s", "none", 4),
   m4 |-> Mention(<<"fb", "l.l.c">>, <<"foo", "com">>, "s", "none", 4),
   m5 |-> Mention(<<"facebook", "llc">>, <<"inc", "com">>, "s", "t", 4)]

(* Two interviews that show one competency under two names.  One tells the *)
(* decision at its end, the other at once, beside something without a key. *)
Shows(key, confidence) == [key |-> key, level |-> 8, confidence |-> confidence]

Interview(user, rounds, shown, opening, decision) ==
  [user |-> user, rounds |-> rounds, shown |-> shown, opening |-> opening, decision |-> decision]

MCSaid ==
  [t1 |-> Interview("u1", 1, <<Shows("go", 9)>>,
                    [decision |-> NoDecision, status |-> "SCHEDULED"], "HIRE"),
   t2 |-> Interview("u2", 0, <<Shows(NoKey, 9), Shows("golang", 3)>>,
                    [decision |-> "HIRE", status |-> "COMPLETED"], NoDecision)]
MCAlike == {{"go", "golang"}}

(* Four facts of a message: two titles, a stage and a skill.               *)
Fact(field, text) == [field |-> field, text |-> text]

MCExtracted ==
  { Fact("recruiter_title", "director"), Fact("recruiter_title", "plain"),
    Fact("interview_stage", "phone_screen"), Fact("skill", "figma") }

MCTexts == {"director", "backend", "phone_screen", "offer", "pay", "high", "acme",
            "paris", "engineering", "general", "figma", "plain", "design"}

MCDomainsOf ==
  [t \in MCTexts |-> IF t \in {"backend", "engineering"} THEN {"engineering"}
                     ELSE IF t \in {"figma", "design"} THEN {"design"} ELSE {}]

MCLevelsOf == [t \in MCTexts |-> IF t = "director" THEN {"director"} ELSE {}]

Says(v, c) == [value |-> v, confidence |-> c]

(* The models are silent, or one stage of them answers something extreme.  *)
MCAnswers ==
  { Silent,
    [Silent EXCEPT !.reasoning = [urgency |-> Says("critical", 9000)],
                   !.profile = TRUE],
    [Silent EXCEPT !.reasoning = [communicationIntent |-> Says("negotiating", 3000),
                                  businessDomains |-> Says({"engineering"}, 3000)],
                   !.trust = [ghosting_probability |-> Says(2500, 9000)]],
    [Silent EXCEPT !.behaviour = [communicationStyle |-> Says("formal", 9500)],
                   !.expertise = [hiringDomains |-> Says({"design"}, 9000)]],
    [Silent EXCEPT !.decision = [offer_probability |-> Says(12000, 9500)],
                   !.synthesis = TRUE] }

(* Two calls for one recruiter that tell her stage, and draw one edge.     *)
MCChain == <<"extract">>

Field(type, value, confidence) ==
  [type |-> type, value |-> value, confidence |-> confidence]

MCOutputs ==
  { <<Field("stage", "a", 5000), Field("pay", "x", 3000)>>,
    <<Field("stage", "b", 9000), Field("stage", "a", 6000)>> }

Node(key) == [kind |-> "node", key |-> key]
Line(key, confidence) ==
  [kind |-> "edge", from |-> "hub", key |-> key, rel |-> "technology",
   confidence |-> confidence]

MCDrawings ==
  [r1 |-> << <<Node("hub"), Node("java"), Line("java", 6000)>> >>,
   r2 |-> << <<Node("hub"), Node("java"), Line("java", 9000)>>, <<Node("hub")>> >>]

(* A user, a recruiter and an opportunity, and two questions to the broker, *)
(* one of them about one domain only.                                       *)
MCQueries ==
  { [entity |-> "user", targets |-> {"recruiter", "offer"}, domains |-> {"skills", "market"},
     min |-> 0, max |-> 3],
    [entity |-> "recruiter", targets |-> {"recruiter", "offer"}, domains |-> {"skills"},
     min |-> 5500, max |-> 2] }

(* Three calls to the models, two of them of one batch.                    *)
MCItems == <<"c2", "c3">>
MCTokens == [c \in Calls |-> IF c = "c1" THEN 2 ELSE 1]
MCModelAnswers == { <<9000>>, << >> }
=============================================================================
