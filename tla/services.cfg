CONSTANTS
  Subjects = {"status", "caches", "opportunities", "directory", "career", "corrections", "interviews", "failures", "repeats", "engine", "memory", "links", "domains", "calls"}
  Changes = {"word", "e1", "e2"}
  Requests <- MCRequests
  Start = "APPLIED"
  Retries = 1
  Users = {"u1"}
  Processes = {"api", "worker"}
  Readers = {"r1", "r2"}
  Writers = {"w1", "w2"}
  Home <- MCHome
  Writes <- MCWrites
  Dashboards = {"summary"}
  Analytics = {"funnel"}
  RedisFails = TRUE
  Jobs = {"j1", "j2", "j3"}
  Mail <- MCMail
  Similar <- MCSimilar
  Attempts = 3
  Mentions = {"m1", "m3", "m4", "m5"}
  Mentioned <- MCMentioned
  Unthreaded = "none"
  Apps = {"a1", "a2"}
  Moods = {"OFFER"}
  MaxUploads = 2
  MaxCorrected = 0
  DomainsOf <- MCDomainsOf
  LevelsOf <- MCLevelsOf
  Extracted <- MCExtracted
  MaxFacts = 2
  Answers <- MCAnswers
  MaxOutcomes = 1
  MaxRuns = 2
  Runs = {"r1", "r2"}
  Chain <- MCChain
  Outputs <- MCOutputs
  Drawings <- MCDrawings
  MaxEvidence = 2
  Entities = {"user", "recruiter", "offer"}
  LinkDomains = {"skills"}
  LinkConfidences = {2000, 6000}
  Threshold = 3000
  MaxLinks = 1
  MaxMessages = 2
  Ttl = 0
  Queries <- MCQueries
  MaxPublished = 3
  Calls = {"c1", "c2", "c3"}
  Items <- MCItems
  Concurrency = 1
  Tokens <- MCTokens
  MaxCalls = 1
  MaxTokens = 2
  MaxAttempts = 2
  Minute = 2
  ModelAnswers <- MCModelAnswers
  Transcripts = {"t1", "t2"}
  Said <- MCSaid
  Alike <- MCAlike
  MIN_COHORT_SIZE = 2
  Miners = {"m1"}
  MaxPasses = 2
  MaxFaults = 0
SPECIFICATION Spec
CHECK_DEADLOCK FALSE
INVARIANTS StatusIsOutcome ReadYourWrites RacesAreContained DirectoryHolds RecordsAgree InterviewsHold AlarmsAgree MemoryIsWhole LinksHold CallsAreBooked
PROPERTY EvidenceNeverHurts
