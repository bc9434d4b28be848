------------------------------ MODULE Directory ------------------------------
(***************************************************************************)
(* The companies and the recruiters that emails name: how a company's name *)
(* is brought to one form, which aliases lead to it, the recruiter and the *)
(* application that an email leaves there, and what the lists of companies *)
(* and recruiters show of them.  One user, one application per email.      *)
(*                                                                         *)
(* Sources: company.service.ts, recruiter.service.ts.                      *)
(*                                                                         *)
(* A name is a sequence of words in lower case, a domain the sequence of   *)
(* its parts.  A company is known by the domain of its first mention,      *)
(* which is unique.  resolveCompany is one step here: Opportunities runs   *)
(* its statements against each other.  An email calls it twice, before the *)
(* transaction for the application and in it for the recruiter.            *)
(***************************************************************************)
EXTENDS Integers, Sequences, FiniteSets, FiniteSetsExt

CONSTANTS
  Mentions,  \* emails
  Mentioned, \* what each says: name, domain, sender, thread, time
  Unthreaded \* the thread of an email that has none

(* The domain of an email is that of its sender, or is made of the name.   *)
ASSUME DirectoryAssumption ==
  /\ IsFiniteSet(Mentions)
  /\ \A m \in Mentions : /\ Mentioned[m].name \in Seq(STRING)
                         /\ Mentioned[m].domain \in Seq(STRING) \ {<<>>}
                         /\ Mentioned[m].time \in Nat

VARIABLES
  named,   \* the name of each company that has a row, by its domain
  leads,   \* the company that each alias leads to
  calls,   \* an email's call: the company of its application
  linked,  \* the recruiter of each application that is committed
  crossed  \* emails some alias of which moved between their two calls

directoryVars == <<named, leads, calls, linked, crossed>>

MailDomains == {Mentioned[m].domain : m \in Mentions}
-----------------------------------------------------------------------------
(* Names.  A suffix may be written with dots: it is stripped from a name,  *)
(* and stays in an alias, letter by letter.                                *)
LEGAL_SUFFIXES == {"inc", "llc", "co", "gmbh"}
Dotted == {"l.l.c"}

CANONICAL_ALIAS_OVERRIDES ==
  { <<<<"facebook">>, <<"meta">>>>, <<<<"fb">>, <<"meta">>>>,
    <<<<"facebook", "inc">>, <<"meta">>>>, <<<<"meta", "platforms">>, <<"meta">>>>,
    <<<<"google", "llc">>, <<"google">>>> }

(* The words at some places of a name, in their order.                     *)
Sequenced(f) ==
  [k \in 1..Cardinality(DOMAIN f) |->
     f[CHOOSE i \in DOMAIN f : Cardinality({j \in DOMAIN f : j <= i}) = k]]

NonLegal(words) == [i \in {j \in DOMAIN words : words[j] \notin LEGAL_SUFFIXES} |-> words[i]]

normalizeAlias(words) == Sequenced(NonLegal(words))

stripLegalSuffixes(words) ==
  SubSeq(words, 1, Max({0} \cup {i \in DOMAIN words : words[i] \notin LEGAL_SUFFIXES \cup Dotted}))

extractDomainLabel(domain) ==
  IF Len(domain) < 2 THEN domain ELSE <<domain[Len(domain) - 1]>>

Overrides(words) == {o[2] : o \in {x \in CANONICAL_ALIAS_OVERRIDES : x[1] = words}}

resolveCanonicalName(name, domain) ==
  LET label == extractDomainLabel(domain)
      tried == <<normalizeAlias(name), normalizeAlias(domain), normalizeAlias(label)>>
      hits == {i \in DOMAIN tried : Overrides(tried[i]) # {}}
  IN  IF hits # {} THEN CHOOSE c \in Overrides(tried[Min(hits)]) : TRUE
      ELSE IF stripLegalSuffixes(name) # <<>> THEN stripLegalSuffixes(name)
      ELSE IF label # <<>> THEN label ELSE name

lookupCanonicalAliasVariants(canonical) ==
  {o[1] : o \in {x \in CANONICAL_ALIAS_OVERRIDES : normalizeAlias(x[2]) = normalizeAlias(canonical)}}

buildAliasValues(m) ==
  LET domain == Mentioned[m].domain
      canonical == resolveCanonicalName(Mentioned[m].name, domain)
      values == {Mentioned[m].name, canonical, domain, extractDomainLabel(domain)}
                  \cup lookupCanonicalAliasVariants(canonical)
  IN  {normalizeAlias(v) : v \in values} \ {<<>>}
-----------------------------------------------------------------------------
Nowhere == <<>>
Led(alias) == IF alias \in DOMAIN leads THEN leads[alias] ELSE Nowhere

(* The company that a mention finds: any that one of its aliases leads to, *)
(* or the one of its domain, which is created when there is none.          *)
Finds(m) ==
  LET matches == {Led(a) : a \in buildAliasValues(m)} \ {Nowhere}
  IN  IF matches # {} THEN matches ELSE {Mentioned[m].domain}

\* mutant: an alias that has a company keeps it
upsertNewAliases(m, company) ==
  [a \in DOMAIN leads \cup buildAliasValues(m) |->
     IF a \in buildAliasValues(m) \ DOMAIN leads THEN company ELSE leads[a]]

upsertAliases(m, company) ==
  [a \in DOMAIN leads \cup buildAliasValues(m) |->
     IF a \in buildAliasValues(m) THEN company ELSE leads[a]]

Moves(m, other, company) ==
  \E a \in buildAliasValues(m) \cap buildAliasValues(other) : Led(a) # company

resolveCompany(m, company) ==
  /\ company \in Finds(m)
  /\ named' = [named EXCEPT ![company] =
                 resolveCanonicalName(Mentioned[m].name, Mentioned[m].domain)]
  /\ leads' = upsertAliases(m, company)
  /\ crossed' = crossed \cup {o \in Mentions \ {m} : calls[o] # Nowhere
                                /\ o \notin DOMAIN linked /\ Moves(m, o, company)}

CreateApplication(m) ==
  /\ calls[m] = Nowhere
  /\ \E company \in MailDomains :
       resolveCompany(m, company) /\ calls' = [calls EXCEPT ![m] = company]
  /\ UNCHANGED linked

(* syncRecruiterFromEmail: a recruiter is a sender at a company.           *)
syncRecruiterFromEmail(m) ==
  /\ calls[m] # Nowhere /\ m \notin DOMAIN linked
  /\ \E company \in MailDomains :
       /\ resolveCompany(m, company)
       /\ linked' = [o \in DOMAIN linked \cup {m} |->
            IF o = m THEN [company |-> company, email |-> Mentioned[m].sender] ELSE linked[o]]
  /\ UNCHANGED calls

DirectoryInit ==
  /\ named = [d \in MailDomains |-> <<>>]
  /\ leads = [a \in {} |-> Nowhere]
  /\ calls = [m \in Mentions |-> Nowhere]
  /\ linked = [m \in {} |-> Nowhere]
  /\ crossed = {}

DirectoryNext == \E m \in Mentions : CreateApplication(m) \/ syncRecruiterFromEmail(m)

DirectorySpec == DirectoryInit /\ [][DirectoryNext]_directoryVars
-----------------------------------------------------------------------------
(* The lists, of the applications that are committed.                      *)
Committed == DOMAIN linked
ApplicationsOf(company) == {m \in Committed : calls[m] = company}
RecruitersOf(company) == {linked[m] : m \in {o \in Committed : linked[o].company = company}}

listCompanies == {company \in MailDomains : ApplicationsOf(company) # {}}
mapListItem(company) ==
  [applicationCount |-> Cardinality(ApplicationsOf(company)),
   recruiterCount |-> Cardinality(RecruitersOf(company))]

listRecruiters == {linked[m] : m \in Committed}
EmailsOf(recruiter) == {m \in Committed : linked[m] = recruiter}

(* The gaps between the emails of each thread, those without one being put *)
(* together when they came at the same instant.                            *)
Bucket(m) == IF Mentioned[m].thread = Unthreaded
             THEN <<Unthreaded, Mentioned[m].time>> ELSE <<Mentioned[m].thread, 0>>

Times(emails) == {Mentioned[m].time : m \in emails}

\* The time at place k, of the sorted times.
Sorted(emails, k) ==
  Min({t \in Times(emails) : k <= Cardinality({m \in emails : Mentioned[m].time <= t})})

Delta(emails, k) == Sorted(emails, k + 1) - Sorted(emails, k)

InBucket(emails, b) == {m \in emails : Bucket(m) = b}

Gaps(emails) ==
  {g \in {Bucket(m) : m \in emails} \X (1..Cardinality(emails)) :
     g[2] < Cardinality(InBucket(emails, g[1]))}

\* Each minute of a gap, beside it.
Minutes(emails) ==
  {x \in Gaps(emails) \X (1..Max(Times(emails))) :
     x[2] <= Delta(InBucket(emails, x[1][1]), x[1][2])}

calculateAverageResponseTimeMinutes(emails) ==
  IF Gaps(emails) = {} THEN 0
  ELSE Cardinality(Minutes(emails)) \div Cardinality(Gaps(emails))
-----------------------------------------------------------------------------
(* One form: the name of a company is brought to itself again, unless a    *)
(* suffix with dots hid another name for it; and legal suffixes do not     *)
(* tell companies apart.                                                   *)
HasDots(words) == \E i \in DOMAIN words : words[i] \in Dotted

IsHidden(name) ==
  \E m \in Mentions : /\ calls[m] # Nowhere /\ HasDots(Mentioned[m].name)
                      /\ name = stripLegalSuffixes(Mentioned[m].name)

NamesAreCanonical ==
  /\ \A d \in MailDomains :
       named[d] # <<>> => resolveCanonicalName(named[d], <<>>) = named[d] \/ IsHidden(named[d])
  /\ \A m \in DOMAIN linked, s \in LEGAL_SUFFIXES :
       LET said == Mentioned[m]
       IN  resolveCanonicalName(Append(said.name, s), said.domain)
             = resolveCanonicalName(said.name, said.domain)

(* An application is at the company of its recruiter, unless another email *)
(* took an alias of it between the two calls.                              *)
RecruiterIsOfCompany ==
  \A m \in Committed : linked[m].company # calls[m] => m \in crossed

(* A company is listed without a recruiter, or a recruiter of a company    *)
(* that is not listed, only after that.                                    *)
ListsAgree ==
  crossed = {} =>
    /\ \A company \in listCompanies : mapListItem(company).recruiterCount > 0
    /\ {r.company : r \in listRecruiters} = listCompanies

(* The response time of a recruiter is that of the longest thread at most. *)
ResponseIsWithinThreads ==
  \A r \in listRecruiters :
    LET times == Times(EmailsOf(r))
    IN  calculateAverageResponseTimeMinutes(EmailsOf(r)) \in 0..(Max(times) - Min(times))

DirectoryHolds ==
  NamesAreCanonical /\ RecruiterIsOfCompany /\ ListsAgree /\ ResponseIsWithinThreads
=============================================================================
