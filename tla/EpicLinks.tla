------------------------------ MODULE EpicLinks -------------------------------
(***************************************************************************)
(* Intelligence shared between the product's areas ("epics"): an in-memory *)
(* store of links between entities with an index by entity and a log of    *)
(* messages, and the broker that answers a query with the links of an      *)
(* entity enriched with what is one hop further away.                      *)
(*                                                                         *)
(* A link's id is a fresh one-element tuple, an edge is the triple of its  *)
(* ends and its domain.  Confidences are in ten-thousandths.               *)
(***************************************************************************)
EXTENDS Integers, FiniteSets, Sequences, FiniteSetsExt, Functions

CONSTANTS
  Entities,        \* epic:id pairs
  LinkDomains,     \* IntelligenceDomain
  LinkConfidences, \* the confidences publishers give
  Threshold,       \* confidenceThreshold
  MaxLinks,        \* maxLinksPerEntity
  MaxMessages,     \* maxMessagesPerEntity
  Ttl,             \* defaultTtlMs, in ticks
  Queries,         \* [entity, targets, domains, min, max]: what the broker is asked
  MaxPublished     \* bound: publications in a behaviour

ASSUME LinksAssumption ==
  /\ LinkConfidences \subseteq Int /\ Ttl \in Nat
  /\ \A q \in Queries : q.entity \in Entities /\ q.min \in Int /\ q.max \in Nat

VARIABLES links,      \* linkId -> the link and its age in ticks
          entityLinks,\* entity -> the ids of its links
          messages,   \* the log: the publications still kept, by their numbers
          published,  \* how many links were ever created
          broker      \* the query being answered

linkVars == <<links, entityLinks, messages, published, broker>>

Edge(l) == <<l.from, l.to, l.domain>>

Quiet == [phase |-> "idle"]

LinksInit ==
  /\ links = [i \in {} |-> << >>]
  /\ entityLinks = [e \in Entities |-> {}]
  /\ messages = {}
  /\ published = 0
  /\ broker = Quiet

WithoutLinks(f, ids) == [i \in DOMAIN f \ ids |-> f[i]]

(* A link to replace is looked up by its edge in a map whose keys are ids.  *)
deduplicateLink(edge) == IF edge \in DOMAIN links THEN {edge} ELSE {}

addEntityLink(index, es, id) ==
  [e \in Entities |-> IF e \in es THEN index[e] \cup {id} ELSE index[e]]

(* mutant: only the source's index forgets the links *)
removeEntityLinkAtSource(index, ids) ==
  [e \in Entities |-> index[e] \ { i \in ids : links[i].from = e }]

removeEntityLink(index, ids) == [e \in Entities |-> index[e] \ ids]

(* The log of an entity with many links loses its oldest messages.          *)
About(m, e) == m.from = e \/ m.to = e

enforceEntityMessageLimit(log, index, e) ==
  LET mine   == { m.no : m \in { m \in log : About(m, e) } }
      excess == Cardinality(mine) - MaxMessages
      oldest == { n \in mine : Cardinality({ k \in mine : k < n }) < excess }
  IN  IF Cardinality(index[e]) <= MaxLinks THEN log
      ELSE { m \in log : m.no \notin oldest }

(* publish(): too faint a link is handed back and not kept; one that has a  *)
(* stronger twin gives way to it; any other is stored, indexed under both   *)
(* its ends and logged.                                                     *)
publish(from, to, domain, confidence) ==
  LET id    == <<published + 1>>
      twins == deduplicateLink(<<from, to, domain>>)
      index == addEntityLink(removeEntityLink(entityLinks, twins), {from, to}, id)
      log   == messages \cup {[no |-> published + 1, from |-> from, to |-> to,
                               domain |-> domain, confidence |-> confidence]}
  IN  IF confidence < Threshold \/ \E i \in twins : links[i].confidence >= confidence
        THEN UNCHANGED linkVars
        ELSE /\ links' = [i \in (DOMAIN links \ twins) \cup {id} |->
                  IF i = id THEN [from |-> from, to |-> to, domain |-> domain,
                                  confidence |-> confidence, age |-> 0] ELSE links[i]]
             /\ entityLinks' = index
             /\ messages' = enforceEntityMessageLimit(
                              enforceEntityMessageLimit(log, index, from), index, to)
             /\ published' = published + 1
             /\ UNCHANGED broker

Publish ==
  /\ published < MaxPublished
  /\ \E from \in Entities, domain \in LinkDomains, confidence \in LinkConfidences :
       \E to \in Entities \ {from} : publish(from, to, domain, confidence)

(* Links age; only the sweep removes the expired ones, and no message.      *)
isExpired(l) == l.age > Ttl

removeExpiredLinks ==
  LET expired == { i \in DOMAIN links : isExpired(links[i]) }
  IN  /\ expired # {}
      /\ links' = WithoutLinks(links, expired)
      /\ entityLinks' = removeEntityLink(entityLinks, expired)
      /\ UNCHANGED <<messages, published, broker>>

LinksTick ==
  /\ \E i \in DOMAIN links : ~isExpired(links[i])
  /\ links' = [i \in DOMAIN links |->
                 [links[i] EXCEPT !.age = IF isExpired(links[i]) THEN @ ELSE @ + 1]]
  /\ UNCHANGED <<entityLinks, messages, published, broker>>
-----------------------------------------------------------------------------
(* What a query and a bundle read.                                          *)

(* The elements of a set in an order, each at the place its rank gives it.  *)
Arranged(S, before) ==
  [k \in 1 .. Cardinality(S) |->
     CHOOSE x \in S : Cardinality({ y \in S : <<y, x>> \in before }) = k - 1]

(* The entries of a list at some of its places, which stay in order.        *)
Chosen(ls, places) ==
  LET order == Arranged(places, { x \in places \X places : x[1] < x[2] })
  IN  [k \in DOMAIN order |-> ls[order[k]]]

getLinksForEntity(e) ==
  LET ids == entityLinks[e] \cap DOMAIN links
      order == Arranged(ids, { x \in ids \X ids : x[1][1] < x[2][1] })
  IN  [k \in DOMAIN order |-> links[order[k]]]

Matches(m, l) == m.from = l.from /\ m.to = l.to

messagesForLinks(ls) ==
  LET First(m) == Min({ k \in DOMAIN ls : Matches(m, ls[k]) })
      found == { m \in messages : \E k \in DOMAIN ls : Matches(m, ls[k]) }
  IN  Arranged(found, { x \in found \X found :
        \/ First(x[1]) < First(x[2])
        \/ First(x[1]) = First(x[2]) /\ x[1].no < x[2].no })

(* Strongest first, in the order found among equals, the first n of them.   *)
Strongest(ls, n) ==
  LET order == Arranged(DOMAIN ls, { x \in (DOMAIN ls) \X (DOMAIN ls) :
                 \/ ls[x[1]].confidence > ls[x[2]].confidence
                 \/ ls[x[1]].confidence = ls[x[2]].confidence /\ x[1] < x[2] })
  IN  [k \in 1 .. Min({n, Len(ls)}) |-> ls[order[k]]]

query(q) ==
  LET near == getLinksForEntity(q.entity)
  IN  Strongest(Chosen(near, { k \in DOMAIN near :
                  /\ near[k].to \in q.targets /\ near[k].confidence >= q.min
                  /\ near[k].domain \in q.domains }), q.max)
-----------------------------------------------------------------------------
(* The broker: the direct links, then four passes that each look at the     *)
(* bundle of the far end of every link found so far.  Between two awaits    *)
(* the store may change.                                                    *)

Passes == <<"graph", "semantic", "memory", "timeline">>

OneHop == 1500          \* confidenceDecayPerHop

(* The part of a confidence a pass keeps, rounded to four digits.           *)
Kept(pass, confidence) ==
  LET thousandths == CASE pass = "graph"    -> 850
                       [] pass = "semantic" -> 900
                       [] pass = "memory"   -> 925
                       [] pass = "timeline" -> 955
  IN  (confidence * thousandths + 500) \div 1000

FoundLink(l, how) == [from |-> l.from, to |-> l.to, domain |-> l.domain,
                  confidence |-> Kept(how, l.confidence), how |-> how]

(* What a pass may take from the bundle of a link's far end.                *)
Offered(pass, l) ==
  LET near == getLinksForEntity(l.to)
      logged == messagesForLinks(near)
  IN  CASE pass = "graph"    -> Chosen(near, { k \in DOMAIN near : near[k].confidence >= OneHop })
        [] pass = "semantic" -> Chosen(near, { k \in DOMAIN near : near[k].domain = l.domain })
        [] OTHER -> Chosen(logged, { k \in DOMAIN logged : logged[k].confidence >= OneHop })

(* One link of a pass: of what is strong enough the first of each edge that *)
(* was not seen before is added, weakened.                                  *)
Enrich(pass, q, existing, results, l) ==
  LET offered == Offered(pass, l)
      seen == { Edge(x) : x \in Range(existing \o results) }
      strong == { k \in DOMAIN offered : /\ Kept(pass, offered[k].confidence) >= q.min
                                         /\ Edge(offered[k]) \notin seen }
      fresh == Chosen(offered, { k \in strong :
                 \A j \in strong : Edge(offered[j]) = Edge(offered[k]) => j >= k })
  IN  results \o [k \in DOMAIN fresh |-> FoundLink(fresh[k], pass)]

(* A pass ends at the last link, or when the answer is full.                *)
PassOver(b) == \/ b.at > Len(b.enriched)
               \/ Len(b.results) >= b.query.max - Len(b.enriched)

Direct(l) == [from |-> l.from, to |-> l.to, domain |-> l.domain,
              confidence |-> l.confidence, how |-> "direct"]

Inquire(q) ==
  /\ broker = Quiet
  /\ LET direct == query(q)
     IN  broker' = [phase |-> "pass", pass |-> 1, query |-> q, at |-> 1,
                    enriched |-> [k \in DOMAIN direct |-> Direct(direct[k])],
                    results |-> << >>, chain |-> Len(direct)]
  /\ UNCHANGED <<links, entityLinks, messages, published>>

(* One await of a pass: the bundle of the next link's far end.              *)
Visit ==
  /\ broker.phase = "pass"
  /\ ~PassOver(broker)
  /\ LET found == Enrich(Passes[broker.pass], broker.query, broker.enriched,
                         broker.results, broker.enriched[broker.at])
     IN  broker' = [broker EXCEPT !.at = broker.at + 1, !.results = found,
                      !.chain = broker.chain + Len(found) - Len(broker.results)]
  /\ UNCHANGED <<links, entityLinks, messages, published>>

(* The pass is over: the next one follows while there is room, and then the *)
(* links found are sorted and cut to the answer.                            *)
EndPass ==
  /\ broker.phase = "pass"
  /\ PassOver(broker)
  /\ LET found == broker.enriched \o broker.results
         more  == broker.pass < Len(Passes) /\ Len(found) < broker.query.max
     IN  broker' = IF more
           THEN [broker EXCEPT !.pass = broker.pass + 1, !.at = 1, !.enriched = found,
                               !.results = << >>]
           ELSE [broker EXCEPT !.phase = "done", !.pass = 0, !.at = 0, !.results = << >>,
                               !.enriched = Strongest(found, broker.query.max)]
  /\ UNCHANGED <<links, entityLinks, messages, published>>

Answered ==
  /\ broker.phase = "done"
  /\ broker' = Quiet
  /\ UNCHANGED <<links, entityLinks, messages, published>>

LinksNext ==
  \/ Publish
  \/ removeExpiredLinks
  \/ LinksTick
  \/ \E q \in Queries : Inquire(q)
  \/ Visit
  \/ EndPass
  \/ Answered

LinksSpec == LinksInit /\ [][LinksNext]_linkVars
-----------------------------------------------------------------------------
(* The index of an entity names exactly the stored links that start or end  *)
(* at it, whatever was published and swept in between: a link missing from  *)
(* it would never be found again, and an id too many keep it alive.         *)
IndexAgrees ==
  \A e \in Entities :
    entityLinks[e] = { i \in DOMAIN links : e \in {links[i].from, links[i].to} }

(* An answer is as long as asked at most, strongest first; every link of it *)
(* has a step of explanation; and what enrichment added, over four passes   *)
(* that read a store changing under them, repeats no edge.                  *)
AnswerIsSound ==
  broker.phase = "done" =>
    LET a == broker.enriched
    IN  /\ Len(a) <= broker.query.max
        /\ Len(a) <= broker.chain
        /\ \A i, j \in DOMAIN a : i < j =>
             /\ a[i].confidence >= a[j].confidence
             /\ Edge(a[i]) = Edge(a[j]) => a[i].how = "direct" /\ a[j].how = "direct"

(* What a broker reads is the store's and in order: the index of an entity  *)
(* holds its links and no others, and an answer is a sound walk over them.  *)
LinksHold == IndexAgrees /\ AnswerIsSound
=============================================================================
