--------------------------- MODULE RecruiterProofs ---------------------------
(***************************************************************************)
(* Theorems about the recruiter intelligence, for any number of facts,     *)
(* calls and publications: the memory of a recruiter, the alarms that the  *)
(* analysis of an email raises, what more evidence does to the trust in    *)
(* her, and the links that carry it to other areas.                        *)
(***************************************************************************)
EXTENDS RecruiterMemory, RecruiterIntelligence, EpicLinks,
        NumberFacts, FiniteSetTheorems, SequenceTheorems, TLAPS

-----------------------------------------------------------------------------
(* The memory of a recruiter.                                              *)

IsRow(o) ==
  o = [type |-> o.type, value |-> o.value, confidence |-> o.confidence, validFrom |-> o.validFrom,
       validTo |-> o.validTo, supersededBy |-> o.supersededBy, supersededAt |-> o.supersededAt]

\* A row that is not current gave way to a younger one, that says something else.
Replaced(i) ==
  LET o == observations[i] IN
  ~Current(o) =>
    /\ o.supersededBy \in DOMAIN observations /\ o.supersededBy > i
    /\ LET new == observations[o.supersededBy]
       IN  new.type = o.type /\ new.value # o.value /\ o.validTo = new.validFrom

RowsInv ==
  /\ \E S : observations \in Seq(S)
  /\ \A i \in DOMAIN observations : IsRow(observations[i]) /\ Replaced(i)

IsEdge(e) == e = [from |-> e.from, to |-> e.to, rel |-> e.rel, confidence |-> e.confidence,
                  evidence |-> e.evidence, version |-> e.version]

\* Some call draws the edge e with its confidence.
Given(e) ==
  \E r \in Runs : \E p \in DOMAIN Drawings[r] : \E k \in DOMAIN Drawings[r][p] :
    LET s == Drawings[r][p][k]
    IN  s.kind = "edge" /\ SameEdge(e, s) /\ s.confidence = e.confidence

EdgeWhole(e) ==
  /\ IsEdge(e) /\ e.version \in Nat \ {0} /\ e.evidence = Min({e.version, MaxEvidence})
  /\ e.confidence \in Nat /\ Given(e)
  /\ {e.from, e.to} \subseteq DOMAIN nodes

GraphInv ==
  /\ \E S : edges \in Seq(S)
  /\ \A i \in DOMAIN edges : EdgeWhole(edges[i])
  /\ \A i \in DOMAIN replica.edges : i \in DOMAIN edges /\ EdgeWhole(replica.edges[i])

IsRun(b) == b = [phase |-> b.phase, at |-> b.at, fields |-> b.fields, from |-> b.from, seen |-> b.seen]

Writing == {"raise", "keep", "replace"}

\* The row a field was compared with is of its type, and says something else
\* if it is to be replaced.
HasCompared(b) ==
  /\ b.phase \in {"raise", "keep"} => b.seen # NoObservation
  /\ b.phase \in Writing /\ b.seen # NoObservation =>
       /\ b.seen \in DOMAIN observations /\ observations[b.seen].type = Head(b.fields).type
       /\ b.phase = "replace" => observations[b.seen].value # Head(b.fields).value

\* A part is drawn in order, so that the ends of its next edge are there.
DrawsInOrder(r, b) ==
  b.phase \in {"draw", "drawn"} =>
    /\ b.from \in Nat \ {0} /\ b.at \in Nat \ {0}
    /\ b.from <= Len(Drawings[r]) =>
         /\ b.at <= Len(Drawings[r][b.from])
         /\ \A k \in 1..(b.at - 1) :
              Drawings[r][b.from][k].kind = "node" => Drawings[r][b.from][k].key \in DOMAIN nodes

\* The edge a call has found is whole, if of an earlier time.
HasLooked(r, b) ==
  b.phase = "drawn" =>
    /\ b.from <= Len(Drawings[r])
    /\ LET s == Drawings[r][b.from][b.at] IN
       s.kind = "edge" /\ b.seen # NoObservation =>
         b.seen \in DOMAIN edges /\ \E e : b.fields = <<e>> /\ EdgeWhole(e) /\ SameEdge(e, s)

RunOK(r, b) == IsRun(b) /\ HasCompared(b) /\ DrawsInOrder(r, b) /\ HasLooked(r, b)

MemoryInv ==
  /\ clock \in Nat /\ RowsInv /\ GraphInv
  /\ DOMAIN run = Runs /\ \A r \in Runs : RunOK(r, run[r])

\* Whatever is known of rows, nodes and edges is known of what they become.
MemoryGrows ==
  /\ \A i \in DOMAIN observations :
       /\ i \in DOMAIN observations' /\ observations'[i].type = observations[i].type
       /\ observations'[i].value = observations[i].value
  /\ DOMAIN nodes \subseteq DOMAIN nodes' /\ DOMAIN edges \subseteq DOMAIN edges'

\* The lesser and the greater of two numbers.
LEMMA LeastOfTwo ==
  ASSUME NEW a \in Nat, NEW b \in Nat
  PROVE  /\ Min({a, b}) = IF a <= b THEN a ELSE b
         /\ Max({a, b}) = IF a >= b THEN a ELSE b
BY DEF Min, Max

\* What a call draws into the graph is sequences of steps.
LEMMA DrawingsAreSequences ==
  ASSUME NEW r \in Runs
  PROVE  /\ Len(Drawings[r]) \in Nat /\ DOMAIN Drawings[r] = 1..Len(Drawings[r])
         /\ \A p \in 1..Len(Drawings[r]) :
              /\ Len(Drawings[r][p]) \in Nat \ {0}
              /\ DOMAIN Drawings[r][p] = 1..Len(Drawings[r][p])
<1>1. PICK d \in Seq(ToSet(Drawings[r])) : d = Drawings[r]
  BY DrawingAssumption
<1>2. Len(d) \in Nat /\ DOMAIN d = 1..Len(d)
  OBVIOUS
<1>3. ASSUME NEW p \in DOMAIN d
      PROVE  Len(d[p]) \in Nat \ {0} /\ DOMAIN d[p] = 1..Len(d[p])
  <2>1. PICK v \in Seq(ToSet(d[p])) : v = d[p] /\ v # << >>
    BY <1>1, <1>3, DrawingAssumption
  <2>2. Len(v) \in Nat \ {0} /\ DOMAIN v = 1..Len(v)
    BY <2>1
  <2> QED
    BY <2>1, <2>2
<1> QED
  BY <1>1, <1>2, <1>3

\* An edge stays whole while nodes are added,
LEMMA EdgesStayWhole ==
  ASSUME MemoryGrows, NEW e, EdgeWhole(e)
  PROVE  EdgeWhole(e)'
BY DEF MemoryGrows, EdgeWhole, Given

\* and a call stays sound.
LEMMA RunsStayOK ==
  ASSUME MemoryGrows, NEW r, NEW b, RunOK(r, b)
  PROVE  RunOK(r, b)'
<1>1. IsRun(b) /\ HasCompared(b)'
  BY DEF RunOK, HasCompared, MemoryGrows
<1>2. DrawsInOrder(r, b)'
  BY DEF RunOK, DrawsInOrder, MemoryGrows
<1>3. HasLooked(r, b)'
  BY EdgesStayWhole DEF RunOK, HasLooked, MemoryGrows
<1> QED
  BY <1>1, <1>2, <1>3 DEF RunOK

\* One call moves on, and the others stay as they are.
LEMMA OneRunMoves ==
  ASSUME MemoryInv, NEW r \in Runs, NEW b, run' = [run EXCEPT ![r] = b], MemoryGrows, RunOK(r, b)'
  PROVE  DOMAIN run' = Runs /\ \A u \in Runs : RunOK(u, run[u])'
<1>1. DOMAIN run' = Runs /\ run'[r] = b /\ \A u \in Runs \ {r} : run'[u] = run[u]
  BY DEF MemoryInv
<1>2. \A u \in Runs \ {r} : RunOK(u, run[u])'
  <2> SUFFICES ASSUME NEW u \in Runs \ {r}
               PROVE  RunOK(u, run[u])'
    OBVIOUS
  <2>1. PICK c : c = run[u]
    OBVIOUS
  <2>2. RunOK(u, c)'
    BY <2>1, RunsStayOK DEF MemoryInv
  <2> QED
    BY <1>1, <2>1, <2>2
<1> QED
  BY <1>1, <1>2

\* A call that neither writes nor draws has nothing to keep.
LEMMA IdleRuns ==
  ASSUME NEW r, NEW b, IsRun(b), b.phase \notin Writing \cup {"draw", "drawn"}
  PROVE  RunOK(r, b)'
BY DEF RunOK, HasCompared, DrawsInOrder, HasLooked, Writing

\* The fields are written, and a part is about to be drawn.
LEMMA BeginsToDraw ==
  ASSUME NEW r \in Runs, NEW b, IsRun(b), b.phase = "draw", b.from \in Nat \ {0}, b.at = 1
  PROVE  RunOK(r, b)'
<1>1. ASSUME b.from <= Len(Drawings[r])
      PROVE  1 <= Len(Drawings[r][b.from])
  <2>1. Len(Drawings[r]) \in Nat
    BY DrawingsAreSequences
  <2>2. b.from \in 1..Len(Drawings[r])
    BY <1>1, <2>1
  <2>3. Len(Drawings[r][b.from]) \in Nat \ {0}
    BY <2>2, DrawingsAreSequences
  <2> QED
    BY <2>3
<1>2. DrawsInOrder(r, b)'
  BY <1>1 DEF DrawsInOrder
<1> QED
  BY <1>2 DEF RunOK, HasCompared, HasLooked, Writing

\* A call that goes on to the next field is sound.
LEMMA NextFieldIsOK ==
  ASSUME NEW r \in Runs, NEW t, IsRun(t), NEW b, b = NextField(t)
  PROVE  RunOK(r, b)'
<1>1. t = [phase |-> t.phase, at |-> t.at, fields |-> t.fields, from |-> t.from, seen |-> t.seen]
  BY DEF IsRun
<1>2. CASE t.fields = << >>
  <2>1. b = [phase |-> "draw", at |-> 1, fields |-> t.fields, from |-> 1, seen |-> NoObservation]
    BY <1>1, <1>2 DEF NextField
  <2>2. IsRun(b) /\ b.phase = "draw" /\ b.from = 1 /\ b.at = 1
    BY <2>1 DEF IsRun
  <2> QED
    BY <2>2, BeginsToDraw
<1>3. CASE t.fields # << >>
  <2>1. b = [phase |-> "field", at |-> t.at, fields |-> t.fields, from |-> clock + 1, seen |-> NoObservation]
    BY <1>1, <1>3 DEF NextField
  <2>2. IsRun(b) /\ b.phase = "field"
    BY <2>1 DEF IsRun
  <2> QED
    BY <2>2, IdleRuns DEF Writing
<1> QED
  BY <1>2, <1>3

\* A step of one call that leaves the rows and the graph alone.
LEMMA RunSteps ==
  ASSUME MemoryInv, NEW r \in Runs, NEW b, run' = [run EXCEPT ![r] = b], RunOK(r, b)',
         UNCHANGED <<observations, nodes, edges, replica>>, clock' \in Nat
  PROVE  MemoryInv'
<1>1. MemoryGrows
  BY DEF MemoryGrows
<1>2. DOMAIN run' = Runs /\ \A u \in Runs : RunOK(u, run[u])'
  BY <1>1, OneRunMoves
<1>3. RowsInv'
  BY DEF MemoryInv, RowsInv, Replaced
<1>4. GraphInv'
  BY <1>1, EdgesStayWhole DEF MemoryInv, GraphInv
<1> QED
  BY <1>2, <1>3, <1>4 DEF MemoryInv

\* A call has its fields,
LEMMA ARun ==
  ASSUME MemoryInv, NEW r \in Runs
  PROVE  /\ RunOK(r, run[r]) /\ IsRun(run[r])
         /\ run[r] = [phase |-> run[r].phase, at |-> run[r].at, fields |-> run[r].fields,
                      from |-> run[r].from, seen |-> run[r].seen]
BY DEF MemoryInv, RunOK, IsRun

\* and one that changes its phase keeps the others.
LEMMA ChangedRun ==
  ASSUME NEW t, IsRun(t), NEW p, NEW s, NEW b, b = [t EXCEPT !.phase = p, !.seen = s]
  PROVE  IsRun(b) /\ b.phase = p /\ b.seen = s /\ b.at = t.at /\ b.from = t.from /\ b.fields = t.fields
<1>1. t = [phase |-> t.phase, at |-> t.at, fields |-> t.fields, from |-> t.from, seen |-> t.seen]
  BY DEF IsRun
<1>2. b = [phase |-> p, at |-> t.at, fields |-> t.fields, from |-> t.from, seen |-> s]
  BY <1>1
<1> QED
  BY <1>2 DEF IsRun

\* The plan of a call keeps the memory,
LEMMA PlanSteps ==
  ASSUME MemoryInv, NEW r \in Runs, Plan(r)
  PROVE  MemoryInv'
<1>1. PICK t : t = run[r]
  OBVIOUS
<1>2. PICK b : b = [t EXCEPT !.phase = "chain"]
  OBVIOUS
<1>3. run' = [run EXCEPT ![r] = b] /\ UNCHANGED <<observations, nodes, edges, replica, clock>>
  BY <1>1, <1>2 DEF Plan
<1>4. t = [phase |-> t.phase, at |-> t.at, fields |-> t.fields, from |-> t.from, seen |-> t.seen]
  BY <1>1, ARun
<1>5. IsRun(b) /\ b.phase = "chain"
  BY <1>2, <1>4 DEF IsRun
<1> QED
  BY <1>3, <1>5, IdleRuns, RunSteps DEF MemoryInv, Writing

\* and the answer or error of a capability,
LEMMA CapabilitySteps ==
  ASSUME MemoryInv, NEW r \in Runs, Capability(r)
  PROVE  MemoryInv'
<1>1. PICK t : t = run[r]
  OBVIOUS
<1>2. t = [phase |-> t.phase, at |-> t.at, fields |-> t.fields, from |-> t.from, seen |-> t.seen]
      /\ t.phase = "chain"
  BY <1>1, ARun DEF Capability
<1>3. ASSUME NEW fields
      PROVE  IsRun([t EXCEPT !.fields = fields]) /\ [t EXCEPT !.fields = fields].phase = "chain"
  BY <1>2 DEF IsRun
<1>4. PICK u : /\ IsRun(u) /\ u.phase = "chain"
               /\ run' = [run EXCEPT ![r] = Advance(u)]
  <2>1. CASE run' = [run EXCEPT ![r] = Advance(@)]
    <3>1. run' = [run EXCEPT ![r] = Advance(t)]
      BY <1>1, <2>1
    <3>2. IsRun(t)
      BY <1>2 DEF IsRun
    <3> QED
      BY <1>2, <3>1, <3>2
  <2>2. ASSUME NEW fields, run' = [run EXCEPT ![r] =
                                            Advance([run[r] EXCEPT !.fields = @ \o Confident(fields)])]
        PROVE  \E u : /\ IsRun(u) /\ u.phase = "chain" /\ run' = [run EXCEPT ![r] = Advance(u)]
    <3>1. PICK x : x = run[r].fields \o Confident(fields)
      OBVIOUS
    <3>2. PICK u : u = [t EXCEPT !.fields = x]
      OBVIOUS
    <3>3. run' = [run EXCEPT ![r] = Advance(u)]
      <4>1. Advance([run[r] EXCEPT !.fields = run[r].fields \o Confident(fields)]) = Advance(u)
        BY <1>1, <3>1, <3>2
      <4> QED
        BY <2>2, <4>1
    <3> QED
      BY <1>3, <3>2, <3>3
  <2> QED
    BY <2>1, <2>2 DEF Capability
<1>5. UNCHANGED <<observations, nodes, edges, replica, clock>>
  BY DEF Capability
<1>6. PICK b : b = Advance(u)
  OBVIOUS
<1>7. RunOK(r, b)'
  <2>1. CASE u.at < Len(Chain)
    <3>1. b = [u EXCEPT !.at = @ + 1]
      BY <1>6, <2>1 DEF Advance
    <3>2. IsRun(b) /\ b.phase = "chain"
      BY <1>4, <3>1 DEF IsRun
    <3> QED
      BY <3>2, IdleRuns DEF Writing
  <2>2. CASE ~(u.at < Len(Chain))
    <3>1. b = NextField(u)
      BY <1>6, <2>2 DEF Advance
    <3> QED
      BY <1>4, <3>1, NextFieldIsOK
  <2> QED
    BY <2>1, <2>2
<1> QED
  BY <1>4, <1>5, <1>6, <1>7, RunSteps DEF MemoryInv

\* and the read of the current observation,
LEMMA ReadSteps ==
  ASSUME MemoryInv, NEW r \in Runs, ReadCurrent(r)
  PROVE  MemoryInv'
<1>1. PICK t : t = run[r]
  OBVIOUS
<1>2. t = [phase |-> t.phase, at |-> t.at, fields |-> t.fields, from |-> t.from, seen |-> t.seen]
  BY <1>1, ARun
<1> DEFINE found == {i \in DOMAIN observations :
                       observations[i].type = Head(t.fields).type /\ Current(observations[i])}
<1>3. PICK seen : seen = IF found = {} THEN NoObservation ELSE Max(found)
  OBVIOUS
<1>4. seen # NoObservation =>
        seen \in DOMAIN observations /\ observations[seen].type = Head(t.fields).type
  <2>1. PICK S : observations \in Seq(S)
    BY DEF MemoryInv, RowsInv
  <2>2. found \in SUBSET (1..Len(observations)) /\ Len(observations) \in Nat
    BY <2>1
  <2>3. IsFiniteSet(found) /\ found \subseteq Nat
    BY <2>2, SubsetsOfIntervals
  <2> HIDE DEF found
  <2>4. found # {} => Max(found) \in found
    BY <2>3, FiniteMax
  <2> QED
    BY <1>3, <2>4 DEF found
<1>5. PICK p : p = Decided(Head(t.fields), seen)
  OBVIOUS
<1>6. PICK b : b = [t EXCEPT !.phase = p, !.seen = seen]
  OBVIOUS
<1>7. run' = [run EXCEPT ![r] = b] /\ UNCHANGED <<observations, nodes, edges, replica, clock>>
  BY <1>1, <1>3, <1>5, <1>6 DEF ReadCurrent
<1>8. IsRun(b) /\ b.phase = p /\ b.seen = seen /\ b.fields = t.fields
  <2>1. b = [phase |-> p, at |-> t.at, fields |-> t.fields, from |-> t.from, seen |-> seen]
    BY <1>2, <1>6
  <2> QED
    BY <2>1 DEF IsRun
<1>9. /\ p \in Writing
      /\ p \in {"raise", "keep"} => seen # NoObservation
      /\ p = "replace" /\ seen # NoObservation => observations[seen].value # Head(t.fields).value
  BY <1>5 DEF Decided, Writing
<1>10. RunOK(r, b)'
  BY <1>4, <1>7, <1>8, <1>9 DEF RunOK, HasCompared, DrawsInOrder, HasLooked, Writing
<1> QED
  BY <1>7, <1>10, RunSteps DEF MemoryInv

\* The field is written or not, and the next one follows.
LEMMA TailIsARun ==
  ASSUME MemoryInv, NEW r \in Runs
  PROVE  \A x : IsRun([run[r] EXCEPT !.fields = x])
<1>1. PICK t : t = run[r]
  OBVIOUS
<1>2. t = [phase |-> t.phase, at |-> t.at, fields |-> t.fields, from |-> t.from, seen |-> t.seen]
  BY <1>1, ARun
<1> QED
  BY <1>1, <1>2 DEF IsRun

\* and a field that fails,
LEMMA FailsSteps ==
  ASSUME MemoryInv, NEW r \in Runs, FieldFails(r)
  PROVE  MemoryInv'
<1>0. PICK x : x = Tail(run[r].fields)
  OBVIOUS
<1>1. PICK t : t = [run[r] EXCEPT !.fields = x]
  OBVIOUS
<1>2. PICK b : b = NextField(t)
  OBVIOUS
<1>3. run' = [run EXCEPT ![r] = b] /\ clock' = clock + 1 /\ UNCHANGED <<observations, nodes, edges, replica>>
  <2>1. NextField([run[r] EXCEPT !.fields = Tail(run[r].fields)]) = b
    BY <1>0, <1>1, <1>2
  <2>2. run' = [run EXCEPT ![r] = NextField([run[r] EXCEPT !.fields = Tail(run[r].fields)])]
    BY DEF FieldFails
  <2> QED
    BY <2>1, <2>2 DEF FieldFails
<1>4. RunOK(r, b)'
  BY <1>1, <1>2, TailIsARun, NextFieldIsOK
<1>5. clock' \in Nat
  BY <1>3 DEF MemoryInv
<1> QED
  BY <1>3, <1>4, <1>5, RunSteps

\* A row that is created or changed leaves the others as they were.
LEMMA WriteSteps ==
  ASSUME MemoryInv, NEW r \in Runs, WriteField(r)
  PROVE  MemoryInv'
<1>0. PICK x : x = Tail(run[r].fields)
  OBVIOUS
<1>1. PICK t : t = [run[r] EXCEPT !.fields = x]
  OBVIOUS
<1>2. PICK b : b = NextField(t)
  OBVIOUS
<1>3. run' = [run EXCEPT ![r] = b] /\ clock' = clock + 1 /\ UNCHANGED <<nodes, edges, replica>>
  <2>1. NextField([run[r] EXCEPT !.fields = Tail(run[r].fields)]) = b
    BY <1>0, <1>1, <1>2
  <2>2. run' = [run EXCEPT ![r] = NextField([run[r] EXCEPT !.fields = Tail(run[r].fields)])]
    BY DEF WriteField
  <2> QED
    BY <2>1, <2>2 DEF WriteField
<1>4. RunOK(r, b)'
  BY <1>1, <1>2, TailIsARun, NextFieldIsOK
<1>5. PICK field : field = Head(run[r].fields)
  OBVIOUS
<1>6. PICK old : old = run[r].seen
  OBVIOUS
<1>7. PICK row : row = Observation(field, run[r].from)
  OBVIOUS
<1>8. /\ IsRow(row) /\ Current(row) /\ row.type = field.type /\ row.value = field.value
      /\ row.validFrom = run[r].from
  BY <1>7 DEF Observation, IsRow, Current
<1>9. /\ run[r].phase \in Writing
      /\ run[r].phase \in {"raise", "keep"} => old # NoObservation
      /\ old # NoObservation =>
           /\ old \in DOMAIN observations /\ observations[old].type = field.type
           /\ run[r].phase = "replace" => observations[old].value # field.value
  BY <1>5, <1>6, ARun DEF RunOK, HasCompared, WriteField, Writing
<1>10. PICK S : observations \in Seq(S)
  BY DEF MemoryInv, RowsInv
<1>11. PICK n \in Nat : n = Len(observations) /\ DOMAIN observations = 1..n
  BY <1>10
<1>12. /\ \A i \in DOMAIN observations : IsRow(observations[i]) /\ Replaced(i)
       /\ clock \in Nat
  BY DEF MemoryInv, RowsInv
<1>13. RowsInv' /\ MemoryGrows
  <2>1. CASE run[r].phase = "keep"
    <3>1. observations' = observations
      BY <2>1 DEF WriteField
    <3> QED
      BY <1>3, <3>1 DEF MemoryInv, RowsInv, Replaced, MemoryGrows
  <2>2. CASE run[r].phase = "raise"
    <3>1. PICK o : o = [observations[old] EXCEPT !.confidence = field.confidence]
      OBVIOUS
    <3>2. observations' = [observations EXCEPT ![old] = o] /\ old \in DOMAIN observations
      BY <1>5, <1>6, <1>9, <2>2, <3>1 DEF WriteField
    <3>3. /\ IsRow(o) /\ o.type = observations[old].type /\ o.value = observations[old].value
          /\ o.validFrom = observations[old].validFrom /\ o.validTo = observations[old].validTo
          /\ o.supersededBy = observations[old].supersededBy
          /\ o.supersededAt = observations[old].supersededAt
      BY <1>12, <3>1, <3>2 DEF IsRow
    <3>4. observations' \in Seq(S \cup {o})
      BY <1>10, <3>2
    <3>5. DOMAIN observations' = DOMAIN observations /\ observations'[old] = o
          /\ \A i \in DOMAIN observations \ {old} : observations'[i] = observations[i]
      BY <1>10, <3>2
    <3>6. ASSUME NEW i \in DOMAIN observations
          PROVE  /\ IsRow(observations'[i]) /\ observations'[i].type = observations[i].type
                 /\ observations'[i].value = observations[i].value
                 /\ observations'[i].validFrom = observations[i].validFrom
                 /\ observations'[i].validTo = observations[i].validTo
                 /\ observations'[i].supersededBy = observations[i].supersededBy
                 /\ observations'[i].supersededAt = observations[i].supersededAt
      BY <1>12, <3>3, <3>5
    <3>7. \A i \in DOMAIN observations : Replaced(i)'
      BY <1>12, <3>5, <3>6 DEF Replaced, Current
    <3> QED
      BY <1>3, <3>4, <3>5, <3>6, <3>7 DEF RowsInv, MemoryGrows
  <2>3. CASE run[r].phase = "replace" /\ old = NoObservation
    <3>1. observations' = Append(observations, row)
      BY <1>5, <1>6, <1>7, <2>3 DEF WriteField, Superseded
    <3>2. observations' \in Seq(S \cup {row})
      BY <1>10, <3>1
    <3>3. DOMAIN observations' = 1..(n + 1) /\ observations'[n + 1] = row
          /\ \A i \in 1..n : observations'[i] = observations[i]
      BY <1>10, <1>11, <3>1
    <3>4. \A i \in 1..n : Replaced(i)'
      BY <1>11, <1>12, <3>3 DEF Replaced
    <3>5. Replaced(n + 1)'
      BY <1>8, <3>3 DEF Replaced
    <3>6. \A i \in 1..(n + 1) : i \in 1..n \/ i = n + 1
      OBVIOUS
    <3> QED
      BY <1>3, <1>8, <1>11, <1>12, <3>2, <3>3, <3>4, <3>5, <3>6 DEF RowsInv, MemoryGrows
  <2>4. CASE run[r].phase = "replace" /\ old # NoObservation
    <3>1. PICK o : o = [observations[old] EXCEPT !.validTo = run[r].from, !.supersededAt = clock + 1,
                                                 !.supersededBy = n + 1]
      OBVIOUS
    <3>2. PICK found : found = Append(observations, row)
      OBVIOUS
    <3>3. found \in Seq(S \cup {row}) /\ DOMAIN found = 1..(n + 1) /\ found[n + 1] = row /\ Len(found) = n + 1
          /\ \A i \in 1..n : found[i] = observations[i]
      BY <1>10, <1>11, <3>2
    <3>4. old \in 1..n /\ found[old] = observations[old]
      BY <1>9, <1>11, <2>4, <3>3
    <3>5. observations' = [found EXCEPT ![old] = o]
      BY <1>5, <1>6, <1>7, <2>4, <3>1, <3>2, <3>3, <3>4 DEF WriteField, Superseded
    <3>6. observations' \in Seq(S \cup {row} \cup {o}) /\ DOMAIN observations' = 1..(n + 1)
          /\ observations'[old] = o /\ \A i \in 1..(n + 1) : i # old => observations'[i] = found[i]
      BY <3>3, <3>4, <3>5
    <3>7. /\ IsRow(o) /\ o.type = field.type /\ o.value = observations[old].value
          /\ o.validFrom = observations[old].validFrom /\ o.validTo = run[r].from
          /\ o.supersededBy = n + 1 /\ o.supersededAt = clock + 1
      <4>1. PICK a : a = observations[old]
        OBVIOUS
      <4>2. a = [type |-> a.type, value |-> a.value, confidence |-> a.confidence, validFrom |-> a.validFrom,
                 validTo |-> a.validTo, supersededBy |-> a.supersededBy, supersededAt |-> a.supersededAt]
        BY <1>11, <1>12, <3>4, <4>1 DEF IsRow
      <4>3. o = [a EXCEPT !.validTo = run[r].from, !.supersededAt = clock + 1, !.supersededBy = n + 1]
        BY <3>1, <4>1
      <4>4. o = [type |-> a.type, value |-> a.value, confidence |-> a.confidence, validFrom |-> a.validFrom,
                 validTo |-> run[r].from, supersededBy |-> n + 1, supersededAt |-> clock + 1]
        BY <4>2, <4>3
      <4>5. a.type = field.type
        BY <1>9, <2>4, <4>1
      <4> QED
        BY <4>1, <4>4, <4>5 DEF IsRow
    <3>8. observations[old].value # field.value /\ observations[old].type = field.type
      BY <1>9, <2>4
    <3>9. observations'[n + 1] = row /\ n + 1 # old
          /\ \A i \in 1..n : i # old => observations'[i] = observations[i]
      BY <3>3, <3>4, <3>6
    <3>10. ASSUME NEW i \in 1..(n + 1)
           PROVE  /\ i # n + 1 => /\ i \in 1..n /\ observations'[i].type = observations[i].type
                                  /\ observations'[i].value = observations[i].value
                                  /\ observations'[i].validFrom = observations[i].validFrom
                  /\ IsRow(observations'[i])
      BY <1>8, <1>11, <1>12, <3>6, <3>7, <3>8, <3>9
    <3>11. ASSUME NEW i \in 1..(n + 1)
           PROVE  Replaced(i)'
      <4>1. CASE i = n + 1
        BY <1>8, <3>9, <4>1 DEF Replaced
      <4>2. CASE i = old
        <5>1. /\ observations'[i] = o /\ o.supersededBy = n + 1 /\ n + 1 \in DOMAIN observations'
              /\ n + 1 > i
          BY <3>4, <3>6, <3>7, <4>2
        <5>2. row.type = o.type /\ row.value # o.value /\ o.validTo = row.validFrom
          BY <1>8, <3>7, <3>8
        <5> QED
          BY <3>9, <5>1, <5>2 DEF Replaced
      <4>3. CASE i # n + 1 /\ i # old
        <5>1. i \in 1..n /\ observations'[i] = observations[i] /\ Replaced(i)
          BY <1>11, <1>12, <3>9, <4>3
        <5>2. SUFFICES ASSUME ~Current(observations[i])
                       PROVE  LET o1 == observations[i]
                                  new == observations'[o1.supersededBy]
                              IN  /\ o1.supersededBy \in 1..(n + 1) /\ o1.supersededBy > i
                                  /\ new.type = o1.type /\ new.value # o1.value
                                  /\ o1.validTo = new.validFrom
          BY <3>6, <5>1 DEF Replaced
        <5>3. /\ observations[i].supersededBy \in 1..n /\ observations[i].supersededBy > i
              /\ observations[observations[i].supersededBy].type = observations[i].type
              /\ observations[observations[i].supersededBy].value # observations[i].value
              /\ observations[i].validTo = observations[observations[i].supersededBy].validFrom
          BY <1>11, <5>1, <5>2 DEF Replaced
        <5>4. PICK k \in 1..n : k = observations[i].supersededBy
          BY <5>3
        <5>5. /\ observations'[k].type = observations[k].type
              /\ observations'[k].value = observations[k].value
              /\ observations'[k].validFrom = observations[k].validFrom
          BY <3>10
        <5> QED
          BY <5>3, <5>4, <5>5
      <4> QED
        BY <4>1, <4>2, <4>3
    <3>12. \E T : observations' \in Seq(T)
      BY <3>6
    <3>13. RowsInv'
      BY <3>6, <3>10, <3>11, <3>12 DEF RowsInv
    <3>14. MemoryGrows
      BY <1>3, <1>11, <3>6, <3>10 DEF MemoryGrows
    <3> QED
      BY <3>13, <3>14
  <2> QED
    BY <1>9, <2>1, <2>2, <2>3, <2>4 DEF Writing
<1>14. GraphInv'
  BY <1>3, <1>13, EdgesStayWhole DEF MemoryInv, GraphInv
<1>15. DOMAIN run' = Runs /\ \A u \in Runs : RunOK(u, run[u])'
  BY <1>3, <1>4, <1>13, OneRunMoves
<1> QED
  BY <1>3, <1>12, <1>13, <1>14, <1>15 DEF MemoryInv

\* What a call that draws is at.
LEMMA ADrawing ==
  ASSUME MemoryInv, NEW r \in Runs, Drawing(r), NEW t, t = run[r], NEW s, s = Step(r)
  PROVE  /\ t.from \in 1..Len(Drawings[r]) /\ t.at \in 1..Len(Drawings[r][t.from])
         /\ s = Drawings[r][t.from][t.at]
         /\ \A k \in 1..(t.at - 1) :
              Drawings[r][t.from][k].kind = "node" => Drawings[r][t.from][k].key \in DOMAIN nodes
         /\ HasLooked(r, t)
<1>1. RunOK(r, t) /\ t.phase \in {"draw", "drawn"} /\ t.from <= Len(Drawings[r])
  BY ARun DEF Drawing
<1>2. /\ t.from \in Nat \ {0} /\ t.at \in Nat \ {0} /\ t.at <= Len(Drawings[r][t.from])
      /\ \A k \in 1..(t.at - 1) :
           Drawings[r][t.from][k].kind = "node" => Drawings[r][t.from][k].key \in DOMAIN nodes
  BY <1>1 DEF RunOK, DrawsInOrder
<1>3. Len(Drawings[r]) \in Nat
  BY DrawingsAreSequences
<1>4. t.from \in 1..Len(Drawings[r])
  BY <1>1, <1>2, <1>3
<1>5. Len(Drawings[r][t.from]) \in Nat
  BY <1>4, DrawingsAreSequences
<1>6. t.at \in 1..Len(Drawings[r][t.from])
  BY <1>2, <1>5
<1> QED
  BY <1>1, <1>2, <1>4, <1>6 DEF RunOK, Step, DrawingSteps

\* and the look at the graph through the replica.
LEMMA LookSteps ==
  ASSUME MemoryInv, NEW r \in Runs, Look(r)
  PROVE  MemoryInv'
<1>1. PICK t : t = run[r]
  OBVIOUS
<1>2. PICK s : s = Step(r)
  OBVIOUS
<1>3. Drawing(r) /\ t.phase = "draw" /\ UNCHANGED <<observations, nodes, edges, replica, clock>>
  BY <1>1 DEF Look
<1>4. /\ t.from \in 1..Len(Drawings[r]) /\ t.at \in 1..Len(Drawings[r][t.from])
      /\ s = Drawings[r][t.from][t.at]
      /\ DrawsInOrder(r, t)
  <2>1. RunOK(r, t)
    BY <1>1, ARun
  <2>2. DrawsInOrder(r, t)
    BY <2>1 DEF RunOK
  <2> QED
    BY <1>1, <1>2, <1>3, <2>2, ADrawing
<1>5. t = [phase |-> t.phase, at |-> t.at, fields |-> t.fields, from |-> t.from, seen |-> t.seen]
  BY <1>1, ARun
<1>6. ASSUME NEW b, b.phase = "drawn", b.at = t.at, b.from = t.from, IsRun(b), HasLooked(r, b)
      PROVE  RunOK(r, b)'
  <2>1. DrawsInOrder(r, b)'
    BY <1>3, <1>4, <1>6 DEF DrawsInOrder
  <2>2. HasLooked(r, b)'
    BY <1>3, <1>6 DEF HasLooked, EdgeWhole, Given
  <2> QED
    BY <1>6, <2>1, <2>2 DEF RunOK, HasCompared, Writing
<1>7. CASE s.kind = "node"
  <2>1. PICK v : run' = [run EXCEPT ![r].phase = "drawn", ![r].seen = v]
    BY <1>2, <1>7 DEF Look
  <2>2. PICK b : b = [t EXCEPT !.phase = "drawn", !.seen = v]
    OBVIOUS
  <2>3. run' = [run EXCEPT ![r] = b]
    BY <1>1, <2>1, <2>2
  <2>4. b = [phase |-> "drawn", at |-> t.at, fields |-> t.fields, from |-> t.from, seen |-> v]
    BY <1>5, <2>2
  <2>5. b.phase = "drawn" /\ b.at = t.at /\ b.from = t.from /\ IsRun(b)
    BY <2>4 DEF IsRun
  <2>6. HasLooked(r, b)
    BY <1>4, <1>7, <2>5, DrawingsAreSequences DEF HasLooked
  <2>7. RunOK(r, b)'
    BY <1>6, <2>5, <2>6
  <2>8. clock' \in Nat
    BY <1>3 DEF MemoryInv
  <2> QED
    BY <1>3, <2>3, <2>7, <2>8, RunSteps
<1>8. CASE s.kind # "node"
  <2>1. PICK i : /\ i # NoObservation => i \in DOMAIN replica.edges /\ SameEdge(replica.edges[i], s)
                 /\ run' = [run EXCEPT ![r].phase = "drawn", ![r].seen = i,
                              ![r].fields = IF i = NoObservation THEN << >> ELSE <<replica.edges[i]>>]
    BY <1>2, <1>8 DEF Look
  <2>2. PICK f : f = IF i = NoObservation THEN << >> ELSE <<replica.edges[i]>>
    OBVIOUS
  <2>3. PICK b : b = [t EXCEPT !.phase = "drawn", !.seen = i, !.fields = f]
    OBVIOUS
  <2>4. run' = [run EXCEPT ![r] = b]
    BY <1>1, <2>1, <2>2, <2>3
  <2>5. b = [phase |-> "drawn", at |-> t.at, fields |-> f, from |-> t.from, seen |-> i]
    BY <1>5, <2>3
  <2>6. b.phase = "drawn" /\ b.at = t.at /\ b.from = t.from /\ b.seen = i /\ b.fields = f /\ IsRun(b)
    BY <2>5 DEF IsRun
  <2>7. i # NoObservation =>
          i \in DOMAIN edges /\ \E e : f = <<e>> /\ EdgeWhole(e) /\ SameEdge(e, s)
    <3>1. ASSUME i # NoObservation
          PROVE  /\ i \in DOMAIN edges /\ EdgeWhole(replica.edges[i]) /\ f = <<replica.edges[i]>>
                 /\ SameEdge(replica.edges[i], s)
      BY <2>1, <2>2, <3>1 DEF MemoryInv, GraphInv
    <3> QED
      BY <3>1
  <2>8. HasLooked(r, b)
    BY <1>4, <2>6, <2>7, DrawingsAreSequences DEF HasLooked
  <2>9. RunOK(r, b)'
    BY <1>6, <2>6, <2>8
  <2>10. clock' \in Nat
    BY <1>3 DEF MemoryInv
  <2> QED
    BY <1>3, <2>4, <2>9, <2>10, RunSteps
<1> QED
  BY <1>7, <1>8

\* A call that goes on to the next part of its drawing is sound,
LEMMA NextPartIsOK ==
  ASSUME MemoryInv, NEW r \in Runs, Drawing(r), NEW b, b = NextPart(run[r])
  PROVE  RunOK(r, b)' /\ IsRun(b) /\ b.phase = "draw"
<1>1. PICK t : t = run[r]
  OBVIOUS
<1>2. t = [phase |-> t.phase, at |-> t.at, fields |-> t.fields, from |-> t.from, seen |-> t.seen]
  BY <1>1, ARun
<1>3. t.from \in Nat
  BY <1>1, ADrawing, DrawingsAreSequences
<1>4. b = [phase |-> "draw", at |-> 1, fields |-> t.fields, from |-> t.from + 1, seen |-> NoObservation]
  BY <1>1, <1>2 DEF NextPart
<1>5. IsRun(b) /\ b.phase = "draw" /\ b.from \in Nat \ {0} /\ b.at = 1
  BY <1>3, <1>4 DEF IsRun
<1> QED
  BY <1>5, BeginsToDraw

\* and one that goes on to its next step.
LEMMA NextStepIsOK ==
  ASSUME MemoryInv, NEW r \in Runs, Drawing(r), MemoryGrows,
         NEW s, s = Step(r), s.kind = "node" => s.key \in DOMAIN nodes',
         NEW b, b = NextStep(r)
  PROVE  RunOK(r, b)' /\ IsRun(b) /\ b.phase = "draw"
<1>1. PICK t : t = run[r]
  OBVIOUS
<1>2. t = [phase |-> t.phase, at |-> t.at, fields |-> t.fields, from |-> t.from, seen |-> t.seen]
  BY <1>1, ARun
<1>3. /\ t.from \in 1..Len(Drawings[r]) /\ t.at \in 1..Len(Drawings[r][t.from])
      /\ s = Drawings[r][t.from][t.at]
      /\ \A k \in 1..(t.at - 1) :
           Drawings[r][t.from][k].kind = "node" => Drawings[r][t.from][k].key \in DOMAIN nodes
  BY <1>1, ADrawing
<1>4. Len(Drawings[r]) \in Nat /\ Len(Drawings[r][t.from]) \in Nat
  BY <1>3, DrawingsAreSequences
<1>5. CASE ~(t.at < Len(Drawings[r][t.from]))
  <2>1. b = NextPart(run[r])
    BY <1>1, <1>5 DEF NextStep, DrawingSteps
  <2> QED
    BY <2>1, NextPartIsOK
<1>6. CASE t.at < Len(Drawings[r][t.from])
  <2>1. b = [t EXCEPT !.phase = "draw", !.at = t.at + 1, !.seen = NoObservation]
    BY <1>1, <1>6 DEF NextStep, DrawingSteps
  <2>2. b = [phase |-> "draw", at |-> t.at + 1, fields |-> t.fields, from |-> t.from, seen |-> NoObservation]
    BY <1>2, <2>1
  <2>3. IsRun(b) /\ b.phase = "draw" /\ b.at = t.at + 1 /\ b.from = t.from
    BY <2>2 DEF IsRun
  <2>4. \A k \in 1..t.at :
          Drawings[r][t.from][k].kind = "node" => Drawings[r][t.from][k].key \in DOMAIN nodes'
    <3>1. \A k \in 1..t.at : k \in 1..(t.at - 1) \/ k = t.at
      BY <1>3, <1>4
    <3> QED
      BY <1>3, <3>1 DEF MemoryGrows
  <2>5. DrawsInOrder(r, b)'
    BY <1>3, <1>4, <1>6, <2>3, <2>4 DEF DrawsInOrder
  <2> QED
    BY <2>3, <2>5 DEF RunOK, HasCompared, HasLooked, Writing
<1> QED
  BY <1>5, <1>6

\* What becomes of the graph when one call has written a node.
LEMMA NodeSteps ==
  ASSUME MemoryInv, NEW r \in Runs, upsertNode(r)
  PROVE  MemoryInv'
<1>1. PICK s : s = Step(r)
  OBVIOUS
<1>2. Drawing(r) /\ s.kind = "node" /\ UNCHANGED <<observations, edges, replica, clock>>
  BY <1>1 DEF upsertNode
<1>3. clock' \in Nat
  BY <1>2 DEF MemoryInv
<1>4. CASE run[r].seen = NoObservation /\ s.key \in DOMAIN nodes
  <2>1. PICK b : b = NextPart(run[r])
    OBVIOUS
  <2>2. run' = [run EXCEPT ![r] = NextPart(run[r])] /\ UNCHANGED nodes
    BY <1>1, <1>4 DEF upsertNode
  <2>3. RunOK(r, b)'
    BY <1>2, <2>1, NextPartIsOK
  <2> QED
    BY <1>2, <1>3, <2>1, <2>2, <2>3, RunSteps
<1>5. CASE ~(run[r].seen = NoObservation /\ s.key \in DOMAIN nodes)
  <2>1. PICK b : b = NextStep(r)
    OBVIOUS
  <2>2. PICK v : v = run[r].seen + 1
    OBVIOUS
  <2>3. run' = [run EXCEPT ![r] = b]
         /\ nodes' = [k \in DOMAIN nodes \cup {s.key} |-> IF k = s.key THEN v ELSE nodes[k]]
    BY <1>1, <1>5, <2>1, <2>2 DEF upsertNode
  <2>4. s.key \in DOMAIN nodes' /\ DOMAIN nodes \subseteq DOMAIN nodes'
    BY <2>3
  <2>5. MemoryGrows
    BY <1>2, <2>4 DEF MemoryGrows
  <2>6. RunOK(r, b)'
    BY <1>1, <1>2, <2>1, <2>4, <2>5, NextStepIsOK
  <2>7. DOMAIN run' = Runs /\ \A u \in Runs : RunOK(u, run[u])'
    BY <2>3, <2>5, <2>6, OneRunMoves
  <2>8. RowsInv'
    BY <1>2 DEF MemoryInv, RowsInv, Replaced
  <2>9. GraphInv'
    BY <1>2, <2>5, EdgesStayWhole DEF MemoryInv, GraphInv
  <2> QED
    BY <1>3, <2>7, <2>8, <2>9 DEF MemoryInv
<1> QED
  BY <1>4, <1>5

\* The ends of an edge are drawn before it.
DrawnInTurn(steps, k) ==
  \/ steps[k].kind = "node"
  \/ /\ steps[k].kind = "edge" /\ steps[k].confidence \in Nat
     /\ \A end \in {steps[k].from, steps[k].key} :
          \E j \in 1..(k - 1) : steps[j].kind = "node" /\ steps[j].key = end

\* The nodes of an edge come before it.
LEMMA DrawingsAreInTurn ==
  ASSUME NEW r \in Runs, NEW p \in DOMAIN Drawings[r], NEW k \in DOMAIN Drawings[r][p]
  PROVE  DrawnInTurn(Drawings[r][p], k)
BY DrawingAssumption DEF DrawnInTurn

\* A new edge, and one that was found and is strengthened, are whole.
LEMMA DrawnEdgeIsWhole ==
  ASSUME MemoryInv, NEW r \in Runs, upsertEdge(r), NEW s, s = Step(r)
  PROVE  /\ EdgeWhole(NewEdge(s))
         /\ \A e : EdgeWhole(e) /\ SameEdge(e, s) => EdgeWhole(Strengthened(e, s))
<1>1. PICK t : t = run[r]
  OBVIOUS
<1>2. Drawing(r) /\ s.kind = "edge"
  BY DEF upsertEdge
<1>3. /\ t.from \in 1..Len(Drawings[r]) /\ t.at \in 1..Len(Drawings[r][t.from])
      /\ s = Drawings[r][t.from][t.at]
      /\ \A k \in 1..(t.at - 1) :
           Drawings[r][t.from][k].kind = "node" => Drawings[r][t.from][k].key \in DOMAIN nodes
  BY <1>1, <1>2, ADrawing
<1>4. t.from \in DOMAIN Drawings[r] /\ t.at \in DOMAIN Drawings[r][t.from]
  BY <1>3, DrawingsAreSequences
<1>5. /\ s.confidence \in Nat /\ MaxEvidence \in Nat \ {0}
      /\ \A end \in {s.from, s.key} :
           \E j \in 1..(t.at - 1) : Drawings[r][t.from][j].kind = "node" /\ Drawings[r][t.from][j].key = end
  <2>1. PICK p \in DOMAIN Drawings[r] : p = t.from
    BY <1>4
  <2>2. PICK k \in DOMAIN Drawings[r][p] : k = t.at
    BY <1>4, <2>1
  <2>3. DrawnInTurn(Drawings[r][p], k)
    BY DrawingsAreInTurn
  <2>4. s = Drawings[r][p][k] /\ s.kind # "node"
    BY <1>2, <1>3, <2>1, <2>2
  <2>5. MaxEvidence \in Nat \ {0}
    BY DrawingAssumption
  <2>6. PICK steps : steps = Drawings[r][p]
    OBVIOUS
  <2>7. s = steps[k] /\ s.kind # "node" /\ DrawnInTurn(steps, k)
    BY <2>3, <2>4, <2>6
  <2>8. /\ s.confidence \in Nat
        /\ \A end \in {s.from, s.key} :
             \E j \in 1..(k - 1) : steps[j].kind = "node" /\ steps[j].key = end
    BY <2>7 DEF DrawnInTurn
  <2> QED
    BY <2>1, <2>2, <2>5, <2>6, <2>8
<1>6. {s.from, s.key} \subseteq DOMAIN nodes
  BY <1>3, <1>5
<1>7. ASSUME NEW e, SameEdge(e, s), e.confidence = s.confidence
      PROVE  Given(e)
  BY <1>2, <1>3, <1>4, <1>7 DEF Given
<1>8. EdgeWhole(NewEdge(s))
  <2>1. PICK e : e = NewEdge(s)
    OBVIOUS
  <2>2. IsEdge(e) /\ SameEdge(e, s) /\ e.confidence = s.confidence /\ e.evidence = 1 /\ e.version = 1
    BY <2>1 DEF NewEdge, IsEdge, SameEdge
  <2>3. Min({1, MaxEvidence}) = 1
    BY <1>5, LeastOfTwo
  <2>4. {e.from, e.to} \subseteq DOMAIN nodes
    BY <1>6, <2>2 DEF SameEdge
  <2> QED
    BY <1>5, <1>7, <2>1, <2>2, <2>3, <2>4 DEF EdgeWhole
<1>9. ASSUME NEW e, EdgeWhole(e), SameEdge(e, s)
      PROVE  EdgeWhole(Strengthened(e, s))
  <2>1. PICK c, g : c = Max({e.confidence, s.confidence}) /\ g = Min({e.evidence + 1, MaxEvidence})
    OBVIOUS
  <2>2. PICK f : f = Strengthened(e, s)
    OBVIOUS
  <2>3. e = [from |-> e.from, to |-> e.to, rel |-> e.rel, confidence |-> e.confidence,
             evidence |-> e.evidence, version |-> e.version]
    BY <1>9 DEF EdgeWhole, IsEdge
  <2>4. f = [from |-> e.from, to |-> e.to, rel |-> e.rel, confidence |-> c,
             evidence |-> g, version |-> e.version + 1]
    BY <2>1, <2>2, <2>3 DEF Strengthened
  <2>5. IsEdge(f) /\ f.confidence = c /\ f.evidence = g /\ f.version = e.version + 1
        /\ f.from = e.from /\ f.to = e.to /\ f.rel = e.rel
    BY <2>4 DEF IsEdge
  <2>6. c \in Nat /\ (c = e.confidence \/ c = s.confidence)
    BY <1>5, <1>9, <2>1, LeastOfTwo DEF EdgeWhole
  <2>7. g = Min({e.version + 1, MaxEvidence}) /\ e.version \in Nat
    <3>1. PICK v \in Nat \ {0} : v = e.version
      BY <1>9 DEF EdgeWhole
    <3>2. PICK m \in Nat \ {0} : m = MaxEvidence
      BY <1>5
    <3>3. e.evidence = Min({v, m})
      BY <1>9, <3>1, <3>2 DEF EdgeWhole
    <3>4. e.evidence = IF v <= m THEN v ELSE m
      BY <3>3, LeastOfTwo
    <3>5. e.evidence + 1 \in Nat /\ v + 1 \in Nat
      BY <3>4
    <3>6. g = IF e.evidence + 1 <= m THEN e.evidence + 1 ELSE m
      BY <2>1, <3>2, <3>5, LeastOfTwo
    <3>7. Min({v + 1, m}) = IF v + 1 <= m THEN v + 1 ELSE m
      BY <3>5, LeastOfTwo
    <3>8. g = Min({v + 1, m})
      BY <3>4, <3>6, <3>7
    <3> QED
      BY <3>1, <3>2, <3>8
  <2>8. Given(f)
    <3>1. CASE c = e.confidence
      BY <1>9, <2>5, <3>1 DEF EdgeWhole, Given, SameEdge
    <3>2. CASE c = s.confidence
      <4>1. SameEdge(f, s) /\ f.confidence = s.confidence
        BY <1>9, <2>5, <3>2 DEF SameEdge
      <4> QED
        BY <1>7, <4>1
    <3> QED
      BY <2>6, <3>1, <3>2
  <2>9. {f.from, f.to} \subseteq DOMAIN nodes
    BY <1>9, <2>5 DEF EdgeWhole
  <2> QED
    BY <2>2, <2>5, <2>6, <2>7, <2>8, <2>9 DEF EdgeWhole
<1> QED
  BY <1>8, <1>9

\* The upsert of an edge keeps the memory,
LEMMA EdgeSteps ==
  ASSUME MemoryInv, NEW r \in Runs, upsertEdge(r)
  PROVE  MemoryInv'
<1>1. PICK s : s = Step(r)
  OBVIOUS
<1>2. PICK t : t = run[r]
  OBVIOUS
<1>3. /\ Drawing(r) /\ s.kind = "edge" /\ t.phase = "drawn"
      /\ UNCHANGED <<observations, nodes, replica, clock>>
  BY <1>1, <1>2 DEF upsertEdge
<1>4. PICK S : edges \in Seq(S)
  BY DEF MemoryInv, GraphInv
<1>5. /\ s = Drawings[r][t.from][t.at] /\ HasLooked(r, t)
  BY <1>1, <1>2, <1>3, ADrawing
<1>6. PICK e : /\ EdgeWhole(e)
               /\ \/ edges' = Append(edges, e)
                  \/ t.seen \in DOMAIN edges /\ edges' = [edges EXCEPT ![t.seen] = e]
  <2>1. CASE t.seen = NoObservation
    <3>1. edges' = Append(edges, NewEdge(s))
      BY <1>1, <1>2, <2>1 DEF upsertEdge
    <3> QED
      BY <1>1, <3>1, DrawnEdgeIsWhole
  <2>2. CASE t.seen # NoObservation
    <3>1. edges' = [edges EXCEPT ![t.seen] = Strengthened(t.fields[1], s)]
      BY <1>1, <1>2, <2>2 DEF upsertEdge
    <3>2. t.seen \in DOMAIN edges /\ \E f : t.fields = <<f>> /\ EdgeWhole(f) /\ SameEdge(f, s)
      BY <1>3, <1>5, <2>2 DEF HasLooked
    <3>3. EdgeWhole(t.fields[1]) /\ SameEdge(t.fields[1], s)
      BY <3>2
    <3>4. EdgeWhole(Strengthened(t.fields[1], s))
      BY <1>1, <3>3, DrawnEdgeIsWhole
    <3> QED
      BY <3>1, <3>2, <3>4
  <2> QED
    BY <2>1, <2>2
<1>7. /\ \E T : edges' \in Seq(T)
      /\ DOMAIN edges \subseteq DOMAIN edges'
      /\ \A i \in DOMAIN edges' : edges'[i] # e => i \in DOMAIN edges /\ edges'[i] = edges[i]
  <2>1. CASE edges' = Append(edges, e)
    <3>1. edges' \in Seq(S \cup {e})
      BY <1>4, <2>1
    <3>2. PICK n \in Nat : n = Len(edges) /\ DOMAIN edges = 1..n
      BY <1>4
    <3>3. DOMAIN edges' = 1..(n + 1) /\ edges'[n + 1] = e
          /\ \A i \in 1..n : edges'[i] = edges[i]
      BY <1>4, <2>1, <3>2
    <3>4. \A i \in 1..(n + 1) : i \in 1..n \/ i = n + 1
      BY <3>2
    <3>5. 1..n \subseteq 1..(n + 1)
      BY <3>2
    <3>6. \E T : edges' \in Seq(T)
      BY <3>1
    <3> QED
      BY <3>2, <3>3, <3>4, <3>5, <3>6
  <2>2. CASE t.seen \in DOMAIN edges /\ edges' = [edges EXCEPT ![t.seen] = e]
    <3>1. edges' \in Seq(S \cup {e})
      BY <1>4, <2>2
    <3>2. DOMAIN edges' = DOMAIN edges /\ edges'[t.seen] = e
          /\ \A i \in DOMAIN edges : i # t.seen => edges'[i] = edges[i]
      BY <1>4, <2>2
    <3>3. \E T : edges' \in Seq(T)
      BY <3>1
    <3> QED
      BY <3>2, <3>3
  <2> QED
    BY <1>6, <2>1, <2>2
<1>8. MemoryGrows
  BY <1>3, <1>7 DEF MemoryGrows
<1>9. GraphInv'
  <2>1. EdgeWhole(e)'
    BY <1>6, <1>8, EdgesStayWhole
  <2>2. \A i \in DOMAIN edges : EdgeWhole(edges[i])
    BY DEF MemoryInv, GraphInv
  <2>3. ASSUME NEW i \in DOMAIN edges'
        PROVE  EdgeWhole(edges[i])'
    <3>1. CASE edges'[i] = e
      BY <2>1, <3>1
    <3>2. CASE edges'[i] # e
      <4>0. i \in DOMAIN edges /\ edges'[i] = edges[i]
        BY <1>7, <3>2
      <4>1. PICK f : f = edges[i]
        OBVIOUS
      <4>2. EdgeWhole(f)'
        BY <1>8, <2>2, <4>0, <4>1, EdgesStayWhole
      <4> QED
        BY <4>0, <4>1, <4>2
    <3> QED
      BY <3>1, <3>2
  <2>4. ASSUME NEW i \in DOMAIN replica.edges
        PROVE  i \in DOMAIN edges' /\ EdgeWhole(replica.edges[i])'
    <3>1. i \in DOMAIN edges /\ EdgeWhole(replica.edges[i])
      BY <2>4 DEF MemoryInv, GraphInv
    <3>2. PICK f : f = replica.edges[i]
      OBVIOUS
    <3>3. EdgeWhole(f)'
      BY <1>8, <3>1, <3>2, EdgesStayWhole
    <3> QED
      BY <1>3, <1>7, <3>1, <3>2, <3>3
  <2> QED
    BY <1>3, <1>7, <2>3, <2>4 DEF GraphInv
<1>10. PICK c : c = NextStep(r)
  OBVIOUS
<1>11. RunOK(r, c)' /\ IsRun(c) /\ c.phase = "draw"
  BY <1>1, <1>3, <1>8, <1>10, NextStepIsOK
<1>12. PICK b : b = [c EXCEPT !.fields = << >>]
  OBVIOUS
<1>13. run' = [run EXCEPT ![r] = b]
  BY <1>10, <1>12 DEF upsertEdge
<1>14. RunOK(r, b)'
  <2>1. b = [phase |-> c.phase, at |-> c.at, fields |-> << >>, from |-> c.from, seen |-> c.seen]
    BY <1>11, <1>12 DEF IsRun
  <2>2. IsRun(b) /\ b.phase = "draw" /\ b.at = c.at /\ b.from = c.from
    BY <1>11, <2>1 DEF IsRun
  <2>3. DrawsInOrder(r, b)'
    BY <1>11, <2>2 DEF RunOK, DrawsInOrder
  <2> QED
    BY <2>2, <2>3 DEF RunOK, HasCompared, HasLooked, Writing
<1>15. DOMAIN run' = Runs /\ \A u \in Runs : RunOK(u, run[u])'
  BY <1>8, <1>13, <1>14, OneRunMoves
<1>16. RowsInv' /\ clock' \in Nat
  BY <1>3 DEF MemoryInv, RowsInv, Replaced
<1> QED
  BY <1>9, <1>15, <1>16 DEF MemoryInv

\* and so do the end of a call and its exit.
LEMMA LastSteps ==
  ASSUME MemoryInv, NEW r \in Runs, Finish(r) \/ Exit(r)
  PROVE  MemoryInv'
<1>1. PICK b : /\ run' = [run EXCEPT ![r] = b] /\ IsRun(b) /\ b.phase \in {"done", "gone"}
  <2>1. ASSUME NEW p, p \in {"done", "gone"}, run' = [run EXCEPT ![r] = [Unstarted EXCEPT !.phase = p]]
        PROVE  \E b : /\ run' = [run EXCEPT ![r] = b] /\ IsRun(b) /\ b.phase \in {"done", "gone"}
    <3>1. PICK b : b = [Unstarted EXCEPT !.phase = p]
      OBVIOUS
    <3>2. b = [phase |-> p, at |-> 1, fields |-> << >>, from |-> 0, seen |-> NoObservation]
      BY <3>1 DEF Unstarted
    <3>3. IsRun(b) /\ b.phase = p
      BY <3>2 DEF IsRun
    <3> QED
      BY <2>1, <3>1, <3>3
  <2> QED
    BY <2>1 DEF Finish, Exit
<1>2. UNCHANGED <<observations, nodes, edges, replica, clock>>
  BY DEF Finish, Exit
<1>3. RunOK(r, b)'
  BY <1>1, IdleRuns DEF Writing
<1> QED
  BY <1>1, <1>2, <1>3, RunSteps DEF MemoryInv

\* The copy the upserts read is a copy of whole edges.
LEMMA ReplicateSteps ==
  ASSUME MemoryInv, Replicate
  PROVE  MemoryInv'
<1>1. UNCHANGED <<observations, nodes, edges, run, clock>> /\ replica' = [nodes |-> nodes, edges |-> edges]
  BY DEF Replicate
<1>2. MemoryGrows
  BY <1>1 DEF MemoryGrows
<1>3. RowsInv'
  BY <1>1 DEF MemoryInv, RowsInv, Replaced
<1>4. GraphInv'
  BY <1>1, <1>2, EdgesStayWhole DEF MemoryInv, GraphInv
<1>5. \A r \in Runs : RunOK(r, run[r])'
  BY <1>1, <1>2, RunsStayOK DEF MemoryInv
<1> QED
  BY <1>1, <1>3, <1>4, <1>5 DEF MemoryInv

\* The invariant holds at the start,
LEMMA MemoryInitially == MemoryInit => MemoryInv
<1> SUFFICES ASSUME MemoryInit
             PROVE  MemoryInv
  OBVIOUS
<1>1. clock \in Nat /\ RowsInv /\ GraphInv
  BY DEF MemoryInit, RowsInv, GraphInv
<1>2. DOMAIN run = Runs /\ \A r \in Runs : RunOK(r, run[r])
  BY DEF MemoryInit, Unstarted, RunOK, IsRun, HasCompared, DrawsInOrder, HasLooked
<1> QED
  BY <1>1, <1>2 DEF MemoryInv

\* and every step keeps it.
LEMMA MemoryStep == MemoryInv /\ [MemoryNext]_memoryVars => MemoryInv'
<1> SUFFICES ASSUME MemoryInv, [MemoryNext]_memoryVars
             PROVE  MemoryInv'
  OBVIOUS
<1>1. CASE UNCHANGED memoryVars
  <2>1. UNCHANGED <<observations, nodes, edges, replica, run, clock>>
    BY <1>1 DEF memoryVars
  <2>2. MemoryGrows
    BY <2>1 DEF MemoryGrows
  <2>3. RowsInv'
    BY <2>1 DEF MemoryInv, RowsInv, Replaced
  <2>4. GraphInv'
    BY <2>1, <2>2, EdgesStayWhole DEF MemoryInv, GraphInv
  <2>5. \A r \in Runs : RunOK(r, run[r])'
    BY <2>1, <2>2, RunsStayOK DEF MemoryInv
  <2> QED
    BY <2>1, <2>3, <2>4, <2>5 DEF MemoryInv
<1>2. ASSUME NEW r \in Runs,
             \/ Plan(r) \/ Capability(r) \/ ReadCurrent(r) \/ WriteField(r) \/ FieldFails(r)
             \/ Look(r) \/ upsertNode(r) \/ upsertEdge(r) \/ Finish(r) \/ Exit(r)
      PROVE  MemoryInv'
  BY <1>2, PlanSteps, CapabilitySteps, ReadSteps, WriteSteps, FailsSteps, LookSteps, NodeSteps,
     EdgeSteps, LastSteps
<1> QED
  BY <1>1, <1>2, ReplicateSteps DEF MemoryNext

\* The youngest row of a type cannot have given way to a younger one.
LEMMA MemoryMeans == MemoryInv => MemoryIsWhole
<1> SUFFICES ASSUME MemoryInv
             PROVE  MemoryIsWhole
  OBVIOUS
<1>1. EdgesAreWhole
  BY DEF MemoryInv, GraphInv, EdgeWhole, Given, EdgesAreWhole
<1>2. PICK S : observations \in Seq(S)
  BY DEF MemoryInv, RowsInv
<1>3. \A i \in DOMAIN observations : Replaced(i)
  BY DEF MemoryInv, RowsInv
<1>4. ASSUME NEW i \in DOMAIN observations
      PROVE  \E j \in DOMAIN observations :
               observations[j].type = observations[i].type /\ Current(observations[j])
  <2> DEFINE alike == {j \in DOMAIN observations : observations[j].type = observations[i].type}
  <2>1. alike \in SUBSET (1..Len(observations)) /\ Len(observations) \in Nat /\ i \in alike
    BY <1>2
  <2>2. IsFiniteSet(alike) /\ alike \subseteq Nat /\ alike # {}
    BY <2>1, SubsetsOfIntervals
  <2> HIDE DEF alike
  <2>3. PICK m : m \in alike /\ \A j \in alike : m >= j
    BY <2>2, FiniteMax
  <2>4. m \in DOMAIN observations /\ observations[m].type = observations[i].type /\ m \in Nat
    BY <2>2, <2>3 DEF alike
  <2>5. ASSUME ~Current(observations[m])
        PROVE  FALSE
    <3>1. /\ observations[m].supersededBy \in DOMAIN observations
          /\ observations[m].supersededBy > m
          /\ observations[observations[m].supersededBy].type = observations[m].type
      BY <1>3, <2>4, <2>5 DEF Replaced
    <3>2. PICK k : k = observations[m].supersededBy
      OBVIOUS
    <3>3. k \in alike /\ k > m
      BY <2>4, <3>1, <3>2 DEF alike
    <3> QED
      BY <2>2, <2>3, <2>4, <3>3
  <2> QED
    BY <2>4, <2>5
<1>5. MemoryKeepsACurrent
  BY <1>3, <1>4 DEF MemoryKeepsACurrent, Replaced
<1> QED
  BY <1>1, <1>5 DEF MemoryIsWhole

(* However the writes and the upserts of overlapping calls interleave, fail *)
(* or are cut off, a recruiter keeps a current observation of every type    *)
(* ever observed, one that is not current gave way to a younger one that    *)
(* says something else, and every edge of the graph is whole.               *)
THEOREM MemoryStaysWhole == MemorySpec => []MemoryIsWhole
<1>1. MemoryInit => MemoryInv
  BY MemoryInitially
<1>2. MemoryInv /\ [MemoryNext]_memoryVars => MemoryInv'
  BY MemoryStep
<1>3. MemoryInv => MemoryIsWhole
  BY MemoryMeans
<1> QED
  BY <1>1, <1>2, <1>3, PTL DEF MemorySpec

-----------------------------------------------------------------------------
(* The recruiter pipeline.                                                 *)

\* The first rung of the ladder of probabilities decides the risk.
LEMMA RiskOfProbability ==
  ASSUME NEW n \in Int
  PROVE  toGhostingRisk(n) \in {"high", "very_high"} <=> n >= 6000
<1> DEFINE ladder == <<<<8000, "very_high">>, <<6000, "high">>, <<4000, "moderate">>, <<2000, "low">>>>
           reached == {i \in DOMAIN ladder : n >= ladder[i][1]}
<1>1. DOMAIN ladder = 1 .. 4
  OBVIOUS
<1>2. /\ ladder[1] = <<8000, "very_high">> /\ ladder[2] = <<6000, "high">>
      /\ ladder[3] = <<4000, "moderate">> /\ ladder[4] = <<2000, "low">>
  OBVIOUS
<1>3. toGhostingRisk(n) = IF reached = {} THEN "very_low" ELSE ladder[Min(reached)][2]
  BY DEF toGhostingRisk, Band
<1>4. /\ 1 \in reached <=> n >= 8000
      /\ 2 \in reached <=> n >= 6000
      /\ reached \in SUBSET (1 .. 4)
  <2> HIDE DEF ladder
  <2> QED
    BY <1>1, <1>2
<1> HIDE DEF reached, ladder
<1>5. CASE reached = {}
  <2>1. toGhostingRisk(n) = "very_low" /\ ~(n >= 6000)
    BY <1>3, <1>4, <1>5
  <2> QED
    BY <2>1
<1>6. CASE reached # {}
  <2>1. PICK m : m = Min(reached)
    OBVIOUS
  <2>2. m \in reached /\ \A y \in reached : m <= y
    <3>1. reached \in SUBSET Nat
      BY <1>4
    <3> QED
      BY <1>6, <2>1, <3>1, MinIsLeast
  <2>3. toGhostingRisk(n) = ladder[m][2]
    BY <1>3, <1>6, <2>1
  <2>4. m \in 1 .. 4
    BY <1>4, <2>2
  <2>5. CASE m <= 2
    <3>1. m \in {1, 2}
      BY <2>4, <2>5
    <3>2. n >= 6000
      BY <1>4, <2>2, <3>1
    <3> QED
      BY <1>2, <2>3, <3>1, <3>2
  <2>6. CASE m > 2
    <3>1. m \in {3, 4} /\ ~(n >= 6000)
      BY <1>4, <2>2, <2>4, <2>6
    <3> QED
      BY <1>2, <2>3, <3>1
  <2> QED
    BY <2>4, <2>5, <2>6
<1> QED
  BY <1>5, <1>6

\* The ghosting signal is a number, whatever the answer of the AI is.
LEMMA GhostingIsNumber ==
  ASSUME NEW known, NEW r, NEW b, NEW past, past.ghosted \in Nat, NEW ai \in Answers
  PROVE  mergeSignals(TrustRules(known, r, b, past), ai.trust).ghosting_probability.score \in Int
<1>1. PICK e \in Int : e = estimateGhostingProbability(r, past)
  <2>1. \A x \in Int : Least(9500, x) \in Int
    BY DEF Least
  <2>2. PICK estimate \in Int : estimate = 2500
          + (IF r.followUpRequirements.value = {} THEN 1500 ELSE 0)
          + (IF r.urgency.value = "low" THEN 1000 ELSE 0)
          - (IF Urgent(r) THEN 1000 ELSE 0) + 1500 * past.ghosted
    OBVIOUS
  <2>3. estimateGhostingProbability(r, past) =
          IF estimate < 500 THEN 500 ELSE Least(9500, estimate)
    BY <2>2 DEF estimateGhostingProbability
  <2> QED
    BY <2>1, <2>3
<1>2. PICK rules : rules = TrustRules(known, r, b, past)
  OBVIOUS
<1>3. /\ "ghosting_probability" \in DOMAIN rules
      /\ rules.ghosting_probability = Signal(One - e, 6500, known, 2)
  BY <1>1, <1>2 DEF TrustRules
<1>4. rules.ghosting_probability.score \in Int
  BY <1>3 DEF Signal, One
<1>5. mergeSignals(rules, ai.trust).ghosting_probability =
        IF /\ "ghosting_probability" \in DOMAIN ai.trust
           /\ ai.trust.ghosting_probability.confidence > rules.ghosting_probability.confidence
        THEN [score |-> ai.trust.ghosting_probability.value,
              confidence |-> ai.trust.ghosting_probability.confidence, evidence |-> {}]
        ELSE rules.ghosting_probability
  BY <1>3 DEF mergeSignals
<1>6. "ghosting_probability" \in DOMAIN ai.trust => ai.trust.ghosting_probability.value \in Int
  BY AnswersAssumption
<1> QED
  BY <1>2, <1>4, <1>5, <1>6

\* A report whose alarms agree: the trust it tells of decides them all.
Alarmed(p) == \E a \in p.told.riskAlerts : a.type = "ghosting_risk"

Agrees(p) ==
  /\ Alarmed(p) <=> \E f \in p.told.followUps : f.action = "reminder"
  /\ Alarmed(p) <=> p.told.relationship.riskMitigation # {}
  /\ Alarmed(p) => \E x \in p.trust.riskFactors : x[1] = "ghosting"
  /\ <<"ghosting", "high">> \in p.trust.riskFactors => Alarmed(p)

\* The risk of ghosting implies its factor, and a severe factor implies the risk.
LEMMA ThresholdsAgree ==
  ASSUME NEW signals, NEW g \in Int, g = signals.ghosting_probability.score,
         NEW t, t.trustScore = TrustScore(signals), t.riskFactors = RiskFactors(signals)
  PROVE  /\ AtRisk(t) => \E x \in t.riskFactors : x[1] = "ghosting"
         /\ <<"ghosting", "high">> \in t.riskFactors => AtRisk(t)
<1>1. AtRisk(t) <=> One - g >= 6000
  <2>1. t.trustScore.ghostingRisk = toGhostingRisk(One - g)
    BY DEF TrustScore
  <2>2. One - g \in Int
    BY DEF One
  <2> QED
    BY <2>1, <2>2, RiskOfProbability DEF AtRisk
<1>2. g < 5500 => <<"ghosting", IF g < 3000 THEN "high" ELSE "medium">> \in t.riskFactors
  BY DEF RiskFactors
<1>3. AtRisk(t) => \E x \in t.riskFactors : x[1] = "ghosting"
  <2> SUFFICES ASSUME AtRisk(t)
               PROVE  \E x \in t.riskFactors : x[1] = "ghosting"
    OBVIOUS
  <2>1. g < 5500
    BY <1>1 DEF One
  <2>2. PICK x \in t.riskFactors : x = <<"ghosting", IF g < 3000 THEN "high" ELSE "medium">>
    BY <1>2, <2>1
  <2> QED
    BY <2>2
<1>4. <<"ghosting", "high">> \in t.riskFactors => g < 3000
  <2> SUFFICES ASSUME <<"ghosting", "high">> \in t.riskFactors
               PROVE  g < 3000
    OBVIOUS
  <2>1. <<"ghosting", "high">> # <<"cancellation", "medium">>
        /\ <<"ghosting", "high">> # <<"credibility", "low">>
        /\ <<"ghosting", "high">> # <<"ghosting", "medium">>
    OBVIOUS
  <2> QED
    BY <2>1 DEF RiskFactors
<1> QED
  BY <1>1, <1>3, <1>4 DEF One

\* Alert, reminder and mitigation all follow from that one risk.
LEMMA AlarmsFollowTheRisk ==
  ASSUME NEW known, NEW r, NEW b, NEW trend, NEW t, NEW e, NEW d, NEW answered, NEW heard,
         heard = generate(known, r, b, trend, t, e, d, answered)
  PROVE  /\ (\E a \in heard.riskAlerts : a.type = "ghosting_risk") <=> AtRisk(t)
         /\ (\E f \in heard.followUps : f.action = "reminder") <=> AtRisk(t)
         /\ heard.relationship.riskMitigation # {} <=> AtRisk(t)
<1>1. /\ heard.riskAlerts = RiskAlerts(t, trend)
      /\ heard.followUps = FollowUpRecommendations(r, t)
      /\ heard.relationship = RelationshipRecommendations(t, d)
  BY DEF generate
<1>2. (\E a \in heard.riskAlerts : a.type = "ghosting_risk") <=> AtRisk(t)
  <2>1. PICK ghosting, distrust, silence :
          /\ ghosting = Alert("ghosting_risk",
                              IF t.trustScore.ghostingRisk = "very_high" THEN "high" ELSE "medium",
                              {i \in t.evidence : i <= 3})
          /\ distrust = Alert("trust_declining", "medium", {i \in t.evidence : i <= 2})
          /\ silence = Alert("engagement_dropping", "medium", {})
    OBVIOUS
  <2>2. /\ ghosting.type = "ghosting_risk"
        /\ distrust.type # "ghosting_risk" /\ silence.type # "ghosting_risk"
    BY <2>1 DEF Alert
  <2>3. heard.riskAlerts = {a \in {ghosting} : AtRisk(t)}
                            \cup {a \in {distrust} : t.trustScore.score < 4000}
                            \cup {a \in {silence} : trend = "declining"}
    BY <1>1, <2>1 DEF RiskAlerts
  <2> QED
    BY <2>2, <2>3
<1>3. (\E f \in heard.followUps : f.action = "reminder") <=> AtRisk(t)
  <2> DEFINE reminder == [action |-> "reminder", timing |-> "48 hours"]
  <2>1. heard.followUps = {[action |-> "follow_up", timing |-> Timing(r)]}
                           \cup {f \in {reminder} : AtRisk(t)}
    BY <1>1 DEF FollowUpRecommendations
  <2>2. reminder.action = "reminder"
        /\ [action |-> "follow_up", timing |-> Timing(r)].action # "reminder"
    OBVIOUS
  <2> HIDE DEF reminder
  <2>3. PICK ordinary : ordinary = [action |-> "follow_up", timing |-> Timing(r)]
    OBVIOUS
  <2> QED
    BY <2>1, <2>2, <2>3
<1>4. heard.relationship.riskMitigation # {} <=> AtRisk(t)
  BY <1>1 DEF RelationshipRecommendations
<1> QED
  BY <1>2, <1>3, <1>4

IntelInv ==
  /\ DOMAIN history = {"ghosted", "cancelled"}
  /\ history.ghosted \in Nat /\ history.cancelled \in Nat
  /\ \A p \in report : Agrees(p)

\* So the stages of a run agree,
LEMMA RunsAgree ==
  ASSUME IntelInv, NEW ai \in Answers, Run(ai)
  PROVE  \A p \in report' : Agrees(p)
<1>1. PICK r : r = infer(facts, ai.reasoning)
  OBVIOUS
<1>2. PICK b : b = buildProfile(facts, r, ai.behaviour)
  OBVIOUS
<1>3. PICK trend : trend = OverallTrend(b, prior)
  OBVIOUS
<1>4. PICK signals : signals = mergeSignals(TrustRules(facts, r, b, history), ai.trust)
  OBVIOUS
<1>5. PICK t : t = score(facts, r, b, history, ai.trust)
  OBVIOUS
<1>6. PICK e : e = mergeProfiles(facts, r, ai.expertise, profileVersion)
  OBVIOUS
<1>7. PICK d : d = predict(facts, r, b, t.trustScore, e, ai.decision)
  OBVIOUS
<1>8. PICK heard : heard = generate(facts, r, b, trend, t, e, d, ai.synthesis)
  OBVIOUS
<1>9. \A p \in report' : p.trust = t /\ p.told = heard
  BY <1>1, <1>2, <1>3, <1>5, <1>6, <1>7, <1>8 DEF Run
<1>10. t.trustScore = TrustScore(signals) /\ t.riskFactors = RiskFactors(signals)
  BY <1>4, <1>5 DEF score
<1>11. signals.ghosting_probability.score \in Int
  <2>1. PICK past : past = history
    OBVIOUS
  <2>2. past.ghosted \in Nat
    BY <2>1 DEF IntelInv
  <2> QED
    BY <1>4, <2>1, <2>2, GhostingIsNumber
<1>12. /\ AtRisk(t) => \E x \in t.riskFactors : x[1] = "ghosting"
       /\ <<"ghosting", "high">> \in t.riskFactors => AtRisk(t)
  BY <1>10, <1>11, ThresholdsAgree
<1>13. /\ (\E a \in heard.riskAlerts : a.type = "ghosting_risk") <=> AtRisk(t)
       /\ (\E f \in heard.followUps : f.action = "reminder") <=> AtRisk(t)
       /\ heard.relationship.riskMitigation # {} <=> AtRisk(t)
  BY <1>8, AlarmsFollowTheRisk
<1> QED
  BY <1>9, <1>12, <1>13 DEF Agrees, Alarmed

\* at the start there is no run,
LEMMA IntelStarts == IntelInit => IntelInv
BY DEF IntelInit, IntelInv

\* and every step leaves reports that agree.
LEMMA IntelStep == IntelInv /\ [IntelNext]_intelVars => IntelInv'
<1> SUFFICES ASSUME IntelInv, [IntelNext]_intelVars
             PROVE  IntelInv'
  OBVIOUS
<1>1. CASE UNCHANGED intelVars
  BY <1>1 DEF intelVars, IntelInv, Agrees, Alarmed
<1>2. ASSUME NEW f \in Extracted, Extract(f)
      PROVE  IntelInv'
  BY <1>2 DEF Extract, IntelInv
<1>3. ASSUME NEW outcome \in {"ghosted", "cancelled"}, Record(outcome)
      PROVE  IntelInv'
  BY <1>3 DEF Record, IntelInv
<1>4. ASSUME NEW ai \in Answers, Run(ai)
      PROVE  IntelInv'
  <2>1. history' = history
    BY <1>4 DEF Run
  <2> QED
    BY <1>4, <2>1, RunsAgree DEF IntelInv
<1> QED
  BY <1>1, <1>2, <1>3, <1>4 DEF IntelNext

\* Whatever facts are known and whatever the provider answers, the stages raise their alarms of
\* ghosting together, although each compares another number with another threshold.
THEOREM StagesAgree == IntelSpec => []AlarmsAgree
<1>1. IntelInv => AlarmsAgree
  BY DEF IntelInv, AlarmsAgree, Agrees, Alarmed
<1> QED
  BY <1>1, IntelStarts, IntelStep, PTL DEF IntelSpec

-----------------------------------------------------------------------------
(* What more evidence does to the trust in a recruiter.                    *)

IsTotal(sum, f) ==
  sum = [S \in SUBSET DOMAIN f |->
           IF S = {} THEN 0 ELSE f[Member(S)] + sum[S \ {Member(S)}]]

\* A set that is not empty has a member to take.
LEMMA MemberIsThere == \A S : S # {} => Member(S) \in S
BY DEF Member

\* There is a function that sums the values of each part: it is found one size after the other.
LEMMA TotalIsThere ==
  ASSUME NEW f, IsFiniteSet(DOMAIN f)
  PROVE  \E sum : IsTotal(sum, f)
<1> DEFINE Upto(n) == {S \in SUBSET DOMAIN f : Cardinality(S) <= n}
           Sums(n) == \E s : s = [S \in Upto(n) |->
                        IF S = {} THEN 0 ELSE f[Member(S)] + s[S \ {Member(S)}]]
           Broken == {n \in Nat : ~Sums(n)}
<1>1. \A S \in SUBSET DOMAIN f : IsFiniteSet(S) /\ Cardinality(S) \in Nat
  BY FS_Subset, FS_CardinalityType
<1>2. \A S \in SUBSET DOMAIN f : S # {} => Member(S) \in S
  BY MemberIsThere
<1>3. \A S \in SUBSET DOMAIN f : S # {} => /\ Cardinality(S \ {Member(S)}) = Cardinality(S) - 1
                                           /\ S \ {Member(S)} \in SUBSET DOMAIN f
  BY <1>1, <1>2, FS_RemoveElement
<1>4. Sums(0)
  <2>1. \A S \in Upto(0) : S = {}
    BY <1>1, FS_EmptySet
  <2>2. PICK s : s = [S \in Upto(0) |-> 0]
    OBVIOUS
  <2>3. s = [S \in Upto(0) |-> IF S = {} THEN 0 ELSE f[Member(S)] + s[S \ {Member(S)}]]
    BY <2>1, <2>2
  <2> QED
    BY <2>3
<1>5. ASSUME NEW n \in Nat, Sums(n)
      PROVE  Sums(n + 1)
  <2>1. PICK s : s = [S \in Upto(n) |-> IF S = {} THEN 0 ELSE f[Member(S)] + s[S \ {Member(S)}]]
    BY <1>5
  <2>2. PICK t : t = [S \in Upto(n + 1) |-> IF S = {} THEN 0 ELSE f[Member(S)] + s[S \ {Member(S)}]]
    OBVIOUS
  <2>3. \A S \in Upto(n + 1) : S # {} => S \ {Member(S)} \in Upto(n)
    BY <1>1, <1>3
  <2>4. \A S \in Upto(n) : S \in Upto(n + 1)
    BY <1>1
  <2>5. \A S \in Upto(n) : t[S] = s[S]
    <3> HIDE DEF Upto
    <3> QED
      BY <2>1, <2>2, <2>4
  <2>6. \A S \in Upto(n + 1) : t[S] = IF S = {} THEN 0 ELSE f[Member(S)] + t[S \ {Member(S)}]
    <3> HIDE DEF Upto
    <3> QED
      BY <2>2, <2>3, <2>5
  <2>7. t = [S \in Upto(n + 1) |-> IF S = {} THEN 0 ELSE f[Member(S)] + t[S \ {Member(S)}]]
    <3> HIDE DEF Upto
    <3> QED
      BY <2>2, <2>6
  <2> QED
    BY <2>7
<1>6. Broken = {}
  <2> SUFFICES ASSUME Broken # {}
               PROVE  FALSE
    OBVIOUS
  <2>1. Broken \in SUBSET Nat
    OBVIOUS
  <2> HIDE DEF Sums
  <2>2. PICK n \in Broken : \A m \in Broken : n <= m
    <3> HIDE DEF Broken
    <3> QED
      BY <2>1, MinIsLeast
  <2>3. n # 0 /\ n \in Nat
    BY <1>4
  <2>4. n - 1 \in Nat /\ Sums(n - 1)
    BY <2>2, <2>3
  <2>5. Sums((n - 1) + 1)
    BY <1>5, <2>4
  <2> QED
    BY <2>3, <2>5
<1>7. PICK n \in Nat : n = Cardinality(DOMAIN f)
  BY <1>1
<1>8. Sums(n)
  <2> HIDE DEF Sums
  <2> QED
    BY <1>6
<1>9. Upto(n) = SUBSET DOMAIN f
  <2>1. \A S \in SUBSET DOMAIN f : Cardinality(S) <= n
    BY <1>7, FS_Subset
  <2> QED
    BY <2>1
<1>10. PICK s : s = [S \in SUBSET DOMAIN f |->
                       IF S = {} THEN 0 ELSE f[Member(S)] + s[S \ {Member(S)}]]
  <2> HIDE DEF Upto
  <2> QED
    BY <1>8, <1>9
<1>11. IsTotal(s, f)
  BY <1>10 DEF IsTotal
<1> QED
  BY <1>11

\* The total of a function is the last of the sums, each of which adds one value to another.
Adds(sum, f, D) ==
  /\ Total(f) = sum[D] /\ sum[{}] = 0
  /\ \A S \in SUBSET D : S # {} => sum[S] = f[Member(S)] + sum[S \ {Member(S)}]

\* There are such sums, whatever the function gives.
LEMMA TotalAdds ==
  ASSUME NEW D, IsFiniteSet(D), NEW f, DOMAIN f = D
  PROVE  \E sum : Adds(sum, f, D)
<1> DEFINE sum == CHOOSE s : IsTotal(s, f)
<1>1. IsTotal(sum, f)
  BY TotalIsThere, Zenon
<1>2. Total(f) = sum[DOMAIN f]
  BY DEF Total, IsTotal
<1> HIDE DEF sum
<1>3. Adds(sum, f, D)
  BY <1>1, <1>2 DEF IsTotal, Adds
<1> QED
  BY <1>3

\* A total of numbers between two bounds is between as many of each.
LEMMA TotalIsBetween ==
  ASSUME NEW D, IsFiniteSet(D), NEW f, DOMAIN f = D, NEW low \in Int, NEW high \in Int,
         \A a \in D : f[a] \in Int /\ low <= f[a] /\ f[a] <= high
  PROVE  /\ Total(f) \in Int
         /\ low * Cardinality(D) <= Total(f) /\ Total(f) <= high * Cardinality(D)
<1>1. PICK sum : Adds(sum, f, D)
  BY TotalAdds
<1> DEFINE Right(S) == /\ sum[S] \in Int
                       /\ low * Cardinality(S) <= sum[S] /\ sum[S] <= high * Cardinality(S)
           Wrong == {S \in SUBSET D : ~Right(S)}
<1>2. ASSUME Wrong # {}
      PROVE  FALSE
  <2>1. PICK S \in Wrong : \A x \in S : S \ {x} \notin Wrong
    <3>1. Wrong \in SUBSET (SUBSET D)
      OBVIOUS
    <3> HIDE DEF Wrong
    <3> QED
      BY <1>2, <3>1, SmallestSubset
  <2>2. S \in SUBSET D /\ IsFiniteSet(S) /\ ~Right(S)
    BY FS_Subset
  <2>3. PICK n \in Nat : n = Cardinality(S)
    BY <2>2, FS_CardinalityType
  <2>4. CASE S = {}
    <3>1. n = 0
      BY <2>3, <2>4, FS_EmptySet
    <3> QED
      BY <1>1, <2>2, <2>3, <2>4, <3>1 DEF Adds
  <2>5. CASE S # {}
    <3>1. PICK x \in S : sum[S] = f[x] + sum[S \ {x}]
      BY <1>1, <2>2, <2>5, MemberIsThere DEF Adds
    <3>a. IsFiniteSet(S \ {x}) /\ Cardinality(S \ {x}) = n - 1 /\ Cardinality(S \ {x}) \in Nat
      BY <2>2, <2>3, FS_RemoveElement, FS_CardinalityType
    <3>2. PICK m \in Nat : m = Cardinality(S \ {x}) /\ n = m + 1
      BY <2>3, <3>a
    <3>3. Right(S \ {x})
      BY <2>1, <2>2
    <3>4. PICK s \in Int : s = sum[S \ {x}] /\ low * m <= s /\ s <= high * m
      BY <3>2, <3>3
    <3>5. PICK v \in Int : v = f[x] /\ low <= v /\ v <= high
      BY <2>2
    <3>6. low * n = low * m + low /\ high * n = high * m + high
      BY <3>2
    <3>7. low * m \in Int /\ high * m \in Int
      OBVIOUS
    <3>8. v + s \in Int /\ low * m + low <= v + s /\ v + s <= high * m + high
      BY <3>4, <3>5, <3>7
    <3>9. sum[S] = v + s
      BY <3>1, <3>4, <3>5
    <3> QED
      BY <2>2, <2>3, <3>6, <3>8, <3>9
  <2> QED
    BY <2>4, <2>5
<1>3. Right(D)
  BY <1>2
<1> QED
  BY <1>1, <1>3 DEF Adds

\* When no value is less than another but one, by some amount, neither is the total by more.
LEMMA TotalsCompare ==
  ASSUME NEW D, IsFiniteSet(D), NEW f, DOMAIN f = D, NEW g, DOMAIN g = D,
         NEW x \in D, NEW c \in Int, f[x] <= g[x] + c,
         \A a \in D : f[a] \in Int /\ g[a] \in Int /\ (a # x => f[a] <= g[a])
  PROVE  /\ Total(f) \in Int /\ Total(g) \in Int
         /\ Total(f) <= Total(g) + c
<1>1. PICK s : Adds(s, f, D)
  BY TotalAdds
<1>2. PICK t : Adds(t, g, D)
  BY TotalAdds
<1> DEFINE Right(S) == s[S] \in Int /\ t[S] \in Int /\ s[S] <= t[S] + (IF x \in S THEN c ELSE 0)
           Wrong == {S \in SUBSET D : ~Right(S)}
<1>3. ASSUME Wrong # {}
      PROVE  FALSE
  <2>1. PICK S \in Wrong : \A y \in S : S \ {y} \notin Wrong
    <3>1. Wrong \in SUBSET (SUBSET D)
      OBVIOUS
    <3> HIDE DEF Wrong
    <3> QED
      BY <1>3, <3>1, SmallestSubset
  <2>2. S \in SUBSET D /\ ~Right(S)
    OBVIOUS
  <2>3. CASE S = {}
    BY <1>1, <1>2, <2>2, <2>3 DEF Adds
  <2>4. CASE S # {}
    <3>1. PICK y \in S : s[S] = f[y] + s[S \ {y}] /\ t[S] = g[y] + t[S \ {y}]
      BY <1>1, <1>2, <2>2, <2>4, MemberIsThere DEF Adds
    <3>2. Right(S \ {y})
      BY <2>1, <2>2
    <3>3. PICK a \in Int, b \in Int : a = s[S \ {y}] /\ b = t[S \ {y}]
      BY <3>2
    <3>4. PICK v \in Int, w \in Int : v = f[y] /\ w = g[y]
      BY <2>2
    <3>5. CASE y = x
      <4>1. v <= w + c /\ a <= b
        BY <3>2, <3>3, <3>4, <3>5
      <4> QED
        BY <2>2, <3>1, <3>3, <3>4, <3>5, <4>1
    <3>6. CASE y # x
      <4>1. v <= w
        BY <2>2, <3>4, <3>6
      <4>2. x \in S <=> x \in S \ {y}
        BY <3>6
      <4>3. a <= b + (IF x \in S THEN c ELSE 0)
        BY <3>2, <3>3, <4>2
      <4> QED
        BY <2>2, <3>1, <3>3, <3>4, <4>1, <4>3
    <3> QED
      BY <3>5, <3>6
  <2> QED
    BY <2>3, <2>4
<1>4. Right(D)
  BY <1>3
<1> QED
  BY <1>1, <1>2, <1>4 DEF Adds

\* A quotient lies between the bounds of its dividend.
LEMMA QuotientIsBetween ==
  ASSUME NEW t \in Int, NEW c \in Nat \ {0}, NEW low \in Int, NEW high \in Int,
         low * c <= t, t <= high * c
  PROVE  t \div c \in Int /\ low <= t \div c /\ t \div c <= high
<1>1. PICK d \in Int : d = t \div c
  OBVIOUS
<1>2. PICK m \in Int : m = t % c
  OBVIOUS
<1>3. t = c * d + m /\ 0 <= m /\ m < c
  BY <1>1, <1>2
<1>4. c * d <= t /\ t < c * (d + 1)
  BY <1>3
<1>5. low <= d
  BY <1>4
<1>6. d <= high
  BY <1>4
<1> QED
  BY <1>1, <1>5, <1>6

Attributes == DOMAIN Default

\* What the rules infer of an attribute stands, and what they do not infer is the default.
OrDefault(a, D) == IF D[a].confidence > 0 THEN D[a] ELSE Inference(Default[a], 4000, {})

\* The result holds the inference or the default, and the mean of what is known.
LEMMA WhatIsInferred ==
  ASSUME NEW F, NEW D, D = inferDeterministic(F), NEW r, r = infer(F, <<>>)
  PROVE  /\ \A a \in Attributes : r[a] = OrDefault(a, D)
         /\ r.overallConfidence = Mean([a \in {b \in Attributes : D[b].confidence > 0} |-> D[a]])
<1>1. PICK none : none = <<>>
  OBVIOUS
<1>2. DOMAIN none = {}
  BY <1>1
<1>3. DOMAIN D = Attributes /\ "overallConfidence" \notin Attributes
  BY DEF inferDeterministic, Attributes, Default
<1>4. PICK m : m = mergeInferences(D, none)
  OBVIOUS
<1>5. DOMAIN m = Attributes /\ \A a \in Attributes : m[a] = D[a]
  BY <1>2, <1>3, <1>4 DEF mergeInferences
<1>6. r = buildResult(m)
  BY <1>1, <1>4 DEF infer
<1>7. PICK K : K = {b \in Attributes : D[b].confidence > 0}
  OBVIOUS
<1>8. Known(m) = K /\ [a \in Known(m) |-> m[a]] = [a \in K |-> D[a]]
  BY <1>5, <1>7 DEF Known
<1>9. PICK f : f = [a \in Attributes |-> IF a \in K THEN D[a] ELSE Inference(Default[a], 4000, {})]
  OBVIOUS
<1>10. PICK g : g = [overallConfidence |-> Mean([a \in K |-> D[a]])]
  OBVIOUS
<1>11. [a \in DOMAIN m |-> IF a \in Known(m) THEN m[a] ELSE Inference(Default[a], 4000, {})] = f
  BY <1>5, <1>8, <1>9
<1>12. r = Beside(f, g)
  BY <1>6, <1>8, <1>10, <1>11 DEF buildResult
<1>13. DOMAIN g = {"overallConfidence"} /\ g["overallConfidence"] = Mean([a \in K |-> D[a]])
  BY <1>10
<1>14. DOMAIN f = Attributes
  BY <1>9
<1>15. \A a \in Attributes : r[a] = f[a]
  BY <1>12, <1>14 DEF Beside
<1>16. r["overallConfidence"] = g["overallConfidence"]
  BY <1>3, <1>12, <1>13, <1>14 DEF Beside
<1> QED
  BY <1>7, <1>9, <1>13, <1>15, <1>16 DEF OrDefault

\* A row of a table that is found is one of its rows.
LEMMA RowIsInTable ==
  ASSUME NEW table, DOMAIN table \in SUBSET (Nat \ {0}), NEW said
  PROVE  FirstRow(table, said) = 0 \/ FirstRow(table, said) \in DOMAIN table
<1>1. PICK hits \in SUBSET Nat : hits = {i \in DOMAIN table : table[i][1] \cap said # {}}
  OBVIOUS
<1>2. CASE hits = {}
  BY <1>1, <1>2 DEF FirstRow
<1>3. CASE hits # {}
  <2>1. Min(hits) \in hits
    BY <1>3, MinIsLeast
  <2> QED
    BY <1>1, <1>3, <2>1 DEF FirstRow
<1> QED
  BY <1>2, <1>3

\* How confident a rule can be.
InRange(c) == c \in Int /\ 5500 <= c /\ c <= 9200
Founded(x) == x.confidence = 0 \/ InRange(x.confidence)

\* A confidence in the range founds an inference.
LEMMA SureOfRange == \A c, v, e : InRange(c) => Founded(Inference(v, c, e))
BY DEF Founded, Inference

\* No rule is more confident than the most confident of its rows.
LEMMA RulesAreSure ==
  ASSUME NEW F, NEW D, D = inferDeterministic(F)
  PROVE  \A a \in Attributes : Founded(D[a])
<1>1. Founded(None)
  BY DEF None, Inference, Founded
<1>2. Founded(Seniority(F))
  <2>1. PICK table : table = SeniorityTable
    OBVIOUS
  <2>2. DOMAIN table = 1..4 /\ \A i \in 1..4 : InRange(table[i][3])
    BY <2>1 DEF SeniorityTable, InRange
  <2>3. PICK row : row = FirstRow(table, Texts(F, "recruiter_title"))
    OBVIOUS
  <2>4. row = 0 \/ row \in 1..4
    BY <2>2, <2>3, RowIsInTable
  <2>5. InRange(6000) /\ (row # 0 => InRange(table[row][3]))
    BY <2>2, <2>4 DEF InRange
  <2>6. \A v, e : Founded(Inference(v, 6000, e)) /\ (row # 0 => Founded(Inference(v, table[row][3], e)))
    BY <2>5, SureOfRange
  <2> QED
    BY <1>1, <2>1, <2>3, <2>6 DEF Seniority
<1>3. Founded(Specialization(F))
  <2>1. PICK table : table = SpecializationTable
    OBVIOUS
  <2>2. DOMAIN table = 1..5 /\ \A i \in 1..5 : InRange(table[i][3])
    BY <2>1 DEF SpecializationTable, InRange
  <2>3. PICK said : said = UNION {Texts(F, f) : f \in {"technology", "hiring_domain", "skill"}}
    OBVIOUS
  <2>4. PICK row : row = FirstRow(table, said)
    OBVIOUS
  <2>5. row = 0 \/ row \in 1..5
    BY <2>2, <2>4, RowIsInTable
  <2>6. /\ InRange(8500) /\ InRange(6800)
        /\ row # 0 => InRange(table[row][3])
    BY <2>2, <2>5 DEF InRange
  <2>7. \A v, e : /\ Founded(Inference(v, 8500, e)) /\ Founded(Inference(v, 6800, e))
                  /\ row # 0 => Founded(Inference(v, table[row][3], e))
    BY <2>6, SureOfRange
  <2> QED
    BY <1>1, <2>1, <2>3, <2>4, <2>7 DEF Specialization
<1>4. /\ Founded(Listed(F, "hiring_domain", 7500)) /\ Founded(Listed(F, "technology", 8200))
      /\ Founded(Listed(F, "hiring_location", 7000))
  BY <1>1 DEF Listed, Inference, Founded, InRange
<1>5. Founded(DecisionAuthority(F))
  BY <1>1 DEF DecisionAuthority, Inference, Founded, InRange
<1>6. Founded(CommunicationIntent(F))
  <2>1. \A stage \in DOMAIN StageIntent : InRange(StageIntent[stage][2])
    BY DEF StageIntent, InRange
  <2>2. \A stage \in DOMAIN StageIntent : \A v, e : Founded(Inference(v, StageIntent[stage][2], e))
    BY <2>1, SureOfRange
  <2> QED
    BY <1>1, <2>2 DEF CommunicationIntent
<1>7. Founded(Urgency(F))
  BY DEF Urgency, Inference, Founded, InRange
<1>8. Founded(FollowUpRequirements(F))
  BY <1>1 DEF FollowUpRequirements, Inference, Founded, InRange
<1> QED
  BY <1>1, <1>2, <1>3, <1>4, <1>5, <1>6, <1>7, <1>8 DEF inferDeterministic, Attributes, Default

\* There is a finite number of attributes.
LEMMA AttributesAreFew == IsFiniteSet(Attributes)
<1>1. \A x : \A S : IsFiniteSet(S) => IsFiniteSet(S \cup {x})
  BY FS_AddElement
<1>2. Attributes = {"seniority"} \cup {"specialization"} \cup {"hiringFocus"}
        \cup {"technicalDomains"} \cup {"businessDomains"} \cup {"geographicResponsibility"}
        \cup {"decisionAuthority"} \cup {"likelyHiringManagerRelationships"}
        \cup {"candidateOwnership"} \cup {"communicationIntent"} \cup {"urgency"}
        \cup {"followUpRequirements"}
  BY DEF Attributes, Default
<1>3. IsFiniteSet({"seniority"})
  BY FS_Singleton
<1> QED
  BY <1>1, <1>2, <1>3

\* The mean of the confidences is as sure as the rules are: one of them always knows something.
LEMMA OverallIsSure ==
  ASSUME NEW F, NEW r, r = infer(F, <<>>)
  PROVE  r.overallConfidence \in Int /\ 5500 <= r.overallConfidence /\ r.overallConfidence <= 9200
<1>1. PICK D : D = inferDeterministic(F)
  OBVIOUS
<1>2. PICK K \in SUBSET Attributes : K = {b \in Attributes : D[b].confidence > 0}
  OBVIOUS
<1>3. \A a \in K : D[a].confidence \in Int /\ 5500 <= D[a].confidence /\ D[a].confidence <= 9200
  <2>1. \A a \in K : Founded(D[a]) /\ D[a].confidence > 0
    BY <1>1, <1>2, RulesAreSure
  <2> QED
    BY <2>1 DEF Founded, InRange
<1>4. K # {}
  <2>1. D.urgency = Urgency(F) /\ "urgency" \in Attributes
    BY <1>1 DEF inferDeterministic, Attributes, Default
  <2>2. Urgency(F).confidence > 0
    BY DEF Urgency, Inference
  <2> QED
    BY <1>2, <2>1, <2>2
<1>5. IsFiniteSet(K)
  BY AttributesAreFew, FS_Subset
<1>6. PICK c \in Nat \ {0} : c = Cardinality(K)
  BY <1>4, <1>5, FS_CardinalityType, FS_EmptySet
<1>7. PICK k : k = [a \in K |-> D[a]]
  OBVIOUS
<1>8. PICK f : f = [a \in K |-> D[a].confidence]
  OBVIOUS
<1>9. DOMAIN k = K /\ [a \in DOMAIN k |-> k[a].confidence] = f
  BY <1>7, <1>8
<1>10. DOMAIN f = K /\ \A a \in K : f[a] \in Int /\ 5500 <= f[a] /\ f[a] <= 9200
  BY <1>3, <1>8
<1>11. Total(f) \in Int /\ 5500 * c <= Total(f) /\ Total(f) <= 9200 * c
  BY <1>5, <1>6, <1>10, TotalIsBetween
<1>12. r.overallConfidence = Mean(k)
  BY <1>1, <1>2, <1>7, WhatIsInferred
<1>13. Mean(k) = Total(f) \div c
  BY <1>6, <1>9 DEF Mean
<1> QED
  BY <1>11, <1>12, <1>13, QuotientIsBetween

\* The facts of q go on where those of p end.
GoesOnFrom(p, q) ==
  \E m \in Nat, n \in Nat :
    DOMAIN p = 1..m /\ DOMAIN q = 1..n /\ m <= n /\ \A i \in 1..m : q[i] = p[i]

\* What was said is still said, and what was said first is still the first.
LEMMA FactsAccumulate ==
  ASSUME NEW p, NEW q, GoesOnFrom(p, q), NEW field
  PROVE  /\ OfField(p, field) \subseteq OfField(q, field)
         /\ Texts(p, field) \subseteq Texts(q, field)
         /\ OfField(p, field) # {} =>
              q[Min(OfField(q, field))].text = p[Min(OfField(p, field))].text
<1>1. PICK m \in Nat, n \in Nat :
        DOMAIN p = 1..m /\ DOMAIN q = 1..n /\ m <= n /\ \A i \in 1..m : q[i] = p[i]
  BY DEF GoesOnFrom
<1>2. 1..m \subseteq 1..n
  BY <1>1
<1>3. PICK A \in SUBSET Nat : A = OfField(p, field) /\ \A i : i \in A <=> i \in 1..m /\ p[i].field = field
  <2>1. PICK A : A = {i \in 1..m : p[i].field = field}
    OBVIOUS
  <2>2. A \in SUBSET Nat /\ \A i : i \in A <=> i \in 1..m /\ p[i].field = field
    BY <2>1
  <2>3. A = OfField(p, field)
    BY <1>1, <2>1 DEF OfField
  <2> QED
    BY <2>2, <2>3
<1>4. PICK B \in SUBSET Nat : B = OfField(q, field) /\ \A i : i \in B <=> i \in 1..n /\ q[i].field = field
  <2>1. PICK B : B = {i \in 1..n : q[i].field = field}
    OBVIOUS
  <2>2. B \in SUBSET Nat /\ \A i : i \in B <=> i \in 1..n /\ q[i].field = field
    BY <2>1
  <2>3. B = OfField(q, field)
    BY <1>1, <2>1 DEF OfField
  <2> QED
    BY <2>2, <2>3
<1>5. A \subseteq B /\ \A i \in B : i <= m => i \in A
  BY <1>1, <1>2, <1>3, <1>4
<1>6. \A i \in A : p[i] = q[i]
  BY <1>1, <1>3
<1>7. Texts(p, field) \subseteq Texts(q, field)
  BY <1>3, <1>4, <1>5, <1>6 DEF Texts
<1>8. A # {} => q[Min(B)].text = p[Min(A)].text
  <2> SUFFICES ASSUME A # {}
               PROVE  Min(B) = Min(A) /\ Min(A) \in A
    BY <1>6
  <2>1. PICK x \in A : x = Min(A) /\ \A y \in A : x <= y
    BY MinIsLeast
  <2>2. PICK z \in B : z = Min(B) /\ \A y \in B : z <= y
    BY <1>5, MinIsLeast
  <2>3. z <= x /\ x <= m
    BY <1>3, <1>5, <2>1, <2>2
  <2>4. z \in A
    BY <1>1, <1>3, <1>4, <1>5, <2>3
  <2>5. x <= z
    BY <2>1, <2>4
  <2> QED
    BY <2>1, <2>2, <2>3, <2>5
<1> QED
  BY <1>3, <1>4, <1>5, <1>7, <1>8

\* The confidences the later stages read do not go down, and what they ask of the values stays.
Firmer(r, s) ==
  /\ \A a \in {"urgency", "communicationIntent", "followUpRequirements", "decisionAuthority"} :
       r[a].confidence \in Nat /\ s[a].confidence \in Nat /\ r[a].confidence <= s[a].confidence
  /\ Urgent(r) => Urgent(s)
  /\ s.urgency.value = "low" => r.urgency.value = "low"
  /\ r.communicationIntent.value # "unknown" => s.communicationIntent.value # "unknown"
  /\ r.followUpRequirements.value # {} => s.followUpRequirements.value # {}

\* The attributes of some facts that the rules infer or leave at their defaults.
LEMMA InferredFour ==
  ASSUME NEW F, NEW r, r = infer(F, <<>>)
  PROVE  /\ r.urgency = Urgency(F)
         /\ r.communicationIntent = IF CommunicationIntent(F).confidence > 0
                                    THEN CommunicationIntent(F) ELSE Inference("unknown", 4000, {})
         /\ r.followUpRequirements = IF FollowUpRequirements(F).confidence > 0
                                     THEN FollowUpRequirements(F) ELSE Inference({}, 4000, {})
         /\ r.decisionAuthority = IF DecisionAuthority(F).confidence > 0
                                  THEN DecisionAuthority(F) ELSE Inference("unknown", 4000, {})
<1>1. PICK D : D = inferDeterministic(F)
  OBVIOUS
<1>2. /\ D["urgency"] = Urgency(F) /\ D["communicationIntent"] = CommunicationIntent(F)
      /\ D["followUpRequirements"] = FollowUpRequirements(F)
      /\ D["decisionAuthority"] = DecisionAuthority(F)
  BY <1>1 DEF inferDeterministic
<1>3. {"urgency", "communicationIntent", "followUpRequirements", "decisionAuthority"} \subseteq Attributes
  BY DEF Attributes, Default
<1>4. /\ Default["communicationIntent"] = "unknown" /\ Default["followUpRequirements"] = {}
      /\ Default["decisionAuthority"] = "unknown"
  BY DEF Default
<1>5. \A a \in Attributes : r[a] = OrDefault(a, D)
  BY <1>1, WhatIsInferred
<1>6. Urgency(F).confidence > 0
  BY DEF Urgency, Inference
<1>7. r["urgency"] = Urgency(F)
  BY <1>2, <1>3, <1>5, <1>6 DEF OrDefault
<1>8. r["communicationIntent"] = IF CommunicationIntent(F).confidence > 0
                                 THEN CommunicationIntent(F) ELSE Inference("unknown", 4000, {})
  BY <1>2, <1>3, <1>4, <1>5 DEF OrDefault
<1>9. r["followUpRequirements"] = IF FollowUpRequirements(F).confidence > 0
                                  THEN FollowUpRequirements(F) ELSE Inference({}, 4000, {})
  <2>1. r["followUpRequirements"] = OrDefault("followUpRequirements", D)
    BY <1>3, <1>5
  <2> QED
    BY <1>2, <1>4, <2>1 DEF OrDefault
<1>10. r["decisionAuthority"] = IF DecisionAuthority(F).confidence > 0
                                THEN DecisionAuthority(F) ELSE Inference("unknown", 4000, {})
  BY <1>2, <1>3, <1>4, <1>5 DEF OrDefault
<1> QED
  BY <1>7, <1>8, <1>9, <1>10

\* So more facts make the inferences firmer.
LEMMA InferencesFirm ==
  ASSUME NEW p, NEW q, GoesOnFrom(p, q), NEW r, r = infer(p, <<>>), NEW s, s = infer(q, <<>>)
  PROVE  Firmer(r, s)
<1>1. \A field : OfField(p, field) \subseteq OfField(q, field) /\ Texts(p, field) \subseteq Texts(q, field)
  BY FactsAccumulate
<1>2. /\ r.urgency.confidence \in Nat /\ s.urgency.confidence \in Nat
      /\ r.urgency.confidence <= s.urgency.confidence
      /\ Urgent(r) => Urgent(s)
      /\ s.urgency.value = "low" => r.urgency.value = "low"
  <2>1. r.urgency = Urgency(p) /\ s.urgency = Urgency(q)
    BY InferredFour
  <2> DEFINE Presses(F) == \/ "high" \in Texts(F, "hiring_priority")
                           \/ Texts(F, "interview_stage") \cap {"final_round", "offer", "onsite"} # {}
             Ranked(u, F) == /\ Presses(F) => u.value = "high" /\ u.confidence = 8000
                             /\ ~Presses(F) /\ OfField(F, "interview_stage") # {} =>
                                  u.value = "medium" /\ u.confidence = 6500
                             /\ ~Presses(F) /\ OfField(F, "interview_stage") = {} =>
                                  u.value = "low" /\ u.confidence = 5500
  <2>2. \A F : Ranked(Urgency(F), F)
    BY DEF Urgency, Inference
  <2>3. Presses(p) => Presses(q)
    BY <1>1
  <2>4. OfField(p, "interview_stage") # {} => OfField(q, "interview_stage") # {}
    BY <1>1
  <2>5. Ranked(r.urgency, p) /\ Ranked(s.urgency, q)
    BY <2>1, <2>2
  <2> HIDE DEF Presses
  <2> QED
    BY <2>3, <2>4, <2>5 DEF Urgent
<1>3. /\ r.communicationIntent.confidence \in Nat /\ s.communicationIntent.confidence \in Nat
      /\ r.communicationIntent.confidence <= s.communicationIntent.confidence
      /\ r.communicationIntent.value # "unknown" => s.communicationIntent.value # "unknown"
  <2> DEFINE Stage(F) == F[Min(OfField(F, "interview_stage"))].text
             Staged(F) == OfField(F, "interview_stage") # {} /\ Stage(F) \in DOMAIN StageIntent
             Meant(c, F) == IF Staged(F)
                            THEN /\ c.value = StageIntent[Stage(F)][1]
                                 /\ c.confidence = StageIntent[Stage(F)][2]
                            ELSE c.value = "unknown" /\ c.confidence = 4000
  <2>1. \A stage \in DOMAIN StageIntent :
          /\ StageIntent[stage][2] \in Nat /\ StageIntent[stage][2] > 4000
          /\ StageIntent[stage][1] # "unknown"
    BY DEF StageIntent
  <2>2. \A F : Staged(F) => /\ CommunicationIntent(F).value = StageIntent[Stage(F)][1]
                            /\ CommunicationIntent(F).confidence = StageIntent[Stage(F)][2]
    BY DEF CommunicationIntent, Inference
  <2>3. \A F : ~Staged(F) => CommunicationIntent(F).confidence = 0
    BY DEF CommunicationIntent, Inference, None
  <2>4. Staged(p) => Staged(q) /\ Stage(q) = Stage(p)
    BY <1>1, FactsAccumulate
  <2> HIDE DEF Staged, Stage
  <2>5. ASSUME NEW F, NEW c, c = IF CommunicationIntent(F).confidence > 0
                                 THEN CommunicationIntent(F) ELSE Inference("unknown", 4000, {})
        PROVE  Meant(c, F)
    <3>1. CASE Staged(F)
      <4>1. Stage(F) \in DOMAIN StageIntent
        BY <3>1 DEF Staged
      <4> QED
        BY <2>1, <2>2, <2>5, <3>1, <4>1
    <3>2. CASE ~Staged(F)
      <4>1. ~(CommunicationIntent(F).confidence > 0)
        BY <2>3, <3>2
      <4> QED
        BY <2>5, <3>2, <4>1 DEF Inference
    <3> QED
      BY <3>1, <3>2
  <2>6. Meant(r.communicationIntent, p) /\ Meant(s.communicationIntent, q)
    BY <2>5, InferredFour
  <2>7. /\ Staged(p) => Stage(p) \in DOMAIN StageIntent
        /\ Staged(q) => Stage(q) \in DOMAIN StageIntent
    BY DEF Staged
  <2> QED
    BY <2>1, <2>4, <2>6, <2>7
<1>4. /\ r.followUpRequirements.confidence \in Nat /\ s.followUpRequirements.confidence \in Nat
      /\ r.followUpRequirements.confidence <= s.followUpRequirements.confidence
      /\ r.followUpRequirements.value # {} => s.followUpRequirements.value # {}
  <2> DEFINE Asks(F) == {f \in {"interview_stage", "compensation_mention",
                                "recruiter_responsibility"} : OfField(F, f) # {}}
             Asked(c, F) == /\ c.value = Asks(F)
                            /\ c.confidence = IF Asks(F) = {} THEN 4000 ELSE 7200
  <2>1. Asks(p) \subseteq Asks(q)
    BY <1>1
  <2>2. \A F : /\ Asks(F) = {} => FollowUpRequirements(F).confidence = 0
               /\ Asks(F) # {} => /\ FollowUpRequirements(F).value = Asks(F)
                                  /\ FollowUpRequirements(F).confidence = 7200
    BY DEF FollowUpRequirements, Inference, None
  <2> HIDE DEF Asks
  <2>3. ASSUME NEW F, NEW c, c = IF FollowUpRequirements(F).confidence > 0
                                 THEN FollowUpRequirements(F) ELSE Inference({}, 4000, {})
        PROVE  Asked(c, F)
    BY <2>2, <2>3 DEF Inference
  <2>4. Asked(r.followUpRequirements, p) /\ Asked(s.followUpRequirements, q)
    BY <2>3, InferredFour
  <2> QED
    BY <2>1, <2>4
<1>5. /\ r.decisionAuthority.confidence \in Nat /\ s.decisionAuthority.confidence \in Nat
      /\ r.decisionAuthority.confidence <= s.decisionAuthority.confidence
  <2> DEFINE Leads(F) == Texts(F, "recruiter_title")
                           \cap {"senior", "lead", "principal", "head", "director", "vp"} # {}
             Pays(F) == OfField(F, "compensation_mention") # {}
             Level(F) == IF ~Pays(F) THEN 0 ELSE IF Leads(F) THEN 7800 ELSE 6200
  <2>1. (Leads(p) => Leads(q)) /\ (Pays(p) => Pays(q))
    BY <1>1
  <2>2. \A F : DecisionAuthority(F).confidence = Level(F)
    BY DEF DecisionAuthority, Inference, None
  <2> HIDE DEF Leads, Pays
  <2>3. \A F, c : c = (IF DecisionAuthority(F).confidence > 0
                       THEN DecisionAuthority(F) ELSE Inference("unknown", 4000, {}))
                    => c.confidence = IF Level(F) > 0 THEN Level(F) ELSE 4000
    BY <2>2 DEF Inference
  <2>4. /\ r.decisionAuthority.confidence = IF Level(p) > 0 THEN Level(p) ELSE 4000
        /\ s.decisionAuthority.confidence = IF Level(q) > 0 THEN Level(q) ELSE 4000
    BY <2>3, InferredFour
  <2> QED
    BY <2>1, <2>4
<1> QED
  BY <1>2, <1>3, <1>4, <1>5 DEF Firmer

Dims == {"communicationStyle", "hiringUrgency", "recruiterEngagement",
         "preferredCommunicationChannels", "followUpBehavior", "decisionMakingPatterns",
         "recruiterConsistency", "responseQuality", "responsiveness", "recruiterPreferences",
         "schedulingBehavior", "activityPatterns", "responsivenessTrends"}

\* The profile has thirteen dimensions.
LEMMA DimsAreCounted == IsFiniteSet(Dims) /\ Cardinality(Dims) = 13
<1> DEFINE Counts(S, n) == IsFiniteSet(S) /\ Cardinality(S) = n
<1>1. ASSUME NEW S, NEW n \in Nat, Counts(S, n), NEW x, x \notin S
      PROVE  Counts(S \cup {x}, n + 1)
  BY <1>1, FS_AddElement
<1>2. Counts({"communicationStyle"}, 1)
  BY FS_Singleton
<1> HIDE DEF Counts
<1>3. Counts({"communicationStyle", "hiringUrgency"}, 2)
  <2>1. Counts({"communicationStyle"} \cup {"hiringUrgency"}, 1 + 1)
    BY <1>1, <1>2
  <2>2. {"communicationStyle"} \cup {"hiringUrgency"} = {"communicationStyle", "hiringUrgency"}
    OBVIOUS
  <2> QED
    BY <2>1, <2>2
<1> DEFINE A == {"communicationStyle", "hiringUrgency"}
<1>4. Counts(A \cup {"recruiterEngagement"}, 3)
  BY <1>1, <1>3
<1> DEFINE B == A \cup {"recruiterEngagement"}
<1>5. Counts(B \cup {"preferredCommunicationChannels"}, 4)
  BY <1>1, <1>4
<1> DEFINE C == B \cup {"preferredCommunicationChannels"}
<1>6. Counts(C \cup {"followUpBehavior"}, 5)
  BY <1>1, <1>5
<1> DEFINE D == C \cup {"followUpBehavior"}
<1>7. Counts(D \cup {"decisionMakingPatterns"}, 6)
  BY <1>1, <1>6
<1> DEFINE E == D \cup {"decisionMakingPatterns"}
<1>8. Counts(E \cup {"recruiterConsistency"}, 7)
  BY <1>1, <1>7
<1> DEFINE G == E \cup {"recruiterConsistency"}
<1>9. Counts(G \cup {"responseQuality"}, 8)
  BY <1>1, <1>8
<1> DEFINE H == G \cup {"responseQuality"}
<1>10. Counts(H \cup {"responsiveness"}, 9)
  BY <1>1, <1>9
<1> DEFINE I == H \cup {"responsiveness"}
<1>11. Counts(I \cup {"recruiterPreferences"}, 10)
  BY <1>1, <1>10
<1> DEFINE J == I \cup {"recruiterPreferences"}
<1>12. Counts(J \cup {"schedulingBehavior"}, 11)
  BY <1>1, <1>11
<1> DEFINE K == J \cup {"schedulingBehavior"}
<1>13. Counts(K \cup {"activityPatterns"}, 12)
  BY <1>1, <1>12
<1> DEFINE L == K \cup {"activityPatterns"}
<1>14. Counts(L \cup {"responsivenessTrends"}, 13)
  BY <1>1, <1>13
<1>15. L \cup {"responsivenessTrends"} = Dims
  BY DEF Dims
<1> QED
  BY <1>14, <1>15 DEF Counts

\* A fixed portion of a confidence.
Portion(part, whole, n) == (part * n) \div whole

\* The confidences of the dimensions, when the provider says nothing.
IsLevels(f, n, r) ==
  /\ DOMAIN f = Dims
  /\ f["communicationStyle"] = Portion(7, 10, r.communicationIntent.confidence) + 1000
  /\ f["hiringUrgency"] = r.urgency.confidence
  /\ f["recruiterEngagement"] = Least(7500, 4000 + 500 * n)
  /\ f["preferredCommunicationChannels"] = 6500
  /\ f["followUpBehavior"] = Portion(8, 10, r.followUpRequirements.confidence)
  /\ f["decisionMakingPatterns"] = Portion(75, 100, r.decisionAuthority.confidence)
  /\ f["recruiterConsistency"] = Least(7000, 4500 + 400 * n)
  /\ f["responseQuality"] = (85 * r.overallConfidence) \div 100
  /\ f["responsiveness"] = Portion(8, 10, r.urgency.confidence)
  /\ f["recruiterPreferences"] = 4000 /\ f["schedulingBehavior"] = 4000
  /\ f["activityPatterns"] = 4500 /\ f["responsivenessTrends"] = 3500

\* The two numbers of a profile that the trust reads are made of those confidences.
LEMMA ProfileMeans ==
  ASSUME NEW F, NEW r, NEW b, b = buildProfile(F, r, <<>>)
  PROVE  \E f : /\ IsLevels(f, FieldCount(F), r)
                /\ b.overallConfidence = Total(f) \div 13
                /\ b.overallBehaviorScore = Least(One, (11 * (Total(f) \div 13)) \div 10)
<1>1. PICK none : none = <<>>
  OBVIOUS
<1>2. DOMAIN none = {}
  BY <1>1
<1>3. PICK rules : rules = BehaviourRules(F, r)
  OBVIOUS
<1>4. PICK rest : rest = BehaviourDefaults
  OBVIOUS
<1>5. PICK n : n = FieldCount(F)
  OBVIOUS
<1>6. /\ DOMAIN rules = {"communicationStyle", "hiringUrgency", "recruiterEngagement",
                         "preferredCommunicationChannels", "followUpBehavior",
                         "decisionMakingPatterns", "recruiterConsistency", "responseQuality",
                         "responsiveness"}
      /\ rules["communicationStyle"].confidence = (7 * r.communicationIntent.confidence) \div 10 + 1000
      /\ rules["hiringUrgency"].confidence = r.urgency.confidence
      /\ rules["recruiterEngagement"].confidence = Least(7500, 4000 + 500 * n)
      /\ rules["preferredCommunicationChannels"].confidence = 6500
      /\ rules["followUpBehavior"].confidence = (8 * r.followUpRequirements.confidence) \div 10
      /\ rules["decisionMakingPatterns"].confidence = (75 * r.decisionAuthority.confidence) \div 100
      /\ rules["recruiterConsistency"].confidence = Least(7000, 4500 + 400 * n)
      /\ rules["responseQuality"].confidence = (85 * r.overallConfidence) \div 100
      /\ rules["responsiveness"].confidence = (8 * r.urgency.confidence) \div 10
  BY <1>3, <1>5 DEF BehaviourRules, Dimension
<1>7. /\ DOMAIN rest = {"recruiterPreferences", "schedulingBehavior", "activityPatterns",
                        "responsivenessTrends"}
      /\ rest["recruiterPreferences"].confidence = 4000
      /\ rest["schedulingBehavior"].confidence = 4000
      /\ rest["activityPatterns"].confidence = 4500
      /\ rest["responsivenessTrends"].confidence = 3500
  BY <1>4 DEF BehaviourDefaults, Dimension
<1>8. PICK all : all = Beside(rules, rest)
  OBVIOUS
<1>9. DOMAIN all = Dims
  BY <1>6, <1>7, <1>8 DEF Beside, Dims
<1>10. \A d \in Dims : all[d] = IF d \in DOMAIN rules THEN rules[d] ELSE rest[d]
  BY <1>6, <1>7, <1>8 DEF Beside, Dims
<1>11. PICK f : f = [d \in Dims |-> all[d].confidence]
  OBVIOUS
<1>12. /\ \A d \in DOMAIN rules : d \in Dims /\ f[d] = rules[d].confidence
       /\ \A d \in DOMAIN rest : d \in Dims /\ d \notin DOMAIN rules /\ f[d] = rest[d].confidence
  <2>1. \A d \in DOMAIN rules : d \in Dims
    BY <1>6 DEF Dims
  <2>2. \A d \in DOMAIN rest : d \in Dims /\ d \notin DOMAIN rules
    BY <1>6, <1>7 DEF Dims
  <2> QED
    BY <1>10, <1>11, <2>1, <2>2
<1>13. IsLevels(f, n, r)
  BY <1>6, <1>7, <1>11, <1>12 DEF IsLevels, Portion
<1>14. Mean(all) = Total(f) \div 13
  BY <1>9, <1>11, DimsAreCounted DEF Mean
<1>15. PICK dims : dims = [d \in DOMAIN all |->
                 CASE d \in DOMAIN none /\ d \in DOMAIN BehaviourDefaults -> none[d]
                   [] /\ d \in DOMAIN none /\ d = "communicationStyle"
                      /\ none[d].confidence > rules[d].confidence -> none[d]
                   [] OTHER -> all[d]]
  OBVIOUS
<1>16. dims = all
  <2>1. DOMAIN dims = DOMAIN all /\ \A d \in DOMAIN all : dims[d] = all[d]
    BY <1>2, <1>15
  <2>2. all = [d \in DOMAIN all |-> all[d]] /\ dims = [d \in DOMAIN dims |-> dims[d]]
    BY <1>8, <1>15 DEF Beside
  <2> QED
    BY <2>1, <2>2
<1>17. PICK two : two = [overallConfidence |-> Mean(dims),
                         overallBehaviorScore |-> Least(One, (11 * Mean(dims)) \div 10)]
  OBVIOUS
<1>18. b = Beside(dims, two)
  BY <1>1, <1>3, <1>4, <1>8, <1>15, <1>17 DEF buildProfile
<1>19. /\ DOMAIN two = {"overallConfidence", "overallBehaviorScore"}
       /\ two["overallConfidence"] = Mean(all)
       /\ two["overallBehaviorScore"] = Least(One, (11 * Mean(all)) \div 10)
  BY <1>16, <1>17
<1>20. "overallConfidence" \notin Dims /\ "overallBehaviorScore" \notin Dims
  BY DEF Dims
<1>21. \A x \in DOMAIN two : x \notin Dims => b[x] = two[x]
  BY <1>9, <1>16, <1>18 DEF Beside
<1>22. b["overallConfidence"] = Mean(all) /\ b["overallBehaviorScore"] = Least(One, (11 * Mean(all)) \div 10)
  BY <1>19, <1>20, <1>21
<1> QED
  BY <1>5, <1>13, <1>14, <1>22

\* The facts name a number of fields, no fewer when they go on.
LEMMA FieldsAreCounted ==
  ASSUME NEW p, NEW q, GoesOnFrom(p, q)
  PROVE  FieldCount(p) \in Nat /\ FieldCount(q) \in Nat /\ FieldCount(p) <= FieldCount(q)
<1>1. PICK m \in Nat, n \in Nat :
        DOMAIN p = 1..m /\ DOMAIN q = 1..n /\ m <= n /\ \A i \in 1..m : q[i] = p[i]
  BY DEF GoesOnFrom
<1>2. PICK A : A = {p[i].field : i \in 1..m}
  OBVIOUS
<1>3. PICK B : B = {q[i].field : i \in 1..n}
  OBVIOUS
<1>4. A \subseteq B
  BY <1>1, <1>2, <1>3
<1>5. IsFiniteSet(B)
  <2>1. PICK f : f = [i \in 1..n |-> q[i].field]
    OBVIOUS
  <2>2. f \in Surjection(1..n, B)
    BY <1>3, <2>1 DEF Surjection
  <2>3. IsFiniteSet(1..n)
    BY FS_Interval
  <2> QED
    BY <2>2, <2>3, FS_Surjection
<1>6. IsFiniteSet(A) /\ Cardinality(A) \in Nat /\ Cardinality(B) \in Nat /\ Cardinality(A) <= Cardinality(B)
  BY <1>4, <1>5, FS_Subset, FS_CardinalityType
<1>7. FieldCount(p) = Cardinality(A) /\ FieldCount(q) = Cardinality(B)
  BY <1>1, <1>2, <1>3 DEF FieldCount
<1> QED
  BY <1>6, <1>7

\* The portions the dimensions take of a confidence grow with it.
LEMMA PortionsGrow ==
  ASSUME NEW x \in Nat, NEW y \in Nat, x <= y
  PROVE  /\ Portion(8, 10, x) \in Int /\ Portion(8, 10, y) \in Int /\ Portion(8, 10, x) <= Portion(8, 10, y)
         /\ Portion(7, 10, x) \in Int /\ Portion(7, 10, y) \in Int /\ Portion(7, 10, x) <= Portion(7, 10, y)
         /\ Portion(75, 100, x) \in Int /\ Portion(75, 100, y) \in Int
         /\ Portion(75, 100, x) <= Portion(75, 100, y)
<1>1. Portion(8, 10, x) \in Int /\ Portion(8, 10, y) \in Int /\ Portion(8, 10, x) <= Portion(8, 10, y)
  BY DEF Portion
<1>2. Portion(7, 10, x) \in Int /\ Portion(7, 10, y) \in Int /\ Portion(7, 10, x) <= Portion(7, 10, y)
  BY DEF Portion
<1>3. /\ Portion(75, 100, x) \in Int /\ Portion(75, 100, y) \in Int
      /\ Portion(75, 100, x) <= Portion(75, 100, y)
  BY DEF Portion
<1> QED
  BY <1>1, <1>2, <1>3

\* More facts lower the mean of the thirteen dimensions little: one of them alone can fall.
LEMMA ProfilesFallLittle ==
  ASSUME NEW p, NEW q, GoesOnFrom(p, q), NEW r, r = infer(p, <<>>), NEW s, s = infer(q, <<>>),
         NEW b, b = buildProfile(p, r, <<>>), NEW c, c = buildProfile(q, s, <<>>)
  PROVE  /\ b.overallConfidence \in Int /\ c.overallConfidence \in Int
         /\ b.overallBehaviorScore \in Int /\ c.overallBehaviorScore \in Int
         /\ b.overallBehaviorScore <= c.overallBehaviorScore + 300
<1>1. PICK m \in Nat : m = FieldCount(p)
  BY FieldsAreCounted
<1>2. PICK n \in Nat : n = FieldCount(q) /\ m <= n
  BY <1>1, FieldsAreCounted
<1>3. PICK f : /\ IsLevels(f, m, r)
               /\ b.overallConfidence = Total(f) \div 13
               /\ b.overallBehaviorScore = Least(One, (11 * (Total(f) \div 13)) \div 10)
  BY <1>1, ProfileMeans
<1>4. PICK g : /\ IsLevels(g, n, s)
               /\ c.overallConfidence = Total(g) \div 13
               /\ c.overallBehaviorScore = Least(One, (11 * (Total(g) \div 13)) \div 10)
  BY <1>2, ProfileMeans
<1>5. Firmer(r, s)
  BY InferencesFirm
<1>6. PICK v \in Int, w \in Int : /\ v = r.overallConfidence /\ w = s.overallConfidence
                                  /\ 5500 <= v /\ v <= 9200 /\ 5500 <= w /\ w <= 9200
  BY OverallIsSure
<1>7. f["responseQuality"] \in Int /\ g["responseQuality"] \in Int
      /\ f["responseQuality"] <= g["responseQuality"] + 3145
  <2>1. f["responseQuality"] = (85 * v) \div 100 /\ g["responseQuality"] = (85 * w) \div 100
    BY <1>3, <1>4, <1>6 DEF IsLevels
  <2>2. /\ (85 * v) \div 100 \in Int /\ (85 * w) \div 100 \in Int
        /\ (85 * v) \div 100 <= 7820 /\ 4675 <= (85 * w) \div 100
    BY <1>6
  <2> QED
    BY <2>1, <2>2
<1>8. /\ Least(7500, 4000 + 500 * m) \in Int /\ Least(7500, 4000 + 500 * n) \in Int
      /\ Least(7500, 4000 + 500 * m) <= Least(7500, 4000 + 500 * n)
      /\ Least(7000, 4500 + 400 * m) \in Int /\ Least(7000, 4500 + 400 * n) \in Int
      /\ Least(7000, 4500 + 400 * m) <= Least(7000, 4500 + 400 * n)
  BY <1>2 DEF Least
<1> DEFINE Grows(d) == f[d] \in Int /\ g[d] \in Int /\ f[d] <= g[d]
<1>9. \A k \in {"urgency", "communicationIntent", "followUpRequirements", "decisionAuthority"} :
        \E x \in Nat, y \in Nat : x = r[k].confidence /\ y = s[k].confidence /\ x <= y
  BY <1>5 DEF Firmer
<1>10. Grows("hiringUrgency") /\ Grows("responsiveness")
  <2>1. PICK x \in Nat, y \in Nat : x = r["urgency"].confidence /\ y = s["urgency"].confidence /\ x <= y
    BY <1>9
  <2>2. /\ f["hiringUrgency"] = x /\ g["hiringUrgency"] = y
        /\ f["responsiveness"] = Portion(8, 10, x) /\ g["responsiveness"] = Portion(8, 10, y)
    BY <1>3, <1>4, <2>1 DEF IsLevels
  <2>a. x <= y
    BY <2>1
  <2>3. /\ x \in Int /\ y \in Int /\ x <= y
        /\ Portion(8, 10, x) \in Int /\ Portion(8, 10, y) \in Int /\ Portion(8, 10, x) <= Portion(8, 10, y)
    BY <2>a, PortionsGrow
  <2> QED
    BY <2>2, <2>3
<1>11. Grows("communicationStyle")
  <2>1. PICK x \in Nat, y \in Nat :
          x = r["communicationIntent"].confidence /\ y = s["communicationIntent"].confidence /\ x <= y
    BY <1>9
  <2>2. f["communicationStyle"] = Portion(7, 10, x) + 1000 /\ g["communicationStyle"] = Portion(7, 10, y) + 1000
    BY <1>3, <1>4, <2>1 DEF IsLevels
  <2>a. x <= y
    BY <2>1
  <2>3. PICK i \in Int, j \in Int : i = Portion(7, 10, x) /\ j = Portion(7, 10, y) /\ i <= j
    <3>1. Portion(7, 10, x) \in Int /\ Portion(7, 10, y) \in Int /\ Portion(7, 10, x) <= Portion(7, 10, y)
      BY <2>a, PortionsGrow
    <3> QED
      BY <3>1
  <2>4. i + 1000 \in Int /\ j + 1000 \in Int /\ i + 1000 <= j + 1000
    BY <2>3
  <2> QED
    BY <2>2, <2>3, <2>4
<1>12. Grows("followUpBehavior")
  <2>1. PICK x \in Nat, y \in Nat :
          x = r["followUpRequirements"].confidence /\ y = s["followUpRequirements"].confidence /\ x <= y
    BY <1>9
  <2>2. f["followUpBehavior"] = Portion(8, 10, x) /\ g["followUpBehavior"] = Portion(8, 10, y)
    BY <1>3, <1>4, <2>1 DEF IsLevels
  <2>a. x <= y
    BY <2>1
  <2>3. Portion(8, 10, x) \in Int /\ Portion(8, 10, y) \in Int /\ Portion(8, 10, x) <= Portion(8, 10, y)
    BY <2>a, PortionsGrow
  <2> QED
    BY <2>2, <2>3
<1>13. Grows("decisionMakingPatterns")
  <2>1. PICK x \in Nat, y \in Nat :
          x = r["decisionAuthority"].confidence /\ y = s["decisionAuthority"].confidence /\ x <= y
    BY <1>9
  <2>2. f["decisionMakingPatterns"] = Portion(75, 100, x) /\ g["decisionMakingPatterns"] = Portion(75, 100, y)
    BY <1>3, <1>4, <2>1 DEF IsLevels
  <2>a. x <= y
    BY <2>1
  <2>3. Portion(75, 100, x) \in Int /\ Portion(75, 100, y) \in Int /\ Portion(75, 100, x) <= Portion(75, 100, y)
    BY <2>a, PortionsGrow
  <2> QED
    BY <2>2, <2>3
<1>14. Grows("recruiterEngagement") /\ Grows("recruiterConsistency")
  BY <1>3, <1>4, <1>8 DEF IsLevels
<1>15. /\ Grows("preferredCommunicationChannels") /\ Grows("recruiterPreferences")
       /\ Grows("schedulingBehavior") /\ Grows("activityPatterns") /\ Grows("responsivenessTrends")
  BY <1>3, <1>4 DEF IsLevels
<1> HIDE DEF Grows
<1>16. \A d \in Dims : d # "responseQuality" => Grows(d)
  BY <1>10, <1>11, <1>12, <1>13, <1>14, <1>15 DEF Dims
<1>17. \A d \in Dims : f[d] \in Int /\ g[d] \in Int /\ (d # "responseQuality" => f[d] <= g[d])
  BY <1>7, <1>16 DEF Grows
<1>18. DOMAIN f = Dims /\ DOMAIN g = Dims /\ "responseQuality" \in Dims
  BY <1>3, <1>4 DEF IsLevels, Dims
<1>19. PICK t \in Int, u \in Int : t = Total(f) /\ u = Total(g) /\ t <= u + 3145
  <2>1. Total(f) \in Int /\ Total(g) \in Int /\ Total(f) <= Total(g) + 3145
    BY <1>7, <1>17, <1>18, DimsAreCounted, TotalsCompare
  <2> QED
    BY <2>1
<1>20. PICK x \in Int, y \in Int : x = t \div 13 /\ y = u \div 13 /\ x <= y + 242
  BY <1>19
<1>21. PICK j \in Int, k \in Int : j = (11 * x) \div 10 /\ k = (11 * y) \div 10 /\ j <= k + 267
  BY <1>20
<1>22. Least(One, j) \in Int /\ Least(One, k) \in Int /\ Least(One, j) <= Least(One, k) + 300
  BY <1>21 DEF Least, One
<1>23. b.overallConfidence = x /\ c.overallConfidence = y
  BY <1>3, <1>4, <1>19, <1>20
<1>24. b.overallBehaviorScore = Least(One, j) /\ c.overallBehaviorScore = Least(One, k)
  BY <1>3, <1>4, <1>19, <1>20, <1>21
<1> QED
  BY <1>20, <1>22, <1>23, <1>24

Signals == DOMAIN Weight

\* There is a finite number of signals, of some weight each.
LEMMA SignalsAreFew ==
  /\ IsFiniteSet(Signals) /\ Signals # {}
  /\ \A d \in Signals : Weight[d] \in Nat /\ 7 <= Weight[d] /\ Weight[d] <= 18
<1>1. \A x : \A S : IsFiniteSet(S) => IsFiniteSet(S \cup {x})
  BY FS_AddElement
<1>2. Signals = {"response_reliability"} \cup {"communication_professionalism"}
        \cup {"hiring_consistency"} \cup {"ghosting_probability"} \cup {"follow_up_reliability"}
        \cup {"interview_reliability"} \cup {"offer_reliability"} \cup {"cancellation_behavior"}
        \cup {"candidate_experience"} \cup {"recruiter_credibility"}
  BY DEF Signals, Weight
<1>3. IsFiniteSet({"response_reliability"})
  BY FS_Singleton
<1>4. IsFiniteSet(Signals)
  BY <1>1, <1>2, <1>3
<1>5. \A d \in Signals : Weight[d] \in Nat /\ 7 <= Weight[d] /\ Weight[d] <= 18
  BY DEF Signals, Weight
<1> QED
  BY <1>2, <1>4, <1>5

\* The scores of the signals, when the provider says nothing.
IsScores(g, F, r, b, past) ==
  /\ DOMAIN g = Signals
  /\ g["response_reliability"].score = IF Urgent(r) THEN 7500 ELSE 6000
  /\ g["communication_professionalism"].score =
       IF r.communicationIntent.value # "unknown" THEN 7200 ELSE 5000
  /\ g["hiring_consistency"].score = 5000 + (5 * Density(F)) \div 2
  /\ g["ghosting_probability"].score = One - estimateGhostingProbability(r, past)
  /\ g["follow_up_reliability"].score = IF r.followUpRequirements.value # {} THEN 7000 ELSE 4500
  /\ g["interview_reliability"].score = IF Has(F, "interview_stage") THEN 7200 ELSE 5500
  /\ g["offer_reliability"].score = IF Has(F, "compensation_mention") THEN 7800 ELSE 5200
  /\ g["cancellation_behavior"].score =
       IF past.cancelled = 0 THEN 8000 ELSE Max({2000, 8000 - 1500 * past.cancelled})
  /\ g["candidate_experience"].score = (8 * b.overallBehaviorScore) \div 10 + 1000
  /\ g["recruiter_credibility"].score =
       2000 + (IF Has(F, "recruiter_title") THEN 3500 ELSE 0)
            + (IF Has(F, "recruiter_organization") THEN 3500 ELSE 0)

\* The rules give these scores, and no answer takes their place.
LEMMA SignalsAreScored ==
  ASSUME NEW F, NEW r, NEW b, NEW past, NEW g, g = mergeSignals(TrustRules(F, r, b, past), <<>>)
  PROVE  IsScores(g, F, r, b, past)
<1>1. PICK none : none = <<>>
  OBVIOUS
<1>2. DOMAIN none = {}
  BY <1>1
<1>3. PICK rules : rules = TrustRules(F, r, b, past)
  OBVIOUS
<1>4. IsScores(rules, F, r, b, past)
  BY <1>3 DEF TrustRules, Signal, IsScores, Signals, Weight
<1>5. g = [d \in DOMAIN rules |->
     IF d \in DOMAIN none /\ none[d].confidence > rules[d].confidence
     THEN [score |-> none[d].value, confidence |-> none[d].confidence, evidence |-> {}]
     ELSE rules[d]]
  BY <1>1, <1>3 DEF mergeSignals
<1>6. DOMAIN g = DOMAIN rules /\ \A d \in DOMAIN rules : g[d] = rules[d]
  BY <1>2, <1>5
<1>7. /\ DOMAIN rules = Signals
      /\ {"response_reliability", "communication_professionalism", "hiring_consistency",
          "ghosting_probability", "follow_up_reliability", "interview_reliability",
          "offer_reliability", "cancellation_behavior", "candidate_experience",
          "recruiter_credibility"} \subseteq Signals
  BY <1>4 DEF IsScores, Signals, Weight
<1> QED
  BY <1>4, <1>6, <1>7 DEF IsScores

\* The estimate of a ghosting does not grow with the facts.
LEMMA GhostingFalls ==
  ASSUME NEW r, NEW s, Firmer(r, s), NEW past, past.ghosted \in Nat
  PROVE  /\ estimateGhostingProbability(r, past) \in Int
         /\ estimateGhostingProbability(s, past) \in Int
         /\ estimateGhostingProbability(s, past) <= estimateGhostingProbability(r, past)
<1> DEFINE Raw(x) == 2500 + (IF x.followUpRequirements.value = {} THEN 1500 ELSE 0)
                          + (IF x.urgency.value = "low" THEN 1000 ELSE 0)
                          - (IF Urgent(x) THEN 1000 ELSE 0) + 1500 * past.ghosted
<1>1. PICK n \in Nat : n = past.ghosted
  OBVIOUS
<1>2. Raw(r) \in Int /\ Raw(s) \in Int /\ Raw(s) <= Raw(r)
  BY <1>1 DEF Firmer
<1>3. \A x : estimateGhostingProbability(x, past) = IF Raw(x) < 500 THEN 500 ELSE Least(9500, Raw(x))
  BY DEF estimateGhostingProbability
<1> HIDE DEF Raw
<1>4. PICK i \in Int, j \in Int : i = Raw(r) /\ j = Raw(s) /\ j <= i
  BY <1>2
<1> QED
  BY <1>3, <1>4 DEF Least

\* The longer list of facts, of ten at most, is the denser by a tenth for each fact.
LEMMA DensityGrows ==
  ASSUME NEW p, NEW q, NEW m \in Nat, NEW n \in Nat, Len(p) = m, Len(q) = n, m < n, n <= 10
  PROVE  /\ 5000 + (5 * Density(p)) \div 2 \in Int /\ 5000 + (5 * Density(q)) \div 2 \in Int
         /\ 5000 + (5 * Density(p)) \div 2 + 250 <= 5000 + (5 * Density(q)) \div 2
<1>1. Density(p) = 100 * m /\ Density(q) = 100 * n
  BY DEF Density, Least
<1>2. (5 * (100 * m)) \div 2 = 250 * m /\ (5 * (100 * n)) \div 2 = 250 * n
  OBVIOUS
<1>3. PICK i \in Int, j \in Int : i = 250 * m /\ j = 250 * n /\ i + 250 <= j
  OBVIOUS
<1> QED
  BY <1>1, <1>2, <1>3

\* The trust in a recruiter when the provider says nothing, from the facts and the history.
PlainSignals(F, past) ==
  mergeSignals(TrustRules(F, infer(F, <<>>), buildProfile(F, infer(F, <<>>), <<>>), past), <<>>)
PlainTrust(F, past) == Clamped(WeightedScore(PlainSignals(F, past)))

\* Each signal but one scores no less, and the density of the facts makes up for that one.
LEMMA SignalsCompare ==
  ASSUME NEW p, NEW q, GoesOnFrom(p, q), NEW m \in Nat, NEW n \in Nat,
         Len(p) = m, Len(q) = n, m < n, n <= 10,
         NEW past, past.ghosted \in Nat, past.cancelled \in Nat,
         NEW f, f = PlainSignals(p, past), NEW g, g = PlainSignals(q, past)
  PROVE  /\ DOMAIN f = Signals /\ DOMAIN g = Signals
         /\ \A d \in Signals : f[d].score \in Int /\ g[d].score \in Int
         /\ f["hiring_consistency"].score + 250 <= g["hiring_consistency"].score
         /\ f["candidate_experience"].score <= g["candidate_experience"].score + 240
         /\ \A d \in Signals \ {"candidate_experience"} : f[d].score <= g[d].score
<1>1. PICK r : r = infer(p, <<>>)
  OBVIOUS
<1>2. PICK s : s = infer(q, <<>>)
  OBVIOUS
<1>3. PICK b : b = buildProfile(p, r, <<>>)
  OBVIOUS
<1>4. PICK c : c = buildProfile(q, s, <<>>)
  OBVIOUS
<1>5. IsScores(f, p, r, b, past) /\ IsScores(g, q, s, c, past)
  BY <1>1, <1>2, <1>3, <1>4, SignalsAreScored DEF PlainSignals
<1>6. Firmer(r, s)
  BY <1>1, <1>2, InferencesFirm
<1> DEFINE Grows(d) == f[d].score \in Int /\ g[d].score \in Int /\ f[d].score <= g[d].score
<1>7. /\ Grows("response_reliability") /\ Grows("communication_professionalism")
      /\ Grows("follow_up_reliability")
  <2>1. /\ Urgent(r) => Urgent(s)
        /\ r.communicationIntent.value # "unknown" => s.communicationIntent.value # "unknown"
        /\ r.followUpRequirements.value # {} => s.followUpRequirements.value # {}
    BY <1>6 DEF Firmer
  <2>2. Grows("response_reliability")
    <3>1. /\ f["response_reliability"].score = IF Urgent(r) THEN 7500 ELSE 6000
          /\ g["response_reliability"].score = IF Urgent(s) THEN 7500 ELSE 6000
      BY <1>5 DEF IsScores
    <3> QED
      BY <2>1, <3>1
  <2>3. Grows("communication_professionalism")
    <3>1. /\ f["communication_professionalism"].score =
               IF r.communicationIntent.value # "unknown" THEN 7200 ELSE 5000
          /\ g["communication_professionalism"].score =
               IF s.communicationIntent.value # "unknown" THEN 7200 ELSE 5000
      BY <1>5 DEF IsScores
    <3> QED
      BY <2>1, <3>1
  <2>4. Grows("follow_up_reliability")
    <3>1. /\ f["follow_up_reliability"].score = IF r.followUpRequirements.value # {} THEN 7000 ELSE 4500
          /\ g["follow_up_reliability"].score = IF s.followUpRequirements.value # {} THEN 7000 ELSE 4500
      BY <1>5 DEF IsScores
    <3> QED
      BY <2>1, <3>1
  <2> QED
    BY <2>2, <2>3, <2>4
<1>8. Grows("ghosting_probability")
  <2>1. PICK i \in Int, j \in Int : /\ i = estimateGhostingProbability(r, past)
                                    /\ j = estimateGhostingProbability(s, past) /\ j <= i
    BY <1>6, GhostingFalls
  <2>2. f["ghosting_probability"].score = One - i /\ g["ghosting_probability"].score = One - j
    BY <1>5, <2>1 DEF IsScores
  <2> QED
    BY <2>1, <2>2 DEF One
<1>9. /\ Grows("interview_reliability") /\ Grows("offer_reliability")
      /\ Grows("recruiter_credibility")
  <2>1. \A field : Has(p, field) => Has(q, field)
    BY FactsAccumulate DEF Has
  <2> QED
    BY <1>5, <2>1 DEF IsScores
<1>10. Grows("cancellation_behavior")
  <2>1. PICK k \in Nat : k = past.cancelled
    OBVIOUS
  <2>2. \A z \in Int : Max({2000, z}) \in Int
    <3> TAKE z \in Int
    <3> DEFINE S == {2000, z}
    <3>1. \A x \in S : x \in Int
      OBVIOUS
    <3>2. \E x \in S : \A y \in S : x >= y
      OBVIOUS
    <3> HIDE DEF S
    <3>3. Max(S) \in S
      BY <3>2, Zenon DEF Max
    <3> QED
      BY <3>1, <3>3 DEF S
  <2>3. Max({2000, 8000 - 1500 * k}) \in Int
    BY <2>1, <2>2
  <2>4. f["cancellation_behavior"].score = g["cancellation_behavior"].score
        /\ f["cancellation_behavior"].score \in Int
    BY <1>5, <2>1, <2>3 DEF IsScores
  <2> QED
    BY <2>4
<1>11. /\ f["candidate_experience"].score \in Int /\ g["candidate_experience"].score \in Int
       /\ f["candidate_experience"].score <= g["candidate_experience"].score + 240
  <2>1. PICK i \in Int, j \in Int : /\ i = b.overallBehaviorScore /\ j = c.overallBehaviorScore
                                    /\ i <= j + 300
    BY <1>1, <1>2, <1>3, <1>4, ProfilesFallLittle
  <2>2. /\ f["candidate_experience"].score = (8 * i) \div 10 + 1000
        /\ g["candidate_experience"].score = (8 * j) \div 10 + 1000
    BY <1>5, <2>1 DEF IsScores
  <2>3. 8 * i <= 8 * j + 2400 /\ 8 * i \in Int /\ 8 * j \in Int
    BY <2>1
  <2>4. /\ (8 * i) \div 10 \in Int /\ (8 * j) \div 10 \in Int
        /\ (8 * i) \div 10 <= (8 * j) \div 10 + 240
    BY <2>3
  <2>5. PICK x \in Int, y \in Int : x = (8 * i) \div 10 /\ y = (8 * j) \div 10 /\ x <= y + 240
    BY <2>4
  <2> QED
    BY <2>2, <2>5
<1>12. /\ Grows("hiring_consistency")
       /\ f["hiring_consistency"].score + 250 <= g["hiring_consistency"].score
  <2>1. PICK i \in Int, j \in Int : /\ i = 5000 + (5 * Density(p)) \div 2
                                    /\ j = 5000 + (5 * Density(q)) \div 2 /\ i + 250 <= j
    <3>1. /\ 5000 + (5 * Density(p)) \div 2 \in Int /\ 5000 + (5 * Density(q)) \div 2 \in Int
          /\ 5000 + (5 * Density(p)) \div 2 + 250 <= 5000 + (5 * Density(q)) \div 2
      BY DensityGrows
    <3> QED
      BY <3>1
  <2>2. f["hiring_consistency"].score = i /\ g["hiring_consistency"].score = j
    BY <1>5, <2>1 DEF IsScores
  <2> QED
    BY <2>1, <2>2
<1> HIDE DEF Grows
<1>13. \A d \in Signals \ {"candidate_experience"} : Grows(d)
  BY <1>7, <1>8, <1>9, <1>10, <1>12 DEF Signals, Weight
<1>14. DOMAIN f = Signals /\ DOMAIN g = Signals
  BY <1>5 DEF IsScores
<1> QED
  BY <1>11, <1>12, <1>13, <1>14 DEF Grows

\* A quotient grows with its dividend.
LEMMA QuotientsGrow ==
  ASSUME NEW t \in Int, NEW u \in Int, NEW w \in Nat \ {0}, t <= u
  PROVE  t \div w \in Int /\ u \div w \in Int /\ t \div w <= u \div w
<1>1. PICK a \in Int, b \in Int : a = t \div w /\ b = u \div w
  OBVIOUS
<1>2. PICK i \in Int, j \in Int : i = t % w /\ j = u % w
  OBVIOUS
<1>3. /\ t = w * a + i /\ 0 <= i /\ i < w
      /\ u = w * b + j /\ 0 <= j /\ j < w
  BY <1>1, <1>2
<1>4. w * a <= u /\ u < w * (b + 1)
  BY <1>3
<1>5. a < b + 1
  BY <1>4
<1> QED
  BY <1>1, <1>5

\* What the density of the facts gains weighs more than what the behaviour can lose.
LEMMA DensityWeighs ==
  ASSUME NEW x \in Int, NEW y \in Int, x + 250 <= y
  PROVE  \E i \in Int, j \in Int : i = x * 12 /\ j = y * 12 /\ i + 3000 <= j
OBVIOUS

\* What the behaviour loses weighs as much as seven times its loss.
LEMMA BehaviourWeighs ==
  ASSUME NEW x \in Int, NEW y \in Int, x <= y + 240
  PROVE  \E i \in Int, j \in Int : i = x * 7 /\ j = y * 7 /\ i <= j + 1680
OBVIOUS

\* So more facts give no less trust.
LEMMA TrustGrows ==
  ASSUME NEW p, NEW q, GoesOnFrom(p, q), NEW m \in Nat, NEW n \in Nat,
         Len(p) = m, Len(q) = n, m < n, n <= 10,
         NEW past, past.ghosted \in Nat, past.cancelled \in Nat
  PROVE  PlainTrust(q, past) >= PlainTrust(p, past)
<1>1. PICK f : f = PlainSignals(p, past)
  OBVIOUS
<1>2. PICK g : g = PlainSignals(q, past)
  OBVIOUS
<1>3. /\ DOMAIN f = Signals /\ DOMAIN g = Signals
      /\ \A d \in Signals : f[d].score \in Int /\ g[d].score \in Int
      /\ f["hiring_consistency"].score + 250 <= g["hiring_consistency"].score
      /\ f["candidate_experience"].score <= g["candidate_experience"].score + 240
      /\ \A d \in Signals \ {"candidate_experience"} : f[d].score <= g[d].score
  BY <1>1, <1>2, SignalsCompare
<1>4. /\ {"hiring_consistency", "candidate_experience"} \subseteq Signals
      /\ Weight["hiring_consistency"] = 12 /\ Weight["candidate_experience"] = 7
  BY DEF Signals, Weight
<1>5. PICK F : F = [d \in Signals |-> f[d].score * Weight[d]]
  OBVIOUS
<1>6. PICK G : G = [d \in Signals |-> g[d].score * Weight[d]]
  OBVIOUS
<1>7. PICK W : W = [d \in Signals |-> Weight[d]]
  OBVIOUS
<1>8. \A d \in Signals : F[d] \in Int /\ G[d] \in Int
  <2> TAKE d \in Signals
  <2>1. PICK x \in Int, y \in Int, w \in Nat : x = f[d].score /\ y = g[d].score /\ w = Weight[d]
    BY <1>3, SignalsAreFew
  <2>2. x * w \in Int /\ y * w \in Int
    BY <2>1
  <2> QED
    BY <1>5, <1>6, <2>1, <2>2
<1>9. \A d \in Signals \ {"candidate_experience"} : F[d] <= G[d]
  <2> TAKE d \in Signals \ {"candidate_experience"}
  <2>1. PICK x \in Int, y \in Int, w \in Nat : /\ x = f[d].score /\ y = g[d].score /\ w = Weight[d]
                                               /\ x <= y
    BY <1>3, SignalsAreFew
  <2>2. x * w <= y * w
    BY <2>1
  <2> QED
    BY <1>5, <1>6, <2>1, <2>2
<1>10. /\ F["hiring_consistency"] <= G["hiring_consistency"] - 3000
       /\ F["candidate_experience"] <= G["candidate_experience"] + 1680
  <2>1. PICK x \in Int, y \in Int : /\ x = f["hiring_consistency"].score
                                    /\ y = g["hiring_consistency"].score /\ x + 250 <= y
    BY <1>3, <1>4
  <2>2. PICK v \in Int, w \in Int : /\ v = f["candidate_experience"].score
                                    /\ w = g["candidate_experience"].score /\ v <= w + 240
    BY <1>3, <1>4
  <2>3. /\ F["hiring_consistency"] = x * 12 /\ G["hiring_consistency"] = y * 12
        /\ F["candidate_experience"] = v * 7 /\ G["candidate_experience"] = w * 7
    BY <1>4, <1>5, <1>6, <2>1, <2>2
  <2>a. x + 250 <= y /\ v <= w + 240
    BY <2>1, <2>2
  <2>4. PICK i \in Int, j \in Int : i = x * 12 /\ j = y * 12 /\ i + 3000 <= j
    BY <2>a, DensityWeighs
  <2>5. PICK k \in Int, l \in Int : k = v * 7 /\ l = w * 7 /\ k <= l + 1680
    BY <2>a, BehaviourWeighs
  <2>6. /\ F["hiring_consistency"] = i /\ G["hiring_consistency"] = j
        /\ F["candidate_experience"] = k /\ G["candidate_experience"] = l
    BY <2>3, <2>4, <2>5
  <2> QED
    BY <2>4, <2>5, <2>6
<1>11. PICK H : H = [d \in Signals |-> IF d = "hiring_consistency" THEN G[d] - 3000 ELSE G[d]]
  OBVIOUS
<1>12. \A d \in Signals : H[d] \in Int
  BY <1>8, <1>11
<1>13. \A d \in Signals : d # "candidate_experience" => F[d] <= H[d]
  BY <1>9, <1>10, <1>11
<1>14. F["candidate_experience"] <= H["candidate_experience"] + 1680
  BY <1>4, <1>10, <1>11
<1>15. Total(F) \in Int /\ Total(H) \in Int /\ Total(F) <= Total(H) + 1680
  <2>1. DOMAIN F = Signals /\ DOMAIN H = Signals
    BY <1>5, <1>11
  <2>a. PICK c \in Int : c = 1680
    OBVIOUS
  <2>b. F["candidate_experience"] <= H["candidate_experience"] + c
    BY <1>14, <2>a
  <2>2. IsFiniteSet(Signals)
    BY SignalsAreFew
  <2>3. \A d \in Signals : F[d] \in Int /\ H[d] \in Int /\ (d # "candidate_experience" => F[d] <= H[d])
    BY <1>8, <1>12, <1>13
  <2>4. Total(F) \in Int /\ Total(H) \in Int /\ Total(F) <= Total(H) + c
    BY <1>4, <2>b, <2>1, <2>2, <2>3, TotalsCompare
  <2> QED
    BY <2>a, <2>4
<1>16. Total(G) \in Int /\ Total(H) + 3000 <= Total(G)
  <2>1. DOMAIN G = Signals /\ DOMAIN H = Signals
    BY <1>6, <1>11
  <2>a. PICK c \in Int : c = -3000
    OBVIOUS
  <2>2. H["hiring_consistency"] <= G["hiring_consistency"] + c
    BY <1>4, <1>8, <1>11, <2>a
  <2>3. \A d \in Signals : d # "hiring_consistency" => H[d] = G[d]
    BY <1>11
  <2>4. IsFiniteSet(Signals)
    BY SignalsAreFew
  <2>5. \A d \in Signals : H[d] \in Int /\ G[d] \in Int /\ (d # "hiring_consistency" => H[d] <= G[d])
    BY <1>8, <1>12, <2>3
  <2>6. Total(H) \in Int /\ Total(G) \in Int /\ Total(H) <= Total(G) + c
    BY <1>4, <2>1, <2>2, <2>4, <2>5, TotalsCompare
  <2> QED
    BY <2>a, <2>6
<1>17. Total(F) <= Total(G)
  BY <1>15, <1>16
<1>18. Total(W) \in Nat \ {0}
  <2>1. DOMAIN W = Signals /\ \A d \in Signals : W[d] \in Int /\ 7 <= W[d] /\ W[d] <= 18
    BY <1>7, SignalsAreFew
  <2>2. PICK c \in Nat \ {0} : c = Cardinality(Signals)
    BY SignalsAreFew, FS_CardinalityType, FS_EmptySet
  <2>3. Total(W) \in Int /\ 7 * c <= Total(W)
    BY <2>1, <2>2, SignalsAreFew, TotalIsBetween
  <2> QED
    BY <2>3
<1>19. WeightedScore(f) = Total(F) \div Total(W) /\ WeightedScore(g) = Total(G) \div Total(W)
  BY <1>3, <1>5, <1>6, <1>7 DEF WeightedScore
<1>20. PICK i \in Int, j \in Int : i = WeightedScore(f) /\ j = WeightedScore(g) /\ i <= j
  <2>1. PICK t \in Int, u \in Int : t = Total(F) /\ u = Total(G) /\ t <= u
    BY <1>15, <1>16, <1>17
  <2>2. PICK w \in Nat \ {0} : w = Total(W)
    BY <1>18
  <2>3. t \div w \in Int /\ u \div w \in Int /\ t \div w <= u \div w
    BY <2>1, QuotientsGrow
  <2> QED
    BY <1>19, <2>1, <2>2, <2>3
<1>21. Clamped(i) <= Clamped(j) /\ Clamped(i) \in Int /\ Clamped(j) \in Int
  BY <1>20 DEF Clamped, One
<1> QED
  BY <1>1, <1>2, <1>20, <1>21 DEF PlainTrust

\* The report is the only one; its facts are the first of those known now, and if the provider
\* said nothing, its trust is what follows from them and from the history it saw.
Reported(p) ==
  /\ p.facts \in Seq(Extracted) /\ Len(p.facts) <= Len(facts)
  /\ \A i \in 1..Len(p.facts) : facts[i] = p.facts[i]
  /\ p.history.ghosted \in Nat /\ p.history.cancelled \in Nat
  /\ p.silent => p.trust.trustScore.score = PlainTrust(p.facts, p.history)

EvidenceInv ==
  /\ IntelInv
  /\ facts \in Seq(Extracted)
  /\ \A p, q \in report : p = q
  /\ \A p \in report : Reported(p)

\* A run of the stages reports what it knows.
LEMMA RunsReport ==
  ASSUME EvidenceInv, NEW ai \in Answers, Run(ai)
  PROVE  /\ facts' = facts
         /\ \A p, q \in report' : p = q
         /\ \A p \in report' : p.facts = facts /\ Reported(p)
<1>1. PICK r : r = infer(facts, ai.reasoning)
  OBVIOUS
<1>2. PICK b : b = buildProfile(facts, r, ai.behaviour)
  OBVIOUS
<1>3. PICK t : t = score(facts, r, b, history, ai.trust)
  OBVIOUS
<1>4. \A p \in report' : p.facts = facts /\ p.history = history /\ p.trust = t
  BY <1>1, <1>2, <1>3 DEF Run
<1>a. \A p, q \in report' : p = q
  BY DEF Run
<1>b. \A p \in report' : p.silent => ai = Silent
  <2>1. PICK x1, x2, x3, x4, x5, x6 :
          report' = {[facts |-> facts, history |-> history, silent |-> (ai = Silent),
                      profile |-> x1, memory |-> x2, timeline |-> x3,
                      trend |-> x4, trust |-> t, decision |-> x5, told |-> x6]}
    BY <1>1, <1>2, <1>3, Zenon DEF Run
  <2> SUFFICES ASSUME NEW p \in report', p.silent
               PROVE  ai = Silent
    OBVIOUS
  <2>2. p = [facts |-> facts, history |-> history, silent |-> (ai = Silent),
             profile |-> x1, memory |-> x2, timeline |-> x3,
             trend |-> x4, trust |-> t, decision |-> x5, told |-> x6]
    BY <2>1
  <2>3. p.silent = (ai = Silent)
    BY <2>2
  <2> QED
    BY <2>3
<1>5. t.trustScore.score = Clamped(WeightedScore(mergeSignals(TrustRules(facts, r, b, history), ai.trust)))
  BY <1>3 DEF score, TrustScore
<1>6. ASSUME ai = Silent
      PROVE  t.trustScore.score = PlainTrust(facts, history)
  <2>1. ai.reasoning = <<>> /\ ai.behaviour = <<>> /\ ai.trust = <<>>
    BY <1>6 DEF Silent
  <2>2. mergeSignals(TrustRules(facts, r, b, history), ai.trust) = PlainSignals(facts, history)
    BY <1>1, <1>2, <2>1 DEF PlainSignals
  <2> QED
    BY <1>5, <2>2 DEF PlainTrust
<1>7. history.ghosted \in Nat /\ history.cancelled \in Nat
  BY DEF EvidenceInv, IntelInv
<1>8. facts \in Seq(Extracted) /\ Len(facts) \in Nat
  BY DEF EvidenceInv
<1>9. ASSUME NEW p \in report'
      PROVE  Reported(p)
  <2>1. p.facts = facts /\ p.history = history /\ p.trust = t
    BY <1>4
  <2>2. p.silent => p.trust.trustScore.score = PlainTrust(p.facts, p.history)
    BY <1>6, <1>b, <2>1
  <2>3. Len(p.facts) <= Len(facts) /\ \A i \in 1..Len(p.facts) : facts[i] = p.facts[i]
    BY <1>8, <2>1
  <2> QED
    BY <1>7, <1>8, <2>1, <2>2, <2>3 DEF Reported
<1>10. facts' = facts
  BY DEF Run
<1> QED
  BY <1>4, <1>9, <1>10, <1>a

\* At the start there is no report,
LEMMA EvidenceStarts == IntelInit => EvidenceInv
<1> SUFFICES ASSUME IntelInit
             PROVE  EvidenceInv
  OBVIOUS
<1>1. facts \in Seq(Extracted) /\ report = {}
  BY DEF IntelInit
<1> QED
  BY <1>1, IntelStarts DEF EvidenceInv

\* every step leaves a report of facts that are still known,
LEMMA EvidenceStep == EvidenceInv /\ [IntelNext]_intelVars => EvidenceInv'
<1> SUFFICES ASSUME EvidenceInv, [IntelNext]_intelVars
             PROVE  EvidenceInv'
  OBVIOUS
<1>1. IntelInv'
  BY IntelStep DEF EvidenceInv
<1>2. facts \in Seq(Extracted) /\ Len(facts) \in Nat
  BY DEF EvidenceInv
<1>3. ASSUME facts' = facts, report' = report
      PROVE  EvidenceInv'
  BY <1>1, <1>3 DEF EvidenceInv, Reported
<1>4. CASE UNCHANGED intelVars
  BY <1>3, <1>4 DEF intelVars
<1>5. ASSUME NEW f \in Extracted, Extract(f)
      PROVE  EvidenceInv'
  <2>1. facts' = Append(facts, f) /\ report' = report
    BY <1>5 DEF Extract
  <2>2. /\ facts' \in Seq(Extracted) /\ Len(facts') = Len(facts) + 1
        /\ \A i \in 1..Len(facts) : facts'[i] = facts[i]
    BY <1>2, <2>1
  <2>3. ASSUME NEW p \in report
        PROVE  Reported(p)'
    <3>1. Reported(p) /\ p.facts \in Seq(Extracted) /\ Len(p.facts) \in Nat
      BY DEF EvidenceInv, Reported
    <3>2. Len(p.facts) <= Len(facts') /\ 1..Len(p.facts) \subseteq 1..Len(facts)
      BY <1>2, <2>2, <3>1 DEF Reported
    <3>3. \A i \in 1..Len(p.facts) : facts'[i] = p.facts[i]
      BY <2>2, <3>1, <3>2 DEF Reported
    <3> QED
      BY <3>1, <3>2, <3>3 DEF Reported
  <2> QED
    BY <1>1, <2>1, <2>2, <2>3 DEF EvidenceInv
<1>6. ASSUME NEW outcome \in {"ghosted", "cancelled"}, Record(outcome)
      PROVE  EvidenceInv'
  BY <1>3, <1>6 DEF Record
<1>7. ASSUME NEW ai \in Answers, Run(ai)
      PROVE  EvidenceInv'
  <2>1. /\ facts' = facts /\ \A p, q \in report' : p = q
        /\ \A p \in report' : Reported(p)
    BY <1>7, RunsReport
  <2>2. \A p \in report' : Reported(p)'
    BY <2>1 DEF Reported
  <2> QED
    BY <1>1, <1>2, <2>1, <2>2 DEF EvidenceInv
<1> QED
  BY <1>4, <1>5, <1>6, <1>7 DEF IntelNext

\* and when a run knows more than the report before it, it trusts the recruiter no less.
LEMMA EvidenceHelps ==
  ASSUME EvidenceInv, IntelNext, NEW p \in report, NEW q \in report',
         p.silent, q.silent, p.history = q.history,
         Len(p.facts) < Len(q.facts), Len(q.facts) <= 10
  PROVE  q.trust.trustScore.score >= p.trust.trustScore.score
<1>1. Reported(p)
  BY DEF EvidenceInv
<1>2. CASE report' = report
  <2>1. p = q
    BY <1>2 DEF EvidenceInv
  <2>2. Len(p.facts) \in Nat
    BY <1>1 DEF Reported
  <2> QED
    BY <2>1, <2>2
<1>3. ASSUME NEW ai \in Answers, Run(ai)
      PROVE  q.trust.trustScore.score >= p.trust.trustScore.score
  <2>1. q.facts = facts /\ Reported(q)
    BY <1>3, RunsReport
  <2>2. PICK m \in Nat : m = Len(p.facts) /\ DOMAIN p.facts = 1..m
    BY <1>1 DEF Reported
  <2>3. PICK n \in Nat : n = Len(q.facts) /\ DOMAIN q.facts = 1..n
    BY <2>1 DEF Reported
  <2>4. m < n /\ n <= 10 /\ \A i \in 1..m : q.facts[i] = p.facts[i]
    BY <1>1, <2>1, <2>2, <2>3 DEF Reported
  <2>5. GoesOnFrom(p.facts, q.facts)
    BY <2>2, <2>3, <2>4 DEF GoesOnFrom
  <2>6. p.history.ghosted \in Nat /\ p.history.cancelled \in Nat
    BY <1>1 DEF Reported
  <2>7. PICK past : past = p.history /\ past.ghosted \in Nat /\ past.cancelled \in Nat
    BY <2>6
  <2>8. PlainTrust(q.facts, past) >= PlainTrust(p.facts, past)
    BY <2>2, <2>3, <2>4, <2>5, <2>7, TrustGrows
  <2>9. /\ p.trust.trustScore.score = PlainTrust(p.facts, past)
        /\ q.trust.trustScore.score = PlainTrust(q.facts, past)
    BY <1>1, <2>1, <2>7 DEF Reported
  <2> QED
    BY <2>8, <2>9
<1>4. CASE \E f \in Extracted : Extract(f)
  BY <1>2, <1>4 DEF Extract
<1>5. CASE \E outcome \in {"ghosted", "cancelled"} : Record(outcome)
  BY <1>2, <1>5 DEF Record
<1> QED
  BY <1>3, <1>4, <1>5 DEF IntelNext

\* More messages never cost a recruiter trust, whatever they say, as long as the provider says
\* nothing and there are ten facts at most: the density of the facts gains twelve parts of a
\* weight what the only confidence that can fall takes from seven.
THEOREM EvidenceHolds == IntelSpec => EvidenceNeverHurts
<1>1. EvidenceInv /\ [IntelNext]_intelVars =>
        [\A p \in report, q \in report' :
           (/\ p.silent /\ q.silent /\ p.history = q.history
            /\ Len(p.facts) < Len(q.facts) /\ Len(q.facts) <= 10)
           => q.trust.trustScore.score >= p.trust.trustScore.score]_intelVars
  BY EvidenceHelps
<1> QED
  BY <1>1, EvidenceStarts, EvidenceStep, PTL DEF IntelSpec, EvidenceNeverHurts

-----------------------------------------------------------------------------
(* The links between the product's areas.                                   *)

\* A list that is written place by place is a sequence.
LEMMA ListIsSequence ==
  ASSUME NEW n \in Nat, NEW T, NEW f \in [1..n -> T]
  PROVE  f \in Seq(T) /\ Len(f) = n /\ DOMAIN f = 1..n
OBVIOUS

\* A finite set that is ordered is arranged in its order, each element once.
LEMMA ArrangedInOrder ==
  ASSUME NEW S, IsFiniteSet(S), NEW R, Orders(R, S)
  PROVE  /\ Cardinality(S) \in Nat
         /\ Arranged(S, R) \in [1..Cardinality(S) -> S]
         /\ \A j, k \in 1..Cardinality(S) :
              j < k => <<Arranged(S, R)[j], Arranged(S, R)[k]>> \in R
<1> DEFINE n == Cardinality(S)
           placed == Arranged(S, R)
           Here(k) == CHOOSE x \in S : Cardinality({y \in S : <<y, x>> \in R}) = k - 1
<1>1. n \in Nat
  BY FS_CardinalityType
<1>2. \A k \in 1..n : placed[k] = CHOOSE x \in S : Rank(S, R, x) = k - 1
  BY DEF Arranged, Rank
<1>3. DOMAIN placed = 1..n
  BY DEF Arranged
<1>4. ASSUME NEW k \in 1..n
      PROVE  placed[k] \in S /\ Rank(S, R, placed[k]) = k - 1
  <2>1. k - 1 \in 0..(n - 1)
    BY <1>1
  <2>2. \E x \in S : Rank(S, R, x) = k - 1
    BY <2>1, RanksAreContiguous
  <2> HIDE DEF placed
  <2> QED
    BY <1>2, <2>2
<1>5. placed \in [1..n -> S]
  <2>1. placed = [k \in 1..n |-> Here(k)]
    BY Zenon DEF Arranged
  <2> HIDE DEF placed, n, Here
  <2>2. \A k \in 1..n : Here(k) \in S
    BY <1>4, <2>1
  <2> QED
    BY <2>1, <2>2
<1>6. ASSUME NEW j \in 1..n, NEW k \in 1..n, j < k
      PROVE  <<placed[j], placed[k]>> \in R
  <2>1. PICK x \in S : x = placed[j] /\ Rank(S, R, x) = j - 1
    BY <1>4
  <2>2. PICK y \in S : y = placed[k] /\ Rank(S, R, y) = k - 1
    BY <1>4
  <2>3. x # y
    BY <1>1, <1>6, <2>1, <2>2
  <2>4. <<y, x>> \in R => Rank(S, R, y) < Rank(S, R, x)
    BY RanksAscend
  <2>5. <<y, x>> \notin R
    BY <1>1, <1>6, <2>1, <2>2, <2>4
  <2> HIDE DEF placed
  <2> QED
    BY <2>1, <2>2, <2>3, <2>5 DEF Orders
<1> QED
  BY <1>1, <1>5, <1>6

\* What is chosen of a list are entries of it, in the order of the list.
PartOf(part, ls, places) ==
  \E order \in [DOMAIN part -> places] :
    /\ \A k \in DOMAIN part : part[k] = ls[order[k]]
    /\ \A j, k \in DOMAIN part : j < k => order[j] < order[k]

\* What is chosen from a list comes in the order of the list.
LEMMA ChosenInOrder ==
  ASSUME NEW T, NEW ls \in Seq(T), NEW places \in SUBSET (DOMAIN ls)
  PROVE  /\ Chosen(ls, places) \in Seq(T)
         /\ PartOf(Chosen(ls, places), ls, places)
<1> DEFINE R == {x \in places \X places : x[1] < x[2]}
           n == Cardinality(places)
           order == Arranged(places, R)
           chosen == [k \in DOMAIN order |-> ls[order[k]]]
<1>1. IsFiniteSet(places) /\ places \subseteq Nat
  BY SubsetsOfIntervals
<1>2. \A x, y \in places : <<x, y>> \in R <=> x < y
  OBVIOUS
<1>3. Orders(R, places)
  <2> HIDE DEF R
  <2> QED
    BY <1>1, <1>2 DEF Orders
<1>4. /\ n \in Nat /\ order \in [1..n -> places]
      /\ \A j, k \in 1..n : j < k => <<order[j], order[k]>> \in R
  <2> HIDE DEF R
  <2> QED
    BY <1>1, <1>3, ArrangedInOrder
<1>5. Chosen(ls, places) = chosen
  BY DEF Chosen
<1> HIDE DEF R, n, order
<1>6. DOMAIN order = 1..n /\ \A k \in 1..n : order[k] \in places /\ ls[order[k]] \in T
  BY <1>4
<1>7. chosen \in [1..n -> T]
  BY <1>6
<1>8. chosen \in Seq(T) /\ DOMAIN chosen = 1..n
  BY <1>4, <1>7, ListIsSequence
<1>9. \A j, k \in 1..n : j < k => order[j] < order[k]
  BY <1>2, <1>4, <1>6
<1>10. order \in [DOMAIN chosen -> places] /\ \A k \in 1..n : chosen[k] = ls[order[k]]
  BY <1>4, <1>6, <1>8
<1> HIDE DEF chosen
<1>11. PartOf(chosen, ls, places)
  BY <1>8, <1>9, <1>10 DEF PartOf
<1> QED
  BY <1>5, <1>8, <1>11

\* The entries of a list are of another, each from a place of its own.
Picked(part, ls) ==
  \E order \in [DOMAIN part -> DOMAIN ls] :
    /\ \A k \in DOMAIN part : part[k] = ls[order[k]]
    /\ \A j, k \in DOMAIN part : order[j] = order[k] => j = k

\* The strongest of a list are as many as asked, in the order of their confidences, and none twice.
LEMMA StrongestAreSorted ==
  ASSUME NEW T, \A x \in T : x.confidence \in Int,
         NEW ls \in Seq(T), NEW n \in Nat
  PROVE  /\ Strongest(ls, n) \in Seq(T)
         /\ Len(Strongest(ls, n)) <= n /\ Len(Strongest(ls, n)) <= Len(ls)
         /\ \A j, k \in DOMAIN Strongest(ls, n) : j < k =>
              Strongest(ls, n)[j].confidence >= Strongest(ls, n)[k].confidence
         /\ Picked(Strongest(ls, n), ls)
<1> DEFINE D == DOMAIN ls
           R == {x \in D \X D : \/ ls[x[1]].confidence > ls[x[2]].confidence
                                \/ ls[x[1]].confidence = ls[x[2]].confidence /\ x[1] < x[2]}
           order == Arranged(D, R)
           m == Min({n, Len(ls)})
           first == [k \in 1..m |-> ls[order[k]]]
           used == [k \in 1..m |-> order[k]]
<1>1. D = 1..Len(ls) /\ Len(ls) \in Nat
  OBVIOUS
<1>2. IsFiniteSet(D) /\ Cardinality(D) = Len(ls)
  <2>1. \A c \in Nat : IsFiniteSet(1..c) /\ Cardinality(1..c) = c
    BY FS_Interval
  <2> QED
    BY <1>1, <2>1
<1>3. \A x, y \in D : <<x, y>> \in R <=>
        \/ ls[x].confidence > ls[y].confidence
        \/ ls[x].confidence = ls[y].confidence /\ x < y
  OBVIOUS
<1>4. \A x \in D : ls[x] \in T /\ ls[x].confidence \in Int /\ x \in Int
  BY <1>1
<1>5. Orders(R, D)
  <2> HIDE DEF R, D
  <2>1. \A x \in D : <<x, x>> \notin R
    BY <1>3, <1>4
  <2>2. ASSUME NEW x \in D, NEW y \in D
        PROVE  x = y \/ <<x, y>> \in R \/ <<y, x>> \in R
    <3>1. PICK a \in Int, b \in Int : a = ls[x].confidence /\ b = ls[y].confidence
      BY <1>4
    <3>2. x \in Int /\ y \in Int
      BY <1>4
    <3>3. (a > b \/ (a = b /\ x < y)) \/ (b > a \/ (b = a /\ y < x)) \/ x = y
      BY <3>1, <3>2
    <3> QED
      BY <1>3, <3>1, <3>3
  <2>3. ASSUME NEW x \in D, NEW y \in D, NEW z \in D, <<x, y>> \in R, <<y, z>> \in R
        PROVE  <<x, z>> \in R
    <3>1. PICK a \in Int, b \in Int, c \in Int :
            a = ls[x].confidence /\ b = ls[y].confidence /\ c = ls[z].confidence
      BY <1>4
    <3>2. x \in Int /\ y \in Int /\ z \in Int
      BY <1>4
    <3>3. (a > b \/ (a = b /\ x < y)) /\ (b > c \/ (b = c /\ y < z))
      BY <1>3, <2>3, <3>1
    <3>4. a > c \/ (a = c /\ x < z)
      BY <3>1, <3>2, <3>3
    <3> QED
      BY <1>3, <3>1, <3>4
  <2> QED
    BY <2>1, <2>2, <2>3 DEF Orders
<1>6. /\ order \in [D -> D]
      /\ \A j, k \in D : j < k => <<order[j], order[k]>> \in R
  <2> HIDE DEF R
  <2> QED
    BY <1>1, <1>2, <1>5, ArrangedInOrder
<1>7. m \in Nat /\ m <= n /\ m <= Len(ls)
  <2>1. {n, Len(ls)} \in SUBSET Nat
    BY <1>1
  <2>2. m \in {n, Len(ls)} /\ \A y \in {n, Len(ls)} : m <= y
    BY <2>1, MinIsLeast
  <2> HIDE DEF m
  <2> QED
    BY <1>1, <2>2
<1>8. Strongest(ls, n) = first
  BY DEF Strongest
<1> HIDE DEF R, order, m
<1>9. \A k \in 1..m : k \in D /\ order[k] \in D /\ ls[order[k]] \in T
  <2>1. \A k \in 1..m : k \in D
    BY <1>1, <1>7
  <2> HIDE DEF D
  <2>2. \A k \in D : order[k] \in D
    BY <1>6
  <2> QED
    BY <1>4, <2>1, <2>2
<1>10. first \in [1..m -> T]
  BY <1>9
<1>11. first \in Seq(T) /\ Len(first) = m /\ DOMAIN first = 1..m
  BY <1>7, <1>10, ListIsSequence
<1>12. used \in [1..m -> D] /\ \A k \in 1..m : used[k] = order[k]
  BY <1>9
<1>13. \A k \in 1..m : first[k] = ls[used[k]] /\ first[k] = ls[order[k]]
  BY <1>9
<1> HIDE DEF first, used
<1>14. ASSUME NEW j \in 1..m, NEW k \in 1..m, j < k
       PROVE  first[j].confidence >= first[k].confidence /\ used[j] # used[k]
  <2>1. <<order[j], order[k]>> \in R
    BY <1>6, <1>9, <1>14
  <2>2. \/ ls[order[j]].confidence > ls[order[k]].confidence
        \/ ls[order[j]].confidence = ls[order[k]].confidence /\ order[j] < order[k]
    BY <1>3, <1>9, <2>1
  <2>3. /\ ls[order[j]].confidence \in Int /\ ls[order[k]].confidence \in Int
        /\ order[j] \in Int /\ order[k] \in Int
    BY <1>4, <1>9
  <2>4. ls[order[j]].confidence >= ls[order[k]].confidence /\ order[j] # order[k]
    BY <2>2, <2>3
  <2> QED
    BY <1>12, <1>13, <2>4
<1>15. \A j, k \in 1..m : used[j] = used[k] => j = k
  BY <1>7, <1>14
<1> HIDE DEF D
<1>16. Picked(first, ls)
  <2>1. used \in [DOMAIN first -> DOMAIN ls]
    BY <1>11, <1>12 DEF D
  <2>2. \A k \in DOMAIN first : first[k] = ls[used[k]]
    BY <1>11, <1>13
  <2>3. \A j, k \in DOMAIN first : used[j] = used[k] => j = k
    BY <1>11, <1>15
  <2> SUFFICES \E kept \in [DOMAIN first -> DOMAIN ls] :
                 /\ \A k \in DOMAIN first : first[k] = ls[kept[k]]
                 /\ \A j, k \in DOMAIN first : kept[j] = kept[k] => j = k
    BY DEF Picked
  <2> WITNESS used \in [DOMAIN first -> DOMAIN ls]
  <2> QED
    BY <2>2, <2>3
<1>17. \A j, k \in DOMAIN first : j < k => first[j].confidence >= first[k].confidence
  BY <1>11, <1>14
<1>18. Len(first) <= n /\ Len(first) <= Len(ls)
  BY <1>7, <1>11
<1> QED
  BY <1>8, <1>11, <1>16, <1>17, <1>18 DEF D

\* A stored link and a logged message, as they were published, and a link of an answer.
LinkRow == [from : Entities, to : Entities, domain : LinkDomains, confidence : Int, age : Nat]
MessageRow == [no : Nat, from : Entities, to : Entities, domain : LinkDomains, confidence : Int]
FoundRow == [from : Entities, to : Entities, domain : LinkDomains, confidence : Int,
             how : {"direct", "graph", "semantic", "memory", "timeline"}]

\* The store: ids are numbered, the index agrees with the links, and no two messages have a number.
StoreInv ==
  /\ published \in Nat
  /\ IsFiniteSet(DOMAIN links)
  /\ \A i \in DOMAIN links : /\ i[1] \in 1..published /\ i = <<i[1]>>
                             /\ links[i] \in LinkRow
  /\ DOMAIN entityLinks = Entities /\ IndexAgrees
  /\ IsFiniteSet(messages) /\ messages \subseteq MessageRow
  /\ \A m \in messages : m.no \in 1..published
  /\ \A m, n \in messages : m.no = n.no => m = n

\* No edge is in a list twice, unless the query itself found it twice.
Once(a) ==
  \A i, j \in DOMAIN a : i < j /\ Edge(a[i]) = Edge(a[j]) => a[i].how = "direct" /\ a[j].how = "direct"

\* The links of an entity are a list of stored links.
LEMMA NearAreLinks ==
  ASSUME StoreInv, NEW e \in Entities
  PROVE  getLinksForEntity(e) \in Seq(LinkRow)
<1> DEFINE ids == entityLinks[e] \cap DOMAIN links
           R == {x \in ids \X ids : x[1][1] < x[2][1]}
           order == Arranged(ids, R)
           near == [k \in DOMAIN order |-> links[order[k]]]
<1>1. IsFiniteSet(ids)
  BY FS_Subset DEF StoreInv
<1>2. \A x, y \in ids : <<x, y>> \in R <=> x[1] < y[1]
  OBVIOUS
<1>3. \A x \in ids : x[1] \in Nat /\ x = <<x[1]>> /\ links[x] \in LinkRow
  BY DEF StoreInv
<1> HIDE DEF ids, R
<1>4. Orders(R, ids)
  <2>1. \A x, y \in ids : x[1] = y[1] => x = y
    BY <1>3
  <2> QED
    BY <1>2, <1>3, <2>1 DEF Orders
<1>5. Cardinality(ids) \in Nat /\ order \in [1..Cardinality(ids) -> ids]
  BY <1>1, <1>4, ArrangedInOrder
<1> HIDE DEF order
<1>6. near \in [1..Cardinality(ids) -> LinkRow]
  BY <1>3, <1>5
<1>7. near \in Seq(LinkRow)
  BY <1>5, <1>6, ListIsSequence
<1> QED
  BY <1>7 DEF getLinksForEntity, order, R, ids

\* The messages about some links are a list of messages.
LEMMA LoggedAreMessages ==
  ASSUME StoreInv, NEW ls \in Seq(LinkRow)
  PROVE  messagesForLinks(ls) \in Seq(MessageRow)
<1> DEFINE First(m) == Min({k \in DOMAIN ls : Matches(m, ls[k])})
           found == {m \in messages : \E k \in DOMAIN ls : Matches(m, ls[k])}
           R == {x \in found \X found :
                   \/ First(x[1]) < First(x[2])
                   \/ First(x[1]) = First(x[2]) /\ x[1].no < x[2].no}
<1>1. IsFiniteSet(found)
  BY FS_Subset DEF StoreInv
<1>2. \A x, y \in found : <<x, y>> \in R <=>
        \/ First(x) < First(y)
        \/ First(x) = First(y) /\ x.no < y.no
  <2> HIDE DEF First
  <2> QED
    OBVIOUS
<1>3. ASSUME NEW m \in found
      PROVE  First(m) \in Nat
  <2> DEFINE at == {k \in DOMAIN ls : Matches(m, ls[k])}
  <2>1. at \in SUBSET Nat /\ at # {}
    OBVIOUS
  <2>2. Min(at) \in at
    <3> HIDE DEF at
    <3> QED
      BY <2>1, MinIsLeast
  <2> QED
    BY <2>1, <2>2
<1>4. \A m \in found : m \in MessageRow /\ m.no \in Nat
  BY DEF StoreInv, MessageRow
<1>5. \A m, n \in found : m.no = n.no => m = n
  BY DEF StoreInv
<1> HIDE DEF found, R, First
<1>6. Orders(R, found)
  BY <1>2, <1>3, <1>4, <1>5 DEF Orders
<1>7. Cardinality(found) \in Nat /\ Arranged(found, R) \in [1..Cardinality(found) -> found]
  BY <1>1, <1>6, ArrangedInOrder
<1>8. Arranged(found, R) \in [1..Cardinality(found) -> MessageRow]
  BY <1>4, <1>7
<1>9. Arranged(found, R) \in Seq(MessageRow)
  BY <1>7, <1>8, ListIsSequence
<1> QED
  BY <1>9 DEF messagesForLinks, R, found, First

\* What a pass is offered can be found: it has the ends, the domain and the confidence of a link.
LEMMA OfferedAreRows ==
  ASSUME StoreInv, NEW pass \in {"graph", "semantic", "memory", "timeline"}, NEW l, l.to \in Entities
  PROVE  Offered(pass, l) \in Seq(LinkRow \cup MessageRow)
<1> DEFINE T == LinkRow \cup MessageRow
<1>1. PICK near \in Seq(LinkRow) : near = getLinksForEntity(l.to)
  BY NearAreLinks
<1>2. PICK logged \in Seq(MessageRow) : logged = messagesForLinks(near)
  BY LoggedAreMessages
<1>3. near \in Seq(T) /\ logged \in Seq(T)
  BY <1>1, <1>2
<1>4. \A ls \in Seq(T) : \A places \in SUBSET (DOMAIN ls) : Chosen(ls, places) \in Seq(T)
  BY ChosenInOrder
<1>5. \/ Offered(pass, l) = Chosen(near, {k \in DOMAIN near : near[k].confidence >= OneHop})
      \/ Offered(pass, l) = Chosen(near, {k \in DOMAIN near : near[k].domain = l.domain})
      \/ Offered(pass, l) = Chosen(logged, {k \in DOMAIN logged : logged[k].confidence >= OneHop})
  BY <1>1, <1>2 DEF Offered
<1> HIDE DEF T
<1>6. Offered(pass, l) \in Seq(T)
  BY <1>3, <1>4, <1>5
<1> QED
  BY <1>6 DEF T

\* What a query finds is a list of stored links.
LEMMA QueryFindsLinks ==
  ASSUME StoreInv, NEW q, q.entity \in Entities, q.max \in Nat
  PROVE  query(q) \in Seq(LinkRow)
<1>1. PICK near \in Seq(LinkRow) : near = getLinksForEntity(q.entity)
  BY NearAreLinks
<1>2. PICK places \in SUBSET (DOMAIN near) :
        places = {k \in DOMAIN near : /\ near[k].to \in q.targets /\ near[k].confidence >= q.min
                                       /\ near[k].domain \in q.domains}
  OBVIOUS
<1>3. Chosen(near, places) \in Seq(LinkRow)
  BY ChosenInOrder
<1>4. \A x \in LinkRow : x.confidence \in Int
  BY DEF LinkRow
<1>5. Strongest(Chosen(near, places), q.max) \in Seq(LinkRow)
  BY <1>3, <1>4, StrongestAreSorted
<1> QED
  BY <1>1, <1>2, <1>5 DEF query

\* What is appended to a list repeats no edge when its edges are new and differ.
LEMMA OnceMore ==
  ASSUME NEW T, NEW a \in Seq(T), NEW b \in Seq(T), Once(a),
         \A i \in DOMAIN a, k \in DOMAIN b : Edge(a[i]) # Edge(b[k]),
         \A j, k \in DOMAIN b : j < k => Edge(b[j]) # Edge(b[k])
  PROVE  Once(a \o b)
<1> DEFINE n == Len(a)
           c == a \o b
<1>1. /\ n \in Nat /\ Len(b) \in Nat
      /\ DOMAIN c = 1..(n + Len(b)) /\ DOMAIN a = 1..n /\ DOMAIN b = 1..Len(b)
      /\ \A i \in 1..(n + Len(b)) : c[i] = IF i <= n THEN a[i] ELSE b[i - n]
  BY ConcatProperties
<1> HIDE DEF c, n
<1>2. ASSUME NEW i \in DOMAIN c, NEW j \in DOMAIN c, i < j, Edge(c[i]) = Edge(c[j])
      PROVE  c[i].how = "direct" /\ c[j].how = "direct"
  <2>1. i \in 1..(n + Len(b)) /\ j \in 1..(n + Len(b))
    BY <1>1
  <2>2. CASE j <= n
    <3>1. i \in DOMAIN a /\ j \in DOMAIN a /\ c[i] = a[i] /\ c[j] = a[j]
      BY <1>1, <1>2, <2>1, <2>2
    <3> QED
      BY <1>2, <3>1 DEF Once
  <2>3. CASE i <= n /\ ~(j <= n)
    <3>1. i \in DOMAIN a /\ j - n \in DOMAIN b /\ c[i] = a[i] /\ c[j] = b[j - n]
      BY <1>1, <2>1, <2>3
    <3> QED
      BY <1>2, <3>1
  <2>4. CASE ~(i <= n) /\ ~(j <= n)
    <3>1. /\ i - n \in DOMAIN b /\ j - n \in DOMAIN b /\ i - n < j - n
          /\ c[i] = b[i - n] /\ c[j] = b[j - n]
      BY <1>1, <1>2, <2>1, <2>4
    <3> QED
      BY <1>2, <3>1
  <2> QED
    BY <1>1, <1>2, <2>1, <2>2, <2>3, <2>4
<1> QED
  BY <1>2 DEF Once, c

\* One link of a pass adds links whose edges no list had, each once.
LEMMA EnrichAddsOnce ==
  ASSUME StoreInv, NEW pass \in {"graph", "semantic", "memory", "timeline"}, NEW q,
         NEW existing \in Seq(FoundRow), NEW results \in Seq(FoundRow),
         Once(existing \o results), NEW l \in FoundRow
  PROVE  /\ Enrich(pass, q, existing, results, l) \in Seq(FoundRow)
         /\ Once(existing \o Enrich(pass, q, existing, results, l))
<1> DEFINE T == LinkRow \cup MessageRow
           base == existing \o results
<1>1. PICK offered \in Seq(T) : offered = Offered(pass, l)
  BY OfferedAreRows DEF FoundRow
<1>2. PICK seen : seen = {Edge(x) : x \in Range(base)}
  OBVIOUS
<1>3. PICK strong \in SUBSET (DOMAIN offered) :
        strong = {k \in DOMAIN offered : /\ Kept(pass, offered[k].confidence) >= q.min
                                         /\ Edge(offered[k]) \notin seen}
  OBVIOUS
<1>4. PICK first \in SUBSET (DOMAIN offered) :
        first = {k \in strong : \A j \in strong : Edge(offered[j]) = Edge(offered[k]) => j >= k}
  <2>1. {k \in strong : \A j \in strong : Edge(offered[j]) = Edge(offered[k]) => j >= k}
          \in SUBSET (DOMAIN offered)
    OBVIOUS
  <2> QED
    BY <2>1
<1>5. PICK fresh \in Seq(T) : fresh = Chosen(offered, first)
  BY ChosenInOrder
<1>6. PICK order \in [DOMAIN fresh -> first] :
        /\ \A k \in DOMAIN fresh : fresh[k] = offered[order[k]]
        /\ \A j, k \in DOMAIN fresh : j < k => order[j] < order[k]
  <2>1. PartOf(fresh, offered, first)
    BY <1>5, ChosenInOrder
  <2> QED
    BY <2>1 DEF PartOf
<1>7. PICK added : added = [k \in DOMAIN fresh |-> FoundLink(fresh[k], pass)]
  OBVIOUS
<1>8. Enrich(pass, q, existing, results, l) = results \o added
  BY <1>1, <1>2, <1>3, <1>4, <1>5, <1>7 DEF Enrich
<1>9. \A x \in T : FoundLink(x, pass) \in FoundRow /\ Edge(FoundLink(x, pass)) = Edge(x)
  <2>1. ASSUME NEW x \in T
        PROVE  FoundLink(x, pass) \in FoundRow /\ Edge(FoundLink(x, pass)) = Edge(x)
    <3>1. x.from \in Entities /\ x.to \in Entities /\ x.domain \in LinkDomains /\ x.confidence \in Int
      BY DEF LinkRow, MessageRow
    <3>2. Kept(pass, x.confidence) \in Int
      BY <3>1 DEF Kept
    <3> HIDE DEF T
    <3> QED
      BY <3>1, <3>2 DEF FoundLink, FoundRow, Edge
  <2> QED
    BY <2>1
<1> HIDE DEF T
<1>10. PICK n \in Nat : n = Len(fresh) /\ DOMAIN fresh = 1..n
  BY <1>5
<1>11. \A k \in DOMAIN fresh : fresh[k] \in T
  BY <1>5
<1>12. added \in [1..n -> FoundRow]
  BY <1>7, <1>9, <1>10, <1>11
<1>13. added \in Seq(FoundRow) /\ DOMAIN added = 1..n
  BY <1>12, ListIsSequence
<1>14. \A k \in DOMAIN added : /\ Edge(added[k]) = Edge(offered[order[k]])
                               /\ order[k] \in first
  BY <1>6, <1>7, <1>9, <1>10, <1>11, <1>13
<1>15. \A k \in first : k \in strong /\ Edge(offered[k]) \notin seen /\ k \in Nat
  BY <1>3, <1>4
<1>16. base \in Seq(FoundRow)
  BY ConcatProperties
<1>17. \A i \in DOMAIN base, k \in DOMAIN added : Edge(base[i]) # Edge(added[k])
  <2>1. \A i \in DOMAIN base : Edge(base[i]) \in seen
    BY <1>2 DEF Range
  <2> HIDE DEF base
  <2> QED
    BY <1>14, <1>15, <2>1
<1>18. ASSUME NEW j \in DOMAIN added, NEW k \in DOMAIN added, j < k
       PROVE  Edge(added[j]) # Edge(added[k])
  <2>1. PICK x \in first : x = order[j]
    BY <1>14
  <2>2. PICK y \in first : y = order[k]
    BY <1>14
  <2>3. x < y
    BY <1>6, <1>10, <1>13, <1>18, <2>1, <2>2
  <2>4. Edge(offered[x]) = Edge(offered[y]) => x >= y
    BY <1>4, <1>15
  <2>5. x \in Nat /\ y \in Nat
    BY <1>15
  <2>6. Edge(offered[x]) # Edge(offered[y])
    BY <2>3, <2>4, <2>5
  <2> QED
    BY <1>14, <2>1, <2>2, <2>6
<1>19. Once(base \o added)
  <2> HIDE DEF base
  <2> QED
    BY <1>13, <1>16, <1>17, <1>18, OnceMore DEF base
<1>20. base \o added = existing \o (results \o added)
  BY <1>13, ConcatAssociative
<1>21. results \o added \in Seq(FoundRow)
  BY <1>13, ConcatProperties
<1> QED
  BY <1>8, <1>19, <1>20, <1>21

\* The broker is silent, or its answer grows by one step of explanation per link and repeats no
\* edge, or it has given a sound answer.
Broking == [phase : {"pass"}, pass : 1..4, query : Queries, at : Nat \ {0},
            enriched : Seq(FoundRow), results : Seq(FoundRow), chain : Nat]

Enriching(b) ==
  /\ b \in Broking
  /\ b.chain = Len(b.enriched) + Len(b.results)
  /\ Once(b.enriched \o b.results)

LinksInv ==
  /\ StoreInv
  /\ broker = Quiet \/ Enriching(broker) \/ (broker.phase = "done" /\ AnswerIsSound)

\* The invariant holds at the start.
LEMMA LinksStart == LinksInit => LinksInv
<1> SUFFICES ASSUME LinksInit
             PROVE  LinksInv
  OBVIOUS
<1>1. IsFiniteSet({})
  BY FS_EmptySet
<1>2. DOMAIN links = {} /\ published = 0 /\ messages = {}
  BY DEF LinksInit
<1>3. IndexAgrees
  BY <1>2 DEF LinksInit, IndexAgrees
<1> QED
  BY <1>1, <1>2, <1>3 DEF LinksInit, LinksInv, StoreInv

\* Every step of the store keeps it, and none of them looks at the broker.
LEMMA PublicationKeepsStore ==
  ASSUME LinksInv, NEW from \in Entities, NEW to \in Entities, NEW domain \in LinkDomains,
         NEW confidence \in LinkConfidences, publish(from, to, domain, confidence)
  PROVE  LinksInv'
<1> DEFINE id == <<published + 1>>
           row == [from |-> from, to |-> to, domain |-> domain, confidence |-> confidence, age |-> 0]
           entry == [no |-> published + 1, from |-> from, to |-> to, domain |-> domain,
                     confidence |-> confidence]
<1>1. PICK twins : twins = deduplicateLink(<<from, to, domain>>)
  OBVIOUS
<1>2. CASE UNCHANGED linkVars
  BY <1>2 DEF linkVars, LinksInv, StoreInv, IndexAgrees, AnswerIsSound
<1>3. CASE ~UNCHANGED linkVars
  <2>1. PICK index : index = addEntityLink(removeEntityLink(entityLinks, twins), {from, to}, id)
    OBVIOUS
  <2>2. PICK log : log = messages \cup {entry}
    OBVIOUS
  <2>3. PICK kept : kept = enforceEntityMessageLimit(enforceEntityMessageLimit(log, index, from), index, to)
    OBVIOUS
  <2>4. /\ links' = [i \in (DOMAIN links \ twins) \cup {id} |-> IF i = id THEN row ELSE links[i]]
        /\ entityLinks' = index /\ messages' = kept /\ published' = published + 1
        /\ UNCHANGED broker
    BY <1>1, <1>3, <2>1, <2>2, <2>3 DEF publish
  <2>5. published \in Nat /\ confidence \in Int
    BY LinksAssumption DEF LinksInv, StoreInv
  <2>6. row \in LinkRow /\ entry \in MessageRow /\ entry.no = published + 1
    BY <2>5 DEF LinkRow, MessageRow
  <2>7. id \notin DOMAIN links /\ id[1] = published + 1 /\ id = <<id[1]>>
    <3>1. \A i \in DOMAIN links : i[1] \in 1..published
      BY DEF LinksInv, StoreInv
    <3> QED
      BY <2>5, <3>1
  <2> HIDE DEF id, row
  <2>8. DOMAIN links' = (DOMAIN links \ twins) \cup {id} /\ links'[id] = row
        /\ \A i \in DOMAIN links' : i # id => i \in DOMAIN links /\ i \notin twins /\ links'[i] = links[i]
    BY <2>4, <2>7
  <2>9. IsFiniteSet(DOMAIN links')
    <3>1. IsFiniteSet(DOMAIN links \ twins)
      BY FS_Subset DEF LinksInv, StoreInv
    <3> QED
      BY <2>8, <3>1, FS_AddElement
  <2>10. \A i \in DOMAIN links' : /\ i[1] \in 1..published' /\ i = <<i[1]>>
                                  /\ links'[i] \in LinkRow
    <3>1. ASSUME NEW i \in DOMAIN links'
          PROVE  i[1] \in 1..published' /\ i = <<i[1]>> /\ links'[i] \in LinkRow
      <4>1. CASE i = id
        BY <2>4, <2>5, <2>6, <2>7, <2>8, <4>1
      <4>2. CASE i # id
        <5>1. i \in DOMAIN links /\ links'[i] = links[i]
          BY <2>8, <4>2
        <5>2. i[1] \in 1..published /\ i = <<i[1]>> /\ links[i] \in LinkRow
          BY <5>1 DEF LinksInv, StoreInv
        <5> QED
          BY <2>4, <2>5, <5>1, <5>2
      <4> QED
        BY <4>1, <4>2
    <3> QED
      BY <3>1
  <2>11. DOMAIN entityLinks' = Entities /\ IndexAgrees'
    <3>1. entityLinks' = [e \in Entities |->
            IF e \in {from, to} THEN removeEntityLink(entityLinks, twins)[e] \cup {id}
            ELSE removeEntityLink(entityLinks, twins)[e]]
      BY <2>1, <2>4 DEF addEntityLink
    <3>2. \A e \in Entities : removeEntityLink(entityLinks, twins)[e] = entityLinks[e] \ twins
      BY DEF removeEntityLink
    <3>3. ASSUME NEW e \in Entities
          PROVE  entityLinks'[e] = {i \in DOMAIN links' : e \in {links'[i].from, links'[i].to}}
      <4>1. entityLinks'[e] = (entityLinks[e] \ twins) \cup (IF e \in {from, to} THEN {id} ELSE {})
        BY <3>1, <3>2
      <4>2. entityLinks[e] = {i \in DOMAIN links : e \in {links[i].from, links[i].to}}
        BY DEF LinksInv, StoreInv, IndexAgrees
      <4>3. row.from = from /\ row.to = to
        BY DEF row
      <4> QED
        BY <2>7, <2>8, <4>1, <4>2, <4>3
    <3> QED
      BY <3>1, <3>3 DEF IndexAgrees
  <2>12. kept \subseteq log
    BY <2>3 DEF enforceEntityMessageLimit
  <2>13. IsFiniteSet(messages') /\ messages' \subseteq MessageRow
    <3>1. IsFiniteSet(log) /\ log \subseteq MessageRow
      BY <2>2, <2>6, FS_AddElement DEF LinksInv, StoreInv
    <3> QED
      BY <2>4, <2>12, <3>1, FS_Subset
  <2>14. /\ \A m \in messages' : m.no \in 1..published'
         /\ \A m, n \in messages' : m.no = n.no => m = n
    <3>1. \A m \in messages' : m = entry \/ m \in messages
      BY <2>2, <2>4, <2>12
    <3>2. /\ \A m \in messages : m.no \in 1..published
          /\ \A m, n \in messages : m.no = n.no => m = n
      BY DEF LinksInv, StoreInv
    <3> HIDE DEF entry
    <3> QED
      BY <2>4, <2>5, <2>6, <3>1, <3>2
  <2>15. published' \in Nat
    BY <2>4, <2>5
  <2>16. StoreInv'
    BY <2>9, <2>10, <2>11, <2>13, <2>14, <2>15 DEF StoreInv
  <2> QED
    BY <2>4, <2>16 DEF LinksInv, AnswerIsSound
<1> QED
  BY <1>2, <1>3

\* The sweep keeps it,
LEMMA SweepKeepsStore ==
  ASSUME LinksInv, removeExpiredLinks
  PROVE  LinksInv'
<1>1. PICK expired : /\ links' = WithoutLinks(links, expired)
                     /\ entityLinks' = removeEntityLink(entityLinks, expired)
                     /\ UNCHANGED <<messages, published, broker>>
  BY DEF removeExpiredLinks
<1>2. links' = [i \in DOMAIN links \ expired |-> links[i]]
  BY <1>1 DEF WithoutLinks
<1>3. /\ DOMAIN links' = DOMAIN links \ expired
      /\ \A i \in DOMAIN links' : i \in DOMAIN links /\ links'[i] = links[i]
  BY <1>2
<1>4. entityLinks' = [e \in Entities |-> entityLinks[e] \ expired]
  BY <1>1 DEF removeEntityLink
<1>5. IsFiniteSet(DOMAIN links')
  BY <1>3, FS_Subset DEF LinksInv, StoreInv
<1>6. DOMAIN entityLinks' = Entities /\ IndexAgrees'
  <2>1. ASSUME NEW e \in Entities
        PROVE  entityLinks'[e] = {i \in DOMAIN links' : e \in {links'[i].from, links'[i].to}}
    <3>1. entityLinks[e] = {i \in DOMAIN links : e \in {links[i].from, links[i].to}}
      BY DEF LinksInv, StoreInv, IndexAgrees
    <3>2. entityLinks'[e] = entityLinks[e] \ expired
      BY <1>4
    <3> QED
      BY <1>3, <3>1, <3>2
  <2> QED
    BY <1>4, <2>1 DEF IndexAgrees
<1>7. StoreInv'
  BY <1>1, <1>3, <1>5, <1>6 DEF LinksInv, StoreInv
<1> QED
  BY <1>1, <1>7 DEF LinksInv, AnswerIsSound

\* and the passing of time,
LEMMA AgeKeepsStore ==
  ASSUME LinksInv, LinksTick
  PROVE  LinksInv'
<1> DEFINE older(l) == [l EXCEPT !.age = IF isExpired(l) THEN @ ELSE @ + 1]
<1>1. /\ links' = [i \in DOMAIN links |-> older(links[i])]
      /\ UNCHANGED <<entityLinks, messages, published, broker>>
  BY DEF LinksTick
<1>2. \A l \in LinkRow : older(l) \in LinkRow /\ older(l).from = l.from /\ older(l).to = l.to
  <2>1. ASSUME NEW l \in LinkRow
        PROVE  older(l) \in LinkRow /\ older(l).from = l.from /\ older(l).to = l.to
    <3>1. l.age \in Nat
      BY DEF LinkRow
    <3>2. PICK age \in Nat : age = IF isExpired(l) THEN l.age ELSE l.age + 1
      BY <3>1
    <3>3. older(l) = [l EXCEPT !.age = age]
      BY <3>2
    <3> HIDE DEF older
    <3> QED
      BY <3>2, <3>3 DEF LinkRow
  <2> QED
    BY <2>1
<1> HIDE DEF older
<1>3. \A i \in DOMAIN links : links[i] \in LinkRow
  BY DEF LinksInv, StoreInv
<1>4. /\ DOMAIN links' = DOMAIN links
      /\ \A i \in DOMAIN links : /\ links'[i] \in LinkRow /\ links'[i].from = links[i].from
                                 /\ links'[i].to = links[i].to
  BY <1>1, <1>2, <1>3
<1>5. IndexAgrees'
  <2>1. ASSUME NEW e \in Entities
        PROVE  entityLinks'[e] = {i \in DOMAIN links' : e \in {links'[i].from, links'[i].to}}
    <3>1. entityLinks[e] = {i \in DOMAIN links : e \in {links[i].from, links[i].to}}
      BY DEF LinksInv, StoreInv, IndexAgrees
    <3> QED
      BY <1>1, <1>4, <3>1
  <2> QED
    BY <2>1 DEF IndexAgrees
<1>6. StoreInv'
  BY <1>1, <1>4, <1>5 DEF LinksInv, StoreInv
<1> QED
  BY <1>1, <1>6 DEF LinksInv, AnswerIsSound

\* and a question to the broker,
LEMMA InquiryKeepsLinks ==
  ASSUME LinksInv, NEW q \in Queries, Inquire(q)
  PROVE  LinksInv'
<1>1. q.entity \in Entities /\ q.max \in Nat
  BY LinksAssumption
<1>2. PICK direct \in Seq(LinkRow) : direct = query(q)
  BY <1>1, QueryFindsLinks DEF LinksInv
<1>3. PICK n \in Nat : n = Len(direct) /\ DOMAIN direct = 1..n
  BY <1>2
<1>4. PICK enriched : enriched = [k \in DOMAIN direct |-> Direct(direct[k])]
  OBVIOUS
<1>5. \A l \in LinkRow : Direct(l) \in FoundRow /\ Direct(l).how = "direct"
  BY DEF LinkRow, FoundRow, Direct
<1>6. enriched \in [1..n -> FoundRow] /\ \A k \in 1..n : enriched[k].how = "direct"
  BY <1>2, <1>3, <1>4, <1>5
<1>7. enriched \in Seq(FoundRow) /\ Len(enriched) = n /\ DOMAIN enriched = 1..n
  BY <1>6, ListIsSequence
<1>8. broker' = [phase |-> "pass", pass |-> 1, query |-> q, at |-> 1,
                 enriched |-> enriched, results |-> << >>, chain |-> n]
  BY <1>2, <1>3, <1>4 DEF Inquire
<1>9. enriched \o << >> = enriched
  BY <1>7, ConcatEmptySeq
<1>10. Once(enriched)
  BY <1>6, <1>7 DEF Once
<1>11. << >> \in Seq(FoundRow) /\ Len(<< >>) = 0
  OBVIOUS
<1>12. broker' \in Broking
  BY <1>7, <1>8, <1>11 DEF Broking
<1>13. Enriching(broker')
  BY <1>7, <1>8, <1>9, <1>10, <1>11, <1>12 DEF Enriching
<1>14. StoreInv'
  BY DEF LinksInv, StoreInv, IndexAgrees, Inquire
<1> QED
  BY <1>13, <1>14 DEF LinksInv

\* and a visit of its passes,
LEMMA VisitKeepsLinks ==
  ASSUME LinksInv, Visit
  PROVE  LinksInv'
<1>1. PICK b \in Broking : b = broker /\ Enriching(b)
  <2>1. broker.phase = "pass"
    BY DEF Visit
  <2>2. broker # Quiet
    BY <2>1 DEF Quiet
  <2>3. Enriching(broker)
    BY <2>1, <2>2 DEF LinksInv
  <2> QED
    BY <2>3 DEF Enriching
<1>2. PICK pass \in {"graph", "semantic", "memory", "timeline"} : pass = Passes[b.pass]
  BY DEF Passes, Broking
<1>3. /\ b.pass \in 1..4 /\ b.query \in Queries /\ b.at \in Nat \ {0}
      /\ b.enriched \in Seq(FoundRow) /\ b.results \in Seq(FoundRow) /\ b.chain \in Nat
  BY DEF Broking
<1>4. ~(b.at > Len(b.enriched))
  BY <1>1 DEF Visit, PassOver
<1>5. b.enriched[b.at] \in FoundRow
  BY <1>3, <1>4
<1>6. PICK found : found = Enrich(pass, b.query, b.enriched, b.results, b.enriched[b.at])
  OBVIOUS
<1>7. found \in Seq(FoundRow) /\ Once(b.enriched \o found)
  BY <1>1, <1>3, <1>5, <1>6, EnrichAddsOnce DEF LinksInv, Enriching
<1>8. broker' = [b EXCEPT !.at = b.at + 1, !.results = found,
                          !.chain = b.chain + Len(found) - Len(b.results)]
  BY <1>1, <1>2, <1>6 DEF Visit
<1>9. PICK chain : chain = b.chain + Len(found) - Len(b.results)
  OBVIOUS
<1>10. chain = Len(b.enriched) + Len(found) /\ chain \in Nat
  <2>1. b.chain = Len(b.enriched) + Len(b.results)
    BY <1>1 DEF Enriching
  <2>2. PICK e \in Nat, r \in Nat, f \in Nat :
          e = Len(b.enriched) /\ r = Len(b.results) /\ f = Len(found)
    BY <1>3, <1>7
  <2>3. chain = e + r + f - r
    BY <1>9, <2>1, <2>2
  <2>4. chain = e + f /\ chain \in Nat
    BY <2>3
  <2> QED
    BY <2>2, <2>4
<1>11. broker' = [b EXCEPT !.at = b.at + 1, !.results = found, !.chain = chain]
  BY <1>8, <1>9
<1>12. /\ broker' \in Broking
       /\ broker'.enriched = b.enriched /\ broker'.results = found /\ broker'.chain = chain
  <2>1. PICK at \in Nat \ {0} : at = b.at + 1
    BY <1>3
  <2>2. PICK a : a = [b EXCEPT !.at = at, !.results = found, !.chain = chain]
    OBVIOUS
  <2>3. a = [phase |-> "pass", pass |-> b.pass, query |-> b.query, at |-> at,
             enriched |-> b.enriched, results |-> found, chain |-> chain]
    BY <2>2 DEF Broking
  <2>4. a \in Broking
    BY <1>3, <1>7, <1>10, <2>3 DEF Broking
  <2>5. broker' = a
    BY <1>11, <2>1, <2>2
  <2> QED
    BY <2>3, <2>4, <2>5
<1>13. Enriching(broker')
  BY <1>7, <1>10, <1>12 DEF Enriching
<1>14. StoreInv'
  BY DEF LinksInv, StoreInv, IndexAgrees, Visit
<1> QED
  BY <1>13, <1>14 DEF LinksInv

\* and the end of a pass,
LEMMA EndOfPassKeepsLinks ==
  ASSUME LinksInv, EndPass
  PROVE  LinksInv'
<1>1. PICK b \in Broking : b = broker /\ Enriching(b)
  <2>1. broker.phase = "pass"
    BY DEF EndPass
  <2>2. broker # Quiet
    BY <2>1 DEF Quiet
  <2>3. Enriching(broker)
    BY <2>1, <2>2 DEF LinksInv
  <2> QED
    BY <2>3 DEF Enriching
<1>2. /\ b.pass \in 1..4 /\ b.query \in Queries /\ b.at \in Nat \ {0}
      /\ b.enriched \in Seq(FoundRow) /\ b.results \in Seq(FoundRow) /\ b.chain \in Nat
  BY DEF Broking
<1>3. PICK found \in Seq(FoundRow) : /\ found = b.enriched \o b.results
                                     /\ Len(found) = Len(b.enriched) + Len(b.results)
  BY <1>2, ConcatProperties
<1>4. Len(found) = b.chain /\ Once(found) /\ Len(found) \in Nat
  <2>1. b.chain = Len(b.enriched) + Len(b.results) /\ Once(b.enriched \o b.results)
    BY <1>1 DEF Enriching
  <2>2. Len(found) = b.chain
    BY <1>3, <2>1
  <2>3. Once(found)
    BY <1>3, <2>1
  <2>4. Len(found) \in Nat
    BY LenProperties
  <2> QED
    BY <2>2, <2>3, <2>4
<1>5. StoreInv'
  BY DEF LinksInv, StoreInv, IndexAgrees, EndPass
<1>6. CASE b.pass < Len(Passes) /\ Len(found) < b.query.max
  <2>1. broker' = [b EXCEPT !.pass = b.pass + 1, !.at = 1, !.enriched = found, !.results = << >>]
    BY <1>1, <1>3, <1>6 DEF EndPass
  <2>2. PICK pass \in 1..4 : pass = b.pass + 1
    BY <1>2, <1>6 DEF Passes
  <2>3. << >> \in Seq(FoundRow) /\ Len(<< >>) = 0
    OBVIOUS
  <2>4. /\ broker' \in Broking
        /\ broker'.enriched = found /\ broker'.results = << >> /\ broker'.chain = b.chain
    <3>1. PICK a : a = [b EXCEPT !.pass = pass, !.at = 1, !.enriched = found, !.results = << >>]
      OBVIOUS
    <3>2. a = [phase |-> "pass", pass |-> pass, query |-> b.query, at |-> 1,
               enriched |-> found, results |-> << >>, chain |-> b.chain]
      BY <3>1 DEF Broking
    <3>3. a \in Broking
      BY <1>2, <2>2, <2>3, <3>2 DEF Broking
    <3>4. broker' = a
      BY <2>1, <2>2, <3>1
    <3> QED
      BY <3>2, <3>3, <3>4
  <2>5. found \o << >> = found
    BY ConcatEmptySeq
  <2>6. Enriching(broker')
    BY <1>4, <2>3, <2>4, <2>5 DEF Enriching
  <2> QED
    BY <1>5, <2>6 DEF LinksInv
<1>7. CASE ~(b.pass < Len(Passes) /\ Len(found) < b.query.max)
  <2>1. PICK max \in Nat : max = b.query.max
    BY <1>2, LinksAssumption
  <2>2. PICK answer : answer = Strongest(found, max)
    OBVIOUS
  <2>3. broker' = [b EXCEPT !.phase = "done", !.pass = 0, !.at = 0, !.results = << >>,
                            !.enriched = answer]
    BY <1>1, <1>3, <1>7, <2>1, <2>2 DEF EndPass
  <2>4. /\ broker'.phase = "done" /\ broker'.query = b.query /\ broker'.chain = b.chain
        /\ broker'.enriched = answer
    BY <2>3 DEF Broking
  <2>5. \A x \in FoundRow : x.confidence \in Int
    BY DEF FoundRow
  <2>6. /\ answer \in Seq(FoundRow) /\ Len(answer) <= max /\ Len(answer) <= Len(found)
        /\ \A j, k \in DOMAIN answer : j < k => answer[j].confidence >= answer[k].confidence
        /\ Picked(answer, found)
    BY <2>2, <2>5, StrongestAreSorted
  <2>7. ASSUME NEW i \in DOMAIN answer, NEW j \in DOMAIN answer, i < j,
               Edge(answer[i]) = Edge(answer[j])
        PROVE  answer[i].how = "direct" /\ answer[j].how = "direct"
    <3>1. PICK order \in [DOMAIN answer -> DOMAIN found] :
            /\ \A k \in DOMAIN answer : answer[k] = found[order[k]]
            /\ \A h, k \in DOMAIN answer : order[h] = order[k] => h = k
      BY <2>6 DEF Picked
    <3>2. PICK x \in DOMAIN found : x = order[i]
      OBVIOUS
    <3>3. PICK y \in DOMAIN found : y = order[j]
      OBVIOUS
    <3>4. i \in Int /\ j \in Int /\ x \in Int /\ y \in Int
      BY <1>3, <2>6
    <3>5. x # y
      BY <2>7, <3>1, <3>2, <3>3, <3>4
    <3>6. answer[i] = found[x] /\ answer[j] = found[y]
      BY <3>1, <3>2, <3>3
    <3>7. x < y \/ y < x
      BY <3>4, <3>5
    <3> QED
      BY <1>4, <2>7, <3>6, <3>7 DEF Once
  <2>8. AnswerIsSound'
    BY <1>4, <2>1, <2>4, <2>6, <2>7 DEF AnswerIsSound
  <2> QED
    BY <1>5, <2>4, <2>8 DEF LinksInv
<1> QED
  BY <1>6, <1>7

\* so that every step does.
LEMMA LinksStep == LinksInv /\ [LinksNext]_linkVars => LinksInv'
<1> SUFFICES ASSUME LinksInv, [LinksNext]_linkVars
             PROVE  LinksInv'
  OBVIOUS
<1>1. CASE UNCHANGED linkVars
  BY <1>1 DEF linkVars, LinksInv, StoreInv, IndexAgrees, AnswerIsSound
<1>2. CASE Publish
  <2>1. PICK from \in Entities, domain \in LinkDomains, confidence \in LinkConfidences,
             to \in Entities : publish(from, to, domain, confidence)
    BY <1>2 DEF Publish
  <2> QED
    BY <2>1, PublicationKeepsStore
<1>3. CASE removeExpiredLinks
  BY <1>3, SweepKeepsStore
<1>4. CASE LinksTick
  BY <1>4, AgeKeepsStore
<1>5. ASSUME NEW q \in Queries, Inquire(q)
      PROVE  LinksInv'
  BY <1>5, InquiryKeepsLinks
<1>6. CASE Visit
  BY <1>6, VisitKeepsLinks
<1>7. CASE EndPass
  BY <1>7, EndOfPassKeepsLinks
<1>8. CASE Answered
  BY <1>8 DEF Answered, LinksInv, StoreInv, IndexAgrees
<1> QED
  BY <1>1, <1>2, <1>3, <1>4, <1>5, <1>6, <1>7, <1>8 DEF LinksNext

\* Whatever is published, swept and asked, in any order: the index of an entity holds its links and
\* no others, and an answer put together over a store that changes under it is as long as asked at
\* most, strongest first, explained step by step, and repeats no edge that enrichment added.
THEOREM LinksStand == LinksSpec => []LinksHold
<1>1. LinksInv => LinksHold
  <2>1. Quiet.phase # "done" /\ \A b \in Broking : b.phase # "done"
    BY DEF Quiet, Broking
  <2> QED
    BY <2>1 DEF LinksInv, StoreInv, LinksHold, AnswerIsSound, Enriching
<1> QED
  BY <1>1, LinksStart, LinksStep, PTL DEF LinksSpec

=============================================================================
