--------------------------- MODULE RecruiterMemory ----------------------------
(***************************************************************************)
(* What is kept of a recruiter's messages.  A call to the connector runs   *)
(* the planner's chain of capabilities over the text, writes each          *)
(* confident field to the memory table (observations that supersede each   *)
(* other), and draws the extracted facts and inferences into the knowledge *)
(* graph.  Calls overlap: a memory write is a transaction that reads and   *)
(* then writes at READ COMMITTED, a graph upsert reads from the replica    *)
(* and writes to the master in two statements.                             *)
(***************************************************************************)
EXTENDS Integers, FiniteSets, Sequences, FiniteSetsExt, SequencesExt

CONSTANTS Runs,         \* calls of process() for one recruiter
          Chain,        \* the capabilities of the plan, a sequence
          Outputs,      \* what a capability may answer: sequences of fields
          Drawings,     \* per run, the graph steps of its facts and of its inferences
          MaxEvidence   \* how much evidence an edge keeps (20)

\* Both ends of an edge are drawn before it, the recruiter's own node first of all.
ASSUME DrawingAssumption ==
  /\ MaxEvidence \in Nat \ {0}
  /\ \A r \in Runs : Drawings[r] \in Seq(ToSet(Drawings[r]))
  /\ \A r \in Runs : \A p \in DOMAIN Drawings[r] :
       LET steps == Drawings[r][p] IN
       /\ steps \in Seq(ToSet(steps)) /\ steps # << >>
       /\ \A k \in DOMAIN steps :
            \/ steps[k].kind = "node"
            \/ /\ steps[k].kind = "edge" /\ steps[k].confidence \in Nat
               /\ \A end \in {steps[k].from, steps[k].key} :
                    \E j \in 1 .. (k - 1) : steps[j].kind = "node" /\ steps[j].key = end

VARIABLES observations, \* recruiter_memory_observations, in order of creation
          nodes,        \* recruiter_graph_nodes: key -> version
          edges,        \* recruiter_graph_edges
          replica,      \* the nodes and edges as the read replica has them
          run,          \* what each call is doing
          audit,        \* Prediction rows written by each call
          clock

memoryVars == <<observations, nodes, edges, replica, run, audit, clock>>

NoObservation == 0

Unstarted == [phase |-> "idle", at |-> 1, fields |-> << >>, from |-> 0, seen |-> NoObservation]

MemoryInit ==
  /\ observations = << >>
  /\ nodes = << >>
  /\ edges = << >>
  /\ replica = [nodes |-> << >>, edges |-> << >>]
  /\ run = [r \in Runs |-> Unstarted]
  /\ audit = [r \in Runs |-> [plans |-> 0, answers |-> 0, errors |-> 0]]
  /\ clock = 0
-----------------------------------------------------------------------------
(* The planner writes its decision and then runs the chain.  A capability   *)
(* that fails leaves its own row and the planner's, and the chain goes on.  *)

Plan(r) ==
  /\ run[r].phase = "idle"
  /\ audit' = [audit EXCEPT ![r].plans = @ + 1]
  /\ run' = [run EXCEPT ![r].phase = "chain"]
  /\ UNCHANGED <<observations, nodes, edges, replica, clock>>

Confident(fields) == SelectSeq(fields, LAMBDA f : f.confidence >= 4000)

(* After the last capability the fields are written one after the other,    *)
(* each with the time its write began.                                      *)
NextField(t) ==
  IF t.fields = << >> THEN [t EXCEPT !.phase = "draw", !.at = 1, !.from = 1, !.seen = NoObservation]
  ELSE [t EXCEPT !.phase = "field", !.from = clock + 1, !.seen = NoObservation]

Advance(t) == IF t.at < Len(Chain) THEN [t EXCEPT !.at = @ + 1] ELSE NextField(t)

Capability(r) ==
  /\ run[r].phase = "chain"
  /\ \/ \E fields \in Outputs :
          /\ run' = [run EXCEPT ![r] =
                       Advance([run[r] EXCEPT !.fields = @ \o Confident(fields)])]
          /\ audit' = [audit EXCEPT ![r].answers = @ + 1]
     \/ /\ run' = [run EXCEPT ![r] = Advance(@)]
        /\ audit' = [audit EXCEPT ![r].errors = @ + 2]
  /\ UNCHANGED <<observations, nodes, edges, replica, clock>>
-----------------------------------------------------------------------------
(* RecruiterMemoryService.write: the newest current observation of the      *)
(* field's type is read, and what it says then decides: a transaction       *)
(* raises its confidence, keeps it, or creates a new one that supersedes    *)
(* it, all committed together.                                              *)

Current(o) == o.supersededAt = 0 /\ o.validTo = 0

Decided(field, old) ==
  IF old = NoObservation \/ observations[old].value # field.value THEN "replace"
  ELSE IF field.confidence > observations[old].confidence THEN "raise" ELSE "keep"

ReadCurrent(r) ==
  LET field == Head(run[r].fields)
      found == { i \in DOMAIN observations :
                   observations[i].type = field.type /\ Current(observations[i]) }
      old   == IF found = {} THEN NoObservation ELSE Max(found)
  IN  /\ run[r].phase = "field"
      /\ run' = [run EXCEPT ![r].phase = Decided(field, old), ![r].seen = old]
      /\ UNCHANGED <<observations, nodes, edges, replica, audit, clock>>

Observation(field, from) ==
  [type |-> field.type, value |-> field.value, confidence |-> field.confidence,
   validFrom |-> from, validTo |-> 0, supersededBy |-> 0, supersededAt |-> 0]

(* mutant: the old observation is closed, and the new one names it instead *)
SupersededBackwards(rows, old, from) ==
  LET new == Len(rows)
  IN  IF old = NoObservation THEN rows
      ELSE [rows EXCEPT ![old] = [@ EXCEPT !.validTo = from, !.supersededAt = clock + 1],
                        ![new] = [@ EXCEPT !.supersededBy = old]]

(* The row read is closed in favour of the row just created.                *)
Superseded(rows, old, from) ==
  IF old = NoObservation THEN rows
  ELSE [rows EXCEPT ![old] = [@ EXCEPT !.validTo = from, !.supersededAt = clock + 1,
                                       !.supersededBy = Len(rows)]]

WriteField(r) ==
  LET field == Head(run[r].fields)
      old   == run[r].seen
  IN  /\ \/ /\ run[r].phase = "raise"
            /\ observations' = [observations EXCEPT ![old].confidence = field.confidence]
         \/ run[r].phase = "keep" /\ UNCHANGED observations
         \/ /\ run[r].phase = "replace"
            /\ observations' = Superseded(Append(observations, Observation(field, run[r].from)),
                                         old, run[r].from)
      /\ clock' = clock + 1
      /\ run' = [run EXCEPT ![r] = NextField([run[r] EXCEPT !.fields = Tail(@)])]
      /\ UNCHANGED <<nodes, edges, replica, audit>>

(* A write that fails is skipped: the next field follows.                   *)
FieldFails(r) ==
  /\ run[r].phase \in {"field", "raise", "keep", "replace"}
  /\ clock' = clock + 1
  /\ run' = [run EXCEPT ![r] = NextField([run[r] EXCEPT !.fields = Tail(@)])]
  /\ UNCHANGED <<observations, nodes, edges, replica, audit>>
-----------------------------------------------------------------------------
(* The knowledge graph.  Drawings[r] has two parts, the facts and the       *)
(* inferences; run[r].from is the part being drawn, run[r].at the step.     *)

DrawingSteps(r) == Drawings[r][run[r].from]

Step(r) == DrawingSteps(r)[run[r].at]

Drawing(r) == run[r].phase \in {"draw", "drawn"} /\ run[r].from <= Len(Drawings[r])

NextPart(t) == [t EXCEPT !.phase = "draw", !.from = @ + 1, !.at = 1, !.seen = NoObservation]

NextStep(r) ==
  IF run[r].at < Len(DrawingSteps(r))
    THEN [run[r] EXCEPT !.phase = "draw", !.at = @ + 1, !.seen = NoObservation]
    ELSE NextPart(run[r])

SameEdge(e, s) == e.from = s.from /\ e.to = s.key /\ e.rel = s.rel

(* What the upsert finds on the replica: the node's version, or some open   *)
(* edge between the ends.                                                   *)
Look(r) ==
  LET s == Step(r)
      found == { i \in DOMAIN replica.edges : SameEdge(replica.edges[i], s) }
  IN  /\ Drawing(r) /\ run[r].phase = "draw"
      /\ IF s.kind = "node"
           THEN run' = [run EXCEPT ![r].phase = "drawn", ![r].seen =
                  IF s.key \in DOMAIN replica.nodes THEN replica.nodes[s.key] ELSE NoObservation]
           ELSE \E i \in IF found = {} THEN {NoObservation} ELSE found :
                  run' = [run EXCEPT ![r].phase = "drawn", ![r].seen = i,
                     ![r].fields = IF i = NoObservation THEN << >> ELSE <<replica.edges[i]>>]
      /\ UNCHANGED <<observations, nodes, edges, replica, audit, clock>>

(* upsertNode: an update from the version read, or a create that fails on   *)
(* the unique key and abandons the rest of the part.                        *)
upsertNode(r) ==
  LET s == Step(r)
  IN  /\ Drawing(r) /\ run[r].phase = "drawn" /\ s.kind = "node"
      /\ IF run[r].seen = NoObservation /\ s.key \in DOMAIN nodes
           THEN /\ run' = [run EXCEPT ![r] = NextPart(@)]
                /\ UNCHANGED nodes
           ELSE /\ nodes' = [k \in DOMAIN nodes \cup {s.key} |->
                               IF k = s.key THEN run[r].seen + 1 ELSE nodes[k]]
                /\ run' = [run EXCEPT ![r] = NextStep(r)]
      /\ UNCHANGED <<observations, edges, replica, audit, clock>>

(* upsertEdge: the row read is strengthened and gets the evidence, or a new *)
(* row is created; nothing keeps a second open edge out.                    *)
Strengthened(old, s) ==
  [old EXCEPT !.confidence = Max({@, s.confidence}),
              !.evidence = Min({@ + 1, MaxEvidence}), !.version = @ + 1]

NewEdge(s) == [from |-> s.from, to |-> s.key, rel |-> s.rel,
               confidence |-> s.confidence, evidence |-> 1, version |-> 1]

upsertEdge(r) ==
  LET s == Step(r)
  IN  /\ Drawing(r) /\ run[r].phase = "drawn" /\ s.kind = "edge"
      /\ edges' = IF run[r].seen = NoObservation THEN Append(edges, NewEdge(s))
                  ELSE [edges EXCEPT ![run[r].seen] = Strengthened(run[r].fields[1], s)]
      /\ run' = [run EXCEPT ![r] = [NextStep(r) EXCEPT !.fields = << >>]]
      /\ UNCHANGED <<observations, nodes, replica, audit, clock>>

Finish(r) ==
  /\ run[r].phase = "draw" /\ ~Drawing(r)
  /\ run' = [run EXCEPT ![r] = [Unstarted EXCEPT !.phase = "done"]]
  /\ UNCHANGED <<observations, nodes, edges, replica, audit, clock>>

Replicate ==
  /\ replica # [nodes |-> nodes, edges |-> edges]
  /\ replica' = [nodes |-> nodes, edges |-> edges]
  /\ UNCHANGED <<observations, nodes, edges, run, audit, clock>>

(* The process exits: its calls are gone, what they committed stays.        *)
Exit(r) ==
  /\ run[r].phase \notin {"idle", "done", "gone"}
  /\ run' = [run EXCEPT ![r] = [Unstarted EXCEPT !.phase = "gone"]]
  /\ UNCHANGED <<observations, nodes, edges, replica, audit, clock>>

MemoryNext ==
  \/ \E r \in Runs : \/ Plan(r) \/ Capability(r) \/ ReadCurrent(r) \/ WriteField(r)
                     \/ FieldFails(r) \/ Look(r) \/ upsertNode(r) \/ upsertEdge(r)
                     \/ Finish(r) \/ Exit(r)
  \/ Replicate

MemorySpec == MemoryInit /\ [][MemoryNext]_memoryVars
-----------------------------------------------------------------------------
(* A recruiter is never left without a current value for something it was   *)
(* once told: whatever writes overlapped, every type that was ever observed *)
(* has a current observation, and an observation that is not current was    *)
(* replaced by a younger one of its type with another value.                *)
MemoryKeepsACurrent ==
  \A i \in DOMAIN observations :
    LET o == observations[i]
    IN  /\ \E j \in DOMAIN observations :
             observations[j].type = o.type /\ Current(observations[j])
        /\ ~Current(o) =>
             /\ o.supersededBy > i
             /\ LET new == observations[o.supersededBy]
                IN  /\ new.type = o.type /\ new.value # o.value
                    /\ o.validTo = new.validFrom

(* Overlapping upserts may lose an update of an edge, but never half of it: *)
(* an edge holds the evidence its version counts, up to the cap, hangs      *)
(* between existing nodes, and has a confidence that somebody gave it.      *)
EdgesAreWhole ==
  \A i \in DOMAIN edges :
    /\ edges[i].evidence = Min({edges[i].version, MaxEvidence})
    /\ {edges[i].from, edges[i].to} \subseteq DOMAIN nodes
    /\ \E r \in Runs : \E p \in DOMAIN Drawings[r] : \E k \in DOMAIN Drawings[r][p] :
         LET s == Drawings[r][p][k]
         IN  s.kind = "edge" /\ SameEdge(edges[i], s) /\ s.confidence = edges[i].confidence

(* Overlapping writers leave what a recruiter was told, and the graph       *)
(* beside it, whole.                                                        *)
MemoryIsWhole == MemoryKeepsACurrent /\ EdgesAreWhole
=============================================================================
