----------------------------- MODULE OperatorPlan -----------------------------
(***************************************************************************)
(* The operator registry and the execution planner of core/src/operator.c: *)
(* sim_operator_registry_register and sim_operator_resolve_plan.           *)
(*                                                                         *)
(* The planner scans the operators in registration order, collecting the   *)
(* explicit dependencies and the read/write hazards on fields as edges of  *)
(* a graph, then orders the graph with Kahn's algorithm and a FIFO queue.  *)
(* A scanned operator, an examined seed, a popped operator and a relaxed   *)
(* edge are one step each.                                                 *)
(*                                                                         *)
(* An edge is <<from, to, k>>: k > 0 is the k-th explicit dependency of    *)
(* operator to, k = 0 a hazard.  The order in which one operator's fields  *)
(* are visited (mask bits, then index lists, both deduplicated) shows in   *)
(* no adjacency list, so reads and writes are sets of fields.              *)
(***************************************************************************)
EXTENDS PlanConstraints, FiniteSets

CONSTANTS Fields,        \* field indices operators refer to
          Descriptors,   \* the operator descriptors a caller may register
          MaxOps         \* bound on the number of registered operators

ASSUME DescriptorsAssumption ==
  /\ Descriptors \subseteq [reads : SUBSET Fields, writes : SUBSET Fields,
                            deps : Seq(Nat \ {0})]
  /\ MaxOps \in Nat

VARIABLES registry,      \* SimOperatorRegistry.records
          pc,            \* "idle", or the phase of the running resolve call
          i,             \* operator the scan or the seeding looks at next
          last_writer,   \* field -> last operator seen writing it, 0 if none
          readers,       \* field -> operators seen reading it since then
          edges,         \* explicit and hazard edges found so far
          indegree,      \* operator -> edges into it not yet relaxed
          queue,         \* Kahn's queue, popped entries included
          queue_head,    \* number of popped entries
          todo,          \* edges of the popped operator still to relax
          plan,          \* SimOperatorPlan.order
          result         \* outcome of the last resolve call, "none" if stale

scanVars == <<i, last_writer, readers, edges>>
sortVars == <<queue, queue_head, todo>>
vars == <<registry, pc, scanVars, indegree, sortVars, plan, result>>

Ops == 1 .. Len(registry)
NoWriter == 0            \* (size_t)(-1) in last_writer

-------------------------------------------------------------------------------
Init == /\ registry = << >>
        /\ pc = "idle"
        /\ i = 1
        /\ last_writer = [f \in Fields |-> NoWriter]
        /\ readers = [f \in Fields |-> {}]
        /\ edges = {}
        /\ indegree = << >>
        /\ queue = << >>
        /\ queue_head = 0
        /\ todo = {}
        /\ plan = << >>
        /\ result = "none"

\* A failed registration (a bad descriptor, no memory) leaves count as it was.
Register(d) == /\ pc = "idle"
               /\ Len(registry) < MaxOps
               /\ registry' = Append(registry, d)
               /\ result' = "none"
               /\ UNCHANGED <<pc, scanVars, indegree, sortVars, plan>>

\* The cleanup label: the scratch arrays are freed.
Leave(res, order) == /\ pc' = "idle"
                     /\ i' = 1
                     /\ last_writer' = [f \in Fields |-> NoWriter]
                     /\ readers' = [f \in Fields |-> {}]
                     /\ edges' = {}
                     /\ indegree' = << >>
                     /\ queue' = << >>
                     /\ queue_head' = 0
                     /\ todo' = {}
                     /\ plan' = order
                     /\ result' = res
                     /\ UNCHANGED registry

\* plan_reset, plan_allocate and the zeroed scratch arrays.
ResolveStart == /\ pc = "idle"
                /\ pc' = "scan"
                /\ indegree' = [j \in Ops |-> 0]
                /\ plan' = << >>
                /\ result' = "none"
                /\ UNCHANGED <<registry, scanVars, sortVars>>

\* The readers of field f once operator i's reads have been visited.
ReadersSeen(f) ==
  IF f \in registry[i].reads THEN readers[f] \cup {i} ELSE readers[f]

\* Operators that the scan of operator i hands to sim_resolve_add_hazard: the
\* last writer of each field i touches, and the readers of each field it writes.
HazardCandidates ==
  { last_writer[f] : f \in registry[i].reads \cup registry[i].writes }
  \cup UNION { ReadersSeen(f) : f \in registry[i].writes }

\* Mutants: a reader is forgotten by the next write; last_writer is; an operator
\* that reads and writes a field waits for itself.
NoReaderHazards ==
  { u \in { last_writer[f] : f \in registry[i].reads \cup registry[i].writes } :
      u # NoWriter /\ ~DependsOn(registry, i, u) }
NoWriterHazards ==
  { u \in UNION { ReadersSeen(f) : f \in registry[i].writes } :
      u # i /\ ~DependsOn(registry, i, u) }
SelfHazards ==
  { u \in HazardCandidates : u # NoWriter /\ ~DependsOn(registry, i, u) }

\* Sources of the hazard edges into i: sim_resolve_add_hazard drops "none", i
\* itself and an explicit dependency of i, and adds an edge once.
HazardSources ==
  { u \in HazardCandidates :
      u # NoWriter /\ u # i /\ ~DependsOn(registry, i, u) }

NewEdges == { <<registry[i].deps[k], i, k>> : k \in DOMAIN registry[i].deps }
            \cup { <<u, i, 0>> : u \in HazardSources }

\* indegree[i] is counted up once per edge into i.
InDegree == Cardinality(NewEdges)

DependenciesInRange ==
  \A k \in DOMAIN registry[i].deps : registry[i].deps[k] <= Len(registry)

ScanOperator ==
  /\ pc = "scan"
  /\ i \in Ops
  /\ DependenciesInRange
  /\ edges' = edges \cup NewEdges
  /\ indegree' = [indegree EXCEPT ![i] = InDegree]
  /\ readers' = [f \in Fields |->
                   IF f \in registry[i].writes THEN {} ELSE ReadersSeen(f)]
  /\ last_writer' = [f \in Fields |->
                       IF f \in registry[i].writes THEN i ELSE last_writer[f]]
  /\ i' = i + 1
  /\ UNCHANGED <<registry, pc, sortVars, plan, result>>

\* dep >= n while operator i is scanned.
DependencyOutOfRange ==
  /\ pc = "scan"
  /\ i \in Ops
  /\ ~DependenciesInRange
  /\ Leave("INVALID_ARGUMENT", << >>)

\* Any calloc or realloc of the resolve call fails; the last ones are those of
\* the adjacency arrays and the queue, before the seeding.  An empty registry
\* allocates nothing.
AllocationFails == /\ pc = "scan"
                   /\ registry # << >>
                   /\ Leave("OUT_OF_MEMORY", << >>)

BeginSeed == /\ pc = "scan"
             /\ i \notin Ops
             /\ pc' = "seed"
             /\ i' = 1
             /\ UNCHANGED <<registry, last_writer, readers, edges, indegree,
                            sortVars, plan, result>>

SeedQueue == /\ pc = "seed"
             /\ i \in Ops
             /\ queue' = IF indegree[i] = 0 THEN Append(queue, i) ELSE queue
             /\ i' = i + 1
             /\ UNCHANGED <<registry, pc, last_writer, readers, edges, indegree,
                            queue_head, todo, plan, result>>

BeginSort == /\ pc = "seed"
             /\ i \notin Ops
             /\ pc' = "sort"
             /\ UNCHANGED <<registry, scanVars, indegree, sortVars, plan, result>>

\* Mutant: queue_head is not advanced.
PopInPlace == /\ pc = "sort"
              /\ todo = {}
              /\ queue_head < Len(queue)
              /\ todo' = { e \in edges : e[1] = queue[queue_head + 1] }
              /\ UNCHANGED <<registry, pc, scanVars, indegree, queue, queue_head,
                             plan, result>>

PopQueue == /\ pc = "sort"
            /\ todo = {}
            /\ queue_head < Len(queue)
            /\ queue_head' = queue_head + 1
            /\ todo' = { e \in edges : e[1] = queue[queue_head + 1] }
            /\ UNCHANGED <<registry, pc, scanVars, indegree, queue, plan, result>>

\* The position of two edges in an adjacency list: the explicit dependencies by
\* target and list position, then the hazards by target.
EarlierInAdjacency(e, g) ==
  \/ e[3] > 0 /\ g[3] = 0
  \/ /\ e[3] > 0 <=> g[3] > 0
     /\ e[2] < g[2] \/ (e[2] = g[2] /\ e[3] < g[3])

\* indegree[neighbor] after one pass of the relaxation loop, which skips a
\* neighbor that is at zero already.
Relaxed(v) == IF indegree[v] = 0 THEN 0 ELSE indegree[v] - 1

RelaxEdge ==
  /\ pc = "sort"
  /\ \E e \in todo :
       /\ \A g \in todo \ {e} : EarlierInAdjacency(e, g)
       /\ todo' = todo \ {e}
       /\ indegree' = [indegree EXCEPT ![e[2]] = Relaxed(e[2])]
       /\ queue' = IF indegree[e[2]] = 1 THEN Append(queue, e[2]) ELSE queue
  /\ UNCHANGED <<registry, pc, scanVars, queue_head, plan, result>>

AllOrdered == queue_head = Len(registry)

Finish == /\ pc = "sort"
          /\ todo = {}
          /\ queue_head = Len(queue)
          /\ IF AllOrdered
               THEN Leave("OK", queue)
               ELSE Leave("DEPENDENCY_ERROR", << >>)

ResolveStep == \/ ScanOperator \/ DependencyOutOfRange \/ AllocationFails
               \/ BeginSeed \/ SeedQueue \/ BeginSort
               \/ PopQueue \/ RelaxEdge \/ Finish

Next == (\E d \in Descriptors : Register(d)) \/ ResolveStart \/ ResolveStep

\* The resolve call is a sequential function: once called it keeps running.
Spec == Init /\ [][Next]_vars /\ WF_vars(ResolveStep)

-------------------------------------------------------------------------------
Results == {"none", "OK", "INVALID_ARGUMENT", "OUT_OF_MEMORY", "DEPENDENCY_ERROR"}

\* Every variable of the registry and of the resolve call holds a value of its
\* kind; an edge, a queue entry and a plan entry always name registered
\* operators.
TypeOK ==
  /\ registry \in Seq(Descriptors)
  /\ pc \in {"idle", "scan", "seed", "sort"}
  /\ i \in 1 .. Len(registry) + 1
  /\ last_writer \in [Fields -> 0 .. Len(registry)]
  /\ readers \in [Fields -> SUBSET Ops]
  /\ edges \subseteq Ops \X Ops \X Nat
  /\ pc # "idle" => indegree \in [Ops -> Nat]
  /\ queue \in Seq(Ops)
  /\ queue_head \in 0 .. Len(queue)
  /\ todo \subseteq edges
  /\ plan \in Seq(Ops)
  /\ result \in Results

\* A plan runs every operator that was registered when it was made, each once:
\* neither the deduplication of hazards nor a duplicated dependency loses or
\* repeats an operator (the queue and plan->order have room for n entries).
PlanIsPermutation ==
  /\ \A x, y \in DOMAIN plan : plan[x] = plan[y] => x = y
  /\ \A v \in 1 .. Len(plan) : \E x \in DOMAIN plan : plan[x] = v
  /\ result = "OK" => Len(plan) = Len(registry)
  /\ Len(queue) <= Len(registry)

\* A plan runs an operator after every operator its descriptor depends on.
PlanHonoursDependencies ==
  \A x, y \in DOMAIN plan : DependsOn(registry, plan[y], plan[x]) => x < y

\* Two operators of which one writes a field the other touches run in the order
\* they were registered in: the last_writer/readers scan of resolve_plan records
\* only the nearest conflicts, and their transitive closure covers all.
PlanKeepsConflictOrder ==
  \A x, y \in DOMAIN plan :
    plan[x] < plan[y] /\ Conflict(registry, plan[x], plan[y]) => x < y

\* resolve_plan refuses only what it must: an order that meets every constraint
\* does not exist when it reports a cycle, and a dependency is out of range when
\* it reports an invalid argument.  No error leaves a partial plan behind.
RefusalIsJustified ==
  /\ result = "DEPENDENCY_ERROR" => ValidPlans(registry) = {}
  /\ result = "INVALID_ARGUMENT" => DanglingDependency(registry)
  /\ result \notin {"OK", "none"} => plan = << >>

\* The promise of PlanAbstract is kept by the scan and the sort.
Abs == INSTANCE PlanAbstract WITH resolving <- (pc # "idle")
ImplementsPlanAbstract == Abs!Spec

\* Every resolve call returns.
ResolveReturns == pc # "idle" ~> pc = "idle"

-------------------------------------------------------------------------------
(* The inductive invariant.                                                *)

Scanned == IF pc = "scan" THEN 1 .. i - 1 ELSE Ops
Popped == { queue[x] : x \in 1 .. queue_head }
Queued == { queue[x] : x \in DOMAIN queue }

\* The edges into v that the sort has not relaxed.
Pending(v) == { e \in edges : e[2] = v /\ (e[1] \notin Popped \/ e \in todo) }

\* A numbering of the operators that respects every edge found so far.
Respects(pos) == \A e \in edges : pos[e[1]] < pos[e[2]]

\* Between calls the scratch state is as calloc leaves it.
IdleInv ==
  pc = "idle" => /\ i = 1
                 /\ edges = {}
                 /\ last_writer = [f \in Fields |-> NoWriter]
                 /\ readers = [f \in Fields |-> {}]

\* The edges are the explicit dependencies of the scanned operators and, beside
\* them, only orderings of conflicting operators.
EdgeInv ==
  /\ \A e \in edges : e[2] \in Scanned /\ MustPrecede(registry, e[1], e[2])
  /\ pc # "idle" => \A b \in Scanned : \A k \in DOMAIN registry[b].deps :
                      <<registry[b].deps[k], b, k>> \in edges

\* last_writer and readers name scanned operators that do write or read.
FieldInv ==
  pc # "idle" => \A f \in Fields :
    /\ last_writer[f] # NoWriter => /\ last_writer[f] \in Scanned
                                    /\ f \in registry[last_writer[f]].writes
    /\ \A u \in readers[f] : u \in Scanned /\ f \in registry[u].reads

\* In a numbering that respects the edges, operator a is at or before the last
\* writer of f.
AtOrBeforeWriter(pos, a, f) ==
  last_writer[f] # NoWriter /\ pos[a] <= pos[last_writer[f]]

\* Any numbering that respects the edges puts a scanned writer of a field at or
\* before the last writer, a scanned reader too unless readers still holds it,
\* and conflicting scanned operators in registration order.
ConflictInv ==
  pc # "idle" => \A pos \in [Ops -> Ops] : Respects(pos) =>
    /\ \A a \in Scanned : \A f \in registry[a].writes : AtOrBeforeWriter(pos, a, f)
    /\ \A a \in Scanned : \A f \in registry[a].reads :
         a \in readers[f] \/ AtOrBeforeWriter(pos, a, f)
    /\ \A a, b \in Scanned :
         a < b /\ Conflict(registry, a, b) => pos[a] < pos[b]

ScanInv == IdleInv /\ EdgeInv /\ FieldInv /\ ConflictInv

\* The degrees count the pending edges.
DegreeInv ==
  pc # "idle" => /\ IsFiniteSet(edges)
                 /\ \A v \in Ops : indegree[v] = Cardinality(Pending(v))

\* The queue holds, once each, the operators without pending edges (those below
\* i while seeding), and each one after the sources of all its edges.
QueueInv ==
  /\ pc \in {"idle", "scan"} => queue = << >>
  /\ pc # "sort" => queue_head = 0 /\ todo = {}
  /\ \A x, y \in DOMAIN queue : queue[x] = queue[y] => x = y
  /\ pc = "seed" => \A v \in Ops : v \in Queued <=> v < i /\ indegree[v] = 0
  /\ pc = "sort" => \A v \in Ops : v \in Queued <=> indegree[v] = 0
  /\ \A e \in edges, y \in DOMAIN queue :
       queue[y] = e[2] => \E x \in 1 .. queue_head : x < y /\ queue[x] = e[1]
  /\ \A e \in todo : queue_head > 0 /\ e[1] = queue[queue_head]

IInv == TypeOK /\ ScanInv /\ DegreeInv /\ QueueInv

===============================================================================
