-------------------------- MODULE OperatorPlanProofs --------------------------
(***************************************************************************)
(* Proofs about the execution planner, for every registry: any number of   *)
(* operators and fields and any descriptors.                               *)
(***************************************************************************)
EXTENDS OperatorPlan, FiniteSetTheorems, WellFoundedInduction, TLAPS

-------------------------------------------------------------------------------
(* Facts about the edges found by the scan of one operator.                *)

\* A registered operator reads and writes fields and depends on numbers.
LEMMA DescriptorShape ==
  ASSUME TypeOK, NEW v \in Ops
  PROVE  /\ registry[v] \in Descriptors
         /\ registry[v].reads \subseteq Fields
         /\ registry[v].writes \subseteq Fields
         /\ registry[v].deps \in Seq(Nat \ {0})
<1>1. registry[v] \in Descriptors
  BY DEF TypeOK, Ops
<1>2. QED
  BY <1>1, DescriptorsAssumption

\* The hazard edges into i come from registered operators other than i.
LEMMA HazardSourcesAreOps ==
  ASSUME TypeOK, i \in Ops
  PROVE  HazardSources \subseteq Ops \ {i}
<1> SUFFICES ASSUME NEW u \in HazardSources
             PROVE  u \in Ops /\ u # i
  OBVIOUS
<1>1. /\ registry[i].reads \subseteq Fields
      /\ registry[i].writes \subseteq Fields
  BY DescriptorShape
<1>2. u \in HazardCandidates /\ u # NoWriter /\ u # i
  BY DEF HazardSources
<1>3. CASE u \in { last_writer[f] : f \in registry[i].reads \cup registry[i].writes }
  BY <1>1, <1>2, <1>3 DEF TypeOK, NoWriter, Ops
<1>4. CASE u \in UNION { ReadersSeen(f) : f \in registry[i].writes }
  BY <1>1, <1>2, <1>4 DEF TypeOK, ReadersSeen
<1>5. QED
  BY <1>2, <1>3, <1>4 DEF HazardCandidates

\* The scan of i adds finitely many edges, all between registered operators and
\* all into i.
LEMMA NewEdgesShape ==
  ASSUME TypeOK, i \in Ops, DependenciesInRange
  PROVE  /\ NewEdges \subseteq Ops \X Ops \X Nat
         /\ \A e \in NewEdges : e[2] = i
         /\ IsFiniteSet(NewEdges)
<1> DEFINE deps == registry[i].deps
           D == { <<deps[k], i, k>> : k \in DOMAIN deps }
           H == { <<u, i, 0>> : u \in HazardSources }
<1>1. deps \in Seq(Nat \ {0}) /\ \A k \in DOMAIN deps : deps[k] \in Ops
  <2>1. deps \in Seq(Nat \ {0})
    BY DescriptorShape
  <2>2. QED
    BY <2>1 DEF DependenciesInRange, Ops
<1>2. HazardSources \subseteq Ops
  BY HazardSourcesAreOps
<1>3. Len(registry) \in Nat
  BY DEF TypeOK
<1>4. IsFiniteSet(D)
  <2>1. DOMAIN deps = 1 .. Len(deps) /\ Len(deps) \in Nat
    BY <1>1
  <2>2. IsFiniteSet(DOMAIN deps)
    BY <2>1, FS_Interval
  <2>3. [k \in DOMAIN deps |-> <<deps[k], i, k>>] \in Surjection(DOMAIN deps, D)
    BY DEF Surjection
  <2>4. QED
    BY <2>2, <2>3, FS_Surjection
<1>5. IsFiniteSet(H)
  <2>1. IsFiniteSet(Ops)
    BY <1>3, FS_Interval DEF Ops
  <2>2. IsFiniteSet(HazardSources)
    BY <1>2, <2>1, FS_Subset
  <2>3. [u \in HazardSources |-> <<u, i, 0>>] \in Surjection(HazardSources, H)
    BY DEF Surjection
  <2>4. QED
    BY <2>2, <2>3, FS_Surjection
<1>6. NewEdges = D \cup H
  BY DEF NewEdges
<1>7. IsFiniteSet(NewEdges)
  BY <1>4, <1>5, <1>6, FS_Union
<1>8. D \subseteq Ops \X Ops \X Nat /\ H \subseteq Ops \X Ops \X Nat
  BY <1>1, <1>2
<1>9. \A e \in D \cup H : e[2] = i
  OBVIOUS
<1>10. QED
  BY <1>6, <1>7, <1>8, <1>9

-------------------------------------------------------------------------------
(* Type correctness.                                                       *)

LEMMA TypeOKStep ==
  ASSUME TypeOK, [Next]_vars
  PROVE  TypeOK'
<1> Len(registry) \in Nat
  BY DEF TypeOK
<1>1. ASSUME NEW d \in Descriptors, Register(d)
      PROVE  TypeOK'
  <2>1. /\ registry' \in Seq(Descriptors)
        /\ Len(registry') = Len(registry) + 1
    BY <1>1 DEF Register, TypeOK
  <2>2. Ops \subseteq Ops'
    BY <2>1 DEF Ops
  <2>3. QED
    BY <1>1, <2>1, <2>2 DEF Register, TypeOK, Results, scanVars, sortVars, Ops
<1>2. CASE ResolveStart
  BY <1>2 DEF ResolveStart, TypeOK, Results, scanVars, sortVars, Ops
<1>3. CASE ScanOperator
  <2>1. /\ NewEdges \subseteq Ops \X Ops \X Nat
        /\ Cardinality(NewEdges) \in Nat
    BY <1>3, NewEdgesShape, FS_CardinalityType DEF ScanOperator
  <2>2. indegree' \in [Ops -> Nat]
    BY <1>3, <2>1 DEF ScanOperator, TypeOK, InDegree
  <2>3. readers' \in [Fields -> SUBSET Ops]
    BY <1>3 DEF ScanOperator, TypeOK, ReadersSeen
  <2>4. last_writer' \in [Fields -> 0 .. Len(registry)]
    BY <1>3 DEF ScanOperator, TypeOK, Ops
  <2>5. Ops' = Ops /\ registry' = registry
    BY <1>3 DEF ScanOperator, Ops
  <2>6. edges' \subseteq Ops \X Ops \X Nat /\ todo' \subseteq edges'
    BY <1>3, <2>1 DEF ScanOperator, TypeOK, sortVars
  <2>7. i' \in 1 .. Len(registry) + 1
    BY <1>3 DEF ScanOperator, Ops
  <2>8. QED
    BY <1>3, <2>2, <2>3, <2>4, <2>5, <2>6, <2>7
    DEF ScanOperator, TypeOK, Results, sortVars
<1>4. ASSUME NEW res \in Results, NEW order \in Seq(Ops), Leave(res, order)
      PROVE  TypeOK'
  BY <1>4 DEF Leave, TypeOK, Ops, NoWriter
<1>5. << >> \in Seq(Ops) /\ queue \in Seq(Ops)
  BY DEF TypeOK
<1>6. CASE DependencyOutOfRange
  BY <1>4, <1>5, <1>6 DEF DependencyOutOfRange, Results
<1>7. CASE AllocationFails
  BY <1>4, <1>5, <1>7 DEF AllocationFails, Results
<1>8. CASE BeginSeed
  BY <1>8 DEF BeginSeed, TypeOK, Results, sortVars, Ops
<1>9. CASE SeedQueue
  <2>1. queue' \in Seq(Ops) /\ Len(queue) <= Len(queue')
    BY <1>5, <1>9 DEF SeedQueue
  <2>2. i' \in 1 .. Len(registry) + 1
    BY <1>9 DEF SeedQueue, Ops
  <2>3. QED
    BY <1>9, <2>1, <2>2 DEF SeedQueue, TypeOK, Results, Ops
<1>10. CASE BeginSort
  BY <1>10 DEF BeginSort, TypeOK, Results, scanVars, sortVars, Ops
<1>11. CASE PopQueue
  BY <1>11 DEF PopQueue, TypeOK, Results, scanVars, Ops
<1>12. CASE RelaxEdge
  <2>1. PICK e \in todo :
          /\ todo' = todo \ {e}
          /\ indegree' = [indegree EXCEPT ![e[2]] = Relaxed(e[2])]
          /\ queue' = IF indegree[e[2]] = 1 THEN Append(queue, e[2]) ELSE queue
    BY <1>12 DEF RelaxEdge
  <2>2. e[2] \in Ops
    BY DEF TypeOK
  <2>3. indegree' \in [Ops -> Nat]
    BY <1>12, <2>1, <2>2 DEF RelaxEdge, TypeOK, Relaxed
  <2>4. queue' \in Seq(Ops) /\ Len(queue) <= Len(queue')
    BY <2>1, <2>2, <1>5
  <2>5. QED
    BY <1>12, <2>1, <2>3, <2>4 DEF RelaxEdge, TypeOK, Results, scanVars, Ops
<1>13. CASE Finish
  BY <1>4, <1>5, <1>13 DEF Finish, Results
<1>14. CASE UNCHANGED vars
  BY <1>14 DEF vars, scanVars, sortVars, TypeOK, Ops
<1>15. QED
  BY <1>1, <1>2, <1>3, <1>6, <1>7, <1>8, <1>9, <1>10, <1>11, <1>12, <1>13, <1>14
  DEF Next, ResolveStep

\* The arrays of a resolve call hold indices of registered operators throughout,
\* whatever is registered and however the call ends.
THEOREM TypeCorrect == Spec => []TypeOK
<1>1. Init => TypeOK
  BY DEF Init, TypeOK, Results, Ops, NoWriter
<1>2. QED
  BY <1>1, TypeOKStep, PTL DEF Spec

-------------------------------------------------------------------------------
(* The scan.                                                               *)

\* A step that neither scans nor starts nor ends a call keeps the scan's state,
\* and with it what the scan established.
LEMMA ScanInvFrame ==
  ASSUME TypeOK, ScanInv, pc # "idle", pc' # "idle",
         UNCHANGED <<registry, last_writer, readers, edges>>, Scanned' = Scanned
  PROVE  ScanInv'
<1>1. Ops' = Ops
  BY DEF Ops
<1>2. IdleInv'
  BY DEF IdleInv
<1>3. EdgeInv'
  BY DEF ScanInv, EdgeInv
<1>4. FieldInv'
  BY DEF ScanInv, FieldInv
<1>5. ConflictInv'
  BY <1>1 DEF ScanInv, ConflictInv, Respects, AtOrBeforeWriter
<1>6. QED
  BY <1>2, <1>3, <1>4, <1>5 DEF ScanInv

\* A call that returns leaves nothing of the scan behind.
LEMMA ScanInvLeave ==
  ASSUME NEW res, NEW order, Leave(res, order)
  PROVE  ScanInv'
  BY DEF Leave, ScanInv, IdleInv, EdgeInv, FieldInv, ConflictInv, NoWriter

\* Whatever conflicts with operator i among the operators before it is put before
\* i by the edges that the scan of i leaves.
LEMMA ConflictsOfScanned ==
  ASSUME TypeOK, ScanInv, TypeOK', ScanOperator,
         NEW pos \in [Ops -> Ops], Respects(pos)',
         NEW a \in 1 .. i - 1, NEW f,
         \/ f \in registry[a].writes /\ f \in registry[i].reads \cup registry[i].writes
         \/ f \in registry[a].reads /\ f \in registry[i].writes
  PROVE  pos[a] < pos[i]
<1>1. /\ pc = "scan" /\ i \in Ops /\ Scanned = 1 .. i - 1 /\ Scanned \subseteq Ops
      /\ Len(registry) \in Nat
  <2>1. pc = "scan" /\ i \in Ops
    BY DEF ScanOperator
  <2>2. Len(registry) \in Nat
    BY DEF TypeOK
  <2>3. QED
    BY <2>1, <2>2 DEF Scanned, Ops
<1>2. a \in Ops /\ f \in Fields
  <2>1. a \in Ops
    BY <1>1
  <2>2. QED
    BY <1>1, <2>1, DescriptorShape
<1>3. edges' = edges \cup NewEdges /\ Respects(pos)
  BY DEF ScanOperator, Respects
<1>4. ASSUME NEW u \in HazardCandidates, u # NoWriter, u # i
      PROVE  pos[u] < pos[i]
  <2>1. CASE DependsOn(registry, i, u)
    <3>1. PICK k \in DOMAIN registry[i].deps : registry[i].deps[k] = u
      BY <2>1 DEF DependsOn
    <3>2. <<u, i, k>> \in edges'
      BY <1>3, <3>1 DEF NewEdges
    <3>3. QED
      BY <3>2 DEF Respects
  <2>2. CASE ~DependsOn(registry, i, u)
    <3>1. <<u, i, 0>> \in edges'
      BY <1>3, <1>4, <2>2 DEF NewEdges, HazardSources
    <3>2. QED
      BY <3>1 DEF Respects
  <2>3. QED
    BY <2>1, <2>2
<1>5. ASSUME AtOrBeforeWriter(pos, a, f),
             f \in registry[i].reads \cup registry[i].writes
      PROVE  pos[a] < pos[i]
  <2>1. last_writer[f] # NoWriter /\ pos[a] <= pos[last_writer[f]]
    BY <1>5 DEF AtOrBeforeWriter
  <2>2. last_writer[f] \in 1 .. i - 1
    BY <1>1, <1>2, <2>1 DEF ScanInv, FieldInv
  <2>3. last_writer[f] \in HazardCandidates /\ last_writer[f] # i
    BY <1>1, <1>5, <2>2 DEF HazardCandidates
  <2>4. pos[last_writer[f]] < pos[i]
    BY <1>4, <2>1, <2>3
  <2>5. pos[a] \in Nat /\ pos[i] \in Nat /\ pos[last_writer[f]] \in Nat
    BY <1>1, <1>2, <2>2 DEF Ops
  <2>6. QED
    BY <2>1, <2>4, <2>5
<1>6. CASE f \in registry[a].writes /\ f \in registry[i].reads \cup registry[i].writes
  <2>1. AtOrBeforeWriter(pos, a, f)
    BY <1>1, <1>3, <1>6 DEF ScanInv, ConflictInv
  <2>2. QED
    BY <1>5, <1>6, <2>1
<1>7. CASE f \in registry[a].reads /\ f \in registry[i].writes
  <2>1. a \in readers[f] \/ AtOrBeforeWriter(pos, a, f)
    BY <1>1, <1>3, <1>7 DEF ScanInv, ConflictInv
  <2>2. CASE a \in readers[f]
    <3>1. a \in HazardCandidates
      BY <1>7, <2>2 DEF HazardCandidates, ReadersSeen
    <3>2. a # NoWriter /\ a # i
      BY <1>1 DEF NoWriter, Ops
    <3>3. QED
      BY <1>4, <3>1, <3>2
  <2>3. QED
    BY <1>5, <1>7, <2>1, <2>2
<1>8. QED
  BY <1>6, <1>7

\* Scanning operator i extends the scan's invariant to it.
LEMMA ScanInvScan ==
  ASSUME TypeOK, ScanInv, TypeOK', ScanOperator
  PROVE  ScanInv'
<1>1. /\ pc = "scan" /\ pc' = "scan" /\ i \in Ops /\ Len(registry) \in Nat
      /\ Scanned = 1 .. i - 1 /\ Scanned' = 1 .. i
      /\ registry' = registry /\ Ops' = Ops
      /\ edges' = edges \cup NewEdges
  BY DEF ScanOperator, Scanned, Ops, TypeOK
<1>2. /\ \A f \in Fields : last_writer'[f] =
           IF f \in registry[i].writes THEN i ELSE last_writer[f]
      /\ \A f \in Fields : readers'[f] =
           IF f \in registry[i].writes THEN {} ELSE ReadersSeen(f)
  BY DEF ScanOperator
<1>3. \A v \in Ops : registry[v].reads \subseteq Fields /\ registry[v].writes \subseteq Fields
  BY DescriptorShape
<1>4. IdleInv'
  BY <1>1 DEF IdleInv
<1>5. EdgeInv'
  <2>1. ASSUME NEW u \in HazardSources
        PROVE  MustPrecede(registry, u, i)
    <3>1. u \in HazardCandidates /\ u # NoWriter /\ u # i
      BY DEF HazardSources
    <3>2. CASE \E f \in registry[i].reads \cup registry[i].writes : u = last_writer[f]
      <4>1. PICK f \in registry[i].reads \cup registry[i].writes : u = last_writer[f]
        BY <3>2
      <4>2. u \in 1 .. i - 1 /\ f \in registry[u].writes
        BY <1>1, <1>3, <3>1, <4>1 DEF ScanInv, FieldInv
      <4>3. QED
        BY <1>1, <4>1, <4>2 DEF MustPrecede, Conflict, Ops
    <3>3. CASE \E f \in registry[i].writes : u \in ReadersSeen(f)
      <4>1. PICK f \in registry[i].writes : u \in ReadersSeen(f)
        BY <3>3
      <4>2. u \in 1 .. i - 1 /\ f \in registry[u].reads
        BY <1>1, <1>3, <3>1, <4>1 DEF ScanInv, FieldInv, ReadersSeen
      <4>3. QED
        BY <1>1, <4>1, <4>2 DEF MustPrecede, Conflict, Ops
    <3>4. QED
      BY <3>1, <3>2, <3>3 DEF HazardCandidates
  <2>2. \A e \in NewEdges : e[2] = i /\ MustPrecede(registry, e[1], i)
    BY <2>1 DEF NewEdges, MustPrecede, DependsOn
  <2>3. \A e \in edges' : e[2] \in Scanned' /\ MustPrecede(registry, e[1], e[2])
    BY <1>1, <2>2 DEF ScanInv, EdgeInv, Ops
  <2>4. \A b \in Scanned' : \A k \in DOMAIN registry[b].deps :
          <<registry[b].deps[k], b, k>> \in edges'
    <3> SUFFICES ASSUME NEW b \in 1 .. i, NEW k \in DOMAIN registry[b].deps
                 PROVE  <<registry[b].deps[k], b, k>> \in edges'
      BY <1>1
    <3>1. CASE b = i
      BY <1>1, <3>1 DEF NewEdges
    <3>2. CASE b # i
      <4>1. b \in Scanned
        BY <1>1, <3>2 DEF Ops
      <4>2. QED
        BY <1>1, <4>1 DEF ScanInv, EdgeInv
    <3>3. QED
      BY <3>1, <3>2
  <2>5. QED
    BY <1>1, <2>3, <2>4 DEF EdgeInv
<1>6. FieldInv'
  <2> SUFFICES ASSUME NEW f \in Fields
               PROVE  /\ last_writer'[f] # NoWriter =>
                           /\ last_writer'[f] \in Scanned'
                           /\ f \in registry[last_writer'[f]].writes
                      /\ \A u \in readers'[f] :
                           u \in Scanned' /\ f \in registry[u].reads
    BY <1>1 DEF FieldInv, NoWriter
  <2>1. i \in Scanned' /\ Scanned \subseteq Scanned'
    BY <1>1 DEF Ops
  <2>2. /\ last_writer[f] # NoWriter => /\ last_writer[f] \in Scanned
                                        /\ f \in registry[last_writer[f]].writes
        /\ \A u \in readers[f] : u \in Scanned /\ f \in registry[u].reads
    BY <1>1 DEF ScanInv, FieldInv
  <2>3. CASE f \in registry[i].writes
    BY <1>2, <2>1, <2>3
  <2>4. CASE f \notin registry[i].writes
    BY <1>2, <2>1, <2>2, <2>4 DEF ReadersSeen
  <2>5. QED
    BY <2>3, <2>4
<1>7. ConflictInv'
  <2> SUFFICES ASSUME NEW pos \in [Ops -> Ops], Respects(pos)'
               PROVE  /\ \A a \in Scanned' : \A f \in registry[a].writes :
                           AtOrBeforeWriter(pos, a, f)'
                      /\ \A a \in Scanned' : \A f \in registry[a].reads :
                           a \in readers'[f] \/ AtOrBeforeWriter(pos, a, f)'
                      /\ \A a, b \in Scanned' :
                           a < b /\ Conflict(registry, a, b) => pos[a] < pos[b]
    BY <1>1 DEF ConflictInv
  <2>1. Respects(pos)
    BY <1>1 DEF Respects
  <2>2. Scanned' = Scanned \cup {i} /\ Scanned \subseteq Ops /\ i \notin Scanned
    BY <1>1 DEF Ops
  <2>3. \A a \in Ops : pos[a] \in Nat
    BY DEF Ops
  <2>4. ASSUME NEW a \in Scanned', NEW f \in Fields, f \in registry[i].writes,
               f \in registry[a].reads \cup registry[a].writes
        PROVE  AtOrBeforeWriter(pos, a, f)'
    <3>1. last_writer'[f] = i
      BY <1>2, <2>4
    <3>2. i # NoWriter
      BY <1>1 DEF Ops, NoWriter
    <3>3. pos[a] <= pos[i]
      <4>1. CASE a = i
        BY <1>1, <2>3, <4>1
      <4>2. CASE a \in 1 .. i - 1
        <5>1. pos[a] < pos[i]
          BY <2>4, <4>2, ConflictsOfScanned
        <5>2. QED
          BY <1>1, <2>2, <2>3, <4>2, <5>1
      <4>3. QED
        BY <1>1, <2>2, <4>1, <4>2
    <3>4. QED
      BY <3>1, <3>2, <3>3 DEF AtOrBeforeWriter, NoWriter
  <2>5. ASSUME NEW a \in Scanned', NEW f \in registry[a].writes
        PROVE  AtOrBeforeWriter(pos, a, f)'
    <3>1. f \in Fields
      BY <1>1, <1>3, <2>2
    <3>2. CASE f \in registry[i].writes
      BY <2>4, <3>1, <3>2
    <3>3. CASE f \notin registry[i].writes
      <4>1. a \in Scanned
        BY <2>2, <3>3
      <4>2. AtOrBeforeWriter(pos, a, f)
        BY <1>1, <2>1, <4>1 DEF ScanInv, ConflictInv
      <4>3. last_writer'[f] = last_writer[f]
        BY <1>2, <3>1, <3>3
      <4>4. QED
        BY <4>2, <4>3 DEF AtOrBeforeWriter, NoWriter
    <3>4. QED
      BY <3>2, <3>3
  <2>6. ASSUME NEW a \in Scanned', NEW f \in registry[a].reads
        PROVE  a \in readers'[f] \/ AtOrBeforeWriter(pos, a, f)'
    <3>1. f \in Fields
      BY <1>1, <1>3, <2>2
    <3>2. CASE f \in registry[i].writes
      BY <2>4, <3>1, <3>2
    <3>3. CASE f \notin registry[i].writes
      <4>1. last_writer'[f] = last_writer[f] /\ readers'[f] = ReadersSeen(f)
        BY <1>2, <3>1, <3>3
      <4>2. CASE a = i
        BY <4>1, <4>2 DEF ReadersSeen
      <4>3. CASE a \in Scanned
        <5>1. a \in readers[f] \/ AtOrBeforeWriter(pos, a, f)
          BY <1>1, <2>1, <4>3 DEF ScanInv, ConflictInv
        <5>2. QED
          BY <4>1, <5>1 DEF ReadersSeen, AtOrBeforeWriter, NoWriter
      <4>4. QED
        BY <2>2, <4>2, <4>3
    <3>4. QED
      BY <3>2, <3>3
  <2>7. ASSUME NEW a \in Scanned', NEW b \in Scanned', a < b, Conflict(registry, a, b)
        PROVE  pos[a] < pos[b]
    <3>1. CASE b \in Scanned
      <4>1. a \in Scanned
        BY <1>1, <2>7, <3>1 DEF Ops
      <4>2. QED
        BY <1>1, <2>1, <2>7, <3>1, <4>1 DEF ScanInv, ConflictInv
    <3>2. CASE b = i
      <4>1. a \in 1 .. i - 1
        BY <1>1, <2>7, <3>2 DEF Ops
      <4>2. QED
        BY <2>7, <3>2, <4>1, ConflictsOfScanned DEF Conflict
    <3>3. QED
      BY <2>2, <3>1, <3>2
  <2>8. QED
    BY <2>5, <2>6, <2>7
<1>8. QED
  BY <1>4, <1>5, <1>6, <1>7 DEF ScanInv

LEMMA ScanInvStep ==
  ASSUME TypeOK, ScanInv, QueueInv, TypeOK', [Next]_vars
  PROVE  ScanInv'
<1> Len(registry) \in Nat
  BY DEF TypeOK
<1>1. ASSUME NEW d \in Descriptors, Register(d)
      PROVE  ScanInv'
  BY <1>1 DEF Register, scanVars, ScanInv, IdleInv, EdgeInv, FieldInv, ConflictInv, NoWriter
<1>2. CASE ResolveStart
  <2>1. pc' = "scan" /\ i' = 1 /\ edges' = {} /\ Scanned' = {}
    BY <1>2 DEF ResolveStart, scanVars, ScanInv, IdleInv, Scanned
  <2>2. \A f \in Fields : last_writer'[f] = NoWriter /\ readers'[f] = {}
    BY <1>2 DEF ResolveStart, scanVars, ScanInv, IdleInv
  <2>3. QED
    BY <2>1, <2>2 DEF ScanInv, IdleInv, EdgeInv, FieldInv, ConflictInv, NoWriter
<1>3. CASE ScanOperator
  BY <1>3, ScanInvScan
<1>4. CASE DependencyOutOfRange
  BY <1>4, ScanInvLeave DEF DependencyOutOfRange
<1>5. CASE AllocationFails
  BY <1>5, ScanInvLeave DEF AllocationFails
<1>6. CASE BeginSeed
  <2>1. Scanned' = Ops /\ Scanned = Ops
    BY <1>6 DEF BeginSeed, Scanned, TypeOK, Ops
  <2>2. QED
    BY <1>6, <2>1, ScanInvFrame DEF BeginSeed
<1>7. CASE SeedQueue
  <2>1. Scanned' = Scanned
    BY <1>7 DEF SeedQueue, Scanned, Ops
  <2>2. QED
    BY <1>7, <2>1, ScanInvFrame DEF SeedQueue
<1>8. CASE BeginSort
  <2>1. Scanned' = Scanned
    BY <1>8 DEF BeginSort, Scanned, Ops
  <2>2. QED
    BY <1>8, <2>1, ScanInvFrame DEF BeginSort, scanVars
<1>9. CASE PopQueue
  <2>1. Scanned' = Scanned
    BY <1>9 DEF PopQueue, Scanned, Ops
  <2>2. QED
    BY <1>9, <2>1, ScanInvFrame DEF PopQueue, scanVars
<1>10. CASE RelaxEdge
  <2>1. Scanned' = Scanned
    BY <1>10 DEF RelaxEdge, Scanned, Ops
  <2>2. QED
    BY <1>10, <2>1, ScanInvFrame DEF RelaxEdge, scanVars
<1>11. CASE Finish
  BY <1>11, ScanInvLeave DEF Finish
<1>12. CASE UNCHANGED vars
  <2>1. Scanned' = Scanned /\ Ops' = Ops
    BY <1>12 DEF vars, scanVars, Scanned, Ops
  <2>2. QED
    BY <1>12, <2>1 DEF vars, scanVars, ScanInv, IdleInv, EdgeInv, FieldInv, ConflictInv,
                       Respects, AtOrBeforeWriter, NoWriter
<1>13. QED
  BY <1>1, <1>2, <1>3, <1>4, <1>5, <1>6, <1>7, <1>8, <1>9, <1>10, <1>11, <1>12
  DEF Next, ResolveStep

-------------------------------------------------------------------------------
(* The degrees.                                                            *)

\* Nothing has been relaxed before the sort: all edges into v are pending.
LEMMA PendingBeforeSort ==
  ASSUME TypeOK, QueueInv, pc # "sort", NEW v
  PROVE  Pending(v) = { e \in edges : e[2] = v }
<1>1. queue_head = 0
  BY DEF QueueInv
<1>2. Popped = {}
  BY <1>1 DEF Popped
<1>3. QED
  BY <1>2 DEF Pending

LEMMA DegreeInvFrame ==
  ASSUME DegreeInv, pc # "idle", UNCHANGED <<registry, edges, indegree>>,
         \A v \in Ops : Pending(v)' = Pending(v)
  PROVE  DegreeInv'
<1>1. Ops' = Ops
  BY DEF Ops
<1>2. QED
  BY <1>1 DEF DegreeInv

\* indegree[v] stays the number of pending edges into v.
LEMMA DegreeInvStep ==
  ASSUME IInv, TypeOK', QueueInv', [Next]_vars
  PROVE  DegreeInv'
<1> USE DEF IInv
<1> Len(registry) \in Nat
  BY DEF TypeOK
<1>0. ASSUME NEW res, NEW order, Leave(res, order)
      PROVE  DegreeInv'
  BY <1>0 DEF Leave, DegreeInv
<1>1. ASSUME NEW d \in Descriptors, Register(d)
      PROVE  DegreeInv'
  BY <1>1 DEF Register, DegreeInv
<1>2. CASE ResolveStart
  <2>1. edges' = {} /\ Ops' = Ops
    BY <1>2 DEF ResolveStart, scanVars, ScanInv, IdleInv, Ops
  <2>2. \A v : Pending(v)' = {}
    BY <2>1 DEF Pending
  <2>3. \A v \in Ops : indegree'[v] = 0
    BY <1>2 DEF ResolveStart
  <2>4. QED
    BY <2>1, <2>2, <2>3, FS_EmptySet DEF DegreeInv
<1>3. CASE ScanOperator
  <2>1. /\ pc = "scan" /\ pc' = "scan" /\ i \in Ops /\ Ops' = Ops
        /\ edges' = edges \cup NewEdges
        /\ indegree' = [indegree EXCEPT ![i] = Cardinality(NewEdges)]
        /\ indegree \in [Ops -> Nat]
    BY <1>3 DEF ScanOperator, Ops, InDegree, TypeOK
  <2>2. (\A e \in NewEdges : e[2] = i) /\ IsFiniteSet(NewEdges)
    BY <1>3, <2>1, NewEdgesShape DEF ScanOperator
  <2>3. IsFiniteSet(edges')
    BY <2>1, <2>2, FS_Union DEF DegreeInv
  <2>4. \A e \in edges : e[2] # i
    BY <2>1 DEF ScanInv, EdgeInv, Scanned, Ops
  <2>5. ASSUME NEW v \in Ops
        PROVE  indegree'[v] = Cardinality(Pending(v)')
    <3>1. Pending(v)' = { e \in edges' : e[2] = v }
      BY <2>1, PendingBeforeSort DEF Pending, Popped, QueueInv
    <3>2. CASE v = i
      <4>1. Pending(v)' = NewEdges
        BY <2>1, <2>2, <2>4, <3>1, <3>2
      <4>2. QED
        BY <2>1, <3>2, <4>1
    <3>3. CASE v # i
      <4>1. Pending(v)' = Pending(v)
        BY <2>1, <2>2, <3>1, <3>3, PendingBeforeSort
      <4>2. QED
        BY <2>1, <3>3, <4>1 DEF DegreeInv
    <3>4. QED
      BY <3>2, <3>3
  <2>6. QED
    BY <2>1, <2>3, <2>5 DEF DegreeInv
<1>4. CASE BeginSeed
  <2>1. \A v : Pending(v)' = Pending(v)
    BY <1>4 DEF BeginSeed, sortVars, Pending, Popped
  <2>2. QED
    BY <1>4, <2>1, DegreeInvFrame DEF BeginSeed
<1>5. CASE SeedQueue
  <2>1. queue_head = 0 /\ queue_head' = 0
    BY <1>5 DEF SeedQueue, QueueInv
  <2>2. \A v : Pending(v)' = Pending(v)
    BY <1>5, <2>1 DEF SeedQueue, Pending, Popped
  <2>3. QED
    BY <1>5, <2>2, DegreeInvFrame DEF SeedQueue
<1>6. CASE BeginSort
  <2>1. \A v : Pending(v)' = Pending(v)
    BY <1>6 DEF BeginSort, sortVars, scanVars, Pending, Popped
  <2>2. QED
    BY <1>6, <2>1, DegreeInvFrame DEF BeginSort, scanVars
<1>7. CASE PopQueue
  <2> DEFINE u == queue[queue_head + 1]
  <2>1. /\ queue_head \in Nat /\ queue_head + 1 \in DOMAIN queue
        /\ 1 .. queue_head' = 1 .. queue_head \cup {queue_head + 1}
        /\ 1 .. queue_head \subseteq DOMAIN queue
    BY <1>7 DEF PopQueue, TypeOK
  <2>2. Popped' = Popped \cup {u}
    BY <1>7, <2>1 DEF PopQueue, Popped
  <2>3. u \notin Popped
    BY <2>1 DEF Popped, QueueInv
  <2>4. todo = {} /\ todo' = { e \in edges : e[1] = u } /\ edges' = edges
    BY <1>7 DEF PopQueue, scanVars
  <2>5. \A v : Pending(v)' = Pending(v)
    BY <2>2, <2>3, <2>4 DEF Pending
  <2>6. QED
    BY <1>7, <2>5, DegreeInvFrame DEF PopQueue, scanVars
<1>8. CASE RelaxEdge
  <2>1. PICK e \in todo :
          /\ todo' = todo \ {e}
          /\ indegree' = [indegree EXCEPT ![e[2]] = Relaxed(e[2])]
          /\ queue' = IF indegree[e[2]] = 1 THEN Append(queue, e[2]) ELSE queue
    BY <1>8 DEF RelaxEdge
  <2>2. /\ e[2] \in Ops /\ e \in edges /\ Ops' = Ops /\ edges' = edges
        /\ indegree \in [Ops -> Nat] /\ pc = "sort" /\ queue_head' = queue_head
    BY <1>8 DEF RelaxEdge, scanVars, TypeOK, Ops
  <2>3. Popped' = Popped
    <3>0. queue \in Seq(Ops) /\ queue_head \in 0 .. Len(queue)
      BY DEF TypeOK
    <3>1. \A x \in 1 .. queue_head : queue'[x] = queue[x]
      BY <2>1, <2>2, <3>0
    <3>2. QED
      BY <2>2, <3>1 DEF Popped
  <2>4. e[1] \in Popped
    <3>1. queue_head > 0 /\ e[1] = queue[queue_head]
      BY <2>1 DEF QueueInv
    <3>2. queue_head \in Nat
      BY DEF TypeOK
    <3>3. QED
      BY <3>1, <3>2 DEF Popped
  <2>5. \A v \in Ops : IsFiniteSet(Pending(v))
    BY <2>2, FS_Subset DEF Pending, DegreeInv
  <2>6. ASSUME NEW v \in Ops
        PROVE  indegree'[v] = Cardinality(Pending(v)')
    <3>1. CASE v = e[2]
      <4>1. Pending(v)' = Pending(v) \ {e}
        BY <2>1, <2>2, <2>3, <2>4, <3>1 DEF Pending
      <4>2. e \in Pending(v)
        BY <2>1, <2>2, <3>1 DEF Pending
      <4>3. Cardinality(Pending(v)') = Cardinality(Pending(v)) - 1
        BY <2>5, <4>1, <4>2, FS_RemoveElement
      <4>4. Cardinality(Pending(v)) # 0
        BY <2>5, <4>2, FS_EmptySet
      <4>5. indegree[v] = Cardinality(Pending(v))
        BY <2>2 DEF DegreeInv
      <4>6. QED
        BY <2>1, <2>2, <3>1, <4>3, <4>4, <4>5 DEF Relaxed
    <3>2. CASE v # e[2]
      <4>1. Pending(v)' = Pending(v)
        BY <2>1, <2>2, <2>3, <3>2 DEF Pending
      <4>2. QED
        BY <2>1, <2>2, <3>2, <4>1 DEF DegreeInv
    <3>3. QED
      BY <3>1, <3>2
  <2>7. QED
    BY <2>2, <2>6 DEF DegreeInv
<1>9. CASE UNCHANGED vars
  <2>1. Ops' = Ops /\ \A v : Pending(v)' = Pending(v)
    BY <1>9 DEF vars, scanVars, sortVars, Ops, Pending, Popped
  <2>2. QED
    BY <1>9, <2>1 DEF vars, scanVars, sortVars, DegreeInv
<1>10. QED
  BY <1>0, <1>1, <1>2, <1>3, <1>4, <1>5, <1>6, <1>7, <1>8, <1>9
  DEF Next, ResolveStep, DependencyOutOfRange, AllocationFails, Finish

-------------------------------------------------------------------------------
(* The queue.                                                              *)

\* Appending an operator whose edges all come from popped operators, and which is
\* not queued yet, keeps the queue in order.
LEMMA QueueAppend ==
  ASSUME TypeOK, QueueInv, NEW v \in Ops, v \notin Queued,
         \A e \in edges : e[2] = v => e[1] \in Popped,
         queue' = Append(queue, v), queue_head' = queue_head, edges' = edges
  PROVE  /\ Queued' = Queued \cup {v}
         /\ \A x, y \in DOMAIN queue' : queue'[x] = queue'[y] => x = y
         /\ \A e \in edges', y \in DOMAIN queue' :
              queue'[y] = e[2] =>
                \E x \in 1 .. queue_head' : x < y /\ queue'[x] = e[1]
<1>1. /\ queue \in Seq(Ops) /\ Len(queue) \in Nat /\ DOMAIN queue = 1 .. Len(queue)
      /\ queue_head \in 0 .. Len(queue)
  BY DEF TypeOK
<1>2. /\ DOMAIN queue' = 1 .. Len(queue) + 1
      /\ \A x \in DOMAIN queue : queue'[x] = queue[x]
      /\ queue'[Len(queue) + 1] = v
  BY <1>1
<1>3. Queued' = Queued \cup {v}
  <2>1. DOMAIN queue' = DOMAIN queue \cup {Len(queue) + 1}
    BY <1>1, <1>2
  <2>2. QED
    BY <1>2, <2>1 DEF Queued
<1>4. ASSUME NEW x \in DOMAIN queue', NEW y \in DOMAIN queue', queue'[x] = queue'[y]
      PROVE  x = y
  <2>1. \A z \in DOMAIN queue : queue[z] # v
    BY DEF Queued
  <2>2. QED
    BY <1>1, <1>2, <1>4, <2>1 DEF QueueInv
<1>5. ASSUME NEW e \in edges', NEW y \in DOMAIN queue', queue'[y] = e[2]
      PROVE  \E x \in 1 .. queue_head' : x < y /\ queue'[x] = e[1]
  <2>1. CASE y \in DOMAIN queue
    <3>1. PICK x \in 1 .. queue_head : x < y /\ queue[x] = e[1]
      BY <1>2, <1>5, <2>1 DEF QueueInv
    <3>2. QED
      BY <1>1, <1>2, <3>1
  <2>2. CASE y = Len(queue) + 1
    <3>1. PICK x \in 1 .. queue_head : queue[x] = e[1]
      BY <1>2, <1>5, <2>2 DEF Popped
    <3>2. QED
      BY <1>1, <1>2, <2>2, <3>1
  <2>3. QED
    BY <1>1, <1>2, <2>1, <2>2
<1>6. QED
  BY <1>3, <1>4, <1>5

\* The conjuncts of QueueInv that speak of the queue alone, not of the phase.
LEMMA QueueInvFrame ==
  ASSUME QueueInv, queue' = queue, queue_head' = queue_head, edges' = edges
  PROVE  /\ Queued' = Queued
         /\ \A x, y \in DOMAIN queue' : queue'[x] = queue'[y] => x = y
         /\ \A e \in edges', y \in DOMAIN queue' :
              queue'[y] = e[2] =>
                \E x \in 1 .. queue_head' : x < y /\ queue'[x] = e[1]
  BY DEF QueueInv, Queued

\* An operator without pending edges has only popped sources.
LEMMA NoPendingEdges ==
  ASSUME IInv, pc # "idle", NEW v \in Ops, indegree[v] = 0,
         NEW e \in edges, e[2] = v
  PROVE  e[1] \in Popped /\ e \notin todo
<1>1. IsFiniteSet(Pending(v)) /\ Cardinality(Pending(v)) = 0
  BY FS_Subset DEF IInv, DegreeInv, Pending
<1>2. Pending(v) = {}
  BY <1>1, FS_EmptySet
<1>3. QED
  BY <1>2 DEF Pending

\* Seeding and relaxing append each operator once, when its last edge is gone.
LEMMA QueueInvStep ==
  ASSUME IInv, TypeOK', [Next]_vars
  PROVE  QueueInv'
<1> USE DEF IInv
<1> Len(registry) \in Nat
  BY DEF TypeOK
<1>0. ASSUME NEW res, NEW order, Leave(res, order)
      PROVE  QueueInv'
  BY <1>0 DEF Leave, QueueInv
<1>1. ASSUME NEW d \in Descriptors, Register(d)
      PROVE  QueueInv'
  BY <1>1 DEF Register, QueueInv, sortVars, scanVars
<1>2. CASE ResolveStart
  BY <1>2 DEF ResolveStart, QueueInv, sortVars, scanVars
<1>3. CASE ScanOperator
  BY <1>3 DEF ScanOperator, QueueInv, sortVars
<1>4. CASE BeginSeed
  <2>1. queue' = << >> /\ queue_head' = 0 /\ todo' = {} /\ pc' = "seed" /\ i' = 1
    BY <1>4 DEF BeginSeed, QueueInv, sortVars
  <2>2. Queued' = {}
    BY <2>1 DEF Queued
  <2>3. \A v \in Ops' : ~(v < i')
    BY <2>1 DEF Ops
  <2>4. QED
    BY <2>1, <2>2, <2>3 DEF QueueInv
<1>5. CASE SeedQueue
  <2>1. /\ pc = "seed" /\ pc' = "seed" /\ i \in Ops /\ i' = i + 1 /\ Ops' = Ops
        /\ edges' = edges /\ indegree' = indegree /\ indegree \in [Ops -> Nat]
        /\ queue_head = 0 /\ queue_head' = 0 /\ todo = {} /\ todo' = {}
        /\ queue' = IF indegree[i] = 0 THEN Append(queue, i) ELSE queue
    BY <1>5 DEF SeedQueue, QueueInv, TypeOK, Ops
  <2>2. \A v \in Ops : v \in Queued <=> v < i /\ indegree[v] = 0
    BY <2>1 DEF QueueInv
  <2>3. CASE indegree[i] = 0
    <3>1. \A e \in edges : e[2] = i => e[1] \in Popped
      BY <2>1, <2>3, NoPendingEdges
    <3>2. i \notin Queued
      BY <2>1, <2>2 DEF Ops
    <3>3. /\ Queued' = Queued \cup {i}
          /\ \A x, y \in DOMAIN queue' : queue'[x] = queue'[y] => x = y
          /\ \A e \in edges', y \in DOMAIN queue' :
               queue'[y] = e[2] =>
                 \E x \in 1 .. queue_head' : x < y /\ queue'[x] = e[1]
      BY <2>1, <2>3, <3>1, <3>2, QueueAppend
    <3>4. \A v \in Ops : v \in Queued' <=> v < i' /\ indegree'[v] = 0
      BY <2>1, <2>2, <2>3, <3>3 DEF Ops
    <3>5. QED
      BY <2>1, <3>3, <3>4 DEF QueueInv
  <2>4. CASE indegree[i] # 0
    <3>1. /\ Queued' = Queued
          /\ \A x, y \in DOMAIN queue' : queue'[x] = queue'[y] => x = y
          /\ \A e \in edges', y \in DOMAIN queue' :
               queue'[y] = e[2] =>
                 \E x \in 1 .. queue_head' : x < y /\ queue'[x] = e[1]
      BY <2>1, <2>4, QueueInvFrame
    <3>2. \A v \in Ops : v \in Queued' <=> v < i' /\ indegree'[v] = 0
      BY <2>1, <2>2, <2>4, <3>1 DEF Ops
    <3>3. QED
      BY <2>1, <3>1, <3>2 DEF QueueInv
  <2>5. QED
    BY <2>3, <2>4
<1>6. CASE BeginSort
  <2>1. /\ pc = "seed" /\ pc' = "sort" /\ i \notin Ops /\ Ops' = Ops
        /\ todo = {} /\ UNCHANGED <<queue, queue_head, todo, edges, indegree>>
    BY <1>6 DEF BeginSort, sortVars, scanVars, QueueInv, Ops
  <2>2. \A v \in Ops : v < i
    BY <2>1 DEF TypeOK, Ops
  <2>3. \A v \in Ops' : v \in Queued' <=> indegree'[v] = 0
    BY <2>1, <2>2 DEF QueueInv, Queued
  <2>4. QED
    BY <2>1, <2>3, QueueInvFrame DEF QueueInv
<1>7. CASE PopQueue
  <2>1. /\ pc = "sort" /\ pc' = "sort" /\ Ops' = Ops /\ Queued' = Queued
        /\ UNCHANGED <<queue, edges, indegree>>
        /\ queue_head \in Nat /\ queue_head' = queue_head + 1
        /\ todo' = { e \in edges : e[1] = queue[queue_head + 1] }
    BY <1>7 DEF PopQueue, scanVars, TypeOK, Ops, Queued
  <2>2. \A e \in edges', y \in DOMAIN queue' :
          queue'[y] = e[2] => \E x \in 1 .. queue_head' : x < y /\ queue'[x] = e[1]
    BY <2>1 DEF QueueInv
  <2>3. \A e \in todo' : queue_head' > 0 /\ e[1] = queue'[queue_head']
    BY <2>1
  <2>4. QED
    BY <2>1, <2>2, <2>3 DEF QueueInv
<1>8. CASE RelaxEdge
  <2>1. PICK e \in todo :
          /\ todo' = todo \ {e}
          /\ indegree' = [indegree EXCEPT ![e[2]] = Relaxed(e[2])]
          /\ queue' = IF indegree[e[2]] = 1 THEN Append(queue, e[2]) ELSE queue
    BY <1>8 DEF RelaxEdge
  <2>2. /\ e[2] \in Ops /\ e \in edges /\ Ops' = Ops /\ edges' = edges
        /\ indegree \in [Ops -> Nat] /\ pc = "sort" /\ pc' = "sort"
        /\ queue_head' = queue_head
    BY <1>8 DEF RelaxEdge, scanVars, TypeOK, Ops
  <2>3. /\ queue \in Seq(Ops) /\ Len(queue) \in Nat
        /\ queue_head \in 0 .. Len(queue)
    BY DEF TypeOK
  <2>4. \A g \in todo' : queue_head' > 0 /\ g[1] = queue'[queue_head']
    <3> SUFFICES ASSUME NEW g \in todo'
                 PROVE  queue_head' > 0 /\ g[1] = queue'[queue_head']
      OBVIOUS
    <3>1. queue_head > 0 /\ g[1] = queue[queue_head]
      BY <2>1 DEF QueueInv
    <3>2. queue'[queue_head] = queue[queue_head]
      BY <2>1, <2>2, <2>3, <3>1
    <3>3. QED
      BY <2>2, <3>1, <3>2
  <2>5. indegree[e[2]] # 0
    BY <2>1, <2>2, NoPendingEdges
  <2>6. \A v \in Ops : v \in Queued <=> indegree[v] = 0
    BY <2>2 DEF QueueInv
  <2>7. CASE indegree[e[2]] = 1
    <3>1. e[2] \notin Queued
      BY <2>2, <2>5, <2>6
    <3>2. \A g \in edges : g[2] = e[2] => g[1] \in Popped
      <4>1. IsFiniteSet(Pending(e[2])) /\ Cardinality(Pending(e[2])) = 1
        BY <2>2, <2>7, FS_Subset DEF DegreeInv, Pending
      <4>2. e \in Pending(e[2])
        BY <2>1, <2>2 DEF Pending
      <4>3. Pending(e[2]) = {e}
        BY <4>1, <4>2, FS_Singleton
      <4>4. e[1] \in Popped
        <5>1. queue_head > 0 /\ e[1] = queue[queue_head]
          BY <2>1 DEF QueueInv
        <5>2. QED
          BY <2>3, <5>1 DEF Popped
      <4>5. QED
        BY <4>3, <4>4 DEF Pending
    <3>3. /\ Queued' = Queued \cup {e[2]}
          /\ \A x, y \in DOMAIN queue' : queue'[x] = queue'[y] => x = y
          /\ \A g \in edges', y \in DOMAIN queue' :
               queue'[y] = g[2] =>
                 \E x \in 1 .. queue_head' : x < y /\ queue'[x] = g[1]
      BY <2>1, <2>2, <2>7, <3>1, <3>2, QueueAppend
    <3>4. \A v \in Ops : v \in Queued' <=> indegree'[v] = 0
      BY <2>1, <2>2, <2>6, <2>7, <3>3 DEF Relaxed
    <3>5. QED
      BY <2>2, <2>4, <3>3, <3>4 DEF QueueInv
  <2>8. CASE indegree[e[2]] # 1
    <3>1. /\ Queued' = Queued
          /\ \A x, y \in DOMAIN queue' : queue'[x] = queue'[y] => x = y
          /\ \A g \in edges', y \in DOMAIN queue' :
               queue'[y] = g[2] =>
                 \E x \in 1 .. queue_head' : x < y /\ queue'[x] = g[1]
      BY <2>1, <2>2, <2>8, QueueInvFrame
    <3>2. \A v \in Ops : v \in Queued' <=> indegree'[v] = 0
      BY <2>1, <2>2, <2>5, <2>6, <2>8, <3>1 DEF Relaxed
    <3>3. QED
      BY <2>2, <2>4, <3>1, <3>2 DEF QueueInv
  <2>9. QED
    BY <2>7, <2>8
<1>9. CASE UNCHANGED vars
  BY <1>9 DEF vars, scanVars, sortVars, QueueInv, Queued, Ops
<1>10. QED
  BY <1>0, <1>1, <1>2, <1>3, <1>4, <1>5, <1>6, <1>7, <1>8, <1>9
  DEF Next, ResolveStep, DependencyOutOfRange, AllocationFails, Finish

\* The invariant that the theorems below rest on.
THEOREM PlannerInvariant == Spec => []IInv
<1>1. Init => IInv
  <2>1. Init => TypeOK
    BY DEF Init, TypeOK, Results, Ops, NoWriter
  <2>2. Init => ScanInv
    BY DEF Init, ScanInv, IdleInv, EdgeInv, FieldInv, ConflictInv
  <2>3. Init => DegreeInv /\ QueueInv
    BY DEF Init, DegreeInv, QueueInv
  <2>4. QED
    BY <2>1, <2>2, <2>3 DEF IInv
<1>2. IInv /\ [Next]_vars => IInv'
  <2> SUFFICES ASSUME IInv, [Next]_vars
               PROVE  IInv'
    OBVIOUS
  <2>1. TypeOK'
    BY TypeOKStep DEF IInv
  <2>2. QueueInv'
    BY <2>1, QueueInvStep
  <2>3. ScanInv'
    BY <2>1, ScanInvStep DEF IInv
  <2>4. DegreeInv'
    BY <2>1, <2>2, DegreeInvStep
  <2>5. QED
    BY <2>1, <2>2, <2>3, <2>4 DEF IInv
<1>3. QED
  BY <1>1, <1>2, PTL DEF Spec

-------------------------------------------------------------------------------
(* The plan.                                                               *)

\* The queue never outgrows its n entries, and when it fills them it holds every
\* operator.
LEMMA QueueBound ==
  ASSUME TypeOK, QueueInv
  PROVE  /\ Len(queue) <= Len(registry)
         /\ Len(queue) = Len(registry) => \A v \in Ops : \E x \in Ops : queue[x] = v
<1>1. /\ Len(registry) \in Nat /\ Len(queue) \in Nat
      /\ queue \in [1 .. Len(queue) -> Ops]
  BY DEF TypeOK
<1>2. queue \in Injection(1 .. Len(queue), Ops)
  BY <1>1 DEF QueueInv, Injection, IsInjective
<1>3. /\ IsFiniteSet(Ops) /\ Cardinality(Ops) = Len(registry)
      /\ Cardinality(1 .. Len(queue)) = Len(queue)
  <2>1. ASSUME NEW n \in Nat
        PROVE  IsFiniteSet(1 .. n) /\ Cardinality(1 .. n) = n
    BY FS_Interval
  <2>2. QED
    BY <1>1, <2>1 DEF Ops
<1>4. /\ Len(queue) <= Len(registry)
      /\ Len(queue) = Len(registry) => queue \in Surjection(1 .. Len(queue), Ops)
  BY <1>2, <1>3, FS_Injection
<1>5. QED
  BY <1>4 DEF Surjection, Ops

\* A queue that holds every operator meets all constraints of the registry.
LEMMA FullQueueIsPlan ==
  ASSUME IInv, pc = "sort", Len(queue) = Len(registry)
  PROVE  /\ DOMAIN queue = Ops
         /\ \A x, y \in Ops : queue[x] = queue[y] => x = y
         /\ \A v \in Ops : \E x \in Ops : queue[x] = v
         /\ \A x, y \in Ops : DependsOn(registry, queue[y], queue[x]) => x < y
         /\ \A x, y \in Ops :
              queue[x] < queue[y] /\ Conflict(registry, queue[x], queue[y]) => x < y
<1>1. /\ Len(registry) \in Nat /\ DOMAIN queue = Ops /\ Scanned = Ops
      /\ \A x \in Ops : queue[x] \in Ops
      /\ queue_head \in 0 .. Len(registry)
  <2>1. Scanned = Ops
    BY DEF Scanned
  <2>2. queue \in Seq(Ops) /\ Len(registry) \in Nat /\ queue_head \in 0 .. Len(queue)
    BY DEF IInv, TypeOK
  <2>3. QED
    BY <2>1, <2>2 DEF Ops
<1>2. \A x, y \in Ops : queue[x] = queue[y] => x = y
  BY <1>1 DEF IInv, QueueInv
<1>3. \A v \in Ops : \E x \in Ops : queue[x] = v
  BY QueueBound DEF IInv
<1>4. ASSUME NEW e \in edges, NEW x \in Ops, NEW y \in Ops,
             queue[x] = e[1], queue[y] = e[2]
      PROVE  x < y
  <2>1. PICK z \in 1 .. queue_head : z < y /\ queue[z] = e[1]
    BY <1>1, <1>4 DEF IInv, QueueInv
  <2>2. z \in Ops
    BY <1>1, <2>1 DEF Ops
  <2>3. QED
    BY <1>2, <1>4, <2>1, <2>2
<1>5. ASSUME NEW x \in Ops, NEW y \in Ops, DependsOn(registry, queue[y], queue[x])
      PROVE  x < y
  <2>1. PICK k \in DOMAIN registry[queue[y]].deps : registry[queue[y]].deps[k] = queue[x]
    BY <1>5 DEF DependsOn
  <2>2. <<queue[x], queue[y], k>> \in edges
    BY <1>1, <2>1 DEF IInv, ScanInv, EdgeInv
  <2>3. QED
    BY <1>4, <2>2
<1>6. ASSUME NEW x \in Ops, NEW y \in Ops,
             queue[x] < queue[y], Conflict(registry, queue[x], queue[y])
      PROVE  x < y
  <2> DEFINE pos == [v \in Ops |-> CHOOSE z \in Ops : queue[z] = v]
  <2>1. \A v \in Ops : pos[v] \in Ops /\ queue[pos[v]] = v
    BY <1>3
  <2>2. \A z \in Ops : pos[queue[z]] = z
    BY <1>1, <1>2, <2>1
  <2>3. pos \in [Ops -> Ops]
    BY <2>1
  <2>4. Respects(pos)
    <3> SUFFICES ASSUME NEW e \in edges
                 PROVE  pos[e[1]] < pos[e[2]]
      BY DEF Respects
    <3>1. e[1] \in Ops /\ e[2] \in Ops
      BY DEF IInv, TypeOK
    <3>2. QED
      BY <1>4, <2>1, <3>1
  <2>5. pos[queue[x]] < pos[queue[y]]
    <3> HIDE DEF pos
    <3>1. QED
      BY <1>1, <1>6, <2>3, <2>4 DEF IInv, ScanInv, ConflictInv
  <2>6. QED
    BY <2>2, <2>5
<1>7. QED
  BY <1>1, <1>2, <1>3, <1>5, <1>6

\* The three properties of a plan, and the facts about registry and result that
\* they need when the registry grows under a plan that is now stale.
PlanInv == PlanIsPermutation /\ PlanHonoursDependencies /\ PlanKeepsConflictOrder

LEMMA PlanInvStep ==
  ASSUME IInv, PlanInv, IInv', [Next]_vars
  PROVE  PlanInv'
<1>1. /\ Len(registry) \in Nat /\ plan \in Seq(Ops) /\ DOMAIN plan = 1 .. Len(plan)
      /\ Len(plan) \in Nat
  BY DEF IInv, TypeOK
<1>2. (Len(queue) <= Len(registry))'
  <2>1. TypeOK' /\ QueueInv'
    BY DEF IInv
  <2>2. QED
    BY <2>1, QueueBound, PTL
<1>3. ASSUME plan' = << >>, result' # "OK"
      PROVE  PlanInv'
  BY <1>2, <1>3 DEF PlanInv, PlanIsPermutation, PlanHonoursDependencies,
                    PlanKeepsConflictOrder
<1>4. ASSUME UNCHANGED <<plan, result, registry>>
      PROVE  PlanInv'
  BY <1>2, <1>4 DEF PlanInv, PlanIsPermutation, PlanHonoursDependencies,
                    PlanKeepsConflictOrder
<1>5. ASSUME NEW d \in Descriptors, Register(d)
      PROVE  PlanInv'
  <2>1. /\ plan' = plan /\ result' = "none"
        /\ \A v \in Ops : registry'[v] = registry[v]
    BY <1>1, <1>5 DEF Register, IInv, TypeOK, Ops
  <2>2. \A x \in DOMAIN plan : plan[x] \in Ops
    BY <1>1
  <2>3. QED
    BY <1>2, <2>1, <2>2 DEF PlanInv, PlanIsPermutation, PlanHonoursDependencies,
                           PlanKeepsConflictOrder, DependsOn, Conflict
<1>6. CASE Finish
  <2>1. CASE AllOrdered
    <3>1. /\ pc = "sort" /\ Len(queue) = Len(registry)
          /\ plan' = queue /\ registry' = registry /\ result' = "OK"
      BY <1>6, <2>1 DEF Finish, AllOrdered, Leave
    <3>2. QED
      BY <1>1, <1>2, <3>1, FullQueueIsPlan
      DEF PlanInv, PlanIsPermutation, PlanHonoursDependencies, PlanKeepsConflictOrder, Ops
  <2>2. CASE ~AllOrdered
    BY <1>3, <1>6, <2>2 DEF Finish, Leave
  <2>3. QED
    BY <2>1, <2>2
<1>7. CASE ResolveStart
  BY <1>3, <1>7 DEF ResolveStart
<1>8. CASE DependencyOutOfRange \/ AllocationFails
  BY <1>3, <1>8 DEF DependencyOutOfRange, AllocationFails, Leave
<1>9. CASE ScanOperator \/ BeginSeed \/ SeedQueue \/ BeginSort \/ PopQueue \/ RelaxEdge
  BY <1>4, <1>9 DEF ScanOperator, BeginSeed, SeedQueue, BeginSort, PopQueue, RelaxEdge
<1>10. CASE UNCHANGED vars
  BY <1>4, <1>10 DEF vars
<1>11. QED
  BY <1>5, <1>6, <1>7, <1>8, <1>9, <1>10 DEF Next, ResolveStep

LEMMA PlanInvInit == Init => PlanInv
  BY DEF Init, PlanInv, PlanIsPermutation, PlanHonoursDependencies, PlanKeepsConflictOrder

\* A plan holds every operator exactly once, and the queue stays within the n
\* entries that resolve_plan allocates for it, for any registry.
THEOREM PlanPermutes == Spec => []PlanIsPermutation
<1>1. PlanInv => PlanIsPermutation
  BY DEF PlanInv
<1>2. QED
  BY <1>1, PlanInvInit, PlanInvStep, PlannerInvariant, PTL DEF Spec

\* A plan runs an operator after all of its explicit dependencies.
THEOREM PlanRespectsDependencies == Spec => []PlanHonoursDependencies
<1>1. PlanInv => PlanHonoursDependencies
  BY DEF PlanInv
<1>2. QED
  BY <1>1, PlanInvInit, PlanInvStep, PlannerInvariant, PTL DEF Spec

\* Recording only the nearest hazards is enough: a plan keeps every pair of
\* operators that conflict on a field in registration order.
THEOREM PlanRespectsConflicts == Spec => []PlanKeepsConflictOrder
<1>1. PlanInv => PlanKeepsConflictOrder
  BY DEF PlanInv
<1>2. QED
  BY <1>1, PlanInvInit, PlanInvStep, PlannerInvariant, PTL DEF Spec

-------------------------------------------------------------------------------
(* The refusals.                                                           *)

\* An operator that is still outside the queue when the sort runs dry waits for
\* another one that is outside too.
LEMMA StuckOperatorWaits ==
  ASSUME IInv, pc = "sort", todo = {}, queue_head = Len(queue),
         NEW v \in Ops, v \notin Queued
  PROVE  \E u \in Ops : u \notin Queued /\ MustPrecede(registry, u, v)
<1>1. indegree[v] # 0 /\ indegree[v] = Cardinality(Pending(v))
  BY DEF IInv, QueueInv, DegreeInv
<1>2. PICK e \in Pending(v) : TRUE
  BY <1>1, FS_EmptySet
<1>3. e \in edges /\ e[2] = v /\ e[1] \notin Popped
  BY DEF Pending
<1>4. Popped = Queued
  <2>1. DOMAIN queue = 1 .. queue_head
    BY DEF IInv, TypeOK
  <2>2. QED
    BY <2>1 DEF Popped, Queued
<1>5. e[1] \in Ops /\ MustPrecede(registry, e[1], v)
  BY <1>3 DEF IInv, TypeOK, ScanInv, EdgeInv
<1>6. QED
  BY <1>3, <1>4, <1>5

\* Every nonempty set of naturals has a least element.
LEMMA LeastElement ==
  ASSUME NEW T, T \subseteq Nat, T # {}
  PROVE  \E x \in T : \A y \in T : ~(y < x)
<1>1. IsWellFoundedOn(OpToRel(<, Nat), Nat)
  BY NatLessThanWellFounded
<1>2. PICK x \in T : \A y \in T : ~(<<y, x>> \in OpToRel(<, Nat))
  BY <1>1, WFMin
<1>3. QED
  BY <1>2 DEF OpToRel

\* When the sort runs dry before all operators are ordered, no order exists.
LEMMA StuckMeansNoPlan ==
  ASSUME IInv, pc = "sort", todo = {}, queue_head = Len(queue), ~AllOrdered
  PROVE  ValidPlans(registry) = {}
<1> SUFFICES ASSUME NEW p \in ValidPlans(registry)
             PROVE  FALSE
  OBVIOUS
<1>1. /\ Len(registry) \in Nat /\ DOMAIN registry = Ops
      /\ Len(queue) \in Nat /\ DOMAIN queue = 1 .. Len(queue)
      /\ queue \in [1 .. Len(queue) -> Ops]
  BY DEF IInv, TypeOK, Ops
<1>2. /\ p \in [Ops -> Ops]
      /\ \A x, y \in Ops : p[x] = p[y] => x = y
      /\ \A x, y \in Ops : MustPrecede(registry, p[x], p[y]) => x < y
  BY <1>1 DEF ValidPlans
<1>3. IsFiniteSet(Ops) /\ Cardinality(Ops) = Len(registry)
  <2>1. ASSUME NEW n \in Nat
        PROVE  IsFiniteSet(1 .. n) /\ Cardinality(1 .. n) = n
    BY FS_Interval
  <2>2. QED
    BY <1>1, <2>1 DEF Ops
<1>4. \A v \in Ops : \E x \in Ops : p[x] = v
  <2>1. p \in Injection(Ops, Ops)
    BY <1>2 DEF Injection, IsInjective
  <2>2. p \in Surjection(Ops, Ops)
    BY <1>3, <2>1, FS_Injection
  <2>3. QED
    BY <2>2 DEF Surjection
<1>5. \E v \in Ops : v \notin Queued
  <2> SUFFICES ASSUME Ops \subseteq Queued
               PROVE  FALSE
    OBVIOUS
  <2>1. queue \in Surjection(1 .. Len(queue), Ops)
    BY <1>1 DEF Surjection, Queued
  <2>2. Len(registry) <= Len(queue)
    BY <1>1, <1>3, <2>1, FS_SurjCardinalityBound DEF ExistsSurjection
  <2>3. Len(queue) <= Len(registry)
    BY QueueBound DEF IInv
  <2>4. QED
    BY <1>1, <2>2, <2>3 DEF AllOrdered
<1> DEFINE T == { x \in Ops : p[x] \notin Queued }
<1>6. T \subseteq Nat /\ T # {}
  <2>1. PICK v \in Ops : v \notin Queued
    BY <1>5
  <2>2. PICK x \in Ops : p[x] = v
    BY <1>4
  <2>3. x \in T
    BY <2>1, <2>2
  <2>4. QED
    BY <1>1, <2>3 DEF Ops
<1>7. PICK x \in T : \A y \in T : ~(y < x)
  BY <1>6, LeastElement
<1>8. PICK u \in Ops : u \notin Queued /\ MustPrecede(registry, u, p[x])
  BY <1>2, <1>7, StuckOperatorWaits
<1>9. PICK y \in Ops : p[y] = u
  BY <1>4
<1>10. y \in T /\ y < x
  BY <1>2, <1>7, <1>8, <1>9
<1>11. QED
  BY <1>7, <1>10

LEMMA RefusalStep ==
  ASSUME IInv, RefusalIsJustified, [Next]_vars
  PROVE  RefusalIsJustified'
<1>1. ASSUME result' \in {"OK", "none", "OUT_OF_MEMORY"},
             result' = "OUT_OF_MEMORY" => plan' = << >>
      PROVE  RefusalIsJustified'
  BY <1>1 DEF RefusalIsJustified
<1>2. ASSUME NEW d \in Descriptors, Register(d)
      PROVE  RefusalIsJustified'
  BY <1>1, <1>2 DEF Register
<1>3. CASE ResolveStart
  BY <1>1, <1>3 DEF ResolveStart
<1>4. CASE DependencyOutOfRange
  <2>1. /\ i \in Ops /\ ~DependenciesInRange /\ registry' = registry
        /\ plan' = << >> /\ result' = "INVALID_ARGUMENT"
    BY <1>4 DEF DependencyOutOfRange, Leave
  <2>2. PICK k \in DOMAIN registry[i].deps : ~(registry[i].deps[k] <= Len(registry))
    BY <2>1 DEF DependenciesInRange
  <2>3. registry[i].deps[k] \in Nat /\ Len(registry) \in Nat /\ i \in DOMAIN registry
    <3>1. registry[i].deps \in Seq(Nat \ {0})
      BY <2>1, DescriptorShape DEF IInv
    <3>2. QED
      BY <2>1, <2>2, <3>1 DEF IInv, TypeOK, Ops
  <2>4. DanglingDependency(registry)
    BY <2>2, <2>3 DEF DanglingDependency
  <2>5. QED
    BY <2>1, <2>4 DEF RefusalIsJustified
<1>5. CASE AllocationFails
  BY <1>1, <1>5 DEF AllocationFails, Leave
<1>6. CASE Finish
  <2>1. CASE AllOrdered
    BY <1>1, <1>6, <2>1 DEF Finish, Leave
  <2>2. CASE ~AllOrdered
    <3>1. /\ ValidPlans(registry) = {} /\ registry' = registry
          /\ plan' = << >> /\ result' = "DEPENDENCY_ERROR"
      BY <1>6, <2>2, StuckMeansNoPlan DEF Finish, Leave
    <3>2. QED
      BY <3>1 DEF RefusalIsJustified
  <2>3. QED
    BY <2>1, <2>2
<1>7. CASE ScanOperator \/ BeginSeed \/ SeedQueue \/ BeginSort \/ PopQueue \/ RelaxEdge
  BY <1>7 DEF ScanOperator, BeginSeed, SeedQueue, BeginSort, PopQueue, RelaxEdge,
              RefusalIsJustified
<1>8. CASE UNCHANGED vars
  BY <1>8 DEF vars, RefusalIsJustified
<1>9. QED
  BY <1>2, <1>3, <1>4, <1>5, <1>6, <1>7, <1>8 DEF Next, ResolveStep

\* resolve_plan is complete: it reports a cycle only when no order of the
\* operators meets the constraints, and an invalid argument only for a dependency
\* that names no operator.
THEOREM RefusalsAreJustified == Spec => []RefusalIsJustified
<1>1. Init => RefusalIsJustified
  BY DEF Init, RefusalIsJustified
<1>2. QED
  BY <1>1, RefusalStep, PlannerInvariant, PTL DEF Spec

-------------------------------------------------------------------------------
(* Refinement.                                                             *)

\* A full queue is an order that the abstract specification allows.
LEMMA FullQueueIsValid ==
  ASSUME IInv, pc = "sort", Len(queue) = Len(registry)
  PROVE  queue \in ValidPlans(registry) /\ ~DanglingDependency(registry)
<1>1. /\ DOMAIN registry = Ops /\ queue \in [Ops -> Ops] /\ Scanned = Ops
      /\ Len(registry) \in Nat
  <2>1. queue \in Seq(Ops) /\ registry \in Seq(Descriptors)
    BY DEF IInv, TypeOK
  <2>2. QED
    BY <2>1 DEF Ops, Scanned
<1>2. /\ \A x, y \in Ops : queue[x] = queue[y] => x = y
      /\ \A x, y \in Ops : MustPrecede(registry, queue[x], queue[y]) => x < y
  BY FullQueueIsPlan DEF MustPrecede
<1>3. ~DanglingDependency(registry)
  <2> SUFFICES ASSUME NEW b \in Ops, NEW k \in DOMAIN registry[b].deps
               PROVE  ~(registry[b].deps[k] > Len(registry))
    BY <1>1 DEF DanglingDependency
  <2>1. <<registry[b].deps[k], b, k>> \in edges
    BY <1>1 DEF IInv, ScanInv, EdgeInv
  <2>2. registry[b].deps[k] \in Ops
    BY <2>1 DEF IInv, TypeOK
  <2>3. QED
    BY <1>1, <2>2 DEF Ops
<1>4. QED
  BY <1>1, <1>2, <1>3 DEF ValidPlans

\* Every step of the planner is a step of PlanAbstract or leaves its state alone.
LEMMA PlannerStepIsAbstract ==
  ASSUME IInv, IInv', RefusalIsJustified', [Next]_vars
  PROVE  [Abs!Next]_(Abs!vars)
<1> USE DEF Abs!vars
<1>1. ASSUME NEW d \in Descriptors, Register(d)
      PROVE  Abs!Next
  BY <1>1 DEF Register, Abs!Next, Abs!Register
<1>2. CASE ResolveStart
  BY <1>2 DEF ResolveStart, Abs!Next, Abs!Begin
<1>3. CASE DependencyOutOfRange
  <2>1. /\ pc # "idle" /\ pc' = "idle" /\ registry' = registry
        /\ plan' = << >> /\ result' = "INVALID_ARGUMENT"
    BY <1>3 DEF DependencyOutOfRange, Leave
  <2>2. DanglingDependency(registry)
    BY <2>1 DEF RefusalIsJustified
  <2>3. QED
    BY <2>1, <2>2 DEF Abs!Next, Abs!End, Abs!Fail, Abs!DanglingDependency,
                      DanglingDependency
<1>4. CASE AllocationFails
  BY <1>4 DEF AllocationFails, Leave, Abs!Next, Abs!End, Abs!Fail
<1>5. CASE Finish
  <2>1. pc = "sort" /\ pc' = "idle" /\ registry' = registry
    BY <1>5 DEF Finish, Leave
  <2>2. CASE AllOrdered
    <3>1. plan' = queue /\ result' = "OK" /\ Len(queue) = Len(registry)
      BY <1>5, <2>2 DEF Finish, Leave, AllOrdered
    <3>2. plan' \in ValidPlans(registry) /\ ~DanglingDependency(registry)
      BY <2>1, <3>1, FullQueueIsValid
    <3>3. plan' \in Abs!ValidPlans(registry) /\ ~Abs!DanglingDependency(registry)
      BY <3>2 DEF ValidPlans, MustPrecede, DependsOn, Conflict, DanglingDependency,
                  Abs!ValidPlans, Abs!MustPrecede, Abs!DependsOn, Abs!Conflict,
                  Abs!DanglingDependency
    <3>4. QED
      BY <2>1, <3>1, <3>3 DEF Abs!Next, Abs!End, Abs!Succeed
  <2>3. CASE ~AllOrdered
    <3>1. plan' = << >> /\ result' = "DEPENDENCY_ERROR"
      BY <1>5, <2>3 DEF Finish, Leave
    <3>2. ValidPlans(registry) = {}
      BY <2>1, <3>1 DEF RefusalIsJustified
    <3>3. Abs!ValidPlans(registry) = {}
      BY <3>2 DEF ValidPlans, MustPrecede, DependsOn, Conflict,
                  Abs!ValidPlans, Abs!MustPrecede, Abs!DependsOn, Abs!Conflict
    <3>4. QED
      BY <2>1, <3>1, <3>3 DEF Abs!Next, Abs!End, Abs!Fail
  <2>4. QED
    BY <2>2, <2>3
<1>6. CASE ScanOperator \/ BeginSeed \/ SeedQueue \/ BeginSort \/ PopQueue \/ RelaxEdge
  BY <1>6 DEF ScanOperator, BeginSeed, SeedQueue, BeginSort, PopQueue, RelaxEdge
<1>7. CASE UNCHANGED vars
  BY <1>7 DEF vars
<1>8. QED
  BY <1>1, <1>2, <1>3, <1>4, <1>5, <1>6, <1>7 DEF Next, ResolveStep

\* The scan and the sort implement the promise of PlanAbstract: a call ends with
\* an order that meets every constraint, or with an error that is deserved.
THEOREM PlannerRefinesAbstract == Spec => Abs!Init /\ [][Abs!Next]_(Abs!vars)
<1>1. Init => Abs!Init
  BY DEF Init, Abs!Init
<1>2. QED
  BY <1>1, PlannerStepIsAbstract, PlannerInvariant, RefusalsAreJustified, PTL DEF Spec

===============================================================================
