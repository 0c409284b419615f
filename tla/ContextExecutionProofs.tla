------------------------ MODULE ContextExecutionProofs ------------------------
(***************************************************************************)
(* Proofs about ContextExecution, for every set of operators and fields.   *)
(*                                                                         *)
(* IInv ties the phase of the running call to what it may rely on (CallInv)*)
(* and the open snapshot to the live fields (DriftInv).  The other facts   *)
(* rest on these two: a plan is only run while it is valid, and a field    *)
(* only differs from its snapshot in representation when it needed to be   *)
(* promoted, which no field does while a step is under way.                *)
(***************************************************************************)
EXTENDS ContextExecution, FiniteSetTheorems, TLAPS

\* A plan of the operators is a sequence of their numbers.
LEMMA PlanType ==
  ASSUME ops \in Seq(OperatorRecords), NEW p \in ValidPlans(ops)
  PROVE  /\ p \in Seq(Nat)
         /\ Len(p) = Len(ops)
         /\ \A j \in 1 .. Len(p) : p[j] \in DOMAIN ops
<1>1. DOMAIN ops = 1 .. Len(ops) /\ Len(ops) \in Nat
  OBVIOUS
<1>2. p \in [1 .. Len(ops) -> 1 .. Len(ops)]
  BY <1>1 DEF ValidPlans
<1>3. p \in [1 .. Len(ops) -> Nat]
  BY <1>2
<1>4. p \in Seq(Nat) /\ Len(p) = Len(ops)
  BY <1>1, <1>3
<1> QED BY <1>1, <1>2, <1>4

\* The promotion loop keeps the table, the marks and the data, and changes the
\* storage only of fields that need it; a loop that ends leaves none of those.
LEMMA PromotedFacts ==
  ASSUME fields \in Seq(FieldRecords), NEW k \in Nat
  PROVE  /\ Promoted(k) \in Seq(FieldRecords)
         /\ Len(Promoted(k)) = Len(fields)
         /\ \A j \in DOMAIN fields :
              /\ Promoted(k)[j].marked = fields[j].marked
              /\ NeedsPromotion(fields[j]) \/ Promoted(k)[j].complex = fields[j].complex
              /\ j <= k => ~NeedsPromotion(Promoted(k)[j])
<1>1. DOMAIN fields = 1 .. Len(fields) /\ Len(fields) \in Nat
  OBVIOUS
<1>2. \A j \in DOMAIN fields : fields[j] \in FieldRecords
  OBVIOUS
<1>3. \A j \in DOMAIN fields :
        /\ Promoted(k)[j] \in FieldRecords
        /\ Promoted(k)[j].marked = fields[j].marked
        /\ NeedsPromotion(fields[j]) \/ Promoted(k)[j].complex = fields[j].complex
        /\ j <= k => ~NeedsPromotion(Promoted(k)[j])
  BY <1>2 DEF Promoted, NeedsPromotion, FieldRecords
<1>4. Promoted(k) \in [1 .. Len(fields) -> FieldRecords]
  BY <1>1, <1>3 DEF Promoted
<1>5. Promoted(k) \in Seq(FieldRecords) /\ Len(Promoted(k)) = Len(fields)
  BY <1>1, <1>4
<1> QED BY <1>3, <1>5

\* What sim_context_prepare_plan leaves behind, whatever fails in it.
LEMMA PrepareFacts ==
  ASSUME TypeOK, PlanIsCurrent, NEW r \in PrepareOutcomes
  PROVE  /\ r.fields \in Seq(FieldRecords) /\ Len(r.fields) = Len(fields)
         /\ r.planValid \in BOOLEAN /\ r.plan \in Seq(Nat)
         /\ r.planValid => ~DanglingDependency(ops) /\ r.plan \in ValidPlans(ops)
         /\ r.ok => r.planValid /\ \A j \in DOMAIN r.fields : ~NeedsPromotion(r.fields[j])
         /\ \A j \in DOMAIN fields :
              /\ r.fields[j].marked = fields[j].marked
              /\ NeedsPromotion(fields[j]) \/ r.fields[j].complex = fields[j].complex
<1> USE DEF TypeOK, PlanIsCurrent
<1>1. DOMAIN fields = 1 .. Len(fields) /\ Len(fields) \in Nat
  OBVIOUS
<1>2. /\ Promoted(Len(fields)) \in Seq(FieldRecords)
      /\ Len(Promoted(Len(fields))) = Len(fields)
      /\ \A j \in DOMAIN fields :
              /\ Promoted(Len(fields))[j].marked = fields[j].marked
              /\ NeedsPromotion(fields[j])
                 \/ Promoted(Len(fields))[j].complex = fields[j].complex
              /\ ~NeedsPromotion(Promoted(Len(fields))[j])
  BY <1>1, PromotedFacts
<1>3. DOMAIN Promoted(Len(fields)) = DOMAIN fields
  BY DEF Promoted
<1>4. CASE \E k \in DOMAIN fields : r = Prepared(Promoted(k - 1), planValid, plan, FALSE)
  <2>1. PICK k \in DOMAIN fields : r = Prepared(Promoted(k - 1), planValid, plan, FALSE)
    BY <1>4
  <2>2. k - 1 \in Nat
    BY <1>1
  <2>3. /\ Promoted(k - 1) \in Seq(FieldRecords)
        /\ Len(Promoted(k - 1)) = Len(fields)
        /\ \A j \in DOMAIN fields :
              /\ Promoted(k - 1)[j].marked = fields[j].marked
              /\ NeedsPromotion(fields[j]) \/ Promoted(k - 1)[j].complex = fields[j].complex
    BY <2>2, PromotedFacts
  <2>4. r.fields = Promoted(k - 1) /\ r.planValid = planValid /\ r.plan = plan /\ r.ok = FALSE
    BY <2>1 DEF Prepared
  <2> QED BY <2>3, <2>4
<1>5. CASE \E v \in BOOLEAN : /\ r = Prepared(Promoted(Len(fields)), v, plan, v)
                              /\ v => planValid
  BY <1>2, <1>3, <1>5 DEF Prepared
<1>6. CASE r = Prepared(Promoted(Len(fields)), planValid, plan, FALSE)
  BY <1>2, <1>3, <1>6 DEF Prepared
<1>7. CASE r = Prepared(Promoted(Len(fields)), FALSE, << >>, FALSE)
  BY <1>2, <1>3, <1>7 DEF Prepared
<1>8. CASE ~DanglingDependency(ops) /\ \E p \in ValidPlans(ops) :
             r = Prepared(Promoted(Len(fields)), TRUE, p, TRUE)
  BY <1>2, <1>3, <1>8, PlanType DEF Prepared
<1> QED
  <2>1. \/ \E k \in DOMAIN fields : r = Prepared(Promoted(k - 1), planValid, plan, FALSE)
        \/ r = Prepared(Promoted(Len(fields)), planValid, plan, FALSE)
        \/ planValid /\ r = Prepared(Promoted(Len(fields)), TRUE, plan, TRUE)
        \/ r = Prepared(Promoted(Len(fields)), FALSE, << >>, FALSE)
        \/ ~DanglingDependency(ops) /\ \E p \in ValidPlans(ops) :
             r = Prepared(Promoted(Len(fields)), TRUE, p, TRUE)
    BY Zenon DEF PrepareOutcomes
  <2> QED BY <2>1, <1>4, <1>5, <1>6, <1>7, <1>8

\* An evaluation changes data only.
LEMMA ChangedFacts ==
  ASSUME TypeOK, NEW S, NEW F \in Changed(S)
  PROVE  /\ F \in Seq(FieldRecords) /\ Len(F) = Len(fields)
         /\ \A k \in DOMAIN fields : /\ F[k].complex = fields[k].complex
                                     /\ F[k].marked = fields[k].marked
<1>1. DOMAIN fields = 1 .. Len(fields) /\ Len(fields) \in Nat
      /\ \A k \in DOMAIN fields : fields[k] \in FieldRecords
  BY DEF TypeOK
<1>2. PICK w \in [DOMAIN fields -> Contents] :
        F = [k \in DOMAIN fields |-> [fields[k] EXCEPT !.data = w[k]]]
  BY DEF Changed
<1>3. \A k \in DOMAIN fields : /\ F[k] \in FieldRecords
                               /\ F[k].complex = fields[k].complex
                               /\ F[k].marked = fields[k].marked
  BY <1>1, <1>2 DEF FieldRecords
<1>4. F \in [1 .. Len(fields) -> FieldRecords]
  BY <1>1, <1>2, <1>3
<1>5. F \in Seq(FieldRecords) /\ Len(F) = Len(fields)
  BY <1>1, <1>4
<1> QED BY <1>3, <1>5

\* A table that gains an entry.
LEMMA Grows ==
  ASSUME NEW S, NEW s \in Seq(S), NEW e \in S
  PROVE  /\ Append(s, e) \in Seq(S) /\ Len(Append(s, e)) = Len(s) + 1
         /\ Append(s, e) \in [1 .. Len(s) + 1 -> S]
<1>1. Append(s, e) \in Seq(S) /\ Len(Append(s, e)) = Len(s) + 1
  OBVIOUS
<1>2. ASSUME NEW t \in Seq(S) PROVE t \in [1 .. Len(t) -> S]
  OBVIOUS
<1>3. Append(s, e) \in [1 .. Len(Append(s, e)) -> S]
  BY <1>1, <1>2
<1> QED BY <1>1, <1>3

\* Tables of one length have one domain.
LEMMA SameDomain ==
  ASSUME NEW S, NEW s \in Seq(S), NEW T, NEW t \in Seq(T), Len(s) = Len(t)
  PROVE  DOMAIN s = DOMAIN t
OBVIOUS

\* Storing data in one field, or marking it, keeps the table.
LEMMA UpdateData ==
  ASSUME fields \in Seq(FieldRecords), NEW k \in DOMAIN fields, NEW v \in Contents
  PROVE  /\ [fields EXCEPT ![k].data = v] \in Seq(FieldRecords)
         /\ Len([fields EXCEPT ![k].data = v]) = Len(fields)
         /\ \A j \in DOMAIN fields :
              /\ [fields EXCEPT ![k].data = v][j].complex = fields[j].complex
              /\ [fields EXCEPT ![k].data = v][j].marked = fields[j].marked
              /\ j # k => [fields EXCEPT ![k].data = v][j] = fields[j]
<1>0. fields[k] \in FieldRecords
  OBVIOUS
<1>1. [fields[k] EXCEPT !.data = v] \in FieldRecords
  BY <1>0 DEF FieldRecords
<1>2. [fields EXCEPT ![k].data = v] = [fields EXCEPT ![k] = [fields[k] EXCEPT !.data = v]]
  OBVIOUS
<1> QED BY <1>1, <1>2 DEF FieldRecords

LEMMA MarkField ==
  ASSUME fields \in Seq(FieldRecords), NEW k \in DOMAIN fields
  PROVE  /\ [fields EXCEPT ![k].marked = TRUE] \in Seq(FieldRecords)
         /\ Len([fields EXCEPT ![k].marked = TRUE]) = Len(fields)
<1>0. fields[k] \in FieldRecords
  OBVIOUS
<1>1. [fields[k] EXCEPT !.marked = TRUE] \in FieldRecords
  BY <1>0 DEF FieldRecords
<1>2. [fields EXCEPT ![k].marked = TRUE]
        = [fields EXCEPT ![k] = [fields[k] EXCEPT !.marked = TRUE]]
  OBVIOUS
<1> QED BY <1>1, <1>2

\* Registering a dependency keeps the registry.
LEMMA UpdateDeps ==
  ASSUME ops \in Seq(OperatorRecords), NEW a \in DOMAIN ops, NEW b \in DOMAIN ops
  PROVE  /\ [ops EXCEPT ![a].deps = Append(@, b)] \in Seq(OperatorRecords)
         /\ DOMAIN [ops EXCEPT ![a].deps = Append(@, b)] = DOMAIN ops
<1>1. ops[a] \in OperatorRecords /\ b \in Nat \ {0}
  OBVIOUS
<1>2. Append(ops[a].deps, b) \in Seq(Nat \ {0})
  BY <1>1 DEF OperatorRecords
<1>3. [ops[a] EXCEPT !.deps = Append(@, b)] \in OperatorRecords
  BY <1>1, <1>2 DEF OperatorRecords
<1>4. [ops EXCEPT ![a].deps = Append(@, b)]
        = [ops EXCEPT ![a] = [ops[a] EXCEPT !.deps = Append(@, b)]]
  OBVIOUS
<1> QED BY <1>3, <1>4

\* The restored field table.
LEMMA RestoredFacts ==
  ASSUME TypeOK, DriftInv, drifting
  PROVE  LET F == [k \in DOMAIN fields |-> Restored(k)]
         IN /\ F \in Seq(FieldRecords) /\ Len(F) = Len(fields)
            /\ \A k \in DOMAIN fields :
                 /\ F[k].complex = fields[k].complex /\ F[k].marked = fields[k].marked
                 /\ ~NeedsPromotion(snapshot[k]) => F[k] = snapshot[k]
<1> DEFINE F == [k \in DOMAIN fields |-> Restored(k)]
<1>1. /\ DOMAIN fields = 1 .. Len(fields) /\ Len(fields) \in Nat
      /\ DOMAIN snapshot = DOMAIN fields
      /\ \A k \in DOMAIN fields : fields[k] \in FieldRecords /\ snapshot[k] \in FieldRecords
  BY DEF TypeOK, DriftInv
<1>2. \A k \in DOMAIN fields :
        /\ F[k] \in FieldRecords
        /\ F[k].complex = fields[k].complex /\ F[k].marked = fields[k].marked
  BY <1>1 DEF Restored, FieldRecords, Contents
<1>3. \A k \in DOMAIN fields : ~NeedsPromotion(snapshot[k]) => F[k] = snapshot[k]
  BY <1>1 DEF Restored, FieldRecords, DriftInv
<1>4. F \in [1 .. Len(fields) -> FieldRecords]
  BY <1>1, <1>2
<1>5. F \in Seq(FieldRecords) /\ Len(F) = Len(fields)
  BY <1>1, <1>4
<1> QED BY <1>2, <1>3, <1>5
-------------------------------------------------------------------------------
\* A function on the domain of a sequence is a sequence of the same length.
LEMMA CounterSeq ==
  ASSUME NEW A, NEW B, NEW s \in Seq(A), NEW f \in [DOMAIN s -> B]
  PROVE  f \in Seq(B) /\ Len(f) = Len(s)
<1>1. DOMAIN s = 1 .. Len(s) /\ Len(s) \in Nat
  OBVIOUS
<1>2. f \in [1 .. Len(s) -> B]
  BY <1>1
<1> QED BY <1>1, <1>2

LEMMA InitIInv == Init => IInv
<1> SUFFICES ASSUME Init PROVE IInv
  OBVIOUS
<1>1. opState \in [DOMAIN ops -> Values] /\ dirty \in [DOMAIN fields -> Nat]
  BY DEF Init
<1>2. TypeOK
  <2>1. /\ fields \in Seq(FieldRecords) /\ ops \in Seq(OperatorRecords) /\ plan \in Seq(Nat)
        /\ snapshot \in Seq(FieldRecords) /\ stepEntry \in Seq(FieldRecords)
    BY DEF Init
  <2>2. planValid \in BOOLEAN /\ override \in BOOLEAN /\ drifting \in BOOLEAN
    BY DEF Init
  <2>3. depth \in Nat /\ pos \in Nat \ {0} /\ stepping \in 0 .. Len(fields)
    BY <2>1 DEF Init
  <2> QED BY <1>1, <2>1, <2>2, <2>3 DEF Init, TypeOK, Phases
<1> QED BY <1>2 DEF Init, IInv, CallInv, DriftInv, PlanIsCurrent, OverrideOnlyInDrift, StepIsolated

LEMMA NextIInv == IInv /\ [Next]_vars => IInv'
<1> SUFFICES ASSUME IInv, [Next]_vars PROVE IInv'
  OBVIOUS
<1> USE DEF IInv
<1> DEFINE Unmoved == UNCHANGED <<fields, ops, opState, schedule, dirty, call, history>>
<1>1. CASE UNCHANGED vars
  BY <1>1 DEF vars, schedule, driftMode, call, history, TypeOK, CallInv, DriftInv, PlanIsCurrent,
     OverrideOnlyInDrift, StepIsolated
<1>2. ASSUME NEW f \in FieldChoices, AddField(f) PROVE IInv'
  <2>1. f \in FieldRecords
    BY ExecutionAssumption DEF FieldRecords, Contents
  <2>2. TypeOK'
    <3>1. /\ fields' \in Seq(FieldRecords) /\ Len(fields') = Len(fields) + 1
          /\ DOMAIN fields' = 1 .. Len(fields) + 1
      BY <1>2, <2>1 DEF AddField, TypeOK
    <3>2. dirty \in Seq(Nat) /\ Len(dirty) = Len(fields)
      BY CounterSeq DEF TypeOK
    <3>3. dirty' \in [1 .. Len(fields) + 1 -> Nat]
      BY <1>2, <3>2, Grows DEF AddField
    <3>4. dirty' \in [DOMAIN fields' -> Nat]
      BY <3>1, <3>3
    <3>5. planValid' \in BOOLEAN
      BY <1>2 DEF AddField
    <3>6. stepping' \in 0 .. Len(fields')
      BY <1>2, <3>1 DEF AddField, call, TypeOK
    <3> QED BY <1>2, <3>1, <3>4, <3>5, <3>6 DEF AddField, driftMode, call, history, TypeOK
  <2> QED BY <1>2, <2>2 DEF AddField, driftMode, call, history, CallInv, DriftInv, PlanIsCurrent,
             OverrideOnlyInDrift, StepIsolated
<1>3. ASSUME NEW k \in DOMAIN fields, MarkComplex(k) PROVE IInv'
  <2>1. TypeOK'
    BY <1>3, MarkField DEF MarkComplex, schedule, driftMode, call, history, TypeOK
  <2> QED BY <1>3, <2>1 DEF MarkComplex, schedule, driftMode, call, history, CallInv, DriftInv,
             PlanIsCurrent, OverrideOnlyInDrift, StepIsolated
<1>4. ASSUME NEW d \in Descriptors, NEW s \in Values, RegisterOperator(d, s) PROVE IInv'
  <2>1. TypeOK'
    <3>1. d \in OperatorRecords
      BY ExecutionAssumption
    <3>2. /\ ops' \in Seq(OperatorRecords) /\ Len(ops') = Len(ops) + 1
          /\ DOMAIN ops' = 1 .. Len(ops) + 1
      BY <1>4, <3>1 DEF RegisterOperator, TypeOK
    <3>3. opState \in Seq(Values) /\ Len(opState) = Len(ops)
      BY CounterSeq DEF TypeOK
    <3>4. opState' \in [1 .. Len(ops) + 1 -> Values]
      BY <1>4, <3>3, Grows DEF RegisterOperator
    <3> QED BY <1>4, <3>2, <3>4 DEF RegisterOperator, driftMode, call, history, TypeOK
  <2> QED BY <1>4, <2>1 DEF RegisterOperator, driftMode, call, history, CallInv, DriftInv,
             PlanIsCurrent, OverrideOnlyInDrift, StepIsolated
<1>5. ASSUME NEW a \in DOMAIN ops, NEW b \in DOMAIN ops, AddOperatorDependency(a, b) PROVE IInv'
  <2>1. TypeOK'
    BY <1>5, UpdateDeps DEF AddOperatorDependency, driftMode, call, history, TypeOK
  <2> QED BY <1>5, <2>1 DEF AddOperatorDependency, driftMode, call, history, CallInv, DriftInv,
             PlanIsCurrent, OverrideOnlyInDrift, StepIsolated
<1>6. CASE PreparePlan
  <2>1. PICK r \in PrepareOutcomes : AfterPrepare(r)
    BY <1>6 DEF PreparePlan
  <2>2. TypeOK'
    BY <1>6, <2>1, PrepareFacts DEF PreparePlan, AfterPrepare, driftMode, call, history, TypeOK
  <2>3. PlanIsCurrent'
    BY <1>6, <2>1, PrepareFacts DEF PreparePlan, AfterPrepare, call, PlanIsCurrent
  <2> QED BY <1>6, <2>2, <2>3 DEF PreparePlan, driftMode, call, history, CallInv, DriftInv,
             OverrideOnlyInDrift, StepIsolated
<1>7. CASE Execute
  <2>1. PICK r \in PrepareOutcomes : r.ok /\ AfterPrepare(r) /\ EnterPlan
    BY <1>7 DEF Execute
  <2>2. TypeOK'
    BY <1>7, <2>1, PrepareFacts DEF Execute, AfterPrepare, EnterPlan, ResetContinuityCounters,
       driftMode, history, TypeOK, Phases
  <2>3. PlanIsCurrent' /\ planValid'
    BY <1>7, <2>1, PrepareFacts DEF Execute, AfterPrepare, PlanIsCurrent
  <2> QED BY <1>7, <2>1, <2>2, <2>3 DEF Execute, EnterPlan, driftMode, history, CallInv, DriftInv,
             OverrideOnlyInDrift, StepIsolated
<1>8. CASE ApplyOperator \/ OperatorFails
  <2>1. Current \in DOMAIN ops
    BY <1>8, PlanType DEF ApplyOperator, OperatorFails, PlanIsCurrent, TypeOK, Current
  <2>2. PICK s \in Values : StateAfter(Current, s)
    BY <1>8 DEF ApplyOperator, OperatorFails
  <2>3. PICK S : fields' \in Changed(S)
    BY <1>8 DEF ApplyOperator, OperatorFails
  <2>4. UNCHANGED <<ops, planValid, plan, depth, override, drifting, stepping, snapshot,
                    entry, stepEntry>>
    BY <1>8 DEF ApplyOperator, OperatorFails, schedule, driftMode, history
  <2>5. /\ fields' \in Seq(FieldRecords) /\ Len(fields') = Len(fields)
        /\ \A k \in DOMAIN fields : /\ fields'[k].complex = fields[k].complex
                                    /\ fields'[k].marked = fields[k].marked
    BY <2>3, ChangedFacts
  <2>0. DOMAIN fields' = DOMAIN fields
    BY <2>5, SameDomain DEF TypeOK
  <2>6. opState' \in [DOMAIN ops -> Values]
        /\ (depth > 0 => \A o \in DOMAIN ops : ops[o].saves => opState'[o] = opState[o])
    BY <2>1, <2>2 DEF StateAfter, KeepsState, InDrift, TypeOK
  <2>7. /\ dirty' \in [DOMAIN fields' -> Nat] /\ pos' \in Nat \ {0}
        /\ pc = "run"
        /\ pc' \in {"run", IF drifting THEN "drift_restore" ELSE "idle"}
    <3>1. dirty \in [DOMAIN fields -> Nat] /\ pos \in Nat \ {0}
      BY DEF TypeOK
    <3>2. dirty' \in [DOMAIN fields' -> Nat]
      <4>1. CASE CountWrites(Current)
        BY <2>0, <3>1, <4>1 DEF CountWrites
      <4>2. CASE dirty' = dirty
        BY <2>0, <3>1, <4>2
      <4> QED BY <1>8, <4>1, <4>2 DEF ApplyOperator, OperatorFails
    <3>3. pos' \in Nat \ {0}
      BY <1>8, <3>1 DEF ApplyOperator, OperatorFails
    <3>4. pc = "run" /\ pc' \in {"run", IF drifting THEN "drift_restore" ELSE "idle"}
      BY <1>8 DEF ApplyOperator, OperatorFails, Return
    <3> QED BY <3>2, <3>3, <3>4
  <2>8. TypeOK'
    BY <2>4, <2>5, <2>6, <2>7 DEF TypeOK, Phases
  <2>9. CallInv'
    BY <2>4, <2>5, <2>0, <2>7 DEF CallInv, NeedsPromotion
  <2>10. DriftInv'
    BY <2>4, <2>5, <2>0, <2>6, <2>7 DEF DriftInv, TypeOK
  <2>11. PlanIsCurrent' /\ OverrideOnlyInDrift'
    BY <2>4, <2>7 DEF PlanIsCurrent, OverrideOnlyInDrift, CallInv
  <2>12. StepIsolated'
    BY <2>4, <2>5, <2>7 DEF StepIsolated, TypeOK
  <2> QED BY <2>8, <2>9, <2>10, <2>11, <2>12
<1>9. CASE ExecuteReturns
  BY <1>9 DEF ExecuteReturns, Return, schedule, driftMode, history, TypeOK, CallInv, DriftInv,
     PlanIsCurrent, OverrideOnlyInDrift, StepIsolated, Phases
<1>10. CASE BeginDrift \/ EndDrift \/ SetDriftTimeOverride \/ ClearDriftTimeOverride
  <2>1. Unmoved /\ pc = "idle"
    BY <1>10 DEF BeginDrift, EndDrift, SetDriftTimeOverride, ClearDriftTimeOverride
  <2>2. depth' \in Nat /\ override' \in BOOLEAN /\ OverrideOnlyInDrift'
    <3>1. CASE EndDrift
      <4>1. depth' = depth - 1 /\ depth \in Nat /\ depth > 0
        BY <3>1 DEF EndDrift, LeaveDrift, TypeOK
      <4>2. override' = (override /\ depth > 1)
        BY <3>1 DEF EndDrift, LeaveDrift
      <4>3. override' \in BOOLEAN /\ (override' => depth > 1)
        BY <4>2, Zenon
      <4> QED BY <4>1, <4>3 DEF OverrideOnlyInDrift
    <3>2. CASE BeginDrift
      <4>1. depth' = depth + 1 /\ depth \in Nat /\ override' = override
        BY <3>2 DEF BeginDrift, TypeOK
      <4>2. override' \in BOOLEAN
        BY <4>1, Zenon DEF TypeOK
      <4> QED BY <4>1, <4>2 DEF OverrideOnlyInDrift
    <3>3. CASE SetDriftTimeOverride
      BY <3>3 DEF SetDriftTimeOverride, TypeOK, OverrideOnlyInDrift
    <3>4. CASE ClearDriftTimeOverride
      BY <3>4 DEF ClearDriftTimeOverride, TypeOK, OverrideOnlyInDrift
    <3> QED BY <1>10, <3>1, <3>2, <3>3, <3>4
  <2> QED BY <2>1, <2>2 DEF schedule, call, history, TypeOK, CallInv, DriftInv, PlanIsCurrent,
             StepIsolated
<1>11. ASSUME NEW k \in DOMAIN fields, NEW v \in Values, DriftBegin(k, v) PROVE IInv'
  <2>1. v \in Contents
    BY DEF Contents
  <2>2. /\ fields' \in Seq(FieldRecords) /\ Len(fields') = Len(fields)
        /\ \A j \in DOMAIN fields : /\ fields'[j].complex = fields[j].complex
                                    /\ fields'[j].marked = fields[j].marked
    <3>1. fields' = fields \/ fields' = [fields EXCEPT ![k].data = v]
      BY <1>11 DEF DriftBegin, SnapshotThenWrite
    <3>2. fields \in Seq(FieldRecords)
      BY DEF TypeOK
    <3>3. CASE fields' = fields
      BY <3>2, <3>3
    <3>4. CASE fields' = [fields EXCEPT ![k].data = v]
      BY <2>1, <3>2, <3>4, UpdateData
    <3> QED BY <3>1, <3>3, <3>4
  <2>0. DOMAIN fields' = DOMAIN fields
    BY <2>2, SameDomain DEF TypeOK
  <2>3. snapshot' = fields /\ pc' \in {"drift_plan", "drift_restore"}
    BY <1>11 DEF DriftBegin, SnapshotThenWrite
  <2>4. TypeOK'
    BY <1>11, <2>2, <2>0, <2>3 DEF DriftBegin, schedule, TypeOK, Phases
  <2>5. CallInv'
    BY <1>11, <2>2, <2>0, <2>3 DEF DriftBegin, schedule, CallInv, NeedsPromotion
  <2>6. StepIsolated'
    BY <1>11, <2>2, <2>0, <2>3 DEF DriftBegin, StepIsolated, TypeOK
  <2>7. stepping # 0 => fields = stepEntry
    BY <1>11 DEF DriftBegin, StepIsolated, CallInv
  <2>8. DriftInv'
    BY <1>11, <2>2, <2>0, <2>3, <2>7 DEF DriftBegin, DriftInv, TypeOK
  <2>9. PlanIsCurrent' /\ OverrideOnlyInDrift'
    BY <1>11, <2>3 DEF DriftBegin, schedule, PlanIsCurrent, OverrideOnlyInDrift, TypeOK
  <2> QED BY <2>4, <2>5, <2>6, <2>8, <2>9
<1>12. CASE DriftUsesPlan
  <2>1. dirty' \in [DOMAIN fields -> Nat]
    BY <1>12 DEF DriftUsesPlan, EnterPlan, ResetContinuityCounters, TypeOK
  <2> QED BY <1>12, <2>1 DEF DriftUsesPlan, EnterPlan, schedule, driftMode, history, TypeOK,
             CallInv, DriftInv, PlanIsCurrent, OverrideOnlyInDrift, StepIsolated, Phases
<1>13. CASE DriftPreparesPlan
  <2>1. PICK r \in PrepareOutcomes :
          /\ AfterPrepare(r)
          /\ IF r.ok THEN EnterPlan ELSE pc' = "drift_restore" /\ UNCHANGED <<dirty, pos>>
    BY <1>13 DEF DriftPreparesPlan
  <2>2. stepping = 0 /\ drifting
    BY <1>13 DEF DriftPreparesPlan, CallInv
  <2>3. UNCHANGED <<ops, opState, depth, override, drifting, stepping, snapshot, entry, stepEntry>>
    BY <1>13 DEF DriftPreparesPlan, driftMode, history
  <2>4. /\ fields' \in Seq(FieldRecords) /\ Len(fields') = Len(fields)
        /\ planValid' \in BOOLEAN /\ plan' \in Seq(Nat)
        /\ planValid' => ~DanglingDependency(ops) /\ plan' \in ValidPlans(ops)
        /\ r.ok => planValid'
        /\ \A j \in DOMAIN fields :
             /\ fields'[j].marked = fields[j].marked
             /\ NeedsPromotion(fields[j]) \/ fields'[j].complex = fields[j].complex
    BY <2>1, PrepareFacts DEF AfterPrepare
  <2>0. DOMAIN fields' = DOMAIN fields
    BY <2>4, SameDomain DEF TypeOK
  <2>5. /\ dirty' \in [DOMAIN fields' -> Nat] /\ pos' \in Nat \ {0}
        /\ pc' \in {"run", "drift_restore"}
        /\ pc' = "run" => planValid'
    BY <2>1, <2>4, <2>0 DEF EnterPlan, ResetContinuityCounters, TypeOK
  <2>6. TypeOK'
    BY <2>3, <2>4, <2>5 DEF TypeOK, Phases
  <2>7. CallInv' /\ StepIsolated' /\ OverrideOnlyInDrift' /\ PlanIsCurrent'
    BY <2>2, <2>3, <2>4, <2>5 DEF CallInv, StepIsolated, OverrideOnlyInDrift, PlanIsCurrent
  <2>8. DriftInv'
    BY <2>2, <2>3, <2>4, <2>0 DEF DriftInv, NeedsPromotion
  <2> QED BY <2>6, <2>7, <2>8
<1>14. CASE DriftReturns
  <2>1. drifting
    BY <1>14 DEF DriftReturns, CallInv
  <2>2. /\ fields' \in Seq(FieldRecords) /\ Len(fields') = Len(fields)
        /\ \A k \in DOMAIN fields :
             /\ fields'[k].complex = fields[k].complex /\ fields'[k].marked = fields[k].marked
             /\ ~NeedsPromotion(snapshot[k]) => fields'[k] = snapshot[k]
    BY <1>14, <2>1, RestoredFacts DEF DriftReturns
  <2>0. DOMAIN fields' = DOMAIN fields
    BY <2>2, SameDomain DEF TypeOK
  <2>3. depth' \in Nat /\ override' \in BOOLEAN /\ OverrideOnlyInDrift'
    <3>1. depth' = depth - 1 /\ depth \in Nat /\ depth > 0
      BY <1>14, <2>1 DEF DriftReturns, LeaveDrift, DriftInv, TypeOK
    <3>2. override' = (override /\ depth > 1)
      BY <1>14 DEF DriftReturns, LeaveDrift
    <3>3. override' \in BOOLEAN /\ (override' => depth > 1)
      BY <3>2, Zenon
    <3> QED BY <3>1, <3>3 DEF OverrideOnlyInDrift
  <2>4. TypeOK'
    <3>1. pc' \in Phases /\ drifting' \in BOOLEAN
      BY <1>14, Zenon DEF DriftReturns, Phases
    <3>3. snapshot' \in Seq(FieldRecords)
      BY <1>14 DEF DriftReturns
    <3>2. UNCHANGED <<ops, opState, planValid, plan, dirty, pos, stepping, stepEntry>>
      BY <1>14 DEF DriftReturns, schedule
    <3> QED BY <2>2, <2>0, <2>3, <3>1, <3>2, <3>3 DEF TypeOK
  <2>5. CallInv'
    BY <1>14, <2>2, <2>0 DEF DriftReturns, schedule, CallInv, NeedsPromotion
  <2>6. PlanIsCurrent' /\ DriftInv'
    BY <1>14 DEF DriftReturns, schedule, PlanIsCurrent, DriftInv
  <2>7. ASSUME stepping # 0 PROVE fields' = stepEntry
    <3>1. snapshot = stepEntry /\ Len(fields) = Len(snapshot)
      BY <2>1, <2>7 DEF DriftInv
    <3>2. \A k \in DOMAIN fields : ~NeedsPromotion(snapshot[k])
      BY <2>1, <2>7 DEF DriftInv, CallInv, StepIsolated, NeedsPromotion, TypeOK
    <3>3. DOMAIN snapshot = DOMAIN fields
      BY <3>1, SameDomain DEF TypeOK
    <3>4. fields' \in Seq(FieldRecords) /\ snapshot \in Seq(FieldRecords)
          /\ Len(fields') = Len(snapshot)
          /\ \A k \in 1 .. Len(snapshot) : fields'[k] = snapshot[k]
      <4>1. snapshot \in Seq(FieldRecords) /\ DOMAIN snapshot = 1 .. Len(snapshot)
        BY DEF TypeOK
      <4> QED BY <2>2, <3>1, <3>2, <3>3, <4>1
    <3>5. fields' = snapshot
      BY <3>4
    <3> QED BY <3>1, <3>5
  <2>8. StepIsolated'
    BY <1>14, <2>2, <2>0, <2>7 DEF DriftReturns, StepIsolated, TypeOK
  <2> QED BY <2>3, <2>4, <2>5, <2>6, <2>8
<1>15. ASSUME NEW k \in DOMAIN fields, StepBegin(k) PROVE IInv'
  <2>1. PICK r \in PrepareOutcomes : r.ok /\ AfterPrepare(r) /\ stepEntry' = r.fields
    BY <1>15 DEF StepBegin
  <2>2. /\ fields' \in Seq(FieldRecords) /\ Len(fields') = Len(fields)
        /\ planValid' \in BOOLEAN /\ plan' \in Seq(Nat)
        /\ ~DanglingDependency(ops) /\ plan' \in ValidPlans(ops) /\ planValid'
        /\ \A j \in DOMAIN fields' : ~NeedsPromotion(fields'[j])
        /\ stepEntry' = fields'
    BY <2>1, PrepareFacts DEF AfterPrepare
  <2>3. k \in 1 .. Len(fields)
    BY DEF TypeOK
  <2>4. TypeOK'
    <3>1. DOMAIN fields' = DOMAIN fields
      BY <2>2, SameDomain DEF TypeOK
    <3> QED BY <1>15, <2>2, <2>3, <3>1 DEF StepBegin, driftMode, TypeOK, Phases
  <2>5. CallInv'
    BY <1>15, <2>2, <2>3 DEF StepBegin, CallInv, NeedsPromotion
  <2>6. PlanIsCurrent' /\ OverrideOnlyInDrift' /\ StepIsolated'
    BY <1>15, <2>2 DEF StepBegin, driftMode, PlanIsCurrent, OverrideOnlyInDrift, StepIsolated
  <2>7. DriftInv'
    BY <1>15 DEF StepBegin, DriftInv, CallInv
  <2> QED BY <2>4, <2>5, <2>6, <2>7
<1>16. CASE StepEnd
  <2>1. PICK v \in Values \cup {fields[stepping].data} :
          fields' = [fields EXCEPT ![stepping].data = v]
    BY <1>16 DEF StepEnd
  <2>2. stepping \in DOMAIN fields
    BY <1>16 DEF StepEnd, CallInv, TypeOK
  <2>3. v \in Contents
    <3>1. fields[stepping] \in FieldRecords
      BY <2>2 DEF TypeOK
    <3>2. fields[stepping].data \in Contents
      BY <3>1 DEF FieldRecords
    <3> QED BY <2>1, <3>2 DEF Contents
  <2>4. fields' \in Seq(FieldRecords) /\ Len(fields') = Len(fields)
    BY <2>1, <2>2, <2>3, UpdateData DEF TypeOK
  <2>0. DOMAIN fields' = DOMAIN fields
    BY <2>4, SameDomain DEF TypeOK
  <2>5. TypeOK'
    BY <1>16, <2>4, <2>0 DEF StepEnd, schedule, driftMode, TypeOK, Phases
  <2> QED BY <1>16, <2>5 DEF StepEnd, schedule, driftMode, CallInv, DriftInv, PlanIsCurrent,
             OverrideOnlyInDrift, StepIsolated
<1> QED BY <1>1, <1>2, <1>3, <1>4, <1>5, <1>6, <1>7, <1>8, <1>9, <1>10, <1>11, <1>12, <1>13,
           <1>14, <1>15, <1>16 DEF Next, Run

\* ContextExecution keeps its inductive invariant.
THEOREM ExecutionInvariant == Spec => []IInv
BY InitIInv, NextIInv, PTL DEF Spec

\* No plan but a plan of the registered operators is ever run or marked valid.
THEOREM ExecutedPlanIsCurrent == Spec => []PlanIsCurrent
BY ExecutionInvariant, PTL DEF IInv

\* A drift time override is gone when the drift mode is.
THEOREM OverrideConfined == Spec => []OverrideOnlyInDrift
BY ExecutionInvariant, PTL DEF IInv

\* A step sees its fields untouched between evaluations and never re-represented.
THEOREM StepsAreIsolated == Spec => []StepIsolated
BY ExecutionInvariant, PTL DEF IInv
-------------------------------------------------------------------------------
\* The counters of the first operators of a plan grow by one write at a time.
LEMMA HitsGrow ==
  ASSUME TypeOK, NEW k
  PROVE  /\ IsFiniteSet(Hits(k)) /\ Cardinality(Hits(k)) \in Nat
         /\ Cardinality(Hits(k) \cup {pos}) = Cardinality(Hits(k)) + 1
<1>1. pos \in Nat \ {0}
  BY DEF TypeOK
<1>2. IsFiniteSet(1 .. pos - 1)
  BY <1>1, FS_Interval
<1>3. Hits(k) \in SUBSET (1 .. pos - 1)
  BY DEF Hits
<1>4. IsFiniteSet(Hits(k))
  BY <1>2, <1>3, FS_Subset
<1>5. pos \notin Hits(k)
  BY <1>1, <1>3
<1> QED BY <1>4, <1>5, FS_AddElement, FS_CardinalityType

LEMMA NextContinuityCounted == IInv /\ ContinuityCounted /\ [Next]_vars => ContinuityCounted'
<1> SUFFICES ASSUME IInv, ContinuityCounted, [Next]_vars, pc' = "run",
                    NEW k \in DOMAIN dirty'
             PROVE  dirty'[k] = Cardinality(Hits(k)')
  BY DEF ContinuityCounted
<1>1. CASE EnterPlan
  <2>1. dirty'[k] = 0 /\ pos' = 1
    BY <1>1 DEF EnterPlan, ResetContinuityCounters
  <2>2. Hits(k)' = {}
    BY <2>1 DEF Hits
  <2> QED BY <2>1, <2>2, FS_EmptySet
<1>2. CASE ApplyOperator
  <2>1. /\ pos' = pos + 1 /\ pos \in Nat \ {0} /\ pc = "run" /\ k \in DOMAIN dirty
        /\ UNCHANGED <<depth, ops, plan>>
    BY <1>2 DEF ApplyOperator, CountWrites, schedule, driftMode, IInv, TypeOK
  <2>2. dirty[k] = Cardinality(Hits(k))
    BY <2>1 DEF ContinuityCounted
  <2>3. CASE depth = 0 /\ ops[plan[pos]].dirties /\ k \in ops[plan[pos]].write_mask
    <3>1. Hits(k)' = Hits(k) \cup {pos}
      BY <2>1, <2>3 DEF Hits
    <3>2. dirty'[k] = dirty[k] + 1
      BY <1>2, <2>1, <2>3 DEF ApplyOperator, CountWrites, InDrift, Current
    <3> QED BY <2>2, <3>1, <3>2, HitsGrow DEF IInv
  <2>4. CASE ~(depth = 0 /\ ops[plan[pos]].dirties /\ k \in ops[plan[pos]].write_mask)
    <3>1. Hits(k)' = Hits(k)
      BY <2>1, <2>4 DEF Hits
    <3>2. dirty'[k] = dirty[k]
      BY <1>2, <2>1, <2>4 DEF ApplyOperator, CountWrites, InDrift, Current, IInv, TypeOK
    <3> QED BY <2>2, <3>1, <3>2
  <2> QED BY <2>3, <2>4
<1>3. CASE UNCHANGED vars
  BY <1>3 DEF vars, call, driftMode, schedule, ContinuityCounted, Hits
<1>4. EnterPlan \/ ApplyOperator \/ UNCHANGED vars
  BY DEF Next, Run, AddField, MarkComplex, RegisterOperator, AddOperatorDependency, PreparePlan,
     Execute, OperatorFails, ExecuteReturns, Return, BeginDrift, EndDrift, SetDriftTimeOverride,
     ClearDriftTimeOverride, DriftBegin, DriftUsesPlan, DriftPreparesPlan, DriftReturns,
     StepBegin, StepEnd, call
<1> QED BY <1>1, <1>2, <1>3, <1>4

\* The continuity counters count the writes of the running execution and no other.
THEOREM ContinuityIsCounted == Spec => []ContinuityCounted
<1>1. Init => ContinuityCounted
  BY DEF Init, ContinuityCounted
<1> QED BY <1>1, NextContinuityCounted, ExecutionInvariant, PTL DEF Spec

\* A drift evaluation leaves no trace in the fields whose representation it need
\* not change, in operators with hooks, or in the drift depth.
THEOREM DriftEvaluationsLeaveNoTrace == Spec => DriftLeavesNoTrace
<1> DEFINE Kept ==
      drifting /\ ~drifting' =>
        /\ Len(fields') = Len(entry.fields)
        /\ \A k \in DOMAIN fields' : ~NeedsPromotion(entry.fields[k]) =>
             fields'[k] = entry.fields[k]
        /\ \A o \in DOMAIN ops : ops[o].saves => opState'[o] = entry.opState[o]
        /\ depth' = entry.depth
<1>1. IInv /\ [Next]_vars => Kept
  <2> SUFFICES ASSUME IInv, [Next]_vars, drifting, ~drifting' PROVE Kept
    BY Zenon
  <2>1. DriftReturns
    BY DEF Next, Run, AddField, MarkComplex, RegisterOperator, AddOperatorDependency, PreparePlan,
       Execute, ApplyOperator, OperatorFails, ExecuteReturns, BeginDrift, EndDrift,
       SetDriftTimeOverride, ClearDriftTimeOverride, DriftBegin, DriftUsesPlan,
       DriftPreparesPlan, StepBegin, StepEnd, call, vars
  <2>2. /\ fields' \in Seq(FieldRecords) /\ Len(fields') = Len(fields)
        /\ \A k \in DOMAIN fields : ~NeedsPromotion(snapshot[k]) => fields'[k] = snapshot[k]
    BY <2>1, RestoredFacts DEF DriftReturns, IInv
  <2>3. DOMAIN fields' = DOMAIN fields
    BY <2>2, SameDomain DEF IInv, TypeOK
  <2>4. snapshot = entry.fields /\ Len(fields) = Len(snapshot)
    BY DEF IInv, DriftInv
  <2>5. depth' = entry.depth
    BY <2>1 DEF DriftReturns, LeaveDrift, IInv, DriftInv
  <2>6. \A o \in DOMAIN ops : ops[o].saves => opState'[o] = entry.opState[o]
    BY <2>1 DEF DriftReturns, IInv, DriftInv
  <2> QED BY <2>2, <2>3, <2>4, <2>5, <2>6
<1>2. Spec => [][Kept]_vars
  BY <1>1, ExecutionInvariant, PTL DEF Spec
<1> QED BY <1>2 DEF DriftLeavesNoTrace
===============================================================================
